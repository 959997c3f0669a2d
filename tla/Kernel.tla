------------------------------- MODULE Kernel -------------------------------
(***************************************************************************)
(* _start of the Rust kernel (main.rs): the clearing loop and the marks.   *)
(* A pixel is its offset from base_address; offsets from pitch * height on *)
(* are not the framebuffer's.  The memory map is passed and not read.      *)
(***************************************************************************)
EXTENDS Integers

CONSTANT Screens  \* records [width, height, pitch]

ASSUME KernelAssumption ==
    /\ Screens \subseteq [width : Nat, height : Nat, pitch : Nat]
    /\ \A s \in Screens : s.width <= s.pitch

VARIABLES
    kernelPc,  \* "clear", "marks", "loop"
    fb,        \* framebuffer_info
    y,         \* rounds of the clearing loop
    black, white

kernelVars == <<kernelPc, fb, y, black, white>>

KernelOff ==
    /\ kernelPc = "off" /\ fb = (CHOOSE s \in Screens : TRUE)
    /\ y = 0 /\ black = {} /\ white = {}

KernelInit ==
    /\ kernelPc = "clear" /\ fb \in Screens
    /\ y = 0 /\ black = {} /\ white = {}

\* framebuffer.offset((x * pitch + y) as isize)
TransposedByWidth(x, row) == x * fb.width + row
Transposed(x, row) == x * fb.pitch + row

ClearRow ==
    /\ kernelPc = "clear" /\ y < fb.height
    /\ black' = black \cup {Transposed(x, y) : x \in 0 .. fb.width - 1}
    /\ y' = y + 1
    /\ UNCHANGED <<kernelPc, fb, white>>

ClearDone ==
    /\ kernelPc = "clear" /\ y = fb.height
    /\ kernelPc' = "marks"
    /\ UNCHANGED <<fb, y, black, white>>

Marks ==
    /\ kernelPc = "marks"
    /\ white' = {row * fb.pitch + 5 : row \in 5 .. 12}
    /\ black' = black \ white'
    /\ kernelPc' = "loop"
    /\ UNCHANGED <<fb, y>>

KernelNext == ClearRow \/ ClearDone \/ Marks

KernelSpec == KernelInit /\ [][KernelNext]_kernelVars

-----------------------------------------------------------------------------
Visible == {row * fb.pitch + x : row \in 0 .. fb.height - 1, x \in 0 .. fb.width - 1}
Framebuffer == 0 .. fb.pitch * fb.height - 1

\* main.rs 29, "Clear screen": what the loop below the comment does.
ScreenCleared == kernelPc = "marks" => Visible \subseteq black

\* main.rs 29-36: where the transposed loop is right.  A square screen is cleared from edge
\* to edge, whatever lies between its lines; and on a screen that is no wider than it is
\* high, if not higher than a line is long, the loop stays in the framebuffer.
ClearsSquareScreens ==
    kernelPc = "marks" =>
        /\ fb.width = fb.height => Visible \subseteq black
        /\ fb.width <= fb.height /\ fb.height <= fb.pitch => black \subseteq Framebuffer
=============================================================================
