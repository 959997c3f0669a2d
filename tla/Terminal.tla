------------------------------ MODULE Terminal ------------------------------
(***************************************************************************)
(* The terminal of src/bootloader/include/bootloader_tty.h as efi_main     *)
(* uses it after ExitBootServices: initialise, clear, then any number of   *)
(* terminal_writestring calls.  (src/kernel/core/include/tty.h has the     *)
(* same functions.)                                                        *)
(*                                                                         *)
(* The framebuffer is modelled as memory: a pixel is its offset from       *)
(* framebuffer_addr, and nothing but this offset tells two pixels apart.   *)
(* A glyph may light any pixel of its square, so ink has the whole square. *)
(***************************************************************************)
EXTENDS Integers, Sequences

CONSTANTS
    CHARACTER_SIZE,    \* pixels per side of a character (8 in the code)
    Screens,           \* the modes the framebuffer may be in
    Strings,           \* the strings written; "NL" is the newline character
    MaxCalls           \* bound: calls of terminal_writestring

ScreenType == [width : Nat, height : Nat, pitch : Nat]

ASSUME TerminalAssumption ==
    /\ CHARACTER_SIZE \in Nat \ {0}
    /\ Screens \subseteq ScreenType
    /\ \A s \in Screens : CHARACTER_SIZE <= s.width /\ s.width <= s.pitch
    /\ \A s \in Strings : s \in Seq(STRING)
    /\ MaxCalls \in Nat

VARIABLES
    pc,                            \* what the caller or terminal_write does next
    fb,                            \* the mode of the framebuffer
    consoleWidth, consoleHeight,   \* in characters, -1 before initialisation
    cursorX, cursorY,
    data, i,                       \* the arguments and index of terminal_write
    ink,                           \* offsets of the lit pixels
    calls

vars == <<pc, fb, consoleWidth, consoleHeight, cursorX, cursorY, data, i, ink, calls>>

\* 4 * pitch * y + 4 * x, in pixels.
OffsetTransposed(x, y) == fb.pitch * x + y
Offset(x, y) == fb.pitch * y + x

Visible == {Offset(x, y) : x \in 0 .. fb.width - 1, y \in 0 .. fb.height - 1}

Framebuffer == 0 .. fb.pitch * fb.height - 1

Glyph(x, y) ==
    {Offset(CHARACTER_SIZE * x + X, CHARACTER_SIZE * y + Y) :
        X \in 0 .. CHARACTER_SIZE - 1, Y \in 0 .. CHARACTER_SIZE - 1}

\* The firmware's messages may be anywhere on the screen.
Init ==
    /\ pc = "initialize"
    /\ fb \in Screens
    /\ consoleWidth = -1 /\ consoleHeight = -1
    /\ cursorX = 1 /\ cursorY = 1
    /\ data = <<>> /\ i = 0
    /\ ink = Visible
    /\ calls = 0

terminal_initialize ==
    /\ pc = "initialize"
    /\ consoleHeight' = fb.height \div CHARACTER_SIZE
    /\ consoleWidth' = fb.width \div CHARACTER_SIZE
    /\ pc' = "clear"
    /\ UNCHANGED <<fb, cursorX, cursorY, data, i, ink, calls>>

Cleared == Visible

terminal_clear ==
    /\ pc = "clear"
    /\ ink' = ink \ Cleared
    /\ pc' = "idle"
    /\ UNCHANGED <<fb, consoleWidth, consoleHeight, cursorX, cursorY, data, i, calls>>

\* A terminal that has not been initialised ignores the call.
terminal_writestring ==
    /\ pc \in {"initialize", "idle"} /\ calls < MaxCalls
    /\ calls' = calls + 1
    /\ \/ consoleWidth = -1 /\ UNCHANGED <<pc, data, i>>
       \/ /\ consoleWidth # -1
          /\ data' \in Strings /\ i' = 0
          /\ pc' = "write"
    /\ UNCHANGED <<fb, consoleWidth, consoleHeight, cursorX, cursorY, ink>>

NextRowMissing == cursorY
NextRow == cursorY + 1

LineFullLate == cursorX + 1 > consoleWidth + 1
LineFull == cursorX + 1 > consoleWidth

\* One round of the loop of terminal_write for an ordinary character.
terminal_putc ==
    /\ pc = "write" /\ i < Len(data) /\ data[i + 1] # "NL"
    /\ ink' = ink \cup Glyph(cursorX, cursorY)
    /\ \/ ~LineFull /\ cursorX' = cursorX + 1 /\ UNCHANGED cursorY
       \/ LineFull /\ cursorX' = 1 /\ cursorY' = NextRow
    /\ i' = i + 1
    /\ UNCHANGED <<pc, fb, consoleWidth, consoleHeight, data, calls>>

\* The round for a newline ends in a break: the rest of the string is dropped.
NewLine ==
    /\ pc = "write" /\ i < Len(data) /\ data[i + 1] = "NL"
    /\ cursorX' = 1 /\ cursorY' = NextRow
    /\ pc' = "idle"
    /\ UNCHANGED <<fb, consoleWidth, consoleHeight, data, i, ink, calls>>

EndOfString ==
    /\ pc = "write" /\ i = Len(data)
    /\ pc' = "idle"
    /\ UNCHANGED <<fb, consoleWidth, consoleHeight, cursorX, cursorY, data, i, ink, calls>>

Next ==
    \/ terminal_initialize \/ terminal_clear \/ terminal_writestring
    \/ terminal_putc \/ NewLine \/ EndOfString

Spec == Init /\ [][Next]_vars

-----------------------------------------------------------------------------
CursorTypeOK ==
    IF pc = "initialize"
    THEN consoleWidth = -1 /\ consoleHeight = -1 /\ cursorX = 1
    ELSE /\ consoleWidth = fb.width \div CHARACTER_SIZE
         /\ consoleHeight = fb.height \div CHARACTER_SIZE
         /\ cursorX \in 1 .. consoleWidth

\* The cursor never leaves the columns 1 to consoleWidth.
TypeOK ==
    /\ pc \in {"initialize", "clear", "idle", "write"}
    /\ fb \in Screens
    /\ (data = <<>> \/ data \in Strings) /\ i \in 0 .. Len(data)
    /\ cursorY \in Nat \ {0} /\ calls \in 0 .. MaxCalls
    /\ ink \subseteq Nat
    /\ CursorTypeOK

\* No character is printed over another or over the firmware's messages, even
\* though the last column lies past the right edge, where its pixels are those
\* of the next line's left margin.  terminal_putc never erases, so a character
\* on top of another would make both illegible.
NoOverprint ==
    pc \in {"idle", "write"} => Glyph(cursorX, cursorY) \cap ink = {}

\* Nothing scrolls, but up to the last row but one no character is written
\* outside the framebuffer, not even in the last column.
InFramebuffer ==
    pc # "initialize" /\ cursorY < consoleHeight => ink \subseteq Framebuffer

\* bootloader_tty.h 100, "Writes the string `data` of length `length`": the
\* call returns after the last character and not before.
WholeStringWritten ==
    [][pc = "write" /\ pc' = "idle" => i' >= Len(data) - 1]_vars
=============================================================================
