----------------------------- MODULE BootScreen -----------------------------
(***************************************************************************)
(* The two terminals of a boot on one screen: efi_main's (the variables of *)
(* Terminal), which clears the screen and writes its messages, and that of *)
(* k_main (the variables with a k), which has a cursor of its own and      *)
(* clears nothing.  A screen scaled down to small characters has the same  *)
(* lines and columns, so that real messages can be checked.                *)
(***************************************************************************)
EXTENDS Terminal, SequencesExt

CONSTANTS
    Text,         \* the message of each name, as a string of Strings
    BootScreens   \* the modes a boot may find

LoaderMessages ==
    {"Loading", "magic", "class", "type", "machine", "PowerOff", "Unrecoverable", "Restart"}

\* The newline of a loader's message is its last character, the kernel's has none; the
\* longest, of 73, is shorter than a line of the smallest mode (640 by 480: 80 columns, 60
\* rows), which has more rows than the loader has messages and room for the pixels of k_main.
ASSUME BootScreenAssumption ==
    /\ DOMAIN Text = LoaderMessages \cup {"Hello"}
    /\ \A m \in DOMAIN Text : Text[m] \in Strings
    /\ \A m \in LoaderMessages :
         /\ Text[m] # <<>> /\ Last(Text[m]) = "NL"
         /\ \A k \in 1 .. Len(Text[m]) - 1 : Text[m][k] # "NL"
    /\ \A k \in DOMAIN Text["Hello"] : Text["Hello"][k] # "NL"
    /\ BootScreens \subseteq Screens
    /\ \A s \in BootScreens :
         /\ \A m \in DOMAIN Text : Len(Text[m]) < s.width \div CHARACTER_SIZE
         /\ s.width \div CHARACTER_SIZE >= 3 /\ s.height \div CHARACTER_SIZE >= 12

VARIABLES
    failed,     \* the header checks the kernel file fails
    kernel,     \* "k_main", or "other": a program that draws nothing and returns
    script,     \* messages efi_main still has to write
    marks,      \* the squares of the pixels k_main sets first
    kPc, kWidth, kHeight, kX, kY, kData, kI, kInk, kCalls

kTty == <<kPc, kWidth, kHeight, kX, kY, kData, kI, kInk, kCalls>>
screenVars == <<vars, failed, kernel, script, marks, kTty>>

KernelTty ==
    INSTANCE Terminal WITH
        pc <- kPc, consoleWidth <- kWidth, consoleHeight <- kHeight,
        cursorX <- kX, cursorY <- kY, data <- kData, i <- kI, ink <- kInk, calls <- kCalls

Checks == {"magic", "class", "type", "machine"}

\* What efi_main writes before the jump: each failed check has its message and
\* the advice to power off.
Warning(check, F) == IF check \in F THEN <<check, "PowerOff">> ELSE <<>>

Warnings(F) ==
    Warning("magic", F) \o Warning("class", F) \o Warning("type", F) \o Warning("machine", F)

LoaderScriptSilent(F) == Warnings(F)
LoaderScript(F) == <<"Loading">> \o Warnings(F)

BootInit ==
    /\ Init /\ fb \in BootScreens
    /\ failed \in SUBSET Checks
    /\ kernel \in {"k_main", "other"}
    /\ script = LoaderScript(failed)
    /\ marks = {}
    /\ kPc = "off" /\ kWidth = -1 /\ kHeight = -1 /\ kX = 1 /\ kY = 1
    /\ kData = <<>> /\ kI = 0 /\ kInk = {} /\ kCalls = 0

Write ==
    /\ pc = "idle" /\ script # <<>>
    /\ terminal_writestring /\ data' = Text[Head(script)]
    /\ script' = Tail(script)
    /\ UNCHANGED <<failed, kernel, marks, kTty>>

LoaderTty ==
    /\ terminal_initialize \/ terminal_clear \/ terminal_putc \/ NewLine \/ EndOfString
    /\ UNCHANGED <<failed, kernel, script, marks, kTty>>

\* k(framebuf, memoryMap) and the eight pixels, in the places (20 .. 23, 20),
\* (20, 21), (21, 22), (22, 23), (23, 24) of the screen: two squares of 8 by 8.
KernelMarks == Glyph(2, 2) \cup Glyph(2, 3)

Jump ==
    /\ pc = "idle" /\ script = <<>> /\ kPc = "off"
    /\ \/ kernel = "k_main" /\ marks' = KernelMarks /\ kPc' = "initialize" /\ UNCHANGED script
       \/ kernel = "other" /\ script' = <<"Unrecoverable", "Restart">>
          /\ kPc' = "returned" /\ UNCHANGED marks
    /\ UNCHANGED <<vars, failed, kernel, kWidth, kHeight, kX, kY, kData, kI, kInk, kCalls>>

\* After terminal_initialize k_main writes at once: Terminal's "clear" is left
\* without clearing.
NotCleared ==
    /\ kPc = "clear" /\ kPc' = "idle"
    /\ UNCHANGED <<fb, kWidth, kHeight, kX, kY, kData, kI, kInk, kCalls>>

WriteHello ==
    /\ kPc = "idle" /\ kCalls = 0 /\ KernelTty!terminal_writestring /\ kData' = Text["Hello"]

k_main ==
    /\ \/ KernelTty!terminal_initialize \/ NotCleared \/ WriteHello
       \/ KernelTty!terminal_putc \/ KernelTty!EndOfString
    /\ UNCHANGED <<pc, consoleWidth, consoleHeight, cursorX, cursorY, data, i, ink, calls,
                   failed, kernel, script, marks>>

BootNext == Write \/ LoaderTty \/ Jump \/ k_main

BootSpec == BootInit /\ [][BootNext]_screenVars

-----------------------------------------------------------------------------
\* The pixels of a line of characters, from edge to edge.
Line(n) ==
    {Offset(x, CHARACTER_SIZE * n + Y) :
        x \in 0 .. fb.pitch - 1, Y \in 0 .. CHARACTER_SIZE - 1}

OnScreen(p) == p % fb.pitch < fb.width /\ p \div fb.pitch < fb.height

\* Whatever checks the file fails and whoever writes, every message is on the
\* screen to its last character, although nothing scrolls, a line wraps one
\* column late, and a failed check does not stop the boot (bootloader.c 286-372).
EveryMessageOnScreen ==
    kPc # "none" /\ pc \notin {"initialize", "clear"} =>
        \A p \in ink \cup kInk \cup marks : OnScreen(p)

\* kernel.c 47-58: what the kernel draws falls on a screen that is not empty, with the
\* cursor of a fresh terminal.  Its text touches "Loading kernel...", which nobody needs any
\* more, and no other message and no mark.  Its eight pixels touch no message of a boot whose
\* file passes every check; after a failed check they fall into the second character of the
\* check's message and of the advice behind it, the lines 2 and 3.
KernelSparesMessages ==
    /\ kInk \cap (ink \cup marks)
         \subseteq UNION {Glyph(x, 1) : x \in 1 .. Len(Text["Loading"]) - 1}
    /\ failed = {} => marks \cap ink = {}

\* A message of the loader starts on a line that is empty on the whole screen,
\* its own terminal and the kernel's taken together.
MessagesOnFreshLines ==
    pc = "idle" /\ script # <<>> => Line(cursorY) \cap (ink \cup kInk \cup marks) = {}
=============================================================================
