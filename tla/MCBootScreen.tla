---------------------------- MODULE MCBootScreen ----------------------------
(***************************************************************************)
(* Two uses of the terminal, at two pixels a character: a whole boot on    *)
(* the smallest mode in use (640 by 480 at eight pixels a character), with *)
(* messages as long as the literals of bootloader.c and kernel.c; and any  *)
(* calls at all on the screens of MCTerminal, of two or three characters a *)
(* line, where kPc = "none": no boot is around it.                         *)
(***************************************************************************)
EXTENDS BootScreen

Screen(w, h, p) == [width |-> w, height |-> h, pitch |-> p]
SmallScreens == {Screen(4, 8, 4), Screen(7, 7, 8), Screen(6, 8, 9)}
Vga == Screen(160, 120, 160)
OnlyVga == {Vga}
SmallAndVga == SmallScreens \cup OnlyVga

\* As efi_main writes them: a newline, if any, is the last character.
SmallTexts == {<<>>, <<"a">>, <<"a", "NL">>, <<"a", "a", "a">>, <<"a", "a", "a", "NL">>}

Characters(n) == [k \in 1 .. n |-> "a"]
WithNewline(n) == Append(Characters(n), "NL")

Literals ==
    [Loading |-> WithNewline(17),
     magic |-> WithNewline(54), class |-> WithNewline(62),
     type |-> WithNewline(53), machine |-> WithNewline(49),
     PowerOff |-> WithNewline(72),
     Unrecoverable |-> WithNewline(38), Restart |-> WithNewline(70),
     Hello |-> Characters(21)]

AllTexts == SmallTexts \cup {Literals[m] : m \in DOMAIN Literals}

FreeCalls == 4   \* bound: calls of terminal_writestring outside a boot

FreeInit ==
    /\ Init /\ fb \in SmallScreens
    /\ failed = {} /\ kernel = "other" /\ script = <<>> /\ marks = {}
    /\ kPc = "none" /\ kWidth = -1 /\ kHeight = -1 /\ kX = 1 /\ kY = 1
    /\ kData = <<>> /\ kI = 0 /\ kInk = {} /\ kCalls = 0

FreeCall ==
    /\ kPc = "none" /\ calls < FreeCalls
    /\ terminal_writestring /\ data' \in SmallTexts
    /\ UNCHANGED <<failed, kernel, script, marks, kTty>>

TextInit == FreeInit \/ BootInit

TextNext == FreeCall \/ BootNext

TextSpec == TextInit /\ [][TextNext]_screenVars
=============================================================================
