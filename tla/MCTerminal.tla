----------------------------- MODULE MCTerminal -----------------------------
(***************************************************************************)
(* Screens of two or three characters a line and three or four lines: one  *)
(* without padding, one with padding and with an edge that cuts a          *)
(* character, one with more padding than a character is wide.              *)
(***************************************************************************)
EXTENDS Terminal

Screen(w, h, p) == [width |-> w, height |-> h, pitch |-> p]
SmallScreens == {Screen(4, 8, 4), Screen(7, 7, 8), Screen(6, 8, 9)}

\* As efi_main writes them: a newline, if any, is the last character.
Messages == {<<>>, <<"a">>, <<"a", "NL">>, <<"a", "a", "a">>, <<"a", "a", "a", "NL">>}

Multiline == Messages \cup {<<"a", "NL", "a">>}
=============================================================================
