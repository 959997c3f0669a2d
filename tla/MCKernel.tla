------------------------------ MODULE MCKernel ------------------------------
(***************************************************************************)
(* Screens for TLC, all with the thirteen rows the marks need: wide, tall  *)
(* and square, with and without pixels behind the visible ones.            *)
(***************************************************************************)
EXTENDS Kernel

AllScreens ==
    [width : {13, 14, 16}, height : {13, 14, 16}, pitch : {16, 19}]

WideScreens == {[width |-> 16, height |-> 13, pitch |-> 16]}
=============================================================================
