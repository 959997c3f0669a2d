------------------------------ MODULE Handoff ------------------------------
(***************************************************************************)
(* What the loader promises about memory, with every step of how it does   *)
(* so removed: the firmware owns the machine and may change its memory map *)
(* at will, until in one atomic step the machine passes to the loader      *)
(* together with an exact copy of the map.  From then on the map never     *)
(* changes again.  The firmware may also keep the machine forever.         *)
(*                                                                         *)
(* Bootloader implements this module although reading the map and exiting  *)
(* boot services are two separate calls with the firmware's own events     *)
(* between them.                                                           *)
(***************************************************************************)
EXTENDS UefiMemory

CONSTANT NoMap         \* stands for "no map has been handed over"

VARIABLES
    owner,             \* who owns the machine: "firmware" or "loader"
    memory,            \* the memory map as it is
    given              \* the map handed over, or NoMap

handoffVars == <<owner, memory, given>>

HandoffInit ==
    /\ owner = "firmware"
    /\ memory \in Map
    /\ given = NoMap

FirmwareRuns ==
    /\ owner = "firmware"
    /\ memory' \in Map
    /\ UNCHANGED <<owner, given>>

HandOver ==
    /\ owner = "firmware"
    /\ owner' = "loader"
    /\ given' = memory
    /\ UNCHANGED memory

HandoffNext == FirmwareRuns \/ HandOver

HandoffSpec == HandoffInit /\ [][HandoffNext]_handoffVars
=============================================================================
