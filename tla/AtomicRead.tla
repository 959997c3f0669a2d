----------------------------- MODULE AtomicRead -----------------------------
(***************************************************************************)
(* What a caller of LibMemoryMap, LibGetVariable, LibFileInfo and their    *)
(* like is promised: the object as it was at one moment of the call, or    *)
(* NULL, while others may change the object at any time.                   *)
(***************************************************************************)
CONSTANTS Objects, Absent

VARIABLES object, result    \* "pending", the object that was read, or "NULL"

ReadInit == object \in Objects \cup {Absent} /\ result = "pending"

Change == object' \in Objects \cup {Absent} /\ UNCHANGED result

Read == result = "pending" /\ object # Absent /\ result' = object /\ UNCHANGED object

Fail == result = "pending" /\ result' = "NULL" /\ UNCHANGED object

ReadSpec == ReadInit /\ [][Change \/ Read \/ Fail]_<<object, result>>
=============================================================================
