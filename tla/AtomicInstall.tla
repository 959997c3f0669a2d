---------------------------- MODULE AtomicInstall ----------------------------
(***************************************************************************)
(* The promise of LibInstallProtocolInterfaces to everyone else in the     *)
(* firmware: all the interfaces of the list appear on one handle in one    *)
(* step, or nothing changes.                                               *)
(***************************************************************************)
EXTENDS Integers, Sequences

CONSTANTS Interfaces, None

VARIABLES seen,     \* the protocol database: handle -> protocol -> interface
          list,     \* the entries [p, i] to install
          pending,
          events    \* changes made by others

AllInstalled(h) ==
    /\ \A k \in DOMAIN list : seen[h][list[k].p] = None
    /\ \A g \in DOMAIN seen \ {h} : seen'[g] = seen[g]
    /\ \A p \in DOMAIN seen[h] :
         IF \E k \in DOMAIN list : list[k].p = p
         THEN \E k \in DOMAIN list : list[k].p = p /\ seen'[h][p] = list[k].i
         ELSE seen'[h][p] = seen[h][p]

Install ==
    /\ pending /\ ~pending'
    /\ \E h \in DOMAIN seen : AllInstalled(h)
    /\ UNCHANGED <<list, events>>

Nothing == pending /\ ~pending' /\ UNCHANGED <<seen, list, events>>

Other ==
    /\ events' = events + 1
    /\ \E h \in DOMAIN seen : \E p \in DOMAIN seen[h], i \in Interfaces \cup {None} :
         seen' = [seen EXCEPT ![h][p] = i]
    /\ UNCHANGED <<list, pending>>

InstallSpec ==
    pending = TRUE /\ events = 0 /\ [][Install \/ Nothing \/ Other]_<<seen, list, pending, events>>
=============================================================================
