----------------------------- MODULE Hand_proof -----------------------------
(***************************************************************************)
(* Theorems about hand.c, for any handles, protocols, lists and device     *)
(* paths, wherever the firmware refuses and whatever other code changes.   *)
(***************************************************************************)
EXTENDS ProtocolInterfaces, HandleSearch, DevicePaths, ProofBasics, FiniteSetTheorems, TLAPS

-----------------------------------------------------------------------------
(* ProtocolInterfaces *)

DatabaseType == [Handles -> [Protocols -> Interfaces \cup {None}]]

InstallTypeOK ==
    /\ installFn \in {"install", "uninstall", "reinstall"}
    /\ installPc \in {"raise", "install", "uninstall", "reinstall", "undo", "restore", "return"}
    /\ list \in Seq(Entries)
    /\ db \in DatabaseType /\ dbBefore \in DatabaseType
    /\ tpl \in {"application", "notify"}
    /\ Handle \in Handles \cup {NoHandle} /\ OldHandle \in Handles \cup {NoHandle}
    /\ installIndex \in Nat /\ arg \in Nat /\ arg <= Len(list)
    /\ installStatus \in {"SUCCESS", "ERROR"} /\ installEvents \in Nat

\* Where each function may be, and the priority there.
PlaceInv ==
    /\ tpl = "notify" <=> installPc \in {"install", "reinstall", "undo", "restore"}
    /\ installPc = "uninstall" => installFn = "uninstall"
    /\ installFn = "uninstall" => installPc \in {"uninstall", "return"}
    /\ installPc = "install" => installFn = "install"
    /\ installPc = "reinstall" => installFn = "reinstall"
    /\ installFn = "install" => held = {}

\* The entries of the list that are installed: a prefix of it, of which undoing takes
\* away the first ones first.
First == IF installPc = "undo" THEN arg ELSE 0
Installed == {k \in 1 .. Len(list) : First < k /\ k <= First + installIndex}

\* The database is that of the call with the installed entries, no two of which are for
\* one protocol, in places that were free.
RollbackInv ==
    /\ First + installIndex <= Len(list)
    /\ \A k \in Installed :
         /\ Handle \in Handles
         /\ dbBefore[Handle][list[k].p] = None /\ db[Handle][list[k].p] = list[k].i
    /\ \A j, k \in Installed : list[j].p = list[k].p => j = k
    /\ \A h \in Handles, p \in Protocols :
         (h = Handle => \A k \in Installed : list[k].p # p) => db[h][p] = dbBefore[h][p]

\* The inductive invariant.
InstallInv ==
    /\ InstallTypeOK /\ PlaceInv
    /\ tpl = "notify" /\ installFn = "install" => RollbackInv
    /\ tpl = "notify" /\ installFn = "reinstall" => db = dbBefore /\ Handle = OldHandle
    /\ installPc \in {"raise", "install"} => installStatus = "SUCCESS"
    /\ installPc = "raise" => installIndex = 0 /\ arg = 0
    /\ installPc = "install" => arg = installIndex
    /\ installPc \in {"undo"} => installStatus = "ERROR"
    /\ installPc \in {"install", "undo"} => (OldHandle # NoHandle => Handle = OldHandle)
    /\ installPc \in {"install", "undo"} /\ installIndex = 0 /\ installStatus = "SUCCESS"
         => Handle = OldHandle
    /\ installPc = "restore" /\ installFn = "install" =>
         IF installStatus = "SUCCESS" THEN installIndex = Len(list)
         ELSE installIndex = 0 /\ Handle = OldHandle

LEMMA EntriesOfList ==
    ASSUME NEW l \in Seq(Entries), NEW k \in 1 .. Len(l)
    PROVE  l[k] \in Entries /\ l[k].p \in Protocols /\ l[k].i \in Interfaces
<1>1. l[k] \in Entries
  OBVIOUS
<1>. QED  BY <1>1 DEF Entries

LEMMA InstallInvInit == InstallInit => InstallInv
<1>1. SUFFICES ASSUME InstallInit PROVE InstallInv
  OBVIOUS
<1>2. installFn \in {"install", "uninstall", "reinstall"} /\ db \in DatabaseType
  BY <1>1, ProtocolAssumption DEF InstallInit, DatabaseType
<1>3. list \in Seq(Entries)
  <2>1. PICK k \in 0 .. MaxList : list \in [1 .. k -> Entries]
    BY <1>1 DEF InstallInit
  <2>. QED  BY <2>1, ProtocolAssumption
<1>4. installPc \in {"raise", "uninstall"} /\ (installPc = "uninstall" <=> installFn = "uninstall")
  BY <1>1, <1>2 DEF InstallInit
<1>5. InstallTypeOK
  BY <1>1, <1>2, <1>3, <1>4 DEF InstallInit, InstallTypeOK
<1>6. PlaceInv
  BY <1>1, <1>2, <1>4 DEF InstallInit, PlaceInv
<1>. QED
  BY <1>1, <1>4, <1>5, <1>6 DEF InstallInit, InstallInv

LEMMA RaiseTPLKeeps == InstallInv /\ RaiseTPL => InstallInv'
<1>1. SUFFICES ASSUME InstallInv, RaiseTPL PROVE InstallInv'
  OBVIOUS
<1>2. installFn \in {"install", "reinstall"}
  BY <1>1 DEF InstallInv, InstallTypeOK, PlaceInv, RaiseTPL
<1>3. InstallTypeOK' /\ PlaceInv'
  BY <1>1, <1>2 DEF InstallInv, InstallTypeOK, PlaceInv, RaiseTPL, Raised
<1>4. Installed' = {} /\ First' = 0
  BY <1>1, <1>2 DEF InstallInv, InstallTypeOK, RaiseTPL, Installed, First
<1>5. RollbackInv'
  BY <1>1, <1>4 DEF InstallInv, InstallTypeOK, RaiseTPL, RollbackInv
<1>. QED
  BY <1>1, <1>2, <1>3, <1>5 DEF InstallInv, RaiseTPL

LEMMA InstallInterfaceKeeps == InstallInv /\ InstallInterface => InstallInv'
<1>1. SUFFICES ASSUME InstallInv, InstallInterface PROVE InstallInv'
  OBVIOUS
<1>2. /\ arg \in Nat /\ arg < Len(list) /\ arg = installIndex /\ installFn = "install"
      /\ list \in Seq(Entries) /\ tpl = "notify" /\ RollbackInv /\ Len(list) \in Nat
  BY <1>1 DEF InstallInv, InstallInterface, InstallTypeOK, PlaceInv, ListEnds
<1>3. list[arg + 1] \in Entries
  BY <1>2
<1>. DEFINE e == list[arg + 1]
<1>4. PICK h \in Handles : /\ Handle # NoHandle => h = Handle
                           /\ db[h][e.p] = None
                           /\ db' = [db EXCEPT ![h][e.p] = e.i] /\ Handle' = h
  BY <1>1 DEF InstallInterface, Entry, InstallInv, InstallTypeOK
<1>5. e.p \in Protocols /\ e.i \in Interfaces /\ e.i # None
  BY <1>3, ProtocolAssumption DEF Entries
<1>6. db \in DatabaseType /\ db' \in DatabaseType /\ dbBefore \in DatabaseType
  BY <1>1, <1>4, <1>5 DEF InstallInv, InstallTypeOK, DatabaseType
<1>7. \A g \in Handles, p \in Protocols :
        db'[g][p] = IF g = h /\ p = e.p THEN e.i ELSE db[g][p]
  BY <1>4, <1>5, <1>6 DEF DatabaseType
<1>8. /\ Installed = 1 .. arg /\ Installed' = 1 .. arg + 1
      /\ First = 0 /\ First' = 0
  BY <1>1, <1>2 DEF InstallInterface, Installed, First
<1>9. InstallTypeOK' /\ PlaceInv'
  BY <1>1, <1>2, <1>4, <1>6 DEF InstallInv, InstallTypeOK, PlaceInv, InstallInterface
<1>10. \A k \in Installed : list[k] \in Entries /\ list[k].p \in Protocols /\ list[k].i \in Interfaces
  BY <1>2, <1>8, EntriesOfList
<1>11. \A k \in Installed : /\ Handle = h /\ list[k].p # e.p
                            /\ dbBefore[h][list[k].p] = None /\ db[h][list[k].p] = list[k].i
  <2>1. TAKE k \in Installed
  <2>2. Handle \in Handles /\ dbBefore[Handle][list[k].p] = None /\ db[Handle][list[k].p] = list[k].i
    BY <1>2 DEF RollbackInv
  <2>3. Handle = h
    BY <1>4, <2>2, ProtocolAssumption
  <2>. QED  BY <1>4, <1>10, <2>2, <2>3, ProtocolAssumption
<1>12. dbBefore[h][e.p] = None
  BY <1>2, <1>4, <1>5, <1>11 DEF RollbackInv
<1>13. RollbackInv'
  <2>1. First' + installIndex' <= Len(list)'
    BY <1>1, <1>2, <1>8 DEF InstallInterface
  <2>2. ASSUME NEW k \in Installed'
        PROVE  /\ Handle' \in Handles
               /\ dbBefore'[Handle'][list'[k].p] = None /\ db'[Handle'][list'[k].p] = list'[k].i
    <3>1. list' = list /\ dbBefore' = dbBefore /\ Handle' = h
      BY <1>1, <1>4 DEF InstallInterface
    <3>2. CASE k = arg + 1
      BY <1>5, <1>7, <1>12, <3>1, <3>2
    <3>3. CASE k \in Installed
      BY <1>7, <1>10, <1>11, <3>1, <3>3
    <3>. QED  BY <1>2, <1>8, <3>2, <3>3
  <2>3. ASSUME NEW j \in Installed', NEW k \in Installed', list'[j].p = list'[k].p
        PROVE  j = k
    <3>1. list' = list
      BY <1>1 DEF InstallInterface
    <3>2. CASE j \in Installed /\ k \in Installed
      BY <1>2, <2>3, <3>1, <3>2 DEF RollbackInv
    <3>3. CASE j = arg + 1 \/ k = arg + 1
      BY <1>2, <1>8, <1>11, <2>3, <3>1, <3>3
    <3>. QED  BY <1>2, <1>8, <3>2, <3>3
  <2>4. ASSUME NEW g \in Handles, NEW p \in Protocols,
               g = Handle' => \A k \in Installed' : list'[k].p # p
        PROVE  db'[g][p] = dbBefore'[g][p]
    <3>1. list' = list /\ dbBefore' = dbBefore /\ Handle' = h
      BY <1>1, <1>4 DEF InstallInterface
    <3>2. ~(g = h /\ p = e.p)
      BY <1>2, <1>8, <2>4, <3>1
    <3>3. g = Handle => \A k \in Installed : list[k].p # p
      BY <1>2, <1>8, <1>11, <2>4, <3>1
    <3>. QED  BY <1>2, <1>7, <3>1, <3>2, <3>3 DEF RollbackInv
  <2>. QED  BY <2>1, <2>2, <2>3, <2>4 DEF RollbackInv
<1>14. OldHandle # NoHandle => h = OldHandle
  BY <1>1, <1>4, ProtocolAssumption DEF InstallInv, InstallInterface
<1>. QED
  BY <1>1, <1>2, <1>4, <1>9, <1>13, <1>14 DEF InstallInv, InstallInterface

LEMMA InstallFailsKeeps == InstallInv /\ InstallFails => InstallInv'
<1>1. SUFFICES ASSUME InstallInv, InstallFails PROVE InstallInv'
  OBVIOUS
<1>2. installFn = "install" /\ RollbackInv /\ tpl = "notify"
  BY <1>1 DEF InstallInv, InstallFails, PlaceInv
<1>3. First = 0 /\ First' = 0 /\ Installed' = Installed
  BY <1>1 DEF InstallFails, Installed, First
<1>4. RollbackInv'
  BY <1>1, <1>2, <1>3 DEF InstallFails, RollbackInv
<1>5. InstallTypeOK' /\ PlaceInv'
  BY <1>1, <1>2 DEF InstallInv, InstallFails, InstallTypeOK, PlaceInv
<1>. QED
  BY <1>1, <1>2, <1>4, <1>5 DEF InstallInv, InstallFails

LEMMA ReinstallKeeps == InstallInv /\ ReinstallInterface => InstallInv'
<1>1. SUFFICES ASSUME InstallInv, ReinstallInterface PROVE InstallInv'
  OBVIOUS
<1>2. /\ UNCHANGED <<db, installIndex>> /\ installStatus' = "ERROR"
      /\ arg' = 0 /\ installPc' = "undo"
  BY <1>1, ProtocolAssumption DEF ReinstallInterface, Reinstall, ReinstallHandle
<1>3. installFn = "reinstall" /\ db = dbBefore /\ Handle = OldHandle
  BY <1>1 DEF InstallInv, PlaceInv, ReinstallInterface
<1>4. InstallTypeOK' /\ PlaceInv'
  BY <1>1, <1>2, <1>3 DEF InstallInv, ReinstallInterface, InstallTypeOK, PlaceInv
<1>. QED
  BY <1>1, <1>2, <1>3, <1>4 DEF InstallInv, ReinstallInterface

LEMMA ListDoneKeeps == InstallInv /\ ListDone => InstallInv'
<1>1. SUFFICES ASSUME InstallInv, ListDone PROVE InstallInv'
  OBVIOUS
<1>2. InstallTypeOK' /\ PlaceInv'
  BY <1>1 DEF InstallInv, ListDone, InstallTypeOK, PlaceInv
<1>3. installFn = "install" => RollbackInv'
  <2>1. Installed' = Installed /\ First' = First
    BY <1>1 DEF ListDone, Installed, First
  <2>. QED  BY <1>1, <2>1 DEF InstallInv, ListDone, PlaceInv, RollbackInv
<1>. QED
  BY <1>1, <1>2, <1>3 DEF InstallInv, ListDone, PlaceInv, ListEnds

LEMMA UndoKeeps == InstallInv /\ Undo => InstallInv'
<1>1. SUFFICES ASSUME InstallInv, Undo PROVE InstallInv'
  OBVIOUS
<1>2. /\ installFn = "install" /\ RollbackInv /\ tpl = "notify" /\ held = {}
      /\ installIndex \in Nat /\ installIndex > 0 /\ arg \in Nat
      /\ list \in Seq(Entries) /\ Len(list) \in Nat /\ First = arg
  BY <1>1 DEF InstallInv, Undo, PlaceInv, MoreToUndo, InstallTypeOK, First
<1>3. arg + 1 \in Installed /\ arg + installIndex <= Len(list)
  BY <1>2 DEF RollbackInv, Installed
<1>. DEFINE e == list[arg + 1]
<1>4. Handle \in Handles /\ dbBefore[Handle][e.p] = None /\ db[Handle][e.p] = e.i
  BY <1>2, <1>3 DEF RollbackInv
<1>5. db' = [db EXCEPT ![Handle][e.p] = None]
  BY <1>1, <1>2, <1>4 DEF Undo, Uninstalled, Entry
<1>6. e \in Entries /\ e.p \in Protocols
  BY <1>2, <1>3, EntriesOfList DEF Installed
<1>7. db \in DatabaseType /\ db' \in DatabaseType
  BY <1>1, <1>4, <1>5, <1>6 DEF InstallInv, InstallTypeOK, DatabaseType
<1>8. \A g \in Handles, p \in Protocols :
        db'[g][p] = IF g = Handle /\ p = e.p THEN None ELSE db[g][p]
  BY <1>4, <1>5, <1>6, <1>7 DEF DatabaseType
<1>9. /\ First' = arg + 1 /\ installIndex' = installIndex - 1 /\ list' = list
      /\ dbBefore' = dbBefore /\ Handle' = Handle
  BY <1>1 DEF Undo, First
<1>10. Installed' = Installed \ {arg + 1}
  BY <1>2, <1>9 DEF Installed
<1>11. \A k \in Installed' : list[k].p # e.p /\ list[k].p \in Protocols
  <2>1. TAKE k \in Installed'
  <2>2. k \in Installed /\ k # arg + 1 /\ k \in 1 .. Len(list)
    BY <1>10 DEF Installed
  <2>. QED  BY <1>2, <1>3, <2>2, EntriesOfList DEF RollbackInv
<1>12. RollbackInv'
  <2>1. First' + installIndex' <= Len(list)'
    BY <1>2, <1>3, <1>9
  <2>2. ASSUME NEW k \in Installed'
        PROVE  /\ Handle' \in Handles
               /\ dbBefore'[Handle'][list'[k].p] = None /\ db'[Handle'][list'[k].p] = list'[k].i
    BY <1>2, <1>4, <1>8, <1>9, <1>10, <1>11 DEF RollbackInv
  <2>3. ASSUME NEW j \in Installed', NEW k \in Installed', list'[j].p = list'[k].p
        PROVE  j = k
    BY <1>2, <1>9, <1>10, <2>3 DEF RollbackInv
  <2>4. ASSUME NEW g \in Handles, NEW p \in Protocols,
               g = Handle' => \A k \in Installed' : list'[k].p # p
        PROVE  db'[g][p] = dbBefore'[g][p]
    <3>1. CASE g = Handle /\ p = e.p
      BY <1>4, <1>8, <1>9, <3>1
    <3>2. CASE ~(g = Handle /\ p = e.p)
      <4>1. g = Handle => \A k \in Installed : list[k].p # p
        BY <1>9, <1>10, <2>4, <3>2
      <4>. QED  BY <1>2, <1>8, <1>9, <3>2, <4>1 DEF RollbackInv
    <3>. QED  BY <3>1, <3>2
  <2>. QED  BY <2>1, <2>2, <2>3, <2>4 DEF RollbackInv
<1>13. InstallTypeOK' /\ PlaceInv'
  BY <1>1, <1>2, <1>3, <1>7, <1>9 DEF InstallInv, Undo, InstallTypeOK, PlaceInv
<1>. QED
  BY <1>1, <1>2, <1>12, <1>13 DEF InstallInv, Undo

LEMMA UndoDoneKeeps == InstallInv /\ UndoDone => InstallInv'
<1>1. SUFFICES ASSUME InstallInv, UndoDone PROVE InstallInv'
  OBVIOUS
<1>2. InstallTypeOK' /\ PlaceInv'
  BY <1>1 DEF InstallInv, UndoDone, InstallTypeOK, PlaceInv
<1>3. installFn = "install" => installIndex = 0
  BY <1>1 DEF InstallInv, InstallTypeOK, UndoDone, MoreToUndo
<1>4. installFn = "install" => RollbackInv'
  <2>1. SUFFICES ASSUME installFn = "install" PROVE RollbackInv'
    OBVIOUS
  <2>2. Installed = {} /\ Installed' = {} /\ First' = 0
    BY <1>1, <1>3, <2>1 DEF InstallInv, InstallTypeOK, UndoDone, Installed, First
  <2>. QED  BY <1>1, <1>3, <2>1, <2>2 DEF InstallInv, InstallTypeOK, PlaceInv, UndoDone, RollbackInv
<1>. QED
  BY <1>1, <1>2, <1>3, <1>4 DEF InstallInv, UndoDone, PlaceInv

LEMMA RestoreTPLKeeps == InstallInv /\ RestoreTPL => InstallInv'
BY DEF InstallInv, RestoreTPL, InstallTypeOK, PlaceInv

LEMMA UninstallKeeps == InstallInv /\ UninstallInterface => InstallInv'
<1>1. SUFFICES ASSUME InstallInv, UninstallInterface PROVE InstallInv'
  OBVIOUS
<1>2. arg' \in Nat /\ arg' <= Len(list)
  BY <1>1 DEF InstallInv, UninstallInterface, InstallTypeOK, StopsUninstalling, ListEnds
<1>3. db' \in DatabaseType
  <2>1. Uninstalled(Handle) \in DatabaseType
    BY <1>1 DEF InstallInv, InstallTypeOK, Uninstalled, DatabaseType
  <2>. QED  BY <1>1, <2>1 DEF InstallInv, InstallTypeOK, UninstallInterface
<1>4. InstallTypeOK' /\ PlaceInv'
  BY <1>1, <1>2, <1>3 DEF InstallInv, UninstallInterface, InstallTypeOK, PlaceInv
<1>. QED
  BY <1>1, <1>4 DEF InstallInv, UninstallInterface, PlaceInv

LEMMA OtherCodeKeeps == InstallInv /\ OtherCode => InstallInv'
<1>1. SUFFICES ASSUME InstallInv, OtherCode PROVE InstallInv'
  OBVIOUS
<1>2. db' \in DatabaseType
  BY <1>1 DEF InstallInv, InstallTypeOK, OtherCode, DatabaseType
<1>3. InstallTypeOK' /\ PlaceInv'
  BY <1>1, <1>2 DEF InstallInv, OtherCode, InstallTypeOK, PlaceInv
<1>. QED
  BY <1>1, <1>3 DEF InstallInv, OtherCode, PlaceInv

LEMMA InstallStutterKeeps == InstallInv /\ UNCHANGED installVars => InstallInv'
BY DEF installVars, InstallInv, InstallTypeOK, PlaceInv, RollbackInv, Installed, First

LEMMA InstallInvAlways == InstallSpec => []InstallInv
<1>1. InstallInv /\ [InstallNext]_installVars => InstallInv'
  BY RaiseTPLKeeps, InstallInterfaceKeeps, InstallFailsKeeps, ReinstallKeeps, ListDoneKeeps,
     UndoKeeps, UndoDoneKeeps, RestoreTPLKeeps, UninstallKeeps, OtherCodeKeeps,
     InstallStutterKeeps DEF InstallNext
<1>. QED  BY <1>1, InstallInvInit, PTL DEF InstallSpec

\* hand.c 437-519: a list is installed completely, or the database and the caller's
\* handle are what they were, wherever the firmware refuses.
THEOREM InstallAllOrNothing == InstallSpec => []AllOrNothing
<1>1. InstallInv => AllOrNothing
  <2>1. SUFFICES ASSUME InstallInv, installPc = "restore" PROVE AllOrNothing
    BY DEF AllOrNothing
  <2>2. tpl = "notify" /\ installFn \in {"install", "reinstall"}
    BY <2>1 DEF InstallInv, PlaceInv, InstallTypeOK
  <2>3. CASE installFn = "install" /\ installStatus = "SUCCESS"
    <3>1. RollbackInv /\ Installed = 1 .. Len(list)
      BY <2>1, <2>2, <2>3 DEF InstallInv, InstallTypeOK, Installed, First
    <3>. QED  BY <2>1, <2>3, <3>1 DEF AllOrNothing, RollbackInv, InstallInv, InstallTypeOK
  <2>4. CASE installFn = "install" /\ installStatus # "SUCCESS"
    <3>1. RollbackInv /\ Installed = {} /\ Handle = OldHandle
      BY <2>1, <2>2, <2>4 DEF InstallInv, InstallTypeOK, Installed, First
    <3>2. db = dbBefore
      BY <2>1, <3>1 DEF RollbackInv, InstallInv, InstallTypeOK, DatabaseType
    <3>. QED  BY <2>4, <3>1, <3>2 DEF AllOrNothing
  <2>5. CASE installFn = "reinstall"
    BY <2>1, <2>2, <2>5 DEF InstallInv, AllOrNothing
  <2>. QED  BY <2>2, <2>3, <2>4, <2>5
<1>. QED  BY <1>1, InstallInvAlways, PTL

-----------------------------------------------------------------------------
(* Refinement *)

Seen == IF tpl = "notify" \/ installFn = "uninstall" THEN dbBefore ELSE db
Pending == installPc # "return" \/ installFn = "uninstall"
Events == IF installFn = "uninstall" THEN 0 ELSE installEvents

AtomicInstallStep ==
    [AtomicDatabase!Install \/ AtomicDatabase!Nothing \/ AtomicDatabase!Other]_<<Seen, list, Pending, Events>>

LEMMA AtomicInstallInit ==
    InstallInit => (Pending = TRUE /\ Events = 0)
BY DEF InstallInit, Pending, Events

\* At the end of a call the list appears at once, if it does.
LEMMA RestoreIsAtomic == InstallInv /\ RestoreTPL => AtomicInstallStep
<1>1. SUFFICES ASSUME InstallInv, RestoreTPL PROVE AtomicInstallStep
  OBVIOUS
<1>2. /\ tpl = "notify" /\ installFn \in {"install", "reinstall"}
      /\ Seen = dbBefore /\ Seen' = db /\ Pending /\ ~Pending'
      /\ UNCHANGED <<list, Events>>
  BY <1>1 DEF InstallInv, PlaceInv, InstallTypeOK, RestoreTPL, Seen, Pending, Events
<1>3. CASE db = dbBefore
  BY <1>2, <1>3 DEF AtomicInstallStep, AtomicDatabase!Nothing, Seen, Pending, Events
<1>4. CASE db # dbBefore
  <2>1. installFn = "install" /\ installStatus = "SUCCESS" /\ RollbackInv
    <3>1. CASE installFn = "reinstall"
      BY <1>1, <1>2, <1>4, <3>1 DEF InstallInv
    <3>2. CASE installFn = "install" /\ installStatus # "SUCCESS"
      <4>1. RollbackInv /\ Installed = {}
        BY <1>1, <1>2, <3>2 DEF InstallInv, InstallTypeOK, RestoreTPL, Installed, First
      <4>2. db = dbBefore
        BY <1>1, <4>1 DEF RollbackInv, InstallInv, InstallTypeOK, DatabaseType
      <4>. QED  BY <1>4, <4>2
    <3>. QED  BY <1>1, <1>2, <3>1, <3>2 DEF InstallInv
  <2>2. Installed = 1 .. Len(list) /\ DOMAIN list = 1 .. Len(list)
    BY <1>1, <2>1 DEF InstallInv, InstallTypeOK, RestoreTPL, Installed, First
  <2>3. db \in DatabaseType /\ dbBefore \in DatabaseType
    BY <1>1 DEF InstallInv, InstallTypeOK
  <2>4. list # <<>> /\ 1 \in Installed
    <3>1. Installed # {}
      BY <1>4, <2>1, <2>3 DEF RollbackInv, DatabaseType
    <3>2. list \in Seq(Entries) /\ Len(list) \in Nat
      BY <1>1 DEF InstallInv, InstallTypeOK
    <3>. QED  BY <2>2, <3>1, <3>2
  <2>5. Handle \in Handles
    BY <2>1, <2>4 DEF RollbackInv
  <2>6. \A k \in DOMAIN list : dbBefore[Handle][list[k].p] = None
    BY <2>1, <2>2 DEF RollbackInv
  <2>7. \A g \in Handles \ {Handle} : db[g] = dbBefore[g]
    BY <2>1, <2>3 DEF RollbackInv, DatabaseType
  <2>8. \A p \in Protocols :
          IF \E k \in DOMAIN list : list[k].p = p
          THEN \E k \in DOMAIN list : list[k].p = p /\ db[Handle][p] = list[k].i
          ELSE db[Handle][p] = dbBefore[Handle][p]
    BY <2>1, <2>2, <2>5 DEF RollbackInv
  <2>9. DOMAIN dbBefore = Handles /\ DOMAIN dbBefore[Handle] = Protocols
    BY <2>3, <2>5 DEF DatabaseType
  <2>10. AtomicDatabase!AllInstalled(Handle)
    BY <1>2, <2>6, <2>7, <2>8, <2>9 DEF AtomicDatabase!AllInstalled, Seen
  <2>. QED
    BY <1>2, <2>5, <2>9, <2>10 DEF AtomicInstallStep, AtomicDatabase!Install, Seen, Pending, Events
<1>. QED  BY <1>3, <1>4

LEMMA OtherCodeIsOther == InstallInv /\ OtherCode => AtomicInstallStep
<1>1. SUFFICES ASSUME InstallInv, OtherCode PROVE AtomicInstallStep
  OBVIOUS
<1>2. CASE installFn = "uninstall"
  BY <1>1, <1>2 DEF OtherCode, AtomicInstallStep, Seen, Pending, Events
<1>3. CASE installFn # "uninstall"
  <2>1. /\ Seen = db /\ Seen' = db' /\ UNCHANGED <<list, Pending>>
        /\ Events' = Events + 1 /\ db \in DatabaseType
    BY <1>1, <1>3 DEF OtherCode, Seen, Pending, Events, InstallInv, InstallTypeOK
  <2>2. PICK h \in Handles, p \in Protocols, i \in Interfaces \cup {None} :
          db' = [db EXCEPT ![h][p] = i]
    BY <1>1 DEF OtherCode
  <2>3. DOMAIN db = Handles /\ DOMAIN db[h] = Protocols
    BY <2>1, <2>2 DEF DatabaseType
  <2>. QED
    BY <2>1, <2>2, <2>3 DEF AtomicInstallStep, AtomicDatabase!Other, Seen, Pending, Events
<1>. QED  BY <1>2, <1>3

LEMMA AtomicInstallSteps ==
    ASSUME InstallInv, [InstallNext]_installVars
    PROVE  AtomicInstallStep
<1>. USE DEF AtomicInstallStep, Seen, Pending, Events
<1>1. CASE RaiseTPL
  BY <1>1 DEF RaiseTPL, Raised, InstallInv, PlaceInv, InstallTypeOK
<1>2. CASE InstallInterface \/ InstallFails \/ ReinstallInterface \/ ListDone \/ Undo \/ UndoDone
  <2>1. /\ tpl = "notify" /\ tpl' = tpl
        /\ UNCHANGED <<dbBefore, list, installFn, installEvents>>
        /\ installPc # "return" /\ installPc' # "return"
    BY <1>2, ProtocolAssumption
       DEF InstallInv, PlaceInv, InstallInterface, InstallFails, ReinstallInterface, Reinstall,
           ReinstallHandle, ListDone, Undo, UndoDone
  <2>. QED  BY <2>1
<1>3. CASE RestoreTPL
  BY <1>3, RestoreIsAtomic
<1>4. CASE UninstallInterface
  BY <1>4 DEF UninstallInterface, InstallInv, PlaceInv
<1>5. CASE OtherCode
  BY <1>5, OtherCodeIsOther
<1>6. CASE UNCHANGED installVars
  BY <1>6 DEF installVars
<1>. QED  BY <1>1, <1>2, <1>3, <1>4, <1>5, <1>6 DEF InstallNext

\* Other code sees a list appear in one step or not at all: the functions implement
\* the atomic installation.
THEOREM InstallIsAtomic == InstallSpec => InstallsAtomically
<1>1. InstallInv /\ [InstallNext]_installVars => AtomicInstallStep
  BY AtomicInstallSteps
<1>. QED  BY <1>1, AtomicInstallInit, InstallInvAlways, PTL
          DEF InstallSpec, InstallsAtomically, AtomicDatabase!InstallSpec, AtomicInstallStep,
              Seen, Pending, Events

-----------------------------------------------------------------------------
(* Uninstalling *)

\* The entries done so far: each is gone from the handle, unless someone holds it.
\* What the loop does to a later entry never brings an earlier one back.
UninstallInv ==
    installFn = "uninstall" =>
        /\ Handle \in Handles
        /\ installPc = "return" => arg = Len(list)
        /\ installEvents = 0 =>
             \A k \in 1 .. arg : list[k].p \notin held => db[Handle][list[k].p] # list[k].i

LEMMA UninstallStepKeeps == InstallInv /\ UninstallInv /\ UninstallInterface => UninstallInv'
<1>1. SUFFICES ASSUME InstallInv, UninstallInv, UninstallInterface, installFn = "uninstall"
               PROVE  UninstallInv'
  BY DEF UninstallInv, UninstallInterface
<1>2. list \in Seq(Entries) /\ arg \in Nat /\ arg <= Len(list) /\ db \in DatabaseType
      /\ Handle \in Handles /\ Len(list) \in Nat
  BY <1>1 DEF InstallInv, InstallTypeOK, UninstallInv
<1>3. CASE ListEnds
  BY <1>1, <1>3 DEF UninstallInv, UninstallInterface, StopsUninstalling, ListEnds
<1>4. CASE ~ListEnds
  <2>1. arg' = arg + 1 /\ arg + 1 \in 1 .. Len(list) /\ installPc' = "uninstall"
        /\ db' = Uninstalled(Handle)
    BY <1>1, <1>2, <1>4 DEF UninstallInterface, StopsUninstalling, ListEnds
  <2>2. \A p \in Protocols : db'[Handle][p] = db[Handle][p] \/ db'[Handle][p] = None
    BY <1>2, <2>1 DEF Uninstalled, DatabaseType
  <2>3. Entry \in Entries /\ Entry.p \in Protocols /\ Entry.i # None
    BY <1>2, <2>1, EntriesOfList, ProtocolAssumption DEF Entry
  <2>4. Entry.p \notin held => db'[Handle][Entry.p] # Entry.i
    BY <1>2, <2>1, <2>3 DEF Uninstalled, DatabaseType
  <2>5. ASSUME installEvents = 0, NEW k \in 1 .. arg + 1, list[k].p \notin held
        PROVE  db'[Handle][list[k].p] # list[k].i
    <3>1. CASE k = arg + 1
      BY <2>4, <2>5, <3>1 DEF Entry
    <3>2. CASE k # arg + 1
      <4>1. k \in 1 .. arg /\ k \in 1 .. Len(list)
        BY <1>2, <2>1, <3>2
      <4>2. db[Handle][list[k].p] # list[k].i /\ list[k].p \in Protocols /\ list[k].i # None
        BY <1>1, <1>2, <2>5, <4>1, EntriesOfList, ProtocolAssumption DEF UninstallInv
      <4>. QED
        BY <2>2, <4>2
    <3>. QED
      BY <3>1, <3>2
  <2>. QED
    BY <1>1, <2>1, <2>5 DEF UninstallInv, UninstallInterface
<1>. QED
  BY <1>3, <1>4

\* hand.c 545-556, for every list and database: see UninstallsWhatItCan.
THEOREM UninstallsTheRest == InstallSpec => []UninstallsWhatItCan
<1>1. InstallInit => UninstallInv
  BY DEF InstallInit, UninstallInv
<1>2. InstallInv /\ UninstallInv /\ [InstallNext]_installVars => UninstallInv'
  <2>1. SUFFICES ASSUME InstallInv, UninstallInv, [InstallNext]_installVars PROVE UninstallInv'
    OBVIOUS
  <2>2. CASE installFn # "uninstall"
    BY <2>1, <2>2 DEF UninstallInv, installVars, InstallNext, RaiseTPL, InstallInterface,
       InstallFails, ReinstallInterface, ListDone, Undo, UndoDone, RestoreTPL,
       UninstallInterface, OtherCode
  <2>3. CASE installFn = "uninstall"
    <3>1. installPc \in {"uninstall", "return"}
      BY <2>1, <2>3 DEF InstallInv, PlaceInv
    <3>2. UninstallInterface \/ OtherCode \/ UNCHANGED installVars
      BY <2>1, <2>3, <3>1 DEF InstallNext, RaiseTPL, InstallInterface, InstallFails,
         ReinstallInterface, ListDone, Undo, UndoDone, RestoreTPL
    <3>3. OtherCode => UninstallInv'
      BY <2>1 DEF UninstallInv, OtherCode, InstallInv, InstallTypeOK
    <3>4. UNCHANGED installVars => UninstallInv'
      BY <2>1 DEF UninstallInv, installVars
    <3>. QED
      BY <2>1, <3>2, <3>3, <3>4, UninstallStepKeeps
  <2>. QED
    BY <2>2, <2>3
<1>3. InstallInv /\ UninstallInv => UninstallsWhatItCan
  BY LenProperties DEF InstallInv, InstallTypeOK, UninstallInv, UninstallsWhatItCan
<1>. QED
  BY InstallInvAlways, <1>1, <1>2, <1>3, PTL DEF InstallSpec

-----------------------------------------------------------------------------
(* HandleSearch *)

Loops == [previous : BOOLEAN, match : BOOLEAN]

\* The round of the loop at node k.
Round(path, k, l) ==
    IF path[k].kind # "hd" THEN [previous |-> FALSE, match |-> l.match]
    ELSE [previous |-> TRUE,
          match |-> l.match \/ (~l.previous /\ path[k] = Wanted /\ IsEndType(path[k + 1]))]

\* A node of the caller's signature that the loop accepts at k.
QualifiesAt(path, k) ==
    path[k] = Wanted /\ IsEndType(path[k + 1]) /\ (k > 1 => path[k - 1].kind # "hd")

LEMMA PathShape ==
    ASSUME NEW path \in Paths
    PROVE  /\ Len(path) \in Nat /\ Len(path) > 0 /\ DOMAIN path = 1 .. Len(path)
           /\ path[Len(path)].kind = "end" /\ Wanted.kind = "hd"
<1>1. path # <<>> /\ path \in Seq(ToSet(path)) /\ Last(path).kind = "end"
  BY HandleSearchAssumption
<1>2. Len(path) \in Nat /\ DOMAIN path = 1 .. Len(path)
  BY <1>1, LenProperties
<1>3. Len(path) # 0
  BY <1>1, EmptySeq
<1>. QED
  BY <1>1, <1>2, <1>3, HandleSearchAssumption DEF Last

\* The loop is what it says.
LEMMA MatchLoopIs ==
    ASSUME NEW path \in Paths
    PROVE  /\ MatchLoop(path) \in [0 .. Len(path) -> Loops]
           /\ MatchLoop(path)[0] = [previous |-> FALSE, match |-> FALSE]
           /\ \A k \in 1 .. Len(path) :
                MatchLoop(path)[k] = Round(path, k, MatchLoop(path)[k - 1])
<1> DEFINE n == Len(path)
<1> DEFINE base == [previous |-> FALSE, match |-> FALSE]
<1> DEFINE step == [c \in (1 .. n) \X Loops |-> Round(path, c[1], c[2])]
<1>1. n \in Nat
  BY PathShape
<1> HIDE DEF n
<1>2. ASSUME NEW k \in 1 .. n, NEW l \in Loops PROVE Round(path, k, l) \in Loops
  BY DEF Round, Loops
<1>3. step \in [(1 .. n) \X Loops -> Loops]
  BY <1>2
<1>4. \A k \in 1 .. n : \A l \in Loops : step[<<k, l>>] = Round(path, k, l)
  OBVIOUS
<1>5. base \in Loops
  BY DEF Loops
<1> HIDE DEF step, base
<1>6. PICK g \in [0 .. n -> Loops] : g[0] = base /\ \A k \in 1 .. n : g[k] = step[<<k, g[k - 1]>>]
  <2>1. IsStep(n, Loops, step)
    BY <1>3 DEF IsStep
  <2>2. \E g : IsLoop(g, n, Loops, base, step)
    BY <1>1, <1>5, <2>1, LoopExists
  <2>. QED
    BY <2>2 DEF IsLoop
<1>7. ASSUME NEW k \in 0 .. n PROVE g[k] = IF k = 0 THEN base ELSE Round(path, k, g[k - 1])
  <2>1. CASE k = 0
    BY <1>6, <2>1
  <2>2. CASE k # 0
    <3>1. k \in 1 .. n /\ k - 1 \in 0 .. n
      BY <1>1, <2>2
    <3>2. g[k - 1] \in Loops
      BY <3>1
    <3>. QED
      BY <1>4, <1>6, <2>2, <3>1, <3>2
  <2>. QED
    BY <2>1, <2>2
<1>8. g = [k \in 0 .. n |-> IF k = 0 THEN base ELSE Round(path, k, g[k - 1])]
  BY <1>7
<1>9. MatchLoop(path) = [k \in 0 .. n |-> IF k = 0 THEN base
                             ELSE Round(path, k, MatchLoop(path)[k - 1])]
  BY <1>8, Zenon DEF MatchLoop, n, base, Round
<1>10. MatchLoop(path)[0] = base
  BY <1>1, <1>9
<1>11. ASSUME NEW k \in 1 .. n
       PROVE  MatchLoop(path)[k] = Round(path, k, MatchLoop(path)[k - 1])
  BY <1>1, <1>9
<1> DEFINE S == {k \in 0 .. n : MatchLoop(path)[k] \in Loops}
<1>12. 0 \in S
  BY <1>1, <1>5, <1>10
<1>13. ASSUME NEW k \in 0 .. n - 1, k \in S PROVE k + 1 \in S
  <2>1. k + 1 \in 1 .. n /\ (k + 1) - 1 = k /\ k + 1 \in 0 .. n
    BY <1>1
  <2>. QED
    BY <1>2, <1>11, <1>13, <2>1
<1> HIDE DEF S
<1>14. 0 .. n \subseteq S
  BY <1>1, <1>12, <1>13, BoundedInduction
<1>15. \A k \in 0 .. n : MatchLoop(path)[k] \in Loops
  BY <1>14 DEF S
<1>16. MatchLoop(path) \in [0 .. n -> Loops]
  BY <1>9, <1>15
<1>. QED
  BY <1>10, <1>11, <1>16 DEF n, base

\* The loop with its flag finds a node of the signature with the end behind it and no
\* hard drive before it.
LEMMA MatchQualifies ==
    ASSUME NEW path \in Paths
    PROVE  Match(path) \in BOOLEAN /\ (Match(path) <=> Qualifies(path))
<1> DEFINE n == Len(path)
<1> DEFINE loop == MatchLoop(path)
<1> DEFINE S == {k \in 0 .. n : /\ loop[k].previous <=> k > 0 /\ path[k].kind = "hd"
                                /\ loop[k].match <=> \E j \in 1 .. k : QualifiesAt(path, j)}
<1>1. n \in Nat /\ n > 0 /\ path[n].kind = "end" /\ Wanted.kind = "hd"
  BY PathShape
<1>2. /\ loop \in [0 .. n -> Loops] /\ loop[0] = [previous |-> FALSE, match |-> FALSE]
      /\ \A k \in 1 .. n : loop[k] = Round(path, k, loop[k - 1])
  BY MatchLoopIs
<1>m. Match(path) = loop[n].match
  BY DEF Match
<1> HIDE DEF n, loop
<1>3. 0 \in S
  BY <1>1, <1>2
<1>4. ASSUME NEW k \in 0 .. n - 1, k \in S PROVE k + 1 \in S
  <2>1. k + 1 \in 1 .. n /\ (k + 1) - 1 = k /\ k + 1 \in 0 .. n /\ k \in 0 .. n /\ k \in Nat
    BY <1>1
  <2>2. loop[k + 1] = Round(path, k + 1, loop[k]) /\ loop[k] \in Loops
    BY <1>2, <2>1
  <2>3. /\ loop[k].previous <=> k > 0 /\ path[k].kind = "hd"
        /\ loop[k].match <=> \E j \in 1 .. k : QualifiesAt(path, j)
    BY <1>4
  <2>4. (\E j \in 1 .. k + 1 : QualifiesAt(path, j)) <=>
            (\E j \in 1 .. k : QualifiesAt(path, j)) \/ QualifiesAt(path, k + 1)
    <3>1. \A j : j \in 1 .. k + 1 <=> j \in 1 .. k \/ j = k + 1
      BY <2>1
    <3>. QED
      BY <3>1
  <2>5. QualifiesAt(path, k + 1) <=>
            path[k + 1] = Wanted /\ IsEndType(path[k + 2]) /\ ~loop[k].previous
    <3>1. (k + 1) + 1 = k + 2 /\ (k + 1 > 1 <=> k > 0)
      BY <2>1
    <3>. QED
      BY <2>1, <2>3, <3>1 DEF QualifiesAt
  <2>6. (k + 1) + 1 = k + 2 /\ k + 1 > 0
    BY <2>1
  <2>7. CASE path[k + 1].kind # "hd"
    <3>1. loop[k + 1] = [previous |-> FALSE, match |-> loop[k].match]
      BY <2>2, <2>7 DEF Round
    <3>2. ~QualifiesAt(path, k + 1)
      BY <1>1, <2>7 DEF QualifiesAt
    <3>3. loop[k + 1].previous = FALSE /\ loop[k + 1].match = loop[k].match
      BY <3>1
    <3>. QED
      BY <2>1, <2>3, <2>4, <2>7, <3>2, <3>3
  <2>8. CASE path[k + 1].kind = "hd"
    <3> DEFINE hit == ~loop[k].previous /\ path[k + 1] = Wanted /\ IsEndType(path[k + 2])
    <3>1. loop[k + 1] = [previous |-> TRUE, match |-> loop[k].match \/ hit]
      BY <2>2, <2>6, <2>8 DEF Round
    <3>2. hit <=> QualifiesAt(path, k + 1)
      BY <2>5
    <3> HIDE DEF hit
    <3>3. loop[k + 1].previous = TRUE /\ loop[k + 1].match = (loop[k].match \/ hit)
      BY <3>1
    <3>4. loop[k + 1].match <=> loop[k].match \/ hit
      BY <3>3
    <3>. QED
      BY <2>1, <2>3, <2>4, <2>6, <2>8, <3>2, <3>3, <3>4
  <2>. QED
    BY <2>7, <2>8
<1> HIDE DEF S
<1>5. n \in S
  <2>1. 0 .. n \subseteq S
    BY <1>1, <1>3, <1>4, BoundedInduction
  <2>. QED
    BY <1>1, <2>1
<1>6. loop[n].match <=> \E j \in 1 .. n : QualifiesAt(path, j)
  BY <1>5 DEF S
<1>7. loop[n].match \in BOOLEAN
  BY <1>1, <1>2 DEF Loops
<1>8. ~QualifiesAt(path, n)
  BY <1>1 DEF QualifiesAt
<1>9. (\E j \in 1 .. n : QualifiesAt(path, j)) <=> \E j \in 1 .. n - 1 : QualifiesAt(path, j)
  <2>1. \A j : j \in 1 .. n <=> j \in 1 .. n - 1 \/ j = n
    BY <1>1
  <2>. QED
    BY <1>8, <2>1
<1>10. Qualifies(path) <=> \E j \in 1 .. n - 1 : QualifiesAt(path, j)
  BY DEF Qualifies, QualifiesAt, n
<1>. QED
  BY <1>m, <1>6, <1>7, <1>9, <1>10

\* The list of a finite set has every element of it.
LEMMA SetToSeqIs ==
    ASSUME NEW S, IsFiniteSet(S)
    PROVE  /\ SetToSeq(S) \in Seq(S) /\ Len(SetToSeq(S)) \in Nat
           /\ \A h \in S : \E k \in 1 .. Len(SetToSeq(S)) : SetToSeq(S)[k] = h
           /\ S # {} => SetToSeq(S) # <<>>
<1> DEFINE n == Cardinality(S)
<1> DEFINE s == SetToSeq(S)
<1>1. n \in Nat /\ ExistsBijection(1 .. n, S)
  BY FS_CardinalityType
<1>2. PICK b \in Bijection(1 .. n, S) : TRUE
  BY <1>1 DEF ExistsBijection
<1>3. b \in [1 .. n -> S] /\ IsInjective(b)
  BY <1>2 DEF Bijection, Injection, IsInjective
<1>4. s \in [1 .. n -> S] /\ IsInjective(s)
  BY <1>3 DEF SetToSeq
<1> HIDE DEF s
<1>5. s \in Injection(1 .. n, S)
  BY <1>4 DEF Injection, IsInjective
<1>6. Cardinality(1 .. n) = n
  BY <1>1, FS_Interval
<1>7. s \in Surjection(1 .. n, S)
  <2>1. Cardinality(1 .. n) = Cardinality(S)
    BY <1>6
  <2>. QED
    BY <1>5, <2>1, FS_Injection
<1>8. s \in Seq(S) /\ Len(s) = n
  BY <1>1, <1>4, FunctionIsSeq
<1>9. \A h \in S : \E k \in 1 .. n : s[k] = h
  BY <1>7 DEF Surjection
<1>10. S # {} => s # <<>>
  <2>1. ASSUME S # {} PROVE Len(s) # 0
    BY <1>1, <1>8, <1>9, <2>1
  <2>. QED
    BY <2>1, EmptySeq
<1>. QED
  BY <1>1, <1>8, <1>9, <1>10 DEF s

LEMMA AppendedSet ==
    ASSUME NEW T, NEW s \in Seq(T), NEW e \in T
    PROVE  ToSet(Append(s, e)) = ToSet(s) \cup {e}
<1> DEFINE t == Append(s, e)
<1>1. /\ Len(s) \in Nat /\ DOMAIN s = 1 .. Len(s) /\ Len(t) = Len(s) + 1
      /\ DOMAIN t = 1 .. Len(t) /\ t[Len(s) + 1] = e
      /\ \A i \in 1 .. Len(s) : t[i] = s[i]
  BY LenProperties, AppendProperties
<1> HIDE DEF t
<1>2. \A i : i \in DOMAIN t <=> i \in DOMAIN s \/ i = Len(s) + 1
  BY <1>1
<1>3. ToSet(t) = ToSet(s) \cup {e}
  BY <1>1, <1>2 DEF ToSet
<1>. QED
  BY <1>3 DEF t

\* The handles of the list that are not NULL, among the first k.
Kept(k) == {BlockIoBuffer[j] : j \in {i \in 1 .. k : BlockIoBuffer[i] # NoPath}}

\* The copying loop keeps exactly the handles that are not NULL.
LEMMA MatchingIs ==
    ASSUME BlockIoBuffer \in Seq(SearchHandles \cup {NoPath})
    PROVE  ToSet(Matching) = Kept(Len(BlockIoBuffer))
<1> DEFINE n == Len(BlockIoBuffer)
<1> DEFINE V == Seq(SearchHandles)
<1> DEFINE next(k, v) == IF BlockIoBuffer[k] = NoPath THEN v ELSE Append(v, BlockIoBuffer[k])
<1> DEFINE step == [c \in (1 .. n) \X V |-> next(c[1], c[2])]
<1>1. n \in Nat /\ \A k \in 1 .. n : BlockIoBuffer[k] \in SearchHandles \cup {NoPath}
  BY LenProperties, ElementOfSeq
<1> HIDE DEF n
<1>2. ASSUME NEW k \in 1 .. n, NEW v \in V PROVE next(k, v) \in V
  BY <1>1, AppendProperties
<1>3. <<>> \in V
  BY EmptySeq
<1> HIDE DEF V, next
<1>4. step \in [(1 .. n) \X V -> V]
  BY <1>2
<1>5. \A k \in 1 .. n : \A v \in V : step[<<k, v>>] = next(k, v)
  OBVIOUS
<1> HIDE DEF step
<1>6. PICK g \in [0 .. n -> V] : g[0] = <<>> /\ \A k \in 1 .. n : g[k] = step[<<k, g[k - 1]>>]
  <2>1. IsStep(n, V, step)
    BY <1>4 DEF IsStep
  <2>2. \E g : IsLoop(g, n, V, <<>>, step)
    BY <1>1, <1>3, <2>1, LoopExists
  <2>. QED
    BY <2>2 DEF IsLoop
<1>7. ASSUME NEW k \in 0 .. n PROVE g[k] = IF k = 0 THEN <<>> ELSE next(k, g[k - 1])
  <2>1. CASE k = 0
    BY <1>6, <2>1
  <2>2. CASE k # 0
    <3>1. k \in 1 .. n /\ k - 1 \in 0 .. n
      BY <1>1, <2>2
    <3>2. g[k - 1] \in V
      BY <3>1
    <3>. QED
      BY <1>5, <1>6, <2>2, <3>1, <3>2
  <2>. QED
    BY <2>1, <2>2
<1>8. g = [k \in 0 .. n |-> IF k = 0 THEN <<>> ELSE next(k, g[k - 1])]
  BY <1>7
<1>9. MatchingOf = [k \in 0 .. n |-> IF k = 0 THEN <<>> ELSE next(k, MatchingOf[k - 1])]
  BY <1>8, Zenon DEF MatchingOf, n, next
<1>10. MatchingOf[0] = <<>>
  BY <1>1, <1>9
<1>11. ASSUME NEW k \in 1 .. n PROVE MatchingOf[k] = next(k, MatchingOf[k - 1])
  BY <1>1, <1>9
<1> DEFINE S == {k \in 0 .. n : MatchingOf[k] \in V /\ ToSet(MatchingOf[k]) = Kept(k)}
<1>12. 0 \in S
  <2>1. ToSet(<<>>) = {}
    BY EmptySeq DEF ToSet
  <2>2. Kept(0) = {}
    BY DEF Kept
  <2>. QED
    BY <1>1, <1>3, <1>10, <2>1, <2>2
<1>13. ASSUME NEW k \in 0 .. n - 1, k \in S PROVE k + 1 \in S
  <2>1. k + 1 \in 1 .. n /\ (k + 1) - 1 = k /\ k + 1 \in 0 .. n /\ k \in Nat
    BY <1>1
  <2>2. MatchingOf[k + 1] = next(k + 1, MatchingOf[k])
    BY <1>11, <2>1
  <2>3. MatchingOf[k] \in V /\ ToSet(MatchingOf[k]) = Kept(k)
    BY <1>13
  <2>4. \A j : j \in 1 .. k + 1 <=> j \in 1 .. k \/ j = k + 1
    BY <2>1
  <2>5. MatchingOf[k + 1] \in V
    BY <1>2, <2>1, <2>2, <2>3
  <2>6. CASE BlockIoBuffer[k + 1] = NoPath
    <3>1. MatchingOf[k + 1] = MatchingOf[k]
      BY <2>2, <2>6 DEF next
    <3>2. Kept(k + 1) = Kept(k)
      BY <2>4, <2>6 DEF Kept
    <3>. QED
      BY <2>1, <2>3, <2>5, <3>1, <3>2
  <2>7. CASE BlockIoBuffer[k + 1] # NoPath
    <3>1. MatchingOf[k + 1] = Append(MatchingOf[k], BlockIoBuffer[k + 1])
      BY <2>2, <2>7 DEF next
    <3>2. Kept(k + 1) = Kept(k) \cup {BlockIoBuffer[k + 1]}
      BY <2>4, <2>7 DEF Kept
    <3>3. BlockIoBuffer[k + 1] \in SearchHandles
      BY <1>1, <2>1, <2>7
    <3>4. ToSet(Append(MatchingOf[k], BlockIoBuffer[k + 1]))
              = ToSet(MatchingOf[k]) \cup {BlockIoBuffer[k + 1]}
      BY <2>3, <3>3, AppendedSet DEF V
    <3>. QED
      BY <2>1, <2>3, <2>5, <3>1, <3>2, <3>4
  <2>. QED
    BY <2>6, <2>7
<1> HIDE DEF S
<1>14. n \in S
  <2>1. 0 .. n \subseteq S
    BY <1>1, <1>12, <1>13, BoundedInduction
  <2>. QED
    BY <1>1, <2>1
<1>. QED
  BY <1>14 DEF S, Matching, n

-----------------------------------------------------------------------------
(* The invariant *)

AllHandles == SetToSeq(SearchHandles)

SearchTypes ==
    /\ clears \in BOOLEAN /\ searchPc \in {"locate", "ask", "build", "return"}
    /\ searchFn \in {"protocol", "signature"}
    /\ on \in [SearchHandles -> Paths \cup {NoPath}]
    /\ BlockIoBuffer \in Seq(SearchHandles \cup {NoPath})
    /\ searchIndex \in 0 .. Len(BlockIoBuffer)
    /\ answers \in Seq(Paths \cup {NoPath}) /\ Len(answers) = searchIndex
    /\ DevicePath \in Paths \cup {NoPath}
    /\ steady \subseteq SearchHandles /\ \A h \in steady : on[h] # NoPath

\* What is allocated, by the place in the code.
ListIsLive ==
    /\ searchPc = "locate" => searchLive = {} /\ answers = <<>> /\ BlockIoBuffer = <<>>
    /\ searchPc = "ask" => searchLive = {"list"} /\ BlockIoBuffer # <<>>
    /\ searchPc = "build" =>
           searchLive = {"list", "result"} /\ searchFn = "signature" /\ Matching # <<>>
    /\ searchPc # "return" => searchBuffer = <<>>
    /\ searchPc = "return" =>
           searchLive = IF searchFn = "protocol" \/ searchBuffer = <<>> THEN {} ELSE {"result"}
    /\ searchFn = "protocol" => searchBuffer = <<>>

\* Every entry of the list is its handle, or NULL when that did not match.
EntriesFollowAnswers ==
    searchFn = "signature" /\ BlockIoBuffer # <<>> =>
        /\ Len(BlockIoBuffer) = Len(AllHandles)
        /\ \A k \in 1 .. Len(BlockIoBuffer) :
             /\ BlockIoBuffer[k] \in {AllHandles[k], NoPath}
             /\ k > searchIndex => BlockIoBuffer[k] = AllHandles[k]
        /\ (clears \/ \A j \in 1 .. searchIndex : answers[j] # NoPath) =>
             \A k \in 1 .. searchIndex :
                 BlockIoBuffer[k] # NoPath <=> answers[k] # NoPath /\ Qualifies(answers[k])

\* The result of the search for a signature has what is left on the list.
ResultIsKept ==
    searchFn = "signature" =>
        /\ searchPc = "build" => BlockIoBuffer # <<>> /\ searchIndex = Len(BlockIoBuffer)
        /\ searchPc = "return" /\ searchStatus = "SUCCESS" =>
               /\ BlockIoBuffer # <<>> /\ searchIndex = Len(BlockIoBuffer)
               /\ searchBuffer = Matching

\* Until a handle has answered, all the steady ones are still to be asked.
SteadyAhead ==
    searchFn = "protocol" =>
        /\ searchPc = "ask" =>
               /\ searchIndex < Len(BlockIoBuffer)
               /\ BlockIoBuffer \in Seq(SearchHandles)
               /\ \A h \in steady : \E k \in searchIndex + 1 .. Len(BlockIoBuffer) :
                      BlockIoBuffer[k] = h
        /\ searchPc = "return" =>
               /\ steady # {} /\ answers # <<>> => searchStatus = "SUCCESS"
               /\ searchStatus = "SUCCESS" => DevicePath = Last(answers) /\ DevicePath # NoPath

SearchInv == SearchTypes /\ ListIsLive /\ EntriesFollowAnswers /\ ResultIsKept /\ SteadyAhead

LEMMA SearchInvInit == SearchInit => SearchInv
<1> SUFFICES ASSUME SearchInit PROVE SearchInv
  OBVIOUS
<1>1. /\ clears \in BOOLEAN /\ searchPc = "locate" /\ searchFn \in {"protocol", "signature"}
      /\ on \in [SearchHandles -> Paths \cup {NoPath}] /\ BlockIoBuffer = <<>>
      /\ searchIndex = 0 /\ searchBuffer = <<>> /\ searchLive = {} /\ answers = <<>>
      /\ steady = {h \in SearchHandles : on[h] # NoPath}
  BY DEF SearchInit
<1>2. DevicePath \in Paths \cup {NoPath}
  BY <1>1 DEF SearchInit
<1>3. /\ BlockIoBuffer \in Seq(SearchHandles \cup {NoPath}) /\ Len(BlockIoBuffer) = 0
      /\ answers \in Seq(Paths \cup {NoPath}) /\ Len(answers) = 0
  BY <1>1, EmptySeq
<1>4. SearchTypes
  BY <1>1, <1>2, <1>3 DEF SearchTypes
<1>. QED
  BY <1>1, <1>4 DEF SearchInv, ListIsLive, EntriesFollowAnswers, ResultIsKept, SteadyAhead

LEMMA LocateKeeps == SearchInv /\ LocateHandles => SearchInv'
<1> SUFFICES ASSUME SearchInv, LocateHandles PROVE SearchInv'
  OBVIOUS
<1>1. /\ searchPc = "locate"
      /\ UNCHANGED <<clears, searchFn, on, searchIndex, DevicePath, searchBuffer, answers,
                     searchEvents, steady>>
  BY DEF LocateHandles
<1>2. /\ SearchTypes /\ searchLive = {} /\ searchBuffer = <<>> /\ answers = <<>>
      /\ BlockIoBuffer = <<>> /\ searchIndex = 0 /\ Len(answers) = 0
  <2>1. Len(<<>>) = 0
    BY EmptySeq
  <2>. QED
    BY <1>1, <2>1 DEF SearchInv, ListIsLive, SearchTypes
<1>3. CASE /\ Located # {} /\ BlockIoBuffer' = SetToSeq(Located)
           /\ searchLive' = {"list"} /\ searchPc' = "ask" /\ UNCHANGED searchStatus
  <2>1. Located \subseteq SearchHandles /\ IsFiniteSet(Located)
    <3>1. Located \subseteq SearchHandles
      BY DEF Located
    <3>. QED
      BY <3>1, FS_Subset, HandleSearchAssumption
  <2> DEFINE handleList == SetToSeq(Located)
  <2>2. /\ handleList \in Seq(Located) /\ Len(handleList) \in Nat /\ handleList # <<>>
        /\ \A h \in Located : \E k \in 1 .. Len(handleList) : handleList[k] = h
    BY <1>3, <2>1, SetToSeqIs
  <2>3. searchFn = "signature" => handleList = AllHandles
    BY DEF Located, AllHandles
  <2>p. BlockIoBuffer' = handleList
    BY <1>3
  <2> HIDE DEF handleList
  <2>4. handleList \in Seq(SearchHandles) /\ handleList \in Seq(SearchHandles \cup {NoPath})
    <3>1. \A k \in 1 .. Len(handleList) : handleList[k] \in Located
      BY <2>2, ElementOfSeq
    <3>2. handleList \in [1 .. Len(handleList) -> Located]
      BY <2>2, LenProperties
    <3>3. handleList \in [1 .. Len(handleList) -> SearchHandles]
          /\ handleList \in [1 .. Len(handleList) -> SearchHandles \cup {NoPath}]
      BY <2>1, <3>2
    <3>. QED
      BY <2>2, <3>3, FunctionIsSeq
  <2>5. Len(handleList) > 0
    BY <2>2, EmptySeq
  <2>6. SearchTypes'
    BY <1>1, <1>2, <1>3, <2>2, <2>4, <2>p DEF SearchTypes
  <2>7. ListIsLive'
    BY <1>1, <1>2, <1>3, <2>2, <2>p DEF ListIsLive
  <2>8. EntriesFollowAnswers'
    <3>1. AllHandles' = AllHandles
      BY DEF AllHandles
    <3>2. searchIndex' = 0 /\ \A k : k \notin 1 .. 0
      BY <1>1, <1>2
    <3>. QED
      BY <1>1, <2>3, <2>p, <3>1, <3>2 DEF EntriesFollowAnswers
  <2>9. ResultIsKept'
    BY <1>3 DEF ResultIsKept
  <2>10. SteadyAhead'
    <3>1. searchFn = "protocol" => steady \subseteq Located
      BY <1>2 DEF SearchTypes, Located
    <3>2. searchFn = "protocol" => \A h \in steady : \E k \in 0 + 1 .. Len(handleList) : handleList[k] = h
      BY <2>2, <3>1
    <3>. QED
      BY <1>1, <1>2, <1>3, <2>2, <2>4, <2>5, <2>p, <3>2 DEF SteadyAhead
  <2>. QED
    BY <2>6, <2>7, <2>8, <2>9, <2>10 DEF SearchInv
<1>4. CASE /\ searchStatus' = "ERROR" /\ searchPc' = "return"
           /\ UNCHANGED <<BlockIoBuffer, searchLive>>
  <2>1. SearchTypes'
    BY <1>1, <1>2, <1>4 DEF SearchTypes
  <2>. QED
    BY <1>1, <1>2, <1>4, <2>1
    DEF SearchInv, ListIsLive, EntriesFollowAnswers, ResultIsKept, SteadyAhead
<1>. QED
  BY <1>3, <1>4 DEF LocateHandles

\* What the handle that is asked answers.
LEMMA AskedIs ==
    ASSUME SearchTypes, searchIndex < Len(BlockIoBuffer),
           BlockIoBuffer[searchIndex + 1] \in SearchHandles
    PROVE  /\ Asked \in Paths \cup {NoPath} /\ Answer \in Paths \cup {NoPath}
           /\ Append(answers, Asked) \in Seq(Paths \cup {NoPath})
           /\ Len(Append(answers, Asked)) = searchIndex + 1
           /\ Append(answers, Asked)[searchIndex + 1] = Asked
           /\ \A j \in 1 .. searchIndex : Append(answers, Asked)[j] = answers[j]
<1>1. Asked \in Paths \cup {NoPath}
  BY DEF Asked, SearchTypes
<1>2. Answer \in Paths \cup {NoPath}
  BY <1>1 DEF Answer, SearchTypes
<1>3. answers \in Seq(Paths \cup {NoPath}) /\ Len(answers) = searchIndex
  BY DEF SearchTypes
<1>. QED
  BY <1>1, <1>2, <1>3, AppendProperties

LEMMA AskForPathKeeps == SearchInv /\ AskForPath => SearchInv'
<1> SUFFICES ASSUME SearchInv, AskForPath PROVE SearchInv'
  OBVIOUS
<1> DEFINE n == Len(BlockIoBuffer)
<1> DEFINE i == searchIndex + 1
<1>1. /\ searchPc = "ask" /\ searchFn = "signature" /\ searchIndex < n
      /\ DevicePath' = Answer /\ answers' = Append(answers, Asked) /\ searchIndex' = i
      /\ BlockIoBuffer' = IF DevicePath' # NoPath /\ Match(DevicePath') THEN BlockIoBuffer
                          ELSE [BlockIoBuffer EXCEPT ![i] = NoPath]
      /\ UNCHANGED <<clears, searchPc, searchFn, on, searchBuffer, searchStatus, searchLive,
                     searchEvents, steady>>
  BY DEF AskForPath
<1>2. /\ SearchTypes /\ ListIsLive /\ searchLive = {"list"} /\ searchBuffer = <<>>
      /\ BlockIoBuffer # <<>>
  BY <1>1 DEF SearchInv, ListIsLive
<1>3. /\ n \in Nat /\ searchIndex \in Nat /\ i \in 1 .. n
      /\ BlockIoBuffer \in Seq(SearchHandles \cup {NoPath})
      /\ BlockIoBuffer \in [1 .. n -> SearchHandles \cup {NoPath}]
  <2>1. BlockIoBuffer \in Seq(SearchHandles \cup {NoPath}) /\ searchIndex \in 0 .. n
    BY <1>2 DEF SearchTypes
  <2>2. n \in Nat /\ BlockIoBuffer \in [1 .. n -> SearchHandles \cup {NoPath}]
    BY <2>1, LenProperties
  <2>. QED
    BY <1>1, <2>1, <2>2
<1>4. /\ n = Len(AllHandles)
      /\ \A k \in 1 .. n : BlockIoBuffer[k] \in {AllHandles[k], NoPath}
      /\ \A k \in 1 .. n : k > searchIndex => BlockIoBuffer[k] = AllHandles[k]
      /\ (clears \/ \A j \in 1 .. searchIndex : answers[j] # NoPath) =>
             \A k \in 1 .. searchIndex :
                 BlockIoBuffer[k] # NoPath <=> answers[k] # NoPath /\ Qualifies(answers[k])
  BY <1>1, <1>2 DEF SearchInv, EntriesFollowAnswers
<1>5. AllHandles[i] \in SearchHandles /\ BlockIoBuffer[i] = AllHandles[i]
  <2>1. AllHandles \in Seq(SearchHandles)
    BY SetToSeqIs, HandleSearchAssumption DEF AllHandles
  <2>2. AllHandles[i] \in SearchHandles
    BY <1>3, <1>4, <2>1, ElementOfSeq
  <2>3. i > searchIndex
    BY <1>3
  <2>. QED
    BY <1>3, <1>4, <2>2, <2>3
<1>6. /\ Asked \in Paths \cup {NoPath} /\ Answer \in Paths \cup {NoPath}
      /\ answers' \in Seq(Paths \cup {NoPath}) /\ Len(answers') = i /\ answers'[i] = Asked
      /\ \A j \in 1 .. searchIndex : answers'[j] = answers[j]
  BY <1>1, <1>2, <1>5, AskedIs
<1> HIDE DEF n, i
<1>7. /\ BlockIoBuffer' \in [1 .. n -> SearchHandles \cup {NoPath}]
      /\ \A k \in 1 .. n : k # i => BlockIoBuffer'[k] = BlockIoBuffer[k]
      /\ BlockIoBuffer'[i] =
             IF Answer # NoPath /\ Match(Answer) THEN AllHandles[i] ELSE NoPath
  BY <1>1, <1>3, <1>5
<1>8. BlockIoBuffer' \in Seq(SearchHandles \cup {NoPath}) /\ Len(BlockIoBuffer') = n
      /\ BlockIoBuffer' # <<>>
  <2>1. BlockIoBuffer' \in Seq(SearchHandles \cup {NoPath}) /\ Len(BlockIoBuffer') = n
    BY <1>3, <1>7, FunctionIsSeq
  <2>2. n # 0
    BY <1>3
  <2>. QED
    BY <2>1, <2>2, EmptySeq
<1>9. SearchTypes'
  <2>1. i \in 0 .. Len(BlockIoBuffer')
    BY <1>3, <1>8
  <2>. QED
    BY <1>1, <1>2, <1>6, <1>8, <2>1 DEF SearchTypes
<1>10. ListIsLive'
  BY <1>1, <1>2, <1>8 DEF ListIsLive
<1>11. ResultIsKept' /\ SteadyAhead'
  BY <1>1 DEF ResultIsKept, SteadyAhead
<1>12. EntriesFollowAnswers'
  <2>1. AllHandles' = AllHandles
    BY DEF AllHandles
  <2>2. ASSUME NEW k \in 1 .. n
        PROVE  /\ BlockIoBuffer'[k] \in {AllHandles[k], NoPath}
               /\ k > i => BlockIoBuffer'[k] = AllHandles[k]
    <3>1. CASE k = i
      BY <1>3, <1>7, <3>1
    <3>2. CASE k # i
      <4>1. k > i => k > searchIndex
        BY <1>3 DEF i
      <4>. QED
        BY <1>4, <1>7, <3>2, <4>1
    <3>. QED
      BY <3>1, <3>2
  <2>3. ASSUME clears \/ \A j \in 1 .. i : answers'[j] # NoPath, NEW k \in 1 .. i
        PROVE  BlockIoBuffer'[k] # NoPath <=> answers'[k] # NoPath /\ Qualifies(answers'[k])
    <3>1. /\ \A j : j \in 1 .. i <=> j \in 1 .. searchIndex \/ j = i
          /\ i \notin 1 .. searchIndex /\ \A j \in 1 .. i : j \in 1 .. n
      BY <1>3 DEF i
    <3>2. CASE k = i
      <4>1. Answer = Asked
        BY <1>6, <2>3, <3>1 DEF Answer
      <4>2. Asked # NoPath => (Match(Asked) <=> Qualifies(Asked))
        BY <1>6, MatchQualifies
      <4>3. AllHandles[i] # NoPath
        BY <1>5, HandleSearchAssumption
      <4>. QED
        BY <1>6, <1>7, <3>2, <4>1, <4>2, <4>3
    <3>3. CASE k # i
      <4>1. k \in 1 .. searchIndex /\ k \in 1 .. n
        BY <3>1, <3>3
      <4>2. clears \/ \A j \in 1 .. searchIndex : answers[j] # NoPath
        BY <1>6, <2>3, <3>1
      <4>. QED
        BY <1>4, <1>6, <1>7, <3>3, <4>1, <4>2
    <3>. QED
      BY <3>2, <3>3
  <2>. QED
    BY <1>1, <1>4, <1>8, <2>1, <2>2, <2>3 DEF EntriesFollowAnswers
<1>. QED
  BY <1>9, <1>10, <1>11, <1>12 DEF SearchInv

LEMMA MatchingStays ==
    UNCHANGED BlockIoBuffer => Matching' = Matching
BY DEF Matching, MatchingOf

LEMMA AllAskedKeeps == SearchInv /\ AllAsked => SearchInv'
<1> SUFFICES ASSUME SearchInv, AllAsked PROVE SearchInv'
  OBVIOUS
<1>1. /\ searchPc = "ask" /\ searchFn = "signature" /\ searchIndex = Len(BlockIoBuffer)
      /\ UNCHANGED <<clears, searchFn, on, BlockIoBuffer, searchIndex, DevicePath, searchBuffer,
                     answers, searchEvents, steady>>
      /\ \/ /\ Matching # <<>> /\ searchPc' = "build" /\ UNCHANGED searchStatus
            /\ searchLive' = searchLive \cup {"result"}
         \/ /\ Matching # <<>> /\ searchStatus' = "OUT_OF_RESOURCES"
            /\ searchPc' = "return" /\ searchLive' = searchLive \ {"list"}
         \/ /\ Matching = <<>> /\ searchStatus' = "SUCCESS"
            /\ searchPc' = "return" /\ searchLive' = searchLive \ {"list"}
  BY DEF AllAsked
<1>2. /\ SearchTypes /\ searchLive = {"list"} /\ searchBuffer = <<>> /\ BlockIoBuffer # <<>>
      /\ Matching' = Matching /\ EntriesFollowAnswers
  BY <1>1, MatchingStays DEF SearchInv, ListIsLive
<1>3. SearchTypes'
  BY <1>1, <1>2 DEF SearchTypes
<1>4. EntriesFollowAnswers'
  BY <1>1, <1>2 DEF EntriesFollowAnswers, AllHandles
<1>5. ListIsLive' /\ ResultIsKept' /\ SteadyAhead'
  BY <1>1, <1>2 DEF ListIsLive, ResultIsKept, SteadyAhead
<1>. QED
  BY <1>3, <1>4, <1>5 DEF SearchInv

LEMMA BuildKeeps == SearchInv /\ Build => SearchInv'
<1> SUFFICES ASSUME SearchInv, Build PROVE SearchInv'
  OBVIOUS
<1>1. /\ searchPc = "build" /\ searchBuffer' = Matching
      /\ searchLive' = searchLive \ {"list"} /\ searchStatus' = "SUCCESS" /\ searchPc' = "return"
      /\ UNCHANGED <<clears, searchFn, on, BlockIoBuffer, searchIndex, DevicePath, answers,
                     searchEvents, steady>>
  BY DEF Build
<1>2. /\ SearchTypes /\ searchLive = {"list", "result"} /\ searchFn = "signature"
      /\ Matching # <<>> /\ Matching' = Matching /\ EntriesFollowAnswers
      /\ BlockIoBuffer # <<>> /\ searchIndex = Len(BlockIoBuffer)
  BY <1>1, MatchingStays DEF SearchInv, ListIsLive, ResultIsKept
<1>3. SearchTypes'
  BY <1>1, <1>2 DEF SearchTypes
<1>4. EntriesFollowAnswers'
  BY <1>1, <1>2 DEF EntriesFollowAnswers, AllHandles
<1>5. ListIsLive' /\ ResultIsKept' /\ SteadyAhead'
  BY <1>1, <1>2 DEF ListIsLive, ResultIsKept, SteadyAhead
<1>. QED
  BY <1>3, <1>4, <1>5 DEF SearchInv

LEMMA AskForProtocolKeeps == SearchInv /\ AskForProtocol => SearchInv'
<1> SUFFICES ASSUME SearchInv, AskForProtocol PROVE SearchInv'
  OBVIOUS
<1> DEFINE n == Len(BlockIoBuffer)
<1> DEFINE i == searchIndex + 1
<1>1. /\ searchPc = "ask" /\ searchFn = "protocol"
      /\ DevicePath' = Answer /\ answers' = Append(answers, Asked) /\ searchIndex' = i
      /\ searchStatus' = IF Asked = NoPath THEN "ERROR" ELSE "SUCCESS"
      /\ IF StopsWhenFound THEN searchPc' = "return" /\ searchLive' = searchLive \ {"list"}
         ELSE UNCHANGED <<searchPc, searchLive>>
      /\ UNCHANGED <<clears, searchFn, on, BlockIoBuffer, searchBuffer, searchEvents, steady>>
  BY DEF AskForProtocol
<1>2. /\ SearchTypes /\ ListIsLive /\ searchLive = {"list"} /\ searchBuffer = <<>>
      /\ BlockIoBuffer # <<>>
  BY <1>1 DEF SearchInv, ListIsLive
<1>3. /\ searchIndex < n /\ BlockIoBuffer \in Seq(SearchHandles)
      /\ \A h \in steady : \E k \in i .. n : BlockIoBuffer[k] = h
  BY <1>1 DEF SearchInv, SteadyAhead
<1>4. n \in Nat /\ searchIndex \in Nat /\ i \in 1 .. n /\ BlockIoBuffer[i] \in SearchHandles
  <2>1. n \in Nat /\ searchIndex \in 0 .. n
    BY <1>2, <1>3, LenProperties DEF SearchTypes
  <2>2. i \in 1 .. n
    BY <1>3, <2>1
  <2>. QED
    BY <1>3, <2>1, <2>2, ElementOfSeq
<1>5. /\ Asked \in Paths \cup {NoPath} /\ Answer \in Paths \cup {NoPath}
      /\ answers' \in Seq(Paths \cup {NoPath}) /\ Len(answers') = i /\ answers'[i] = Asked
  BY <1>1, <1>2, <1>3, <1>4, AskedIs
<1>6. Asked = on[BlockIoBuffer[i]]
  BY DEF Asked
<1>7. StopsWhenFound <=> Asked # NoPath \/ i = n
  BY DEF StopsWhenFound
<1>8. Last(answers') = Asked /\ answers' # <<>>
  <2>1. Last(answers') = Asked
    BY <1>5 DEF Last
  <2>2. i # 0
    BY <1>4
  <2>. QED
    BY <1>5, <2>1, <2>2, EmptySeq
<1> HIDE DEF i
<1>9. SearchTypes'
  <2>1. i \in 0 .. n
    BY <1>4
  <2>2. searchPc' \in {"locate", "ask", "build", "return"}
    BY <1>1
  <2>. QED
    BY <1>1, <1>2, <1>5, <2>1, <2>2 DEF SearchTypes
<1>10. ListIsLive'
  BY <1>1, <1>2 DEF ListIsLive
<1>11. EntriesFollowAnswers' /\ ResultIsKept'
  BY <1>1 DEF EntriesFollowAnswers, ResultIsKept
<1>12. SteadyAhead'
  <2>0. \A h \in steady : on[h] # NoPath
    BY <1>2 DEF SearchTypes
  <2>1. CASE Asked # NoPath
    <3>1. searchPc' = "return" /\ searchStatus' = "SUCCESS" /\ DevicePath' = Asked
      BY <1>1, <1>7, <2>1 DEF Answer
    <3>. QED
      BY <1>8, <2>1, <3>1 DEF SteadyAhead
  <2>2. CASE Asked = NoPath
    <3>1. \A h \in steady : \E k \in i + 1 .. n : BlockIoBuffer[k] = h
      <4>1. SUFFICES ASSUME NEW h \in steady PROVE \E k \in i + 1 .. n : BlockIoBuffer[k] = h
        OBVIOUS
      <4>2. PICK k \in i .. n : BlockIoBuffer[k] = h
        BY <1>3
      <4>3. k # i
        BY <1>6, <2>0, <2>2, <4>2
      <4>4. k \in i + 1 .. n
        BY <1>4, <4>3
      <4>. QED
        BY <4>2, <4>4
    <3>2. CASE i = n
      <4>1. \A k : k \notin i + 1 .. n
        BY <1>4, <3>2
      <4>2. steady = {}
        BY <3>1, <4>1
      <4>3. searchPc' = "return" /\ searchStatus' = "ERROR"
        BY <1>1, <1>7, <2>2, <3>2
      <4>. QED
        BY <1>1, <4>2, <4>3 DEF SteadyAhead
    <3>3. CASE i # n
      <4>1. searchPc' = "ask" /\ i < n
        BY <1>1, <1>4, <1>7, <2>2, <3>3
      <4>. QED
        BY <1>1, <1>3, <3>1, <4>1 DEF SteadyAhead
    <3>. QED
      BY <3>2, <3>3
  <2>. QED
    BY <2>1, <2>2
<1>. QED
  BY <1>9, <1>10, <1>11, <1>12 DEF SearchInv

LEMMA HandlesChangeKeeps == SearchInv /\ HandlesChange => SearchInv'
<1> SUFFICES ASSUME SearchInv, HandlesChange PROVE SearchInv'
  OBVIOUS
<1>1. /\ searchPc # "return"
      /\ UNCHANGED <<clears, searchPc, searchFn, BlockIoBuffer, searchIndex, DevicePath,
                     searchBuffer, searchStatus, searchLive, answers>>
  BY DEF HandlesChange
<1>2. PICK h \in SearchHandles, path \in Paths \cup {NoPath} :
          on' = [on EXCEPT ![h] = path] /\ steady' = steady \ {h}
  BY DEF HandlesChange
<1>3. Matching' = Matching
  BY <1>1, MatchingStays
<1>4. SearchTypes'
  <2>1. SearchTypes
    BY DEF SearchInv
  <2>2. on' \in [SearchHandles -> Paths \cup {NoPath}]
    BY <1>2, <2>1 DEF SearchTypes
  <2>3. steady' \subseteq SearchHandles /\ \A g \in steady' : on'[g] # NoPath
    BY <1>2, <2>1 DEF SearchTypes
  <2>. QED
    BY <1>1, <2>1, <2>2, <2>3 DEF SearchTypes
<1>5. ListIsLive' /\ ResultIsKept'
  BY <1>1, <1>3 DEF SearchInv, ListIsLive, ResultIsKept
<1>6. EntriesFollowAnswers'
  BY <1>1 DEF SearchInv, EntriesFollowAnswers, AllHandles
<1>7. SteadyAhead'
  BY <1>1, <1>2 DEF SearchInv, SteadyAhead
<1>. QED
  BY <1>4, <1>5, <1>6, <1>7 DEF SearchInv

LEMMA SearchInvKept == SearchInv /\ [SearchNext]_searchVars => SearchInv'
<1> SUFFICES ASSUME SearchInv, [SearchNext]_searchVars PROVE SearchInv'
  OBVIOUS
<1>1. CASE SearchNext
  BY <1>1, LocateKeeps, AskForPathKeeps, AllAskedKeeps, BuildKeeps, AskForProtocolKeeps,
     HandlesChangeKeeps DEF SearchNext
<1>2. CASE UNCHANGED searchVars
  <2>1. Matching' = Matching /\ AllHandles' = AllHandles
    BY <1>2, MatchingStays DEF searchVars, AllHandles
  <2>. QED
    BY <1>2, <2>1 DEF searchVars, SearchInv, SearchTypes, ListIsLive, EntriesFollowAnswers,
                      ResultIsKept, SteadyAhead
<1>. QED
  BY <1>1, <1>2

\* The invariant says what the two searches find.
LEMMA InvFinds == SearchInv => SearchFinds
<1> SUFFICES ASSUME SearchInv PROVE SearchFinds
  OBVIOUS
<1>1. FindsSteadyProtocol
  BY DEF SearchInv, ListIsLive, SteadyAhead, FindsSteadyProtocol
<1>2. FindsTheDisk
  <2>1. SUFFICES ASSUME searchFn = "signature", searchPc = "return" PROVE FindsTheDisk
    BY DEF FindsTheDisk
  <2>2. searchLive = IF searchBuffer = <<>> THEN {} ELSE {"result"}
    BY <2>1 DEF SearchInv, ListIsLive
  <2>3. ASSUME searchStatus = "SUCCESS", clears \/ \A j \in DOMAIN answers : answers[j] # NoPath
        PROVE  ToSet(searchBuffer) = {AllHandles[k] : k \in
                   {j \in DOMAIN answers : answers[j] # NoPath /\ Qualifies(answers[j])}}
    <3>1. BlockIoBuffer # <<>> /\ searchIndex = Len(BlockIoBuffer) /\ searchBuffer = Matching
      BY <2>1, <2>3 DEF SearchInv, ResultIsKept
    <3>2. SearchTypes
      BY DEF SearchInv
    <3>3. DOMAIN answers = 1 .. searchIndex
      BY <3>2, LenProperties DEF SearchTypes
    <3>4. ToSet(searchBuffer) = Kept(searchIndex)
      BY <3>1, <3>2, MatchingIs DEF SearchTypes
    <3>5. /\ \A k \in 1 .. searchIndex : BlockIoBuffer[k] \in {AllHandles[k], NoPath}
          /\ \A k \in 1 .. searchIndex :
                 BlockIoBuffer[k] # NoPath <=> answers[k] # NoPath /\ Qualifies(answers[k])
      BY <2>1, <2>3, <3>1, <3>3 DEF SearchInv, EntriesFollowAnswers
    <3>. QED
      BY <3>3, <3>4, <3>5 DEF Kept
  <2>. QED
    BY <2>2, <2>3 DEF FindsTheDisk, AllHandles
<1>. QED
  BY <1>1, <1>2 DEF SearchFinds

\* hand.c 22-55 and 104-296: whatever comes and goes on the handles, the search for a
\* signature returns exactly the handles whose path qualified, a protocol that one handle
\* keeps is found, and no list leaks.
THEOREM SearchesFind == SearchSpec => []SearchFinds
<1>1. SearchInit => SearchInv
  BY SearchInvInit
<1>2. SearchInv /\ [SearchNext]_searchVars => SearchInv'
  BY SearchInvKept
<1>3. SearchInv => SearchFinds
  BY InvFinds
<1>. QED
  BY <1>1, <1>2, <1>3, PTL DEF SearchSpec

-----------------------------------------------------------------------------
(* Sums over the nodes of a device path *)

\* A quantity of nodes, as NodeSize is one.
Quantity == [Nodes -> Nat]

LEMMA SeqOfNodes ==
    ASSUME NEW s \in Seq(Nodes)
    PROVE  /\ Len(s) \in Nat /\ DOMAIN s = 1 .. Len(s)
           /\ \A k \in 1 .. Len(s) : s[k] \in Nodes
<1>1. Len(s) \in Nat /\ DOMAIN s = 1 .. Len(s)
  BY LenProperties
<1>2. ASSUME NEW k \in 1 .. Len(s) PROVE s[k] \in Nodes
  BY <1>1, ElementOfSeq
<1>. QED  BY <1>1, <1>2

\* The sums are what they say.
LEMMA TotalsAre ==
    ASSUME NEW w \in Quantity, NEW s \in Seq(Nodes)
    PROVE  /\ SumsOver(w, s) \in [0 .. Len(s) -> Nat]
           /\ SumsOver(w, s)[0] = 0
           /\ \A k \in 1 .. Len(s) : SumsOver(w, s)[k] = SumsOver(w, s)[k - 1] + w[s[k]]
<1>. DEFINE n == Len(s)
            step == [c \in (1 .. n) \X Nat |-> c[2] + w[s[c[1]]]]
<1>1. n \in Nat /\ \A k \in 1 .. n : w[s[k]] \in Nat
  BY SeqOfNodes DEF Quantity
<1>. HIDE DEF n
<1>2. step \in [(1 .. n) \X Nat -> Nat]
  BY <1>1
<1>3. \A k \in 1 .. n : \A l \in Nat : step[<<k, l>>] = l + w[s[k]]
  OBVIOUS
<1>. HIDE DEF step
<1>4. PICK g \in [0 .. n -> Nat] : g[0] = 0 /\ \A k \in 1 .. n : g[k] = step[<<k, g[k - 1]>>]
  <2>1. IsStep(n, Nat, step)
    BY <1>2 DEF IsStep
  <2>2. \E g : IsLoop(g, n, Nat, 0, step)
    BY <1>1, <2>1, LoopExists
  <2>. QED  BY <2>2 DEF IsLoop
<1>5. ASSUME NEW k \in 1 .. n PROVE k - 1 \in 0 .. n /\ g[k] = g[k - 1] + w[s[k]]
  <2>1. k - 1 \in 0 .. n /\ g[k - 1] \in Nat
    BY <1>1, <1>4
  <2>. QED  BY <1>3, <1>4, <2>1
<1>6. g = [k \in 0 .. n |-> IF k = 0 THEN 0 ELSE g[k - 1] + w[s[k]]]
  BY <1>1, <1>4, <1>5
<1>7. SumsOver(w, s) = g
  <2>1. SumsOver(w, s) = [k \in 0 .. n |-> IF k = 0 THEN 0 ELSE SumsOver(w, s)[k - 1] + w[s[k]]]
    BY <1>6, Zenon DEF SumsOver, n
  <2>. DEFINE t == SumsOver(w, s)
              S == {k \in 0 .. n : t[k] = g[k]}
  <2>2. /\ t = [k \in 0 .. n |-> IF k = 0 THEN 0 ELSE t[k - 1] + w[s[k]]]
    BY <2>1
  <2>. HIDE DEF t
  <2>3. 0 \in S
    BY <1>1, <1>4, <2>2
  <2>4. ASSUME NEW k \in 0 .. n - 1, k \in S PROVE k + 1 \in S
    <3>1. k + 1 \in 1 .. n /\ (k + 1) - 1 = k /\ k + 1 \in 0 .. n /\ k + 1 # 0
      BY <1>1
    <3>2. t[k + 1] = t[k] + w[s[k + 1]]
      BY <2>2, <3>1
    <3>3. g[k + 1] = g[k] + w[s[k + 1]]
      BY <1>5, <3>1
    <3>. QED  BY <2>4, <3>1, <3>2, <3>3
  <2>. HIDE DEF S
  <2>5. 0 .. n \subseteq S
    BY <1>1, <2>3, <2>4, BoundedInduction
  <2>6. \A k \in 0 .. n : t[k] = g[k]
    BY <2>5 DEF S
  <2>7. DOMAIN t = 0 .. n /\ t = [k \in 0 .. n |-> t[k]]
    BY <2>2
  <2>8. g = [k \in 0 .. n |-> g[k]]
    BY <1>4
  <2>9. t = g
    BY <2>6, <2>7, <2>8
  <2>. QED  BY <2>9 DEF t
<1>8. /\ g \in [0 .. n -> Nat] /\ g[0] = 0
      /\ \A k \in 1 .. n : g[k] = g[k - 1] + w[s[k]]
  BY <1>4, <1>5
<1>. QED  BY <1>7, <1>8 DEF n

LEMMA TotalType ==
    ASSUME NEW w \in Quantity, NEW s \in Seq(Nodes)
    PROVE  SumOver(w, s) \in Nat
BY TotalsAre, SeqOfNodes DEF SumOver

LEMMA TotalEmpty ==
    ASSUME NEW w \in Quantity
    PROVE  SumOver(w, <<>>) = 0
<1>1. <<>> \in Seq(Nodes) /\ Len(<<>>) = 0
  BY EmptySeq
<1>. QED  BY <1>1, TotalsAre DEF SumOver

LEMMA TotalOne ==
    ASSUME NEW w \in Quantity, NEW m \in Nodes
    PROVE  SumOver(w, <<m>>) = w[m]
<1>. DEFINE s == <<m>>
<1>1. s \in Seq(Nodes) /\ Len(s) = 1 /\ s[1] = m
  OBVIOUS
<1>. HIDE DEF s
<1>2. SumsOver(w, s)[0] = 0 /\ SumsOver(w, s)[1] = SumsOver(w, s)[0] + w[m] /\ w[m] \in Nat
  <2>1. \A k \in 1 .. 1 : SumsOver(w, s)[k] = SumsOver(w, s)[k - 1] + w[s[k]]
    BY <1>1, TotalsAre
  <2>2. SumsOver(w, s)[0] = 0
    BY <1>1, TotalsAre
  <2>. QED  BY <1>1, <2>1, <2>2 DEF Quantity
<1>3. SumOver(w, s) = w[m]
  BY <1>1, <1>2 DEF SumOver
<1>. QED  BY <1>3 DEF s

\* The sum of two paths, one behind the other.
LEMMA TotalConcat ==
    ASSUME NEW w \in Quantity, NEW s \in Seq(Nodes), NEW t \in Seq(Nodes)
    PROVE  SumOver(w, s \o t) = SumOver(w, s) + SumOver(w, t)
<1>. DEFINE m == Len(s)
            n == Len(t)
            u == s \o t
            S == {k \in 0 .. m : SumsOver(w, u)[k] = SumsOver(w, s)[k]}
            T == {k \in 0 .. n : SumsOver(w, u)[m + k] = SumsOver(w, s)[m] + SumsOver(w, t)[k]}
<1>1. /\ m \in Nat /\ n \in Nat /\ u \in Seq(Nodes) /\ Len(u) = m + n
      /\ \A k \in 1 .. m + n : u[k] = IF k <= m THEN s[k] ELSE t[k - m]
  BY ConcatProperties, LenProperties
<1>2. /\ SumsOver(w, s) \in [0 .. m -> Nat] /\ SumsOver(w, s)[0] = 0
      /\ \A k \in 1 .. m : SumsOver(w, s)[k] = SumsOver(w, s)[k - 1] + w[s[k]]
  BY TotalsAre
<1>3. /\ SumsOver(w, t) \in [0 .. n -> Nat] /\ SumsOver(w, t)[0] = 0
      /\ \A k \in 1 .. n : SumsOver(w, t)[k] = SumsOver(w, t)[k - 1] + w[t[k]]
  BY TotalsAre
<1>. HIDE DEF u
<1>4. /\ SumsOver(w, u)[0] = 0
      /\ \A k \in 1 .. m + n : SumsOver(w, u)[k] = SumsOver(w, u)[k - 1] + w[u[k]]
  BY <1>1, TotalsAre
<1>5. SumOver(w, u) = SumsOver(w, u)[m + n] /\ SumOver(w, s) = SumsOver(w, s)[m]
      /\ SumOver(w, t) = SumsOver(w, t)[n]
  BY <1>1 DEF SumOver
<1>. HIDE DEF m, n
<1>6. 0 \in S
  BY <1>1, <1>2, <1>4
<1>7. ASSUME NEW k \in 0 .. m - 1, k \in S PROVE k + 1 \in S
  <2>1. k + 1 \in 1 .. m /\ k + 1 \in 1 .. m + n /\ (k + 1) - 1 = k /\ k + 1 <= m
        /\ k + 1 \in 0 .. m
    BY <1>1
  <2>2. u[k + 1] = s[k + 1]
    BY <1>1, <2>1
  <2>. QED  BY <1>2, <1>4, <1>7, <2>1, <2>2
<1>. HIDE DEF S
<1>8. 0 .. m \subseteq S
  BY <1>1, <1>6, <1>7, BoundedInduction
<1>9. SumsOver(w, u)[m] = SumsOver(w, s)[m] /\ SumsOver(w, s)[m] \in Nat
  BY <1>1, <1>2, <1>8 DEF S
<1>10. 0 \in T
  BY <1>1, <1>3, <1>9
<1>11. ASSUME NEW k \in 0 .. n - 1, k \in T PROVE k + 1 \in T
  <2>1. /\ k + 1 \in 1 .. n /\ (k + 1) - 1 = k /\ k + 1 \in 0 .. n /\ k \in 0 .. n
        /\ m + (k + 1) \in 1 .. m + n /\ (m + (k + 1)) - 1 = m + k
        /\ ~(m + (k + 1) <= m) /\ (m + (k + 1)) - m = k + 1
    BY <1>1
  <2>2. u[m + (k + 1)] = t[k + 1]
    BY <1>1, <2>1
  <2>3. SumsOver(w, u)[m + (k + 1)] = SumsOver(w, u)[m + k] + w[t[k + 1]]
    BY <1>4, <2>1, <2>2
  <2>4. SumsOver(w, t)[k + 1] = SumsOver(w, t)[k] + w[t[k + 1]]
    BY <1>3, <2>1
  <2>5. SumsOver(w, t)[k] \in Nat /\ w[t[k + 1]] \in Nat
    <3>1. t[k + 1] \in Nodes
      BY <2>1, SeqOfNodes DEF n
    <3>. QED  BY <1>3, <2>1, <3>1 DEF Quantity
  <2>6. SumsOver(w, u)[m + k] = SumsOver(w, s)[m] + SumsOver(w, t)[k]
    BY <1>11
  <2>7. SumsOver(w, u)[m + (k + 1)] = SumsOver(w, s)[m] + SumsOver(w, t)[k + 1]
    BY <1>9, <2>3, <2>4, <2>5, <2>6
  <2>. QED  BY <2>1, <2>7
<1>. HIDE DEF T
<1>12. 0 .. n \subseteq T
  BY <1>1, <1>10, <1>11, BoundedInduction
<1>13. SumsOver(w, u)[m + n] = SumsOver(w, s)[m] + SumsOver(w, t)[n]
  BY <1>1, <1>12 DEF T
<1>. QED  BY <1>5, <1>13 DEF u

\* Nodes without any of a quantity sum up to none.
LEMMA TotalNone ==
    ASSUME NEW w \in Quantity, NEW s \in Seq(Nodes), \A k \in 1 .. Len(s) : w[s[k]] = 0
    PROVE  SumOver(w, s) = 0
<1>. DEFINE n == Len(s)
            S == {k \in 0 .. n : SumsOver(w, s)[k] = 0}
<1>1. n \in Nat /\ SumsOver(w, s)[0] = 0
      /\ \A k \in 1 .. n : SumsOver(w, s)[k] = SumsOver(w, s)[k - 1] + 0
  BY TotalsAre, SeqOfNodes
<1>2. 0 \in S
  BY <1>1
<1>. HIDE DEF n
<1>3. ASSUME NEW k \in 0 .. n - 1, k \in S PROVE k + 1 \in S
  <2>1. k + 1 \in 1 .. n /\ (k + 1) - 1 = k /\ k + 1 \in 0 .. n
    BY <1>1
  <2>. QED  BY <1>1, <1>3, <2>1
<1>. HIDE DEF S
<1>4. 0 .. n \subseteq S
  BY <1>1, <1>2, <1>3, BoundedInduction
<1>. QED  BY <1>1, <1>4 DEF S, n, SumOver

-----------------------------------------------------------------------------
(* What a reader of a device path finds *)

\* A path ends with its first "end".
IsPath(path) ==
    /\ path \in Seq(Nodes) /\ path # <<>> /\ path[Len(path)] = "end"
    /\ \A k \in 1 .. Len(path) - 1 : path[k] # "end"

Endless(nodes) == nodes \in Seq(Nodes) /\ \A k \in 1 .. Len(nodes) : nodes[k] # "end"

LEMMA PathsArePaths ==
    ASSUME NEW path \in DevicePaths
    PROVE  IsPath(path)
BY DevicePathAssumption DEF IsPath, Last

\* The first nodes of some.
LEMMA Beginning ==
    ASSUME NEW s \in Seq(Nodes), NEW m \in 0 .. Len(s)
    PROVE  /\ SubSeq(s, 1, m) \in Seq(Nodes) /\ Len(SubSeq(s, 1, m)) = m
           /\ \A i \in 1 .. m : SubSeq(s, 1, m)[i] = s[i]
<1>. DEFINE u == SubSeq(s, 1, m)
<1>1. m \in Nat /\ \A i \in 1 .. m : s[i] \in Nodes
  BY SeqOfNodes
<1>2. /\ u \in Seq(Nodes) /\ Len(u) = IF 1 <= m THEN m - 1 + 1 ELSE 0
      /\ \A i \in 1 .. m - 1 + 1 : u[i] = s[1 + i - 1]
  BY <1>1, SubSeqProperties
<1>. HIDE DEF u
<1>3. u \in Seq(Nodes) /\ Len(u) = m
  BY <1>1, <1>2
<1>4. ASSUME NEW i \in 1 .. m PROVE u[i] = s[i]
  <2>1. i \in 1 .. m - 1 + 1 /\ 1 + i - 1 = i
    BY <1>1
  <2>. QED  BY <1>2, <2>1
<1>. QED  BY <1>3, <1>4 DEF u

\* And the others.
LEMMA Remainder ==
    ASSUME NEW s \in Seq(Nodes), NEW k \in 0 .. Len(s)
    PROVE  /\ SubSeq(s, k + 1, Len(s)) \in Seq(Nodes)
           /\ Len(SubSeq(s, k + 1, Len(s))) = Len(s) - k
           /\ \A i \in 1 .. Len(s) - k : SubSeq(s, k + 1, Len(s))[i] = s[k + i]
<1>. DEFINE n == Len(s)
            u == SubSeq(s, k + 1, n)
<1>1. n \in Nat /\ k \in 0 .. n /\ \A i \in 1 .. n : s[i] \in Nodes
  BY SeqOfNodes
<1>. HIDE DEF n
<1>2. \A i \in k + 1 .. n : s[i] \in Nodes
  BY <1>1
<1>3. /\ u \in Seq(Nodes) /\ Len(u) = IF k + 1 <= n THEN n - (k + 1) + 1 ELSE 0
      /\ \A i \in 1 .. n - (k + 1) + 1 : u[i] = s[(k + 1) + i - 1]
  BY <1>1, <1>2, SubSeqProperties
<1>. HIDE DEF u
<1>4. u \in Seq(Nodes) /\ Len(u) = n - k
  BY <1>1, <1>3
<1>5. ASSUME NEW i \in 1 .. n - k PROVE u[i] = s[k + i]
  <2>1. i \in 1 .. n - (k + 1) + 1 /\ (k + 1) + i - 1 = k + i
    BY <1>1
  <2>. QED  BY <1>3, <2>1
<1>. QED  BY <1>4, <1>5 DEF u, n

LEMMA EndsAreNodes == "end" \in Nodes /\ "instance" \in Nodes
BY DEF Nodes, EndTypes

\* A search stops at the first of the nodes it looks for.
LEMMA UntilFirst ==
    ASSUME NEW s \in Seq(Nodes), NEW ends, NEW j \in 1 .. Len(s), s[j] \in ends
    PROVE  /\ Until(s, ends) \in 1 .. j /\ s[Until(s, ends)] \in ends
           /\ \A i \in 1 .. Until(s, ends) - 1 : s[i] \notin ends
<1>. DEFINE n == Len(s)
            I == {i \in 1 .. n : s[i] \in ends}
            k == CHOOSE x \in I : \A y \in I : x <= y
<1>1. n \in Nat
  BY SeqOfNodes
<1>2. Until(s, ends) = k
  <2>1. I # {}
    OBVIOUS
  <2>. QED  BY <2>1 DEF Until, SelectInSeq, Min
<1>. HIDE DEF n
<1>3. I \subseteq Nat /\ j \in I /\ \A i \in I : i \in 1 .. n /\ s[i] \in ends
  BY <1>1 DEF n
<1>4. \A i \in 1 .. n : s[i] \in ends => i \in I
  OBVIOUS
<1>. HIDE DEF I
<1>5. k \in I /\ \A y \in I : k <= y
  <2>1. \E x \in I : \A y \in I : x <= y
    BY <1>3, LeastExists
  <2>. QED  BY <2>1
<1>. HIDE DEF k
<1>6. k \in 1 .. j /\ s[k] \in ends /\ j \in 1 .. n
  BY <1>1, <1>3, <1>5
<1>7. ASSUME NEW i \in 1 .. k - 1 PROVE s[i] \notin ends
  <2>1. i \in 1 .. n /\ ~(k <= i)
    BY <1>1, <1>6
  <2>. QED  BY <1>4, <1>5, <2>1
<1>. QED  BY <1>2, <1>6, <1>7

LEMMA UntilIs ==
    ASSUME NEW s \in Seq(Nodes), NEW ends, NEW j \in 1 .. Len(s), s[j] \in ends,
           \A i \in 1 .. j - 1 : s[i] \notin ends
    PROVE  Until(s, ends) = j
<1>. DEFINE k == Until(s, ends)
<1>1. k \in 1 .. j /\ s[k] \in ends
  BY UntilFirst
<1>. HIDE DEF k
<1>2. ~(k \in 1 .. j - 1)
  BY <1>1
<1>3. k = j
  BY <1>1, <1>2
<1>. QED  BY <1>3 DEF k

\* Nothing behind the end of a path is read.
LEMMA ReadsPath ==
    ASSUME NEW path, IsPath(path), NEW t \in Seq(Nodes)
    PROVE  ReadPath(path \o t) = path
<1>. DEFINE n == Len(path)
            s == path \o t
<1>1. /\ path \in Seq(Nodes) /\ n \in Nat \ {0} /\ path[n] = "end"
      /\ \A k \in 1 .. n - 1 : path[k] # "end"
  BY EmptySeq DEF IsPath
<1>2. /\ s \in Seq(Nodes) /\ Len(s) = n + Len(t) /\ Len(t) \in Nat
      /\ \A i \in 1 .. n + Len(t) : s[i] = IF i <= n THEN path[i] ELSE t[i - n]
  BY <1>1, ConcatProperties, LenProperties
<1>. HIDE DEF s, n
<1>3. Until(s, {"end"}) = n
  <2>1. n \in 1 .. Len(s) /\ s[n] \in {"end"}
    BY <1>1, <1>2
  <2>2. ASSUME NEW i \in 1 .. n - 1 PROVE s[i] \notin {"end"}
    <3>1. i \in 1 .. n + Len(t) /\ i <= n
      BY <1>1, <1>2
    <3>. QED  BY <1>1, <1>2, <3>1
  <2>. QED  BY <1>2, <2>1, <2>2, UntilIs
<1>4. SubSeq(s, 1, n) = path
  <2>. DEFINE u == SubSeq(s, 1, n)
  <2>1. u \in Seq(Nodes) /\ Len(u) = n /\ \A i \in 1 .. n : u[i] = s[i]
    BY <1>1, <1>2, Beginning
  <2>2. ASSUME NEW i \in 1 .. n PROVE s[i] = path[i]
    <3>1. i \in 1 .. n + Len(t) /\ i <= n
      BY <1>1, <1>2
    <3>. QED  BY <1>2, <3>1
  <2>. HIDE DEF u
  <2>3. u = path
    BY <1>1, <2>1, <2>2, SeqEqual DEF n
  <2>. QED  BY <2>3 DEF u
<1>. QED  BY <1>3, <1>4 DEF ReadPath, s

LEMMA ReadsAll ==
    ASSUME NEW path, IsPath(path)
    PROVE  ReadPath(path) = path
<1>1. <<>> \in Seq(Nodes) /\ path \o <<>> = path
  BY EmptySeq, ConcatEmptySeq DEF IsPath
<1>. QED  BY <1>1, ReadsPath

\* Nodes in front of a path make a path.
LEMMA PathBehind ==
    ASSUME NEW nodes, Endless(nodes), NEW path, IsPath(path)
    PROVE  IsPath(nodes \o path)
<1>. DEFINE m == Len(nodes)
            n == Len(path)
            s == nodes \o path
<1>1. /\ path \in Seq(Nodes) /\ n \in Nat \ {0} /\ path[n] = "end"
      /\ \A k \in 1 .. n - 1 : path[k] # "end"
  BY EmptySeq DEF IsPath
<1>2. nodes \in Seq(Nodes) /\ m \in Nat /\ \A k \in 1 .. m : nodes[k] # "end"
  BY LenProperties DEF Endless
<1>3. /\ s \in Seq(Nodes) /\ Len(s) = m + n
      /\ \A i \in 1 .. m + n : s[i] = IF i <= m THEN nodes[i] ELSE path[i - m]
  BY <1>1, <1>2, ConcatProperties
<1>. HIDE DEF s, m, n
<1>4. s # <<>>
  BY <1>1, <1>2, <1>3, EmptySeq
<1>5. s[Len(s)] = "end"
  <2>1. m + n \in 1 .. m + n /\ ~(m + n <= m) /\ (m + n) - m = n
    BY <1>1, <1>2
  <2>. QED  BY <1>1, <1>3, <2>1
<1>6. ASSUME NEW k \in 1 .. Len(s) - 1 PROVE s[k] # "end"
  <2>1. k \in 1 .. m + n
    BY <1>1, <1>2, <1>3
  <2>2. CASE k <= m
    <3>1. k \in 1 .. m
      BY <1>2, <2>1, <2>2
    <3>. QED  BY <1>2, <1>3, <2>1, <2>2, <3>1
  <2>3. CASE ~(k <= m)
    <3>1. k - m \in 1 .. n - 1
      BY <1>1, <1>2, <1>3, <2>3
    <3>. QED  BY <1>1, <1>3, <2>1, <2>3, <3>1
  <2>. QED  BY <2>2, <2>3
<1>7. IsPath(s)
  BY <1>3, <1>4, <1>5, <1>6 DEF IsPath
<1>. QED  BY <1>7 DEF s

LEMMA EndlessJoined ==
    ASSUME NEW a, Endless(a), NEW b, Endless(b)
    PROVE  Endless(a \o b)
<1>. DEFINE m == Len(a)
            n == Len(b)
            s == a \o b
<1>1. a \in Seq(Nodes) /\ m \in Nat /\ \A k \in 1 .. m : a[k] # "end"
  BY LenProperties DEF Endless
<1>2. b \in Seq(Nodes) /\ n \in Nat /\ \A k \in 1 .. n : b[k] # "end"
  BY LenProperties DEF Endless
<1>3. /\ s \in Seq(Nodes) /\ Len(s) = m + n
      /\ \A i \in 1 .. m + n : s[i] = IF i <= m THEN a[i] ELSE b[i - m]
  BY <1>1, <1>2, ConcatProperties
<1>. HIDE DEF s, m, n
<1>4. ASSUME NEW k \in 1 .. Len(s) PROVE s[k] # "end"
  <2>1. k \in 1 .. m + n
    BY <1>3
  <2>2. CASE k <= m
    <3>1. k \in 1 .. m
      BY <1>1, <2>1, <2>2
    <3>. QED  BY <1>1, <1>3, <2>1, <2>2, <3>1
  <2>3. CASE ~(k <= m)
    <3>1. k - m \in 1 .. n
      BY <1>1, <1>2, <2>1, <2>3
    <3>. QED  BY <1>2, <1>3, <2>1, <2>3, <3>1
  <2>. QED  BY <2>2, <2>3
<1>5. Endless(s)
  BY <1>3, <1>4 DEF Endless
<1>. QED  BY <1>5 DEF s

LEMMA OneNode ==
    ASSUME NEW m \in Nodes, m # "end"
    PROVE  Endless(<<m>>)
BY DEF Endless

\* A path is its nodes without the last, and an "end".
LEMMA FrontOfPath ==
    ASSUME NEW path, IsPath(path)
    PROVE  Endless(Front(path)) /\ path = Front(path) \o <<"end">>
<1>. DEFINE n == Len(path)
            f == SubSeq(path, 1, n - 1)
<1>1. /\ path \in Seq(Nodes) /\ n \in Nat \ {0} /\ path[n] = "end"
      /\ \A k \in 1 .. n - 1 : path[k] # "end"
  BY EmptySeq DEF IsPath
<1>2. n \in 1 .. Len(path) /\ 1 \in 1 .. Len(path)
  BY <1>1
<1>. HIDE DEF n
<1>3. /\ f \in Seq(Nodes) /\ Len(f) = n - 1 /\ \A i \in 1 .. n - 1 : f[i] = path[i]
  <2>1. n - 1 \in 0 .. Len(path)
    BY <1>1 DEF n
  <2>. QED  BY <1>1, <2>1, Beginning
<1>4. Endless(f)
  BY <1>1, <1>3 DEF Endless
<1>5. SubSeq(path, 1, n) = f \o <<path[n]>>
  BY <1>1, <1>2, SubSeqRecursiveSecond
<1>6. SubSeq(path, 1, n) = path
  BY <1>1, SubSeqFull DEF n
<1>. QED  BY <1>1, <1>4, <1>5, <1>6 DEF Front, n

\* The first instance of a path, its end and the rest, which is a path or none.
FirstAndRest(path, start, last, next) ==
    /\ Endless(start) /\ \A k \in 1 .. Len(start) : start[k] \notin EndTypes
    /\ last \in EndTypes /\ next \in Seq(Nodes) /\ (next = <<>> \/ IsPath(next))
    /\ path = start \o (<<last>> \o next)

LEMMA InstanceSplits ==
    ASSUME NEW path, IsPath(path)
    PROVE  \E last : FirstAndRest(path, DevicePathInstance(path).start, last,
                                  DevicePathInstance(path).next)
<1>. DEFINE n == Len(path)
            k == Until(path, EndTypes)
            start == SubSeq(path, 1, k - 1)
            next == SubSeq(path, k + 1, n)
<1>1. /\ path \in Seq(Nodes) /\ n \in Nat \ {0} /\ path[n] = "end"
      /\ \A i \in 1 .. n - 1 : path[i] # "end"
      /\ \A i \in 1 .. n : path[i] \in Nodes
  BY EmptySeq, SeqOfNodes DEF IsPath
<1>2. k \in 1 .. n /\ path[k] \in EndTypes /\ \A i \in 1 .. k - 1 : path[i] \notin EndTypes
  <2>1. n \in 1 .. Len(path) /\ path[n] \in EndTypes
    BY <1>1 DEF EndTypes
  <2>. QED  BY <1>1, <2>1, UntilFirst
<1>3. /\ DevicePathInstance(path).start = start
      /\ DevicePathInstance(path).next = IF path[k] = "end" THEN <<>> ELSE next
  BY DEF DevicePathInstance
<1>. HIDE DEF k, n
<1>4. start \in Seq(Nodes) /\ Len(start) = k - 1 /\ \A i \in 1 .. k - 1 : start[i] = path[i]
  <2>1. k - 1 \in 0 .. Len(path)
    BY <1>1, <1>2 DEF n
  <2>. QED  BY <1>1, <2>1, Beginning
<1>5. next \in Seq(Nodes) /\ Len(next) = n - k /\ \A i \in 1 .. n - k : next[i] = path[k + i]
  <2>1. k \in 0 .. Len(path)
    BY <1>2 DEF n
  <2>. QED  BY <1>1, <2>1, Remainder DEF n
<1>6. path = start \o (<<path[k]>> \o next)
  <2>1. /\ SubSeq(path, k, n) = <<path[k]>> \o next
    BY <1>1, <1>2, SubSeqRecursiveFirst DEF n
  <2>2. start \o SubSeq(path, (k - 1) + 1, n) = SubSeq(path, 1, n)
    <3>1. 1 \in 1 .. n + 1 /\ k - 1 \in 0 .. n /\ n \in k - 1 .. n /\ 1 - 1 = 0
      BY <1>1, <1>2
    <3>. QED  BY <1>1, <3>1, ConcatAdjacentSubSeq DEF n
  <2>3. SubSeq(path, 1, n) = path
    BY <1>1, SubSeqFull DEF n
  <2>4. (k - 1) + 1 = k
    BY <1>2
  <2>. QED  BY <2>1, <2>2, <2>3, <2>4
<1>. HIDE DEF start, next
<1>7. Endless(start) /\ \A i \in 1 .. Len(start) : start[i] \notin EndTypes
  <2>1. \A i \in 1 .. k - 1 : start[i] \notin EndTypes /\ start[i] # "end"
    BY <1>2, <1>4 DEF EndTypes
  <2>. QED  BY <1>4, <2>1 DEF Endless
<1>8. CASE path[k] = "end"
  <2>1. k = n
    BY <1>1, <1>2, <1>8
  <2>2. next = <<>>
    <3>1. Len(next) = 0
      BY <1>1, <1>5, <2>1
    <3>. QED  BY <1>5, <3>1, EmptySeq
  <2>. QED  BY <1>2, <1>3, <1>5, <1>6, <1>7, <1>8, <2>2 DEF FirstAndRest
<1>9. CASE path[k] # "end"
  <2>1. k # n
    BY <1>1, <1>9
  <2>2. n - k \in 1 .. n - k /\ k + (n - k) = n
    BY <1>1, <1>2, <2>1
  <2>3. next # <<>> /\ next[Len(next)] = "end"
    <3>1. Len(next) # 0
      BY <1>1, <1>2, <1>5, <2>1
    <3>. QED  BY <1>1, <1>5, <2>2, <3>1, EmptySeq
  <2>4. ASSUME NEW i \in 1 .. Len(next) - 1 PROVE next[i] # "end"
    <3>1. i \in 1 .. n - k /\ k + i \in 1 .. n - 1
      BY <1>1, <1>2, <1>5
    <3>. QED  BY <1>1, <1>5, <3>1
  <2>5. IsPath(next)
    BY <1>5, <2>3, <2>4 DEF IsPath
  <2>. QED  BY <1>2, <1>3, <1>5, <1>6, <1>7, <1>9, <2>5 DEF FirstAndRest
<1>. QED  BY <1>8, <1>9

\* Two sequences of nodes that begin alike up to the end of an instance have the same
\* first instance: it is a prefix of either.
LEMMA BeginsAlike ==
    ASSUME NEW s \in Seq(Nodes), NEW t \in Seq(Nodes), NEW n \in 1 .. Len(s), n <= Len(t),
           \A i \in 1 .. n - 1 : s[i] = t[i], s[n] \in EndTypes
    PROVE  IsPrefix(DevicePathInstance(s).start, t)
<1>. DEFINE k == Until(s, EndTypes)
            start == SubSeq(s, 1, k - 1)
            other == SubSeq(t, 1, k - 1)
<1>1. k \in 1 .. n
  BY UntilFirst
<1>2. DevicePathInstance(s).start = start
  BY DEF DevicePathInstance
<1>3. Len(s) \in Nat /\ Len(t) \in Nat /\ n \in Nat
  BY SeqOfNodes
<1>. HIDE DEF k
<1>4. k - 1 \in 0 .. Len(s) /\ k - 1 \in 0 .. Len(t)
  BY <1>1, <1>3
<1>5. /\ start \in Seq(Nodes) /\ Len(start) = k - 1 /\ \A i \in 1 .. k - 1 : start[i] = s[i]
      /\ other \in Seq(Nodes) /\ Len(other) = k - 1 /\ \A i \in 1 .. k - 1 : other[i] = t[i]
  BY <1>4, Beginning
<1>. HIDE DEF start, other
<1>6. \A i \in 1 .. k - 1 : start[i] = other[i]
  BY <1>1, <1>5
<1>7. start = other
  BY <1>5, <1>6, SeqEqual
<1>8. SubSeq(start, 1, Len(start)) = start
  BY <1>5, SubSeqFull
<1>9. Len(start) <= Len(t)
  BY <1>4, <1>5
<1>10. IsPrefix(start, t)
  BY <1>5, <1>7, <1>8, <1>9 DEF IsPrefix, other
<1>. QED  BY <1>2, <1>10

\* A path matches itself.
LEMMA MatchesItself ==
    ASSUME NEW path, IsPath(path)
    PROVE  LibMatchDevicePaths(path, path)
<1>. DEFINE n == Len(path)
<1>1. path \in Seq(Nodes) /\ n \in Nat \ {0} /\ path[n] \in EndTypes
  BY EmptySeq DEF IsPath, EndTypes
<1>2. SubSeq(path, 0 + 1, n) = path
  BY <1>1, SubSeqFull
<1>3. IsPrefix(DevicePathInstance(path).start, path)
  <2>1. n \in 1 .. Len(path) /\ n <= Len(path)
    BY <1>1
  <2>. QED  BY <1>1, <2>1, BeginsAlike
<1>4. 0 \in 0 .. n - 1
  BY <1>1
<1>. QED  BY <1>2, <1>3, <1>4 DEF LibMatchDevicePaths

\* A path of the instances of two reads as both, and matches both.
LEMMA JoinedMatches ==
    ASSUME NEW a, IsPath(a), NEW b, IsPath(b),
           NEW path, path = (Front(a) \o <<"instance">>) \o b
    PROVE  /\ IsPath(path)
           /\ LibMatchDevicePaths(path, a) /\ LibMatchDevicePaths(path, b)
<1>. DEFINE f == Front(a)
            h == f \o <<"instance">>
            m == Len(a)
            n == Len(b)
<1>1. Endless(f) /\ a = f \o <<"end">>
  BY FrontOfPath
<1>. DEFINE e == <<"end">>
            z == <<"instance">>
<1>2. e \in Seq(Nodes) /\ Len(e) = 1 /\ z \in Seq(Nodes) /\ Len(z) = 1
      /\ z[1] = "instance" /\ Endless(z)
  BY EndsAreNodes, OneNode
<1>. HIDE DEF e, z
<1>3. /\ b \in Seq(Nodes) /\ n \in Nat \ {0} /\ b[n] = "end" /\ m \in Nat
      /\ a \in Seq(Nodes)
  BY EmptySeq, SeqOfNodes DEF IsPath
<1>4. f \in Seq(Nodes) /\ Len(f) \in Nat
  BY <1>1, SeqOfNodes DEF Endless
<1>. HIDE DEF f
<1>5. /\ Len(f) = m - 1 /\ m >= 1
      /\ \A i \in 1 .. m - 1 : a[i] = f[i]
  <2>1. /\ Len(a) = Len(f) + 1
        /\ \A i \in 1 .. Len(f) + 1 : a[i] = IF i <= Len(f) THEN f[i] ELSE e[i - Len(f)]
    BY <1>1, <1>2, <1>4, ConcatProperties DEF e
  <2>2. m = Len(f) + 1
    BY <2>1
  <2>. HIDE DEF m
  <2>3. Len(f) = m - 1 /\ m >= 1
    BY <1>4, <2>2
  <2>. QED  BY <1>4, <2>1, <2>3
<1>6. h \in Seq(Nodes) /\ Len(h) = m /\ h[m] = "instance" /\ Endless(h)
      /\ \A i \in 1 .. m - 1 : h[i] = a[i]
  <2>1. /\ h \in Seq(Nodes) /\ Len(h) = Len(f) + 1
        /\ \A i \in 1 .. Len(f) + 1 : h[i] = IF i <= Len(f) THEN f[i] ELSE z[i - Len(f)]
    BY <1>2, <1>4, ConcatProperties DEF z
  <2>2. Endless(h)
    BY <1>1, <1>2, EndlessJoined DEF f, z
  <2>. HIDE DEF h, m
  <2>. QED  BY <1>2, <1>3, <1>4, <1>5, <2>1, <2>2
<1>7. path = h \o b
  BY DEF f
<1>. HIDE DEF h, m, n
<1>8. /\ path \in Seq(Nodes) /\ Len(path) = m + n
      /\ \A i \in 1 .. m + n : path[i] = IF i <= m THEN h[i] ELSE b[i - m]
  <2>1. /\ h \o b \in Seq(Nodes) /\ Len(h \o b) = Len(h) + Len(b)
        /\ \A i \in 1 .. Len(h) + Len(b) :
              (h \o b)[i] = IF i <= Len(h) THEN h[i] ELSE b[i - Len(h)]
    BY <1>3, <1>6, ConcatProperties
  <2>2. Len(h) = m /\ Len(b) = n
    BY <1>6 DEF n
  <2>. QED  BY <1>7, <2>1, <2>2
<1>9. IsPath(path)
  BY <1>6, <1>7, PathBehind
<1>10. path[m] = "instance"
  <2>1. m \in 1 .. m + n
    BY <1>3, <1>5
  <2>. QED  BY <1>3, <1>6, <1>8, <2>1
<1>11. LibMatchDevicePaths(path, a)
  <2>1. m \in 1 .. Len(path) /\ m <= Len(a) /\ path[m] \in EndTypes
    BY <1>3, <1>5, <1>8, <1>10 DEF m, EndTypes
  <2>2. ASSUME NEW i \in 1 .. m - 1 PROVE path[i] = a[i]
    <3>1. i \in 1 .. m + n /\ i <= m
      BY <1>3
    <3>. QED  BY <1>6, <1>8, <3>1
  <2>3. IsPrefix(DevicePathInstance(path).start, a)
    BY <1>3, <1>8, <2>1, <2>2, BeginsAlike
  <2>4. SubSeq(path, 0 + 1, Len(path)) = path
    BY <1>8, SubSeqFull
  <2>5. 0 \in 0 .. Len(path) - 1
    BY <1>3, <1>8
  <2>. QED  BY <2>3, <2>4, <2>5 DEF LibMatchDevicePaths
<1>12. LibMatchDevicePaths(path, b)
  <2>1. m \in 0 .. Len(path) - 1 /\ m # 0
    BY <1>3, <1>5, <1>8
  <2>2. "end" \notin {path[k] : k \in 1 .. m}
    <3>1. ASSUME NEW k \in 1 .. m PROVE path[k] # "end"
      <4>1. k \in 1 .. m + n /\ k <= m /\ k \in 1 .. Len(h)
        BY <1>3, <1>6
      <4>. QED  BY <1>6, <1>8, <4>1 DEF Endless
    <3>. QED  BY <3>1
  <2>. DEFINE rest == SubSeq(path, m + 1, Len(path))
  <2>3. rest = b
    <3>. DEFINE q == Len(path)
    <3>1. m \in 0 .. q /\ q - m = n /\ m \in Nat /\ n \in Nat
      BY <1>3, <1>8
    <3>2. /\ rest \in Seq(Nodes) /\ Len(rest) = q - m
          /\ \A i \in 1 .. q - m : rest[i] = path[m + i]
      BY <1>8, <3>1, Remainder
    <3>. HIDE DEF rest, q
    <3>3. /\ rest \in Seq(Nodes) /\ Len(rest) = n
          /\ \A i \in 1 .. n : rest[i] = path[m + i]
      BY <3>1, <3>2
    <3>4. ASSUME NEW i \in 1 .. n PROVE rest[i] = b[i]
      <4>1. /\ m + i \in 1 .. m + n /\ ~(m + i <= m) /\ (m + i) - m = i
        BY <3>1
      <4>. QED  BY <1>8, <3>3, <4>1
    <3>. QED  BY <1>3, <3>3, <3>4, SeqEqual DEF n
  <2>4. IsPrefix(DevicePathInstance(b).start, b)
    <3>1. n \in 1 .. Len(b) /\ n <= Len(b) /\ b[n] \in EndTypes
      BY <1>3 DEF n, EndTypes
    <3>. QED  BY <1>3, <3>1, BeginsAlike
  <2>. QED  BY <1>10, <2>1, <2>2, <2>3, <2>4 DEF LibMatchDevicePaths
<1>. QED  BY <1>9, <1>11, <1>12

-----------------------------------------------------------------------------
(* How long a path is *)

LEMMA Quantities ==
    /\ NodeSize \in Quantity /\ EndOf \in Quantity
    /\ NodeSize["end"] = END_LENGTH /\ NodeSize["instance"] = END_LENGTH
    /\ EndOf["end"] = 1 /\ EndOf["instance"] = 1
    /\ \A m \in Nodes : m \notin EndTypes => EndOf[m] = 0
<1>1. NodeSize \in Quantity
  <2>1. ASSUME NEW m \in Nodes
        PROVE  (IF m \in EndTypes THEN END_LENGTH ELSE NodeLength[m]) \in Nat
    BY <2>1, DevicePathAssumption DEF Nodes, END_LENGTH
  <2>. QED  BY <2>1 DEF NodeSize, Quantity
<1>2. EndOf \in Quantity
  BY DEF EndOf, Quantity
<1>3. "end" \in EndTypes /\ "instance" \in EndTypes
  BY DEF EndTypes
<1>4. NodeSize["end"] = END_LENGTH /\ NodeSize["instance"] = END_LENGTH
  BY <1>3, EndsAreNodes DEF NodeSize
<1>5. EndOf["end"] = 1 /\ EndOf["instance"] = 1
  BY <1>3, EndsAreNodes DEF EndOf
<1>. QED  BY <1>1, <1>2, <1>4, <1>5 DEF EndOf

LEMMA SizeType ==
    ASSUME NEW s \in Seq(Nodes)
    PROVE  SizeOf(s) \in Nat
BY TotalType, Quantities DEF SizeOf

LEMMA SizeConcat ==
    ASSUME NEW s \in Seq(Nodes), NEW t \in Seq(Nodes)
    PROVE  SizeOf(s \o t) = SizeOf(s) + SizeOf(t)
BY TotalConcat, Quantities DEF SizeOf

\* Every end is as long as the other.
LEMMA EndsAlike ==
    ASSUME NEW s \in Seq(Nodes)
    PROVE  SizeOf(s \o <<"end">>) = SizeOf(s \o <<"instance">>)
<1>1. <<"end">> \in Seq(Nodes) /\ <<"instance">> \in Seq(Nodes)
  BY EndsAreNodes
<1>2. SizeOf(<<"end">>) = SizeOf(<<"instance">>)
  BY EndsAreNodes, TotalOne, Quantities DEF SizeOf
<1>. QED  BY <1>1, <1>2, SizeConcat

\* A path has an instance, and as many as its ends.
LEMMA CountOfPath ==
    ASSUME NEW path, IsPath(path)
    PROVE  DevicePathInstanceCount(path) \in Nat \ {0}
<1>. DEFINE f == Front(path)
            e == <<"end">>
<1>1. f \in Seq(Nodes) /\ path = f \o e
  BY FrontOfPath DEF Endless
<1>2. e \in Seq(Nodes) /\ SumOver(EndOf, e) = 1
  BY EndsAreNodes, TotalOne, Quantities
<1>. HIDE DEF f, e
<1>3. SumOver(EndOf, path) = SumOver(EndOf, f) + 1 /\ SumOver(EndOf, f) \in Nat
  BY <1>1, <1>2, TotalConcat, TotalType, Quantities
<1>. QED  BY <1>3 DEF DevicePathInstanceCount

\* The first instance of a path counts once.
LEMMA CountOfFirst ==
    ASSUME NEW path, NEW start, NEW last, NEW next, FirstAndRest(path, start, last, next)
    PROVE  /\ DevicePathInstanceCount(path) = 1 + DevicePathInstanceCount(next)
           /\ SizeOf(path) = SizeOf(start) + END_LENGTH + SizeOf(next)
<1>. DEFINE l == <<last>>
            rest == l \o next
<1>1. start \in Seq(Nodes) /\ next \in Seq(Nodes) /\ last \in Nodes /\ path = start \o rest
  BY DEF FirstAndRest, Endless, EndTypes, Nodes
<1>2. l \in Seq(Nodes) /\ SumOver(EndOf, l) = 1 /\ SizeOf(l) = END_LENGTH
  <2>1. EndOf[last] = 1 /\ NodeSize[last] = END_LENGTH
    BY Quantities DEF FirstAndRest, EndTypes
  <2>. QED  BY <1>1, <2>1, TotalOne, Quantities DEF SizeOf
<1>3. SumOver(EndOf, start) = 0
  <2>1. ASSUME NEW k \in 1 .. Len(start) PROVE EndOf[start[k]] = 0
    <3>1. start[k] \in Nodes /\ start[k] \notin EndTypes
      BY <1>1, SeqOfNodes DEF FirstAndRest
    <3>. QED  BY <3>1, Quantities
  <2>. QED  BY <1>1, <2>1, TotalNone, Quantities
<1>. HIDE DEF l
<1>4. rest \in Seq(Nodes) /\ SumOver(EndOf, rest) = 1 + SumOver(EndOf, next)
      /\ SizeOf(rest) = END_LENGTH + SizeOf(next)
  BY <1>1, <1>2, ConcatProperties, TotalConcat, SizeConcat, Quantities
<1>. HIDE DEF rest
<1>5. /\ SumOver(EndOf, path) = SumOver(EndOf, start) + SumOver(EndOf, rest)
      /\ SizeOf(path) = SizeOf(start) + SizeOf(rest)
  BY <1>1, <1>4, TotalConcat, SizeConcat, Quantities
<1>6. /\ SumOver(EndOf, next) \in Nat /\ SizeOf(next) \in Nat /\ SizeOf(start) \in Nat
      /\ END_LENGTH \in Nat
  BY <1>1, TotalType, SizeType, Quantities DEF END_LENGTH
<1>. QED  BY <1>3, <1>4, <1>5, <1>6 DEF DevicePathInstanceCount

\* No node of a path is longer than the path.
LEMMA FirstNodeFits ==
    ASSUME NEW s \in Seq(Nodes), s # <<>>
    PROVE  NodeSize[s[1]] \in Nat /\ NodeSize[s[1]] <= SizeOf(s)
<1>. DEFINE n == Len(s)
            one == <<s[1]>>
            rest == SubSeq(s, 2, n)
<1>1. n \in Nat \ {0} /\ s[1] \in Nodes
  BY EmptySeq, SeqOfNodes
<1>2. rest \in Seq(Nodes)
  <2>1. 1 \in 0 .. Len(s) /\ 1 + 1 = 2
    BY <1>1
  <2>. QED  BY <2>1, Remainder
<1>3. s = one \o rest
  <2>1. SubSeq(s, 1, n) = <<s[1]>> \o SubSeq(s, 1 + 1, n)
    BY <1>1, SubSeqRecursiveFirst
  <2>2. SubSeq(s, 1, n) = s /\ 1 + 1 = 2
    BY SubSeqFull
  <2>. QED  BY <2>1, <2>2
<1>4. one \in Seq(Nodes) /\ SizeOf(one) = NodeSize[s[1]]
  BY <1>1, TotalOne, Quantities DEF SizeOf
<1>5. NodeSize[s[1]] \in Nat
  BY <1>1, Quantities DEF Quantity
<1>. HIDE DEF one, rest
<1>6. SizeOf(s) = SizeOf(one) + SizeOf(rest) /\ SizeOf(rest) \in Nat
  BY <1>2, <1>3, <1>4, SizeConcat, SizeType
<1>. QED  BY <1>4, <1>5, <1>6

\* What is aligned stays so, and does not change how the next node is aligned.
Multiples == {Alignment * q : q \in Int}

LEMMA AlignmentAdds ==
    ASSUME NEW a \in Multiples, NEW n \in Nat
    PROVE  /\ Aligned(a + n) = a + Aligned(n)
           /\ Aligned(n) \in Nat /\ a + Aligned(n) \in Multiples
<1>. DEFINE d == Alignment
            m == -n
            p == m \div d
            r == m % d
<1>1. d \in Nat \ {0}
  BY DevicePathAssumption
<1>. HIDE DEF d
<1>2. PICK q \in Int : a = d * q
  BY DEF Multiples, d
<1>3. m \in Int
  OBVIOUS
<1>. HIDE DEF m
<1>4. p \in Int /\ r \in 0 .. d - 1
  BY <1>1, <1>3
<1>5. m = d * p + r
  BY <1>1, <1>3
<1>. HIDE DEF p, r
<1>6. -(a + n) = d * (p - q) + r
  <2>1. d * (p - q) = d * p - d * q
    BY <1>1, <1>2, <1>4
  <2>2. d * p \in Int /\ d * q \in Int
    BY <1>1, <1>2, <1>4
  <2>3. m = -n
    BY DEF m
  <2>. HIDE DEF m
  <2>. QED  BY <1>2, <1>4, <1>5, <2>1, <2>2, <2>3
<1>7. (-(a + n)) % d = r
  <2>1. a \in Int
    BY <1>1, <1>2
  <2>2. -(a + n) \in Int /\ p - q \in Int
    BY <1>2, <1>4, <2>1
  <2>. QED  BY <1>1, <1>4, <1>6, <2>2, DivModUnique
<1>8. Aligned(a + n) = (a + n) + r /\ Aligned(n) = n + r
  <2>1. (-n) % d = r
    BY DEF m, r
  <2>. QED  BY <1>7, <2>1 DEF Aligned, d
<1>9. a \in Int /\ d * p \in Int /\ d * q \in Int /\ n + r = -(d * p)
  <2>1. d * p \in Int /\ d * q \in Int
    BY <1>1, <1>2, <1>4
  <2>2. m = -n
    BY DEF m
  <2>. HIDE DEF m
  <2>. QED  BY <1>2, <1>4, <1>5, <2>1, <2>2
<1>10. a + Aligned(n) = d * (q - p)
  <2>1. d * (q - p) = d * q - d * p
    BY <1>1, <1>2, <1>4
  <2>. QED  BY <1>2, <1>4, <1>8, <1>9, <2>1
<1>11. a + Aligned(n) \in Multiples
  <2>1. q - p \in Int
    BY <1>2, <1>4
  <2>. QED  BY <1>10, <2>1 DEF Multiples, d
<1>12. Aligned(n) \in Nat /\ Aligned(a + n) = a + Aligned(n)
  BY <1>1, <1>4, <1>8, <1>9
<1>. QED  BY <1>11, <1>12

LEMMA AlignedQuantity ==
    /\ AlignedSize \in Quantity
    /\ \A m \in Nodes : NodeSize[m] \in Nat /\ AlignedSize[m] = Aligned(NodeSize[m])
<1>1. Alignment * 0 \in Multiples /\ Alignment * 0 = 0
  BY DevicePathAssumption DEF Multiples
<1>2. ASSUME NEW m \in Nodes PROVE NodeSize[m] \in Nat /\ Aligned(NodeSize[m]) \in Nat
  <2>1. NodeSize[m] \in Nat
    BY Quantities DEF Quantity
  <2>. QED  BY <1>1, <2>1, AlignmentAdds
<1>. QED  BY <1>2 DEF AlignedSize, Quantity

\* UnpackDevicePath allocates what it writes: the size is aligned after every node, and
\* every node is.
LEMMA UnpackedFits ==
    ASSUME NEW s \in Seq(Nodes)
    PROVE  UnpackedSizes(s)[Len(s)] = SumOver(AlignedSize, s)
<1>. DEFINE n == Len(s)
            g == SumsOver(AlignedSize, s)
            t == UnpackedSizes(s)
            S == {k \in 0 .. n : g[k] \in Multiples}
            T == {k \in 0 .. n : t[k] = g[k]}
<1>1. n \in Nat /\ \A k \in 1 .. n : s[k] \in Nodes
  BY SeqOfNodes
<1>2. /\ g \in [0 .. n -> Nat] /\ g[0] = 0
      /\ \A k \in 1 .. n : g[k] = g[k - 1] + AlignedSize[s[k]]
  BY AlignedQuantity, TotalsAre
<1>. HIDE DEF n, g
<1>3. 0 .. n \subseteq S
  <2>1. 0 \in S
    <3>1. Alignment * 0 \in Multiples /\ Alignment * 0 = 0
      BY DevicePathAssumption DEF Multiples
    <3>. QED  BY <1>1, <1>2, <3>1
  <2>2. ASSUME NEW k \in 0 .. n - 1, k \in S PROVE k + 1 \in S
    <3>1. k + 1 \in 1 .. n /\ (k + 1) - 1 = k /\ k + 1 \in 0 .. n
      BY <1>1
    <3>2. g[k + 1] = g[k] + Aligned(NodeSize[s[k + 1]]) /\ NodeSize[s[k + 1]] \in Nat
      BY <1>1, <1>2, <3>1, AlignedQuantity
    <3>3. g[k] \in Multiples
      BY <2>2
    <3>. QED  BY <3>1, <3>2, <3>3, AlignmentAdds
  <2>. HIDE DEF S
  <2>. QED  BY <1>1, <2>1, <2>2, BoundedInduction
<1>4. ASSUME NEW k \in 1 .. n
      PROVE  k - 1 \in 0 .. n /\ g[k] = Aligned(g[k - 1] + NodeSize[s[k]])
  <2>1. k - 1 \in 0 .. n
    BY <1>1
  <2>2. g[k] = g[k - 1] + Aligned(NodeSize[s[k]]) /\ NodeSize[s[k]] \in Nat
    BY <1>1, <1>2, AlignedQuantity
  <2>3. g[k - 1] \in Multiples
    BY <1>3, <2>1
  <2>. QED  BY <2>1, <2>2, <2>3, AlignmentAdds
<1>5. g = [k \in 0 .. n |-> IF k = 0 THEN 0 ELSE Aligned(g[k - 1] + NodeSize[s[k]])]
  BY <1>1, <1>2, <1>4
<1>6. t = [k \in 0 .. n |-> IF k = 0 THEN 0 ELSE Aligned(t[k - 1] + NodeSize[s[k]])]
  BY <1>5, Zenon DEF UnpackedSizes, n
<1>. HIDE DEF t
<1>7. 0 .. n \subseteq T
  <2>1. 0 \in T
    BY <1>1, <1>2, <1>6
  <2>2. ASSUME NEW k \in 0 .. n - 1, k \in T PROVE k + 1 \in T
    <3>1. k + 1 \in 1 .. n /\ (k + 1) - 1 = k /\ k + 1 \in 0 .. n /\ k + 1 # 0
      BY <1>1
    <3>2. t[k + 1] = Aligned(t[k] + NodeSize[s[k + 1]])
      BY <1>6, <3>1
    <3>3. g[k + 1] = Aligned(g[k] + NodeSize[s[k + 1]])
      BY <1>4, <3>1
    <3>. QED  BY <2>2, <3>1, <3>2, <3>3
  <2>. HIDE DEF T
  <2>. QED  BY <1>1, <2>1, <2>2, BoundedInduction
<1>8. t[n] = g[n]
  BY <1>1, <1>7
<1>. QED  BY <1>8 DEF t, g, n, SumOver

-----------------------------------------------------------------------------
(* DevicePaths *)

\* What the callers give.
Given ==
    /\ pathFn \in PathFunctions
    /\ Src1 \in DevicePaths \cup {<<>>} /\ Src2 \in DevicePaths \cup {<<>>}
    /\ Src1 = <<>> => pathFn \in {"AppendDevicePath", "AppendDevicePathInstance",
                                  "AppendDevicePathNode", "FileDevicePath"}
    /\ Src2 = <<>> => Src1 # <<>> /\ pathFn = "AppendDevicePath"

\* After j of the instances of Src1: what is left of them, how much is written, and that
\* the first of them and Src2 are in front.
Written(j) ==
    /\ j + DevicePathInstanceCount(Inst) = DevicePathInstanceCount(Src1)
    /\ SizeOf(Dst) + SizeOf(Inst) = SizeOf(Src1) + j * SizeOf(Src2)

InFront(rest) ==
    Dst = DevicePathInstance(Src1).start \o (Src2 \o (rest \o <<"instance">>))

CopyInv ==
    /\ Appends /\ pathSize = AppendedSize
    /\ Dst \in Seq(Nodes) /\ (Inst = <<>> \/ IsPath(Inst))
    /\ \E j \in Nat : Written(j)
    /\ \/ Dst = <<>> /\ Inst = Src1
       \/ \E rest \in Seq(Nodes) : InFront(rest)

\* What the calls do, the two that do not keep their promise included: an append reads as
\* one to the first instance, a duplicated instance as its first node, and only an append to
\* several instances that are shorter than what is appended overruns its block.
Built ==
    IF Src1 = <<>> THEN Src2
    ELSE IF Src2 = <<>> THEN Src1
    ELSE CASE Appends -> DevicePathInstance(Src1).start \o Src2
           [] pathFn = "AppendDevicePathInstance" -> Front(Src1) \o <<"instance">> \o Src2
           [] pathFn = "LibDuplicateDevicePathInstance" -> <<Src1[1], "end">>
           [] OTHER -> Src1

FitsOrOverruns ==
    pathSize # -1 /\ BytesWritten > pathSize =>
        Appends /\ DevicePathInstanceCount(Src1) > 1
                /\ DevicePathSize(Src2) > DevicePathSize(Src1)

PathsBuilt ==
    /\ FitsOrOverruns
    /\ pathPc = "return" /\ Dst # <<>> =>
         /\ ReadPath(Dst) = Built
         /\ pathFn = "AppendDevicePathInstance" =>
              \A path \in {Src1, Src2} \ {<<>>} : LibMatchDevicePaths(Dst, path)

\* The inductive invariant.
PathInv ==
    /\ Given
    /\ pathPc \in {"call", "instances", "return", "fault"}
    /\ pathPc = "call" => pathSize = -1 /\ Dst = <<>>
    /\ pathPc = "instances" => CopyInv
    /\ pathPc \in {"return", "fault"} => PathsBuilt

LEMMA Sources ==
    ASSUME Given
    PROVE  /\ Src1 # <<>> => IsPath(Src1) /\ ReadPath(Src1) = Src1 /\ Src1 \in Seq(Nodes)
           /\ Src2 # <<>> => IsPath(Src2) /\ ReadPath(Src2) = Src2 /\ Src2 \in Seq(Nodes)
<1>1. ASSUME NEW path \in DevicePaths
      PROVE  IsPath(path) /\ ReadPath(path) = path /\ path \in Seq(Nodes)
  BY PathsArePaths, ReadsAll DEF IsPath
<1>. QED  BY <1>1 DEF Given

LEMMA PathInitInv ==
    ASSUME PathInit
    PROVE  PathInv
BY DEF PathInit, PathInv, Given

\* The block: Src1Size * Src1Inst + Src2Size bytes are enough for one instance, and for
\* several when Src2 is not longer than Src1.
LEMMA AppendFits ==
    ASSUME NEW s1 \in Nat, NEW s2 \in Nat, NEW n \in Nat \ {0}, NEW j \in Nat, j <= n,
           NEW d \in Nat, d <= s1 + j * s2, d > s1 * n + s2
    PROVE  n > 1 /\ s2 > s1
<1>1. j * s2 \in Nat /\ n * s2 \in Nat /\ j * s2 <= n * s2
  <2>1. s2 * j <= s2 * n
    BY Monotone
  <2>2. s2 * j = j * s2 /\ s2 * n = n * s2
    OBVIOUS
  <2>. QED  BY <2>1, <2>2
<1>2. n # 1
  <2>1. SUFFICES ASSUME n = 1 PROVE FALSE
    OBVIOUS
  <2>2. n * s2 = s2 /\ s1 * n = s1
    BY <2>1
  <2>. DEFINE p == n * s2
              q == s1 * n
              r == j * s2
  <2>3. p = s2 /\ q = s1 /\ r <= p /\ d <= s1 + r /\ d > q + s2 /\ r \in Nat
    BY <1>1, <2>2
  <2>. HIDE DEF p, q, r
  <2>. QED  BY <2>3
<1>3. ~(s2 <= s1)
  <2>1. SUFFICES ASSUME s2 <= s1 PROVE FALSE
    OBVIOUS
  <2>2. n - 1 \in Nat /\ (n - 1) * s2 <= (n - 1) * s1
    BY <2>1, Monotone
  <2>3. n * s2 = (n - 1) * s2 + s2 /\ s1 * n = (n - 1) * s1 + s1
    OBVIOUS
  <2>. DEFINE p == (n - 1) * s2
              q == (n - 1) * s1
              r == j * s2
  <2>4. p \in Nat /\ q \in Nat /\ r \in Nat
    BY <1>1, <2>2
  <2>5. p <= q /\ r <= p + s2 /\ d <= s1 + r /\ d > (q + s1) + s2
    BY <1>1, <2>2, <2>3
  <2>. HIDE DEF p, q, r
  <2>. QED  BY <2>4, <2>5
<1>. QED  BY <1>2, <1>3

\* A copy in the making stays in its block but for the one case.
LEMMA CopyFits ==
    ASSUME Given, Appends, NEW size, size = AppendedSize,
           NEW dst \in Seq(Nodes), NEW inst \in Seq(Nodes), NEW j \in Nat,
           j + DevicePathInstanceCount(inst) = DevicePathInstanceCount(Src1),
           SizeOf(dst) + SizeOf(inst) = SizeOf(Src1) + j * SizeOf(Src2),
           SizeOf(dst) > size
    PROVE  /\ DevicePathInstanceCount(Src1) > 1
           /\ DevicePathSize(Src2) > DevicePathSize(Src1)
<1>. DEFINE s1 == SizeOf(Src1)
            s2 == SizeOf(Src2)
            n == DevicePathInstanceCount(Src1)
            d == SizeOf(dst)
            i == SizeOf(inst)
            c == DevicePathInstanceCount(inst)
<1>1. /\ IsPath(Src1) /\ ReadPath(Src1) = Src1 /\ Src1 \in Seq(Nodes)
      /\ IsPath(Src2) /\ ReadPath(Src2) = Src2 /\ Src2 \in Seq(Nodes)
  BY Sources DEF Appends
<1>2. s1 \in Nat /\ s2 \in Nat /\ d \in Nat /\ i \in Nat
  BY <1>1, SizeType
<1>3. n \in Nat \ {0} /\ c \in Nat
  BY <1>1, CountOfPath, TotalType, Quantities DEF DevicePathInstanceCount
<1>4. DevicePathSize(Src1) = s1 /\ DevicePathSize(Src2) = s2
  BY <1>1 DEF DevicePathSize
<1>5. size = s1 * n + s2
  BY <1>4 DEF AppendedSize
<1>6. j + c = n /\ d + i = s1 + j * s2 /\ d > size
  OBVIOUS
<1>. HIDE DEF s1, s2, n, d, i, c
<1>7. j <= n
  BY <1>3, <1>6
<1>8. d <= s1 + j * s2
  <2>1. j * s2 \in Nat
    BY <1>2
  <2>. DEFINE r == j * s2
  <2>2. r \in Nat /\ d + i = s1 + r
    BY <1>6, <2>1
  <2>. HIDE DEF r
  <2>3. d <= s1 + r
    BY <1>2, <2>2
  <2>. QED  BY <2>3 DEF r
<1>9. d > s1 * n + s2
  BY <1>5, <1>6
<1>10. n > 1 /\ s2 > s1
  BY <1>2, <1>3, <1>7, <1>8, <1>9, AppendFits
<1>. QED  BY <1>4, <1>10 DEF n

LEMMA PathInvBuilt ==
    ASSUME PathInv
    PROVE  PathsBuilt
<1>1. CASE pathPc = "call"
  BY <1>1 DEF PathInv, PathsBuilt, FitsOrOverruns
<1>2. CASE pathPc = "instances"
  <2>1. CopyInv /\ Given
    BY <1>2 DEF PathInv
  <2>2. PICK j \in Nat : Written(j)
    BY <2>1 DEF CopyInv
  <2>3. Inst \in Seq(Nodes)
    BY <2>1, EmptySeq DEF CopyInv, IsPath
  <2>4. BytesWritten = SizeOf(Dst)
    BY <2>1 DEF CopyInv, Appends, BytesWritten
  <2>5. FitsOrOverruns
    BY <2>1, <2>2, <2>3, <2>4, CopyFits DEF CopyInv, Written, FitsOrOverruns
  <2>. QED  BY <1>2, <2>5 DEF PathsBuilt
<1>3. CASE pathPc \in {"return", "fault"}
  BY <1>3 DEF PathInv
<1>. QED  BY <1>1, <1>2, <1>3 DEF PathInv

\* A call that has no block has nothing to show.
LEMMA NothingBuilt ==
    ASSUME PathInv, Given', pathPc' \in {"return", "fault"}, pathSize' = -1, Dst' = <<>>
    PROVE  PathInv'
BY DEF PathInv, PathsBuilt, FitsOrOverruns

\* A call that returns a path that is what it promises and not longer than its block.
LEMMA PathBuilt ==
    ASSUME Given', pathPc' = "return", BytesWritten' \in Nat, pathSize' = BytesWritten',
           ReadPath(Dst') = Built',
           pathFn' = "AppendDevicePathInstance" =>
               \A path \in {Src1', Src2'} \ {<<>>} : LibMatchDevicePaths(Dst', path)
    PROVE  PathInv'
<1>1. FitsOrOverruns'
  <2>. DEFINE b == BytesWritten'
  <2>1. b \in Nat /\ pathSize' = b
    OBVIOUS
  <2>. HIDE DEF b
  <2>2. ~(b > pathSize')
    BY <2>1
  <2>. QED  BY <2>2 DEF FitsOrOverruns, b
<1>2. PathsBuilt'
  BY <1>1 DEF PathsBuilt
<1>. QED  BY <1>2 DEF PathInv

LEMMA GivenKept ==
    ASSUME Given, UNCHANGED <<pathFn, Src1, Src2>>
    PROVE  Given' /\ (Built' = Built) /\ (Appends' <=> Appends)
<1>1. Given'
  BY DEF Given
<1>2. Appends' <=> Appends
  BY DEF Appends
<1>3. Built' = Built
  BY DEF Built, Appends
<1>. QED  BY <1>1, <1>2, <1>3

\* dpath.c 309-334, and where an argument is NULL.
LEMMA DuplicateKept ==
    ASSUME PathInv, pathPc = "call", UNCHANGED <<pathFn, Src1, Src2>>,
           NEW path, IsPath(path), Duplicate(path),
           Built = path, pathFn # "UnpackDevicePath",
           pathFn = "AppendDevicePathInstance" => {Src1, Src2} \ {<<>>} \subseteq {path}
    PROVE  PathInv'
<1>1. Given' /\ Built' = path
  BY GivenKept DEF PathInv
<1>2. pathPc' = "return" /\ ReadPath(path) = path /\ path \in Seq(Nodes)
  BY ReadsAll DEF Duplicate, IsPath
<1>3. CASE pathSize' = DevicePathSize(path) /\ Dst' = ReadPath(path)
  <2>1. Dst' = path /\ pathSize' = SizeOf(path)
    BY <1>2, <1>3 DEF DevicePathSize
  <2>2. BytesWritten' = SizeOf(path)
    BY <2>1 DEF BytesWritten
  <2>3. LibMatchDevicePaths(path, path)
    BY MatchesItself
  <2>4. SizeOf(path) \in Nat
    BY <1>2, SizeType
  <2>. QED  BY <1>1, <1>2, <2>1, <2>2, <2>3, <2>4, PathBuilt
<1>4. CASE UNCHANGED <<pathSize, Dst>>
  <2>1. pathSize' = -1 /\ Dst' = <<>>
    BY <1>4 DEF PathInv
  <2>. QED  BY <1>1, <1>2, <2>1, NothingBuilt
<1>. QED  BY <1>3, <1>4 DEF Duplicate, Allocate

LEMMA DuplicateDevicePathKept ==
    ASSUME PathInv, DuplicateDevicePath
    PROVE  PathInv'
<1>1. pathFn = "DuplicateDevicePath" /\ Src1 # <<>> /\ Src2 # <<>> /\ pathPc = "call"
  BY DEF PathInv, Given, DuplicateDevicePath
<1>2. Built = Src1
  BY <1>1 DEF Built, Appends
<1>3. IsPath(Src1)
  BY <1>1, Sources DEF PathInv
<1>. QED  BY <1>1, <1>2, <1>3, DuplicateKept DEF DuplicateDevicePath

LEMMA AppendDevicePathKept ==
    ASSUME PathInv, AppendDevicePath
    PROVE  PathInv'
<1>1. pathPc = "call" /\ UNCHANGED <<pathFn, Src1, Src2>> /\ Given
  BY DEF PathInv, AppendDevicePath
<1>2. CASE Src1 = <<>> /\ pathFn # "AppendDevicePathInstance" /\ Duplicate(Src2)
  <2>1. Built = Src2 /\ IsPath(Src2) /\ pathFn # "UnpackDevicePath"
    <3>1. Src2 # <<>> /\ pathFn # "UnpackDevicePath"
      BY <1>1, <1>2 DEF Given
    <3>2. IsPath(Src2)
      BY <1>1, <3>1, Sources
    <3>3. Built = Src2
      BY <1>2 DEF Built
    <3>. QED  BY <3>1, <3>2, <3>3
  <2>. QED  BY <1>1, <1>2, <2>1, DuplicateKept
<1>3. CASE Src2 = <<>> /\ pathFn = "AppendDevicePath" /\ Duplicate(Src1)
  <2>1. Built = Src1 /\ IsPath(Src1)
    <3>1. Src1 # <<>>
      BY <1>1, <1>3 DEF Given
    <3>2. IsPath(Src1)
      BY <1>1, <3>1, Sources
    <3>3. Built = Src1
      BY <1>3, <3>1 DEF Built
    <3>. QED  BY <3>2, <3>3
  <2>. QED  BY <1>1, <1>3, <2>1, DuplicateKept
<1>4. CASE Appends /\ pathSize' = AppendedSize /\ Inst' = Src1 /\ pathPc' = "instances"
           /\ UNCHANGED Dst
  <2>1. Dst = <<>> /\ Dst' = <<>> /\ Src1' = Src1 /\ Src2' = Src2
    BY <1>1, <1>4 DEF PathInv
  <2>2. IsPath(Src1) /\ Src1 \in Seq(Nodes) /\ Src2 \in Seq(Nodes)
    BY <1>1, <1>4, Sources DEF Appends
  <2>3. Written(0)'
    <3>1. SizeOf(<<>>) = 0 /\ SizeOf(Src1) \in Nat /\ SizeOf(Src2) \in Nat
      BY <2>2, SizeType, TotalEmpty, Quantities DEF SizeOf
    <3>2. DevicePathInstanceCount(Src1) \in Nat
      BY <2>2, CountOfPath
    <3>3. 0 + SizeOf(Src1) = SizeOf(Src1) + 0 * SizeOf(Src2)
      BY <3>1
    <3>4. 0 + DevicePathInstanceCount(Src1) = DevicePathInstanceCount(Src1)
      BY <3>2
    <3>. QED  BY <1>4, <2>1, <3>1, <3>3, <3>4 DEF Written
  <2>4. \E j \in Nat : Written(j)'
    BY <2>3
  <2>5. Given' /\ Appends'
    BY <1>1, <1>4, GivenKept
  <2>6. AppendedSize' = AppendedSize
    BY <2>1 DEF AppendedSize
  <2>7. Dst' \in Seq(Nodes)
    BY <2>1, EmptySeq
  <2>8. CopyInv'
    BY <1>4, <2>1, <2>2, <2>4, <2>5, <2>6, <2>7 DEF CopyInv
  <2>. QED  BY <1>4, <2>5, <2>8 DEF PathInv
<1>5. CASE UNCHANGED <<pathSize, Inst, Dst>> /\ pathPc' = "return"
  <2>1. pathSize' = -1 /\ Dst' = <<>>
    BY <1>1, <1>5 DEF PathInv
  <2>. QED  BY <1>1, <1>5, <2>1, NothingBuilt, GivenKept
<1>. QED  BY <1>1, <1>2, <1>3, <1>4, <1>5 DEF AppendDevicePath

LEMMA BuildNodeKept ==
    ASSUME PathInv, BuildNode
    PROVE  PathInv'
<1>1. pathPc' = "return" /\ pathSize' = -1 /\ Dst' = <<>> /\ Given'
  BY GivenKept DEF PathInv, BuildNode
<1>. QED  BY <1>1, NothingBuilt

LEMMA Associative ==
    ASSUME NEW a \in Seq(Nodes), NEW b \in Seq(Nodes), NEW c \in Seq(Nodes)
    PROVE  (a \o b) \o c = a \o (b \o c)
BY ConcatAssociative

LEMMA Regroup ==
    ASSUME NEW a \in Seq(Nodes), NEW b \in Seq(Nodes), NEW c \in Seq(Nodes),
           NEW d \in Seq(Nodes), NEW e \in Seq(Nodes)
    PROVE  (a \o (b \o c)) \o (d \o e) = a \o (b \o ((c \o d) \o e))
<1>. DEFINE bc == b \o c
            de == d \o e
            cde == c \o de
<1>1. bc \in Seq(Nodes) /\ de \in Seq(Nodes)
  BY ConcatProperties
<1>2. cde = (c \o d) \o e
  <2>1. (c \o d) \o e = c \o (d \o e)
    BY Associative
  <2>. QED  BY <2>1
<1>. HIDE DEF de
<1>3. bc \o de = b \o (c \o de)
  BY <1>1, Associative
<1>. HIDE DEF bc, cde
<1>4. (a \o bc) \o de = a \o (bc \o de)
  <2>1. \A x, y \in Seq(Nodes) : (a \o x) \o y = a \o (x \o y)
    BY Associative
  <2>. QED  BY <1>1, <2>1
<1>. QED  BY <1>2, <1>3, <1>4 DEF bc, de, cde

\* dpath.c 172-186: one more instance, with Src2 behind it.
LEMMA CopyInstanceKept ==
    ASSUME PathInv, CopyInstance
    PROVE  PathInv'
<1>1. /\ pathPc = "instances" /\ pathPc' = "instances" /\ Inst # <<>>
      /\ UNCHANGED <<pathFn, Src1, Src2, pathSize>> /\ CopyInv /\ Given
  BY DEF PathInv, CopyInstance
<1>. DEFINE start == DevicePathInstance(Inst).start
            next == DevicePathInstance(Inst).next
            z == <<"instance">>
            d == start \o Src2
            more == d \o z
<1>2. Dst' = Dst \o Appended(start) /\ Inst' = next
  BY DEF CopyInstance
<1>3. IsPath(Inst) /\ Dst \in Seq(Nodes) /\ pathSize = AppendedSize /\ Appends
  BY <1>1 DEF CopyInv
<1>4. /\ IsPath(Src1) /\ Src1 \in Seq(Nodes)
      /\ ReadPath(Src2) = Src2 /\ Src2 \in Seq(Nodes)
  BY <1>1, <1>3, Sources DEF Appends
<1>5. PICK last : FirstAndRest(Inst, start, last, next)
  BY <1>3, InstanceSplits
<1>6. start \in Seq(Nodes) /\ next \in Seq(Nodes) /\ (next = <<>> \/ IsPath(next))
  BY <1>5 DEF FirstAndRest, Endless
<1>7. /\ DevicePathInstanceCount(Inst) = 1 + DevicePathInstanceCount(next)
      /\ SizeOf(Inst) = SizeOf(start) + END_LENGTH + SizeOf(next)
  BY <1>5, CountOfFirst
<1>8. Dst' = Dst \o more
  BY <1>2, <1>4 DEF Appended
<1>9. z \in Seq(Nodes) /\ SizeOf(z) = END_LENGTH
  BY EndsAreNodes, TotalOne, Quantities DEF SizeOf
<1>10. DevicePathInstance(Src1).start \in Seq(Nodes)
  <2>1. PICK l : FirstAndRest(Src1, DevicePathInstance(Src1).start, l,
                              DevicePathInstance(Src1).next)
    BY <1>4, InstanceSplits
  <2>. QED  BY <2>1 DEF FirstAndRest, Endless
<1>. HIDE DEF start, next, z
<1>11. d \in Seq(Nodes) /\ SizeOf(d) = SizeOf(start) + SizeOf(Src2)
  BY <1>4, <1>6, ConcatProperties, SizeConcat
<1>12. more \in Seq(Nodes) /\ SizeOf(more) = SizeOf(start) + SizeOf(Src2) + END_LENGTH
  <2>. HIDE DEF d
  <2>. QED  BY <1>9, <1>11, ConcatProperties, SizeConcat
<1>13. Dst' \in Seq(Nodes) /\ SizeOf(Dst') = SizeOf(Dst) + SizeOf(more)
  <2>. HIDE DEF more
  <2>. QED  BY <1>3, <1>8, <1>12, ConcatProperties, SizeConcat
<1>14. \E j \in Nat : Written(j)'
  <2>1. PICK j \in Nat : Written(j)
    BY <1>1 DEF CopyInv
  <2>. DEFINE s1 == SizeOf(Src1)
              s2 == SizeOf(Src2)
              dst == SizeOf(Dst)
              st == SizeOf(start)
              nx == SizeOf(next)
              cn == DevicePathInstanceCount(next)
              p == j * s2
  <2>2. s1 \in Nat /\ s2 \in Nat /\ dst \in Nat /\ st \in Nat /\ nx \in Nat
    BY <1>3, <1>4, <1>6, SizeType
  <2>3. cn \in Nat
    BY <1>6, TotalType, Quantities DEF DevicePathInstanceCount
  <2>4. /\ j + (1 + cn) = DevicePathInstanceCount(Src1)
        /\ dst + (st + END_LENGTH + nx) = s1 + p
    BY <1>7, <2>1 DEF Written
  <2>5. p \in Nat /\ (j + 1) * s2 = p + s2
    BY <2>2
  <2>6. SizeOf(Dst') = dst + (st + s2 + END_LENGTH)
    BY <1>12, <1>13
  <2>7. SizeOf(Inst') = nx /\ DevicePathInstanceCount(Inst') = cn
    BY <1>2
  <2>. HIDE DEF s1, s2, dst, st, nx, cn, p
  <2>8. SizeOf(Dst') + SizeOf(Inst') = s1 + (j + 1) * s2
    BY <2>2, <2>4, <2>5, <2>6, <2>7 DEF END_LENGTH
  <2>9. (j + 1) + cn = DevicePathInstanceCount(Src1)
    BY <2>3, <2>4
  <2>10. Written(j + 1)'
    BY <1>1, <2>7, <2>8, <2>9 DEF Written, s1, s2
  <2>. QED  BY <2>10
<1>15. \E rest \in Seq(Nodes) : InFront(rest)'
  <2>. DEFINE first == DevicePathInstance(Src1).start
  <2>1. CASE Dst = <<>> /\ Inst = Src1
    <3>1. Dst' = more /\ first = start
      <4>1. more \in Seq(Nodes)
        BY <1>12
      <4>. HIDE DEF more
      <4>. QED  BY <1>8, <2>1, <4>1, ConcatEmptySeq DEF start
    <3>2. more = start \o (Src2 \o z)
      BY <1>4, <1>6, <1>9, Associative
    <3>3. <<>> \o z = z /\ <<>> \in Seq(Nodes)
      BY <1>9, ConcatEmptySeq, EmptySeq
    <3>4. Dst' = first \o (Src2 \o (<<>> \o z))
      BY <3>1, <3>2, <3>3
    <3>5. InFront(<<>>)'
      BY <1>1, <3>4 DEF InFront, z
    <3>. QED  BY <3>3, <3>5
  <2>2. ASSUME NEW rest \in Seq(Nodes), InFront(rest)
        PROVE  \E new \in Seq(Nodes) : InFront(new)'
    <3>. DEFINE c == rest \o z
                new == c \o d
    <3>1. Dst = first \o (Src2 \o c)
      BY <2>2 DEF InFront, z
    <3>2. c \in Seq(Nodes)
      BY <1>9, <2>2, ConcatProperties
    <3>3. d \in Seq(Nodes)
      BY <1>11
    <3>. HIDE DEF c, first, d
    <3>4. new \in Seq(Nodes)
      BY <3>2, <3>3, ConcatProperties
    <3>5. first \in Seq(Nodes)
      BY <1>10 DEF first
    <3>6. (first \o (Src2 \o c)) \o (d \o z) = first \o (Src2 \o ((c \o d) \o z))
      <4>1. \A x, y, v \in Seq(Nodes) :
              (first \o (Src2 \o x)) \o (y \o v) = first \o (Src2 \o ((x \o y) \o v))
        BY <1>4, <3>5, Regroup
      <4>. QED  BY <1>9, <3>2, <3>3, <4>1
    <3>7. Dst' = first \o (Src2 \o (new \o z))
      BY <1>8, <3>1, <3>6
    <3>8. /\ Src1' = Src1 /\ Src2' = Src2
          /\ Dst' = DevicePathInstance(Src1).start \o (Src2 \o (new \o <<"instance">>))
      BY <1>1, <3>7 DEF z, first
    <3>9. PICK some \in Seq(Nodes) : some = new
      BY <3>4
    <3>10. InFront(some)'
      BY <3>8, <3>9 DEF InFront
    <3>. QED  BY <3>10
  <2>. QED  BY <1>1, <2>1, <2>2 DEF CopyInv
<1>16. Given' /\ Appends' /\ pathSize' = AppendedSize'
  BY <1>1, <1>3, GivenKept DEF AppendedSize
<1>17. Inst' = <<>> \/ IsPath(Inst')
  BY <1>2, <1>6
<1>18. CopyInv'
  BY <1>13, <1>14, <1>15, <1>16, <1>17 DEF CopyInv
<1>. QED  BY <1>1, <1>16, <1>18 DEF PathInv

\* dpath.c 188-194: the end of the last instance becomes the end of the path.
LEMMA ChangeLastEndKept ==
    ASSUME PathInv, ChangeLastEnd
    PROVE  PathInv'
<1>1. /\ pathPc = "instances" /\ pathPc' = "return" /\ Inst = <<>> /\ Inst' = <<>>
      /\ UNCHANGED <<pathFn, Src1, Src2, pathSize>> /\ CopyInv /\ Given
      /\ Dst' = Front(Dst) \o <<"end">>
  BY DEF PathInv, ChangeLastEnd
<1>2. Appends /\ pathSize = AppendedSize
  BY <1>1 DEF CopyInv
<1>3. /\ IsPath(Src1) /\ IsPath(Src2) /\ Src2 \in Seq(Nodes)
  BY <1>1, <1>2, Sources DEF Appends
<1>4. PICK rest \in Seq(Nodes) : InFront(rest)
  <2>1. Src1 # <<>>
    BY <1>2 DEF Appends
  <2>. QED  BY <1>1, <2>1 DEF CopyInv
<1>5. PICK j \in Nat : Written(j)
  BY <1>1 DEF CopyInv
<1>. DEFINE first == DevicePathInstance(Src1).start
            z == <<"instance">>
            e == <<"end">>
            u == first \o (Src2 \o rest)
<1>6. Endless(first) /\ first \in Seq(Nodes)
  <2>1. PICK l : FirstAndRest(Src1, first, l, DevicePathInstance(Src1).next)
    BY <1>3, InstanceSplits
  <2>. QED  BY <2>1 DEF FirstAndRest, Endless
<1>7. z \in Seq(Nodes) /\ e \in Seq(Nodes) /\ Len(z) = 1
  BY EndsAreNodes
<1>8. Dst = first \o (Src2 \o (rest \o z))
  BY <1>4 DEF InFront
<1>. DEFINE w == Src2 \o rest
<1>9. w \in Seq(Nodes) /\ u \in Seq(Nodes)
  BY <1>3, <1>4, <1>6, ConcatProperties
<1>. HIDE DEF first, z
<1>10. Dst = u \o z
  <2>1. (Src2 \o rest) \o z = Src2 \o (rest \o z)
    BY <1>3, <1>4, <1>7, Associative
  <2>. HIDE DEF w
  <2>2. (first \o w) \o z = first \o (w \o z)
    BY <1>6, <1>7, <1>9, Associative
  <2>. QED  BY <1>8, <2>1, <2>2 DEF w
<1>11. u = (first \o Src2) \o rest
  BY <1>3, <1>4, <1>6, Associative
<1>. HIDE DEF u, w
<1>12. Front(Dst) = u
  <2>. DEFINE m == Len(u)
              f == SubSeq(Dst, 1, m)
  <2>1. /\ Dst \in Seq(Nodes) /\ Len(Dst) = m + 1 /\ m \in Nat
        /\ \A i \in 1 .. m + 1 : Dst[i] = IF i <= m THEN u[i] ELSE z[i - m]
    <3>1. /\ u \o z \in Seq(Nodes) /\ Len(u \o z) = Len(u) + Len(z) /\ m \in Nat
          /\ \A i \in 1 .. Len(u) + Len(z) :
                (u \o z)[i] = IF i <= Len(u) THEN u[i] ELSE z[i - Len(u)]
      BY <1>7, <1>9, ConcatProperties, LenProperties
    <3>. QED  BY <1>7, <1>10, <3>1
  <2>2. Front(Dst) = f
    <3>1. Len(Dst) - 1 = m
      BY <2>1
    <3>. QED  BY <3>1 DEF Front
  <2>3. f \in Seq(Nodes) /\ Len(f) = m /\ \A i \in 1 .. m : f[i] = Dst[i]
    <3>1. m \in 0 .. Len(Dst)
      BY <2>1
    <3>. QED  BY <2>1, <3>1, Beginning
  <2>. HIDE DEF f
  <2>4. ASSUME NEW i \in 1 .. m PROVE f[i] = u[i]
    <3>1. i \in 1 .. m + 1 /\ i <= m
      BY <2>1
    <3>. QED  BY <2>1, <2>3, <3>1
  <2>5. f = u
    BY <1>9, <2>3, <2>4, SeqEqual
  <2>. QED  BY <2>2, <2>5
<1>. DEFINE p == first \o Src2
            tail == rest \o e
<1>13. IsPath(p) /\ p \in Seq(Nodes)
  BY <1>3, <1>6, PathBehind, ConcatProperties
<1>14. tail \in Seq(Nodes)
  BY <1>4, <1>7, ConcatProperties
<1>. HIDE DEF p, e
<1>15. Dst' = p \o tail
  <2>1. Dst' = (p \o rest) \o e
    BY <1>1, <1>11, <1>12 DEF p, e
  <2>. QED  BY <1>4, <1>7, <1>13, <2>1, Associative
<1>16. ReadPath(Dst') = p
  <2>. HIDE DEF tail
  <2>. QED  BY <1>13, <1>14, <1>15, ReadsPath
<1>17. Given' /\ Appends' /\ Built' = Built
  BY <1>1, <1>2, GivenKept
<1>18. Built = p
  <2>1. Src1 # <<>> /\ Src2 # <<>>
    BY <1>2 DEF Appends
  <2>. QED  BY <1>2, <2>1 DEF Built, p, first, Appends
<1>19. SizeOf(Dst') = SizeOf(Dst) /\ Dst \in Seq(Nodes) /\ Dst' \in Seq(Nodes)
  <2>1. Dst' = u \o e /\ Dst = u \o z
    BY <1>1, <1>10, <1>12 DEF e
  <2>2. SizeOf(u \o e) = SizeOf(u \o z)
    BY <1>9, EndsAlike DEF e, z
  <2>. QED  BY <1>7, <1>9, <2>1, <2>2, ConcatProperties
<1>20. FitsOrOverruns'
  <2>1. BytesWritten' = SizeOf(Dst')
    BY <1>17 DEF Appends, BytesWritten
  <2>2. Inst \in Seq(Nodes)
    BY <1>1, EmptySeq
  <2>3. SizeOf(Dst) > AppendedSize =>
          /\ DevicePathInstanceCount(Src1) > 1
          /\ DevicePathSize(Src2) > DevicePathSize(Src1)
    BY <1>1, <1>2, <1>5, <1>19, <2>2, CopyFits DEF Written
  <2>4. BytesWritten' > pathSize' =>
          /\ DevicePathInstanceCount(Src1)' > 1
          /\ (DevicePathSize(Src2) > DevicePathSize(Src1))'
    BY <1>1, <1>2, <1>19, <2>1, <2>3
  <2>. QED  BY <1>17, <2>4 DEF FitsOrOverruns
<1>21. pathFn' # "AppendDevicePathInstance"
  BY <1>17 DEF Appends
<1>22. PathsBuilt'
  BY <1>16, <1>17, <1>18, <1>20, <1>21 DEF PathsBuilt
<1>. QED  BY <1>1, <1>17, <1>22 DEF PathInv

\* dpath.c 397-433: the instances of Src1, and those of Src2 behind them.
LEMMA AppendDevicePathInstanceKept ==
    ASSUME PathInv, AppendDevicePathInstance
    PROVE  PathInv'
<1>1. /\ pathPc = "call" /\ pathFn = "AppendDevicePathInstance"
      /\ UNCHANGED <<pathFn, Src1, Src2>> /\ Given /\ pathSize = -1 /\ Dst = <<>>
  BY DEF PathInv, AppendDevicePathInstance
<1>2. IsPath(Src2) /\ ReadPath(Src2) = Src2 /\ Src2 \in Seq(Nodes) /\ Src2 # <<>>
  <2>1. Src2 # <<>>
    BY <1>1 DEF Given
  <2>. QED  BY <1>1, <2>1, Sources
<1>3. CASE Src1 = <<>>
  <2>1. Duplicate(Src2)
    BY <1>3 DEF AppendDevicePathInstance
  <2>2. Built = Src2
    BY <1>3 DEF Built
  <2>3. {Src1, Src2} \ {<<>>} \subseteq {Src2}
    BY <1>3
  <2>. QED  BY <1>1, <1>2, <2>1, <2>2, <2>3, DuplicateKept
<1>4. CASE Src1 # <<>>
  <2>1. IsPath(Src1) /\ ReadPath(Src1) = Src1 /\ Src1 \in Seq(Nodes)
    BY <1>1, <1>4, Sources
  <2>2. \/ /\ pathSize' = DevicePathSize(Src1) + DevicePathSize(Src2)
           /\ Dst' = EndConverted \o ReadPath(Src2) /\ pathPc' = "return"
        \/ UNCHANGED <<pathSize, Dst>> /\ pathPc' = "fault"
    BY <1>4 DEF AppendDevicePathInstance
  <2>3. CASE UNCHANGED <<pathSize, Dst>> /\ pathPc' = "fault"
    BY <1>1, <2>3, NothingBuilt, GivenKept
  <2>4. CASE /\ pathSize' = DevicePathSize(Src1) + DevicePathSize(Src2)
             /\ Dst' = EndConverted \o ReadPath(Src2) /\ pathPc' = "return"
    <3>. DEFINE f == Front(Src1)
                z == <<"instance">>
                e == <<"end">>
                h == f \o z
                path == h \o Src2
    <3>1. Dst' = path
      BY <1>2, <2>1, <2>4 DEF EndConverted
    <3>2. IsPath(path) /\ LibMatchDevicePaths(path, Src1) /\ LibMatchDevicePaths(path, Src2)
      BY <1>2, <2>1, JoinedMatches
    <3>3. f \in Seq(Nodes) /\ Src1 = f \o e /\ z \in Seq(Nodes)
      BY <2>1, FrontOfPath, EndsAreNodes DEF Endless
    <3>4. SizeOf(h) = SizeOf(Src1)
      BY <3>3, EndsAlike
    <3>5. SizeOf(path) = SizeOf(Src1) + SizeOf(Src2) /\ SizeOf(path) \in Nat
      <4>1. h \in Seq(Nodes)
        BY <3>3, ConcatProperties
      <4>. HIDE DEF h
      <4>2. SizeOf(path) = SizeOf(h) + SizeOf(Src2)
        BY <1>2, <4>1, SizeConcat
      <4>3. SizeOf(Src1) \in Nat /\ SizeOf(Src2) \in Nat
        BY <1>2, <2>1, SizeType
      <4>. QED  BY <3>4, <4>2, <4>3
    <3>6. ReadPath(path) = path
      BY <3>2, ReadsAll
    <3>7. Given' /\ Built' = Built
      BY <1>1, GivenKept
    <3>8. Built = path
      BY <1>1, <1>2, <1>4 DEF Built, Appends
    <3>. HIDE DEF path
    <3>9. pathSize' = SizeOf(path)
      BY <1>2, <2>1, <2>4, <3>5 DEF DevicePathSize
    <3>10. BytesWritten' = SizeOf(path)
      BY <1>1, <3>1 DEF BytesWritten
    <3>11. \A p \in {Src1', Src2'} \ {<<>>} : LibMatchDevicePaths(Dst', p)
      BY <1>1, <3>1, <3>2
    <3>. QED
      BY <2>4, <3>1, <3>5, <3>6, <3>7, <3>8, <3>9, <3>10, <3>11, PathBuilt
  <2>. QED  BY <2>2, <2>3, <2>4
<1>. QED  BY <1>3, <1>4

\* dpath.c 336-394: every node of the path, with its length aligned.
LEMMA UnpackDevicePathKept ==
    ASSUME PathInv, UnpackDevicePath
    PROVE  PathInv'
<1>1. /\ pathPc = "call" /\ pathFn = "UnpackDevicePath" /\ pathPc' = "return"
      /\ UNCHANGED <<pathFn, Src1, Src2>> /\ Given /\ pathSize = -1 /\ Dst = <<>>
      /\ Src1 # <<>> /\ Src2 # <<>>
  BY DEF PathInv, UnpackDevicePath, Given
<1>2. IsPath(Src1) /\ ReadPath(Src1) = Src1 /\ Src1 \in Seq(Nodes)
  BY <1>1, Sources
<1>3. Given' /\ Built' = Src1
  <2>1. Built = Src1
    BY <1>1 DEF Built, Appends
  <2>. QED  BY <1>1, <2>1, GivenKept
<1>4. CASE /\ pathSize' = UnpackedSizes(ReadPath(Src1))[Len(ReadPath(Src1))]
           /\ Dst' = ReadPath(Src1)
  <2>1. Dst' = Src1 /\ pathSize' = SumOver(AlignedSize, Src1)
    BY <1>2, <1>4, UnpackedFits
  <2>2. SumOver(AlignedSize, Src1) \in Nat
    BY <1>2, TotalType, AlignedQuantity
  <2>3. BytesWritten' = SumOver(AlignedSize, Src1)
    BY <1>1, <2>1 DEF BytesWritten, AlignedSize, Aligned
  <2>. QED  BY <1>1, <1>2, <1>3, <2>1, <2>2, <2>3, PathBuilt
<1>5. CASE UNCHANGED <<pathSize, Dst>>
  BY <1>1, <1>3, <1>5, NothingBuilt
<1>. QED  BY <1>4, <1>5 DEF UnpackDevicePath, Allocate

\* dpath.c 1231-1261: the first node, in a block for the first instance.
LEMMA LibDuplicateKept ==
    ASSUME PathInv, LibDuplicateDevicePathInstance
    PROVE  PathInv'
<1>. DEFINE start == DevicePathInstance(Src1).start
            one == <<start[1], "end">>
<1>1. /\ pathPc = "call" /\ pathFn = "LibDuplicateDevicePathInstance" /\ pathPc' = "return"
      /\ UNCHANGED <<pathFn, Src1, Src2>> /\ Given /\ pathSize = -1 /\ Dst = <<>>
      /\ Src1 # <<>> /\ Src2 # <<>>
      /\ \/ UNCHANGED <<pathSize, Dst>>
         \/ start # <<>> /\ pathSize' = SizeOf(start) + END_LENGTH /\ Dst' = one
  BY DEF PathInv, LibDuplicateDevicePathInstance, Given, Allocate
<1>2. Given' /\ Built' = <<Src1[1], "end">>
  <2>1. Built = <<Src1[1], "end">>
    BY <1>1 DEF Built, Appends
  <2>. QED  BY <1>1, <2>1, GivenKept
<1>3. CASE UNCHANGED <<pathSize, Dst>>
  BY <1>1, <1>2, <1>3, NothingBuilt
<1>4. CASE start # <<>> /\ pathSize' = SizeOf(start) + END_LENGTH /\ Dst' = one
  <2>1. IsPath(Src1)
    BY <1>1, Sources
  <2>2. PICK last : FirstAndRest(Src1, start, last, DevicePathInstance(Src1).next)
    BY <2>1, InstanceSplits
  <2>. DEFINE rest == <<last>> \o DevicePathInstance(Src1).next
  <2>3. Endless(start) /\ start \in Seq(Nodes) /\ Src1 = start \o rest /\ last \in Nodes
        /\ DevicePathInstance(Src1).next \in Seq(Nodes)
    BY <2>2, EndsAreNodes DEF FirstAndRest, Endless, EndTypes
  <2>4. rest \in Seq(Nodes)
    <3>1. <<last>> \in Seq(Nodes)
      BY <2>3
    <3>. QED  BY <2>3, <3>1, ConcatProperties
  <2>. HIDE DEF start, rest
  <2>5. Len(start) \in Nat \ {0} /\ Len(rest) \in Nat
    BY <1>4, <2>3, <2>4, EmptySeq, LenProperties
  <2>6. start[1] \in Nodes /\ start[1] # "end"
    BY <2>3, <2>5, SeqOfNodes DEF Endless
  <2>7. Src1[1] = start[1]
    <3>1. \A i \in 1 .. Len(start) + Len(rest) :
            (start \o rest)[i] = IF i <= Len(start) THEN start[i] ELSE rest[i - Len(start)]
      BY <2>3, <2>4, ConcatProperties
    <3>2. 1 \in 1 .. Len(start) + Len(rest) /\ 1 <= Len(start)
      BY <2>5
    <3>. QED  BY <2>3, <3>1, <3>2
  <2>8. IsPath(one)
    <3>1. one \in Seq(Nodes) /\ Len(one) = 2 /\ one[1] = start[1] /\ one[2] = "end"
      BY <2>6, EndsAreNodes
    <3>2. one # <<>>
      OBVIOUS
    <3>. HIDE DEF one
    <3>. QED  BY <2>6, <3>1, <3>2 DEF IsPath
  <2>9. SizeOf(one) = NodeSize[start[1]] + END_LENGTH
    <3>. DEFINE m == start[1]
                a == <<m>>
                b == <<"end">>
    <3>1. one = a \o b
      OBVIOUS
    <3>2. a \in Seq(Nodes) /\ b \in Seq(Nodes)
      BY <2>6, EndsAreNodes
    <3>3. SizeOf(a) = NodeSize[m] /\ SizeOf(b) = END_LENGTH
      BY <2>6, EndsAreNodes, TotalOne, Quantities DEF SizeOf
    <3>. HIDE DEF one, a, b
    <3>. QED  BY <3>1, <3>2, <3>3, SizeConcat
  <2>10. NodeSize[start[1]] \in Nat /\ NodeSize[start[1]] <= SizeOf(start)
         /\ SizeOf(start) \in Nat
    BY <1>4, <2>3, FirstNodeFits, SizeType
  <2>11. ReadPath(one) = one
    BY <2>8, ReadsAll
  <2>12. BytesWritten' = SizeOf(one)
    BY <1>1, <1>4 DEF BytesWritten
  <2>13. one = <<Src1[1], "end">>
    BY <2>7
  <2>. HIDE DEF one
  <2>14. ~(BytesWritten' > pathSize')
    BY <1>4, <2>9, <2>10, <2>12 DEF END_LENGTH
  <2>15. PathsBuilt'
    BY <1>1, <1>2, <1>4, <2>11, <2>13, <2>14 DEF PathsBuilt, FitsOrOverruns
  <2>. QED  BY <1>1, <1>2, <2>15 DEF PathInv
<1>. QED  BY <1>1, <1>3, <1>4

LEMMA PathInvKept ==
    ASSUME PathInv, [PathNext]_pathVars
    PROVE  PathInv'
<1>1. CASE UNCHANGED pathVars
  <2>1. /\ Given' /\ (Built' = Built) /\ (Appends' <=> Appends)
    BY <1>1, GivenKept DEF PathInv, pathVars
  <2>2. CopyInv => CopyInv'
    <3>1. ASSUME NEW j \in Nat, Written(j) PROVE Written(j)'
      BY <1>1, <3>1 DEF pathVars, Written
    <3>2. ASSUME NEW rest \in Seq(Nodes), InFront(rest) PROVE InFront(rest)'
      BY <1>1, <3>2 DEF pathVars, InFront
    <3>3. AppendedSize' = AppendedSize
      BY <1>1 DEF pathVars, AppendedSize
    <3>. QED  BY <1>1, <2>1, <3>1, <3>2, <3>3 DEF pathVars, CopyInv
  <2>3. FitsOrOverruns => FitsOrOverruns'
    <3>1. BytesWritten' = BytesWritten
      BY <1>1 DEF pathVars, BytesWritten, AlignedSize, Aligned
    <3>. QED  BY <1>1, <2>1, <3>1 DEF pathVars, FitsOrOverruns
  <2>4. PathsBuilt => PathsBuilt'
    BY <1>1, <2>1, <2>3 DEF pathVars, PathsBuilt
  <2>. QED  BY <1>1, <2>1, <2>2, <2>4 DEF pathVars, PathInv
<1>. QED
  BY <1>1, DuplicateDevicePathKept, AppendDevicePathKept, BuildNodeKept, CopyInstanceKept,
     ChangeLastEndKept, AppendDevicePathInstanceKept, UnpackDevicePathKept, LibDuplicateKept
     DEF PathNext

\* What ends with its first instance is that and one end.
LEMMA OneInstance ==
    ASSUME NEW path, IsPath(path), ~(DevicePathInstanceCount(path) > 1)
    PROVE  DevicePathInstance(path).start = Front(path)
<1>. DEFINE start == DevicePathInstance(path).start
            next == DevicePathInstance(path).next
            front == Front(path)
            e == <<"end">>
            c == DevicePathInstanceCount(next)
<1>1. PICK last : FirstAndRest(path, start, last, next)
  BY InstanceSplits
<1>2. front \in Seq(Nodes) /\ path = front \o e /\ e \in Seq(Nodes) /\ Len(e) = 1
  BY FrontOfPath, EndsAreNodes DEF Endless
<1>. DEFINE l == <<last>>
<1>3. /\ start \in Seq(Nodes) /\ l \in Seq(Nodes) /\ Len(l) = 1
      /\ path = start \o (l \o next) /\ (next = <<>> \/ IsPath(next))
  <2>1. l \in Seq(Nodes) /\ Len(l) = 1
    BY <1>1, EndsAreNodes DEF FirstAndRest, EndTypes
  <2>. HIDE DEF start, next, l
  <2>2. start \in Seq(Nodes) /\ path = start \o (<<last>> \o next)
        /\ (next = <<>> \/ IsPath(next))
    BY <1>1 DEF FirstAndRest, Endless
  <2>. QED  BY <2>1, <2>2 DEF l
<1>4. next = <<>>
  <2>1. DevicePathInstanceCount(path) = 1 + c
    BY <1>1, CountOfFirst
  <2>2. IsPath(next) => c \in Nat \ {0}
    BY CountOfPath
  <2>. HIDE DEF c, next
  <2>. QED  BY <1>3, <2>1, <2>2
<1>. HIDE DEF start, next, front, e, l
<1>5. path = start \o l
  BY <1>3, <1>4, ConcatEmptySeq
<1>6. /\ Len(path) = Len(start) + 1 /\ Len(path) = Len(front) + 1
      /\ Len(start) \in Nat /\ Len(front) \in Nat
      /\ \A k \in 1 .. Len(start) + 1 : path[k] = IF k <= Len(start) THEN start[k] ELSE l[k - Len(start)]
      /\ \A k \in 1 .. Len(front) + 1 : path[k] = IF k <= Len(front) THEN front[k] ELSE e[k - Len(front)]
  <2>1. \A p \in Seq(Nodes), q \in Seq(Nodes) :
          /\ Len(p \o q) = Len(p) + Len(q) /\ Len(p) \in Nat
          /\ \A k \in 1 .. Len(p) + Len(q) :
               (p \o q)[k] = IF k <= Len(p) THEN p[k] ELSE q[k - Len(p)]
    BY ConcatProperties, LenProperties
  <2>2. /\ Len(path) = Len(start) + 1 /\ Len(start) \in Nat
        /\ \A k \in 1 .. Len(start) + 1 :
             path[k] = IF k <= Len(start) THEN start[k] ELSE l[k - Len(start)]
    BY <1>3, <1>5, <2>1
  <2>3. /\ Len(path) = Len(front) + 1 /\ Len(front) \in Nat
        /\ \A k \in 1 .. Len(front) + 1 :
             path[k] = IF k <= Len(front) THEN front[k] ELSE e[k - Len(front)]
    BY <1>2, <2>1
  <2>. QED  BY <2>2, <2>3
<1>7. Len(start) = Len(front)
  BY <1>6
<1>8. ASSUME NEW k \in 1 .. Len(front) PROVE start[k] = front[k]
  BY <1>6, <1>7
<1>9. start = front
  BY <1>2, <1>3, <1>7, <1>8, SeqEqual
<1>. QED  BY <1>9 DEF start, front

\* The first instance begins with the first node.
LEMMA OneNodeInstance ==
    ASSUME NEW path, IsPath(path), Len(DevicePathInstance(path).start) = 1
    PROVE  DevicePathInstance(path).start \o <<"end">> = <<path[1], "end">>
<1>. DEFINE start == DevicePathInstance(path).start
            next == DevicePathInstance(path).next
<1>1. PICK last : FirstAndRest(path, start, last, next)
  BY InstanceSplits
<1>. DEFINE rest == <<last>> \o next
<1>2. start \in Seq(Nodes) /\ path = start \o rest /\ rest \in Seq(Nodes) /\ Len(start) = 1
  <2>1. <<last>> \in Seq(Nodes) /\ next \in Seq(Nodes)
    BY <1>1, EndsAreNodes DEF FirstAndRest, EndTypes
  <2>2. rest \in Seq(Nodes)
    BY <2>1, ConcatProperties
  <2>. QED  BY <1>1, <2>2 DEF FirstAndRest, Endless
<1>. HIDE DEF start, rest
<1>3. path[1] = start[1]
  <2>1. /\ \A i \in 1 .. Len(start) + Len(rest) :
              (start \o rest)[i] = IF i <= Len(start) THEN start[i] ELSE rest[i - Len(start)]
        /\ Len(rest) \in Nat
    BY <1>2, ConcatProperties, LenProperties
  <2>2. 1 \in 1 .. Len(start) + Len(rest) /\ 1 <= Len(start)
    BY <1>2, <2>1
  <2>. QED  BY <1>2, <2>1, <2>2
<1>4. start \o <<"end">> = <<start[1], "end">>
  <2>. DEFINE e == <<"end">>
              p == <<start[1], "end">>
  <2>1. e \in Seq(Nodes) /\ Len(e) = 1 /\ e[1] = "end" /\ start[1] \in Nodes
    <3>1. 1 \in 1 .. Len(start)
      BY <1>2
    <3>2. start[1] \in Nodes
      BY <1>2, <3>1, SeqOfNodes
    <3>. QED  BY <3>2, EndsAreNodes
  <2>2. p \in Seq(Nodes) /\ Len(p) = 2 /\ p[1] = start[1] /\ p[2] = "end"
    BY <2>1, EndsAreNodes
  <2>. HIDE DEF e, p
  <2>3. /\ start \o e \in Seq(Nodes) /\ Len(start \o e) = 2
        /\ \A k \in 1 .. 2 : (start \o e)[k] = IF k <= 1 THEN start[k] ELSE e[k - 1]
    <3>1. /\ start \o e \in Seq(Nodes) /\ Len(start \o e) = Len(start) + Len(e)
          /\ \A k \in 1 .. Len(start) + Len(e) :
               (start \o e)[k] = IF k <= Len(start) THEN start[k] ELSE e[k - Len(start)]
      BY <1>2, <2>1, ConcatProperties
    <3>2. Len(start) = 1 /\ Len(e) = 1 /\ Len(start) + Len(e) = 2
      BY <1>2, <2>1
    <3>. QED  BY <3>1, <3>2
  <2>4. \A k \in 1 .. 2 : (start \o e)[k] = p[k]
    BY <2>1, <2>2, <2>3
  <2>5. start \o e = p
    BY <2>2, <2>3, <2>4, SeqEqual
  <2>. QED  BY <2>5 DEF e, p
<1>. QED  BY <1>3, <1>4 DEF start

\* dpath.c 123-433: whatever device paths of whatever nodes are composed and wherever an
\* allocation fails, a call stays in its block and returns the path it promises, unless it
\* appends to several instances or duplicates an instance of several nodes.
THEOREM ComposedAsPromised == PathSpec => []PathsComposed
<1>1. PathInit => PathInv
  BY PathInitInv
<1>2. PathInv /\ [PathNext]_pathVars => PathInv'
  BY PathInvKept
<1>3. PathInv => PathsComposed
  <2>. SUFFICES ASSUME PathInv, ~AppendsToSeveral, ~DuplicatesFirstNode
                PROVE  /\ pathSize # -1 => ~(BytesWritten > pathSize)
                       /\ pathPc = "return" /\ Dst # <<>> =>
                            /\ ReadPath(Dst) = Composed
                            /\ pathFn = "AppendDevicePathInstance" =>
                                 \A path \in {Src1, Src2} \ {<<>>} :
                                    LibMatchDevicePaths(Dst, path)
    BY DEF PathsComposed
  <2>1. PathsBuilt /\ Given
    BY PathInvBuilt DEF PathInv
  <2>2. pathSize # -1 => ~(BytesWritten > pathSize)
    BY <2>1 DEF PathsBuilt, FitsOrOverruns, AppendsToSeveral
  <2>3. Composed = Built
    <3>1. CASE Src1 = <<>> \/ Src2 = <<>>
      BY <3>1 DEF Composed, Built
    <3>2. CASE Src1 # <<>> /\ Src2 # <<>> /\ Appends
      <4>1. DevicePathInstance(Src1).start = Front(Src1)
        BY <2>1, <3>2, Sources, OneInstance DEF AppendsToSeveral
      <4>. QED  BY <3>2, <4>1 DEF Composed, Built
    <3>3. CASE Src1 # <<>> /\ Src2 # <<>> /\ pathFn = "LibDuplicateDevicePathInstance"
      <4>1. DevicePathInstance(Src1).start \o <<"end">> = <<Src1[1], "end">>
        BY <2>1, <3>3, Sources, OneNodeInstance DEF DuplicatesFirstNode
      <4>2. ~Appends
        BY <3>3 DEF Appends
      <4>. QED  BY <3>3, <4>1, <4>2 DEF Composed, Built
    <3>4. CASE /\ Src1 # <<>> /\ Src2 # <<>> /\ ~Appends
               /\ pathFn # "LibDuplicateDevicePathInstance"
      BY <3>4 DEF Composed, Built
    <3>. QED  BY <3>1, <3>2, <3>3, <3>4
  <2>. QED  BY <2>1, <2>2, <2>3 DEF PathsBuilt
<1>. QED
  BY <1>1, <1>2, <1>3, PTL DEF PathSpec
=============================================================================
