------------------------- MODULE ProtocolInterfaces -------------------------
(***************************************************************************)
(* LibInstallProtocolInterfaces, LibUninstallProtocolInterfaces and        *)
(* LibReinstallProtocolInterfaces of gnu-efi/lib/hand.c over the           *)
(* firmware's database of handles, which other code changes whenever the   *)
(* task priority is below TPL_NOTIFY.                                      *)
(***************************************************************************)
EXTENDS Integers, Sequences

CONSTANTS
    Calls,             \* the functions called: "install", "uninstall", "reinstall"
    Handles, Protocols, Interfaces,
    None,              \* no interface
    NoHandle,          \* no handle
    Pointer,           \* the address of the caller's handle variable
    Databases,         \* what may be on the handles at the call
    MaxList,           \* bound: entries of the caller's list
    MaxInstallEvents,  \* bound: changes by other code
    Faulty             \* whether installing may fail for want of memory

ASSUME ProtocolAssumption ==
    /\ Calls \subseteq {"install", "uninstall", "reinstall"}
    /\ Databases \subseteq [Handles -> [Protocols -> Interfaces \cup {None}]]
    /\ None \notin Interfaces /\ {NoHandle, Pointer} \cap Handles = {} /\ NoHandle # Pointer
    /\ {MaxList, MaxInstallEvents} \subseteq Nat /\ Faulty \in BOOLEAN

VARIABLES
    installPc,        \* "raise", a function, "undo", "restore", "return"
    installFn, list,  \* the function, and its entries [p, i, new]
    db,               \* handle -> protocol -> interface
    held,             \* the protocols someone has opened
    tpl,              \* "application" or "notify"
    Handle, OldHandle, installIndex, installStatus,
    arg,              \* entries taken from the va_list
    dbBefore,         \* db at the call, later when the priority was raised
    installEvents

installVars == <<installPc, installFn, list, db, held, tpl, Handle, OldHandle, installIndex,
                 installStatus, arg, dbBefore, installEvents>>

Entries == [p : Protocols, i : Interfaces, new : Interfaces]
Exists(h) == \E p \in Protocols : db[h][p] # None
Entry == list[arg + 1]
ListEnds == arg = Len(list)

InstallOff ==
    /\ installPc = "off" /\ installFn = "install" /\ list = <<>>
    /\ db = [h \in Handles |-> [p \in Protocols |-> None]] /\ held = {}
    /\ tpl = "application" /\ Handle = NoHandle /\ OldHandle = NoHandle
    /\ installIndex = 0 /\ installStatus = "SUCCESS" /\ arg = 0
    /\ dbBefore = db /\ installEvents = 0

InstallInit ==
    /\ installFn \in Calls /\ installPc = IF installFn = "uninstall" THEN installFn ELSE "raise"
    /\ list \in UNION {[1 .. k -> Entries] : k \in 0 .. MaxList}
    /\ IF installFn = "reinstall" THEN Len(list) <= 1  \* it ends with its first entry
       ELSE \A k \in DOMAIN list : list[k].new = list[k].i
    /\ db \in Databases
    /\ held \in IF installFn = "install" THEN {{}} ELSE SUBSET Protocols
    /\ Handle \in {h \in Handles : Exists(h)} \cup {NoHandle}
    /\ Handle = NoHandle => installFn = "install"
    /\ tpl = "application" /\ OldHandle = NoHandle /\ installIndex = 0 /\ arg = 0
    /\ installStatus = "SUCCESS" /\ dbBefore = db /\ installEvents = 0

RaiseTPLLate == "application"
Raised == "notify"

\* OldTpl = RaiseTPL(TPL_NOTIFY); OldHandle = *Handle;
RaiseTPL ==
    /\ installPc = "raise" /\ installPc' = installFn
    /\ tpl' = Raised /\ OldHandle' = Handle /\ dbBefore' = db
    /\ UNCHANGED <<installFn, list, db, held, Handle, installIndex, installStatus, arg,
                   installEvents>>

\* BS->InstallProtocolInterface; with no handle the firmware makes a new one.
InstallInterface ==
    /\ installPc = "install" /\ ~ListEnds
    /\ \E h \in IF Handle = NoHandle THEN {g \in Handles : ~Exists(g)} ELSE {Handle} :
         /\ db[h][Entry.p] = None
         /\ db' = [db EXCEPT ![h][Entry.p] = Entry.i]
         /\ Handle' = h
    /\ installIndex' = installIndex + 1 /\ arg' = arg + 1
    /\ UNCHANGED <<installPc, installFn, list, held, tpl, OldHandle, installStatus, dbBefore,
                   installEvents>>

InstallFails ==
    /\ installPc = "install" /\ ~ListEnds
    /\ Faulty \/ (Handle # NoHandle /\ db[Handle][Entry.p] # None)
    /\ installStatus' = "ERROR" /\ arg' = 0 /\ installPc' = "undo"
    /\ UNCHANGED <<installFn, list, db, held, tpl, Handle, OldHandle, installIndex, dbBefore,
                   installEvents>>

\* BS->ReinstallProtocolInterface gets Handle, which is a pointer to the handle.
ReinstallHandle == Pointer

Reinstall(h, from, to) ==
    IF h \in Handles /\ db[h][Entry.p] = from /\ Entry.p \notin held
    THEN db' = [db EXCEPT ![h][Entry.p] = to] /\ installStatus' = "SUCCESS"
         /\ installIndex' = installIndex + 1 /\ arg' = arg + 1 /\ UNCHANGED installPc
    ELSE UNCHANGED <<db, installIndex>> /\ installStatus' = "ERROR" /\ arg' = 0 /\ installPc' = "undo"

ReinstallInterface ==
    /\ installPc = "reinstall" /\ ~ListEnds
    /\ Reinstall(ReinstallHandle, Entry.i, Entry.new)
    /\ UNCHANGED <<installFn, list, held, tpl, Handle, OldHandle, dbBefore, installEvents>>

ListDone ==
    /\ installPc \in {"install", "reinstall"} /\ ListEnds
    /\ installPc' = "restore"
    /\ UNCHANGED <<installFn, list, db, held, tpl, Handle, OldHandle, installIndex,
                   installStatus, arg, dbBefore, installEvents>>

\* BS->UninstallProtocolInterface
Uninstalled(h) ==
    IF db[h][Entry.p] = Entry.i /\ Entry.p \notin held
    THEN [db EXCEPT ![h][Entry.p] = None] ELSE db

\* while (Index): the first Index entries of the list, from its start.
OneLeftInstalled == installIndex > 1
MoreToUndo == installIndex > 0

Undo ==
    /\ installPc = "undo" /\ installFn = "install" /\ MoreToUndo
    /\ db' = Uninstalled(Handle)
    /\ installIndex' = installIndex - 1 /\ arg' = arg + 1
    /\ UNCHANGED <<installPc, installFn, list, held, tpl, Handle, OldHandle, installStatus,
                   dbBefore, installEvents>>

\* A failed reinstallation has nothing to undo, as the first one fails.
UndoDone ==
    /\ installPc = "undo" /\ (installFn = "install" => ~MoreToUndo)
    /\ Handle' = IF installFn = "install" THEN OldHandle ELSE Handle
    /\ installPc' = "restore"
    /\ UNCHANGED <<installFn, list, db, held, tpl, OldHandle, installIndex, installStatus, arg,
                   dbBefore, installEvents>>

RestoreTPL ==
    /\ installPc = "restore" /\ tpl' = "application" /\ installPc' = "return"
    /\ UNCHANGED <<installFn, list, db, held, Handle, OldHandle, installIndex, installStatus,
                   arg, dbBefore, installEvents>>

\* LibUninstallProtocolInterfaces goes on after a failure, at no priority.
StopsAtFailure == IF ListEnds THEN TRUE ELSE Uninstalled(Handle) = db
StopsUninstalling == ListEnds

UninstallInterface ==
    /\ installPc = "uninstall"
    /\ \/ ~StopsUninstalling /\ db' = Uninstalled(Handle) /\ arg' = arg + 1 /\ UNCHANGED installPc
       \/ StopsUninstalling /\ installPc' = "return" /\ UNCHANGED <<db, arg>>
    /\ UNCHANGED <<installFn, list, held, tpl, Handle, OldHandle, installIndex, installStatus,
                   dbBefore, installEvents>>

\* Other code runs only at a priority below TPL_NOTIFY.
OtherCode ==
    /\ tpl = "application" /\ installPc \notin {"off", "return"} /\ installEvents < MaxInstallEvents
    /\ \E h \in Handles, p \in Protocols, i \in Interfaces \cup {None} :
         db' = [db EXCEPT ![h][p] = i]
    /\ installEvents' = installEvents + 1
    /\ UNCHANGED <<installPc, installFn, list, held, tpl, Handle, OldHandle, installIndex,
                   installStatus, arg, dbBefore>>

InstallNext ==
    \/ RaiseTPL \/ InstallInterface \/ InstallFails \/ ReinstallInterface \/ ListDone
    \/ Undo \/ UndoDone \/ RestoreTPL \/ UninstallInterface \/ OtherCode

InstallSpec == InstallInit /\ [][InstallNext]_installVars

-----------------------------------------------------------------------------
\* hand.c 494: a list is installed on one handle completely, or the database
\* and the caller's handle are what they were, for every point of failure and
\* a list that names a protocol twice or one the handle already has.  A
\* reinstallation changes nothing: the firmware is given no handle (hand.c 606).
AllOrNothing ==
    installPc = "restore" =>
        IF installFn = "install" /\ installStatus = "SUCCESS"
        THEN \A k \in DOMAIN list : db[Handle][list[k].p] = list[k].i
        ELSE db = dbBefore /\ Handle = OldHandle

\* hand.c 533: one interface that cannot be removed does not keep the others.
UninstallsWhatItCan ==
    installFn = "uninstall" /\ installPc = "return" /\ installEvents = 0 =>
        \A k \in DOMAIN list :
            list[k].p \notin held => db[Handle][list[k].p] # list[k].i

\* hand.c 451-453, "Syncronize with notifcations": what other code can see is a
\* database in which the list appears in one step or not at all.  (Removing a list is
\* not meant to be atomic: it raises no priority.)
AtomicDatabase ==
    INSTANCE AtomicInstall WITH
        seen <- IF tpl = "notify" \/ installFn = "uninstall" THEN dbBefore ELSE db,
        pending <- installPc # "return" \/ installFn = "uninstall",
        events <- IF installFn = "uninstall" THEN 0 ELSE installEvents

InstallsAtomically == AtomicDatabase!InstallSpec
=============================================================================
