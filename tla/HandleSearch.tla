---------------------------- MODULE HandleSearch ----------------------------
(***************************************************************************)
(* LibLocateProtocol and LibLocateHandleByDiskSignature of                 *)
(* gnu-efi/lib/hand.c: both take a list of handles (one atomic read, see   *)
(* GrowBuffer) and then ask every handle of it, while other code may       *)
(* change what is on the handles.  A device path is a sequence of nodes    *)
(* that ends with "end".                                                   *)
(***************************************************************************)
EXTENDS Integers, FiniteSets, SequencesExt

CONSTANTS
    SearchHandles,
    Paths,           \* the device paths a handle may have
    Wanted,          \* the hard drive node the caller describes
    NoPath,          \* no interface, NULL
    MaxSearchEvents  \* bound: changes by other code

ASSUME HandleSearchAssumption ==
    /\ IsFiniteSet(SearchHandles) /\ MaxSearchEvents \in Nat
    /\ NoPath \notin Paths /\ NoPath \notin SearchHandles
    /\ Wanted.kind = "hd"
    /\ \A path \in Paths :
         path # <<>> /\ path \in Seq(ToSet(path)) /\ Last(path).kind = "end"

VARIABLES
    clears,                      \* HandleProtocol sets its result to NULL when it fails
    searchPc,                    \* "locate", "ask", "build", "return"
    searchFn,                    \* "protocol" or "signature"
    on,                          \* what is on each handle: a device path or None
    BlockIoBuffer,               \* the list, with None for what does not match
    searchIndex,
    DevicePath,                  \* the result of HandleProtocol, *Interface
    searchBuffer, searchStatus,  \* the result of the search
    searchLive,                  \* pool: "list", "result"
    answers,                     \* what HandleProtocol found on each handle asked
    searchEvents,
    steady                       \* handles nothing has happened to

searchVars == <<clears, searchPc, searchFn, on, BlockIoBuffer, searchIndex, DevicePath, searchBuffer,
                searchStatus, searchLive, answers, searchEvents, steady>>

SearchOff ==
    /\ searchPc = "off" /\ searchFn = "protocol" /\ clears = TRUE
    /\ on = [h \in SearchHandles |-> NoPath] /\ BlockIoBuffer = <<>> /\ searchIndex = 0
    /\ DevicePath = NoPath /\ searchBuffer = <<>> /\ searchStatus = "SUCCESS"
    /\ searchLive = {} /\ answers = <<>> /\ searchEvents = 0 /\ steady = {}

SearchInit ==
    /\ clears \in BOOLEAN
    /\ searchPc = "locate" /\ searchFn \in {"protocol", "signature"}
    /\ on \in [SearchHandles -> Paths \cup {NoPath}]
    /\ BlockIoBuffer = <<>> /\ searchIndex = 0
    /\ DevicePath \in IF searchFn = "protocol" THEN {NoPath} ELSE Paths \cup {NoPath}  \* unset
    /\ searchBuffer = <<>> /\ searchStatus = "SUCCESS" /\ searchLive = {} /\ answers = <<>>
    /\ searchEvents = 0 /\ steady = {h \in SearchHandles : on[h] # NoPath}

\* LocateHandle(ByProtocol): for a signature all handles have BlockIo.
Located == IF searchFn = "protocol" THEN {h \in SearchHandles : on[h] # NoPath} ELSE SearchHandles

LocateHandles ==
    /\ searchPc = "locate"
    /\ \/ /\ Located # {} /\ BlockIoBuffer' = SetToSeq(Located)
          /\ searchLive' = {"list"} /\ searchPc' = "ask" /\ UNCHANGED searchStatus
       \/ /\ searchStatus' = "ERROR" /\ searchPc' = "return"
          /\ UNCHANGED <<BlockIoBuffer, searchLive>>
    /\ UNCHANGED <<clears, searchFn, on, searchIndex, DevicePath, searchBuffer, answers, searchEvents,
                   steady>>

Asked == on[BlockIoBuffer[searchIndex + 1]]
Answer == IF Asked # NoPath \/ clears THEN Asked ELSE DevicePath

IsEndType(node) == node.kind \in {"end", "instance"}

\* The loop over the nodes: `previous' is PreviousNodeIsHardDriveDevicePath.
MatchIgnoringPrevious(path) ==
    \E k \in 1 .. Len(path) - 1 : path[k] = Wanted /\ IsEndType(path[k + 1])

\* What the loop knows after k nodes.
MatchLoop(path) ==
    LET loop[k \in 0 .. Len(path)] ==
            IF k = 0 THEN [previous |-> FALSE, match |-> FALSE]
            ELSE IF path[k].kind # "hd" THEN [previous |-> FALSE, match |-> loop[k - 1].match]
            ELSE [previous |-> TRUE,
                  match |-> loop[k - 1].match \/
                      (~loop[k - 1].previous /\ path[k] = Wanted /\ IsEndType(path[k + 1]))]
    IN  loop

Match(path) == MatchLoop(path)[Len(path)].match

\* HandleProtocol(BlockIoBuffer[Index], &DevicePathProtocol, &DevicePath)
AskForPath ==
    /\ searchPc = "ask" /\ searchFn = "signature"
    /\ searchIndex < Len(BlockIoBuffer)
    /\ DevicePath' = Answer
    /\ answers' = Append(answers, Asked)
    /\ BlockIoBuffer' =
         IF DevicePath' # NoPath /\ Match(DevicePath') THEN BlockIoBuffer
         ELSE [BlockIoBuffer EXCEPT ![searchIndex + 1] = NoPath]
    /\ searchIndex' = searchIndex + 1
    /\ UNCHANGED <<clears, searchPc, searchFn, on, searchBuffer, searchStatus, searchLive,
                   searchEvents, steady>>

\* The matches among the first k handles, as the last loop of the function copies them.
MatchingOf[k \in 0 .. Len(BlockIoBuffer)] ==
    IF k = 0 THEN <<>>
    ELSE IF BlockIoBuffer[k] = NoPath THEN MatchingOf[k - 1]
    ELSE Append(MatchingOf[k - 1], BlockIoBuffer[k])

Matching == MatchingOf[Len(BlockIoBuffer)]

AllAsked ==
    /\ searchPc = "ask" /\ searchFn = "signature" /\ searchIndex = Len(BlockIoBuffer)
    /\ \/ Matching # <<>> /\ searchPc' = "build" /\ searchLive' = searchLive \cup {"result"} /\ UNCHANGED searchStatus
       \/ /\ Matching # <<>> /\ searchStatus' = "OUT_OF_RESOURCES"
          /\ searchPc' = "return" /\ searchLive' = searchLive \ {"list"}
       \/ /\ Matching = <<>> /\ searchStatus' = "SUCCESS"
          /\ searchPc' = "return" /\ searchLive' = searchLive \ {"list"}
    /\ UNCHANGED <<clears, searchFn, on, BlockIoBuffer, searchIndex, DevicePath, searchBuffer, answers,
                   searchEvents, steady>>

Build ==
    /\ searchPc = "build"
    /\ searchBuffer' = Matching
    /\ searchLive' = searchLive \ {"list"} /\ searchStatus' = "SUCCESS" /\ searchPc' = "return"
    /\ UNCHANGED <<clears, searchFn, on, BlockIoBuffer, searchIndex, DevicePath, answers, searchEvents,
                   steady>>

\* LibLocateProtocol: the first handle that answers, or the last error.
StopsAtFirst == Asked # NoPath \/ searchIndex + 1 = 1
StopsWhenFound == Asked # NoPath \/ searchIndex + 1 = Len(BlockIoBuffer)

AskForProtocol ==
    /\ searchPc = "ask" /\ searchFn = "protocol"
    /\ DevicePath' = Answer
    /\ answers' = Append(answers, Asked)
    /\ searchStatus' = IF Asked = NoPath THEN "ERROR" ELSE "SUCCESS"
    /\ searchIndex' = searchIndex + 1
    /\ IF StopsWhenFound THEN searchPc' = "return" /\ searchLive' = searchLive \ {"list"}
       ELSE UNCHANGED <<searchPc, searchLive>>
    /\ UNCHANGED <<clears, searchFn, on, BlockIoBuffer, searchBuffer, searchEvents, steady>>

HandlesChange ==
    /\ searchPc \notin {"off", "return"} /\ searchEvents < MaxSearchEvents
    /\ \E h \in SearchHandles, path \in Paths \cup {NoPath} :
         on' = [on EXCEPT ![h] = path] /\ steady' = steady \ {h}
    /\ searchEvents' = searchEvents + 1
    /\ UNCHANGED <<clears, searchPc, searchFn, BlockIoBuffer, searchIndex, DevicePath, searchBuffer,
                   searchStatus, searchLive, answers>>

SearchNext == LocateHandles \/ AskForPath \/ AllAsked \/ Build \/ AskForProtocol \/ HandlesChange

SearchSpec == SearchInit /\ [][SearchNext]_searchVars

-----------------------------------------------------------------------------
\* hand.c 188-194: a hard drive node of the caller's signature, the end after
\* it, and no hard drive node before it.
Qualifies(path) ==
    \E k \in 1 .. Len(path) - 1 :
        /\ path[k] = Wanted /\ IsEndType(path[k + 1])
        /\ k > 1 => path[k - 1].kind # "hd"

\* hand.c 176-196: the result of the search has exactly the handles whose own path
\* qualified when they were asked, and only the result's memory stays allocated.  The
\* code looks at DevicePath alone: it needs a firmware that clears it on a failure, or
\* handles that all have a path.
FindsTheDisk ==
    searchFn = "signature" /\ searchPc = "return" =>
        /\ searchLive = IF searchBuffer = <<>> THEN {} ELSE {"result"}
        /\ searchStatus = "SUCCESS" /\ (clears \/ \A j \in DOMAIN answers : answers[j] # NoPath) =>
             ToSet(searchBuffer) = {SetToSeq(SearchHandles)[k] : k \in
                 {j \in DOMAIN answers : answers[j] # NoPath /\ Qualifies(answers[j])}}

\* hand.c 28: a protocol that one handle has during the whole call is found,
\* whatever is removed from the handles before it, and what is found was there.
FindsSteadyProtocol ==
    searchFn = "protocol" /\ searchPc = "return" =>
        /\ searchLive = {}
        /\ steady # {} /\ answers # <<>> => searchStatus = "SUCCESS"
        /\ searchStatus = "SUCCESS" => DevicePath = Last(answers) /\ DevicePath # NoPath

\* hand.c 22-55 and 104-296: both searches find what is there to be found, while handles
\* come and go, and leak no list.
SearchFinds == FindsTheDisk /\ FindsSteadyProtocol
=============================================================================
