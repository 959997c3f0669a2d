----------------------------- MODULE GrowBuffer -----------------------------
(***************************************************************************)
(* GrowBuffer of gnu-efi/lib/misc.c and the functions that loop over it:   *)
(* each asks the firmware for an object of unknown size, with a buffer     *)
(* that is allocated again for as long as it is too small.  Events may     *)
(* change the object between two calls, and for the memory map the         *)
(* allocation itself does.  A size is in units of one descriptor, handle   *)
(* or byte.                                                                *)
(***************************************************************************)
EXTENDS Integers, FiniteSets

CONSTANTS
    Buffers,    \* the addresses the pool can give out
    Objects,    \* the values the object may have
    Size,       \* the size of each
    Absent,     \* the value of an object that does not exist
    FirstSize,  \* the size a function starts with, by function
    MaxChanges  \* bound: changes of the object during the call

Functions == {"LibMemoryMap", "LibGetVariable", "LibLocateHandle", "LibFileInfo",
              "LibFileSystemInfo", "LibFileSystemVolumeLabelInfo"}

NULL == "NULL"

ASSUME GrowBufferAssumption ==
    /\ Size \in [Objects -> Nat \ {0}]
    /\ Objects \cap {Absent, NULL, "pending"} = {} /\ NULL \notin Buffers
    /\ FirstSize \in [Functions -> Nat \ {0}]
    /\ MaxChanges \in Nat

VARIABLES
    growPc,            \* "grow", "call", "count", "return"
    growCaller,        \* the function running
    growStatus, growBuffer, BufferSize,
    growLive, sizeOf,  \* allocated buffers, and the size each was asked for
    extra,             \* descriptors the buffer itself adds to the memory map
    object,            \* the object in the firmware
    content,           \* what the firmware has stored in the buffer
    count,             \* *NoEntries, *VarSize or *NoHandles, -1: unset
    changes

growVars == <<growPc, growCaller, growStatus, growBuffer, BufferSize, growLive, sizeOf, extra, object,
          content, count, changes>>

\* Status = EFI_SUCCESS; Buffer = NULL; BufferSize = ...
Started(f) ==
    /\ growCaller = f /\ BufferSize = FirstSize[f]
    /\ growPc = "grow" /\ growStatus = "SUCCESS" /\ growBuffer = NULL

LibMemoryMap == Started("LibMemoryMap")
LibGetVariableAndSize == Started("LibGetVariable")
LibLocateHandle == Started("LibLocateHandle")
LibFileInfo == Started("LibFileInfo")
LibFileSystemInfo == Started("LibFileSystemInfo")
LibFileSystemVolumeLabelInfo == Started("LibFileSystemVolumeLabelInfo")

GrowOff ==
    /\ growPc = "off" /\ growCaller = "LibMemoryMap" /\ growStatus = "SUCCESS"
    /\ growBuffer = NULL /\ BufferSize = FirstSize[growCaller]
    /\ growLive = {} /\ sizeOf = [b \in Buffers |-> 0] /\ extra = 0
    /\ object = Absent /\ content = Absent /\ count = -1 /\ changes = 0

GrowInit ==
    /\ \/ LibMemoryMap \/ LibGetVariableAndSize \/ LibLocateHandle
       \/ LibFileInfo \/ LibFileSystemInfo \/ LibFileSystemVolumeLabelInfo
    /\ growLive = {} /\ sizeOf = [b \in Buffers |-> 0] /\ extra = 0
    /\ object \in Objects \cup {Absent}
    /\ content = Absent /\ count = -1 /\ changes = 0

\* if (!*Buffer && BufferSize) *Status = EFI_BUFFER_TOO_SMALL;
TooSmallReported == growStatus = "BUFFER_TOO_SMALL"
TooSmallAfterAnyError == growBuffer = NULL \/ growStatus # "SUCCESS"
TooSmall == growBuffer = NULL \/ growStatus = "BUFFER_TOO_SMALL"

NotFreed == growLive
Freed == growLive \ {growBuffer}

\* *Buffer = AllocatePool (BufferSize);
AllocatedAtFirst == FirstSize[growCaller]
Allocated == BufferSize

\* The descriptors that converting the buffer's pages may add.
Fragments == IF growCaller = "LibMemoryMap" THEN 0 .. 2 ELSE {0}

GrowAndRetry ==
    /\ growPc = "grow" /\ TooSmall
    /\ \E b \in Buffers \ Freed :
         /\ growBuffer' = b /\ growLive' = Freed \cup {b}
         /\ sizeOf' = [sizeOf EXCEPT ![b] = Allocated]
    /\ extra' \in Fragments
    /\ growStatus' = "BUFFER_TOO_SMALL" /\ content' = Absent
    /\ growPc' = "call"
    /\ UNCHANGED <<growCaller, BufferSize, object, count, changes>>

OutOfPool ==
    /\ growPc = "grow" /\ TooSmall
    /\ growLive' = Freed /\ growBuffer' = NULL /\ extra' = 0 /\ content' = Absent
    /\ growStatus' = "OUT_OF_RESOURCES"
    /\ growPc' = "count"
    /\ UNCHANGED <<growCaller, BufferSize, sizeOf, object, count, changes>>

\* An error frees the buffer, success keeps it.
FinishGrow ==
    /\ growPc = "grow" /\ ~TooSmall
    /\ \/ /\ growStatus # "SUCCESS"
          /\ growLive' = Freed /\ growBuffer' = NULL /\ extra' = 0 /\ content' = Absent
       \/ growStatus = "SUCCESS" /\ UNCHANGED <<growLive, growBuffer, extra, content>>
    /\ growPc' = "count"
    /\ UNCHANGED <<growCaller, growStatus, BufferSize, sizeOf, object, count, changes>>

Needed == Size[object] + extra

\* GetMemoryMap, GetVariable, LocateHandle or GetInfo.
FirmwareCall ==
    /\ growPc = "call"
    /\ \/ /\ object # Absent /\ Needed <= BufferSize
          /\ content' = object /\ growStatus' = "SUCCESS" /\ BufferSize' = Needed
       \/ /\ object # Absent /\ Needed > BufferSize
          /\ growStatus' = "BUFFER_TOO_SMALL" /\ BufferSize' = Needed /\ UNCHANGED content
       \/ growStatus' = "NOT_FOUND" /\ UNCHANGED <<BufferSize, content>>
    /\ growPc' = "grow"
    /\ UNCHANGED <<growCaller, growBuffer, growLive, sizeOf, extra, object, count, changes>>

\* LibMemoryMap leaves *NoEntries alone on an error, the others give 0.
CountEntries ==
    /\ growPc = "count"
    /\ count' =
         IF growStatus = "SUCCESS" THEN BufferSize
         ELSE IF growCaller = "LibMemoryMap" THEN count ELSE 0
    /\ growPc' = "return"
    /\ UNCHANGED <<growCaller, growStatus, growBuffer, BufferSize, growLive, sizeOf, extra, object,
                   content, changes>>

GrowLibrary == GrowAndRetry \/ OutOfPool \/ FinishGrow \/ FirmwareCall \/ CountEntries

ObjectChanges ==
    /\ changes < MaxChanges /\ growPc \in {"grow", "call", "count"}
    /\ object' \in Objects \cup {Absent} /\ changes' = changes + 1
    /\ UNCHANGED <<growPc, growCaller, growStatus, growBuffer, BufferSize, growLive, sizeOf, extra,
                   content, count>>

GrowNext == GrowLibrary \/ ObjectChanges

GrowSpec == GrowInit /\ [][GrowNext]_growVars

\* The processor keeps executing the library; events need not come.
GrowFairSpec == GrowSpec /\ WF_growVars(GrowLibrary)

-----------------------------------------------------------------------------
GrowStatuses == {"SUCCESS", "BUFFER_TOO_SMALL", "OUT_OF_RESOURCES", "NOT_FOUND"}

GrowTypeOK ==
    /\ growPc \in {"off", "grow", "call", "count", "return"} /\ growCaller \in Functions
    /\ growStatus \in GrowStatuses
    /\ (growBuffer = NULL \/ growBuffer \in Buffers) /\ BufferSize \in Nat \ {0}
    /\ growLive \subseteq Buffers /\ sizeOf \in [Buffers -> Nat] /\ extra \in 0 .. 2
    /\ (object = Absent \/ object \in Objects)
    /\ (content = Absent \/ content \in Objects)
    /\ count \in Nat \cup {-1} /\ changes \in 0 .. MaxChanges

\* misc.c 182-196: between the calls of GrowBuffer exactly the buffer in hand is
\* allocated, however often it was replaced and whatever failed: nothing leaks,
\* nothing is freed twice, and an error leaves nothing.
NothingLeaks ==
    /\ growLive = {growBuffer} \ {NULL}
    /\ growPc \in {"count", "return"} => (growBuffer # NULL <=> growStatus = "SUCCESS")

\* The firmware is never told of more room than the buffer has.
CallFitsBuffer == growPc = "call" => growBuffer \in growLive /\ BufferSize <= sizeOf[growBuffer]

\* misc.c 203-292, hand.c 57-102 and 329-433: the firmware is never told of more room
\* than the buffer has, and what a function returns is a whole object in a buffer that
\* was allocated at least as large, and the count is the object's.
WholeObjectReturned ==
    /\ CallFitsBuffer
    /\ growPc = "return" /\ growBuffer # NULL =>
             /\ content \in Objects
             /\ Size[content] <= count /\ count <= sizeOf[growBuffer]
             /\ growCaller # "LibMemoryMap" => count = Size[content]

\* The functions implement one atomic read: the object is that of the moment of
\* the last firmware call, though buffers were allocated before and after.
Result ==
    IF growPc \in {"off", "call"} \/ (growPc = "grow" /\ TooSmall) THEN "pending"
    ELSE IF growStatus = "SUCCESS" THEN content ELSE NULL

AtomicObject == INSTANCE AtomicRead WITH result <- Result

ReadsAtomically == AtomicObject!ReadSpec

\* The loop ends: also for the memory map, which every new buffer makes larger.
CallReturns == growPc # "off" ~> growPc = "return"
=============================================================================
