---------------------------- MODULE DevicePaths ----------------------------
(***************************************************************************)
(* Composing device paths, gnu-efi/lib/dpath.c.  A device path lies in     *)
(* memory as a sequence of nodes, each with its length in bytes: an        *)
(* "instance" node ends an instance of it and "end" the path.  A call      *)
(* allocates a block and copies nodes to it; what is behind the first      *)
(* "end" of the result nobody will read.                                   *)
(***************************************************************************)
EXTENDS Integers, Sequences, SequencesExt

CONSTANTS
    NodeLength,     \* the device nodes and the length of each
    DevicePaths,    \* the device paths callers have
    Alignment       \* MIN_ALIGNMENT_SIZE

END_LENGTH == 4     \* sizeof(EFI_DEVICE_PATH)

EndTypes == {"end", "instance"}
Nodes == DOMAIN NodeLength \cup EndTypes

\* DevicePathInstance gives up on an instance of more nodes (octal 01000, dpath.c 75).
BogusCount == 512

ASSUME DevicePathAssumption ==
    /\ \A m \in DOMAIN NodeLength : NodeLength[m] \in Nat \ {0}
    /\ EndTypes \cap DOMAIN NodeLength = {} /\ Alignment \in Nat \ {0}
    /\ \A path \in DevicePaths :
         /\ path \in Seq(Nodes) /\ path # <<>> /\ Last(path) = "end" /\ Len(path) <= BogusCount
         /\ \A k \in 1 .. Len(path) - 1 : path[k] # "end"

VARIABLES
    pathPc,         \* "call", "instances", "return", "fault": a write through NULL
    pathFn,
    Src1, Src2,     \* the arguments, <<>> is NULL
    Inst,           \* the instances of Src1 still to be copied
    pathSize,           \* bytes allocated, -1: no block
    Dst             \* the nodes written, <<>> with no block: NULL

pathVars == <<pathPc, pathFn, Src1, Src2, Inst, pathSize, Dst>>

PathFunctions ==
    {"AppendDevicePath", "AppendDevicePathNode", "AppendDevicePathInstance",
     "FileDevicePath", "DuplicateDevicePath", "UnpackDevicePath",
     "LibDuplicateDevicePathInstance"}

\* The sum of a quantity over the first k nodes, and over all of them.
SumsOver(quantity, nodes) ==
    LET total[k \in 0 .. Len(nodes)] ==
            IF k = 0 THEN 0 ELSE total[k - 1] + quantity[nodes[k]]
    IN  total

SumOver(quantity, nodes) == SumsOver(quantity, nodes)[Len(nodes)]

NodeSize == [m \in Nodes |-> IF m \in EndTypes THEN END_LENGTH ELSE NodeLength[m]]
SizeOf(nodes) == SumOver(NodeSize, nodes)

Until(path, ends) == SelectInSeq(path, LAMBDA m : m \in ends)

\* A reader stops at the first end of the entire path.
ReadPath(nodes) == SubSeq(nodes, 1, Until(nodes, {"end"}))
DevicePathSize(path) == SizeOf(ReadPath(path))

\* The nodes up to the end of the first instance, and what *DevicePath becomes.
DevicePathInstance(path) ==
    LET k == Until(path, EndTypes)
    IN  [start |-> SubSeq(path, 1, k - 1),
         next |-> IF path[k] = "end" THEN <<>> ELSE SubSeq(path, k + 1, Len(path))]

EndOf == [m \in Nodes |-> IF m \in EndTypes THEN 1 ELSE 0]
DevicePathInstanceCount(path) == SumOver(EndOf, path)

PathOff ==
    /\ pathPc = "off" /\ pathFn = "DuplicateDevicePath" /\ Src1 = <<>> /\ Src2 = <<>>
    /\ Inst = <<>> /\ pathSize = -1 /\ Dst = <<>>

PathInit ==
    /\ pathPc = "call" /\ pathFn \in PathFunctions
    /\ Src1 \in DevicePaths \cup {<<>>} /\ Src2 \in DevicePaths \cup {<<>>}
    /\ Src1 = <<>> => pathFn \in {"AppendDevicePath", "AppendDevicePathInstance",
                                  "AppendDevicePathNode", "FileDevicePath"}
    /\ Src2 = <<>> => Src1 # <<>> /\ pathFn = "AppendDevicePath"
    /\ pathFn \in {"AppendDevicePathNode", "FileDevicePath"} =>
         Len(Src2) = 2 /\ Src2[1] \in DOMAIN NodeLength
    /\ Inst = <<>> /\ pathSize = -1 /\ Dst = <<>>

\* AllocatePool (size), and the nodes copied to it; a failure gives NULL.
Allocate(size, nodes) ==
    \/ pathSize' = size /\ Dst' = nodes
    \/ UNCHANGED <<pathSize, Dst>>

Duplicate(path) ==
    /\ Allocate(DevicePathSize(path), ReadPath(path))
    /\ pathPc' = "return" /\ UNCHANGED Inst

DuplicateDevicePath ==
    /\ pathPc = "call" /\ pathFn = "DuplicateDevicePath" /\ Duplicate(Src1)
    /\ UNCHANGED <<pathFn, Src1, Src2>>

Appends ==
    /\ pathFn \in {"AppendDevicePath", "AppendDevicePathNode", "FileDevicePath"}
    /\ Src1 # <<>> /\ Src2 # <<>>

\* Size = Src1Size * Src1Inst + Src2Size
AppendedSize ==
    DevicePathSize(Src1) * DevicePathInstanceCount(Src1) + DevicePathSize(Src2)

\* With a NULL the other is duplicated.  AppendDevicePathNode and FileDevicePath build
\* a Src2 of one node, which may fail, and append that.
AppendDevicePath ==
    /\ pathPc = "call"
    /\ \/ /\ Src1 = <<>> /\ pathFn # "AppendDevicePathInstance" /\ Duplicate(Src2)
       \/ /\ Src2 = <<>> /\ pathFn = "AppendDevicePath" /\ Duplicate(Src1)
       \/ /\ Appends
          /\ \/ pathSize' = AppendedSize /\ Inst' = Src1 /\ pathPc' = "instances"
             \/ UNCHANGED <<pathSize, Inst>> /\ pathPc' = "return"
          /\ UNCHANGED Dst
    /\ UNCHANGED <<pathFn, Src1, Src2>>

BuildNode ==
    /\ pathPc = "call" /\ pathFn \in {"AppendDevicePathNode", "FileDevicePath"}
    /\ pathPc' = "return"
    /\ UNCHANGED <<pathFn, Src1, Src2, Inst, pathSize, Dst>>

\* Src2 is copied with its own end, behind every instance of Src1.
Appended(start) == start \o ReadPath(Src2) \o <<"instance">>

CopyInstance ==
    /\ pathPc = "instances" /\ Inst # <<>>
    /\ LET first == DevicePathInstance(Inst)
       IN  Dst' = Dst \o Appended(first.start) /\ Inst' = first.next
    /\ UNCHANGED <<pathPc, pathFn, Src1, Src2, pathSize>>

ChangeLastEnd ==
    /\ pathPc = "instances" /\ Inst = <<>>
    /\ Dst' = Front(Dst) \o <<"end">> /\ pathPc' = "return"
    /\ UNCHANGED <<pathFn, Src1, Src2, Inst, pathSize>>

\* The end of Src becomes the end of an instance; ASSERT(DevPath) is all that is
\* done about a failure.
EndKept == ReadPath(Src1)
EndConverted == Front(ReadPath(Src1)) \o <<"instance">>

AppendDevicePathInstance ==
    /\ pathPc = "call" /\ pathFn = "AppendDevicePathInstance"
    /\ IF Src1 = <<>> THEN Duplicate(Src2)
       ELSE /\ \/ /\ pathSize' = DevicePathSize(Src1) + DevicePathSize(Src2)
                  /\ Dst' = EndConverted \o ReadPath(Src2) /\ pathPc' = "return"
               \/ UNCHANGED <<pathSize, Dst>> /\ pathPc' = "fault"
            /\ UNCHANGED Inst
    /\ UNCHANGED <<pathFn, Src1, Src2>>

\* Size += DevicePathNodeLength(Src); Size += ALIGN_SIZE(Size);
Aligned(size) == size + ((-size) % Alignment)

UnpackedSizes(nodes) ==
    LET size[k \in 0 .. Len(nodes)] ==
            IF k = 0 THEN 0 ELSE Aligned(size[k - 1] + NodeSize[nodes[k]])
    IN  size

UnpackDevicePath ==
    /\ pathPc = "call" /\ pathFn = "UnpackDevicePath" /\ pathPc' = "return"
    /\ Allocate(UnpackedSizes(ReadPath(Src1))[Len(ReadPath(Src1))], ReadPath(Src1))
    /\ UNCHANGED <<pathFn, Src1, Src2, Inst>>

\* SetDevicePathEndNode behind the first node of the copy.
LibDuplicateDevicePathInstance ==
    /\ pathPc = "call" /\ pathFn = "LibDuplicateDevicePathInstance" /\ pathPc' = "return"
    /\ LET start == DevicePathInstance(Src1).start
       IN  IF start = <<>> THEN UNCHANGED <<pathSize, Dst>>
           ELSE Allocate(SizeOf(start) + END_LENGTH, <<start[1], "end">>)
    /\ UNCHANGED <<pathFn, Src1, Src2, Inst>>

PathNext ==
    \/ DuplicateDevicePath \/ AppendDevicePath \/ BuildNode \/ CopyInstance
    \/ ChangeLastEnd \/ AppendDevicePathInstance \/ UnpackDevicePath
    \/ LibDuplicateDevicePathInstance

PathSpec == PathInit /\ [][PathNext]_pathVars

\* CompareMem (Single, DevicePathInst, Size) for one of the instances.
LibMatchDevicePaths(multi, single) ==
    \E i \in 0 .. Len(multi) - 1 :
        /\ i = 0 \/ multi[i] = "instance"
        /\ i = 0 \/ "end" \notin {multi[k] : k \in 1 .. i}
        /\ IsPrefix(DevicePathInstance(SubSeq(multi, i + 1, Len(multi))).start, single)

-----------------------------------------------------------------------------
\* What a call has written to its block: UnpackDevicePath aligns every node by itself.
AlignedSize == [m \in Nodes |-> Aligned(NodeSize[m])]
BytesWritten == IF pathFn = "UnpackDevicePath" THEN SumOver(AlignedSize, Dst) ELSE SizeOf(Dst)

\* The two calls that do something else than they promise: an append to several instances,
\* and a duplicate of an instance that is not a single node (dpath.c 1256).
AppendsToSeveral == Appends /\ DevicePathInstanceCount(Src1) > 1
DuplicatesFirstNode ==
    /\ pathFn = "LibDuplicateDevicePathInstance"
    /\ Len(DevicePathInstance(Src1).start) # 1

\* What a reader of the result is promised.
Composed ==
    IF Src1 = <<>> THEN Src2
    ELSE IF Src2 = <<>> THEN Src1
    ELSE CASE Appends -> Front(Src1) \o Src2
           [] pathFn = "AppendDevicePathInstance" -> Front(Src1) \o <<"instance">> \o Src2
           [] pathFn = "LibDuplicateDevicePathInstance" ->
                DevicePathInstance(Src1).start \o <<"end">>
           [] OTHER -> Src1

\* dpath.c 123-433: every other call stays in its block, wherever an allocation fails, and
\* its result is a path that reads as the call promises; a path with a new instance matches
\* both it was made of.
PathsComposed ==
    ~AppendsToSeveral /\ ~DuplicatesFirstNode =>
        /\ pathSize # -1 => ~(BytesWritten > pathSize)
        /\ pathPc = "return" /\ Dst # <<>> =>
             /\ ReadPath(Dst) = Composed
             /\ pathFn = "AppendDevicePathInstance" =>
                  \A path \in {Src1, Src2} \ {<<>>} : LibMatchDevicePaths(Dst, path)

\* dpath.c 130, "Src2 is appended to each instance is Src1": a reader finds Src2 behind
\* every instance, and all of it in the block.
AppendedToEach ==
    FlattenSeq([k \in 1 .. Len(Src1) |->
        CASE Src1[k] = "instance" -> Front(Src2) \o <<"instance">>
          [] Src1[k] = "end" -> Src2
          [] OTHER -> <<Src1[k]>>])

AppendsToEachInstance ==
    pathPc = "return" /\ Appends /\ Dst # <<>> =>
        ReadPath(Dst) = AppendedToEach /\ BytesWritten <= pathSize
=============================================================================
