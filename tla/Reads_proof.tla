---------------------------- MODULE Reads_proof -----------------------------
(***************************************************************************)
(* Theorems about the functions of gnu-efi that read through the firmware: *)
(* the loop over GrowBuffer for objects of any size, the boot order for    *)
(* options of any kind and any other writer, and SimpleRead for any paths, *)
(* files and UINTN.                                                        *)
(***************************************************************************)
EXTENDS GrowBuffer, BootOrder, SimpleRead, SequenceTheorems, TLAPS

-----------------------------------------------------------------------------
(* GrowBuffer *)

\* The content of the buffer is a whole object, and fits.
WholeContent ==
    /\ growBuffer \in Buffers /\ content \in Objects
    /\ Size[content] <= BufferSize /\ BufferSize <= sizeOf[growBuffer]
    /\ growCaller # "LibMemoryMap" => BufferSize = Size[content]

\* The inductive invariant.  What a success of the firmware has put into the
\* buffer is still there when the loop ends, which the properties do not say.
GrowInv ==
    /\ GrowTypeOK /\ growPc # "off"
    /\ NothingLeaks /\ WholeObjectReturned
    /\ growCaller # "LibMemoryMap" => extra = 0
    /\ growPc = "call" => growStatus = "BUFFER_TOO_SMALL"
    /\ growPc = "return" => (growStatus = "SUCCESS" => count = BufferSize)
    /\ growPc \in {"grow", "count"} /\ growStatus = "SUCCESS" /\ growBuffer # NULL => WholeContent

LEMMA SizesOfObjects == \A o \in Objects : Size[o] \in Nat \ {0}
BY GrowBufferAssumption

LEMMA NullIsNoBuffer == NULL \notin Buffers
BY GrowBufferAssumption

LEMMA GrowInvInit == GrowInit => GrowInv
<1>1. SUFFICES ASSUME GrowInit PROVE GrowInv
  OBVIOUS
<1>2. growCaller \in Functions /\ BufferSize = FirstSize[growCaller]
      /\ growPc = "grow" /\ growStatus = "SUCCESS" /\ growBuffer = NULL
  BY <1>1 DEF GrowInit, Started, LibMemoryMap, LibGetVariableAndSize, LibLocateHandle,
              LibFileInfo, LibFileSystemInfo, LibFileSystemVolumeLabelInfo, Functions
<1>3. BufferSize \in Nat \ {0}
  BY <1>2, GrowBufferAssumption
<1>4. GrowTypeOK
  BY <1>1, <1>2, <1>3, GrowBufferAssumption DEF GrowInit, GrowTypeOK, GrowStatuses
<1>. QED
  BY <1>1, <1>2, <1>4
     DEF GrowInit, GrowInv, NothingLeaks, WholeObjectReturned, CallFitsBuffer

LEMMA GrowAndRetryKeeps == GrowInv /\ GrowAndRetry => GrowInv'
<1>1. SUFFICES ASSUME GrowInv, GrowAndRetry PROVE GrowInv'
  OBVIOUS
<1>2. Freed = {}
  BY <1>1 DEF GrowInv, NothingLeaks, Freed
<1>3. PICK b \in Buffers : /\ growBuffer' = b /\ growLive' = {b}
                           /\ sizeOf' = [sizeOf EXCEPT ![b] = BufferSize]
  BY <1>1, <1>2 DEF GrowAndRetry, Allocated
<1>4. sizeOf' \in [Buffers -> Nat] /\ sizeOf'[b] = BufferSize
  BY <1>1, <1>3 DEF GrowInv, GrowTypeOK
<1>5. extra' \in 0 .. 2 /\ (growCaller # "LibMemoryMap" => extra' = 0)
  BY <1>1 DEF GrowAndRetry, Fragments
<1>6. GrowTypeOK'
  BY <1>1, <1>3, <1>4, <1>5 DEF GrowInv, GrowTypeOK, GrowAndRetry, GrowStatuses
<1>7. NothingLeaks'
  BY <1>1, <1>3, NullIsNoBuffer DEF NothingLeaks, GrowAndRetry
<1>8. WholeObjectReturned'
  BY <1>1, <1>3, <1>4 DEF WholeObjectReturned, CallFitsBuffer, GrowAndRetry, GrowInv, GrowTypeOK
<1>. QED
  BY <1>1, <1>5, <1>6, <1>7, <1>8 DEF GrowInv, GrowAndRetry

LEMMA OutOfPoolKeeps == GrowInv /\ OutOfPool => GrowInv'
<1>1. SUFFICES ASSUME GrowInv, OutOfPool PROVE GrowInv'
  OBVIOUS
<1>2. Freed = {}
  BY <1>1 DEF GrowInv, NothingLeaks, Freed
<1>. QED
  BY <1>1, <1>2 DEF GrowInv, OutOfPool, GrowTypeOK, GrowStatuses, NothingLeaks,
                    WholeObjectReturned, CallFitsBuffer

LEMMA FinishGrowKeeps == GrowInv /\ FinishGrow => GrowInv'
<1>1. SUFFICES ASSUME GrowInv, FinishGrow PROVE GrowInv'
  OBVIOUS
<1>2. Freed = {} /\ growBuffer # NULL
  BY <1>1 DEF GrowInv, NothingLeaks, Freed, FinishGrow, TooSmall
<1>3. GrowTypeOK' /\ growPc' # "off"
  BY <1>1, <1>2 DEF GrowInv, GrowTypeOK, FinishGrow
<1>4. NothingLeaks' /\ WholeObjectReturned'
  BY <1>1, <1>2 DEF GrowInv, FinishGrow, NothingLeaks, WholeObjectReturned, CallFitsBuffer
<1>5. growStatus' = "SUCCESS" => WholeContent'
  BY <1>1, <1>2 DEF GrowInv, FinishGrow, WholeContent
<1>. QED
  BY <1>1, <1>3, <1>4, <1>5 DEF GrowInv, FinishGrow

LEMMA FirmwareCallKeeps == GrowInv /\ FirmwareCall => GrowInv'
<1>1. SUFFICES ASSUME GrowInv, FirmwareCall PROVE GrowInv'
  OBVIOUS
<1>2. growBuffer \in growLive /\ BufferSize <= sizeOf[growBuffer] /\ extra \in Nat
  BY <1>1 DEF GrowInv, WholeObjectReturned, CallFitsBuffer, FirmwareCall, GrowTypeOK
<1>3. object # Absent => Needed \in Nat \ {0} /\ Size[object] <= Needed
  BY <1>1, <1>2, SizesOfObjects DEF GrowInv, GrowTypeOK, Needed
<1>4. GrowTypeOK'
  BY <1>1, <1>3 DEF GrowInv, GrowTypeOK, FirmwareCall, GrowStatuses
<1>5. NothingLeaks' /\ WholeObjectReturned'
  BY <1>1 DEF GrowInv, FirmwareCall, NothingLeaks, WholeObjectReturned, CallFitsBuffer
<1>6. growStatus' = "SUCCESS" => WholeContent'
  <2>1. SUFFICES ASSUME growStatus' = "SUCCESS" PROVE WholeContent'
    OBVIOUS
  <2>2. object # Absent /\ Needed <= BufferSize /\ content' = object /\ BufferSize' = Needed
    BY <1>1, <2>1 DEF FirmwareCall
  <2>3. growBuffer \in Buffers /\ sizeOf[growBuffer] \in Nat /\ object \in Objects
    BY <1>1, <1>2, <2>2 DEF GrowInv, GrowTypeOK
  <2>4. growCaller # "LibMemoryMap" => Needed = Size[object]
    BY <1>1, <2>3, SizesOfObjects DEF GrowInv, Needed
  <2>. QED
    BY <1>1, <1>2, <1>3, <2>2, <2>3, <2>4 DEF WholeContent, FirmwareCall, GrowInv, GrowTypeOK
<1>. QED
  BY <1>1, <1>4, <1>5, <1>6 DEF GrowInv, FirmwareCall

LEMMA CountEntriesKeeps == GrowInv /\ CountEntries => GrowInv'
<1>1. SUFFICES ASSUME GrowInv, CountEntries PROVE GrowInv'
  OBVIOUS
<1>2. GrowTypeOK' /\ NothingLeaks'
  BY <1>1 DEF GrowInv, GrowTypeOK, CountEntries, NothingLeaks
<1>3. WholeObjectReturned'
  BY <1>1 DEF GrowInv, NothingLeaks, CountEntries, WholeObjectReturned, CallFitsBuffer, WholeContent
<1>. QED
  BY <1>1, <1>2, <1>3 DEF GrowInv, CountEntries

LEMMA ObjectChangesKeeps == GrowInv /\ ObjectChanges => GrowInv'
<1>1. SUFFICES ASSUME GrowInv, ObjectChanges PROVE GrowInv'
  OBVIOUS
<1>2. GrowTypeOK'
  BY <1>1, GrowBufferAssumption DEF GrowInv, GrowTypeOK, ObjectChanges
<1>. QED
  BY <1>1, <1>2 DEF GrowInv, ObjectChanges, NothingLeaks, WholeObjectReturned, CallFitsBuffer, WholeContent

LEMMA GrowStutterKeeps == GrowInv /\ UNCHANGED growVars => GrowInv'
BY DEF GrowInv, growVars, GrowTypeOK, NothingLeaks, WholeObjectReturned, CallFitsBuffer, WholeContent

LEMMA GrowInvStep == GrowInv /\ [GrowNext]_growVars => GrowInv'
BY GrowAndRetryKeeps, OutOfPoolKeeps, FinishGrowKeeps, FirmwareCallKeeps, CountEntriesKeeps,
   ObjectChangesKeeps, GrowStutterKeeps DEF GrowNext, GrowLibrary

LEMMA GrowInvAlways == GrowSpec => []GrowInv
BY GrowInvInit, GrowInvStep, PTL DEF GrowSpec

\* Type correctness of the loop over GrowBuffer.
THEOREM GrowTypeCorrect == GrowSpec => []GrowTypeOK
<1>1. GrowInv => GrowTypeOK
  BY DEF GrowInv
<1>. QED  BY <1>1, GrowInvAlways, PTL

\* misc.c 182-196: however often the buffer is replaced and whatever fails, exactly
\* the buffer in hand is allocated, and an error leaves none.
THEOREM GrowLeaksNothing == GrowSpec => []NothingLeaks
<1>1. GrowInv => NothingLeaks
  BY DEF GrowInv
<1>. QED  BY <1>1, GrowInvAlways, PTL

\* misc.c 203-292: every buffer that is returned has a whole object and the count of
\* it, and the firmware never writes beyond a buffer.
THEOREM GrowReturnsWhole == GrowSpec => []WholeObjectReturned
<1>1. GrowInv => WholeObjectReturned
  BY DEF GrowInv
<1>. QED  BY <1>1, GrowInvAlways, PTL

-----------------------------------------------------------------------------
(* Refinement *)

LEMMA AtomicInit == GrowInit => AtomicObject!ReadInit
BY DEF GrowInit, Started, LibMemoryMap, LibGetVariableAndSize, LibLocateHandle, LibFileInfo,
       LibFileSystemInfo, LibFileSystemVolumeLabelInfo, AtomicObject!ReadInit, Result, TooSmall

AtomicStep == [AtomicObject!Change \/ AtomicObject!Read \/ AtomicObject!Fail]_<<object, Result>>

LEMMA AtomicSteps ==
    ASSUME GrowInv, [GrowNext]_growVars
    PROVE  AtomicStep
<1>. USE DEF AtomicStep
<1>1. CASE GrowAndRetry
  BY <1>1 DEF GrowAndRetry, Result, TooSmall
<1>2. CASE OutOfPool
  BY <1>2 DEF OutOfPool, Result, NULL, AtomicObject!Fail
<1>3. CASE FinishGrow
  BY <1>3 DEF FinishGrow, Result, TooSmall
<1>4. CASE FirmwareCall
  <2>1. growPc = "call" /\ growBuffer # NULL /\ Result = "pending" /\ UNCHANGED object
    BY <1>4, NullIsNoBuffer
       DEF FirmwareCall, Result, GrowInv, GrowTypeOK, WholeObjectReturned, CallFitsBuffer
  <2>2. CASE growStatus' = "SUCCESS"
    BY <1>4, <2>1, <2>2 DEF FirmwareCall, Result, TooSmall, AtomicObject!Read
  <2>3. CASE growStatus' = "BUFFER_TOO_SMALL"
    BY <1>4, <2>1, <2>3 DEF FirmwareCall, Result, TooSmall
  <2>4. CASE growStatus' = "NOT_FOUND"
    BY <1>4, <2>1, <2>4 DEF FirmwareCall, Result, TooSmall, AtomicObject!Fail, NULL
  <2>. QED  BY <1>4, <2>2, <2>3, <2>4 DEF FirmwareCall
<1>5. CASE CountEntries
  BY <1>5 DEF CountEntries, Result
<1>6. CASE ObjectChanges
  BY <1>6 DEF ObjectChanges, Result, TooSmall, AtomicObject!Change
<1>7. CASE UNCHANGED growVars
  BY <1>7 DEF growVars, Result, TooSmall
<1>. QED  BY <1>1, <1>2, <1>3, <1>4, <1>5, <1>6, <1>7 DEF GrowNext, GrowLibrary

\* The functions implement one atomic read of the object, at a moment of the call.
THEOREM GrowReadsAtomically == GrowSpec => ReadsAtomically
<1>1. GrowInv /\ [GrowNext]_growVars => AtomicStep
  BY AtomicSteps
<1>. QED  BY <1>1, AtomicInit, GrowInvAlways, PTL
          DEF GrowSpec, ReadsAtomically, AtomicObject!ReadSpec, AtomicStep

-----------------------------------------------------------------------------
(* BootOrder *)

\* What a call knows at each place.  As long as nothing has come in between, what it
\* has read is what is stored; the new array is the old one and the option.
OrderInv ==
    /\ orderPc \in {"read", "allocate", "set", "return"} /\ orderFn \in {"insert", "delete"}
    /\ misread \in BOOLEAN /\ OnlyInsertIfEmpty \in BOOLEAN
    /\ orderPc # "return" => order \in Orders /\ orderStatus = "none"
    /\ BootOptionArray \in Orders
    /\ orderPc = "read" => orderLive = {}
    /\ orderPc \in {"allocate", "set"} =>
         /\ ~misread => BootOptionArray = order
         /\ orderLive \ {"new"} = IF BootOptionArray = <<>> THEN {} ELSE {"old"}
    /\ orderPc = "allocate" => "new" \notin orderLive
    /\ orderPc = "set" =>
         /\ ~Declines
         /\ orderFn = "insert" => NewBootOptionArray = Extended
    /\ orderPc = "return" => OrderSafe

\* misc.c 393-398: the copied part of the old order is all its whole options.
LEMMA KeptIsWhole ==
    ASSUME NEW n \in Nat
    PROVE  /\ 2 * ((n + 2) \div 2 - 1) = 2 * (n \div 2)
           /\ 2 * (n \div 2) = n - (n % 2)
           /\ n % 2 \in {0, 1}
<1>1. n % 2 \in {0, 1}
  OBVIOUS
<1>2. n = 2 * (n \div 2) + (n % 2)
  OBVIOUS
<1>3. (n + 2) \div 2 = n \div 2 + 1
  OBVIOUS
<1>. QED
  BY <1>1, <1>2, <1>3

\* misc.c 390-402: the new array begins with the options of the old one, and has
\* an unwritten byte exactly if the old one was of odd length.
LEMMA ExtendedKeepsOptions ==
    ASSUME BootOptionArray \in Seq(Nat)
    PROVE  /\ IsPrefix(SubSeq(BootOptionArray, 1, 2 * (Len(BootOptionArray) \div 2)), Extended)
           /\ -1 \in ToSet(Extended) <=> Len(BootOptionArray) % 2 = 1
<1> DEFINE a == BootOptionArray
           k == 2 * (Len(a) \div 2)
           r == Len(a) % 2
           p == SubSeq(a, 1, k)
           q == [b \in 1 .. r |-> -1]
           pb == p \o BootOption
<1>1. k \in Nat /\ k = Len(a) - r /\ r \in {0, 1} /\ Kept = k /\ k <= Len(a)
  <2>1. Len(a) \in Nat
    BY LenProperties
  <2>. QED
    BY <2>1, KeptIsWhole DEF Kept
<1>2. p \in Seq(Nat) /\ Len(p) = k
  <2>1. \A j \in 1 .. k : a[j] \in Nat
    BY <1>1, ElementOfSeq
  <2>. QED
    BY <1>1, <2>1, SubSeqProperties
<1>3. BootOption \in Seq(Nat) /\ Len(BootOption) = 2
  BY BootOrderAssumption
<1>4. q \in Seq(Int) /\ Len(q) = r /\ \A j \in 1 .. r : q[j] = -1
  BY <1>1
<1>5. Extended = pb \o q
  BY <1>1 DEF Extended
<1> HIDE DEF a, k, r, p, q
<1>6. /\ pb \in Seq(Nat) /\ Len(pb) = k + 2
      /\ \A j \in 1 .. k : pb[j] = p[j]
  <2>1. /\ pb \in Seq(Nat) /\ Len(pb) = Len(p) + Len(BootOption)
        /\ \A j \in 1 .. Len(p) + Len(BootOption) :
             pb[j] = IF j <= Len(p) THEN p[j] ELSE BootOption[j - Len(p)]
    BY <1>2, <1>3, ConcatProperties
  <2>. QED
    BY <1>1, <1>2, <1>3, <2>1
<1> HIDE DEF pb
<1>7. /\ Extended \in Seq(Int) /\ Len(Extended) = k + 2 + r
      /\ \A j \in 1 .. k + 2 + r : Extended[j] = IF j <= k + 2 THEN pb[j] ELSE q[j - (k + 2)]
  <2>1. pb \in Seq(Int)
    BY <1>6, SeqMonotonic, Nat \subseteq Int
  <2>2. /\ Extended \in Seq(Int) /\ Len(Extended) = Len(pb) + Len(q)
        /\ \A j \in 1 .. Len(pb) + Len(q) :
             Extended[j] = IF j <= Len(pb) THEN pb[j] ELSE q[j - Len(pb)]
    BY <1>4, <1>5, <2>1, ConcatProperties
  <2>. QED
    BY <1>1, <1>4, <1>6, <2>2
<1>8. IsPrefix(p, Extended)
  <2>1. ASSUME NEW j \in 1 .. k PROVE Extended[j] = p[j]
    <3>1. j \in 1 .. k + 2 + r /\ j <= k + 2
      BY <1>1
    <3>. QED
      BY <1>6, <1>7, <3>1
  <2>2. SubSeq(p, 1, k) = SubSeq(Extended, 1, k)
    BY <1>1, <1>2, <1>7, <2>1
  <2>. QED
    BY <1>1, <1>2, <1>7, <2>2 DEF IsPrefix
<1>9. ASSUME r = 1 PROVE -1 \in ToSet(Extended)
  <2>1. k + 3 \in 1 .. k + 2 + r /\ ~(k + 3 <= k + 2) /\ (k + 3) - (k + 2) = 1
    BY <1>1, <1>9
  <2>2. Extended[k + 3] = q[(k + 3) - (k + 2)]
    BY <1>7, <2>1
  <2>3. q[(k + 3) - (k + 2)] = -1
    BY <1>4, <1>9, <2>1
  <2>4. k + 3 \in DOMAIN Extended
    BY <1>7, <2>1, LenProperties
  <2>. QED
    BY <2>2, <2>3, <2>4 DEF ToSet
<1>10. ASSUME r = 0, -1 \in ToSet(Extended) PROVE FALSE
  <2>1. PICK j \in 1 .. k + 2 : Extended[j] = -1
    BY <1>1, <1>7, <1>10 DEF ToSet
  <2>2. pb[j] = -1
    BY <1>1, <1>7, <1>10, <2>1
  <2>3. pb[j] \in Nat
    BY <1>6, ElementOfSeq
  <2>. QED
    BY <2>2, <2>3
<1>. QED
  BY <1>1, <1>8, <1>9, <1>10 DEF a, k, p, r

LEMMA OrderInvInit == OrderInit => OrderInv
BY BootOrderAssumption DEF OrderInit, OrderInv

LEMMA ReadOrderKeeps == OrderInv /\ ReadOrder => OrderInv'
BY BootOrderAssumption DEF OrderInv, ReadOrder, Declines

LEMMA DeclineKeeps == OrderInv /\ Decline => OrderInv'
BY DEF OrderInv, Decline, Declines, OrderSafe, OptionsKept, ArraysFreed

LEMMA BuildOrderKeeps == OrderInv /\ BuildOrder => OrderInv'
<1>1. SUFFICES ASSUME OrderInv, BuildOrder PROVE OrderInv'
  OBVIOUS
<1>2. Declines' = Declines /\ Extended' = Extended
  BY <1>1 DEF BuildOrder, Declines, Extended, Kept
<1>3. CASE orderPc' = "set"
  BY <1>1, <1>2, <1>3 DEF OrderInv, BuildOrder
<1>4. CASE orderPc' = "return"
  BY <1>1, <1>4 DEF OrderInv, BuildOrder, OrderSafe, OptionsKept, ArraysFreed
<1>. QED
  BY <1>1, <1>3, <1>4 DEF BuildOrder

LEMMA SetVariableKeeps == OrderInv /\ SetVariable => OrderInv'
<1>1. SUFFICES ASSUME OrderInv, SetVariable PROVE OrderInv'
  OBVIOUS
<1>2. BootOptionArray \in Seq(Nat)
  BY <1>1, BootOrderAssumption DEF OrderInv
<1>3. ArraysFreed'
  BY <1>1 DEF SetVariable, ArraysFreed
<1>4. OptionsKept'
  <2>1. SUFFICES ASSUME orderStatus' = "SUCCESS", orderFn' = "insert", ~misread'
                 PROVE  /\ IsPrefix(SubSeq(replaced, 1, 2 * (Len(replaced) \div 2)), NewBootOptionArray)'
                        /\ (OnlyInsertIfEmpty => replaced = <<>>)'
                        /\ (-1 \in ToSet(NewBootOptionArray) <=> Len(replaced) % 2 = 1)'
    BY DEF OptionsKept
  <2>2. replaced' = BootOptionArray /\ NewBootOptionArray' = Extended /\ ~Declines
        /\ orderFn = "insert" /\ OnlyInsertIfEmpty' = OnlyInsertIfEmpty
    BY <1>1, <2>1 DEF OrderInv, SetVariable
  <2>. QED
    BY <1>2, <2>2, ExtendedKeepsOptions DEF Declines
<1>5. (orderFn = "delete" /\ orderStatus = "SUCCESS" => BootOptionArray # <<>>)'
  BY <1>1 DEF OrderInv, SetVariable, Declines
<1>. QED
  BY <1>1, <1>3, <1>4, <1>5 DEF OrderInv, SetVariable, OrderSafe

LEMMA OthersSetOrderKeep == OrderInv /\ OthersSetOrder => OrderInv'
<1>1. SUFFICES ASSUME OrderInv, OthersSetOrder PROVE OrderInv'
  OBVIOUS
<1>2. Declines' = Declines /\ Extended' = Extended
  BY <1>1 DEF OthersSetOrder, Declines, Extended, Kept
<1>3. orderPc \in {"allocate", "set"} => (~misread => BootOptionArray = order)'
  BY <1>1 DEF OthersSetOrder
<1>. QED
  BY <1>1, <1>2, <1>3 DEF OrderInv, OthersSetOrder

\* misc.c 295-413, for every variable and any number of changes by other code: see
\* OrderSafe.
THEOREM OptionsStaySafe == OrderSpec => []OrderSafe
<1>1. OrderInv /\ [OrderNext]_orderVars => OrderInv'
  <2>1. OrderInv /\ UNCHANGED orderVars => OrderInv'
    BY DEF OrderInv, orderVars, Declines, Extended, Kept, OrderSafe, OptionsKept, ArraysFreed
  <2>. QED
    BY <2>1, ReadOrderKeeps, DeclineKeeps, BuildOrderKeeps, SetVariableKeeps,
       OthersSetOrderKeep DEF OrderNext
<1>2. OrderInv => OrderSafe
  BY DEF OrderInv, OrderSafe, OptionsKept, ArraysFreed
<1>. QED
  BY OrderInvInit, <1>1, <1>2, PTL DEF OrderSpec

-----------------------------------------------------------------------------
(* SimpleRead *)

ReadTypeOK ==
    /\ readPc \in {"allocate", "locate", "walk", "interface", "size", "load", "done",
                   "return", "closed"}
    /\ FileHandle \in Nat /\ SourceSize \in Nat /\ SourceSize <= MaxUINTN
    /\ FHand \in {"none", "allocated", "freed"} /\ Source \in {"NULL", "caller", "pool"}
    /\ FreeBuffer \in BOOLEAN /\ poolBuffer \in BOOLEAN /\ atOnce \in BOOLEAN
    /\ copied \in Nat \X Nat

Good(status) == status \in {"SUCCESS", "ALREADY_STARTED"}

\* The inductive invariant: what is open and allocated in the middle of the call.
ReadInv ==
    /\ ReadTypeOK
    /\ openFiles \subseteq {FileHandle} \ {0}
    /\ readPc \in {"allocate", "locate", "interface", "size", "load", "closed"} => openFiles = {}
    /\ readPc \in {"done", "return"} /\ ~Good(readStatus) => openFiles = {}
    /\ readPc \in {"allocate", "locate"} => readStatus = "SUCCESS"
    /\ readPc = "interface" => readStatus = "UNSUPPORTED"
    /\ readPc = "walk" /\ readStatus = "SUCCESS" => FileHandle \in openFiles
    /\ readPc = "load" => Source = "pool"
    /\ readPc \in {"locate", "walk", "interface", "size", "load"} => FHand = "allocated"
    /\ poolBuffer => FreeBuffer /\ FHand = "allocated"
    /\ readPc = "return" /\ ~Good(readStatus) => FHand # "allocated"
    /\ readPc = "closed" => ~poolBuffer
    /\ readPc \in {"done", "return"} /\ readStatus = "SUCCESS" =>
         Source # "NULL" \/ FileHandle \in openFiles \/ atOnce
    /\ copied[2] <= SourceSize \/ copied[1] >= copied[2] \/ copied[2] > MaxUINTN

LEMMA ReadInvInit == ReadInit => ReadInv
<1>1. SUFFICES ASSUME ReadInit PROVE ReadInv
  OBVIOUS
<1>2. SourceSize \in Nat /\ SourceSize <= MaxUINTN
  BY <1>1, SimpleReadAssumption DEF ReadInit
<1>3. copied \in Nat \X Nat /\ copied[1] = 0 /\ copied[2] = 0
  BY <1>1 DEF ReadInit
<1>4. ReadTypeOK
  BY <1>1, <1>2, <1>3 DEF ReadInit, ReadTypeOK
<1>. QED
  BY <1>1, <1>2, <1>3, <1>4 DEF ReadInit, ReadInv, Good

LEMMA OpenKeeps ==
    ReadInv /\ (AllocateHandle \/ LocateFileSystem \/ OpenNode \/ EndWalk) => ReadInv'
<1>. USE DEF ReadInv, ReadTypeOK, Good
<1>1. ReadInv /\ AllocateHandle => ReadInv'
  BY DEF AllocateHandle
<1>2. ReadInv /\ LocateFileSystem => ReadInv'
  <2>1. SUFFICES ASSUME ReadInv, LocateFileSystem PROVE ReadInv'
    OBVIOUS
  <2>2. ReadTypeOK'
    BY <2>1 DEF LocateFileSystem
  <2>3. CASE FileHandle' = 1 /\ openFiles' = {1} /\ readStatus' = "SUCCESS"
    BY <2>1, <2>2, <2>3 DEF LocateFileSystem
  <2>4. CASE openFiles' = openFiles /\ readStatus' = "UNSUPPORTED"
    BY <2>1, <2>2, <2>4 DEF LocateFileSystem
  <2>. QED  BY <2>1, <2>3, <2>4 DEF LocateFileSystem
<1>3. ReadInv /\ OpenNode => ReadInv'
  <2>1. SUFFICES ASSUME ReadInv, OpenNode PROVE ReadInv'
    OBVIOUS
  <2>2. CASE readStatus' = "SUCCESS" /\ FileHandle' = FileHandle + 1
             /\ openFiles' = (openFiles \cup {FileHandle'}) \ {FileHandle}
    <3>1. openFiles' = {FileHandle'} /\ FileHandle' # 0
      <4>1. FileHandle \in Nat /\ openFiles \subseteq {FileHandle}
        BY <2>1
      <4>2. FileHandle' # FileHandle /\ FileHandle' # 0
        BY <2>2, <4>1
      <4>3. openFiles' = (openFiles \cup {FileHandle'}) \ {FileHandle}
        BY <2>2
      <4>. QED  BY <4>1, <4>2, <4>3
    <3>. QED  BY <2>1, <2>2, <3>1 DEF OpenNode
  <2>3. CASE readStatus' \in {"NOT_FOUND", "UNSUPPORTED"} /\ FileHandle' = 0
             /\ openFiles' = openFiles \ {FileHandle}
    BY <2>1, <2>3 DEF OpenNode
  <2>. QED  BY <2>1, <2>2, <2>3 DEF OpenNode
<1>4. ReadInv /\ EndWalk => ReadInv'
  <2>1. SUFFICES ASSUME ReadInv, EndWalk PROVE ReadInv'
    OBVIOUS
  <2>2. CASE readStatus' # "SUCCESS"
    <3>1. openFiles' = {} /\ FileHandle' = 0
      BY <2>1, <2>2 DEF EndWalk, SimpleReadError, ClosedAfterWalk
    <3>. QED  BY <2>1, <2>2, <3>1 DEF EndWalk, SimpleReadError
  <2>3. CASE readStatus' = "SUCCESS"
    <3>1. readStatus = "SUCCESS"
      BY <2>1, <2>3 DEF EndWalk, NodeStatus
    <3>2. /\ readPc' = "done" /\ FileHandle \in openFiles /\ openFiles \subseteq {FileHandle} \ {0}
          /\ UNCHANGED <<restored, openFiles, FileHandle>>
      BY <2>1, <2>3, <3>1 DEF EndWalk, SimpleReadError
    <3>. QED  BY <2>1, <2>3, <3>2 DEF EndWalk
  <2>. QED  BY <2>2, <2>3
<1>. QED  BY <1>1, <1>2, <1>3, <1>4

LEMMA LoadKeeps == ReadInv /\ (FindLoadFile \/ SizeFile \/ LoadFile \/ Done) => ReadInv'
<1>. USE DEF ReadInv, ReadTypeOK, Good
<1>1. ReadInv /\ FindLoadFile => ReadInv'
  BY DEF FindLoadFile
<1>2. ReadInv /\ SizeFile => ReadInv'
  <2>1. SUFFICES ASSUME ReadInv, SizeFile PROVE ReadInv'
    OBVIOUS
  <2>2. CASE readPc' = "load"
    BY <2>1, <2>2 DEF SizeFile
  <2>3. CASE readPc' = "done"
    <3>1. readStatus' = "SUCCESS" => atOnce'
      BY <2>1, <2>3 DEF SizeFile, LoadDone
    <3>2. atOnce' \in BOOLEAN
      BY <2>1, <2>3 DEF SizeFile
    <3>. QED  BY <2>1, <2>3, <3>1, <3>2 DEF SizeFile
  <2>. QED  BY <2>1, <2>2, <2>3 DEF SizeFile
<1>3. ReadInv /\ LoadFile => ReadInv'
  BY DEF LoadFile, LoadDone
<1>4. ReadInv /\ Done => ReadInv'
  <2>1. SUFFICES ASSUME ReadInv, Done PROVE ReadInv'
    OBVIOUS
  <2>2. CASE ~Good(readStatus) /\ FHand = "allocated"
    BY <2>1, <2>2 DEF Done
  <2>3. CASE Good(readStatus) \/ FHand # "allocated"
    BY <2>1, <2>3 DEF Done
  <2>. QED  BY <2>2, <2>3
<1>. QED  BY <1>1, <1>2, <1>3, <1>4

LEMMA SmallRemainder ==
    ASSUME NEW x \in Nat, NEW m \in Nat, x <= m
    PROVE  x % (m + 1) = x
OBVIOUS

LEMMA ReadKeeps == ReadInv /\ ReadSimpleReadFile => ReadInv'
<1>1. SUFFICES ASSUME ReadInv, ReadSimpleReadFile PROVE ReadInv'
  OBVIOUS
<1>2. PICK Offset \in 0 .. MaxOffset, n \in 0 .. MaxOffset :
        copied' = <<Offset, Offset + ReadSize(Offset, n)>>
  BY <1>1 DEF ReadSimpleReadFile
<1>3. /\ Offset \in Nat /\ n \in Nat /\ MaxUINTN \in Nat
      /\ SourceSize \in Nat /\ SourceSize <= MaxUINTN
  BY <1>1, <1>2, SimpleReadAssumption DEF ReadInv, ReadTypeOK
<1>. DEFINE EndPos == (Offset + n) % (MaxUINTN + 1)
            size == ReadSize(Offset, n)
<1>4. CASE EndPos <= SourceSize
  <2>1. size = n
    BY <1>4 DEF ReadSize
  <2>2. Offset + n <= MaxUINTN => EndPos = Offset + n
    BY <1>3, SmallRemainder
  <2>3. Offset + n <= SourceSize \/ Offset + n > MaxUINTN
    BY <1>3, <1>4, <2>2
  <2>. QED
    BY <1>1, <1>2, <1>3, <2>1, <2>3 DEF ReadSimpleReadFile, ReadInv, ReadTypeOK
<1>5. CASE ~(EndPos <= SourceSize)
  <2>1. size = IF Offset >= SourceSize THEN 0 ELSE SourceSize - Offset
    BY <1>5 DEF ReadSize
  <2>. HIDE DEF size
  <2>. QED
    BY <1>1, <1>2, <1>3, <2>1 DEF ReadSimpleReadFile, ReadInv, ReadTypeOK, size
<1>. QED  BY <1>4, <1>5

LEMMA CloseKeeps == ReadInv /\ CloseSimpleReadFile => ReadInv'
BY DEF ReadInv, ReadTypeOK, Good, CloseSimpleReadFile

LEMMA ReadStutterKeeps == ReadInv /\ UNCHANGED readVars => ReadInv'
BY DEF readVars, ReadInv, ReadTypeOK, Good

LEMMA ReadInvAlways == ReadSpec => []ReadInv
<1>1. ReadInv /\ [ReadNext]_readVars => ReadInv'
  BY OpenKeeps, LoadKeeps, ReadKeeps, CloseKeeps, ReadStutterKeeps DEF ReadNext
<1>. QED  BY <1>1, ReadInvInit, PTL DEF ReadSpec

\* sread.c 270-275, 327-357: an open that fails anywhere leaves no file open and nothing
\* allocated, and Close releases the rest.
THEOREM OpenLeaksNothing == ReadSpec => []SimpleReadLeaksNothing
<1>1. ReadInv => SimpleReadLeaksNothing
  BY DEF ReadInv, ReadTypeOK, Good, SimpleReadLeaksNothing
<1>. QED  BY <1>1, ReadInvAlways, PTL

\* sread.c 301-312: whatever is asked for, nothing is copied from outside the source
\* unless the end of the read is beyond every UINTN.
THEOREM ReadsInsideSource == ReadSpec => []HandleReadsFile
<1>1. ReadInv => HandleReadsFile
  BY DEF ReadInv, ReadTypeOK, HandleReadsFile
<1>. QED  BY <1>1, ReadInvAlways, PTL
=============================================================================
