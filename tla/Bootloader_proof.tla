-------------------------- MODULE Bootloader_proof --------------------------
(***************************************************************************)
(* Theorems about Bootloader, for every size of memory, every kernel file, *)
(* every combination of failing firmware calls and any bound on events.    *)
(***************************************************************************)
EXTENDS Bootloader, FiniteSetTheorems, TLAPS

-----------------------------------------------------------------------------
(* What one allocation can do to the memory map: the arithmetic behind     *)
(* "mapSize += 2 * descriptorSize" in efi_main, for memory of any size.    *)

\* Convert gives a map again.
LEMMA ConvertIsMap ==
    ASSUME NEW m \in Map, NEW first, NEW n, NEW type \in MemoryType
    PROVE  Convert(m, first, n, type) \in Map
BY DEF Convert, Map

\* Converting no pages changes nothing.
LEMMA ConvertNothing ==
    ASSUME NEW m \in Map, NEW first \in Int, NEW type
    PROVE  Convert(m, first, 0, type) = m
BY DEF Convert, Map, Run, Page

\* The converted pages have the new type, and a run of another type than
\* theirs is left alone.
LEMMA ConvertMakesRun ==
    ASSUME NEW m \in Map, NEW first, NEW n, NEW old, NEW type,
           IsRun(m, first, n, old)
    PROVE  IsRun(Convert(m, first, n, type), first, n, type)
BY DEF IsRun, Convert

LEMMA ConvertKeepsRun ==
    ASSUME NEW m \in Map, NEW first, NEW n, NEW old, NEW type,
           NEW g, NEW k, NEW other,
           IsRun(m, first, n, old), IsRun(m, g, k, other), old # other
    PROVE  IsRun(Convert(m, first, n, type), g, k, other)
BY DEF IsRun, Convert

\* The number of descriptors of a map is a natural number.
LEMMA NumDescriptorsType ==
    ASSUME NEW m
    PROVE  IsFiniteSet(Starts(m)) /\ NumDescriptors(m) \in Nat
<1>1. IsFiniteSet(Page)
  BY NPagesAssumption, FS_Interval DEF Page
<1>2. IsFiniteSet(Starts(m))
  BY <1>1, FS_Subset DEF Starts
<1>. QED  BY <1>2, FS_CardinalityType DEF NumDescriptors

\* One more element is at most one more.
LEMMA AddElement ==
    ASSUME NEW S, NEW x, IsFiniteSet(S)
    PROVE  /\ IsFiniteSet(S \cup {x})
           /\ Cardinality(S) \in Nat /\ Cardinality(S \cup {x}) \in Nat
           /\ Cardinality(S \cup {x}) <= Cardinality(S) + 1
<1>1. IsFiniteSet(S \cup {x})
  BY FS_AddElement
<1>2. Cardinality(S) \in Nat /\ Cardinality(S \cup {x}) \in Nat
  BY <1>1, FS_CardinalityType
<1>3. Cardinality(S \cup {x}) =
          IF x \in S THEN Cardinality(S) ELSE Cardinality(S) + 1
  BY FS_AddElement
<1>. QED  BY <1>1, <1>2, <1>3

\* A descriptor can begin only where one began before, at the first converted
\* page, or just behind the last one.
LEMMA ConvertStarts ==
    ASSUME NEW m \in Map, NEW first \in Int, NEW n \in Nat, NEW type
    PROVE  Starts(Convert(m, first, n, type)) \subseteq
               Starts(m) \cup {first, first + n}
<1>. DEFINE c == Convert(m, first, n, type)
<1>. SUFFICES ASSUME NEW p \in Starts(c), p # first, p # first + n
              PROVE  p \in Starts(m)
  OBVIOUS
<1>1. p \in Page /\ (p = 0 \/ c[p] # c[p - 1])
  BY DEF Starts
<1>2. CASE p = 0
  BY <1>1, <1>2 DEF Starts
<1>3. CASE p # 0
  <2>1. p - 1 \in Page /\ p \in Int
    BY <1>1, <1>3, NPagesAssumption DEF Page
  <2>2. p \in Run(first, n) <=> p - 1 \in Run(first, n)
    BY <2>1 DEF Run
  <2>3. m[p] # m[p - 1]
    BY <1>1, <1>3, <2>1, <2>2 DEF Convert
  <2>. QED  BY <1>1, <2>3 DEF Starts
<1>. QED  BY <1>2, <1>3

\* One allocation, wherever the firmware puts it and however long it is, adds
\* at most two descriptors (the comment of bootloader.c 271-272).
THEOREM AllocationAddsAtMostTwo ==
    ASSUME NEW m \in Map, NEW first \in Int, NEW n \in Nat, NEW type
    PROVE  NumDescriptors(Convert(m, first, n, type)) <= NumDescriptors(m) + 2
<1>. DEFINE one == Starts(m) \cup {first}
            two == one \cup {first + n}
<1>1. IsFiniteSet(Starts(m)) /\ Cardinality(Starts(m)) \in Nat
  BY NumDescriptorsType DEF NumDescriptors
<1>2. /\ IsFiniteSet(one) /\ Cardinality(one) \in Nat
      /\ Cardinality(one) <= Cardinality(Starts(m)) + 1
  BY <1>1, AddElement
<1>3. /\ IsFiniteSet(two) /\ Cardinality(two) \in Nat
      /\ Cardinality(two) <= Cardinality(one) + 1
  BY <1>2, AddElement
<1>4. Starts(Convert(m, first, n, type)) \subseteq two
  BY ConvertStarts
<1>5. Cardinality(Starts(Convert(m, first, n, type))) <= Cardinality(two)
  BY <1>3, <1>4, FS_Subset
<1>6. Cardinality(Starts(Convert(m, first, n, type))) \in Nat
  BY NumDescriptorsType DEF NumDescriptors
<1>. QED  BY <1>1, <1>2, <1>3, <1>5, <1>6 DEF NumDescriptors

-----------------------------------------------------------------------------
(* Types *)

\* While efi_main waits for a key it knows where to go on.
TypeInv ==
    /\ TypeOK
    /\ pc \in {"Reset", "ReadKey"} => after # "none"

LEMMA Bounds == /\ PAGE_SIZE \in Nat \ {0} /\ PRE_ALLOC \in Nat \ {0}
                /\ MaxModes \in Nat \ {0} /\ MaxEvents \in Nat
                /\ PoolPages \in Nat
BY LoaderAssumption

LEMMA OutcomesType ==
    ASSUME NEW call, NEW errors
    PROVE  Outcomes(call, errors) \subseteq {"SUCCESS"} \cup errors
BY DEF Outcomes

LEMMA NumPagesType ==
    ASSUME NEW size \in Nat
    PROVE  NumPages(size) \in Nat
<1>1. size \div PAGE_SIZE \in Nat
  BY LoaderAssumption
<1>. QED  BY <1>1, LoaderAssumption DEF NumPages

\* NumPages rounds the size down, and the spare pages make up for it.
LEMMA NumPagesCover ==
    ASSUME NEW size \in Nat
    PROVE  size <= NumPages(size) * PAGE_SIZE
<1>. DEFINE q == size \div PAGE_SIZE
            r == size % PAGE_SIZE
<1>1. /\ q \in Nat /\ r \in 0 .. PAGE_SIZE - 1
      /\ size = PAGE_SIZE * q + r
  BY LoaderAssumption
<1>2. PAGE_SIZE \in Nat /\ PRE_ALLOC \in Nat /\ PRE_ALLOC >= 1
  BY LoaderAssumption
<1>3. (q + PRE_ALLOC) * PAGE_SIZE = PAGE_SIZE * q + PRE_ALLOC * PAGE_SIZE
  BY <1>1, <1>2
<1>4. PRE_ALLOC * PAGE_SIZE >= PAGE_SIZE
  BY <1>2
<1>5. PRE_ALLOC * PAGE_SIZE \in Nat /\ PAGE_SIZE * q \in Nat
  BY <1>1, <1>2
<1>. HIDE DEF q, r
<1>6. size <= (q + PRE_ALLOC) * PAGE_SIZE
  BY <1>1, <1>2, <1>3, <1>4, <1>5
<1>. QED  BY <1>6 DEF NumPages, q

LEMMA BufTypes ==
    /\ Unread \in BufType
    /\ \A f \in Files : Loaded(f) \in BufType
    /\ \A f \in Files : f.size \in Nat
BY LoaderAssumption DEF Unread, Loaded, BufType, FileType

LEMMA TypeInvInit == Init => TypeInv
<1>. SUFFICES ASSUME Init PROVE TypeInv
  OBVIOUS
<1>1. ControlTypeOK
  BY LoaderAssumption DEF Init, ControlTypeOK, Pcs, Statuses
<1>2. FlagTypeOK
  BY DEF Init, FlagTypeOK
<1>3. KernelTypeOK
  BY NPagesAssumption, BufTypes DEF Init, KernelTypeOK
<1>4. MapTypeOK
  BY NPagesAssumption, LoaderAssumption DEF Init, MapTypeOK, Page
<1>5. HistoryTypeOK
  BY DEF Init, HistoryTypeOK
<1>. QED  BY <1>1, <1>2, <1>3, <1>4, <1>5 DEF TypeInv, TypeOK, Init

\* The control variables keep their types.
LEMMA ControlTypeStep ==
    ASSUME TypeInv, [Next]_vars
    PROVE  ControlTypeOK' /\ (pc' \in {"Reset", "ReadKey"} => after' # "none")
<1>. USE DEF TypeInv, TypeOK, ControlTypeOK, Pcs, Final, Statuses,
            console, video, image, firmware
<1>1. CASE ConOutCheck
  <2>1. Status' \in {"SUCCESS", "DEVICE_ERROR"}
    BY <1>1, OutcomesType DEF ConOutCheck
  <2>. QED  BY <1>1, <2>1 DEF ConOutCheck, WaitForInput
<1>2. CASE ResetConIn
  <2>1. Status' \in {"SUCCESS", "DEVICE_ERROR"}
    BY <1>2, OutcomesType DEF ResetConIn
  <2>. QED  BY <1>2, <2>1 DEF ResetConIn
<1>3. CASE ReadKeyStroke
  BY <1>3 DEF ReadKeyStroke, Resume
<1>4. CASE LocateGop
  <2>1. Status' \in {"SUCCESS", "NOT_FOUND"}
    BY <1>4, OutcomesType DEF LocateGop
  <2>. QED  BY <1>4, <2>1 DEF LocateGop, WaitForInput
<1>5. CASE QueryMode
  <2>1. Status' \in {"SUCCESS", "NOT_STARTED", "DEVICE_ERROR"}
    BY <1>5, OutcomesType DEF QueryMode
  <2>2. UNCHANGED <<ret, warnings, i, events>>
    BY <1>5 DEF QueryMode
  <2>3. /\ pc' \in {"Reset", "ListModes", "Undefined"}
        /\ pc' = "Reset" => after' = "ReturnStatus"
        /\ pc' # "Reset" => after' = after
    BY <1>5 DEF QueryMode, WaitForInput
  <2>. QED  BY <2>1, <2>2, <2>3
<1>6. CASE ListMode
  <2>1. Status' \in {"SUCCESS", "DEVICE_ERROR"}
    BY <1>6, OutcomesType DEF ListMode
  <2>2. i' \in 0 .. MaxModes
    BY <1>6, Bounds DEF ListMode, HasMode, NextMode
  <2>. QED  BY <1>6, <2>1, <2>2 DEF ListMode
<1>7. CASE ModesListed
  BY <1>7, Bounds DEF ModesListed
<1>8. CASE HandleImage \/ HandleVolume \/ OpenVolume \/ OpenKernel
  BY <1>8 DEF HandleImage, HandleVolume, OpenVolume, OpenKernel,
              FileSystemCall
<1>9. CASE FileSize
  BY <1>9 DEF FileSize
<1>10. CASE AllocatePages
  BY <1>10 DEF AllocatePages
<1>11. CASE Read
  BY <1>11 DEF Read
<1>12. CASE MapSize
  BY <1>12 DEF MapSize, OrReturn
<1>13. CASE AllocatePool
  BY <1>13 DEF AllocatePool, OrReturn
<1>14. CASE GetMemoryMap
  BY <1>14 DEF GetMemoryMap, OrReturn
<1>15. CASE ExitBootServices
  BY <1>15 DEF ExitBootServices, OrReturn
<1>16. CASE ParseHeader
  BY <1>16 DEF ParseHeader, AfterHeader
<1>17. CASE Jump \/ KernelReturns
  BY <1>17 DEF Jump, KernelReturns
<1>18. CASE FirmwareEvent
  <2>1. events' \in 0 .. MaxEvents
    BY <1>18, Bounds DEF FirmwareEvent
  <2>. QED  BY <1>18, <2>1 DEF FirmwareEvent
<1>19. CASE PressKey
  BY <1>19 DEF PressKey
<1>20. CASE UNCHANGED vars
  BY <1>20 DEF vars
<1>. QED  BY <1>1, <1>2, <1>3, <1>4, <1>5, <1>6, <1>7, <1>8, <1>9, <1>10, <1>11,
             <1>12, <1>13, <1>14, <1>15, <1>16, <1>17, <1>18, <1>19, <1>20
          DEF Next, Loader

-----------------------------------------------------------------------------
(* Most steps leave memory and its map alone.  What the others do to them is
   proved action by action. *)

FrontPcs == {"ConOut", "Reset", "ReadKey", "LocateGop", "QueryMode", "ListModes",
             "HandleImage", "HandleVolume", "OpenVolume", "OpenKernel"}
PastExit == {"ParseHeader", "Jump", "InKernel", "Derailed", "Halted"}

\* A step of the console, the graphics output or the file system, a step past
\* the exit, a key press, or no step.
QuietStep ==
    /\ UNCHANGED <<page, fwKey, bootServices, disturbed>>
    /\ UNCHANGED <<file, kernelSize, numPages, kernelPage, kernelBuf>>
    /\ UNCHANGED <<mapSize, mapKey, memoryMap, poolPage, poolSize>>
    /\ \/ pc' = pc /\ ret' = ret
       \/ pc \in FrontPcs /\ pc' \in FrontPcs \cup {"FileSize", "Undefined"}
       \/ /\ pc \in FrontPcs /\ pc' = "Returned"
          /\ ret' \in {"SUCCESS", "DEVICE_ERROR", "UNSUPPORTED"}
       \/ pc \in PastExit /\ pc' \in PastExit

LEMMA QuietSteps ==
    ASSUME TypeInv,
           \/ ConOutCheck \/ ResetConIn \/ ReadKeyStroke \/ LocateGop
           \/ QueryMode \/ ListMode \/ ModesListed \/ HandleImage \/ HandleVolume
           \/ OpenVolume \/ OpenKernel \/ ParseHeader \/ Jump \/ KernelReturns
           \/ PressKey \/ UNCHANGED vars
    PROVE  QuietStep
<1>. USE DEF QuietStep, FrontPcs, PastExit, console, image, kernel, map, firmware
<1>1. CASE ConOutCheck \/ ResetConIn \/ LocateGop
  BY <1>1 DEF ConOutCheck, ResetConIn, LocateGop, WaitForInput
<1>2. CASE ReadKeyStroke
  BY <1>2 DEF ReadKeyStroke, Resume, TypeInv, TypeOK, ControlTypeOK
<1>3. CASE QueryMode \/ ListMode \/ ModesListed
  BY <1>3 DEF QueryMode, ListMode, ModesListed, WaitForInput
<1>4. CASE HandleImage \/ HandleVolume \/ OpenVolume \/ OpenKernel
  BY <1>4 DEF HandleImage, HandleVolume, OpenVolume, OpenKernel, FileSystemCall
<1>5. CASE ParseHeader \/ Jump \/ KernelReturns
  BY <1>5 DEF ParseHeader, AfterHeader, Jump, KernelReturns
<1>6. CASE PressKey \/ UNCHANGED vars
  BY <1>6 DEF PressKey, vars
<1>. QED  BY <1>1, <1>2, <1>3, <1>4, <1>5, <1>6

LEMMA StepCases ==
    ASSUME TypeInv, [Next]_vars
    PROVE  \/ QuietStep
           \/ FileSize \/ AllocatePages \/ Read
           \/ MapSize \/ AllocatePool \/ GetMemoryMap \/ ExitBootServices
           \/ FirmwareEvent
BY QuietSteps DEF Next, Loader

\* The kernel's variables keep their types.
LEMMA KernelTypeStep ==
    ASSUME TypeInv, [Next]_vars
    PROVE  KernelTypeOK'
<1>. USE DEF TypeInv, TypeOK, KernelTypeOK, image
<1>1. CASE QuietStep
  BY <1>1 DEF QuietStep
<1>2. CASE FileSize
  BY <1>2, BufTypes, LoaderAssumption DEF FileSize
<1>3. CASE AllocatePages
  <2>1. numPages' \in Nat
    BY <1>3, NumPagesType DEF AllocatePages
  <2>2. kernelPage' \in -1 .. NPages - 1
    BY <1>3, NPagesAssumption DEF AllocatePages, Page
  <2>. QED  BY <1>3, <2>1, <2>2 DEF AllocatePages
<1>4. CASE Read
  BY <1>4, BufTypes DEF Read
<1>5. CASE MapSize \/ AllocatePool \/ GetMemoryMap \/ ExitBootServices
  BY <1>5 DEF MapSize, AllocatePool, GetMemoryMap, ExitBootServices, kernel
<1>6. CASE FirmwareEvent
  BY <1>6 DEF FirmwareEvent, kernel
<1>. QED  BY <1>1, <1>2, <1>3, <1>4, <1>5, <1>6, StepCases

\* The memory map and efi_main's copy of it keep their types.
LEMMA MapTypeStep ==
    ASSUME TypeInv, [Next]_vars
    PROVE  MapTypeOK'
<1>. USE DEF TypeInv, TypeOK, MapTypeOK, firmware
<1>1. CASE QuietStep
  BY <1>1 DEF QuietStep
<1>2. CASE FileSize \/ Read
  BY <1>2 DEF FileSize, Read, map
<1>3. CASE AllocatePages
  <2>1. page' \in Map /\ fwKey' \in Nat
    BY <1>3, ConvertIsMap DEF AllocatePages, MemoryType
  <2>. QED  BY <1>3, <2>1 DEF AllocatePages, map
<1>4. CASE MapSize
  BY <1>4, NumDescriptorsType DEF MapSize
<1>5. CASE AllocatePool
  <2>1. page' \in Map /\ fwKey' \in Nat
    BY <1>5, ConvertIsMap DEF AllocatePool, MemoryType, PoolType
  <2>2. mapSize' \in Nat /\ poolPage' \in Page /\ poolSize' \in Nat
    BY <1>5, Bounds DEF AllocatePool, MapSlack
  <2>. QED  BY <1>5, <2>1, <2>2 DEF AllocatePool
<1>6. CASE GetMemoryMap
  BY <1>6, NumDescriptorsType DEF GetMemoryMap
<1>7. CASE ExitBootServices
  BY <1>7 DEF ExitBootServices, map
<1>8. CASE FirmwareEvent
  <2>1. page' \in Map /\ fwKey' \in Nat
    BY <1>8, ConvertIsMap DEF FirmwareEvent, MemoryType
  <2>. QED  BY <1>8, <2>1 DEF FirmwareEvent, map
<1>. QED  BY <1>1, <1>2, <1>3, <1>4, <1>5, <1>6, <1>7, <1>8, StepCases

\* The flags stay Boolean.
LEMMA FlagTypeStep ==
    ASSUME TypeInv, [Next]_vars
    PROVE  FlagTypeOK'
<1>. USE DEF TypeInv, TypeOK, FlagTypeOK, console, video, image, firmware
<1>1. CASE ConOutCheck \/ ResetConIn \/ ReadKeyStroke \/ LocateGop
  BY <1>1 DEF ConOutCheck, ResetConIn, ReadKeyStroke, LocateGop
<1>2. CASE QueryMode \/ ListMode \/ ModesListed
  BY <1>2 DEF QueryMode, ListMode, ModesListed
<1>3. CASE HandleImage \/ HandleVolume \/ OpenVolume \/ OpenKernel
  BY <1>3 DEF HandleImage, HandleVolume, OpenVolume, OpenKernel, FileSystemCall
<1>4. CASE FileSize \/ AllocatePages \/ Read
  BY <1>4 DEF FileSize, AllocatePages, Read
<1>5. CASE MapSize \/ AllocatePool \/ GetMemoryMap \/ ExitBootServices
  BY <1>5 DEF MapSize, AllocatePool, GetMemoryMap, ExitBootServices
<1>6. CASE ParseHeader \/ Jump \/ KernelReturns
  BY <1>6 DEF ParseHeader, Jump, KernelReturns
<1>7. CASE FirmwareEvent \/ PressKey \/ UNCHANGED vars
  BY <1>7 DEF FirmwareEvent, PressKey, vars
<1>. QED  BY <1>1, <1>2, <1>3, <1>4, <1>5, <1>6, <1>7 DEF Next, Loader

\* The history keeps its type.
LEMMA HistoryTypeStep ==
    ASSUME TypeInv, [Next]_vars
    PROVE  HistoryTypeOK'
<1>. USE DEF TypeInv, TypeOK, HistoryTypeOK, Refuses
<1>1. CASE ConOutCheck \/ ResetConIn \/ ReadKeyStroke \/ LocateGop
  BY <1>1 DEF ConOutCheck, ResetConIn, ReadKeyStroke, LocateGop
<1>2. CASE QueryMode \/ ListMode \/ ModesListed
  BY <1>2 DEF QueryMode, ListMode, ModesListed
<1>3. CASE HandleImage \/ HandleVolume \/ OpenVolume \/ OpenKernel
  BY <1>3 DEF HandleImage, HandleVolume, OpenVolume, OpenKernel, FileSystemCall
<1>4. CASE FileSize \/ AllocatePages \/ Read
  BY <1>4 DEF FileSize, AllocatePages, Read
<1>5. CASE MapSize \/ AllocatePool \/ GetMemoryMap \/ ExitBootServices
  BY <1>5 DEF MapSize, AllocatePool, GetMemoryMap, ExitBootServices
<1>6. CASE ParseHeader \/ Jump \/ KernelReturns
  BY <1>6 DEF ParseHeader, Jump, KernelReturns
<1>7. CASE FirmwareEvent \/ PressKey \/ UNCHANGED vars
  BY <1>7 DEF FirmwareEvent, PressKey, vars
<1>. QED  BY <1>1, <1>2, <1>3, <1>4, <1>5, <1>6, <1>7 DEF Next, Loader

LEMMA TypeInvStep == TypeInv /\ [Next]_vars => TypeInv'
BY ControlTypeStep, FlagTypeStep, KernelTypeStep, MapTypeStep, HistoryTypeStep
   DEF TypeInv, TypeOK

\* Every variable keeps its type, for all constants.
THEOREM TypeCorrect == Spec => []TypeOK
<1>1. Spec => []TypeInv
  BY TypeInvInit, TypeInvStep, PTL DEF Spec
<1>2. TypeInv => TypeOK
  BY DEF TypeInv
<1>. QED  BY <1>1, <1>2, PTL

-----------------------------------------------------------------------------
(* The inductive invariant *)

\* From Read to the exit the kernel has its pages, and nobody takes them away;
\* the same for the pages of the map.
KernelInv ==
    /\ pc \in FrontPcs \cup {"FileSize", "AllocatePages"} => kernelPage = -1
    /\ pc \in {"Read", "MapSize", "AllocatePool", "GetMemoryMap", "ExitBootServices"}
           => kernelPage # -1
    /\ kernelPage # -1 => IsRun(page, kernelPage, numPages, "LoaderCode")
    /\ IsRun(page, poolPage, poolSize, "LoaderData")
    /\ pc = "Read" => kernelSize <= numPages * PAGE_SIZE

\* A key is never newer than the map, and the present key belongs to a copy
\* that is still exact.  This is what makes the check of ExitBootServices
\* meaningful.
KeyInv ==
    /\ mapKey <= fwKey
    /\ memoryMap # NoMap /\ mapKey = fwKey => memoryMap = page
    /\ pc = "ExitBootServices" => memoryMap # NoMap

\* Without an event since the sizing call, the buffer is still large enough
\* and the key still current.
UndisturbedInv ==
    ~disturbed =>
        /\ pc = "AllocatePool" => mapSize = NumDescriptors(page)
        /\ pc = "GetMemoryMap" => NumDescriptors(page) <= mapSize
        /\ pc = "ExitBootServices" => mapKey = fwKey
        /\ pc = "Returned" => ret \notin {"BUFFER_TOO_SMALL", "INVALID_PARAMETER"}

\* Past the exit, the memory is what the copy says and the kernel has its pages.
ExitInv ==
    ~bootServices => pc \in PastExit /\ memoryMap = page /\ kernelPage # -1

IInv == TypeInv /\ KernelInv /\ KeyInv /\ UndisturbedInv /\ ExitInv

LEMMA IInvInit == Init => IInv
<1>. SUFFICES ASSUME Init PROVE IInv
  OBVIOUS
<1>1. TypeInv
  BY TypeInvInit
<1>2. KernelInv
  BY DEF Init, KernelInv, FrontPcs, IsRun, Run
<1>3. KeyInv /\ UndisturbedInv /\ ExitInv
  BY DEF Init, KeyInv, UndisturbedInv, ExitInv
<1>. QED  BY <1>1, <1>2, <1>3 DEF IInv

LEMMA KernelInvStep ==
    ASSUME IInv, [Next]_vars
    PROVE  KernelInv'
<1>. USE DEF IInv, KernelInv, FrontPcs, firmware
<1>0. TypeInv /\ page \in Map
  BY DEF TypeInv, TypeOK, MapTypeOK
<1>1. CASE QuietStep
  BY <1>1 DEF QuietStep, FrontPcs, PastExit, IsRun
<1>2. CASE FileSize
  BY <1>2 DEF FileSize, map, IsRun
<1>3. CASE AllocatePages
  <2>1. ASSUME NEW first \in Page,
               IsRun(page, first, numPages', "Conventional"),
               page' = Convert(page, first, numPages', "LoaderCode"),
               kernelPage' = first, pc' \in {"Halted", "Read"}
        PROVE  KernelInv'
    <3>1. IsRun(page', kernelPage', numPages', "LoaderCode")
      BY <1>0, <2>1, ConvertMakesRun
    <3>2. IsRun(page', poolPage', poolSize', "LoaderData")
      BY <1>0, <1>3, <2>1, ConvertKeepsRun DEF AllocatePages, map
    <3>3. kernelSize' <= numPages' * PAGE_SIZE
      BY <1>0, <1>3, NumPagesCover DEF AllocatePages, TypeInv, TypeOK, KernelTypeOK
    <3>4. kernelPage' # -1
      BY <2>1 DEF Page
    <3>. QED  BY <2>1, <3>1, <3>2, <3>3, <3>4
  <2>2. ASSUME pc' = "Halted", UNCHANGED <<page, kernelPage>>
        PROVE  KernelInv'
    <3>1. kernelPage = -1
      BY <1>3 DEF AllocatePages
    <3>. QED  BY <1>3, <2>2, <3>1 DEF AllocatePages, map, IsRun
  <2>. QED  BY <1>3, <2>1, <2>2 DEF AllocatePages
<1>4. CASE Read
  BY <1>4 DEF Read, map, IsRun
<1>5. CASE MapSize
  BY <1>5 DEF MapSize, OrReturn, kernel, IsRun
<1>6. CASE AllocatePool
  <2>1. ASSUME NEW first \in Page, NEW n \in 0 .. PoolPages,
               IsRun(page, first, n, "Conventional"),
               page' = Convert(page, first, n, "LoaderData"),
               poolPage' = first, poolSize' = n, pc' = "GetMemoryMap"
        PROVE  KernelInv'
    <3>1. IsRun(page', poolPage', poolSize', "LoaderData")
      BY <1>0, <2>1, ConvertMakesRun
    <3>2. IsRun(page', kernelPage', numPages', "LoaderCode")
      BY <1>0, <1>6, <2>1, ConvertKeepsRun DEF AllocatePool, kernel
    <3>. QED  BY <1>6, <2>1, <3>1, <3>2 DEF AllocatePool, kernel
  <2>2. ASSUME pc' = "Returned", UNCHANGED <<page, poolPage, poolSize>>
        PROVE  KernelInv'
    BY <1>6, <2>2 DEF AllocatePool, kernel, IsRun
  <2>. QED  BY <1>6, <2>1, <2>2 DEF AllocatePool, PoolType, OrReturn
<1>7. CASE GetMemoryMap \/ ExitBootServices
  BY <1>7 DEF GetMemoryMap, ExitBootServices, OrReturn, kernel, map, IsRun
<1>8. CASE FirmwareEvent
  <2>1. ASSUME NEW first \in Page, NEW n, NEW old \in {"Conventional", "BootServicesData"},
               NEW type, IsRun(page, first, n, old),
               page' = Convert(page, first, n, type)
        PROVE  /\ kernelPage # -1 => IsRun(page', kernelPage, numPages, "LoaderCode")
               /\ IsRun(page', poolPage, poolSize, "LoaderData")
    BY <1>0, <2>1, ConvertKeepsRun
  <2>2. /\ kernelPage # -1 => IsRun(page', kernelPage, numPages, "LoaderCode")
        /\ IsRun(page', poolPage, poolSize, "LoaderData")
    BY <1>8, <2>1 DEF FirmwareEvent
  <2>. QED  BY <1>8, <2>2 DEF FirmwareEvent, kernel, map
<1>. QED  BY <1>0, <1>1, <1>2, <1>3, <1>4, <1>5, <1>6, <1>7, <1>8, StepCases

LEMMA KeyInvStep ==
    ASSUME IInv, [Next]_vars
    PROVE  KeyInv'
<1>. USE DEF IInv, KeyInv, firmware
<1>0. TypeInv /\ page \in Map /\ mapKey \in Nat /\ fwKey \in Nat
  BY DEF TypeInv, TypeOK, MapTypeOK
<1>1. CASE QuietStep
  BY <1>1 DEF QuietStep, FrontPcs, PastExit
<1>2. CASE FileSize \/ Read \/ MapSize
  BY <1>2 DEF FileSize, Read, MapSize, OrReturn, map
<1>3. CASE AllocatePages
  BY <1>0, <1>3 DEF AllocatePages, map
<1>4. CASE AllocatePool
  <2>1. ASSUME NEW first \in Page, page' = Convert(page, first, 0, PoolType)
        PROVE  page' = page
    BY <1>0, <2>1, ConvertNothing DEF Page
  <2>. QED  BY <1>0, <1>4, <2>1 DEF AllocatePool, OrReturn
<1>5. CASE GetMemoryMap
  BY <1>0, <1>5, LoaderAssumption DEF GetMemoryMap, OrReturn
<1>6. CASE ExitBootServices
  BY <1>6 DEF ExitBootServices, OrReturn, map
<1>7. CASE FirmwareEvent
  BY <1>0, <1>7 DEF FirmwareEvent, map
<1>. QED  BY <1>0, <1>1, <1>2, <1>3, <1>4, <1>5, <1>6, <1>7, StepCases

LEMMA UndisturbedInvStep ==
    ASSUME IInv, [Next]_vars
    PROVE  UndisturbedInv'
<1>. USE DEF IInv, UndisturbedInv, firmware
<1>0. /\ TypeInv /\ page \in Map /\ mapSize \in Nat
      /\ NumDescriptors(page) \in Nat /\ NumDescriptors(page)' \in Nat
  BY NumDescriptorsType DEF TypeInv, TypeOK, MapTypeOK
<1>1. CASE QuietStep
  BY <1>1 DEF QuietStep, FrontPcs, PastExit, NumDescriptors, Starts
<1>2. CASE FileSize \/ AllocatePages \/ Read
  BY <1>2 DEF FileSize, AllocatePages, Read
<1>3. CASE MapSize
  <2>1. NumDescriptors(page)' = NumDescriptors(page)
    BY <1>3 DEF MapSize, NumDescriptors, Starts
  <2>. QED  BY <1>3, <2>1 DEF MapSize, OrReturn
<1>4. CASE AllocatePool
  <2>1. ASSUME NEW first \in Page, NEW n \in 0 .. PoolPages,
               page' = Convert(page, first, n, PoolType)
        PROVE  NumDescriptors(page)' <= NumDescriptors(page) + MapSlack
    <3>1. first \in Int /\ n \in Nat
      BY Bounds, NPagesAssumption DEF Page
    <3>2. NumDescriptors(page') <= NumDescriptors(page) + 2
      BY <1>0, <2>1, <3>1, AllocationAddsAtMostTwo
    <3>. QED  BY <3>2 DEF MapSlack, NumDescriptors, Starts
  <2>. QED  BY <1>0, <1>4, <2>1 DEF AllocatePool, OrReturn
<1>5. CASE GetMemoryMap
  BY <1>0, <1>5 DEF GetMemoryMap, OrReturn
<1>6. CASE ExitBootServices
  BY <1>6 DEF ExitBootServices, KeyPassed, OrReturn
<1>7. CASE FirmwareEvent
  BY <1>7 DEF FirmwareEvent
<1>. QED  BY <1>0, <1>1, <1>2, <1>3, <1>4, <1>5, <1>6, <1>7, StepCases

LEMMA ExitInvStep ==
    ASSUME IInv, [Next]_vars
    PROVE  ExitInv'
<1>. USE DEF IInv, ExitInv, PastExit, firmware
<1>0. TypeInv
  OBVIOUS
<1>1. CASE QuietStep
  BY <1>1 DEF QuietStep, FrontPcs
<1>2. CASE FileSize \/ AllocatePages \/ Read
  BY <1>2 DEF FileSize, AllocatePages, Read
<1>3. CASE MapSize \/ AllocatePool \/ GetMemoryMap
  BY <1>3 DEF MapSize, AllocatePool, GetMemoryMap
<1>4. CASE ExitBootServices
  BY <1>4 DEF ExitBootServices, KeyPassed, KeyInv, KernelInv, OrReturn,
              firmware, kernel, map
<1>5. CASE FirmwareEvent
  BY <1>5 DEF FirmwareEvent
<1>. QED  BY <1>0, <1>1, <1>2, <1>3, <1>4, <1>5, StepCases

LEMMA IInvStep == IInv /\ [Next]_vars => IInv'
BY TypeInvStep, KernelInvStep, KeyInvStep, UndisturbedInvStep, ExitInvStep
   DEF IInv

LEMMA IInvAlways == Spec => []IInv
BY IInvInit, IInvStep, PTL DEF Spec

-----------------------------------------------------------------------------
(* The properties *)

\* Two spare descriptors suffice: only an event can make GetMemoryMap or
\* ExitBootServices send efi_main back to the firmware.
THEOREM NeverBouncesBack == Spec => []UndisturbedBootNeverBouncesBack
<1>1. IInv => UndisturbedBootNeverBouncesBack
  BY DEF IInv, UndisturbedInv, UndisturbedBootNeverBouncesBack
<1>. QED  BY <1>1, IInvAlways, PTL

\* The kernel's map marks the kernel's pages and the map's own as in use.
THEOREM Protected == Spec => []KernelAndMapProtected
<1>1. IInv => KernelAndMapProtected
  BY DEF IInv, ExitInv, KernelInv, KernelAndMapProtected, IsRun
<1>. QED  BY <1>1, IInvAlways, PTL

\* Read has room for the whole file, of any size.
THEOREM ReadFits == Spec => []ReadStaysInPages
<1>1. IInv => ReadStaysInPages
  BY DEF IInv, KernelInv, ReadStaysInPages, IsRun
<1>. QED  BY <1>1, IInvAlways, PTL

\* Past ExitBootServices there is no way back to the firmware.
THEOREM NeverReturnsAfterExit == Spec => []NoReturnAfterExit
<1>1. IInv => NoReturnAfterExit
  BY DEF IInv, ExitInv, PastExit, NoReturnAfterExit
<1>. QED  BY <1>1, IInvAlways, PTL

-----------------------------------------------------------------------------
(* Failures *)

\* An unset handle is due to a failure, and so is every wait for a key but that of the
\* keyboard check.
FailureInv ==
    /\ EndsForAReason
    /\ ~handle => "pointer" \in refused
    /\ pc \in {"Reset", "ReadKey"} /\ after # "LocateGop" => "checked" \in refused

LEMMA FailureInvStep ==
    ASSUME IInv, FailureInv, [Next]_vars
    PROVE  FailureInv'
<1>. USE DEF FailureInv, EndsForAReason, Refuses, EFI_ERROR, console, video, image, firmware
<1>0. /\ TypeInv /\ UndisturbedInv /\ ControlTypeOK
      /\ mapSize \in Nat /\ NumDescriptors(page) \in Nat
  BY NumDescriptorsType DEF IInv, TypeInv, TypeOK, MapTypeOK
<1>1. CASE ConOutCheck \/ ResetConIn
  BY <1>1 DEF ConOutCheck, ResetConIn, WaitForInput
<1>2. CASE ReadKeyStroke
  <2>1. after \in {"ReturnStatus", "ReturnUnsupported", "LocateGop"}
    BY <1>0, <1>2 DEF ReadKeyStroke, TypeInv, ControlTypeOK
  <2>. QED  BY <1>2, <2>1 DEF ReadKeyStroke, Resume
<1>3. CASE LocateGop
  BY <1>3 DEF LocateGop, WaitForInput
<1>4. CASE QueryMode
  BY <1>4 DEF QueryMode, WaitForInput
<1>5. CASE ListMode \/ ModesListed
  BY <1>5 DEF ListMode, ModesListed
<1>6. CASE HandleImage \/ HandleVolume \/ OpenVolume \/ OpenKernel
  BY <1>6 DEF HandleImage, HandleVolume, OpenVolume, OpenKernel, FileSystemCall
<1>7. CASE FileSize \/ AllocatePages \/ Read
  BY <1>7 DEF FileSize, AllocatePages, Read
<1>8. CASE MapSize \/ AllocatePool
  BY <1>8 DEF MapSize, AllocatePool, OrReturn
<1>9. CASE GetMemoryMap
  <2>1. ~disturbed => NumDescriptors(page) <= mapSize
    BY <1>0, <1>9 DEF GetMemoryMap, UndisturbedInv
  <2>2. ~disturbed => Status' # "BUFFER_TOO_SMALL"
    BY <1>0, <1>9, <2>1 DEF GetMemoryMap
  <2>. QED  BY <1>9, <2>2 DEF GetMemoryMap, OrReturn
<1>10. CASE ExitBootServices
  <2>1. ~disturbed => mapKey = fwKey
    BY <1>0, <1>10 DEF ExitBootServices, UndisturbedInv
  <2>. QED  BY <1>10, <2>1 DEF ExitBootServices, KeyPassed, OrReturn
<1>11. CASE ParseHeader \/ Jump \/ KernelReturns
  BY <1>11 DEF ParseHeader, AfterHeader, Jump, KernelReturns
<1>12. CASE FirmwareEvent \/ PressKey \/ UNCHANGED vars
  BY <1>12 DEF FirmwareEvent, PressKey, vars
<1>. QED  BY <1>1, <1>2, <1>3, <1>4, <1>5, <1>6, <1>7, <1>8, <1>9, <1>10, <1>11, <1>12
          DEF Next, Loader

\* efi_main follows an unset pointer only where it does not look at a failure, and
\* comes back only because of a failure it looks at or of a firmware event.
THEOREM EndsWithReason == Spec => []EndsForAReason
<1>1. Init => FailureInv
  BY DEF Init, FailureInv, EndsForAReason
<1>2. IInv /\ FailureInv /\ [Next]_vars => FailureInv'
  BY FailureInvStep
<1>3. FailureInv => EndsForAReason
  BY DEF FailureInv
<1>. QED  BY <1>1, <1>2, <1>3, IInvAlways, PTL DEF Spec

-----------------------------------------------------------------------------
(* Refinement *)

LEMMA SameMaps == Abstract!Map = Map
BY DEF Abstract!Map, Abstract!Page, Abstract!MemoryType, Map, Page, MemoryType

LEMMA HandoffInit == Init => Abstract!HandoffInit
BY LoaderAssumption, SameMaps DEF Init, Abstract!HandoffInit

LEMMA HandoffStep ==
    ASSUME IInv, IInv', [Next]_vars
    PROVE  [Abstract!HandoffNext]_(Abstract!handoffVars)
<1>. USE DEF Abstract!HandoffNext, Abstract!handoffVars, firmware
<1>0. /\ TypeInv /\ page' \in Map /\ bootServices \in BOOLEAN /\ ExitInv
  BY DEF IInv, TypeInv, TypeOK, MapTypeOK, FlagTypeOK
<1>1. CASE QuietStep
  BY <1>1 DEF QuietStep
<1>2. CASE FileSize \/ Read \/ MapSize
  <2>1. UNCHANGED <<page, bootServices, memoryMap>>
    BY <1>2 DEF FileSize, Read, MapSize, map
  <2>. QED  BY <2>1
<1>3. CASE AllocatePages \/ AllocatePool \/ GetMemoryMap \/ FirmwareEvent
  <2>1. bootServices /\ bootServices'
    BY <1>0, <1>3 DEF ExitInv, PastExit, AllocatePages, AllocatePool,
                      GetMemoryMap, FirmwareEvent
  <2>2. Abstract!FirmwareRuns
    BY <1>0, <2>1, SameMaps DEF Abstract!FirmwareRuns
  <2>. QED  BY <2>2
<1>4. CASE ExitBootServices
  <2>1. bootServices
    BY <1>0, <1>4 DEF ExitInv, PastExit, ExitBootServices
  <2>2. CASE bootServices'
    BY <1>4, <2>1, <2>2 DEF ExitBootServices, map
  <2>3. CASE ~bootServices'
    <3>1. memoryMap = page
      BY <1>4, <2>1, <2>3 DEF ExitBootServices, KeyPassed, IInv, KeyInv
    <3>. QED  BY <1>4, <2>1, <2>3, <3>1
              DEF ExitBootServices, map, Abstract!HandOver
  <2>. QED  BY <2>2, <2>3
<1>. QED  BY <1>0, <1>1, <1>2, <1>3, <1>4, StepCases

\* efi_main implements the atomic handoff.
THEOREM Refinement == Spec => HandsOver
<1>1. IInv /\ IInv' /\ [Next]_vars => [Abstract!HandoffNext]_(Abstract!handoffVars)
  BY HandoffStep
<1>. QED  BY <1>1, HandoffInit, IInvAlways, PTL
          DEF Spec, HandsOver, Abstract!HandoffSpec
=============================================================================
