----------------------------- MODULE Bootloader -----------------------------
(***************************************************************************)
(* efi_main of src/bootloader/bootloader.c, from its first firmware call   *)
(* to the jump into the kernel.  Between two firmware calls the firmware   *)
(* may run its own event notifications, which allocate and free memory;    *)
(* they stop when ExitBootServices succeeds.                               *)
(*                                                                         *)
(* pc is the firmware call efi_main makes next.  Two values stand for the  *)
(* places the code reaches without meaning to: "Undefined" after the use   *)
(* of a pointer no call has filled in, and "Derailed" after a jump to      *)
(* bytes that are no entry point.                                          *)
(***************************************************************************)
EXTENDS UefiMemory

CONSTANTS
    PAGE_SIZE,         \* bytes in a page (4096 in the code)
    PRE_ALLOC,         \* pages allocated beyond the image (100 in the code)
    InitialMaps,       \* the memory maps efi_main may be started with
    Files,             \* the kernel.elf files the volume may hold
    JunkSizes,         \* values a read through a NULL EFI_FILE_INFO may give
    Faulty,            \* the firmware calls that may fail
    PoolPages,         \* bound: pages one AllocatePool may convert
    MaxModes,          \* bound: graphics modes
    MaxEvents,         \* bound: firmware events while boot services run
    NoMap              \* "no map has been read"

\* The checks on the ELF header, in the order of the code.
HeaderChecks == {"Magic", "Bits64", "Executable", "X86_64"}

\* size: bytes; header: the checks the file passes; entry: its first byte is
\* the first instruction of the kernel, as in a flat binary.
FileType == [size : Nat, header : SUBSET HeaderChecks, entry : BOOLEAN]

ASSUME LoaderAssumption ==
    /\ PAGE_SIZE \in Nat \ {0}
    /\ PRE_ALLOC \in Nat \ {0}
    /\ InitialMaps \subseteq Map
    /\ Files \subseteq FileType
    /\ JunkSizes \subseteq Nat
    /\ PoolPages \in Nat
    /\ MaxModes \in Nat \ {0}
    /\ MaxEvents \in Nat
    /\ NoMap \notin Map

\* The bytes 7F 45 4C 46 that begin an ELF file are no kernel entry point.
ASSUME ElfAssumption == \A f \in Files : f.entry => "Magic" \notin f.header

VARIABLES
    pc, after,                     \* the next call; what follows wait_for_input
    Status, ret,                   \* the global Status; what efi_main returned
    gopMode,                       \* gop->Mode is not NULL
    info, i,                       \* info has been filled in; mode loop index
    handle,                        \* the last file system call filled its handle
    file,                          \* the file on the volume
    kernelSize, numPages, kernelPage, kernelBuf,
    mapSize, mapKey, memoryMap,    \* efi_main's copy of the memory map
    poolPage, poolSize,            \* the pages that hold this copy
    warnings,                      \* the "Stopping boot!" messages shown
    page, fwKey, bootServices,     \* the firmware: its map, key, and life
    keyPending, events, disturbed, \* a key waits; events so far; since MapSize
    refused                        \* history: the kinds of failure so far

console  == <<after, keyPending>>
video    == <<gopMode, info, i>>
image    == <<handle, file, warnings>>
kernel   == <<kernelSize, numPages, kernelPage, kernelBuf>>
map      == <<mapSize, mapKey, memoryMap, poolPage, poolSize>>
firmware == <<page, fwKey, events, bootServices, disturbed>>
vars     == <<pc, Status, ret, console, video, image, kernel, map, firmware, refused>>

\* Two kinds of failure that could end the boot: an error that efi_main looks at, and a
\* call that leaves a pointer unset where efi_main does not look.
Refuses(kind, failed) == refused' = refused \cup IF failed THEN {kind} ELSE {}

EFI_ERROR_Inverted(s) == s = "SUCCESS"
EFI_ERROR(s) == s # "SUCCESS"

\* What a call may return: success, and its errors if it is a faulty one.
Outcomes(call, errors) == {"SUCCESS"} \cup IF call \in Faulty THEN errors ELSE {}

-----------------------------------------------------------------------------
(* Firmware and user *)

\* An event notification allocates or frees a run of pages; each change of the
\* map gives it a new key.
FirmwareEvent ==
    /\ bootServices /\ events < MaxEvents
    /\ \E first \in Page, n \in 1 .. NPages :
         \/ /\ IsRun(page, first, n, "Conventional")
            /\ page' = Convert(page, first, n, "BootServicesData")
         \/ /\ IsRun(page, first, n, "BootServicesData")
            /\ page' = Convert(page, first, n, "Conventional")
    /\ fwKey' = fwKey + 1
    /\ events' = events + 1
    /\ disturbed' = TRUE
    /\ UNCHANGED <<pc, Status, ret, bootServices, console, video, image,
                   kernel, map, refused>>

PressKey ==
    /\ bootServices /\ ~keyPending
    /\ keyPending' = TRUE
    /\ UNCHANGED <<pc, after, Status, ret, video, image, kernel, map,
                   firmware, refused>>

-----------------------------------------------------------------------------
(* Sanity checks and wait_for_input *)

\* Every message waits in wait_for_input before it is acted on.
WaitForInput(next) == pc' = "Reset" /\ after' = next

ConOutCheck ==
    /\ pc = "ConOut"
    /\ Status' \in Outcomes("OutputString", {"DEVICE_ERROR"})
    /\ Refuses("checked", Status' # "SUCCESS")
    /\ WaitForInput(IF EFI_ERROR(Status') THEN "ReturnStatus" ELSE "LocateGop")
    /\ UNCHANGED <<ret, keyPending, video, image, kernel, map, firmware>>

\* Reset drops the keys typed so far; its error is printed and forgotten.
ResetConIn ==
    /\ pc = "Reset"
    /\ Status' \in Outcomes("Reset", {"DEVICE_ERROR"})
    /\ keyPending' = (keyPending /\ EFI_ERROR(Status'))
    /\ pc' = "ReadKey"
    /\ UNCHANGED <<after, ret, video, image, kernel, map, firmware, refused>>

\* The caller of wait_for_input goes on.  "ReturnStatus" returns the global,
\* which by now holds the result of ReadKeyStroke.
Resume ==
    CASE after = "ReturnStatus"      -> pc' = "Returned" /\ ret' = Status'
      [] after = "ReturnUnsupported" -> pc' = "Returned" /\ ret' = "UNSUPPORTED"
      [] OTHER                        -> pc' = after /\ UNCHANGED ret

ReadKeyStroke ==
    /\ pc = "ReadKey"
    /\ \/ /\ keyPending
          /\ Status' = "SUCCESS" /\ keyPending' = FALSE
          /\ Resume
       \/ /\ ~keyPending
          /\ Status' = "NOT_READY"
          /\ UNCHANGED <<pc, ret, keyPending>>
       \/ /\ "ReadKeyStroke" \in Faulty
          /\ Status' = "DEVICE_ERROR" /\ UNCHANGED keyPending
          /\ Resume
    /\ UNCHANGED <<after, video, image, kernel, map, firmware, refused>>

-----------------------------------------------------------------------------
(* Graphics output *)

\* LocateProtocol may succeed and still leave gop NULL.
LocateGop ==
    /\ pc = "LocateGop"
    /\ Status' \in Outcomes("LocateProtocol", {"NOT_FOUND"})
    /\ \/ EFI_ERROR(Status') /\ WaitForInput("ReturnStatus")
       \/ /\ ~EFI_ERROR(Status') /\ "LocateProtocol" \in Faulty
          /\ WaitForInput("ReturnUnsupported")
       \/ ~EFI_ERROR(Status') /\ pc' = "QueryMode" /\ UNCHANGED after
    /\ Refuses("checked", Status' # "SUCCESS" \/ pc' = "Reset")
    /\ UNCHANGED <<ret, keyPending, video, image, kernel, map, firmware>>

\* QueryMode, then SetMode(0) if the device has not been started.  Without an
\* error gop->Mode is read, NULL or not.
QueryMode ==
    /\ pc = "QueryMode"
    /\ \E query \in Outcomes("QueryMode", {"NOT_STARTED", "DEVICE_ERROR"}) :
         /\ info' = (query = "SUCCESS")
         /\ IF query = "NOT_STARTED"
            THEN /\ Status' \in Outcomes("SetMode", {"DEVICE_ERROR"})
                 /\ gopMode' = (gopMode \/ ~EFI_ERROR(Status'))
            ELSE Status' = query /\ UNCHANGED gopMode
    /\ \/ EFI_ERROR(Status') /\ WaitForInput("ReturnStatus")
       \/ /\ ~EFI_ERROR(Status')
          /\ pc' = IF gopMode' THEN "ListModes" ELSE "Undefined"
          /\ UNCHANGED after
    /\ IF Status' # "SUCCESS" THEN Refuses("checked", TRUE) ELSE Refuses("pointer", ~gopMode')
    /\ UNCHANGED <<ret, keyPending, i, image, kernel, map, firmware>>

HasModeInclusive(k) == k <= MaxModes
HasMode(k) == k < MaxModes

NextModeStuck(k) == k
NextMode(k) == k + 1

\* One round of the loop over the modes: the result of QueryMode is not looked
\* at, and info is printed whether the call filled it in or not.
ListMode ==
    /\ pc = "ListModes" /\ HasMode(i)
    /\ Status' \in Outcomes("QueryMode", {"DEVICE_ERROR"})
    /\ info' = (info \/ ~EFI_ERROR(Status'))
    /\ Refuses("pointer", Status' # "SUCCESS")
    /\ pc' = IF info' THEN pc ELSE "Undefined"
    /\ i' = NextMode(i)
    /\ UNCHANGED <<ret, gopMode, console, image, kernel, map, firmware>>

\* The loop ends after numModes rounds, from 1 to MaxModes, and so does i.
ModesListed ==
    /\ pc = "ListModes" /\ i > 0
    /\ pc' = "HandleImage"
    /\ i' = 0
    /\ UNCHANGED <<Status, ret, gopMode, info, console, image, kernel, map,
                   firmware, refused>>

-----------------------------------------------------------------------------
(* The kernel file *)

\* The four file system calls have no check: a call that fails leaves its
\* handle as it was on the stack, and the next call goes through it.
FileSystemCall(here, next) ==
    /\ pc = here
    /\ IF handle
       THEN /\ handle' \in {TRUE} \cup {here \notin Faulty}
            /\ Refuses("pointer", ~handle')
            /\ pc' = next
       ELSE pc' = "Undefined" /\ UNCHANGED <<handle, refused>>
    /\ UNCHANGED <<Status, ret, file, warnings, console, video, kernel, map,
                   firmware>>

HandleImage  == FileSystemCall("HandleImage", "HandleVolume")
HandleVolume == FileSystemCall("HandleVolume", "OpenVolume")
OpenVolume   == FileSystemCall("OpenVolume", "OpenKernel")
OpenKernel   == FileSystemCall("OpenKernel", "FileSize")

\* LibFileInfo returns NULL when it fails and FileSize reads through it.
FileSize ==
    /\ pc = "FileSize"
    /\ \/ /\ handle /\ kernelSize' = file.size /\ pc' = "AllocatePages"
          /\ UNCHANGED refused
       \/ /\ handle /\ "GetInfo" \in Faulty /\ Refuses("pointer", TRUE)
          /\ \/ kernelSize' \in JunkSizes /\ pc' = "AllocatePages"
             \/ pc' = "Undefined" /\ UNCHANGED kernelSize
       \/ ~handle /\ pc' = "Undefined" /\ UNCHANGED <<kernelSize, refused>>
    /\ UNCHANGED <<Status, ret, numPages, kernelPage, kernelBuf, console,
                   video, image, map, firmware>>

NumPagesTight(size) == size \div PAGE_SIZE
NumPages(size) == size \div PAGE_SIZE + PRE_ALLOC

\* The firmware picks any free run.  An error, or the address 0 that the code
\* takes for NULL, ends in an infinite loop.
AllocatePages ==
    /\ pc = "AllocatePages"
    /\ numPages' = NumPages(kernelSize)
    /\ \/ \E first \in Page :
            /\ IsRun(page, first, numPages', "Conventional")
            /\ page' = Convert(page, first, numPages', "LoaderCode")
            /\ fwKey' = fwKey + 1
            /\ kernelPage' = first
            /\ Status' = "SUCCESS"
            /\ pc' = IF first = 0 THEN "Halted" ELSE "Read"
       \/ /\ "AllocatePages" \in Faulty
             \/ \A first \in Page : ~IsRun(page, first, numPages', "Conventional")
          /\ Status' = "OUT_OF_RESOURCES"
          /\ pc' = "Halted"
          /\ UNCHANGED <<page, fwKey, kernelPage>>
    /\ UNCHANGED <<ret, bootServices, disturbed, events, kernelSize, kernelBuf,
                   console, video, image, map, refused>>

\* What Read leaves at kernelAddress.  Memory that Read has not filled holds what was
\* there before: no kernel, and any header bytes (ParseHeader).
BufType == [header : SUBSET HeaderChecks, entry : BOOLEAN, whole : BOOLEAN]
Unread == [header |-> {}, entry |-> FALSE, whole |-> FALSE]
Loaded(f) == [header |-> f.header, entry |-> f.entry, whole |-> TRUE]

\* Read stores no more than kernelSize bytes and sets kernelSize to the number
\* it stored; its status is not looked at.  A file cut short is like one that was
\* not read.
Read ==
    /\ pc = "Read"
    /\ \/ /\ kernelSize >= file.size
          /\ kernelSize' = file.size /\ kernelBuf' = Loaded(file)
       \/ /\ kernelSize < file.size \/ "Read" \in Faulty
          /\ kernelBuf' = Unread /\ UNCHANGED kernelSize
    /\ pc' = "MapSize"
    /\ UNCHANGED <<Status, ret, numPages, kernelPage, console, video, image,
                   map, firmware, refused>>

-----------------------------------------------------------------------------
(* The memory map and the exit from boot services *)

\* if (Status != ok) { return Status; }
OrReturn(ok, next) ==
    IF Status' = ok THEN pc' = next /\ UNCHANGED ret
    ELSE pc' = "Returned" /\ ret' = Status'

\* The sizing call: a buffer of 0 bytes is too small for any map.
MapSize ==
    /\ pc = "MapSize"
    /\ \/ Status' = "BUFFER_TOO_SMALL"
       \/ "GetMemoryMap" \in Faulty /\ Status' = "DEVICE_ERROR"
    /\ mapSize' = NumDescriptors(page)
    /\ disturbed' = FALSE
    /\ OrReturn("BUFFER_TOO_SMALL", "AllocatePool")
    /\ Refuses("checked", Status' # "BUFFER_TOO_SMALL")
    /\ UNCHANGED <<mapKey, memoryMap, poolPage, poolSize, page, fwKey, events,
                   bootServices, console, video, image, kernel>>

\* mapSize += 2 * descriptorSize, and the type of the pool.
MapSlackOfOne == 1
MapSlack == 2
PoolTypeOfFirmware == "BootServicesData"
PoolType == "LoaderData"

\* The pool takes 0 to PoolPages free pages: 0 when it fits into pages the
\* firmware's pool already has.
AllocatePool ==
    /\ pc = "AllocatePool"
    /\ mapSize' = mapSize + MapSlack
    /\ \/ \E first \in Page, n \in 0 .. PoolPages :
            /\ IsRun(page, first, n, "Conventional")
            /\ page' = Convert(page, first, n, PoolType)
            /\ fwKey' = IF n = 0 THEN fwKey ELSE fwKey + 1
            /\ poolPage' = first /\ poolSize' = n
            /\ Status' = "SUCCESS"
       \/ /\ "AllocatePool" \in Faulty /\ Status' = "OUT_OF_RESOURCES"
          /\ UNCHANGED <<page, fwKey, poolPage, poolSize>>
    /\ OrReturn("SUCCESS", "GetMemoryMap")
    /\ Refuses("checked", Status' # "SUCCESS")
    /\ UNCHANGED <<disturbed, events, bootServices, mapKey, memoryMap, console,
                   video, image, kernel>>

GetMemoryMap ==
    /\ pc = "GetMemoryMap"
    /\ mapSize' = NumDescriptors(page)
    /\ \/ /\ mapSize' <= mapSize
          /\ Status' = "SUCCESS" /\ memoryMap' = page /\ mapKey' = fwKey
       \/ /\ \/ mapSize' > mapSize /\ Status' = "BUFFER_TOO_SMALL"
             \/ "GetMemoryMap" \in Faulty /\ Status' = "DEVICE_ERROR"
          /\ UNCHANGED <<memoryMap, mapKey>>
    /\ OrReturn("SUCCESS", "ExitBootServices")
    /\ Refuses("checked", Status' = "DEVICE_ERROR")
    /\ UNCHANGED <<poolPage, poolSize, console, video, image, kernel, firmware>>

\* The key that goes to ExitBootServices: the one read with the map, and not one
\* read afresh just before the call.
KeyPassedFresh == fwKey
KeyPassed == mapKey

\* The firmware refuses a key that is not that of its present map.
ExitBootServices ==
    /\ pc = "ExitBootServices"
    /\ Status' = IF KeyPassed = fwKey THEN "SUCCESS" ELSE "INVALID_PARAMETER"
    /\ bootServices' = (Status' # "SUCCESS")
    /\ OrReturn("SUCCESS", "ParseHeader")
    /\ UNCHANGED <<page, fwKey, events, disturbed, console, video, image, kernel, map,
                   refused>>

-----------------------------------------------------------------------------
(* The jump *)

AfterHeaderReturns == IF warnings' # {} THEN "Returned" ELSE "Jump"
AfterHeader == "Jump"

\* Four header checks, each with its own message and none with an effect on
\* the control flow: the loops that stopped the boot are commented out.
ParseHeader ==
    /\ pc = "ParseHeader"
    /\ \E passed \in SUBSET HeaderChecks :
         /\ kernelBuf.whole => passed = kernelBuf.header
         /\ warnings' = HeaderChecks \ passed
    /\ pc' = AfterHeader
    /\ UNCHANGED <<Status, ret, handle, file, console, video, kernel, map,
                   firmware, refused>>

\* The call goes to kernelAddress, the first byte of the file, and not to the
\* entry point the ELF header names.
Jump ==
    /\ pc = "Jump"
    /\ pc' = IF kernelBuf.entry THEN "InKernel" ELSE "Derailed"
    /\ UNCHANGED <<Status, ret, console, video, image, kernel, map, firmware, refused>>

\* "Unrecoverable Error Detected! Halting!": the kernels of the repository
\* never return, other bytes may.
KernelReturns ==
    /\ pc = "Derailed"
    /\ pc' = "Halted"
    /\ UNCHANGED <<Status, ret, console, video, image, kernel, map, firmware, refused>>

-----------------------------------------------------------------------------
Init ==
    /\ pc = "ConOut" /\ after = "none"
    /\ Status = "SUCCESS" /\ ret = "none"
    /\ gopMode \in {TRUE} \cup {"QueryMode" \notin Faulty}
    /\ info = FALSE /\ i = 0
    /\ handle = TRUE
    /\ file \in Files
    /\ kernelSize = 0 /\ numPages = 0 /\ kernelPage = -1 /\ kernelBuf = Unread
    /\ mapSize = 0 /\ mapKey = 0 /\ memoryMap = NoMap
    /\ poolPage = 0 /\ poolSize = 0
    /\ warnings = {}
    /\ page \in InitialMaps /\ fwKey = 1 /\ bootServices = TRUE
    /\ keyPending \in BOOLEAN /\ events = 0 /\ disturbed = FALSE
    /\ refused = {}

Loader ==
    \/ ConOutCheck \/ ResetConIn \/ ReadKeyStroke
    \/ LocateGop \/ QueryMode \/ ListMode \/ ModesListed
    \/ HandleImage \/ HandleVolume \/ OpenVolume \/ OpenKernel
    \/ FileSize \/ AllocatePages \/ Read
    \/ MapSize \/ AllocatePool \/ GetMemoryMap \/ ExitBootServices
    \/ ParseHeader \/ Jump

Next == Loader \/ KernelReturns \/ FirmwareEvent \/ PressKey

Spec == Init /\ [][Next]_vars

\* The processor keeps running efi_main, and a user who is asked for a key
\* presses one in the end.  Nothing makes foreign bytes return.
Fairness == WF_vars(Loader) /\ WF_vars(PressKey)

FairSpec == Spec /\ Fairness

-----------------------------------------------------------------------------
(* Types *)

Final == {"Returned", "Halted", "InKernel", "Derailed", "Undefined"}

Pcs == {"ConOut", "Reset", "ReadKey", "LocateGop", "QueryMode", "ListModes",
        "HandleImage", "HandleVolume", "OpenVolume", "OpenKernel", "FileSize",
        "AllocatePages", "Read", "MapSize", "AllocatePool", "GetMemoryMap",
        "ExitBootServices", "ParseHeader", "Jump"} \cup Final

\* "none" stands for an efi_main that has not returned.
Statuses == {"none", "SUCCESS", "NOT_READY", "DEVICE_ERROR", "NOT_FOUND", "NOT_STARTED",
             "OUT_OF_RESOURCES", "BUFFER_TOO_SMALL", "INVALID_PARAMETER",
             "UNSUPPORTED"}

ControlTypeOK ==
    /\ pc \in Pcs
    /\ after \in {"none", "ReturnStatus", "ReturnUnsupported", "LocateGop"}
    /\ Status \in Statuses /\ ret \in Statuses
    /\ i \in 0 .. MaxModes
    /\ warnings \subseteq HeaderChecks
    /\ events \in 0 .. MaxEvents

FlagTypeOK ==
    /\ gopMode \in BOOLEAN /\ info \in BOOLEAN /\ handle \in BOOLEAN
    /\ bootServices \in BOOLEAN /\ keyPending \in BOOLEAN /\ disturbed \in BOOLEAN

KernelTypeOK ==
    /\ file \in Files
    /\ kernelSize \in Nat /\ numPages \in Nat
    /\ kernelPage \in -1 .. NPages - 1 /\ kernelBuf \in BufType

MapTypeOK ==
    /\ page \in Map /\ fwKey \in Nat
    /\ mapSize \in Nat /\ mapKey \in Nat
    /\ memoryMap = NoMap \/ memoryMap \in Map
    /\ poolPage \in Page /\ poolSize \in Nat

HistoryTypeOK == refused \subseteq {"checked", "pointer"}

TypeOK == ControlTypeOK /\ FlagTypeOK /\ KernelTypeOK /\ MapTypeOK /\ HistoryTypeOK

-----------------------------------------------------------------------------
(* Safety *)

\* Two spare descriptors are enough: efi_main returns to the firmware with
\* GetMemoryMap's EFI_BUFFER_TOO_SMALL or ExitBootServices'
\* EFI_INVALID_PARAMETER only if a firmware event came between the sizing call
\* and the exit, never because of its own AllocatePool (bootloader.c 264-284).
UndisturbedBootNeverBouncesBack ==
    pc = "Returned" /\ ret \in {"BUFFER_TOO_SMALL", "INVALID_PARAMETER"}
        => disturbed

\* The map the kernel receives marks the pages of the kernel and the pages of
\* the map itself as in use, and the two do not overlap, whatever the firmware
\* allocated and freed in between.
KernelAndMapProtected ==
    ~bootServices =>
        /\ \A p \in Run(kernelPage, numPages) : memoryMap[p] = "LoaderCode"
        /\ \A p \in Run(poolPage, poolSize) : memoryMap[p] = "LoaderData"
        /\ Run(kernelPage, numPages) \cap Run(poolPage, poolSize) = {}

\* Once boot services are gone efi_main never returns to the firmware and
\* never goes back to a firmware call: it only goes down into the kernel.
NoReturnAfterExit ==
    ~bootServices => pc \in {"ParseHeader", "Jump", "InKernel", "Derailed", "Halted"}

\* Read stores within the allocated pages although NumPages rounds down.
ReadStaysInPages ==
    pc = "Read" =>
        /\ kernelSize <= numPages * PAGE_SIZE
        /\ \A p \in Run(kernelPage, numPages) : page[p] = "LoaderCode"

\* A failure that efi_main looks at never makes it follow an unset pointer, and it comes
\* back only after such a failure or because an event disturbed the exit.  What leaves a
\* pointer unset (bootloader.c 165, 194-205, file_handling.h 9), and the keyboard, Reset
\* and Read, whose errors nobody looks at, never make it return.
EndsForAReason ==
    /\ pc = "Undefined" => "pointer" \in refused
    /\ pc = "Returned" =>
         \/ "checked" \in refused
         \/ disturbed /\ ret \in {"BUFFER_TOO_SMALL", "INVALID_PARAMETER"}

\* Reading the map and exiting are two calls with events between them, yet
\* together they hand the machine over in one step with an exact map.
Abstract == INSTANCE Handoff WITH
    owner  <- IF bootServices THEN "firmware" ELSE "loader",
    memory <- page,
    given  <- IF bootServices THEN NoMap ELSE memoryMap

HandsOver == Abstract!HandoffSpec

-----------------------------------------------------------------------------
(* Liveness *)

\* efi_main always gets somewhere: whatever the firmware refuses and however
\* often its events come, it returns, halts, or leaves for the kernel.
LoaderDecides == <>(pc \in Final)

-----------------------------------------------------------------------------
(* What the comments and messages of the code promise, and the code does not
   keep *)

\* bootloader.c 320-372, "Stopping boot!": a file that fails a header check is
\* not jumped to.
HeaderErrorStopsBoot == pc \in {"InKernel", "Derailed"} => warnings = {}

\* bootloader.c 116, "All sanity checks passed, continuing": the keyboard check
\* has read a key when efi_main goes on.
KeyCheckPassed == pc = "LocateGop" => Status = "SUCCESS"

\* bootloader.c 260, "Loaded kernel at address": the file is in memory.
KernelIsLoaded == pc \in {"MapSize", "AllocatePool"} => kernelBuf.whole

\* build.sh 13, "so it can be loaded and executed by the bootloader": a file
\* that passes every header check is executed.
AcceptedKernelRuns == pc = "Derailed" => warnings # {}
=============================================================================
