# MimosaOS: specifications, model checks and proofs

MimosaOS is a UEFI boot loader in C (`src/src/bootloader`), an old kernel in C
and a new one in Rust (`src/src/kernel/core`), and a vendored copy of gnu-efi
the loader is linked with.  The loader loads `kernel.elf` from its volume, takes
the memory map and the machine from the firmware, and jumps to the file.  This
directory holds TLA+ modules of that program, TLC runs, and TLAPS proofs.
Paths below are relative to the repository; line numbers are those of
`src/src/bootloader/bootloader.c` unless a file is named.

## 1. The system

| part | state it keeps | operations | status here |
|---|---|---|---|
| `efi_main`, `wait_for_input` (bootloader.c) | `Status`, `gop`, `info`, the file handles, `kernelSize`, `kernelAddress`, the copy of the memory map and `mapKey` | about twenty firmware calls in a fixed order, then the header checks and the jump | modelled: `Bootloader` |
| `FileSize` (file_handling.h) | none | `LibFileInfo`, read the size, free | modelled in `Bootloader` |
| loader terminal (bootloader_tty.h) | framebuffer address and mode, console size, cursor, pixels | `terminal_initialize`, `_clear`, `_putc`, `_write`, `_writestring` | modelled: `Terminal` |
| string helpers (bootloader_tty.h 19-59, 141-176) | none | `strlen`, `strcpy`, `strcat`, `num_digits`, `to_hex_str` | modelled: `CString`, `HexString` |
| kernel terminal (kernel/core/include/tty.h) | a second set of the same globals | the same functions | modelled: a second instance of `Terminal` in `BootScreen` |
| C kernel (`k_main`) | copies of the framebuffer record and the map pointer | eight pixels, one line of text, infinite loop | modelled: `BootScreen` |
| Rust kernel (`_start`) | none | clears the screen, eight pixels, infinite loop | modelled: `Kernel` |
| paging tables (paging.h) | page directory, first page table | `initPageDir`, `initPage` (calls commented out, 209-211) | modelled: `PagingTables` |
| gnu-efi start-up (gnu-efi/gnuefi/reloc_*.c) | the image itself | `_relocate`, before `efi_main` | modelled for the six architectures in C: `Relocation` |
| gnu-efi, linked (gnu-efi/lib) | pool, events, protocol database, print buffers | `LibFileInfo` and its `GrowBuffer` loop, installing and searching protocols, device paths, `Print`, `WaitForSingleEvent`, `Input` | partly: `GrowBuffer`, `ProtocolInterfaces`, `HandleSearch`, `DevicePaths`, `PrintEngine`, `PoolPrint`, `WaitEvent`, `BootOrder` |
| gnu-efi, not linked | the simple read handle | `OpenSimpleReadFile`, read, close, and unrelated helpers | partly: `SimpleRead` |
| fonts; build scripts | | | not modelled: data, and not code of the running system |
| the firmware, the user | memory map, its key, boot services, keyboard | allocate, free, refuse, press | external: `UefiMemory`, the events in `Bootloader` |

How they interact.  `efi_main` is one thread.  It calls the firmware, and between
and during those calls the firmware runs event notifications of its own, which
allocate and free memory and so change the memory map and its key; this is the
only real concurrency of the system, and it ends when `ExitBootServices`
succeeds (283).  Until then text goes through the firmware (`Print`), after it
through the loader terminal, which writes pixels.  The kernel is called with the
framebuffer record and the map (406) and uses a terminal of its own on the same
screen.

What is hard, and what makes each part correct:

* *The memory map protocol* (264-284) is a check-then-act sequence over state the
  firmware changes: measure the map, allocate a buffer (which changes the map),
  read it with its key, exit with that key.  Correct means: the kernel gets the
  map as it is at the moment boot services end; the pages of the kernel and
  those of the buffer are marked as in use in it; and the two descriptors of
  slack are enough for what the loader itself allocates.
* *Partial failure*: many calls have no check (195-205, 257, file_handling.h 9-10),
  one check tests a `Status` that is overwritten before it is returned (103-105).
  Correct means: the loader comes back only for a failure it has looked at, follows an
  unset pointer only where a check is missing, and always ends somewhere.
* *After the exit there is no way back*: nothing may call the firmware or return
  to it.
* *The library's loops over the firmware*: `GrowBuffer`'s callers ask for objects that
  change between two calls; `LibInstallProtocolInterfaces` undoes what it has done when
  a later step fails; a wait races a key, a timer and a notification function that takes
  the key.  Correct means: whole objects, nothing leaked, all or nothing, and a key that
  stays ends the wait.
* *Two terminals on one screen*: the kernel writes over a screen it has not cleared.
  Correct means: every message is on the screen, and no error message is overwritten.  The
  kernel's text keeps to that; its eight pixels do when all header checks pass, and fall into the second
  character of a failed check's message and of the advice below it when one fails.
* *Bounds*: `numPages` rounds down and relies on `PRE_ALLOC` (221); the terminal
  wraps one column late and never scrolls.  Correct means: the file fits into
  the pages; text is legible and inside the framebuffer;
  strings, print buffers and device path blocks are never left (section 4 names the two calls that do).

`PROJECT.json` lists each hazard at its line, with the properties that watch it.

## 2. The modules

| module | models | proofs |
|---|---|---|
| `UefiMemory` | the firmware's map of page types, descriptors, allocation | `Bootloader_proof` |
| `Handoff` | abstract: machine and exact map change hands in one step | |
| `Bootloader` | `efi_main`, `wait_for_input`, `FileSize`, firmware events, the user | `Bootloader_proof` |
| `Terminal` | the loader terminal, pixel by pixel | `Terminal_proof` |
| `BootScreen` | the messages of the loader, its terminal, `k_main` and the kernel's terminal on one screen | `Terminal_proof` |
| `Kernel` | `_start` of the Rust kernel | `Machine_proof` |
| `CString` | `strlen`, `strcpy`, `strcat` | `Strings_proof` |
| `HexString` | `num_digits`, `to_hex_str` | `Strings_proof` |
| `PagingTables` | `initPageDir`, `initPage`, the walk of the processor | `Machine_proof` |
| `Relocation` | `_relocate` | `Machine_proof` |
| `GrowBuffer` | `GrowBuffer` and the six functions that loop over it | `Reads_proof` |
| `AtomicRead` | abstract: the object is read in one step, or not at all | |
| `ProtocolInterfaces` | installing, reinstalling and uninstalling protocols | `Hand_proof` |
| `AtomicInstall` | abstract: all interfaces appear in one step, or none | |
| `HandleSearch` | `LibLocateProtocol`, `LibLocateHandleByDiskSignature` | `Hand_proof` |
| `DevicePaths` | composing device paths | `Hand_proof` |
| `SimpleRead` | `OpenSimpleReadFile`, `ReadSimpleReadFile`, `CloseSimpleReadFile` | `Reads_proof` |
| `PrintEngine` | `_Print`: the parser of formats, the buffer, the attributes | `Console_proof` |
| `PoolPrint` | `_SPrint`, `_PoolPrint` and their callers | `Console_proof` |
| `WaitEvent` | `WaitForSingleEvent`, `WaitForEventWithTimeout`, `IInput` | `Console_proof` |
| `BootOrder` | `LibInsertToTailOfBootOrder`, `LibDeleteVariable` | `Reads_proof` |
| `ProofBasics` | lemmas the proofs share: division, induction over numbers, loops as functions | itself |
| `MCBootloader` | constants for TLC, and the bound on second events | |
| `MCTerminal`, `MCKernel`, `MCPagingTables`, `MCDevicePaths` | constants for TLC | |
| `MCBootScreen` | any terminal calls on small screens, or a whole boot on a real one | |
| `MCFunctions` | one call of any one of the fourteen modules that stand alone | |

Which module composes which: `Bootloader` extends `UefiMemory` and instantiates
`Handoff`; `BootScreen` extends `Terminal` and instantiates it again for the kernel;
`GrowBuffer` instantiates `AtomicRead`, `ProtocolInterfaces` instantiates
`AtomicInstall`.  `MCFunctions` extends `Kernel`, `CString`, `HexString`,
`PagingTables`, `Relocation` and the nine modules of gnu-efi/lib; their variables
have different names, a behaviour starts in one of them and stays there, and in that time the
`...Off` predicates hold the variables of the others.  They share no state
in the code either.

### UefiMemory
A map is a function from pages to memory types.  A descriptor is a maximal run of
pages of one type, so the number of descriptors is the number of pages at which
a run starts.  `Convert` is what an allocation or a release does.  The firmware
is not in the repository: this is what `efi_main` relies on.  Attributes are
left out (nothing reads them), and the many firmware types are one,
`BootServicesData`.

### Bootloader
`pc` names the firmware call `efi_main` makes next, one action per call, each
with the code that follows it up to the next call.

| actions | lines |
|---|---|
| `ConOutCheck`, `ResetConIn`, `ReadKeyStroke` (with `Resume`, the return from `wait_for_input`) | 50-58, 93-116 |
| `LocateGop`, `QueryMode`, `ListMode`, `ModesListed` | 119-183 |
| `HandleImage`, `HandleVolume`, `OpenVolume`, `OpenKernel` | 186-205 |
| `FileSize`, `AllocatePages`, `Read` | 213-260, file_handling.h |
| `MapSize`, `AllocatePool`, `GetMemoryMap`, `ExitBootServices` | 262-284 |
| `ParseHeader`, `Jump`, `KernelReturns` | 286-417 |
| `FirmwareEvent`, `PressKey` | environment |

How the data are abstracted.  A file is its size, the set of header checks it
passes, and whether its first byte is an instruction of the kernel (true of a
flat binary, never of an ELF file).  A pool or page allocation takes any free
run; the pool takes 0 to `PoolPages` pages, 0 when it fits into pages the
firmware's pool already has.  `numModes` is any number from 1 to `MaxModes`.
A pointer that no call has filled in and that the code then follows leads to
`pc = "Undefined"`; a jump to bytes that are no kernel leads to `"Derailed"`,
from where `KernelReturns` may lead to the loop at 413.  `Faulty` is the set of
calls that may fail, and a call in it still may succeed.  `Print` and
the drawing under `DEBUG_BL` change nothing the loader reads and are left out;
the terminal calls after the exit are the subject of `Terminal`.

`events`, `disturbed` and `refused` are there for the bound and the properties: `disturbed`
says that an event has come since the sizing call, `refused` of what kinds the failures so far
were: `"checked"`, a failure the loader looks at, and `"pointer"`, one it does not look at and that
leaves a pointer unset.

### Terminal
A pixel is its offset in the framebuffer, so that two pixel positions with one
address are one pixel, which is what matters about the last column.  `ink` is
the set of lit pixels; a character may light its whole square.  `terminal_write`
is one action per character; the `break` after a newline (119) is in `NewLine`.
A string is a sequence of characters of which only `"NL"` matters.

### BootScreen
`script` holds the messages the loader has still to write: "Loading kernel...", and for
each header check that fails (286-372) its text and the advice to power off.  As no
failed check stops the boot, all four may be there.  `Jump` runs `k_main` up to its
terminal: it writes the eight pixels (`marks`).  The kernel's terminal is the instance
`KernelTty` with variables of its own; `k_main` initialises it and never
clears (kernel.c 51-58), which `NotCleared` says.  `BootScreens` are the modes a boot may
find, and `BootScreenAssumption` says of them and of the messages what the theorems need.  `draw_byte` is never called.  A
file that is no kernel may return, and the loader writes two more messages (413-417).

### Kernel
The only part of the C and of the Rust kernel with a state of its own.  A pixel is its offset.
`ClearRow` is one round of main.rs 31-35, `Marks` the eight pixels.  Both kernels are passed the
memory map and read nothing of it, so there is no map here.

### CString, HexString, PagingTables
Pure functions with their real address arithmetic.  In `CString` a pointer is an address of
a small memory, so that buffers touch and overlap and the test of line 31 means
something; reading or writing outside of it is `"wild"`.  In `HexString` integers
wrap at `WordSize`, and `BasePower` and `ValueOf`, the reference, do not.  In `PagingTables` the frames of the tables hold anything before, and
`Walk` is what the processor would do with them.

### Relocation
`ScanTag` is one entry of the dynamic section, `CheckTags` the two tests behind the loop,
`ApplyEntry` one relocation, `RelocateGot` the loop of the MIPS version.  The six
architectures are one module: a record says which tags are needed, whether the
addend is in the word or in the table, whether an unknown type is skipped or ends in a
loop.  A word is how often `ldbase` has been added to it, and the rest.

### GrowBuffer
`growPc` goes from `"grow"` (a call of `GrowBuffer`) to `"call"` (the firmware) and back.
The six callers differ in the size they start with, in whether the buffer
changes the object (the memory map, which every allocation may lengthen by two
descriptors) and in what they do with the count.  `ObjectChanges` may come between any two steps.

### ProtocolInterfaces
`db` is the protocol database.  `RaiseTPL` ends the time in which other code runs
(`OtherCode`), `RestoreTPL` begins it again; in between come one action per entry of the list,
the failure, and the loop that undoes.  `LibReinstallProtocolInterfaces` hands the
firmware the address of the handle variable (hand.c 606), so its first call fails;
`ReinstallHandle` says so.  `LibUninstallProtocolInterfaces` raises nothing and stops at no error.

### HandleSearch, DevicePaths, SimpleRead
`HandleSearch`: handles lose and gain the protocol between two questions; `clears` says
whether the firmware clears the interface on a failure, which hand.c relies on.
`DevicePaths`: a path is a sequence of nodes with lengths, so that blocks have sizes and
a reader stops at the first end.  `DevicePathInstance` gives up on an instance of more than 512 nodes
(dpath.c 75-82); `DevicePathAssumption` keeps the paths below that (`BogusCount`).  `SimpleRead`: the three ways to a file, with a failure at each call.

### PrintEngine, PoolPrint
`_Print` is one action per character of the format; a conversion prints any of a few
texts, and what the formatters behind it compute is left out.  `X` is there for what it does to the
field: it sets the width to 8, or 16 after `l`, and the padding to `0`, over what the format gave
(`ItemWidth`, `ItemPad`).  A character in the
buffer keeps the attribute it was put in; `plain` says that no field has named two attributes
and no directive has changed the attribute for good, which only `AttributeOfField` reads.  `PoolPrint` is the sink behind it: the n-th character
is the number n, so that order, gaps and losses show.  A caller's string is as long as its size says,
and as long as need be for a size of 0 only, so that a limit that wraps around shows as `wild`.

### WaitEvent
`TypeKey`, `TakeKey` and `ExpireTimer` are the environment, the other actions one firmware call
each.  `Timeout` is not counted down (event.c 143-152), so it never changes.

### BootOrder
A variable is its bytes.  The read is one step (`LibGetVariableAndSize`, which `GrowBuffer`
shows to implement `AtomicRead`), the write another, and `OthersSetOrder` may come in
between.  `misread` says that what was read is not, or no longer, what is stored.

### Conventions
The definitions whose name says what is wrong with them (`MapSlackOfOne`,
`PoolTypeOfFirmware`, `NextRowMissing`, ...) are plausible bugs.  No
specification uses them; `PROJECT.json` substitutes each for the definition it
follows to show that the property beside it notices.

## 3. The runs

| run | checks | shows |
|---|---|---|
| `Boot` | `TypeOK`, `UndisturbedBootNeverBouncesBack`, `KernelAndMapProtected`, `ReadStaysInPages`, `NoReturnAfterExit`, `EndsForAReason`, `HandsOver`, `LoaderDecides` | every call may fail and events come anywhere: the map protocol is right and implements `Handoff`; the loader comes back only for a reason, never once boot services are gone; and it ends |
| `TerminalText` | `TypeOK`, `NoOverprint`, `InFramebuffer`, `EveryMessageOnScreen`, `KernelSparesMessages`, `MessagesOnFreshLines` | text is legible and in the framebuffer; in a whole boot every message of loader and kernel is on the screen, each of the loader's on a line of its own; the kernel's text falls on "Loading kernel..." only, its pixels on no message if every check passes |
| `Functions` | the 26 properties of the next table | one call of any function that stands alone |
| `StopOnHeader` | `HeaderErrorStopsBoot` *(violated)* | finding 1 |
| `KeyCheck` | `KeyCheckPassed` *(violated)* | finding 2 |
| `LoadKernel` | `KernelIsLoaded` *(violated)* | finding 3 |
| `EnterKernel` | `AcceptedKernelRuns` *(violated)* | finding 4 |
| `DroppedText` | `WholeStringWritten` *(violated)* | finding 5 |
| `ClearScreen` | `ScreenCleared` *(violated)* | finding 6 |
| `Strcpy` | `StrcpyCopies` *(violated)* | finding 7 |
| `Paging` | `MapsFirstPages` *(violated)* | finding 8 |
| `AppendEach` | `AppendsToEachInstance` *(violated)* | finding 9 |

| module | properties in `Functions` |
|---|---|
| `Kernel` | `ClearsSquareScreens`: on which screens the transposed loop of main.rs is right |
| `CString` | `StrcpyIsSafe`: no overlap makes it run away; `StrcatOnlyTerminates` |
| `HexString` | `DigitsWritten`: the count is right, `power` never wraps on the way, and the digits stand for the number |
| `PagingTables` | `TablesFilled`: the first table is the identity map, the others are absent |
| `Relocation` | `PointersMovedOnce` |
| `GrowBuffer` | `NothingLeaks`, `WholeObjectReturned`; refinement `ReadsAtomically`; liveness `CallReturns` |
| `ProtocolInterfaces` | `AllOrNothing`, `UninstallsWhatItCan`; refinement `InstallsAtomically` |
| `HandleSearch` | `SearchFinds` (`FindsTheDisk` and `FindsSteadyProtocol`) |
| `DevicePaths` | `PathsComposed`: every call but the two that do something else than they promise |
| `SimpleRead` | `SimpleReadLeaksNothing`, `HandleReadsFile` |
| `PrintEngine` | `AttributesRight`, `OutputKept`; action property `FieldFilled` |
| `PoolPrint` | `WritesInBounds`: outside only where the limit has wrapped; `KeepsText` |
| `WaitEvent` | `StringIsEchoed`, `TimeoutsAreOwn`; liveness `KeyEndsWait` |
| `BootOrder` | `OrderSafe`: which options and which memory may be lost, and when |

Bounds of the boot.  `NPages = 6`, `PAGE_SIZE = 2`, `PRE_ALLOC = 1`: a three-byte file takes
two pages, which leaves room for a one-page pool with free pages on both sides
(the case of two new descriptors), next to a neighbour, or at the end of memory;
a twelve-byte file does not fit at all.  The initial maps put the firmware's pages
nowhere, at the bottom, and in the middle, and one puts the loader's own image next to
where the pool may go, so that allocation splits runs and joins them.
`PoolPages = 1` (the map of a real machine is a few kilobytes).  `MaxEvents = 2`
lets one event fall before and one after the call that reads the map, or one undo the other; `BootNext`
of `MCBootloader` allows the second only while nothing has failed, because states multiply with the
faults.  `MaxEvents` is 0 in the violation runs, which need none.  `StopOnHeader` and `EnterKernel` run on firmware
without faults, and each has one file: a 32-bit ELF file for another machine, and the ELF file build.sh
installs.  `MaxModes = 2` lets the mode
loop fail in its first and in a later round.  `SmallJunk` is a
size that a read through NULL may give: above that of two files and below that of the third.

Bounds of the screen.  Characters of 2 by 2 pixels, three small screens (no padding,
padding narrower than a character, padding wider), and four calls (`FreeCalls`) of up to three
characters fill more than one line and run past the last row.  The whole boot runs on
160 by 120 pixels, which has the lines and columns of 640 by 480 at eight
pixels a character, with messages as long as the literals in the code; `MaxCalls = 20` is
more than the eleven messages there are.

Bounds of the functions.  A call is short, so every input of a small size is tried: all memories of
four bytes with every pair of pointers; all 8-bit numbers in the bases 2, 4, 10 and 255, where 255 is one
whose second power would wrap to 1, were it taken, in buffers of up to 6; tables of three entries with any contents; every order of the
three tags, sections with one missing, and any table of two relocations; objects smaller and larger than the first size,
changing twice, so that a buffer is too small again after it was grown; lists of two
entries on two handles, one event, so that the second of two fails and the first is
undone; device paths of up to three nodes with empty instances; all formats of up to three
characters and some that combine directives, on consoles of attribute 0, 7 and 31, with a buffer of four
characters, so that it fills inside a field; string sizes from 0 bytes on, with
printed text of 9 characters in flushes of up to 3; four keys, a buffer of up to three,
one key taken by somebody else, one failing `CreateEvent`; a boot order of up to two options, also of odd
sizes, set twice by others.

`CHECK_DEADLOCK FALSE` is in the boot configurations because the loader really
stops (it returns, it is in its endless loop, it has left for the kernel), in the
terminal's because the messages come to an end, and in `Functions` because a call does.

Fairness.  In `Boot`: weak fairness of `Loader`, as the processor
keeps executing `efi_main`, and of `PressKey`, as the user is asked for a key and
presses one in the end.  A key that is typed before `Reset` is lost with it,
which is why `PressKey` must be fair and may happen again.  `FirmwareEvent` and
`KernelReturns` have no fairness.  `LoaderDecides` does not hold without a key, and
the code does not claim it.  In `Functions`: weak fairness of `GrowLibrary` and
`WaitLibrary`, the processor again, and of `ExpireTimer`, as the firmware's clock runs.  Objects need
not change, no notification function need run, and nobody need type: `KeyEndsWait` is about a
key that is there and stays.  `CallReturns` rests on the bound of changes: an
object that grew for ever would keep the loop going, and the code
does not claim otherwise; that the memory map ends it although every buffer adds to the map is the
point of the property.

## 4. Findings

1. `StopOnHeader`: after "Stopping boot!" (322, 335, 351, 367) the loop that stops is
   commented out (326, 339, 355, 371), so the file is jumped to.
2. `KeyCheck`: "All sanity checks passed" (116) is printed also when
   `ReadKeyStroke` failed: nothing reads the `Status` of `wait_for_input`.
3. `LoadKernel`: "Loaded kernel at address" (260) is printed also when `Read` failed (257).
4. `EnterKernel`: the jump goes to the first byte of the file (405-406), not to
   `prog_entry`, so the ELF file that `build.sh` installs is entered at its magic
   number although it passes every check.
5. `DroppedText`: `terminal_write` ends at a newline (bootloader_tty.h 119), although it
   "writes the string `data` of length `length`" (100).
6. `ClearScreen`: below "Clear screen" (main.rs 29) the loop writes to `x * pitch + y` (33), so on
   a screen wider than high the right part stays as it was.  `ClearsSquareScreens` says where the loop is right.
7. `Strcpy`: "Error if src and dest overlap" (bootloader_tty.h 30), but the test of line 31 refuses
   every source above the destination by its first half and every one below by its second, whether they share a byte
   or not.  What is left is an empty string on itself: `strcpy` copies no
   byte but a 0 onto itself, and `strcat` writes only its terminator (`StrcatOnlyTerminates`).
8. `Paging`: "Map pages to the beginning of physical memory" (paging.h 22), but line 34 puts the first
   entry of the table where the table's address belongs, so the processor would walk frame 0.
   `TablesFilled` says what is right about the tables.
9. `AppendEach`: "Src2 is appended to each instance is Src1" (dpath.c 130), but every copy keeps its own end
   node (182-183), so a reader stops behind the first instance, and for more instances the block may be too small (166).

No text of the loader is hurt by 5: every newline in it is the last character of
its string.

Other things a reader of the code will want to know.  But for the comment on `Pad` the models contain them, and a
passing property states their extent:

* `UnicodeVSPrint` computes `StrSize / sizeof(CHAR16) - 1` (print.c 459), which for a size of 1 wraps to no
  limit: a text then leaves a string of one byte, although by the doc (442-443) only 0 means no
  limit; and `AsciiVSPrint` hands its own size on, so 0 and 1 do the same there.  `LimitWraps` names these cases, and `WritesInBounds`
  says that there are no others.
* The line wraps after column `consoleWidth` (bootloader_tty.h 126), of which no pixel is on the screen unless the width
  leaves a remainder (69-70).  Without padding the pixels fall on the left margin of the following line of
  pixels; `NoOverprint` shows that this margin is free because the cursor starts in column 1.
* `Pad` of kernel/core/include/memory.h 11 has 64 bits where the comment of line 10 speaks of 32, so every field behind it is
  at another offset than in the firmware's map.  The C kernel reads no field, so nothing comes of it yet.
* `to_hex_str` writes no digit for 0, and puts the terminator at the end of the
  buffer instead of behind the digits.
* `LibReinstallProtocolInterfaces` passes `Handle` for `*Handle` (hand.c 606), so no
  interface is ever reinstalled (second conjunct of `AllOrNothing`).
* `LibDuplicateDevicePathInstance` puts the end behind the first node of its copy (dpath.c 1256), so of an instance of
  several nodes one is left.  `PathsComposed` leaves this call and the append of finding 9 out (`DuplicatesFirstNode`, `AppendsToSeveral`).
* `Timeout` is not counted down (event.c 143-152): the default key comes only to a caller that
  passes 0.
* `LibInsertToTailOfBootOrder` takes every failed read for an empty order and
  replaces what is there, and it does not free what it read when it gets no memory
  (misc.c 379-390): the exceptions in `OptionsKept` and `ArraysFreed`.
* When the pool fails, `_PoolPrint` loses the text so far and goes on with what follows
  (print.c 376-391): `EndOfText`.  With a size of two or three bytes a string keeps no terminator.
* A field that the format does not finish makes `_Print` read on behind the format
  (`"overrun"`); `%N`, `%H`, `%E` mean nothing in a string and the field goes on; `-` moves only
  the padding of the field width, not that of the width.
* `%n`, `%h` and `%e` hold "for this field only" (print.c 1052-1054), but two of them in one field
  leave the first behind the field, as `RestoreAttr` keeps the last; and on a console whose attribute is
  0, black on black, the first one stays for good, as 0 says that there is nothing to restore:
  the antecedents of `AttributeOfField`.
* A MIPS image without RELENT hangs in the loop, a RISC-V image with an unknown relocation
  type in a loop of its own (`PointersMovedOnce`, last conjunct).

## 5. The proofs

TLC shows a property for a small instance; TLAPS shows it for every value of
the constants that satisfies the assumptions of the module.  All invariants and all refinements
the passing runs check are theorems.  The proofs are in eight modules, by part of the system:

| module | proves about | theorem | states |
|---|---|---|---|
| `Bootloader_proof` | `UefiMemory` | `AllocationAddsAtMostTwo` | an allocation adds at most two descriptors |
| | `Bootloader` | `TypeCorrect` | `TypeOK` |
| | | `NeverBouncesBack` | `UndisturbedBootNeverBouncesBack` |
| | | `Protected` | `KernelAndMapProtected` |
| | | `ReadFits` | `ReadStaysInPages` |
| | | `NeverReturnsAfterExit` | `NoReturnAfterExit` |
| | | `EndsWithReason` | `EndsForAReason` |
| | | `Refinement` | `Spec => Abstract!HandoffSpec` |
| `Terminal_proof` | `Terminal` | `TypeCorrect` | `TypeOK` |
| | | `Legible` | `NoOverprint` |
| | | `StaysInFramebuffer` | `InFramebuffer` |
| | `BootScreen` | `MessagesOnScreen` | `EveryMessageOnScreen` |
| | | `FreshLines` | `MessagesOnFreshLines` |
| | | `MessagesSpared` | `KernelSparesMessages` |
| `Machine_proof` | `Relocation` | `RelocatesOnce` | `PointersMovedOnce` |
| | `PagingTables` | `TablesAreFilled` | `TablesFilled` |
| | `Kernel` | `RustKernelClears` | `ClearsSquareScreens` |
| `Strings_proof` | `CString` | `StrcpySafe` | `StrcpyIsSafe` |
| | | `StrcatWritesTerminator` | `StrcatOnlyTerminates` |
| | `HexString` | `HexDigitsWritten` | `DigitsWritten` |
| `Reads_proof` | `GrowBuffer` | `GrowTypeCorrect` | `GrowTypeOK` |
| | | `GrowLeaksNothing` | `NothingLeaks` |
| | | `GrowReturnsWhole` | `WholeObjectReturned` |
| | | `GrowReadsAtomically` | the refinement `ReadsAtomically` |
| | `BootOrder` | `OptionsStaySafe` | `OrderSafe` |
| | `SimpleRead` | `OpenLeaksNothing` | `SimpleReadLeaksNothing` |
| | | `ReadsInsideSource` | `HandleReadsFile` |
| `Hand_proof` | `ProtocolInterfaces` | `InstallAllOrNothing` | `AllOrNothing` |
| | | `InstallIsAtomic` | the refinement `InstallsAtomically` |
| | | `UninstallsTheRest` | `UninstallsWhatItCan` |
| | `HandleSearch` | `SearchesFind` | `SearchFinds` |
| | `DevicePaths` | `ComposedAsPromised` | `PathsComposed` |
| `Console_proof` | `PoolPrint` | `StringWritesStayIn` | `WritesInBounds` |
| | | `StringKeepsText` | `KeepsText` |
| | `WaitEvent` | `TimersStayOwn` | `TimeoutsAreOwn` |
| | | `InputIsEchoed` | `StringIsEchoed` |
| | `PrintEngine` | `PrintKeepsOutput` | `OutputKept` |
| | | `PrintKeepsAttributes` | `AttributesRight` |
| | | `PrintFillsFields` | the action property `FieldFilled` |
| `ProofBasics` | | | the lemmas above are shared from here |

The assumptions, each named in its module and evaluated by TLC in every run.  Of the
boot (`NPagesAssumption`, `LoaderAssumption`, `ElfAssumption`, `TerminalAssumption`): sizes are natural
numbers, pages and characters are not empty, at least one page is allocated
beyond the image, the initial map is a map, an ELF file does not begin with an
instruction of the kernel, and a screen is at least one character wide and not
wider than its pitch.  `BootScreenAssumption`: the newline of each message of the loader is its last
character, all messages are shorter than a line, and the screen has twelve rows, one more than the
loader writes at most.  The literals of bootloader.c and the smallest mode the firmware offers make it so; a narrower
screen would wrap messages and the three theorems would need another argument.  Of the library
(`GrowBufferAssumption`, `ProtocolAssumption`, `WaitEventAssumption`, `SimpleReadAssumption`,
`RelocationAssumption`, `HandleSearchAssumption`, `PrintEngineAssumption`, `PoolPrintAssumption`,
`BootOrderAssumption`): sizes are natural numbers; objects, first buffers, flushes and the string of
`Input` are not empty; a file, a string and twice the text are smaller than the largest integer; there are finitely many
handles; the print buffer holds at least one character and its NUL; an option is two bytes; and
the values that stand for NULL and the like are no others.  `DevicePathAssumption`: a path ends with its first
"end", has at most 512 nodes (see `BogusCount`), and nodes are not empty.  `CStringAssumption`, `HexStringAssumption`, `PagingAssumption`,
`KernelAssumption`: memory is not empty, radixes are at least 2, the tables do not lie in frame 0, a screen is
not wider than its pitch.

*Two descriptors.*  Converting a run can make a start only of its first page and of the
page after its last, so `Starts` of the new map lies within `Starts` of the old one
and two more pages; the library's facts on cardinality do the rest.  This settles the
question the comment at 271-272 leaves open ("Not sure if ...").

*The boot loader.*  None of the safety properties is inductive.  The invariant is
`IInv`, the conjunction of

* `TypeInv`: `TypeOK`, and that a wait for a key always has a place to go on at;
* `KernelInv`: from `Read` to the exit the kernel's pages are of type
  `LoaderCode`, and so for the pool's pages; events take only free pages and
  the firmware's own, so they cannot take these;
* `KeyInv`: `mapKey <= fwKey`, and if they are equal the copy is exact.  This is
  what gives the key check its meaning: every change of the map raises the key, so
  an equal key means that nothing has changed since;
* `UndisturbedInv`: without an event, what each step of the protocol needs (the
  size is exact, then sufficient, then the key is current); the step from exact to
  sufficient is `AllocationAddsAtMostTwo`;
* `ExitInv`: past the exit the copy is the memory.

`FailureInv` adds to `EndsForAReason` that a handle is unset only after a failure nobody looked at, and that a wait for
a key other than the one of the keyboard check has a checked failure behind it.  For `Refinement`, every
step but a successful `ExitBootServices` maps to `FirmwareRuns` or to a stutter,
and that one to `HandOver` by `KeyInv`.

*The terminal.*  `InkInv` says that every lit pixel belongs to a glyph at a place before
the cursor in reading order, `OldInkInv` that until the clearing every lit pixel is on
the screen.  `NoOverprint` then needs that glyphs of different places are disjoint,
also for the column that wraps onto the next line: the pixel columns of characters
run from `CHARACTER_SIZE` to less than `CHARACTER_SIZE + pitch`, one pitch wide though
shifted, so by `DivisionUnique` an offset determines line and column, and by
`GlyphsDisjoint` the character.  This is where the cursor's start in column 1 matters.

*Buffers that grow.*  `GrowInv` adds to the type invariant what each place of the loop
knows: exactly the buffer in hand is allocated; in the call `BufferSize` is what it was
asked for; after a success `content` is an object that fits and `BufferSize` is what it
needs; too small is reported only with a buffer in hand.  The step to `AtomicRead` is the
successful firmware call, which reads `object` and makes `Result` that value; all the
others leave `Result` pending, and an error that frees the buffer makes it NULL.

*All or nothing.*  `InstallInv` says what the database is at every moment: in the loop that
installs it is `dbBefore` with the first entries of the list on one handle; in the loop
that undoes it is `dbBefore` with the entries still to be undone (`RollbackInv`).  It needs that
nothing else runs at the raised priority, and that no two entries of a list that was
installed name one protocol, as the second would have failed.  For the refinement the database others
see is `dbBefore` while the priority is raised, and the step is `RestoreTPL`.

*Waiting.*  `WaitInv` ties the timer to the place in `WaitForSingleEvent`, the default key to
`Timeout = 0`, and the screen to the string.

*Simple read.*  `ReadInv` says which handle is open at which place, and that the copy is
allocated exactly while `FreeBuffer` says so.  The arithmetic of the read is that a wrapped
end needs an offset and length beyond the largest integer.

*Relocation.*  `RelInv` says that after `n` entries a word has been moved exactly if it is in the
global offset table or one of the first `n` entries names it (`Moved`, `ImageIs`); with at most one
entry per word, once.  It holds for every order of tags because the scan only collects a set.

*The whole boot on one screen.*  `BootInv` counts lines: the line of the cursor, the messages still to come and
the two that follow a program that returns are never more than twelve (`LinesInv`), which needs what
`LoaderScript` is made of; within a message the column is the number of the character (`LineInv`),
so no line wraps; and each lit pixel belongs to a place before the cursor, on line 1 to "Loading kernel..."
(`BootInkInv`).  The kernel's terminal runs when the loader's has stopped and stays on line 1
(`KernelInv`).  As glyphs of different places are disjoint, the kernel can meet only the first message.

*The Rust kernel and the paging tables.*  After y rounds the loop has written the transposed pixels of y rows.  On a square
screen the transposed pixel of (x, y) is the pixel of (y, x) (`TransposedSquare`), and where the screen is no wider than high
and no higher than its pitch no offset reaches the end of the framebuffer (`TransposedBounds`).
For the tables the invariant says which entries are written; those of the directory beyond the first stay without a table.

*Sums, powers and loops.*  `strcat`'s offset, the powers of `num_digits`, the value of a string of digits and the size of a path
are recursive functions.  The library's induction theorems have an operator as a parameter and are of no use here, so
`ProofBasics` states induction for a set of numbers (`NaturalSetInduction`, `BoundedInduction`), from the fact
that numbers have a least one; `LoopExists` builds with it a function of all the values of a loop, which is
what a proof needs before it may use the equation of a recursive function.

*Strings.*  `StringInv` says that `strcpy` has accepted at most the empty string on itself, so the copied
byte is the 0 that is there (`AcceptedIsEmpty`), and with it `StrcpyIsSafe`; for `strcat` that `strsize` is the sum of the lengths of the arguments done.
`HexInv`: the power is that of all digits but one and at most the number, so the product that might wrap
is never taken; after w digits `hexN` is the number divided w times and the last w places hold its
remainders; multiplying back gives the number.

*The boot order.*  As long as nothing came in between, what was read is what is stored; the new array is
the old one and the option.  The exceptions are those of `OptionsKept` and `ArraysFreed`.

*Searching.*  The first rounds of `SearchInv` are those the property needs: the entries of the list follow the answers of
the handles asked so far, and a protocol nobody took away has not been missed.  That the matching
part of the list is kept, in order and whole, is induction over the loop that compacts it (`MatchLoop`).

*Uninstalling.*  For an entry behind the loop: its interface is gone, or it was not removable.

*Device paths.*  The size of a path is a sum over its nodes, which is additive (`TotalConcat`).  `PathInv` says that after j
instances of `Src1` what is written and what is left are as long as `Src1` and j times `Src2`
(`Written`), and that the first instance and `Src2` are in front (`InFront`).  As j is at most the number of
instances, the block is too small only for several instances (`AppendFits`, `FitsOrOverruns`).  The invariant is about what
every call builds (`Built`); that this is what it promises is `OneInstance` for the append and
`OneNodeInstance` for the duplicate, which is why the property leaves out the two other cases.  A reader stops at the first
end (`ReadsPath`), which is that of `Src2`; a path with a new instance begins like the first of its two parts
and continues as the second (`JoinedMatches`).  `UnpackDevicePath` aligns the size after each node and
each node by itself, which is the same because what is aligned stays so (`AlignmentAdds`).

*The print engine.*  `PutInv` holds of buffer and calls between two steps: the buffer has room for its
NUL, every newline has its return, `Length` is what has been put.  A step puts one character after the other
(`Putting`, `PutAll`), so each fact is shown for one `PPUTC` and carried through by `BoundedInduction`; a
flush in the middle moves the buffer to the calls and changes neither their text nor its length.  The
attributes need `StringHasNone` (in a string all attributes are 0) and `FirstAttribute`, what a field has to restore.

*The string sinks.*  `PoolText` says which characters the string has: all that were printed since the pool last failed,
in order.  `CallerHasRoom` is the arithmetic of limits and sizes: it needs four bytes for the terminator, and two (`Sized`) for a limit
that has not wrapped.

Only model-checked: the liveness properties `LoaderDecides`, `CallReturns` and `KeyEndsWait`
(fairness and ENABLED are not in the prover's reach).  `TerminalText` also checks the three properties of
`BootScreen` for terminals that write anything (`FreeInit`), where they say nothing (no message of the loader is due); their theorems are
about `BootSpec`.  The violated properties need
no proof: TLC has the counterexample.

## 6. What is not modelled, and why

The repository has about 31100 lines of code, of which two thirds are no statements:
the protocol and type headers of gnu-efi (efi_pxe.h, efiprot.h, efiapi.h, efilib.h and their like, with
a copy per architecture) and two font tables.  There is nothing in them to take a step.  The map names about
3500 lines, a third of the rest.  What it leaves out:

* Formatters: `DevicePathToStr` with its table of forty-odd node types (dpath.c 473-1207), `ValueToHex`,
  `ValueToString`, `TimeToString`, `GuidToString`, `StatusToString`.  They compute a text from their
  arguments, call nothing and keep nothing.  `PrintEngine` models what
  happens to the text afterwards.
* The string and GUID comparisons of str.c and guid.c, the tables of data.c and
  error.c, the 64-bit arithmetic of math.c: total functions of a few lines each.
* Setters of variables and start-up of the library: `LibSetVariable`,
  `LibSetNVVariable` (misc.c 325-364; one call each), `InitializeLib` (init.c),
  `LibCreateProtocolNotifyEvent` (event.c 22-70).  Section 7 names those worth a module.
* The rest of gnu-efi/lib that nothing in BOOTX64.EFI refers to: cmdline.c, crc.c, debug.c, hw.c, smbios.c,
  runtime and others; and gnu-efi/apps, sample programs.
* Assembly: crt0-efi-*.S, reloc_ia64.S, setjmp and the calling-convention glue.
* Fonts, linker scripts, build scripts.  What build.sh installs as kernel.elf is one of the
  files of `MCBootloader`.
* The width of integers where no quantity comes near it: in the boot loader and the
  terminals sizes and page numbers are 64 bits.  It is modelled where it matters: `HexString`, `SimpleRead`,
  `PoolPrint`.
* The reads of `kernelBuf` up to byte 31 (379-386) of a shorter file: the 100 extra
  pages make them defined reads of unwritten memory, and `prog_entry` is not used.
* Failed `ExitBootServices` calls that have already shut down a part of the
  firmware: what happens then is in the firmware's code only.
* What a program does after it has written outside its memory (`"wild"`, `"overrun"`, `"fault"`,
  `"Undefined"`).

Two hazards of `PROJECT.json` have no property: the status that a late error returns (57) and the
memory that a late return leaves allocated (280).  The model contains both; but no comment, doc or test says what
should be returned or freed, and a property would only repeat the code.

## 7. What is left

* `ValueToString` and `ValueToHex` as functions against a reference, in the manner of `HexString`.
* `LibCreateProtocolNotifyEvent`, which leaves the event open when the registration fails, and
  `InitializeUnicodeSupport` in the manner of `HandleSearch`.

## 8. How to run

    tlc -config Boot.cfg MCBootloader.tla
    tlc -config TerminalText.cfg MCBootScreen.tla
    tlc -config Functions.cfg MCFunctions.tla
    tlapm Bootloader_proof.tla
    tlapm Hand_proof.tla

`Functions` has about 284000 states and takes a minute or two; the longest proof
modules, `Console_proof` and `Hand_proof`, take one to four minutes from nothing.  A configuration belongs to the
module `PROJECT.json` names with it.
