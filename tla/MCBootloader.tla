---------------------------- MODULE MCBootloader ----------------------------
(***************************************************************************)
(* Small instances of Bootloader: six pages of memory, pages of two bytes, *)
(* one spare page, and files of one to twelve bytes.                       *)
(***************************************************************************)
EXTENDS Bootloader

M(b) == [p \in Page |-> IF p \in b THEN "BootServicesData" ELSE "Conventional"]

\* The firmware's pages at an end and in the middle, or the loader's own image
\* in the middle: AllocatePool can split a free run or join it to a neighbour.
SmallMaps == {M({0}), M({0, 3}), [M({0}) EXCEPT ![4] = "LoaderData"], M({})}

\* The ELF file build.sh installs, a flat binary, an ELF file that does not fit
\* into memory, and a 32-bit ELF file for another machine.
Elf(size) == [size |-> size, header |-> HeaderChecks, entry |-> FALSE]
Flat(size) == [size |-> size, header |-> {}, entry |-> TRUE]
OtherMachine == [size |-> 2, header |-> {"Magic", "Executable"}, entry |-> FALSE]
SmallFiles == {Elf(3), Flat(1), Elf(12)}
ElfOnly == {Elf(3)}
OnlyOtherMachine == {OtherMachine}

\* A size read through NULL: above the size of two files and below that of one.
SmallJunk == {5}

AllFaults == {"GetInfo", "AllocatePages", "GetMemoryMap", "AllocatePool", "Read",
              "OutputString", "Reset", "ReadKeyStroke", "LocateProtocol", "QueryMode",
              "SetMode", "HandleImage", "HandleVolume", "OpenVolume", "OpenKernel"}

-----------------------------------------------------------------------------
\* Bound: a second firmware event only while no call has failed.
BootNext == Next /\ (events' > events /\ events' > 1 => refused = {})

BootSpec == Init /\ [][BootNext]_vars /\ Fairness
=============================================================================
