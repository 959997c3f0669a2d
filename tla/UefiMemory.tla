----------------------------- MODULE UefiMemory -----------------------------
(***************************************************************************)
(* The physical memory map that the UEFI firmware keeps and that           *)
(* src/bootloader/bootloader.c reads with GetMemoryMap, changes with       *)
(* AllocatePages and AllocatePool, and finally hands to the kernel.        *)
(*                                                                         *)
(* The firmware is not part of the repository.  It is modelled from how    *)
(* efi_main uses it: a page has a type, a descriptor is a maximal run of   *)
(* pages of one type, and an allocation changes the type of a run of free  *)
(* pages.  The attributes of a descriptor are left out: efi_main never     *)
(* looks at them.                                                          *)
(***************************************************************************)
EXTENDS Integers, FiniteSets

CONSTANT NPages        \* number of physical pages

ASSUME NPagesAssumption == NPages \in Nat \ {0}

Page == 0 .. NPages - 1

\* The types that matter to the loader (gnu-efi/inc/efidef.h); the firmware's
\* own allocations are all counted as BootServicesData.
MemoryType == {"Conventional", "LoaderCode", "LoaderData", "BootServicesData"}

Map == [Page -> MemoryType]

(***************************************************************************)
(* A descriptor starts at page 0 and wherever the type changes, so the     *)
(* number of descriptors GetMemoryMap must store is the number of starts.  *)
(***************************************************************************)
Starts(m) == {p \in Page : p = 0 \/ m[p] # m[p - 1]}

NumDescriptors(m) == Cardinality(Starts(m))

\* The pages first, first + 1, ..., n of them.
Run(first, n) == first .. first + n - 1

IsRun(m, first, n, type) ==
    /\ Run(first, n) \subseteq Page
    /\ \A p \in Run(first, n) : m[p] = type

\* The map after the run has been given another type.
Convert(m, first, n, type) ==
    [p \in Page |-> IF p \in Run(first, n) THEN type ELSE m[p]]
=============================================================================
