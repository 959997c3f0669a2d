----------------------------- MODULE Relocation -----------------------------
(***************************************************************************)
(* _relocate of gnu-efi/gnuefi/reloc_*.c, which runs before efi_main: it   *)
(* scans the dynamic section for the table of relocations, in whatever     *)
(* order the linker wrote its tags, and adds ldbase to the words the table *)
(* names.  A word of the image is how often ldbase has been added to it    *)
(* and the rest of its value; the linker means word w to hold ldbase + w.  *)
(***************************************************************************)
EXTENDS Integers, Sequences, FiniteSets

CONSTANTS
    Archs,      \* some of the six records below
    Dyns,       \* dynamic sections: the tags in front of DT_NULL
    RelWords,   \* the words of the image
    GotWords,   \* those of them in the global offset table
    MaxRel      \* bound: entries of the table

VARIABLES
    relPc,          \* "scan", "check", "got", "apply", "return", "hang"
    arch,
    dyn, relTable,  \* tags; entries [type, word]
    image, linked,  \* the words, and what they were in the file
    dynIndex,
    found,          \* what the scan has set: rel, relsz, relent, addr, gotsz
    applied,        \* entries of the table that are done
    relStatus

relVars == <<relPc, arch, dyn, relTable, image, linked, dynIndex, found, applied, relStatus>>

\* adds: *addr += ldbase, otherwise = ldbase + r_addend.  got: with a loop over the
\* global offset table.  panics: on another type than RELATIVE.
x86_64   == [adds |-> TRUE,  got |-> FALSE, panics |-> FALSE]
ia32     == [adds |-> TRUE,  got |-> FALSE, panics |-> FALSE]
arm      == [adds |-> TRUE,  got |-> FALSE, panics |-> FALSE]
aarch64  == [adds |-> FALSE, got |-> FALSE, panics |-> FALSE]
riscv64  == [adds |-> FALSE, got |-> FALSE, panics |-> TRUE]
mips64el == [adds |-> TRUE,  got |-> TRUE,  panics |-> FALSE]

ASSUME RelocationAssumption ==
    /\ Archs \subseteq {x86_64, ia32, arm, aarch64, riscv64, mips64el}
    /\ GotWords \subseteq RelWords /\ MaxRel \in Nat

RelOff ==
    /\ relPc = "off" /\ arch = x86_64 /\ dyn = <<>> /\ relTable = <<>>
    /\ image = <<>> /\ linked = <<>> /\ dynIndex = 1 /\ found = {} /\ applied = 0
    /\ relStatus = "SUCCESS"

\* The word of an entry holds its addend, or 0 if the linker left that to r_addend.
RelInit ==
    /\ relPc = "scan" /\ arch \in Archs /\ dyn \in Dyns
    /\ relTable \in UNION {[1 .. k -> [type : {"NONE", "RELATIVE", "OTHER"}, word : RelWords]]
                             : k \in 0 .. MaxRel}
    /\ linked \in {[w \in RelWords |-> <<0, w>>], [w \in RelWords |-> <<0, 0>>]}
    /\ image = linked /\ dynIndex = 1 /\ found = {} /\ applied = 0 /\ relStatus = "SUCCESS"

\* for (i = 0; dyn[i].d_tag != DT_NULL; ++i)
ScanTag ==
    /\ relPc = "scan"
    /\ \/ /\ dynIndex <= Len(dyn)
          /\ dynIndex' = dynIndex + 1 /\ found' = found \cup {dyn[dynIndex]} /\ UNCHANGED relPc
       \/ dynIndex > Len(dyn) /\ relPc' = "check" /\ UNCHANGED <<dynIndex, found>>
    /\ UNCHANGED <<arch, dyn, relTable, image, linked, applied, relStatus>>

\* Neither table nor size of an entry: nothing to do.  One of them: an error.
NothingToDo ==
    /\ found \cap {"REL", "RELENT"} = {}
    /\ arch.got => found \cap {"PLTGOT", "GOTNO"} = {}

Incomplete ==
    \/ ~arch.got /\ Cardinality(found \cap {"REL", "RELENT"}) = 1
    \/ arch.got /\ "REL" \notin found /\ "RELENT" \in found
    \/ arch.got /\ "PLTGOT" \notin found /\ "GOTNO" \in found

CheckTags ==
    /\ relPc = "check"
    /\ \/ NothingToDo /\ relPc' = "return" /\ UNCHANGED relStatus
       \/ /\ ~NothingToDo /\ Incomplete
          /\ relPc' = "return" /\ relStatus' = "LOAD_ERROR"
       \/ /\ ~NothingToDo /\ ~Incomplete
          /\ relPc' = (IF arch.got THEN "got" ELSE "apply") /\ UNCHANGED relStatus
    /\ UNCHANGED <<arch, dyn, relTable, image, linked, dynIndex, found, applied>>

Added(word) == <<word[1] + 1, word[2]>>

\* while (gotsz > 0) { *addr += ldbase; ... }
RelocateGot ==
    /\ relPc = "got" /\ relPc' = "apply"
    /\ image' = [w \in RelWords |->
                   IF w \in GotWords /\ "GOTNO" \in found THEN Added(image[w]) ELSE image[w]]
    /\ UNCHANGED <<arch, dyn, relTable, linked, dynIndex, found, applied, relStatus>>

\* relsz > 0; without its tag the size is 0.
MoreEntries == "RELSZ" \in found /\ applied < Len(relTable)

NextEntry == relTable[applied + 1]

RelocatedWithAddend(word) ==
    IF arch.adds THEN <<word[1] + 1, word[2] + NextEntry.word>> ELSE <<1, NextEntry.word>>
Relocated(word) == IF arch.adds THEN Added(word) ELSE <<1, NextEntry.word>>

ApplyEntry ==
    /\ relPc = "apply" /\ MoreEntries /\ "RELENT" \in found
    /\ \/ /\ NextEntry.type = "RELATIVE"
          /\ image' = [image EXCEPT ![NextEntry.word] = Relocated(@)]
          /\ applied' = applied + 1 /\ UNCHANGED relPc
       \/ /\ NextEntry.type # "RELATIVE" /\ ~arch.panics
          /\ applied' = applied + 1 /\ UNCHANGED <<relPc, image>>
       \/ /\ NextEntry.type # "RELATIVE" /\ arch.panics
          /\ relPc' = "hang" /\ UNCHANGED <<image, applied>>
    /\ UNCHANGED <<arch, dyn, relTable, linked, dynIndex, found, relStatus>>

\* relsz -= relent; with a relent of 0 it never ends.
EndlessTable ==
    /\ relPc = "apply" /\ MoreEntries /\ "RELENT" \notin found
    /\ relPc' = "hang"
    /\ UNCHANGED <<arch, dyn, relTable, image, linked, dynIndex, found, applied, relStatus>>

TableDone ==
    /\ relPc = "apply" /\ ~MoreEntries
    /\ relPc' = "return"
    /\ UNCHANGED <<arch, dyn, relTable, image, linked, dynIndex, found, applied, relStatus>>

RelNext ==
    \/ ScanTag \/ CheckTags \/ RelocateGot \/ ApplyEntry \/ EndlessTable \/ TableDone

RelSpec == RelInit /\ [][RelNext]_relVars

-----------------------------------------------------------------------------
Relative == {k \in DOMAIN relTable : relTable[k].type = "RELATIVE"}
GotDone == IF arch.got /\ "GOTNO" \in found THEN GotWords ELSE {}

\* The table names every word at most once, none that is relocated with the global
\* offset table, and words that are added to hold their addend.
WellLinked ==
    /\ \A j, k \in Relative : relTable[j].word = relTable[k].word => j = k
    /\ \A k \in Relative : relTable[k].word \notin GotDone
    /\ arch.adds => \A w \in RelWords : linked[w] = <<0, w>>

\* reloc_x86_64.c 71-98 and the other architectures: a well linked image that has all
\* the tags of its table starts with every pointer moved by ldbase exactly once and
\* nothing else changed, in whatever order the tags came; an image that is refused is
\* untouched; and no tag of the table is ignored in silence but its size.
PointersMovedOnce ==
    /\ relPc = "return" /\ relStatus = "LOAD_ERROR" => image = linked
    /\ relPc = "return" /\ relStatus = "SUCCESS" /\ WellLinked /\ "RELSZ" \in found =>
         \A w \in RelWords :
            image[w] = IF w \in GotDone \/ ("REL" \in found /\ \E k \in Relative : relTable[k].word = w)
                       THEN <<1, w>> ELSE linked[w]
    /\ relPc = "hang" => arch.panics \/ arch.got
=============================================================================
