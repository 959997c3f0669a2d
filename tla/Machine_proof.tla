--------------------------- MODULE Machine_proof ----------------------------
(***************************************************************************)
(* Theorems about what prepares and uses the machine: _relocate for any    *)
(* image and table, the paging tables for any number of entries, and the   *)
(* clearing loop of the Rust kernel for any screen.                        *)
(***************************************************************************)
EXTENDS Relocation, PagingTables, Kernel, ProofBasics, FiniteSetTheorems, TLAPS

-----------------------------------------------------------------------------
(* Relocation *)

LEMMA ArchFacts ==
    ASSUME NEW a \in Archs
    PROVE  a.adds \in BOOLEAN /\ a.got \in BOOLEAN /\ a.panics \in BOOLEAN /\ (a.got => a.adds)
<1>1. a \in {x86_64, ia32, arm, aarch64, riscv64, mips64el}
  BY RelocationAssumption
<1>2. CASE a = x86_64
  BY <1>2 DEF x86_64
<1>3. CASE a = ia32
  BY <1>3 DEF ia32
<1>4. CASE a = arm
  BY <1>4 DEF arm
<1>5. CASE a = aarch64
  BY <1>5 DEF aarch64
<1>6. CASE a = riscv64
  BY <1>6 DEF riscv64
<1>7. CASE a = mips64el
  BY <1>7 DEF mips64el
<1>. QED  BY <1>1, <1>2, <1>3, <1>4, <1>5, <1>6, <1>7

\* The words that are done when the table is done up to entry n.
Moved(n) == GotDone \cup {w \in RelWords : \E k \in Relative : k <= n /\ relTable[k].word = w}

ImageIs(words) == \A w \in RelWords : image[w] = IF w \in words THEN <<1, w>> ELSE linked[w]

\* Both tags of a table have been found, except by the architecture that may have none.
TagsFound == ~arch.got => {"REL", "RELENT"} \subseteq found

\* The inductive invariant: between two entries exactly the words named before are moved.
RelInv ==
    /\ relPc \in {"scan", "check", "got", "apply", "return", "hang"}
    /\ arch \in Archs /\ applied \in Nat /\ Len(relTable) \in Nat
    /\ \A k \in 1 .. Len(relTable) : relTable[k].word \in RelWords
    /\ DOMAIN relTable = 1 .. Len(relTable)
    /\ DOMAIN image = RelWords /\ image = [w \in RelWords |-> image[w]]
    /\ linked = [w \in RelWords |-> linked[w]]
    /\ relPc \in {"scan", "check", "got"} => image = linked /\ applied = 0
    /\ relPc \in {"scan", "check"} => relStatus = "SUCCESS"
    /\ relStatus = "LOAD_ERROR" => relPc = "return" /\ image = linked
    /\ relPc \in {"got", "apply"} => TagsFound
    /\ relPc = "apply" /\ "RELENT" \in found => "REL" \in found
    /\ relPc = "got" => arch.got /\ ("RELENT" \in found => "REL" \in found)
    /\ relPc = "apply" /\ WellLinked => applied <= Len(relTable) /\ ImageIs(Moved(applied))
    /\ relPc = "apply" => (applied > 0 => "REL" \in found)
    /\ PointersMovedOnce

LEMMA OneTag ==
    ASSUME Cardinality(found \cap {"REL", "RELENT"}) # 1,
           found \cap {"REL", "RELENT"} # {}
    PROVE  {"REL", "RELENT"} \subseteq found
<1>1. Cardinality({"REL"}) = 1 /\ Cardinality({"RELENT"}) = 1
  BY FS_Singleton
<1>2. ASSUME "REL" \in found, "RELENT" \notin found PROVE FALSE
  <2>1. found \cap {"REL", "RELENT"} = {"REL"}
    BY <1>2
  <2>. QED  BY <1>1, <2>1
<1>3. ASSUME "REL" \notin found, "RELENT" \in found PROVE FALSE
  <2>1. found \cap {"REL", "RELENT"} = {"RELENT"}
    BY <1>3
  <2>. QED  BY <1>1, <2>1
<1>. QED  BY <1>2, <1>3

LEMMA RelInvInit == RelInit => RelInv
<1>1. SUFFICES ASSUME RelInit PROVE RelInv
  OBVIOUS
<1>2. PICK n \in 0 .. MaxRel :
        relTable \in [1 .. n -> [type : {"NONE", "RELATIVE", "OTHER"}, word : RelWords]]
  BY <1>1 DEF RelInit
<1>3. /\ Len(relTable) = n /\ n \in Nat /\ DOMAIN relTable = 1 .. n
      /\ \A k \in 1 .. n : relTable[k].word \in RelWords
  BY <1>2, RelocationAssumption
<1>4. linked = [w \in RelWords |-> linked[w]] /\ DOMAIN linked = RelWords /\ image = linked
  BY <1>1 DEF RelInit
<1>. QED
  BY <1>1, <1>3, <1>4 DEF RelInit, RelInv, PointersMovedOnce

LEMMA ScanKeeps == RelInv /\ ScanTag => RelInv'
BY DEF RelInv, ScanTag, PointersMovedOnce

LEMMA CheckKeeps == RelInv /\ CheckTags => RelInv'
<1>1. SUFFICES ASSUME RelInv, CheckTags PROVE RelInv'
  OBVIOUS
<1>2. /\ image = linked /\ applied = 0 /\ relStatus = "SUCCESS" /\ arch \in Archs
      /\ UNCHANGED <<arch, dyn, relTable, image, linked, dynIndex, found, applied>>
  BY <1>1 DEF RelInv, CheckTags
<1>3. CASE NothingToDo
  <2>1. relPc' = "return" /\ relStatus' = "SUCCESS"
    BY <1>1, <1>2, <1>3 DEF CheckTags
  <2>2. GotDone' = {} /\ "REL" \notin found
    BY <1>2, <1>3 DEF NothingToDo, GotDone
  <2>3. PointersMovedOnce'
    BY <1>2, <2>1, <2>2 DEF PointersMovedOnce
  <2>. QED  BY <1>1, <1>2, <2>1, <2>3 DEF RelInv
<1>4. CASE ~NothingToDo /\ Incomplete
  <2>1. relPc' = "return" /\ relStatus' = "LOAD_ERROR"
    BY <1>1, <1>4 DEF CheckTags
  <2>2. PointersMovedOnce'
    BY <1>2, <2>1 DEF PointersMovedOnce
  <2>. QED  BY <1>1, <1>2, <2>1, <2>2 DEF RelInv
<1>5. CASE ~NothingToDo /\ ~Incomplete
  <2>1. /\ relPc' = IF arch.got THEN "got" ELSE "apply"
        /\ relStatus' = "SUCCESS"
    BY <1>1, <1>2, <1>5 DEF CheckTags
  <2>2. TagsFound'
    BY <1>2, <1>5, OneTag DEF TagsFound, NothingToDo, Incomplete
  <2>3. "RELENT" \in found => "REL" \in found
    BY <1>2, <1>5, <2>2, ArchFacts DEF TagsFound, Incomplete
  <2>4. ~arch.got => ImageIs(Moved(0))' /\ applied' <= Len(relTable')
    BY <1>1, <1>2 DEF RelInv, ImageIs, Moved, GotDone, Relative
  <2>5. PointersMovedOnce'
    BY <2>1 DEF PointersMovedOnce
  <2>. QED  BY <1>1, <1>2, <2>1, <2>2, <2>3, <2>4, <2>5, ArchFacts DEF RelInv
<1>. QED  BY <1>3, <1>4, <1>5

LEMMA GotKeeps == RelInv /\ RelocateGot => RelInv'
<1>1. SUFFICES ASSUME RelInv, RelocateGot PROVE RelInv'
  OBVIOUS
<1>2. /\ image = linked /\ applied = 0 /\ arch \in Archs /\ arch.got /\ arch.adds
      /\ relStatus # "LOAD_ERROR" /\ relPc' = "apply"
      /\ UNCHANGED <<arch, dyn, relTable, linked, dynIndex, found, applied, relStatus>>
  BY <1>1, ArchFacts DEF RelInv, RelocateGot
<1>3. Moved(0)' = GotDone
  <2>1. \A k \in Relative' : ~(k <= 0)
    BY <1>1, <1>2 DEF RelInv, Relative
  <2>. QED  BY <1>2, <2>1, RelocationAssumption DEF Moved, GotDone
<1>4. WellLinked' => ImageIs(Moved(0))'
  <2>1. SUFFICES ASSUME WellLinked' PROVE ImageIs(Moved(0))'
    OBVIOUS
  <2>2. \A w \in RelWords : linked[w] = <<0, w>>
    BY <1>2, <2>1 DEF WellLinked
  <2>3. \A w \in RelWords : Added(linked[w]) = <<1, w>>
    BY <2>2 DEF Added
  <2>. QED  BY <1>1, <1>2, <1>3, <2>3 DEF ImageIs, RelocateGot, GotDone
<1>5. PointersMovedOnce'
  BY <1>2 DEF PointersMovedOnce
<1>. QED
  BY <1>1, <1>2, <1>4, <1>5 DEF RelInv, RelocateGot, TagsFound

LEMMA ApplyKeeps == RelInv /\ ApplyEntry => RelInv'
<1>1. SUFFICES ASSUME RelInv, ApplyEntry PROVE RelInv'
  OBVIOUS
<1>2. /\ applied \in Nat /\ applied < Len(relTable) /\ Len(relTable) \in Nat /\ arch \in Archs
      /\ "REL" \in found /\ relPc = "apply" /\ relStatus # "LOAD_ERROR"
      /\ UNCHANGED <<arch, dyn, relTable, linked, dynIndex, found, relStatus>>
  BY <1>1 DEF RelInv, ApplyEntry, MoreEntries
<1>3. /\ applied + 1 \in 1 .. Len(relTable) /\ NextEntry = relTable[applied + 1]
      /\ NextEntry.word \in RelWords /\ DOMAIN relTable = 1 .. Len(relTable)
  BY <1>1, <1>2 DEF RelInv, NextEntry
<1>4. CASE NextEntry.type # "RELATIVE" /\ arch.panics
  <2>1. relPc' = "hang" /\ UNCHANGED <<image, applied>>
    BY <1>1, <1>4 DEF ApplyEntry
  <2>2. PointersMovedOnce'
    BY <1>2, <1>4, <2>1 DEF PointersMovedOnce
  <2>. QED  BY <1>1, <1>2, <2>1, <2>2 DEF RelInv
<1>5. CASE NextEntry.type # "RELATIVE" /\ ~arch.panics
  <2>1. relPc' = relPc /\ image' = image /\ applied' = applied + 1
    BY <1>1, <1>5 DEF ApplyEntry
  <2>2. Moved(applied + 1) = Moved(applied)
    BY <1>2, <1>3, <1>5 DEF Moved, Relative
  <2>3. Moved(applied)' = Moved(applied)
    BY <1>2, <2>1, <2>2 DEF Moved, Relative, GotDone
  <2>4. WellLinked' => ImageIs(Moved(applied))'
    BY <1>1, <1>2, <2>1, <2>3 DEF RelInv, ImageIs, WellLinked, Relative, GotDone
  <2>5. PointersMovedOnce'
    BY <1>2, <2>1 DEF PointersMovedOnce
  <2>. QED  BY <1>1, <1>2, <2>1, <2>4, <2>5 DEF RelInv, TagsFound
<1>6. CASE NextEntry.type = "RELATIVE"
  <2>1. /\ relPc' = relPc /\ applied' = applied + 1
        /\ image' = [image EXCEPT ![NextEntry.word] = Relocated(@)]
    BY <1>1, <1>6 DEF ApplyEntry
  <2>2. DOMAIN image' = RelWords /\ image' = [w \in RelWords |-> image'[w]]
    BY <1>1, <2>1 DEF RelInv
  <2>3. Moved(applied)' = Moved(applied) \cup {NextEntry.word}
    BY <1>2, <1>3, <1>6, <2>1 DEF Moved, Relative, GotDone
  <2>4. WellLinked' => ImageIs(Moved(applied))'
    <3>1. SUFFICES ASSUME WellLinked' PROVE ImageIs(Moved(applied))'
      OBVIOUS
    <3>2. WellLinked
      BY <1>2, <3>1 DEF WellLinked, Relative, GotDone
    <3>3. ImageIs(Moved(applied))
      BY <1>1, <1>2, <3>2 DEF RelInv
    <3>4. applied + 1 \in Relative
      BY <1>3, <1>6 DEF Relative
    <3>5. NextEntry.word \notin Moved(applied)
      BY <1>2, <1>3, <3>2, <3>4 DEF Moved, WellLinked
    <3>6. image[NextEntry.word] = linked[NextEntry.word]
      BY <1>3, <3>3, <3>5 DEF ImageIs
    <3>7. Relocated(image[NextEntry.word]) = <<1, NextEntry.word>>
      <4>1. CASE arch.adds
        <5>1. image[NextEntry.word] = <<0, NextEntry.word>>
          BY <1>3, <3>2, <3>6, <4>1 DEF WellLinked
        <5>. QED  BY <4>1, <5>1 DEF Relocated, Added
      <4>2. CASE ~arch.adds
        BY <4>2 DEF Relocated
      <4>. QED  BY <4>1, <4>2
    <3>8. \A w \in RelWords : image'[w] = IF w = NextEntry.word THEN <<1, w>> ELSE image[w]
      BY <1>1, <1>3, <2>1, <3>7 DEF RelInv
    <3>9. \A w \in RelWords : image'[w] = IF w \in Moved(applied)' THEN <<1, w>> ELSE linked[w]
      BY <2>3, <3>3, <3>8 DEF ImageIs
    <3>. QED  BY <1>2, <3>9 DEF ImageIs
  <2>5. PointersMovedOnce'
    BY <1>2, <2>1 DEF PointersMovedOnce
  <2>. QED  BY <1>1, <1>2, <2>1, <2>2, <2>4, <2>5 DEF RelInv, TagsFound
<1>. QED  BY <1>4, <1>5, <1>6, <1>2, ArchFacts

LEMMA EndlessKeeps == RelInv /\ EndlessTable => RelInv'
<1>1. SUFFICES ASSUME RelInv, EndlessTable PROVE RelInv'
  OBVIOUS
<1>2. relPc' = "hang" /\ UNCHANGED <<arch, dyn, relTable, image, linked, dynIndex, found, applied, relStatus>>
  BY <1>1 DEF EndlessTable
<1>3. arch.got
  BY <1>1 DEF RelInv, EndlessTable, TagsFound
<1>4. PointersMovedOnce'
  BY <1>1, <1>2, <1>3 DEF PointersMovedOnce, RelInv
<1>. QED  BY <1>1, <1>2, <1>4 DEF RelInv, EndlessTable

LEMMA TableDoneKeeps == RelInv /\ TableDone => RelInv'
<1>1. SUFFICES ASSUME RelInv, TableDone PROVE RelInv'
  OBVIOUS
<1>2. /\ relPc = "apply" /\ relPc' = "return" /\ relStatus # "LOAD_ERROR"
      /\ UNCHANGED <<arch, dyn, relTable, image, linked, dynIndex, found, applied, relStatus>>
  BY <1>1 DEF TableDone, RelInv
<1>3. ASSUME WellLinked', "RELSZ" \in found
      PROVE  \A w \in RelWords :
               image'[w] = IF \/ w \in GotDone'
                              \/ "REL" \in found' /\ \E k \in Relative' : relTable'[k].word = w
                           THEN <<1, w>> ELSE linked'[w]
  <2>1. WellLinked /\ applied = Len(relTable)
    <3>1. WellLinked
      BY <1>2, <1>3 DEF WellLinked, Relative, GotDone
    <3>. QED  BY <1>1, <1>2, <1>3, <3>1 DEF RelInv, TableDone, MoreEntries
  <2>2. ImageIs(Moved(applied))
    BY <1>1, <1>2, <2>1 DEF RelInv
  <2>3. \A k \in Relative : k <= applied /\ "REL" \in found
    BY <1>1, <1>2, <2>1 DEF RelInv, Relative
  <2>4. \A w \in RelWords :
          w \in Moved(applied) <=> \/ w \in GotDone
                                   \/ "REL" \in found /\ \E k \in Relative : relTable[k].word = w
    BY <2>3 DEF Moved
  <2>. QED  BY <1>2, <2>2, <2>4 DEF ImageIs, GotDone, Relative
<1>4. PointersMovedOnce'
  BY <1>2, <1>3 DEF PointersMovedOnce
<1>. QED  BY <1>1, <1>2, <1>4 DEF RelInv

LEMMA RelStutterKeeps == RelInv /\ UNCHANGED relVars => RelInv'
BY DEF relVars, RelInv, PointersMovedOnce, WellLinked, Relative, GotDone, ImageIs, Moved, TagsFound

\* reloc_*.c: a well linked image of any size starts with every pointer moved once and
\* nothing else changed, and one that is refused is untouched.
THEOREM RelocatesOnce == RelSpec => []PointersMovedOnce
<1>1. RelInv /\ [RelNext]_relVars => RelInv'
  BY ScanKeeps, CheckKeeps, GotKeeps, ApplyKeeps, EndlessKeeps, TableDoneKeeps, RelStutterKeeps
     DEF RelNext
<1>2. RelInv => PointersMovedOnce
  BY DEF RelInv
<1>. QED  BY <1>1, <1>2, RelInvInit, PTL DEF RelSpec

-----------------------------------------------------------------------------
(* PagingTables *)

PageEntries == Nat \X SUBSET {"P", "W"}

PageTypes ==
    /\ pagePc \in {"initPageDir", "initPage", "directory", "loaded"}
    /\ pageIndex \in 0 .. N
    /\ pageDirectory \in [0 .. N - 1 -> PageEntries]
    /\ firstPageTable \in [0 .. N - 1 -> PageEntries]
    /\ frame0 \in [0 .. N - 1 -> PageEntries]

\* The directory so far, and without a present entry when its loop has ended.
DirectoryCleared ==
    /\ pagePc = "initPageDir" => \A d \in 0 .. pageIndex - 1 : pageDirectory[d] = NotPresent
    /\ pagePc \in {"initPage", "directory"} =>
           \A d \in 0 .. N - 1 : pageDirectory[d] = NotPresent

\* The identity map so far.
TableMapped ==
    /\ pagePc = "initPage" => \A p \in 0 .. pageIndex - 1 : firstPageTable[p] = <<p, {"P", "W"}>>
    /\ pagePc \in {"directory", "loaded"} =>
           \A p \in 0 .. N - 1 : firstPageTable[p] = <<p, {"P", "W"}>>

DirectoryLoaded ==
    pagePc = "loaded" =>
        \A d \in 1 .. N - 1 : pageDirectory[d] = NotPresent

PageInv == PageTypes /\ DirectoryCleared /\ TableMapped /\ DirectoryLoaded

LEMMA PageInvInit == PageInit => PageInv
<1> SUFFICES ASSUME PageInit PROVE PageInv
  OBVIOUS
<1>1. N \in Nat /\ N > 0 /\ Junk \subseteq PageEntries
  BY PagingAssumption DEF PageEntries
<1>2. Tables \subseteq [0 .. N - 1 -> PageEntries]
  BY <1>1 DEF Tables
<1>3. PageTypes
  BY <1>1, <1>2 DEF PageInit, PageTypes
<1>4. DirectoryCleared
  BY DEF PageInit, DirectoryCleared
<1>. QED
  BY <1>3, <1>4 DEF PageInit, PageInv, TableMapped, DirectoryLoaded

LEMMA PageInvStep == PageInv /\ [PageNext]_pageVars => PageInv'
<1> SUFFICES ASSUME PageInv, [PageNext]_pageVars PROVE PageInv'
  OBVIOUS
<1>1. N \in Nat /\ N > 0 /\ 0 \in 0 .. N - 1
  BY PagingAssumption
<1>2. NotPresent \in PageEntries /\ <<pageIndex, {"P", "W"}>> \in PageEntries
  BY <1>1 DEF NotPresent, PageEntries, PageInv, PageTypes
<1>3. CASE initPageDir
  <2>1. PageTypes'
    BY <1>1, <1>2, <1>3 DEF PageInv, PageTypes, initPageDir
  <2>2. DirectoryCleared'
    <3>1. CASE pageIndex < N
      <4>1. pagePc' = "initPageDir" /\ pageIndex' = pageIndex + 1 /\ pageIndex \in 0 .. N - 1
        BY <1>1, <1>3, <3>1 DEF PageInv, PageTypes, initPageDir
      <4>2. pageDirectory' = [pageDirectory EXCEPT ![pageIndex] = NotPresent]
        BY <1>3, <3>1, <1>1 DEF PageInv, PageTypes, initPageDir
      <4>3. ASSUME NEW d \in 0 .. pageIndex PROVE pageDirectory'[d] = NotPresent
        BY <1>1, <4>1, <4>2, <1>3 DEF PageInv, PageTypes, DirectoryCleared, initPageDir
      <4>4. NotPresent' = NotPresent /\ (pageIndex + 1) - 1 = pageIndex
        BY <4>1 DEF NotPresent
      <4>. QED
        BY <4>1, <4>3, <4>4 DEF DirectoryCleared
    <3>2. CASE ~(pageIndex < N)
      BY <1>1, <1>3, <3>2 DEF PageInv, PageTypes, DirectoryCleared, initPageDir, NotPresent
    <3>. QED
      BY <3>1, <3>2
  <2>3. TableMapped' /\ DirectoryLoaded'
    BY <1>1, <1>3 DEF PageInv, PageTypes, initPageDir, TableMapped, DirectoryLoaded
  <2>. QED
    BY <2>1, <2>2, <2>3 DEF PageInv
<1>4. CASE initPage
  <2>1. PageTypes'
    <3>1. firstPageTable' \in [0 .. N - 1 -> PageEntries]
      BY <1>2, <1>4 DEF PageInv, PageTypes, initPage, Mapped
    <3>2. pagePc' \in {"initPage", "directory"} /\ pageIndex' \in 0 .. N
      BY <1>1, <1>4 DEF PageInv, PageTypes, initPage
    <3>. QED
      BY <1>4, <3>1, <3>2 DEF PageInv, PageTypes, initPage
  <2>2. DirectoryCleared'
    BY <1>4 DEF PageInv, DirectoryCleared, initPage, NotPresent
  <2>3. TableMapped'
    <3>1. CASE pageIndex < N
      <4>1. /\ pagePc' = "initPage" /\ pageIndex' = pageIndex + 1 /\ pageIndex \in 0 .. N - 1
            /\ firstPageTable' = [firstPageTable EXCEPT ![pageIndex] = <<pageIndex, {"P", "W"}>>]
            /\ firstPageTable \in [0 .. N - 1 -> PageEntries]
            /\ \A p \in 0 .. pageIndex - 1 : firstPageTable[p] = <<p, {"P", "W"}>>
        <5>1. pageIndex \in 0 .. N /\ firstPageTable \in [0 .. N - 1 -> PageEntries]
          BY DEF PageInv, PageTypes
        <5>2. /\ pagePc = "initPage" /\ pagePc' = "initPage" /\ pageIndex' = pageIndex + 1
              /\ firstPageTable' = [firstPageTable EXCEPT ![pageIndex] = <<pageIndex, {"P", "W"}>>]
          BY <1>1, <1>4, <3>1, <5>1 DEF initPage, Mapped
        <5>3. \A p \in 0 .. pageIndex - 1 : firstPageTable[p] = <<p, {"P", "W"}>>
          BY <5>2 DEF PageInv, TableMapped
        <5>4. pageIndex \in 0 .. N - 1
          BY <1>1, <3>1, <5>1
        <5>. QED
          BY <5>1, <5>2, <5>3, <5>4
      <4>2. ASSUME NEW p \in 0 .. (pageIndex + 1) - 1
            PROVE  firstPageTable'[p] = <<p, {"P", "W"}>>
        <5>1. p \in 0 .. N - 1 /\ (p = pageIndex \/ p \in 0 .. pageIndex - 1)
          BY <1>1, <4>1, <4>2
        <5>. QED
          BY <4>1, <5>1
      <4>. QED
        BY <4>1, <4>2 DEF TableMapped
    <3>2. CASE ~(pageIndex < N)
      BY <1>1, <1>4, <3>2 DEF PageInv, PageTypes, TableMapped, initPage
    <3>. QED
      BY <3>1, <3>2
  <2>4. DirectoryLoaded'
    BY <1>4 DEF initPage, DirectoryLoaded
  <2>. QED
    BY <2>1, <2>2, <2>3, <2>4 DEF PageInv
<1>5. CASE Directory
  <2>1. FirstTable = <<0, {"P", "W"}>>
    BY <1>1, <1>5 DEF PageInv, TableMapped, Directory, FirstTable
  <2>2. FirstTable \in PageEntries
    BY <2>1 DEF PageEntries
  <2>3. PageTypes'
    BY <1>1, <1>5, <2>2 DEF PageInv, PageTypes, Directory
  <2>4. DirectoryLoaded'
    BY <1>1, <1>5, <2>1
    DEF PageInv, PageTypes, DirectoryCleared, DirectoryLoaded, Directory, NotPresent
  <2>. QED
    BY <1>5, <2>3, <2>4 DEF PageInv, DirectoryCleared, TableMapped, Directory
<1>6. CASE UNCHANGED pageVars
  BY <1>6
  DEF PageInv, PageTypes, DirectoryCleared, TableMapped, DirectoryLoaded, NotPresent, pageVars
<1>. QED
  BY <1>3, <1>4, <1>5, <1>6 DEF PageNext

LEMMA PageInvFilled == PageInv => TablesFilled
<1> SUFFICES ASSUME PageInv, pagePc = "loaded", NEW p \in 0 .. N - 1
             PROVE  /\ firstPageTable[p] = <<p, {"P", "W"}>>
                    /\ \A d \in 1 .. N - 1 : Walk(d, p) = -1
  BY DEF TablesFilled
<1>1. firstPageTable[p] = <<p, {"P", "W"}>>
  BY DEF PageInv, TableMapped
<1>2. ASSUME NEW d \in 1 .. N - 1 PROVE Walk(d, p) = -1
  <2>1. "P" \notin pageDirectory[d][2]
    BY DEF PageInv, DirectoryLoaded, NotPresent
  <2>. QED
    BY <2>1 DEF Walk
<1>. QED
  BY <1>1, <1>2

\* Whatever the memory of the tables held before, the first table is the identity map, and
\* an address beyond it faults.
THEOREM TablesAreFilled == PageSpec => []TablesFilled
<1>1. PageInit => PageInv
  BY PageInvInit
<1>2. PageInv /\ [PageNext]_pageVars => PageInv'
  BY PageInvStep
<1>3. PageInv => TablesFilled
  BY PageInvFilled
<1>. QED
  BY <1>1, <1>2, <1>3, PTL DEF PageSpec

-----------------------------------------------------------------------------
(* Kernel *)

\* What the loop has written after `rows' rounds.
Cleared(rows) == {Transposed(x, r) : x \in 0 .. fb.width - 1, r \in 0 .. rows - 1}

KernelInv ==
    /\ fb \in Screens /\ y \in Nat
    /\ kernelPc \in {"clear", "marks"} => black = Cleared(y)
    /\ kernelPc = "marks" => y = fb.height

LEMMA KernelInvInit == KernelInit => KernelInv
<1> SUFFICES ASSUME KernelInit PROVE KernelInv
  OBVIOUS
<1>1. fb \in Screens /\ y = 0 /\ black = {} /\ kernelPc = "clear"
  BY DEF KernelInit
<1>2. Cleared(0) = {}
  BY DEF Cleared
<1>. QED
  BY <1>1, <1>2 DEF KernelInv

LEMMA ClearRowKeeps == KernelInv /\ ClearRow => KernelInv'
<1> SUFFICES ASSUME KernelInv, ClearRow PROVE KernelInv'
  OBVIOUS
<1>1. /\ kernelPc = "clear" /\ kernelPc' = "clear" /\ fb' = fb /\ y' = y + 1 /\ y \in Nat
      /\ fb \in Screens /\ black = Cleared(y)
      /\ black' = black \cup {Transposed(x, y) : x \in 0 .. fb.width - 1}
  BY DEF ClearRow, KernelInv
<1>2. Cleared(y + 1) = Cleared(y) \cup {Transposed(x, y) : x \in 0 .. fb.width - 1}
  <2>1. 0 .. (y + 1) - 1 = (0 .. y - 1) \cup {y}
    BY <1>1
  <2> DEFINE rows == 0 .. (y + 1) - 1
  <2> DEFINE before == 0 .. y - 1
  <2>2. rows = before \cup {y} /\ Cleared(y) = {Transposed(x, r) : x \in 0 .. fb.width - 1, r \in before}
        /\ Cleared(y + 1) = {Transposed(x, r) : x \in 0 .. fb.width - 1, r \in rows}
    BY <2>1 DEF Cleared
  <2> HIDE DEF rows, before
  <2>. QED
    BY <2>2
<1>4. black' = Cleared(y)'
  BY <1>1, <1>2 DEF Cleared, Transposed
<1>. QED
  BY <1>1, <1>4 DEF KernelInv

LEMMA KernelInvStep == KernelInv /\ [KernelNext]_kernelVars => KernelInv'
<1> SUFFICES ASSUME KernelInv, [KernelNext]_kernelVars PROVE KernelInv'
  OBVIOUS
<1>1. ASSUME UNCHANGED <<fb, y, black>> PROVE Cleared(y)' = Cleared(y)
  BY <1>1 DEF Cleared, Transposed
<1>3. CASE ClearRow
  BY <1>3, ClearRowKeeps
<1>4. CASE ClearDone
  <2>1. UNCHANGED <<fb, y, black>> /\ kernelPc = "clear" /\ y = fb.height
    BY <1>4 DEF ClearDone
  <2>. QED
    BY <1>1, <2>1 DEF KernelInv
<1>5. CASE Marks
  BY <1>5 DEF Marks, KernelInv
<1>6. CASE UNCHANGED kernelVars
  <2>1. UNCHANGED <<fb, y, black, kernelPc>>
    BY <1>6 DEF kernelVars
  <2>. QED
    BY <1>1, <2>1 DEF KernelInv
<1>. QED
  BY <1>3, <1>4, <1>5, <1>6 DEF KernelNext

\* On a square screen the transposed loop comes to every visible pixel.
LEMMA TransposedSquare ==
    ASSUME fb \in Screens, fb.width = fb.height
    PROVE  Visible \subseteq Cleared(fb.height)
<1>1. fb.width \in Nat /\ fb.height \in Nat /\ fb.pitch \in Nat
  BY KernelAssumption
<1>2. ASSUME NEW row \in 0 .. fb.height - 1, NEW x \in 0 .. fb.width - 1
      PROVE  row * fb.pitch + x \in Cleared(fb.height)
  <2>1. row \in 0 .. fb.width - 1 /\ x \in 0 .. fb.height - 1
    BY <1>1
  <2>. QED
    BY <2>1 DEF Cleared, Transposed
<1>. QED
  BY <1>2 DEF Visible

\* The transposed loop stays in a framebuffer that is no wider than it is high.
LEMMA TransposedBounds ==
    ASSUME fb \in Screens, fb.width <= fb.height, fb.height <= fb.pitch
    PROVE  Cleared(fb.height) \subseteq Framebuffer
<1> DEFINE p == fb.pitch
<1> DEFINE h == fb.height
<1> DEFINE w == fb.width
<1>1. /\ p \in Nat /\ h \in Nat /\ w \in Nat /\ w <= h /\ h <= p
      /\ Framebuffer = 0 .. p * h - 1
      /\ Cleared(fb.height) = {x * p + r : x \in 0 .. w - 1, r \in 0 .. h - 1}
  BY KernelAssumption DEF Framebuffer, Cleared, Transposed
<1> HIDE DEF p, h, w
<1>2. ASSUME NEW x \in 0 .. w - 1, NEW r \in 0 .. h - 1
      PROVE  x * p + r \in 0 .. p * h - 1
  <2>1. x \in Nat /\ r \in Nat /\ r < p /\ x + 1 \in Int /\ x + 1 <= h /\ p * h \in Int
    BY <1>1
  <2>2. p * (x + 1) <= p * h
    BY <1>1, <2>1, Monotone
  <2>3. p * (x + 1) = p * x + p /\ p * x \in Nat /\ x * p = p * x
    BY <1>1, <2>1
  <2>. QED
    BY <1>1, <2>1, <2>2, <2>3
<1>. QED
  BY <1>1, <1>2

\* A square screen is cleared, and one no wider than high is not left.
THEOREM RustKernelClears == KernelSpec => []ClearsSquareScreens
<1>1. KernelInit => KernelInv
  BY KernelInvInit
<1>2. KernelInv /\ [KernelNext]_kernelVars => KernelInv'
  BY KernelInvStep
<1>3. KernelInv => ClearsSquareScreens
  <2> SUFFICES ASSUME KernelInv, kernelPc = "marks"
               PROVE  ClearsSquareScreens
    BY DEF ClearsSquareScreens
  <2>1. fb \in Screens /\ black = Cleared(fb.height)
    BY DEF KernelInv
  <2>. QED
    BY <2>1, TransposedSquare, TransposedBounds DEF ClearsSquareScreens
<1>. QED
  BY <1>1, <1>2, <1>3, PTL DEF KernelSpec
=============================================================================
