---------------------------- MODULE PagingTables ----------------------------
(***************************************************************************)
(* initPageDir and initPage of paging.h, on a machine whose tables have N  *)
(* entries (1024 in the code), and the walk the processor would make with  *)
(* the result.  An entry is a frame number and its attribute bits; a table *)
(* is a frame.  The calls in efi_main are commented out (bootloader.c 209  *)
(* to 211): this is what they would do.                                    *)
(***************************************************************************)
EXTENDS Integers

CONSTANTS
    N,           \* entries of a table
    TableFrame,  \* the frame firstPageTable is in; the directory is in another
    Junk         \* what the frames of the tables may hold before, and frame 0

ASSUME PagingAssumption ==
    N \in Nat \ {0} /\ TableFrame \in Nat \ {0} /\ Junk \subseteq Nat \X SUBSET {"P", "W"}

VARIABLES
    pagePc,  \* "initPageDir", "initPage", "directory", "loaded"
    pageIndex,
    pageDirectory, firstPageTable,
    frame0   \* frame 0 read as a table: the firmware's data

pageVars == <<pagePc, pageIndex, pageDirectory, firstPageTable, frame0>>

Tables == [0 .. N - 1 -> Junk]

PageOff ==
    LET idle == [p \in 0 .. N - 1 |-> CHOOSE w \in Junk : TRUE]
    IN  /\ pagePc = "off" /\ pageIndex = 0
        /\ pageDirectory = idle /\ firstPageTable = idle /\ frame0 = idle

PageInit ==
    /\ pagePc = "initPageDir" /\ pageIndex = 0
    /\ pageDirectory \in Tables /\ firstPageTable \in Tables /\ frame0 \in Tables

NotPresentLeft == pageDirectory[pageIndex]
NotPresent == <<0, {"W"}>>

initPageDir ==
    /\ pagePc = "initPageDir"
    /\ \/ /\ pageIndex < N
          /\ pageDirectory' = [pageDirectory EXCEPT ![pageIndex] = NotPresent]
          /\ pageIndex' = pageIndex + 1 /\ UNCHANGED pagePc
       \/ pageIndex = N /\ pagePc' = "initPage" /\ pageIndex' = 0 /\ UNCHANGED pageDirectory
    /\ UNCHANGED <<firstPageTable, frame0>>

\* (i * 0x1000) | 3
Mapped == <<pageIndex, {"P", "W"}>>

initPage ==
    /\ pagePc = "initPage"
    /\ \/ /\ pageIndex < N
          /\ firstPageTable' = [firstPageTable EXCEPT ![pageIndex] = Mapped]
          /\ pageIndex' = pageIndex + 1 /\ UNCHANGED pagePc
       \/ pageIndex = N /\ pagePc' = "directory" /\ UNCHANGED <<pageIndex, firstPageTable>>
    /\ UNCHANGED <<pageDirectory, frame0>>

\* pageDirectory[0] = ((unsigned int)firstPageTable[0]) | 3: the value of the
\* entry, not the address of the table.
FirstTable == <<firstPageTable[0][1], firstPageTable[0][2] \cup {"P", "W"}>>

Directory ==
    /\ pagePc = "directory"
    /\ pageDirectory' = [pageDirectory EXCEPT ![0] = FirstTable]
    /\ pagePc' = "loaded"
    /\ UNCHANGED <<pageIndex, firstPageTable, frame0>>

PageNext == initPageDir \/ initPage \/ Directory

PageSpec == PageInit /\ [][PageNext]_pageVars

-----------------------------------------------------------------------------
\* The processor's walk for page `p` of directory slot `d`: the frame, or -1
\* for a fault.  A table in a frame the code knows nothing of is unpredictable,
\* which is -2.
Table(frame) ==
    IF frame = TableFrame THEN firstPageTable
    ELSE IF frame = 0 THEN frame0
    ELSE [p \in 0 .. N - 1 |-> <<-2, {"P", "W"}>>]

Walk(d, p) ==
    IF "P" \notin pageDirectory[d][2] THEN -1
    ELSE LET entry == Table(pageDirectory[d][1])[p]
         IN  IF "P" \in entry[2] THEN entry[1] ELSE -1

\* paging.h 22 and 25, "Map pages to the beginning of physical memory", "mapping 4
\* megabytes": an address of the first table is the same physical address.
MapsFirstPages == pagePc = "loaded" => \A p \in 0 .. N - 1 : Walk(0, p) = p

\* paging.h 9-31: whatever the memory of the tables held before, the table is the identity
\* map, and with the directory loaded an address beyond the first table faults.
TablesFilled ==
    pagePc = "loaded" =>
        \A p \in 0 .. N - 1 :
            /\ firstPageTable[p] = <<p, {"P", "W"}>>
            /\ \A d \in 1 .. N - 1 : Walk(d, p) = -1
=============================================================================
