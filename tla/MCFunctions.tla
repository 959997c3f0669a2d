---------------------------- MODULE MCFunctions ----------------------------
(***************************************************************************)
(* The functions of the loader, the kernels and gnu-efi that stand alone,  *)
(* for TLC: a behaviour is one call of one function, among everything that *)
(* may happen during the call; the variables of the others are off.        *)
(***************************************************************************)
EXTENDS MCKernel, MCPagingTables, CString, HexString, Relocation, GrowBuffer,
        ProtocolInterfaces, HandleSearch, MCDevicePaths, SimpleRead, PrintEngine,
        PoolPrint, WaitEvent, BootOrder

-----------------------------------------------------------------------------
\* Dynamic sections: complete ones in every order, one tag missing, a table of
\* offsets with and without relocations.
AllArchs == {x86_64, ia32, arm, aarch64, riscv64, mips64el}
SomeDyns ==
    SetToSeqs({"REL", "RELSZ", "RELENT"})
    \cup {<<>>, <<"RELSZ", "OTHER">>, <<"RELSZ", "RELENT">>, <<"RELSZ", "REL">>,
          <<"OTHER", "REL", "RELENT">>, <<"PLTGOT", "GOTNO">>, <<"GOTNO", "RELSZ">>,
          <<"PLTGOT", "RELSZ", "GOTNO">>, <<"GOTNO", "RELENT", "RELSZ", "PLTGOT", "REL">>}

\* Two small objects and two larger than the functions start with.
CONSTANTS small, otherSmall, large, otherLarge

FourObjects == {small, otherSmall, large, otherLarge}
Sizes == [o \in FourObjects |-> IF o \in {small, otherSmall} THEN 1 ELSE 3]
Starts == [f \in Functions |-> IF f = "LibMemoryMap" THEN 1 ELSE 2]

\* Anything on the first handle, and a second one that is free or taken.
CONSTANTS h1, h2, p1, i1

SomeDatabases ==
    {d \in [Handles -> [Protocols -> Interfaces \cup {None}]] :
        \A p \in Protocols : d[h2][p] = IF d[h1][p1] = i1 /\ p = p1 THEN i1 ELSE None}

\* The wanted node in every position that matters: last, after another hard drive
\* node, not last, before the end of an instance.
Hd(sig) == [kind |-> "hd", signature |-> sig]
Pci == [kind |-> "other"]
End == [kind |-> "end"]
MyDisk == Hd("mine")
SomePaths ==
    {<<Pci, MyDisk, End>>, <<MyDisk, Pci, End>>, <<Hd("other"), MyDisk, End>>,
     <<MyDisk, [kind |-> "instance"], Pci, End>>}

PathsOfFiles == {<<>>, <<"file">>, <<"other">>, <<"file", "file">>, <<"file", "other">>}

\* Every format of up to three characters, and longer ones that combine directives, X
\* with a smaller, a larger and no width.
\* Texts with and without a newline, shorter and longer than the buffer.
FormatCharacters == {"o", "\n", "%", "0", "-", ".", "*", "3", "s", "e", "N"}
ShortFormats ==
    BoundedSeq(FormatCharacters, 3)
    \cup {<<"%", "3", ".", "*", "s">>, <<"%", "-", "*", "s", "%">>, <<"%", "h", "0", "3", "s">>,
          <<"%", "n", "s", "o">>, <<"%", "h", "3", "e", "s">>, <<"%", "H", "%", "e", "s">>,
          <<"%", "E", "o", "%", "n", "s">>, <<"%", "X", "o">>, <<"%", "3", "X">>,
          <<"%", "2", "0", "X", "%", "s">>, <<"%", "-", "l", "X">>,
          <<"%", "h", "1", ".", "1", "2", "X">>}
Texts == {<<>>, <<"x">>, <<"x", "\n", "y", "z">>}

\* No variable, one and two options, and sizes that are no number of options.
SomeOrders == {<<>>, <<1>>, <<1, 1>>, <<1, 1, 2>>, <<1, 1, 2, 2>>, <<2, 2>>}
NewOption == <<3, 3>>

-----------------------------------------------------------------------------
OthersOff(part) ==
    /\ IF part = "kernel" THEN TRUE ELSE KernelOff
    /\ IF part = "string" THEN TRUE ELSE StringOff
    /\ IF part = "hex" THEN TRUE ELSE HexOff
    /\ IF part = "page" THEN TRUE ELSE PageOff
    /\ IF part = "rel" THEN TRUE ELSE RelOff
    /\ IF part = "grow" THEN TRUE ELSE GrowOff
    /\ IF part = "install" THEN TRUE ELSE InstallOff
    /\ IF part = "search" THEN TRUE ELSE SearchOff
    /\ IF part = "path" THEN TRUE ELSE PathOff
    /\ IF part = "read" THEN TRUE ELSE ReadOff
    /\ IF part = "print" THEN TRUE ELSE PrintOff
    /\ IF part = "pool" THEN TRUE ELSE PoolOff
    /\ IF part = "wait" THEN TRUE ELSE WaitOff
    /\ IF part = "order" THEN TRUE ELSE OrderOff

Others(part) ==
    /\ IF part = "kernel" THEN TRUE ELSE UNCHANGED kernelVars
    /\ IF part = "string" THEN TRUE ELSE UNCHANGED stringVars
    /\ IF part = "hex" THEN TRUE ELSE UNCHANGED hexVars
    /\ IF part = "page" THEN TRUE ELSE UNCHANGED pageVars
    /\ IF part = "rel" THEN TRUE ELSE UNCHANGED relVars
    /\ IF part = "grow" THEN TRUE ELSE UNCHANGED growVars
    /\ IF part = "install" THEN TRUE ELSE UNCHANGED installVars
    /\ IF part = "search" THEN TRUE ELSE UNCHANGED searchVars
    /\ IF part = "path" THEN TRUE ELSE UNCHANGED pathVars
    /\ IF part = "read" THEN TRUE ELSE UNCHANGED readVars
    /\ IF part = "print" THEN TRUE ELSE UNCHANGED printVars
    /\ IF part = "pool" THEN TRUE ELSE UNCHANGED poolVars
    /\ IF part = "wait" THEN TRUE ELSE UNCHANGED waitVars
    /\ IF part = "order" THEN TRUE ELSE UNCHANGED orderVars

Init ==
    \/ KernelInit /\ OthersOff("kernel")
    \/ StringInit /\ OthersOff("string")
    \/ HexInit /\ OthersOff("hex")
    \/ PageInit /\ OthersOff("page")
    \/ RelInit /\ OthersOff("rel")
    \/ GrowInit /\ OthersOff("grow")
    \/ InstallInit /\ OthersOff("install")
    \/ SearchInit /\ OthersOff("search")
    \/ PathInit /\ OthersOff("path")
    \/ ReadInit /\ OthersOff("read")
    \/ PrintInit /\ OthersOff("print")
    \/ PoolInit /\ OthersOff("pool")
    \/ WaitInit /\ OthersOff("wait")
    \/ OrderInit /\ OthersOff("order")

Next ==
    \/ KernelNext /\ Others("kernel")
    \/ StringNext /\ Others("string")
    \/ HexNext /\ Others("hex")
    \/ PageNext /\ Others("page")
    \/ RelNext /\ Others("rel")
    \/ GrowNext /\ Others("grow")
    \/ InstallNext /\ Others("install")
    \/ SearchNext /\ Others("search")
    \/ PathNext /\ Others("path")
    \/ ReadNext /\ Others("read")
    \/ PrintNext /\ Others("print")
    \/ PoolNext /\ Others("pool")
    \/ WaitNext /\ Others("wait")
    \/ OrderNext /\ Others("order")

vars == <<kernelVars, stringVars, hexVars, pageVars, relVars, growVars, installVars,
          searchVars, pathVars, readVars, printVars, poolVars, waitVars, orderVars>>

\* The fairness of the functions that wait or repeat a call of the firmware.
FairSpec ==
    /\ Init /\ [][Next]_vars
    /\ WF_growVars(GrowLibrary)
    /\ WF_waitVars(WaitLibrary) /\ WF_waitVars(ExpireTimer)
=============================================================================
