------------------------------ MODULE CString ------------------------------
(***************************************************************************)
(* strlen, strcpy and strcat of bootloader_tty.h, on a small memory in     *)
(* which pointers are addresses, so that buffers may touch and overlap.    *)
(* A call is strcpy(buf, args[1]), or strcat(Len(args), buf, size,         *)
(* args...), which copies one argument after the other with strcpy.        *)
(***************************************************************************)
EXTENDS Integers, Sequences, FiniteSetsExt

CONSTANTS
    Bytes,   \* bound: the memory has the addresses 0 .. Bytes - 1
    Chars,   \* the values of a byte; 0 is the terminator
    MaxArgs  \* bound: the arguments of strcat

ASSUME CStringAssumption == Bytes \in Nat \ {0} /\ 0 \in Chars /\ MaxArgs \in Nat

VARIABLES
    stringPc,        \* "strcpy", "copy", "length", "return", or "wild": out of memory
    mem, memBefore,  \* the memory, and what it was before the call
    stringFn, stringBuf, stringArgs, stringSize,
    argsDone,        \* arguments of strcat that are done
    strsize,         \* where strcat continues
    off,             \* bytes strcpy has copied
    strcpyRet        \* what strcpy returned, "NULL" or "dest"

stringVars == <<stringPc, mem, memBefore, stringFn, stringBuf, stringArgs, stringSize,
                argsDone, strsize, off, strcpyRet>>

Terminated(m, p) == \E q \in p .. Bytes - 1 : m[q] = 0
strlen(m, p) == Min({k \in 0 .. Bytes - 1 - p : m[p + k] = 0})
String(m, p) == [k \in 0 .. strlen(m, p) |-> m[p + k]]

StringOff ==
    /\ stringPc = "off" /\ mem = <<>> /\ memBefore = <<>> /\ stringFn = "strcpy"
    /\ stringBuf = 0 /\ stringArgs = <<>> /\ stringSize = 1
    /\ argsDone = 0 /\ strsize = 0 /\ off = 0 /\ strcpyRet = "none"

StringInit ==
    /\ stringPc = "strcpy" /\ mem \in [0 .. Bytes - 1 -> Chars] /\ memBefore = mem
    /\ stringFn \in {"strcpy", "strcat"} /\ stringBuf \in 0 .. Bytes - 1
    /\ stringArgs \in UNION {[1 .. k -> 0 .. Bytes - 1] : k \in 1 .. MaxArgs}
    /\ stringFn = "strcpy" => Len(stringArgs) = 1
    /\ \A k \in DOMAIN stringArgs : Terminated(mem, stringArgs[k])
    /\ stringSize \in 1 .. Bytes - stringBuf
    /\ argsDone = 0 /\ strsize = 0 /\ off = 0 /\ strcpyRet = "none"

src == stringArgs[argsDone + 1]
dest == stringBuf + strsize

\* if (src + strlen(src) > dest || src < dest) { return NULL; }
RefusesUnlessBelow == src + strlen(mem, src) > dest
Refuses == src + strlen(mem, src) > dest \/ src < dest

strcpy ==
    /\ stringPc = "strcpy" /\ argsDone < Len(stringArgs) /\ Terminated(mem, src)
    /\ \/ Refuses /\ stringPc' = "length" /\ strcpyRet' = "NULL"
       \/ ~Refuses /\ stringPc' = "copy" /\ strcpyRet' = "dest"
    /\ off' = 0
    /\ UNCHANGED <<mem, memBefore, stringFn, stringBuf, stringArgs, stringSize, argsDone,
                   strsize>>

InMemory(p) == p < Bytes

CopyByte ==
    /\ stringPc = "copy" /\ InMemory(src + off) /\ InMemory(dest + off)
    /\ mem' = [mem EXCEPT ![dest + off] = mem[src + off]]
    /\ off' = off + 1
    /\ stringPc' = IF mem[src + off] = 0 THEN "length" ELSE stringPc
    /\ UNCHANGED <<memBefore, stringFn, stringBuf, stringArgs, stringSize, argsDone, strsize,
                   strcpyRet>>

\* strcat goes on by the length of the argument, copied or not.
NextArgument ==
    /\ stringPc = "length" /\ stringFn = "strcat" /\ Terminated(mem, src)
    /\ argsDone' = argsDone + 1 /\ strsize' = strsize + strlen(mem, src)
    /\ stringPc' = "strcpy"
    /\ UNCHANGED <<mem, memBefore, stringFn, stringBuf, stringArgs, stringSize, off, strcpyRet>>

TerminatorLate == dest + 1
Terminator == dest

TerminateString ==
    /\ stringPc = "strcpy" /\ argsDone = Len(stringArgs) /\ InMemory(Terminator)
    /\ mem' = [mem EXCEPT ![Terminator] = 0]
    /\ stringPc' = "return"
    /\ UNCHANGED <<memBefore, stringFn, stringBuf, stringArgs, stringSize, argsDone, strsize,
                   off, strcpyRet>>

ReturnFromStrcpy ==
    /\ stringPc = "length" /\ stringFn = "strcpy"
    /\ stringPc' = "return"
    /\ UNCHANGED <<mem, memBefore, stringFn, stringBuf, stringArgs, stringSize, argsDone,
                   strsize, off, strcpyRet>>

\* A pointer has left the memory.
Wild ==
    /\ \/ stringPc = "copy" /\ ~(InMemory(src + off) /\ InMemory(dest + off))
       \/ stringPc = "length" /\ stringFn = "strcat" /\ ~Terminated(mem, src)
       \/ stringPc = "strcpy" /\ argsDone < Len(stringArgs) /\ ~Terminated(mem, src)
       \/ stringPc = "strcpy" /\ argsDone = Len(stringArgs) /\ ~InMemory(Terminator)
    /\ stringPc' = "wild"
    /\ UNCHANGED <<mem, memBefore, stringFn, stringBuf, stringArgs, stringSize, argsDone,
                   strsize, off, strcpyRet>>

StringNext == strcpy \/ CopyByte \/ NextArgument \/ TerminateString \/ ReturnFromStrcpy \/ Wild

StringSpec == StringInit /\ [][StringNext]_stringVars

-----------------------------------------------------------------------------
\* The bytes of the string at p, its terminator included.
Place(m, p) == p .. p + strlen(m, p)

\* bootloader_tty.h 30, "Error if src and dest overlap": strings that have no byte in common
\* with the copy, which has room in memory, are copied.
StrcpyCopies ==
    stringFn = "strcpy" /\ stringPc = "return" =>
        LET from == stringArgs[1]
            copy == stringBuf .. stringBuf + strlen(memBefore, from)
        IN  copy \subseteq 0 .. Bytes - 1 /\ Place(memBefore, from) \cap copy = {} =>
                strcpyRet = "dest"

\* bootloader_tty.h 28-37: whatever overlaps, strcpy never runs away over a terminator it has
\* overwritten; what it returns `dest' for is the string the argument was, and what it
\* refuses leaves the memory as it is.
StrcpyIsSafe ==
    stringFn = "strcpy" =>
        /\ stringPc # "wild"
        /\ strcpyRet = "NULL" => mem = memBefore
        /\ strcpyRet = "dest" /\ stringPc = "return" =>
              String(mem, stringBuf) = String(memBefore, stringArgs[1])

\* The lengths of the arguments before the k-th, counted from 0.
TotalBefore[k \in 0 .. Len(stringArgs)] ==
    IF k = 0 THEN 0 ELSE TotalBefore[k - 1] + strlen(memBefore, stringArgs[k])

Total == TotalBefore[Len(stringArgs)]

\* bootloader_tty.h 39-59: strcat does not look at what strcpy returns, nor at `size': of
\* all it is to write it writes the terminator, at the sum of the lengths, inside the
\* buffer or not, and leaves the memory only when that address does.
StrcatOnlyTerminates ==
    stringFn = "strcat" =>
        /\ stringPc \notin {"return", "wild"} => mem = memBefore
        /\ stringPc = "return" => mem = [memBefore EXCEPT ![stringBuf + Total] = 0]
        /\ stringPc = "wild" => ~InMemory(stringBuf + Total)
=============================================================================
