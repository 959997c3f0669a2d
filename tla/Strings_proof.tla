--------------------------- MODULE Strings_proof ----------------------------
(***************************************************************************)
(* Theorems about the loader's string functions: strcpy and strcat for any *)
(* memory and arguments, to_hex_str for any base and any width of a word.  *)
(***************************************************************************)
EXTENDS CString, HexString, ProofBasics, TLAPS

-----------------------------------------------------------------------------
(* CString *)

Addresses == 0 .. Bytes - 1

StringTypes ==
    /\ stringPc \in {"strcpy", "copy", "length", "return", "wild"}
    /\ memBefore \in [Addresses -> Chars] /\ stringFn \in {"strcpy", "strcat"}
    /\ stringBuf \in Addresses /\ stringArgs \in Seq(Addresses)
    /\ argsDone \in 0 .. Len(stringArgs)

\* The arguments are strings, and one call of strcpy has one.
ArgumentsAreStrings ==
    /\ \A k \in 1 .. Len(stringArgs) : Terminated(memBefore, stringArgs[k])
    /\ stringFn = "strcpy" => Len(stringArgs) = 1 /\ argsDone = 0

StrsizeIsSum == strsize = TotalBefore[argsDone]

\* What strcpy is about to copy is the terminator of an empty string on itself.
AcceptedIsEmpty ==
    /\ stringPc \in {"copy", "length"} => argsDone < Len(stringArgs)
    /\ stringPc = "copy" => src = dest /\ off = 0 /\ memBefore[dest] = 0
    /\ stringFn = "strcpy" /\ strcpyRet = "dest" =>
           stringArgs[1] = stringBuf /\ memBefore[stringBuf] = 0

\* The test of strcpy refuses every source below the destination as well as those that
\* overlap it; what it accepts is the empty string on itself.
StrcpyCopiesNothing ==
    stringFn = "strcpy" =>
        /\ stringPc # "wild" /\ mem = memBefore
        /\ strcpyRet = "dest" => stringArgs[1] = stringBuf /\ memBefore[stringBuf] = 0

StringInv ==
    /\ StringTypes /\ ArgumentsAreStrings /\ StrsizeIsSum /\ AcceptedIsEmpty
    /\ StrcpyCopiesNothing /\ StrcatOnlyTerminates

-----------------------------------------------------------------------------
(* The operators *)

\* strlen is the distance of the nearest terminator.
LEMMA StrlenIs ==
    ASSUME NEW m, NEW p \in Addresses, Terminated(m, p)
    PROVE  strlen(m, p) \in 0 .. Bytes - 1 - p /\ m[p + strlen(m, p)] = 0
<1> DEFINE S == {k \in 0 .. Bytes - 1 - p : m[p + k] = 0}
<1>1. Bytes \in Nat /\ p \in Nat /\ p <= Bytes - 1
  BY CStringAssumption DEF Addresses
<1>2. PICK q \in p .. Bytes - 1 : m[q] = 0
  BY DEF Terminated
<1>3. q - p \in 0 .. Bytes - 1 - p /\ p + (q - p) = q
  BY <1>1
<1>4. S # {} /\ S \subseteq Nat
  <2>1. m[p + (q - p)] = 0
    BY <1>2, <1>3
  <2>2. q - p \in S
    BY <1>3, <2>1
  <2>3. S \subseteq Nat
    BY <1>1
  <2>. QED
    BY <2>2, <2>3
<1> HIDE DEF S
<1>5. \E x \in S : \A y \in S : x <= y
  BY <1>4, LeastExists
<1>6. Min(S) \in S
  BY <1>5 DEF Min
<1>7. strlen(m, p) = Min(S)
  BY DEF strlen, S
<1>. QED
  BY <1>6, <1>7 DEF S

\* The recursive sum exists and is what it says.
LEMMA TotalIs ==
    ASSUME StringTypes, ArgumentsAreStrings
    PROVE  /\ TotalBefore \in [0 .. Len(stringArgs) -> Nat]
           /\ TotalBefore[0] = 0
           /\ \A k \in 1 .. Len(stringArgs) :
                TotalBefore[k] = TotalBefore[k - 1] + strlen(memBefore, stringArgs[k])
<1> DEFINE n == Len(stringArgs)
<1> DEFINE length == [k \in 1 .. n |-> strlen(memBefore, stringArgs[k])]
<1> DEFINE step == [c \in (1 .. n) \X Nat |-> c[2] + length[c[1]]]
<1>1. n \in Nat /\ stringArgs \in Seq(Addresses)
  BY LenProperties DEF StringTypes
<1>2. ASSUME NEW k \in 1 .. n PROVE strlen(memBefore, stringArgs[k]) \in Nat
  <2>1. stringArgs[k] \in Addresses /\ Terminated(memBefore, stringArgs[k])
    BY <1>1, ElementOfSeq DEF ArgumentsAreStrings
  <2>2. strlen(memBefore, stringArgs[k]) \in 0 .. Bytes - 1 - stringArgs[k]
    BY <2>1, StrlenIs
  <2>. QED
    BY <2>2
<1>3. length \in [1 .. n -> Nat]
  BY <1>2
<1> HIDE DEF n
<1>4. \A k \in 1 .. n : length[k] = strlen(memBefore, stringArgs[k])
  OBVIOUS
<1> HIDE DEF length
<1>5. step \in [(1 .. n) \X Nat -> Nat]
  BY <1>3
<1>6. \A k \in 1 .. n : \A v \in Nat : step[<<k, v>>] = v + length[k]
  OBVIOUS
<1> HIDE DEF step
<1>7. PICK g \in [0 .. n -> Nat] : g[0] = 0 /\ \A k \in 1 .. n : g[k] = step[<<k, g[k - 1]>>]
  <2>1. IsStep(n, Nat, step) /\ n \in Nat
    BY <1>1, <1>5 DEF n, IsStep
  <2>2. \E g : IsLoop(g, n, Nat, 0, step)
    BY <2>1, LoopExists
  <2>. QED
    BY <2>2 DEF IsLoop
<1>8. ASSUME NEW k \in 0 .. n
      PROVE  g[k] = IF k = 0 THEN 0 ELSE g[k - 1] + strlen(memBefore, stringArgs[k])
  <2>1. CASE k = 0
    BY <1>7, <2>1
  <2>2. CASE k # 0
    <3>1. k \in 1 .. n /\ k - 1 \in 0 .. n
      BY <1>1, <2>2
    <3>2. g[k] = g[k - 1] + length[k]
      BY <1>6, <1>7, <3>1
    <3>. QED
      BY <1>4, <2>2, <3>1, <3>2
  <2>. QED
    BY <2>1, <2>2
<1>9. g = [k \in 0 .. n |-> IF k = 0 THEN 0 ELSE g[k - 1] + strlen(memBefore, stringArgs[k])]
  BY <1>8
<1>10. TotalBefore = [k \in 0 .. n |-> IF k = 0 THEN 0
                         ELSE TotalBefore[k - 1] + strlen(memBefore, stringArgs[k])]
  BY <1>9 DEF TotalBefore, n
<1>11. TotalBefore[0] = 0
  BY <1>1, <1>10
<1>12. ASSUME NEW k \in 1 .. n
       PROVE  TotalBefore[k] = TotalBefore[k - 1] + strlen(memBefore, stringArgs[k])
  BY <1>1, <1>10
<1> DEFINE S == {k \in 0 .. n : TotalBefore[k] \in Nat}
<1>13. 0 \in S
  BY <1>1, <1>11
<1>14. ASSUME NEW k \in 0 .. n - 1, k \in S PROVE k + 1 \in S
  <2>1. k + 1 \in 1 .. n /\ (k + 1) - 1 = k /\ k + 1 \in 0 .. n
    BY <1>1
  <2>2. TotalBefore[k + 1] = TotalBefore[k] + strlen(memBefore, stringArgs[k + 1])
    BY <1>12, <2>1
  <2>. QED
    BY <1>2, <1>14, <2>1, <2>2
<1> HIDE DEF S
<1>15. 0 .. n \subseteq S
  BY <1>1, <1>13, <1>14, BoundedInduction
<1>16. \A k \in 0 .. n : TotalBefore[k] \in Nat
  BY <1>15 DEF S
<1>17. TotalBefore \in [0 .. n -> Nat]
  BY <1>10, <1>16
<1>. QED
  BY <1>11, <1>12, <1>17 DEF n

-----------------------------------------------------------------------------
(* The invariant *)

\* The sum depends on the arguments and the memory before the call only.
LEMMA TotalStays ==
    ASSUME UNCHANGED <<memBefore, stringArgs>>
    PROVE  TotalBefore' = TotalBefore /\ Total' = Total
BY DEF TotalBefore, Total, strlen

LEMMA StringInvInit == StringInit => StringInv
<1> SUFFICES ASSUME StringInit PROVE StringInv
  OBVIOUS
<1>1. /\ stringPc = "strcpy" /\ mem \in [Addresses -> Chars] /\ memBefore = mem
      /\ stringFn \in {"strcpy", "strcat"} /\ stringBuf \in Addresses
      /\ argsDone = 0 /\ strsize = 0 /\ off = 0 /\ strcpyRet = "none"
  BY DEF StringInit, Addresses
<1>2. /\ stringArgs \in Seq(Addresses) /\ DOMAIN stringArgs = 1 .. Len(stringArgs)
      /\ Len(stringArgs) \in Nat
  <2>1. PICK k \in 1 .. MaxArgs : stringArgs \in [1 .. k -> Addresses]
    BY DEF StringInit, Addresses
  <2>2. k \in Nat
    BY CStringAssumption
  <2>3. stringArgs \in Seq(Addresses)
    BY <2>1, <2>2, FunctionIsSeq
  <2>. QED
    BY <2>3, LenProperties
<1>3. StringTypes
  BY <1>1, <1>2 DEF StringTypes
<1>4. ArgumentsAreStrings
  BY <1>1, <1>2 DEF ArgumentsAreStrings, StringInit
<1>5. StrsizeIsSum
  BY <1>1, <1>3, <1>4, TotalIs DEF StrsizeIsSum
<1>. QED
  BY <1>1, <1>3, <1>4, <1>5
  DEF StringInv, AcceptedIsEmpty, StrcpyCopiesNothing, StrcatOnlyTerminates

\* What every step but the writes and the exits from the two calls leaves alone.
LEMMA QuietSteps ==
    ASSUME StringInv,
           UNCHANGED <<mem, memBefore, stringFn, stringBuf, stringArgs>>,
           stringPc \notin {"return", "wild"}
    PROVE  /\ Total' = Total /\ TotalBefore' = TotalBefore /\ mem = memBefore
           /\ ArgumentsAreStrings /\ (argsDone' = argsDone => ArgumentsAreStrings')
<1>1. Total' = Total /\ TotalBefore' = TotalBefore
  BY TotalStays
<1>2. mem = memBefore
  BY DEF StringInv, StringTypes, StrcpyCopiesNothing, StrcatOnlyTerminates
<1>3. ArgumentsAreStrings /\ (argsDone' = argsDone => ArgumentsAreStrings')
  BY DEF StringInv, ArgumentsAreStrings, Terminated
<1>. QED
  BY <1>1, <1>2, <1>3

LEMMA StrcpyKeeps == StringInv /\ strcpy => StringInv'
<1> SUFFICES ASSUME StringInv, strcpy PROVE StringInv'
  OBVIOUS
<1>1. /\ stringPc = "strcpy" /\ argsDone < Len(stringArgs) /\ off' = 0
      /\ UNCHANGED <<mem, memBefore, stringFn, stringBuf, stringArgs, stringSize, argsDone,
                     strsize>>
      /\ \/ Refuses /\ stringPc' = "length" /\ strcpyRet' = "NULL"
         \/ ~Refuses /\ stringPc' = "copy" /\ strcpyRet' = "dest"
  BY DEF strcpy
<1>2. /\ Total' = Total /\ TotalBefore' = TotalBefore /\ mem = memBefore
      /\ ArgumentsAreStrings /\ ArgumentsAreStrings'
  BY <1>1, QuietSteps
<1>3. /\ StringTypes /\ StrsizeIsSum /\ argsDone \in Nat /\ argsDone + 1 \in 1 .. Len(stringArgs)
      /\ stringBuf \in Addresses
  <2>1. Len(stringArgs) \in Nat
    BY LenProperties DEF StringInv, StringTypes
  <2>. QED
    BY <1>1, <2>1 DEF StringInv, StringTypes
<1>4. ~Refuses => src = dest /\ memBefore[dest] = 0
  <2>1. SUFFICES ASSUME ~Refuses PROVE src = dest /\ memBefore[dest] = 0
    OBVIOUS
  <2>2. src \in Addresses /\ Terminated(mem, src)
    BY <1>2, <1>3, ElementOfSeq DEF src, ArgumentsAreStrings, StringTypes
  <2>3. strlen(mem, src) \in 0 .. Bytes - 1 - src /\ mem[src + strlen(mem, src)] = 0
    BY <2>2, StrlenIs
  <2>4. dest \in Nat
    <3>1. TotalBefore[argsDone] \in Nat
      BY <1>2, <1>3, TotalIs DEF StringTypes
    <3>2. stringBuf \in Nat /\ strsize \in Nat
      BY <1>3, <3>1 DEF StrsizeIsSum, Addresses
    <3>. QED
      BY <3>2 DEF dest
  <2>5. ~(src + strlen(mem, src) > dest) /\ ~(src < dest)
    BY <2>1 DEF Refuses
  <2>6. src \in Nat
    BY <2>2 DEF Addresses
  <2>7. src = dest /\ strlen(mem, src) = 0
    <3> DEFINE a == src
    <3> DEFINE b == dest
    <3> DEFINE l == strlen(mem, src)
    <3>1. a \in Nat /\ b \in Nat /\ l \in Nat /\ ~(a + l > b) /\ ~(a < b)
      BY <2>3, <2>4, <2>5, <2>6
    <3> HIDE DEF a, b, l
    <3>2. a = b /\ l = 0
      BY <3>1
    <3>. QED
      BY <3>2 DEF a, b, l
  <2>8. src + strlen(mem, src) = dest
    BY <2>4, <2>7
  <2>. QED
    BY <1>2, <2>3, <2>7, <2>8
<1>5. src' = src /\ dest' = dest
  BY <1>1 DEF src, dest
<1>6. stringFn = "strcpy" => src = stringArgs[1] /\ dest = stringBuf
  <2>1. SUFFICES ASSUME stringFn = "strcpy" PROVE src = stringArgs[1] /\ dest = stringBuf
    OBVIOUS
  <2>2. argsDone = 0
    BY <1>2, <2>1 DEF ArgumentsAreStrings
  <2>3. strsize = 0
    BY <1>2, <1>3, <2>2, TotalIs DEF StrsizeIsSum
  <2>4. stringBuf \in Int
    BY <1>3 DEF Addresses
  <2>. QED
    BY <2>2, <2>3, <2>4 DEF src, dest
<1>7. StringTypes' /\ StrsizeIsSum'
  BY <1>1, <1>2, <1>3 DEF StringTypes, StrsizeIsSum
<1>8. AcceptedIsEmpty'
  <2>1. CASE Refuses /\ stringPc' = "length" /\ strcpyRet' = "NULL"
    BY <1>1, <2>1 DEF AcceptedIsEmpty
  <2>2. CASE ~Refuses /\ stringPc' = "copy" /\ strcpyRet' = "dest"
    BY <1>1, <1>4, <1>5, <1>6, <2>2 DEF AcceptedIsEmpty
  <2>. QED
    BY <1>1, <2>1, <2>2
<1>9. StrcpyCopiesNothing'
  BY <1>1, <1>2, <1>8 DEF StrcpyCopiesNothing, AcceptedIsEmpty
<1>10. StrcatOnlyTerminates'
  BY <1>1, <1>2 DEF StrcatOnlyTerminates
<1>. QED
  BY <1>2, <1>7, <1>8, <1>9, <1>10 DEF StringInv

LEMMA CopyByteKeeps == StringInv /\ CopyByte => StringInv'
<1> SUFFICES ASSUME StringInv, CopyByte PROVE StringInv'
  OBVIOUS
<1>1. /\ stringPc = "copy" /\ mem' = [mem EXCEPT ![dest + off] = mem[src + off]]
      /\ stringPc' = (IF mem[src + off] = 0 THEN "length" ELSE stringPc)
      /\ UNCHANGED <<memBefore, stringFn, stringBuf, stringArgs, stringSize, argsDone, strsize,
                     strcpyRet>>
  BY DEF CopyByte
<1>2. mem = memBefore /\ StringTypes /\ ArgumentsAreStrings /\ StrsizeIsSum
  BY <1>1 DEF StringInv, StringTypes, StrcpyCopiesNothing, StrcatOnlyTerminates
<1>3. src = dest /\ off = 0 /\ memBefore[dest] = 0 /\ argsDone < Len(stringArgs)
  BY <1>1 DEF StringInv, AcceptedIsEmpty
<1>4. dest \in Nat
  <2>1. TotalBefore[argsDone] \in Nat
    BY <1>2, TotalIs DEF StringTypes
  <2>2. stringBuf \in Nat /\ strsize \in Nat
    BY <1>2, <2>1 DEF StringTypes, StrsizeIsSum, Addresses
  <2>. QED
    BY <2>2 DEF dest
<1>5. dest + off = dest /\ src + off = dest
  BY <1>3, <1>4
<1>6. mem' = mem /\ stringPc' = "length"
  BY <1>1, <1>2, <1>3, <1>5 DEF StringTypes
<1>7. Total' = Total /\ TotalBefore' = TotalBefore
  BY <1>1, TotalStays
<1>8. StringTypes' /\ ArgumentsAreStrings' /\ StrsizeIsSum'
  BY <1>1, <1>2, <1>6, <1>7 DEF StringTypes, ArgumentsAreStrings, StrsizeIsSum, Terminated
<1>9. AcceptedIsEmpty'
  BY <1>1, <1>3, <1>6 DEF StringInv, AcceptedIsEmpty
<1>10. StrcpyCopiesNothing' /\ StrcatOnlyTerminates'
  BY <1>1, <1>2, <1>6 DEF StringInv, StrcpyCopiesNothing, StrcatOnlyTerminates
<1>. QED
  BY <1>8, <1>9, <1>10 DEF StringInv

LEMMA NextArgumentKeeps == StringInv /\ NextArgument => StringInv'
<1> SUFFICES ASSUME StringInv, NextArgument PROVE StringInv'
  OBVIOUS
<1>1. /\ stringPc = "length" /\ stringFn = "strcat" /\ stringPc' = "strcpy"
      /\ argsDone' = argsDone + 1 /\ strsize' = strsize + strlen(mem, src)
      /\ UNCHANGED <<mem, memBefore, stringFn, stringBuf, stringArgs>>
  BY DEF NextArgument
<1>2. /\ Total' = Total /\ TotalBefore' = TotalBefore /\ mem = memBefore
      /\ ArgumentsAreStrings
  BY <1>1, QuietSteps
<1>3. StringTypes /\ StrsizeIsSum /\ argsDone < Len(stringArgs)
  BY <1>1 DEF StringInv, AcceptedIsEmpty
<1>4. argsDone \in Nat /\ Len(stringArgs) \in Nat /\ argsDone + 1 \in 1 .. Len(stringArgs)
  BY <1>3, LenProperties DEF StringTypes
<1>5. StringTypes'
  BY <1>1, <1>3, <1>4 DEF StringTypes
<1>6. ArgumentsAreStrings'
  BY <1>1, <1>2 DEF ArgumentsAreStrings, Terminated
<1>7. StrsizeIsSum'
  <2>1. TotalBefore[argsDone + 1] = TotalBefore[(argsDone + 1) - 1] + strlen(memBefore, stringArgs[argsDone + 1])
    BY <1>2, <1>3, <1>4, TotalIs
  <2>2. (argsDone + 1) - 1 = argsDone
    BY <1>4
  <2>3. TotalBefore[argsDone + 1] = strsize + strlen(mem, src)
    BY <1>2, <1>3, <2>1, <2>2 DEF StrsizeIsSum, src
  <2>4. TotalBefore'[argsDone'] = TotalBefore[argsDone + 1]
    BY <1>1, <1>2
  <2>. QED
    BY <1>1, <2>3, <2>4 DEF StrsizeIsSum
<1>8. AcceptedIsEmpty' /\ StrcpyCopiesNothing' /\ StrcatOnlyTerminates'
  BY <1>1, <1>2 DEF AcceptedIsEmpty, StrcpyCopiesNothing, StrcatOnlyTerminates
<1>. QED
  BY <1>5, <1>6, <1>7, <1>8 DEF StringInv

\* The byte that strcat ends with is at the sum of the lengths.
LEMMA TerminatorAtTotal ==
    ASSUME StringInv, argsDone = Len(stringArgs)
    PROVE  Terminator = stringBuf + Total /\ stringBuf + Total \in Nat
<1>1. StringTypes /\ ArgumentsAreStrings /\ StrsizeIsSum
  BY DEF StringInv
<1>2. Total \in Nat /\ stringBuf \in Nat
  <2>1. Len(stringArgs) \in 0 .. Len(stringArgs)
    BY <1>1, LenProperties DEF StringTypes
  <2>. QED
    BY <1>1, <2>1, TotalIs DEF Total, StringTypes, Addresses
<1>. QED
  BY <1>1, <1>2 DEF StrsizeIsSum, Total, Terminator, dest

LEMMA TerminateKeeps == StringInv /\ TerminateString => StringInv'
<1> SUFFICES ASSUME StringInv, TerminateString PROVE StringInv'
  OBVIOUS
<1>1. /\ stringPc = "strcpy" /\ argsDone = Len(stringArgs) /\ stringPc' = "return"
      /\ mem' = [mem EXCEPT ![Terminator] = 0]
      /\ UNCHANGED <<memBefore, stringFn, stringBuf, stringArgs, stringSize, argsDone, strsize,
                     off, strcpyRet>>
  BY DEF TerminateString
<1>2. stringFn = "strcat"
  BY <1>1 DEF StringInv, StringTypes, ArgumentsAreStrings
<1>3. mem = memBefore
  BY <1>1, <1>2 DEF StringInv, StrcatOnlyTerminates
<1>4. Total' = Total /\ TotalBefore' = TotalBefore
  BY <1>1, TotalStays
<1>5. mem' = [memBefore EXCEPT ![stringBuf + Total] = 0]
  BY <1>1, <1>3, TerminatorAtTotal
<1>6. StringTypes' /\ ArgumentsAreStrings' /\ StrsizeIsSum'
  BY <1>1, <1>4
  DEF StringInv, StringTypes, ArgumentsAreStrings, StrsizeIsSum, Terminated
<1>. QED
  BY <1>1, <1>2, <1>4, <1>5, <1>6
  DEF StringInv, AcceptedIsEmpty, StrcpyCopiesNothing, StrcatOnlyTerminates

LEMMA ReturnKeeps == StringInv /\ ReturnFromStrcpy => StringInv'
<1> SUFFICES ASSUME StringInv, ReturnFromStrcpy PROVE StringInv'
  OBVIOUS
<1>1. /\ stringPc = "length" /\ stringFn = "strcpy" /\ stringPc' = "return"
      /\ UNCHANGED <<mem, memBefore, stringFn, stringBuf, stringArgs, stringSize, argsDone,
                     strsize, off, strcpyRet>>
  BY DEF ReturnFromStrcpy
<1>2. Total' = Total /\ TotalBefore' = TotalBefore
  BY <1>1, TotalStays
<1>3. StringTypes' /\ ArgumentsAreStrings' /\ StrsizeIsSum'
  BY <1>1, <1>2
  DEF StringInv, StringTypes, ArgumentsAreStrings, StrsizeIsSum, Terminated
<1>. QED
  BY <1>1, <1>3 DEF StringInv, AcceptedIsEmpty, StrcpyCopiesNothing, StrcatOnlyTerminates

LEMMA WildKeeps == StringInv /\ Wild => StringInv'
<1> SUFFICES ASSUME StringInv, Wild PROVE StringInv'
  OBVIOUS
<1>1. /\ stringPc' = "wild" /\ stringPc \in {"copy", "length", "strcpy"}
      /\ UNCHANGED <<mem, memBefore, stringFn, stringBuf, stringArgs, stringSize, argsDone,
                     strsize, off, strcpyRet>>
  BY DEF Wild
<1>2. /\ mem = memBefore /\ StringTypes /\ ArgumentsAreStrings
      /\ Total' = Total /\ TotalBefore' = TotalBefore
  BY <1>1, QuietSteps DEF StringInv
<1>3. argsDone \in Nat /\ Len(stringArgs) \in Nat
  BY <1>2, LenProperties DEF StringTypes
<1>4. argsDone < Len(stringArgs) => src \in Addresses /\ Terminated(mem, src)
  <2>1. SUFFICES ASSUME argsDone < Len(stringArgs)
                 PROVE  src \in Addresses /\ Terminated(mem, src)
    OBVIOUS
  <2>2. argsDone + 1 \in 1 .. Len(stringArgs)
    BY <1>3, <2>1
  <2>. QED
    BY <1>2, <2>2, ElementOfSeq DEF src, StringTypes, ArgumentsAreStrings
<1>5. stringPc # "copy"
  <2>1. SUFFICES ASSUME stringPc = "copy" PROVE FALSE
    OBVIOUS
  <2>2. src \in Addresses /\ src = dest /\ off = 0
    BY <1>4, <2>1 DEF StringInv, AcceptedIsEmpty
  <2>3. src + off < Bytes /\ dest + off < Bytes
    BY <2>2, CStringAssumption DEF Addresses
  <2>. QED
    BY <2>1, <2>3 DEF Wild, InMemory
<1>6. stringPc # "length"
  BY <1>4 DEF Wild, StringInv, AcceptedIsEmpty
<1>7. argsDone = Len(stringArgs) /\ ~InMemory(Terminator)
  BY <1>4, <1>5, <1>6 DEF Wild
<1>8. stringFn = "strcat"
  BY <1>2, <1>7 DEF StringTypes, ArgumentsAreStrings
<1>9. ~InMemory(stringBuf + Total)
  BY <1>7, TerminatorAtTotal
<1>10. StringTypes' /\ ArgumentsAreStrings' /\ StrsizeIsSum'
  BY <1>1, <1>2
  DEF StringInv, StringTypes, ArgumentsAreStrings, StrsizeIsSum, Terminated
<1>. QED
  BY <1>1, <1>2, <1>8, <1>9, <1>10
  DEF StringInv, AcceptedIsEmpty, StrcpyCopiesNothing, StrcatOnlyTerminates, InMemory

LEMMA StringInvAlways == StringSpec => []StringInv
<1>1. StringInit => StringInv
  BY StringInvInit
<1>2. ASSUME StringInv, [StringNext]_stringVars PROVE StringInv'
  <2>1. CASE UNCHANGED stringVars
    <3>1. UNCHANGED <<stringPc, mem, memBefore, stringFn, stringBuf, stringArgs, argsDone,
                      strsize, off, strcpyRet>>
      BY <2>1 DEF stringVars
    <3>2. Total' = Total /\ TotalBefore' = TotalBefore /\ src' = src /\ dest' = dest
      BY <3>1, TotalStays DEF src, dest
    <3>3. StringTypes' /\ ArgumentsAreStrings' /\ StrsizeIsSum' /\ AcceptedIsEmpty'
      BY <1>2, <3>1, <3>2
      DEF StringInv, StringTypes, ArgumentsAreStrings, StrsizeIsSum, Terminated, AcceptedIsEmpty
    <3>. QED
      BY <1>2, <3>1, <3>2, <3>3
      DEF StringInv, StrcpyCopiesNothing, StrcatOnlyTerminates, InMemory
  <2>. QED
    BY <1>2, <2>1, StrcpyKeeps, CopyByteKeeps, NextArgumentKeeps, TerminateKeeps, ReturnKeeps,
       WildKeeps DEF StringNext
<1>. QED
  BY <1>1, <1>2, PTL DEF StringSpec

\* strcpy never runs away, what it accepts it copies, what it refuses it leaves alone.
THEOREM StrcpySafe == StringSpec => []StrcpyIsSafe
<1>1. StringInv => StrcpyIsSafe
  <2>. SUFFICES ASSUME StringInv, stringFn = "strcpy"
                PROVE  /\ stringPc # "wild"
                       /\ strcpyRet = "NULL" => mem = memBefore
                       /\ strcpyRet = "dest" =>
                             String(mem, stringBuf) = String(memBefore, stringArgs[1])
    BY DEF StrcpyIsSafe
  <2>1. /\ stringPc # "wild" /\ mem = memBefore
        /\ strcpyRet = "dest" => stringArgs[1] = stringBuf
    BY DEF StringInv, StrcpyCopiesNothing
  <2>. QED
    BY <2>1
<1>. QED
  BY <1>1, StringInvAlways, PTL

\* strcat writes one byte, the terminator, where the arguments would end.
THEOREM StrcatWritesTerminator == StringSpec => []StrcatOnlyTerminates
<1>1. StringInv => StrcatOnlyTerminates
  BY DEF StringInv
<1>. QED
  BY <1>1, StringInvAlways, PTL

-----------------------------------------------------------------------------
(* HexString *)

\* What the number is without its last k digits.
Rest(k) == number \div BasePower[k]

HexTypes ==
    /\ hexPc \in {"num_digits", "to_hex_str", "digit", "return"}
    /\ number \in Word /\ base \in Bases /\ hexSize \in 1 .. MaxSize
    /\ digits \in 1 .. number + 1 /\ power \in Nat
    /\ hexBuf \in [0 .. hexSize - 1 -> Int]

\* The power is that of all digits but one, and no larger than the number.
PowerInv ==
    /\ power = BasePower[digits - 1] /\ digits <= power
    /\ digits > 1 => power <= number
    /\ hexPc # "num_digits" => number < power * base

\* Before the first digit nothing is written, nor by a call that fails.
Blank ==
    /\ hexPc \in {"num_digits", "to_hex_str"} => hexN = number
    /\ hexPc = "to_hex_str" => hexIndex = digits - 1
    /\ hexPc \in {"num_digits", "to_hex_str"} \/ (hexPc = "return" /\ hexRet # 1) =>
         \A j \in 0 .. hexSize - 1 : hexBuf[j] = Unwritten

\* The last w digits are written and not in hexN any more.
Wrote(w) ==
    /\ hexN = Rest(w)
    /\ w < digits => hexIndex = digits - 1 - w
    /\ \A j \in digits - w .. digits - 1 : hexBuf[j] = Rest(digits - 1 - j) % HEX

DigitInv ==
    /\ hexPc = "digit" => base = HEX /\ digits < hexSize /\ \E w \in 0 .. digits : Wrote(w)
    /\ hexPc = "return" /\ hexRet = 1 /\ number > 0 =>
         /\ base = HEX /\ digits < hexSize
         /\ \A j \in 0 .. digits - 1 : hexBuf[j] = Rest(digits - 1 - j) % HEX

HexInv == HexTypes /\ PowerInv /\ Blank /\ DigitInv

-----------------------------------------------------------------------------
(* Arithmetic *)

\* A quotient that reaches b means b times the divisor fits into the number.
LEMMA QuotientBound ==
    ASSUME NEW n \in Nat, NEW p \in Nat \ {0}, NEW b \in Nat
    PROVE  /\ n \div p \in Nat
           /\ n \div p >= b => p * b <= n
           /\ n \div p < b => n < p * b
<1> DEFINE q == n \div p
<1> DEFINE r == n % p
<1>1. q \in Nat
  OBVIOUS
<1>2. r \in 0 .. p - 1
  OBVIOUS
<1>3. n = p * q + r
  OBVIOUS
<1> HIDE DEF q, r
<1>4. p * q \in Nat /\ p * b \in Nat
  BY <1>1
<1>5. q >= b => p * b <= p * q
  BY <1>1, Monotone
<1>6. q < b => p * (q + 1) <= p * b
  <2>1. q + 1 \in Int /\ (q < b => q + 1 <= b)
    BY <1>1
  <2>. QED
    BY <2>1, Monotone
<1>7. p * (q + 1) = p * q + p
  BY <1>1
<1>8. q >= b => p * b <= n
  BY <1>2, <1>3, <1>4, <1>5
<1>9. q < b => n < p * b
  BY <1>2, <1>3, <1>4, <1>6, <1>7
<1>. QED
  BY <1>1, <1>8, <1>9 DEF q

\* Division by a product is division by one factor after the other.
LEMMA DivideTwice ==
    ASSUME NEW n \in Nat, NEW p \in Nat \ {0}, NEW b \in Nat \ {0}
    PROVE  (n \div p) \div b = n \div (p * b)
<1> DEFINE q == n \div p
<1> DEFINE r == n % p
<1>1. q \in Nat /\ r \in 0 .. p - 1
  OBVIOUS
<1>2. n = p * q + r
  OBVIOUS
<1> HIDE DEF q, r
<1> DEFINE s == q \div b
<1> DEFINE t == q % b
<1>3. s \in Nat /\ t \in 0 .. b - 1
  BY <1>1
<1>4. q = b * s + t
  BY <1>1
<1> HIDE DEF s, t
<1>5. p * q = p * (b * s) + p * t
  BY <1>3, <1>4
<1>6. p * (b * s) = (p * b) * s
  BY <1>3
<1> DEFINE d == p * b
<1> DEFINE u == p * t + r
<1>7. d \in Nat \ {0}
  <2>1. p * b >= p * 1
    BY Monotone
  <2>. QED
    BY <2>1
<1>8. n = d * s + u
  BY <1>1, <1>2, <1>3, <1>5, <1>6
<1>9. u \in 0 .. d - 1
  <2>1. p * t \in Nat /\ p * (t + 1) <= p * b
    <3>1. t + 1 \in Int /\ t + 1 <= b /\ b \in Int
      BY <1>3
    <3>. QED
      BY <1>3, <3>1, Monotone
  <2>2. p * (t + 1) = p * t + p
    BY <1>3
  <2>. QED
    BY <1>1, <1>7, <2>1, <2>2
<1> HIDE DEF d, u
<1>10. n \div d = s
  BY <1>3, <1>7, <1>8, <1>9, DivModUnique
<1>. QED
  BY <1>10 DEF d, s, q

-----------------------------------------------------------------------------
(* The recursive functions *)

LEMMA HexBounds ==
    /\ WordSize \in Nat \ {0} /\ HEX \in Nat \ {0, 1} /\ MaxSize \in Nat
    /\ \A b \in Bases : b \in Nat \ {0, 1}
BY HexStringAssumption

LEMMA PowersAre ==
    ASSUME number \in Nat, base \in Nat \ {0, 1}
    PROVE  /\ BasePower[0] = 1
           /\ \A k \in 1 .. number + 1 : BasePower[k] = BasePower[k - 1] * base
           /\ \A k \in 0 .. number + 1 : BasePower[k] \in Nat \ {0}
<1> DEFINE n == number + 1
<1> DEFINE step == [c \in (1 .. n) \X Nat |-> c[2] * base]
<1>1. n \in Nat /\ base \in Nat
  OBVIOUS
<1> HIDE DEF n
<1>2. IsStep(n, Nat, step)
  BY <1>1 DEF IsStep
<1>3. \A k \in 1 .. n : \A v \in Nat : step[<<k, v>>] = v * base
  OBVIOUS
<1> HIDE DEF step
<1>4. \E g : IsLoop(g, n, Nat, 1, step)
  BY <1>1, <1>2, LoopExists
<1>5. PICK g : /\ g \in [0 .. n -> Nat] /\ g[0] = 1
               /\ \A k \in 1 .. n : g[k] = step[<<k, g[k - 1]>>]
  BY <1>4 DEF IsLoop
<1>6. ASSUME NEW k \in 0 .. n
      PROVE  g[k] = IF k = 0 THEN 1 ELSE g[k - 1] * base
  <2>1. CASE k = 0
    BY <1>5, <2>1
  <2>2. CASE k # 0
    <3>1. k \in 1 .. n /\ k - 1 \in 0 .. n
      BY <1>1, <2>2
    <3>. QED
      BY <1>3, <1>5, <2>2, <3>1
  <2>. QED
    BY <2>1, <2>2
<1>7. g = [k \in 0 .. n |-> IF k = 0 THEN 1 ELSE g[k - 1] * base]
  BY <1>5, <1>6
<1>8. BasePower = [k \in 0 .. n |-> IF k = 0 THEN 1 ELSE BasePower[k - 1] * base]
  BY <1>7 DEF BasePower, n
<1>9. BasePower[0] = 1
  BY <1>1, <1>8
<1>10. ASSUME NEW k \in 1 .. n PROVE BasePower[k] = BasePower[k - 1] * base
  BY <1>1, <1>8
<1> DEFINE S == {k \in 0 .. n : BasePower[k] \in Nat \ {0}}
<1>11. 0 \in S
  BY <1>1, <1>9
<1>12. ASSUME NEW k \in 0 .. n - 1, k \in S PROVE k + 1 \in S
  <2>1. k + 1 \in 1 .. n /\ (k + 1) - 1 = k /\ k + 1 \in 0 .. n
    BY <1>1
  <2>2. BasePower[k + 1] = BasePower[k] * base
    BY <1>10, <2>1
  <2>3. BasePower[k] \in Nat \ {0}
    BY <1>12
  <2> DEFINE p == BasePower[k]
  <2> HIDE DEF p
  <2>4. p \in Nat \ {0} => p * base \in Nat \ {0}
    <3>1. p \in Nat \ {0} => base * 1 <= base * p
      BY Monotone
    <3>. QED
      BY <3>1
  <2>5. BasePower[k + 1] \in Nat \ {0}
    BY <2>2, <2>3, <2>4 DEF p
  <2>. QED
    BY <2>1, <2>5
<1> HIDE DEF S
<1>13. 0 .. n \subseteq S
  BY <1>1, <1>11, <1>12, BoundedInduction
<1>14. \A k \in 0 .. n : BasePower[k] \in Nat \ {0}
  BY <1>13 DEF S
<1>. QED
  BY <1>9, <1>10, <1>14 DEF n

\* One digit after the other leaves the number.
LEMMA RestsAre ==
    ASSUME number \in Nat, base \in Nat \ {0, 1}
    PROVE  /\ Rest(0) = number
           /\ \A k \in 0 .. number + 1 : Rest(k) \in Nat
           /\ \A k \in 1 .. number + 1 : Rest(k) = Rest(k - 1) \div base
<1>1. /\ BasePower[0] = 1
      /\ \A k \in 1 .. number + 1 : BasePower[k] = BasePower[k - 1] * base
      /\ \A k \in 0 .. number + 1 : BasePower[k] \in Nat \ {0}
  BY PowersAre
<1>2. Rest(0) = number
  <2>1. number = 1 * number + 0 /\ 0 \in 0 .. 1 - 1
    OBVIOUS
  <2>2. number \div 1 = number
    OBVIOUS
  <2>. QED
    BY <1>1, <2>2 DEF Rest
<1>3. \A k \in 0 .. number + 1 : Rest(k) \in Nat
  BY <1>1, QuotientBound DEF Rest
<1>4. ASSUME NEW k \in 1 .. number + 1 PROVE Rest(k) = Rest(k - 1) \div base
  <2>1. k - 1 \in 0 .. number + 1
    OBVIOUS
  <2>2. BasePower[k - 1] \in Nat \ {0} /\ BasePower[k] = BasePower[k - 1] * base
    BY <1>1, <2>1
  <2> DEFINE p == BasePower[k - 1]
  <2>3. p \in Nat \ {0}
    BY <2>2
  <2> HIDE DEF p
  <2>4. (number \div p) \div base = number \div (p * base)
    BY <2>3, DivideTwice
  <2>. QED
    BY <2>2, <2>4 DEF Rest, p
<1>. QED
  BY <1>2, <1>3, <1>4

-----------------------------------------------------------------------------
(* The invariant *)

LEMMA PowersStay ==
    ASSUME UNCHANGED <<number, base>>
    PROVE  BasePower' = BasePower
BY DEF BasePower

\* The facts about the variables that every step starts from.
LEMMA HexFacts ==
    ASSUME HexTypes
    PROVE  /\ number \in Nat /\ number < WordSize /\ WordSize \in Nat \ {0}
           /\ base \in Nat \ {0, 1} /\ hexSize \in Nat \ {0}
           /\ digits \in Nat \ {0} /\ digits <= number + 1
           /\ HEX \in Nat \ {0, 1}
BY HexBounds DEF HexTypes, Word

LEMMA HexInvInit == HexInit => HexInv
<1> SUFFICES ASSUME HexInit PROVE HexInv
  OBVIOUS
<1>1. /\ hexPc = "num_digits" /\ number \in Word /\ hexN = number
      /\ base \in Bases /\ hexSize \in 1 .. MaxSize
      /\ digits = 1 /\ power = 1 /\ hexIndex = 0
      /\ hexBuf = [k \in 0 .. hexSize - 1 |-> Unwritten] /\ hexRet = 0
  BY DEF HexInit
<1>2. number \in Nat /\ base \in Nat \ {0, 1}
  BY <1>1, HexBounds DEF Word
<1>3. hexBuf \in [0 .. hexSize - 1 -> Int] /\ \A j \in 0 .. hexSize - 1 : hexBuf[j] = Unwritten
  BY <1>1 DEF Unwritten
<1>4. HexTypes
  <2>1. 1 \in 1 .. number + 1 /\ 1 \in Nat
    BY <1>2
  <2>. QED
    BY <1>1, <1>3, <2>1 DEF HexTypes
<1>5. PowerInv
  BY <1>1, <1>2, PowersAre DEF PowerInv
<1>6. Blank /\ DigitInv
  BY <1>1, <1>3 DEF Blank, DigitInv
<1>. QED
  BY <1>4, <1>5, <1>6 DEF HexInv

LEMMA NumDigitsKeeps == HexInv /\ num_digits => HexInv'
<1> SUFFICES ASSUME HexInv, num_digits PROVE HexInv'
  OBVIOUS
<1>1. /\ hexPc = "num_digits"
      /\ UNCHANGED <<number, base, hexSize, hexN, hexBuf, hexRet>>
      /\ \/ /\ AnotherDigit
            /\ digits' = digits + 1 /\ power' = (power * base) % WordSize
            /\ UNCHANGED <<hexPc, hexIndex>>
         \/ /\ ~AnotherDigit /\ hexPc' = "to_hex_str"
            /\ hexIndex' = digits - 1 /\ UNCHANGED <<digits, power>>
  BY DEF num_digits
<1>2. /\ number \in Nat /\ number < WordSize /\ WordSize \in Nat \ {0}
      /\ base \in Nat \ {0, 1} /\ hexSize \in Nat \ {0}
      /\ digits \in Nat \ {0} /\ digits <= number + 1
  BY HexFacts DEF HexInv
<1>3. /\ BasePower' = BasePower
      /\ \A k \in 1 .. number + 1 : BasePower[k] = BasePower[k - 1] * base
  BY <1>1, <1>2, PowersStay, PowersAre
<1>4. /\ power = BasePower[digits - 1] /\ digits <= power /\ power \in Nat \ {0}
  BY <1>2 DEF HexInv, HexTypes, PowerInv
<1>5. /\ number \div power >= base => power * base <= number
      /\ number \div power < base => number < power * base
      /\ number \div power \in Nat
  BY <1>2, <1>4, QuotientBound
<1>6. CASE AnotherDigit /\ digits' = digits + 1 /\ power' = (power * base) % WordSize /\ UNCHANGED <<hexPc, hexIndex>>
  <2> DEFINE next == power * base
  <2>1. next \in Nat /\ next <= number
    BY <1>2, <1>4, <1>5, <1>6 DEF AnotherDigit
  <2>2. power' = next
    <3>1. next = WordSize * 0 + next /\ next \in 0 .. WordSize - 1
      BY <1>2, <2>1
    <3> HIDE DEF next
    <3>2. next % WordSize = next
      BY <1>2, <2>1, <3>1, DivModUnique
    <3>. QED
      BY <1>6, <3>2 DEF next
  <2>3. digits + 1 <= next
    <3>1. power * 2 <= power * base
      BY <1>2, <1>4, Monotone
    <3>2. power * 2 = power + power
      BY <1>4
    <3>. QED
      BY <1>2, <1>4, <2>1, <3>1, <3>2
  <2> HIDE DEF next
  <2>4. digits + 1 \in 1 .. number + 1 /\ digits \in 1 .. number + 1 /\ (digits + 1) - 1 = digits
    BY <1>2, <2>1, <2>3
  <2>5. next = BasePower[digits]
    BY <1>3, <1>4, <2>4 DEF next
  <2>6. HexTypes'
    BY <1>1, <1>6, <2>1, <2>2, <2>4 DEF HexInv, HexTypes
  <2>7. PowerInv'
    <3>1. power' = BasePower'[digits' - 1]
      BY <1>3, <1>6, <2>2, <2>4, <2>5
    <3>. QED
      BY <1>1, <1>6, <2>1, <2>2, <2>3, <3>1 DEF PowerInv
  <2>8. Blank' /\ DigitInv'
    BY <1>1, <1>6 DEF HexInv, Blank, DigitInv
  <2>. QED
    BY <2>6, <2>7, <2>8 DEF HexInv
<1>7. CASE ~AnotherDigit /\ hexPc' = "to_hex_str" /\ hexIndex' = digits - 1 /\ UNCHANGED <<digits, power>>
  <2>1. number < power * base
    BY <1>2, <1>5, <1>7 DEF AnotherDigit
  <2>2. HexTypes' /\ PowerInv'
    BY <1>1, <1>3, <1>7, <2>1 DEF HexInv, HexTypes, PowerInv
  <2>3. Blank' /\ DigitInv'
    BY <1>1, <1>7 DEF HexInv, Blank, DigitInv
  <2>. QED
    BY <2>2, <2>3 DEF HexInv
<1>. QED
  BY <1>1, <1>6, <1>7

LEMMA ToHexStrKeeps == HexInv /\ to_hex_str => HexInv'
<1> SUFFICES ASSUME HexInv, to_hex_str PROVE HexInv'
  OBVIOUS
<1>1. /\ hexPc = "to_hex_str" /\ base = HEX
      /\ UNCHANGED <<number, base, hexSize, digits, power, hexN, hexIndex, hexBuf>>
      /\ \/ TooSmallForHex /\ hexPc' = "return" /\ hexRet' = -1
         \/ ~TooSmallForHex /\ hexPc' = "digit" /\ UNCHANGED hexRet
  BY DEF to_hex_str
<1>2. /\ number \in Nat /\ base \in Nat \ {0, 1} /\ hexSize \in Nat /\ digits \in Nat \ {0}
  BY HexFacts DEF HexInv
<1>3. BasePower' = BasePower
  BY <1>1, PowersStay
<1>4. HexTypes' /\ PowerInv'
  BY <1>1, <1>3 DEF HexInv, HexTypes, PowerInv
<1>5. Blank'
  BY <1>1 DEF HexInv, Blank, Unwritten
<1>6. DigitInv'
  <2>1. CASE TooSmallForHex /\ hexPc' = "return" /\ hexRet' = -1
    BY <2>1 DEF DigitInv
  <2>2. CASE ~TooSmallForHex /\ hexPc' = "digit" /\ UNCHANGED hexRet
    <3>1. digits < hexSize
      BY <1>2, <2>2 DEF TooSmallForHex
    <3>2. hexN = number /\ hexIndex = digits - 1
      BY <1>1 DEF HexInv, Blank
    <3>3. Rest(0)' = number
      BY <1>1, <1>2, <1>3, RestsAre DEF Rest
    <3>4. Wrote(0)'
      <4>1. \A j \in digits - 0 .. digits - 1 : FALSE
        BY <1>2
      <4>2. digits - 1 - 0 = digits - 1 /\ digits' - 0 = digits - 0
        BY <1>1, <1>2
      <4>3. \A j \in (digits - 0 .. digits - 1)' : FALSE
        BY <1>1, <4>1
      <4>. QED
        BY <1>1, <3>2, <3>3, <4>2, <4>3 DEF Wrote
    <3>5. 0 \in 0 .. digits'
      BY <1>1, <1>2
    <3>. QED
      BY <1>1, <2>2, <3>1, <3>4, <3>5 DEF DigitInv
  <2>. QED
    BY <1>1, <2>1, <2>2
<1>. QED
  BY <1>4, <1>5, <1>6 DEF HexInv

\* With the digits counted, the number is used up by all of them and not by fewer.
LEMMA DigitsUseUp ==
    ASSUME HexTypes, PowerInv, hexPc # "num_digits"
    PROVE  /\ Rest(digits) = 0
           /\ number > 0 => \A w \in 0 .. digits - 1 : Rest(w) > 0
<1>1. /\ number \in Nat /\ base \in Nat \ {0, 1} /\ digits \in Nat \ {0}
      /\ digits <= number + 1
  BY HexFacts
<1>2. digits \in 1 .. number + 1 /\ digits - 1 \in 0 .. number + 1
  BY <1>1
<1>3. /\ BasePower[digits] = BasePower[digits - 1] * base
      /\ BasePower[digits - 1] \in Nat \ {0} /\ BasePower[0] = 1
  BY <1>1, <1>2, PowersAre
<1>4. Rest(digits) = 0
  <2> DEFINE d == BasePower[digits]
  <2>1. number < d /\ d \in Nat \ {0}
    <3>1. digits \in 0 .. number + 1
      BY <1>2
    <3>2. d \in Nat \ {0}
      BY <1>1, <3>1, PowersAre
    <3>. QED
      BY <1>3, <3>2 DEF PowerInv
  <2>2. Rest(digits) = number \div d
    BY DEF Rest
  <2> HIDE DEF d
  <2>3. number = d * 0 + number /\ number \in 0 .. d - 1
    BY <1>1, <2>1
  <2>4. number \div d = 0
    BY <1>1, <2>1, <2>3, DivModUnique
  <2>. QED
    BY <2>2, <2>4
<1>5. ASSUME number > 0 PROVE Rest(digits - 1) > 0
  <2> DEFINE p == BasePower[digits - 1]
  <2>1. p \in Nat \ {0} /\ p <= number
    <3>1. CASE digits = 1
      BY <1>1, <1>3, <1>5, <3>1
    <3>2. CASE digits > 1
      BY <1>3, <3>2 DEF PowerInv
    <3>. QED
      BY <1>1, <3>1, <3>2
  <2>2. Rest(digits - 1) = number \div p
    BY DEF Rest
  <2> HIDE DEF p
  <2>3. number \div p \in Nat /\ (number \div p < 1 => number < p * 1)
    BY <1>1, <2>1, QuotientBound
  <2>. QED
    BY <1>1, <2>1, <2>2, <2>3
<1>6. ASSUME number > 0, NEW w \in 0 .. digits - 1 PROVE Rest(w) > 0
  <2>1. SUFFICES ASSUME Rest(w) = 0 PROVE FALSE
    <3>1. w \in 0 .. number + 1
      BY <1>1
    <3>2. Rest(w) \in Nat
      BY <1>1, <3>1, RestsAre
    <3>. QED
      BY <3>2
  <2> DEFINE n == digits - 1 - w
  <2> DEFINE S == {i \in 0 .. n : Rest(w + i) = 0}
  <2>2. n \in Nat /\ w \in Nat
    BY <1>1
  <2>3. 0 \in S
    <3>1. w + 0 = w
      BY <2>2
    <3>. QED
      BY <2>1, <2>2, <3>1
  <2>4. ASSUME NEW i \in 0 .. n - 1, i \in S PROVE i + 1 \in S
    <3>1. w + (i + 1) \in 1 .. number + 1 /\ (w + (i + 1)) - 1 = w + i /\ i + 1 \in 0 .. n
      BY <1>1, <2>2
    <3>2. Rest(w + (i + 1)) = Rest(w + i) \div base
      BY <1>1, <3>1, RestsAre
    <3>3. Rest(w + i) = 0
      BY <2>4
    <3>4. 0 \div base = 0
      <4>1. 0 = base * 0 + 0 /\ 0 \in 0 .. base - 1
        BY <1>1
      <4>. QED
        BY <1>1, <4>1, DivModUnique
    <3>. QED
      BY <3>1, <3>2, <3>3, <3>4
  <2>5. w + n = digits - 1
    BY <1>1
  <2> HIDE DEF S, n
  <2>6. 0 .. n \subseteq S
    BY <2>2, <2>3, <2>4, BoundedInduction
  <2>7. Rest(w + n) = 0
    BY <2>2, <2>6 DEF S
  <2>. QED
    BY <1>5, <1>6, <2>5, <2>7
<1>. QED
  BY <1>4, <1>6

LEMMA PutDigitKeeps == HexInv /\ PutDigit => HexInv'
<1> SUFFICES ASSUME HexInv, PutDigit PROVE HexInv'
  OBVIOUS
<1>1. /\ hexPc = "digit" /\ hexPc' = "digit" /\ hexN > 0 /\ hexIndex \in DOMAIN hexBuf
      /\ hexBuf' = [hexBuf EXCEPT ![hexIndex] = hexN % HEX]
      /\ hexIndex' = (hexIndex - 1) % WordSize
      /\ hexN' = hexN \div HEX
      /\ UNCHANGED <<number, base, hexSize, digits, power, hexRet>>
  BY DEF PutDigit
<1>2. /\ number \in Nat /\ number < WordSize /\ WordSize \in Nat \ {0}
      /\ base \in Nat \ {0, 1} /\ hexSize \in Nat \ {0}
      /\ digits \in Nat \ {0} /\ digits <= number + 1 /\ HEX \in Nat \ {0, 1}
  BY HexFacts DEF HexInv
<1>3. base = HEX /\ digits < hexSize
  BY <1>1 DEF HexInv, DigitInv
<1>4. PICK w \in 0 .. digits : Wrote(w)
  BY <1>1 DEF HexInv, DigitInv
<1>5. BasePower' = BasePower
  BY <1>1, PowersStay
<1>6. \A k : Rest(k)' = Rest(k)
  BY <1>1, <1>5 DEF Rest
<1>7. w < digits /\ w \in Nat
  <2>1. Rest(digits) = 0
    BY <1>1, DigitsUseUp DEF HexInv
  <2>. QED
    BY <1>1, <1>2, <1>4, <2>1 DEF Wrote
<1>8. /\ hexN = Rest(w) /\ hexIndex = digits - 1 - w /\ hexN \in Nat
      /\ \A j \in digits - w .. digits - 1 : hexBuf[j] = Rest(digits - 1 - j) % HEX
  <2>1. w \in 0 .. number + 1
    BY <1>2, <1>7
  <2>2. Rest(w) \in Nat
    BY <1>2, <2>1, RestsAre
  <2>. QED
    BY <1>4, <1>7, <2>2 DEF Wrote
<1>9. hexN' = Rest(w + 1)
  <2>1. w + 1 \in 1 .. number + 1 /\ (w + 1) - 1 = w
    BY <1>2, <1>7
  <2>2. Rest(w + 1) = Rest(w) \div base
    BY <1>2, <2>1, RestsAre
  <2>. QED
    BY <1>1, <1>3, <1>8, <2>2
<1>10. w + 1 < digits => hexIndex' = digits - 1 - (w + 1)
  <2>1. SUFFICES ASSUME w + 1 < digits PROVE hexIndex' = digits - 1 - (w + 1)
    OBVIOUS
  <2> DEFINE i == hexIndex - 1
  <2>2. i = digits - 1 - (w + 1) /\ i \in 0 .. WordSize - 1
    BY <1>2, <1>7, <1>8, <2>1
  <2>3. hexIndex' = i % WordSize
    BY <1>1
  <2> HIDE DEF i
  <2>4. i = WordSize * 0 + i /\ i \in Int
    BY <1>2, <2>2
  <2>5. i % WordSize = i
    BY <1>2, <2>2, <2>4, DivModUnique
  <2>. QED
    BY <2>2, <2>3, <2>5
<1>11. hexN % HEX \in Int /\ hexIndex \in 0 .. hexSize - 1
  BY <1>2, <1>3, <1>7, <1>8
<1>12. hexBuf \in [0 .. hexSize - 1 -> Int]
  BY DEF HexInv, HexTypes
<1>13. hexBuf' \in [0 .. hexSize - 1 -> Int]
  BY <1>1, <1>11, <1>12
<1>14. ASSUME NEW j \in digits - (w + 1) .. digits - 1
       PROVE  hexBuf'[j] = Rest(digits - 1 - j) % HEX
  <2>1. j \in 0 .. hexSize - 1
    BY <1>2, <1>3, <1>7
  <2>2. CASE j = hexIndex
    <3>1. digits - 1 - j = w
      BY <1>2, <1>7, <1>8, <2>2
    <3>2. hexBuf'[j] = hexN % HEX
      BY <1>1, <1>12, <2>1, <2>2
    <3>. QED
      BY <1>8, <3>1, <3>2
  <2>3. CASE j # hexIndex
    <3>1. j \in digits - w .. digits - 1
      BY <1>2, <1>7, <1>8, <2>3
    <3>2. hexBuf'[j] = hexBuf[j]
      BY <1>1, <1>12, <2>1, <2>3
    <3>. QED
      BY <1>8, <3>1, <3>2
  <2>. QED
    BY <2>2, <2>3
<1>15. Wrote(w + 1)'
  <2>1. Rest(w + 1)' = Rest(w + 1)
    BY <1>6
  <2>2. \A j \in digits' - (w + 1) .. digits' - 1 : hexBuf'[j] = Rest(digits - 1 - j) % HEX
    BY <1>1, <1>14
  <2>3. \A j \in digits' - (w + 1) .. digits' - 1 : hexBuf'[j] = (Rest(digits - 1 - j) % HEX)'
    BY <1>1, <1>5, <2>2 DEF Rest
  <2>4. w + 1 < digits' => hexIndex' = digits' - 1 - (w + 1)
    BY <1>1, <1>10
  <2>. QED
    BY <1>9, <2>1, <2>3, <2>4 DEF Wrote
<1>16. DigitInv'
  <2>1. w + 1 \in 0 .. digits'
    BY <1>1, <1>2, <1>7
  <2>. QED
    BY <1>1, <1>3, <1>15, <2>1 DEF DigitInv
<1>17. HexTypes' /\ PowerInv' /\ Blank'
  BY <1>1, <1>5, <1>13 DEF HexInv, HexTypes, PowerInv, Blank
<1>. QED
  BY <1>16, <1>17 DEF HexInv

LEMMA TerminateHexKeeps == HexInv /\ TerminateHex => HexInv'
<1> SUFFICES ASSUME HexInv, TerminateHex PROVE HexInv'
  OBVIOUS
<1>1. /\ hexPc = "digit" /\ hexPc' = "return" /\ hexN = 0 /\ hexRet' = 1
      /\ hexBuf' = [hexBuf EXCEPT ![hexSize - 1] = NUL]
      /\ UNCHANGED <<number, base, hexSize, digits, power, hexN, hexIndex>>
  BY DEF TerminateHex
<1>2. /\ number \in Nat /\ hexSize \in Nat \ {0} /\ digits \in Nat \ {0}
  BY HexFacts DEF HexInv
<1>3. base = HEX /\ digits < hexSize
  BY <1>1 DEF HexInv, DigitInv
<1>4. PICK w \in 0 .. digits : Wrote(w)
  BY <1>1 DEF HexInv, DigitInv
<1>5. BasePower' = BasePower
  BY <1>1, PowersStay
<1>6. hexBuf \in [0 .. hexSize - 1 -> Int]
  BY DEF HexInv, HexTypes
<1>7. hexBuf' \in [0 .. hexSize - 1 -> Int]
  <2>1. NUL \in Int
    BY DEF NUL
  <2>. QED
    BY <1>1, <1>6, <2>1
<1>8. number > 0 => \A j \in 0 .. digits - 1 : hexBuf'[j] = Rest(digits - 1 - j) % HEX
  <2>1. SUFFICES ASSUME number > 0, NEW j \in 0 .. digits - 1
                 PROVE  hexBuf'[j] = Rest(digits - 1 - j) % HEX
    OBVIOUS
  <2>2. w = digits
    <3>1. Rest(w) = 0
      BY <1>1, <1>4 DEF Wrote
    <3>2. w \notin 0 .. digits - 1
      BY <1>1, <2>1, <3>1, DigitsUseUp DEF HexInv
    <3>. QED
      BY <1>2, <3>2
  <2>3. j \in digits - w .. digits - 1
    BY <1>2, <2>2
  <2>4. j \in 0 .. hexSize - 1 /\ j # hexSize - 1
    BY <1>2, <1>3
  <2>5. hexBuf'[j] = hexBuf[j]
    BY <1>1, <1>6, <2>4
  <2>. QED
    BY <1>4, <2>3, <2>5 DEF Wrote
<1>9. DigitInv'
  <2>1. number' > 0 => \A j \in 0 .. digits' - 1 : hexBuf'[j] = (Rest(digits - 1 - j) % HEX)'
    BY <1>1, <1>5, <1>8 DEF Rest
  <2>. QED
    BY <1>1, <1>3, <2>1 DEF DigitInv
<1>10. HexTypes' /\ PowerInv' /\ Blank'
  BY <1>1, <1>5, <1>7 DEF HexInv, HexTypes, PowerInv, Blank
<1>. QED
  BY <1>9, <1>10 DEF HexInv

LEMMA HexInvAlways == HexSpec => []HexInv
<1>1. HexInit => HexInv
  BY HexInvInit
<1>2. ASSUME HexInv, [HexNext]_hexVars PROVE HexInv'
  <2>1. CASE UNCHANGED hexVars
    <3>1. UNCHANGED <<hexPc, number, base, hexSize, digits, power, hexN, hexIndex, hexBuf, hexRet>>
      BY <2>1 DEF hexVars
    <3>2. BasePower' = BasePower
      BY <3>1, PowersStay
    <3>3. HexTypes' /\ PowerInv' /\ Blank'
      BY <1>2, <3>1, <3>2 DEF HexInv, HexTypes, PowerInv, Blank
    <3>4. DigitInv'
      BY <1>2, <3>1, <3>2 DEF HexInv, DigitInv, Wrote, Rest
    <3>. QED
      BY <3>3, <3>4 DEF HexInv
  <2>. QED
    BY <1>2, <2>1, NumDigitsKeeps, ToHexStrKeeps, PutDigitKeeps, TerminateHexKeeps DEF HexNext
<1>. QED
  BY <1>1, <1>2, PTL DEF HexSpec

-----------------------------------------------------------------------------
(* The property *)

\* The digits of a buffer that are those of the number add up to it.
LEMMA ValueIsNumber ==
    ASSUME HexTypes, PowerInv, hexPc = "return", base = HEX, digits < hexSize,
           \A j \in 0 .. digits - 1 : hexBuf[j] = Rest(digits - 1 - j) % HEX
    PROVE  (\A j \in 0 .. digits - 1 : hexBuf[j] \in 0 .. HEX - 1) /\ ValueOf[digits] = number
<1>1. /\ number \in Nat /\ HEX \in Nat \ {0, 1} /\ base \in Nat \ {0, 1}
      /\ digits \in Nat \ {0} /\ digits <= number + 1
  BY HexFacts
<1>2. \A k \in 0 .. number + 1 : Rest(k) \in Nat
  BY <1>1, RestsAre
<1>3. ASSUME NEW j \in 0 .. digits - 1
      PROVE  hexBuf[j] \in 0 .. HEX - 1
  <2>1. digits - 1 - j \in 0 .. number + 1
    BY <1>1
  <2> DEFINE v == Rest(digits - 1 - j)
  <2>2. v \in Nat /\ hexBuf[j] = v % HEX
    BY <1>2, <2>1
  <2> HIDE DEF v
  <2>. QED
    BY <1>1, <2>2
<1> DEFINE n == digits
<1> DEFINE step == [c \in (1 .. n) \X Nat |-> c[2] * HEX + hexBuf[c[1] - 1]]
<1>4. ASSUME NEW k \in 1 .. n PROVE k - 1 \in 0 .. digits - 1 /\ hexBuf[k - 1] \in Nat
  <2>1. k - 1 \in 0 .. digits - 1
    BY <1>1
  <2>. QED
    BY <1>1, <1>3, <2>1
<1>5. n \in Nat
  BY <1>1
<1>6. IsStep(n, Nat, step)
  <2>1. ASSUME NEW k \in 1 .. n, NEW v \in Nat PROVE v * HEX + hexBuf[k - 1] \in Nat
    BY <1>1, <1>4
  <2>. QED
    BY <2>1 DEF IsStep
<1>7. \A k \in 1 .. n : \A v \in Nat : step[<<k, v>>] = v * HEX + hexBuf[k - 1]
  OBVIOUS
<1> HIDE DEF step, n
<1>8. \E g : IsLoop(g, n, Nat, 0, step)
  BY <1>5, <1>6, LoopExists
<1>9. PICK g : /\ g \in [0 .. n -> Nat] /\ g[0] = 0
               /\ \A k \in 1 .. n : g[k] = step[<<k, g[k - 1]>>]
  BY <1>8 DEF IsLoop
<1>10. ASSUME NEW k \in 0 .. n
       PROVE  g[k] = IF k = 0 THEN 0 ELSE g[k - 1] * HEX + hexBuf[k - 1]
  <2>1. CASE k = 0
    BY <1>9, <2>1
  <2>2. CASE k # 0
    <3>1. k \in 1 .. n /\ k - 1 \in 0 .. n
      BY <1>5, <2>2
    <3>. QED
      BY <1>7, <1>9, <2>2, <3>1
  <2>. QED
    BY <2>1, <2>2
<1>11. g = [k \in 0 .. n |-> IF k = 0 THEN 0 ELSE g[k - 1] * HEX + hexBuf[k - 1]]
  BY <1>9, <1>10
<1>12. ValueOf = [k \in 0 .. n |-> IF k = 0 THEN 0 ELSE ValueOf[k - 1] * HEX + hexBuf[k - 1]]
  BY <1>11 DEF ValueOf, n
<1>13. ValueOf[0] = 0
  BY <1>5, <1>12
<1>14. ASSUME NEW k \in 1 .. n PROVE ValueOf[k] = ValueOf[k - 1] * HEX + hexBuf[k - 1]
  BY <1>5, <1>12
<1> DEFINE S == {k \in 0 .. n : ValueOf[k] = Rest(digits - k)}
<1>15. 0 \in S
  <2>1. Rest(digits) = 0 /\ digits - 0 = digits
    BY <1>1, DigitsUseUp
  <2>. QED
    BY <1>5, <1>13, <2>1
<1>16. ASSUME NEW k \in 0 .. n - 1, k \in S PROVE k + 1 \in S
  <2>1. /\ k + 1 \in 1 .. n /\ (k + 1) - 1 = k /\ k + 1 \in 0 .. n /\ k \in 0 .. digits - 1
        /\ digits - k \in 1 .. number + 1 /\ (digits - k) - 1 = digits - 1 - k
        /\ digits - (k + 1) = digits - 1 - k /\ digits - 1 - k \in 0 .. number + 1
    BY <1>1, <1>5 DEF n
  <2> DEFINE v == Rest(digits - 1 - k)
  <2>2. v \in Nat
    BY <1>2, <2>1
  <2>3. Rest(digits - k) = v \div HEX
    BY <1>1, <2>1, RestsAre
  <2>4. hexBuf[k] = v % HEX
    BY <2>1
  <2>5. ValueOf[k + 1] = (v \div HEX) * HEX + (v % HEX)
    <3>1. ValueOf[k + 1] = ValueOf[k] * HEX + hexBuf[k]
      BY <1>14, <2>1
    <3>2. ValueOf[k] = v \div HEX
      BY <1>16, <2>3
    <3>. QED
      BY <2>4, <3>1, <3>2
  <2>6. ASSUME NEW u \in Nat PROVE (u \div HEX) * HEX + (u % HEX) = u
    BY <1>1
  <2>7. ValueOf[k + 1] = v
    BY <2>2, <2>5, <2>6
  <2>. QED
    BY <2>1, <2>7
<1> HIDE DEF S
<1>17. 0 .. n \subseteq S
  BY <1>5, <1>15, <1>16, BoundedInduction
<1>18. ValueOf[digits] = Rest(0)
  <2>1. n \in S /\ digits - n = 0
    BY <1>1, <1>5, <1>17 DEF n
  <2>. QED
    BY <2>1 DEF S, n
<1>19. Rest(0) = number
  BY <1>1, RestsAre
<1>. QED
  BY <1>3, <1>18, <1>19

\* num_digits counts the digits of a number in any base, its power never wrapping, and
\* to_hex_str writes these digits inside the buffer, in their order, or nothing.
THEOREM HexDigitsWritten == HexSpec => []DigitsWritten
<1>1. HexInv => DigitsWritten
  <2> SUFFICES ASSUME HexInv PROVE DigitsWritten
    OBVIOUS
  <2>1. /\ number \in Nat /\ base \in Nat \ {0, 1} /\ digits \in Nat \ {0}
        /\ digits <= number + 1 /\ hexSize \in Nat
    BY HexFacts DEF HexInv
  <2>2. DOMAIN hexBuf = 0 .. hexSize - 1
    BY DEF HexInv, HexTypes
  <2>3. DigitsCounted
    <3>1. digits \in 1 .. number + 1
      BY <2>1
    <3>2. BasePower[digits] = BasePower[digits - 1] * base
      BY <2>1, <3>1, PowersAre
    <3>. QED
      BY <3>2 DEF HexInv, PowerInv, DigitsCounted
  <2>4. hexPc = "digit" /\ hexN > 0 => hexIndex \in DOMAIN hexBuf
    <3>1. SUFFICES ASSUME hexPc = "digit", hexN > 0 PROVE hexIndex \in DOMAIN hexBuf
      OBVIOUS
    <3>2. PICK w \in 0 .. digits : Wrote(w)
      BY <3>1 DEF HexInv, DigitInv
    <3>3. digits < hexSize /\ Rest(digits) = 0
      BY <3>1, DigitsUseUp DEF HexInv, DigitInv
    <3>4. w < digits
      BY <2>1, <3>1, <3>2, <3>3 DEF Wrote
    <3>5. hexIndex = digits - 1 - w
      BY <3>2, <3>4 DEF Wrote
    <3>. QED
      BY <2>1, <2>2, <3>3, <3>4, <3>5
  <2>5. hexPc = "return" /\ hexRet = 1 /\ number > 0 =>
           (\A j \in 0 .. digits - 1 : hexBuf[j] \in 0 .. HEX - 1) /\ ValueOf[digits] = number
    BY ValueIsNumber DEF HexInv, DigitInv
  <2>6. hexPc = "return" /\ hexRet = -1 => \A j \in DOMAIN hexBuf : hexBuf[j] = Unwritten
    BY <2>2 DEF HexInv, Blank
  <2>. QED
    BY <2>3, <2>4, <2>5, <2>6 DEF DigitsWritten
<1>. QED
  BY <1>1, HexInvAlways, PTL
=============================================================================
