--------------------------- MODULE Console_proof ----------------------------
(***************************************************************************)
(* Theorems about print.c and console.c: strings of any size with any row of*)
(* flushes, any format, buffer and console, any timeouts and any typing.    *)
(***************************************************************************)
EXTENDS PoolPrint, WaitEvent, PrintEngine, ProofBasics, TLAPS

-----------------------------------------------------------------------------
(* PoolPrint *)

Callers == {"UnicodeVSPrint", "AsciiVSPrint", "VPoolPrint"}

PoolTypes ==
    /\ poolPc \in {"start", "print", "return"} /\ poolCaller \in Callers
    /\ StrSize \in Nat /\ len \in Nat /\ maxlen \in Nat /\ printed \in 0 .. MaxPrinted
    /\ str \in Seq(Int) /\ wild \in BOOLEAN

\* The callers of a string whose limit is what its size says.
Sized == poolCaller # "VPoolPrint" /\ ~LimitWraps

\* The string of a caller has room for the terminator, of a cut text or of all there
\* will be.
CallerHasRoom ==
    Sized /\ poolPc # "return" =>
        /\ maxlen = 0 \/ maxlen < Len(str) \/ MaxPrinted < Len(str)
        /\ Limited => maxlen > 0

CallerText ==
    poolCaller # "VPoolPrint" =>
        /\ len = (IF printed > maxlen THEN maxlen ELSE printed)
        /\ ~wild => len <= Len(str) /\ \A i \in 1 .. len : str[i] = i
        /\ Sized => ~wild
        /\ Limited /\ printed > 0 => len < Len(str) /\ str[len + 1] = 0

\* The pool's string: maxlen counts its characters, the terminator follows the text.
PoolText ==
    poolCaller = "VPoolPrint" =>
        /\ maxlen = Len(str) /\ len <= printed /\ ~wild
        /\ str = <<>> => len = 0 /\ poolLive = 0
        /\ str # <<>> => len < Len(str) /\ str[len + 1] = 0 /\ poolLive = 1
        /\ \A i \in 1 .. len : str[i] = printed - len + i

NothingYet ==
    poolPc = "start" => printed = 0 /\ len = 0 /\ (poolCaller = "VPoolPrint" => str = <<>>)

PoolInv == PoolTypes /\ CallerHasRoom /\ CallerText /\ PoolText /\ NothingYet

-----------------------------------------------------------------------------
(* The operators *)

LEMMA PoolBounds ==
    /\ FlushLen \in Nat \ {0} /\ MaxPrinted \in Nat /\ MaxPoolUINTN \in Nat
    /\ \A n \in StrSizes : n \in Nat /\ n < MaxPoolUINTN
    /\ 2 * MaxPrinted < MaxPoolUINTN
BY PoolPrintAssumption

\* The limit is one character less than the string, and out of reach without a size.
LEMMA MaxLenIs ==
    ASSUME NEW size \in StrSizes
    PROVE  /\ size \div 2 \in Nat
           /\ 2 * (size \div 2) <= size /\ size < 2 * (size \div 2) + 2
           /\ MaxLen(size) = IF size < 2 THEN MaxPoolUINTN ELSE size \div 2 - 1
<1> DEFINE d == MaxPoolUINTN + 1
<1> DEFINE a == size \div 2 - 1
<1>1. size \in Nat /\ size < MaxPoolUINTN /\ d \in Nat \ {0} /\ MaxPoolUINTN \in Nat
  BY PoolBounds
<1>2. size \div 2 \in Nat /\ 2 * (size \div 2) <= size /\ size < 2 * (size \div 2) + 2
  BY <1>1
<1>3. a \in Int /\ a >= 0 - 1 /\ a < d
  BY <1>1, <1>2
<1>4. MaxLen(size) = a % d
  BY DEF MaxLen
<1> HIDE DEF a, d
<1>6. CASE a >= 0
  <2>1. a = d * 0 + a /\ a \in 0 .. d - 1
    BY <1>1, <1>3, <1>6
  <2>2. a % d = a
    BY <1>1, <1>3, <2>1, DivModUnique
  <2>3. size >= 2
    BY <1>1, <1>2, <1>6 DEF a
  <2>. QED
    BY <1>1, <1>2, <1>4, <2>2, <2>3 DEF a
<1>7. CASE a < 0
  <2>1. a = 0 - 1
    BY <1>3, <1>7
  <2> DEFINE q == 0 - 1
  <2> DEFINE r == d - 1
  <2>2. a = d * q + r /\ r \in 0 .. d - 1 /\ q \in Int
    BY <1>1, <2>1
  <2> HIDE DEF q, r
  <2>3. a % d = r
    BY <1>1, <1>3, <2>2, DivModUnique
  <2>4. size < 2
    BY <1>1, <1>2, <2>1 DEF a
  <2>. QED
    BY <1>1, <1>2, <1>4, <2>3, <2>4 DEF d, r
<1>. QED
  BY <1>3, <1>6, <1>7

LEMMA UnsetIs ==
    ASSUME NEW n \in Nat
    PROVE  Unset(n) \in Seq(Int) /\ Len(Unset(n)) = n /\ (n = 0 => Unset(n) = <<>>)
<1>1. Unset(n) \in [1 .. n -> Int]
  BY DEF Unset
<1>2. Unset(n) \in Seq(Int) /\ Len(Unset(n)) = n
  BY <1>1, FunctionIsSeq
<1>. QED
  BY <1>2, EmptySeq

\* Writing changes the characters it names and no length.
LEMMA WrittenIs ==
    ASSUME NEW s \in Seq(Int), NEW at \in Nat, NEW t \in Seq(Int)
    PROVE  /\ Written(s, at, t) \in Seq(Int)
           /\ Len(Written(s, at, t)) = Len(s)
           /\ \A i \in 1 .. Len(s) :
                Written(s, at, t)[i] = IF at < i /\ i <= at + Len(t) THEN t[i - at] ELSE s[i]
<1>1. /\ Len(s) \in Nat /\ DOMAIN s = 1 .. Len(s) /\ s \in [1 .. Len(s) -> Int]
      /\ Len(t) \in Nat /\ DOMAIN t = 1 .. Len(t) /\ t \in [1 .. Len(t) -> Int]
  BY LenProperties
<1>2. ASSUME NEW i \in 1 .. Len(s)
      PROVE  /\ i - at \in DOMAIN t <=> (at < i /\ i <= at + Len(t))
             /\ i - at \in DOMAIN t => t[i - at] \in Int
             /\ s[i] \in Int
  BY <1>1
<1>3. Written(s, at, t) = [i \in 1 .. Len(s) |-> IF i - at \in DOMAIN t THEN t[i - at] ELSE s[i]]
  BY <1>1 DEF Written
<1>4. Written(s, at, t) \in [1 .. Len(s) -> Int]
  BY <1>2, <1>3
<1>5. ASSUME NEW i \in 1 .. Len(s)
      PROVE  Written(s, at, t)[i] = IF at < i /\ i <= at + Len(t) THEN t[i - at] ELSE s[i]
  BY <1>2, <1>3
<1>6. Written(s, at, t) \in Seq(Int) /\ Len(Written(s, at, t)) = Len(s)
  BY <1>1, <1>4, FunctionIsSeq
<1>. QED
  BY <1>5, <1>6

\* What a call of _SPrint does to a string of length l with the limit max.
LEMMA SPrintIs ==
    ASSUME PoolTypes, NEW s \in Seq(Int), NEW max \in Nat, NEW l \in 0 .. max,
           NEW n \in Nat, _SPrint(s, l, max, n)
    PROVE  /\ len' = IF l + n > max THEN max ELSE l + n
           /\ printed' = printed + n
           /\ str' \in Seq(Int) /\ Len(str') = Len(s)
           /\ wild' = (wild \/ (IF max = 0 THEN 0 ELSE len' + 1) > Len(s))
           /\ \A i \in 1 .. Len(s) : i <= l => str'[i] = s[i]
           /\ \A i \in 1 .. Len(s) : l < i /\ i <= len' => str'[i] = printed + (i - l)
           /\ max # 0 /\ len' + 1 <= Len(s) => str'[len' + 1] = 0
<1> DEFINE end == l + Taken(l, max, n)
<1> DEFINE at == IF end < max THEN end ELSE max
<1> DEFINE piece == SubSeq(FlushedText(n), 1, end - l)
<1> DEFINE text == Written(s, l, piece)
<1>1. Len(s) \in Nat /\ printed \in Nat /\ l \in Nat /\ l <= max
  BY LenProperties DEF PoolTypes
<1>2. /\ end = IF l + n > max THEN max ELSE l + n
      /\ end \in Nat /\ end - l \in 0 .. n /\ end <= max /\ at = end
  BY <1>1 DEF Taken
<1>3. /\ len' = end /\ printed' = printed + n
      /\ str' = IF max = 0 THEN text ELSE Written(text, at, <<0>>)
      /\ wild' = (wild \/ (IF max = 0 THEN end ELSE at + 1) > Len(s))
  BY DEF _SPrint
<1> HIDE DEF end, at
<1>4. /\ piece \in Seq(Int) /\ Len(piece) = end - l
      /\ \A i \in 1 .. end - l : piece[i] = printed + i
  <2> DEFINE f == FlushedText(n)
  <2>1. \A i \in 1 .. n : f[i] = printed + i /\ f[i] \in Int
    BY <1>1 DEF FlushedText
  <2> HIDE DEF f
  <2>2. \A i \in 1 .. end - l : i \in 1 .. n /\ f[i] \in Int
    BY <1>2, <2>1
  <2>3. 1 \in Int /\ end - l \in Int
    BY <1>2
  <2>4. /\ SubSeq(f, 1, end - l) \in Seq(Int)
        /\ Len(SubSeq(f, 1, end - l)) = IF 1 <= end - l THEN (end - l) - 1 + 1 ELSE 0
        /\ \A i \in 1 .. (end - l) - 1 + 1 : SubSeq(f, 1, end - l)[i] = f[1 + i - 1]
    BY <2>2, <2>3, SubSeqProperties
  <2>5. piece = SubSeq(f, 1, end - l)
    BY DEF f
  <2> HIDE DEF piece
  <2>6. ASSUME NEW i \in 1 .. end - l PROVE piece[i] = printed + i
    <3>1. i \in 1 .. (end - l) - 1 + 1 /\ 1 + i - 1 = i /\ i \in 1 .. n
      BY <1>2
    <3>2. piece[i] = f[i]
      BY <2>4, <2>5, <3>1
    <3>. QED
      BY <2>1, <3>1, <3>2
  <2>7. Len(piece) = end - l
    BY <1>2, <2>4, <2>5
  <2>. QED
    BY <2>4, <2>5, <2>6, <2>7
<1> HIDE DEF piece
<1>5. /\ text \in Seq(Int) /\ Len(text) = Len(s)
      /\ \A i \in 1 .. Len(s) :
            text[i] = IF l < i /\ i <= l + Len(piece) THEN piece[i - l] ELSE s[i]
  BY <1>1, <1>4, WrittenIs
<1> HIDE DEF text
<1>6. ASSUME NEW i \in 1 .. Len(s)
      PROVE  /\ i <= l => text[i] = s[i]
             /\ l < i /\ i <= end => text[i] = printed + (i - l)
  <2>1. CASE i <= l
    BY <1>1, <1>5, <2>1
  <2>2. CASE l < i /\ i <= end
    <3>1. i - l \in 1 .. end - l /\ i <= l + Len(piece)
      BY <1>1, <1>2, <1>4, <2>2
    <3>2. text[i] = piece[i - l]
      BY <1>5, <2>2, <3>1
    <3>. QED
      BY <1>1, <1>4, <2>2, <3>1, <3>2
  <2>. QED
    BY <1>1, <1>2, <2>1, <2>2
<1>7. CASE max = 0
  <2>1. str' = text /\ end = 0
    BY <1>2, <1>3, <1>7
  <2>. QED
    BY <1>2, <1>3, <1>5, <1>6, <1>7, <2>1
<1>8. CASE max # 0
  <2> DEFINE zero == <<0>>
  <2>1. zero \in Seq(Int) /\ Len(zero) = 1 /\ zero[1] = 0
    OBVIOUS
  <2>2. str' = Written(text, end, zero)
    BY <1>2, <1>3, <1>8
  <2> HIDE DEF zero
  <2> DEFINE full == Written(text, end, zero)
  <2>10. /\ full \in Seq(Int) /\ Len(full) = Len(text)
         /\ \A i \in 1 .. Len(text) :
              full[i] = IF end < i /\ i <= end + Len(zero) THEN zero[i - end] ELSE text[i]
    BY <1>2, <1>5, <2>1, WrittenIs
  <2>11. str' = full
    BY <2>2
  <2> HIDE DEF full
  <2>3. /\ str' \in Seq(Int) /\ Len(str') = Len(s)
        /\ \A i \in 1 .. Len(s) :
              str'[i] = IF end < i /\ i <= end + 1 THEN zero[i - end] ELSE text[i]
    BY <1>5, <2>1, <2>10, <2>11
  <2>4. ASSUME NEW i \in 1 .. Len(s), i <= end PROVE str'[i] = text[i]
    <3>1. ~(end < i)
      BY <1>2, <2>4
    <3>. QED
      BY <2>3, <2>4, <3>1
  <2>5. end + 1 <= Len(s) => str'[end + 1] = 0
    <3>1. SUFFICES ASSUME end + 1 <= Len(s) PROVE str'[end + 1] = 0
      OBVIOUS
    <3>2. end + 1 \in 1 .. Len(s) /\ (end + 1) - end = 1 /\ end < end + 1
      BY <1>1, <1>2, <3>1
    <3>3. end + 1 <= end + 1 /\ str'[end + 1] = zero[(end + 1) - end]
      BY <1>2, <2>3, <3>2
    <3>. QED
      BY <2>1, <3>2, <3>3
  <2>6. ASSUME NEW i \in 1 .. Len(s), i <= l PROVE i <= end
    BY <1>1, <1>2, <2>6
  <2>7. \A i \in 1 .. Len(s) : i <= l => str'[i] = s[i]
    BY <1>6, <2>4, <2>6
  <2>8. \A i \in 1 .. Len(s) : l < i /\ i <= end => str'[i] = printed + (i - l)
    BY <1>6, <2>4
  <2>9. wild' = (wild \/ end + 1 > Len(s))
    BY <1>2, <1>3, <1>8
  <2>. QED
    BY <1>2, <1>3, <1>8, <2>3, <2>5, <2>7, <2>8, <2>9
<1>. QED
  BY <1>7, <1>8

-----------------------------------------------------------------------------
(* The invariant *)

LEMMA PoolInvInit == PoolInit => PoolInv
<1> SUFFICES ASSUME PoolInit PROVE PoolInv
  OBVIOUS
<1>1. /\ poolPc = "start" /\ len = 0 /\ printed = 0 /\ wild = FALSE /\ poolLive = 0
  BY DEF PoolInit
<1>2. MaxPrinted \in Nat /\ MaxPoolUINTN \in Nat /\ 2 * MaxPrinted < MaxPoolUINTN
  BY PoolBounds
<1>3. CASE VPoolPrint
  <2>1. poolCaller = "VPoolPrint" /\ StrSize = 0 /\ maxlen = 0 /\ str = Unset(0)
    BY <1>3 DEF VPoolPrint, Start
  <2>2. str = <<>> /\ str \in Seq(Int) /\ Len(str) = 0
    BY <2>1, UnsetIs
  <2>3. PoolTypes
    <3>1. poolCaller \in Callers
      BY <2>1 DEF Callers
    <3>2. StrSize \in Nat /\ printed \in 0 .. MaxPrinted /\ len \in Nat /\ maxlen \in Nat
      BY <1>1, <1>2, <2>1
    <3>. QED
      BY <1>1, <2>2, <3>1, <3>2 DEF PoolTypes
  <2>4. CallerHasRoom /\ CallerText
    BY <2>1 DEF CallerHasRoom, CallerText, Sized, LimitWraps
  <2>5. PoolText /\ NothingYet
    BY <1>1, <2>1, <2>2 DEF PoolText, NothingYet
  <2>. QED
    BY <2>3, <2>4, <2>5 DEF PoolInv
<1>4. CASE \E size \in StrSizes : UnicodeVSPrint(size) \/ AsciiVSPrint(size)
  <2>1. PICK size \in StrSizes : UnicodeVSPrint(size) \/ AsciiVSPrint(size)
    BY <1>4
  <2> DEFINE chars == IF UnicodeVSPrint(size)
                      THEN IF size = 0 THEN MaxPrinted + 1 ELSE size \div 2
                      ELSE size
  <2>2. /\ size \in Nat /\ size \div 2 \in Nat /\ 2 * (size \div 2) <= size
        /\ size < 2 * (size \div 2) + 2
        /\ MaxLen(size) = IF size < 2 THEN MaxPoolUINTN ELSE size \div 2 - 1
    BY MaxLenIs, PoolBounds
  <2>3. /\ poolCaller = (IF UnicodeVSPrint(size) THEN "UnicodeVSPrint" ELSE "AsciiVSPrint")
        /\ StrSize = size /\ str = Unset(chars) /\ maxlen = MaxLen(size)
    BY <2>1 DEF UnicodeVSPrint, AsciiVSPrint, Start
  <2>4. chars \in Nat
    BY <1>2, <2>2
  <2> HIDE DEF chars
  <2>5. str \in Seq(Int) /\ Len(str) = chars
    BY <2>3, <2>4, UnsetIs
  <2>6. maxlen \in Nat
    BY <1>2, <2>2, <2>3
  <2>7. PoolTypes
    <3>1. poolCaller \in Callers
      BY <2>3 DEF Callers
    <3>2. StrSize \in Nat /\ printed \in 0 .. MaxPrinted /\ len \in Nat
      BY <1>1, <1>2, <2>2, <2>3
    <3>. QED
      BY <1>1, <2>5, <2>6, <3>1, <3>2 DEF PoolTypes
  <2>8. CallerHasRoom
    <3>1. CASE UnicodeVSPrint(size)
      <4>1. chars = IF size = 0 THEN MaxPrinted + 1 ELSE size \div 2
        BY <3>1 DEF chars
      <4>. QED
        BY <1>2, <2>2, <2>3, <2>5, <4>1 DEF CallerHasRoom, Limited, Sized, LimitWraps
    <3>2. CASE ~UnicodeVSPrint(size)
      <4>1. chars = size /\ poolCaller = "AsciiVSPrint"
        BY <2>3, <3>2 DEF chars
      <4>. QED
        BY <1>2, <2>2, <2>3, <2>5, <4>1 DEF CallerHasRoom, Limited, Sized, LimitWraps
    <3>. QED
      BY <3>1, <3>2
  <2>9. CallerText
    BY <1>1, <2>4, <2>5, <2>6 DEF CallerText
  <2>10. PoolText /\ NothingYet
    BY <1>1, <2>3 DEF PoolText, NothingYet
  <2>. QED
    BY <2>7, <2>8, <2>9, <2>10 DEF PoolInv
<1>. QED
  BY <1>3, <1>4 DEF PoolInit

LEMMA BeginKeeps == PoolInv /\ Begin => PoolInv'
<1> SUFFICES ASSUME PoolInv, Begin PROVE PoolInv'
  OBVIOUS
<1>1. UNCHANGED <<poolCaller, StrSize, len, maxlen, printed, wild, Str>> /\ poolPc = "start"
  BY DEF Begin
<1>2. CASE poolPc' = "print" /\ UNCHANGED str /\ poolLive' = (IF poolCaller = "AsciiVSPrint" THEN 1 ELSE 0)
  <2>1. PoolText'
    <3>1. SUFFICES ASSUME poolCaller = "VPoolPrint" PROVE PoolText'
      BY <1>1 DEF PoolText
    <3>2. str = <<>> /\ poolLive' = 0
      BY <1>1, <1>2, <3>1 DEF PoolInv, NothingYet
    <3>. QED
      BY <1>1, <1>2, <3>1, <3>2 DEF PoolText, PoolInv
  <2>2. PoolTypes' /\ CallerHasRoom' /\ NothingYet'
    BY <1>1, <1>2 DEF PoolInv, PoolTypes, CallerHasRoom, NothingYet, Sized, LimitWraps, Limited
  <2>3. CallerText'
    BY <1>1, <1>2 DEF PoolInv, CallerText, Sized, LimitWraps, Limited
  <2>. QED
    BY <2>1, <2>2, <2>3 DEF PoolInv
<1>3. CASE poolCaller = "AsciiVSPrint" /\ poolPc' = "return" /\ str' = <<>>
  <2>1. len' = 0 /\ printed' = 0 /\ Len(str') = 0 /\ str' \in Seq(Int)
    BY <1>1, <1>3 DEF PoolInv, NothingYet
  <2>2. PoolTypes' /\ CallerHasRoom' /\ NothingYet' /\ PoolText'
    BY <1>1, <1>3, <2>1
    DEF PoolInv, PoolTypes, CallerHasRoom, NothingYet, PoolText
  <2>3. maxlen' \in Nat /\ Sized' = Sized /\ Limited' = Limited
    BY <1>1 DEF PoolInv, PoolTypes, Sized, LimitWraps, Limited
  <2>4. CallerText'
    BY <1>1, <1>3, <2>1, <2>3 DEF PoolInv, CallerText
  <2>. QED
    BY <2>2, <2>4 DEF PoolInv
<1>. QED
  BY <1>2, <1>3 DEF Begin

LEMMA FinishPrintKeeps == PoolInv /\ FinishPrint => PoolInv'
<1> SUFFICES ASSUME PoolInv, FinishPrint PROVE PoolInv'
  OBVIOUS
<1>1. /\ UNCHANGED <<poolCaller, StrSize, str, len, maxlen, printed, wild>>
      /\ poolPc' = "return"
      /\ poolCaller # "AsciiVSPrint" => UNCHANGED poolLive
  BY DEF FinishPrint
<1>2. PoolTypes' /\ CallerHasRoom' /\ NothingYet'
  BY <1>1 DEF PoolInv, PoolTypes, CallerHasRoom, NothingYet
<1>3. CallerText'
  BY <1>1 DEF PoolInv, CallerText, Sized, LimitWraps, Limited
<1>4. PoolText'
  <2>1. SUFFICES ASSUME poolCaller = "VPoolPrint" PROVE PoolText'
    BY <1>1 DEF PoolText
  <2>2. UNCHANGED poolLive
    BY <1>1, <2>1
  <2>. QED
    BY <1>1, <2>1, <2>2 DEF PoolInv, PoolText
<1>. QED
  BY <1>2, <1>3, <1>4 DEF PoolInv

LEMMA CallerFlushKeeps ==
    ASSUME PoolInv, ~wild, poolPc = "print", NEW n \in Nat, SPrint(n),
           UNCHANGED <<poolPc, poolCaller, StrSize, Str>>, printed + n <= MaxPrinted
    PROVE  PoolInv'
<1>1. /\ poolCaller # "VPoolPrint" /\ _SPrint(str, len, maxlen, n)
      /\ UNCHANGED <<maxlen, poolLive>>
  BY DEF SPrint
<1>2. /\ PoolTypes /\ str \in Seq(Int) /\ len \in Nat /\ maxlen \in Nat /\ printed \in Nat
      /\ Len(str) \in Nat /\ MaxPrinted \in Nat
  BY PoolBounds, LenProperties DEF PoolInv, PoolTypes
<1>3. /\ len = (IF printed > maxlen THEN maxlen ELSE printed)
      /\ len <= Len(str) /\ \A i \in 1 .. len : str[i] = i
  BY <1>1 DEF PoolInv, CallerText
<1>4. len \in 0 .. maxlen
  BY <1>2, <1>3
<1>5. /\ len' = IF len + n > maxlen THEN maxlen ELSE len + n
      /\ printed' = printed + n
      /\ str' \in Seq(Int) /\ Len(str') = Len(str)
      /\ wild' = (wild \/ (IF maxlen = 0 THEN 0 ELSE len' + 1) > Len(str))
      /\ \A i \in 1 .. Len(str) : i <= len => str'[i] = str[i]
      /\ \A i \in 1 .. Len(str) : len < i /\ i <= len' => str'[i] = printed + (i - len)
      /\ maxlen # 0 /\ len' + 1 <= Len(str) => str'[len' + 1] = 0
  BY <1>1, <1>2, <1>4, SPrintIs
<1> DEFINE over == (IF maxlen = 0 THEN 0 ELSE len' + 1) > Len(str)
<1>15. wild' = (wild \/ over)
  BY <1>5
<1>16. wild' <=> over
  <2> HIDE DEF over
  <2>. QED
    BY <1>15, Zenon
<1>6. len' = (IF printed' > maxlen' THEN maxlen' ELSE printed') /\ len' \in Nat
  BY <1>1, <1>2, <1>3, <1>5
<1>7. ~wild' => len' <= Len(str') /\ \A i \in 1 .. len' : str'[i] = i
  <2>1. SUFFICES ASSUME ~wild' PROVE len' <= Len(str') /\ \A i \in 1 .. len' : str'[i] = i
    OBVIOUS
  <2>2. len' <= Len(str)
    <3>1. ~over
      BY <1>16, <2>1, Zenon
    <3>. QED
      BY <1>2, <1>5, <3>1
  <2>3. ASSUME NEW i \in 1 .. len' PROVE str'[i] = i
    <3>1. i \in 1 .. Len(str)
      BY <1>2, <1>6, <2>2
    <3>2. CASE i <= len
      BY <1>3, <1>5, <3>1, <3>2
    <3>3. CASE len < i
      <4>1. len < maxlen
        BY <1>2, <1>4, <1>5, <1>6, <3>3
      <4>2. printed = len
        BY <1>2, <1>3, <4>1
      <4>3. str'[i] = printed + (i - len)
        BY <1>5, <3>1, <3>3
      <4>. QED
        BY <1>2, <4>2, <4>3
    <3>. QED
      BY <1>2, <3>2, <3>3
  <2>. QED
    BY <1>5, <2>2, <2>3
<1>8. Sized' = Sized /\ Limited' = Limited /\ poolPc' = "print"
  BY DEF Sized, LimitWraps, Limited
<1>9. Sized => ~wild' /\ (Limited => maxlen > 0 /\ len' + 1 <= Len(str'))
  <2>1. SUFFICES ASSUME Sized
                 PROVE  ~wild' /\ (Limited => maxlen > 0 /\ len' + 1 <= Len(str'))
    OBVIOUS
  <2>2. /\ maxlen = 0 \/ maxlen < Len(str) \/ MaxPrinted < Len(str)
        /\ Limited => maxlen > 0
    BY <2>1 DEF PoolInv, CallerHasRoom
  <2>3. len' <= maxlen /\ len' <= MaxPrinted
    BY <1>1, <1>2, <1>3, <1>5, <1>6
  <2>4. maxlen # 0 => len' + 1 <= Len(str)
    BY <1>2, <1>6, <2>2, <2>3
  <2>5. ~over
    BY <1>2, <1>6, <2>4
  <2>6. ~wild'
    BY <1>16, <2>5, Zenon
  <2>7. Limited => maxlen > 0 /\ len' + 1 <= Len(str')
    BY <1>2, <1>5, <2>2, <2>4
  <2>. QED
    BY <2>6, <2>7, Zenon
<1>10. Limited => Sized
  BY <1>1 DEF Sized, Limited, LimitWraps, PoolInv, PoolTypes, Callers
<1>11. CallerText'
  <2>1. Sized' => ~wild'
    BY <1>8, <1>9
  <2>2. Limited' => len' < Len(str') /\ str'[len' + 1] = 0
    <3>1. SUFFICES ASSUME Limited PROVE len' < Len(str') /\ str'[len' + 1] = 0
      BY <1>8
    <3>2. maxlen # 0 /\ len' + 1 <= Len(str)
      BY <1>2, <1>5, <1>9, <1>10, <3>1
    <3>. QED
      BY <1>2, <1>5, <1>6, <3>2
  <2>. QED
    BY <1>6, <1>7, <2>1, <2>2 DEF CallerText
<1>12. PoolTypes'
  BY <1>1, <1>2, <1>5, <1>6 DEF PoolTypes
<1>13. CallerHasRoom'
  BY <1>1, <1>5, <1>8 DEF PoolInv, CallerHasRoom
<1>14. PoolText' /\ NothingYet'
  BY <1>1, <1>8 DEF PoolText, NothingYet
<1>. QED
  BY <1>11, <1>12, <1>13, <1>14 DEF PoolInv

\* A flush to the pool: the string stays, or moves with its text to a larger block, or is
\* lost with its text.
LEMMA PoolFlushKeeps ==
    ASSUME PoolInv, ~wild, poolPc = "print", NEW n \in Nat,
           PoolFits(n) \/ PoolGrows(n) \/ PoolFails(n),
           UNCHANGED <<poolPc, poolCaller, StrSize, Str>>, printed + n <= MaxPrinted
    PROVE  PoolInv'
<1>1. poolCaller = "VPoolPrint"
  BY DEF PoolFits, PoolGrows, PoolFails
<1>2. /\ PoolTypes /\ str \in Seq(Int) /\ len \in Nat /\ maxlen \in Nat /\ printed \in Nat
      /\ Len(str) \in Nat /\ MaxPrinted \in Nat /\ FlushLen \in Nat \ {0}
  BY PoolBounds, LenProperties DEF PoolInv, PoolTypes
<1>3. /\ maxlen = Len(str) /\ len <= printed
      /\ str = <<>> => len = 0 /\ poolLive = 0
      /\ str # <<>> => len < Len(str) /\ str[len + 1] = 0 /\ poolLive = 1
      /\ \A i \in 1 .. len : str[i] = printed - len + i
  BY <1>1 DEF PoolInv, PoolText
<1>4. len <= Len(str)
  BY <1>2, <1>3, EmptySeq
\* The string that _SPrint writes to has the text so far and room for what is flushed.
<1>5. ASSUME NEW s \in Seq(Int), NEW size \in Nat, size = Len(s), len + n < size,
             \A i \in 1 .. len : s[i] = str[i],
             _SPrint(s, len, size, n), maxlen' = size, poolLive' = 1
      PROVE  PoolInv'
  <2>1. len \in 0 .. size /\ size # 0
    BY <1>2, <1>5
  <2> DEFINE over == (IF size = 0 THEN 0 ELSE len' + 1) > Len(s)
  <2>2. /\ len' = IF len + n > size THEN size ELSE len + n
        /\ printed' = printed + n
        /\ str' \in Seq(Int) /\ Len(str') = Len(s)
        /\ wild' = (wild \/ (IF size = 0 THEN 0 ELSE len' + 1) > Len(s))
        /\ \A i \in 1 .. Len(s) : i <= len => str'[i] = s[i]
        /\ \A i \in 1 .. Len(s) : len < i /\ i <= len' => str'[i] = printed + (i - len)
        /\ size # 0 /\ len' + 1 <= Len(s) => str'[len' + 1] = 0
    <3>1. PoolTypes /\ s \in Seq(Int) /\ size \in Nat /\ _SPrint(s, len, size, n)
      BY <1>2, <1>5
    <3>. QED
      BY <2>1, <3>1, SPrintIs
  <2>3. len' = len + n /\ len' \in Nat /\ len' + 1 <= Len(s) /\ ~over
    BY <1>2, <1>5, <2>2
  <2>12. wild' = (wild \/ over)
    BY <2>2
  <2> HIDE DEF over
  <2>4. ~wild' /\ wild' \in BOOLEAN
    BY <2>3, <2>12, Zenon
  <2>5. str'[len' + 1] = 0 /\ Len(str') = size /\ len' < Len(str')
    BY <1>2, <1>5, <2>1, <2>2, <2>3
  <2>6. str' # <<>>
    BY <2>2, <2>3, <2>5, EmptySeq
  <2>7. len' <= printed'
    BY <1>2, <1>3, <2>2, <2>3
  <2>8. ASSUME NEW i \in 1 .. len' PROVE str'[i] = printed' - len' + i
    <3>1. i \in 1 .. Len(s)
      BY <1>2, <1>5, <2>3
    <3>2. CASE i <= len
      <4>1. i \in 1 .. len /\ str'[i] = str[i]
        BY <1>2, <1>5, <2>2, <3>1, <3>2
      <4>2. str[i] = printed - len + i
        BY <1>3, <4>1
      <4>3. printed' - len' = printed - len
        BY <1>2, <2>2, <2>3
      <4>. QED
        BY <4>1, <4>2, <4>3
    <3>3. CASE len < i
      <4>1. str'[i] = printed + (i - len)
        BY <2>2, <3>1, <3>3
      <4>2. printed' - len' = printed - len
        BY <1>2, <2>2, <2>3
      <4>3. printed' \in Int /\ i \in Int /\ len' \in Int /\ printed \in Int /\ len \in Int
        BY <1>2, <2>2, <2>3
      <4>4. printed + (i - len) = printed - len + i
        BY <4>3
      <4>. QED
        BY <4>1, <4>2, <4>4
    <3>. QED
      BY <1>2, <3>2, <3>3
  <2>9. PoolText'
    BY <1>5, <2>4, <2>5, <2>6, <2>7, <2>8 DEF PoolText
  <2>10. PoolTypes'
    <3>1. printed' \in 0 .. MaxPrinted /\ maxlen' \in Nat
      BY <1>2, <1>5, <2>2
    <3>. QED
      BY <1>2, <2>2, <2>3, <2>4, <3>1 DEF PoolTypes
  <2>11. CallerHasRoom' /\ CallerText' /\ NothingYet'
    BY <1>1 DEF CallerHasRoom, CallerText, NothingYet, Sized, LimitWraps
  <2>. QED
    BY <2>9, <2>10, <2>11 DEF PoolInv
<1>6. CASE PoolFits(n)
  <2>1. /\ NewLen(n) <= maxlen /\ _SPrint(str, len, maxlen, n)
        /\ maxlen' = maxlen /\ poolLive' = poolLive
    BY <1>6 DEF PoolFits
  <2>2. len + n < maxlen
    BY <1>2, <2>1 DEF NewLen
  <2>3. str # <<>>
    BY <1>2, <1>3, <2>2, EmptySeq
  <2>4. poolLive' = 1
    BY <1>3, <2>1, <2>3
  <2>. QED
    BY <1>2, <1>3, <1>5, <2>1, <2>2, <2>4
<1>7. CASE PoolGrows(n)
  <2> DEFINE size == NewLen(n) + FlushLen
  <2> DEFINE s == Grown(str, size)
  <2> DEFINE kept == SubSeq(str, 1, len)
  <2>1. _SPrint(s, len, size, n) /\ maxlen' = size /\ poolLive' = 1
    BY <1>7 DEF PoolGrows
  <2>2. size \in Nat /\ len + n < size
    BY <1>2 DEF NewLen
  <2>3. s = Written(Unset(size), 0, kept)
    BY DEF Grown
  <2> HIDE DEF s, size
  <2>4. /\ kept \in Seq(Int) /\ Len(kept) = len
        /\ \A i \in 1 .. len : kept[i] = str[i]
    <3>1. \A i \in 1 .. len : str[i] \in Int
      BY <1>2, <1>4, ElementOfSeq
    <3>2. /\ kept \in Seq(Int)
          /\ Len(kept) = IF 1 <= len THEN len - 1 + 1 ELSE 0
          /\ \A i \in 1 .. len - 1 + 1 : kept[i] = str[1 + i - 1]
      BY <1>2, <3>1, SubSeqProperties
    <3> HIDE DEF kept
    <3>. QED
      BY <1>2, <3>2
  <2> HIDE DEF kept
  <2>5. Unset(size) \in Seq(Int) /\ Len(Unset(size)) = size
    BY <2>2, UnsetIs
  <2>6. /\ s \in Seq(Int) /\ Len(s) = Len(Unset(size))
        /\ \A i \in 1 .. Len(Unset(size)) :
              s[i] = IF 0 < i /\ i <= 0 + Len(kept) THEN kept[i - 0] ELSE Unset(size)[i]
    BY <2>3, <2>4, <2>5, WrittenIs
  <2>7. ASSUME NEW i \in 1 .. len PROVE s[i] = str[i]
    <3>1. i \in 1 .. Len(Unset(size)) /\ 0 < i /\ i <= 0 + Len(kept) /\ i - 0 = i
      BY <1>2, <2>2, <2>4, <2>5
    <3>. QED
      BY <2>4, <2>6, <3>1
  <2>8. size = Len(s)
    BY <2>5, <2>6
  <2>. QED
    BY <1>5, <2>1, <2>2, <2>6, <2>7, <2>8
\* The pool has failed: there is no string.
<1>9. ASSUME NEW s \in Seq(Int), Len(s) = 0, NEW max \in Nat, max = 0,
             _SPrint(s, max, max, n), maxlen' = 0, poolLive' = 0
      PROVE  PoolInv'
  <2> DEFINE over == (IF max = 0 THEN 0 ELSE len' + 1) > Len(s)
  <2>1. maxlen' = 0 /\ poolLive' = 0
    BY <1>9
  <2>2. max \in 0 .. max /\ max = 0 /\ Len(s) = 0
    BY <1>9
  <2>3. /\ len' = IF max + n > max THEN max ELSE max + n
        /\ printed' = printed + n
        /\ str' \in Seq(Int) /\ Len(str') = Len(s)
        /\ wild' = (wild \/ (IF max = 0 THEN 0 ELSE len' + 1) > Len(s))
    <3>1. PoolTypes /\ _SPrint(s, max, max, n) /\ max \in 0 .. max
      BY <1>2, <1>9
    <3>. QED
      BY <3>1, SPrintIs
  <2>4. len' = 0 /\ ~over
    BY <2>2, <2>3
  <2>10. wild' = (wild \/ over)
    BY <2>3
  <2> HIDE DEF over
  <2>5. ~wild' /\ wild' \in BOOLEAN
    BY <2>4, <2>10, Zenon
  <2>6. str' = <<>> /\ Len(str') = 0
    BY <2>2, <2>3, EmptySeq
  <2>7. PoolText'
    <3>1. printed' \in Nat
      BY <1>2, <2>3
    <3>. QED
      BY <2>1, <2>4, <2>5, <2>6, <3>1 DEF PoolText
  <2>8. PoolTypes'
    <3>1. printed' \in 0 .. MaxPrinted /\ maxlen' \in Nat
      BY <1>2, <2>1, <2>3
    <3>. QED
      BY <1>2, <2>3, <2>4, <2>5, <3>1 DEF PoolTypes
  <2>9. CallerHasRoom' /\ CallerText' /\ NothingYet'
    BY <1>1 DEF CallerHasRoom, CallerText, NothingYet, Sized, LimitWraps
  <2>. QED
    BY <2>7, <2>8, <2>9 DEF PoolInv
<1>8. CASE PoolFails(n)
  <2> DEFINE s == <<>>
  <2>1. s \in Seq(Int) /\ Len(s) = 0 /\ _SPrint(s, 0, 0, n) /\ maxlen' = 0 /\ poolLive' = 0
    BY <1>8 DEF PoolFails
  <2> HIDE DEF s
  <2>2. PICK max \in Nat : max = 0
    OBVIOUS
  <2>3. _SPrint(s, max, max, n)
    BY <2>1, <2>2
  <2>. QED
    BY <1>9, <2>1, <2>2, <2>3
<1>. QED
  BY <1>6, <1>7, <1>8

LEMMA FlushKeeps == PoolInv /\ Flush => PoolInv'
<1> SUFFICES ASSUME PoolInv, Flush PROVE PoolInv'
  OBVIOUS
<1>1. PICK n \in 0 .. FlushLen - 1 :
        printed + n <= MaxPrinted /\ (SPrint(n) \/ PoolFits(n) \/ PoolGrows(n) \/ PoolFails(n))
  BY DEF Flush
<1>2. n \in Nat /\ ~wild /\ poolPc = "print" /\ UNCHANGED <<poolPc, poolCaller, StrSize, Str>>
  BY PoolBounds DEF Flush
<1>3. CASE SPrint(n)
  BY <1>1, <1>2, <1>3, CallerFlushKeeps
<1>4. CASE PoolFits(n) \/ PoolGrows(n) \/ PoolFails(n)
  BY <1>1, <1>2, <1>4, PoolFlushKeeps
<1>. QED
  BY <1>1, <1>3, <1>4

LEMMA PoolInvAlways == PoolSpec => []PoolInv
<1>1. PoolInit => PoolInv
  BY PoolInvInit
<1>2. ASSUME PoolInv, [PoolNext]_poolVars PROVE PoolInv'
  <2>1. CASE UNCHANGED poolVars
    BY <1>2, <2>1
    DEF poolVars, PoolInv, PoolTypes, CallerHasRoom, CallerText, PoolText, NothingYet,
        Sized, LimitWraps, Limited
  <2>. QED
    BY <1>2, <2>1, BeginKeeps, FlushKeeps, FinishPrintKeeps DEF PoolNext
<1>. QED
  BY <1>1, <1>2, PTL DEF PoolSpec

-----------------------------------------------------------------------------
(* The properties *)

LEMMA ContentsAre ==
    ASSUME PoolInv, len <= Len(str)
    PROVE  /\ Contents \in Seq(Int) /\ Len(Contents) = len
           /\ \A i \in 1 .. len : Contents[i] = str[i]
<1>1. str \in Seq(Int) /\ len \in Nat /\ Len(str) \in Nat
  BY LenProperties DEF PoolInv, PoolTypes
<1>2. \A i \in 1 .. len : str[i] \in Int
  BY <1>1, ElementOfSeq
<1>3. /\ Contents \in Seq(Int)
      /\ Len(Contents) = IF 1 <= len THEN len - 1 + 1 ELSE 0
      /\ \A i \in 1 .. len - 1 + 1 : Contents[i] = str[1 + i - 1]
  BY <1>1, <1>2, SubSeqProperties DEF Contents
<1>. QED
  BY <1>1, <1>3

\* print.c 341-352, 459: for every size and every row of flushes a character is written
\* outside the string only where the limit has wrapped to none, and never in the pool's;
\* after a flush the terminator follows the text.
THEOREM StringWritesStayIn == PoolSpec => []WritesInBounds
<1>1. PoolInv => WritesInBounds
  <2> SUFFICES ASSUME PoolInv PROVE WritesInBounds
    OBVIOUS
  <2>1. poolCaller \in Callers
    BY DEF PoolInv, PoolTypes
  <2>2. CASE poolCaller = "VPoolPrint"
    BY <2>2 DEF PoolInv, PoolText, WritesInBounds, TerminatedAtLength
  <2>3. CASE poolCaller # "VPoolPrint"
    BY <2>1, <2>3
    DEF PoolInv, CallerText, Callers, Sized, LimitWraps, WritesInBounds, TerminatedAtLength
  <2>. QED
    BY <2>2, <2>3
<1>. QED
  BY <1>1, PoolInvAlways, PTL

\* What is kept of a text is its beginning, cut at the size of the caller, or its end
\* from the last failure of the pool on.
THEOREM StringKeepsText == PoolSpec => []KeepsText
<1>1. PoolInv => KeepsText
  <2> SUFFICES ASSUME PoolInv PROVE KeepsText
    OBVIOUS
  <2>1. str \in Seq(Int) /\ len \in Nat /\ printed \in Nat /\ Len(str) \in Nat
    BY LenProperties, PoolBounds DEF PoolInv, PoolTypes
  <2>2. BeginningOfText
    <3>1. SUFFICES ASSUME poolCaller # "VPoolPrint"
                   PROVE  BeginningOfText
      BY DEF BeginningOfText
    <3>2. /\ len = (IF printed > maxlen THEN maxlen ELSE printed)
          /\ ~wild => len <= Len(str) /\ \A i \in 1 .. len : str[i] = i
      BY <3>1 DEF PoolInv, CallerText
    <3>3. ~wild => Contents = [i \in 1 .. len |-> i]
      <4>1. SUFFICES ASSUME ~wild PROVE Contents = [i \in 1 .. len |-> i]
        OBVIOUS
      <4>2. /\ Contents \in Seq(Int) /\ Len(Contents) = len
            /\ \A i \in 1 .. len : Contents[i] = i
        BY <3>2, <4>1, ContentsAre
      <4>3. Contents \in [1 .. len -> Int]
        BY <4>2, LenProperties
      <4> HIDE DEF Contents
      <4>. QED
        BY <4>2, <4>3
    <3>. QED
      BY <3>2, <3>3 DEF BeginningOfText
  <2>3. EndOfText
    <3>1. SUFFICES ASSUME poolCaller = "VPoolPrint"
                   PROVE  EndOfText
      BY DEF EndOfText
    <3>2. /\ str = <<>> => len = 0 /\ poolLive = 0
          /\ str # <<>> => len < Len(str) /\ poolLive = 1
          /\ \A i \in 1 .. len : str[i] = printed - len + i
      BY <3>1 DEF PoolInv, PoolText
    <3>3. len <= Len(str)
      BY <2>1, <3>2
    <3>4. /\ Contents \in Seq(Int) /\ Len(Contents) = len
          /\ \A i \in 1 .. len : Contents[i] = printed - len + i
      BY <3>2, <3>3, ContentsAre
    <3>5. Contents \in [1 .. len -> Int]
      BY <3>4, LenProperties
    <3> HIDE DEF Contents
    <3>6. Contents = [i \in 1 .. len |-> printed - len + i]
      BY <3>4, <3>5
    <3>. QED
      BY <3>2, <3>6 DEF EndOfText
  <2>. QED
    BY <2>2, <2>3 DEF KeepsText
<1>. QED
  BY <1>1, PoolInvAlways, PTL

-----------------------------------------------------------------------------
(* WaitEvent *)

Keys == Letters \cup {"bs", "cr"}

WaitTypeOK ==
    /\ waitPc \in {"loop", "timer", "wait", "close", "key", "return"}
    /\ waitCaller \in {"WaitForEventWithTimeout", "IInput"}
    /\ Timeout \in Nat /\ StrLen \in Nat \ {0}
    /\ timer \in {"none", "idle", "armed", "expired"}
    /\ waitStatus \in {"none", "SUCCESS", "TIMEOUT", "OUT_OF_RESOURCES"}
    /\ Key \in Keys \cup {"none", "timeout"}
    /\ InStr \in Seq(Letters) /\ keys \in Seq(Keys)

\* The inductive invariant.
WaitInv == WaitTypeOK /\ TimeoutsAreOwn /\ StringIsEchoed

LEMMA KeyIsNoTimeout == "timeout" \notin Keys
BY WaitEventAssumption DEF Keys

LEMMA RubbedShortens ==
    ASSUME NEW s \in Seq(Letters)
    PROVE  Rubbed(s) \in Seq(Letters) /\ Len(Rubbed(s)) <= Len(s)
BY DEF Rubbed, Front

LEMMA WaitInvInit == WaitInit => WaitInv
<1>1. SUFFICES ASSUME WaitInit PROVE WaitInv
  OBVIOUS
<1>2. /\ waitCaller \in {"WaitForEventWithTimeout", "IInput"}
      /\ Timeout \in Nat /\ StrLen \in Nat \ {0}
  <2>1. Timeouts \subseteq Nat /\ StrLens \subseteq Nat \ {0}
    BY WaitEventAssumption
  <2>2. CASE WaitForEventWithTimeout
    BY <2>1, <2>2 DEF WaitForEventWithTimeout
  <2>3. CASE IInput
    BY <2>1, <2>3 DEF IInput
  <2>. QED  BY <1>1, <2>2, <2>3 DEF WaitInit
<1>3. InStr \in Seq(Letters) /\ keys \in Seq(Keys) /\ Len(InStr) = 0
  BY <1>1 DEF WaitInit
<1>. QED
  BY <1>1, <1>2, <1>3
     DEF WaitInit, WaitInv, WaitTypeOK, TimeoutsAreOwn, TimerClosed, DefaultKeyOnlyAtZero,
         StringIsEchoed

LEMMA HeadIsKey ==
    keys \in Seq(Keys) /\ keys # <<>> => Head(keys) \in Keys /\ Tail(keys) \in Seq(Keys)
OBVIOUS

LEMMA EnvironmentKeeps == WaitInv /\ (TypeKey \/ TakeKey \/ ExpireTimer) => WaitInv'
<1>. USE DEF WaitInv, WaitTypeOK, TimeoutsAreOwn, TimerClosed, DefaultKeyOnlyAtZero,
             StringIsEchoed
<1>1. WaitInv /\ TypeKey => WaitInv'
  <2>1. WaitInv /\ TypeKey => keys' \in Seq(Keys)
    BY DEF TypeKey, Keys
  <2>. QED  BY <2>1 DEF TypeKey
<1>2. WaitInv /\ TakeKey => WaitInv'
  BY HeadIsKey DEF TakeKey
<1>3. WaitInv /\ ExpireTimer => WaitInv'
  BY DEF ExpireTimer
<1>. QED  BY <1>1, <1>2, <1>3

LEMMA TimerKeeps == WaitInv /\ (CallWait \/ CreateTimer \/ WaitForEvent \/ CloseTimer) => WaitInv'
<1>. USE DEF WaitInv, WaitTypeOK, TimeoutsAreOwn, TimerClosed, DefaultKeyOnlyAtZero,
             StringIsEchoed
<1>1. WaitInv /\ CallWait => WaitInv'
  BY DEF CallWait
<1>2. WaitInv /\ CreateTimer => WaitInv'
  BY DEF CreateTimer
<1>3. WaitInv /\ WaitForEvent => WaitInv'
  BY DEF WaitForEvent, Answers
<1>4. WaitInv /\ CloseTimer => WaitInv'
  BY DEF CloseTimer, AfterClose
<1>. QED  BY <1>1, <1>2, <1>3, <1>4

LEMMA ReadKeyKeeps == WaitInv /\ ReadKey => WaitInv'
<1>1. SUFFICES ASSUME WaitInv, ReadKey PROVE WaitInv'
  OBVIOUS
<1>2. Key' \in Keys \cup {"none", "timeout"} /\ keys' \in Seq(Keys)
  BY <1>1, HeadIsKey DEF ReadKey, NoKey, WaitInv, WaitTypeOK
<1>3. WaitTypeOK'
  BY <1>1, <1>2 DEF ReadKey, NoKey, WaitInv, WaitTypeOK
<1>4. Key' = "timeout" => Timeout = 0
  BY <1>1, HeadIsKey, KeyIsNoTimeout
     DEF ReadKey, NoKey, GivesUp, WaitInv, WaitTypeOK, TimeoutsAreOwn, DefaultKeyOnlyAtZero
<1>. QED
  BY <1>1, <1>3, <1>4
     DEF ReadKey, WaitInv, TimeoutsAreOwn, TimerClosed, DefaultKeyOnlyAtZero, StringIsEchoed

LEMMA InputKeyKeeps == WaitInv /\ InputKey => WaitInv'
<1>1. SUFFICES ASSUME WaitInv, InputKey PROVE WaitInv'
  OBVIOUS
<1>2. /\ Key' # "timeout" \/ Key' = Key
      /\ Key' \in Keys \cup {"none", "timeout"} /\ keys' \in Seq(Keys)
  BY <1>1, HeadIsKey, KeyIsNoTimeout DEF InputKey, WaitInv, WaitTypeOK
<1>3. InStr' \in Seq(Letters) /\ Len(InStr') < StrLen /\ echo' = InStr'
  <2>1. CASE UNCHANGED <<InStr, echo>>
    BY <1>1, <2>1 DEF WaitInv, WaitTypeOK, StringIsEchoed
  <2>2. CASE InStr' = Rubbed(InStr) /\ echo' = Rubbed(echo)
    <3>1. InStr \in Seq(Letters) /\ Len(InStr) \in Nat /\ Len(InStr) < StrLen /\ echo = InStr
      BY <1>1 DEF WaitInv, WaitTypeOK, StringIsEchoed
    <3>2. Rubbed(InStr) \in Seq(Letters) /\ Len(Rubbed(InStr)) <= Len(InStr)
      BY <3>1, RubbedShortens
    <3>3. Len(Rubbed(InStr)) \in Nat /\ StrLen \in Nat
      BY <1>1, <3>2 DEF WaitInv, WaitTypeOK
    <3>. QED  BY <2>2, <3>1, <3>2, <3>3
  <2>3. CASE /\ Key' \in Letters /\ HasRoom
             /\ InStr' = Append(InStr, Key') /\ echo' = Append(echo, Key')
    <3>1. InStr \in Seq(Letters) /\ echo = InStr /\ StrLen \in Nat
      BY <1>1 DEF WaitInv, WaitTypeOK, StringIsEchoed
    <3>2. InStr' \in Seq(Letters) /\ Len(InStr') = Len(InStr) + 1 /\ Len(InStr) \in Nat
      BY <2>3, <3>1
    <3>. QED  BY <2>3, <3>1, <3>2 DEF HasRoom
  <2>. QED  BY <1>1, <2>1, <2>2, <2>3 DEF InputKey
<1>4. WaitTypeOK'
  BY <1>1, <1>2, <1>3 DEF InputKey, WaitInv, WaitTypeOK
<1>. QED
  BY <1>1, <1>2, <1>3, <1>4
     DEF InputKey, WaitInv, TimeoutsAreOwn, TimerClosed, DefaultKeyOnlyAtZero, StringIsEchoed

LEMMA WaitStutterKeeps == WaitInv /\ UNCHANGED waitVars => WaitInv'
BY DEF waitVars, WaitInv, WaitTypeOK, TimeoutsAreOwn, TimerClosed, DefaultKeyOnlyAtZero,
       StringIsEchoed

LEMMA WaitInvAlways == WaitSpec => []WaitInv
<1>1. WaitInv /\ [WaitNext]_waitVars => WaitInv'
  BY EnvironmentKeeps, TimerKeeps, ReadKeyKeeps, InputKeyKeeps, WaitStutterKeeps
     DEF WaitNext, WaitLibrary
<1>. QED  BY <1>1, WaitInvInit, PTL DEF WaitSpec

\* event.c 103-152: no wait is answered by the timer of an earlier one, and only a
\* caller that passes a timeout of 0 is ever given the default key.
THEOREM TimersStayOwn == WaitSpec => []TimeoutsAreOwn
<1>1. WaitInv => TimeoutsAreOwn
  BY DEF WaitInv
<1>. QED  BY <1>1, WaitInvAlways, PTL

\* console.c 76-97: for every length the string IInput returns fits it with its
\* terminator, and is what the user sees.
THEOREM InputIsEchoed == WaitSpec => []StringIsEchoed
<1>1. WaitInv => StringIsEchoed
  BY DEF WaitInv
<1>. QED  BY <1>1, WaitInvAlways, PTL

-----------------------------------------------------------------------------
(* PrintEngine *)

(* Concatenations *)

\* The concatenations of the first k of some sequences.
IsFlat(g, ss, T) ==
    /\ g \in [0 .. Len(ss) -> Seq(T)] /\ g[0] = <<>>
    /\ \A k \in 1 .. Len(ss) : g[k] = g[k - 1] \o ss[k]

LEMMA FlatExists ==
    ASSUME NEW T, NEW ss \in Seq(Seq(T))
    PROVE  \E g : IsFlat(g, ss, T)
<1> DEFINE n == Len(ss)
<1> DEFINE V == Seq(T)
<1> DEFINE step == [c \in (1 .. n) \X V |-> c[2] \o ss[c[1]]]
<1>1. n \in Nat /\ \A k \in 1 .. n : ss[k] \in V
  BY LenProperties, ElementOfSeq
<1>2. \A v, w \in V : v \o w \in V
  BY ConcatProperties
<1>3. <<>> \in V
  BY EmptySeq
<1>p. n = Len(ss) /\ V = Seq(T)
  OBVIOUS
<1> HIDE DEF n, V
<1>4. step \in [(1 .. n) \X V -> V]
  BY <1>1, <1>2
<1>5. \A k \in 1 .. n : \A v \in V : step[<<k, v>>] = v \o ss[k]
  OBVIOUS
<1> HIDE DEF step
<1>6. PICK g : IsLoop(g, n, V, <<>>, step)
  <2>1. IsStep(n, V, step)
    BY <1>4 DEF IsStep
  <2>. QED
    BY <1>1, <1>3, <2>1, LoopExists
<1>7. g \in [0 .. n -> V] /\ g[0] = <<>> /\ \A k \in 1 .. n : g[k] = step[<<k, g[k - 1]>>]
  BY <1>6 DEF IsLoop
<1>8. ASSUME NEW k \in 1 .. n PROVE g[k] = g[k - 1] \o ss[k]
  <2>1. k - 1 \in 0 .. n
    BY <1>1
  <2>2. g[k - 1] \in V
    BY <1>7, <2>1
  <2>. QED
    BY <1>5, <1>7, <2>2
<1>9. IsFlat(g, ss, T)
  BY <1>7, <1>8, <1>p DEF IsFlat
<1>. QED
  BY <1>9

\* FlattenSeq is the last of them.
LEMMA FlattenIs ==
    ASSUME NEW T, NEW ss \in Seq(Seq(T)), NEW g, IsFlat(g, ss, T)
    PROVE  FlattenSeq(ss) = g[Len(ss)]
<1> DEFINE n == Len(ss)
<1> DEFINE flatten ==
        CHOOSE f : f = [i \in 1 .. n |-> IF i = 1 THEN ss[i] ELSE f[i - 1] \o ss[i]]
<1>1. n \in Nat /\ (n = 0 => ss = <<>>) /\ \A k \in 1 .. n : ss[k] \in Seq(T)
  BY LenProperties, ElementOfSeq, EmptySeq
<1>2. /\ g \in [0 .. n -> Seq(T)] /\ g[0] = <<>>
      /\ \A k \in 1 .. n : g[k] = g[k - 1] \o ss[k]
  BY DEF IsFlat
<1>3. FlattenSeq(ss) = IF n = 0 THEN ss ELSE flatten[n]
  BY DEF FlattenSeq
<1> DEFINE h == [i \in 1 .. n |-> g[i]]
<1>f. flatten = CHOOSE f : f = [i \in 1 .. n |-> IF i = 1 THEN ss[i] ELSE f[i - 1] \o ss[i]]
  OBVIOUS
<1> HIDE DEF n, flatten
<1>4. ASSUME NEW i \in 1 .. n PROVE h[i] = IF i = 1 THEN ss[i] ELSE h[i - 1] \o ss[i]
  <2>1. CASE i = 1
    <3>1. g[i] = <<>> \o ss[i]
      <4>1. i - 1 = 0
        BY <2>1
      <4>. QED
        BY <1>2, <4>1
    <3>2. ss[i] \in Seq(T)
      BY <1>1
    <3>. QED
      BY <2>1, <3>1, <3>2, ConcatEmptySeq
  <2>2. CASE i # 1
    <3>1. i - 1 \in 1 .. n
      BY <1>1, <2>2
    <3>. QED
      BY <1>2, <2>2, <3>1
  <2>. QED
    BY <2>1, <2>2
<1>5. h = [i \in 1 .. n |-> IF i = 1 THEN ss[i] ELSE h[i - 1] \o ss[i]]
  BY <1>4
<1> HIDE DEF h
<1>6. flatten = [i \in 1 .. n |-> IF i = 1 THEN ss[i] ELSE flatten[i - 1] \o ss[i]]
  BY <1>5, <1>f, Zenon
<1> DEFINE S == {k \in 0 .. n : k > 0 => flatten[k] = g[k]}
<1>7. 0 \in S
  BY <1>1
<1>8. ASSUME NEW k \in 0 .. n - 1, k \in S PROVE k + 1 \in S
  <2>1. k + 1 \in 1 .. n /\ (k + 1) - 1 = k /\ k + 1 \in 0 .. n /\ k \in Nat
    BY <1>1
  <2>2. flatten[k + 1] = IF k + 1 = 1 THEN ss[k + 1] ELSE flatten[k] \o ss[k + 1]
    BY <1>6, <2>1
  <2>3. g[k + 1] = g[k] \o ss[k + 1]
    BY <1>2, <2>1
  <2>4. CASE k = 0
    <3>1. g[k + 1] = <<>> \o ss[k + 1] /\ ss[k + 1] \in Seq(T)
      BY <1>1, <1>2, <2>1, <2>3, <2>4
    <3>2. flatten[k + 1] = g[k + 1]
      BY <2>2, <2>4, <3>1, ConcatEmptySeq
    <3>. QED
      BY <2>1, <3>2
  <2>5. CASE k # 0
    <3>1. k > 0 /\ k + 1 # 1
      BY <2>1, <2>5
    <3>2. flatten[k] = g[k]
      BY <1>8, <3>1
    <3>. QED
      BY <2>1, <2>2, <2>3, <3>1, <3>2
  <2>. QED
    BY <2>4, <2>5
<1> HIDE DEF S
<1>9. n \in S
  <2>1. 0 .. n \subseteq S
    BY <1>1, <1>7, <1>8, BoundedInduction
  <2>. QED
    BY <1>1, <2>1
<1>10. FlattenSeq(ss) = g[n]
  <2>1. CASE n = 0
    BY <1>1, <1>2, <1>3, <2>1
  <2>2. CASE n # 0
    <3>1. n > 0
      BY <1>1, <2>2
    <3>. QED
      BY <1>3, <1>9, <2>2, <3>1 DEF S
  <2>. QED
    BY <2>1, <2>2
<1>. QED
  BY <1>10 DEF n

\* One more sequence is concatenated behind the others.
LEMMA FlattenAppend ==
    ASSUME NEW T, NEW ss \in Seq(Seq(T)), NEW s \in Seq(T)
    PROVE  FlattenSeq(ss) \in Seq(T) /\ FlattenSeq(Append(ss, s)) = FlattenSeq(ss) \o s
<1> DEFINE n == Len(ss)
<1> DEFINE tt == Append(ss, s)
<1>1. /\ n \in Nat /\ tt \in Seq(Seq(T)) /\ Len(tt) = n + 1 /\ tt[n + 1] = s
      /\ \A k \in 1 .. n : tt[k] = ss[k]
  BY LenProperties, AppendProperties
<1>p. n = Len(ss)
  OBVIOUS
<1> HIDE DEF n, tt
<1>2. PICK g : IsFlat(g, tt, T)
  BY <1>1, FlatExists
<1>3. /\ g \in [0 .. n + 1 -> Seq(T)] /\ g[0] = <<>>
      /\ \A k \in 1 .. n + 1 : g[k] = g[k - 1] \o tt[k]
  BY <1>1, <1>2 DEF IsFlat
<1> DEFINE h == [k \in 0 .. n |-> g[k]]
<1>4. IsFlat(h, ss, T)
  <2>1. h \in [0 .. n -> Seq(T)] /\ h[0] = <<>>
    <3>1. \A k \in 0 .. n : k \in 0 .. n + 1
      BY <1>1
    <3>2. 0 \in 0 .. n
      BY <1>1
    <3>. QED
      BY <1>3, <3>1, <3>2
  <2>2. ASSUME NEW k \in 1 .. n PROVE h[k] = h[k - 1] \o ss[k]
    <3>1. k \in 0 .. n /\ k - 1 \in 0 .. n /\ k \in 1 .. n + 1
      BY <1>1
    <3>. QED
      BY <1>1, <1>3, <3>1
  <2> HIDE DEF h
  <2>. QED
    BY <1>p, <2>1, <2>2 DEF IsFlat
<1>5. h[n] = g[n] /\ n \in 0 .. n
  BY <1>1
<1> HIDE DEF h
<1>6. FlattenSeq(ss) = g[n]
  BY <1>4, <1>5, <1>p, FlattenIs
<1>7. FlattenSeq(tt) = g[n + 1]
  BY <1>1, <1>2, FlattenIs
<1>8. n + 1 \in 1 .. n + 1 /\ (n + 1) - 1 = n /\ n \in 0 .. n + 1
  BY <1>1
<1>9. g[n + 1] = g[n] \o s /\ g[n] \in Seq(T)
  BY <1>1, <1>3, <1>8
<1>. QED
  BY <1>6, <1>7, <1>9 DEF tt

-----------------------------------------------------------------------------
(* Characters, the buffer and the calls *)

Chars == {"\r", "?", "%", " ", "0"} \cup UNION {ToSet(s) : s \in Formats \cup Strings}
Attrs == ConsoleAttrs \cup {0, 7, 14, 15}
Cells == Chars \X Attrs
Outs == [buffer : Seq(Cells), calls : Seq([text : Seq(Cells), attr : Attrs])]

\* All that was put, flushed or not.
OutputOf(o) == FlattenSeq([i \in DOMAIN o.calls |-> o.calls[i].text]) \o o.buffer

\* Nothing that was flushed is too long or in another attribute, and n characters at most
\* wait in the attribute of now.
FitsOut(o, n) ==
    /\ o \in Outs /\ Len(o.buffer) < n
    /\ \A j \in 1 .. Len(o.buffer) : o.buffer[j][2] = Attr
    /\ \A i \in 1 .. Len(o.calls) :
         /\ Len(o.calls[i].text) < PRINT_STRING_LEN
         /\ \A j \in 1 .. Len(o.calls[i].text) : o.calls[i].text[j][2] = o.calls[i].attr

\* Between two characters there is always room for one more and the terminator.
RoomFor(o) == FitsOut(o, PRINT_STRING_LEN - 1)

\* A newline has its carriage return.
Returned(s) == \A i \in 1 .. Len(s) : s[i] = "\n" => i > 1 /\ s[i - 1] = "\r"

LEMMA ExpandedIs ==
    ASSUME NEW c \in Chars
    PROVE  Expanded(c) \in Seq(Chars) /\ Len(Expanded(c)) \in {1, 2} /\ Returned(Expanded(c))
<1>1. "\r" \in Chars /\ "\r" # "\n"
  BY DEF Chars
<1>2. CASE c = "\n"
  <2>1. Expanded(c) = <<"\r", c>>
    BY <1>2 DEF Expanded
  <2>2. <<"\r", c>> \in Seq(Chars) /\ Len(<<"\r", c>>) = 2 /\ <<"\r", c>>[1] = "\r"
    BY <1>1
  <2>3. \A i \in 1 .. 2 : i = 1 \/ i = 2
    OBVIOUS
  <2>. QED
    BY <1>1, <2>1, <2>2, <2>3 DEF Returned
<1>3. CASE c # "\n"
  <2>1. Expanded(c) = <<c>>
    BY <1>3 DEF Expanded
  <2>2. <<c>> \in Seq(Chars) /\ Len(<<c>>) = 1 /\ <<c>>[1] = c
    OBVIOUS
  <2>3. \A i \in 1 .. 1 : i = 1
    OBVIOUS
  <2>. QED
    BY <1>3, <2>1, <2>2, <2>3 DEF Returned
<1>. QED
  BY <1>2, <1>3

\* Returned texts one after the other are.
LEMMA ReturnedConcat ==
    ASSUME NEW T, NEW s \in Seq(T), NEW t \in Seq(T), Returned(s), Returned(t)
    PROVE  Returned(s \o t)
<1>1. /\ Len(s) \in Nat /\ Len(t) \in Nat /\ Len(s \o t) = Len(s) + Len(t)
      /\ \A i \in 1 .. Len(s) + Len(t) :
           (s \o t)[i] = IF i <= Len(s) THEN s[i] ELSE t[i - Len(s)]
  BY LenProperties, ConcatProperties
<1> DEFINE st == s \o t
<1> HIDE DEF st
<1>2. ASSUME NEW i \in 1 .. Len(s) + Len(t), st[i] = "\n" PROVE i > 1 /\ st[i - 1] = "\r"
  <2>1. CASE i <= Len(s)
    <3>1. i \in 1 .. Len(s) /\ s[i] = "\n"
      BY <1>1, <1>2, <2>1 DEF st
    <3>2. i > 1 /\ s[i - 1] = "\r"
      BY <3>1 DEF Returned
    <3>3. i - 1 \in 1 .. Len(s) + Len(t) /\ i - 1 <= Len(s)
      BY <1>1, <2>1, <3>2
    <3>. QED
      BY <1>1, <3>2, <3>3 DEF st
  <2>2. CASE i > Len(s)
    <3>1. i - Len(s) \in 1 .. Len(t) /\ t[i - Len(s)] = "\n"
      BY <1>1, <1>2, <2>2 DEF st
    <3>2. i - Len(s) > 1 /\ t[(i - Len(s)) - 1] = "\r"
      BY <3>1 DEF Returned
    <3>3. i - 1 \in 1 .. Len(s) + Len(t) /\ ~(i - 1 <= Len(s)) /\ i > 1
          /\ (i - 1) - Len(s) = (i - Len(s)) - 1
      BY <1>1, <2>2, <3>2
    <3>. QED
      BY <1>1, <3>2, <3>3 DEF st
  <2>. QED
    BY <1>1, <2>1, <2>2
<1>3. Len(st) = Len(s) + Len(t)
  BY <1>1 DEF st
<1>4. Returned(st)
  BY <1>2, <1>3 DEF Returned
<1>. QED
  BY <1>4 DEF st

\* What PPUTC puts for a string: at least the string, every newline with its return.
LEMMA ExpandAllIs ==
    ASSUME NEW s \in Seq(Chars)
    PROVE  /\ ExpandAll(s) \in Seq(Chars) /\ Len(ExpandAll(s)) >= Len(s)
           /\ Returned(ExpandAll(s))
<1> DEFINE n == Len(s)
<1> DEFINE es == [i \in 1 .. n |-> Expanded(s[i])]
<1>1. n \in Nat /\ DOMAIN s = 1 .. n /\ \A i \in 1 .. n : s[i] \in Chars
  BY LenProperties, ElementOfSeq
<1>2. ExpandAll(s) = FlattenSeq(es)
  BY <1>1 DEF ExpandAll
<1> HIDE DEF n
<1>3. \A i \in 1 .. n : /\ es[i] \in Seq(Chars) /\ Len(es[i]) >= 1 /\ Len(es[i]) \in Nat
                        /\ Returned(es[i])
  <2>1. ASSUME NEW i \in 1 .. n
        PROVE  es[i] \in Seq(Chars) /\ Len(es[i]) \in {1, 2} /\ Returned(es[i])
    BY <1>1, ExpandedIs
  <2>. QED
    BY <2>1
<1>4. es \in [1 .. n -> Seq(Chars)]
  BY <1>3
<1> HIDE DEF es
<1>5. es \in Seq(Seq(Chars)) /\ Len(es) = n
  BY <1>1, <1>4, FunctionIsSeq
<1>6. PICK g : IsFlat(g, es, Chars)
  BY <1>5, FlatExists
<1>7. /\ g \in [0 .. n -> Seq(Chars)] /\ g[0] = <<>>
      /\ \A k \in 1 .. n : g[k] = g[k - 1] \o es[k]
  BY <1>5, <1>6 DEF IsFlat
<1> DEFINE S == {k \in 0 .. n : Len(g[k]) >= k /\ Returned(g[k])}
<1>8. 0 \in S
  <2>1. Len(<<>>) = 0 /\ \A i : i \notin 1 .. 0
    BY EmptySeq
  <2>. QED
    BY <1>1, <1>7, <2>1 DEF Returned
<1>9. ASSUME NEW k \in 0 .. n - 1, k \in S PROVE k + 1 \in S
  <2>1. k + 1 \in 1 .. n /\ (k + 1) - 1 = k /\ k + 1 \in 0 .. n /\ k \in 0 .. n /\ k \in Nat
    BY <1>1
  <2>2. /\ g[k + 1] = g[k] \o es[k + 1] /\ g[k] \in Seq(Chars) /\ es[k + 1] \in Seq(Chars)
        /\ Len(es[k + 1]) >= 1 /\ Len(es[k + 1]) \in Nat /\ Returned(es[k + 1])
    BY <1>3, <1>7, <2>1
  <2>3. Len(g[k]) >= k /\ Returned(g[k])
    BY <1>9
  <2>4. Len(g[k]) \in Nat /\ Len(g[k] \o es[k + 1]) = Len(g[k]) + Len(es[k + 1])
    BY <2>2, LenProperties, ConcatProperties
  <2>5. Len(g[k + 1]) >= k + 1
    <3> DEFINE x == Len(g[k])
    <3> DEFINE y == Len(es[k + 1])
    <3>1. x \in Nat /\ y \in Nat /\ x >= k /\ y >= 1 /\ Len(g[k + 1]) = x + y
      BY <2>2, <2>3, <2>4
    <3> HIDE DEF x, y
    <3>. QED
      BY <2>1, <3>1
  <2>6. Returned(g[k + 1])
    BY <2>2, <2>3, ReturnedConcat
  <2>. QED
    BY <2>1, <2>5, <2>6
<1> HIDE DEF S
<1>10. n \in S
  <2>1. 0 .. n \subseteq S
    BY <1>1, <1>8, <1>9, BoundedInduction
  <2>. QED
    BY <1>1, <2>1
<1>11. FlattenSeq(es) = g[n]
  BY <1>5, <1>6, FlattenIs
<1>12. n \in 0 .. n
  BY <1>1
<1>13. ExpandAll(s) \in Seq(Chars)
  BY <1>2, <1>7, <1>11, <1>12
<1>. QED
  BY <1>2, <1>10, <1>11, <1>13 DEF S, n

\* The texts of the calls are sequences, and so is all that was put.
LEMMA TextsAre ==
    ASSUME NEW o \in Outs
    PROVE  /\ [i \in DOMAIN o.calls |-> o.calls[i].text] \in Seq(Seq(Cells))
           /\ Len([i \in DOMAIN o.calls |-> o.calls[i].text]) = Len(o.calls)
           /\ Len(o.calls) \in Nat /\ DOMAIN o.calls = 1 .. Len(o.calls)
           /\ OutputOf(o) \in Seq(Cells)
<1> DEFINE n == Len(o.calls)
<1> DEFINE tt == [i \in DOMAIN o.calls |-> o.calls[i].text]
<1>1. o.calls \in Seq([text : Seq(Cells), attr : Attrs]) /\ o.buffer \in Seq(Cells)
  BY DEF Outs
<1>2. n \in Nat /\ DOMAIN o.calls = 1 .. n
      /\ \A i \in 1 .. n : o.calls[i] \in [text : Seq(Cells), attr : Attrs]
  BY <1>1, LenProperties, ElementOfSeq
<1>3. tt \in [1 .. n -> Seq(Cells)]
  BY <1>2
<1>n. n = Len(o.calls)
  OBVIOUS
<1>o. OutputOf(o) = FlattenSeq(tt) \o o.buffer
  BY DEF OutputOf
<1> HIDE DEF tt, n
<1>4. tt \in Seq(Seq(Cells)) /\ Len(tt) = n
  BY <1>2, <1>3, FunctionIsSeq
<1>5. FlattenSeq(tt) \in Seq(Cells)
  <2>1. <<>> \in Seq(Cells)
    BY EmptySeq
  <2>. QED
    BY <1>4, <2>1, FlattenAppend
<1>6. OutputOf(o) \in Seq(Cells)
  BY <1>1, <1>5, <1>o, ConcatProperties
<1>. QED
  BY <1>2, <1>4, <1>6, <1>n DEF tt

\* A flush changes nothing of what was put.
LEMMA FlushIs ==
    ASSUME NEW o, FitsOut(o, PRINT_STRING_LEN), Attr \in Attrs
    PROVE  /\ RoomFor(PFLUSH(o)) /\ OutputOf(PFLUSH(o)) = OutputOf(o)
           /\ PFLUSH(o).buffer = <<>>
<1> DEFINE p == PFLUSH(o)
<1> DEFINE call == [text |-> o.buffer, attr |-> Attr]
<1> DEFINE tt == [i \in DOMAIN o.calls |-> o.calls[i].text]
<1> DEFINE uu == [i \in DOMAIN p.calls |-> p.calls[i].text]
<1> DEFINE n == Len(o.calls)
<1>1. /\ o \in Outs /\ Len(o.buffer) < PRINT_STRING_LEN
      /\ o.buffer \in Seq(Cells) /\ o.calls \in Seq([text : Seq(Cells), attr : Attrs])
      /\ \A j \in 1 .. Len(o.buffer) : o.buffer[j][2] = Attr
      /\ \A i \in 1 .. n :
           /\ Len(o.calls[i].text) < PRINT_STRING_LEN
           /\ \A j \in 1 .. Len(o.calls[i].text) : o.calls[i].text[j][2] = o.calls[i].attr
  BY DEF FitsOut, Outs
<1>2. p.buffer = <<>> /\ p.calls = Append(o.calls, call) /\ p = [buffer |-> p.buffer, calls |-> p.calls]
  BY DEF PFLUSH
<1>3. call \in [text : Seq(Cells), attr : Attrs] /\ call.text = o.buffer /\ call.attr = Attr
  BY <1>1
<1> HIDE DEF p, call
<1>4. /\ n \in Nat /\ p.calls \in Seq([text : Seq(Cells), attr : Attrs]) /\ Len(p.calls) = n + 1
      /\ p.calls[n + 1] = call /\ \A i \in 1 .. n : p.calls[i] = o.calls[i]
  BY <1>1, <1>2, <1>3, LenProperties, AppendProperties
<1>5. p \in Outs /\ Len(p.buffer) = 0
  <2>1. <<>> \in Seq(Cells) /\ Len(<<>>) = 0
    BY EmptySeq
  <2>. QED
    BY <1>2, <1>4, <2>1 DEF Outs
<1> HIDE DEF n
<1>6. ASSUME NEW i \in 1 .. n + 1
      PROVE  /\ Len(p.calls[i].text) < PRINT_STRING_LEN
             /\ \A j \in 1 .. Len(p.calls[i].text) : p.calls[i].text[j][2] = p.calls[i].attr
  <2>1. CASE i = n + 1
    BY <1>1, <1>3, <1>4, <2>1
  <2>2. CASE i # n + 1
    <3>1. i \in 1 .. n
      BY <1>4, <2>2
    <3>. QED
      BY <1>1, <1>4, <3>1
  <2>. QED
    BY <2>1, <2>2
<1>7. RoomFor(p)
  <2>1. PRINT_STRING_LEN - 1 > 0
    BY PrintEngineAssumption
  <2>2. \A j : j \notin 1 .. 0
    OBVIOUS
  <2>. QED
    BY <1>4, <1>5, <1>6, <2>1, <2>2 DEF RoomFor, FitsOut
<1>8. tt \in Seq(Seq(Cells)) /\ Len(tt) = n /\ DOMAIN o.calls = 1 .. n
  BY <1>1, TextsAre DEF n
<1>9. uu \in Seq(Seq(Cells)) /\ Len(uu) = n + 1 /\ DOMAIN p.calls = 1 .. n + 1
  BY <1>4, <1>5, TextsAre
<1>10. uu = Append(tt, o.buffer)
  <2>1. /\ Append(tt, o.buffer) \in Seq(Seq(Cells)) /\ Len(Append(tt, o.buffer)) = n + 1
        /\ Append(tt, o.buffer)[n + 1] = o.buffer
        /\ \A i \in 1 .. n : Append(tt, o.buffer)[i] = tt[i]
    <3> HIDE DEF tt
    <3>1. o.buffer \in Seq(Cells)
      BY <1>1
    <3>2. /\ Append(tt, o.buffer) \in Seq(Seq(Cells))
          /\ Len(Append(tt, o.buffer)) = Len(tt) + 1
          /\ Append(tt, o.buffer)[Len(tt) + 1] = o.buffer
          /\ \A i \in 1 .. Len(tt) : Append(tt, o.buffer)[i] = tt[i]
      BY <1>8, <3>1, AppendProperties
    <3>. QED
      BY <1>8, <3>2
  <2>2. ASSUME NEW i \in 1 .. n + 1 PROVE uu[i] = Append(tt, o.buffer)[i]
    <3>1. CASE i = n + 1
      BY <1>3, <1>4, <1>9, <2>1, <3>1
    <3>2. CASE i # n + 1
      <4>1. i \in 1 .. n
        BY <1>4, <3>2
      <4>2. tt[i] = o.calls[i].text /\ uu[i] = p.calls[i].text
        BY <1>8, <1>9, <4>1
      <4>. QED
        BY <1>4, <2>1, <4>1, <4>2
    <3>. QED
      BY <3>1, <3>2
  <2> HIDE DEF uu
  <2>. QED
    BY <1>9, <2>1, <2>2, SeqEqual
<1>11. OutputOf(o) = FlattenSeq(tt) \o o.buffer /\ OutputOf(p) = FlattenSeq(uu) \o <<>>
  BY <1>2 DEF OutputOf
<1> HIDE DEF tt, uu
<1>12. FlattenSeq(tt) \in Seq(Cells) /\ FlattenSeq(uu) = FlattenSeq(tt) \o o.buffer
  BY <1>1, <1>8, <1>10, FlattenAppend
<1>13. FlattenSeq(uu) \in Seq(Cells)
  BY <1>1, <1>12, ConcatProperties
<1>14. OutputOf(p) = OutputOf(o)
  BY <1>11, <1>12, <1>13, ConcatEmptySeq
<1>. QED
  BY <1>2, <1>7, <1>14 DEF p

\* One character goes behind all that was put before, and there is room again.
LEMMA PutOneIs ==
    ASSUME NEW o, RoomFor(o), Attr \in Attrs, NEW c \in Chars
    PROVE  /\ RoomFor(PutOne(o, c))
           /\ OutputOf(PutOne(o, c)) = Append(OutputOf(o), <<c, Attr>>)
<1> DEFINE cell == <<c, Attr>>
<1> DEFINE full == [o EXCEPT !.buffer = Append(@, cell)]
<1> DEFINE m == Len(o.buffer)
<1>1. /\ o \in Outs /\ m < PRINT_STRING_LEN - 1
      /\ o.buffer \in Seq(Cells) /\ o.calls \in Seq([text : Seq(Cells), attr : Attrs])
      /\ \A j \in 1 .. m : o.buffer[j][2] = Attr
      /\ \A i \in 1 .. Len(o.calls) :
           /\ Len(o.calls[i].text) < PRINT_STRING_LEN
           /\ \A j \in 1 .. Len(o.calls[i].text) : o.calls[i].text[j][2] = o.calls[i].attr
  BY DEF RoomFor, FitsOut, Outs
<1>2. cell \in Cells /\ cell[2] = Attr
  BY DEF Cells
<1>d. PutOne(o, c) = IF AtEnd(Len(full.buffer)) THEN PFLUSH(full) ELSE full
  BY DEF PutOne
<1> HIDE DEF cell
<1>3. full.buffer = Append(o.buffer, cell) /\ full.calls = o.calls
      /\ full = [buffer |-> full.buffer, calls |-> full.calls]
  <2>1. o = [buffer |-> o.buffer, calls |-> o.calls]
    BY <1>1 DEF Outs
  <2>2. full = [buffer |-> Append(o.buffer, cell), calls |-> o.calls]
    BY <2>1
  <2>. QED
    BY <2>2
<1> HIDE DEF full
<1>4. /\ m \in Nat /\ full.buffer \in Seq(Cells) /\ Len(full.buffer) = m + 1
      /\ full.buffer[m + 1] = cell /\ \A j \in 1 .. m : full.buffer[j] = o.buffer[j]
  BY <1>1, <1>2, <1>3, LenProperties, AppendProperties
<1> HIDE DEF m
<1>5. full \in Outs
  BY <1>1, <1>3, <1>4 DEF Outs
<1>6. \A j \in 1 .. m + 1 : full.buffer[j][2] = Attr
  <2>1. \A j \in 1 .. m + 1 : j = m + 1 \/ j \in 1 .. m
    BY <1>4
  <2>. QED
    BY <1>1, <1>2, <1>4, <2>1
<1>7. m + 1 < PRINT_STRING_LEN
  BY <1>1, <1>4, PrintEngineAssumption
<1>8. FitsOut(full, PRINT_STRING_LEN)
  BY <1>1, <1>3, <1>4, <1>5, <1>6, <1>7 DEF FitsOut
<1>9. OutputOf(full) = Append(OutputOf(o), cell)
  <2> DEFINE flat == FlattenSeq([i \in DOMAIN o.calls |-> o.calls[i].text])
  <2>1. flat \in Seq(Cells)
    <3>1. [i \in DOMAIN o.calls |-> o.calls[i].text] \in Seq(Seq(Cells)) /\ <<>> \in Seq(Cells)
      BY <1>1, TextsAre, EmptySeq
    <3>. QED
      BY <3>1, FlattenAppend
  <2>2. OutputOf(o) = flat \o o.buffer /\ OutputOf(full) = flat \o Append(o.buffer, cell)
    BY <1>3 DEF OutputOf
  <2> HIDE DEF flat
  <2>3. <<cell>> \in Seq(Cells) /\ flat \o o.buffer \in Seq(Cells)
    BY <1>1, <1>2, <2>1, ConcatProperties
  <2>4. Append(o.buffer, cell) = o.buffer \o <<cell>>
    BY <1>1, <1>2, AppendIsConcat
  <2>5. (flat \o o.buffer) \o <<cell>> = flat \o (o.buffer \o <<cell>>)
    <3>1. \A p, q, r \in Seq(Cells) : (p \o q) \o r = p \o (q \o r)
      BY ConcatAssociative
    <3>2. flat \in Seq(Cells) /\ o.buffer \in Seq(Cells) /\ <<cell>> \in Seq(Cells)
      BY <1>1, <2>1, <2>3
    <3>. QED
      BY <3>1, <3>2
  <2>6. Append(flat \o o.buffer, cell) = (flat \o o.buffer) \o <<cell>>
    BY <1>2, <2>3, AppendIsConcat
  <2>. QED
    BY <2>2, <2>4, <2>5, <2>6
<1>10. CASE AtEnd(Len(full.buffer))
  <2>1. PutOne(o, c) = PFLUSH(full)
    BY <1>10, <1>d
  <2>. QED
    BY <1>8, <1>9, <2>1, FlushIs DEF cell
<1>11. CASE ~AtEnd(Len(full.buffer))
  <2>1. PutOne(o, c) = full
    BY <1>11, <1>d
  <2>2. m + 1 < PRINT_STRING_LEN - 1
    BY <1>4, <1>11, PrintEngineAssumption DEF AtEnd
  <2>3. RoomFor(full)
    BY <1>4, <1>8, <2>2 DEF RoomFor, FitsOut
  <2>. QED
    BY <1>9, <2>1, <2>3 DEF cell
<1>. QED
  BY <1>10, <1>11

\* The first k characters of s are behind what was put before.
Follows(o, s, k) ==
    /\ Len(OutputOf(o)) = Len(Output) + k
    /\ \A i \in 1 .. Len(Output) : OutputOf(o)[i] = Output[i]
    /\ \A j \in 1 .. k : OutputOf(o)[Len(Output) + j] = <<s[j], Attr>>

LEMMA PrintedIs ==
    OutputOf(Printed) = Output /\ Printed.buffer = printBuffer /\ Printed.calls = calls
BY DEF OutputOf, Printed, Output

LEMMA PuttingIs ==
    ASSUME RoomFor(Printed), Attr \in Attrs, NEW s \in Seq(Chars)
    PROVE  RoomFor(Putting(s)[Len(s)]) /\ Follows(Putting(s)[Len(s)], s, Len(s))
<1> DEFINE n == Len(s)
<1> DEFINE V == {o \in Outs : RoomFor(o)}
<1> DEFINE step == [c \in (1 .. n) \X V |-> PutOne(c[2], s[c[1]])]
<1>1. n \in Nat /\ \A k \in 1 .. n : s[k] \in Chars
  BY LenProperties, ElementOfSeq
<1>n. n = Len(s)
  OBVIOUS
<1> HIDE DEF n
<1>2. \A o : RoomFor(o) => o \in Outs
  BY DEF RoomFor, FitsOut
<1>3. ASSUME NEW k \in 1 .. n, NEW o \in V PROVE PutOne(o, s[k]) \in V
  BY <1>1, <1>2, PutOneIs
<1>4. Printed \in V
  BY <1>2
<1>v. \A o \in V : RoomFor(o) /\ o \in Outs
  OBVIOUS
<1> HIDE DEF V
<1>5. step \in [(1 .. n) \X V -> V]
  BY <1>3
<1>6. \A k \in 1 .. n : \A o \in V : step[<<k, o>>] = PutOne(o, s[k])
  OBVIOUS
<1> HIDE DEF step
<1>7. PICK g \in [0 .. n -> V] :
          g[0] = Printed /\ \A k \in 1 .. n : g[k] = step[<<k, g[k - 1]>>]
  <2>1. IsStep(n, V, step)
    BY <1>5 DEF IsStep
  <2>2. \E g : IsLoop(g, n, V, Printed, step)
    BY <1>1, <1>4, <2>1, LoopExists
  <2>. QED
    BY <2>2 DEF IsLoop
<1>8. ASSUME NEW k \in 0 .. n
      PROVE  g[k] = IF k = 0 THEN Printed ELSE PutOne(g[k - 1], s[k])
  <2>1. CASE k = 0
    BY <1>7, <2>1
  <2>2. CASE k # 0
    <3>1. k \in 1 .. n /\ k - 1 \in 0 .. n
      BY <1>1, <2>2
    <3>2. g[k - 1] \in V
      BY <3>1
    <3>. QED
      BY <1>6, <1>7, <2>2, <3>1, <3>2
  <2>. QED
    BY <2>1, <2>2
<1>9. g = [k \in 0 .. n |-> IF k = 0 THEN Printed ELSE PutOne(g[k - 1], s[k])]
  BY <1>8
<1> DEFINE put == Putting(s)
<1>10. put = [k \in 0 .. n |-> IF k = 0 THEN Printed ELSE PutOne(put[k - 1], s[k])]
  BY <1>9, <1>n, Zenon DEF Putting
<1> HIDE DEF put
<1>11. put[0] = Printed
  BY <1>1, <1>10
<1>12. ASSUME NEW k \in 1 .. n PROVE put[k] = PutOne(put[k - 1], s[k])
  BY <1>1, <1>10
<1> DEFINE S == {k \in 0 .. n : RoomFor(put[k]) /\ Follows(put[k], s, k)}
<1>13. Output \in Seq(Cells) /\ Len(Output) \in Nat
  BY <1>4, <1>v, PrintedIs, TextsAre, LenProperties
<1>14. 0 \in S
  <2>1. \A j : j \notin 1 .. 0
    OBVIOUS
  <2>2. OutputOf(Printed) = Output /\ Len(Output) + 0 = Len(Output)
    BY <1>13, PrintedIs
  <2>3. Follows(Printed, s, 0)
    BY <2>1, <2>2 DEF Follows
  <2>. QED
    BY <1>1, <1>11, <2>3
<1>15. ASSUME NEW k \in 0 .. n - 1, k \in S PROVE k + 1 \in S
  <2>1. k + 1 \in 1 .. n /\ (k + 1) - 1 = k /\ k + 1 \in 0 .. n /\ k \in Nat
    BY <1>1
  <2>2. put[k + 1] = PutOne(put[k], s[k + 1]) /\ s[k + 1] \in Chars
    BY <1>1, <1>12, <2>1
  <2>3. RoomFor(put[k]) /\ Follows(put[k], s, k)
    BY <1>15
  <2>4. /\ RoomFor(put[k + 1])
        /\ OutputOf(put[k + 1]) = Append(OutputOf(put[k]), <<s[k + 1], Attr>>)
    BY <2>2, <2>3, PutOneIs
  <2> DEFINE before == OutputOf(put[k])
  <2> DEFINE after == OutputOf(put[k + 1])
  <2> DEFINE l == Len(Output)
  <2>5. before \in Seq(Cells) /\ Len(before) = l + k
    BY <1>2, <2>3, TextsAre DEF Follows
  <2>6. <<s[k + 1], Attr>> \in Cells
    BY <2>2 DEF Cells
  <2>a. /\ \A i \in 1 .. l : before[i] = Output[i]
        /\ \A j \in 1 .. k : before[l + j] = <<s[j], Attr>>
        /\ after = Append(before, <<s[k + 1], Attr>>) /\ l \in Nat
    BY <1>13, <2>3, <2>4 DEF Follows
  <2> HIDE DEF before, after, l
  <2>7. /\ Len(after) = l + k + 1 /\ after[l + k + 1] = <<s[k + 1], Attr>>
        /\ \A i \in 1 .. l + k : after[i] = before[i]
    BY <2>5, <2>6, <2>a, AppendProperties
  <2>8. Len(after) = l + (k + 1)
    BY <2>1, <2>7, <2>a
  <2>9. \A i \in 1 .. l : after[i] = Output[i]
    <3>1. \A i \in 1 .. l : i \in 1 .. l + k
      BY <2>1, <2>a
    <3>. QED
      BY <2>7, <2>a, <3>1
  <2>10. ASSUME NEW j \in 1 .. k + 1 PROVE after[l + j] = <<s[j], Attr>>
    <3>1. CASE j = k + 1
      <4>1. l + j = l + k + 1
        BY <2>1, <2>a, <3>1
      <4>. QED
        BY <2>7, <3>1, <4>1
    <3>2. CASE j # k + 1
      <4>1. j \in 1 .. k /\ l + j \in 1 .. l + k
        BY <2>1, <2>a, <3>2
      <4>. QED
        BY <2>7, <2>a, <4>1
    <3>. QED
      BY <3>1, <3>2
  <2>11. Follows(put[k + 1], s, k + 1)
    BY <2>8, <2>9, <2>10 DEF Follows, after, l
  <2>. QED
    BY <2>1, <2>4, <2>11
<1> HIDE DEF S
<1>16. n \in S
  <2>1. 0 .. n \subseteq S
    BY <1>1, <1>14, <1>15, BoundedInduction
  <2>. QED
    BY <1>1, <2>1
<1>. QED
  BY <1>16, <1>n DEF S, put

\* Newlines are returned in some output.
NewlinesIn(o) ==
    \A i \in 1 .. Len(OutputOf(o)) :
        OutputOf(o)[i][1] = "\n" => i > 1 /\ OutputOf(o)[i - 1][1] = "\r"

\* PPUTC for every character of a string.
LEMMA PutAllIs ==
    ASSUME RoomFor(Printed), Attr \in Attrs, NewlinesIn(Printed), NEW s \in Seq(Chars)
    PROVE  /\ RoomFor(PutAll(s)) /\ NewlinesIn(PutAll(s))
           /\ Len(OutputOf(PutAll(s))) = Len(Output) + Len(ExpandAll(s))
<1> DEFINE e == ExpandAll(s)
<1> DEFINE after == OutputOf(PutAll(s))
<1> DEFINE l == Len(Output)
<1> DEFINE n == Len(e)
<1>1. e \in Seq(Chars) /\ Returned(e) /\ n \in Nat
  BY ExpandAllIs, LenProperties
<1>2. RoomFor(Putting(e)[n]) /\ Follows(Putting(e)[n], e, n)
  BY <1>1, PuttingIs
<1>3. PutAll(s) = Putting(e)[n]
  BY DEF PutAll
<1>4. Output \in Seq(Cells) /\ l \in Nat
  <2>1. Printed \in Outs
    BY DEF RoomFor, FitsOut
  <2>. QED
    BY <2>1, PrintedIs, TextsAre, LenProperties
<1>5. \A i \in 1 .. l : Output[i][1] = "\n" => i > 1 /\ Output[i - 1][1] = "\r"
  BY PrintedIs DEF NewlinesIn
<1>6. \A j \in 1 .. n : e[j] = "\n" => j > 1 /\ e[j - 1] = "\r"
  BY <1>1 DEF Returned
<1>7. /\ Len(after) = l + n /\ \A i \in 1 .. l : after[i] = Output[i]
      /\ \A j \in 1 .. n : after[l + j] = <<e[j], Attr>>
  BY <1>2, <1>3 DEF Follows
<1> HIDE DEF e, n, l, after
<1>8. ASSUME NEW i \in 1 .. l + n, after[i][1] = "\n" PROVE i > 1 /\ after[i - 1][1] = "\r"
  <2>1. CASE i <= l
    <3>1. i \in 1 .. l
      BY <1>1, <1>4, <2>1
    <3>2. i > 1 /\ Output[i - 1][1] = "\r"
      BY <1>5, <1>7, <1>8, <3>1
    <3>3. i - 1 \in 1 .. l
      BY <1>4, <3>1, <3>2
    <3>. QED
      BY <1>7, <3>2, <3>3
  <2>2. CASE i > l
    <3>1. i - l \in 1 .. n /\ l + (i - l) = i
      BY <1>1, <1>4, <2>2
    <3>2. after[i] = <<e[i - l], Attr>>
      BY <1>7, <3>1
    <3>3. e[i - l] = "\n"
      BY <1>8, <3>2
    <3>4. i - l > 1 /\ e[(i - l) - 1] = "\r"
      BY <1>6, <3>1, <3>3
    <3>5. (i - l) - 1 \in 1 .. n /\ l + ((i - l) - 1) = i - 1 /\ i > 1
      BY <1>1, <1>4, <2>2, <3>1, <3>4
    <3>6. after[i - 1] = <<e[(i - l) - 1], Attr>>
      BY <1>7, <3>5
    <3>. QED
      BY <3>4, <3>5, <3>6
  <2>. QED
    BY <1>1, <1>4, <2>1, <2>2
<1>9. NewlinesIn(PutAll(s))
  BY <1>7, <1>8 DEF NewlinesIn, after
<1>. QED
  BY <1>2, <1>3, <1>7, <1>9 DEF e, n, l, after

-----------------------------------------------------------------------------
(* Fields *)

Items ==
    [FieldWidth : Nat \cup {-1}, Width : Nat, WidthParse : {"Width", "FieldWidth"},
     Pad : {" ", "0"}, PadBefore : BOOLEAN, Long : BOOLEAN]

LEMMA MaxIs ==
    ASSUME NEW a \in Int, NEW b \in Int
    PROVE  Max({a, b}) = IF a >= b THEN a ELSE b
<1> DEFINE m == IF a >= b THEN a ELSE b
<1>1. m \in {a, b} /\ \A y \in {a, b} : m >= y
  OBVIOUS
<1>2. ASSUME NEW x \in {a, b}, \A y \in {a, b} : x >= y PROVE x = m
  BY <1>2
<1> HIDE DEF m
<1>3. Max({a, b}) = m
  BY <1>1, <1>2 DEF Max
<1>. QED
  BY <1>3 DEF m

LEMMA MinIs ==
    ASSUME NEW a \in Int, NEW b \in Int
    PROVE  Min({a, b}) = IF a <= b THEN a ELSE b
<1> DEFINE m == IF a <= b THEN a ELSE b
<1>1. m \in {a, b} /\ \A y \in {a, b} : m <= y
  OBVIOUS
<1>2. ASSUME NEW x \in {a, b}, \A y \in {a, b} : x <= y PROVE x = m
  BY <1>2
<1> HIDE DEF m
<1>3. Min({a, b}) = m
  BY <1>1, <1>2 DEF Min
<1>. QED
  BY <1>3 DEF m

LEMMA FillIs ==
    ASSUME NEW c \in Chars, NEW n \in Int
    PROVE  Fill(c, n) \in Seq(Chars) /\ Len(Fill(c, n)) = IF n >= 0 THEN n ELSE 0
<1> DEFINE m == Max({n, 0})
<1>1. m = IF n >= 0 THEN n ELSE 0
  BY MaxIs
<1>2. Fill(c, n) = [i \in 1 .. m |-> c]
  BY DEF Fill
<1> HIDE DEF m
<1>3. m \in Nat
  BY <1>1
<1>. QED
  BY <1>1, <1>2, <1>3, FunctionIsSeq

LEMMA ShownIs ==
    ASSUME item \in Items, NEW text \in Seq(Chars)
    PROVE  /\ Shown(text) \in Seq(Chars) /\ Len(Shown(text)) \in Nat
           /\ item.FieldWidth # -1 => Len(Shown(text)) <= item.FieldWidth
<1>1. item.FieldWidth \in Nat \cup {-1} /\ Len(text) \in Nat
  BY LenProperties DEF Items
<1>2. CASE item.FieldWidth = -1
  BY <1>1, <1>2 DEF Shown
<1>3. CASE item.FieldWidth # -1
  <2> DEFINE m == Min({Len(text), item.FieldWidth})
  <2>1. item.FieldWidth \in Nat
    BY <1>1, <1>3
  <2>2. m = IF Len(text) <= item.FieldWidth THEN Len(text) ELSE item.FieldWidth
    BY <1>1, <2>1, MinIs
  <2>3. Shown(text) = SubSeq(text, 1, m)
    BY <1>3 DEF Shown
  <2> HIDE DEF m
  <2>4. m \in Nat /\ m <= Len(text) /\ m <= item.FieldWidth
    BY <1>1, <2>1, <2>2
  <2>5. \A i \in 1 .. m : i \in 1 .. Len(text) /\ text[i] \in Chars
    <3>1. \A i \in 1 .. Len(text) : text[i] \in Chars
      BY ElementOfSeq
    <3>2. \A i \in 1 .. m : i \in 1 .. Len(text)
      BY <1>1, <2>4
    <3>. QED
      BY <3>1, <3>2
  <2>6. SubSeq(text, 1, m) = [i \in 1 .. m |-> text[i]]
    <3>1. SubSeq(text, 1, m) = [i \in 1 .. (m - 1 + 1) |-> text[i + 1 - 1]]
      BY <2>4
    <3>2. (m - 1) + 1 = m /\ \A i \in 1 .. m : (i + 1) - 1 = i
      BY <2>4
    <3>. QED
      BY <3>1, <3>2
  <2>7. SubSeq(text, 1, m) \in Seq(Chars) /\ Len(SubSeq(text, 1, m)) = m
    BY <2>4, <2>5, <2>6, FunctionIsSeq
  <2>. QED
    BY <2>3, <2>4, <2>7
<1>. QED
  BY <1>2, <1>3

\* A field is at least as wide as its width and its field width.
LEMMA PITEMIs ==
    ASSUME item \in Items, NEW text \in Seq(Chars)
    PROVE  /\ PITEM(text) \in Seq(Chars) /\ Len(PITEM(text)) \in Nat
           /\ Len(PITEM(text)) >= Max({ItemWidth, item.FieldWidth})
<1> DEFINE fw == item.FieldWidth
<1> DEFINE w == ItemWidth
<1> DEFINE pad == ItemPad
<1> DEFINE t == Shown(text)
<1> DEFINE n == Len(t)
<1> DEFINE field == IF fw = -1 THEN n ELSE fw
<1> DEFINE width == Padding(n)
<1> DEFINE outer == Fill(" ", field - width)
<1> DEFINE inner == Fill(pad, width - n)
<1> DEFINE before == IF item.PadBefore THEN outer ELSE <<>>
<1> DEFINE behind == IF item.PadBefore THEN <<>> ELSE outer
<1>1. fw \in Nat \cup {-1} /\ w \in Nat
  <2>1. item.FieldWidth \in Nat \cup {-1} /\ item.Width \in Nat
    BY DEF Items
  <2>2. ItemWidth \in Nat
    BY <2>1 DEF ItemWidth, FixedWidth
  <2>. QED
    BY <2>1, <2>2
<1>p. pad \in {" ", "0"}
  BY DEF Items, ItemPad
<1>b. item.PadBefore \in BOOLEAN
  BY DEF Items
<1>2. t \in Seq(Chars) /\ n \in Nat /\ (fw # -1 => n <= fw)
  BY ShownIs
<1>3. PITEM(text) = ((before \o inner) \o t) \o behind
  BY DEF PITEM
<1>w. Padding(n) = Max({n, w})
  BY DEF Padding
<1> HIDE DEF fw, w, pad, t, n
<1>i. fw \in Int /\ w \in Int /\ fw >= -1 /\ (fw # -1 => fw \in Nat)
  <2>1. CASE fw \in Nat
    BY <1>1, <2>1
  <2>2. CASE fw = -1
    BY <1>1, <2>2
  <2>. QED
    BY <1>1, <2>1, <2>2
<1>4. field \in Nat /\ field >= n /\ field >= fw
  <2>1. CASE fw = -1
    BY <1>2, <2>1
  <2>2. CASE fw # -1
    BY <1>2, <1>i, <2>2
  <2>. QED
    BY <2>1, <2>2
<1>5. width = IF n >= w THEN n ELSE w
  BY <1>2, <1>i, <1>w, MaxIs
<1> HIDE DEF field, width
<1>6. width \in Nat /\ width >= n /\ width >= w
  BY <1>1, <1>2, <1>i, <1>5
<1>7. " " \in Chars /\ pad \in Chars
  BY <1>p DEF Chars
<1>8. field - width \in Int /\ width - n \in Nat
  BY <1>2, <1>4, <1>6
<1>9. /\ outer \in Seq(Chars)
      /\ Len(outer) = IF field - width >= 0 THEN field - width ELSE 0
      /\ inner \in Seq(Chars) /\ Len(inner) = width - n
  <2>1. width - n \in Int /\ width - n >= 0
    BY <1>8
  <2>2. inner \in Seq(Chars) /\ Len(inner) = IF width - n >= 0 THEN width - n ELSE 0
    BY <1>7, <2>1, FillIs
  <2>3. outer \in Seq(Chars)
        /\ Len(outer) = IF field - width >= 0 THEN field - width ELSE 0
    BY <1>7, <1>8, FillIs
  <2> HIDE DEF inner, outer
  <2>. QED
    BY <2>1, <2>2, <2>3
<1> HIDE DEF outer, inner
<1>10. /\ before \in Seq(Chars) /\ behind \in Seq(Chars)
       /\ Len(before) + Len(behind) = Len(outer) /\ Len(before) \in Nat /\ Len(behind) \in Nat
  <2>1. <<>> \in Seq(Chars) /\ Len(<<>>) = 0 /\ Len(outer) \in Nat
    BY <1>9, EmptySeq, LenProperties
  <2>2. CASE item.PadBefore
    BY <1>9, <2>1, <2>2
  <2>3. CASE ~item.PadBefore
    BY <1>9, <2>1, <2>3
  <2>. QED
    BY <2>2, <2>3
<1> HIDE DEF before, behind
<1>11. before \o inner \in Seq(Chars) /\ Len(before \o inner) = Len(before) + Len(inner)
  BY <1>9, <1>10, ConcatProperties
<1>12. (before \o inner) \o t \in Seq(Chars)
       /\ Len((before \o inner) \o t) = Len(before \o inner) + Len(t)
  BY <1>2, <1>11, ConcatProperties
<1>13. ((before \o inner) \o t) \o behind \in Seq(Chars)
       /\ Len(((before \o inner) \o t) \o behind)
              = Len((before \o inner) \o t) + Len(behind)
  BY <1>10, <1>12, ConcatProperties
<1>14. Len(PITEM(text)) = ((Len(before) + (width - n)) + n) + Len(behind)
  BY <1>3, <1>9, <1>11, <1>12, <1>13 DEF n
<1>15. Len(PITEM(text)) = (Len(before) + Len(behind)) + width
  <2> DEFINE x == Len(before)
  <2> DEFINE y == Len(behind)
  <2>1. x \in Nat /\ y \in Nat
    BY <1>10
  <2>2. Len(PITEM(text)) = ((x + (width - n)) + n) + y
    BY <1>14
  <2> HIDE DEF x, y
  <2>3. ((x + (width - n)) + n) + y = (x + y) + width
    BY <1>2, <1>6, <2>1
  <2>. QED
    BY <2>2, <2>3 DEF x, y
<1>16. Len(PITEM(text)) = IF field - width >= 0 THEN field ELSE width
  <2>1. Len(PITEM(text)) = Len(outer) + width
    BY <1>10, <1>15
  <2>2. CASE field - width >= 0
    BY <1>4, <1>6, <1>9, <2>1, <2>2
  <2>3. CASE ~(field - width >= 0)
    BY <1>4, <1>6, <1>9, <2>1, <2>3
  <2>. QED
    BY <2>2, <2>3
<1>17. Len(PITEM(text)) >= w /\ Len(PITEM(text)) >= fw
  <2>1. CASE field - width >= 0
    BY <1>i, <1>4, <1>6, <1>16, <2>1
  <2>2. CASE ~(field - width >= 0)
    BY <1>i, <1>4, <1>6, <1>16, <2>2
  <2>. QED
    BY <2>1, <2>2
<1>18. Max({w, fw}) \in {w, fw}
  BY <1>i, MaxIs
<1>19. Len(PITEM(text)) \in Nat
  BY <1>4, <1>6, <1>16
<1>. QED
  BY <1>3, <1>13, <1>17, <1>18, <1>19 DEF w, fw

\* The digits of a width: there is a last one, and they are a number.
LEMMA NumberIs ==
    ASSUME fmtIndex \in Nat \ {0}, Len(fmt) \in Nat, Char \in DOMAIN DigitValue
    PROVE  /\ LastDigit \in Nat /\ LastDigit >= fmtIndex
           /\ NumberOf[LastDigit - fmtIndex + 1] \in Nat
<1> DEFINE S == {i \in fmtIndex .. Len(fmt) :
                    \A j \in fmtIndex .. i : fmt[j] \in DOMAIN DigitValue}
<1> DEFINE n == LastDigit - fmtIndex + 1
<1> DEFINE digit(k) == DigitValue[fmt[fmtIndex + k - 1]]
<1> DEFINE step == [c \in (1 .. n) \X Nat |-> 10 * c[2] + digit(c[1])]
<1>1. fmtIndex <= Len(fmt) /\ fmt[fmtIndex] \in DOMAIN DigitValue
  <2>1. "NUL" \notin DOMAIN DigitValue
    BY DEF DigitValue
  <2>. QED
    BY <2>1 DEF Char
<1>2. S # {} /\ \A i \in S : i \in Nat /\ i <= Len(fmt)
  <2>1. fmtIndex \in fmtIndex .. Len(fmt) /\ \A j \in fmtIndex .. fmtIndex : j = fmtIndex
    BY <1>1
  <2>2. fmtIndex \in S
    BY <1>1, <2>1
  <2>. QED
    BY <2>2
<1> HIDE DEF S
<1>3. \E m \in S : \A i \in S : m >= i
  BY <1>2, GreatestExists
<1>4. LastDigit \in S
  <2>1. Max(S) \in S
    BY <1>3 DEF Max
  <2>2. LastDigit = Max(S)
    BY DEF LastDigit, S
  <2>. QED
    BY <2>1, <2>2
<1>5. LastDigit \in Nat /\ LastDigit >= fmtIndex /\ LastDigit \in fmtIndex .. Len(fmt)
      /\ \A j \in fmtIndex .. LastDigit : fmt[j] \in DOMAIN DigitValue
  BY <1>4 DEF S
<1>6. n \in Nat
  BY <1>5
<1>7. \A c \in DOMAIN DigitValue : DigitValue[c] \in Nat
  <2>1. ASSUME NEW c \in {"0", "1", "2", "3"}
        PROVE  (CASE c = "0" -> 0 [] c = "1" -> 1 [] c = "2" -> 2 [] c = "3" -> 3) \in Nat
    BY <2>1
  <2>. QED
    BY <2>1 DEF DigitValue
<1>8. ASSUME NEW k \in 1 .. n PROVE digit(k) \in Nat
  <2>1. fmtIndex + k - 1 \in fmtIndex .. LastDigit
    BY <1>5
  <2>. QED
    BY <1>5, <1>7, <2>1
<1> HIDE DEF digit
<1>9. step \in [(1 .. n) \X Nat -> Nat]
  BY <1>8
<1>10. \A k \in 1 .. n : \A v \in Nat : step[<<k, v>>] = 10 * v + digit(k)
  OBVIOUS
<1> HIDE DEF step
<1>11. PICK g \in [0 .. n -> Nat] : g[0] = 0 /\ \A k \in 1 .. n : g[k] = step[<<k, g[k - 1]>>]
  <2>1. IsStep(n, Nat, step)
    BY <1>9 DEF IsStep
  <2>2. \E g : IsLoop(g, n, Nat, 0, step)
    BY <1>6, <2>1, LoopExists
  <2>. QED
    BY <2>2 DEF IsLoop
<1>12. ASSUME NEW k \in 0 .. n PROVE g[k] = IF k = 0 THEN 0 ELSE 10 * g[k - 1] + digit(k)
  <2>1. CASE k = 0
    BY <1>11, <2>1
  <2>2. CASE k # 0
    <3>1. k \in 1 .. n /\ k - 1 \in 0 .. n
      BY <1>6, <2>2
    <3>2. g[k - 1] \in Nat
      BY <3>1
    <3>. QED
      BY <1>10, <1>11, <2>2, <3>1, <3>2
  <2>. QED
    BY <2>1, <2>2
<1>13. g = [k \in 0 .. n |-> IF k = 0 THEN 0 ELSE 10 * g[k - 1] + digit(k)]
  BY <1>12
<1>14. NumberOf = [k \in 0 .. n |-> IF k = 0 THEN 0 ELSE 10 * NumberOf[k - 1] + digit(k)]
  BY <1>13, Zenon DEF NumberOf, digit, n
<1> HIDE DEF n
<1> DEFINE N == {k \in 0 .. n : NumberOf[k] \in Nat}
<1>15. 0 \in N
  BY <1>6, <1>14
<1>16. ASSUME NEW k \in 0 .. n - 1, k \in N PROVE k + 1 \in N
  <2>1. k + 1 \in 1 .. n /\ (k + 1) - 1 = k /\ k + 1 \in 0 .. n /\ k + 1 # 0
    BY <1>6
  <2>2. NumberOf[k + 1] = 10 * NumberOf[k] + digit(k + 1)
    BY <1>14, <2>1
  <2>3. NumberOf[k] \in Nat /\ digit(k + 1) \in Nat
    BY <1>8, <1>16, <2>1
  <2>. QED
    BY <2>1, <2>2, <2>3
<1> HIDE DEF N
<1>17. n \in N
  <2>1. 0 .. n \subseteq N
    BY <1>6, <1>15, <1>16, BoundedInduction
  <2>. QED
    BY <1>6, <2>1
<1>18. NumberOf[n] \in Nat
  BY <1>17 DEF N
<1>. QED
  BY <1>5, <1>18 DEF n

-----------------------------------------------------------------------------
(* The invariant *)

PrintTypes ==
    /\ printPc \in {"text", "field", "return", "overrun"}
    /\ fmt \in Formats /\ fmtIndex \in Nat \ {0} /\ console \in BOOLEAN
    /\ Attr \in Attrs /\ RestoreAttr \in Attrs /\ plain \in BOOLEAN
    /\ item \in Items

\* A string has no attributes.
StringHasNone == ~console => Attr = 0 /\ RestoreAttr = 0 /\ attr0 = 0

\* Where the attribute printing started with is while a field may have another.
FirstAttribute ==
    plain /\ (console => attr0 # 0) =>
        /\ printPc \in {"text", "return"} => Attr = attr0
        /\ printPc = "field" => (RestoreAttr = 0 /\ Attr = attr0) \/ RestoreAttr = attr0

\* What was put: as the properties need it between two steps.
PutInv ==
    /\ RoomFor(Printed) /\ NewlinesIn(Printed) /\ Length = Len(Output)

PrintInv == PrintTypes /\ StringHasNone /\ FirstAttribute /\ PutInv

\* The same of a buffer and calls that a step has made.
Step(o, more) ==
    /\ RoomFor(o) /\ NewlinesIn(o) /\ Len(OutputOf(o)) = Len(Output) + more
    /\ printBuffer' = o.buffer /\ calls' = o.calls /\ Length' = Length + more

LEMMA InputIs ==
    /\ \A s \in Formats \cup Strings : s \in Seq(Chars)
    /\ \A s \in Formats : Len(s) \in Nat
<1>1. ASSUME NEW s \in Formats \cup Strings PROVE s \in Seq(Chars)
  <2>1. s \in Seq(ToSet(s)) /\ ToSet(s) \subseteq Chars
    BY PrintEngineAssumption DEF Chars
  <2>2. s \in [1 .. Len(s) -> ToSet(s)] /\ Len(s) \in Nat
    BY <2>1, LenProperties
  <2>3. s \in [1 .. Len(s) -> Chars]
    BY <2>1, <2>2
  <2>. QED
    BY <2>2, <2>3, FunctionIsSeq
<1>. QED
  BY <1>1, LenProperties

LEMMA CharIs ==
    ASSUME PrintTypes, Char # "NUL"
    PROVE  Char \in Chars
<1>1. fmtIndex <= Len(fmt) /\ Char = fmt[fmtIndex]
  BY DEF Char
<1>2. fmt \in Seq(Chars) /\ Len(fmt) \in Nat /\ fmtIndex \in Nat \ {0}
  BY InputIs DEF PrintTypes
<1>3. fmtIndex \in 1 .. Len(fmt)
  BY <1>1, <1>2
<1>. QED
  BY <1>1, <1>2, <1>3, ElementOfSeq

\* The step's buffer and calls are the next state's.
LEMMA StepIs ==
    ASSUME PrintInv, NEW o, NEW more \in Nat, Step(o, more),
           (Attr' = Attr \/ o.buffer = <<>>)
    PROVE  PutInv'
<1>1. /\ o \in Outs /\ o = [buffer |-> o.buffer, calls |-> o.calls]
      /\ o.buffer \in Seq(Cells)
  BY DEF Step, RoomFor, FitsOut, Outs
<1>2. Printed' = o
  BY <1>1 DEF Step, Printed
<1>3. Output' = OutputOf(o)
  BY DEF Output, OutputOf, Step
<1>4. /\ Len(o.buffer) < PRINT_STRING_LEN - 1
      /\ \A j \in 1 .. Len(o.buffer) : o.buffer[j][2] = Attr
      /\ \A i \in 1 .. Len(o.calls) :
           /\ Len(o.calls[i].text) < PRINT_STRING_LEN
           /\ \A j \in 1 .. Len(o.calls[i].text) : o.calls[i].text[j][2] = o.calls[i].attr
  BY DEF Step, RoomFor, FitsOut
<1>5. \A j \in 1 .. Len(o.buffer) : o.buffer[j][2] = Attr'
  <2>1. CASE Attr' = Attr
    BY <1>4, <2>1
  <2>2. CASE o.buffer = <<>>
    <3>1. Len(o.buffer) = 0 /\ \A j : j \notin 1 .. 0
      BY <2>2, EmptySeq
    <3>. QED
      BY <3>1
  <2>. QED
    BY <2>1, <2>2
<1>6. RoomFor(Printed)'
  BY <1>1, <1>2, <1>4, <1>5 DEF RoomFor, FitsOut
<1>7. NewlinesIn(Printed)'
  BY <1>2 DEF NewlinesIn, OutputOf, Step
<1>8. Length' = Len(Output')
  BY <1>3 DEF Step, PrintInv, PutInv
<1>. QED
  BY <1>6, <1>7, <1>8 DEF PutInv

LEMMA SameStep ==
    ASSUME PrintInv
    PROVE  /\ UNCHANGED <<printBuffer, calls, Length, Attr>> => PutInv'
<1> SUFFICES ASSUME UNCHANGED <<printBuffer, calls, Length, Attr>> PROVE PutInv'
  OBVIOUS
<1>1. Len(Output) \in Nat /\ RoomFor(Printed)
  <2>1. Printed \in Outs /\ RoomFor(Printed)
    BY DEF PrintInv, PutInv, RoomFor, FitsOut
  <2>. QED
    BY <2>1, TextsAre, PrintedIs, LenProperties
<1>2. Length = Len(Output)
  BY DEF PrintInv, PutInv
<1>3. Step(Printed, 0)
  BY <1>1, <1>2, PrintedIs DEF Step, PrintInv, PutInv
<1>. QED
  BY <1>3, StepIs

LEMMA FlushStep ==
    ASSUME PrintInv, printBuffer' = PFLUSH(Printed).buffer, calls' = PFLUSH(Printed).calls,
           Length' = Length
    PROVE  PutInv'
<1>1. RoomFor(Printed) /\ NewlinesIn(Printed) /\ Length = Len(Output) /\ Attr \in Attrs
  BY DEF PrintInv, PutInv, PrintTypes
<1>2. FitsOut(Printed, PRINT_STRING_LEN)
  <2>1. Len(Printed.buffer) \in Nat
    BY <1>1, LenProperties DEF RoomFor, FitsOut, Outs
  <2>. QED
    BY <1>1, <2>1, PrintEngineAssumption DEF RoomFor, FitsOut
<1>3. /\ RoomFor(PFLUSH(Printed)) /\ OutputOf(PFLUSH(Printed)) = OutputOf(Printed)
      /\ PFLUSH(Printed).buffer = <<>>
  BY <1>1, <1>2, FlushIs
<1>4. Len(Output) \in Nat
  <2>1. Printed \in Outs
    BY <1>1 DEF RoomFor, FitsOut
  <2>. QED
    BY <2>1, TextsAre, PrintedIs, LenProperties
<1>5. NewlinesIn(PFLUSH(Printed))
  BY <1>1, <1>3 DEF NewlinesIn
<1>6. Step(PFLUSH(Printed), 0)
  BY <1>1, <1>3, <1>4, <1>5, PrintedIs DEF Step
<1>. QED
  BY <1>3, <1>6, StepIs

\* What an item puts, flushed if the attribute goes back.
LEMMA PutStep ==
    ASSUME PrintInv, NEW s \in Seq(Chars), Length' = Length + Len(ExpandAll(s)),
           \/ /\ printBuffer' = PutAll(s).buffer /\ calls' = PutAll(s).calls /\ Attr' = Attr
           \/ /\ printBuffer' = PFLUSH(PutAll(s)).buffer /\ calls' = PFLUSH(PutAll(s)).calls
    PROVE  PutInv'
<1>1. RoomFor(Printed) /\ NewlinesIn(Printed) /\ Attr \in Attrs
  BY DEF PrintInv, PutInv, PrintTypes
<1>2. /\ RoomFor(PutAll(s)) /\ NewlinesIn(PutAll(s))
      /\ Len(OutputOf(PutAll(s))) = Len(Output) + Len(ExpandAll(s))
  BY <1>1, PutAllIs
<1>3. Len(ExpandAll(s)) \in Nat
  BY ExpandAllIs, LenProperties
<1>4. CASE printBuffer' = PutAll(s).buffer /\ calls' = PutAll(s).calls /\ Attr' = Attr
  <2>1. Step(PutAll(s), Len(ExpandAll(s)))
    BY <1>2, <1>4 DEF Step
  <2>. QED
    BY <1>3, <1>4, <2>1, StepIs
<1>5. CASE printBuffer' = PFLUSH(PutAll(s)).buffer /\ calls' = PFLUSH(PutAll(s)).calls
  <2> DEFINE o == PutAll(s)
  <2>1. FitsOut(o, PRINT_STRING_LEN)
    <3>1. Len(o.buffer) \in Nat
      BY <1>2, LenProperties DEF RoomFor, FitsOut, Outs
    <3>2. RoomFor(o)
      BY <1>2
    <3> HIDE DEF o
    <3>. QED
      BY <3>1, <3>2, PrintEngineAssumption DEF RoomFor, FitsOut
  <2>2. RoomFor(PFLUSH(o)) /\ OutputOf(PFLUSH(o)) = OutputOf(o) /\ PFLUSH(o).buffer = <<>>
    BY <1>1, <2>1, FlushIs
  <2>3. NewlinesIn(PFLUSH(o))
    BY <1>2, <2>2 DEF NewlinesIn
  <2>4. Step(PFLUSH(o), Len(ExpandAll(s)))
    BY <1>2, <1>5, <2>2, <2>3 DEF Step
  <2>. QED
    BY <1>3, <2>2, <2>4, StepIs
<1>. QED
  BY <1>4, <1>5

LEMMA PrintInvInit == PrintInit => PrintInv
<1> SUFFICES ASSUME PrintInit PROVE PrintInv
  OBVIOUS
<1>1. /\ console \in BOOLEAN /\ Attr \in ConsoleAttrs \cup {0} /\ fmt \in Formats
      /\ fmtIndex = 1 /\ printPc = "text" /\ RestoreAttr = 0 /\ attr0 = Attr
      /\ printBuffer = <<>> /\ calls = <<>> /\ Length = 0 /\ item = NewItem /\ plain = TRUE
      /\ (~console => Attr = 0)
  BY DEF PrintInit, _IPrint, StringSink
<1>2. NewItem \in Items
  BY DEF NewItem, Items
<1>3. PrintTypes
  BY <1>1, <1>2 DEF PrintTypes, Attrs
<1>4. StringHasNone /\ FirstAttribute
  BY <1>1 DEF StringHasNone, FirstAttribute
<1>5. Printed \in Outs /\ Len(printBuffer) = 0 /\ Len(calls) = 0
  <2>1. /\ <<>> \in Seq(Cells) /\ <<>> \in Seq([text : Seq(Cells), attr : Attrs])
        /\ Len(<<>>) = 0
    BY EmptySeq
  <2>. QED
    BY <1>1, <2>1 DEF Printed, Outs
<1>6. RoomFor(Printed)
  <2>1. PRINT_STRING_LEN - 1 > 0 /\ \A j : j \notin 1 .. 0
    BY PrintEngineAssumption
  <2>. QED
    BY <1>5, <2>1, PrintedIs DEF RoomFor, FitsOut
<1>7. Len(Output) = 0
  <2> DEFINE tt == [i \in DOMAIN calls |-> calls[i].text]
  <2>1. tt \in Seq(Seq(Cells)) /\ Len(tt) = 0
    BY <1>5, PrintedIs, TextsAre
  <2>2. FlattenSeq(tt) = tt
    BY <2>1 DEF FlattenSeq
  <2>3. Output = tt \o printBuffer
    BY <2>2 DEF Output
  <2> HIDE DEF tt
  <2>4. tt = <<>>
    BY <2>1, EmptySeq
  <2>5. <<>> \in Seq(Cells) /\ Len(<<>>) = 0
    BY EmptySeq
  <2>. QED
    BY <1>1, <2>3, <2>4, <2>5, ConcatEmptySeq
<1>8. NewlinesIn(Printed)
  <2>1. \A j : j \notin 1 .. 0
    OBVIOUS
  <2>. QED
    BY <1>7, <2>1, PrintedIs DEF NewlinesIn
<1>9. PutInv
  BY <1>1, <1>6, <1>7, <1>8 DEF PutInv
<1>. QED
  BY <1>3, <1>4, <1>9 DEF PrintInv

LEMMA PGETCIs == PrintTypes /\ PGETC => fmtIndex' \in Nat \ {0}
BY DEF PrintTypes, PGETC

LEMMA PutTextKeeps == PrintInv /\ PutText => PrintInv'
<1> SUFFICES ASSUME PrintInv, PutText PROVE PrintInv'
  OBVIOUS
<1>1. /\ printPc = "text" /\ Char # "NUL" /\ PGETC /\ PPUTC(<<Char>>)
      /\ UNCHANGED <<printPc, fmt, console, Attr, RestoreAttr, attr0, item, printArgs, plain>>
  BY DEF PutText
<1>2. PrintTypes /\ StringHasNone /\ FirstAttribute
  BY DEF PrintInv
<1>3. <<Char>> \in Seq(Chars)
  BY <1>1, <1>2, CharIs
<1>4. /\ printBuffer' = PutAll(<<Char>>).buffer /\ calls' = PutAll(<<Char>>).calls
      /\ Length' = Length + Len(ExpandAll(<<Char>>))
  BY <1>1 DEF PPUTC
<1>5. PutInv'
  BY <1>1, <1>3, <1>4, PutStep
<1>6. PrintTypes'
  BY <1>1, <1>2, PGETCIs DEF PrintTypes
<1>7. StringHasNone' /\ FirstAttribute'
  BY <1>1, <1>2 DEF StringHasNone, FirstAttribute
<1>. QED
  BY <1>5, <1>6, <1>7 DEF PrintInv

LEMMA StartFieldKeeps == PrintInv /\ StartField => PrintInv'
<1> SUFFICES ASSUME PrintInv, StartField PROVE PrintInv'
  OBVIOUS
<1>1. /\ printPc = "text" /\ PGETC /\ item' = NewItem /\ RestoreAttr' = 0 /\ printPc' = "field"
      /\ UNCHANGED <<fmt, console, Attr, attr0, printBuffer, calls, Length, printArgs, plain>>
  BY DEF StartField
<1>2. PrintTypes /\ StringHasNone /\ FirstAttribute
  BY DEF PrintInv
<1>3. NewItem \in Items /\ 0 \in Attrs
  BY DEF NewItem, Items, Attrs
<1>4. PrintTypes'
  BY <1>1, <1>2, <1>3, PGETCIs DEF PrintTypes
<1>5. StringHasNone' /\ FirstAttribute'
  BY <1>1, <1>2 DEF StringHasNone, FirstAttribute
<1>6. PutInv'
  BY <1>1, SameStep
<1>. QED
  BY <1>4, <1>5, <1>6 DEF PrintInv

LEMMA EndOfFormatKeeps == PrintInv /\ EndOfFormat => PrintInv'
<1> SUFFICES ASSUME PrintInv, EndOfFormat PROVE PrintInv'
  OBVIOUS
<1>1. /\ printPc = "text" /\ PGETC /\ printPc' = "return"
      /\ printBuffer' = PFLUSH(Printed).buffer /\ calls' = PFLUSH(Printed).calls
      /\ UNCHANGED <<fmt, console, Attr, RestoreAttr, attr0, Length, item, printArgs, plain>>
  BY DEF EndOfFormat
<1>2. PrintTypes /\ StringHasNone /\ FirstAttribute
  BY DEF PrintInv
<1>3. PrintTypes'
  BY <1>1, <1>2, PGETCIs DEF PrintTypes
<1>4. StringHasNone' /\ FirstAttribute'
  BY <1>1, <1>2 DEF StringHasNone, FirstAttribute
<1>5. PutInv'
  BY <1>1, FlushStep
<1>. QED
  BY <1>3, <1>4, <1>5 DEF PrintInv

\* A directive that changes the item only.
LEMMA ItemStep ==
    ASSUME PrintInv, printPc' = printPc, fmtIndex' \in Nat \ {0}, item' \in Items,
           UNCHANGED <<fmt, console, Attr, RestoreAttr, attr0, printBuffer, calls, Length, plain>>
    PROVE  PrintInv'
<1>2. PrintTypes /\ StringHasNone /\ FirstAttribute
  BY DEF PrintInv
<1>3. PrintTypes'
  BY <1>2 DEF PrintTypes
<1>4. StringHasNone' /\ FirstAttribute'
  BY <1>2 DEF StringHasNone, FirstAttribute
<1>5. PutInv'
  BY SameStep
<1>. QED
  BY <1>3, <1>4, <1>5 DEF PrintInv

\* A number goes to the width or the field width.
LEMMA WidthIs ==
    ASSUME item \in Items, NEW w \in Nat
    PROVE  [item EXCEPT ![item.WidthParse] = w] \in Items
<1>1. item.WidthParse \in {"Width", "FieldWidth"}
  BY DEF Items
<1>2. CASE item.WidthParse = "Width"
  <2>1. [item EXCEPT ![item.WidthParse] = w] = [item EXCEPT !.Width = w]
    BY <1>2
  <2>. QED
    BY <2>1 DEF Items
<1>3. CASE item.WidthParse = "FieldWidth"
  <2>1. [item EXCEPT ![item.WidthParse] = w] = [item EXCEPT !.FieldWidth = w]
    BY <1>3
  <2>. QED
    BY <2>1 DEF Items
<1>. QED
  BY <1>1, <1>2, <1>3

LEMMA FlagKeeps == PrintInv /\ Flag => PrintInv'
<1> SUFFICES ASSUME PrintInv, Flag PROVE PrintInv'
  OBVIOUS
<1>1. /\ PGETC
      /\ UNCHANGED <<printPc, fmt, console, Attr, RestoreAttr, attr0, printBuffer, calls,
                     Length, plain>>
      /\ \/ item' = [item EXCEPT !.Pad = "0"]
         \/ item' = [item EXCEPT !.PadBefore = FALSE]
         \/ item' = [item EXCEPT !.Long = TRUE]
         \/ item' = [item EXCEPT !.WidthParse = "FieldWidth"]
         \/ \E w \in Widths : item' = [item EXCEPT ![item.WidthParse] = w]
  BY DEF Flag
<1>2. PrintTypes /\ item \in Items
  BY DEF PrintInv, PrintTypes
<1>3. item' \in Items
  <2>1. CASE item' = [item EXCEPT !.Pad = "0"]
    BY <1>2, <2>1 DEF Items
  <2>2. CASE item' = [item EXCEPT !.PadBefore = FALSE]
    BY <1>2, <2>2 DEF Items
  <2>5. CASE item' = [item EXCEPT !.Long = TRUE]
    BY <1>2, <2>5 DEF Items
  <2>3. CASE item' = [item EXCEPT !.WidthParse = "FieldWidth"]
    BY <1>2, <2>3 DEF Items
  <2>4. ASSUME NEW w \in Widths, item' = [item EXCEPT ![item.WidthParse] = w]
        PROVE  item' \in Items
    <3>1. w \in Nat
      BY PrintEngineAssumption
    <3>. QED
      BY <1>2, <2>4, <3>1, WidthIs
  <2>. QED
    BY <1>1, <2>1, <2>2, <2>3, <2>4, <2>5
<1>. QED
  BY <1>1, <1>2, <1>3, PGETCIs, ItemStep

LEMMA NumberKeeps == PrintInv /\ Number => PrintInv'
<1> SUFFICES ASSUME PrintInv, Number PROVE PrintInv'
  OBVIOUS
<1>1. /\ Char \in DOMAIN DigitValue /\ fmtIndex' = LastDigit + 1
      /\ item' = [item EXCEPT ![item.WidthParse] = NumberOf[LastDigit - fmtIndex + 1]]
      /\ UNCHANGED <<printPc, fmt, console, Attr, RestoreAttr, attr0, printBuffer, calls,
                     Length, plain>>
  BY DEF Number
<1>2. fmtIndex \in Nat \ {0} /\ item \in Items /\ Len(fmt) \in Nat
  BY InputIs DEF PrintInv, PrintTypes
<1>3. LastDigit \in Nat /\ NumberOf[LastDigit - fmtIndex + 1] \in Nat
  BY <1>1, <1>2, NumberIs
<1>4. item' \in Items
  BY <1>1, <1>2, <1>3, WidthIs
<1>. QED
  BY <1>1, <1>3, <1>4, ItemStep

\* At the end of a field the first attribute is back.
LEMMA FieldEnds ==
    ASSUME PrintInv, NEW o, RestoreField(o), printPc = "field",
           UNCHANGED <<console, attr0, plain>>
    PROVE  /\ StringHasNone' /\ Attr' \in Attrs /\ RestoreAttr' \in Attrs
           /\ plain /\ (console => attr0 # 0) => Attr' = attr0
           /\ \/ printBuffer' = PFLUSH(o).buffer /\ calls' = PFLUSH(o).calls
              \/ printBuffer' = o.buffer /\ calls' = o.calls /\ Attr' = Attr
<1>1. PrintTypes /\ StringHasNone /\ FirstAttribute
  BY DEF PrintInv
<1>2. CASE RestoreAttr # 0
  <2>1. Attr' = RestoreAttr /\ RestoreAttr' = Attr
        /\ printBuffer' = PFLUSH(o).buffer /\ calls' = PFLUSH(o).calls
    BY <1>2 DEF RestoreField, Restored
  <2>. QED
    BY <1>1, <1>2, <2>1 DEF PrintTypes, StringHasNone, FirstAttribute
<1>3. CASE RestoreAttr = 0
  <2>1. UNCHANGED <<Attr, RestoreAttr>> /\ printBuffer' = o.buffer /\ calls' = o.calls
    BY <1>3 DEF RestoreField, Restored
  <2>. QED
    BY <1>1, <1>3, <2>1 DEF PrintTypes, StringHasNone, FirstAttribute
<1>. QED
  BY <1>2, <1>3

LEMMA ItemKeeps == PrintInv /\ Item => PrintInv'
<1> SUFFICES ASSUME PrintInv, Item PROVE PrintInv'
  OBVIOUS
<1>1. /\ printPc = "field" /\ PGETC /\ printPc' = "text"
      /\ UNCHANGED <<fmt, console, attr0, item, plain>>
  BY DEF Item
<1>2. PICK text \in Strings \cup {<<"%">>, <<"?">>} :
          /\ Length' = Length + Len(ExpandAll(PITEM(text)))
          /\ RestoreField(PutAll(PITEM(text)))
  BY DEF Item
<1>3. PrintTypes /\ item \in Items
  BY DEF PrintInv, PrintTypes
<1>4. text \in Seq(Chars)
  <2>1. "%" \in Chars /\ "?" \in Chars
    BY DEF Chars
  <2>2. <<"%">> \in Seq(Chars) /\ <<"?">> \in Seq(Chars)
    BY <2>1
  <2>. QED
    BY <2>2, InputIs
<1>5. PITEM(text) \in Seq(Chars)
  BY <1>3, <1>4, PITEMIs
<1>6. /\ StringHasNone' /\ Attr' \in Attrs /\ RestoreAttr' \in Attrs
      /\ plain /\ (console => attr0 # 0) => Attr' = attr0
      /\ \/ /\ printBuffer' = PFLUSH(PutAll(PITEM(text))).buffer
            /\ calls' = PFLUSH(PutAll(PITEM(text))).calls
         \/ /\ printBuffer' = PutAll(PITEM(text)).buffer
            /\ calls' = PutAll(PITEM(text)).calls /\ Attr' = Attr
  BY <1>1, <1>2, FieldEnds
<1>7. PutInv'
  BY <1>2, <1>5, <1>6, PutStep
<1>8. PrintTypes'
  BY <1>1, <1>3, <1>6, PGETCIs DEF PrintTypes
<1>9. FirstAttribute'
  BY <1>1, <1>6 DEF FirstAttribute
<1>. QED
  BY <1>6, <1>7, <1>8, <1>9 DEF PrintInv

LEMMA UnfinishedFieldKeeps == PrintInv /\ UnfinishedField => PrintInv'
<1> SUFFICES ASSUME PrintInv, UnfinishedField PROVE PrintInv'
  OBVIOUS
<1>1. /\ printPc = "field" /\ PGETC /\ printPc' = "overrun" /\ RestoreField(Printed)
      /\ UNCHANGED <<fmt, console, attr0, Length, item, printArgs, plain>>
  BY DEF UnfinishedField
<1>2. PrintTypes
  BY DEF PrintInv
<1>3. /\ StringHasNone' /\ Attr' \in Attrs /\ RestoreAttr' \in Attrs
      /\ \/ printBuffer' = PFLUSH(Printed).buffer /\ calls' = PFLUSH(Printed).calls
         \/ printBuffer' = Printed.buffer /\ calls' = Printed.calls /\ Attr' = Attr
  BY <1>1, FieldEnds
<1>4. PutInv'
  <2>1. CASE printBuffer' = PFLUSH(Printed).buffer /\ calls' = PFLUSH(Printed).calls
    BY <1>1, <2>1, FlushStep
  <2>2. CASE printBuffer' = Printed.buffer /\ calls' = Printed.calls /\ Attr' = Attr
    BY <1>1, <2>2, PrintedIs, SameStep
  <2>. QED
    BY <1>3, <2>1, <2>2
<1>5. PrintTypes'
  BY <1>1, <1>2, <1>3, PGETCIs DEF PrintTypes
<1>6. FirstAttribute'
  BY <1>1 DEF FirstAttribute
<1>. QED
  BY <1>3, <1>4, <1>5, <1>6 DEF PrintInv

LEMMA PSETATTRIs ==
    ASSUME PrintInv, NEW new, PSETATTR(new), Length' = Length
    PROVE  PutInv' /\ Attr' = new
<1>1. printBuffer' = PFLUSH(Printed).buffer /\ calls' = PFLUSH(Printed).calls /\ Attr' = new
  BY DEF PSETATTR, Flushed
<1>. QED
  BY <1>1, FlushStep

LEMMA FieldAttributeKeeps == PrintInv /\ FieldAttribute => PrintInv'
<1> SUFFICES ASSUME PrintInv, FieldAttribute PROVE PrintInv'
  OBVIOUS
<1>1. /\ printPc = "field" /\ PGETC /\ RestoreAttr' = Attr
      /\ plain' = (plain /\ RestoreAttr = 0)
      /\ UNCHANGED <<printPc, fmt, console, attr0, Length, item, printArgs>>
  BY DEF FieldAttribute
<1>2. PICK new \in {AttrNorm, AttrHighlight, AttrError} : PSETATTR(new)
  BY DEF FieldAttribute
<1>3. PutInv' /\ Attr' = new
  BY <1>1, <1>2, PSETATTRIs
<1>4. new \in Attrs /\ (~console => new = 0)
  BY <1>2 DEF AttrNorm, AttrHighlight, AttrError, Attrs
<1>5. PrintTypes /\ StringHasNone /\ FirstAttribute
  BY DEF PrintInv
<1>6. PrintTypes'
  BY <1>1, <1>3, <1>4, <1>5, PGETCIs DEF PrintTypes
<1>7. StringHasNone'
  BY <1>1, <1>3, <1>4, <1>5 DEF StringHasNone
<1>8. FirstAttribute'
  <2>1. SUFFICES ASSUME plain', (console => attr0 # 0)
        PROVE  RestoreAttr' = attr0
    BY <1>1 DEF FirstAttribute
  <2>2. plain /\ RestoreAttr = 0
    BY <1>1, <2>1
  <2>3. Attr = attr0
    BY <1>1, <1>5, <2>1, <2>2 DEF FirstAttribute, StringHasNone
  <2>. QED
    BY <1>1, <2>3
<1>. QED
  BY <1>3, <1>6, <1>7, <1>8 DEF PrintInv

LEMMA NewAttributeKeeps == PrintInv /\ NewAttribute => PrintInv'
<1> SUFFICES ASSUME PrintInv, NewAttribute PROVE PrintInv'
  OBVIOUS
<1>1. /\ printPc = "field" /\ PGETC /\ UNCHANGED <<fmt, console, attr0, Length, item, printArgs>>
  BY DEF NewAttribute
<1>2. PICK new \in {AttrNorm, AttrHighlight, AttrError} :
          \/ /\ new # 0 /\ PSETATTR(new) /\ RestoreAttr' = 0 /\ printPc' = "text"
             /\ plain' = FALSE
          \/ UNCHANGED <<printPc, Attr, RestoreAttr, printBuffer, calls, plain>>
  BY DEF NewAttribute
<1>3. PrintTypes /\ StringHasNone /\ item \in Items
  BY DEF PrintInv, PrintTypes
<1>4. CASE /\ new # 0 /\ PSETATTR(new) /\ RestoreAttr' = 0 /\ printPc' = "text"
           /\ plain' = FALSE
  <2>1. PutInv' /\ Attr' = new
    BY <1>1, <1>4, PSETATTRIs
  <2>2. new \in Attrs /\ (~console => new = 0) /\ 0 \in Attrs
    BY <1>2 DEF AttrNorm, AttrHighlight, AttrError, Attrs
  <2>3. PrintTypes'
    BY <1>1, <1>3, <1>4, <2>1, <2>2, PGETCIs DEF PrintTypes
  <2>4. StringHasNone' /\ FirstAttribute'
    BY <1>1, <1>3, <1>4, <2>1, <2>2 DEF StringHasNone, FirstAttribute
  <2>. QED
    BY <2>1, <2>3, <2>4 DEF PrintInv
<1>5. CASE UNCHANGED <<printPc, Attr, RestoreAttr, printBuffer, calls, plain>>
  BY <1>1, <1>3, <1>5, PGETCIs, ItemStep
<1>. QED
  BY <1>2, <1>4, <1>5

LEMMA PrintInvKept == PrintInv /\ [PrintNext]_printVars => PrintInv'
<1> SUFFICES ASSUME PrintInv, [PrintNext]_printVars PROVE PrintInv'
  OBVIOUS
<1>1. CASE PrintNext
  BY <1>1, PutTextKeeps, StartFieldKeeps, EndOfFormatKeeps, FlagKeeps, NumberKeeps, ItemKeeps,
     UnfinishedFieldKeeps, FieldAttributeKeeps, NewAttributeKeeps DEF PrintNext
<1>2. CASE UNCHANGED printVars
  <2>1. printPc' = printPc /\ fmtIndex' \in Nat \ {0} /\ item' \in Items
        /\ UNCHANGED <<fmt, console, Attr, RestoreAttr, attr0, printBuffer, calls, Length, plain>>
    BY <1>2 DEF printVars, PrintInv, PrintTypes
  <2>. QED
    BY <2>1, ItemStep
<1>. QED
  BY <1>1, <1>2

-----------------------------------------------------------------------------
(* The theorems *)

LEMMA PrintInvOutput == PrintInv => OutputKept
<1> SUFFICES ASSUME PrintInv PROVE OutputKept
  OBVIOUS
<1>1. /\ Printed \in Outs /\ Len(printBuffer) < PRINT_STRING_LEN - 1
      /\ \A i \in 1 .. Len(calls) : Len(calls[i].text) < PRINT_STRING_LEN
  BY PrintedIs DEF PrintInv, PutInv, RoomFor, FitsOut
<1>2. /\ calls \in Seq([text : Seq(Cells), attr : Attrs]) /\ printBuffer \in Seq(Cells)
      /\ Output \in Seq(Cells)
  <2>1. Output \in Seq(Cells)
    BY <1>1, TextsAre, PrintedIs
  <2>. QED
    BY <1>1, <2>1 DEF Outs, Printed
<1>3. /\ DOMAIN calls = 1 .. Len(calls) /\ DOMAIN Output = 1 .. Len(Output)
      /\ Len(printBuffer) \in Nat
  BY <1>2, LenProperties
<1>4. TerminatorFits
  BY <1>1, <1>3, PrintEngineAssumption DEF TerminatorFits
<1>5. NewlinesReturn
  BY <1>3, PrintedIs DEF NewlinesReturn, PrintInv, PutInv, NewlinesIn
<1>. QED
  BY <1>4, <1>5 DEF OutputKept

LEMMA PrintInvAttributes == PrintInv => AttributesRight
<1> SUFFICES ASSUME PrintInv PROVE AttributesRight
  OBVIOUS
<1>1. /\ Printed \in Outs
      /\ \A j \in 1 .. Len(printBuffer) : printBuffer[j][2] = Attr
      /\ \A i \in 1 .. Len(calls) :
           \A j \in 1 .. Len(calls[i].text) : calls[i].text[j][2] = calls[i].attr
  BY PrintedIs DEF PrintInv, PutInv, RoomFor, FitsOut
<1>2. calls \in Seq([text : Seq(Cells), attr : Attrs]) /\ printBuffer \in Seq(Cells)
  BY <1>1 DEF Outs, Printed
<1>3. /\ DOMAIN calls = 1 .. Len(calls) /\ DOMAIN printBuffer = 1 .. Len(printBuffer)
      /\ \A i \in 1 .. Len(calls) : Len(calls[i].text) \in Nat
  <2>1. \A i \in 1 .. Len(calls) : calls[i] \in [text : Seq(Cells), attr : Attrs]
    BY <1>2, ElementOfSeq
  <2>2. \A i \in 1 .. Len(calls) : calls[i].text \in Seq(Cells)
    BY <2>1
  <2>. QED
    BY <1>2, <2>2, LenProperties
<1>4. ShownInItsAttribute
  <2>1. ASSUME NEW i \in DOMAIN calls, NEW j \in 1 .. PRINT_STRING_LEN,
               j <= Len(calls[i].text)
        PROVE  calls[i].text[j][2] = calls[i].attr
    <3>1. i \in 1 .. Len(calls) /\ Len(calls[i].text) \in Nat
      BY <1>3
    <3>2. j \in 1 .. Len(calls[i].text)
      BY <2>1, <3>1
    <3>. QED
      BY <1>1, <3>1, <3>2
  <2>. QED
    BY <1>1, <1>3, <2>1 DEF ShownInItsAttribute
<1>5. AttributeOfField
  BY DEF AttributeOfField, PrintInv, FirstAttribute
<1>. QED
  BY <1>4, <1>5 DEF AttributesRight

\* print.c 905-956: for every format, buffer and console, every string that is flushed
\* fits with its terminator, no character is lost, and no newline loses its return.
THEOREM PrintKeepsOutput == PrintSpec => []OutputKept
<1>1. PrintInit => PrintInv
  BY PrintInvInit
<1>2. PrintInv /\ [PrintNext]_printVars => PrintInv'
  BY PrintInvKept
<1>3. PrintInv => OutputKept
  BY PrintInvOutput
<1>. QED
  BY <1>1, <1>2, <1>3, PTL DEF PrintSpec

\* print.c 919-934, 1052-1069: for every format, buffer and console, every character is
\* shown in the attribute it was put in, and that of a field ends with the field.
THEOREM PrintKeepsAttributes == PrintSpec => []AttributesRight
<1>1. PrintInit => PrintInv
  BY PrintInvInit
<1>2. PrintInv /\ [PrintNext]_printVars => PrintInv'
  BY PrintInvKept
<1>3. PrintInv => AttributesRight
  BY PrintInvAttributes
<1>. QED
  BY <1>1, <1>2, <1>3, PTL DEF PrintSpec

\* The step that ends a field puts no less than its width.
LEMMA StepFills ==
    ASSUME PrintInv, PrintNext, printPc = "field", printPc' = "text", Char \notin {"N", "H", "E"}
    PROVE  Length' - Length >= Max({ItemWidth, item.FieldWidth})
<1>1. Item
  BY DEF PrintNext, PutText, StartField, EndOfFormat, Flag, Number, FieldAttribute, NewAttribute,
         UnfinishedField
<1>2. PICK text \in Strings \cup {<<"%">>, <<"?">>} :
          Length' = Length + Len(ExpandAll(PITEM(text)))
  BY <1>1 DEF Item
<1>3. text \in Seq(Chars) /\ item \in Items
  <2>1. "%" \in Chars /\ "?" \in Chars
    BY DEF Chars
  <2>2. <<"%">> \in Seq(Chars) /\ <<"?">> \in Seq(Chars)
    BY <2>1
  <2>. QED
    BY <2>2, InputIs DEF PrintInv, PrintTypes
<1>4. PITEM(text) \in Seq(Chars) /\ Len(PITEM(text)) >= Max({ItemWidth, item.FieldWidth})
      /\ Len(PITEM(text)) \in Nat
  BY <1>3, PITEMIs
<1>5. Len(ExpandAll(PITEM(text))) >= Len(PITEM(text)) /\ Len(ExpandAll(PITEM(text))) \in Nat
  BY <1>4, ExpandAllIs, LenProperties
<1>6. Length \in Nat
  <2>1. Printed \in Outs /\ Length = Len(Output)
    BY DEF PrintInv, PutInv, RoomFor, FitsOut
  <2>. QED
    BY <2>1, TextsAre, PrintedIs, LenProperties
<1>7. Max({ItemWidth, item.FieldWidth}) \in Int
  <2> DEFINE fw == item.FieldWidth
  <2>w. ItemWidth \in Nat
    BY <1>3 DEF Items, ItemWidth, FixedWidth
  <2>f. fw \in Nat \cup {-1}
    BY <1>3 DEF Items
  <2>2. ItemWidth \in Int /\ fw \in Nat \cup {-1}
    BY <2>w, <2>f
  <2> HIDE DEF fw
  <2>3. fw \in Int
    BY <2>2
  <2>1. ItemWidth \in Int /\ item.FieldWidth \in Int
    BY <2>2, <2>3 DEF fw
  <2>. QED
    BY <2>1, MaxIs
<1> DEFINE a == Len(ExpandAll(PITEM(text)))
<1> DEFINE b == Len(PITEM(text))
<1> DEFINE w == Max({ItemWidth, item.FieldWidth})
<1>8. a \in Nat /\ b \in Nat /\ w \in Int /\ a >= b /\ b >= w /\ Length' = Length + a
  BY <1>2, <1>4, <1>5, <1>7
<1> HIDE DEF a, b, w
<1>9. Length' - Length >= w
  BY <1>6, <1>8
<1>. QED
  BY <1>9 DEF w

\* print.c 974-1031, 1192-1203: for every format and argument, what a field puts is no
\* narrower than its width, which X fixes, and than its field width.
THEOREM PrintFillsFields == PrintSpec => FieldFilled
<1>1. PrintInit => PrintInv
  BY PrintInvInit
<1>2. PrintInv /\ [PrintNext]_printVars => PrintInv'
  BY PrintInvKept
<1>3. PrintInv /\ [PrintNext]_printVars =>
          [printPc = "field" /\ printPc' = "text" /\ Char \notin {"N", "H", "E"} =>
               Length' - Length >= Max({ItemWidth, item.FieldWidth})]_printVars
  BY StepFills
<1>. QED
  BY <1>1, <1>2, <1>3, PTL DEF PrintSpec, FieldFilled
=============================================================================
