----------------------------- MODULE PoolPrint -----------------------------
(***************************************************************************)
(* The string side of gnu-efi/lib/print.c: _SPrint and _PoolPrint append   *)
(* what _Print flushes to a string of fixed or growing size, for           *)
(* UnicodeVSPrint, AsciiVSPrint and VPoolPrint or a row of CatPrint calls. *)
(* The character printed as the n-th is the number n, 0 is the terminator, *)
(* -1 a character nobody has written.  An allocation may fail.             *)
(***************************************************************************)
EXTENDS Integers, Sequences, SequencesExt

CONSTANTS
    StrSizes,     \* the sizes a caller passes, in bytes
    FlushLen,     \* PRINT_STRING_LEN: more than a flush can have, the slack of the pool
    MaxPrinted,   \* bound: characters printed
    MaxPoolUINTN  \* the largest UINTN, out of reach of any string

ASSUME PoolPrintAssumption ==
    /\ StrSizes \subseteq Nat /\ FlushLen \in Nat \ {0} /\ MaxPrinted \in Nat
    /\ MaxPoolUINTN \in Nat /\ \A n \in StrSizes \cup {2 * MaxPrinted} : n < MaxPoolUINTN

VARIABLES
    poolPc,    \* "start", "print", "return"
    poolCaller, StrSize,
    str,       \* the characters of spc->str, NULL has none
    len, maxlen,
    printed,   \* characters _Print has flushed
    wild,      \* a character was written outside the string
    poolLive,  \* pool blocks allocated by the call
    Str        \* AsciiVSPrint: the caller's string

poolVars == <<poolPc, poolCaller, StrSize, str, len, maxlen, printed, wild, poolLive, Str>>

Unset(n) == [i \in 1 .. n |-> -1]

Start(f, string, size, max) ==
    /\ poolCaller = f /\ StrSize = size /\ str = Unset(string) /\ maxlen = max

\* StrSize / sizeof(CHAR16) - 1, in UINTN.
MaxLen(size) == (size \div 2 - 1) % (MaxPoolUINTN + 1)

\* A size of 0 says there is no limit: the caller's string is as long as need be.
UnicodeVSPrint(size) ==
    Start("UnicodeVSPrint", IF size = 0 THEN MaxPrinted + 1 ELSE size \div 2, size, MaxLen(size))

AsciiVSPrint(size) == Start("AsciiVSPrint", size, size, MaxLen(size))

VPoolPrint == Start("VPoolPrint", 0, 0, 0)

PoolOff ==
    /\ poolPc = "off" /\ VPoolPrint
    /\ len = 0 /\ printed = 0 /\ wild = FALSE /\ poolLive = 0 /\ Str = <<>>

PoolInit ==
    /\ \/ \E size \in StrSizes : UnicodeVSPrint(size) \/ AsciiVSPrint(size)
       \/ VPoolPrint
    /\ poolPc = "start" /\ len = 0 /\ printed = 0 /\ wild = FALSE /\ poolLive = 0 /\ Str = <<>>

\* AsciiVSPrint allocates UnicodeStr and the wide format, and frees the format.
Begin ==
    /\ poolPc = "start"
    /\ \/ poolPc' = "print" /\ poolLive' = (IF poolCaller = "AsciiVSPrint" THEN 1 ELSE 0) /\ UNCHANGED str
       \/ poolCaller = "AsciiVSPrint" /\ poolPc' = "return" /\ poolLive' = 0 /\ str' = <<>>
    /\ UNCHANGED <<poolCaller, StrSize, len, maxlen, printed, wild, Str>>

FlushedText(n) == [i \in 1 .. n |-> printed + i]

\* s with t written from character at on; what is outside of s is lost.
Written(s, at, t) ==
    [i \in DOMAIN s |-> IF i - at \in DOMAIN t THEN t[i - at] ELSE s[i]]

\* How much of n more characters is taken.
Taken(l, max, n) == IF l + n > max THEN max - l ELSE n

\* _SPrint on a string s of length l with n characters.
_SPrint(s, l, max, n) ==
    LET end == l + Taken(l, max, n)
        at == IF end < max THEN end ELSE max
        text == Written(s, l, SubSeq(FlushedText(n), 1, end - l))
    IN  /\ len' = end
        /\ str' = IF max = 0 THEN text ELSE Written(text, at, <<0>>)
        /\ wild' = (wild \/ (IF max = 0 THEN end ELSE at + 1) > Len(s))
        /\ printed' = printed + n

\* newlen: room for the text and the terminator.
NewLenOfText(n) == n + 1
NewLen(n) == len + n + 1

\* The string that is grown: the pool's contents move to the new block.
GrownEmpty(s, size) == Unset(size)
Grown(s, size) == Written(Unset(size), 0, SubSeq(s, 1, len))

SPrint(n) ==
    /\ poolCaller # "VPoolPrint"
    /\ _SPrint(str, len, maxlen, n) /\ UNCHANGED <<maxlen, poolLive>>

PoolFits(n) ==
    /\ poolCaller = "VPoolPrint" /\ NewLen(n) <= maxlen
    /\ _SPrint(str, len, maxlen, n) /\ UNCHANGED <<maxlen, poolLive>>

PoolGrows(n) ==
    /\ poolCaller = "VPoolPrint" /\ NewLen(n) > maxlen
    /\ LET size == NewLen(n) + FlushLen
       IN  _SPrint(Grown(str, size), len, size, n) /\ maxlen' = size
    /\ poolLive' = 1

\* ReallocatePool has freed the old block: the text so far is lost.
PoolFails(n) ==
    /\ poolCaller = "VPoolPrint" /\ NewLen(n) > maxlen
    /\ _SPrint(<<>>, 0, 0, n) /\ maxlen' = 0 /\ poolLive' = 0

\* What the program does after a write outside its memory is not modelled.
Flush ==
    /\ poolPc = "print" /\ ~wild
    /\ \E n \in 0 .. FlushLen - 1 :
         /\ printed + n <= MaxPrinted
         /\ SPrint(n) \/ PoolFits(n) \/ PoolGrows(n) \/ PoolFails(n)
    /\ UNCHANGED <<poolPc, poolCaller, StrSize, Str>>

\* for (i = 0; i < Len; i++) Str[i] = ...; Str[Len] = 0; FreePool (UnicodeStr)
FinishPrint ==
    /\ poolPc = "print" /\ ~wild /\ poolPc' = "return"
    /\ IF poolCaller = "AsciiVSPrint"
       THEN Str' = Append(SubSeq(str, 1, len), 0) /\ poolLive' = 0
       ELSE UNCHANGED <<Str, poolLive>>
    /\ UNCHANGED <<poolCaller, StrSize, str, len, maxlen, printed, wild>>

PoolNext == Begin \/ Flush \/ FinishPrint

PoolSpec == PoolInit /\ [][PoolNext]_poolVars

-----------------------------------------------------------------------------
Contents == SubSeq(str, 1, len)

\* A caller's size that the doc calls a limit, and that has room for a character.
Limited == StrSize >= 4

\* print.c 341-352: after every flush the string ends at len.
TerminatedAtLength ==
    (poolCaller = "VPoolPrint" \/ Limited) /\ printed > 0 /\ str # <<>>
        => len < Len(str) /\ str[len + 1] = 0

\* print.c 459: the size is a limit and wraps to none.  The doc (442-443) says so of 0,
\* for which AsciiVSPrint allocates no character, and of no other size.
LimitWraps ==
    \/ poolCaller = "UnicodeVSPrint" /\ StrSize = 1
    \/ poolCaller = "AsciiVSPrint" /\ StrSize < 2

\* print.c 341-352, 376-391: however the pool grows and fails, and whatever the size, a
\* character is written outside the string only where the limit has wrapped; and the
\* terminator is never lost.
WritesInBounds ==
    /\ wild => LimitWraps
    /\ TerminatedAtLength

\* A truncated string is the beginning of the text, and as long as fits.
BeginningOfText ==
    poolCaller # "VPoolPrint" /\ poolPc # "start" =>
        /\ len = (IF printed > maxlen THEN maxlen ELSE printed)
        /\ ~wild => Contents = [i \in 1 .. len |-> i]

\* Whatever fails, what a pool string holds is the end of the text without a gap,
\* and there is a block exactly if there is a string.
EndOfText ==
    poolCaller = "VPoolPrint" =>
        /\ Contents = [i \in 1 .. len |-> printed - len + i]
        /\ poolLive = (IF str = <<>> THEN 0 ELSE 1)

\* print.c 331-352, 371-391: what is kept of the text is its beginning, cut at the size
\* of the caller, or its end, from the last failure of the pool on.
KeepsText == BeginningOfText /\ EndOfText
=============================================================================
