----------------------------- MODULE HexString -----------------------------
(***************************************************************************)
(* num_digits and to_hex_str of bootloader_tty.h.  The integers wrap       *)
(* around at WordSize; the radix of to_hex_str is HEX.  (2^64 and 16 in    *)
(* the code, small ones for TLC, so that every number is tried.)  A digit  *)
(* is its value, NUL the terminator, Unwritten a byte nobody has written.  *)
(***************************************************************************)
EXTENDS Integers

CONSTANTS
    WordSize, HEX,
    Bases,   \* the bases num_digits is called with
    MaxSize  \* bound: the size of the caller's buffer

ASSUME HexStringAssumption ==
    /\ WordSize \in Nat \ {0} /\ HEX \in Nat \ {0, 1}
    /\ Bases \subseteq Nat \ {0, 1} /\ MaxSize \in Nat

VARIABLES
    hexPc,                          \* "num_digits", "to_hex_str", "digit", "return"
    number, base,                   \* the arguments, and
    hexSize,                        \* that of to_hex_str
    digits, power,                  \* num_digits
    hexN, hexIndex, hexBuf, hexRet  \* to_hex_str

hexVars == <<hexPc, number, base, hexSize, digits, power, hexN, hexIndex, hexBuf, hexRet>>

Word == 0 .. WordSize - 1

NUL == -1
Unwritten == -2

HexOff ==
    /\ hexPc = "off" /\ number = 0 /\ base = HEX /\ hexSize = 0 /\ digits = 1
    /\ power = 1 /\ hexN = 0 /\ hexIndex = 0 /\ hexBuf = <<>> /\ hexRet = 0

HexInit ==
    /\ hexPc = "num_digits"
    /\ number \in Word /\ hexN = number
    /\ base \in Bases /\ hexSize \in 1 .. MaxSize
    /\ digits = 1 /\ power = 1 /\ hexIndex = 0
    /\ hexBuf = [k \in 0 .. hexSize - 1 |-> Unwritten] /\ hexRet = 0

AnotherDigit == number \div power >= base

num_digits ==
    /\ hexPc = "num_digits"
    /\ \/ /\ AnotherDigit
          /\ digits' = digits + 1 /\ power' = (power * base) % WordSize
          /\ UNCHANGED <<hexPc, hexIndex>>
       \/ /\ ~AnotherDigit /\ hexPc' = "to_hex_str"
          /\ hexIndex' = digits - 1 /\ UNCHANGED <<digits, power>>
    /\ UNCHANGED <<number, base, hexSize, hexN, hexBuf, hexRet>>

\* One place for the terminator.
TooSmallWithoutTerminator == hexSize < digits
TooSmallForHex == hexSize < digits + 1

to_hex_str ==
    /\ hexPc = "to_hex_str" /\ base = HEX
    /\ \/ TooSmallForHex /\ hexPc' = "return" /\ hexRet' = -1
       \/ ~TooSmallForHex /\ hexPc' = "digit" /\ UNCHANGED hexRet
    /\ UNCHANGED <<number, base, hexSize, digits, power, hexN, hexIndex, hexBuf>>

\* buf[i--]; the last one wraps i, which is not used again.
PutDigit ==
    /\ hexPc = "digit" /\ hexN > 0 /\ hexIndex \in DOMAIN hexBuf
    /\ hexBuf' = [hexBuf EXCEPT ![hexIndex] = hexN % HEX]
    /\ hexIndex' = (hexIndex - 1) % WordSize
    /\ hexN' = hexN \div HEX
    /\ UNCHANGED <<hexPc, number, base, hexSize, digits, power, hexRet>>

TerminateHex ==
    /\ hexPc = "digit" /\ hexN = 0
    /\ hexBuf' = [hexBuf EXCEPT ![hexSize - 1] = NUL]
    /\ hexPc' = "return" /\ hexRet' = 1
    /\ UNCHANGED <<number, base, hexSize, digits, power, hexN, hexIndex>>

HexNext == num_digits \/ to_hex_str \/ PutDigit \/ TerminateHex

HexSpec == HexInit /\ [][HexNext]_hexVars

-----------------------------------------------------------------------------
\* base to the power k; no number has more digits than its value and one.
BasePower[k \in 0 .. number + 1] == IF k = 0 THEN 1 ELSE BasePower[k - 1] * base

\* bootloader_tty.h 141: the power never wraps on the way, for any base, and
\* the result is the number of digits of the number in that base.
DigitsCounted ==
    hexPc \notin {"num_digits", "off"} =>
        /\ number < BasePower[digits]
        /\ digits > 1 => BasePower[digits - 1] <= number

\* The number that k digits from the front of the buffer stand for.
ValueOf[k \in 0 .. digits] == IF k = 0 THEN 0 ELSE ValueOf[k - 1] * HEX + hexBuf[k - 1]

\* bootloader_tty.h 154: with the digits counted right none lies outside the buffer,
\* those read from its start stand for the number, the terminator does not overwrite
\* one, and a call that fails writes nothing.
DigitsWritten ==
    /\ DigitsCounted
    /\ hexPc = "digit" /\ hexN > 0 => hexIndex \in DOMAIN hexBuf
    /\ hexPc = "return" /\ hexRet = 1 /\ number > 0 =>
         (\A j \in 0 .. digits - 1 : hexBuf[j] \in 0 .. HEX - 1) /\ ValueOf[digits] = number
    /\ hexPc = "return" /\ hexRet = -1 => \A j \in DOMAIN hexBuf : hexBuf[j] = Unwritten
=============================================================================
