---------------------------- MODULE PrintEngine ----------------------------
(***************************************************************************)
(* _Print of gnu-efi/lib/print.c with PFLUSH, PSETATTR, PPUTC, PGETC and   *)
(* PITEM: a format is parsed one character at a time and what it prints    *)
(* is collected in a buffer that is flushed to a console (started by       *)
(* _IPrint) or to a string (_SPrint, which has no attributes).  A          *)
(* conversion is one character of the alphabet: what it prints is any of   *)
(* a few texts.                                                            *)
(***************************************************************************)
EXTENDS Integers, Sequences, SequencesExt, FiniteSetsExt

CONSTANTS
    Formats,           \* the format strings, without their terminator
    Strings,           \* what an argument may print as
    Widths,            \* what an argument may be for `*'
    PRINT_STRING_LEN,  \* characters in the buffer
    ConsoleAttrs       \* Out->Mode->Attribute when printing starts

ASSUME PrintEngineAssumption ==
    /\ PRINT_STRING_LEN \in Nat \ {0, 1} /\ Widths \subseteq Nat
    /\ \A s \in Formats \cup Strings : s \in Seq(ToSet(s))

VARIABLES
    printPc,      \* "text", "field", "return", "overrun": past the end of fmt
    fmt, fmtIndex,
    console,      \* ps->SetAttr is there; console and string differ in nothing else
    Attr, RestoreAttr, attr0,
    printBuffer,  \* Buffer .. Pos: the characters with ps->Attr when they were put
    calls,        \* the calls of ps->Output: text and the console's attribute
    Length,       \* ps->Len
    item,         \* Item: FieldWidth (-1: none), Width, WidthParse, Pad, PadBefore, Long
    printArgs,    \* arguments taken
    plain         \* history: no attribute was set for longer than a field, no second for one

printVars == <<printPc, fmt, fmtIndex, console, Attr, RestoreAttr, attr0, printBuffer, calls, Length,
          item, printArgs, plain>>

AttrNorm == IF console THEN 7 ELSE 0
AttrHighlight == IF console THEN 15 ELSE 0
AttrError == IF console THEN 14 ELSE 0

NewItem == [FieldWidth |-> -1, Width |-> 0, WidthParse |-> "Width", Pad |-> " ",
            PadBefore |-> TRUE, Long |-> FALSE]

_IPrint == console /\ Attr \in ConsoleAttrs
StringSink == ~console /\ Attr = 0

PrintOff ==
    /\ printPc = "off" /\ console = TRUE /\ Attr = AttrNorm /\ fmt = <<>> /\ fmtIndex = 1
    /\ RestoreAttr = 0 /\ attr0 = Attr
    /\ printBuffer = <<>> /\ calls = <<>> /\ Length = 0 /\ item = NewItem /\ printArgs = 0
    /\ plain = TRUE

PrintInit ==
    /\ console \in BOOLEAN /\ Attr \in ConsoleAttrs \cup {0} /\ (_IPrint \/ StringSink)
    /\ fmt \in Formats /\ fmtIndex = 1 /\ printPc = "text"
    /\ RestoreAttr = 0 /\ attr0 = Attr
    /\ printBuffer = <<>> /\ calls = <<>> /\ Length = 0 /\ item = NewItem /\ printArgs = 0
    /\ plain = TRUE

\* ps->Pos >= ps->End, n characters from the start.
AtEndLate(n) == n > PRINT_STRING_LEN - 1
AtEnd(n) == n >= PRINT_STRING_LEN - 1

\* Buffer and calls, as one value.
Printed == [buffer |-> printBuffer, calls |-> calls]

PFLUSH(o) ==
    [buffer |-> <<>>, calls |-> Append(o.calls, [text |-> o.buffer, attr |-> Attr])]

PutOne(o, c) ==
    LET full == [o EXCEPT !.buffer = Append(@, <<c, Attr>>)]
    IN  IF AtEnd(Len(full.buffer)) THEN PFLUSH(full) ELSE full

\* What PPUTC puts in the buffer: a newline is preceded by a carriage return.
Expanded(c) == IF c = "\n" THEN <<"\r", c>> ELSE <<c>>

ExpandAll(s) == FlattenSeq([i \in DOMAIN s |-> Expanded(s[i])])

\* The buffer and the calls after each character of s.
Putting(s) ==
    LET put[k \in 0 .. Len(s)] == IF k = 0 THEN Printed ELSE PutOne(put[k - 1], s[k])
    IN  put

PutAll(s) == Putting(ExpandAll(s))[Len(ExpandAll(s))]

PPUTC(s) ==
    LET o == PutAll(s)
    IN  /\ printBuffer' = o.buffer /\ calls' = o.calls
        /\ Length' = Length + Len(ExpandAll(s))

NotFlushed(o) == o
Flushed(o) == PFLUSH(o)

PSETATTR(new) ==
    /\ printBuffer' = Flushed(Printed).buffer /\ calls' = Flushed(Printed).calls
    /\ Attr' = new

Char == IF fmtIndex <= Len(fmt) THEN fmt[fmtIndex] ELSE "NUL"
PGETC == fmtIndex' = fmtIndex + 1

\* An ordinary character, the start of a field, the end.
PutText ==
    /\ printPc = "text" /\ Char \notin {"NUL", "%"} /\ PGETC
    /\ PPUTC(<<Char>>)
    /\ UNCHANGED <<printPc, fmt, console, Attr, RestoreAttr, attr0, item, printArgs, plain>>

StartField ==
    /\ printPc = "text" /\ Char = "%" /\ PGETC
    /\ item' = NewItem /\ RestoreAttr' = 0 /\ printPc' = "field"
    /\ UNCHANGED <<fmt, console, Attr, attr0, printBuffer, calls, Length, printArgs, plain>>

EndOfFormat ==
    /\ printPc = "text" /\ Char = "NUL" /\ PGETC
    /\ printBuffer' = PFLUSH(Printed).buffer /\ calls' = PFLUSH(Printed).calls
    /\ printPc' = "return"
    /\ UNCHANGED <<fmt, console, Attr, RestoreAttr, attr0, Length, item, printArgs, plain>>

\* 0 - l . *
Flag ==
    /\ printPc = "field" /\ PGETC
    /\ \/ Char = "0" /\ item' = [item EXCEPT !.Pad = "0"] /\ UNCHANGED printArgs
       \/ Char = "-" /\ item' = [item EXCEPT !.PadBefore = FALSE] /\ UNCHANGED printArgs
       \/ Char = "l" /\ item' = [item EXCEPT !.Long = TRUE] /\ UNCHANGED printArgs
       \/ Char = "." /\ item' = [item EXCEPT !.WidthParse = "FieldWidth"] /\ UNCHANGED printArgs
       \/ /\ Char = "*" /\ printArgs' = printArgs + 1
          /\ \E w \in Widths : item' = [item EXCEPT ![item.WidthParse] = w]
    /\ UNCHANGED <<printPc, fmt, console, Attr, RestoreAttr, attr0, printBuffer, calls, Length,
                   plain>>

DigitValue == [c \in {"0", "1", "2", "3"} |-> CASE c = "0" -> 0 [] c = "1" -> 1
                                              [] c = "2" -> 2 [] c = "3" -> 3]

\* The whole number, without the character behind it.
LastDigit ==
    Max({i \in fmtIndex .. Len(fmt) : \A j \in fmtIndex .. i : fmt[j] \in DOMAIN DigitValue})

NumberOf[k \in 0 .. LastDigit - fmtIndex + 1] ==
    IF k = 0 THEN 0 ELSE 10 * NumberOf[k - 1] + DigitValue[fmt[fmtIndex + k - 1]]

Number ==
    /\ printPc = "field" /\ Char \in DOMAIN DigitValue \ {"0"}
    /\ fmtIndex' = LastDigit + 1
    /\ item' = [item EXCEPT ![item.WidthParse] = NumberOf[LastDigit - fmtIndex + 1]]
    /\ UNCHANGED <<printPc, fmt, console, Attr, RestoreAttr, attr0, printBuffer, calls, Length,
                   printArgs, plain>>

\* At the end of a field: the attribute its n, h or e has replaced.
Restored == RestoreAttr

RestoreField(o) ==
    IF Restored # 0
    THEN /\ Attr' = Restored /\ RestoreAttr' = Attr
         /\ printBuffer' = PFLUSH(o).buffer /\ calls' = PFLUSH(o).calls
    ELSE /\ UNCHANGED <<Attr, RestoreAttr>>
         /\ printBuffer' = o.buffer /\ calls' = o.calls

Fill(c, n) == [i \in 1 .. Max({n, 0}) |-> c]

\* X sets its width and its padding over what the format gave.
FixedWidth == IF item.Long THEN 16 ELSE 8
ItemWidth == IF Char = "X" THEN FixedWidth ELSE item.Width
ItemPad == IF Char = "X" THEN "0" ELSE item.Pad

\* How much of the text is shown, and the field PITEM puts.
Shown(text) ==
    IF item.FieldWidth = -1 THEN text
    ELSE SubSeq(text, 1, Min({Len(text), item.FieldWidth}))

PaddingOfText(n) == n
Padding(n) == Max({n, ItemWidth})

PITEM(text) ==
    LET n == Len(Shown(text))
        field == IF item.FieldWidth = -1 THEN n ELSE item.FieldWidth
        width == Padding(n)
        outer == Fill(" ", field - width)
    IN  (IF item.PadBefore THEN outer ELSE <<>>) \o Fill(ItemPad, width - n)
          \o Shown(text) \o (IF item.PadBefore THEN <<>> ELSE outer)

\* What a number may print as in hex: a digit at least, and no newline.
HexTexts == {s \in Strings : s # <<>> /\ "\n" \notin ToSet(s)}

\* %% and what is no conversion; c, s, a, x, d and the like, which take one; X.
Item ==
    /\ printPc = "field" /\ PGETC
    /\ \E text \in Strings \cup {<<"%">>, <<"?">>} :
         /\ \/ Char = "%" /\ text = <<"%">> /\ UNCHANGED printArgs
            \/ Char \in {"o", "\n"} /\ text = <<"?">> /\ UNCHANGED printArgs
            \/ Char = "s" /\ text \in Strings /\ printArgs' = printArgs + 1
            \/ Char = "X" /\ text \in HexTexts /\ printArgs' = printArgs + 1
         /\ Length' = Length + Len(ExpandAll(PITEM(text)))
         /\ RestoreField(PutAll(PITEM(text)))
    /\ printPc' = "text"
    /\ UNCHANGED <<fmt, console, attr0, item, plain>>

\* n h e: for this field, whose directives go on.
FieldAttribute ==
    /\ printPc = "field" /\ PGETC
    /\ \/ Char = "n" /\ PSETATTR(AttrNorm)
       \/ Char = "h" /\ PSETATTR(AttrHighlight)
       \/ Char = "e" /\ PSETATTR(AttrError)
    /\ RestoreAttr' = Attr /\ plain' = (plain /\ RestoreAttr = 0)
    /\ UNCHANGED <<printPc, fmt, console, attr0, Length, item, printArgs>>

\* N H E: from here on.  if (Attr): a string has none, and the field goes on.
NewAttribute ==
    /\ printPc = "field" /\ PGETC
    /\ \E new \in {AttrNorm, AttrHighlight, AttrError} :
         /\ \/ Char = "N" /\ new = AttrNorm
            \/ Char = "H" /\ new = AttrHighlight
            \/ Char = "E" /\ new = AttrError
         /\ \/ /\ new # 0 /\ PSETATTR(new) /\ RestoreAttr' = 0 /\ printPc' = "text"
               /\ plain' = FALSE
            \/ new = 0 /\ UNCHANGED <<printPc, Attr, RestoreAttr, printBuffer, calls, plain>>
    /\ UNCHANGED <<fmt, console, attr0, Length, item, printArgs>>

\* The terminator ends the field, and the outer loop reads what is behind it.
UnfinishedField ==
    /\ printPc = "field" /\ Char = "NUL" /\ PGETC
    /\ RestoreField(Printed)
    /\ printPc' = "overrun"
    /\ UNCHANGED <<fmt, console, attr0, Length, item, printArgs, plain>>

PrintNext ==
    \/ PutText \/ StartField \/ EndOfFormat \/ Flag \/ Number \/ Item
    \/ FieldAttribute \/ NewAttribute \/ UnfinishedField

PrintSpec == PrintInit /\ [][PrintNext]_printVars

-----------------------------------------------------------------------------
\* print.c 905-917: every string PFLUSH terminates fits the buffer with its NUL.
TerminatorFits ==
    /\ Len(printBuffer) < PRINT_STRING_LEN
    /\ \A i \in DOMAIN calls : Len(calls[i].text) < PRINT_STRING_LEN

\* print.c 919-934: no character is shown in an attribute that was set after it
\* was put, wherever the buffer filled up.
ShownInItsAttribute ==
    /\ \A i \in DOMAIN calls, j \in 1 .. PRINT_STRING_LEN :
         j <= Len(calls[i].text) => calls[i].text[j][2] = calls[i].attr
    /\ \A j \in DOMAIN printBuffer : printBuffer[j][2] = Attr

Output == FlattenSeq([i \in DOMAIN calls |-> calls[i].text]) \o printBuffer

\* print.c 936-956: every newline has its carriage return, also when the buffer
\* was flushed between the two, and ps->Len counts both.
NewlinesReturn ==
    /\ Length = Len(Output)
    /\ \A i \in DOMAIN Output : Output[i][1] = "\n" => i > 1 /\ Output[i - 1][1] = "\r"

\* print.c 905-956: every string PFLUSH terminates fits the buffer with its NUL, and
\* what the flushes put out is the text of all of them.
OutputKept == TerminatorFits /\ NewlinesReturn

\* print.c 1052-1054: an attribute "for this field only" is gone behind the field,
\* for a field that names one.  RestoreAttr = 0 says there is none, so on a console
\* that was black on black it stays.
AttributeOfField ==
    printPc \in {"text", "return"} /\ plain /\ (console => attr0 # 0) => Attr = attr0

\* print.c 919-934, 1052-1069: every character is shown in the attribute it was put in,
\* and that of a field ends with the field.
AttributesRight == ShownInItsAttribute /\ AttributeOfField

\* print.c 974-1031, 1192-1203: a field is no narrower than its width and than its field
\* width, however a text is cut, padded and put on either side; the width of X is 8
\* digits, of lX 16, whatever width the format gives.
FieldFilled ==
    [][printPc = "field" /\ printPc' = "text" /\ Char \notin {"N", "H", "E"} =>
        Length' - Length >= Max({ItemWidth, item.FieldWidth})]_printVars
=============================================================================
