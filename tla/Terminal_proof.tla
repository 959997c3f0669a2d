--------------------------- MODULE Terminal_proof ---------------------------
(***************************************************************************)
(* Theorems about Terminal, for every size of screen and character, every  *)
(* set of strings and any number of calls; and about BootScreen, for every *)
(* screen and every text of its assumption.                                *)
(***************************************************************************)
EXTENDS BootScreen, SequenceTheorems, ProofBasics, TLAPS

-----------------------------------------------------------------------------
(* Arithmetic *)

\* consoleWidth characters fit into the width, and at least one does.
LEMMA Columns ==
    ASSUME NEW s \in Screens
    PROVE  /\ s.width \in Nat /\ s.height \in Nat /\ s.pitch \in Nat \ {0}
           /\ s.width <= s.pitch
           /\ s.width \div CHARACTER_SIZE \in Nat \ {0}
           /\ CHARACTER_SIZE * (s.width \div CHARACTER_SIZE) <= s.width
           /\ s.height \div CHARACTER_SIZE \in Nat
           /\ CHARACTER_SIZE * (s.height \div CHARACTER_SIZE) <= s.height
<1>1. /\ s.width \in Nat /\ s.height \in Nat /\ s.pitch \in Nat
      /\ CHARACTER_SIZE <= s.width /\ s.width <= s.pitch
      /\ CHARACTER_SIZE \in Nat \ {0}
  BY TerminalAssumption DEF ScreenType
<1>2. ASSUME NEW n \in Nat
      PROVE  /\ n \div CHARACTER_SIZE \in Nat
             /\ CHARACTER_SIZE * (n \div CHARACTER_SIZE) <= n
             /\ n \div CHARACTER_SIZE = 0 => n < CHARACTER_SIZE
  BY <1>1
<1>. QED  BY <1>1, <1>2

-----------------------------------------------------------------------------
(* Glyphs *)

\* A pixel of a glyph is pitch * row + column with a column between
\* CHARACTER_SIZE and CHARACTER_SIZE + pitch - 1: column 0 of the console is
\* never written, which makes room for the last one.
LEMMA GlyphPixel ==
    ASSUME NEW f \in Screens, fb = f,
           NEW x \in 1 .. f.width \div CHARACTER_SIZE, NEW y \in Nat \ {0},
           NEW o \in Glyph(x, y)
    PROVE  \E X \in 0 .. CHARACTER_SIZE - 1, Y \in 0 .. CHARACTER_SIZE - 1 :
             /\ o = f.pitch * (CHARACTER_SIZE * y + Y) + (CHARACTER_SIZE * x + X)
             /\ CHARACTER_SIZE * y + Y \in Nat
             /\ CHARACTER_SIZE <= CHARACTER_SIZE * x + X
             /\ CHARACTER_SIZE * x + X < CHARACTER_SIZE + f.pitch
<1>1. PICK X \in 0 .. CHARACTER_SIZE - 1, Y \in 0 .. CHARACTER_SIZE - 1 :
        o = f.pitch * (CHARACTER_SIZE * y + Y) + (CHARACTER_SIZE * x + X)
  BY DEF Glyph, Offset
<1>. DEFINE S == CHARACTER_SIZE
            W == f.width \div CHARACTER_SIZE
<1>2. /\ S \in Nat \ {0} /\ W \in Nat \ {0} /\ S * W <= f.pitch
      /\ f.pitch \in Nat /\ f.width \in Nat /\ S * W \in Nat
  BY Columns, TerminalAssumption
<1>. HIDE DEF S, W
<1>3. /\ S * y + Y \in Nat
      /\ S <= S * x + X
  BY <1>2 DEF S
<1>4. S * x + X < S + f.pitch
  <2>1. x \in Nat /\ W - x \in Nat /\ W = x + (W - x)
    BY <1>2 DEF W
  <2>2. S * (W - x) \in Nat /\ S * x \in Nat
    BY <1>2, <2>1
  <2>3. S * W = S * x + S * (W - x)
    BY <1>2, <2>1
  <2>. QED  BY <1>2, <2>2, <2>3 DEF S
<1>. QED  BY <1>1, <1>3, <1>4 DEF S

\* The glyphs of two places of the console have no pixel in common.
LEMMA GlyphsDisjoint ==
    ASSUME NEW f \in Screens, fb = f,
           NEW x \in 1 .. f.width \div CHARACTER_SIZE, NEW y \in Nat \ {0},
           NEW u \in 1 .. f.width \div CHARACTER_SIZE, NEW v \in Nat \ {0},
           NEW o, o \in Glyph(x, y), o \in Glyph(u, v)
    PROVE  x = u /\ y = v
<1>. DEFINE S == CHARACTER_SIZE
<1>0. /\ S \in Nat \ {0} /\ f.pitch \in Nat \ {0} /\ x \in Nat /\ u \in Nat
  BY Columns, TerminalAssumption
<1>1. PICK X \in 0 .. S - 1, Y \in 0 .. S - 1 :
        /\ o = f.pitch * (S * y + Y) + (S * x + X)
        /\ S * y + Y \in Nat
        /\ S <= S * x + X /\ S * x + X < S + f.pitch
  BY GlyphPixel
<1>2. PICK U \in 0 .. S - 1, V \in 0 .. S - 1 :
        /\ o = f.pitch * (S * v + V) + (S * u + U)
        /\ S * v + V \in Nat
        /\ S <= S * u + U /\ S * u + U < S + f.pitch
  BY GlyphPixel
<1>. HIDE DEF S
<1>3. S * x + X \in Int /\ S * u + U \in Int
  BY <1>0, <1>1, <1>2
<1>4. S * y + Y = S * v + V /\ S * x + X = S * u + U
  <2>. DEFINE r == S * y + Y
              k == S * x + X
              q == S * v + V
              l == S * u + U
              d == f.pitch
  <2>1. /\ r \in Int /\ q \in Int /\ k \in Int /\ l \in Int
        /\ k - l < d /\ l - k < d
        /\ d * r + k = d * q + l
        /\ d \in Nat \ {0}
    BY <1>0, <1>1, <1>2, <1>3
  <2>. HIDE DEF r, k, q, l, d
  <2>2. r = q /\ k = l
    BY <2>1, DivisionUnique
  <2>. QED  BY <2>2 DEF r, k, q, l
<1>5. X - U < S /\ U - X < S /\ Y - V < S /\ V - Y < S
  BY <1>0, <1>1, <1>2
<1>6. x = u
  BY <1>0, <1>1, <1>2, <1>4, <1>5, DivisionUnique
<1>7. y = v
  BY <1>0, <1>1, <1>2, <1>4, <1>5, DivisionUnique
<1>. QED  BY <1>6, <1>7

-----------------------------------------------------------------------------
(* Types *)

LEMMA TypeInit == Init => TypeOK
<1>. SUFFICES ASSUME Init PROVE TypeOK
  OBVIOUS
<1>1. ink \subseteq Nat
  <2>. SUFFICES ASSUME NEW x \in 0 .. fb.width - 1, NEW y \in 0 .. fb.height - 1
                PROVE  fb.pitch * y + x \in Nat
    BY DEF Init, Visible, Offset
  <2>1. /\ x \in Nat /\ y \in Nat /\ fb.pitch \in Nat
    BY Columns DEF Init
  <2>. QED  BY <2>1
<1>. QED  BY <1>1, TerminalAssumption DEF Init, TypeOK, CursorTypeOK

LEMMA TypeStep == TypeOK /\ [Next]_vars => TypeOK'
<1>. SUFFICES ASSUME TypeOK, [Next]_vars PROVE TypeOK'
  OBVIOUS
<1>. USE DEF TypeOK, CursorTypeOK
<1>0. Len(data) \in Nat /\ \A s \in Strings : Len(s) \in Nat
  BY TerminalAssumption
<1>1. CASE terminal_initialize
  BY <1>1, Columns DEF terminal_initialize
<1>2. CASE terminal_clear
  BY <1>2 DEF terminal_clear
<1>3. CASE terminal_writestring
  <2>1. calls' \in 0 .. MaxCalls
    BY <1>3, TerminalAssumption DEF terminal_writestring
  <2>. QED  BY <1>0, <1>3, <2>1 DEF terminal_writestring
<1>4. CASE terminal_putc
  <2>1. cursorX' \in 1 .. consoleWidth /\ cursorY' \in Nat \ {0}
    BY <1>4, Columns DEF terminal_putc, LineFull, NextRow
  <2>2. ink' \subseteq Nat
    <3>1. ASSUME NEW o \in Glyph(cursorX, cursorY)
          PROVE  o \in Nat
      <4>1. PICK X \in 0 .. CHARACTER_SIZE - 1, Y \in 0 .. CHARACTER_SIZE - 1 :
              /\ o = fb.pitch * (CHARACTER_SIZE * cursorY + Y)
                       + (CHARACTER_SIZE * cursorX + X)
              /\ CHARACTER_SIZE * cursorY + Y \in Nat
              /\ CHARACTER_SIZE <= CHARACTER_SIZE * cursorX + X
        BY <1>4, <3>1, GlyphPixel DEF terminal_putc
      <4>2. fb.pitch \in Nat /\ CHARACTER_SIZE \in Nat /\ cursorX \in Nat
        BY <1>4, Columns, TerminalAssumption DEF terminal_putc
      <4>3. CHARACTER_SIZE * cursorX + X \in Nat
        BY <4>1, <4>2
      <4>. QED  BY <4>1, <4>2, <4>3
    <3>. QED  BY <1>4, <3>1 DEF terminal_putc
  <2>. QED  BY <1>0, <1>4, <2>1, <2>2 DEF terminal_putc
<1>5. CASE NewLine
  BY <1>5, Columns DEF NewLine, NextRow
<1>6. CASE EndOfString
  BY <1>6 DEF EndOfString
<1>7. CASE UNCHANGED vars
  BY <1>7 DEF vars
<1>. QED  BY <1>1, <1>2, <1>3, <1>4, <1>5, <1>6, <1>7 DEF Next

\* The cursor stays in the columns 1 to consoleWidth, and so on.
THEOREM TypeCorrect == Spec => []TypeOK
BY TypeInit, TypeStep, PTL DEF Spec

-----------------------------------------------------------------------------
(* The text *)

\* (x, y) comes before the cursor in reading order.
BeforeCursor(x, y) == y < cursorY \/ (y = cursorY /\ x < cursorX)

\* Every lit pixel belongs to a glyph at a place before the cursor.
InkInv ==
    pc \in {"idle", "write"} =>
        \A o \in ink :
            \E x \in 1 .. consoleWidth, y \in Nat \ {0} :
                BeforeCursor(x, y) /\ o \in Glyph(x, y)

\* Until terminal_clear, every lit pixel is one of the screen.
OldInkInv == pc \in {"initialize", "clear"} => ink \subseteq Visible

LEMMA InkStep ==
    ASSUME TypeOK, InkInv, OldInkInv, [Next]_vars
    PROVE  InkInv' /\ OldInkInv'
<1>. USE DEF TypeOK, CursorTypeOK, InkInv, OldInkInv, BeforeCursor
<1>1. CASE terminal_initialize
  BY <1>1 DEF terminal_initialize, Visible, Offset
<1>2. CASE terminal_clear
  BY <1>2 DEF terminal_clear, Cleared
<1>3. CASE terminal_writestring
  BY <1>3 DEF terminal_writestring, Glyph, Offset, Visible
<1>4. CASE terminal_putc
  <2>1. cursorX \in 1 .. consoleWidth /\ cursorX \in Nat
    BY <1>4 DEF terminal_putc
  <2>2. \A x \in 1 .. consoleWidth, y \in Nat \ {0} :
          \/ BeforeCursor(x, y)
          \/ x = cursorX /\ y = cursorY
          => BeforeCursor(x, y)'
    BY <1>4, <2>1 DEF terminal_putc, LineFull, NextRow
  <2>. QED  BY <1>4, <2>1, <2>2 DEF terminal_putc, Glyph, Offset
<1>5. CASE NewLine
  <2>1. \A x \in 1 .. consoleWidth, y \in Nat \ {0} :
          BeforeCursor(x, y) => BeforeCursor(x, y)'
    BY <1>5 DEF NewLine, NextRow
  <2>. QED  BY <1>5, <2>1 DEF NewLine, Glyph, Offset
<1>6. CASE EndOfString
  BY <1>6 DEF EndOfString, Glyph, Offset
<1>7. CASE UNCHANGED vars
  <2>1. Visible' = Visible /\ \A x, y : Glyph(x, y)' = Glyph(x, y)
    BY <1>7 DEF vars, Glyph, Offset, Visible
  <2>. QED  BY <1>7, <2>1 DEF vars
<1>. QED  BY <1>1, <1>2, <1>3, <1>4, <1>5, <1>6, <1>7 DEF Next

LEMMA InkAlways == Spec => [](TypeOK /\ InkInv /\ OldInkInv)
<1>1. Init => TypeOK /\ InkInv /\ OldInkInv
  BY TypeInit DEF Init, InkInv, OldInkInv
<1>2. TypeOK /\ InkInv /\ OldInkInv /\ [Next]_vars => (TypeOK /\ InkInv /\ OldInkInv)'
  BY TypeStep, InkStep
<1>. QED  BY <1>1, <1>2, PTL DEF Spec

\* No character is ever printed over another.
THEOREM Legible == Spec => []NoOverprint
<1>1. TypeOK /\ InkInv => NoOverprint
  <2>. SUFFICES ASSUME TypeOK, InkInv, pc \in {"idle", "write"},
                       NEW o \in ink, o \in Glyph(cursorX, cursorY)
                PROVE  FALSE
    BY DEF NoOverprint
  <2>1. PICK x \in 1 .. consoleWidth, y \in Nat \ {0} :
          BeforeCursor(x, y) /\ o \in Glyph(x, y)
    BY DEF InkInv
  <2>2. /\ consoleWidth = fb.width \div CHARACTER_SIZE
        /\ cursorX \in 1 .. consoleWidth /\ cursorY \in Nat \ {0} /\ fb \in Screens
    BY DEF TypeOK, CursorTypeOK
  <2>3. x = cursorX /\ y = cursorY
    BY <2>1, <2>2, GlyphsDisjoint
  <2>. QED  BY <2>1, <2>2, <2>3 DEF BeforeCursor
<1>. QED  BY <1>1, InkAlways, PTL

-----------------------------------------------------------------------------
(* The framebuffer *)

\* A pixel on one of the rows below last, in a column below width, comes before
\* the first pixel of row last if the width is at most the pitch.
LEMMA PixelBelow ==
    ASSUME NEW pitch \in Nat, NEW row \in Nat, NEW col \in Nat,
           NEW last \in Nat, NEW height \in Nat,
           row < last, last <= height, col < pitch
    PROVE  pitch * row + col \in 0 .. pitch * height - 1
<1>1. pitch * (row + 1) <= pitch * last /\ pitch * last <= pitch * height
  BY Monotone
<1>2. pitch * (row + 1) = pitch * row + pitch
  OBVIOUS
<1>3. pitch * row \in Nat /\ pitch * last \in Nat /\ pitch * height \in Nat
  OBVIOUS
<1>. QED  BY <1>1, <1>2, <1>3

\* Every pixel before the cursor is in the framebuffer if the cursor is on one
\* of its rows.
LEMMA GlyphInFramebuffer ==
    ASSUME TypeOK, pc \in {"idle", "write"}, cursorY < consoleHeight,
           NEW x \in 1 .. consoleWidth, NEW y \in Nat \ {0}, BeforeCursor(x, y),
           NEW o \in Glyph(x, y)
    PROVE  o \in Framebuffer
<1>. DEFINE S == CHARACTER_SIZE
            P == fb.pitch
            H == fb.height
<1>1. /\ fb \in Screens /\ cursorX \in 1 .. consoleWidth /\ cursorY \in Nat
      /\ consoleWidth = fb.width \div CHARACTER_SIZE
      /\ consoleHeight = fb.height \div CHARACTER_SIZE
  BY DEF TypeOK, CursorTypeOK
<1>2. PICK X \in 0 .. S - 1, Y \in 0 .. S - 1 :
        /\ o = P * (S * y + Y) + (S * x + X)
        /\ S * y + Y \in Nat
        /\ S <= S * x + X /\ S * x + X < S + P
  BY <1>1, GlyphPixel
<1>3. /\ S \in Nat \ {0} /\ P \in Nat \ {0} /\ H \in Nat
      /\ consoleWidth \in Nat /\ consoleHeight \in Nat
      /\ S * consoleWidth <= P /\ S * consoleHeight <= H
      /\ S * consoleWidth \in Nat /\ S * consoleHeight \in Nat
  <2>1. /\ fb.width \in Nat /\ H \in Nat /\ P \in Nat \ {0} /\ fb.width <= P
        /\ consoleWidth \in Nat /\ S * consoleWidth <= fb.width
        /\ consoleHeight \in Nat /\ S * consoleHeight <= H
    BY <1>1, Columns
  <2>2. S \in Nat \ {0}
    BY TerminalAssumption
  <2>3. S * consoleWidth \in Nat /\ S * consoleHeight \in Nat
    BY <2>1, <2>2
  <2>. QED  BY <2>1, <2>2, <2>3
<1>. HIDE DEF S, P, H
<1>4. x \in Nat /\ S * x \in Nat /\ S * y \in Nat /\ S * x + X \in Nat
  BY <1>1, <1>2, <1>3
<1>5. CASE y = cursorY /\ x < cursorX
  <2>1. S * (x + 1) <= S * consoleWidth /\ S * (x + 1) = S * x + S
    BY <1>1, <1>3, <1>4, <1>5, Monotone
  <2>2. S * (y + 1) <= S * consoleHeight /\ S * (y + 1) = S * y + S
    BY <1>1, <1>3, <1>4, <1>5, Monotone
  <2>3. S * x + X < P /\ S * y + Y < S * consoleHeight
    BY <1>2, <1>3, <1>4, <2>1, <2>2
  <2>4. P * (S * y + Y) + (S * x + X) \in 0 .. P * H - 1
    BY <1>2, <1>3, <1>4, <2>3, PixelBelow
  <2>. QED  BY <1>2, <2>4 DEF Framebuffer, P, H
<1>6. CASE y < cursorY
  <2>1. S * (y + 2) <= S * consoleHeight /\ S * (y + 2) = S * y + 2 * S
    BY <1>1, <1>3, <1>4, <1>6, Monotone
  <2>2. S * y + Y + S + 1 <= H
    BY <1>2, <1>3, <1>4, <2>1
  <2>3. P * (S * y + Y + S + 1) <= P * H
    BY <1>2, <1>3, <2>2, Monotone
  <2>4. P * (S * y + Y + S + 1) = P * (S * y + Y) + P * S + P
    BY <1>2, <1>3
  <2>5. S <= P * S
    <3>1. S * 1 <= S * P
      BY <1>3, Monotone
    <3>. QED  BY <1>3, <3>1
  <2>6. P * (S * y + Y) \in Nat /\ P * S \in Nat /\ P * H \in Nat
    BY <1>2, <1>3
  <2>7. P * (S * y + Y) + (S * x + X) \in 0 .. P * H - 1
    BY <1>2, <1>3, <1>4, <2>3, <2>4, <2>5, <2>6
  <2>. QED  BY <1>2, <2>7 DEF Framebuffer, P, H
<1>. QED  BY <1>5, <1>6 DEF BeforeCursor

LEMMA VisibleInFramebuffer ==
    ASSUME TypeOK
    PROVE  Visible \subseteq Framebuffer
<1>. SUFFICES ASSUME NEW x \in 0 .. fb.width - 1, NEW y \in 0 .. fb.height - 1
              PROVE  fb.pitch * y + x \in 0 .. fb.pitch * fb.height - 1
  BY DEF Visible, Offset, Framebuffer
<1>1. /\ fb.pitch \in Nat /\ fb.height \in Nat /\ x \in Nat /\ y \in Nat
      /\ y < fb.height /\ x < fb.pitch
  BY Columns DEF TypeOK
<1>. QED  BY <1>1, PixelBelow

\* Until the cursor reaches the rows below the console, terminal_write stays
\* within the framebuffer.
THEOREM StaysInFramebuffer == Spec => []InFramebuffer
<1>1. TypeOK /\ InkInv /\ OldInkInv => InFramebuffer
  <2>. SUFFICES ASSUME TypeOK, InkInv, OldInkInv, pc # "initialize",
                       cursorY < consoleHeight, NEW o \in ink
                PROVE  o \in Framebuffer
    BY DEF InFramebuffer
  <2>1. CASE pc = "clear"
    BY <2>1, VisibleInFramebuffer DEF OldInkInv
  <2>2. CASE pc \in {"idle", "write"}
    BY <2>2, GlyphInFramebuffer DEF InkInv
  <2>. QED  BY <2>1, <2>2 DEF TypeOK
<1>. QED  BY <1>1, InkAlways, PTL

-----------------------------------------------------------------------------
(* Two terminals *)

\* What the loader's part of a boot does is what Terminal allows.
LEMMA BootIsTerminal == BootSpec => Spec
<1>1. BootInit => Init
  BY DEF BootInit
<1>2. [BootNext]_screenVars => [Next]_vars
  <2>1. Write => Next
    BY DEF Write, Next
  <2>2. LoaderTty => Next
    BY DEF LoaderTty, Next
  <2>3. Jump => UNCHANGED vars
    BY DEF Jump
  <2>4. k_main => UNCHANGED vars
    BY DEF k_main, vars, NotCleared, WriteHello, KernelTty!terminal_initialize,
           KernelTty!terminal_writestring, KernelTty!terminal_putc, KernelTty!EndOfString
  <2>. QED  BY <2>1, <2>2, <2>3, <2>4 DEF BootNext, screenVars
<1>. QED  BY <1>1, <1>2, PTL DEF BootSpec, Spec

LineWidth == fb.width \div CHARACTER_SIZE

\* Every message has a line of its own, of the twelve there are.
LinesInv ==
    /\ fb \in BootScreens /\ script \in Seq(LoaderMessages)
    /\ cursorY + Len(script) + (IF pc = "write" THEN 1 ELSE 0)
          + (IF kPc = "off" THEN 2 ELSE 0) <= 12

\* The character to be written is in the column of its number, the first line is that of
\* "Loading kernel...".
LineInv ==
    /\ pc = "write" =>
         /\ \E m \in LoaderMessages :
              data = Text[m] /\ (cursorY = 1 => m = "Loading")
         /\ cursorX = i + 1 /\ i < Len(data)
    /\ pc # "write" =>
         /\ cursorX = 1
         /\ cursorY = 1 => script # <<>> /\ Head(script) = "Loading"

\* A file that passes every check gets one line.
OneLineInv ==
    failed = {} /\ kPc # "returned" =>
        cursorY + Len(script) + (IF pc = "write" THEN 1 ELSE 0) <= 2

\* A place of the screen the loader writes to.
Written(x, y) ==
    /\ x \in 1 .. LineWidth - 1 /\ y \in 1 .. 11
    /\ BeforeCursor(x, y)
    /\ y = 1 => x <= Len(Text["Loading"]) - 1

BootInkInv ==
    pc \in {"idle", "write"} =>
        \A o \in ink : \E x, y \in Nat : Written(x, y) /\ o \in Glyph(x, y)

\* The kernel's terminal writes when the loader's has stopped for good, on line 1.
KernelInv ==
    /\ kPc \in {"off", "returned"} => marks = {} /\ kInk = {}
    /\ kPc \in {"initialize", "clear", "idle", "write"} =>
         script = <<>> /\ pc = "idle" /\ marks = KernelMarks
    /\ kPc \in {"off", "initialize"} => kWidth = -1
    /\ kPc \in {"clear", "idle", "write"} => kWidth = LineWidth
    /\ kPc \in {"off", "initialize", "clear", "idle", "write", "returned"}
    /\ kY = 1
    /\ kPc # "write" /\ kCalls = 0 => kX = 1
    /\ kPc = "write" =>
         /\ kData = Text["Hello"] /\ kI \in 0 .. Len(kData) /\ kX = kI + 1 /\ kCalls # 0
    /\ kCalls \in Nat
    /\ \A o \in kInk : \E x \in 1 .. LineWidth - 1 : o \in Glyph(x, 1)

BootInv == LinesInv /\ OneLineInv /\ LineInv /\ BootInkInv /\ KernelInv

\* What the assumption says of the screen and the texts.
LEMMA Room ==
    ASSUME LinesInv
    PROVE  /\ fb \in Screens /\ LineWidth \in Nat /\ LineWidth >= 3
           /\ fb.height \div CHARACTER_SIZE \in Nat /\ fb.height \div CHARACTER_SIZE >= 12
           /\ \A m \in LoaderMessages \cup {"Hello"} :
                /\ Text[m] \in Strings /\ Text[m] \in Seq(STRING)
                /\ Len(Text[m]) \in Nat /\ Len(Text[m]) < LineWidth
           /\ \A m \in LoaderMessages :
                /\ Text[m] # <<>> /\ Text[m][Len(Text[m])] = "NL"
                /\ \A k \in 1 .. Len(Text[m]) - 1 : Text[m][k] # "NL"
           /\ \A k \in 1 .. Len(Text["Hello"]) : Text["Hello"][k] # "NL"
<1>1. /\ fb \in BootScreens /\ fb \in Screens
      /\ \A m \in LoaderMessages \cup {"Hello"} : Text[m] \in Strings
      /\ \A m \in LoaderMessages \cup {"Hello"} : Len(Text[m]) < LineWidth
      /\ fb.height \div CHARACTER_SIZE >= 12 /\ LineWidth >= 3
  BY BootScreenAssumption DEF LinesInv, LineWidth
<1>2. \A m \in LoaderMessages \cup {"Hello"} :
        Text[m] \in Seq(STRING) /\ Len(Text[m]) \in Nat
  BY <1>1, TerminalAssumption
<1>3. LineWidth \in Nat /\ fb.height \div CHARACTER_SIZE \in Nat
  BY <1>1, Columns DEF LineWidth
<1>4. \A m \in LoaderMessages :
        /\ Text[m] # <<>> /\ Text[m][Len(Text[m])] = "NL"
        /\ \A k \in 1 .. Len(Text[m]) - 1 : Text[m][k] # "NL"
  BY BootScreenAssumption DEF Last
<1>5. \A k \in 1 .. Len(Text["Hello"]) : Text["Hello"][k] # "NL"
  <2>1. DOMAIN Text["Hello"] = 1 .. Len(Text["Hello"])
    BY <1>2
  <2>. QED  BY <2>1, BootScreenAssumption
<1>. QED  BY <1>1, <1>2, <1>3, <1>4, <1>5

LEMMA Joined ==
    ASSUME NEW p \in Seq(LoaderMessages), NEW q \in Seq(LoaderMessages)
    PROVE  /\ p \o q \in Seq(LoaderMessages) /\ Len(p \o q) = Len(p) + Len(q)
           /\ p # <<>> => p \o q # <<>> /\ Head(p \o q) = p[1]
<1>1. /\ p \o q \in Seq(LoaderMessages) /\ Len(p \o q) = Len(p) + Len(q)
      /\ \A k \in 1 .. Len(p) + Len(q) :
           (p \o q)[k] = IF k <= Len(p) THEN p[k] ELSE q[k - Len(p)]
  BY ConcatProperties
<1>2. ASSUME p # <<>>
      PROVE  p \o q # <<>> /\ Head(p \o q) = p[1]
  <2>1. Len(p) \in Nat \ {0} /\ Len(q) \in Nat
    BY <1>2, EmptySeq, LenProperties
  <2>2. 1 \in 1 .. Len(p) + Len(q) /\ 1 <= Len(p)
    BY <2>1
  <2>3. (p \o q)[1] = p[1]
    BY <1>1, <2>2
  <2>4. Len(p \o q) # 0
    BY <1>1, <2>1
  <2>. DEFINE r == p \o q
  <2>5. r \in Seq(LoaderMessages) /\ Len(r) # 0
    BY <1>1, <2>4
  <2>6. r # <<>> /\ Head(r) = r[1]
    <3>. HIDE DEF r
    <3>. QED  BY <2>5, HeadTailProperties, EmptySeq
  <2>. QED  BY <2>3, <2>6
<1>. QED  BY <1>1, <1>2

LEMMA BootInvInit == BootInit => BootInv
<1>. SUFFICES ASSUME BootInit PROVE BootInv
  OBVIOUS
<1>1. /\ script = LoaderScript(failed) /\ pc = "initialize" /\ kPc = "off" /\ cursorY = 1
      /\ cursorX = 1 /\ fb \in BootScreens
  BY DEF BootInit, Init
<1>2. /\ LoaderScript(failed) \in Seq(LoaderMessages)
      /\ Len(LoaderScript(failed)) <= 9
      /\ LoaderScript(failed) # <<>> /\ Head(LoaderScript(failed)) = "Loading"
  <2>. DEFINE W(c) == Warning(c, failed)
  <2>1. \A c \in Checks : W(c) \in Seq(LoaderMessages) /\ Len(W(c)) \in 0 .. 2
    <3>. SUFFICES ASSUME NEW c \in Checks
                  PROVE  W(c) \in Seq(LoaderMessages) /\ Len(W(c)) \in 0 .. 2
      OBVIOUS
    <3>1. c \in LoaderMessages /\ "PowerOff" \in LoaderMessages
      BY DEF Checks, LoaderMessages
    <3>2. /\ <<c, "PowerOff">> \in Seq(LoaderMessages) /\ Len(<<c, "PowerOff">>) = 2
          /\ <<>> \in Seq(LoaderMessages) /\ Len(<<>>) = 0
      BY <3>1
    <3>. QED  BY <3>2 DEF Warning
  <2>. HIDE DEF W
  <2>2. /\ W("magic") \in Seq(LoaderMessages) /\ Len(W("magic")) \in 0 .. 2
        /\ W("class") \in Seq(LoaderMessages) /\ Len(W("class")) \in 0 .. 2
        /\ W("type") \in Seq(LoaderMessages) /\ Len(W("type")) \in 0 .. 2
        /\ W("machine") \in Seq(LoaderMessages) /\ Len(W("machine")) \in 0 .. 2
    BY <2>1 DEF Checks
  <2>3. /\ W("magic") \o W("class") \o W("type") \o W("machine") \in Seq(LoaderMessages)
        /\ Len(W("magic") \o W("class") \o W("type") \o W("machine")) \in 0 .. 8
    <3>. DEFINE V == W("magic") \o W("class")
                X == V \o W("type")
                Z == X \o W("machine")
    <3>1. V \in Seq(LoaderMessages) /\ Len(V) = Len(W("magic")) + Len(W("class"))
      BY <2>2, Joined
    <3>2. X \in Seq(LoaderMessages) /\ Len(X) = Len(V) + Len(W("type"))
      <4>. HIDE DEF V
      <4>. QED  BY <2>2, <3>1, Joined
    <3>3. Z \in Seq(LoaderMessages) /\ Len(Z) = Len(X) + Len(W("machine"))
      <4>. HIDE DEF X
      <4>. QED  BY <2>2, <3>2, Joined
    <3>4. Z \in Seq(LoaderMessages) /\ Len(Z) \in 0 .. 8
      <4>. DEFINE a == Len(W("magic"))
                  b == Len(W("class"))
                  c == Len(W("type"))
                  d == Len(W("machine"))
      <4>1. a \in 0 .. 2 /\ b \in 0 .. 2 /\ c \in 0 .. 2 /\ d \in 0 .. 2
        BY <2>2
      <4>2. Len(Z) = a + b + c + d
        BY <3>1, <3>2, <3>3
      <4>. HIDE DEF V, X, Z, a, b, c, d
      <4>3. Len(Z) \in 0 .. 8
        BY <4>1, <4>2
      <4>. QED  BY <3>3, <4>3
    <3>. QED  BY <3>4
  <2>4. Warnings(failed) \in Seq(LoaderMessages) /\ Len(Warnings(failed)) \in 0 .. 8
    BY <2>3 DEF Warnings, W
  <2>5. <<"Loading">> \in Seq(LoaderMessages)
    BY DEF LoaderMessages
  <2>6. ASSUME NEW s \in Seq(LoaderMessages), Len(s) \in 0 .. 8
        PROVE  /\ <<"Loading">> \o s \in Seq(LoaderMessages)
               /\ Len(<<"Loading">> \o s) <= 9
               /\ <<"Loading">> \o s # <<>> /\ Head(<<"Loading">> \o s) = "Loading"
    <3>. DEFINE l == <<"Loading">>
    <3>1. Len(l) = 1 /\ l[1] = "Loading" /\ l \in Seq(LoaderMessages)
      BY <2>5
    <3>. HIDE DEF l
    <3>2. /\ l \o s \in Seq(LoaderMessages) /\ Len(l \o s) = 1 + Len(s)
          /\ l \o s # <<>> /\ Head(l \o s) = "Loading"
      <4>1. l # <<>>
        BY DEF l
      <4>. QED  BY <3>1, <4>1, Joined
    <3>3. Len(l \o s) <= 9
      <4>. DEFINE n == Len(s)
      <4>1. n \in 0 .. 8 /\ Len(l \o s) = 1 + n
        BY <2>6, <3>2
      <4>. HIDE DEF n
      <4>. QED  BY <4>1
    <3>. QED  BY <3>1, <3>2, <3>3 DEF l
  <2>. QED  BY <2>4, <2>6 DEF LoaderScript
<1>3. LinesInv
  BY <1>1, <1>2 DEF LinesInv
<1>4. LineInv /\ BootInkInv
  BY <1>1, <1>2 DEF LineInv, BootInkInv
<1>5. KernelInv
  BY DEF BootInit, KernelInv
<1>6. OneLineInv
  <2>. SUFFICES ASSUME failed = {} PROVE cursorY + Len(script) + 0 <= 2
    BY <1>1 DEF OneLineInv
  <2>1. \A c \in Checks : Warning(c, failed) = <<>>
    BY DEF Warning
  <2>2. Warnings(failed) = <<>> \o <<>> \o <<>> \o <<>>
    BY <2>1 DEF Warnings, Checks
  <2>3. Len(<<"Loading">> \o (<<>> \o <<>> \o <<>> \o <<>>)) = 1
    OBVIOUS
  <2>. QED  BY <1>1, <2>2, <2>3 DEF LoaderScript
<1>. QED  BY <1>3, <1>4, <1>5, <1>6 DEF BootInv

\* Nothing moves the glyphs of a screen.
LEMMA SameGlyphs ==
    ASSUME fb' = fb
    PROVE  /\ LineWidth' = LineWidth /\ KernelMarks' = KernelMarks
           /\ \A x, y : Glyph(x, y)' = Glyph(x, y) /\ KernelTty!Glyph(x, y) = Glyph(x, y)
<1>1. \A x, y : Glyph(x, y)' = Glyph(x, y) /\ KernelTty!Glyph(x, y) = Glyph(x, y)
  BY DEF Glyph, Offset, KernelTty!Glyph, KernelTty!Offset
<1>. QED  BY <1>1 DEF LineWidth, KernelMarks, Glyph, Offset

LEMMA LinesStep == TypeOK /\ BootInv /\ [BootNext]_screenVars => LinesInv'
<1>. SUFFICES ASSUME TypeOK, BootInv, [BootNext]_screenVars PROVE LinesInv'
  OBVIOUS
<1>0. /\ script \in Seq(LoaderMessages) /\ Len(script) \in Nat /\ cursorY \in Nat
      /\ fb \in BootScreens
      /\ consoleWidth # -1 \/ pc = "initialize"
  <2>1. pc # "initialize" => consoleWidth \in Nat
    BY Columns DEF TypeOK, CursorTypeOK
  <2>. QED  BY <2>1 DEF BootInv, LinesInv, TypeOK
<1>1. CASE Write
  <2>1. /\ script # <<>> /\ script' = Tail(script) /\ pc = "idle" /\ pc' = "write"
        /\ UNCHANGED <<fb, kPc, cursorY>>
    BY <1>0, <1>1 DEF Write, terminal_writestring, kTty
  <2>2. Tail(script) \in Seq(LoaderMessages) /\ Len(Tail(script)) = Len(script) - 1
    BY <1>0, <2>1
  <2>. QED  BY <1>0, <2>1, <2>2 DEF BootInv, LinesInv
<1>2. CASE LoaderTty
  <2>1. UNCHANGED <<fb, script, kPc>>
    BY <1>2 DEF LoaderTty, kTty, terminal_initialize, terminal_clear, terminal_putc,
                NewLine, EndOfString
  <2>2. CASE terminal_putc
    <3>1. ~LineFull
      BY <2>2, Room DEF BootInv, LineInv, TypeOK, CursorTypeOK, terminal_putc, LineFull,
                        LineWidth
    <3>. QED  BY <2>1, <2>2, <3>1 DEF BootInv, LinesInv, terminal_putc
  <2>3. CASE NewLine
    BY <1>0, <2>1, <2>3 DEF BootInv, LinesInv, NewLine, NextRow
  <2>4. CASE terminal_initialize \/ terminal_clear \/ EndOfString
    BY <1>0, <2>1, <2>4 DEF BootInv, LinesInv, terminal_initialize, terminal_clear, EndOfString
  <2>. QED  BY <1>2, <2>2, <2>3, <2>4 DEF LoaderTty
<1>3. CASE Jump
  <2>1. /\ kPc = "off" /\ kPc' # "off" /\ script = <<>>
        /\ script' = <<>> \/ script' = <<"Unrecoverable", "Restart">>
        /\ UNCHANGED <<pc, fb, cursorY>>
    BY <1>3 DEF Jump, vars
  <2>2. /\ <<"Unrecoverable", "Restart">> \in Seq(LoaderMessages)
        /\ Len(<<"Unrecoverable", "Restart">>) = 2
        /\ <<>> \in Seq(LoaderMessages) /\ Len(<<>>) = 0
    <3>1. "Unrecoverable" \in LoaderMessages /\ "Restart" \in LoaderMessages
      BY DEF LoaderMessages
    <3>. HIDE DEF LoaderMessages
    <3>. QED  BY <3>1
  <2>3. Len(script) = 0 /\ script' \in Seq(LoaderMessages) /\ Len(script') \in 0 .. 2
    <3>1. CASE script' = <<>>
      BY <2>1, <2>2, <3>1
    <3>2. CASE script' = <<"Unrecoverable", "Restart">>
      <4>. DEFINE u == <<"Unrecoverable", "Restart">>
      <4>1. u \in Seq(LoaderMessages) /\ Len(u) = 2 /\ script' = u /\ Len(script) = 0
        BY <2>1, <2>2, <3>2
      <4>. HIDE DEF u
      <4>. QED  BY <4>1
    <3>. QED  BY <2>1, <3>1, <3>2
  <2>4. /\ cursorY + Len(script) + (IF pc = "write" THEN 1 ELSE 0) + 2 <= 12
        /\ fb \in BootScreens
    BY <2>1 DEF BootInv, LinesInv
  <2>. DEFINE n == IF pc = "write" THEN 1 ELSE 0
  <2>5. n \in 0 .. 1 /\ (IF pc' = "write" THEN 1 ELSE 0) = n
    BY <2>1
  <2>6. cursorY + Len(script') + n + 0 <= 12
    <3>. DEFINE l == Len(script')
    <3>1. cursorY + 0 + n + 2 <= 12
      BY <2>3, <2>4
    <3>2. l \in 0 .. 2 /\ cursorY \in Nat
      BY <1>0, <2>3
    <3>3. n \in 0 .. 1
      BY <2>5
    <3>. HIDE DEF n, l
    <3>4. cursorY + l + n + 0 <= 12
      BY <3>1, <3>2, <3>3
    <3>. QED  BY <3>4 DEF l
  <2>. QED  BY <2>1, <2>3, <2>4, <2>5, <2>6 DEF LinesInv
<1>4. CASE k_main
  <2>1. kPc # "off" /\ kPc' # "off" /\ UNCHANGED <<pc, fb, script, cursorY>>
    BY <1>4 DEF k_main, NotCleared, WriteHello, KernelTty!terminal_initialize,
           KernelTty!terminal_writestring, KernelTty!terminal_putc, KernelTty!EndOfString
  <2>. QED  BY <2>1 DEF BootInv, LinesInv
<1>5. CASE UNCHANGED screenVars
  BY <1>5 DEF BootInv, LinesInv, screenVars, vars, kTty
<1>. QED  BY <1>1, <1>2, <1>3, <1>4, <1>5 DEF BootNext

LEMMA OneLineStep == TypeOK /\ BootInv /\ [BootNext]_screenVars => OneLineInv'
<1>. SUFFICES ASSUME TypeOK, BootInv, [BootNext]_screenVars, failed' = {}, kPc' # "returned"
              PROVE  cursorY' + Len(script') + (IF pc' = "write" THEN 1 ELSE 0) <= 2
  BY DEF OneLineInv
<1>0. /\ script \in Seq(LoaderMessages) /\ Len(script) \in Nat /\ cursorY \in Nat
      /\ LineInv /\ LinesInv /\ KernelInv
      /\ pc # "initialize" => consoleWidth = LineWidth
      /\ failed = {} /\ kPc # "returned" =>
           cursorY + Len(script) + (IF pc = "write" THEN 1 ELSE 0) <= 2
  BY DEF BootInv, LinesInv, OneLineInv, TypeOK, CursorTypeOK, LineWidth
<1>1. CASE Write
  <2>1. /\ script # <<>> /\ script' = Tail(script) /\ pc = "idle"
        /\ UNCHANGED <<failed, kPc, cursorY>>
    BY <1>1 DEF Write, terminal_writestring, kTty
  <2>2. Len(Tail(script)) = Len(script) - 1
    BY <1>0, <2>1
  <2>. QED  BY <1>0, <2>1, <2>2
<1>2. CASE LoaderTty
  <2>1. UNCHANGED <<failed, script, kPc>>
    BY <1>2 DEF LoaderTty, kTty
  <2>2. CASE terminal_putc
    <3>1. ~LineFull
      BY <1>0, <2>2, Room DEF LineInv, TypeOK, CursorTypeOK, terminal_putc, LineFull, LineWidth
    <3>. QED  BY <1>0, <2>1, <2>2, <3>1 DEF terminal_putc
  <2>3. CASE NewLine
    BY <1>0, <2>1, <2>3 DEF NewLine, NextRow
  <2>4. CASE terminal_initialize \/ terminal_clear \/ EndOfString
    BY <1>0, <2>1, <2>4 DEF terminal_initialize, terminal_clear, EndOfString
  <2>. QED  BY <1>2, <2>2, <2>3, <2>4 DEF LoaderTty
<1>3. CASE Jump
  BY <1>0, <1>3 DEF Jump, vars
<1>4. CASE k_main
  <2>1. kPc # "returned" /\ UNCHANGED <<pc, failed, script, cursorY>>
    BY <1>4 DEF k_main, NotCleared, WriteHello, KernelTty!terminal_initialize,
           KernelTty!terminal_writestring, KernelTty!terminal_putc, KernelTty!EndOfString
  <2>. QED  BY <1>0, <2>1
<1>5. CASE UNCHANGED screenVars
  BY <1>0, <1>5 DEF screenVars, vars, kTty
<1>. QED  BY <1>1, <1>2, <1>3, <1>4, <1>5 DEF BootNext

LEMMA LineStep == TypeOK /\ BootInv /\ [BootNext]_screenVars => LineInv'
<1>. SUFFICES ASSUME TypeOK, BootInv, [BootNext]_screenVars PROVE LineInv'
  OBVIOUS
<1>. USE DEF LineInv
<1>0. /\ script \in Seq(LoaderMessages) /\ cursorY \in Nat \ {0} /\ LineInv /\ LinesInv
      /\ pc # "initialize" => consoleWidth = LineWidth /\ consoleWidth \in Nat
  BY Room DEF BootInv, LinesInv, TypeOK, CursorTypeOK, LineWidth
<1>1. CASE Write
  <2>1. /\ script # <<>> /\ pc = "idle" /\ pc' = "write" /\ data' = Text[Head(script)] /\ i' = 0
        /\ UNCHANGED <<cursorX, cursorY>>
    BY <1>0, <1>1 DEF Write, terminal_writestring
  <2>2. Head(script) \in LoaderMessages
    BY <1>0, <2>1, HeadTailProperties
  <2>3. Len(data') > 0
    BY <1>0, <2>1, <2>2, Room, EmptySeq
  <2>. QED  BY <1>0, <2>1, <2>2, <2>3
<1>2. CASE LoaderTty
  <2>1. UNCHANGED script
    BY <1>2 DEF LoaderTty
  <2>2. CASE terminal_putc
    <3>1. PICK m \in LoaderMessages : data = Text[m] /\ (cursorY = 1 => m = "Loading")
      BY <1>0, <2>2 DEF terminal_putc
    <3>2. /\ pc = "write" /\ pc' = "write" /\ data' = data /\ i' = i + 1 /\ cursorX = i + 1
          /\ i < Len(data) /\ i \in Nat /\ Len(data) \in Nat /\ Len(data) < consoleWidth
          /\ data[i + 1] # "NL" /\ data[Len(data)] = "NL"
      BY <1>0, <2>2, <3>1, Room DEF terminal_putc, TypeOK
    <3>3. i + 1 < Len(data) /\ ~LineFull
      BY <1>0, <3>2 DEF LineFull
    <3>4. cursorX' = i' + 1 /\ cursorY' = cursorY
      BY <2>2, <3>2, <3>3 DEF terminal_putc
    <3>. QED  BY <3>1, <3>2, <3>3, <3>4
  <2>3. CASE NewLine
    BY <1>0, <2>3 DEF NewLine, NextRow
  <2>4. CASE terminal_initialize \/ terminal_clear
    BY <1>0, <2>1, <2>4 DEF terminal_initialize, terminal_clear
  <2>5. CASE EndOfString
    BY <1>0, <2>5, Room DEF EndOfString, TypeOK
  <2>. QED  BY <1>2, <2>2, <2>3, <2>4, <2>5 DEF LoaderTty
<1>3. CASE Jump
  BY <1>0, <1>3 DEF Jump, vars
<1>4. CASE k_main
  BY <1>0, <1>4 DEF k_main
<1>5. CASE UNCHANGED screenVars
  BY <1>0, <1>5 DEF screenVars, vars
<1>. QED  BY <1>1, <1>2, <1>3, <1>4, <1>5 DEF BootNext

LEMMA BootInkStep == TypeOK /\ OldInkInv /\ BootInv /\ [BootNext]_screenVars => BootInkInv'
<1>. SUFFICES ASSUME TypeOK, OldInkInv, BootInv, [BootNext]_screenVars,
                     pc' \in {"idle", "write"}, NEW o \in ink'
              PROVE  \E x, y \in Nat : Written(x, y)' /\ o \in Glyph(x, y)'
  BY DEF BootInkInv
<1>0. /\ fb' = fb /\ LinesInv /\ LineInv /\ BootInkInv /\ cursorY \in Nat \ {0}
      /\ LineWidth' = LineWidth /\ \A x, y : Glyph(x, y)' = Glyph(x, y)
  <2>1. fb' = fb
    BY DEF BootNext, screenVars, vars, Write, LoaderTty, Jump, k_main, terminal_initialize,
           terminal_clear, terminal_writestring, terminal_putc, NewLine, EndOfString,
           NotCleared, WriteHello, KernelTty!terminal_initialize,
           KernelTty!terminal_writestring, KernelTty!terminal_putc, KernelTty!EndOfString
  <2>. QED  BY <2>1, SameGlyphs DEF BootInv, TypeOK
<1>1. ASSUME pc \in {"idle", "write"}, ink' = ink,
             UNCHANGED <<cursorX, cursorY>> \/ (cursorY' = cursorY + 1 /\ cursorX' = 1)
      PROVE  \E x, y \in Nat : Written(x, y)' /\ o \in Glyph(x, y)'
  <2>1. PICK x, y \in Nat : Written(x, y) /\ o \in Glyph(x, y)
    BY <1>0, <1>1 DEF BootInkInv
  <2>2. Written(x, y)'
    BY <1>0, <1>1, <2>1 DEF Written, BeforeCursor
  <2>. QED  BY <1>0, <2>1, <2>2
<1>2. CASE Write
  BY <1>1, <1>2 DEF Write, terminal_writestring
<1>3. CASE LoaderTty
  <2>1. CASE terminal_initialize
    BY <2>1 DEF terminal_initialize
  <2>2. CASE terminal_clear
    BY <2>2 DEF terminal_clear, Cleared, OldInkInv
  <2>3. CASE terminal_putc
    <3>1. PICK m \in LoaderMessages : data = Text[m] /\ (cursorY = 1 => m = "Loading")
      BY <1>0, <2>3 DEF terminal_putc, LineInv
    <3>2. /\ pc = "write" /\ data' = data /\ cursorX = i + 1
          /\ i < Len(data) /\ i \in Nat /\ Len(data) \in Nat /\ Len(data) < consoleWidth
          /\ data[i + 1] # "NL" /\ data[Len(data)] = "NL"
          /\ consoleWidth = LineWidth /\ consoleWidth \in Nat
      BY <1>0, <2>3, <3>1, Room DEF terminal_putc, TypeOK, CursorTypeOK, LineInv, LineWidth
    <3>3. i + 1 < Len(data) /\ ~LineFull
      BY <3>2 DEF LineFull
    <3>4. cursorX' = cursorX + 1 /\ cursorY' = cursorY
      BY <2>3, <3>2, <3>3 DEF terminal_putc
    <3>5. CASE o \in ink
      <4>1. PICK x, y \in Nat : Written(x, y) /\ o \in Glyph(x, y)
        BY <1>0, <3>2, <3>5 DEF BootInkInv
      <4>2. Written(x, y)'
        BY <1>0, <3>2, <3>4, <4>1 DEF Written, BeforeCursor
      <4>. QED  BY <1>0, <4>1, <4>2
    <3>6. CASE o \in Glyph(cursorX, cursorY)
      <4>1. cursorY <= 11
        <5>1. Len(script) \in Nat
          BY <1>0, LenProperties DEF LinesInv
        <5>. QED  BY <1>0, <3>2, <5>1 DEF LinesInv
      <4>2. PICK x, y \in Nat : x = cursorX /\ y = cursorY
        BY <1>0, <3>2
      <4>3. x < LineWidth /\ x > 0 /\ y > 0 /\ x < cursorX' /\ y = cursorY'
        BY <1>0, <3>2, <3>3, <3>4, <4>2
      <4>4. y = 1 => x <= Len(Text["Loading"]) - 1
        BY <3>1, <3>2, <3>3, <4>2
      <4>5. Written(x, y)'
        BY <1>0, <3>2, <4>1, <4>2, <4>3, <4>4 DEF Written, BeforeCursor
      <4>. QED  BY <1>0, <3>6, <4>2, <4>5
    <3>. QED  BY <2>3, <3>5, <3>6 DEF terminal_putc
  <2>4. CASE NewLine
    BY <1>1, <2>4 DEF NewLine, NextRow
  <2>5. CASE EndOfString
    BY <1>1, <2>5 DEF EndOfString
  <2>. QED  BY <1>3, <2>1, <2>2, <2>3, <2>4, <2>5 DEF LoaderTty
<1>4. CASE Jump
  BY <1>1, <1>4 DEF Jump, vars
<1>5. CASE k_main
  BY <1>1, <1>5 DEF k_main
<1>6. CASE UNCHANGED screenVars
  BY <1>1, <1>6 DEF screenVars, vars
<1>. QED  BY <1>2, <1>3, <1>4, <1>5, <1>6 DEF BootNext

LEMMA KernelStep == TypeOK /\ BootInv /\ [BootNext]_screenVars => KernelInv'
<1>. SUFFICES ASSUME TypeOK, BootInv, [BootNext]_screenVars PROVE KernelInv'
  OBVIOUS
<1>0. LinesInv /\ KernelInv
  BY DEF BootInv
<1>1. ASSUME fb' = fb, kTty' = kTty, marks' = marks,
             kPc \in {"off", "returned"} \/ UNCHANGED <<pc, script>>
      PROVE  KernelInv'
  <2>1. /\ UNCHANGED <<kPc, kWidth, kX, kY, kData, kI, kInk, kCalls>>
    BY <1>1 DEF kTty
  <2>. QED  BY <1>0, <1>1, <2>1, SameGlyphs DEF KernelInv
<1>2. CASE Write
  BY <1>0, <1>1, <1>2 DEF Write, terminal_writestring, KernelInv
<1>3. CASE LoaderTty
  BY <1>0, <1>1, <1>3 DEF LoaderTty, terminal_initialize, terminal_clear, terminal_putc,
                          NewLine, EndOfString, KernelInv
<1>4. CASE Jump
  <2>1. /\ fb' = fb /\ pc' = pc /\ pc = "idle" /\ script = <<>> /\ kPc = "off"
        /\ UNCHANGED <<kWidth, kX, kY, kData, kI, kInk, kCalls>>
        /\ \/ kPc' = "initialize" /\ script' = script /\ marks' = KernelMarks
           \/ kPc' = "returned" /\ marks' = marks
    BY <1>4 DEF Jump, vars
  <2>. QED  BY <1>0, <2>1, SameGlyphs DEF KernelInv
<1>5. CASE k_main
  <2>1. UNCHANGED <<pc, script, marks>>
    BY <1>5 DEF k_main
  <2>2. CASE KernelTty!terminal_initialize \/ NotCleared
    <3>1. fb' = fb
      BY <2>2 DEF NotCleared, KernelTty!terminal_initialize
    <3>. QED  BY <1>0, <2>1, <2>2, <3>1, SameGlyphs
              DEF NotCleared, KernelTty!terminal_initialize, KernelInv, LineWidth
  <2>3. CASE WriteHello
    <3>1. fb' = fb /\ Len(Text["Hello"]) \in Nat
      BY <1>0, <2>3, Room DEF WriteHello, KernelTty!terminal_writestring
    <3>2. LineWidth # -1
      BY <1>0, Room
    <3>. QED  BY <1>0, <2>1, <2>3, <3>1, <3>2, SameGlyphs
              DEF WriteHello, KernelTty!terminal_writestring, KernelInv
  <2>4. CASE KernelTty!terminal_putc
    <3>1. /\ kPc = "write" /\ kPc' = "write" /\ kI' = kI + 1 /\ kI < Len(kData)
          /\ kInk' = kInk \cup Glyph(kX, kY)
          /\ UNCHANGED <<fb, kData, kWidth, kCalls>>
          /\ \/ ~(kX + 1 > kWidth) /\ kX' = kX + 1 /\ kY' = kY
             \/ kX + 1 > kWidth
      BY <2>4 DEF KernelTty!terminal_putc, KernelTty!LineFull, KernelTty!Glyph,
                  KernelTty!Offset, Glyph, Offset
    <3>2. /\ kX = kI + 1 /\ kY = 1 /\ kI \in Nat /\ kWidth = LineWidth /\ LineWidth \in Nat
          /\ Len(kData) \in Nat /\ Len(kData) < LineWidth /\ kData = Text["Hello"]
      BY <1>0, <3>1, Room DEF KernelInv
    <3>3. kX \in 1 .. LineWidth - 1 /\ kX' = kX + 1 /\ kY' = kY
      BY <3>1, <3>2
    <3>4. \A o \in kInk' : \E x \in 1 .. LineWidth - 1 : o \in Glyph(x, 1)
      BY <1>0, <3>1, <3>2, <3>3 DEF KernelInv
    <3>5. LineWidth' = LineWidth /\ KernelMarks' = KernelMarks
          /\ \A o \in kInk' : \E x \in 1 .. LineWidth' - 1 : o \in Glyph(x, 1)'
      BY <3>1, <3>4, SameGlyphs
    <3>. QED  BY <1>0, <2>1, <3>1, <3>2, <3>3, <3>5 DEF KernelInv
  <2>5. CASE KernelTty!EndOfString
    <3>1. fb' = fb
      BY <2>5 DEF KernelTty!EndOfString
    <3>. QED  BY <1>0, <2>1, <2>5, <3>1, SameGlyphs DEF KernelTty!EndOfString, KernelInv
  <2>. QED  BY <1>5, <2>2, <2>3, <2>4, <2>5 DEF k_main
<1>6. CASE UNCHANGED screenVars
  BY <1>1, <1>6 DEF screenVars, vars
<1>. QED  BY <1>2, <1>3, <1>4, <1>5, <1>6 DEF BootNext

LEMMA BootAlways == BootSpec => [](TypeOK /\ BootInv)
<1>1. BootInit => BootInv
  BY BootInvInit
<1>2. TypeOK /\ OldInkInv /\ BootInv /\ [BootNext]_screenVars => BootInv'
  BY LinesStep, OneLineStep, LineStep, BootInkStep, KernelStep DEF BootInv
<1>3. BootSpec => [](TypeOK /\ OldInkInv)
  BY BootIsTerminal, InkAlways, PTL
<1>. QED  BY <1>1, <1>2, <1>3, PTL DEF BootSpec

\* A character in one of the columns but the last, on one of eleven lines, has all of its
\* pixels on the screen, and their row is in its line.
LEMMA GlyphOnScreen ==
    ASSUME LinesInv, NEW x \in 1 .. LineWidth - 1, NEW y \in 1 .. 11, NEW o \in Glyph(x, y)
    PROVE  /\ OnScreen(o)
           /\ \A n \in Nat : o \in Line(n) => n = y
<1>. DEFINE S == CHARACTER_SIZE
            P == fb.pitch
            H == fb.height
            W == fb.width
            L == LineWidth
            R == H \div S
<1>1. /\ S \in Nat \ {0} /\ P \in Nat \ {0} /\ H \in Nat /\ W \in Nat /\ W <= P
      /\ L \in Nat /\ S * L <= W /\ R \in Nat /\ R >= 12 /\ S * R <= H
  <2>1. fb \in Screens /\ R \in Nat /\ R >= 12 /\ L \in Nat
    BY Room
  <2>2. /\ W \in Nat /\ H \in Nat /\ P \in Nat \ {0} /\ W <= P
        /\ S * (W \div S) <= W /\ S * R <= H
    BY <2>1, Columns
  <2>3. S \in Nat \ {0}
    BY TerminalAssumption
  <2>. QED  BY <2>1, <2>2, <2>3 DEF LineWidth
<1>2. PICK X \in 0 .. S - 1, Y \in 0 .. S - 1 : o = P * (S * y + Y) + (S * x + X)
  BY DEF Glyph, Offset
<1>3. x \in Nat /\ y \in Nat /\ x + 1 <= L /\ y + 1 <= R /\ X \in Nat /\ Y \in Nat
      /\ X < S /\ Y < S
  BY <1>1, <1>2
<1>. HIDE DEF S, P, H, W, L, R
<1>4. S * x + X \in Nat /\ S * x + X < W
  <2>1. S * (x + 1) <= S * L /\ S * (x + 1) = S * x + S /\ S * x \in Nat /\ S * L \in Nat
    BY <1>1, <1>3, Monotone
  <2>. QED  BY <1>1, <1>3, <2>1
<1>5. S * y + Y \in Nat /\ S * y + Y < H
  <2>1. S * (y + 1) <= S * R /\ S * (y + 1) = S * y + S /\ S * y \in Nat /\ S * R \in Nat
    BY <1>1, <1>3, Monotone
  <2>. QED  BY <1>1, <1>3, <2>1
<1>6. o \div P = S * y + Y /\ o % P = S * x + X
  <2>. DEFINE q == S * y + Y
              r == S * x + X
  <2>1. q \in Int /\ r \in 0 .. P - 1 /\ o = P * q + r
    BY <1>1, <1>2, <1>4, <1>5
  <2>2. P * q \in Int
    BY <1>1, <2>1
  <2>3. o \in Int
    BY <2>1, <2>2
  <2>. HIDE DEF q, r
  <2>4. o \div P = q /\ o % P = r
    BY <1>1, <2>1, <2>3, DivModUnique
  <2>. QED  BY <2>4 DEF q, r
<1>7. OnScreen(o)
  BY <1>4, <1>5, <1>6 DEF OnScreen, P, W, H
<1>8. ASSUME NEW n \in Nat, o \in Line(n)
      PROVE  n = y
  <2>1. PICK U \in 0 .. P - 1, V \in 0 .. S - 1 : o = P * (S * n + V) + U
    BY <1>8 DEF Line, Offset, P, S
  <2>. DEFINE q == S * n + V
  <2>2. q \in Int /\ U \in 0 .. P - 1 /\ o = P * q + U
    BY <1>1, <2>1
  <2>3. P * q \in Int
    BY <1>1, <2>2
  <2>4. o \in Int
    BY <1>1, <2>2, <2>3
  <2>5. o \div P = q
    <3>. HIDE DEF q
    <3>. QED  BY <1>1, <2>2, <2>4, DivModUnique
  <2>6. S * n + V = S * y + Y
    BY <1>6, <2>5
  <2>7. V \in Int /\ Y \in Int /\ V - Y < S /\ Y - V < S
    BY <1>1, <1>2, <1>3, <2>1
  <2>. QED  BY <1>1, <1>3, <2>6, <2>7, DivisionUnique
<1>. QED  BY <1>7, <1>8

\* The pixels of the kernel's marks are two glyphs.
LEMMA MarksWritten ==
    ASSUME LinesInv, NEW o \in KernelMarks
    PROVE  \E y \in 2 .. 3 : o \in Glyph(2, y) /\ 2 \in 1 .. LineWidth - 1
<1>1. 2 \in 1 .. LineWidth - 1
  BY Room
<1>. QED  BY <1>1 DEF KernelMarks

\* Every message is on the screen to its last character.
THEOREM MessagesOnScreen == BootSpec => []EveryMessageOnScreen
<1>1. TypeOK /\ BootInv => EveryMessageOnScreen
  <2>. SUFFICES ASSUME TypeOK, BootInv, pc \notin {"initialize", "clear"},
                       NEW o \in ink \cup kInk \cup marks
                PROVE  OnScreen(o)
    BY DEF EveryMessageOnScreen
  <2>0. LinesInv /\ BootInkInv /\ KernelInv /\ pc \in {"idle", "write"}
    BY DEF BootInv, TypeOK
  <2>1. CASE o \in ink
    <3>1. PICK x, y \in Nat : Written(x, y) /\ o \in Glyph(x, y)
      BY <2>0, <2>1 DEF BootInkInv
    <3>. QED  BY <2>0, <3>1, GlyphOnScreen DEF Written
  <2>2. CASE o \in kInk
    <3>1. PICK x \in 1 .. LineWidth - 1 : o \in Glyph(x, 1)
      BY <2>0, <2>2 DEF KernelInv
    <3>. QED  BY <2>0, <3>1, GlyphOnScreen
  <2>3. CASE o \in marks
    <3>1. o \in KernelMarks
      BY <2>0, <2>3 DEF KernelInv
    <3>. QED  BY <2>0, <3>1, MarksWritten, GlyphOnScreen
  <2>. QED  BY <2>1, <2>2, <2>3
<1>. QED  BY <1>1, BootAlways, PTL

\* A message of the loader starts on a line on which nothing is.
THEOREM FreshLines == BootSpec => []MessagesOnFreshLines
<1>1. TypeOK /\ BootInv => MessagesOnFreshLines
  <2>. SUFFICES ASSUME TypeOK, BootInv, pc = "idle", script # <<>>,
                       NEW o \in Line(cursorY), o \in ink \cup kInk \cup marks
                PROVE  FALSE
    BY DEF MessagesOnFreshLines
  <2>0. LinesInv /\ LineInv /\ BootInkInv /\ KernelInv /\ cursorY \in Nat
    BY DEF BootInv, TypeOK
  <2>1. o \in ink
    BY <2>0 DEF KernelInv
  <2>2. PICK x, y \in Nat : Written(x, y) /\ o \in Glyph(x, y)
    BY <2>0, <2>1 DEF BootInkInv
  <2>3. y = cursorY
    BY <2>0, <2>2, GlyphOnScreen DEF Written
  <2>4. x < 1 /\ x > 0
    BY <2>0, <2>2, <2>3 DEF Written, BeforeCursor, LineInv
  <2>. QED  BY <2>2, <2>4
<1>. QED  BY <1>1, BootAlways, PTL

\* The kernel's text falls on "Loading kernel..." only, and unless a check failed its marks
\* fall on no message.
THEOREM MessagesSpared == BootSpec => []KernelSparesMessages
<1>1. ASSUME TypeOK, BootInv, NEW o \in kInk, o \in ink \cup marks
      PROVE  \E z \in 1 .. Len(Text["Loading"]) - 1 : o \in Glyph(z, 1)
  <2>0. LinesInv /\ BootInkInv /\ KernelInv /\ fb \in Screens /\ LineWidth \in Nat
    BY <1>1, Room DEF BootInv
  <2>1. PICK u \in 1 .. LineWidth - 1 : o \in Glyph(u, 1)
    BY <1>1, <2>0 DEF KernelInv
  <2>2. /\ kPc \in {"initialize", "clear", "idle", "write"} /\ pc = "idle"
        /\ marks = KernelMarks
    BY <1>1, <2>0 DEF KernelInv
  <2>3. ASSUME NEW x \in 1 .. LineWidth - 1, NEW y \in Nat \ {0}, o \in Glyph(x, y)
        PROVE  x = u /\ y = 1
    <3>1. x \in 1 .. LineWidth /\ u \in 1 .. LineWidth
      BY <2>0, <2>1
    <3>. QED  BY <2>0, <2>1, <2>3, <3>1, GlyphsDisjoint DEF LineWidth
  <2>4. CASE o \in ink
    <3>1. PICK x, y \in Nat : Written(x, y) /\ o \in Glyph(x, y)
      BY <2>0, <2>2, <2>4 DEF BootInkInv
    <3>2. y = 1
      BY <2>3, <3>1 DEF Written
    <3>3. x <= Len(Text["Loading"]) - 1 /\ x >= 1
      BY <3>1, <3>2 DEF Written
    <3>4. Len(Text["Loading"]) \in Nat
      BY <2>0, Room DEF LoaderMessages
    <3>. QED  BY <3>1, <3>2, <3>3, <3>4
  <2>5. CASE o \in marks
    <3>1. PICK y \in 2 .. 3 : o \in Glyph(2, y) /\ 2 \in 1 .. LineWidth - 1
      BY <2>0, <2>2, <2>5, MarksWritten
    <3>. QED  BY <2>3, <3>1
  <2>. QED  BY <1>1, <2>4, <2>5
<1>2. ASSUME TypeOK, BootInv, failed = {}, NEW o \in marks, o \in ink
      PROVE  FALSE
  <2>1. /\ LinesInv /\ LineInv /\ BootInkInv /\ KernelInv /\ fb \in Screens
        /\ LineWidth \in Nat /\ cursorY \in Nat
    BY <1>2, Room DEF BootInv, TypeOK
  <2>2. marks = KernelMarks /\ pc = "idle" /\ script = <<>> /\ kPc # "returned"
    BY <1>2, <2>1 DEF KernelInv
  <2>3. cursorX = 1 /\ cursorY + 0 + 0 <= 2
    BY <1>2, <2>1, <2>2 DEF BootInv, OneLineInv, LineInv
  <2>4. PICK x, y \in Nat : Written(x, y) /\ o \in Glyph(x, y)
    BY <1>2, <2>1, <2>2 DEF BootInkInv
  <2>5. y = 1 /\ x \in 1 .. LineWidth - 1
    BY <2>1, <2>3, <2>4 DEF Written, BeforeCursor
  <2>6. PICK v \in 2 .. 3 : o \in Glyph(2, v) /\ 2 \in 1 .. LineWidth - 1
    BY <1>2, <2>1, <2>2, MarksWritten
  <2>7. v = y
    <3>1. /\ x \in 1 .. LineWidth /\ 2 \in 1 .. LineWidth
          /\ y \in Nat \ {0} /\ v \in Nat \ {0}
      BY <2>1, <2>5, <2>6
    <3>. QED  BY <2>1, <2>4, <2>6, <3>1, GlyphsDisjoint DEF LineWidth
  <2>. QED  BY <2>5, <2>6, <2>7
<1>3. TypeOK /\ BootInv => KernelSparesMessages
  BY <1>1, <1>2 DEF KernelSparesMessages
<1>. QED  BY <1>3, BootAlways, PTL
=============================================================================
