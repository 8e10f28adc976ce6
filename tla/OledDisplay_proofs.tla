-------------------------- MODULE OledDisplay_proofs ---------------------------
(***************************************************************************)
(* Proofs about OledDisplay for every panel size, font and text: type      *)
(* correctness, that a lit panel is configured, that a flush keeps the     *)
(* pages it showed before its first failed write, and that a line shows    *)
(* the characters that fit whole.                                          *)
(***************************************************************************)
EXTENDS OledDisplay, SequenceTheorems, TLAPS

--------------------------------------------------------------------------------
\* The cells of the panel.

Size == SSD1306_PAGES * SSD1306_WIDTH

\* The constants describe a memory of at least one cell.
LEMMA SizePositive ==
  /\ SSD1306_PAGES \in Nat /\ SSD1306_PAGES > 0
  /\ SSD1306_WIDTH \in Nat /\ SSD1306_WIDTH > 0
  /\ Size \in Nat /\ Size > 0
  /\ Cell = 0 .. Size - 1
<1>1. /\ SSD1306_PAGES \in Nat /\ SSD1306_PAGES > 0
      /\ SSD1306_WIDTH \in Nat /\ SSD1306_WIDTH > 0
  BY OledAssumption
<1>2. \A a, b \in Nat : a > 0 /\ b > 0 => a * b \in Nat /\ a * b > 0
  OBVIOUS
<1>3. Size \in Nat /\ Size > 0
  BY <1>1, <1>2 DEF Size
<1> QED
  BY <1>1, <1>3 DEF Size, Cell

\* A column of a page is a cell.
LEMMA CellOfType ==
  ASSUME NEW p \in 0 .. SSD1306_PAGES - 1, NEW col \in 0 .. SSD1306_WIDTH - 1
  PROVE  CellOf(p, col) \in Cell
<1>1. \A a, b, w \in Nat : a <= b => a * w <= b * w
  OBVIOUS
<1>2. p * SSD1306_WIDTH \in Nat /\ p * SSD1306_WIDTH <= (SSD1306_PAGES - 1) * SSD1306_WIDTH
  BY <1>1, SizePositive
<1>3. (SSD1306_PAGES - 1) * SSD1306_WIDTH = Size - SSD1306_WIDTH
  BY SizePositive DEF Size
<1> QED
  BY <1>2, <1>3, SizePositive DEF CellOf

\* The remainder of a division.
LEMMA ModType ==
  ASSUME NEW a \in Nat, NEW n \in Nat, n > 0
  PROVE  a % n \in 0 .. n - 1
  OBVIOUS

\* A number below n is its own remainder.
LEMMA ModSmall ==
  ASSUME NEW a \in Nat, NEW n \in Nat, a < n
  PROVE  a % n = a
  OBVIOUS

\* Every cell lies on a page.
LEMMA PageOfCell ==
  ASSUME NEW c \in Cell
  PROVE  c \div SSD1306_WIDTH \in 0 .. SSD1306_PAGES - 1
  BY SizePositive DEF Size

\* The controller's pointer never leaves its memory.
LEMMA CellFromType ==
  ASSUME TypeOK, NEW j \in Nat
  PROVE  CellFrom(j) \in Cell
<1>1. ptr \in Nat /\ ptr + j \in Nat
  BY SizePositive DEF TypeOK
<1>2. CASE mode = "horizontal"
  BY <1>1, <1>2, SizePositive, ModType DEF CellFrom, Size
<1>3. CASE mode # "horizontal"
  BY <1>1, <1>3, SizePositive, ModType, PageOfCell, CellOfType DEF CellFrom, TypeOK
<1> QED
  BY <1>2, <1>3

--------------------------------------------------------------------------------
\* Type correctness.

\* A string that has lost its first character is a string.
LEMMA TextTail ==
  ASSUME NEW s \in Text, s # <<>>
  PROVE  Head(s) \in Glyph /\ Tail(s) \in Text
<1>1. PICK n \in 0 .. MaxText : s \in [1 .. n -> Glyph]
  BY DEF Text
<1>2. s \in Seq(Glyph) /\ Len(s) = n /\ n > 0
  BY <1>1, OledAssumption
<1>3. /\ Head(s) \in Glyph
      /\ Tail(s) \in Seq(Glyph) /\ Len(Tail(s)) = n - 1
  BY <1>2, HeadTailProperties
<1>4. n - 1 \in 0 .. MaxText
  BY <1>2, OledAssumption
<1>5. Tail(s) \in [1 .. n - 1 -> Glyph]
  BY <1>3, LenProperties
<1> QED
  BY <1>3, <1>4, <1>5 DEF Text

\* The empty text is one, and a blank memory is of the right type.
LEMMA EmptyText == <<>> \in Text
<1>1. 0 \in 0 .. MaxText /\ <<>> \in [1 .. 0 -> Glyph]
  BY OledAssumption
<1> QED
  BY <1>1 DEF Text

\* A blank picture is a picture.
LEMMA BlankType == Blank \in [Cell -> Byte \cup {Noise}]
  BY OledAssumption DEF Blank

\* What a failing write changes of the bus.
LEMMA DeliversType ==
  ASSUME TypeOK, NEW n, NEW k, Delivers(n, k)
  PROVE  dead' \in BOOLEAN /\ faults' \in 0 .. MaxFaults
<1>1. dead' \in BOOLEAN
  BY Zenon DEF TypeOK, Delivers, busVars
<1>2. faults' \in 0 .. MaxFaults
  BY OledAssumption DEF TypeOK, Delivers, busVars
<1> QED
  BY <1>1, <1>2

\* A page that is sent leaves the panel's memory and pointer well formed.
LEMMA StoresType ==
  ASSUME TypeOK, page < SSD1306_PAGES,
         NEW k \in 0 .. SSD1306_WIDTH, Stores(Row(page), k)
  PROVE  ram' \in [Cell -> Byte \cup {Noise}] /\ ptr' \in Cell
<1>1. page \in 0 .. SSD1306_PAGES - 1
  BY SizePositive DEF TypeOK
<1>2. \A j \in 0 .. k - 1 : j \in 0 .. SSD1306_WIDTH - 1
  BY SizePositive
<1>3. \A j \in 0 .. k - 1 : Row(page)[j] \in Byte \cup {Noise}
  BY <1>1, <1>2, CellOfType DEF Row, TypeOK
<1>4. ASSUME NEW c \in Cell
      PROVE  (IF \E j \in 0 .. k - 1 : CellFrom(j) = c
              THEN Row(page)[CHOOSE j \in 0 .. k - 1 : CellFrom(j) = c]
              ELSE ram[c]) \in Byte \cup {Noise}
  <2>1. CASE \E j \in 0 .. k - 1 : CellFrom(j) = c
    <3> DEFINE j == CHOOSE i \in 0 .. k - 1 : CellFrom(i) = c
    <3>1. j \in 0 .. k - 1
      BY <2>1
    <3>2. Row(page)[j] \in Byte \cup {Noise}
      BY <3>1, <1>3
    <3> QED
      BY <2>1, <3>2
  <2>2. CASE ~ \E j \in 0 .. k - 1 : CellFrom(j) = c
    BY <2>2 DEF TypeOK
  <2> QED
    BY <2>1, <2>2
<1>5. ram' \in [Cell -> Byte \cup {Noise}]
  BY <1>4 DEF Stores
<1>6. ptr' \in Cell
  BY CellFromType, SizePositive DEF Stores
<1> QED
  BY <1>5, <1>6

\* Where the two loops over the pages are.
InLoop == /\ step \in {"init", "draw", "char", "page"} => page < SSD1306_PAGES
          /\ step = "page" => intact <= page

TInv == TypeOK /\ InLoop

\* Types are kept, with the page counter of ssd1306_flush within its loop.
LEMMA InitTInv == Init => TInv
<1>1. Init => ram \in [Cell -> Byte \cup {Noise}] /\ fb \in [Cell -> Byte \cup {Noise}]
  BY DEF Init
<1>2. 0 \in Cell
  BY SizePositive
<1>3. Init => on \in BOOLEAN /\ dead \in BOOLEAN /\ failed \in BOOLEAN
  BY Zenon DEF Init
<1> QED
  BY <1>1, <1>2, <1>3, EmptyText, OledAssumption DEF Init, TInv, TypeOK, InLoop

\* Every step keeps the types.
LEMMA NextTInv == TInv /\ [Next]_vars => TInv'
<1> SUFFICES ASSUME TypeOK, InLoop, [Next]_vars
             PROVE  TypeOK' /\ InLoop'
  BY DEF TInv
<1> USE DEF InLoop
<1>1. CASE PanelInit
  <2>1. PICK k \in 0 .. Len(InitSeq) :
          /\ Delivers(Len(InitSeq), k)
          /\ mode' = (IF Gets(k, "mode") THEN "horizontal" ELSE mode)
          /\ on' = Gets(k, "on")
    BY <1>1 DEF PanelInit
  <2>2. dead' \in BOOLEAN /\ faults' \in 0 .. MaxFaults
    BY <2>1, DeliversType
  <2>3. on' \in BOOLEAN
    BY <2>1, Zenon DEF Gets
  <2>4. mode' \in {"page", "horizontal"}
    BY <2>1 DEF TypeOK
  <2>5. /\ step = "init" /\ step' = "draw" /\ fb' = Blank
        /\ UNCHANGED <<page, drawVars, ptr, ram, flushVars>>
    BY <1>1 DEF PanelInit
  <2> QED
    BY <2>2, <2>3, <2>4, <2>5, BlankType DEF TypeOK, drawVars, flushVars
<1>2. CASE DrawLine
  BY <1>2, OledAssumption DEF DrawLine, TypeOK, panelVars, busVars, flushVars
<1>3. CASE DrawChar
  <2>1. Head(text) \in Glyph /\ text' \in Text
    BY <1>3, TextTail DEF DrawChar, TypeOK
  <2>2. x' \in 0 .. SSD1306_WIDTH + GLYPH_WIDTH
    BY <1>3, OledAssumption DEF DrawChar, Fits, TypeOK
  <2>3. ASSUME NEW c \in Cell
        PROVE  (IF Inked(c) = {} THEN fb[c]
                ELSE Head(text)[CHOOSE col \in Inked(c) : TRUE]) \in Byte \cup {Noise}
    <3>1. CASE Inked(c) = {}
      BY <3>1 DEF TypeOK
    <3>2. CASE Inked(c) # {}
      <4>1. (CHOOSE col \in Inked(c) : TRUE) \in 1 .. GLYPH_WIDTH
        BY <3>2 DEF Inked
      <4> QED
        BY <3>2, <4>1, <2>1 DEF Glyph
    <3> QED
      BY <3>1, <3>2
  <2>4. fb' \in [Cell -> Byte \cup {Noise}]
    BY <2>3, <1>3 DEF DrawChar
  <2> QED
    BY <1>3, <2>1, <2>2, <2>4 DEF DrawChar, TypeOK, panelVars, busVars, flushVars
<1>4. CASE LineDone
  BY <1>4, EmptyText, OledAssumption
  DEF LineDone, TypeOK, panelVars, busVars, flushVars
<1>5. CASE FlushReset
  <2>1. PICK k \in 0 .. 2 :
          /\ Delivers(2, k)
          /\ ptr' = (IF mode # "horizontal" \/ k = 0 THEN ptr
                     ELSE IF k = 1 THEN CellOf(ptr \div SSD1306_WIDTH, 0)
                     ELSE 0)
          /\ failed' = (k < 2)
    BY <1>5 DEF FlushReset
  <2>2. dead' \in BOOLEAN /\ faults' \in 0 .. MaxFaults
    BY <2>1, DeliversType
  <2>3. ptr' \in Cell
    <3>1. ptr \in Cell /\ 0 \in Cell
      BY SizePositive DEF TypeOK
    <3>2. CellOf(ptr \div SSD1306_WIDTH, 0) \in Cell
      BY <3>1, SizePositive, PageOfCell, CellOfType
    <3> QED
      BY <2>1, <3>1, <3>2
  <2>4. failed' \in BOOLEAN
    BY <2>1
  <2>5. /\ intact' = 0 /\ page' = 0 /\ step' = "page"
        /\ UNCHANGED <<fb, drawVars, mode, on, ram>>
    BY <1>5 DEF FlushReset
  <2> QED
    BY <2>2, <2>3, <2>4, <2>5, OledAssumption DEF TypeOK, drawVars
<1>6. CASE FlushPage
  <2>1. PICK k \in 0 .. SSD1306_WIDTH :
          /\ Delivers(SSD1306_WIDTH, k)
          /\ Stores(Row(page), k)
          /\ failed' = (failed \/ k < SSD1306_WIDTH)
    BY <1>6 DEF FlushPage
  <2>2. dead' \in BOOLEAN /\ faults' \in 0 .. MaxFaults
    BY <2>1, DeliversType
  <2>3. page < SSD1306_PAGES
    BY <1>6 DEF FlushPage
  <2>4. ram' \in [Cell -> Byte \cup {Noise}] /\ ptr' \in Cell
    BY <2>1, <2>3, StoresType
  <2>5. failed' \in BOOLEAN
    BY <2>1, Zenon DEF TypeOK
  <2>6. page' = page + 1 /\ page' \in 0 .. SSD1306_PAGES
    BY <1>6, <2>3, SizePositive DEF FlushPage, TypeOK
  <2>7. step' = (IF page' = SSD1306_PAGES THEN "delay" ELSE "page")
    BY <1>6 DEF FlushPage
  <2> QED
    BY <2>2, <2>4, <2>5, <2>6, <2>7, <1>6, SizePositive DEF FlushPage, TypeOK, drawVars
<1>7. CASE NextFrame
  BY <1>7, BlankType, OledAssumption
  DEF NextFrame, TypeOK, drawVars, panelVars, busVars, flushVars
<1>8. CASE UNCHANGED vars
  BY <1>8 DEF vars, TypeOK, drawVars, panelVars, busVars, flushVars
<1> QED
  BY <1>1, <1>2, <1>3, <1>4, <1>5, <1>6, <1>7, <1>8 DEF Next

\* Every variable of the task and of the panel keeps its type: no write of a flush
\* and no character of any text leaves the memory it belongs to.
THEOREM TypeCorrect == Spec => []TypeOK
<1>1. TInv => TypeOK
  BY DEF TInv
<1> QED
  BY <1>1, InitTInv, NextTInv, PTL DEF Spec

--------------------------------------------------------------------------------
\* The panel lights up only when it is configured.

Configured == /\ step = "init" => ~on
              /\ on => mode = "horizontal"

\* The addressing mode comes before the command that lights the panel.
LEMMA ModeBeforeOn ==
  ASSUME NEW k \in 0 .. Len(InitSeq), Gets(k, "on")
  PROVE  Gets(k, "mode")
<1>1. /\ InitSeq[1] = "off" /\ InitSeq[2] = "config" /\ InitSeq[3] = "mode"
      /\ InitSeq[4] = "config" /\ InitSeq[5] = "on" /\ Len(InitSeq) = 5
  BY DEF InitSeq
<1>2. PICK j \in 1 .. k : InitSeq[j] = "on"
  BY DEF Gets
<1>3. j = 5
  BY <1>1, <1>2
<1> QED
  BY <1>1, <1>3 DEF Gets

\* The controller is switched on only by a sequence that has set its mode before.
LEMMA NextConfigured == Configured /\ [Next]_vars => Configured'
<1> SUFFICES ASSUME Configured, [Next]_vars
             PROVE  Configured'
  OBVIOUS
<1>1. CASE PanelInit
  <2>1. PICK k \in 0 .. Len(InitSeq) :
          /\ mode' = (IF Gets(k, "mode") THEN "horizontal" ELSE mode)
          /\ on' = Gets(k, "on")
    BY <1>1 DEF PanelInit
  <2>2. CASE Gets(k, "on")
    BY <1>1, <2>1, <2>2, ModeBeforeOn DEF PanelInit, Configured
  <2>3. CASE ~Gets(k, "on")
    <3>1. ~on'
      BY <2>1, <2>3, Zenon
    <3> QED
      BY <1>1, <3>1 DEF PanelInit, Configured
  <2> QED
    BY <2>2, <2>3
<1>2. ASSUME ~PanelInit
      PROVE  /\ mode = "horizontal" => mode' = "horizontal"
             /\ on' => on
             /\ step' = "init" => step = "init"
  BY <1>2 DEF Next, DrawLine, DrawChar, LineDone, FlushReset, FlushPage, NextFrame,
              Stores, vars, panelVars
<1>3. CASE ~PanelInit
  BY <1>2, <1>3, Zenon DEF Configured
<1> QED
  BY <1>1, <1>3

\* A panel that lights up has its addressing mode set, wherever the one
\* initialisation that it is sent breaks off.
THEOREM LitIsConfigured == Spec => []LitOnlyIfConfigured
<1>1. Init => Configured
  BY Zenon DEF Init, Configured
<1>2. Configured => LitOnlyIfConfigured
  BY DEF Configured, LitOnlyIfConfigured
<1> QED
  BY <1>1, <1>2, NextConfigured, PTL DEF Spec

--------------------------------------------------------------------------------
\* A flush keeps the pages it showed before its first failed write.

\* Without a failed write the controller's pointer is where the next page belongs.
\* After one it lags behind, so the pages that are still to come cannot take it round
\* the end of the memory to the pages that are intact.
InPlace ==
  mode = "horizontal" /\ step \in {"page", "delay"} =>
    /\ intact <= page
    /\ step = "delay" => page = SSD1306_PAGES
    /\ ~failed => /\ intact = page
                  /\ ptr = (IF page = SSD1306_PAGES THEN 0 ELSE CellOf(page, 0))
    /\ failed /\ intact > 0 => /\ CellOf(intact, 0) <= ptr
                              /\ ptr + CellOf(SSD1306_PAGES - page, 0) < Size
    /\ \A c \in Cell : c < CellOf(intact, 0) => ram[c] = fb[c]

\* A packet that does not reach the end of the memory goes to the cells behind ptr.
LEMMA StoresInARow ==
  ASSUME TypeOK, mode = "horizontal", page < SSD1306_PAGES,
         NEW k \in 0 .. SSD1306_WIDTH, ptr + k <= Size,
         Stores(Row(page), k)
  PROVE  /\ \A c \in Cell : c < ptr => ram'[c] = ram[c]
         /\ \A c \in Cell : ptr <= c /\ c < ptr + k
                           => ram'[c] = fb[CellOf(page, c - ptr)]
         /\ ptr' = (IF ptr + k = Size THEN 0 ELSE ptr + k)
<1>1. ptr \in Nat /\ ptr < Size /\ k \in Nat /\ page \in 0 .. SSD1306_PAGES - 1
  BY SizePositive DEF TypeOK
<1>2. \A j \in 0 .. k - 1 : CellFrom(j) = ptr + j
  <2> SUFFICES ASSUME NEW j \in 0 .. k - 1
               PROVE  (ptr + j) % Size = ptr + j
    BY DEF CellFrom, Size
  <2>1. ptr + j \in Nat /\ ptr + j < Size
    BY <1>1, SizePositive
  <2> QED
    BY <2>1, ModSmall, SizePositive
<1>3. ASSUME NEW c \in Cell, c < ptr
      PROVE  ram'[c] = ram[c]
  BY <1>1, <1>2, <1>3, SizePositive DEF Stores
<1>4. ASSUME NEW c \in Cell, ptr <= c, c < ptr + k
      PROVE  ram'[c] = fb[CellOf(page, c - ptr)]
  <2>1. c \in Nat /\ c - ptr \in 0 .. k - 1 /\ CellFrom(c - ptr) = c
    BY <1>1, <1>2, <1>4, SizePositive
  <2>2. (CHOOSE j \in 0 .. k - 1 : CellFrom(j) = c) = c - ptr
    <3>1. \A j \in 0 .. k - 1 : CellFrom(j) = c => j = c - ptr
      BY <1>1, <1>2, <2>1
    <3> QED
      BY <2>1, <3>1
  <2>3. ram'[c] = Row(page)[c - ptr]
    BY <2>1, <2>2 DEF Stores
  <2>4. c - ptr \in 0 .. SSD1306_WIDTH - 1
    BY <2>1, SizePositive
  <2> QED
    BY <2>3, <2>4 DEF Row
<1>5. ptr' = (IF ptr + k = Size THEN 0 ELSE ptr + k)
  <2>1. ptr' = (ptr + k) % Size
    BY DEF Stores, CellFrom, Size
  <2>2. Size % Size = 0
    BY SizePositive
  <2>3. ptr + k # Size => (ptr + k) % Size = ptr + k
    BY <1>1, ModSmall, SizePositive
  <2> QED
    BY <2>1, <2>2, <2>3
<1> QED
  BY <1>3, <1>4, <1>5

\* A page that was sent whole lies where its page number says, until a write fails.
LEMMA NextInPlace ==
  TInv /\ Configured /\ InPlace /\ [Next]_vars => InPlace'
<1> SUFFICES ASSUME TypeOK, InLoop, InPlace, [Next]_vars,
                    mode' = "horizontal", step' \in {"page", "delay"}
             PROVE  /\ intact' <= page'
                    /\ step' = "delay" => page' = SSD1306_PAGES
                    /\ ~failed' => /\ intact' = page'
                                   /\ ptr' = (IF page' = SSD1306_PAGES THEN 0
                                              ELSE CellOf(page', 0))
                    /\ failed' /\ intact' > 0 =>
                         /\ CellOf(intact', 0) <= ptr'
                         /\ ptr' + CellOf(SSD1306_PAGES - page', 0) < Size
                    /\ \A c \in Cell : c < CellOf(intact', 0) => ram'[c] = fb'[c]
  BY DEF TInv, InPlace, CellOf, Size
<1>0. /\ SSD1306_PAGES \in Nat /\ SSD1306_WIDTH \in Nat
      /\ SSD1306_PAGES > 0 /\ SSD1306_WIDTH > 0
      /\ page \in Nat /\ intact \in Nat /\ ptr \in Nat
  BY SizePositive DEF TypeOK
<1>1. CASE FlushReset
  <2>1. PICK k \in 0 .. 2 :
          /\ ptr' = (IF mode # "horizontal" \/ k = 0 THEN ptr
                     ELSE IF k = 1 THEN CellOf(ptr \div SSD1306_WIDTH, 0)
                     ELSE 0)
          /\ k < 2 => failed'
    BY <1>1 DEF FlushReset
  <2>2. intact' = 0 /\ page' = 0 /\ step' = "page" /\ mode = "horizontal"
    BY <1>1 DEF FlushReset
  <2>3. CellOf(0, 0) = 0
    BY <1>0 DEF CellOf
  <2>4. ~failed' => ptr' = 0
    BY <2>1, <2>2
  <2> QED
    BY <2>2, <2>3, <2>4, <1>0, SizePositive
<1>2. CASE FlushPage
  <2>1. PICK k \in 0 .. SSD1306_WIDTH :
          /\ Stores(Row(page), k)
          /\ failed' <=> failed \/ k < SSD1306_WIDTH
    BY <1>2 DEF FlushPage
  <2>2. /\ mode = "horizontal" /\ step = "page" /\ fb' = fb
        /\ page' = page + 1 /\ page < SSD1306_PAGES
        /\ intact' = (IF failed' THEN intact ELSE intact + 1)
        /\ step' = "delay" => page' = SSD1306_PAGES
    BY <1>2 DEF FlushPage, InLoop
  <2>3. CellOf(page + 1, 0) = CellOf(page, 0) + SSD1306_WIDTH
    BY <1>0 DEF CellOf
  <2>4. /\ CellOf(SSD1306_PAGES, 0) = Size
        /\ CellOf(SSD1306_PAGES - page, 0) = Size - CellOf(page, 0)
        /\ CellOf(page, 0) \in Nat /\ CellOf(intact, 0) \in Nat
        /\ CellOf(page + 1, 0) <= Size
        /\ intact <= page => CellOf(intact, 0) <= CellOf(page, 0)
    BY <1>0, <2>2 DEF CellOf, Size
  <2>5. CellOf(SSD1306_PAGES - page', 0)
          = CellOf(SSD1306_PAGES - page, 0) - SSD1306_WIDTH
    BY <1>0, <2>2 DEF CellOf
  <2>6. CASE failed
    <3>1. failed' /\ intact' = intact
      BY <2>1, <2>2, <2>6
    <3>2. CASE intact = 0
      <4>1. CellOf(0, 0) = 0
        BY <1>0 DEF CellOf
      <4> QED
        BY <2>2, <3>1, <3>2, <4>1, <1>0, SizePositive
    <3>3. CASE intact > 0
      <4>1. CellOf(intact, 0) <= ptr /\ ptr + CellOf(SSD1306_PAGES - page, 0) < Size
        BY <2>2, <2>6, <3>3 DEF InPlace
      <4>2. ptr + SSD1306_WIDTH < Size
        BY <4>1, <2>3, <2>4, <1>0, SizePositive
      <4>3. ptr' = ptr + k /\ \A c \in Cell : c < ptr => ram'[c] = ram[c]
        BY <2>1, <2>2, <4>2, <1>0, StoresInARow, SizePositive
      <4>4. \A c \in Cell : c < CellOf(intact, 0) => ram'[c] = fb[c]
        BY <2>2, <4>1, <4>3, <2>4, <1>0, SizePositive DEF InPlace
      <4> QED
        BY <2>2, <2>4, <2>5, <3>1, <4>1, <4>3, <4>4, <1>0, SizePositive DEF InPlace
    <3> QED
      BY <3>2, <3>3, <1>0
  <2>7. CASE ~failed
    <3>0. page # SSD1306_PAGES
      BY <2>2, <1>0
    <3>1. intact = page /\ ptr = CellOf(page, 0)
      BY <2>2, <2>7, <3>0, Zenon DEF InPlace
    <3>2. ptr + k <= Size
      BY <3>1, <2>3, <2>4, <1>0, SizePositive
    <3>3. /\ \A c \in Cell : c < ptr => ram'[c] = ram[c]
          /\ \A c \in Cell : ptr <= c /\ c < ptr + k
                            => ram'[c] = fb[CellOf(page, c - ptr)]
          /\ ptr' = (IF ptr + k = Size THEN 0 ELSE ptr + k)
      BY <2>1, <2>2, <3>2, StoresInARow
    <3>4. \A c \in Cell : ptr <= c => CellOf(page, c - ptr) = c
      BY <3>1, <1>0, SizePositive DEF CellOf
    <3>5. \A c \in Cell : c < ptr + k => ram'[c] = fb[c]
      BY <2>2, <2>4, <3>1, <3>3, <3>4, <1>0, SizePositive DEF InPlace
    <3>6. CASE k = SSD1306_WIDTH
      <4>1. ~failed' /\ intact' = page + 1
        BY <2>1, <2>2, <2>7, <3>1, <3>6, <1>0
      <4>2. page' = SSD1306_PAGES <=> CellOf(page + 1, 0) = Size
        BY <1>0, <2>2 DEF CellOf, Size
      <4>3. ptr' = (IF page' = SSD1306_PAGES THEN 0 ELSE CellOf(page', 0))
        BY <2>2, <2>3, <3>1, <3>3, <3>6, <4>2
      <4> QED
        BY <2>2, <2>3, <3>1, <3>5, <3>6, <4>1, <4>3, <1>0, SizePositive
    <3>7. CASE k < SSD1306_WIDTH
      <4>1. failed' /\ intact' = page
        BY <2>1, <2>2, <3>1, <3>7
      <4>2. ptr' = CellOf(page, 0) + k
        BY <2>3, <2>4, <3>1, <3>3, <3>7, <1>0, SizePositive
      <4>3. ptr' + CellOf(SSD1306_PAGES - page', 0) < Size
        BY <2>4, <2>5, <4>2, <3>7, <1>0, SizePositive
      <4> QED
        BY <2>2, <2>4, <3>1, <3>5, <4>1, <4>2, <4>3, <1>0, SizePositive
    <3> QED
      BY <3>6, <3>7, <1>0
  <2> QED
    BY <2>6, <2>7, Zenon DEF TypeOK
<1>3. CASE UNCHANGED vars
  BY <1>3, <1>0 DEF vars, flushVars, panelVars, InPlace
<1>4. CASE PanelInit \/ DrawLine \/ DrawChar \/ LineDone \/ NextFrame
  BY <1>4 DEF PanelInit, DrawLine, DrawChar, LineDone, NextFrame
<1> QED
  BY <1>1, <1>2, <1>3, <1>4 DEF Next

\* On a panel of any size, with any number of failed writes: the pages that a flush
\* sent before its first failed write are shown, and stay, until the next frame.
THEOREM IntactPagesShown == Spec => []PagesBeforeFailureShown
<1>1. Init => TInv /\ Configured /\ InPlace
  <2>1. Init => InPlace
    BY DEF Init, InPlace
  <2>2. Init => Configured
    BY Zenon DEF Init, Configured
  <2> QED
    BY <2>1, <2>2, InitTInv
<1>2. TInv /\ Configured /\ InPlace => PagesBeforeFailureShown
  <2> SUFFICES ASSUME TInv, Configured, InPlace, on, step \in {"page", "delay"},
                      NEW c \in Cell, c < intact * SSD1306_WIDTH
               PROVE  ram[c] = fb[c]
    BY DEF PagesBeforeFailureShown
  <2>1. mode = "horizontal"
    BY Zenon DEF Configured
  <2>2. CellOf(intact, 0) = intact * SSD1306_WIDTH
    BY SizePositive DEF CellOf, TInv, TypeOK
  <2> QED
    BY <2>1, <2>2 DEF InPlace
<1> QED
  BY <1>1, <1>2, NextTInv, NextConfigured, NextInPlace, PTL DEF Spec

--------------------------------------------------------------------------------
\* A line shows the characters that fit whole.

\* The column counter is a uint8_t: the line has to end before it wraps.
WidthFits == SSD1306_WIDTH + 1 < 256

Pitch == GLYPH_WIDTH + 1

\* What the page shows once n characters have been drawn.
ShownUpTo(n, col) ==
  IF col \div Pitch < n /\ (col % Pitch) + 1 <= GLYPH_WIDTH
  THEN line[(col \div Pitch) + 1][(col % Pitch) + 1] ELSE 0

BlankFrom(p) == \A q \in 0 .. SSD1306_PAGES - 1, col \in 0 .. SSD1306_WIDTH - 1 :
                  q >= p => fb[CellOf(q, col)] = 0

DrawnTo(n) ==
  /\ x = n * Pitch /\ x <= SSD1306_WIDTH + 1
  /\ Len(text) = Len(line) - n
  /\ \A j \in 1 .. Len(text) : text[j] = line[n + j]
  /\ \A p \in 0 .. SSD1306_PAGES - 1, col \in 0 .. SSD1306_WIDTH - 1 :
       p >= page => fb[CellOf(p, col)] = IF p = page THEN ShownUpTo(n, col) ELSE 0

\* Between two lines the pages from here on are blank; within one, its first n
\* characters have been drawn.
Drawn == /\ step = "draw" => BlankFrom(page)
         /\ step = "char" => \E n \in 0 .. Len(line) : DrawnTo(n)

\* A line of characters is a sequence.
LEMMA TextIsSeq ==
  ASSUME NEW s \in Text
  PROVE  s \in Seq(Glyph) /\ Len(s) \in Nat
<1>1. PICK n \in 0 .. MaxText : s \in [1 .. n -> Glyph]
  BY DEF Text
<1>2. n \in Nat
  BY OledAssumption
<1> QED
  BY <1>1, <1>2

\* Where a column is among the characters.
LEMMA Columns ==
  ASSUME NEW col \in Nat
  PROVE  /\ Pitch \in Nat /\ Pitch > 0
         /\ col \div Pitch \in Nat /\ col % Pitch \in 0 .. GLYPH_WIDTH
         /\ col = (col \div Pitch) * Pitch + (col % Pitch)
<1>1. Pitch \in Nat /\ Pitch > 0 /\ GLYPH_WIDTH = Pitch - 1
  BY OledAssumption DEF Pitch
<1>2. \A n \in Nat : n > 0 => /\ col \div n \in Nat /\ col % n \in 0 .. n - 1
                              /\ col = (col \div n) * n + (col % n)
  OBVIOUS
<1> QED
  BY <1>1, <1>2

\* Multiples of the pitch are ordered as their factors are.
LEMMA TimesPitch ==
  ASSUME NEW a \in Nat, NEW b \in Nat
  PROVE  /\ a * Pitch \in Nat /\ b * Pitch \in Nat
         /\ (a + 1) * Pitch = a * Pitch + Pitch
         /\ a <= b <=> a * Pitch <= b * Pitch
<1>1. Pitch \in Nat /\ Pitch > 0
  BY OledAssumption DEF Pitch
<1>2. \A d \in Nat : d > 0 => /\ a * d \in Nat /\ b * d \in Nat
                              /\ (a + 1) * d = a * d + d
                              /\ a <= b => a * d <= b * d
                              /\ b + 1 <= a => (b + 1) * d <= a * d
                              /\ (b + 1) * d = b * d + d
  OBVIOUS
<1> QED
  BY <1>1, <1>2

\* The column after n whole characters and k more columns.
LEMMA ColumnAfter ==
  ASSUME NEW n \in Nat, NEW k \in 1 .. GLYPH_WIDTH
  PROVE  /\ (n * Pitch + k - 1) \div Pitch = n
         /\ (n * Pitch + k - 1) % Pitch = k - 1
<1> DEFINE col == n * Pitch + k - 1
<1>1. /\ n * Pitch \in Nat /\ col \in Nat /\ Pitch \in Nat /\ Pitch > 0
      /\ k - 1 < Pitch
  BY TimesPitch, OledAssumption DEF Pitch
<1>2. /\ col \div Pitch \in Nat
      /\ col % Pitch \in 0 .. GLYPH_WIDTH
      /\ col = (col \div Pitch) * Pitch + (col % Pitch)
  BY <1>1, Columns
<1> DEFINE i == col \div Pitch
<1>3. i <= n
  <2>1. i * Pitch < (n + 1) * Pitch
    BY <1>1, <1>2, TimesPitch
  <2> QED
    BY <2>1, <1>2, TimesPitch
<1>4. n <= i
  <2>1. n * Pitch < (i + 1) * Pitch
    BY <1>1, <1>2, TimesPitch, OledAssumption DEF Pitch
  <2> QED
    BY <2>1, <1>2, TimesPitch
<1>5. i = n
  BY <1>2, <1>3, <1>4
<1> QED
  BY <1>1, <1>2, <1>5

\* Two cells are the same only if they are on the same page.
LEMMA CellsDiffer ==
  ASSUME NEW p \in 0 .. SSD1306_PAGES - 1, NEW q \in 0 .. SSD1306_PAGES - 1,
         NEW a \in 0 .. SSD1306_WIDTH - 1, NEW b \in 0 .. SSD1306_WIDTH - 1,
         CellOf(p, a) = CellOf(q, b)
  PROVE  p = q /\ a = b
<1>1. \A i, j, w \in Nat : i + 1 <= j => i * w + w <= j * w
  <2>1. \A i, j, w \in Nat : i + 1 <= j => (i + 1) * w <= j * w
    OBVIOUS
  <2>2. \A i, w \in Nat : (i + 1) * w = i * w + w
    OBVIOUS
  <2> QED
    BY <2>1, <2>2
<1>2. /\ p * SSD1306_WIDTH \in Nat /\ q * SSD1306_WIDTH \in Nat
      /\ p \in Nat /\ q \in Nat
  BY SizePositive
<1>3. /\ p + 1 <= q => p * SSD1306_WIDTH + SSD1306_WIDTH <= q * SSD1306_WIDTH
      /\ q + 1 <= p => q * SSD1306_WIDTH + SSD1306_WIDTH <= p * SSD1306_WIDTH
  BY <1>1, <1>2, SizePositive
<1> QED
  BY <1>2, <1>3, SizePositive DEF CellOf

\* Drawing a character changes its own columns only.
LEMMA CharDrawn ==
  ASSUME TypeOK, InLoop, WidthFits, DrawChar, NEW n \in 0 .. Len(line), DrawnTo(n)
  PROVE  n + 1 \in 0 .. Len(line) /\ DrawnTo(n + 1)'
<1>1. /\ step = "char" /\ text # <<>> /\ Fits
      /\ text' = Tail(text) /\ x' = (x + GLYPH_WIDTH + 1) % 256
      /\ page' = page /\ line' = line
      /\ fb' = [c \in Cell |-> IF Inked(c) = {} THEN fb[c]
                               ELSE Head(text)[CHOOSE col \in Inked(c) : TRUE]]
  BY DEF DrawChar
<1>2. /\ text \in Seq(Glyph) /\ line \in Seq(Glyph)
      /\ Len(text) \in Nat /\ Len(line) \in Nat /\ n \in Nat
  BY TextIsSeq DEF TypeOK
<1>3. /\ Len(text) > 0 /\ Head(text) = text[1]
      /\ Len(Tail(text)) = Len(text) - 1
      /\ \A j \in 1 .. Len(text) - 1 : Tail(text)[j] = text[j + 1]
  BY <1>1, <1>2, HeadTailProperties
<1>4. n + 1 \in 0 .. Len(line)
  BY <1>2, <1>3 DEF DrawnTo
<1>5. /\ n * Pitch \in Nat /\ (n + 1) * Pitch = n * Pitch + Pitch
      /\ x = n * Pitch /\ Pitch = GLYPH_WIDTH + 1 /\ GLYPH_WIDTH \in Nat \ {0}
      /\ x + GLYPH_WIDTH <= SSD1306_WIDTH
  BY <1>1, <1>2, TimesPitch, OledAssumption DEF DrawnTo, Pitch, Fits
<1>6. x' = (n + 1) * Pitch /\ x' <= SSD1306_WIDTH + 1
  <2>1. x + GLYPH_WIDTH + 1 \in Nat /\ x + GLYPH_WIDTH + 1 < 256
    BY <1>5, SizePositive DEF WidthFits
  <2>2. x' = x + GLYPH_WIDTH + 1
    BY <1>1, <2>1, ModSmall
  <2> QED
    BY <2>2, <1>5, SizePositive
<1>7. Len(text') = Len(line') - (n + 1)
  BY <1>1, <1>2, <1>3 DEF DrawnTo
<1>8. \A j \in 1 .. Len(text') : text'[j] = line'[(n + 1) + j]
  <2> SUFFICES ASSUME NEW j \in 1 .. Len(text) - 1
               PROVE  Tail(text)[j] = line[(n + 1) + j]
    BY <1>1, <1>2, <1>3
  <2>1. j + 1 \in 1 .. Len(text) /\ n + (j + 1) = (n + 1) + j
    BY <1>2
  <2> QED
    BY <2>1, <1>3 DEF DrawnTo
<1>9. text[1] = line[n + 1]
  BY <1>2, <1>3 DEF DrawnTo
<1>10. ASSUME NEW p \in 0 .. SSD1306_PAGES - 1, NEW col \in 0 .. SSD1306_WIDTH - 1, p >= page
       PROVE  fb'[CellOf(p, col)] = IF p = page THEN ShownUpTo(n + 1, col)' ELSE 0
  <2> DEFINE c == CellOf(p, col)
             i == col \div Pitch
             r == col % Pitch
  <2>1. /\ c \in Cell /\ page \in 0 .. SSD1306_PAGES - 1
        /\ col \in Nat /\ i \in Nat /\ r \in 0 .. GLYPH_WIDTH
    <3>1. page \in 0 .. SSD1306_PAGES - 1 /\ col \in Nat /\ c \in Cell
      BY <1>1, CellOfType, SizePositive DEF TypeOK, InLoop
    <3> QED
      BY <3>1, Columns
  <2>2. ASSUME NEW k \in 1 .. GLYPH_WIDTH
        PROVE  k \in Inked(c) <=> p = page /\ col = x + k - 1
    <3>1. x + k - 1 \in 0 .. SSD1306_WIDTH - 1
      BY <1>5, SizePositive
    <3>2. c = CellOf(page, x + k - 1) => p = page /\ col = x + k - 1
      BY <2>1, <3>1, CellsDiffer
    <3>3. k \in Inked(c) <=> c = CellOf(page, x + k - 1)
      BY <3>1, SizePositive DEF Inked
    <3> QED
      BY <3>2, <3>3
  <2>3. fb[c] = IF p = page THEN ShownUpTo(n, col) ELSE 0
    BY <1>10 DEF DrawnTo
  <2>4. fb'[c] = IF Inked(c) = {} THEN fb[c]
                 ELSE Head(text)[CHOOSE k \in Inked(c) : TRUE]
    BY <1>1, <2>1
  <2>5. Inked(c) \subseteq 1 .. GLYPH_WIDTH
    BY DEF Inked
  <2>6. ShownUpTo(n + 1, col)' = ShownUpTo(n + 1, col)
    BY <1>1 DEF ShownUpTo
  <2>7. CASE Inked(c) = {}
    <3>1. p = page => ~ (i = n /\ r + 1 <= GLYPH_WIDTH)
      <4> SUFFICES ASSUME p = page, i = n, r + 1 <= GLYPH_WIDTH
                   PROVE  FALSE
        OBVIOUS
      <4>1. col = n * Pitch + r
        BY <2>1, Columns
      <4>2. r + 1 \in 1 .. GLYPH_WIDTH /\ col = x + (r + 1) - 1
        BY <2>1, <4>1, <1>5
      <4> QED
        BY <4>2, <2>2, <2>7
    <3>2. p = page => ShownUpTo(n + 1, col) = ShownUpTo(n, col)
      <4>1. p = page =>
              (i < n + 1 /\ r + 1 <= GLYPH_WIDTH <=> i < n /\ r + 1 <= GLYPH_WIDTH)
        BY <3>1, <2>1, <1>2
      <4> QED
        BY <4>1 DEF ShownUpTo
    <3> QED
      BY <2>3, <2>4, <2>6, <2>7, <3>2
  <2>8. CASE Inked(c) # {}
    <3> DEFINE k == CHOOSE j \in Inked(c) : TRUE
    <3>1. k \in Inked(c) /\ k \in 1 .. GLYPH_WIDTH
      BY <2>8, <2>5
    <3>2. p = page /\ col = n * Pitch + k - 1
      BY <3>1, <2>2, <1>5
    <3>3. i = n /\ r = k - 1
      BY <3>1, <3>2, <1>2, ColumnAfter
    <3>4. ShownUpTo(n + 1, col) = line[n + 1][k]
      <4>1. i < n + 1 /\ r + 1 <= GLYPH_WIDTH /\ i + 1 = n + 1 /\ r + 1 = k
        BY <3>1, <3>3, <1>2
      <4> QED
        BY <4>1 DEF ShownUpTo
    <3> QED
      BY <2>4, <2>6, <2>8, <3>2, <3>4, <1>3, <1>9
  <2> QED
    BY <2>7, <2>8
<1> QED
  BY <1>1, <1>4, <1>6, <1>7, <1>8, <1>10 DEF DrawnTo

\* A page that is left shows what the closed form says.
LEMMA LineComplete ==
  ASSUME TypeOK, NEW n \in 0 .. Len(line), DrawnTo(n), text = <<>> \/ ~Fits,
         NEW col \in 0 .. SSD1306_WIDTH - 1
  PROVE  ShownUpTo(n, col) = LineShows(col)
<1> DEFINE i == col \div Pitch
<1>1. /\ text \in Seq(Glyph) /\ line \in Seq(Glyph)
      /\ Len(line) \in Nat /\ n \in Nat /\ col \in Nat
      /\ i \in Nat /\ x = n * Pitch /\ Len(text) = Len(line) - n
      /\ Pitch = GLYPH_WIDTH + 1 /\ GLYPH_WIDTH \in Nat
  <2>1. /\ text \in Seq(Glyph) /\ line \in Seq(Glyph) /\ Len(line) \in Nat
    BY TextIsSeq DEF TypeOK
  <2>2. n \in Nat /\ col \in Nat
    BY <2>1, SizePositive
  <2>3. i \in Nat /\ Pitch = GLYPH_WIDTH + 1 /\ GLYPH_WIDTH \in Nat
    BY <2>2, Columns, OledAssumption DEF Pitch
  <2> QED
    BY <2>1, <2>2, <2>3 DEF DrawnTo
<1>2. /\ n * Pitch \in Nat /\ (n + 1) * Pitch = n * Pitch + Pitch
      /\ (i + 1) * Pitch \in Nat
      /\ i + 1 <= n <=> (i + 1) * Pitch <= n * Pitch
      /\ n + 1 <= i + 1 <=> (n + 1) * Pitch <= (i + 1) * Pitch
  <2>1. i + 1 \in Nat /\ n + 1 \in Nat
    BY <1>1
  <2>2. /\ n * Pitch \in Nat /\ (n + 1) * Pitch = n * Pitch + Pitch
        /\ (i + 1) * Pitch \in Nat
        /\ i + 1 <= n <=> (i + 1) * Pitch <= n * Pitch
    BY <1>1, <2>1, TimesPitch
  <2>3. n + 1 <= i + 1 <=> (n + 1) * Pitch <= (i + 1) * Pitch
    BY <2>1, TimesPitch
  <2> HIDE DEF i
  <2> QED
    BY <2>2, <2>3
<1>3. i < n <=> i < Len(line) /\ (i + 1) * Pitch <= SSD1306_WIDTH + 1
  <2>1. ASSUME i < n
        PROVE  i < Len(line) /\ (i + 1) * Pitch <= SSD1306_WIDTH + 1
    BY <2>1, <1>1, <1>2, SizePositive DEF DrawnTo
  <2>2. ASSUME i < Len(line), (i + 1) * Pitch <= SSD1306_WIDTH + 1, ~ (i < n)
        PROVE  FALSE
    <3>1. (n + 1) * Pitch <= SSD1306_WIDTH + 1
      BY <2>2, <1>1, <1>2, SizePositive
    <3>2. Fits
      BY <3>1, <1>1, <1>2, SizePositive DEF Fits
    <3>3. Len(text) = 0
      BY <3>2, <1>1
    <3> QED
      BY <3>3, <2>2, <1>1
  <2> QED
    BY <2>1, <2>2
<1>4. LineShows(col) = IF /\ i < Len(line) /\ (col % Pitch) + 1 <= GLYPH_WIDTH
                          /\ (i + 1) * Pitch <= SSD1306_WIDTH + 1
                       THEN line[i + 1][(col % Pitch) + 1] ELSE 0
  BY DEF LineShows, Pitch
<1> QED
  BY <1>3, <1>4 DEF ShownUpTo

\* Before the first line nothing is claimed.
LEMMA InitDrawn == Init => Drawn
  BY DEF Init, Drawn

\* Lines are drawn on blank pages, one below the other.
LEMMA NextDrawn ==
  WidthFits /\ TInv /\ Drawn /\ [Next]_vars => Drawn'
<1> SUFFICES ASSUME WidthFits, TypeOK, InLoop, Drawn, [Next]_vars
             PROVE  Drawn'
  BY DEF TInv
<1> USE DEF drawVars, panelVars, busVars, flushVars
<1>1. \A p \in 0 .. SSD1306_PAGES - 1, col \in 0 .. SSD1306_WIDTH - 1 :
        Blank[CellOf(p, col)] = 0
  BY CellOfType DEF Blank
<1>2. CASE PanelInit \/ NextFrame
  <2>1. fb' = Blank /\ step' = "draw"
    BY <1>2 DEF PanelInit, NextFrame
  <2> QED
    BY <2>1, <1>1 DEF Drawn, BlankFrom
<1>3. CASE DrawLine
  <2>1. /\ step = "draw" /\ step' = "char" /\ text' \in Text /\ line' = text' /\ x' = 0
        /\ page' = page /\ fb' = fb
    BY <1>3 DEF DrawLine
  <2>2. Len(text') \in Nat /\ Pitch \in Nat /\ 0 * Pitch = 0
    BY <2>1, TextIsSeq, OledAssumption DEF Pitch
  <2>3. ASSUME NEW col \in 0 .. SSD1306_WIDTH - 1
        PROVE  ShownUpTo(0, col)' = 0
    <3>1. ~ (col \div Pitch < 0)
      BY Columns, SizePositive
    <3> QED
      BY <3>1 DEF ShownUpTo
  <2>4. \A p \in 0 .. SSD1306_PAGES - 1, col \in 0 .. SSD1306_WIDTH - 1 :
          p >= page' => fb'[CellOf(p, col)] = IF p = page' THEN ShownUpTo(0, col)' ELSE 0
    BY <2>1, <2>3 DEF Drawn, BlankFrom
  <2>5. /\ x' = 0 * Pitch /\ x' <= SSD1306_WIDTH + 1
        /\ Len(text') = Len(line') - 0
        /\ \A j \in 1 .. Len(text') : text'[j] = line'[0 + j]
    BY <2>1, <2>2, SizePositive
  <2>6. DrawnTo(0)'
    BY <2>4, <2>5 DEF DrawnTo
  <2>7. 0 \in 0 .. Len(line')
    BY <2>1, <2>2
  <2> QED
    BY <2>1, <2>6, <2>7 DEF Drawn
<1>4. CASE DrawChar
  <2>1. step = "char" /\ step' = "char" /\ line' = line
    BY <1>4 DEF DrawChar
  <2>2. PICK n \in 0 .. Len(line) : DrawnTo(n)
    BY <2>1 DEF Drawn
  <2>3. n + 1 \in 0 .. Len(line) /\ DrawnTo(n + 1)'
    BY <2>2, <1>4, CharDrawn
  <2> QED
    BY <2>1, <2>3 DEF Drawn
<1>5. CASE LineDone
  <2>1. /\ step = "char" /\ fb' = fb
        /\ \/ page' = page + 2 /\ step' = "draw"
           \/ step' = "reset"
    BY <1>5 DEF LineDone
  <2>2. PICK n \in 0 .. Len(line) : DrawnTo(n)
    BY <2>1 DEF Drawn
  <2>3. page' = page + 2 => BlankFrom(page)'
    BY <2>1, <2>2, SizePositive DEF BlankFrom, DrawnTo, TypeOK
  <2> QED
    BY <2>1, <2>3 DEF Drawn, BlankFrom
<1>6. CASE FlushReset \/ FlushPage
  <2>1. step' \in {"page", "delay"}
    BY <1>6 DEF FlushReset, FlushPage
  <2> QED
    BY <2>1 DEF Drawn
<1>7. CASE UNCHANGED vars
  BY <1>7 DEF vars, Drawn, DrawnTo, BlankFrom, ShownUpTo
<1> QED
  BY <1>2, <1>3, <1>4, <1>5, <1>6, <1>7 DEF Next

\* On a panel less than 255 columns wide a line that ends shows just the characters that
\* fit whole, in their cells, and the pages below it are still blank, for every font width
\* and every text.
THEOREM LinesAreClipped ==
  ASSUME WidthFits
  PROVE  Spec => LinesClippedAtEdge
<1> DEFINE Clipped ==
      LineDone => \A p \in 0 .. SSD1306_PAGES - 1, col \in 0 .. SSD1306_WIDTH - 1 :
        p >= page => fb[CellOf(p, col)] = IF p = page THEN LineShows(col) ELSE 0
<1>1. TInv /\ Drawn => Clipped
  <2> SUFFICES ASSUME TypeOK, Drawn, LineDone,
                      NEW p \in 0 .. SSD1306_PAGES - 1, NEW col \in 0 .. SSD1306_WIDTH - 1,
                      p >= page
               PROVE  fb[CellOf(p, col)] = IF p = page THEN LineShows(col) ELSE 0
    BY DEF TInv
  <2>1. step = "char" /\ (text = <<>> \/ ~Fits)
    BY DEF LineDone
  <2>2. PICK n \in 0 .. Len(line) : DrawnTo(n)
    BY <2>1 DEF Drawn
  <2>3. ShownUpTo(n, col) = LineShows(col)
    BY <2>1, <2>2, LineComplete
  <2> QED
    BY <2>2, <2>3 DEF DrawnTo
<1>2. TInv /\ Drawn /\ [Next]_vars => [Clipped]_vars
  BY <1>1
<1>3. TInv /\ Drawn /\ [Next]_vars => TInv' /\ Drawn'
  BY NextTInv, NextDrawn
<1>4. Init => TInv /\ Drawn
  BY InitTInv, InitDrawn
<1> QED
  BY <1>2, <1>3, <1>4, PTL DEF Spec, LinesClippedAtEdge

================================================================================
