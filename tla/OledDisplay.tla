------------------------------ MODULE OledDisplay -------------------------------
(***************************************************************************)
(* oled_task (Core/Src/tasks/oled_task.c) with ssd1306_init,               *)
(* ssd1306_draw_string and ssd1306_flush (Drivers/oled/Src/ssd1306.c),     *)
(* over writes that may end part of the way, and the SSD1306 controller    *)
(* that they reach.                                                        *)
(*                                                                         *)
(* A step is one hal_i2c_write or one turn of the drawing loop.  What a    *)
(* write delivers is a prefix of its bytes (module I2cWrite:               *)
(* DeliveredInOrder); its result is ignored.  Pages and columns are laid   *)
(* out in one row of cells, as the frame buffer and the controller have    *)
(* them.  A character is its glyph: the font is data.                      *)
(***************************************************************************)
EXTENDS Integers, Sequences

CONSTANTS SSD1306_PAGES, SSD1306_WIDTH, \* 8 and 128 in the firmware
          GLYPH_WIDTH,                  \* 5: the columns of a glyph
          Byte,                         \* what a column of a page can hold
          Noise,                        \* what memory holds before it is written
          MaxText,                      \* bound: characters of a line of text
          MaxFaults                     \* bound: writes that fail

ASSUME OledAssumption == /\ SSD1306_PAGES \in Nat \ {0}
                         /\ SSD1306_WIDTH \in Nat \ {0}
                         /\ GLYPH_WIDTH \in Nat \ {0}
                         /\ 0 \in Byte /\ Noise \notin Byte
                         /\ MaxText \in Nat
                         /\ MaxFaults \in Nat

VARIABLES
  step,   \* what oled_task does next
  page,   \* the page of the line being drawn; ssd1306_flush's loop counter
  x,      \* ssd1306_draw_string's column
  text,   \* the characters it has not drawn yet
  fb,     \* the frame buffer
  mode,   \* the controller's addressing mode
  on,     \* the panel is lit
  ptr,    \* the cell the controller writes next
  ram,    \* the controller's display memory
  dead,   \* the bus will not carry anything any more
  faults, \* failed writes so far
  line,   \* history: the line being drawn, whole
  failed, \* history: a write of this flush has failed
  intact  \* history: pages sent before that

busVars == <<dead, faults>>
panelVars == <<mode, on, ptr, ram>>
flushVars == <<failed, intact>>
drawVars == <<x, text, line>>
vars == <<step, page, fb, drawVars, panelVars, busVars, flushVars>>

Cell == 0 .. SSD1306_PAGES * SSD1306_WIDTH - 1
CellOf(p, col) == p * SSD1306_WIDTH + col

Glyph == [1 .. GLYPH_WIDTH -> Byte]
Text == UNION {[1 .. n -> Glyph] : n \in 0 .. MaxText}

TypeOK ==
  /\ step \in {"init", "draw", "char", "reset", "page", "delay"}
  /\ page \in 0 .. SSD1306_PAGES
  /\ x \in 0 .. SSD1306_WIDTH + GLYPH_WIDTH
  /\ text \in Text
  /\ line \in Text
  /\ fb \in [Cell -> Byte \cup {Noise}]
  /\ mode \in {"page", "horizontal"}
  /\ on \in BOOLEAN
  /\ ptr \in Cell
  /\ ram \in [Cell -> Byte \cup {Noise}]
  /\ dead \in BOOLEAN
  /\ faults \in 0 .. MaxFaults
  /\ failed \in BOOLEAN
  /\ intact \in 0 .. SSD1306_PAGES

\* The panel has been powered up: page addressing, off.  What memory holds is equal to
\* nothing that is drawn, which is the worst case: no step depends on it.
Init ==
  /\ step = "init" /\ page = 0
  /\ x = 0 /\ text = <<>> /\ line = <<>>
  /\ fb = [c \in Cell |-> Noise]
  /\ mode = "page" /\ on = FALSE /\ ptr = 0
  /\ ram = [c \in Cell |-> Noise]
  /\ dead = FALSE /\ faults = 0
  /\ failed = FALSE /\ intact = 0

--------------------------------------------------------------------------------
\* hal_i2c_write of n bytes behind a control byte, of which the panel gets the first k.
\* A failed write can leave the bus useless: see AF and the pending START in I2cWrite.
Delivers(n, k) ==
  \/ ~dead /\ k = n /\ UNCHANGED busVars
  \/ /\ ~dead /\ faults < MaxFaults
     /\ k < n
     /\ faults' = faults + 1
     /\ dead' \in BOOLEAN
  \/ dead /\ k = 0 /\ UNCHANGED busVars

\* The j-th cell from ptr on: "page" mode stays in the page of ptr.
CellFrom(j) ==
  IF mode = "horizontal"
  THEN (ptr + j) % (SSD1306_PAGES * SSD1306_WIDTH)
  ELSE CellOf(ptr \div SSD1306_WIDTH, (ptr + j) % SSD1306_WIDTH)

\* The first k bytes of a data packet go to display memory.
Stores(data, k) ==
  /\ ram' = [c \in Cell |-> IF \E j \in 0 .. k - 1 : CellFrom(j) = c
                            THEN data[CHOOSE j \in 0 .. k - 1 : CellFrom(j) = c]
                            ELSE ram[c]]
  /\ ptr' = CellFrom(k)

--------------------------------------------------------------------------------
\* The commands of init_seq that matter here, in its order, "config" for the others.
InitSeq == <<"off", "config", "mode", "config", "on">>

Gets(k, cmd) == \E j \in 1 .. k : InitSeq[j] = cmd

\* ssd1306_clear.
Blank == [c \in Cell |-> 0]

\* ssd1306_init clears the frame buffer and sends init_seq, once.
PanelInit ==
  /\ step = "init"
  /\ fb' = Blank
  /\ \E k \in 0 .. Len(InitSeq) :
       /\ Delivers(Len(InitSeq), k)
       /\ mode' = IF Gets(k, "mode") THEN "horizontal" ELSE mode
       /\ on' = Gets(k, "on")
  /\ step' = "draw"
  /\ UNCHANGED <<page, drawVars, ptr, ram, flushVars>>

\* ssd1306_draw_string(&oled, 0, page, line), called for every second page.
DrawLine ==
  /\ step = "draw"
  /\ text' \in Text
  /\ line' = text'
  /\ x' = 0
  /\ step' = "char"
  /\ UNCHANGED <<page, fb, panelVars, busVars, flushVars>>

\* ssd1306_draw_char: the columns of a glyph that are on the display, from column x on.
Inked(c) == {col \in 1 .. GLYPH_WIDTH :
               x + col - 1 < SSD1306_WIDTH /\ c = CellOf(page, x + col - 1)}

FitsShort ==   \* mutant: x + 5 < SSD1306_WIDTH
  x + GLYPH_WIDTH < SSD1306_WIDTH

Fits == x + GLYPH_WIDTH <= SSD1306_WIDTH

\* A turn of ssd1306_draw_string's loop.
DrawChar ==
  /\ step = "char"
  /\ text # <<>> /\ Fits
  /\ fb' = [c \in Cell |-> IF Inked(c) = {} THEN fb[c]
                           ELSE Head(text)[CHOOSE col \in Inked(c) : TRUE]]
  /\ text' = Tail(text)
  /\ x' = (x + GLYPH_WIDTH + 1) % 256
  /\ UNCHANGED <<step, page, line, panelVars, busVars, flushVars>>

\* The loop ends.  The next line is two pages further down.
LineDone ==
  /\ step = "char"
  /\ text = <<>> \/ ~Fits
  /\ x' = 0 /\ text' = <<>> /\ line' = <<>> \* locals of a call that is over
  /\ IF page + 2 < SSD1306_PAGES
     THEN page' = page + 2 /\ step' = "draw"
     ELSE page' = 0 /\ step' = "reset"
  /\ UNCHANGED <<fb, panelVars, busVars, flushVars>>

\* addr_reset: the column address command, then the page address command.  Neither has
\* an effect in page addressing mode.
FlushResetColumnOnly ==   \* mutant: the page address command is missing
  /\ step = "reset"
  /\ \E k \in 0 .. 2 :
       /\ Delivers(2, k)
       /\ ptr' = IF mode # "horizontal" \/ k = 0 THEN ptr
                 ELSE CellOf(ptr \div SSD1306_WIDTH, 0)
       /\ failed' = (k < 2)
  /\ intact' = 0
  /\ page' = 0
  /\ step' = "page"
  /\ UNCHANGED <<fb, drawVars, mode, on, ram>>

FlushResetBehindEnd ==   \* mutant: the first page of the range is one too many
  /\ step = "reset"
  /\ \E k \in 0 .. 2 :
       /\ Delivers(2, k)
       /\ ptr' = IF mode # "horizontal" \/ k = 0 THEN ptr ELSE CellOf(SSD1306_PAGES, 0)
       /\ failed' = (k < 2)
  /\ intact' = 0
  /\ page' = 0
  /\ step' = "page"
  /\ UNCHANGED <<fb, drawVars, mode, on, ram>>

FlushReset ==
  /\ step = "reset"
  /\ \E k \in 0 .. 2 :
       /\ Delivers(2, k)
       /\ ptr' = IF mode # "horizontal" \/ k = 0 THEN ptr
                 ELSE IF k = 1 THEN CellOf(ptr \div SSD1306_WIDTH, 0)
                 ELSE 0
       /\ failed' = (k < 2)
  /\ intact' = 0
  /\ page' = 0
  /\ step' = "page"
  /\ UNCHANGED <<fb, drawVars, mode, on, ram>>

\* A page's columns.
Row(p) == [col \in 0 .. SSD1306_WIDTH - 1 |-> fb[CellOf(p, col)]]

FlushPageShort ==   \* mutant: one column of each page is left out
  /\ step = "page"
  /\ \E k \in 0 .. SSD1306_WIDTH - 1 :
       /\ Delivers(SSD1306_WIDTH - 1, k)
       /\ Stores(Row(page), k)
       /\ failed' = (failed \/ k < SSD1306_WIDTH - 1)
  /\ intact' = IF failed' THEN intact ELSE intact + 1
  /\ page' = page + 1
  /\ step' = IF page' = SSD1306_PAGES THEN "delay" ELSE "page"
  /\ UNCHANGED <<fb, drawVars, mode, on>>

FlushPage ==
  /\ step = "page"
  /\ \E k \in 0 .. SSD1306_WIDTH :
       /\ Delivers(SSD1306_WIDTH, k)
       /\ Stores(Row(page), k)
       /\ failed' = (failed \/ k < SSD1306_WIDTH)
  /\ intact' = IF failed' THEN intact ELSE intact + 1
  /\ page' = page + 1
  /\ step' = IF page' = SSD1306_PAGES THEN "delay" ELSE "page"
  /\ UNCHANGED <<fb, drawVars, mode, on>>

\* vTaskDelay(500 ms), then the next turn of the loop, which begins with ssd1306_clear.
NextFrame ==
  /\ step = "delay"
  /\ fb' = Blank
  /\ page' = 0
  /\ step' = "draw"
  /\ UNCHANGED <<drawVars, panelVars, busVars, flushVars>>

Next == PanelInit \/ DrawLine \/ DrawChar \/ LineDone \/ FlushReset \/ FlushPage \/ NextFrame

\* The one task runs on: the scheduler's time slices, and writes that always return
\* (EveryWriteReturns of module I2cWrite).
Spec == Init /\ [][Next]_vars /\ WF_vars(Next)

--------------------------------------------------------------------------------
\* "Stops when the string ends or the right edge of the display is reached", in cells of
\* "5 glyph columns + 1 blank spacer" (ssd1306.h): a line shows the characters that fit
\* whole, and leaves the page below it blank.  Line by line, against a closed form.
LineShows(col) ==
  LET i == col \div (GLYPH_WIDTH + 1)
      k == (col % (GLYPH_WIDTH + 1)) + 1
  IN  IF /\ i < Len(line) /\ k <= GLYPH_WIDTH
         /\ (i + 1) * (GLYPH_WIDTH + 1) <= SSD1306_WIDTH + 1
      THEN line[i + 1][k] ELSE 0

LinesClippedAtEdge ==
  [][LineDone => \A p \in 0 .. SSD1306_PAGES - 1, col \in 0 .. SSD1306_WIDTH - 1 :
       p >= page => fb[CellOf(p, col)] = IF p = page THEN LineShows(col) ELSE 0]_vars

\* The panel lights up only when everything it needs has reached it: an initialisation
\* that is cut short leaves it dark, never lit with a picture in the wrong layout.
LitOnlyIfConfigured == on => mode = "horizontal"

\* Whatever earlier flushes left behind, a flush shows each page at its place up to its
\* first failed write, and what comes later, out of place as it is, does not overwrite
\* those pages.  A flush without a failed write shows the whole frame buffer.
PagesBeforeFailureShown ==
  on /\ step \in {"page", "delay"} =>
    \A c \in Cell : c < intact * SSD1306_WIDTH => ram[c] = fb[c]

\* Failed writes do not put the picture out of place for good: once they stop, every
\* flush shows the whole of it, unless the panel was never initialised or the bus died.
PictureRecovers ==
  on ~> [](step = "delay" => dead \/ ram = fb)
================================================================================
