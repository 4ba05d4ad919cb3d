----------------------------- MODULE SpectrumBars -----------------------------
(***************************************************************************)
(* The bars of the audacious spectrum plugin: the height the analyser      *)
(* gives a bar, the limit the settings put on it, and the rows of the      *)
(* display g15send_func draws it on.  One bar stands for all of them.      *)
(* limit is an unsigned int, and a height, which is signed, is compared    *)
(* with it as an unsigned number.                                          *)
(***************************************************************************)
EXTENDS Integers

CONSTANTS RowNumbers,   \* of the title: 1..4 in the code
          AnalogSteps,  \* 2..9 in the code
          Heights       \* the analyser gives a bar: of 16 bits in the code

VARIABLES set,        \* the settings the display depends on
          limit,      \* how high a bar may be, as an unsigned number
          bar,        \* bar_heights[i]
          peak,       \* bar_heights_peak[i]
          top,        \* the topmost row of the bar on display
          mark,       \* the row of the mark of its peak, or NoMark
          lowered     \* a setting changed since the peak was last raised

bvars == <<set, limit, bar, peak, top, mark, lowered>>

G15_LCD_HEIGHT == 43
INFERIOR_SPACE == 7
CHAR_HEIGH == 9
NoMark == G15_LCD_HEIGHT

(* unsigned int, with as many bits as a height has, which is below half of it *)
WORD == 65536
Unsigned(n) == n % WORD

(* The values a setting takes; a title that is not shown leaves the same    *)
(* room as one that is overlaid.                                            *)
Values == [pbar |-> 0..1, overlay |-> 0..1, rownum |-> RowNumbers,
           effect |-> {"none", "peak", "analog", "line"}, detached |-> 0..1,
           analog_step |-> AnalogSteps]
Defaults == [pbar |-> 1, overlay |-> 0, rownum |-> 1,
             effect |-> "peak", detached |-> 1, analog_step |-> 2]

TitleRows(s) == (1 - s.overlay) * s.rownum * CHAR_HEIGH
Space(s) == G15_LCD_HEIGHT - INFERIOR_SPACE * s.pbar - TitleRows(s)

(* With a bug: the rows of the title are left out, as if it were overlaid. *)
LimitOfOverlay(s) == Unsigned(Space([s EXCEPT !.overlay = 1]) - 1)

LimitOf(s) == Unsigned(Space(s) - 1)
BottomLine(s) == G15_LCD_HEIGHT - INFERIOR_SPACE * s.pbar - (1 - s.pbar)

-----------------------------------------------------------------------------
(* What the analyser makes of a sound, of the bars beside it and of its      *)
(* height so far.  amplification, a setting too, is added to the space left  *)
(* for the bars, and may leave less than nothing of it.                      *)
RenderFreq ==
  /\ bar' \in Heights
  /\ UNCHANGED <<set, limit, peak, top, mark, lowered>>

(* if (y1 > limit) y1 = limit; if (y1 < 0) y1 = 0; the first compares       *)
(* unsigned numbers.                                                        *)
Clipped(y, lim) ==
  LET high == IF Unsigned(y) > lim THEN lim ELSE y
  IN  IF high < 0 THEN 0 ELSE high

(* The effects exclude each other in the dialog.  Bars leave two rows for   *)
(* the mark of their peak.                                                  *)
BelowMark(y, lim) ==
  IF set.effect = "peak" /\ y > Unsigned(lim - 2) THEN Unsigned(lim - 2) ELSE y

NextPeak(y) ==
  IF set.effect # "peak" THEN peak ELSE IF y > peak THEN y ELSE peak - 1

MarkRow(p) ==
  IF set.effect = "peak" /\ Unsigned(p) < limit /\ p > 0
  THEN BottomLine(set) - p - 2 * set.detached ELSE NoMark

(* The analog effect draws leds of analog_step - 1 rows up from the bottom  *)
(* line, as long as one starts at or below the row that rounds the top of   *)
(* the bar to the step.                                                     *)
TopLed(row, step) ==
  LET end == row + step - (row % step) - 1
      count == (BottomLine(set) - end) \div step
  IN  IF end > BottomLine(set) THEN G15_LCD_HEIGHT
      ELSE BottomLine(set) - count * step - step + 2

DrawBar ==
  LET y == BelowMark(Clipped(bar, limit), limit)
      row == BottomLine(set) - y
  IN  /\ top' = IF set.effect = "analog" THEN TopLed(row, set.analog_step) ELSE row
      /\ peak' = NextPeak(y)
      /\ mark' = MarkRow(peak')
      /\ lowered' = (lowered /\ y =< peak)
      /\ UNCHANGED <<set, limit, bar>>

(* g15analyser_conf_apply with one setting changed; the next frame is drawn *)
(* with the new ones.                                                       *)
ConfApply(k) ==
  /\ \E v \in Values[k] \ {set[k]} : set' = [set EXCEPT ![k] = v]
  /\ limit' = LimitOf(set')
  /\ lowered' = TRUE
  /\ top' = G15_LCD_HEIGHT /\ mark' = NoMark
  /\ UNCHANGED <<bar, peak>>

Init ==
  /\ set = Defaults /\ limit = LimitOf(Defaults)
  /\ bar = 0 /\ peak = 0
  /\ top = G15_LCD_HEIGHT /\ mark = NoMark
  /\ lowered = FALSE

Next == RenderFreq \/ DrawBar \/ \E k \in DOMAIN Values : ConfApply(k)

Spec == Init /\ [][Next]_bvars

-----------------------------------------------------------------------------
(* Neither a bar nor the mark of its peak is drawn over the rows of the     *)
(* title or below the bottom line, which is what the limit is for: unless   *)
(* the rows of the title leave none and the limit wraps around.  A led of   *)
(* the analog effect does reach over the title, by less than its own rows,  *)
(* and so does, by one, a mark of a peak from before the settings changed   *)
(* (g15analyser_conf_apply, g15send_func).                                  *)
LimitWraps == Space(set) < 1
BarsOffTheTitle ==
  top # G15_LCD_HEIGHT /\ ~LimitWraps =>
    /\ top >= TitleRows(set) - (IF set.effect = "analog" THEN set.analog_step - 2 ELSE 0)
    /\ top =< BottomLine(set)
    /\ mark >= TitleRows(set) - (IF lowered THEN 1 ELSE 0)

=============================================================================
