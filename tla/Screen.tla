------------------------------- MODULE Screen -------------------------------
(***************************************************************************)
(* The inline terminal writer (inline/src/term.rs): finished lines printed *)
(* once above a live region that is redrawn in place by relative cursor    *)
(* movement, on a terminal (external) that scrolls and, on a resize,       *)
(* reflows its rows. Nothing ever reads the terminal back: the writer only *)
(* knows what it believes to be on screen.                                 *)
(*                                                                         *)
(* A row is its text, its width in cells, and whether a background fills   *)
(* it to the window's edge. A line of the terminal keeps the text and the  *)
(* cells written; on a window of width w it takes Height(line, w) rows.    *)
(* The window changes only with resize(): a draw at the old size, between  *)
(* the change and its event, is left out, and a child leaves the cursor on *)
(* a line of its own.                                                      *)
(***************************************************************************)
EXTENDS Integers, Sequences, SequencesExt

CONSTANTS
  Widths, Heights,  (* sizes of the window                                  *)
  Rows,             (* rows of history: [text, width, fill]                 *)
  Frames,           (* live frames: [lines, caret], lines rows, caret a set *)
                    (* of at most one [row, col]                            *)
  MaxPrinted,       (* bound: rows printed into history                     *)
  MaxResizes        (* bound                                                *)

VARIABLES
  term,       (* InlineTerminal: width, height, drawn, drawn_widths,        *)
              (* cursor_row, cursor_visible                                 *)
  page,       (* the terminal: every line since the start, the scrollback   *)
              (* included; the cursor's line, its row of it, its column     *)
  owner,      (* who has the terminal: "writer", "child", or "shell" at last *)
  history,    (* rows printed, and written by a child, in order (history)   *)
  smeared,    (* a resize could leave rows of the old region behind (history) *)
  resizesLeft

screenVars == <<term, page, owner, history, smeared, resizesLeft>>

Least(a, b) == IF a < b THEN a ELSE b
Most(a, b)  == IF a > b THEN a ELSE b
Minus(a, b) == Most(a - b, 0)

Prompt == [text |-> "prompt", width |-> 1]
Empty  == [text |-> "", width |-> 0]
NoFrame == [lines |-> <<>>, caret |-> {}]

(* Texts are names: what history shows, and what else a line may hold.      *)
Finished == {r.text : r \in Rows} \cup {Prompt.text}
Passing  == {r.text : r \in UNION {ToSet(f.lines) : f \in Frames}} \cup {"", "ghost"}

Spans(texts) == [text : texts, width : Nat, fill : BOOLEAN]
Cells(texts) == [text : texts, width : Nat]

ASSUME ScreenAssumption ==
  /\ Widths \subseteq Nat \ {0, 1} /\ Heights \subseteq Nat \ {0, 1}
  /\ MaxPrinted \in Nat /\ MaxResizes \in Nat
  /\ Rows \subseteq Spans(Finished) /\ Finished \cap Passing = {}
  /\ \A f \in Frames :
       f.lines \in Seq(Spans(Passing)) /\ f.caret \subseteq [row : Nat, col : Nat]

(* The width of a row's own text, cut at content_width(), one cell less     *)
(* than the window: all that draw_rows records.                            *)
TextWidth(row, w) == Least(row.width, w - 1)

(* What is written: the text, and the fill up to content_width().           *)
encode_row(row, w) ==
  [text |-> row.text, width |-> IF row.fill THEN w - 1 ELSE TextWidth(row, w)]
EncodeRows(rows, w) == [i \in DOMAIN rows |-> encode_row(rows[i], w)]

-----------------------------------------------------------------------------
(* The terminal.                                                            *)

Height(line, w) == IF line.width = 0 THEN 1 ELSE (line.width + w - 1) \div w

(* The rows of the first k lines, and of all.                               *)
RowsTo(lines, k, w) ==
  LET R[i \in 0 .. Len(lines)] == IF i = 0 THEN 0 ELSE R[i - 1] + Height(lines[i], w)
  IN  R[k]
RowsOf(lines, w) == RowsTo(lines, Len(lines), w)

(* The cursor's row, counted from the first row of all.                     *)
RowAt(p, w) == RowsTo(p.lines, p.at - 1, w) + p.sub

(* Up n: never past the top row of the window.                              *)
Up(p, n, w, h) ==
  LET top    == Minus(RowsOf(p.lines, w), h)
      target == Most(RowAt(p, w) - n, Least(top, RowAt(p, w)))
      at     == CHOOSE k \in DOMAIN p.lines :
                  /\ RowsTo(p.lines, k - 1, w) <= target
                  /\ target < RowsTo(p.lines, k, w)
  IN  [p EXCEPT !.at = at, !.sub = target - RowsTo(p.lines, at - 1, w)]

Column(p, c) == [p EXCEPT !.col = c]

(* Down n on rows that exist; CRLF makes one when it does not.              *)
Down(p, n) == [p EXCEPT !.at = Least(@ + n, Len(p.lines)), !.sub = 0]
CrLf(p) ==
  [p EXCEPT !.lines = IF p.at = Len(@) THEN Append(@, Empty) ELSE @,
            !.at = @ + 1, !.sub = 0, !.col = 0]

(* A row written over the cursor's line, and the rest of it erased.         *)
Put(p, row) == [p EXCEPT !.lines[p.at] = row]

(* Erase from the cursor, at column 0, to the end. A line that began above  *)
(* keeps what is above the cursor.                                          *)
EraseBelow(p, w) ==
  LET kept == SubSeq(p.lines, 1, p.at - 1)
      rest == [i \in p.at .. Len(p.lines) |-> Empty]
      cut  == IF p.sub = 0 THEN <<>> ELSE <<[text |-> "ghost", width |-> p.sub * w]>>
      blank == [i \in 1 .. Len(p.lines) - p.at + 1 |-> Empty]
  IN  [p EXCEPT !.lines = kept \o cut \o blank,
                !.at = @ + Len(cut), !.sub = 0, !.col = 0]

-----------------------------------------------------------------------------
(* The writer. Each operation is given, and returns, the two sides:         *)
(* s = [t |-> term, p |-> page].                                            *)

move_to_top(s) ==
  [t |-> [s.t EXCEPT !.cursor_row = 0],
   p |-> Column(Up(s.p, s.t.cursor_row, s.t.width, s.t.height), 0)]

Forget(t) == [t EXCEPT !.drawn = <<>>, !.drawn_widths = <<>>, !.cursor_row = 0]

Visible(lines, h) == SubSeq(lines, Minus(Len(lines), h - 1) + 1, Len(lines))

(* draw_rows: rows that did not change are only passed; a row that does not *)
(* exist yet is made with a newline; rows that no longer exist are erased.  *)
DrawRow(p, old, rows, i) ==
  LET there == IF i = 1 THEN p ELSE IF i <= Len(old) THEN Down(p, 1) ELSE CrLf(p)
  IN  IF i <= Len(old) /\ old[i] = rows[i] THEN there ELSE Put(there, rows[i])

DrawRows(p, old, rows) ==
  LET P[i \in 0 .. Len(rows)] == IF i = 0 THEN p ELSE DrawRow(P[i - 1], old, rows, i)
  IN  P[Len(rows)]

draw_rows(s, frame) ==
  LET w     == s.t.width
      old   == s.t.drawn
      shown == Visible(frame.lines, s.t.height)
      rows  == EncodeRows(shown, w)
      skip  == Len(frame.lines) - Len(rows)
      p1    == DrawRows(s.p, old, rows)
      p2    == IF Len(rows) < Len(old)
               THEN Up(EraseBelow(CrLf(p1), w), 1, w, s.t.height) ELSE p1
      p3    == Column(IF rows = <<>> THEN Put(p2, Empty) ELSE p2, 0)
      last  == Minus(Len(rows), 1)
      carets == {c \in frame.caret : c.row >= skip /\ c.row - skip < Len(rows)}
      parked == CHOOSE c \in carets : TRUE
      row   == IF carets = {} THEN last ELSE parked.row - skip
  IN  [t |-> [s.t EXCEPT !.drawn = rows,
                         !.drawn_widths = [i \in DOMAIN shown |-> TextWidth(shown[i], w)],
                         !.cursor_row = row, !.cursor_visible = carets # {}],
       p |-> IF carets = {} THEN p3
             ELSE Column(Up(p3, last - row, w, s.t.height), Least(parked.col, w - 1))]

(* The rows that the region's part above the cursor takes once reflowed, by *)
(* the widths recorded. Mutant: the whole region is counted.               *)
Widthwise(t) == [i \in DOMAIN t.drawn_widths |-> [text |-> "", width |-> t.drawn_widths[i]]]
RowsAboveAll(t, w) == RowsOf(Widthwise(t), w)
RowsAbove(t, w) == RowsTo(Widthwise(t), t.cursor_row, w)

WriteRows(p, rows, w) ==
  LET P[i \in 0 .. Len(rows)] ==
        IF i = 0 THEN p ELSE CrLf(Put(P[i - 1], encode_row(rows[i], w)))
  IN  P[Len(rows)]

print(s, rows, frame) ==
  LET top == move_to_top(s)
      written == WriteRows(top.p, rows, s.t.width)
  IN  draw_rows([t |-> Forget(top.t), p |-> EraseBelow(written, s.t.width)], frame)

draw(s, frame) == draw_rows(move_to_top(s), frame)

clear_live(s) ==
  LET top == move_to_top(s)
  IN  [t |-> Forget(top.t), p |-> EraseBelow(top.p, s.t.width)]

finish_region(s) ==
  LET down == Down(Column(s.p, 0), Minus(Len(s.t.drawn), s.t.cursor_row + 1))
  IN  [t |-> [Forget(s.t) EXCEPT !.cursor_visible = TRUE],
       p |-> IF s.t.drawn = <<>> THEN s.p ELSE CrLf(down)]

(* The terminal reflows first: the cursor stays in its line, on its cell if  *)
(* there is one, and in the window, so lines below that have no room go.    *)
Reflowed(p, w, h) ==
  [p EXCEPT !.lines = SubSeq(@, 1, Least(Len(@), p.at + h - 1)),
            !.sub = Least(p.col \div w, Height(p.lines[p.at], w) - 1),
            !.col = p.col % w]

resize(s, w, h, frame) ==
  LET up == Up(Reflowed(s.p, w, h), RowsAbove(s.t, w), w, h)
  IN  draw_rows([t |-> [Forget(s.t) EXCEPT !.width = w, !.height = h],
                 p |-> EraseBelow(Column(up, 0), w)], frame)

-----------------------------------------------------------------------------
Now == [t |-> term, p |-> page]

Does(s) == term' = s.t /\ page' = s.p

RegionTop == page.at - term.cursor_row

(* The three ways a resize leaves rows of the old region above the new one: *)
(* the caret's own row reflows under the caret; the reflowed region is      *)
(* taller than the window; a filled row above the caret takes more rows     *)
(* than its text would. (The writer knows of none.)                         *)
CaretReflows(w) == page.col >= w
Overflows(w, h) == RowsOf(page.lines, w) - RowsTo(page.lines, RegionTop - 1, w) > h
FillReflows(w)  == RowsTo(term.drawn, term.cursor_row, w) > RowsAbove(term, w)
Smears(w, h) == CaretReflows(w) \/ Overflows(w, h) \/ FillReflows(w)

ScreenInit ==
  /\ term \in [width : Widths, height : Heights, drawn : {<<>>},
               drawn_widths : {<<>>}, cursor_row : {0}, cursor_visible : {TRUE}]
  /\ page = [lines |-> <<Prompt, Empty>>, at |-> 2, sub |-> 0, col |-> 0]
  /\ owner = "writer" /\ history = <<Prompt>> /\ smeared = FALSE
  /\ resizesLeft = MaxResizes

Records(rows) ==
  /\ Len(history) + Len(rows) <= MaxPrinted + 1
  /\ history' = history \o rows

PrintHistory(rows, frame) ==
  /\ owner = "writer" /\ rows # <<>>
  /\ Records(EncodeRows(rows, term.width))
  /\ Does(print(Now, rows, frame))
  /\ UNCHANGED <<owner, smeared, resizesLeft>>

DrawFrame(frame) ==
  /\ owner = "writer"
  /\ Does(draw(Now, frame))
  /\ UNCHANGED <<owner, history, smeared, resizesLeft>>

Resize(w, h, frame) ==
  /\ owner = "writer" /\ resizesLeft > 0
  /\ Does(resize(Now, w, h, frame))
  /\ smeared' = (smeared \/ Smears(w, h))
  /\ resizesLeft' = resizesLeft - 1
  /\ UNCHANGED <<owner, history>>

(* suspend() and the child's own lines; the window may change meanwhile,    *)
(* and resuming draws an empty region.                                      *)
Suspend ==
  /\ owner = "writer" /\ owner' = "child"
  /\ LET s == clear_live(Now)
     IN  Does([t |-> [s.t EXCEPT !.cursor_visible = TRUE], p |-> s.p])
  /\ UNCHANGED <<history, smeared, resizesLeft>>

ChildWrites(row) ==
  /\ owner = "child"
  /\ LET line == [text |-> row.text, width |-> row.width]
     IN  Records(<<line>>) /\ page' = CrLf(Put(page, line))
  /\ UNCHANGED <<term, owner, smeared, resizesLeft>>

Resume(w, h) ==
  /\ owner = "child" /\ owner' = "writer"
  /\ w # term.width \/ h # term.height => resizesLeft > 0
  /\ resizesLeft' = IF <<w, h>> = <<term.width, term.height>> THEN resizesLeft
                    ELSE resizesLeft - 1
  /\ Does(resize(Now, w, h, NoFrame))
  /\ UNCHANGED <<history, smeared>>

(* The end of the run: the input box goes, what is left of the transcript   *)
(* is printed, and the shell gets a clean line.                             *)
Leave(rows) ==
  /\ owner = "writer" /\ owner' = "shell"
  /\ Records(EncodeRows(rows, term.width))
  /\ LET s == clear_live(Now)
     IN  Does(finish_region(IF rows = <<>> THEN s ELSE print(s, rows, NoFrame)))
  /\ UNCHANGED <<smeared, resizesLeft>>

Batches == {<<r>> : r \in Rows} \cup {<<r, q>> : r, q \in Rows}

ScreenNext ==
  \/ \E f \in Frames :
       \/ \E rows \in Batches : PrintHistory(rows, f)
       \/ DrawFrame(f)
       \/ \E w \in Widths, h \in Heights : Resize(w, h, f)
  \/ Suspend
  \/ \E r \in Rows : ChildWrites(r)
  \/ \E w \in Widths, h \in Heights : Resume(w, h)
  \/ \E rows \in {<<>>} \cup Batches : Leave(rows)

ScreenSpec == ScreenInit /\ [][ScreenNext]_screenVars

-----------------------------------------------------------------------------
(* Types: the cursor is on a line that exists.                              *)
ScreenTypeOK ==
  /\ term.width \in Widths /\ term.height \in Heights
  /\ term.cursor_row \in Nat /\ term.cursor_visible \in BOOLEAN
  /\ Len(term.drawn) < term.height /\ Len(term.drawn_widths) = Len(term.drawn)
  /\ page.at \in DOMAIN page.lines /\ page.sub = 0 /\ page.col \in Nat
  /\ owner \in {"writer", "child", "shell"}
  /\ smeared \in BOOLEAN /\ resizesLeft \in 0 .. MaxResizes

(* The lines among the first k that are history's.                         *)
FinishedTo(lines, k) ==
  LET F[i \in 0 .. Len(lines)] ==
        IF i = 0 THEN <<>>
        ELSE IF lines[i].text \in Finished THEN Append(F[i - 1], lines[i]) ELSE F[i - 1]
  IN  F[k]

(* term.rs 5-7, 16-19: whatever was drawn, resized, scrolled or run by a    *)
(* child since, every finished row is above the live region exactly once,   *)
(* in the order it was printed: no relative movement ever went too far up   *)
(* and wrote over history.                                                  *)
HistoryIsKept == FinishedTo(page.lines, RegionTop - 1) = history

(* What the writer believes is on screen is there, row for row, the caret   *)
(* is where it was parked, nothing of an older frame is left below, and     *)
(* nothing above but after one of the resizes that Smears names.            *)
RegionIsDrawn ==
  owner = "writer" =>
    LET region == SubSeq(page.lines, RegionTop, RegionTop + Len(term.drawn) - 1)
        rest   == RegionTop + Most(Len(term.drawn), 1) .. Len(page.lines)
    IN  /\ region = term.drawn
        /\ \A i \in rest : page.lines[i] = Empty
        /\ RegionTop - 1 = Len(history) \/ smeared

(* Belief and terminal agree, in what is finished and in what is live.      *)
ScreenIsTrue == HistoryIsKept /\ RegionIsDrawn
=============================================================================
