------------------------------- MODULE Layout -------------------------------
(***************************************************************************)
(* How a frame is put together (live_frame and prompt_view of session.rs,  *)
(* the boxes of chrome.rs, form.rs and activity.rs): which rows a list or  *)
(* a text shows when it does not fit, and what is cut when the whole does  *)
(* not. A row is its role: the option chosen, the cursor, the title or any *)
(* other. Wrapped text counts in rows; columns and styles are left out.    *)
(***************************************************************************)
EXTENDS Naturals, Sequences, SequencesExt, FiniteSetsExt

CONSTANTS
  ScreenHeights,  (* rows of the terminal                                   *)
  Widgets         (* what may stand at the bottom of a frame (see Widget)   *)

(* heads: options per section, 0 for none, agents of the browser, rows of a *)
(* form's title; texts: rows of subtitle, question, summary or error; diff: *)
(* rows of a diff; a text has count rows, lower is the list below an input; *)
(* fields: per field of a form the rows of its text, 0 for a field of one   *)
(* line; lowerAt: the choice in the list, the cursor's row in a text.       *)
Widget ==
  [kind : {"input", "prompt", "form", "list", "detail"}, count : Nat, at : Nat, heads : Nat,
   texts : Nat, diff : Nat, lower : Nat, lowerAt : Nat, above : Nat, fields : Seq(Nat)]

MaxTextRows == 9  (* how far texts of several lines grow here               *)

ASSUME LayoutAssumption == Widgets \subseteq Widget /\ ScreenHeights \subseteq Nat

VARIABLES
  widget,       (* what is at the bottom                                    *)
  tall          (* Session.height                                           *)

layoutVars == <<widget, tall>>

LayoutInit == widget \in Widgets /\ tall \in ScreenHeights

-----------------------------------------------------------------------------
Plain(n) == [i \in 1..n |-> "row"]
Lesser(a, b) == IF a < b THEN a ELSE b
Larger(a, b) == IF a > b THEN a ELSE b
Less(a, b)  == IF a > b THEN a - b ELSE 0
Within(n, low, high) == Larger(low, Lesser(n, high))

(* A text or list scrolled down just far enough; its last row shown.       *)
Follow8(rows, at) ==
  SubSeq(rows, Less(at, 8) + 1, Lesser(Less(at, 8) + 8, Len(rows)))

(* A window of room rows around at.                                        *)
Around(rows, at, room) ==
  LET start == Lesser(Less(at - 1, room \div 2), Less(Len(rows), room))
  IN SubSeq(rows, start + 1, Lesser(start + room, Len(rows)))

MarkAt(rows, at, role) == [i \in DOMAIN rows |-> IF i = at THEN role ELSE rows[i]]

-----------------------------------------------------------------------------
(* The prompt.                                                             *)

Section(w, i) == IF w.heads = 0 THEN 0 ELSE (i - 1) \div w.heads + 1
HeaderRows(w, lo, hi) ==
  IF w.heads = 0 \/ hi < lo THEN 0 ELSE Section(w, hi) - Section(w, lo) + 1

FitsRoom(w, room, win) ==
  win[2] - win[1] < 3 \/ win[2] - win[1] + 1 + HeaderRows(w, win[1], win[2]) <= room

(* Mutant of Trim: the end of the window goes, whoever is there.           *)
TrimFromEnd(w, room, window) ==
  LET less(win, k) == IF FitsRoom(w, room, win) THEN win ELSE <<win[1], win[2] - 1>>
  IN FoldLeftDomain(less, window, Plain(w.count))

(* Rows go from the end until the chosen option is last, then from the     *)
(* start, down to three.                                                   *)
Trim(w, room, window) ==
  LET less(win, k) == IF FitsRoom(w, room, win) THEN win
                      ELSE IF win[2] # w.at THEN <<win[1], win[2] - 1>>
                      ELSE <<win[1] + 1, win[2]>>
  IN FoldLeftDomain(less, window, Plain(w.count))

prompt_view(w, height) ==
  LET room  == Within(Less(height, 10), 3, 14)
      start == Lesser(Less(w.at - 1, room \div 2), Less(w.count, room))
  IN Trim(w, room, <<start + 1, Lesser(start + room, w.count)>>)

(* A diff gets what the rest leaves of the box, at least three rows.       *)
DiffRows(w, options, max_rows) ==
  LET budget == Larger(3, Less(max_rows, 8 + options))
  IN IF w.diff = 0 THEN <<>> ELSE Plain(1 + Lesser(w.diff, budget + 1))

OptionRows(w, lo, i) ==
  LET header == w.heads # 0 /\ (i = lo \/ Section(w, i) # Section(w, i - 1))
  IN (IF ~header THEN <<>> ELSE IF i = lo THEN Plain(1) ELSE Plain(2))
       \o <<IF i = w.at THEN "choice" ELSE "row">>

prompt_box(w, height, max_rows) ==
  LET win == prompt_view(w, height)
      Options == FlattenSeq([k \in 1..(win[2] - win[1] + 1) |->
                               OptionRows(w, win[1], win[1] + k - 1)])
  IN <<"row", "title">> \o Plain(w.texts) \o DiffRows(w, win[2] - win[1] + 1, max_rows)
       \o Plain(1) \o Options \o Plain(2)

-----------------------------------------------------------------------------
(* The input box with its picker, shortcuts or footer, and the form.       *)

input_box(w) ==
  Plain(1) \o Follow8(MarkAt(Plain(w.count), w.at, "cursor"), w.at) \o Plain(1)

picker(w) ==
  Follow8(MarkAt(Plain(w.lower), w.lowerAt, "choice"), w.lowerAt)
    \o (IF w.lower > 8 THEN Plain(1) ELSE <<>>)

(* The shortcuts take three rows and the footer one, the footer alone one. *)
BelowInput(w) == IF w.lower > 0 THEN picker(w) ELSE Plain(IF w.texts > 0 THEN 4 ELSE 1)

(* A text of several lines shows at most eight rows, focused or not, and   *)
(* follows its cursor; any other field shows one.                          *)
FieldRows(w, i) ==
  LET rows == Larger(1, w.fields[i])
      cursor == IF i # w.at THEN 0 ELSE IF w.fields[i] = 0 THEN 1 ELSE w.lowerAt
  IN Plain(1) \o Follow8(MarkAt(Plain(rows), cursor, "cursor"), Larger(1, Lesser(cursor, rows)))
       \o Plain(1)

FieldsFrom(w, first) ==
  FlattenSeq([i \in 1..(Len(w.fields) - first + 1) |-> FieldRows(w, first + i - 1)])

form_render(w) ==
  Plain(1) \o Plain(w.heads) \o FieldsFrom(w, 1) \o Plain(w.texts) \o Plain(2)

-----------------------------------------------------------------------------
(* The activity browser: w.heads of the items are agents, the rest jobs.   *)

ItemRows(w, i) ==
  (IF i = 1 \/ i = w.heads + 1 THEN Plain(1) ELSE <<>>)
    \o <<IF i = w.at THEN "choice" ELSE "row">>

render_list(w, height) ==
  LET rows == FlattenSeq([i \in 1..w.count |-> ItemRows(w, i)])
      sel_row == SelectInSeq(rows, LAMBDA r : r = "choice")
  IN IF w.count = 0 THEN Plain(3)
     ELSE Plain(1) \o Around(rows, sel_row, Larger(Less(height, 3), 3)) \o Plain(1)

(* w.texts rows of summary, progress and steps; w.count lines of log, the  *)
(* last of which is at the end of the viewport while following.            *)
log_rows(w, height) == Within(Less(height, 4 + w.texts + 3), 3, 40)

render_detail(w, height) ==
  <<"row", "title">> \o Plain(w.texts) \o Plain(1)
    \o (IF w.count = 0 THEN Plain(1)
        ELSE MarkAt(Plain(Lesser(w.count, log_rows(w, height))),
                    Lesser(w.count, log_rows(w, height)), "choice"))
    \o Plain(1)

-----------------------------------------------------------------------------
(* The frame.                                                              *)

Bottom(w, height) ==
  CASE w.kind = "form"   -> form_render(w)
    [] w.kind = "prompt" -> prompt_box(w, height, height - 2)
    [] w.kind = "list"   -> render_list(w, height - 2)
    [] w.kind = "detail" -> render_detail(w, height - 2)
    [] w.kind = "input"  -> input_box(w) \o BelowInput(w)

(* The terminal keeps the bottom of an oversized frame.                    *)
live_frame(w, height) ==
  LET all == Plain(w.above + 1) \o Bottom(w, height)
  IN SubSeq(all, Less(Len(all), height - 1) + 1, Len(all))

-----------------------------------------------------------------------------
(* The user moves the choice around, and the window's height changes.      *)

Neighbour(at, n, up) == IF up THEN ((at + n - 2) % n) + 1 ELSE (at % n) + 1

MoveChoice(up) ==
  /\ widget.count > 0 /\ widget.at > 0
  /\ \/ /\ widget.kind \in {"prompt", "list"}
        /\ widget' = [widget EXCEPT !.at = Neighbour(@, widget.count, up)]
     \/ /\ widget.kind = "input" /\ widget.lower > 0
        /\ widget' = [widget EXCEPT !.lowerAt = Neighbour(@, widget.lower, up)]
  /\ UNCHANGED tall

(* The focus goes to another field, whose cursor is where it was left.      *)
MoveFocus(up, row) ==
  /\ widget.kind = "form"
  /\ LET next == Neighbour(widget.at, Len(widget.fields), up)
     IN /\ row <= Larger(1, widget.fields[next])
        /\ widget' = [widget EXCEPT !.at = next, !.lowerAt = row]
  /\ UNCHANGED tall

(* Submitting with a required field empty goes to that field and says why.  *)
RefuseSubmit(i) ==
  /\ widget.kind = "form" /\ widget.at = Len(widget.fields)
  /\ i \in DOMAIN widget.fields /\ widget.fields[i] <= 1
  /\ widget' = [widget EXCEPT !.at = i, !.lowerAt = 1, !.texts = 1]
  /\ UNCHANGED tall

(* The cursor moves within a text of several rows, which grows by a row.    *)
MoveCursor(row) ==
  /\ \/ /\ widget.kind = "input" /\ widget.lower = 0 /\ row <= widget.count
        /\ widget' = [widget EXCEPT !.at = row]
     \/ /\ widget.kind = "form" /\ row <= widget.fields[widget.at]
        /\ widget' = [widget EXCEPT !.lowerAt = row]
  /\ UNCHANGED tall

NewLine ==
  /\ widget.kind = "form" /\ widget.fields[widget.at] \in 1 .. MaxTextRows - 1
  /\ widget' = [widget EXCEPT !.fields[widget.at] = @ + 1, !.lowerAt = @ + 1]
  /\ UNCHANGED tall

(* The filter leaves some of a list's options, without their sections, and  *)
(* chooses the first.                                                       *)
TypeFilter(n) ==
  /\ widget.kind = "prompt" /\ widget.diff = 0 /\ n < widget.count
  /\ widget' = [widget EXCEPT !.count = n, !.at = Lesser(1, n), !.heads = 0,
                              !.texts = Larger(1, @)]
  /\ UNCHANGED tall

resize_to(h) == h # tall /\ tall' = h /\ UNCHANGED widget

LayoutNext ==
  \/ \E up \in BOOLEAN : MoveChoice(up)
  \/ \E up \in BOOLEAN, row \in 1..MaxTextRows : MoveFocus(up, row)
  \/ \E i \in 1..5 : RefuseSubmit(i)
  \/ \E row \in 1..MaxTextRows : MoveCursor(row)
  \/ NewLine
  \/ \E n \in {0, 5} : TypeFilter(n)
  \/ \E h \in ScreenHeights : resize_to(h)

LayoutSpec == LayoutInit /\ [][LayoutNext]_layoutVars

-----------------------------------------------------------------------------
LayoutTypeOK == widget \in Widget /\ tall \in ScreenHeights

Shows(role) == role \in Range(live_frame(widget, tall))

(* Whatever is cut, the user sees what the next key acts on: the chosen    *)
(* option and the cursor are in a frame that leaves the terminal one row;  *)
(* and a permission request of one row of detail shows what it asks for    *)
(* above its diff. True from 18 rows on, and for a form while the fields   *)
(* from the focused one down take no more than 15 rows, as five of one     *)
(* line do: with two longer texts below it the frame, cut from the top,    *)
(* loses the field that is typed into.                                     *)
ChoiceInView ==
  /\ Len(live_frame(widget, tall)) < tall
  /\ tall >= 18 =>
       /\ widget.kind \in {"prompt", "list"} /\ widget.count > 0 => Shows("choice")
       /\ widget.kind = "input" => Shows("cursor")
       /\ widget.kind = "form" /\ Len(FieldsFrom(widget, widget.at)) <= 15 => Shows("cursor")
       /\ widget.kind = "input" /\ widget.lower > 0 => Shows("choice")
       /\ widget.kind = "prompt" /\ widget.heads = 0 /\ widget.texts <= 2 => Shows("title")
       /\ widget.kind = "detail" => Shows("title")
==============================================================================
