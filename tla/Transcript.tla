----------------------------- MODULE Transcript -----------------------------
(***************************************************************************)
(* The full-screen transcript (tui/src/transcript.rs) over the events a    *)
(* store gave back (tui/src/replay.rs): the events are applied to a fresh  *)
(* session at the window's width, the lines are paged, searched and        *)
(* rendered anew when the window changes. An event is a set of queries it  *)
(* contains and the lines it takes, per width; drawing is left out. The    *)
(* window's size and the events are chosen once, the size again at every   *)
(* resize.                                                                 *)
(***************************************************************************)
EXTENDS Naturals, Sequences, SequencesExt

CONSTANTS
  Sizes,       (* windows: [width, height]                                  *)
  Recorded,    (* recordings: sequences of [type, holds, rows], type        *)
               (* "block" or "clear", rows a function of the window's width *)
  Queries,     (* what is searched for                                      *)
  MaxViewKeys  (* bound: keys and resizes                                   *)

Clear     == [type |-> "clear"]
BlockOf   == [type : {"block"}, holds : SUBSET Queries, rows : [{z.width : z \in Sizes} -> Nat]]

ASSUME TranscriptAssumption ==
  /\ MaxViewKeys \in Nat /\ Recorded \subseteq Seq(BlockOf \cup {Clear})
  /\ \A z \in Sizes : {z.width, z.height} \subseteq Nat \ {0}

VARIABLES
  events,    (* Transcript.events                                           *)
  size,      (* width and height                                            *)
  lines,     (* per line, the queries it contains                           *)
  scroll,    (* index of the first visible line, from 0                     *)
  search,    (* {} or a Search: query, matches, current, editing, and the   *)
             (* window's width when it was run (history)                    *)
  opened,    (* the view is open                                            *)
  jumped,    (* {} or the line last jumped to, while it should show (history) *)
  viewKeys

transcriptVars == <<events, size, lines, scroll, search, opened, jumped, viewKeys>>

(* replay::transcript: each event adds its lines; a clear drops them all.   *)
(* The first line of a block holds what it contains.                        *)
LinesOf(ev, width) == [k \in 1 .. ev.rows[width] |-> IF k = 1 THEN ev.holds ELSE {}]

transcript_of(evs, width) ==
  LET T[n \in 0 .. Len(evs)] ==
        IF n = 0 THEN <<>>
        ELSE IF evs[n].type = "clear" THEN <<>> ELSE T[n - 1] \o LinesOf(evs[n], width)
  IN  T[Len(evs)]

body_height(z)       == IF z.height > 3 THEN z.height - 2 ELSE 1
max_scroll(ls, z)    == IF Len(ls) > body_height(z) THEN Len(ls) - body_height(z) ELSE 0
clamp_scroll(n, ls, z) == IF n < max_scroll(ls, z) THEN n ELSE max_scroll(ls, z)

find_matches(ls, q) ==
  LET hits == {i \in DOMAIN ls : q \in ls[i]}
  IN  [k \in 1 .. Cardinality(hits) |->
         (CHOOSE i \in hits : Cardinality({j \in hits : j < i}) = k - 1) - 1]

TranscriptInit ==
  /\ events \in Recorded /\ size \in Sizes
  /\ lines = transcript_of(events, size.width)
  /\ scroll = 0 /\ search = {} /\ opened = TRUE /\ jumped = {}
  /\ viewKeys = MaxViewKeys

Pressed == opened /\ viewKeys > 0 /\ viewKeys' = viewKeys - 1

Editing == \E s \in search : s.editing

(* The match a third of the way down, like less.                            *)
jump_to_current_match(s) ==
  IF s.current < Len(s.matches)
  THEN LET line == s.matches[s.current + 1]
           up   == body_height(size) \div 3
       IN  /\ scroll' = clamp_scroll(IF line < up THEN 0 ELSE line - up, lines, size)
           /\ jumped' = {line}
  ELSE UNCHANGED <<scroll, jumped>>

-----------------------------------------------------------------------------
(* While the query is typed every key belongs to it.                        *)

TypeQuery ==
  /\ Pressed /\ Editing
  /\ \E s \in search, q \in Queries : search' = {[s EXCEPT !.query = q]}
  /\ UNCHANGED <<events, size, lines, scroll, opened, jumped>>

CancelSearch ==
  /\ Pressed /\ Editing /\ search' = {}
  /\ UNCHANGED <<events, size, lines, scroll, opened, jumped>>

RunSearch ==
  /\ Pressed /\ Editing
  /\ \E s \in search :
       LET found == [s EXCEPT !.editing = FALSE, !.current = 0, !.at = size.width,
                              !.matches = find_matches(lines, s.query)]
       IN  search' = {found} /\ jump_to_current_match(found)
  /\ UNCHANGED <<events, size, lines, opened>>

StartSearch ==
  /\ Pressed /\ ~Editing
  /\ search' = {[query |-> "", matches |-> <<>>, current |-> 0, editing |-> TRUE,
                 at |-> size.width]}
  /\ UNCHANGED <<events, size, lines, scroll, opened, jumped>>

NextMatch(by) ==
  /\ Pressed /\ ~Editing
  /\ \E s \in search :
       LET n     == Len(s.matches)
           moved == [s EXCEPT !.current = (@ + (IF by = 1 THEN 1 ELSE n - 1)) % n]
       IN  n > 0 /\ search' = {moved} /\ jump_to_current_match(moved)
  /\ UNCHANGED <<events, size, lines, opened>>

Scroll ==
  /\ Pressed /\ ~Editing
  /\ \E to \in {scroll + 1, scroll + body_height(size), 0, max_scroll(lines, size),
                IF scroll > 0 THEN scroll - 1 ELSE 0,
                IF scroll > body_height(size) THEN scroll - body_height(size) ELSE 0} :
       scroll' = clamp_scroll(to, lines, size)
  /\ jumped' = {}
  /\ UNCHANGED <<events, size, lines, search, opened>>

(* resize: everything is rendered again, but the matches are not found      *)
(* again: they still number the old lines.                                  *)
ResizeView(z) ==
  /\ Pressed
  /\ size' = z
  /\ lines' = transcript_of(events, z.width)
  /\ scroll' = clamp_scroll(scroll, lines', z)
  /\ jumped' = {}
  /\ UNCHANGED <<events, search, opened>>

CloseView ==
  /\ Pressed /\ ~Editing /\ opened' = FALSE
  /\ UNCHANGED <<events, size, lines, scroll, search, jumped>>

TranscriptNext ==
  \/ TypeQuery \/ CancelSearch \/ RunSearch \/ StartSearch
  \/ NextMatch(1) \/ NextMatch(-1) \/ Scroll \/ CloseView
  \/ \E z \in Sizes : ResizeView(z)

TranscriptSpec == TranscriptInit /\ [][TranscriptNext]_transcriptVars

-----------------------------------------------------------------------------
TranscriptTypeOK ==
  /\ size \in Sizes /\ scroll \in Nat /\ opened \in BOOLEAN
  /\ Cardinality(search) <= 1
  /\ \A s \in search : s.current = 0 \/ s.current < Len(s.matches)
  /\ viewKeys \in 0 .. MaxViewKeys

(* After a jump the line jumped to is on the page, however far down and     *)
(* however small the window, and the page never starts past the last full   *)
(* one; and the matches of a search run at this width hold the query.       *)
(* ("Put the match a third of the way down", transcript.rs 145.)            *)
MatchInView ==
  /\ scroll <= max_scroll(lines, size)
  /\ \A line \in jumped :
       line < Len(lines) => line \in scroll .. scroll + body_height(size) - 1
  /\ \A s \in search : \A k \in DOMAIN s.matches :
       s.at = size.width => s.query \in lines[s.matches[k] + 1]
=============================================================================
