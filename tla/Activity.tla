------------------------------ MODULE Activity ------------------------------
(***************************************************************************)
(* Background jobs and agents (inline/src/activity.rs and its part of      *)
(* session.rs): the list the host keeps up to date, the browser over it,   *)
(* the requests the browser sends back and the lines that announce what    *)
(* became of an item. The browser selects by position in a display order   *)
(* that every update may change. Drawing, titles, steps and times are left *)
(* out; an item's log is its number of lines.                              *)
(***************************************************************************)
EXTENDS Naturals, Sequences, SequencesExt

CONSTANTS
  Items,       (* ids                                                       *)
  Updates,     (* payloads of ActivityUpdate: [id, status, kind, stoppable];*)
               (* a field is "" when the payload leaves it out              *)
  LogCap,      (* LOG_LINES                                                 *)
  Page,        (* rows of the log viewport                                  *)
  MaxReports   (* bound: events of the host                                 *)

ASSUME ActivityAssumption ==
  /\ {LogCap, Page} \subseteq Nat \ {0} /\ MaxReports \in Nat
  /\ \A p \in Updates : p.id \in Items

VARIABLES
  items,       (* Activity.items                                            *)
  browser,     (* {} or the one View                                        *)
  outbox,      (* views and stops told to the host: its newest view (history), *)
               (* and the ids it was asked to stop (history)                *)
  told,        (* per id, what the transcript says of it (history): "none", *)
               (* "active" since it was seen active, "ended" since announced *)
  reportsLeft

activityVars == <<items, browser, outbox, told, reportsLeft>>

Active(status) == status \in {"running", "waiting", "attention"}
Present == {items[k].id : k \in DOMAIN items}
Get(id) == CHOOSE it \in ToSet(items) : it.id = id

NoView == "closed"
List(sel) == [view |-> "list", sel |-> sel]
Detail(id, back, scroll, follow) ==
  [view |-> "detail", id |-> id, back |-> back, scroll |-> scroll, follow |-> follow]
Confirm(id, back, detail) ==
  [view |-> "confirm", id |-> id, back |-> back, detail |-> detail]

(* Agents before jobs; of each, those that need attention, the other active *)
(* ones, the finished ones; otherwise in order of arrival (a stable sort).  *)
Rank(it) ==
  (IF it.kind = "agent" THEN 0 ELSE 3)
  + (IF it.status = "attention" THEN 0 ELSE IF Active(it.status) THEN 1 ELSE 2)

SortKey(i) == Rank(items[i]) * Len(items) + i

ordered ==
  [k \in DOMAIN items |->
     items[CHOOSE i \in DOMAIN items :
             Cardinality({j \in DOMAIN items : SortKey(j) < SortKey(i)}) = k - 1]]

ActivityInit ==
  /\ items = <<>> /\ browser = {}
  /\ outbox = [view |-> NoView, about |-> "", stops |-> {}]
  /\ told = [i \in Items |-> "none"]
  /\ reportsLeft = MaxReports

-----------------------------------------------------------------------------
(* The list.                                                                *)

Fresh(id) == [id |-> id, kind |-> "job", status |-> "running", stoppable |-> FALSE,
              log |-> 0, stop_requested |-> FALSE]

Merge(it, p) ==
  [it EXCEPT !.kind = IF p.kind = "" THEN @ ELSE p.kind,
             !.stoppable = IF p.stoppable = "" THEN @ ELSE p.stoppable = "yes",
             !.status = IF p.status = "" THEN @ ELSE p.status,
             !.stop_requested = @ /\ p.status \in {"", it.status}]

(* upsert: an item keeps its place and its log; a new one goes last.        *)
upsert(list, p) ==
  IF \E k \in DOMAIN list : list[k].id = p.id
  THEN [k \in DOMAIN list |-> IF list[k].id = p.id THEN Merge(list[k], p) ELSE list[k]]
  ELSE Append(list, Merge(Fresh(p.id), p))

StatusIn(list, id) ==
  LET at == {k \in DOMAIN list : list[k].id = id}
  IN  IF at = {} THEN "" ELSE list[CHOOSE k \in at : TRUE].status

(* The lifecycle change upsert reports, and session.rs announces.           *)
Transition(was, is, announce_new) ==
  IF was = "" /\ Active(is) /\ announce_new THEN "started"
  ELSE IF Active(was) /\ ~Active(is) THEN "ended"
  ELSE IF is = "attention" /\ was # "attention" /\ (was # "" \/ announce_new)
  THEN "attention" ELSE ""

Announce(said, id, was, is, announce_new) ==
  [said EXCEPT ![id] =
     IF Active(is) THEN "active"
     ELSE IF Transition(was, is, announce_new) = "ended" THEN "ended" ELSE @]

(* fix_browser: a view of an item that is gone falls back to the list.      *)
Fixed(list, view) ==
  LET gone == \E v \in view : /\ v.view # "list"
                              /\ StatusIn(list, v.id) = ""
  IN  [gone |-> gone, view |-> IF gone THEN {List(0)} ELSE view]

(* Mutant of fix_browser: the host is not told.                             *)
fix_browserSilently ==
  /\ browser' = Fixed(items', browser).view
  /\ UNCHANGED outbox

fix_browser ==
  LET fixed == Fixed(items', browser)
  IN  /\ browser' = fixed.view
      /\ outbox' = IF fixed.gone THEN [outbox EXCEPT !.view = "list", !.about = ""]
                   ELSE outbox

Report == reportsLeft > 0 /\ reportsLeft' = reportsLeft - 1

ActivityUpdate(p) ==
  /\ Report
  /\ items' = upsert(items, p)
  /\ told' = Announce(told, p.id, StatusIn(items, p.id), StatusIn(items', p.id), TRUE)
  /\ fix_browser

(* retain: the items of these ids, in the order they were in.               *)
Retained(list, ids) ==
  LET kept == {i \in DOMAIN list : list[i].id \in ids}
  IN  [k \in 1 .. Cardinality(kept) |->
         list[CHOOSE i \in kept : Cardinality({j \in kept : j < i}) = k - 1]]

(* snapshot: items missing from it are dropped without a word; then every   *)
(* item is upserted, in order, and those seen for the first time are not    *)
(* announced.                                                               *)
Upserted(acc, p) ==
  LET next == upsert(acc.list, p)
  IN  [list |-> next,
       told |-> Announce(acc.told, p.id, StatusIn(acc.list, p.id), StatusIn(next, p.id), FALSE)]

snapshot(ps) ==
  LET keep == {ps[k].id : k \in DOMAIN ps}
      S[n \in 0 .. Len(ps)] ==
        IF n = 0 THEN [list |-> Retained(items, keep),
                       told |-> [i \in Items |-> IF i \in keep THEN told[i] ELSE "none"]]
        ELSE Upserted(S[n - 1], ps[n])
  IN  S[Len(ps)]

ActivitySnapshot(ps) ==
  /\ Report
  /\ items' = snapshot(ps).list /\ told' = snapshot(ps).told
  /\ fix_browser

(* log: the chunk's first line continues the last one; ids that are not     *)
(* listed are ignored.                                                      *)
ActivityLog(id, newlines) ==
  /\ Report
  /\ items' = [k \in DOMAIN items |->
       IF items[k].id # id THEN items[k]
       ELSE LET lines == (IF items[k].log = 0 THEN 1 ELSE items[k].log) + newlines
            IN  [items[k] EXCEPT !.log = IF lines > LogCap THEN LogCap ELSE lines]]
  /\ UNCHANGED <<browser, outbox, told>>

ActivityRemoved(id) ==
  /\ Report
  /\ items' = Retained(items, Present \ {id})
  /\ told' = [told EXCEPT ![id] = "none"]
  /\ fix_browser

-----------------------------------------------------------------------------
(* The browser.                                                             *)

Says(view, about) == outbox' = [outbox EXCEPT !.view = view, !.about = about]

(* Ctrl+B, or ActivityBrowserOpen: nothing when it is open.                 *)
ActivityBrowserOpen ==
  /\ browser = {}
  /\ browser' = {List(0)} /\ Says("list", "")
  /\ UNCHANGED <<items, told, reportsLeft>>

Selected(sel) == IF sel < Len(items) THEN sel ELSE Len(items) - 1

ListKey(v) ==
  LET n   == Len(items)
      sel == Selected(v.sel)
      it  == ordered[sel + 1]
  IN  \/ browser' = {} /\ Says(NoView, "")
      \/ /\ n > 0
         /\ \/ browser' = {List((sel + n - 1) % n)} /\ UNCHANGED outbox
            \/ browser' = {List((sel + 1) % n)} /\ UNCHANGED outbox
            \/ browser' = {Detail(it.id, sel, 0, TRUE)} /\ Says("detail", it.id)
            \/ /\ it.stoppable /\ Active(it.status)
               /\ browser' = {Confirm(it.id, sel, FALSE)} /\ UNCHANGED outbox

Scrolled(v, to) ==
  LET max == IF Get(v.id).log > Page THEN Get(v.id).log - Page ELSE 0
  IN  [v EXCEPT !.scroll = IF to < max THEN to ELSE max, !.follow = to = 0]

DetailKey(v) ==
  LET at == IF v.follow THEN 0 ELSE v.scroll
      it == Get(v.id)
  IN  \/ browser' = {List(v.back)} /\ Says("list", "")
      \/ browser' = {} /\ Says(NoView, "")
      \/ \E to \in {at + 1, IF at = 0 THEN 0 ELSE at - 1, at + Page,
                    IF at < Page THEN 0 ELSE at - Page, 0,
                    IF it.log > Page THEN it.log - Page ELSE 0} :
           browser' = {Scrolled(v, to)} /\ UNCHANGED outbox
      \/ /\ it.stoppable /\ Active(it.status)
         /\ browser' = {Confirm(v.id, v.back, TRUE)} /\ UNCHANGED outbox

Back(v) == IF v.detail THEN Detail(v.id, v.back, 0, TRUE) ELSE List(v.back)

(* y, or Enter, stops it, whatever became of it since the question.         *)
ConfirmStop(v) ==
  /\ v.view = "confirm"
  /\ browser' = {Back(v)}
  /\ items' = [k \in DOMAIN items |->
       IF items[k].id = v.id THEN [items[k] EXCEPT !.stop_requested = TRUE] ELSE items[k]]
  /\ outbox' = [outbox EXCEPT !.stops = @ \cup {v.id}]

ConfirmKey(v) == browser' = {Back(v)} /\ UNCHANGED outbox

BrowserKey ==
  /\ \E v \in browser :
       \/ ConfirmStop(v)
       \/ /\ UNCHANGED items
          /\ \/ v.view = "list" /\ ListKey(v)
             \/ v.view = "detail" /\ DetailKey(v)
             \/ v.view = "confirm" /\ ConfirmKey(v)
  /\ UNCHANGED <<told, reportsLeft>>

ActivityNext ==
  \/ \E p \in Updates : ActivityUpdate(p) \/ ActivitySnapshot(<<p>>)
  \/ \E p, q \in Updates : p.id # q.id /\ ActivitySnapshot(<<p, q>>)
  \/ ActivitySnapshot(<<>>)
  \/ \E i \in Items : ActivityRemoved(i) \/ \E n \in 0 .. 2 : ActivityLog(i, n)
  \/ ActivityBrowserOpen
  \/ BrowserKey

ActivitySpec == ActivityInit /\ [][ActivityNext]_activityVars

-----------------------------------------------------------------------------
(* Types: one item per id, its log within LOG_LINES, a scroll that starts   *)
(* inside the log.                                                          *)
ActivityTypeOK ==
  /\ Len(items) = Cardinality(Present) /\ Present \subseteq Items
  /\ \A it \in ToSet(items) : it.log \in 0 .. LogCap /\ it.stop_requested \in BOOLEAN
  /\ Cardinality(browser) <= 1
  /\ told \in [Items -> {"none", "active", "ended"}]
  /\ reportsLeft \in 0 .. MaxReports

(* The view the host was last told of; a question about stopping counts as  *)
(* the view it was asked from.                                              *)
ShownView(v) ==
  CASE v.view = "list"   -> <<"list", "">>
    [] v.view = "detail" -> <<"detail", v.id>>
    [] OTHER             -> IF v.detail THEN <<"detail", v.id>> ELSE <<"list", "">>

(* The host streams an item's output to the view it believes is open. So    *)
(* whatever is updated, removed or replaced under the browser, the view the *)
(* host knows is the one on screen, about an item that is still listed; and *)
(* nothing the user saw running is shown as over without a line that says   *)
(* so, whichever event ended it. (fix_browser, announce)                    *)
BrowserAndNoticesTrue ==
  /\ <<outbox.view, outbox.about>> =
       IF browser = {} THEN <<NoView, "">> ELSE ShownView(CHOOSE v \in browser : TRUE)
  /\ \A v \in browser : v.view # "list" => v.id \in Present
  /\ \A it \in ToSet(items) : ~Active(it.status) => told[it.id] # "active"
=============================================================================
