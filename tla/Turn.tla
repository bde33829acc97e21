-------------------------------- MODULE Turn --------------------------------
(***************************************************************************)
(* What a turn puts on the screen (crates/inline/src/session.rs, with the  *)
(* blocks of blocks.rs and the compact region of compact.rs): the entries  *)
(* the session holds, the maps by which later events find them, what is    *)
(* printed into history and dropped, and what makes the session busy.      *)
(*                                                                         *)
(* ses is the part of Session a turn uses; the operators below carry the   *)
(* names of its methods and take and return it, and every event of the     *)
(* host is one action. Text is a sequence of words, blank lines and code   *)
(* fences; a tool is plain, a read, a code step or a plan update. The host *)
(* does not start an id that is still running.                             *)
(***************************************************************************)
EXTENDS Naturals, Sequences, FiniteSets, SequencesExt

CONSTANTS
  StreamIds, ToolIds,
  Pieces,        (* tokens a host may send: sequences of "w", "b", "f"      *)
  TrailCap,      (* MAX_TRAIL_BEADS                                         *)
  MaxTurnEvents  (* bound: events of the host and keys of the user          *)

ASSUME TurnAssumption ==
  /\ TrailCap \in Nat \ {0} /\ MaxTurnEvents \in Nat
  /\ Pieces \subseteq Seq({"w", "b", "f"})
  /\ StreamIds \cap ToolIds = {}  \* host.open holds both; no code compares them

VARIABLES
  ses,      (* the session                                                  *)
  host,     (* what the host has open, and whether it has ended its turn    *)
  eventsLeft

turnVars == <<ses, host, eventsLeft>>

ToolKinds == {"plain", "read", "code", "plan"}
NoGroup   == 0

TurnInit ==
  /\ ses = [entries |-> <<>>, next_id |-> 1,
            streams |-> <<>>, tools |-> <<>>, reasoning |-> <<>>,
            printed_prefix |-> <<>>, open_group |-> NoGroup,
            plan |-> "none", plan_seen |-> FALSE, plan_rows |-> {},
            phase |-> "idle", phase_busy |-> FALSE, busy_since |-> FALSE,
            beads |-> <<>>, by_tool |-> <<>>,
            said |-> <<>>, printed |-> <<>>]
  /\ host = [open |-> {}, over |-> FALSE]
  /\ eventsLeft \in 0..MaxTurnEvents

-----------------------------------------------------------------------------
(* Entries. A tool row has one status, a group one for each of its tools;  *)
(* of is the entry a reply's paragraph was split from.                     *)

Block(kind) == [kind |-> kind, text |-> <<>>, run |-> <<>>, closed |-> FALSE, label |-> "none"]

Without(f, keys) == Restrict(f, DOMAIN f \ keys)
With(f, key, value) == [k \in DOMAIN f \cup {key} |-> IF k = key THEN value ELSE f[k]]
Look(f, key, default) == IF key \in DOMAIN f THEN f[key] ELSE default

Index(s, id) == SelectInSeq(s.entries, LAMBDA e : e.id = id)

EntryOf(s, id) == s.entries[Index(s, id)]

Change(s, id, entry) ==
  IF Index(s, id) = 0 THEN s ELSE [s EXCEPT !.entries[Index(s, id)] = entry]

finish(s, id) == Change(s, id, [EntryOf(s, id) EXCEPT !.done = TRUE])

(* The entries that are kept, in their order (retain). A function, because  *)
(* the prover cannot expand SelectSeq.                                      *)
Keeping(entries, kept) ==
  LET K[i \in 0..Len(entries)] ==
        IF i = 0 THEN <<>>
        ELSE IF entries[i] \in kept THEN Append(K[i - 1], entries[i]) ELSE K[i - 1]
  IN K[Len(entries)]

Drop(s, ids) == [s EXCEPT !.entries = Keeping(@, {e \in Range(@) : e.id \notin ids})]

NewEntry(s, block, done) ==
  [id |-> s.next_id, of |-> s.next_id, done |-> done, block |-> block]

push_quiet(s, block, done) ==
  [s EXCEPT !.entries = Append(@, NewEntry(s, block, done)), !.next_id = @ + 1]

Still(entry) == "running" \notin Range(entry.block.run)

finish_group_if_done(s, id) ==
  IF Index(s, id) # 0 /\ EntryOf(s, id).block.closed /\ Still(EntryOf(s, id))
  THEN finish(s, id) ELSE s

(* Mutant of close_group: the group is closed and left to its tools.       *)
close_groupOnly(s) ==
  IF s.open_group = NoGroup THEN s
  ELSE Change([s EXCEPT !.open_group = NoGroup], s.open_group,
              [EntryOf(s, s.open_group) EXCEPT !.block.closed = TRUE])

close_group(s) ==
  IF s.open_group = NoGroup THEN s
  ELSE finish_group_if_done(
         Change([s EXCEPT !.open_group = NoGroup], s.open_group,
                [EntryOf(s, s.open_group) EXCEPT !.block.closed = TRUE]),
         s.open_group)

(* Anything but reply text, reasoning or a group ends a run of reads; a     *)
(* table is pushed as reply text that is done.                              *)
push(s, block, done) ==
  push_quiet(IF block.kind \in {"reply", "table", "reasoning", "group"} THEN s
             ELSE close_group(s),
             block, done)

Notice(s) == push(s, Block("notice"), TRUE)

(* The compact region starts over when the session becomes busy.           *)
became_busy(s) ==
  IF s.busy_since THEN s
  ELSE [s EXCEPT !.busy_since = TRUE, !.beads = <<>>, !.by_tool = <<>>]

is_busy(s) == s.phase_busy \/ \E i \in DOMAIN s.entries : ~s.entries[i].done

-----------------------------------------------------------------------------
(* The trail of the compact region: a bead per tool, the oldest leaves when *)
(* it is full; by_tool holds the index of each running tool's bead.         *)

push_bead(s, of) ==
  LET full == Len(s.beads) = TrailCap
      kept == {t \in DOMAIN s.by_tool : s.by_tool[t] > 1}
  IN [s EXCEPT !.beads = Append(IF full THEN Tail(@) ELSE @, of),
               !.by_tool = IF full THEN [t \in kept |-> @[t] - 1] ELSE @]

TrailToolStarted(s, tid) ==
  LET t == push_bead(s, tid) IN [t EXCEPT !.by_tool = With(@, tid, Len(t.beads))]

TrailToolFinished(s, tid) == [s EXCEPT !.by_tool = Without(@, {tid})]

-----------------------------------------------------------------------------
(* Printing. A reply is split at its last blank line that is not inside a  *)
(* fence and has text after it, so that finished paragraphs can leave.     *)

Fences(text) == Cardinality({i \in DOMAIN text : text[i] = "f"})
Blank(text)  == "f" \notin Range(text) /\ "w" \notin Range(text)
Shown(text)  == Keeping(text, {"w", "f"})

Trimmed(text) ==
  SubSeq(text, Min({i \in DOMAIN text : text[i] # "b"} \cup {Len(text) + 1}), Len(text))

Splits(text) ==
  {i \in DOMAIN text : /\ text[i] = "b" /\ i < Len(text)
                       /\ Fences(SubSeq(text, 1, i)) % 2 = 0}

paragraph_split(text) == Max(Splits(text))

split_streaming_paragraphs(s) ==
  IF s.entries = <<>> THEN s
  ELSE LET first == Head(s.entries)
           text  == first.block.text
       IN IF first.done \/ first.block.kind # "reply" \/ Splits(text) = {} THEN s
          ELSE LET at   == paragraph_split(text)
                   head == SubSeq(text, 1, at)
                   tail == Trimmed(SubSeq(text, at + 1, Len(text)))
                   consumed == SubSeq(text, 1, Len(text) - Len(tail))
               IN IF Blank(head) THEN s
                  ELSE [s EXCEPT
                    !.entries = <<[id |-> s.next_id, of |-> first.id, done |-> TRUE,
                                   block |-> [first.block EXCEPT !.text = head]],
                                  [first EXCEPT !.block.text = tail]>> \o Tail(@),
                    !.next_id = @ + 1,
                    !.printed_prefix = With(@, first.id, Look(@, first.id, <<>>) \o consumed)]

(* What entries show of the reply id, in their order.                       *)
ShownOf(entries, id) ==
  LET T[i \in 0..Len(entries)] ==
        IF i = 0 THEN <<>>
        ELSE IF entries[i].block.kind = "reply" /\ entries[i].of = id
             THEN T[i - 1] \o Shown(entries[i].block.text) ELSE T[i - 1]
  IN T[Len(entries)]

(* Entries that are printed: each adds what it shows to what history has of *)
(* its reply.                                                               *)
PrintEntries(printed, entries) ==
  LET replies == {e \in Range(entries) : e.block.kind = "reply" /\ ~Blank(e.block.text)}
  IN [id \in DOMAIN printed \cup {e.of : e \in replies} |->
        Look(printed, id, <<>>) \o ShownOf(entries, id)]

(* Leading entries that are done are printed and dropped.                  *)
take_history(s) ==
  LET split == split_streaming_paragraphs(s)
      undone == {i \in DOMAIN split.entries : ~split.entries[i].done}
      ready  == IF undone = {} THEN Len(split.entries) ELSE Min(undone) - 1
  IN [split EXCEPT
        !.printed = PrintEntries(@, SubSeq(split.entries, 1, ready)),
        !.entries = SubSeq(@, ready + 1, Len(@))]

-----------------------------------------------------------------------------
(* The end of a turn, or its interruption.                                 *)

Stop(entry) ==
  [entry EXCEPT !.done = TRUE, !.block.closed = (entry.block.kind = "group"),
                !.block.run = [i \in DOMAIN @ |-> IF @[i] = "running" THEN "stopped" ELSE @[i]]]

settle(s, interrupted) ==
  LET rows  == Drop(s, s.plan_rows)
      still == [rows EXCEPT
                  !.entries = [i \in DOMAIN @ |-> Stop(@[i])],
                  !.plan_rows = {}, !.open_group = NoGroup,
                  !.streams = <<>>, !.tools = <<>>, !.phase_busy = FALSE,
                  !.plan = "none", !.beads = <<>>, !.by_tool = <<>>, !.busy_since = FALSE]
      plan  == IF interrupted /\ s.plan = "unfinished"
               THEN push(still, Block("plan"), TRUE) ELSE still
  IN IF interrupted /\ is_busy(s) THEN Notice(plan) ELSE plan

-----------------------------------------------------------------------------
(* Events of the host.                                                     *)

Event(s) ==
  /\ eventsLeft > 0 /\ eventsLeft' = eventsLeft - 1
  /\ ses' = s

HostHas(open) == host' = [open |-> open, over |-> FALSE]

(* Reasoning ends when its reply gets text, or completes.                  *)
finish_reasoning(s, sid) ==
  IF sid \notin DOMAIN s.reasoning THEN s
  ELSE finish([s EXCEPT !.reasoning = Without(@, {sid})], s.reasoning[sid])

OpenReply(s, sid) ==
  [push(s, Block("reply"), FALSE) EXCEPT !.streams = With(@, sid, s.next_id),
                                         !.said = With(@, s.next_id, <<>>)]

AssistantStreamStarted(sid) ==
  /\ sid \notin host.open
  /\ Event(became_busy(OpenReply(ses, sid)))
  /\ HostHas(host.open \cup {sid})

(* A token may open its stream: it is late, or the start was never sent.   *)
AssistantTokenDelta(sid, token) ==
  /\ sid \in host.open
  /\ LET busy  == IF Blank(token) THEN ses ELSE close_group(became_busy(ses))
         ready == finish_reasoning(busy, sid)
         open  == IF sid \in DOMAIN ready.streams THEN ready ELSE OpenReply(ready, sid)
         id    == open.streams[sid]
     IN Event([Change(open, id, [EntryOf(open, id) EXCEPT !.block.text = @ \o token])
                 EXCEPT !.said[id] = @ \o token])
  /\ HostHas(host.open)

(* Reasoning goes above its reply while the reply is empty; text for an     *)
(* entry that is gone is lost.                                              *)
AssistantReasoningDelta(sid) ==
  /\ sid \in host.open
  /\ LET at == IF sid \in DOMAIN ses.streams THEN Index(ses, ses.streams[sid])
                                              ELSE Len(ses.entries) + 1
         late == sid \in DOMAIN ses.streams
                   /\ (at = 0 \/ ses.entries[at].block.text # <<>>)
     IN IF sid \in DOMAIN ses.reasoning \/ late THEN Event(ses)
        ELSE Event(became_busy([ses EXCEPT
               !.entries = InsertAt(@, at, NewEntry(ses, Block("reasoning"), FALSE)),
               !.next_id = @ + 1,
               !.reasoning = With(@, sid, ses.next_id)]))
  /\ HostHas(host.open)

(* The text the host ends the message with: none, what it streamed, more of *)
(* it, or something else.                                                   *)
Finals(s, sid) ==
  LET said == IF sid \in DOMAIN s.streams THEN s.said[s.streams[sid]] ELSE <<>>
  IN {said, said \o <<"b", "w">>, <<"f", "w", "f">>}

(* Mutant of Finalize: the final text replaces all that is held.           *)
FinalizeWhole(s, id, text) ==
  [Change(s, id, [EntryOf(s, id) EXCEPT !.block.text = text]) EXCEPT !.said[id] = text]

(* Only what comes after the printed paragraphs is replaced; a text that    *)
(* rewrote them is not used.                                                *)
Finalize(s, id, text) ==
  LET printed == Look(s.printed_prefix, id, <<>>)
      rest    == Trimmed(SubSeq(text, Len(printed) + 1, Len(text)))
  IN IF IsPrefix(printed, text)
     THEN [Change(s, id, [EntryOf(s, id) EXCEPT !.block.text = rest]) EXCEPT !.said[id] = text]
     ELSE s

(* texts: {} or the text the host ends with.                                *)
Complete(s, sid, texts) ==
  LET ready == finish_reasoning(s, sid)
      id    == ready.streams[sid]
      final == IF texts = {} THEN ready ELSE Finalize(ready, id, CHOOSE t \in texts : TRUE)
  IN IF sid \notin DOMAIN ready.streams THEN ready
     ELSE finish([final EXCEPT !.streams = Without(@, {sid}),
                               !.printed_prefix = Without(@, {id})], id)

AssistantMessageCompleted(sid) ==
  /\ sid \in host.open
  /\ \E texts \in {{}} \cup {{text} : text \in Finals(ses, sid)} :
       Event(Complete(ses, sid, texts))
  /\ HostHas(host.open \ {sid})

-----------------------------------------------------------------------------
(* Tools.                                                                  *)

Tool(run) == [Block("tool") EXCEPT !.run = run]

Label(kind) == IF kind = "code" THEN "Code" ELSE "none"

JoinsGroup(s, kind) ==
  /\ s.open_group # NoGroup
  /\ s.entries[Index(s, s.open_group)].block.label = Label(kind)

(* A plan update has a row of its own that does not end a run; reads and    *)
(* code steps join the open group of their kind, or open one.               *)
ToolStarted(s, tid, kind) ==
  LET busy  == became_busy(s)
      trail == TrailToolStarted(busy, tid)
      At(t, id, i) == [t EXCEPT !.tools = With(@, tid, [entry |-> id, at |-> i])]
  IN CASE kind = "plan" ->
            [At(push_quiet(busy, Tool(<<"running">>), FALSE), busy.next_id, 1)
               EXCEPT !.plan_rows = @ \cup {busy.next_id}]
       [] kind = "plain" ->
            At(push(trail, Tool(<<"running">>), FALSE), trail.next_id, 1)
       [] kind \in {"read", "code"} /\ JoinsGroup(trail, kind) ->
            LET grown == Change(trail, trail.open_group,
                                [EntryOf(trail, trail.open_group)
                                   EXCEPT !.block.run = Append(@, "running")])
            IN At(grown, trail.open_group,
                  Len(EntryOf(grown, trail.open_group).block.run))
       [] OTHER ->
            LET alone == close_group(trail)
                group == [Block("group") EXCEPT !.run = <<"running">>, !.label = Label(kind)]
            IN [At(push(alone, group, FALSE), alone.next_id, 1)
                  EXCEPT !.open_group = alone.next_id]

ToolExecutionStarted(tid, kind) ==
  /\ tid \notin host.open
  /\ Event(ToolStarted(ses, tid, kind))
  /\ HostHas(host.open \cup {tid})

(* A plan row whose plan was shown too goes, unless it failed; a group is   *)
(* done once it is closed and its tools have finished.                      *)
ToolFinished(s, tid, status) ==
  LET id    == s.tools[tid].entry
      at    == s.tools[tid].at
      known == [s EXCEPT !.tools = Without(@, {tid})]
      set   == TrailToolFinished(
                 Change(known, id, [EntryOf(known, id) EXCEPT !.block.run[at] = status]), tid)
      row   == id \in s.plan_rows /\ s.plan_seen /\ status # "error"
      kept  == [(IF row THEN Drop(set, {id}) ELSE set) EXCEPT !.plan_rows = @ \ {id}]
  IN IF Index(kept, id) # 0 /\ kept.entries[Index(kept, id)].block.kind = "group"
     THEN finish_group_if_done(kept, id) ELSE finish(kept, id)

ToolExecutionFinished(tid, status) ==
  /\ tid \in host.open
  /\ Event(IF tid \in DOMAIN ses.tools THEN ToolFinished(ses, tid, status) ELSE ses)
  /\ HostHas(host.open \ {tid})

-----------------------------------------------------------------------------
(* The rest of the host's events that change what is held.                 *)

(* A user message, a proposed patch, an error, a notice ...; or a table.    *)
BlockPrinted ==
  \E kind \in {"notice", "table"} :
    /\ Event(push(ses, Block(kind), TRUE))
    /\ HostHas(host.open)

TodoListUpdate(plan) ==
  /\ Event([ses EXCEPT !.plan = plan, !.plan_seen = @ \/ plan # "none"])
  /\ HostHas(host.open)

(* The phase stays in the segments: an update of another segment looks at   *)
(* it again, also after the user has interrupted.                           *)
StatusUpdate(segment) ==
  LET s == [ses EXCEPT !.phase = IF segment = "other" THEN @ ELSE segment] IN
  /\ Event(IF s.phase = "busy" THEN became_busy([s EXCEPT !.phase_busy = TRUE])
           ELSE IF s.phase_busy THEN settle([s EXCEPT !.phase_busy = FALSE], FALSE)
           ELSE s)
  /\ host' = [host EXCEPT !.over = (segment = "idle" /\ host.open = {})]

AgentStarted ==
  /\ Event(push_bead(ses, "agent"))
  /\ HostHas(host.open)

TranscriptCleared ==
  LET kept == Keeping(ses.entries, {e \in Range(ses.entries) : ~e.done})
      gone == {ses.entries[i].of : i \in {j \in DOMAIN ses.entries : ses.entries[j].done}}
  IN /\ Event([ses EXCEPT !.entries = kept, !.plan = "none", !.said = Without(@, gone),
                          !.printed = Without(@, gone)])
     /\ HostHas(host.open)

(* The user's Esc or Ctrl+C while busy; the host may also ask for it.       *)
Interrupt ==
  /\ is_busy(ses)
  /\ Event(settle(ses, TRUE))
  /\ UNCHANGED host

CancelRequested ==
  /\ Event(settle(ses, TRUE))
  /\ HostHas(host.open)

(* The loop draws: what is finished is printed.                            *)
Draw ==
  /\ ses' = take_history(ses)
  /\ UNCHANGED <<host, eventsLeft>>

ReplyStep ==
  \/ \E sid \in StreamIds :
       \/ AssistantStreamStarted(sid)
       \/ \E token \in Pieces : AssistantTokenDelta(sid, token)
       \/ AssistantReasoningDelta(sid) \/ AssistantMessageCompleted(sid)

ToolStep ==
  \/ \E tid \in ToolIds :
       \/ \E kind \in ToolKinds : ToolExecutionStarted(tid, kind)
       \/ \E status \in {"ok", "error"} : ToolExecutionFinished(tid, status)
  \/ AgentStarted
  \/ \E plan \in {"none", "unfinished", "finished"} : TodoListUpdate(plan)

OtherStep ==
  \/ BlockPrinted \/ TranscriptCleared
  \/ \E segment \in {"busy", "idle", "other"} : StatusUpdate(segment)
  \/ Interrupt \/ CancelRequested

TurnNext == ReplyStep \/ ToolStep \/ OtherStep \/ Draw

TurnSpec == TurnInit /\ [][TurnNext]_turnVars

-----------------------------------------------------------------------------
EntryIds == 1..(ses.next_id - 1)

TurnTypeOK ==
  /\ \A i \in DOMAIN ses.entries :
       /\ ses.entries[i].id \in EntryIds /\ ses.entries[i].of \in EntryIds
       /\ ses.entries[i].done \in BOOLEAN
       /\ Range(ses.entries[i].block.run) \subseteq {"running", "stopped", "ok", "error"}
  /\ DOMAIN ses.streams \subseteq StreamIds /\ Range(ses.streams) \subseteq EntryIds
  /\ DOMAIN ses.tools \subseteq ToolIds /\ DOMAIN ses.reasoning \subseteq StreamIds
  /\ ses.open_group \in EntryIds \cup {NoGroup}
  /\ ses.plan_rows \subseteq EntryIds /\ Len(ses.beads) <= TrailCap
  /\ host.open \subseteq StreamIds \cup ToolIds /\ host.over \in BOOLEAN

(* The bead that by_tool names is the bead of that tool, however many have  *)
(* left the trail while it ran.                                             *)
TrailNamesItsTool ==
  \A t \in DOMAIN ses.by_tool :
    ses.by_tool[t] \in DOMAIN ses.beads /\ ses.beads[ses.by_tool[t]] = t

(* Whatever is in motion can be stopped by an event to come: an entry that  *)
(* is not done is a stream's, a tool's, an open reasoning or the open       *)
(* group, and it is the one the map names; nothing that is done shows a     *)
(* tool still running; and a tool that ends finds its own bead.             *)
MotionHasOwner ==
  /\ TrailNamesItsTool
  /\ \A i \in DOMAIN ses.entries : LET e == ses.entries[i] IN
       /\ e.done => Still(e)
       /\ ~e.done => \/ e.id \in Range(ses.streams) \cup Range(ses.reasoning) \cup {ses.open_group}
                     \/ \E t \in DOMAIN ses.tools : ses.tools[t].entry = e.id
  /\ \A id \in Range(ses.streams) \cup {ses.tools[t].entry : t \in DOMAIN ses.tools} :
       Index(ses, id) # 0 /\ ~ses.entries[Index(ses, id)].done
  /\ \A t \in DOMAIN ses.tools :
       ses.entries[Index(ses, ses.tools[t].entry)].block.run[ses.tools[t].at] = "running"

(* Each word of a reply is shown once and in order: what history has of it, *)
(* followed by what the live area still holds, is what the host said, for   *)
(* every way of splitting, finishing and interrupting it. A final text      *)
(* replaces what has not been printed, and only that.                       *)
TextPrintedOnce ==
  \A id \in DOMAIN ses.said :
    Look(ses.printed, id, <<>>) \o ShownOf(ses.entries, id) = Shown(ses.said[id])

(* session.rs:1499 "Nothing may keep animating after a turn ends, whatever  *)
(* the host sent." The host has finished all it opened and has said it is   *)
(* idle: nothing moves.                                                     *)
TurnEndStillsScreen == host.over => ~is_busy(ses)
==============================================================================
