----------------------------- MODULE StoreWriter -----------------------------
(***************************************************************************)
(* How an event reaches the session store (crates/tui/src/inline_app.rs,   *)
(* persist.rs and crates/store/src/lib.rs).                                *)
(*                                                                         *)
(* Four threads share it. The host reader numbers each event, queues it    *)
(* for the store and only then hands it to the event loop. The event loop  *)
(* shows events, numbers its outbound ones, asks for a flush before it     *)
(* opens the transcript and closes the writer on exit. The store writer    *)
(* coalesces deltas and commits one transaction per gathering window.      *)
(* Housekeeping prunes the database once.                                  *)
(*                                                                         *)
(* Text is abstracted to the sequence of the seqs of the deltas it was     *)
(* joined from, an id to a number or a model value. Rows are read back     *)
(* ORDER BY seq and a transaction commits as a whole, so the order of rows *)
(* inside a batch is left out: the batch and the pending runs are sets.    *)
(***************************************************************************)
EXTENDS Naturals, Sequences, FiniteSets

CONSTANTS
  Streams,      (* assistant stream ids                                     *)
  Tools,        (* tool ids                                                 *)
  Bodies,       (* payloads of status updates and registrations             *)
  HostIds,      (* event ids a host supplies itself                         *)
  Fresh,        (* "no id supplied": the decoder makes a fresh one          *)
  Shapes,       (* the event shapes the host sends                          *)
  OutputCap,    (* TOOL_OUTPUT_BYTES, in units of the smallest chunk        *)
  ChanCap,      (* capacity of the channel into the event loop              *)
  MaxSeq,       (* bound: host and outbound events per behaviour            *)
  MaxFlush,     (* bound: flush requests per behaviour                      *)
  MaxDiskErrors (* bound: transactions SQLite refuses (disk full, I/O)      *)

StreamDeltas == {"token", "reasoning"}
ToolDeltas   == {"stdout", "stderr"}
Deltas       == StreamDeltas \cup ToolDeltas
Ends         == {"completed", "finished"}
Registrations == {"slash", "mentions"}
Deduped      == Registrations \cup {"status"}
NeverSaved   == {"activity", "answered"}
Kinds        == Deltas \cup Ends \cup Deduped \cup NeverSaved
                  \cup {"other", "started", "ended"}
Refs         == Streams \cup Tools \cup Bodies

Shape == [kind: Kinds, ref: Refs, size: Nat \ {0}, id: HostIds \cup {Fresh},
          old: BOOLEAN]

ASSUME ShapesAssumption == Shapes \subseteq Shape /\ Bodies # {}
ASSUME IdsAssumption == Fresh \notin HostIds /\ HostIds \cap Nat = {}
ASSUME BoundsAssumption ==
  /\ OutputCap \in Nat \ {0} /\ ChanCap \in Nat \ {0}
  /\ MaxSeq \in Nat /\ MaxFlush \in Nat /\ MaxDiskErrors \in Nat

VARIABLES
  nextSeq,    (* the shared AtomicI64                                       *)
  rpc, hand,  (* host reader: where it is, the event in its hand            *)
  proc, mine, (* main task: where it is, the event in its hand              *)
  chan,       (* events on their way to the event loop                      *)
  shown,      (* seqs the event loop has applied                            *)
  queue,      (* StoreMsg channel: events, flush requests, close            *)
  wpc,        (* store writer: idle, gathering, stopped                     *)
  pending,    (* Coalescer.pending: one run per key                         *)
  last,       (* Coalescer.last                                             *)
  batch,      (* rows of the next transaction                               *)
  db,         (* rows of this session on disk                               *)
  answered,   (* flush requests answered                                    *)
  hk,         (* has housekeeping run?                                      *)
  diskErrors, (* transactions refused so far                                *)
  sent,       (* history: events handed to a live writer                    *)
  asked,      (* history: what was on screen at each flush request          *)
  dropped,    (* history: seqs the coalescer chose not to keep              *)
  lost,       (* history: seqs of transactions that failed                  *)
  pruned      (* history: seqs housekeeping deleted                         *)

readerVars == <<rpc, hand>>
mainVars   == <<proc, mine, shown, asked>>
writerVars == <<wpc, pending, last, batch, answered, diskErrors, dropped, lost>>
diskVars   == <<db, hk, pruned>>
vars == <<nextSeq, chan, queue, sent, readerVars, mainVars, writerVars, diskVars>>

None == <<>>

-----------------------------------------------------------------------------
(* Events, rows and the coalescer.                                         *)

Event == [seq: Nat, kind: Kinds, ref: Refs, size: Nat \ {0},
          id: HostIds \cup Nat, old: BOOLEAN]
Row   == [seq: Nat, kind: Kinds, ref: Refs, text: Seq(Nat),
          id: HostIds \cup Nat, old: BOOLEAN]

(* Parsing a line: the host's id is kept when it sent one, its seq never.  *)
MakeEvent(shape, seq) ==
  [seq |-> seq, kind |-> shape.kind, ref |-> shape.ref, size |-> shape.size,
   id |-> IF shape.id = Fresh THEN seq ELSE shape.id, old |-> shape.old]

(* An event the renderer makes itself.                                     *)
OwnEvent(kind, seq) ==
  [seq |-> seq, kind |-> kind, ref |-> CHOOSE b \in Bodies : TRUE, size |-> 1,
   id |-> seq, old |-> FALSE]

Piece(ev) == [i \in 1..ev.size |-> ev.seq]

RowOf(ev) == [seq |-> ev.seq, kind |-> ev.kind, ref |-> ev.ref,
              text |-> Piece(ev), id |-> ev.id, old |-> ev.old]

SameKey(r, ev) == r.kind = ev.kind /\ r.ref = ev.ref
PiecesOf(t)    == {t[i] : i \in DOMAIN t}
Contents(rows) == UNION {PiecesOf(r.text) : r \in rows}
SeqsOf(rows)   == {r.seq : r \in rows}
DistinctSeqs(rows) == \A r, q \in rows : r.seq = q.seq => r = q

(* Only tool output is capped: its tail is what is kept.                   *)
Trim(kind, t) ==
  IF kind \in ToolDeltas /\ Len(t) > OutputCap
  THEN SubSeq(t, Len(t) - OutputCap + 1, Len(t)) ELSE t

(* Mutant of append: a new piece goes before the run.                      *)
appendPrepends(p, ev) ==
  IF \E r \in p : SameKey(r, ev)
  THEN {IF SameKey(r, ev)
        THEN [r EXCEPT !.text = Trim(r.kind, Piece(ev) \o r.text)]
        ELSE r : r \in p}
  ELSE p \cup {RowOf(ev)}

(* Add a delta to its run, or start one; the run keeps its first event.    *)
append(p, ev) ==
  IF \E r \in p : SameKey(r, ev)
  THEN {IF SameKey(r, ev)
        THEN [r EXCEPT !.text = Trim(r.kind, r.text \o Piece(ev))]
        ELSE r : r \in p}
  ELSE p \cup {RowOf(ev)}

(* The runs an end event takes with it.                                    *)
take(p, ev) ==
  {r \in p : /\ r.ref = ev.ref
             /\ r.kind \in IF ev.kind = "completed" THEN StreamDeltas ELSE ToolDeltas}

-----------------------------------------------------------------------------
(* The store writer thread.                                                *)

(* Mutant of Push: the end event takes its runs and does not save them.    *)
PushForgetsRuns(ev) ==
  /\ IF ev.kind \in Deltas
     THEN pending' = append(pending, ev) /\ UNCHANGED batch
     ELSE pending' = pending \ take(pending, ev) /\ batch' = batch \cup {RowOf(ev)}
  /\ UNCHANGED <<last, dropped>>

(* Mutant of Push: the text is copied into the batch and kept as well.     *)
PushCopiesRuns(ev) ==
  /\ IF ev.kind \in Deltas
     THEN pending' = append(pending, ev) /\ UNCHANGED batch
     ELSE UNCHANGED pending /\ batch' = batch \cup take(pending, ev) \cup {RowOf(ev)}
  /\ UNCHANGED <<last, dropped>>

(* Coalescer::push, its result added to the batch.                         *)
Push(ev) ==
  \/ /\ ev.kind \in Deltas
     /\ pending' = append(pending, ev)
     /\ dropped' = dropped \cup
          ((Contents(pending) \cup {ev.seq}) \ Contents(append(pending, ev)))
     /\ UNCHANGED <<batch, last>>
  \/ /\ ev.kind \in Ends
     /\ pending' = pending \ take(pending, ev)
     /\ batch' = batch \cup take(pending, ev) \cup {RowOf(ev)}
     /\ UNCHANGED <<last, dropped>>
  \/ /\ ev.kind \in NeverSaved
     /\ dropped' = dropped \cup {ev.seq}
     /\ UNCHANGED <<pending, batch, last>>
  \/ /\ ev.kind \in Deduped
     /\ last[ev.kind] = ev.ref
     /\ dropped' = dropped \cup {ev.seq}
     /\ UNCHANGED <<pending, batch, last>>
  \/ /\ ev.kind \in Deduped
     /\ last[ev.kind] # ev.ref
     /\ last' = [last EXCEPT ![ev.kind] = ev.ref]
     /\ batch' = batch \cup {RowOf(ev)}
     /\ UNCHANGED <<pending, dropped>>
  \/ /\ ev.kind \in {"other", "started", "ended"}
     /\ batch' = batch \cup {RowOf(ev)}
     /\ UNCHANGED <<pending, last, dropped>>

(* PRIMARY KEY (id) and UNIQUE (session_id, seq) of the events table.      *)
Clash(rows) ==
  \E r \in rows : \E q \in (rows \cup db) \ {r} : r.id = q.id \/ r.seq = q.seq

(* Mutant of Commit: the runs still pending stay out of the transaction.   *)
CommitBatchOnly ==
  /\ batch' = {} /\ db' = db \cup batch
  /\ UNCHANGED <<pending, lost, diskErrors>>

(* The flush closure: every pending run joins the batch, one transaction   *)
(* takes all of it or nothing, and its error is ignored.                   *)
Commit ==
  LET rows == batch \cup pending IN
  /\ pending' = {}
  /\ batch' = {}
  /\ \/ /\ ~Clash(rows)
        /\ db' = db \cup rows
        /\ UNCHANGED <<lost, diskErrors>>
     \/ /\ Clash(rows)
        /\ lost' = lost \cup Contents(rows)
        /\ UNCHANGED <<db, diskErrors>>
     \/ /\ rows # {} /\ ~Clash(rows)
        /\ diskErrors < MaxDiskErrors
        /\ diskErrors' = diskErrors + 1
        /\ lost' = lost \cup Contents(rows)
        /\ UNCHANGED db

WriterRuns == proc # "gone" /\ wpc # "stopped"

Receive(kind) ==
  /\ WriterRuns
  /\ queue # <<>> /\ Head(queue).msg = kind
  /\ queue' = Tail(queue)

(* recv or recv_timeout returned an event: gather more for a while.        *)
WriterEvent ==
  /\ Receive("event")
  /\ Push(Head(queue).ev)
  /\ wpc' = "gather"
  /\ UNCHANGED <<nextSeq, chan, sent, readerVars, mainVars, diskVars,
                 answered, diskErrors, lost>>

(* A flush request ends the gathering and is answered after the commit,    *)
(* whether or not the transaction succeeded.                               *)
WriterFlush ==
  /\ Receive("flush")
  /\ Commit
  /\ answered' = answered \cup {Head(queue).n}
  /\ wpc' = "idle"
  /\ UNCHANGED <<nextSeq, chan, sent, readerVars, mainVars, hk, pruned, last,
                 dropped>>

(* STORE_BATCH_MS have passed since the first event of the batch.          *)
WriterTimeout ==
  /\ WriterRuns /\ wpc = "gather"
  /\ Commit
  /\ wpc' = "idle"
  /\ UNCHANGED <<nextSeq, chan, queue, sent, readerVars, mainVars, hk, pruned,
                 last, dropped, answered>>

WriterClose ==
  /\ Receive("close")
  /\ Commit
  /\ wpc' = "stopped"
  /\ UNCHANGED <<nextSeq, chan, sent, readerVars, mainVars, hk, pruned, last,
                 dropped, answered>>

-----------------------------------------------------------------------------
(* Housekeeping: retention, then repeated registrations collapse to the    *)
(* latest of each type. This session goes too when every row of it carries *)
(* a host timestamp older than the cutoff.                                 *)

Superseded(rows) ==
  {r \in rows : /\ r.kind \in Registrations
                /\ \E q \in rows : q.kind = r.kind /\ q.seq > r.seq}

(* Mutant of Kept: the earliest registration survives, not the latest.     *)
KeptEarliest ==
  {r \in db : ~ /\ r.kind \in Registrations
                /\ \E q \in db : q.kind = r.kind /\ q.seq < r.seq}

Kept == IF \A r \in db : r.old THEN {} ELSE db \ Superseded(db)

Prune ==
  /\ proc # "gone" /\ hk = "todo"
  /\ hk' = "done"
  /\ db' = Kept
  /\ pruned' = pruned \cup (Contents(db) \ Contents(Kept))
  /\ UNCHANGED <<nextSeq, chan, queue, sent, readerVars, mainVars, writerVars>>

-----------------------------------------------------------------------------
(* The host reader.                                                        *)

Send(msg) ==
  IF wpc = "stopped" THEN UNCHANGED queue ELSE queue' = Append(queue, msg)

SendEvent(ev) ==
  /\ Send([msg |-> "event", ev |-> ev])
  /\ sent' = IF wpc = "stopped" THEN sent ELSE sent \cup {ev}

(* A line is parsed and numbered.                                          *)
ReadLine(shape) ==
  /\ proc # "gone" /\ rpc = "read" /\ nextSeq < MaxSeq
  /\ hand' = MakeEvent(shape, nextSeq)
  /\ nextSeq' = nextSeq + 1
  /\ rpc' = "store"
  /\ UNCHANGED <<chan, queue, sent, mainVars, writerVars, diskVars>>

(* Mutant of QueueForStore: the event loop gets the event first.           *)
ShowFirst ==
  /\ proc # "gone"
  /\ \/ /\ rpc = "store" /\ Len(chan) < ChanCap
        /\ chan' = Append(chan, hand) /\ rpc' = "late"
        /\ UNCHANGED <<queue, sent>>
     \/ /\ rpc = "late" /\ SendEvent(hand) /\ rpc' = "read" /\ UNCHANGED chan
  /\ UNCHANGED <<nextSeq, hand, mainVars, writerVars, diskVars>>

QueueForStore ==
  /\ proc # "gone" /\ rpc = "store"
  /\ SendEvent(hand)
  /\ rpc' = "loop"
  /\ UNCHANGED <<nextSeq, chan, hand, mainVars, writerVars, diskVars>>

(* tx.send waits for room in the channel.                                  *)
HandToLoop ==
  /\ proc # "gone" /\ rpc = "loop" /\ Len(chan) < ChanCap
  /\ chan' = Append(chan, hand)
  /\ rpc' = "read"
  /\ hand' = None
  /\ UNCHANGED <<nextSeq, queue, sent, mainVars, writerVars, diskVars>>

-----------------------------------------------------------------------------
(* The main task: it starts the session, runs the event loop and exits.    *)

(* The synthetic SessionStarted is numbered, then queued.                  *)
Boot ==
  /\ proc = "boot"
  /\ mine' = OwnEvent("started", nextSeq)
  /\ nextSeq' = nextSeq + 1
  /\ proc' = "bootSend"
  /\ UNCHANGED <<chan, queue, sent, readerVars, shown, asked, writerVars, diskVars>>

BootSend ==
  /\ proc = "bootSend"
  /\ SendEvent(mine)
  /\ proc' = "run"
  /\ mine' = None
  /\ UNCHANGED <<nextSeq, chan, readerVars, shown, asked, writerVars, diskVars>>

(* session.apply: the event is on screen from the next draw on.            *)
Apply ==
  /\ proc = "run" /\ chan # <<>>
  /\ shown' = shown \cup {Head(chan).seq}
  /\ chan' = Tail(chan)
  /\ UNCHANGED <<nextSeq, queue, sent, readerVars, proc, mine, asked, writerVars,
                 diskVars>>

(* An outbound event takes a number from the same counter; it is not saved.*)
Outbound ==
  /\ proc = "run" /\ nextSeq < MaxSeq
  /\ nextSeq' = nextSeq + 1
  /\ UNCHANGED <<chan, queue, sent, readerVars, mainVars, writerVars, diskVars>>

(* Ctrl+O: flush_store blocks the loop until the answer or two seconds.    *)
RequestFlush ==
  /\ proc = "run" /\ Len(asked) < MaxFlush
  /\ asked' = Append(asked, shown)
  /\ Send([msg |-> "flush", n |-> Len(asked) + 1])
  /\ proc' = "flush"
  /\ UNCHANGED <<nextSeq, chan, sent, readerVars, mine, shown, writerVars, diskVars>>

FlushReturns ==
  /\ proc = "flush"
  /\ proc' = "run"
  /\ UNCHANGED <<nextSeq, chan, queue, sent, readerVars, mine, shown, asked,
                 writerVars, diskVars>>

(* Exit: SessionEnded and Close are queued, then the main task waits.      *)
ExitBegin ==
  /\ proc = "run"
  /\ mine' = OwnEvent("ended", nextSeq)
  /\ nextSeq' = nextSeq + 1
  /\ proc' = "exitSend"
  /\ UNCHANGED <<chan, queue, sent, readerVars, shown, asked, writerVars, diskVars>>

(* Mutant of ExitSend: Close is queued before SessionEnded.                *)
ExitCloseFirst ==
  /\ proc = "exitSend"
  /\ Send([msg |-> "close"])
  /\ proc' = "exitWait"
  /\ sent' = sent \cup {mine}
  /\ UNCHANGED <<nextSeq, chan, readerVars, mine, shown, asked, writerVars, diskVars>>

ExitSend ==
  /\ proc = "exitSend"
  /\ SendEvent(mine)
  /\ proc' = "exitClose"
  /\ mine' = None
  /\ UNCHANGED <<nextSeq, chan, readerVars, shown, asked, writerVars, diskVars>>

ExitClose ==
  /\ proc = "exitClose"
  /\ Send([msg |-> "close"])
  /\ proc' = "exitWait"
  /\ UNCHANGED <<nextSeq, chan, sent, readerVars, mine, shown, asked, writerVars,
                 diskVars>>

(* The writer finished, or the 1.5 s are over: the process ends either way.*)
ExitDone ==
  /\ proc = "exitWait"
  /\ proc' = "gone"
  /\ UNCHANGED <<nextSeq, chan, queue, sent, readerVars, mine, shown, asked,
                 writerVars, diskVars>>

-----------------------------------------------------------------------------
Init ==
  /\ nextSeq = 0
  /\ rpc = "read" /\ hand = None
  /\ proc = "boot" /\ mine = None
  /\ chan = <<>> /\ shown = {} /\ asked = <<>>
  /\ queue = <<>> /\ wpc = "idle"
  /\ pending = {} /\ last = [k \in Deduped |-> None] /\ batch = {}
  /\ answered = {} /\ diskErrors = 0
  /\ db = {} /\ hk = "todo"
  /\ sent = {} /\ dropped = {} /\ lost = {} /\ pruned = {}

Writer == WriterEvent \/ WriterFlush \/ WriterTimeout \/ WriterClose
Reader == (\E shape \in Shapes : ReadLine(shape)) \/ QueueForStore \/ HandToLoop
Main   == \/ Boot \/ BootSend \/ Apply \/ Outbound \/ RequestFlush
          \/ FlushReturns \/ ExitBegin \/ ExitSend \/ ExitClose \/ ExitDone

Next == Writer \/ Reader \/ Main \/ Prune

Spec == Init /\ [][Next]_vars

(* The writer thread is scheduled and its gathering window ends; the main  *)
(* task stops waiting for it after 1.5 s.                                  *)
Fairness == WF_vars(Writer) /\ WF_vars(ExitDone)

FairSpec == Spec /\ Fairness

-----------------------------------------------------------------------------
TypeOK ==
  /\ nextSeq \in Nat
  /\ rpc \in {"read", "store", "loop"}
  /\ hand \in IF rpc = "read" THEN {None} ELSE Event
  /\ proc \in {"boot", "bootSend", "run", "flush", "exitSend", "exitClose",
               "exitWait", "gone"}
  /\ mine \in IF proc \in {"bootSend", "exitSend"} THEN Event ELSE {None}
  /\ chan \in Seq(Event) /\ shown \subseteq Nat /\ asked \in Seq(SUBSET Nat)
  /\ queue \in Seq([msg: {"event"}, ev: Event] \cup [msg: {"flush"}, n: Nat]
                     \cup [msg: {"close"}])
  /\ wpc \in {"idle", "gather", "stopped"}
  /\ pending \subseteq Row /\ batch \subseteq Row /\ db \subseteq Row
  /\ last \in [Deduped -> Refs \cup {None}]
  /\ answered \subseteq Nat /\ hk \in {"todo", "done"} /\ diskErrors \in Nat
  /\ sent \subseteq Event
  /\ dropped \subseteq Nat /\ lost \subseteq Nat /\ pruned \subseteq Nat

Queued  == {queue[i].ev.seq : i \in {j \in DOMAIN queue : queue[j].msg = "event"}}

(* What became of an event is decided: it is on disk, or the coalescer     *)
(* keeps no row of it, its transaction failed, or housekeeping deleted it. *)
Settled == Contents(db) \cup dropped \cup lost \cup pruned

(* Conservation: what the reader and the main task queued is on disk, in   *)
(* the queue, in a run, in the batch, or was given up in one of three      *)
(* named ways (not kept by the coalescer, refused with its transaction,    *)
(* pruned). No step of the writer lets a delta slip between its buffers.   *)
NothingVanishes ==
  \A ev \in sent : ev.seq \in Settled \cup Queued \cup Contents(pending \cup batch)

(* A run keeps its first event's seq while later deltas pile up in it, and *)
(* the counter is shared with events that are never stored. Still no two   *)
(* rows on their way to disk or there carry one seq, so UNIQUE(session_id, *)
(* seq) never refuses a transaction: only a host that repeats an id can.   *)
SeqNeverCollides ==
  /\ DistinctSeqs(db) /\ DistinctSeqs(batch) /\ DistinctSeqs(pending)
  /\ SeqsOf(db) \cap SeqsOf(batch) = {}
  /\ SeqsOf(db) \cap SeqsOf(pending) = {}
  /\ SeqsOf(batch) \cap SeqsOf(pending) = {}

(* The inductive strengthening of SeqNeverCollides: every seq in use is    *)
(* below the counter, and it is in one place only: a hand, one position of *)
(* the queue, or one row.                                                  *)
RowSeqs == SeqsOf(db) \cup SeqsOf(batch) \cup SeqsOf(pending)
InHand(s) == s < nextSeq /\ s \notin Queued /\ s \notin RowSeqs
MainHolds == proc \in {"bootSend", "exitSend"}
QueueDistinct ==
  \A i, j \in DOMAIN queue :
    i # j /\ queue[i].msg = "event" /\ queue[j].msg = "event"
      => queue[i].ev.seq # queue[j].ev.seq
SeqInv ==
  /\ \A s \in Queued \cup RowSeqs : s < nextSeq
  /\ QueueDistinct
  /\ Queued \cap RowSeqs = {}
  /\ rpc = "store" => InHand(hand.seq)
  /\ MainHolds => InHand(mine.seq)
  /\ rpc = "store" /\ MainHolds => hand.seq # mine.seq
  /\ SeqNeverCollides

(* Replaying the store (ORDER BY seq) yields each stream's text in the     *)
(* order the host sent it, however many rows the gathering windows cut it  *)
(* into.                                                                   *)
ReplayKeepsText ==
  \A r \in db : r.kind \in Deltas =>
    /\ \A i, j \in DOMAIN r.text : i < j => r.text[i] <= r.text[j]
    /\ \A q \in db : SameKey(r, q) /\ r.seq < q.seq =>
          \A a \in PiecesOf(r.text), b \in PiecesOf(q.text) : a < b

(* The abstract log: a flush request or a close is its sync, the runs and   *)
(* the batch are its buffer.                                                *)
Brings(m) == IF m.msg = "event" THEN {m.ev.seq} ELSE {}
Log == INSTANCE DurableLog WITH
         waiting <- [i \in DOMAIN queue |-> Brings(queue[i])],
         held <- Contents(pending \cup batch),
         saved <- Contents(db), givenUp <- dropped \cup lost \cup pruned

(* The store writer implements the durable log: a process killed at any    *)
(* moment leaves no hole on disk, no end of a message without its text and *)
(* no late event without the earlier ones, although deltas wait in runs    *)
(* while other events overtake them into the batch; and a flush or a close *)
(* is passed only when nothing is held back.                               *)
ImplementsDurableLog == Log!Spec

(* When the flush behind Ctrl+O is answered, nothing that was on screen as  *)
(* the user asked is still on its way, in the queue, a run or the batch:    *)
(* each event is on disk, or was given up in one of the ways of Settled, of *)
(* which a failed transaction (lost) is one. FlushIsOnDisk does not excuse  *)
(* that one.                                                                *)
FlushSettlesScreen == \A n \in answered : asked[n] \subseteq Settled

(* A writer that stopped leaves nothing that was ever shown undecided, nor  *)
(* the SessionEnded event: on disk, or given up in one of those ways. It    *)
(* keeps nothing back in a run or a batch.                                  *)
ExitSettlesScreen ==
  wpc = "stopped" =>
    /\ shown \subseteq Settled
    /\ \E ev \in sent : ev.kind = "ended" /\ ev.seq \in Settled
    /\ pending = {} /\ batch = {}

(* What the program waits for before it reads the store or ends leaves      *)
(* nothing of the screen undecided: the flush behind Ctrl+O, and the exit.  *)
SyncsSettleScreen == FlushSettlesScreen /\ ExitSettlesScreen

(* inline_app.rs, StoreMsg: Flush answers when what was buffered is on      *)
(* disk. What was on screen as it was asked for is then a row, or one the   *)
(* coalescer keeps no row of, or was deleted by retention.                  *)
FlushIsOnDisk ==
  \A n \in answered : asked[n] \subseteq Contents(db) \cup dropped \cup pruned

(* Skipping a repeated status or registration loses nothing as long as no  *)
(* transaction failed: between batches the newest row of the type on disk  *)
(* carries the newest payload, also after housekeeping collapsed the type. *)
LatestPayloadOnDisk ==
  \A k \in Deduped :
    wpc = "idle" /\ lost = {} /\ last[k] # None =>
      \/ \E r \in db : /\ r.kind = k /\ r.ref = last[k]
                        /\ \A q \in db : q.kind = k => q.seq <= r.seq
      \/ \E ev \in sent : /\ ev.kind = k /\ ev.ref = last[k] /\ ev.old
                           /\ ev.seq \in pruned

(* Whatever is queued is committed or given up in the end, unless the      *)
(* process goes first.                                                     *)
EventuallySettled ==
  \A s \in 0..(MaxSeq + 1) :
    (\E ev \in sent : ev.seq = s) ~> (s \in Settled \/ proc = "gone")

(* ARCHITECTURE.md, invariant 2: every event is written to SQLite before   *)
(* it is shown.                                                            *)
PersistBeforeRender == shown \subseteq Contents(db) \cup dropped
====
