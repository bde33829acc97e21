-------------------------- MODULE StoreWriterProofs --------------------------
(***************************************************************************)
(* Theorems about StoreWriter, for every host, every set of event shapes   *)
(* and every bound: type correctness, that no seq is ever used for two     *)
(* rows, that no queued event slips between the writer's buffers, what a   *)
(* flush and an exit guarantee, and, step by step, that the store writer   *)
(* implements the durable log.                                             *)
(*                                                                         *)
(* Then what the rows on disk say: replayed in the order of their seqs     *)
(* they give each stream's text in the order the host sent it, and the     *)
(* newest row of a deduplicated type carries the newest payload. Both rest *)
(* on one order. A single reader numbers the host's events and queues      *)
(* them, so of what only a host sends each seq used by a row is below      *)
(* those in the queue, those rise along the queue, and the event in the    *)
(* reader's hand is above them all.                                        *)
(***************************************************************************)
EXTENDS StoreWriter, TLAPS, SequenceTheorems

-----------------------------------------------------------------------------
(* Operators of the model.                                                 *)

(* What the decoder and make_event build is an event.                      *)
LEMMA EventsAreEvents ==
  /\ \A shape \in Shapes, n \in Nat : MakeEvent(shape, n) \in Event
  /\ \A n \in Nat : OwnEvent("started", n) \in Event /\ OwnEvent("ended", n) \in Event
<1>1. \A shape \in Shapes, n \in Nat : MakeEvent(shape, n) \in Event
  BY ShapesAssumption DEF MakeEvent, Event, Shape
<1>2. (CHOOSE b \in Bodies : TRUE) \in Refs
  BY ShapesAssumption DEF Refs
<1>3. \A n \in Nat : OwnEvent("started", n) \in Event /\ OwnEvent("ended", n) \in Event
  BY <1>2 DEF OwnEvent, Event, Kinds
<1> QED BY <1>1, <1>3

(* A delta's text consists of its own seq, at least once.                  *)
LEMMA PieceText ==
  ASSUME NEW ev \in Event
  PROVE  Piece(ev) \in Seq(Nat) /\ PiecesOf(Piece(ev)) = {ev.seq}
<1>1. ev.size \in Nat \ {0} /\ ev.seq \in Nat
  BY DEF Event
<1>2. Piece(ev) \in Seq(Nat) /\ DOMAIN Piece(ev) = 1..ev.size
  BY <1>1 DEF Piece
<1>3. 1 \in 1..ev.size
  BY <1>1
<1> QED BY <1>1, <1>2, <1>3 DEF Piece, PiecesOf

(* A single event becomes a row with its own seq.                          *)
LEMMA RowOfEvent ==
  ASSUME NEW ev \in Event
  PROVE  /\ RowOf(ev) \in Row
         /\ RowOf(ev).seq = ev.seq
         /\ Contents({RowOf(ev)}) = {ev.seq}
         /\ SeqsOf({RowOf(ev)}) = {ev.seq}
         /\ DistinctSeqs({RowOf(ev)})
<1>1. RowOf(ev) \in Row /\ RowOf(ev).seq = ev.seq /\ RowOf(ev).text = Piece(ev)
  BY PieceText DEF RowOf, Row, Event
<1>2. Contents({RowOf(ev)}) = {ev.seq}
  BY <1>1, PieceText DEF Contents
<1>3. SeqsOf({RowOf(ev)}) = {ev.seq}
  BY <1>1 DEF SeqsOf
<1>4. DistinctSeqs({RowOf(ev)})
  BY DEF DistinctSeqs
<1> QED BY <1>1, <1>2, <1>3, <1>4

(* Cutting a text to its tail leaves a text.                               *)
LEMMA TrimType ==
  ASSUME NEW kind, NEW t \in Seq(Nat)
  PROVE  Trim(kind, t) \in Seq(Nat)
<1>1. CASE kind \in ToolDeltas /\ Len(t) > OutputCap
  <2>1. Len(t) - OutputCap + 1 \in 1..Len(t)
    BY <1>1, BoundsAssumption
  <2>2. SubSeq(t, Len(t) - OutputCap + 1, Len(t)) \in Seq(Nat)
    BY <2>1
  <2> QED BY <1>1, <2>2 DEF Trim
<1>2. CASE ~(kind \in ToolDeltas /\ Len(t) > OutputCap)
  BY <1>2 DEF Trim
<1> QED BY <1>1, <1>2

(* Adding a delta yields rows whose seqs were there before, plus at most   *)
(* the delta's own.                                                        *)
LEMMA AppendRows ==
  ASSUME NEW p \in SUBSET Row, NEW ev \in Event
  PROVE  /\ append(p, ev) \subseteq Row
         /\ SeqsOf(append(p, ev)) \subseteq SeqsOf(p) \cup {ev.seq}
<1>1. CASE \E r \in p : SameKey(r, ev)
  <2> DEFINE grown(r) == [r EXCEPT !.text = Trim(r.kind, r.text \o Piece(ev))]
  <2>1. ASSUME NEW r \in p
        PROVE  grown(r) \in Row /\ grown(r).seq = r.seq
    <3>1. r.text \o Piece(ev) \in Seq(Nat)
      BY PieceText DEF Row
    <3>2. Trim(r.kind, r.text \o Piece(ev)) \in Seq(Nat)
      BY <3>1, TrimType
    <3> QED BY <3>2 DEF Row
  <2>2. append(p, ev) = {IF SameKey(r, ev) THEN grown(r) ELSE r : r \in p}
    BY <1>1 DEF append
  <2> HIDE DEF grown
  <2> QED BY <2>1, <2>2 DEF SeqsOf
<1>2. CASE ~ \E r \in p : SameKey(r, ev)
  <2>1. append(p, ev) = p \cup {RowOf(ev)}
    BY <1>2 DEF append
  <2> QED BY <2>1, RowOfEvent DEF SeqsOf
<1> QED BY <1>1, <1>2

-----------------------------------------------------------------------------
(* Type correctness.                                                       *)

(* Pushing an event keeps the coalescer's buffers well-typed.              *)
LEMMA PushType ==
  ASSUME TypeOK, NEW ev \in Event, Push(ev)
  PROVE  /\ pending' \subseteq Row /\ batch' \subseteq Row
         /\ last' \in [Deduped -> Refs \cup {None}] /\ dropped' \subseteq Nat
<1>1. ev.seq \in Nat /\ ev.ref \in Refs
  BY DEF Event
<1>2. Contents(pending) \subseteq Nat
  BY DEF TypeOK, Contents, PiecesOf, Row
<1>3. take(pending, ev) \subseteq pending
  BY DEF take
<1>4. RowOf(ev) \in Row /\ append(pending, ev) \subseteq Row
  BY AppendRows, RowOfEvent DEF TypeOK
<1> QED BY <1>1, <1>2, <1>3, <1>4 DEF TypeOK, Push

(* So does a commit, whether its transaction succeeds or fails.            *)
LEMMA CommitType ==
  ASSUME TypeOK, Commit
  PROVE  /\ pending' \subseteq Row /\ batch' \subseteq Row /\ db' \subseteq Row
         /\ lost' \subseteq Nat /\ diskErrors' \in Nat
<1>1. Contents(batch \cup pending) \subseteq Nat
  BY DEF TypeOK, Contents, PiecesOf, Row
<1>2. pending \subseteq Row /\ batch \subseteq Row /\ db \subseteq Row /\ lost \subseteq Nat
      /\ diskErrors \in Nat
  BY DEF TypeOK
<1>3. /\ pending' = {} /\ batch' = {}
      /\ db' = db \/ db' = db \cup (batch \cup pending)
      /\ lost' = lost \/ lost' = lost \cup Contents(batch \cup pending)
      /\ diskErrors' = diskErrors \/ diskErrors' = diskErrors + 1
  BY DEF Commit
<1>4. pending' \subseteq Row /\ batch' \subseteq Row
  BY <1>3
<1>5. db' \subseteq Row
  BY <1>2, <1>3
<1>6. lost' \subseteq Nat
  BY <1>1, <1>2, <1>3
<1>7. diskErrors' \in Nat
  BY <1>2, <1>3
<1> QED BY <1>4, <1>5, <1>6, <1>7

(* A received message was one of the queue; the rest stays queued.         *)
LEMMA ReceiveType ==
  ASSUME TypeOK, NEW kind, Receive(kind)
  PROVE  /\ queue' \in Seq([msg: {"event"}, ev: Event] \cup [msg: {"flush"}, n: Nat]
                             \cup [msg: {"close"}])
         /\ kind = "event" => Head(queue).ev \in Event
         /\ kind = "flush" => Head(queue).n \in Nat
<1> DEFINE M == [msg: {"event"}, ev: Event] \cup [msg: {"flush"}, n: Nat]
                  \cup [msg: {"close"}]
<1>1. queue \in Seq(M) /\ queue # <<>>
  BY DEF TypeOK, Receive
<1> HIDE DEF M
<1>2. Head(queue) \in M /\ Tail(queue) \in Seq(M)
  BY <1>1
<1> USE DEF M
<1>3. Head(queue).msg = kind /\ queue' = Tail(queue)
  BY DEF Receive
<1> QED BY <1>2, <1>3

(* Sending keeps the queue well-typed.                                     *)
LEMMA SendType ==
  ASSUME TypeOK,
         NEW m \in [msg: {"event"}, ev: Event] \cup [msg: {"flush"}, n: Nat]
                     \cup [msg: {"close"}],
         Send(m)
  PROVE  queue' \in Seq([msg: {"event"}, ev: Event] \cup [msg: {"flush"}, n: Nat]
                          \cup [msg: {"close"}])
<1> DEFINE M == [msg: {"event"}, ev: Event] \cup [msg: {"flush"}, n: Nat]
                  \cup [msg: {"close"}]
<1>1. queue \in Seq(M) /\ m \in M
  BY DEF TypeOK
<1> HIDE DEF M
<1>2. queue' \in Seq(M)
  BY <1>1 DEF Send
<1> QED BY <1>2 DEF M

(* SendEvent: an event put into the queue leaves it and sent well typed.   *)
LEMMA SendEventType ==
  ASSUME TypeOK, NEW ev \in Event, SendEvent(ev)
  PROVE  /\ queue' \in Seq([msg: {"event"}, ev: Event] \cup [msg: {"flush"}, n: Nat]
                             \cup [msg: {"close"}])
         /\ sent' \subseteq Event
<1>1. [msg |-> "event", ev |-> ev] \in [msg: {"event"}, ev: Event]
  OBVIOUS
<1>2. Send([msg |-> "event", ev |-> ev])
  BY DEF SendEvent
<1> QED BY <1>1, <1>2, SendType DEF SendEvent, TypeOK

(* Every step of every thread keeps the state well-typed: each buffer an   *)
(* event passes through holds events or rows, in or out of a transaction.  *)
LEMMA TypeStep == TypeOK /\ [Next]_vars => TypeOK'
<1> SUFFICES ASSUME TypeOK, [Next]_vars PROVE TypeOK'
  OBVIOUS
<1> USE DEF readerVars, mainVars, writerVars, diskVars
<1>1. CASE WriterEvent
  <2>1. Head(queue).ev \in Event
    BY <1>1, ReceiveType DEF WriterEvent
  <2>2. Push(Head(queue).ev)
    BY <1>1 DEF WriterEvent
  <2> QED BY <1>1, <2>1, <2>2, ReceiveType, PushType DEF WriterEvent, TypeOK
<1>2. CASE WriterFlush
  BY <1>2, ReceiveType, CommitType DEF WriterFlush, TypeOK
<1>3. CASE WriterTimeout
  BY <1>3, CommitType DEF WriterTimeout, TypeOK
<1>4. CASE WriterClose
  BY <1>4, ReceiveType, CommitType DEF WriterClose, TypeOK
<1>5. ASSUME NEW shape \in Shapes, ReadLine(shape) PROVE TypeOK'
  BY <1>5, EventsAreEvents DEF ReadLine, TypeOK
<1>6. CASE QueueForStore
  <2>1. hand \in Event
    BY <1>6 DEF QueueForStore, TypeOK
  <2> QED BY <1>6, <2>1, SendEventType DEF QueueForStore, TypeOK
<1>7. CASE HandToLoop
  BY <1>7 DEF HandToLoop, TypeOK
<1>8. CASE Boot
  BY <1>8, EventsAreEvents DEF Boot, TypeOK
<1>9. CASE BootSend
  <2>1. mine \in Event
    BY <1>9 DEF BootSend, TypeOK
  <2> QED BY <1>9, <2>1, SendEventType DEF BootSend, TypeOK
<1>10. CASE Apply
  <2>1. Head(chan) \in Event /\ Tail(chan) \in Seq(Event)
    BY <1>10 DEF Apply, TypeOK
  <2>2. Head(chan).seq \in Nat
    BY <2>1 DEF Event
  <2> QED BY <1>10, <2>1, <2>2 DEF Apply, TypeOK
<1>11. CASE Outbound
  BY <1>11 DEF Outbound, TypeOK
<1>12. CASE RequestFlush
  <2>1. Len(asked) + 1 \in Nat /\ asked' \in Seq(SUBSET Nat)
    BY <1>12 DEF RequestFlush, TypeOK
  <2>2. [msg |-> "flush", n |-> Len(asked) + 1] \in [msg: {"flush"}, n: Nat]
    BY <2>1
  <2>3. Send([msg |-> "flush", n |-> Len(asked) + 1])
    BY <1>12 DEF RequestFlush
  <2> QED BY <1>12, <2>1, <2>2, <2>3, SendType DEF RequestFlush, TypeOK
<1>13. CASE FlushReturns
  BY <1>13 DEF FlushReturns, TypeOK
<1>14. CASE ExitBegin
  BY <1>14, EventsAreEvents DEF ExitBegin, TypeOK
<1>15. CASE ExitSend
  <2>1. mine \in Event
    BY <1>15 DEF ExitSend, TypeOK
  <2> QED BY <1>15, <2>1, SendEventType DEF ExitSend, TypeOK
<1>16. CASE ExitClose
  <2>1. Send([msg |-> "close"]) /\ [msg |-> "close"] \in [msg: {"close"}]
    BY <1>16 DEF ExitClose
  <2> QED BY <1>16, <2>1, SendType DEF ExitClose, TypeOK
<1>17. CASE ExitDone
  BY <1>17 DEF ExitDone, TypeOK
<1>18. CASE Prune
  <2>1. Kept \subseteq Row /\ Contents(db) \subseteq Nat
    BY DEF Kept, TypeOK, Contents, PiecesOf, Row
  <2> QED BY <1>18, <2>1 DEF Prune, TypeOK
<1>19. CASE UNCHANGED vars
  BY <1>19 DEF vars, TypeOK
<1> QED
  BY <1>1, <1>2, <1>3, <1>4, <1>5, <1>6, <1>7, <1>8, <1>9, <1>10, <1>11, <1>12,
     <1>13, <1>14, <1>15, <1>16, <1>17, <1>18, <1>19
  DEF Next, Writer, Reader, Main

(* Type correctness of the whole path from host to disk.                   *)
THEOREM TypeCorrect == Spec => []TypeOK
<1>1. Init => TypeOK
  BY DEF Init, TypeOK
<1> QED BY <1>1, TypeStep, PTL DEF Spec

-----------------------------------------------------------------------------
(* Conservation: a seq never leaves the places NothingVanishes names.      *)

InPlace == Settled \cup Queued \cup Contents(pending \cup batch)

(* Contents: the deltas of two sets of rows are those of either (the batch *)
(* and the runs that Commit joins).                                        *)
LEMMA ContentsUnion ==
  ASSUME NEW A, NEW B
  PROVE  /\ Contents(A \cup B) = Contents(A) \cup Contents(B)
         /\ A \subseteq B => Contents(A) \subseteq Contents(B)
BY DEF Contents

(* Only the message at the head leaves the queue.                          *)
LEMMA QueuedReceive ==
  ASSUME TypeOK, NEW kind, Receive(kind)
  PROVE  IF kind = "event" THEN Queued \subseteq Queued' \cup {Head(queue).ev.seq}
                           ELSE Queued \subseteq Queued'
<1>1. queue # <<>> /\ queue' = Tail(queue) /\ Head(queue).msg = kind
  BY DEF Receive
<1>2. queue \in Seq([msg: {"event"}, ev: Event] \cup [msg: {"flush"}, n: Nat]
                      \cup [msg: {"close"}])
  BY DEF TypeOK
<1>3. ASSUME NEW i \in DOMAIN queue, i # 1
      PROVE  i - 1 \in DOMAIN queue' /\ queue'[i - 1] = queue[i]
  BY <1>1, <1>2, <1>3
<1>4. queue[1] = Head(queue)
  BY <1>1, <1>2
<1>5. ASSUME NEW s \in Queued
      PROVE  s \in Queued' \/ (kind = "event" /\ s = Head(queue).ev.seq)
  <2>1. PICK i \in DOMAIN queue : queue[i].msg = "event" /\ s = queue[i].ev.seq
    BY <1>5 DEF Queued
  <2>2. CASE i = 1
    BY <2>1, <2>2, <1>1, <1>4
  <2>3. CASE i # 1
    BY <2>1, <2>3, <1>3 DEF Queued
  <2> QED BY <2>2, <2>3
<1> QED BY <1>5

(* Sending only adds to the queue.                                         *)
LEMMA QueuedSend ==
  ASSUME TypeOK, NEW m, Send(m)
  PROVE  /\ Queued \subseteq Queued'
         /\ wpc # "stopped" /\ m.msg = "event" => m.ev.seq \in Queued'
<1>1. queue \in Seq([msg: {"event"}, ev: Event] \cup [msg: {"flush"}, n: Nat]
                      \cup [msg: {"close"}])
  BY DEF TypeOK
<1>2. CASE wpc = "stopped"
  BY <1>2 DEF Send, Queued
<1>3. CASE wpc # "stopped"
  <2>1. queue' = Append(queue, m)
    BY <1>3 DEF Send
  <2>2. DOMAIN queue \subseteq DOMAIN queue' /\ \A i \in DOMAIN queue : queue'[i] = queue[i]
    BY <1>1, <2>1
  <2>3. Len(queue) + 1 \in DOMAIN queue' /\ queue'[Len(queue) + 1] = m
    BY <1>1, <2>1
  <2>4. Queued \subseteq Queued'
    BY <2>2 DEF Queued
  <2>5. m.msg = "event" => m.ev.seq \in Queued'
    BY <2>3 DEF Queued
  <2> QED BY <2>4, <2>5
<1> QED BY <1>2, <1>3

(* A pushed event ends up in a run, in the batch or among the dropped, and *)
(* pushes nothing else out.                                                *)
LEMMA PushKeeps ==
  ASSUME TypeOK, NEW ev \in Event, Push(ev)
  PROVE  Contents(pending \cup batch) \cup dropped \cup {ev.seq}
           \subseteq Contents(pending' \cup batch') \cup dropped'
<1>1. CASE ev.kind \in Deltas
  <2>1. /\ pending' = append(pending, ev) /\ batch' = batch
        /\ dropped' = dropped \cup
             ((Contents(pending) \cup {ev.seq}) \ Contents(append(pending, ev)))
    BY <1>1 DEF Push, Deltas, StreamDeltas, ToolDeltas, Ends, NeverSaved, Deduped,
                Registrations
  <2> QED BY <2>1, ContentsUnion
<1>2. CASE ev.kind \in Ends
  <2>1. /\ pending' = pending \ take(pending, ev) /\ dropped' = dropped
        /\ batch' = batch \cup take(pending, ev) \cup {RowOf(ev)}
    BY <1>2 DEF Push, Deltas, StreamDeltas, ToolDeltas, Ends, NeverSaved, Deduped,
                Registrations
  <2>2. pending' \cup batch' = (pending \cup batch) \cup {RowOf(ev)}
    BY <2>1 DEF take
  <2>3. Contents(pending' \cup batch')
          = Contents(pending \cup batch) \cup Contents({RowOf(ev)})
    BY <2>2, ContentsUnion
  <2> QED BY <2>1, <2>3, RowOfEvent
<1>3. CASE dropped' = dropped \cup {ev.seq} /\ UNCHANGED <<pending, batch>>
  BY <1>3
<1>4. CASE batch' = batch \cup {RowOf(ev)} /\ UNCHANGED <<pending, dropped>>
  <2>1. pending' \cup batch' = (pending \cup batch) \cup {RowOf(ev)}
    BY <1>4
  <2>2. Contents(pending' \cup batch')
          = Contents(pending \cup batch) \cup Contents({RowOf(ev)})
    BY <2>1, ContentsUnion
  <2> QED BY <1>4, <2>2, RowOfEvent
<1> QED BY <1>1, <1>2, <1>3, <1>4 DEF Push

(* A commit moves everything buffered to disk or to the lost.              *)
LEMMA CommitKeeps ==
  ASSUME Commit
  PROVE  Contents(pending \cup batch) \cup Contents(db) \cup lost
           \subseteq Contents(db') \cup lost'
<1>1. pending \cup batch = batch \cup pending
  OBVIOUS
<1>2. \/ db' = db \cup (batch \cup pending) /\ lost' = lost
      \/ db' = db /\ lost' = lost \cup Contents(batch \cup pending)
  BY DEF Commit
<1>3. CASE db' = db \cup (batch \cup pending) /\ lost' = lost
  <2>1. Contents(db') = Contents(db) \cup Contents(batch \cup pending)
    BY <1>3, ContentsUnion
  <2> QED BY <1>1, <1>3, <2>1
<1>4. CASE db' = db /\ lost' = lost \cup Contents(batch \cup pending)
  BY <1>1, <1>4
<1> QED BY <1>2, <1>3, <1>4

(* No step takes a seq out of its place, and what is newly queued is in    *)
(* the queue.                                                              *)
LEMMA PlacesGrow ==
  ASSUME TypeOK, [Next]_vars
  PROVE  /\ InPlace \subseteq InPlace'
         /\ \A ev \in sent' \ sent : ev.seq \in Queued'
<1> USE DEF readerVars, mainVars, writerVars, diskVars
<1>0. ASSUME UNCHANGED <<db, dropped, lost, pruned>>
      PROVE  Settled' = Settled
  BY <1>0 DEF Settled
<1>1. CASE WriterEvent
  <2>1. Receive("event") /\ Push(Head(queue).ev) /\ Head(queue).ev \in Event
    BY <1>1, ReceiveType DEF WriterEvent
  <2>2. Queued \subseteq Queued' \cup {Head(queue).ev.seq}
    BY <2>1, QueuedReceive
  <2>3. Contents(pending \cup batch) \cup dropped \cup {Head(queue).ev.seq}
          \subseteq Contents(pending' \cup batch') \cup dropped'
    BY <2>1, PushKeeps
  <2>4. UNCHANGED <<db, lost, pruned, sent>>
    BY <1>1 DEF WriterEvent
  <2> QED BY <2>2, <2>3, <2>4 DEF InPlace, Settled
<1>2. ASSUME Commit, Queued \subseteq Queued', UNCHANGED <<dropped, pruned, sent>>
      PROVE  InPlace \subseteq InPlace' /\ sent' = sent
  BY <1>2, CommitKeeps DEF InPlace, Settled
<1>3. CASE WriterFlush
  <2>1. Queued \subseteq Queued'
    BY <1>3, QueuedReceive DEF WriterFlush
  <2> QED BY <1>2, <1>3, <2>1 DEF WriterFlush
<1>4. CASE WriterTimeout
  <2>1. Queued \subseteq Queued'
    BY <1>4 DEF WriterTimeout, Queued
  <2> QED BY <1>2, <1>4, <2>1 DEF WriterTimeout
<1>5. CASE WriterClose
  <2>1. Queued \subseteq Queued'
    BY <1>5, QueuedReceive DEF WriterClose
  <2> QED BY <1>2, <1>5, <2>1 DEF WriterClose
<1>6. ASSUME NEW ev \in Event, SendEvent(ev),
             UNCHANGED <<writerVars, diskVars>>
      PROVE  InPlace \subseteq InPlace' /\ \A e \in sent' \ sent : e.seq \in Queued'
  <2>1. Send([msg |-> "event", ev |-> ev])
    BY <1>6 DEF SendEvent
  <2>2. /\ Queued \subseteq Queued'
        /\ wpc # "stopped" => ev.seq \in Queued'
    BY <2>1, QueuedSend
  <2>3. sent' = IF wpc = "stopped" THEN sent ELSE sent \cup {ev}
    BY <1>6 DEF SendEvent
  <2>4. pending' = pending /\ batch' = batch /\ Settled' = Settled
    BY <1>6, <1>0
  <2> QED BY <2>2, <2>3, <2>4 DEF InPlace
<1>7. ASSUME UNCHANGED <<writerVars, diskVars, queue, sent>>
      PROVE  InPlace \subseteq InPlace' /\ \A e \in sent' \ sent : e.seq \in Queued'
  BY <1>7 DEF InPlace, Settled, Queued
<1>8. ASSUME NEW m, Send(m), UNCHANGED <<writerVars, diskVars, sent>>
      PROVE  InPlace \subseteq InPlace' /\ \A e \in sent' \ sent : e.seq \in Queued'
  <2>1. Queued \subseteq Queued'
    BY <1>8, QueuedSend
  <2>2. pending' = pending /\ batch' = batch /\ Settled' = Settled /\ sent' = sent
    BY <1>8, <1>0
  <2> QED BY <2>1, <2>2 DEF InPlace
<1>9. CASE \E shape \in Shapes : ReadLine(shape)
  BY <1>7, <1>9 DEF ReadLine
<1>10. CASE QueueForStore
  BY <1>6, <1>10 DEF QueueForStore, TypeOK
<1>11. CASE BootSend
  BY <1>6, <1>11 DEF BootSend, TypeOK
<1>12. CASE ExitSend
  BY <1>6, <1>12 DEF ExitSend, TypeOK
<1>13. CASE RequestFlush
  BY <1>8, <1>13 DEF RequestFlush
<1>14. CASE ExitClose
  BY <1>8, <1>14 DEF ExitClose
<1>15. CASE HandToLoop \/ Boot \/ Apply \/ Outbound \/ FlushReturns \/ ExitBegin \/ ExitDone
  BY <1>7, <1>15 DEF HandToLoop, Boot, Apply, Outbound, FlushReturns, ExitBegin, ExitDone
<1>16. CASE Prune
  <2>1. /\ Contents(db) \cup pruned \subseteq Contents(db') \cup pruned'
        /\ UNCHANGED <<pending, batch, dropped, lost, queue, sent>>
    BY <1>16 DEF Prune
  <2> QED BY <2>1 DEF InPlace, Settled, Queued
<1>17. CASE UNCHANGED vars
  BY <1>7, <1>17 DEF vars
<1> QED
  BY <1>1, <1>3, <1>4, <1>5, <1>9, <1>10, <1>11, <1>12, <1>13, <1>14, <1>15, <1>16, <1>17,
     <1>2
  DEF Next, Writer, Reader, Main

(* Every event ever queued stays accounted for: on disk, in a buffer of    *)
(* the writer, or given up in a named way.                                 *)
THEOREM Conservation == Spec => []NothingVanishes
<1>1. Init => NothingVanishes
  BY DEF Init, NothingVanishes
<1>2. TypeOK /\ NothingVanishes /\ [Next]_vars => NothingVanishes'
  BY PlacesGrow DEF NothingVanishes, InPlace
<1> QED BY <1>1, <1>2, TypeCorrect, PTL DEF Spec

-----------------------------------------------------------------------------
(* Seqs are never used twice.                                              *)

(* SeqsOf: the seqs of two sets of rows are those of either.               *)
LEMMA SeqsUnion ==
  ASSUME NEW A, NEW B
  PROVE  SeqsOf(A \cup B) = SeqsOf(A) \cup SeqsOf(B)
BY DEF SeqsOf

(* The rows of the three buffers are distinct when each buffer's are and   *)
(* the buffers share no seq.                                               *)
LEMMA UniqUnion ==
  ASSUME NEW A, NEW B, DistinctSeqs(A), DistinctSeqs(B), SeqsOf(A) \cap SeqsOf(B) = {}
  PROVE  DistinctSeqs(A \cup B)
BY DEF DistinctSeqs, SeqsOf

(* A run keeps its seq when a delta joins it, so runs stay distinct.       *)
LEMMA AppendUniq ==
  ASSUME NEW p \in SUBSET Row, NEW ev \in Event, DistinctSeqs(p), ev.seq \notin SeqsOf(p)
  PROVE  DistinctSeqs(append(p, ev))
<1>1. CASE \E r \in p : SameKey(r, ev)
  <2> DEFINE grown(r) == [r EXCEPT !.text = Trim(r.kind, r.text \o Piece(ev))]
  <2> DEFINE image(r) == IF SameKey(r, ev) THEN grown(r) ELSE r
  <2>1. ASSUME NEW r \in p PROVE image(r).seq = r.seq
    BY DEF Row
  <2>2. append(p, ev) = {image(r) : r \in p}
    BY <1>1 DEF append
  <2> HIDE DEF image
  <2> QED BY <2>1, <2>2 DEF DistinctSeqs
<1>2. CASE ~ \E r \in p : SameKey(r, ev)
  <2>1. append(p, ev) = p \cup {RowOf(ev)}
    BY <1>2 DEF append
  <2>2. DistinctSeqs({RowOf(ev)}) /\ SeqsOf(p) \cap SeqsOf({RowOf(ev)}) = {}
    BY RowOfEvent
  <2> QED BY <2>1, <2>2, UniqUnion
<1> QED BY <1>1, <1>2

(* Pushing an event whose seq no row has keeps the rows distinct and uses  *)
(* no other seq.                                                           *)
LEMMA PushUniq ==
  ASSUME TypeOK, NEW ev \in Event, Push(ev), SeqNeverCollides, ev.seq \notin RowSeqs,
         UNCHANGED db
  PROVE  /\ SeqNeverCollides'
         /\ RowSeqs' \subseteq RowSeqs \cup {ev.seq}
<1> DEFINE row == {RowOf(ev)}
<1>0. SeqsOf(row) = {ev.seq} /\ DistinctSeqs(row)
  BY RowOfEvent
<1>1. ev.seq \notin SeqsOf(db) /\ ev.seq \notin SeqsOf(batch) /\ ev.seq \notin SeqsOf(pending)
  BY DEF RowSeqs
<1>3. /\ DistinctSeqs(db) /\ DistinctSeqs(batch) /\ DistinctSeqs(pending)
      /\ SeqsOf(db) \cap SeqsOf(batch) = {}
      /\ SeqsOf(pending) \cap SeqsOf(db) = {}
      /\ SeqsOf(pending) \cap SeqsOf(batch) = {}
  BY DEF SeqNeverCollides
<1> SUFFICES /\ DistinctSeqs(batch') /\ DistinctSeqs(pending')
             /\ SeqsOf(db) \cap SeqsOf(batch') = {}
             /\ SeqsOf(pending') \cap SeqsOf(db) = {}
             /\ SeqsOf(pending') \cap SeqsOf(batch') = {}
             /\ SeqsOf(batch') \cup SeqsOf(pending')
                  \subseteq SeqsOf(batch) \cup SeqsOf(pending) \cup {ev.seq}
  <2>1. SeqsOf(db)' = SeqsOf(db) /\ DistinctSeqs(db)' = DistinctSeqs(db)
    OBVIOUS
  <2> QED BY <2>1, <1>3 DEF SeqNeverCollides, RowSeqs
<1>4. CASE ev.kind \in Deltas
  <2>1. pending' = append(pending, ev) /\ batch' = batch
    BY <1>4 DEF Push, Deltas, StreamDeltas, ToolDeltas, Ends, NeverSaved, Deduped,
                Registrations
  <2>2. DistinctSeqs(pending') /\ SeqsOf(pending') \subseteq SeqsOf(pending) \cup {ev.seq}
    BY <2>1, <1>1, <1>3, AppendUniq, AppendRows DEF TypeOK
  <2> QED BY <2>1, <2>2, <1>1, <1>3
<1>5. CASE ev.kind \in Ends
  <2> DEFINE taken == take(pending, ev)
  <2>1. pending' = pending \ taken /\ batch' = (batch \cup taken) \cup row
    BY <1>5 DEF Push, Deltas, StreamDeltas, ToolDeltas, Ends, NeverSaved, Deduped,
                Registrations
  <2>2. taken \subseteq pending
    BY DEF take
  <2> HIDE DEF taken, row
  <2>3. DistinctSeqs(taken) /\ DistinctSeqs(pending \ taken) /\ SeqsOf(taken) \subseteq SeqsOf(pending)
        /\ SeqsOf(pending \ taken) \subseteq SeqsOf(pending)
    BY <2>2, <1>3 DEF DistinctSeqs, SeqsOf
  <2>4. SeqsOf(taken) \cap SeqsOf(pending \ taken) = {}
    BY <2>2, <1>3 DEF DistinctSeqs, SeqsOf
  <2>5. DistinctSeqs(batch \cup taken) /\ SeqsOf(batch \cup taken) = SeqsOf(batch) \cup SeqsOf(taken)
    BY <2>3, <1>3, UniqUnion, SeqsUnion
  <2>6. DistinctSeqs(batch') /\ SeqsOf(batch') = SeqsOf(batch) \cup SeqsOf(taken) \cup {ev.seq}
    <3>1. SeqsOf(batch \cup taken) \cap SeqsOf(row) = {}
      BY <2>3, <2>5, <1>0, <1>1
    <3>2. DistinctSeqs((batch \cup taken) \cup row)
      BY <3>1, <2>5, <1>0, UniqUnion
    <3>3. SeqsOf((batch \cup taken) \cup row) = SeqsOf(batch \cup taken) \cup SeqsOf(row)
      BY SeqsUnion
    <3> QED BY <2>1, <2>5, <1>0, <3>2, <3>3
  <2> QED BY <2>1, <2>3, <2>4, <2>6, <1>1, <1>3
<1>6. CASE UNCHANGED <<pending, batch>>
  BY <1>3, <1>6
<1>7. CASE batch' = batch \cup row /\ UNCHANGED pending
  <2>1. DistinctSeqs(batch') /\ SeqsOf(batch') = SeqsOf(batch) \cup {ev.seq}
    BY <1>7, <1>0, <1>1, <1>3, UniqUnion, SeqsUnion
  <2> QED BY <1>7, <2>1, <1>1, <1>3
<1> QED BY <1>4, <1>5, <1>6, <1>7 DEF Push

(* Receiving takes one seq out of the queue for good.                      *)
LEMMA ReceiveSeqs ==
  ASSUME TypeOK, NEW kind, Receive(kind), QueueDistinct
  PROVE  /\ QueueDistinct' /\ Queued' \subseteq Queued
         /\ kind = "event" => /\ Head(queue).ev.seq \in Queued
                              /\ Head(queue).ev.seq \notin Queued'
<1> DEFINE M == [msg: {"event"}, ev: Event] \cup [msg: {"flush"}, n: Nat]
                  \cup [msg: {"close"}]
<1>1. queue \in Seq(M) /\ queue # <<>> /\ queue' = Tail(queue) /\ Head(queue).msg = kind
  BY DEF TypeOK, Receive
<1> HIDE DEF M
<1>2. ASSUME NEW i \in DOMAIN queue'
      PROVE  i + 1 \in DOMAIN queue /\ i + 1 # 1 /\ queue'[i] = queue[i + 1]
  BY <1>1
<1>3. 1 \in DOMAIN queue /\ queue[1] = Head(queue)
  BY <1>1
<1>4. QueueDistinct'
  <2> SUFFICES ASSUME NEW i \in DOMAIN queue', NEW j \in DOMAIN queue',
                      i # j, queue'[i].msg = "event", queue'[j].msg = "event"
               PROVE  queue'[i].ev.seq # queue'[j].ev.seq
    BY DEF QueueDistinct
  <2>1. i + 1 # j + 1
    BY <1>1
  <2> QED BY <1>2, <2>1 DEF QueueDistinct
<1>5. Queued' \subseteq Queued
  BY <1>2 DEF Queued
<1>6. kind = "event" => Head(queue).ev.seq \in Queued
  BY <1>1, <1>3 DEF Queued
<1>7. kind = "event" => Head(queue).ev.seq \notin Queued'
  <2> SUFFICES ASSUME kind = "event", Head(queue).ev.seq \in Queued' PROVE FALSE
    OBVIOUS
  <2>1. PICK i \in DOMAIN queue' : /\ queue'[i].msg = "event"
                                   /\ queue'[i].ev.seq = Head(queue).ev.seq
    BY DEF Queued
  <2> QED BY <1>1, <1>2, <1>3, <2>1 DEF QueueDistinct
<1> QED BY <1>4, <1>5, <1>6, <1>7

(* Sending a message other than an event leaves the queued seqs alone.     *)
LEMMA SendSeqs ==
  ASSUME TypeOK, NEW m, Send(m), QueueDistinct,
         m.msg = "event" => m.ev.seq \notin Queued
  PROVE  /\ QueueDistinct'
         /\ m.msg # "event" => Queued' \subseteq Queued
         /\ m.msg = "event" => Queued' \subseteq Queued \cup {m.ev.seq}
<1>1. CASE wpc = "stopped"
  BY <1>1 DEF Send, Queued, QueueDistinct
<1>2. CASE wpc # "stopped"
  <2> DEFINE M == [msg: {"event"}, ev: Event] \cup [msg: {"flush"}, n: Nat]
                    \cup [msg: {"close"}]
  <2>1. queue \in Seq(M) /\ queue' = Append(queue, m)
    BY <1>2 DEF TypeOK, Send
  <2> HIDE DEF M
  <2>2. ASSUME NEW i \in DOMAIN queue'
        PROVE  \/ i \in DOMAIN queue /\ queue'[i] = queue[i]
               \/ i = Len(queue) + 1 /\ queue'[i] = m
    BY <2>1
  <2>3. Queued' \subseteq IF m.msg = "event" THEN Queued \cup {m.ev.seq} ELSE Queued
    <3> SUFFICES ASSUME NEW s \in Queued', s \notin Queued
                 PROVE  m.msg = "event" /\ s = m.ev.seq
      OBVIOUS
    <3>1. PICK i \in DOMAIN queue' : queue'[i].msg = "event" /\ queue'[i].ev.seq = s
      BY DEF Queued
    <3> QED BY <2>2, <3>1 DEF Queued
  <2>4. ASSUME NEW i \in DOMAIN queue', NEW j \in DOMAIN queue', i # j,
               queue'[i].msg = "event", queue'[j].msg = "event"
        PROVE  queue'[i].ev.seq # queue'[j].ev.seq
    <3>1. CASE i \in DOMAIN queue /\ j \in DOMAIN queue
      BY <2>1, <2>4, <3>1 DEF QueueDistinct
    <3>2. CASE i = Len(queue) + 1
      <4>1. queue'[i] = m /\ j \in DOMAIN queue /\ queue'[j] = queue[j]
        BY <2>1, <2>2, <2>4, <3>2
      <4> QED BY <2>4, <4>1 DEF Queued
    <3>3. CASE j = Len(queue) + 1
      <4>1. queue'[j] = m /\ i \in DOMAIN queue /\ queue'[i] = queue[i]
        BY <2>1, <2>2, <2>4, <3>3
      <4> QED BY <2>4, <4>1 DEF Queued
    <3> QED BY <2>2, <3>1, <3>2, <3>3
  <2>5. QueueDistinct'
    BY <2>4 DEF QueueDistinct
  <2> QED BY <2>3, <2>5
<1> QED BY <1>1, <1>2

(* A commit moves rows, it makes none.                                     *)
LEMMA CommitSeqs ==
  ASSUME Commit, SeqNeverCollides
  PROVE  SeqNeverCollides' /\ RowSeqs' \subseteq RowSeqs
<1>1. pending' = {} /\ batch' = {} /\ (db' = db \/ db' = db \cup (batch \cup pending))
  BY DEF Commit
<1>2. SeqsOf({}) = {} /\ DistinctSeqs({})
  BY DEF SeqsOf, DistinctSeqs
<1>3. /\ SeqsOf(batch \cup pending) = SeqsOf(batch) \cup SeqsOf(pending)
      /\ SeqsOf(db \cup (batch \cup pending)) = SeqsOf(db) \cup SeqsOf(batch \cup pending)
  BY SeqsUnion
<1>4. DistinctSeqs(batch \cup pending)
  BY UniqUnion DEF SeqNeverCollides
<1>5. SeqsOf(db) \cap SeqsOf(batch \cup pending) = {}
  BY <1>3 DEF SeqNeverCollides
<1>6. DistinctSeqs(db) /\ DistinctSeqs(db \cup (batch \cup pending))
  BY <1>4, <1>5, UniqUnion DEF SeqNeverCollides
<1>7. DistinctSeqs(db') /\ SeqsOf(db') \subseteq RowSeqs
  BY <1>1, <1>3, <1>6 DEF RowSeqs
<1> QED BY <1>1, <1>2, <1>7 DEF SeqNeverCollides, RowSeqs

(* Housekeeping only deletes.                                              *)
LEMMA PruneSeqs ==
  ASSUME Prune, SeqNeverCollides
  PROVE  SeqNeverCollides' /\ RowSeqs' \subseteq RowSeqs
<1>1. db' \subseteq db /\ UNCHANGED <<batch, pending>>
  BY DEF Prune, Kept, writerVars
<1>2. SeqsOf(db') \subseteq SeqsOf(db) /\ DistinctSeqs(db')
  BY <1>1 DEF SeqsOf, DistinctSeqs, SeqNeverCollides
<1> QED BY <1>1, <1>2 DEF SeqNeverCollides, RowSeqs

(* Each step keeps every seq below the counter and in one place.           *)
LEMMA SeqStep == TypeOK /\ SeqInv /\ [Next]_vars => SeqInv'
<1> SUFFICES ASSUME TypeOK, SeqInv, [Next]_vars PROVE SeqInv'
  OBVIOUS
<1> USE DEF readerVars, mainVars, writerVars, diskVars
<1>0. /\ nextSeq \in Nat /\ QueueDistinct /\ SeqNeverCollides
      /\ Queued \cap RowSeqs = {}
      /\ \A s \in Queued : s < nextSeq
      /\ \A s \in RowSeqs : s < nextSeq
      /\ Queued \subseteq Nat /\ RowSeqs \subseteq Nat
  <2>1. Queued \subseteq Nat
    <3> SUFFICES ASSUME NEW i \in DOMAIN queue, queue[i].msg = "event"
                 PROVE  queue[i].ev.seq \in Nat
      BY DEF Queued
    <3>1. queue[i] \in [msg: {"event"}, ev: Event] \cup [msg: {"flush"}, n: Nat]
                         \cup [msg: {"close"}]
      BY DEF TypeOK
    <3>2. queue[i].ev \in Event
      BY <3>1
    <3> QED BY <3>2 DEF Event
  <2>2. RowSeqs \subseteq Nat
    BY DEF TypeOK, RowSeqs, SeqsOf, Row
  <2> QED BY <2>1, <2>2 DEF SeqInv, TypeOK
(* The writer's and housekeeping's steps: no seq enters, hands stay.       *)
<1>1. ASSUME QueueDistinct', SeqNeverCollides', Queued' \cap RowSeqs' = {},
             Queued' \cup RowSeqs' \subseteq Queued \cup RowSeqs,
             UNCHANGED <<nextSeq, readerVars, mainVars>>
      PROVE  SeqInv'
  BY <1>0, <1>1 DEF SeqInv, InHand, MainHolds
<1>2. CASE WriterEvent
  <2>1. Receive("event") /\ Push(Head(queue).ev) /\ Head(queue).ev \in Event
    BY <1>2, ReceiveType DEF WriterEvent
  <2>2. /\ QueueDistinct' /\ Queued' \subseteq Queued
        /\ Head(queue).ev.seq \in Queued /\ Head(queue).ev.seq \notin Queued'
    BY <1>0, <2>1, ReceiveSeqs
  <2>3. Head(queue).ev.seq \notin RowSeqs
    BY <1>0, <2>2
  <2>4. SeqNeverCollides' /\ RowSeqs' \subseteq RowSeqs \cup {Head(queue).ev.seq}
    BY <1>0, <1>2, <2>1, <2>3, PushUniq DEF WriterEvent
  <2> QED BY <1>0, <1>1, <1>2, <2>2, <2>4 DEF WriterEvent
<1>3. CASE WriterFlush
  <2>1. QueueDistinct' /\ Queued' \subseteq Queued
    BY <1>0, <1>3, ReceiveSeqs DEF WriterFlush
  <2>2. SeqNeverCollides' /\ RowSeqs' \subseteq RowSeqs
    BY <1>0, <1>3, CommitSeqs DEF WriterFlush
  <2> QED BY <1>0, <1>1, <1>3, <2>1, <2>2 DEF WriterFlush
<1>4. CASE WriterTimeout
  <2>1. QueueDistinct' /\ Queued' = Queued
    BY <1>0, <1>4 DEF WriterTimeout, QueueDistinct, Queued
  <2>2. SeqNeverCollides' /\ RowSeqs' \subseteq RowSeqs
    BY <1>0, <1>4, CommitSeqs DEF WriterTimeout
  <2> QED BY <1>0, <1>1, <1>4, <2>1, <2>2 DEF WriterTimeout
<1>5. CASE WriterClose
  <2>1. QueueDistinct' /\ Queued' \subseteq Queued
    BY <1>0, <1>5, ReceiveSeqs DEF WriterClose
  <2>2. SeqNeverCollides' /\ RowSeqs' \subseteq RowSeqs
    BY <1>0, <1>5, CommitSeqs DEF WriterClose
  <2> QED BY <1>0, <1>1, <1>5, <2>1, <2>2 DEF WriterClose
<1>6. CASE Prune
  <2>1. QueueDistinct' /\ Queued' = Queued
    BY <1>0, <1>6 DEF Prune, QueueDistinct, Queued
  <2>2. SeqNeverCollides' /\ RowSeqs' \subseteq RowSeqs
    BY <1>0, <1>6, PruneSeqs
  <2> QED BY <1>0, <1>1, <1>6, <2>1, <2>2 DEF Prune
(* The reader and the main task: the writer and the disk stay as they are. *)
<1>7. ASSUME UNCHANGED <<writerVars, diskVars>>
      PROVE  RowSeqs' = RowSeqs /\ SeqNeverCollides'
  BY <1>0, <1>7 DEF RowSeqs, SeqNeverCollides
<1>8. ASSUME UNCHANGED queue
      PROVE  Queued' = Queued /\ QueueDistinct'
  BY <1>0, <1>8 DEF Queued, QueueDistinct
<1>9. ASSUME NEW shape \in Shapes, ReadLine(shape) PROVE SeqInv'
  <2>1. hand'.seq = nextSeq /\ nextSeq' = nextSeq + 1 /\ MainHolds' = MainHolds
        /\ mine' = mine /\ rpc' = "store"
    BY <1>9 DEF ReadLine, MakeEvent, MainHolds
  <2>2. RowSeqs' = RowSeqs /\ SeqNeverCollides' /\ Queued' = Queued /\ QueueDistinct'
    BY <1>7, <1>8, <1>9 DEF ReadLine
  <2>3. InHand(hand.seq)'
    BY <1>0, <2>1, <2>2 DEF InHand
  <2>4. MainHolds' => /\ InHand(mine.seq)' /\ hand'.seq # mine'.seq
    <3>1. MainHolds => mine.seq < nextSeq /\ InHand(mine.seq) /\ mine.seq \in Nat
      BY DEF SeqInv, InHand, TypeOK, MainHolds, Event
    <3> QED BY <1>0, <2>1, <2>2, <3>1 DEF InHand
  <2> QED BY <1>0, <2>1, <2>2, <2>3, <2>4 DEF SeqInv
<1>10. ASSUME proc' \in {"bootSend", "exitSend"}, mine'.seq = nextSeq,
              nextSeq' = nextSeq + 1,
              UNCHANGED <<queue, readerVars, writerVars, diskVars>>
       PROVE  SeqInv'
  <2>1. RowSeqs' = RowSeqs /\ SeqNeverCollides' /\ Queued' = Queued /\ QueueDistinct'
    BY <1>7, <1>8, <1>10
  <2>2. InHand(mine.seq)'
    BY <1>0, <1>10, <2>1 DEF InHand
  <2>3. rpc = "store" => /\ InHand(hand.seq)' /\ hand'.seq # mine'.seq
    <3>1. rpc = "store" => hand.seq < nextSeq /\ InHand(hand.seq) /\ hand.seq \in Nat
      BY DEF SeqInv, InHand, TypeOK, Event
    <3> QED BY <1>0, <1>10, <2>1, <3>1 DEF InHand
  <2> QED BY <1>0, <1>10, <2>1, <2>2, <2>3 DEF SeqInv
<1>11. CASE Boot
  BY <1>10, <1>11 DEF Boot, OwnEvent
<1>12. CASE ExitBegin
  BY <1>10, <1>12 DEF ExitBegin, OwnEvent
<1>13. CASE QueueForStore
  <2>1. hand \in Event /\ InHand(hand.seq) /\ SendEvent(hand) /\ rpc = "store"
    BY <1>13 DEF QueueForStore, TypeOK, SeqInv
  <2>2. QueueDistinct' /\ Queued' \subseteq Queued \cup {hand.seq}
    BY <1>0, <2>1, SendSeqs DEF SendEvent, InHand
  <2>3. RowSeqs' = RowSeqs /\ SeqNeverCollides'
    BY <1>7, <1>13 DEF QueueForStore
  <2>4. rpc' = "loop" /\ UNCHANGED <<nextSeq, proc, mine>>
    BY <1>13 DEF QueueForStore
  <2>5. MainHolds => InHand(mine.seq) /\ mine.seq # hand.seq
    BY <2>1 DEF SeqInv
  <2> QED BY <1>0, <2>1, <2>2, <2>3, <2>4, <2>5 DEF SeqInv, InHand, MainHolds
<1>14. ASSUME MainHolds, SendEvent(mine), ~MainHolds',
              UNCHANGED <<nextSeq, readerVars, writerVars, diskVars>>
       PROVE  SeqInv'
  <2>1. InHand(mine.seq)
    BY <1>14 DEF SeqInv
  <2>2. QueueDistinct' /\ Queued' \subseteq Queued \cup {mine.seq}
    BY <1>0, <1>14, <2>1, SendSeqs DEF SendEvent, InHand
  <2>3. RowSeqs' = RowSeqs /\ SeqNeverCollides'
    BY <1>7, <1>14
  <2>4. rpc = "store" => InHand(hand.seq) /\ mine.seq # hand.seq
    BY <1>14 DEF SeqInv
  <2> QED BY <1>0, <1>14, <2>1, <2>2, <2>3, <2>4 DEF SeqInv, InHand
<1>15. CASE BootSend
  BY <1>14, <1>15 DEF BootSend, MainHolds
<1>16. CASE ExitSend
  BY <1>14, <1>16 DEF ExitSend, MainHolds
<1>17. ASSUME NEW m, m.msg # "event", Send(m), ~MainHolds',
              UNCHANGED <<nextSeq, readerVars, writerVars, diskVars>>
       PROVE  SeqInv'
  <2>1. QueueDistinct' /\ Queued' \subseteq Queued
    BY <1>0, <1>17, SendSeqs
  <2>2. RowSeqs' = RowSeqs /\ SeqNeverCollides'
    BY <1>7, <1>17
  <2> QED BY <1>0, <1>17, <2>1, <2>2 DEF SeqInv, InHand
<1>18. CASE RequestFlush
  BY <1>17, <1>18 DEF RequestFlush, MainHolds
<1>19. CASE ExitClose
  BY <1>17, <1>19 DEF ExitClose, MainHolds
<1>20. ASSUME nextSeq' >= nextSeq, nextSeq' \in Nat,
              rpc' # "store" \/ UNCHANGED <<rpc, hand>>, ~MainHolds' \/ UNCHANGED <<proc, mine>>,
              UNCHANGED <<queue, writerVars, diskVars>>
       PROVE  SeqInv'
  <2>1. RowSeqs' = RowSeqs /\ SeqNeverCollides' /\ Queued' = Queued /\ QueueDistinct'
    BY <1>7, <1>8, <1>20
  <2>2. (rpc = "store" => hand.seq \in Nat) /\ (MainHolds => mine.seq \in Nat)
    BY DEF TypeOK, MainHolds, Event
  <2>3. rpc' = "store" => rpc = "store" /\ hand' = hand /\ InHand(hand.seq)'
    BY <1>0, <1>20, <2>1, <2>2 DEF SeqInv, InHand
  <2>4. MainHolds' => MainHolds /\ mine' = mine /\ InHand(mine.seq)'
    BY <1>0, <1>20, <2>1, <2>2 DEF SeqInv, InHand, MainHolds
  <2>5. \A s \in Queued' \cup RowSeqs' : s < nextSeq'
    BY <1>0, <1>20, <2>1
  <2> QED BY <1>0, <2>1, <2>3, <2>4, <2>5 DEF SeqInv
<1>21. CASE HandToLoop \/ Apply \/ Outbound \/ FlushReturns \/ ExitDone
  BY <1>0, <1>20, <1>21 DEF HandToLoop, Apply, Outbound, FlushReturns, ExitDone, MainHolds
<1>22. CASE UNCHANGED vars
  BY <1>0, <1>20, <1>22 DEF vars
<1> QED
  BY <1>2, <1>3, <1>4, <1>5, <1>6, <1>9, <1>11, <1>12, <1>13, <1>15, <1>16, <1>18, <1>19,
     <1>21, <1>22
  DEF Next, Writer, Reader, Main

(* UNIQUE(session_id, seq) never refuses a transaction of this session,    *)
(* although a run sits on its first seq while the counter moves on.        *)
THEOREM UniqueSeqs == Spec => []SeqNeverCollides
<1>1. Init => SeqInv
  BY DEF Init, SeqInv, RowSeqs, SeqsOf, Queued, QueueDistinct, MainHolds,
         SeqNeverCollides, DistinctSeqs
<1>2. SeqInv => SeqNeverCollides
  BY DEF SeqInv
<1> QED BY <1>1, <1>2, SeqStep, TypeCorrect, PTL DEF Spec

-----------------------------------------------------------------------------
(* A flush that was answered and a writer that stopped: what the user saw  *)
(* is on disk or was given up in a named way. Then the durable log.        *)
Ending == {"exitWait", "gone"}

(* Where a seq may be that a message at position i of the queue comes      *)
(* after: settled, in the writer's buffers, or earlier in the queue.       *)
Held            == Contents(pending \cup batch)
QueuedBefore(i) ==
  {queue[j].ev.seq : j \in {k \in DOMAIN queue : k < i /\ queue[k].msg = "event"}}
PlacedBefore(i) == Settled \cup Held \cup QueuedBefore(i)

EndedIn(S) == \E ev \in sent : ev.kind = "ended" /\ ev.seq \in S

-----------------------------------------------------------------------------
(* Places.                                                                 *)

(* What is settled stays settled.                                          *)
LEMMA SettledGrows == TypeOK /\ [Next]_vars => Settled \subseteq Settled'
<1> SUFFICES ASSUME TypeOK, [Next]_vars PROVE Settled \subseteq Settled'
  OBVIOUS
<1> USE DEF readerVars, mainVars, writerVars, diskVars
<1>1. ASSUME UNCHANGED <<db, dropped, lost, pruned>> PROVE Settled' = Settled
  BY <1>1 DEF Settled
<1>2. CASE WriterEvent
  <2>1. dropped \subseteq dropped' /\ UNCHANGED <<db, lost, pruned>>
    BY <1>2 DEF WriterEvent, Push
  <2> QED BY <2>1 DEF Settled
<1>3. CASE WriterFlush \/ WriterTimeout \/ WriterClose
  <2>1. Commit /\ UNCHANGED <<dropped, pruned>>
    BY <1>3 DEF WriterFlush, WriterTimeout, WriterClose
  <2> QED BY <2>1, CommitKeeps DEF Settled
<1>4. CASE Prune
  <2>1. db' = Kept /\ pruned' = pruned \cup (Contents(db) \ Contents(Kept))
        /\ UNCHANGED <<dropped, lost>>
    BY <1>4 DEF Prune
  <2> QED BY <2>1 DEF Settled
<1>5. CASE Reader \/ Main \/ UNCHANGED vars
  <2>1. UNCHANGED <<db, dropped, lost, pruned>>
    BY <1>5 DEF Reader, Main, ReadLine, QueueForStore, HandToLoop, Boot, BootSend, Apply,
                Outbound, RequestFlush, FlushReturns, ExitBegin, ExitSend, ExitClose,
                ExitDone, vars
  <2> QED BY <1>1, <2>1
<1> QED BY <1>2, <1>3, <1>4, <1>5 DEF Next, Writer

(* A message received: those behind it move up by one, and what came       *)
(* before them still did.                                                  *)
LEMMA PlacedReceive ==
  ASSUME TypeOK, NEW kind, Receive(kind),
         Settled \cup Held \subseteq Settled' \cup Held',
         kind = "event" => Head(queue).ev.seq \in Settled' \cup Held'
  PROVE  /\ queue[1] = Head(queue) /\ 1 \in DOMAIN queue /\ QueuedBefore(1) = {}
         /\ \A i \in DOMAIN queue' :
              /\ i + 1 \in DOMAIN queue /\ queue'[i] = queue[i + 1]
              /\ PlacedBefore(i + 1) \subseteq PlacedBefore(i)'
<1> DEFINE M == [msg: {"event"}, ev: Event] \cup [msg: {"flush"}, n: Nat]
                  \cup [msg: {"close"}]
<1>1. queue \in Seq(M) /\ queue # <<>> /\ queue' = Tail(queue) /\ Head(queue).msg = kind
  BY DEF TypeOK, Receive
<1> HIDE DEF M
<1>2. queue[1] = Head(queue) /\ 1 \in DOMAIN queue /\ DOMAIN queue \subseteq Nat \ {0}
  BY <1>1
<1>3. \A i \in DOMAIN queue' : i + 1 \in DOMAIN queue /\ queue'[i] = queue[i + 1]
  BY <1>1
<1>4. \A j \in DOMAIN queue : j # 1 => j - 1 \in DOMAIN queue' /\ queue'[j - 1] = queue[j]
  BY <1>1
<1>5. QueuedBefore(1) = {}
  BY <1>2 DEF QueuedBefore
<1>6. ASSUME NEW i \in DOMAIN queue', NEW s \in QueuedBefore(i + 1)
      PROVE  s \in Settled' \cup Held' \cup QueuedBefore(i)'
  <2>1. PICK j \in DOMAIN queue : j < i + 1 /\ queue[j].msg = "event" /\ s = queue[j].ev.seq
    BY <1>6 DEF QueuedBefore
  <2>2. CASE j = 1
    BY <1>1, <1>2, <2>1, <2>2
  <2>3. CASE j # 1
    <3>1. j - 1 \in DOMAIN queue' /\ queue'[j - 1] = queue[j] /\ j - 1 < i
      BY <1>1, <1>2, <1>4, <2>1, <2>3
    <3> QED BY <2>1, <3>1 DEF QueuedBefore
  <2> QED BY <2>2, <2>3
<1> QED BY <1>2, <1>3, <1>5, <1>6 DEF PlacedBefore

(* A message sent is last, and comes after everything.                     *)
LEMMA PlacedSend ==
  ASSUME TypeOK, NEW m, Send(m), UNCHANGED <<pending, batch, db, dropped, lost, pruned>>
  PROVE  /\ \A i \in DOMAIN queue : PlacedBefore(i) \subseteq PlacedBefore(i)'
         /\ wpc = "stopped" => queue' = queue
         /\ \A i \in DOMAIN queue : i \in DOMAIN queue' /\ queue'[i] = queue[i]
         /\ \A i \in DOMAIN queue' \ DOMAIN queue :
              queue'[i] = m /\ wpc # "stopped" /\ InPlace \subseteq PlacedBefore(i)'
<1> DEFINE M == [msg: {"event"}, ev: Event] \cup [msg: {"flush"}, n: Nat]
                  \cup [msg: {"close"}]
<1>1. queue \in Seq(M)
  BY DEF TypeOK
<1> HIDE DEF M
<1>2. Settled' = Settled /\ Held' = Held
  BY DEF Settled, Held
<1>3. CASE wpc = "stopped"
  BY <1>2, <1>3 DEF Send, PlacedBefore, QueuedBefore
<1>4. CASE wpc # "stopped"
  <2>1. PICK k \in Nat : k = Len(queue) + 1
    BY <1>1
  <2>2. /\ DOMAIN queue' = 1..k /\ DOMAIN queue = 1..(k - 1) /\ queue'[k] = m
        /\ \A i \in DOMAIN queue : queue'[i] = queue[i]
    BY <1>1, <1>4, <2>1 DEF Send
  <2>3. \A i \in DOMAIN queue : i \in DOMAIN queue' /\ i < k /\ queue'[i] = queue[i]
    BY <2>2
  <2>4. \A i : QueuedBefore(i) \subseteq QueuedBefore(i)'
    BY <2>3 DEF QueuedBefore
  <2>5. Queued \subseteq QueuedBefore(k)'
    BY <2>3 DEF Queued, QueuedBefore
  <2>6. \A i \in DOMAIN queue : PlacedBefore(i) \subseteq PlacedBefore(i)'
    BY <1>2, <2>4 DEF PlacedBefore
  <2>7. InPlace \subseteq PlacedBefore(k)'
    BY <1>2, <2>5 DEF PlacedBefore, InPlace, Held
  <2>8. ASSUME NEW i \in DOMAIN queue' \ DOMAIN queue
        PROVE  queue'[i] = m /\ wpc # "stopped" /\ InPlace \subseteq PlacedBefore(i)'
    <3>1. i = k
      BY <2>2
    <3> QED BY <1>4, <2>2, <2>7, <3>1
  <2> QED BY <1>4, <2>3, <2>6, <2>8
<1> QED BY <1>3, <1>4

-----------------------------------------------------------------------------
(* The inductive invariant.                                                *)

(* Until the main task has sent Close, the writer runs and no close waits. *)
Open ==
  proc \notin Ending =>
    wpc # "stopped" /\ \A i \in DOMAIN queue : queue[i].msg # "close"

(* Until then everything that is or will be shown was queued first, and    *)
(* SessionEnded too when Close is next.                                    *)
ShownPlaced ==
  proc \notin Ending =>
    /\ shown \subseteq InPlace
    /\ \A i \in DOMAIN chan : chan[i].seq \in InPlace
    /\ rpc = "loop" => hand.seq \in InPlace
EndedPlaced ==
  /\ proc = "exitSend" => mine.kind = "ended"
  /\ proc = "exitClose" => EndedIn(InPlace)

(* A flush comes after what was on screen when it was asked for, a close   *)
(* after all that was ever shown.                                          *)
FlushCovered(i) ==
  queue[i].msg = "flush" =>
    queue[i].n \in DOMAIN asked /\ asked[queue[i].n] \subseteq PlacedBefore(i)
CloseCovered(i) ==
  queue[i].msg = "close" =>
    proc \in Ending /\ shown \subseteq PlacedBefore(i) /\ EndedIn(PlacedBefore(i))
SyncsCovered == \A i \in DOMAIN queue : FlushCovered(i) /\ CloseCovered(i)

Answers == \A n \in answered : n \in DOMAIN asked /\ asked[n] \subseteq Settled
Stopped == wpc = "stopped" => proc \in Ending /\ ExitSettlesScreen

SyncInv == Open /\ ShownPlaced /\ EndedPlaced /\ SyncsCovered /\ Answers /\ Stopped

(* A message that stays in the queue stays covered.                        *)
LEMMA CoveredKept ==
  ASSUME NEW j, NEW i, FlushCovered(j), CloseCovered(j), queue'[i] = queue[j],
         PlacedBefore(j) \subseteq PlacedBefore(i)', sent \subseteq sent',
         \A n \in DOMAIN asked : n \in DOMAIN asked' /\ asked'[n] = asked[n],
         proc \in Ending => proc' \in Ending /\ shown' = shown
  PROVE  FlushCovered(i)' /\ CloseCovered(i)'
<1>1. FlushCovered(i)'
  BY DEF FlushCovered
<1>2. CloseCovered(i)'
  BY DEF CloseCovered, EndedIn
<1> QED BY <1>1, <1>2

(* A writer that has stopped keeps what it saved.                          *)
LEMMA StoppedKept ==
  ASSUME Stopped, Settled \subseteq Settled', sent \subseteq sent', wpc' = wpc,
         proc \in Ending => proc' \in Ending /\ shown' = shown,
         wpc = "stopped" => UNCHANGED <<pending, batch>>
  PROVE  Stopped'
BY DEF Stopped, ExitSettlesScreen

LEMMA AnswersKept ==
  ASSUME Answers, Settled \subseteq Settled', answered' = answered,
         \A n \in DOMAIN asked : n \in DOMAIN asked' /\ asked'[n] = asked[n]
  PROVE  Answers'
BY DEF Answers

(* The writer's steps leave the other threads alone, so that what it has   *)
(* to show for is only that its places grow.                               *)
LEMMA MainKept ==
  ASSUME SyncInv, InPlace \subseteq InPlace', sent \subseteq sent',
         UNCHANGED <<chan, shown, proc, mine, rpc, hand>>
  PROVE  ShownPlaced' /\ EndedPlaced'
<1>1. ShownPlaced'
  BY DEF SyncInv, ShownPlaced
<1>2. EndedPlaced'
  BY DEF SyncInv, EndedPlaced, EndedIn
<1> QED BY <1>1, <1>2

(* The writer takes an event.                                              *)
LEMMA EventKeepsSync ==
  ASSUME TypeOK, SyncInv, WriterEvent
  PROVE  SyncInv'
<1> USE DEF readerVars, mainVars, writerVars, diskVars
<1>1. [Next]_vars
  BY DEF Next, Writer
<1>2. Settled \subseteq Settled' /\ InPlace \subseteq InPlace'
  BY <1>1, SettledGrows, PlacesGrow
<1>3. /\ Receive("event") /\ Push(Head(queue).ev) /\ Head(queue).ev \in Event
      /\ UNCHANGED <<chan, sent, shown, asked, proc, mine, rpc, hand, answered, db, lost, pruned>>
      /\ wpc # "stopped" /\ wpc' = "gather"
  BY ReceiveType DEF WriterEvent, Receive, WriterRuns
<1>4. /\ Settled \cup Held \subseteq Settled' \cup Held'
      /\ Head(queue).ev.seq \in Settled' \cup Held'
  BY <1>3, PushKeeps DEF Settled, Held
<1>5. \A i \in DOMAIN queue' :
        /\ i + 1 \in DOMAIN queue /\ queue'[i] = queue[i + 1]
        /\ PlacedBefore(i + 1) \subseteq PlacedBefore(i)'
  BY <1>3, <1>4, PlacedReceive
<1>6. SyncsCovered'
  BY <1>3, <1>5, CoveredKept DEF SyncInv, SyncsCovered
<1>7. Open'
  BY <1>3, <1>5 DEF SyncInv, Open
<1>8. Answers' /\ Stopped'
  BY <1>2, <1>3, AnswersKept DEF SyncInv, Stopped
<1> QED BY <1>2, <1>3, <1>6, <1>7, <1>8, MainKept DEF SyncInv

(* After a commit nothing is held, and what was is settled.                *)
LEMMA CommitSettles ==
  ASSUME Commit, UNCHANGED <<dropped, pruned>>
  PROVE  Settled \cup Held \subseteq Settled'
BY CommitKeeps DEF Settled, Held

(* The writer takes a flush or a close: what the message comes after is    *)
(* settled when it is answered.                                            *)
LEMMA SyncKeepsSync ==
  ASSUME TypeOK, SyncInv, WriterFlush \/ WriterClose
  PROVE  SyncInv'
<1> USE DEF readerVars, mainVars, writerVars, diskVars
<1>1. [Next]_vars
  BY DEF Next, Writer
<1>2. Settled \subseteq Settled' /\ InPlace \subseteq InPlace'
  BY <1>1, SettledGrows, PlacesGrow
<1>3. PICK kind \in {"flush", "close"} :
        /\ Receive(kind) /\ Commit
        /\ kind = "flush" => WriterFlush
        /\ kind = "close" => WriterClose
  BY DEF WriterFlush, WriterClose
<1>4. /\ UNCHANGED <<chan, sent, shown, asked, proc, mine, rpc, hand, dropped, pruned>>
      /\ wpc # "stopped" /\ pending' = {} /\ batch' = {}
  BY <1>3 DEF WriterFlush, WriterClose, Commit, Receive, WriterRuns
<1>5. Settled \cup Held \subseteq Settled'
  BY <1>3, <1>4, CommitSettles
<1>6. /\ queue[1] = Head(queue) /\ 1 \in DOMAIN queue /\ QueuedBefore(1) = {}
      /\ \A i \in DOMAIN queue' :
           /\ i + 1 \in DOMAIN queue /\ queue'[i] = queue[i + 1]
           /\ PlacedBefore(i + 1) \subseteq PlacedBefore(i)'
  BY <1>3, <1>5, PlacedReceive
<1>7. PlacedBefore(1) \subseteq Settled' /\ FlushCovered(1) /\ CloseCovered(1)
      /\ queue[1].msg = kind
  BY <1>3, <1>5, <1>6 DEF PlacedBefore, SyncInv, SyncsCovered, Receive
<1>8. SyncsCovered'
  BY <1>4, <1>6, CoveredKept DEF SyncInv, SyncsCovered
<1>9. CASE kind = "flush"
  <2>1. wpc' = "idle" /\ answered' = answered \cup {Head(queue).n}
    BY <1>3, <1>9 DEF WriterFlush
  <2>2. Open' /\ Stopped'
    BY <1>4, <1>6, <2>1 DEF SyncInv, Open, Stopped
  <2>3. Answers'
    <3>1. Head(queue).n \in DOMAIN asked /\ asked[Head(queue).n] \subseteq Settled'
      BY <1>6, <1>7, <1>9 DEF FlushCovered
    <3> QED BY <1>2, <1>4, <2>1, <3>1 DEF SyncInv, Answers
  <2> QED BY <1>2, <1>4, <1>8, <2>2, <2>3, MainKept DEF SyncInv
<1>10. CASE kind = "close"
  <2>1. wpc' = "stopped" /\ answered' = answered
    BY <1>3, <1>10 DEF WriterClose
  <2>2. proc \in Ending /\ shown \subseteq Settled' /\ EndedIn(Settled')
    BY <1>7, <1>10 DEF CloseCovered, EndedIn
  <2>3. Open' /\ Stopped'
    BY <1>4, <2>1, <2>2 DEF Open, Stopped, ExitSettlesScreen, EndedIn
  <2>4. Answers'
    BY <1>2, <1>4, <2>1, AnswersKept DEF SyncInv
  <2> QED BY <1>2, <1>4, <1>8, <2>3, <2>4, MainKept DEF SyncInv
<1> QED BY <1>9, <1>10

(* The window's end and housekeeping leave the queue alone.                *)
LEMMA DiskKeepsSync ==
  ASSUME TypeOK, SyncInv, WriterTimeout \/ Prune
  PROVE  SyncInv'
<1> USE DEF readerVars, mainVars, writerVars, diskVars
<1>1. [Next]_vars
  BY DEF Next, Writer
<1>2. Settled \subseteq Settled' /\ InPlace \subseteq InPlace'
  BY <1>1, SettledGrows, PlacesGrow
<1>3. UNCHANGED <<queue, chan, sent, shown, asked, proc, mine, rpc, hand, answered>>
  BY DEF WriterTimeout, Prune
<1>4. Settled \cup Held \subseteq Settled' \cup Held'
  <2>1. CASE WriterTimeout
    BY <2>1, CommitSettles DEF WriterTimeout
  <2>2. CASE Prune
    <3>1. Held' = Held
      BY <2>2 DEF Prune, Held
    <3> QED BY <1>2, <3>1
  <2> QED BY <2>1, <2>2
<1>5. \A i : PlacedBefore(i) \subseteq PlacedBefore(i)'
  BY <1>3, <1>4 DEF PlacedBefore, QueuedBefore
<1>6. SyncsCovered'
  BY <1>3, <1>5, CoveredKept DEF SyncInv, SyncsCovered
<1>7. /\ wpc' = wpc \/ (wpc # "stopped" /\ wpc' # "stopped")
      /\ wpc = "stopped" => UNCHANGED <<pending, batch>>
  BY DEF WriterTimeout, Prune, WriterRuns
<1>8. Open' /\ Answers'
  BY <1>2, <1>3, <1>7, AnswersKept DEF SyncInv, Open
<1>9. Stopped'
  BY <1>2, <1>3, <1>7, StoppedKept DEF SyncInv, Stopped
<1> QED BY <1>2, <1>3, <1>6, <1>8, <1>9, MainKept DEF SyncInv

-----------------------------------------------------------------------------
(* The other threads' steps.                                               *)

(* The buffers and the disk as the other threads leave them.               *)
Untouched == <<pending, batch, db, dropped, lost, pruned, answered, wpc>>

(* Once the main task waits to exit it goes on doing so, and draws nothing.*)
StaysEnding == proc \in Ending => proc' \in Ending /\ shown' = shown

(* A message sent is covered when what it must come after is in place.     *)
LEMMA SendKeepsSyncs ==
  ASSUME TypeOK, SyncInv, NEW m, Send(m), UNCHANGED Untouched, StaysEnding,
         sent \subseteq sent',
         \A n \in DOMAIN asked : n \in DOMAIN asked' /\ asked'[n] = asked[n],
         m.msg = "flush" => m.n \in DOMAIN asked' /\ asked'[m.n] \subseteq InPlace,
         m.msg = "close" =>
           /\ proc' \in Ending /\ shown' \subseteq InPlace
           /\ \E ev \in sent' : ev.kind = "ended" /\ ev.seq \in InPlace
  PROVE  Open' /\ SyncsCovered' /\ Answers' /\ Stopped'
<1>0. UNCHANGED <<pending, batch, db, dropped, lost, pruned, answered, wpc>>
  BY DEF Untouched
<1>1. /\ \A i \in DOMAIN queue : PlacedBefore(i) \subseteq PlacedBefore(i)'
      /\ wpc = "stopped" => queue' = queue
      /\ \A i \in DOMAIN queue : i \in DOMAIN queue' /\ queue'[i] = queue[i]
      /\ \A i \in DOMAIN queue' \ DOMAIN queue :
           queue'[i] = m /\ wpc # "stopped" /\ InPlace \subseteq PlacedBefore(i)'
  BY <1>0, PlacedSend
<1>2. Open'
  BY <1>0, <1>1 DEF SyncInv, Open, StaysEnding
<1>3. ASSUME NEW i \in DOMAIN queue' PROVE FlushCovered(i)' /\ CloseCovered(i)'
  <2>1. CASE i \in DOMAIN queue
    BY <1>1, <2>1, CoveredKept DEF SyncInv, SyncsCovered, StaysEnding
  <2>2. CASE i \notin DOMAIN queue
    <3>1. queue'[i] = m /\ InPlace \subseteq PlacedBefore(i)'
      BY <1>1, <1>3, <2>2
    <3>2. FlushCovered(i)'
      BY <3>1 DEF FlushCovered
    <3>3. CloseCovered(i)'
      BY <3>1 DEF CloseCovered, EndedIn
    <3> QED BY <3>2, <3>3
  <2> QED BY <2>1, <2>2
<1>4. Settled' = Settled
  BY <1>0 DEF Settled
<1>5. Answers'
  BY <1>0, <1>4, AnswersKept DEF SyncInv
<1>6. Stopped'
  BY <1>0, <1>4, StoppedKept DEF SyncInv, StaysEnding
<1> QED BY <1>2, <1>3, <1>5, <1>6 DEF SyncsCovered

(* So is what waits while nothing is sent.                                 *)
LEMMA QuietKeepsSyncs ==
  ASSUME SyncInv, UNCHANGED Untouched, StaysEnding, UNCHANGED <<queue, sent, asked>>
  PROVE  Open' /\ SyncsCovered' /\ Answers' /\ Stopped' /\ InPlace' = InPlace
<1>0. UNCHANGED <<pending, batch, db, dropped, lost, pruned, answered, wpc>>
  BY DEF Untouched
<1>1. Settled' = Settled /\ InPlace' = InPlace
  BY <1>0 DEF Settled, InPlace, Queued
<1>2. \A i : PlacedBefore(i)' = PlacedBefore(i)
  BY <1>0, <1>1 DEF PlacedBefore, QueuedBefore, Held
<1>3. SyncsCovered'
  BY <1>2, CoveredKept DEF SyncInv, SyncsCovered, StaysEnding
<1>4. Open'
  BY <1>0 DEF SyncInv, Open, StaysEnding
<1>5. Answers'
  BY <1>0, <1>1, AnswersKept DEF SyncInv
<1>6. Stopped'
  BY <1>0, <1>1, StoppedKept DEF SyncInv, StaysEnding
<1> QED BY <1>1, <1>3, <1>4, <1>5, <1>6

(* An event sent while the writer runs is in place.                        *)
LEMMA EventPlaced ==
  ASSUME TypeOK, NEW ev \in Event, SendEvent(ev), wpc # "stopped"
  PROVE  ev \in sent' /\ ev.seq \in InPlace'
<1>1. Send([msg |-> "event", ev |-> ev]) /\ ev \in sent'
  BY DEF SendEvent
<1>2. ev.seq \in Queued'
  BY <1>1, QueuedSend
<1> QED BY <1>1, <1>2 DEF InPlace

(* The reader.                                                             *)
LEMMA ReaderKeepsSync ==
  ASSUME TypeOK, SyncInv, Reader
  PROVE  SyncInv'
<1> USE DEF readerVars, mainVars, writerVars, diskVars
<1>1. InPlace \subseteq InPlace'
  BY PlacesGrow DEF Next
<1>2. CASE \E shape \in Shapes : ReadLine(shape)
  <2>1. UNCHANGED Untouched /\ StaysEnding
        /\ UNCHANGED <<queue, sent, asked, chan, shown, proc, mine>> /\ rpc' = "store"
    BY <1>2 DEF ReadLine, Untouched, StaysEnding
  <2>2. Open' /\ SyncsCovered' /\ Answers' /\ Stopped' /\ InPlace' = InPlace
    BY <2>1, QuietKeepsSyncs
  <2>3. ShownPlaced'
    BY <2>1, <2>2 DEF SyncInv, ShownPlaced
  <2>4. EndedPlaced'
    BY <2>1, <2>2 DEF SyncInv, EndedPlaced, EndedIn
  <2> QED BY <2>2, <2>3, <2>4 DEF SyncInv
<1>3. CASE QueueForStore
  <2>1. /\ UNCHANGED Untouched /\ StaysEnding /\ SendEvent(hand)
        /\ UNCHANGED <<asked, chan, shown, proc, mine, hand>>
        /\ sent \subseteq sent' /\ rpc = "store" /\ hand \in Event
    BY <1>3 DEF QueueForStore, SendEvent, Untouched, StaysEnding, TypeOK
  <2>2. Open' /\ SyncsCovered' /\ Answers' /\ Stopped'
    BY <2>1, SendKeepsSyncs DEF SendEvent
  <2>3. proc \notin Ending => hand.seq \in InPlace'
    BY <2>1, EventPlaced DEF SyncInv, Open
  <2>4. ShownPlaced'
    BY <1>1, <2>1, <2>3 DEF SyncInv, ShownPlaced
  <2>5. EndedPlaced'
    BY <1>1, <2>1 DEF SyncInv, EndedPlaced, EndedIn
  <2> QED BY <2>2, <2>4, <2>5 DEF SyncInv
<1>4. CASE HandToLoop
  <2>1. /\ UNCHANGED Untouched /\ StaysEnding
        /\ UNCHANGED <<queue, sent, asked, shown, proc, mine>>
        /\ rpc = "loop" /\ rpc' = "read" /\ chan' = Append(chan, hand)
        /\ chan \in Seq(Event) /\ hand \in Event
    BY <1>4 DEF HandToLoop, Untouched, StaysEnding, TypeOK
  <2>2. Open' /\ SyncsCovered' /\ Answers' /\ Stopped' /\ InPlace' = InPlace
    BY <2>1, QuietKeepsSyncs
  <2>3. \A i \in DOMAIN chan' : chan'[i] = hand \/ (i \in DOMAIN chan /\ chan'[i] = chan[i])
    BY <2>1
  <2>4. ShownPlaced'
    BY <2>1, <2>2, <2>3 DEF SyncInv, ShownPlaced
  <2>5. EndedPlaced'
    BY <2>1, <2>2 DEF SyncInv, EndedPlaced, EndedIn
  <2> QED BY <2>2, <2>4, <2>5 DEF SyncInv
<1> QED BY <1>2, <1>3, <1>4 DEF Reader

(* The main task while it runs the session.                                *)
LEMMA SessionKeepsSync ==
  ASSUME TypeOK, SyncInv, Apply \/ Boot \/ BootSend \/ RequestFlush
  PROVE  SyncInv'
<1> USE DEF readerVars, mainVars, writerVars, diskVars
<1>1. InPlace \subseteq InPlace'
  BY PlacesGrow DEF Next, Main
<1>2. CASE Apply
  <2>1. /\ UNCHANGED Untouched /\ UNCHANGED <<queue, sent, asked, proc, mine, rpc, hand>>
        /\ proc = "run" /\ chan # <<>> /\ chan' = Tail(chan) /\ chan \in Seq(Event)
        /\ shown' = shown \cup {Head(chan).seq}
    BY <1>2 DEF Apply, Untouched, TypeOK
  <2>2. StaysEnding /\ proc \notin Ending
    BY <2>1 DEF StaysEnding, Ending
  <2>3. Open' /\ SyncsCovered' /\ Answers' /\ Stopped' /\ InPlace' = InPlace
    BY <2>1, <2>2, QuietKeepsSyncs
  <2>4. /\ Head(chan) = chan[1] /\ 1 \in DOMAIN chan
        /\ \A i \in DOMAIN chan' : i + 1 \in DOMAIN chan /\ chan'[i] = chan[i + 1]
    BY <2>1
  <2>5. ShownPlaced'
    BY <2>1, <2>2, <2>3, <2>4 DEF SyncInv, ShownPlaced
  <2>6. EndedPlaced'
    BY <2>1, <2>3 DEF EndedPlaced
  <2> QED BY <2>3, <2>5, <2>6 DEF SyncInv
<1>3. CASE Boot
  <2>1. /\ UNCHANGED Untouched /\ UNCHANGED <<queue, sent, asked, shown, chan, rpc, hand>>
        /\ proc = "boot" /\ proc' = "bootSend"
    BY <1>3 DEF Boot, Untouched
  <2>2. StaysEnding /\ proc \notin Ending
    BY <2>1 DEF StaysEnding, Ending
  <2>3. Open' /\ SyncsCovered' /\ Answers' /\ Stopped' /\ InPlace' = InPlace
    BY <2>1, <2>2, QuietKeepsSyncs
  <2>4. ShownPlaced' /\ EndedPlaced'
    BY <2>1, <2>2, <2>3 DEF SyncInv, ShownPlaced, EndedPlaced
  <2> QED BY <2>3, <2>4 DEF SyncInv
<1>4. CASE BootSend
  <2>1. /\ UNCHANGED Untouched /\ UNCHANGED <<asked, shown, chan, rpc, hand>>
        /\ Send([msg |-> "event", ev |-> mine]) /\ sent \subseteq sent'
        /\ proc = "bootSend" /\ proc' = "run"
    BY <1>4 DEF BootSend, SendEvent, Untouched
  <2>2. StaysEnding /\ proc \notin Ending
    BY <2>1 DEF StaysEnding, Ending
  <2>3. Open' /\ SyncsCovered' /\ Answers' /\ Stopped'
    BY <2>1, <2>2, SendKeepsSyncs
  <2>4. ShownPlaced' /\ EndedPlaced'
    BY <1>1, <2>1, <2>2 DEF SyncInv, ShownPlaced, EndedPlaced
  <2> QED BY <2>3, <2>4 DEF SyncInv
<1>5. CASE RequestFlush
  <2> DEFINE m == [msg |-> "flush", n |-> Len(asked) + 1]
  <2>1. /\ UNCHANGED Untouched /\ UNCHANGED <<sent, shown, chan, rpc, hand>>
        /\ Send(m) /\ proc = "run" /\ proc' = "flush"
        /\ asked' = Append(asked, shown) /\ asked \in Seq(SUBSET Nat)
        /\ shown \in SUBSET Nat
    BY <1>5 DEF RequestFlush, Untouched, TypeOK
  <2>2. StaysEnding /\ proc \notin Ending
    BY <2>1 DEF StaysEnding, Ending
  <2>3. /\ \A n \in DOMAIN asked : n \in DOMAIN asked' /\ asked'[n] = asked[n]
        /\ m.n \in DOMAIN asked' /\ asked'[m.n] = shown
    BY <2>1
  <2>4. shown \subseteq InPlace
    BY <2>2 DEF SyncInv, ShownPlaced
  <2>5. Open' /\ SyncsCovered' /\ Answers' /\ Stopped'
    BY <2>1, <2>2, <2>3, <2>4, SendKeepsSyncs
  <2>6. ShownPlaced' /\ EndedPlaced'
    BY <1>1, <2>1, <2>2 DEF SyncInv, ShownPlaced, EndedPlaced
  <2> QED BY <2>5, <2>6 DEF SyncInv
<1> QED BY <1>2, <1>3, <1>4, <1>5

(* The main task on its way out.                                           *)
LEMMA ExitKeepsSync ==
  ASSUME TypeOK, SyncInv, Outbound \/ FlushReturns \/ ExitBegin \/ ExitSend \/ ExitClose \/ ExitDone
  PROVE  SyncInv'
<1> USE DEF readerVars, mainVars, writerVars, diskVars
<1>1. InPlace \subseteq InPlace'
  BY PlacesGrow DEF Next, Main
<1>2. CASE Outbound \/ FlushReturns \/ ExitBegin \/ ExitDone
  <2>1. /\ UNCHANGED Untouched /\ UNCHANGED <<queue, sent, asked, shown, chan, rpc, hand>>
        /\ proc' = "exitSend" => mine'.kind = "ended"
        /\ proc' # "exitClose" /\ (proc' \in Ending <=> proc \in Ending)
    <3>1. CASE Outbound
      BY <3>1 DEF Outbound, Untouched
    <3>2. CASE FlushReturns
      BY <3>2 DEF FlushReturns, Untouched, Ending
    <3>3. CASE ExitBegin
      BY <3>3 DEF ExitBegin, Untouched, OwnEvent, Ending
    <3>4. CASE ExitDone
      BY <3>4 DEF ExitDone, Untouched, Ending
    <3> QED BY <1>2, <3>1, <3>2, <3>3, <3>4
  <2>2. StaysEnding
    BY <2>1 DEF StaysEnding
  <2>3. Open' /\ SyncsCovered' /\ Answers' /\ Stopped' /\ InPlace' = InPlace
    BY <2>1, <2>2, QuietKeepsSyncs
  <2>4. ShownPlaced' /\ EndedPlaced'
    BY <2>1, <2>3 DEF SyncInv, ShownPlaced, EndedPlaced
  <2> QED BY <2>3, <2>4 DEF SyncInv
<1>3. CASE ExitSend
  <2>1. /\ UNCHANGED Untouched /\ UNCHANGED <<asked, shown, chan, rpc, hand>>
        /\ SendEvent(mine) /\ sent \subseteq sent' /\ mine \in Event
        /\ proc = "exitSend" /\ proc' = "exitClose"
    BY <1>3 DEF ExitSend, SendEvent, Untouched, TypeOK
  <2>2. StaysEnding /\ proc \notin Ending
    BY <2>1 DEF StaysEnding, Ending
  <2>3. Open' /\ SyncsCovered' /\ Answers' /\ Stopped'
    BY <2>1, <2>2, SendKeepsSyncs DEF SendEvent
  <2>4. mine.kind = "ended" /\ mine \in sent' /\ mine.seq \in InPlace'
    BY <2>1, <2>2, EventPlaced DEF SyncInv, Open, EndedPlaced
  <2>5. ShownPlaced'
    BY <1>1, <2>1, <2>2 DEF SyncInv, ShownPlaced
  <2>6. EndedPlaced'
    BY <2>1, <2>4 DEF EndedPlaced, EndedIn
  <2> QED BY <2>3, <2>5, <2>6 DEF SyncInv
<1>4. CASE ExitClose
  <2>1. /\ UNCHANGED Untouched /\ UNCHANGED <<sent, asked, shown, chan, rpc, hand>>
        /\ Send([msg |-> "close"]) /\ proc = "exitClose" /\ proc' = "exitWait"
    BY <1>4 DEF ExitClose, Untouched
  <2>2. StaysEnding /\ proc \notin Ending /\ proc' \in Ending
    BY <2>1 DEF StaysEnding, Ending
  <2>3. shown \subseteq InPlace /\ EndedIn(InPlace)
    BY <2>1, <2>2 DEF SyncInv, ShownPlaced, EndedPlaced
  <2>4. Open' /\ SyncsCovered' /\ Answers' /\ Stopped'
    BY <2>1, <2>2, <2>3, SendKeepsSyncs DEF EndedIn
  <2>5. ShownPlaced' /\ EndedPlaced'
    BY <2>1, <2>2 DEF ShownPlaced, EndedPlaced
  <2> QED BY <2>4, <2>5 DEF SyncInv
<1> QED BY <1>2, <1>3, <1>4

-----------------------------------------------------------------------------
LEMMA SyncStep == TypeOK /\ SyncInv /\ [Next]_vars => SyncInv'
<1> SUFFICES ASSUME TypeOK, SyncInv, [Next]_vars PROVE SyncInv'
  OBVIOUS
<1>1. CASE Writer \/ Prune
  BY <1>1, EventKeepsSync, SyncKeepsSync, DiskKeepsSync DEF Writer
<1>2. CASE Reader
  BY <1>2, ReaderKeepsSync
<1>3. CASE Main
  BY <1>3, SessionKeepsSync, ExitKeepsSync DEF Main
<1>4. CASE UNCHANGED vars
  <2>1. /\ UNCHANGED Untouched /\ StaysEnding
        /\ UNCHANGED <<queue, sent, asked, chan, shown, proc, mine, rpc, hand>>
    BY <1>4 DEF vars, readerVars, mainVars, writerVars, diskVars, Untouched, StaysEnding
  <2>2. Open' /\ SyncsCovered' /\ Answers' /\ Stopped' /\ InPlace' = InPlace
    BY <2>1, QuietKeepsSyncs
  <2> QED BY <2>1, <2>2, MainKept DEF SyncInv
<1> QED BY <1>1, <1>2, <1>3, <1>4 DEF Next

LEMMA SyncAlways == Spec => []SyncInv
<1>1. Init => SyncInv
  BY DEF Init, SyncInv, Open, ShownPlaced, EndedPlaced, SyncsCovered, Answers, Stopped
<1> QED BY <1>1, SyncStep, TypeCorrect, PTL DEF Spec

(* When the flush behind Ctrl+O is answered, nothing that was on screen as *)
(* the user asked is still on its way to the disk, and when the writer has *)
(* stopped nothing that was ever shown, nor the end of the session: each   *)
(* is on disk or was given up (not kept, in a failed transaction, deleted  *)
(* by retention), however the reader, the writer's windows and the disk's  *)
(* errors interleave with either.                                          *)
THEOREM SyncsAreEnough == Spec => []SyncsSettleScreen
<1>1. SyncInv => FlushSettlesScreen
  BY DEF SyncInv, Answers, FlushSettlesScreen
<1>2. SyncInv => ExitSettlesScreen
  BY DEF SyncInv, Stopped, ExitSettlesScreen
<1> QED BY <1>1, <1>2, SyncAlways, PTL DEF SyncsSettleScreen

-----------------------------------------------------------------------------
(* The durable log.                                                        *)

(* What the refinement mapping reads of the state.                         *)
Msg     == [msg: {"event"}, ev: Event] \cup [msg: {"flush"}, n: Nat]
             \cup [msg: {"close"}]
Waiting == [i \in DOMAIN queue |-> Brings(queue[i])]
GivenUp == dropped \cup lost \cup pruned

-----------------------------------------------------------------------------
(* The queue, as the log sees it.                                          *)

(* What a queue of messages brings is a sequence of the same length.       *)
LEMMA BringsSeq ==
  ASSUME NEW q \in Seq(Msg)
  PROVE  LET w == [i \in DOMAIN q |-> Brings(q[i])] IN
         /\ w \in Seq(SUBSET Nat)
         /\ Len(w) = Len(q) /\ DOMAIN w = DOMAIN q
         /\ \A i \in DOMAIN q : w[i] = Brings(q[i])
<1> DEFINE w == [i \in DOMAIN q |-> Brings(q[i])]
<1>1. ASSUME NEW i \in DOMAIN q PROVE Brings(q[i]) \in SUBSET Nat
  <2>1. q[i] \in Msg
    OBVIOUS
  <2> QED BY <2>1 DEF Msg, Brings, Event
<1>2. Len(q) \in Nat /\ DOMAIN q = 1..Len(q)
  OBVIOUS
<1> HIDE DEF Msg
<1>3. w \in [1..Len(q) -> SUBSET Nat]
  BY <1>1, <1>2
<1>4. w \in Seq(SUBSET Nat) /\ Len(w) = Len(q)
  BY <1>2, <1>3
<1> QED BY <1>4

(* Receiving a message takes the first of what waits.                      *)
LEMMA WaitingReceive ==
  ASSUME TypeOK, NEW kind, Receive(kind)
  PROVE  /\ Waiting # <<>> /\ Head(Waiting) = Brings(Head(queue))
         /\ Waiting' = Tail(Waiting)
<1>1. queue \in Seq(Msg) /\ queue # <<>> /\ queue' = Tail(queue)
  BY DEF TypeOK, Receive, Msg
<1> DEFINE w == [i \in DOMAIN queue |-> Brings(queue[i])]
<1> DEFINE t == Tail(queue)
<1>2. t \in Seq(Msg) /\ Len(t) = Len(queue) - 1 /\ Len(queue) \in Nat \ {0}
  BY <1>1
<1>3. /\ w \in Seq(SUBSET Nat) /\ Len(w) = Len(queue)
      /\ \A i \in DOMAIN queue : w[i] = Brings(queue[i])
  BY <1>1, BringsSeq
<1>4. \A i \in 1..Len(t) : i + 1 \in DOMAIN queue /\ t[i] = queue[i + 1]
  BY <1>1, <1>2
<1>5. DOMAIN t = 1..Len(t)
  BY <1>2
<1> DEFINE v == [i \in DOMAIN t |-> Brings(t[i])]
<1>6. v \in Seq(SUBSET Nat) /\ Len(v) = Len(t) /\ \A i \in DOMAIN t : v[i] = Brings(t[i])
  BY <1>2, BringsSeq
<1> HIDE DEF w, t, v
<1>7. Tail(w) = v
  <2>1. w # <<>>
    BY <1>2, <1>3
  <2>2. /\ Tail(w) \in Seq(SUBSET Nat) /\ Len(Tail(w)) = Len(w) - 1
        /\ \A i \in 1..Len(Tail(w)) : Tail(w)[i] = w[i + 1]
    BY <1>3, <2>1, HeadTailProperties
  <2>3. Len(Tail(w)) = Len(v)
    BY <1>2, <1>3, <1>6, <2>2
  <2>4. \A i \in 1..Len(Tail(w)) : Tail(w)[i] = v[i]
    BY <1>3, <1>4, <1>5, <1>6, <2>2, <2>3
  <2> QED BY <1>6, <2>2, <2>3, <2>4, SeqEqual
<1>8. w # <<>> /\ Head(w) = w[1] /\ w[1] = Brings(queue[1]) /\ queue[1] = Head(queue)
  BY <1>1, <1>2, <1>3
<1> QED BY <1>1, <1>7, <1>8 DEF w, t, v, Waiting

(* Sending a message adds it at the end, or a stopped writer drops it.     *)
LEMMA WaitingSend ==
  ASSUME TypeOK, NEW m \in Msg, Send(m)
  PROVE  \/ Waiting' = Waiting
         \/ /\ Len(Waiting') = Len(Waiting) + 1
            /\ \A i \in DOMAIN Waiting : Waiting'[i] = Waiting[i]
<1>1. queue \in Seq(Msg)
  BY DEF TypeOK, Msg
<1>2. CASE wpc = "stopped"
  BY <1>2 DEF Send, Waiting
<1>3. CASE wpc # "stopped"
  <2> DEFINE w == [i \in DOMAIN queue |-> Brings(queue[i])]
  <2> DEFINE a == Append(queue, m)
  <2> DEFINE v == [i \in DOMAIN a |-> Brings(a[i])]
  <2>1. /\ a \in Seq(Msg) /\ Len(a) = Len(queue) + 1
        /\ DOMAIN queue \subseteq DOMAIN a
        /\ \A i \in DOMAIN queue : a[i] = queue[i]
    BY <1>1
  <2>2. /\ Len(w) = Len(queue) /\ DOMAIN w = DOMAIN queue
        /\ \A i \in DOMAIN queue : w[i] = Brings(queue[i])
    BY <1>1, BringsSeq
  <2>3. queue' = a
    BY <1>3 DEF Send
  <2> HIDE DEF a
  <2>4. Len(v) = Len(a) /\ \A i \in DOMAIN a : v[i] = Brings(a[i])
    BY <2>1, BringsSeq
  <2>5. Waiting = w /\ Waiting' = v
    BY <2>3 DEF Waiting
  <2> HIDE DEF w, v
  <2> QED BY <2>1, <2>2, <2>4, <2>5
<1> QED BY <1>2, <1>3

-----------------------------------------------------------------------------
(* The buffer: the runs and the batch.                                     *)

(* Trim keeps pieces it is given, and no others.                           *)
LEMMA TrimPieces ==
  ASSUME NEW kind, NEW t \in Seq(Nat)
  PROVE  PiecesOf(Trim(kind, t)) \subseteq PiecesOf(t)
<1>1. CASE kind \in ToolDeltas /\ Len(t) > OutputCap
  <2> DEFINE m == Len(t) - OutputCap + 1
  <2>1. m \in 1..Len(t) /\ Len(t) \in Nat
    BY <1>1, BoundsAssumption
  <2> DEFINE u == SubSeq(t, m, Len(t))
  <2>2. /\ Len(u) = Len(t) - m + 1 /\ DOMAIN u = 1..Len(u)
        /\ \A i \in 1..Len(u) : u[i] = t[m + i - 1]
    BY <2>1
  <2>3. \A i \in DOMAIN u : m + i - 1 \in DOMAIN t /\ u[i] = t[m + i - 1]
    BY <2>1, <2>2
  <2>4. Trim(kind, t) = u
    BY <1>1 DEF Trim
  <2> HIDE DEF u, m
  <2> QED BY <2>3, <2>4 DEF PiecesOf
<1>2. CASE ~(kind \in ToolDeltas /\ Len(t) > OutputCap)
  BY <1>2 DEF Trim
<1> QED BY <1>1, <1>2

(* A delta added to the runs adds at most its own seq to what they hold.   *)
LEMMA AppendContents ==
  ASSUME NEW p \in SUBSET Row, NEW ev \in Event
  PROVE  Contents(append(p, ev)) \subseteq Contents(p) \cup {ev.seq}
<1>1. CASE \E r \in p : SameKey(r, ev)
  <2> DEFINE grown(r) == [r EXCEPT !.text = Trim(r.kind, r.text \o Piece(ev))]
  <2> DEFINE image(r) == IF SameKey(r, ev) THEN grown(r) ELSE r
  <2>1. ASSUME NEW r \in p
        PROVE  PiecesOf(image(r).text) \subseteq PiecesOf(r.text) \cup {ev.seq}
    <3> DEFINE t == r.text
    <3> DEFINE joined == t \o Piece(ev)
    <3>1. t \in Seq(Nat) /\ Piece(ev) \in Seq(Nat) /\ PiecesOf(Piece(ev)) = {ev.seq}
      BY PieceText DEF Row
    <3>2. joined \in Seq(Nat) /\ PiecesOf(joined) \subseteq PiecesOf(t) \cup {ev.seq}
      <4> HIDE DEF t
      <4>1. /\ joined \in Seq(Nat) /\ DOMAIN joined = 1..(Len(t) + Len(Piece(ev)))
            /\ DOMAIN t = 1..Len(t) /\ DOMAIN Piece(ev) = 1..Len(Piece(ev))
            /\ Len(t) \in Nat /\ Len(Piece(ev)) \in Nat
        BY <3>1
      <4>2. ASSUME NEW i \in DOMAIN joined
            PROVE  \/ i \in DOMAIN t /\ joined[i] = t[i]
                   \/ i - Len(t) \in DOMAIN Piece(ev) /\ joined[i] = Piece(ev)[i - Len(t)]
        BY <3>1, <4>1, ConcatProperties
      <4> HIDE DEF joined
      <4> QED BY <3>1, <4>1, <4>2 DEF PiecesOf
    <3>3. PiecesOf(Trim(r.kind, joined)) \subseteq PiecesOf(joined)
      BY <3>2, TrimPieces
    <3>4. grown(r).text = Trim(r.kind, joined)
      BY DEF Row
    <3> HIDE DEF joined, grown
    <3> QED BY <3>2, <3>3, <3>4
  <2>2. append(p, ev) = {image(r) : r \in p}
    BY <1>1 DEF append
  <2> HIDE DEF image
  <2> QED BY <2>1, <2>2 DEF Contents
<1>2. CASE ~ \E r \in p : SameKey(r, ev)
  <2>1. append(p, ev) = p \cup {RowOf(ev)}
    BY <1>2 DEF append
  <2>2. Contents(p \cup {RowOf(ev)}) = Contents(p) \cup Contents({RowOf(ev)})
    BY ContentsUnion
  <2>3. Contents({RowOf(ev)}) = {ev.seq}
    BY RowOfEvent
  <2> QED BY <2>1, <2>2, <2>3
<1> QED BY <1>1, <1>2

(* Push holds nothing but what was held and the event's own seq, and gives *)
(* up nothing else either.                                                 *)
LEMMA PushAddsOne ==
  ASSUME TypeOK, NEW ev \in Event, Push(ev)
  PROVE  /\ Held' \subseteq Held \cup {ev.seq}
         /\ dropped \subseteq dropped' /\ dropped' \subseteq dropped \cup Held \cup {ev.seq}
         /\ Held \cup {ev.seq} \subseteq Held' \cup dropped'
<1>1. /\ Held = Contents(pending) \cup Contents(batch)
      /\ Held' = Contents(pending') \cup Contents(batch')
      /\ Held' = Contents(pending' \cup batch')
  BY ContentsUnion DEF Held
<1>2. Contents({RowOf(ev)}) = {ev.seq}
  BY RowOfEvent
<1>3. CASE /\ pending' = append(pending, ev) /\ batch' = batch
           /\ dropped' = dropped \cup
                ((Contents(pending) \cup {ev.seq}) \ Contents(append(pending, ev)))
  <2>1. Contents(append(pending, ev)) \subseteq Contents(pending) \cup {ev.seq}
    BY AppendContents DEF TypeOK
  <2> QED BY <1>1, <1>3, <2>1
<1>4. CASE /\ pending' = pending \ take(pending, ev) /\ dropped' = dropped
           /\ batch' = batch \cup take(pending, ev) \cup {RowOf(ev)}
  <2>1. take(pending, ev) \subseteq pending
    BY DEF take
  <2>2. pending' \cup batch' = (pending \cup batch) \cup {RowOf(ev)}
    BY <1>4, <2>1
  <2>3. Held' = Held \cup {ev.seq}
    BY <1>1, <1>2, <2>2, ContentsUnion DEF Held
  <2> QED BY <1>4, <2>3
<1>5. CASE pending' = pending /\ batch' = batch /\ dropped' = dropped \cup {ev.seq}
  BY <1>1, <1>5
<1>6. CASE pending' = pending /\ batch' = batch \cup {RowOf(ev)} /\ dropped' = dropped
  <2>1. Contents(batch') = Contents(batch) \cup {ev.seq}
    BY <1>2, <1>6, ContentsUnion
  <2> QED BY <1>1, <1>6, <2>1
<1> QED BY <1>3, <1>4, <1>5, <1>6 DEF Push

(* A commit empties the buffer: onto the disk, or into what is given up.   *)
LEMMA CommitEmpties ==
  ASSUME Commit, UNCHANGED <<dropped, pruned>>
  PROVE  Log!Empty
<1> DEFINE rows == batch \cup pending
<1>1. Held' = {} /\ Held = Contents(rows)
  <2>1. pending' \cup batch' = {} /\ pending \cup batch = rows
    BY DEF Commit
  <2> QED BY <2>1 DEF Held, Contents
<1>2. \/ db' = db \cup rows /\ lost' = lost
      \/ db' = db /\ lost' = lost \cup Contents(rows)
  BY DEF Commit
<1>3. CASE db' = db \cup rows /\ lost' = lost
  <2>1. Contents(db') = Contents(db) \cup Held
    BY <1>1, <1>3, ContentsUnion
  <2>2. GivenUp' = GivenUp
    BY <1>3 DEF GivenUp
  <2> QED BY <1>1, <2>1, <2>2 DEF Log!Empty, Held, GivenUp
<1>4. CASE db' = db /\ lost' = lost \cup Contents(rows)
  <2>1. GivenUp' = GivenUp \cup Held
    BY <1>1, <1>4 DEF GivenUp
  <2>2. Contents(db') = Contents(db)
    BY <1>4
  <2> QED BY <1>1, <2>1, <2>2 DEF Log!Empty, Held, GivenUp
<1> QED BY <1>2, <1>3, <1>4

-----------------------------------------------------------------------------
(* Each step of the store is a step of the log, or does not show.          *)

(* A step that leaves the queue, the buffer and the disk alone.            *)
LEMMA Invisible ==
  ASSUME UNCHANGED <<queue, pending, batch, db, dropped, lost, pruned>>
  PROVE  UNCHANGED Log!logVars
BY DEF Log!logVars

(* A message sent is accepted, or goes to a writer that has stopped.       *)
LEMMA SendAccepts ==
  ASSUME TypeOK, NEW m \in Msg, Send(m),
         UNCHANGED <<pending, batch, db, dropped, lost, pruned>>
  PROVE  Log!Accept \/ UNCHANGED Log!logVars
<1>1. Held' = Held /\ GivenUp' = GivenUp /\ Contents(db') = Contents(db)
  BY DEF Held, GivenUp
<1>2. CASE Waiting' = Waiting
  BY <1>1, <1>2 DEF Log!logVars, Waiting, Held, GivenUp
<1>3. CASE /\ Len(Waiting') = Len(Waiting) + 1
           /\ \A i \in DOMAIN Waiting : Waiting'[i] = Waiting[i]
  BY <1>1, <1>3 DEF Log!Accept, Waiting, Held, GivenUp
<1> QED BY <1>2, <1>3, WaitingSend

(* The refinement, step by step: receiving an event is Take, a flush or a  *)
(* close PassSync, the window's end Commit, housekeeping Forget.           *)
LEMMA LogStep == TypeOK /\ [Next]_vars => [Log!Next]_(Log!logVars)
<1> SUFFICES ASSUME TypeOK, [Next]_vars PROVE Log!Next \/ UNCHANGED Log!logVars
  OBVIOUS
<1> USE DEF readerVars, mainVars, writerVars, diskVars
<1>1. CASE WriterEvent
  <2> DEFINE ev == Head(queue).ev
  <2>1. Receive("event") /\ Push(ev) /\ ev \in Event
        /\ UNCHANGED <<db, lost, pruned>>
    BY <1>1, ReceiveType DEF WriterEvent
  <2>2. Head(Waiting) = {ev.seq} /\ Waiting # <<>> /\ Waiting' = Tail(Waiting)
    BY <2>1, WaitingReceive DEF Receive, Brings
  <2> HIDE DEF ev
  <2>3. /\ Held' \subseteq Held \cup {ev.seq}
        /\ dropped \subseteq dropped' /\ dropped' \subseteq dropped \cup Held \cup {ev.seq}
        /\ Held \cup {ev.seq} \subseteq Held' \cup dropped'
    BY <2>1, PushAddsOne
  <2>4. /\ GivenUp \subseteq GivenUp' /\ GivenUp' \subseteq GivenUp \cup (Held \cup {ev.seq})
        /\ Held \cup {ev.seq} \subseteq Held' \cup GivenUp'
    BY <2>1, <2>3 DEF GivenUp
  <2>5. Log!Take
    BY <2>1, <2>2, <2>3, <2>4 DEF Log!Take, Waiting, Held, GivenUp
  <2> QED BY <2>5 DEF Log!Next
<1>2. CASE WriterFlush
  <2>1. Receive("flush") /\ Commit /\ UNCHANGED <<dropped, pruned>>
    BY <1>2 DEF WriterFlush
  <2>2. Head(Waiting) = {} /\ Waiting # <<>> /\ Waiting' = Tail(Waiting)
    BY <2>1, WaitingReceive DEF Receive, Brings
  <2>3. Log!PassSync
    BY <2>1, <2>2, CommitEmpties DEF Log!PassSync, Waiting
  <2> QED BY <2>3 DEF Log!Next
<1>3. CASE WriterTimeout
  <2>1. Commit /\ UNCHANGED <<queue, dropped, pruned>>
    BY <1>3 DEF WriterTimeout
  <2>2. Log!Commit
    BY <2>1, CommitEmpties DEF Log!Commit
  <2> QED BY <2>2 DEF Log!Next
<1>4. CASE WriterClose
  <2>1. Receive("close") /\ Commit /\ UNCHANGED <<dropped, pruned>>
    BY <1>4 DEF WriterClose
  <2>2. Head(Waiting) = {} /\ Waiting # <<>> /\ Waiting' = Tail(Waiting)
    BY <2>1, WaitingReceive DEF Receive, Brings
  <2>3. Log!PassSync
    BY <2>1, <2>2, CommitEmpties DEF Log!PassSync, Waiting
  <2> QED BY <2>3 DEF Log!Next
<1>5. CASE Prune
  <2>1. Kept \subseteq db
    BY DEF Kept
  <2>2. db' = Kept /\ Contents(db') \subseteq Contents(db)
        /\ GivenUp' = GivenUp \cup (Contents(db) \ Contents(db'))
        /\ UNCHANGED <<queue, pending, batch>>
    BY <1>5, <2>1, ContentsUnion DEF Prune, GivenUp
  <2>3. Log!Forget
    BY <2>2 DEF Log!Forget, GivenUp
  <2> QED BY <2>3 DEF Log!Next
<1>6. CASE QueueForStore \/ BootSend \/ ExitSend
  <2>1. PICK ev \in Event : SendEvent(ev)
    <3>1. CASE QueueForStore
      BY <1>6, <3>1 DEF QueueForStore, TypeOK
    <3>2. CASE BootSend
      BY <1>6, <3>2 DEF BootSend, TypeOK
    <3>3. CASE ExitSend
      BY <1>6, <3>3 DEF ExitSend, TypeOK
    <3> QED BY <1>6, <3>1, <3>2, <3>3
  <2>2. [msg |-> "event", ev |-> ev] \in Msg
    BY DEF Msg
  <2>3. UNCHANGED <<pending, batch, db, dropped, lost, pruned>>
    BY <1>6 DEF QueueForStore, BootSend, ExitSend
  <2> QED BY <2>1, <2>2, <2>3, SendAccepts DEF SendEvent, Log!Next
<1>7. CASE RequestFlush
  <2>1. [msg |-> "flush", n |-> Len(asked) + 1] \in Msg
    BY DEF Msg, TypeOK
  <2> QED BY <1>7, <2>1, SendAccepts DEF RequestFlush, Log!Next
<1>8. CASE ExitClose
  <2>1. [msg |-> "close"] \in Msg
    BY DEF Msg
  <2> QED BY <1>8, <2>1, SendAccepts DEF ExitClose, Log!Next
<1>9. CASE \/ \E shape \in Shapes : ReadLine(shape)
           \/ HandToLoop \/ Boot \/ Apply \/ Outbound \/ FlushReturns
           \/ ExitBegin \/ ExitDone \/ UNCHANGED vars
  <2>1. UNCHANGED <<queue, pending, batch, db, dropped, lost, pruned>>
    BY <1>9 DEF ReadLine, HandToLoop, Boot, Apply, Outbound, FlushReturns, ExitBegin,
                ExitDone, vars
  <2> QED BY <2>1, Invisible
<1> QED BY <1>1, <1>2, <1>3, <1>4, <1>5, <1>6, <1>7, <1>8, <1>9
        DEF Next, Writer, Reader, Main

(* The store writer implements the durable log: whatever the host sends    *)
(* and whenever the process is killed, the events on disk or given up are  *)
(* all those up to some point of the queue, and a flush or a close is      *)
(* answered only when nothing is held back in a run or a batch.            *)
THEOREM ImplementsLog == Spec => ImplementsDurableLog
<1>1. Init => Log!Init
  BY DEF Init, Log!Init, Contents
<1>2. Log!Init /\ [][Log!Next]_(Log!logVars) => Log!Spec
  BY DEF Log!Spec
<1> QED BY <1>1, <1>2, LogStep, TypeCorrect, PTL DEF Spec, ImplementsDurableLog

-----------------------------------------------------------------------------
(* What the rows say when they are replayed.                                *)

(* What only a host sends, and what of it the rows have used.              *)
Steered == Deltas \cup Deduped
AllRows == db \cup batch \cup pending
Span(r) == {r.seq} \cup PiecesOf(r.text)
SpentBy(rows) == UNION {Span(r) : r \in {q \in rows : q.kind \in Steered}}

Hosted(i) == queue[i].msg = "event" /\ queue[i].ev.kind \in Steered
After(s)  == \A a \in SpentBy(AllRows) : a < s
Waits(s)  == \A i \in DOMAIN queue : Hosted(i) => queue[i].ev.seq < s

OrderInv ==
  /\ \A i, j \in DOMAIN queue :
       i < j /\ Hosted(i) /\ Hosted(j) => queue[i].ev.seq < queue[j].ev.seq
  /\ \A i \in DOMAIN queue : Hosted(i) => After(queue[i].ev.seq)
  /\ rpc = "store" => After(hand.seq) /\ Waits(hand.seq)
  /\ After(nextSeq)
  /\ MainHolds => mine.kind \notin Steered

(* The rows: a text begins at its row's seq and never goes back; a run is   *)
(* the latest row of its key, and of two rows of a key the earlier ends     *)
(* before the later begins.                                                *)
Rising(t)   == \A i, j \in DOMAIN t : i < j => t[i] <= t[j]
TextFrom(r) == r.text # <<>> /\ Rising(r.text) /\ \A a \in PiecesOf(r.text) : r.seq <= a
EndsBefore(r, q) == \A a \in PiecesOf(r.text) : a < q.seq

RowsInv ==
  /\ \A r \in AllRows : TextFrom(r)
  /\ \A r \in pending : r.kind \in Deltas
  /\ \A r \in pending, q \in AllRows : SameKey(r, q) => q.seq <= r.seq
  /\ \A r, q \in AllRows :
       r.kind \in Deltas /\ SameKey(r, q) /\ r.seq < q.seq => EndsBefore(r, q)

(* The newest payload: in the batch or on disk, or pruned with all there    *)
(* was; every row of a deduplicated type is an event that was sent.         *)
Newest(k, ref, rows) ==
  \E r \in rows : /\ r.kind = k /\ r.ref = ref
                  /\ \A q \in rows : q.kind = k => q.seq <= r.seq
Gone(k, ref) == \E ev \in sent : /\ ev.kind = k /\ ev.ref = ref /\ ev.old
                                 /\ ev.seq \in pruned
LatestKept(k) ==
  last[k] # None => Newest(k, last[k], db \cup batch) \/ Gone(k, last[k])
Sent(r) == /\ r.seq \in PiecesOf(r.text)
           /\ \E ev \in sent : ev.seq = r.seq /\ SameKey(r, ev) /\ ev.old = r.old

LatestInv ==
  /\ wpc # "gather" => batch = {} /\ pending = {}
  /\ \A i \in DOMAIN queue : queue[i].msg = "event" => queue[i].ev \in sent
  /\ \A r \in AllRows : r.kind \in Deduped => Sent(r)
  /\ lost = {} => \A k \in Deduped : LatestKept(k)

ReplayInv == OrderInv /\ RowsInv /\ LatestInv

-----------------------------------------------------------------------------
(* The order.                                                              *)

(* What a set of rows has used grows with the set.                         *)
LEMMA SpentUnion ==
  ASSUME NEW A, NEW B
  PROVE  /\ SpentBy(A \cup B) = SpentBy(A) \cup SpentBy(B)
         /\ A \subseteq B => SpentBy(A) \subseteq SpentBy(B)
BY DEF SpentBy

(* Rows use natural numbers.                                               *)
LEMMA SpentNat ==
  ASSUME NEW rows \in SUBSET Row
  PROVE  SpentBy(rows) \subseteq Nat
<1>1. ASSUME NEW r \in rows PROVE Span(r) \subseteq Nat
  BY DEF Row, Span, PiecesOf
<1> QED BY <1>1 DEF SpentBy

(* Cutting a text to its tail brings in no other seq, leaves a text that   *)
(* was not empty not empty, and keeps its order.                           *)
LEMMA TrimText ==
  ASSUME NEW kind, NEW t \in Seq(Nat), t # <<>>
  PROVE  /\ PiecesOf(Trim(kind, t)) \subseteq PiecesOf(t)
         /\ Trim(kind, t) # <<>>
         /\ Rising(t) => Rising(Trim(kind, t))
<1>1. CASE kind \in ToolDeltas /\ Len(t) > OutputCap
  <2> DEFINE m == Len(t) - OutputCap
             u == SubSeq(t, m + 1, Len(t))
  <2>1. m \in Nat /\ m + 1 <= Len(t) /\ Len(t) \in Nat /\ OutputCap \in Nat \ {0}
    BY <1>1, BoundsAssumption
  <2>2. Trim(kind, t) = u
    BY <1>1 DEF Trim
  <2>3. Len(u) = OutputCap /\ DOMAIN u = 1..OutputCap
    BY <2>1
  <2>4. \A i \in 1..OutputCap : i + m \in DOMAIN t /\ u[i] = t[i + m]
    BY <2>1
  <2> HIDE DEF u
  <2>5. PiecesOf(u) \subseteq PiecesOf(t)
    BY <2>3, <2>4 DEF PiecesOf
  <2>6. u # <<>>
    BY <2>1, <2>3
  <2>7. Rising(t) => Rising(u)
    <3> SUFFICES ASSUME Rising(t), NEW i \in 1..OutputCap, NEW j \in 1..OutputCap, i < j
                 PROVE  u[i] <= u[j]
      BY <2>3 DEF Rising
    <3>1. i + m < j + m
      BY <2>1
    <3> QED BY <2>4, <3>1 DEF Rising
  <2> QED BY <2>2, <2>5, <2>6, <2>7
<1>2. CASE ~(kind \in ToolDeltas /\ Len(t) > OutputCap)
  BY <1>2 DEF Trim
<1> QED BY <1>1, <1>2

(* A run that grows by a delta.                                            *)
Grown(r, ev) == [r EXCEPT !.text = Trim(r.kind, r.text \o Piece(ev))]

(* It keeps its seq and its key; its text ends in the delta's.             *)
LEMMA GrownRow ==
  ASSUME NEW r \in Row, NEW ev \in Event
  PROVE  /\ Grown(r, ev) \in Row
         /\ Grown(r, ev).seq = r.seq /\ Grown(r, ev).kind = r.kind
         /\ Grown(r, ev).ref = r.ref /\ Grown(r, ev).old = r.old
         /\ Grown(r, ev).text # <<>>
         /\ PiecesOf(Grown(r, ev).text) \subseteq PiecesOf(r.text) \cup {ev.seq}
         /\ Rising(r.text) /\ (\A a \in PiecesOf(r.text) : a < ev.seq)
              => Rising(Grown(r, ev).text)
<1> DEFINE p == Piece(ev)
           t == r.text
           u == t \o p
<1>1. t \in Seq(Nat) /\ p \in Seq(Nat) /\ PiecesOf(p) = {ev.seq} /\ ev.seq \in Nat
  BY PieceText DEF Row, Event
<1>2. Len(p) \in Nat /\ Len(p) >= 1 /\ \A i \in DOMAIN p : p[i] = ev.seq
  <2>1. ev.size \in Nat \ {0}
    BY DEF Event
  <2>2. DOMAIN p = 1..ev.size /\ \A i \in DOMAIN p : p[i] = ev.seq
    BY <2>1 DEF Piece
  <2>3. Len(p) = ev.size
    BY <1>1, <2>1, <2>2
  <2> QED BY <2>1, <2>2, <2>3
<1> HIDE DEF p, t
<1>3. u \in Seq(Nat) /\ Len(u) = Len(t) + Len(p) /\ Len(t) \in Nat
  BY <1>1
<1>4. u # <<>>
  BY <1>2, <1>3
<1>5. \A i \in DOMAIN u : (i \in DOMAIN t /\ u[i] = t[i]) \/ (i > Len(t) /\ u[i] = ev.seq)
  <2> SUFFICES ASSUME NEW i \in 1..Len(u)
               PROVE  (i \in 1..Len(t) /\ u[i] = t[i]) \/ (i > Len(t) /\ u[i] = ev.seq)
    BY <1>1, <1>3
  <2>1. CASE i <= Len(t)
    BY <1>1, <1>3, <2>1
  <2>2. CASE i > Len(t)
    <3>1. u[i] = p[i - Len(t)] /\ i - Len(t) \in 1..Len(p)
      BY <1>1, <1>3, <2>2
    <3> QED BY <1>1, <1>2, <2>2, <3>1
  <2> QED BY <1>3, <2>1, <2>2
<1> HIDE DEF u
<1>6. PiecesOf(u) \subseteq PiecesOf(t) \cup {ev.seq}
  BY <1>5 DEF PiecesOf
<1>7. Rising(t) /\ (\A a \in PiecesOf(t) : a < ev.seq) => Rising(u)
  <2> SUFFICES ASSUME Rising(t), \A a \in PiecesOf(t) : a < ev.seq,
                      NEW i \in DOMAIN u, NEW j \in DOMAIN u, i < j
               PROVE  u[i] <= u[j]
    BY DEF Rising
  <2>1. i \in Nat /\ j \in Nat
    BY <1>3
  <2>2. CASE j \in DOMAIN t /\ u[j] = t[j]
    <3>1. i <= Len(t)
      BY <1>1, <1>3, <2>1, <2>2
    <3>2. i \in DOMAIN t /\ u[i] = t[i]
      BY <1>3, <1>5, <2>1, <3>1
    <3> QED BY <2>2, <3>2 DEF Rising
  <2>3. CASE u[j] = ev.seq
    <3>1. CASE i \in DOMAIN t /\ u[i] = t[i]
      <4>1. t[i] \in Nat /\ t[i] \in PiecesOf(t)
        BY <1>1, <3>1 DEF PiecesOf
      <4> QED BY <1>1, <2>3, <3>1, <4>1
    <3>2. CASE u[i] = ev.seq
      BY <1>1, <2>3, <3>2
    <3> QED BY <1>5, <3>1, <3>2
  <2> QED BY <1>5, <2>2, <2>3
<1>8. /\ Trim(r.kind, u) \in Seq(Nat) /\ Trim(r.kind, u) # <<>>
      /\ PiecesOf(Trim(r.kind, u)) \subseteq PiecesOf(u)
      /\ Rising(u) => Rising(Trim(r.kind, u))
  BY <1>3, <1>4, TrimType, TrimText
<1>9. /\ Grown(r, ev) = [r EXCEPT !.text = Trim(r.kind, u)]
  BY DEF Grown, u, t, p
<1>10. /\ Grown(r, ev) \in Row /\ Grown(r, ev).text = Trim(r.kind, u)
       /\ Grown(r, ev).seq = r.seq /\ Grown(r, ev).kind = r.kind
       /\ Grown(r, ev).ref = r.ref /\ Grown(r, ev).old = r.old
  BY <1>8, <1>9 DEF Row
<1> QED BY <1>6, <1>7, <1>8, <1>10 DEF t

(* The runs after a delta: each is one of before, perhaps grown, or the    *)
(* delta begins the only run of its key.                                   *)
LEMMA AppendIs ==
  ASSUME NEW p \in SUBSET Row, NEW ev \in Event
  PROVE  \/ /\ \E r \in p : SameKey(r, ev)
            /\ append(p, ev) = {IF SameKey(r, ev) THEN Grown(r, ev) ELSE r : r \in p}
         \/ /\ ~ \E r \in p : SameKey(r, ev)
            /\ append(p, ev) = p \cup {RowOf(ev)}
BY DEF append, Grown

(* A pushed event uses its own seq at most, and that only if it is of a    *)
(* kind only a host sends.                                                 *)
LEMMA PushSpends ==
  ASSUME TypeOK, NEW ev \in Event, Push(ev), UNCHANGED db
  PROVE  /\ SpentBy(AllRows)' \subseteq SpentBy(AllRows) \cup {ev.seq}
         /\ ev.kind \notin Steered => SpentBy(AllRows)' \subseteq SpentBy(AllRows)
<1>1. CASE ev.kind \in Deltas
  <2>1. pending' = append(pending, ev) /\ batch' = batch
    BY <1>1 DEF Push, Deltas, StreamDeltas, ToolDeltas, Ends, NeverSaved, Deduped,
                Registrations
  <2>2. ASSUME NEW q \in append(pending, ev), q.kind \in Steered
        PROVE  Span(q) \subseteq SpentBy(pending) \cup {ev.seq}
    <3>1. pending \in SUBSET Row
      BY DEF TypeOK
    <3>2. CASE q \in pending
      BY <2>2, <3>2 DEF SpentBy
    <3>3. CASE q = RowOf(ev)
      <4>1. Span(q) = {ev.seq}
        BY <3>3, PieceText DEF Span, RowOf
      <4> QED BY <4>1
    <3>4. CASE \E r \in pending : q = Grown(r, ev)
      <4>1. PICK r \in pending : q = Grown(r, ev)
        BY <3>4
      <4>2. r \in Row
        BY <3>1
      <4>3. Span(q) \subseteq Span(r) \cup {ev.seq} /\ r.kind = q.kind
        BY <4>1, <4>2, GrownRow DEF Span
      <4>4. Span(r) \subseteq SpentBy(pending)
        BY <2>2, <4>3 DEF SpentBy
      <4> QED BY <4>3, <4>4
    <3> QED BY <2>2, <3>1, <3>2, <3>3, <3>4, AppendIs
  <2>3. SpentBy(append(pending, ev)) \subseteq SpentBy(pending) \cup {ev.seq}
    BY <2>2 DEF SpentBy
  <2>4. ev.kind \in Steered
    BY <1>1 DEF Steered
  <2>5. SpentBy(AllRows) = SpentBy(db) \cup SpentBy(batch) \cup SpentBy(pending)
    BY DEF AllRows, SpentBy
  <2>6. AllRows' = db \cup batch \cup append(pending, ev)
    BY <2>1 DEF AllRows
  <2>7. SpentBy(AllRows') = SpentBy(db) \cup SpentBy(batch) \cup SpentBy(append(pending, ev))
    BY <2>6 DEF SpentBy
  <2>8. SpentBy(AllRows)' = SpentBy(AllRows')
    BY DEF SpentBy, Span
  <2> QED BY <2>3, <2>4, <2>5, <2>7, <2>8
<1>2. CASE ev.kind \notin Deltas
  <2>1. AllRows' \subseteq AllRows \cup {RowOf(ev)}
    BY <1>2 DEF Push, AllRows, take
  <2>2. SpentBy({RowOf(ev)}) \subseteq {ev.seq}
    <3>1. Span(RowOf(ev)) = {ev.seq}
      BY PieceText DEF Span, RowOf
    <3> QED BY <3>1 DEF SpentBy
  <2>3. ev.kind \notin Steered => SpentBy({RowOf(ev)}) = {}
    BY DEF SpentBy, RowOf
  <2>4. SpentBy(AllRows') \subseteq SpentBy(AllRows) \cup SpentBy({RowOf(ev)})
    <3>1. SpentBy(AllRows \cup {RowOf(ev)}) = SpentBy(AllRows) \cup SpentBy({RowOf(ev)})
      BY SpentUnion
    <3>2. SpentBy(AllRows') \subseteq SpentBy(AllRows \cup {RowOf(ev)})
      BY <2>1, SpentUnion
    <3> QED BY <3>1, <3>2
  <2>5. SpentBy(AllRows)' = SpentBy(AllRows')
    BY DEF SpentBy, Span
  <2> QED BY <2>2, <2>3, <2>4, <2>5
<1> QED BY <1>1, <1>2

(* Rows that only move or go use nothing new.                              *)
LEMMA KeepSpends ==
  ASSUME AllRows' \subseteq AllRows
  PROVE  SpentBy(AllRows)' \subseteq SpentBy(AllRows)
BY DEF SpentBy, Span

(* A commit empties the buffers and makes no row.                          *)
LEMMA CommitRows ==
  ASSUME Commit
  PROVE  AllRows' \subseteq AllRows /\ pending' = {} /\ batch' = {}
BY DEF Commit, AllRows

(* Housekeeping deletes rows of the disk only.                             *)
LEMMA PruneRows ==
  ASSUME Prune
  PROVE  AllRows' \subseteq AllRows /\ pending' = pending /\ batch' = batch
BY DEF Prune, Kept, AllRows, writerVars

(* The events waiting in the queue have natural seqs below the counter.    *)
LEMMA QueueSeqs ==
  ASSUME TypeOK, SeqInv, NEW i \in DOMAIN queue, queue[i].msg = "event"
  PROVE  queue[i].ev \in Event /\ queue[i].ev.seq \in Nat /\ queue[i].ev.seq < nextSeq
<1>1. queue[i] \in [msg: {"event"}, ev: Event] \cup [msg: {"flush"}, n: Nat]
                     \cup [msg: {"close"}]
  BY DEF TypeOK
<1>2. queue[i].ev \in Event
  BY <1>1
<1>3. queue[i].ev.seq \in Nat
  BY <1>2 DEF Event
<1>4. queue[i].ev.seq \in Queued
  BY DEF Queued
<1> QED BY <1>2, <1>3, <1>4 DEF SeqInv

(* What the rows use stays below what comes, as long as the rows use       *)
(* nothing new, no seq enters the queue and the counter does not go back.  *)
LEMMA QuietOrder ==
  ASSUME TypeOK, OrderInv, SpentBy(AllRows)' \subseteq SpentBy(AllRows),
         nextSeq' \in Nat, nextSeq' >= nextSeq,
         rpc' # "store" \/ UNCHANGED <<rpc, hand>>,
         MainHolds' => mine'.kind \notin Steered,
         UNCHANGED queue
  PROVE  OrderInv'
<1>1. SpentBy(AllRows) \subseteq Nat
  BY SpentNat DEF AllRows, TypeOK
<1>2. nextSeq \in Nat /\ (rpc = "store" => hand.seq \in Nat)
  BY DEF TypeOK, Event
<1>3. \A s : After(s) => After(s)'
  BY DEF After
<1>4. After(nextSeq)'
  BY <1>1, <1>2 DEF After, OrderInv
<1>5. \A i : Hosted(i)' = Hosted(i)
  BY DEF Hosted
<1>6. \A s : Waits(s) => Waits(s)'
  BY <1>5 DEF Waits
<1>7. /\ \A i, j \in DOMAIN queue :
            i < j /\ Hosted(i) /\ Hosted(j) => queue[i].ev.seq < queue[j].ev.seq
      /\ \A i \in DOMAIN queue : Hosted(i) => After(queue[i].ev.seq)
      /\ rpc = "store" => After(hand.seq) /\ Waits(hand.seq)
  BY DEF OrderInv
<1>8. \A i \in DOMAIN queue' : Hosted(i)' => After(queue[i].ev.seq)'
  BY <1>3, <1>5, <1>7
<1>9. \A i, j \in DOMAIN queue' :
        i < j /\ Hosted(i)' /\ Hosted(j)' => queue'[i].ev.seq < queue'[j].ev.seq
  BY <1>5, <1>7
<1>10. rpc' = "store" => After(hand.seq)' /\ Waits(hand.seq)'
  <2> SUFFICES ASSUME rpc' = "store" PROVE After(hand.seq)' /\ Waits(hand.seq)'
    OBVIOUS
  <2>1. hand' = hand /\ After(hand.seq) /\ Waits(hand.seq)
    BY <1>7
  <2>2. \A a \in SpentBy(AllRows)' : a < hand.seq
    BY <2>1 DEF After
  <2>3. \A i \in DOMAIN queue' : Hosted(i)' => queue'[i].ev.seq < hand.seq
    BY <1>5, <2>1 DEF Waits
  <2> QED BY <2>1, <2>2, <2>3 DEF After, Waits
<1> QED BY <1>4, <1>8, <1>9, <1>10 DEF OrderInv

(* The message at the head of the queue leaves it, and its event may be    *)
(* used now: all that wait behind it and the event in hand are later.      *)
LEMMA ReceiveOrder ==
  ASSUME TypeOK, SeqInv, OrderInv, NEW kind, Receive(kind),
         SpentBy(AllRows)' \subseteq SpentBy(AllRows)
           \cup (IF Hosted(1) THEN {queue[1].ev.seq} ELSE {}),
         UNCHANGED <<nextSeq, rpc, hand, proc, mine>>
  PROVE  OrderInv'
<1> DEFINE M == [msg: {"event"}, ev: Event] \cup [msg: {"flush"}, n: Nat]
                  \cup [msg: {"close"}]
<1>1. queue \in Seq(M) /\ queue # <<>> /\ queue' = Tail(queue)
  BY DEF TypeOK, Receive
<1> HIDE DEF M
<1>2. ASSUME NEW i \in DOMAIN queue'
      PROVE  /\ i \in Nat /\ i + 1 \in DOMAIN queue /\ 1 < i + 1
             /\ queue'[i] = queue[i + 1] /\ Hosted(i)' = Hosted(i + 1)
  <2>1. i \in Nat /\ i + 1 \in DOMAIN queue /\ 1 < i + 1 /\ queue'[i] = queue[i + 1]
    BY <1>1
  <2> QED BY <2>1 DEF Hosted
<1>3. 1 \in DOMAIN queue
  BY <1>1
<1>4. ASSUME NEW s, After(s), Hosted(1) => queue[1].ev.seq < s
      PROVE  After(s)'
  BY <1>4 DEF After
<1>5. /\ \A i, j \in DOMAIN queue :
            i < j /\ Hosted(i) /\ Hosted(j) => queue[i].ev.seq < queue[j].ev.seq
      /\ \A i \in DOMAIN queue : Hosted(i) => After(queue[i].ev.seq)
      /\ rpc = "store" => After(hand.seq) /\ Waits(hand.seq)
      /\ After(nextSeq)
      /\ MainHolds => mine.kind \notin Steered
  BY DEF OrderInv
<1>6. ASSUME NEW i \in DOMAIN queue', NEW j \in DOMAIN queue',
             i < j, Hosted(i)', Hosted(j)'
      PROVE  queue'[i].ev.seq < queue'[j].ev.seq
  <2>1. i + 1 < j + 1
    BY <1>2, <1>6
  <2> QED BY <1>2, <1>5, <1>6, <2>1
<1>7. ASSUME NEW i \in DOMAIN queue', Hosted(i)'
      PROVE  After(queue[i].ev.seq)'
  <2>1. After(queue[i + 1].ev.seq) /\ (Hosted(1) => queue[1].ev.seq < queue[i + 1].ev.seq)
    BY <1>2, <1>3, <1>5, <1>7
  <2>2. ASSUME NEW s, s = queue[i + 1].ev.seq PROVE After(s)'
    BY <1>4, <2>1, <2>2
  <2>3. \A a \in SpentBy(AllRows)' : a < queue[i + 1].ev.seq
    BY <2>2 DEF After
  <2>4. queue'[i] = queue[i + 1]
    BY <1>2
  <2> QED BY <2>3, <2>4 DEF After
<1>8. rpc' = "store" => After(hand.seq)' /\ Waits(hand.seq)'
  <2> SUFFICES ASSUME rpc' = "store" PROVE After(hand.seq)' /\ Waits(hand.seq)'
    OBVIOUS
  <2>1. hand' = hand /\ After(hand.seq) /\ Waits(hand.seq)
    BY <1>5
  <2>2. Hosted(1) => queue[1].ev.seq < hand.seq
    BY <1>3, <2>1 DEF Waits
  <2>3. \A a \in SpentBy(AllRows)' : a < hand.seq
    BY <2>1, <2>2 DEF After
  <2>4. After(hand.seq)'
    BY <2>1, <2>3 DEF After
  <2>5. ASSUME NEW i \in DOMAIN queue', Hosted(i)' PROVE queue'[i].ev.seq < hand.seq
    BY <1>2, <2>1, <2>5 DEF Waits
  <2>6. Waits(hand.seq)'
    BY <2>1, <2>5 DEF Waits
  <2> QED BY <2>4, <2>6
<1>9. After(nextSeq)'
  <2>1. Hosted(1) => queue[1].ev.seq < nextSeq
    BY <1>3, QueueSeqs DEF Hosted
  <2> QED BY <1>5, <2>1 DEF After
<1>10. MainHolds' => mine'.kind \notin Steered
  BY <1>5 DEF MainHolds
<1> QED BY <1>6, <1>7, <1>8, <1>9, <1>10 DEF OrderInv

(* A message joins the queue at the end: an event only a host sends comes  *)
(* from the reader's hand and is the latest yet.                           *)
LEMMA SendOrder ==
  ASSUME TypeOK, OrderInv,
         NEW m \in [msg: {"event"}, ev: Event] \cup [msg: {"flush"}, n: Nat]
                     \cup [msg: {"close"}],
         Send(m),
         m.msg = "event" /\ m.ev.kind \in Steered => After(m.ev.seq) /\ Waits(m.ev.seq),
         rpc' = "store" =>
           rpc = "store" /\ hand' = hand /\ (m.msg = "event" => m.ev.kind \notin Steered),
         ~MainHolds' \/ UNCHANGED <<proc, mine>>,
         UNCHANGED <<nextSeq, writerVars, diskVars>>
  PROVE  OrderInv'
<1>1. SpentBy(AllRows)' = SpentBy(AllRows)
  BY DEF AllRows, writerVars, diskVars, SpentBy, Span
<1>2. MainHolds' => mine'.kind \notin Steered
  BY DEF OrderInv, MainHolds
<1>3. CASE wpc = "stopped"
  <2>1. UNCHANGED queue /\ nextSeq' \in Nat /\ nextSeq' >= nextSeq
    BY <1>3 DEF Send, TypeOK
  <2>2. rpc' # "store" \/ UNCHANGED <<rpc, hand>>
    OBVIOUS
  <2> QED BY <1>1, <1>2, <2>1, <2>2, QuietOrder
<1>4. CASE wpc # "stopped"
  <2> DEFINE M == [msg: {"event"}, ev: Event] \cup [msg: {"flush"}, n: Nat]
                    \cup [msg: {"close"}]
             Host(x) == x.msg = "event" /\ x.ev.kind \in Steered
             n == Len(queue)
  <2>1. queue \in Seq(M) /\ queue' = Append(queue, m) /\ m \in M
    BY <1>4 DEF Send, TypeOK
  <2> HIDE DEF M
  <2>2. /\ n \in Nat /\ DOMAIN queue' = 1..(n + 1) /\ DOMAIN queue = 1..n
        /\ \A i \in DOMAIN queue : queue'[i] = queue[i]
        /\ queue'[n + 1] = m
    BY <2>1
  <2>3. \A i : Hosted(i) = Host(queue[i]) /\ Hosted(i)' = Host(queue'[i])
    BY DEF Hosted
  <2>4. \A s : After(s) => \A a \in SpentBy(AllRows)' : a < s
    BY <1>1 DEF After
  <2> HIDE DEF n
  <2>5. /\ \A i, j \in DOMAIN queue :
             i < j /\ Hosted(i) /\ Hosted(j) => queue[i].ev.seq < queue[j].ev.seq
        /\ \A i \in DOMAIN queue : Hosted(i) => After(queue[i].ev.seq)
        /\ rpc = "store" => After(hand.seq) /\ Waits(hand.seq)
        /\ After(nextSeq)
    BY DEF OrderInv
  <2>6. \A i \in DOMAIN queue' : i \in DOMAIN queue \/ i = n + 1
    BY <2>2
  <2>7. ASSUME NEW i \in DOMAIN queue', NEW j \in DOMAIN queue', i < j,
               Hosted(i)', Hosted(j)'
        PROVE  queue'[i].ev.seq < queue'[j].ev.seq
    <3>1. i \in DOMAIN queue
      BY <2>2, <2>7
    <3>2. Hosted(i) /\ queue'[i] = queue[i]
      BY <2>2, <2>3, <2>7, <3>1
    <3>3. CASE j \in DOMAIN queue
      BY <2>2, <2>3, <2>5, <2>7, <3>1, <3>2, <3>3
    <3>4. CASE j = n + 1
      <4>1. Host(m) /\ queue'[j] = m
        BY <2>2, <2>3, <2>7, <3>4
      <4> QED BY <3>1, <3>2, <4>1 DEF Waits
    <3> QED BY <2>6, <3>3, <3>4
  <2>8. ASSUME NEW i \in DOMAIN queue', Hosted(i)'
        PROVE  After(queue[i].ev.seq)'
    <3>1. CASE i \in DOMAIN queue
      <4>1. queue'[i] = queue[i] /\ Hosted(i)
        BY <2>2, <2>3, <2>8, <3>1
      <4>2. \A a \in SpentBy(AllRows)' : a < queue[i].ev.seq
        BY <2>4, <2>5, <3>1, <4>1
      <4> QED BY <4>1, <4>2 DEF After
    <3>2. CASE i = n + 1
      <4>1. queue'[i] = m /\ Host(m)
        BY <2>2, <2>3, <2>8, <3>2
      <4>2. \A a \in SpentBy(AllRows)' : a < m.ev.seq
        BY <2>4, <4>1
      <4> QED BY <4>1, <4>2 DEF After
    <3> QED BY <2>6, <3>1, <3>2
  <2>9. rpc' = "store" => After(hand.seq)' /\ Waits(hand.seq)'
    <3> SUFFICES ASSUME rpc' = "store" PROVE After(hand.seq)' /\ Waits(hand.seq)'
      OBVIOUS
    <3>1. hand' = hand /\ After(hand.seq) /\ Waits(hand.seq) /\ ~Host(m)
      BY <2>5
    <3>2. \A a \in SpentBy(AllRows)' : a < hand.seq
      BY <2>4, <3>1
    <3>3. ASSUME NEW i \in DOMAIN queue', Hosted(i)' PROVE queue'[i].ev.seq < hand.seq
      <4>1. i \in DOMAIN queue
        BY <2>2, <2>3, <2>6, <3>1, <3>3
      <4>2. queue'[i] = queue[i] /\ Hosted(i)
        BY <2>2, <2>3, <3>3, <4>1
      <4> QED BY <3>1, <4>1, <4>2 DEF Waits
    <3> QED BY <3>1, <3>2, <3>3 DEF After, Waits
  <2>10. After(nextSeq)'
    BY <1>1, <2>5 DEF After
  <2> QED BY <1>2, <2>7, <2>8, <2>9, <2>10 DEF OrderInv
<1> QED BY <1>3, <1>4

(* Each step keeps the order of what the rows used, what waits and what    *)
(* the reader holds.                                                       *)
LEMMA OrderStep == TypeOK /\ SeqInv /\ OrderInv /\ [Next]_vars => OrderInv'
<1> SUFFICES ASSUME TypeOK, SeqInv, OrderInv, [Next]_vars PROVE OrderInv'
  OBVIOUS
<1> USE DEF readerVars, mainVars
<1>0. nextSeq \in Nat /\ (MainHolds => mine.kind \notin Steered)
  BY DEF TypeOK, OrderInv
<1>1. CASE WriterEvent
  <2>1. Receive("event") /\ Push(Head(queue).ev) /\ UNCHANGED <<db, nextSeq, rpc, hand, proc, mine>>
    BY <1>1 DEF WriterEvent, diskVars
  <2>2. Head(queue).ev \in Event /\ Head(queue).msg = "event"
    BY <2>1, ReceiveType DEF Receive
  <2>3. queue[1] = Head(queue)
    BY <2>1 DEF Receive, TypeOK
  <2>4. SpentBy(AllRows)' \subseteq SpentBy(AllRows)
          \cup (IF Hosted(1) THEN {queue[1].ev.seq} ELSE {})
    BY <2>1, <2>2, <2>3, PushSpends DEF Hosted
  <2> QED BY <2>1, <2>4, ReceiveOrder
<1>2. ASSUME NEW kind, Receive(kind), Commit, UNCHANGED <<nextSeq, rpc, hand, proc, mine>>
      PROVE  OrderInv'
  <2>1. SpentBy(AllRows)' \subseteq SpentBy(AllRows)
    BY <1>2, CommitRows, KeepSpends
  <2> QED BY <1>2, <2>1, ReceiveOrder
<1>3. CASE WriterFlush
  BY <1>2, <1>3 DEF WriterFlush
<1>4. CASE WriterClose
  BY <1>2, <1>4 DEF WriterClose
<1>5. ASSUME AllRows' \subseteq AllRows,
             UNCHANGED <<queue, nextSeq, rpc, hand, proc, mine>>
      PROVE  OrderInv'
  BY <1>0, <1>5, KeepSpends, QuietOrder DEF MainHolds
<1>6. CASE WriterTimeout
  BY <1>5, <1>6, CommitRows DEF WriterTimeout
<1>7. CASE Prune
  BY <1>5, <1>7, PruneRows DEF Prune
<1>8. ASSUME UNCHANGED <<writerVars, diskVars>>
      PROVE  AllRows' = AllRows /\ SpentBy(AllRows)' = SpentBy(AllRows)
  BY <1>8 DEF writerVars, diskVars, AllRows, SpentBy, Span
<1>9. ASSUME NEW shape \in Shapes, ReadLine(shape) PROVE OrderInv'
  <2>1. /\ hand'.seq = nextSeq /\ nextSeq' = nextSeq + 1 /\ rpc' = "store"
        /\ UNCHANGED <<queue, proc, mine, writerVars, diskVars>>
    BY <1>9 DEF ReadLine, MakeEvent
  <2>2. After(nextSeq) /\ SpentBy(AllRows)' = SpentBy(AllRows)
    BY <1>8, <2>1 DEF OrderInv
  <2>3. SpentBy(AllRows) \subseteq Nat
    BY SpentNat DEF AllRows, TypeOK
  <2>4. After(nextSeq)'
    <3>1. \A a \in SpentBy(AllRows)' : a < nextSeq + 1
      BY <1>0, <2>2, <2>3 DEF After
    <3> QED BY <2>1, <3>1 DEF After
  <2>5. After(hand.seq)'
    BY <2>1, <2>2 DEF After
  <2>6. \A i \in DOMAIN queue' : Hosted(i)' => queue'[i].ev.seq < nextSeq
    BY <2>1, QueueSeqs DEF Hosted
  <2>7. Waits(hand.seq)'
    BY <2>1, <2>6 DEF Waits
  <2>8. MainHolds' => mine'.kind \notin Steered
    BY <1>0, <2>1 DEF MainHolds
  <2>9. \A i \in DOMAIN queue' : Hosted(i)' => After(queue[i].ev.seq)'
    BY <2>1, <2>2 DEF OrderInv, After, Hosted
  <2>10. \A i, j \in DOMAIN queue' :
           i < j /\ Hosted(i)' /\ Hosted(j)' => queue'[i].ev.seq < queue'[j].ev.seq
    BY <2>1 DEF OrderInv, Hosted
  <2> QED BY <2>4, <2>5, <2>7, <2>8, <2>9, <2>10 DEF OrderInv
<1>10. CASE QueueForStore
  <2> DEFINE m == [msg |-> "event", ev |-> hand]
  <2>1. rpc = "store" /\ rpc' = "loop" /\ SendEvent(hand) /\ hand \in Event
        /\ UNCHANGED <<nextSeq, proc, mine, writerVars, diskVars>>
    BY <1>10 DEF QueueForStore, TypeOK
  <2>2. After(hand.seq) /\ Waits(hand.seq)
    BY <2>1 DEF OrderInv
  <2>3. m \in [msg: {"event"}, ev: Event] /\ m.ev = hand /\ Send(m)
    BY <2>1 DEF SendEvent
  <2> HIDE DEF m
  <2> QED BY <2>1, <2>2, <2>3, SendOrder
<1>11. ASSUME MainHolds, SendEvent(mine), ~MainHolds',
              UNCHANGED <<nextSeq, readerVars, writerVars, diskVars>>
       PROVE  OrderInv'
  <2> DEFINE m == [msg |-> "event", ev |-> mine]
  <2>1. mine \in Event /\ mine.kind \notin Steered
    BY <1>0, <1>11 DEF TypeOK, MainHolds
  <2>2. m \in [msg: {"event"}, ev: Event] /\ m.ev = mine /\ Send(m)
    BY <1>11, <2>1 DEF SendEvent
  <2> HIDE DEF m
  <2> QED BY <1>11, <2>1, <2>2, SendOrder
<1>12. CASE BootSend
  BY <1>11, <1>12 DEF BootSend, MainHolds
<1>13. CASE ExitSend
  BY <1>11, <1>13 DEF ExitSend, MainHolds
<1>14. ASSUME NEW m \in [msg: {"flush"}, n: Nat] \cup [msg: {"close"}], Send(m), ~MainHolds',
              UNCHANGED <<nextSeq, readerVars, writerVars, diskVars>>
       PROVE  OrderInv'
  <2>1. m.msg # "event"
    BY <1>14
  <2> QED BY <1>14, <2>1, SendOrder
<1>15. CASE RequestFlush
  <2>1. [msg |-> "flush", n |-> Len(asked) + 1] \in [msg: {"flush"}, n: Nat]
    BY DEF TypeOK
  <2> QED BY <1>14, <1>15, <2>1 DEF RequestFlush, MainHolds
<1>16. CASE ExitClose
  <2>1. [msg |-> "close"] \in [msg: {"close"}]
    OBVIOUS
  <2> QED BY <1>14, <1>16, <2>1 DEF ExitClose, MainHolds
<1>17. ASSUME proc' \in {"bootSend", "exitSend"}, mine'.kind \notin Steered,
              nextSeq' = nextSeq + 1,
              UNCHANGED <<queue, readerVars, writerVars, diskVars>>
       PROVE  OrderInv'
  BY <1>0, <1>8, <1>17, QuietOrder
<1>18. CASE Boot
  <2>1. mine'.kind = "started" /\ "started" \notin Steered
    BY <1>18 DEF Boot, OwnEvent, Steered, Deltas, StreamDeltas, ToolDeltas, Deduped, Registrations
  <2> QED BY <1>17, <1>18, <2>1 DEF Boot
<1>19. CASE ExitBegin
  <2>1. mine'.kind = "ended" /\ "ended" \notin Steered
    BY <1>19 DEF ExitBegin, OwnEvent, Steered, Deltas, StreamDeltas, ToolDeltas, Deduped, Registrations
  <2> QED BY <1>17, <1>19, <2>1 DEF ExitBegin
<1>20. ASSUME nextSeq' >= nextSeq, nextSeq' \in Nat,
              rpc' # "store" \/ UNCHANGED <<rpc, hand>>, ~MainHolds' \/ UNCHANGED <<proc, mine>>,
              UNCHANGED <<queue, writerVars, diskVars>>
       PROVE  OrderInv'
  <2>1. MainHolds' => mine'.kind \notin Steered
    BY <1>0, <1>20 DEF MainHolds
  <2> QED BY <1>8, <1>20, <2>1, QuietOrder
<1>21. CASE HandToLoop \/ Apply \/ Outbound \/ FlushReturns \/ ExitDone
  BY <1>0, <1>20, <1>21 DEF HandToLoop, Apply, Outbound, FlushReturns, ExitDone, MainHolds
<1>22. CASE UNCHANGED vars
  BY <1>0, <1>20, <1>22 DEF vars
<1> QED
  BY <1>1, <1>3, <1>4, <1>6, <1>7, <1>9, <1>10, <1>12, <1>13, <1>15, <1>16, <1>18, <1>19,
     <1>21, <1>22
  DEF Next, Writer, Reader, Main

-----------------------------------------------------------------------------
(* The text.                                                               *)

(* The row of a single event holds that event's text.                      *)
LEMMA RowOfText ==
  ASSUME NEW ev \in Event
  PROVE  /\ TextFrom(RowOf(ev)) /\ RowOf(ev) \in Row
         /\ PiecesOf(RowOf(ev).text) = {ev.seq}
         /\ RowOf(ev).seq = ev.seq /\ RowOf(ev).kind = ev.kind
         /\ RowOf(ev).ref = ev.ref /\ RowOf(ev).old = ev.old
<1>1. ev.size \in Nat \ {0} /\ ev.seq \in Nat
  BY DEF Event
<1>2. Piece(ev) \in Seq(Nat) /\ PiecesOf(Piece(ev)) = {ev.seq}
  BY PieceText
<1>3. DOMAIN Piece(ev) = 1..ev.size /\ \A i \in 1..ev.size : Piece(ev)[i] = ev.seq
  BY <1>1 DEF Piece
<1>4. Piece(ev) # <<>>
  BY <1>1, <1>3
<1>5. Rising(Piece(ev))
  BY <1>1, <1>3 DEF Rising
<1>6. RowOf(ev).text = Piece(ev) /\ RowOf(ev).seq = ev.seq
  BY DEF RowOf
<1>7. TextFrom(RowOf(ev))
  BY <1>1, <1>2, <1>4, <1>5, <1>6 DEF TextFrom
<1> QED BY <1>2, <1>6, <1>7, RowOfEvent DEF RowOf

(* Rows that only move or go keep what is true of them.                    *)
LEMMA RowsKept ==
  ASSUME RowsInv, pending' \subseteq pending, AllRows' \subseteq AllRows
  PROVE  RowsInv'
<1>1. \A r \in AllRows' : TextFrom(r)
  BY DEF RowsInv
<1>2. \A r \in pending' : r.kind \in Deltas
  BY DEF RowsInv
<1>3. \A r \in pending', q \in AllRows' : SameKey(r, q) => q.seq <= r.seq
  BY DEF RowsInv
<1>4. \A r, q \in AllRows' :
        r.kind \in Deltas /\ SameKey(r, q) /\ r.seq < q.seq => EndsBefore(r, q)
  BY DEF RowsInv
<1> QED
  BY <1>1, <1>2, <1>3, <1>4 DEF RowsInv, TextFrom, SameKey, EndsBefore, Rising, PiecesOf

(* A delta joins its run at the end, where it belongs.                     *)
LEMMA GrowRows ==
  ASSUME TypeOK, RowsInv, NEW ev \in Event, ev.kind \in Deltas, After(ev.seq),
         \E r \in pending : SameKey(r, ev),
         pending' = {IF SameKey(r, ev) THEN Grown(r, ev) ELSE r : r \in pending},
         UNCHANGED <<batch, db>>
  PROVE  RowsInv'
<1> DEFINE From(x, o) == /\ o \in AllRows /\ o \in Row
                         /\ x.seq = o.seq /\ x.kind = o.kind /\ x.ref = o.ref
                         /\ x = o \/ (o \in pending /\ SameKey(o, ev) /\ x = Grown(o, ev))
<1>1. AllRows \subseteq Row /\ pending \subseteq AllRows /\ ev.kind \in Steered /\ ev.seq \in Nat
  BY DEF TypeOK, AllRows, Steered, Event
<1>2. ASSUME NEW x \in pending'
      PROVE  \E o \in pending : From(x, o)
  <2>1. PICK o \in pending : x = IF SameKey(o, ev) THEN Grown(o, ev) ELSE o
    OBVIOUS
  <2>2. o \in Row
    BY <1>1
  <2>3. /\ Grown(o, ev).seq = o.seq /\ Grown(o, ev).kind = o.kind /\ Grown(o, ev).ref = o.ref
    BY <2>2, GrownRow
  <2> QED BY <1>1, <2>1, <2>2, <2>3
<1>3. ASSUME NEW x \in AllRows'
      PROVE  \E o \in AllRows : From(x, o)
  <2>1. CASE x \in pending'
    BY <1>1, <1>2, <2>1
  <2>2. CASE x \in batch \cup db
    BY <1>1, <2>2 DEF AllRows
  <2> QED BY <2>1, <2>2 DEF AllRows
<1>4. ASSUME NEW o \in AllRows, SameKey(o, ev)
      PROVE  o.seq < ev.seq /\ o.seq \in Nat /\ \A a \in PiecesOf(o.text) : a < ev.seq
  <2>1. o.kind \in Steered /\ Span(o) \subseteq SpentBy(AllRows)
    BY <1>1, <1>4 DEF SameKey, SpentBy
  <2> QED BY <1>1, <2>1 DEF After, Span, Row
<1> HIDE DEF From
<1>5. ASSUME NEW x \in AllRows' PROVE TextFrom(x)
  <2>1. PICK o \in AllRows : From(x, o)
    BY <1>3
  <2>2. TextFrom(o)
    BY DEF RowsInv
  <2>3. CASE x = o
    BY <2>2, <2>3
  <2>4. CASE SameKey(o, ev) /\ x = Grown(o, ev)
    <3>1. o \in Row
      BY <1>1
    <3>2. /\ x.seq = o.seq /\ x.text # <<>>
          /\ PiecesOf(x.text) \subseteq PiecesOf(o.text) \cup {ev.seq}
          /\ Rising(x.text)
      BY <1>4, <2>2, <2>4, <3>1, GrownRow DEF TextFrom
    <3>3. ASSUME NEW a \in PiecesOf(x.text) PROVE x.seq <= a
      <4>1. CASE a \in PiecesOf(o.text)
        BY <2>2, <3>2, <4>1 DEF TextFrom
      <4>2. CASE a = ev.seq
        BY <1>1, <1>4, <2>4, <3>2, <4>2
      <4> QED BY <3>2, <4>1, <4>2
    <3> QED BY <3>2, <3>3 DEF TextFrom
  <2> QED BY <2>1, <2>3, <2>4 DEF From
<1>6. ASSUME NEW x \in pending' PROVE x.kind \in Deltas
  BY <1>2 DEF From, RowsInv
<1>7. ASSUME NEW x \in pending', NEW y \in AllRows', SameKey(x, y) PROVE y.seq <= x.seq
  <2>1. PICK o \in pending : From(x, o)
    BY <1>2
  <2>2. PICK p \in AllRows : From(y, p)
    BY <1>3
  <2>3. SameKey(o, p)
    BY <1>7, <2>1, <2>2 DEF From, SameKey
  <2>4. p.seq <= o.seq
    BY <2>3 DEF RowsInv
  <2> QED BY <2>1, <2>2, <2>4 DEF From
<1>8. ASSUME NEW x \in AllRows', NEW y \in AllRows',
             x.kind \in Deltas, SameKey(x, y), x.seq < y.seq
      PROVE  EndsBefore(x, y)
  <2>1. PICK o \in AllRows : From(x, o)
    BY <1>3
  <2>2. PICK p \in AllRows : From(y, p)
    BY <1>3
  <2>3. SameKey(o, p) /\ o.kind \in Deltas /\ o.seq < p.seq
    BY <1>8, <2>1, <2>2 DEF From, SameKey
  <2>4. EndsBefore(o, p)
    BY <2>3 DEF RowsInv
  <2>5. CASE x = o
    BY <2>2, <2>4, <2>5 DEF From, EndsBefore
  <2>6. CASE o \in pending
    <3>1. p.seq <= o.seq
      BY <2>3, <2>6 DEF RowsInv
    <3>2. p.seq \in Nat /\ o.seq \in Nat
      BY <1>1 DEF Row
    <3> QED BY <2>3, <3>1, <3>2
  <2> QED BY <2>1, <2>5, <2>6 DEF From
<1> QED
  BY <1>5, <1>6, <1>7, <1>8 DEF RowsInv, TextFrom, SameKey, EndsBefore, Rising, PiecesOf

(* A new row of an event: the latest of its key if only a host sends it.   *)
LEMMA NewRow ==
  ASSUME TypeOK, RowsInv, NEW ev \in Event, ev.kind \in Deltas => After(ev.seq),
         AllRows' \subseteq AllRows \cup {RowOf(ev)},
         \/ pending' \subseteq pending /\ ev.kind \notin Deltas
         \/ /\ pending' \subseteq pending \cup {RowOf(ev)} /\ ev.kind \in Deltas
            /\ ~ \E r \in pending : SameKey(r, ev)
  PROVE  RowsInv'
<1> DEFINE new == RowOf(ev)
<1>1. /\ TextFrom(new) /\ PiecesOf(new.text) = {ev.seq}
      /\ new.seq = ev.seq /\ new.kind = ev.kind /\ new.ref = ev.ref /\ ev.seq \in Nat
  BY RowOfText DEF Event
<1>2. AllRows \subseteq Row /\ pending \subseteq AllRows
  BY DEF TypeOK, AllRows
<1> HIDE DEF new
<1>3. ASSUME NEW o \in AllRows, SameKey(o, ev), ev.kind \in Deltas
      PROVE  o.seq < ev.seq /\ o.seq \in Nat /\ \A a \in PiecesOf(o.text) : a < ev.seq
  <2>1. o.kind \in Steered /\ Span(o) \subseteq SpentBy(AllRows)
    BY <1>3 DEF SameKey, SpentBy, Steered
  <2> QED BY <1>2, <1>3, <2>1 DEF After, Span, Row
<1>4. \A x \in AllRows' : x \in AllRows \/ x = new
  BY DEF new
<1>5. \A x \in pending' : x \in pending \/ (x = new /\ ev.kind \in Deltas)
  BY DEF new
<1>6. ASSUME NEW x \in AllRows' PROVE TextFrom(x)
  BY <1>1, <1>4 DEF RowsInv
<1>7. ASSUME NEW x \in pending' PROVE x.kind \in Deltas
  BY <1>1, <1>5 DEF RowsInv
<1>8. ASSUME NEW x \in pending', NEW y \in AllRows', SameKey(x, y) PROVE y.seq <= x.seq
  <2>1. CASE x \in pending /\ y \in AllRows
    BY <1>8, <2>1 DEF RowsInv
  <2>2. CASE x \in pending /\ y = new
    <3>1. SameKey(x, ev) /\ x.kind \in Deltas
      BY <1>1, <1>8, <2>2 DEF SameKey, RowsInv
    <3> QED BY <2>2, <3>1 DEF SameKey
  <2>3. CASE x = new /\ ev.kind \in Deltas /\ y \in AllRows
    <3>1. SameKey(y, ev)
      BY <1>1, <1>8, <2>3 DEF SameKey
    <3> QED BY <1>1, <1>3, <2>3, <3>1
  <2>4. CASE x = new /\ y = new
    BY <1>1, <2>4
  <2> QED BY <1>4, <1>5, <2>1, <2>2, <2>3, <2>4
<1>9. ASSUME NEW x \in AllRows', NEW y \in AllRows',
             x.kind \in Deltas, SameKey(x, y), x.seq < y.seq
      PROVE  EndsBefore(x, y)
  <2>1. CASE x \in AllRows /\ y \in AllRows
    BY <1>9, <2>1 DEF RowsInv
  <2>2. CASE x \in AllRows /\ y = new
    <3>1. SameKey(x, ev) /\ ev.kind \in Deltas
      BY <1>1, <1>9, <2>2 DEF SameKey
    <3> QED BY <1>1, <1>3, <2>2, <3>1 DEF EndsBefore
  <2>3. CASE x = new /\ y \in AllRows
    <3>1. SameKey(y, ev) /\ ev.kind \in Deltas
      BY <1>1, <1>9, <2>3 DEF SameKey
    <3> QED BY <1>1, <1>3, <1>9, <2>3, <3>1
  <2>4. CASE x = new /\ y = new
    BY <1>1, <1>9, <2>4
  <2> QED BY <1>4, <2>1, <2>2, <2>3, <2>4
<1> QED
  BY <1>6, <1>7, <1>8, <1>9 DEF RowsInv, TextFrom, SameKey, EndsBefore, Rising, PiecesOf

(* However an event is pushed, the rows keep their text in order.          *)
LEMMA PushRows ==
  ASSUME TypeOK, RowsInv, NEW ev \in Event, Push(ev), UNCHANGED db,
         ev.kind \in Deltas => After(ev.seq)
  PROVE  RowsInv'
<1>1. CASE ev.kind \in Deltas
  <2>1. pending' = append(pending, ev) /\ batch' = batch
    BY <1>1 DEF Push, Deltas, StreamDeltas, ToolDeltas, Ends, NeverSaved, Deduped,
                Registrations
  <2>2. pending \in SUBSET Row
    BY DEF TypeOK
  <2>3. CASE /\ \E r \in pending : SameKey(r, ev)
             /\ append(pending, ev)
                  = {IF SameKey(r, ev) THEN Grown(r, ev) ELSE r : r \in pending}
    BY <1>1, <2>1, <2>3, GrowRows
  <2>4. CASE /\ ~ \E r \in pending : SameKey(r, ev)
             /\ append(pending, ev) = pending \cup {RowOf(ev)}
    <3>1. AllRows' \subseteq AllRows \cup {RowOf(ev)}
      BY <2>1, <2>4 DEF AllRows
    <3> QED BY <1>1, <2>1, <2>4, <3>1, NewRow
  <2> QED BY <2>2, <2>3, <2>4, AppendIs
<1>2. CASE ev.kind \notin Deltas
  <2>1. AllRows' \subseteq AllRows \cup {RowOf(ev)} /\ pending' \subseteq pending
    BY <1>2 DEF Push, AllRows, take
  <2> QED BY <1>2, <2>1, NewRow
<1> QED BY <1>1, <1>2

(* Each step keeps every row's text in order and after the earlier rows.   *)
LEMMA RowsStep == TypeOK /\ OrderInv /\ RowsInv /\ [Next]_vars => RowsInv'
<1> SUFFICES ASSUME TypeOK, OrderInv, RowsInv, [Next]_vars PROVE RowsInv'
  OBVIOUS
<1>1. CASE WriterEvent
  <2>1. Receive("event") /\ Push(Head(queue).ev) /\ UNCHANGED db
    BY <1>1 DEF WriterEvent, diskVars
  <2>2. Head(queue).ev \in Event /\ Head(queue).msg = "event"
    BY <2>1, ReceiveType DEF Receive
  <2>3. queue[1] = Head(queue) /\ 1 \in DOMAIN queue
    BY <2>1 DEF Receive, TypeOK
  <2>4. Head(queue).ev.kind \in Deltas => After(Head(queue).ev.seq)
    <3>1. Head(queue).ev.kind \in Deltas => Hosted(1)
      BY <2>2, <2>3 DEF Hosted, Steered
    <3> QED BY <2>3, <3>1 DEF OrderInv
  <2> QED BY <2>1, <2>2, <2>4, PushRows
<1>2. ASSUME Commit PROVE RowsInv'
  BY <1>2, CommitRows, RowsKept
<1>3. CASE Prune
  BY <1>3, PruneRows, RowsKept
<1>4. ASSUME UNCHANGED <<writerVars, diskVars>>
      PROVE  RowsInv'
  BY <1>4, RowsKept DEF writerVars, diskVars, AllRows
<1> QED
  BY <1>1, <1>2, <1>3, <1>4
  DEF Next, Writer, Reader, Main, WriterFlush, WriterTimeout, WriterClose, ReadLine,
      QueueForStore, HandToLoop, Boot, BootSend, Apply, Outbound, RequestFlush,
      FlushReturns, ExitBegin, ExitSend, ExitClose, ExitDone, vars

-----------------------------------------------------------------------------
(* The newest payload.                                                     *)

(* Whether a row is the newest of its type depends on that type's rows.    *)
LEMMA NewestSame ==
  ASSUME NEW k, NEW ref, NEW A, NEW B, Newest(k, ref, A),
         \A r : r.kind = k => (r \in A <=> r \in B)
  PROVE  Newest(k, ref, B)
BY DEF Newest

(* A delta's run is of a delta's type, so growing or starting one changes  *)
(* no row of another.                                                      *)
LEMMA AppendOthers ==
  ASSUME NEW p \in SUBSET Row, NEW ev \in Event, ev.kind \in Deltas,
         NEW r \in append(p, ev), r.kind \notin Deltas
  PROVE  r \in p
<1>1. CASE r = RowOf(ev)
  BY <1>1, RowOfText
<1>2. ASSUME NEW o \in p, SameKey(o, ev), r = Grown(o, ev) PROVE FALSE
  <2>1. o \in Row
    OBVIOUS
  <2>2. r.kind = o.kind
    BY <1>2, <2>1, GrownRow
  <2> QED BY <1>2, <2>2 DEF SameKey
<1> QED BY <1>1, <1>2, AppendIs

(* A pushed event: the newest of its type, or no news.                     *)
LEMMA PushLatest ==
  ASSUME TypeOK, RowsInv, LatestInv, NEW ev \in Event, ev \in sent, Push(ev),
         ev.kind \in Steered => After(ev.seq), wpc' = "gather",
         queue' = Tail(queue), queue # <<>>,
         UNCHANGED <<db, sent, lost, pruned>>
  PROVE  LatestInv'
<1>0. /\ Deltas \cap Deduped = {} /\ Ends \cap Deduped = {}
      /\ {"other", "started", "ended"} \cap Deduped = {}
  BY DEF Deltas, StreamDeltas, ToolDeltas, Deduped, Registrations, Ends
<1>1. \A i \in DOMAIN queue' : queue'[i].msg = "event" => queue'[i].ev \in sent'
  <2>1. \A i \in DOMAIN queue' : i + 1 \in DOMAIN queue /\ queue'[i] = queue[i + 1]
    BY DEF TypeOK
  <2> QED BY <2>1 DEF LatestInv
<1>2. /\ TextFrom(RowOf(ev)) /\ PiecesOf(RowOf(ev).text) = {ev.seq}
      /\ RowOf(ev).seq = ev.seq /\ RowOf(ev).kind = ev.kind
      /\ RowOf(ev).ref = ev.ref /\ RowOf(ev).old = ev.old /\ ev.seq \in Nat
  BY RowOfText DEF Event
<1>3. \A r \in AllRows' : r.kind \in Deduped => r \in AllRows \/ r = RowOf(ev)
  <2>1. CASE ev.kind \in Deltas
    <3>1. pending' = append(pending, ev) /\ batch' = batch
      BY <2>1 DEF Push, Deltas, StreamDeltas, ToolDeltas, Ends, NeverSaved, Deduped,
                  Registrations
    <3>2. \A r \in pending' : r.kind \in Deduped => r \in pending
      BY <1>0, <2>1, <3>1, AppendOthers DEF TypeOK
    <3> QED BY <3>1, <3>2 DEF AllRows
  <2>2. CASE ev.kind \notin Deltas
    BY <2>2 DEF Push, AllRows, take
  <2> QED BY <2>1, <2>2
<1>4. Sent(RowOf(ev))
  BY <1>2 DEF Sent, SameKey
<1>5. ASSUME NEW r \in AllRows', r.kind \in Deduped
      PROVE  Sent(r)
  BY <1>3, <1>4, <1>5 DEF LatestInv
<1>6. ASSUME lost = {}, NEW k \in Deduped, last'[k] # None
      PROVE  Newest(k, last'[k], db' \cup batch') \/ Gone(k, last'[k])
  <2> DEFINE A == db \cup batch
             B == db' \cup batch'
  <2>1. CASE last' = last /\ \A r : r.kind = k => (r \in A <=> r \in B)
    <3>1. Newest(k, last[k], A) \/ Gone(k, last[k])
      BY <1>6, <2>1 DEF LatestInv, LatestKept
    <3> HIDE DEF A, B
    <3>2. Newest(k, last[k], A) => Newest(k, last[k], B)
      BY <2>1, NewestSame
    <3> QED BY <2>1, <3>1, <3>2 DEF B
  <2>2. CASE ev.kind \in Deltas \cup NeverSaved
    <3>1. last' = last /\ batch' = batch
      BY <2>2 DEF Push, Deltas, StreamDeltas, ToolDeltas, Ends, NeverSaved, Deduped,
                  Registrations
    <3> QED BY <2>1, <3>1
  <2>3. CASE ev.kind \in Ends
    <3>1. last' = last /\ batch' = batch \cup take(pending, ev) \cup {RowOf(ev)}
      BY <2>3 DEF Push, Deltas, StreamDeltas, ToolDeltas, Ends, NeverSaved, Deduped,
                  Registrations
    <3>2. \A r \in take(pending, ev) : r.kind # k
      BY <1>0 DEF take, RowsInv
    <3>3. RowOf(ev).kind # k
      BY <1>0, <1>2, <2>3
    <3> QED BY <2>1, <3>1, <3>2, <3>3
  <2>4. CASE ev.kind \in {"other", "started", "ended"}
    <3>1. last' = last /\ batch' = batch \cup {RowOf(ev)}
      BY <2>4 DEF Push, Deltas, StreamDeltas, ToolDeltas, Ends, NeverSaved, Deduped,
                  Registrations
    <3>2. RowOf(ev).kind # k
      BY <1>0, <1>2, <2>4
    <3> QED BY <2>1, <3>1, <3>2
  <2>5. CASE ev.kind \in Deduped /\ last' = last /\ batch' = batch
    BY <2>1, <2>5
  <2>6. CASE /\ ev.kind \in Deduped /\ last' = [last EXCEPT ![ev.kind] = ev.ref]
             /\ batch' = batch \cup {RowOf(ev)}
    <3>1. CASE k # ev.kind
      <4>1. last'[k] = last[k] /\ RowOf(ev).kind # k
        BY <1>2, <2>6, <3>1 DEF TypeOK
      <4>2. Newest(k, last[k], A) \/ Gone(k, last[k])
        BY <1>6, <4>1 DEF LatestInv, LatestKept
      <4>3. \A r : r.kind = k => (r \in A <=> r \in B)
        BY <2>6, <4>1
      <4> HIDE DEF A, B
      <4>4. Newest(k, last[k], A) => Newest(k, last[k], B)
        BY <4>3, NewestSame
      <4> QED BY <4>1, <4>2, <4>4 DEF B
    <3>2. CASE k = ev.kind
      <4>1. last'[k] = ev.ref
        BY <2>6, <3>2 DEF TypeOK
      <4>2. ASSUME NEW q \in A, q.kind = k PROVE q.seq <= ev.seq
        <5>1. q \in AllRows /\ q.kind \in Steered /\ ev.kind \in Steered
          BY <3>2, <4>2 DEF AllRows, Steered
        <5>2. q.seq \in SpentBy(AllRows) /\ q.seq \in Nat
          BY <5>1 DEF SpentBy, Span, TypeOK, AllRows, Row
        <5> QED BY <1>2, <5>1, <5>2 DEF After
      <4>3. RowOf(ev) \in B /\ \A q \in B : q.kind = k => q.seq <= RowOf(ev).seq
        <5>1. B = A \cup {RowOf(ev)}
          BY <2>6
        <5> HIDE DEF A, B
        <5> QED BY <1>2, <4>2, <5>1
      <4> QED BY <1>2, <3>2, <4>1, <4>3 DEF Newest
    <3> QED BY <3>1, <3>2
  <2> QED BY <2>2, <2>3, <2>4, <2>5, <2>6 DEF Push
<1>7. \A r \in AllRows' : r.kind \in Deduped => Sent(r)'
  BY <1>5 DEF Sent, SameKey, PiecesOf
<1>8. lost' = {} => \A k \in Deduped : LatestKept(k)'
  BY <1>6 DEF Gone, LatestKept, Newest
<1> QED BY <1>1, <1>7, <1>8 DEF LatestInv, Newest

(* A commit puts the runs with the rest on disk, and no run is of a        *)
(* deduplicated type; a transaction that is refused was not empty.         *)
LEMMA CommitLatest ==
  ASSUME TypeOK, RowsInv, LatestInv, Commit, UNCHANGED <<last, sent, pruned>>,
         \A i \in DOMAIN queue' : queue'[i].msg = "event" => queue'[i].ev \in sent
  PROVE  LatestInv'
<1> DEFINE rows == batch \cup pending
<1>1. AllRows' \subseteq AllRows /\ pending' = {} /\ batch' = {}
  BY CommitRows
<1>2. \A r \in AllRows' : r.kind \in Deduped => Sent(r)'
  BY <1>1 DEF LatestInv, Sent, SameKey, PiecesOf
<1>3. ASSUME lost' = {}, NEW k \in Deduped, last[k] # None
      PROVE  Newest(k, last[k], db') \/ Gone(k, last[k])
  <2>1. lost = {} /\ (db' = db \cup rows \/ (db' = db /\ Contents(rows) = {}))
    BY <1>3 DEF Commit
  <2>2. Newest(k, last[k], db \cup batch) \/ Gone(k, last[k])
    BY <1>3, <2>1 DEF LatestInv, LatestKept
  <2>3. CASE db' = db \cup rows
    <3>1. \A r \in pending : r.kind # k
      BY DEF RowsInv, Deltas, StreamDeltas, ToolDeltas, Deduped, Registrations
    <3>2. \A r : r.kind = k => (r \in db \cup batch <=> r \in db')
      BY <2>3, <3>1
    <3>3. Newest(k, last[k], db \cup batch) => Newest(k, last[k], db')
      BY <3>2 DEF Newest
    <3> QED BY <2>2, <3>3
  <2>4. CASE db' = db /\ Contents(rows) = {}
    <3>1. ASSUME NEW r \in batch PROVE FALSE
      <4>1. r.text # <<>> /\ r.text \in Seq(Nat)
        BY DEF RowsInv, AllRows, TextFrom, TypeOK, Row
      <4>2. r.text[1] \in PiecesOf(r.text)
        BY <4>1 DEF PiecesOf
      <4>3. r.text[1] \in Contents(rows)
        BY <4>2 DEF Contents
      <4> QED BY <2>4, <4>3
    <3>2. db \cup batch = db'
      BY <2>4, <3>1
    <3> QED BY <2>2, <3>2
  <2> QED BY <2>1, <2>3, <2>4
<1>4. db' \cup batch' = db'
  BY <1>1
<1>5. lost' = {} => \A k \in Deduped : LatestKept(k)'
  BY <1>3, <1>4 DEF Gone, LatestKept, Newest
<1> QED BY <1>1, <1>2, <1>5 DEF LatestInv, Newest

(* Housekeeping deletes the whole session only when every row of it is     *)
(* old, and of a registration never the newest row.                        *)
LEMMA PruneLatest ==
  ASSUME TypeOK, LatestInv, Prune
  PROVE  LatestInv'
<1>1. /\ db' = Kept /\ pruned' = pruned \cup (Contents(db) \ Contents(Kept))
      /\ UNCHANGED <<queue, sent, wpc, pending, last, batch, lost>>
  BY DEF Prune, writerVars
<1>2. AllRows' \subseteq AllRows
  BY PruneRows
<1>3. \A r \in AllRows' : r.kind \in Deduped => Sent(r)'
  BY <1>1, <1>2 DEF LatestInv, Sent, SameKey, PiecesOf
<1>4. ASSUME lost = {}, NEW k \in Deduped, last[k] # None
      PROVE  Newest(k, last[k], db' \cup batch) \/ Gone(k, last[k])'
  <2>1. Newest(k, last[k], db \cup batch) \/ Gone(k, last[k])
    BY <1>4 DEF LatestInv, LatestKept
  <2>2. CASE Gone(k, last[k])
    BY <1>1, <2>2 DEF Gone
  <2>3. CASE Newest(k, last[k], db \cup batch)
    <3>1. PICK r \in db \cup batch : /\ r.kind = k /\ r.ref = last[k]
                                     /\ \A q \in db \cup batch : q.kind = k => q.seq <= r.seq
      BY <2>3 DEF Newest
    <3>2. CASE r \in batch
      <4>1. r \in db' \cup batch /\ \A q \in db' \cup batch : q.kind = k => q.seq <= r.seq
        BY <1>1, <3>1, <3>2 DEF Kept
      <4> QED BY <3>1, <4>1 DEF Newest
    <3>3. CASE r \in db /\ \A q \in db : q.old
      <4>1. Kept = {}
        BY <3>3 DEF Kept
      <4>2. r.seq \in PiecesOf(r.text)
            /\ \E ev \in sent : ev.seq = r.seq /\ SameKey(r, ev) /\ ev.old = r.old
        BY <3>1, <3>3 DEF LatestInv, Sent, AllRows
      <4>3. PICK ev \in sent : ev.seq = r.seq /\ SameKey(r, ev) /\ ev.old = r.old
        BY <4>2
      <4>4. r.seq \in Contents(db) /\ Contents(Kept) = {}
        BY <3>3, <4>1, <4>2 DEF Contents
      <4>5. ev.seq \in pruned' /\ ev.old /\ ev.kind = k /\ ev.ref = last[k]
        BY <1>1, <3>1, <3>3, <4>3, <4>4 DEF SameKey
      <4> QED BY <1>1, <4>5 DEF Gone
    <3>4. CASE r \in db /\ ~ \A q \in db : q.old
      <4>1. Kept = db \ Superseded(db)
        BY <3>4 DEF Kept
      <4>2. ASSUME NEW q \in db, q.kind = r.kind, q.seq > r.seq PROVE FALSE
        <5>1. q.seq <= r.seq /\ q.seq \in Nat /\ r.seq \in Nat
          BY <3>1, <3>4, <4>2 DEF TypeOK, Row
        <5> QED BY <4>2, <5>1
      <4>3. r \notin Superseded(db)
        BY <4>2 DEF Superseded
      <4>4. r \in db' /\ \A q \in db' \cup batch : q.kind = k => q.seq <= r.seq
        BY <1>1, <3>1, <3>4, <4>1, <4>3
      <4> QED BY <3>1, <4>4 DEF Newest
    <3> QED BY <3>1, <3>2, <3>3, <3>4
  <2> QED BY <2>1, <2>2, <2>3
<1>5. lost' = {} => \A k \in Deduped : LatestKept(k)'
  BY <1>1, <1>4 DEF Gone, LatestKept, Newest
<1>6. /\ wpc' # "gather" => batch' = {} /\ pending' = {}
      /\ \A i \in DOMAIN queue' : queue'[i].msg = "event" => queue'[i].ev \in sent'
  BY <1>1 DEF LatestInv
<1> QED BY <1>3, <1>5, <1>6 DEF LatestInv, Newest

(* The reader and the main task only send: what is sent joins the queue    *)
(* and the events sent together.                                           *)
LEMMA SendLatest ==
  ASSUME TypeOK, LatestInv, UNCHANGED <<writerVars, diskVars>>,
         \/ UNCHANGED <<queue, sent>>
         \/ \E ev \in Event : SendEvent(ev)
         \/ \E m : m.msg # "event" /\ Send(m) /\ UNCHANGED sent
  PROVE  LatestInv'
<1>1. UNCHANGED <<wpc, pending, last, batch, lost, db, pruned>>
  BY DEF writerVars, diskVars
<1>2. ASSUME NEW m, Send(m), sent \subseteq sent', m.msg = "event" /\ wpc # "stopped" => m.ev \in sent'
      PROVE  \A i \in DOMAIN queue' : queue'[i].msg = "event" => queue'[i].ev \in sent'
  <2>1. CASE wpc = "stopped"
    BY <1>2, <2>1 DEF Send, LatestInv
  <2>2. CASE wpc # "stopped"
    <3> DEFINE M == [msg: {"event"}, ev: Event] \cup [msg: {"flush"}, n: Nat]
                      \cup [msg: {"close"}]
    <3>1. queue \in Seq(M) /\ queue' = Append(queue, m)
      BY <1>2, <2>2 DEF Send, TypeOK
    <3> HIDE DEF M
    <3>2. \A i \in DOMAIN queue' :
            (i \in DOMAIN queue /\ queue'[i] = queue[i]) \/ queue'[i] = m
      BY <3>1
    <3> QED BY <1>2, <2>2, <3>2 DEF LatestInv
  <2> QED BY <2>1, <2>2
<1>3. /\ sent \subseteq sent'
      /\ \A i \in DOMAIN queue' : queue'[i].msg = "event" => queue'[i].ev \in sent'
  <2>1. CASE UNCHANGED <<queue, sent>>
    BY <2>1 DEF LatestInv
  <2>2. ASSUME NEW ev \in Event, SendEvent(ev)
        PROVE  /\ sent \subseteq sent'
               /\ \A i \in DOMAIN queue' : queue'[i].msg = "event" => queue'[i].ev \in sent'
    <3> DEFINE m == [msg |-> "event", ev |-> ev]
    <3>1. Send(m) /\ m.ev = ev /\ sent \subseteq sent' /\ (wpc # "stopped" => ev \in sent')
      BY <2>2 DEF SendEvent
    <3> HIDE DEF m
    <3> QED BY <1>2, <3>1
  <2>3. ASSUME NEW m, m.msg # "event", Send(m), UNCHANGED sent
        PROVE  /\ sent \subseteq sent'
               /\ \A i \in DOMAIN queue' : queue'[i].msg = "event" => queue'[i].ev \in sent'
    BY <1>2, <2>3
  <2> QED BY <2>1, <2>2, <2>3
<1>4. \A r \in AllRows' : r.kind \in Deduped => Sent(r)'
  BY <1>1, <1>3 DEF LatestInv, Sent, SameKey, PiecesOf, AllRows
<1>5. lost' = {} => \A k \in Deduped : LatestKept(k)'
  BY <1>1, <1>3 DEF LatestInv, Gone, LatestKept, Newest
<1>6. wpc' # "gather" => batch' = {} /\ pending' = {}
  BY <1>1 DEF LatestInv
<1> QED BY <1>3, <1>4, <1>5, <1>6 DEF LatestInv, Newest

(* Each step keeps the newest payload of a type in its newest row.         *)
LEMMA LatestStep ==
  TypeOK /\ OrderInv /\ RowsInv /\ LatestInv /\ [Next]_vars => LatestInv'
<1> SUFFICES ASSUME TypeOK, OrderInv, RowsInv, LatestInv, [Next]_vars PROVE LatestInv'
  OBVIOUS
<1>0. ASSUME NEW kind, Receive(kind)
      PROVE  /\ queue' = Tail(queue) /\ queue # <<>> /\ 1 \in DOMAIN queue
             /\ queue[1] = Head(queue) /\ Head(queue).msg = kind
             /\ \A i \in DOMAIN queue' : queue'[i].msg = "event" => queue'[i].ev \in sent
  <2>1. /\ queue' = Tail(queue) /\ queue # <<>> /\ 1 \in DOMAIN queue
        /\ queue[1] = Head(queue) /\ Head(queue).msg = kind
    BY <1>0 DEF Receive, TypeOK
  <2>2. \A i \in DOMAIN queue' : i + 1 \in DOMAIN queue /\ queue'[i] = queue[i + 1]
    BY <2>1 DEF TypeOK
  <2> QED BY <2>1, <2>2 DEF LatestInv
<1>1. CASE WriterEvent
  <2>1. /\ Receive("event") /\ Push(Head(queue).ev) /\ wpc' = "gather"
        /\ UNCHANGED <<db, sent, lost, pruned>>
    BY <1>1 DEF WriterEvent, diskVars
  <2>2. Head(queue).ev \in Event
    BY <2>1, ReceiveType
  <2>3. Head(queue).ev \in sent
    BY <1>0, <2>1 DEF LatestInv
  <2>4. Head(queue).ev.kind \in Steered => After(Head(queue).ev.seq)
    <3>1. 1 \in DOMAIN queue /\ queue[1] = Head(queue) /\ Head(queue).msg = "event"
      BY <1>0, <2>1
    <3> QED BY <3>1 DEF OrderInv, Hosted
  <2> QED BY <1>0, <2>1, <2>2, <2>3, <2>4, PushLatest
<1>2. CASE WriterFlush
  BY <1>0, <1>2, CommitLatest DEF WriterFlush
<1>3. CASE WriterTimeout
  <2>1. Commit /\ UNCHANGED <<queue, last, sent, pruned>>
    BY <1>3 DEF WriterTimeout
  <2> QED BY <2>1, CommitLatest DEF LatestInv
<1>4. CASE WriterClose
  BY <1>0, <1>4, CommitLatest DEF WriterClose
<1>5. CASE Prune
  BY <1>5, PruneLatest
<1>6. CASE QueueForStore
  BY <1>6, SendLatest DEF QueueForStore, TypeOK
<1>7. CASE BootSend \/ ExitSend
  <2>1. mine \in Event /\ SendEvent(mine) /\ UNCHANGED <<writerVars, diskVars>>
    BY <1>7 DEF BootSend, ExitSend, TypeOK
  <2> QED BY <2>1, SendLatest
<1>8. CASE RequestFlush
  <2> DEFINE m == [msg |-> "flush", n |-> Len(asked) + 1]
  <2>1. m.msg # "event" /\ Send(m) /\ UNCHANGED <<sent, writerVars, diskVars>>
    BY <1>8 DEF RequestFlush
  <2> HIDE DEF m
  <2> QED BY <2>1, SendLatest
<1>9. CASE ExitClose
  <2> DEFINE m == [msg |-> "close"]
  <2>1. m.msg # "event" /\ Send(m) /\ UNCHANGED <<sent, writerVars, diskVars>>
    BY <1>9 DEF ExitClose
  <2> HIDE DEF m
  <2> QED BY <2>1, SendLatest
<1>10. ASSUME UNCHANGED <<queue, sent, writerVars, diskVars>> PROVE LatestInv'
  BY <1>10, SendLatest
<1> QED
  BY <1>1, <1>2, <1>3, <1>4, <1>5, <1>6, <1>7, <1>8, <1>9, <1>10
  DEF Next, Writer, Reader, Main, ReadLine, HandToLoop, Boot, Apply, Outbound,
      FlushReturns, ExitBegin, ExitDone, vars

-----------------------------------------------------------------------------
(* Every seq in use is below the counter and in one place, always.         *)
LEMMA SeqAlways == Spec => []SeqInv
<1>1. Init => SeqInv
  BY DEF Init, SeqInv, RowSeqs, SeqsOf, Queued, QueueDistinct, MainHolds,
         SeqNeverCollides, DistinctSeqs
<1> QED BY <1>1, SeqStep, TypeCorrect, PTL DEF Spec

(* The inductive invariant behind both theorems below.                     *)
LEMMA ReplayAlways == Spec => []ReplayInv
<1>1. Init => ReplayInv
  <2>1. Init => OrderInv
    BY DEF Init, OrderInv, After, SpentBy, AllRows, MainHolds
  <2>2. Init => RowsInv
    BY DEF Init, RowsInv, AllRows
  <2>3. Init => LatestInv
    BY DEF Init, LatestInv, LatestKept, AllRows
  <2> QED BY <2>1, <2>2, <2>3 DEF ReplayInv
<1>2. TypeOK /\ SeqInv /\ ReplayInv /\ [Next]_vars => ReplayInv'
  BY OrderStep, RowsStep, LatestStep DEF ReplayInv
<1> QED BY <1>1, <1>2, TypeCorrect, SeqAlways, PTL DEF Spec

(* Replaying the store yields each stream's text in the order the host     *)
(* sent it, however the gathering windows cut it into rows and whatever    *)
(* transactions failed in between.                                         *)
THEOREM TextReplays == Spec => []ReplayKeepsText
<1>1. TypeOK /\ ReplayInv => ReplayKeepsText
  <2> SUFFICES ASSUME TypeOK, ReplayInv, NEW r \in db, r.kind \in Deltas
               PROVE  /\ \A i, j \in DOMAIN r.text : i < j => r.text[i] <= r.text[j]
                      /\ \A q \in db : SameKey(r, q) /\ r.seq < q.seq =>
                            \A a \in PiecesOf(r.text), b \in PiecesOf(q.text) : a < b
    BY DEF ReplayKeepsText
  <2>1. r \in AllRows /\ RowsInv
    BY DEF ReplayInv, AllRows
  <2>2. \A i, j \in DOMAIN r.text : i < j => r.text[i] <= r.text[j]
    BY <2>1 DEF RowsInv, TextFrom, Rising
  <2>3. ASSUME NEW q \in db, SameKey(r, q), r.seq < q.seq,
               NEW a \in PiecesOf(r.text), NEW b \in PiecesOf(q.text)
        PROVE  a < b
    <3>1. q \in AllRows
      BY DEF AllRows
    <3>2. a < q.seq
      BY <2>1, <2>3, <3>1 DEF RowsInv, EndsBefore
    <3>3. q.seq <= b
      BY <2>1, <3>1 DEF RowsInv, TextFrom
    <3>4. a \in Nat /\ b \in Nat /\ q.seq \in Nat
      BY DEF TypeOK, Row, PiecesOf
    <3> QED BY <3>2, <3>3, <3>4
  <2> QED BY <2>2, <2>3
<1> QED BY <1>1, TypeCorrect, ReplayAlways, PTL

(* Skipping a repeated status or registration loses nothing: between       *)
(* batches the newest payload of each type is the newest row on disk,      *)
(* unless a transaction failed or housekeeping dropped an old session.     *)
THEOREM LatestIsOnDisk == Spec => []LatestPayloadOnDisk
<1>1. ReplayInv => LatestPayloadOnDisk
  <2> SUFFICES ASSUME ReplayInv, NEW k \in Deduped,
                      wpc = "idle", lost = {}, last[k] # None
               PROVE  Newest(k, last[k], db) \/ Gone(k, last[k])
    BY DEF LatestPayloadOnDisk, Newest, Gone
  <2>1. LatestInv
    BY DEF ReplayInv
  <2>2. db \cup batch = db
    BY <2>1 DEF LatestInv
  <2>3. Newest(k, last[k], db \cup batch) \/ Gone(k, last[k])
    BY <2>1 DEF LatestInv, LatestKept
  <2> QED BY <2>2, <2>3
<1> QED BY <1>1, ReplayAlways, PTL
=============================================================================
