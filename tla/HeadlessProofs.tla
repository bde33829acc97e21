---------------------------- MODULE HeadlessProofs ----------------------------
(***************************************************************************)
(* The headless server and the Node SDK that feeds it, for every value of  *)
(* the constants.                                                          *)
(*                                                                         *)
(* Decoder: for any number of lines, any width of the integers and any     *)
(* numbers the host supplies, it is well typed and never hands out a       *)
(* number that its session has seen.                                       *)
(*                                                                         *)
(* Recorder: for any channel, batch size and store, it saves a prefix of   *)
(* what the decoder made, and a stream the validator passes is refused for *)
(* one of three reasons only. Its reader is the decoder, so its numbers    *)
(* are new as well; the rows the store has and the batch are the stream in *)
(* its order (RecorderInv), and what the validator compared rises in every *)
(* session (ReportTracks). What it has saved passes the validator when it  *)
(* is exported: no two rows have the same number (StoreIsSound), so the    *)
(* order of their numbers is an order of all of them (PlacesFill), in      *)
(* which the validator finds no number that comes back (StreamPasses).     *)
(*                                                                         *)
(* Broadcast: for any number of viewers, lines and handshake slots, and    *)
(* any replay buffer longer than the live channel, no slot is lost or      *)
(* given back twice, and no viewer is sent a line that leaves a gap behind *)
(* it.                                                                     *)
(*                                                                         *)
(* Sdk: for any number of turns, streams, tools and questions, no promise  *)
(* of the host hangs, and what the renderer is told of a handle begins     *)
(* once, ends at most once, and has ended before its turn says it is idle. *)
(***************************************************************************)
EXTENDS Recorder, Broadcast, Sdk, TLAPS, NaturalsInduction, SequenceTheorems,
        FiniteSetTheorems

DecodedEvents == [session : Sessions, seq : I64, by : {"host", "decoder"}]

-----------------------------------------------------------------------------
(* The counters.                                                           *)

(* observe_seq and next_seq change the counter of one session.             *)
LEMMA CounterSet ==
  ASSUME NEW s, NEW n, SetCounter(s, n)
  PROVE  /\ DOMAIN seqs' = DOMAIN seqs \cup {s}
         /\ Counter(s)' = n
         /\ \A x : x # s => Counter(x)' = Counter(x)
BY DEF SetCounter, Counter

(* The successor stays within the width.                                   *)
LEMMA SuccType == \A n \in I64 : Succ(n) \in I64
BY DecoderAssumption DEF Succ, I64

LEMMA CounterType ==
  ASSUME DecoderTypeOK
  PROVE  \A s : Counter(s) \in I64
BY DecoderAssumption DEF DecoderTypeOK, Counter, I64

LEMMA SetCounterType ==
  ASSUME DecoderTypeOK, NEW s \in Sessions, NEW n \in I64, SetCounter(s, n)
  PROVE  DOMAIN seqs' \subseteq Sessions /\ \A x \in DOMAIN seqs' : seqs'[x] \in I64
BY DEF DecoderTypeOK, SetCounter

-----------------------------------------------------------------------------
(* A line that becomes an event: the host's number, or the counter's.      *)

Supplied(s, n) == observe_seq(s, n) /\ SendEvent(Decoded(s, n, "host"))
Assigned(s) == next_seq(s) /\ SendEvent(Decoded(s, Counter(s), "decoder"))
Skipped     == UNCHANGED <<seqs, decoded, reading>>

(* Every line is one of the three.                                         *)
LEMMA LineIs ==
  ASSUME DecoderNext
  PROVE  /\ reading
         /\ \/ \E s \in Sessions, n \in HostSeqs : Supplied(s, n)
            \/ \E s \in Sessions : Assigned(s)
            \/ Skipped
<1>1. CASE \E line \in Lines : ReadEvent(line)
  <2>1. PICK line \in Lines : ReadEvent(line)
    BY <1>1
  <2> DEFINE s == IF line.session = None THEN DefaultSession ELSE line.session
  <2>2. s \in Sessions /\ (line.seq # None => line.seq \in HostSeqs)
    BY DecoderAssumption DEF Lines
  <2>3. CASE line.seq = None
    BY <2>1, <2>2, <2>3 DEF ReadEvent, TakeLine, Assigned
  <2>4. CASE line.seq # None
    BY <2>1, <2>2, <2>4 DEF ReadEvent, TakeLine, Supplied
  <2> QED BY <2>3, <2>4
<1>2. CASE ReadInvalid
  BY <1>2, DecoderAssumption DEF ReadInvalid, TakeLine, diagnostic_event, Assigned
<1>3. CASE \E name \in UnknownTypes : ReadUnknown(name)
  BY <1>3, DecoderAssumption DEF ReadUnknown, TakeLine, diagnostic_event, Assigned, Skipped
<1> QED BY <1>1, <1>2, <1>3 DEF DecoderNext

(* What arrives at the renderer is the new event, or nothing any more.     *)
LEMMA SentIs ==
  ASSUME DecoderTypeOK, NEW e \in DecodedEvents, SendEvent(e), reading
  PROVE  /\ decoded' \in Seq(DecodedEvents) /\ reading' \in BOOLEAN
         /\ \/ ~reading' /\ decoded' = decoded
            \/ /\ Len(decoded') = Len(decoded) + 1
               /\ decoded'[Len(decoded')] = e
               /\ \A i \in DOMAIN decoded : i \in DOMAIN decoded' /\ decoded'[i] = decoded[i]
<1> HIDE DEF DecodedEvents
<1>1. decoded \in Seq(DecodedEvents)
  BY DEF DecoderTypeOK, DecodedEvents
<1>2. CASE decoded' = Append(decoded, e) /\ reading' = reading
  BY <1>1, <1>2
<1>3. CASE reading' = FALSE /\ decoded' = decoded
  BY <1>1, <1>3
<1> QED BY <1>2, <1>3 DEF SendEvent

(* An event of a known session with a number of the width is well typed.   *)
LEMMA DecodedType ==
  ASSUME NEW s \in Sessions, NEW n \in I64, NEW by \in {"host", "decoder"}
  PROVE  /\ Decoded(s, n, by) \in DecodedEvents
         /\ Decoded(s, n, by).session = s /\ Decoded(s, n, by).seq = n
         /\ Decoded(s, n, by).by = by
BY DEF Decoded, DecodedEvents

(* Types, one case per kind of line.                                       *)
LEMMA DecoderTypeStep == DecoderTypeOK /\ [DecoderNext]_decoderVars => DecoderTypeOK'
<1> SUFFICES ASSUME DecoderTypeOK, [DecoderNext]_decoderVars PROVE DecoderTypeOK'
  OBVIOUS
<1>1. CASE DecoderNext
  <2>1. warnedUnknown' \subseteq UnknownTypes /\ linesLeft' \in 0..MaxHostLines
    <3>1. linesLeft > 0 /\ linesLeft' = linesLeft - 1
      BY <1>1 DEF DecoderNext, ReadEvent, ReadInvalid, ReadUnknown, TakeLine
    <3>2. warnedUnknown' = warnedUnknown
          \/ \E name \in UnknownTypes : warnedUnknown' = warnedUnknown \cup {name}
      BY <1>1 DEF DecoderNext, ReadEvent, ReadInvalid, ReadUnknown
    <3> QED BY <3>1, <3>2, DecoderAssumption DEF DecoderTypeOK
  <2>2. /\ DOMAIN seqs' \subseteq Sessions /\ \A x \in DOMAIN seqs' : seqs'[x] \in I64
        /\ decoded' \in Seq(DecodedEvents) /\ reading' \in BOOLEAN
    <3>1. CASE \E s \in Sessions, n \in HostSeqs : Supplied(s, n)
      <4>1. PICK s \in Sessions, n \in HostSeqs : Supplied(s, n)
        BY <3>1
      <4>2. n \in I64 /\ Decoded(s, n, "host") \in DecodedEvents
        BY DecoderAssumption, DecodedType DEF I64
      <4>3. SetCounter(s, IF Succ(n) > Counter(s) THEN Succ(n) ELSE Counter(s))
        BY <4>1 DEF Supplied, observe_seq
      <4>4. (IF Succ(n) > Counter(s) THEN Succ(n) ELSE Counter(s)) \in I64
        BY <4>2, SuccType, CounterType
      <4>5. DOMAIN seqs' \subseteq Sessions /\ \A x \in DOMAIN seqs' : seqs'[x] \in I64
        BY <4>3, <4>4, SetCounterType
      <4>6. decoded' \in Seq(DecodedEvents) /\ reading' \in BOOLEAN
        BY <1>1, <4>1, <4>2, LineIs, SentIs DEF Supplied
      <4> QED BY <4>5, <4>6
    <3>2. CASE \E s \in Sessions : Assigned(s)
      <4>1. PICK s \in Sessions : Assigned(s)
        BY <3>2
      <4>2. Counter(s) \in I64 /\ Decoded(s, Counter(s), "decoder") \in DecodedEvents
        BY CounterType, DecodedType
      <4>3. SetCounter(s, Succ(Counter(s))) /\ Succ(Counter(s)) \in I64
        BY <4>1, <4>2, SuccType DEF Assigned, next_seq
      <4>4. DOMAIN seqs' \subseteq Sessions /\ \A x \in DOMAIN seqs' : seqs'[x] \in I64
        BY <4>3, SetCounterType
      <4>5. decoded' \in Seq(DecodedEvents) /\ reading' \in BOOLEAN
        BY <1>1, <4>1, <4>2, LineIs, SentIs DEF Assigned
      <4> QED BY <4>4, <4>5
    <3>3. CASE Skipped
      BY <3>3 DEF Skipped, DecoderTypeOK, DecodedEvents
    <3> QED BY <1>1, <3>1, <3>2, <3>3, LineIs
  <2> QED BY <2>1, <2>2 DEF DecoderTypeOK, DecodedEvents
<1>2. CASE UNCHANGED decoderVars
  BY <1>2 DEF decoderVars, DecoderTypeOK
<1> QED BY <1>1, <1>2

(* The decoder (headless/lib.rs) only ever holds counters and numbers that *)
(* fit an i64, of sessions it has seen.                                    *)
THEOREM DecoderTypeCorrect == DecoderSpec => []DecoderTypeOK
<1>1. DecoderInit => DecoderTypeOK
  BY DecoderAssumption DEF DecoderInit, DecoderTypeOK
<1> QED BY <1>1, DecoderTypeStep, PTL DEF DecoderSpec

-----------------------------------------------------------------------------
(* A counter is past every number of its session, except the largest; that *)
(* is what AssignedSeqIsNew rests on. It stops being so when the decoder   *)
(* hands out the largest number itself, and when the reader has stopped    *)
(* there is no next event to be wrong.                                     *)
StartedOver(s) == \E k \in DOMAIN decoded : decoded[k] = Decoded(s, SeqMax, "decoder")

Ahead(s) ==
  /\ Counter(s) \in 0..SeqMax
  /\ \A i \in DOMAIN decoded :
        decoded[i].session = s => decoded[i].seq < Counter(s) \/ decoded[i].seq = SeqMax

CountersAhead == reading => \A s \in Sessions : StartedOver(s) \/ Ahead(s)

(* A line that brings no event to the renderer leaves no number to repeat. *)
LEMMA StoppedIsNew ==
  ASSUME AssignedSeqIsNew, decoded' = decoded
  PROVE  AssignedSeqIsNew'
BY DEF AssignedSeqIsNew, StartsOver

(* One more event e at the end: the others stay in place.                  *)
Grows(e) ==
  /\ Len(decoded') = Len(decoded) + 1 /\ decoded'[Len(decoded')] = e
  /\ \A i \in DOMAIN decoded : i \in DOMAIN decoded' /\ decoded'[i] = decoded[i]

LEMMA GrowsBy ==
  ASSUME DecoderTypeOK, DecoderTypeOK', NEW e \in DecodedEvents, Grows(e)
  PROVE  /\ DOMAIN decoded = 1..Len(decoded) /\ Len(decoded) \in Nat
         /\ DOMAIN decoded' = 1..(Len(decoded) + 1)
         /\ decoded'[Len(decoded) + 1] = e
         /\ \A i \in 1..Len(decoded) : decoded'[i] = decoded[i]
         /\ \A s : StartedOver(s) => StartedOver(s)'
<1>1. decoded \in Seq(DecodedEvents) /\ decoded' \in Seq(DecodedEvents)
  BY DEF DecoderTypeOK, DecodedEvents
<1> HIDE DEF DecodedEvents
<1>2. /\ DOMAIN decoded = 1..Len(decoded) /\ Len(decoded) \in Nat
      /\ DOMAIN decoded' = 1..Len(decoded')
  BY <1>1
<1>3. ASSUME NEW s, StartedOver(s) PROVE StartedOver(s)'
  BY <1>3 DEF StartedOver, Grows
<1> QED BY <1>2, <1>3 DEF Grows

(* A number of the host is no number of the decoder.                       *)
LEMMA SuppliedIsNew ==
  ASSUME DecoderTypeOK, DecoderTypeOK', AssignedSeqIsNew,
         NEW e \in DecodedEvents, Grows(e), e.by = "host"
  PROVE  AssignedSeqIsNew'
<1> SUFFICES ASSUME NEW i \in DOMAIN decoded', NEW j \in DOMAIN decoded', i < j,
                    decoded'[j].by = "decoder", decoded'[i].session = decoded'[j].session
             PROVE  \/ decoded'[i].seq # decoded'[j].seq
                    \/ decoded'[i].seq = SeqMax
                    \/ \E k \in 1..(j - 1) :
                         decoded'[k] = Decoded(decoded'[j].session, SeqMax, "decoder")
  BY DEF AssignedSeqIsNew, StartsOver
<1>1. j \in 1..Len(decoded) /\ i \in 1..Len(decoded)
  BY GrowsBy
<1>2. decoded'[i] = decoded[i] /\ decoded'[j] = decoded[j]
  BY <1>1, GrowsBy
<1>3. \A k \in 1..(j - 1) : decoded'[k] = decoded[k]
  BY <1>1, GrowsBy
<1>4. \/ decoded[i].seq # decoded[j].seq \/ decoded[i].seq = SeqMax
      \/ \E k \in 1..(j - 1) : decoded[k] = Decoded(decoded[j].session, SeqMax, "decoder")
  BY <1>1, <1>2, GrowsBy DEF AssignedSeqIsNew, StartsOver
<1> QED BY <1>2, <1>3, <1>4

(* Nor is a counter that is ahead, or one that has started over.           *)
LEMMA AssignedIsNew ==
  ASSUME DecoderTypeOK, DecoderTypeOK', AssignedSeqIsNew, NEW s \in Sessions,
         StartedOver(s) \/ Ahead(s),
         NEW e \in DecodedEvents, e.session = s, e.seq = Counter(s), Grows(e)
  PROVE  AssignedSeqIsNew'
<1> SUFFICES ASSUME NEW i \in DOMAIN decoded', NEW j \in DOMAIN decoded', i < j,
                    decoded'[j].by = "decoder", decoded'[i].session = decoded'[j].session
             PROVE  \/ decoded'[i].seq # decoded'[j].seq
                    \/ decoded'[i].seq = SeqMax
                    \/ \E k \in 1..(j - 1) :
                         decoded'[k] = Decoded(decoded'[j].session, SeqMax, "decoder")
  BY DEF AssignedSeqIsNew, StartsOver
<1>1. i \in 1..Len(decoded) /\ decoded'[i] = decoded[i]
  BY GrowsBy
<1>2. CASE j \in 1..Len(decoded)
  <2>1. decoded'[j] = decoded[j]
    BY <1>2, GrowsBy
  <2>2. \A k \in 1..(j - 1) : decoded'[k] = decoded[k]
    BY <1>2, GrowsBy
  <2>3. \/ decoded[i].seq # decoded[j].seq \/ decoded[i].seq = SeqMax
        \/ \E k \in 1..(j - 1) : decoded[k] = Decoded(decoded[j].session, SeqMax, "decoder")
    BY <1>1, <1>2, <2>1, GrowsBy DEF AssignedSeqIsNew, StartsOver
  <2> QED BY <1>1, <2>1, <2>2, <2>3
<1>3. CASE j = Len(decoded) + 1
  <2>1. decoded'[j] = e
    BY <1>3, GrowsBy
  <2>2. CASE StartedOver(s)
    <3>1. PICK k \in 1..Len(decoded) : decoded[k] = Decoded(s, SeqMax, "decoder")
      BY <2>2, GrowsBy DEF StartedOver
    <3>2. k \in 1..(j - 1) /\ decoded'[k] = Decoded(s, SeqMax, "decoder")
      BY <1>3, <3>1, GrowsBy
    <3> QED BY <2>1, <3>2
  <2>3. CASE Ahead(s)
    <3>1. decoded[i].session = s
      BY <1>1, <2>1
    <3>2. decoded[i].seq < Counter(s) \/ decoded[i].seq = SeqMax
      BY <1>1, <2>3, <3>1, GrowsBy DEF Ahead
    <3>3. Counter(s) \in 0..SeqMax /\ decoded[i].seq \in Int
      <4>1. decoded \in Seq(DecodedEvents)
        BY DEF DecoderTypeOK, DecodedEvents
      <4>2. decoded[i] \in DecodedEvents
        BY <1>1, <4>1
      <4> QED BY <2>3, <4>2, DecoderAssumption DEF Ahead, DecodedEvents, I64
    <3> QED BY <1>1, <2>1, <3>2, <3>3, DecoderAssumption
  <2> QED BY <2>2, <2>3
<1> QED BY <1>2, <1>3, GrowsBy

(* What a new event of session s leaves of the other sessions.             *)
LEMMA OthersStayAhead ==
  ASSUME DecoderTypeOK, DecoderTypeOK', NEW s, NEW x, x # s,
         NEW e \in DecodedEvents, e.session = s, Grows(e),
         Counter(x)' = Counter(x), StartedOver(x) \/ Ahead(x)
  PROVE  StartedOver(x)' \/ Ahead(x)'
<1>1. CASE StartedOver(x)
  BY <1>1, GrowsBy
<1>2. CASE Ahead(x)
  <2>1. \A i \in DOMAIN decoded' : decoded'[i].session = x =>
           i \in DOMAIN decoded /\ decoded'[i] = decoded[i]
    BY GrowsBy
  <2> QED BY <1>2, <2>1 DEF Ahead
<1> QED BY <1>1, <1>2

LEMMA SuppliedStaysAhead ==
  ASSUME DecoderTypeOK, DecoderTypeOK', NEW s \in Sessions, NEW n \in HostSeqs,
         observe_seq(s, n), Grows(Decoded(s, n, "host")), StartedOver(s) \/ Ahead(s)
  PROVE  StartedOver(s)' \/ Ahead(s)'
<1> DEFINE e == Decoded(s, n, "host")
<1>1. n \in 0..SeqMax /\ n \in I64
  BY DecoderAssumption DEF I64
<1>2. e \in DecodedEvents /\ e.seq = n
  BY <1>1, DecodedType
<1>3. Counter(s)' = IF Succ(n) > Counter(s) THEN Succ(n) ELSE Counter(s)
  BY CounterSet DEF observe_seq
<1>4. CASE StartedOver(s)
  BY <1>2, <1>4, GrowsBy
<1>5. CASE Ahead(s)
  <2>1. Counter(s) \in 0..SeqMax
    BY <1>5 DEF Ahead
  <2>2. /\ Counter(s)' \in 0..SeqMax /\ Counter(s) <= Counter(s)'
        /\ n < Counter(s)' \/ n = SeqMax
    BY <1>1, <1>3, <2>1, DecoderAssumption DEF Succ
  <2>3. ASSUME NEW i \in DOMAIN decoded', decoded'[i].session = s
        PROVE  decoded'[i].seq < Counter(s)' \/ decoded'[i].seq = SeqMax
    <3>1. CASE i = Len(decoded) + 1
      BY <1>2, <2>2, <3>1, GrowsBy
    <3>2. CASE i \in 1..Len(decoded)
      <4>1. decoded'[i] = decoded[i] /\ i \in DOMAIN decoded
        BY <1>2, <3>2, GrowsBy
      <4>2. decoded[i].seq < Counter(s) \/ decoded[i].seq = SeqMax
        BY <1>5, <2>3, <4>1 DEF Ahead
      <4>3. decoded \in Seq(DecodedEvents)
        BY DEF DecoderTypeOK, DecodedEvents
      <4>4. decoded[i] \in DecodedEvents
        BY <4>1, <4>3
      <4>5. decoded[i].seq \in Int
        BY <4>4, DecoderAssumption DEF DecodedEvents, I64
      <4> QED BY <2>1, <2>2, <4>1, <4>2, <4>5, DecoderAssumption
    <3> QED BY <1>2, <3>1, <3>2, GrowsBy
  <2> QED BY <2>2, <2>3 DEF Ahead
<1> QED BY <1>4, <1>5

LEMMA AssignedStaysAhead ==
  ASSUME DecoderTypeOK, DecoderTypeOK', NEW s \in Sessions,
         next_seq(s), Grows(Decoded(s, Counter(s), "decoder")), StartedOver(s) \/ Ahead(s)
  PROVE  StartedOver(s)' \/ Ahead(s)'
<1> DEFINE c == Counter(s)
<1> DEFINE e == Decoded(s, c, "decoder")
<1>1. c \in I64
  BY CounterType
<1>2. e \in DecodedEvents /\ e.seq = c
  BY <1>1, DecodedType
<1>3. Counter(s)' = Succ(c)
  BY CounterSet DEF next_seq
<1>4. CASE StartedOver(s)
  BY <1>2, <1>4, GrowsBy
<1>5. CASE Ahead(s) /\ c = SeqMax
  BY <1>5 DEF Grows, StartedOver
<1>6. CASE Ahead(s) /\ c # SeqMax
  <2>1. c \in 0..SeqMax
    BY <1>6 DEF Ahead
  <2>2. Counter(s)' = c + 1 /\ Counter(s)' \in 0..SeqMax
    BY <1>3, <1>6, <2>1, DecoderAssumption DEF Succ
  <2>3. ASSUME NEW i \in DOMAIN decoded', decoded'[i].session = s
        PROVE  decoded'[i].seq < Counter(s)' \/ decoded'[i].seq = SeqMax
    <3>1. CASE i = Len(decoded) + 1
      BY <1>2, <2>1, <2>2, <3>1, GrowsBy
    <3>2. CASE i \in 1..Len(decoded)
      <4>1. decoded'[i] = decoded[i] /\ i \in DOMAIN decoded
        BY <1>2, <3>2, GrowsBy
      <4>2. decoded[i].seq < c \/ decoded[i].seq = SeqMax
        BY <1>6, <2>3, <4>1 DEF Ahead
      <4>3. decoded \in Seq(DecodedEvents)
        BY DEF DecoderTypeOK, DecodedEvents
      <4>4. decoded[i] \in DecodedEvents
        BY <4>1, <4>3
      <4>5. decoded[i].seq \in Int
        BY <4>4, DecoderAssumption DEF DecodedEvents, I64
      <4> QED BY <2>1, <2>2, <4>1, <4>2, <4>5, DecoderAssumption
    <3> QED BY <1>2, <3>1, <3>2, GrowsBy
  <2> QED BY <2>2, <2>3 DEF Ahead
<1> QED BY <1>4, <1>5, <1>6

(* The inductive invariant, one case per kind of line.                     *)
LEMMA NumbersStep ==
  DecoderTypeOK /\ DecoderTypeOK' /\ AssignedSeqIsNew /\ CountersAhead
    /\ [DecoderNext]_decoderVars
    => AssignedSeqIsNew' /\ CountersAhead'
<1> SUFFICES ASSUME DecoderTypeOK, DecoderTypeOK', AssignedSeqIsNew, CountersAhead,
                    [DecoderNext]_decoderVars
             PROVE  AssignedSeqIsNew' /\ CountersAhead'
  OBVIOUS
<1>1. ASSUME NEW s \in Sessions, NEW n \in HostSeqs, Supplied(s, n), reading
      PROVE  AssignedSeqIsNew' /\ CountersAhead'
  <2> DEFINE e == Decoded(s, n, "host")
  <2>1. e \in DecodedEvents /\ e.session = s /\ e.by = "host"
    BY DecoderAssumption, DecodedType DEF I64
  <2>2. observe_seq(s, n) /\ SendEvent(e)
    BY <1>1 DEF Supplied
  <2> HIDE DEF e
  <2>3. (~reading' /\ decoded' = decoded) \/ Grows(e)
    BY <1>1, <2>1, <2>2, SentIs DEF Grows
  <2>4. CASE ~reading' /\ decoded' = decoded
    BY <2>4, StoppedIsNew DEF CountersAhead
  <2>5. CASE Grows(e)
    <3>1. \A x \in Sessions : x # s => StartedOver(x)' \/ Ahead(x)'
      <4>1. \A x : x # s => Counter(x)' = Counter(x)
        BY <2>2, CounterSet DEF observe_seq
      <4> QED BY <1>1, <2>1, <2>5, <4>1, OthersStayAhead DEF CountersAhead
    <3>2. StartedOver(s)' \/ Ahead(s)'
      BY <1>1, <2>2, <2>5, SuppliedStaysAhead DEF CountersAhead, e
    <3>3. AssignedSeqIsNew'
      BY <2>1, <2>5, SuppliedIsNew
    <3> QED BY <3>1, <3>2, <3>3 DEF CountersAhead
  <2> QED BY <2>3, <2>4, <2>5
<1>2. ASSUME NEW s \in Sessions, Assigned(s), reading
      PROVE  AssignedSeqIsNew' /\ CountersAhead'
  <2> DEFINE e == Decoded(s, Counter(s), "decoder")
  <2>1. e \in DecodedEvents /\ e.session = s /\ e.seq = Counter(s)
    BY CounterType, DecodedType
  <2>2. next_seq(s) /\ SendEvent(e)
    BY <1>2 DEF Assigned
  <2> HIDE DEF e
  <2>3. (~reading' /\ decoded' = decoded) \/ Grows(e)
    BY <1>2, <2>1, <2>2, SentIs DEF Grows
  <2>4. CASE ~reading' /\ decoded' = decoded
    BY <2>4, StoppedIsNew DEF CountersAhead
  <2>5. CASE Grows(e)
    <3>1. \A x \in Sessions : x # s => StartedOver(x)' \/ Ahead(x)'
      <4>1. \A x : x # s => Counter(x)' = Counter(x)
        BY <2>2, CounterSet DEF next_seq
      <4> QED BY <1>2, <2>1, <2>5, <4>1, OthersStayAhead DEF CountersAhead
    <3>2. StartedOver(s)' \/ Ahead(s)'
      BY <1>2, <2>2, <2>5, AssignedStaysAhead DEF CountersAhead, e
    <3>3. StartedOver(s) \/ Ahead(s)
      BY <1>2 DEF CountersAhead
    <3>4. AssignedSeqIsNew'
      BY <2>1, <2>5, <3>3, AssignedIsNew
    <3> QED BY <3>1, <3>2, <3>4 DEF CountersAhead
  <2> QED BY <2>3, <2>4, <2>5
<1>3. ASSUME UNCHANGED <<seqs, decoded, reading>>
      PROVE  AssignedSeqIsNew' /\ CountersAhead'
  <2>1. \A x : StartedOver(x)' = StartedOver(x) /\ Ahead(x)' = Ahead(x)
    BY <1>3 DEF StartedOver, Ahead, Counter
  <2> QED BY <1>3, <2>1, StoppedIsNew DEF CountersAhead
<1>4. CASE DecoderNext
  BY <1>1, <1>2, <1>3, <1>4, LineIs DEF Skipped
<1> QED BY <1>3, <1>4 DEF decoderVars

(* The decoder never hands out a number its session has seen, as long as   *)
(* it has not itself handed out the largest one, where its counter starts  *)
(* over (headless/lib.rs, next_seq and observe_seq).                       *)
THEOREM NumbersAreNew == DecoderSpec => []AssignedSeqIsNew
<1>1. DecoderInit => AssignedSeqIsNew /\ CountersAhead
  BY DecoderAssumption DEF DecoderInit, AssignedSeqIsNew, CountersAhead, StartedOver,
                           Ahead, Counter
<1> QED BY <1>1, NumbersStep, DecoderTypeCorrect, PTL DEF DecoderSpec

-----------------------------------------------------------------------------
(* The recorder. Every line it reads is one step of the decoder: the event  *)
(* of an accepted line, a diagnostic, or a type already reported.          *)
OriginType == [id : EventIds \cup {None}, type : EventKinds, payload : Payloads,
               compared : BOOLEAN]

BecomesEvent(line) ==
  \E e \in DecodedEvents :
    /\ Grows(e) /\ origins' = Append(origins, Origin(line))
    /\ Numbered(line) => e.session = line.session /\ e.seq = line.seq

BecomesDiagnostic ==
  \E e \in DecodedEvents : Grows(e) /\ origins' = Append(origins, DiagnosticOrigin)

LEMMA HostSeqsFit == HostSeqs \subseteq I64
BY DecoderAssumption DEF I64

LEMMA AcceptedIs ==
  ASSUME RecorderTypeOK, NEW line \in Hosted, ReadHostedLine(line), Accepts(line)
  PROVE  DecoderNext /\ BecomesEvent(line)
<1> DEFINE kept == [session |-> line.session, seq |-> line.seq]
<1>1. line \in HostedLines /\ DecoderTypeOK
  BY RecorderAssumption DEF RecorderTypeOK
<1>2. kept \in Lines /\ kept.session = line.session /\ kept.seq = line.seq
  BY <1>1 DEF HostedLines, Lines
<1>3. ReadEvent(kept) /\ reading' /\ reading
  <2>1. line.type \notin UnknownTypes
    BY RecorderAssumption DEF Accepts, parse_envelope
  <2> QED BY <2>1 DEF ReadHostedLine, Decode, ReadEvent, TakeLine
<1> HIDE DEF kept
<1>4. DecoderNext
  BY <1>2, <1>3 DEF DecoderNext
<1> DEFINE s == IF line.session = None THEN DefaultSession ELSE line.session
           n == IF line.seq = None THEN Counter(s) ELSE line.seq
           by == IF line.seq = None THEN "decoder" ELSE "host"
<1>5. s \in Sessions /\ n \in I64 /\ by \in {"host", "decoder"}
  <2>1. s \in Sessions
    BY <1>1, DecoderAssumption DEF HostedLines
  <2>2. Counter(s) \in I64
    BY <1>1, CounterType
  <2>3. line.seq # None => line.seq \in I64
    BY <1>1, HostSeqsFit DEF HostedLines
  <2> QED BY <2>1, <2>2, <2>3
<1>6. Decoded(s, n, by) \in DecodedEvents /\ Decoded(s, n, by).session = s
      /\ Decoded(s, n, by).seq = n
  BY <1>5, DecodedType
<1>7. SendEvent(Decoded(s, n, by))
  BY <1>2, <1>3 DEF ReadEvent
<1>8. Grows(Decoded(s, n, by))
  BY <1>1, <1>3, <1>6, <1>7, SentIs DEF Grows
<1>9. decoded' # decoded
  BY <1>8, <1>1 DEF Grows, DecoderTypeOK
<1>10. origins' = Append(origins, Origin(line))
  BY <1>9 DEF ReadHostedLine
<1>11. Numbered(line) => s = line.session /\ n = line.seq
  BY DEF Numbered
<1> HIDE DEF s, n, by
<1> QED BY <1>4, <1>6, <1>8, <1>10, <1>11 DEF BecomesEvent

LEMMA RejectedIs ==
  ASSUME RecorderTypeOK, NEW line \in Hosted, ReadHostedLine(line), ~Accepts(line)
  PROVE  /\ DecoderNext
         /\ BecomesDiagnostic \/ (decoded' = decoded /\ origins' = origins)
<1> DEFINE e == Decoded(DefaultSession, Counter(DefaultSession), "decoder")
<1>1. DecoderTypeOK
  BY DEF RecorderTypeOK
<1>2. /\ DecoderNext /\ reading /\ reading'
      /\ diagnostic_event \/ decoded' = decoded
  BY DEF ReadHostedLine, Decode, DecoderNext, ReadInvalid, ReadUnknown, TakeLine
<1>3. e \in DecodedEvents
  BY <1>1, CounterType, DecodedType, DecoderAssumption
<1>4. CASE decoded' = decoded
  BY <1>2, <1>4 DEF ReadHostedLine
<1>5. CASE diagnostic_event
  <2>1. SendEvent(e)
    BY <1>5 DEF diagnostic_event
  <2> HIDE DEF e
  <2>2. Grows(e)
    BY <1>1, <1>2, <1>3, <2>1, SentIs DEF Grows
  <2>3. decoded' # decoded
    BY <2>2, <1>1 DEF Grows, DecoderTypeOK
  <2>4. origins' = Append(origins, DiagnosticOrigin)
    BY <2>3 DEF ReadHostedLine
  <2> QED BY <1>2, <1>3, <2>2, <2>4 DEF BecomesDiagnostic
<1> QED BY <1>2, <1>4, <1>5

(* Everything else leaves the decoder's events alone.                      *)
OtherSteps == EndOfInput \/ Receive \/ FlushTick \/ Finish \/ Breaks

StreamKept ==
  /\ seqs' = seqs /\ warnedUnknown' = warnedUnknown /\ decoded' = decoded
  /\ linesLeft' = linesLeft /\ (reading' = reading \/ reading' = FALSE)
  /\ storedBefore' = storedBefore /\ report' = report /\ origins' = origins

LEMMA OthersKeepStream == OtherSteps => StreamKept
BY DEF OtherSteps, EndOfInput, Receive, FlushTick, Finish, Breaks, StreamKept,
       decoderVars, recorderVars

-----------------------------------------------------------------------------
(* Types.                                                                  *)

LEMMA EventRowType ==
  ASSUME RecorderTypeOK, NEW k \in DOMAIN decoded
  PROVE  EventRow(k) \in RowType
<1>1. /\ decoded \in Seq(DecodedEvents) /\ origins \in Seq(OriginType)
      /\ Len(origins) = Len(decoded)
  BY DEF RecorderTypeOK, DecoderTypeOK, DecodedEvents, OriginType
<1> HIDE DEF DecodedEvents, OriginType
<1>2. decoded[k] \in DecodedEvents /\ origins[k] \in OriginType
  BY <1>1
<1> QED BY <1>2 DEF EventRow, RowType, DecodedEvents, OriginType

(* What was decoded stays, and so do the rows made of it.                  *)
LEMMA RowsStay ==
  ASSUME RecorderTypeOK, RecorderTypeOK',
         \/ decoded' = decoded /\ origins' = origins
         \/ \E e \in DecodedEvents, o \in OriginType :
              Grows(e) /\ origins' = Append(origins, o)
  PROVE  \A k \in DOMAIN decoded :
           /\ k \in DOMAIN decoded' /\ EventRow(k)' = EventRow(k)
           /\ decoded'[k] = decoded[k] /\ origins'[k] = origins[k]
<1>1. CASE decoded' = decoded /\ origins' = origins
  BY <1>1 DEF EventRow
<1>2. ASSUME NEW e \in DecodedEvents, NEW o \in OriginType,
             Grows(e), origins' = Append(origins, o), NEW k \in DOMAIN decoded
      PROVE  /\ k \in DOMAIN decoded' /\ EventRow(k)' = EventRow(k)
             /\ decoded'[k] = decoded[k] /\ origins'[k] = origins[k]
  <2>1. origins \in Seq(OriginType) /\ Len(origins) = Len(decoded)
        /\ decoded \in Seq(DecodedEvents)
    BY DEF RecorderTypeOK, OriginType, DecoderTypeOK, DecodedEvents
  <2> HIDE DEF OriginType, DecodedEvents
  <2>2. k \in 1..Len(origins)
    BY <2>1
  <2>3. origins'[k] = origins[k]
    BY <1>2, <2>1, <2>2
  <2>4. k \in DOMAIN decoded' /\ decoded'[k] = decoded[k]
    BY <1>2 DEF Grows
  <2> QED BY <2>3, <2>4 DEF EventRow
<1> QED BY <1>1, <1>2

LEMMA OriginsAreTyped ==
  ASSUME NEW line \in Hosted
  PROVE  /\ Accepts(line) => Origin(line) \in OriginType
         /\ DiagnosticOrigin \in OriginType
BY RecorderAssumption
   DEF HostedLines, Accepts, parse_envelope, Origin, DiagnosticOrigin, OriginType,
       EventKinds, Payloads, Numbered

(* A line is an event with an origin, or nothing.                          *)
LEMMA LineGrows ==
  ASSUME RecorderTypeOK, NEW line \in Hosted, ReadHostedLine(line)
  PROVE  /\ DecoderNext
         /\ \/ decoded' = decoded /\ origins' = origins
            \/ \E e \in DecodedEvents, o \in OriginType :
                 Grows(e) /\ origins' = Append(origins, o)
BY AcceptedIs, RejectedIs, OriginsAreTyped DEF BecomesEvent, BecomesDiagnostic

ReportType ==
  [lines_total : 0..MaxRecordedLines, lines_valid : 0..MaxRecordedLines,
   errors : 0..MaxRecordedLines, last_seq : [Sessions -> I64 \cup {None}]]

(* Neither count passes the lines read.                                    *)
ReportCounts == report.lines_valid <= report.lines_total /\ report.errors <= report.lines_total

LEMMA ReportStep ==
  ASSUME report \in ReportType, ReportCounts, NEW line \in Hosted,
         report.lines_total < MaxRecordedLines, report' = ValidateLine(report, line)
  PROVE  report' \in ReportType /\ ReportCounts'
<1>1. line \in HostedLines /\ MaxRecordedLines \in Nat
  BY RecorderAssumption
<1> DEFINE valid == LineIsValid(report.last_seq, line)
           last == IF valid /\ Numbered(line)
                   THEN [report.last_seq EXCEPT ![line.session] = line.seq]
                   ELSE report.last_seq
<1>2. last \in [Sessions -> I64 \cup {None}]
  <2>1. report.last_seq \in [Sessions -> I64 \cup {None}]
    BY DEF ReportType
  <2>2. Numbered(line) => line.session \in Sessions /\ line.seq \in I64 \cup {None}
    BY <1>1, HostSeqsFit DEF HostedLines, Numbered
  <2> QED BY <2>1, <2>2
<1> DEFINE count == IF valid THEN report.lines_valid + 1 ELSE report.lines_valid
           wrong == IF valid THEN report.errors ELSE report.errors + 1
<1>3. /\ report.lines_total + 1 \in 0..MaxRecordedLines
      /\ count \in 0..MaxRecordedLines /\ count <= report.lines_total + 1
      /\ wrong \in 0..MaxRecordedLines /\ wrong <= report.lines_total + 1
  <2>1. /\ report.lines_total \in Nat /\ report.lines_valid \in Nat /\ report.errors \in Nat
        /\ report.lines_valid <= report.lines_total /\ report.errors <= report.lines_total
    BY <1>1 DEF ReportType, ReportCounts
  <2>2. CASE valid
    BY <1>1, <2>1, <2>2
  <2>3. CASE ~valid
    BY <1>1, <2>1, <2>3
  <2> QED BY <2>2, <2>3
<1>4. report' = [lines_total |-> report.lines_total + 1, lines_valid |-> count,
                 errors |-> wrong, last_seq |-> last]
  BY DEF ValidateLine
<1> HIDE DEF valid, last, count, wrong
<1> QED BY <1>2, <1>3, <1>4 DEF ReportType, ReportCounts

(* The store, the batch and the loop.                                      *)
LoopType ==
  /\ storedBefore \in Stores /\ stored \in Seq(RowType) /\ batch \in Seq(RowType)
  /\ taken \in 0..Len(decoded)
  /\ recorder \in {"running", "saved", "refused", "broken"}

LEMMA FlushType ==
  ASSUME stored \in Seq(RowType), NEW events \in Seq(RowType),
         NEW next \in {"running", "saved"}, Flush(events, next)
  PROVE  /\ stored' \in Seq(RowType) /\ batch' \in Seq(RowType)
         /\ recorder' \in {"running", "saved", "refused", "broken"}
<1> HIDE DEF RowType
<1>1. stored \o events \in Seq(RowType) /\ batch' = <<>>
  BY DEF Flush
<1>2. \/ stored' = stored \o events /\ recorder' = next
      \/ stored' = stored /\ recorder' = "refused"
  BY DEF Flush, append_batch
<1>3. batch' \in Seq(RowType)
  BY <1>1
<1> QED BY <1>1, <1>2, <1>3

LEMMA LoopStep ==
  ASSUME RecorderTypeOK, OtherSteps
  PROVE  LoopType'
<1>1. /\ LoopType /\ Len(decoded) \in Nat /\ decoded' = decoded
      /\ storedBefore' = storedBefore /\ DOMAIN decoded = 1..Len(decoded)
  BY OthersKeepStream DEF RecorderTypeOK, LoopType, StreamKept, DecoderTypeOK
<1>2. CASE EndOfInput
  BY <1>1, <1>2 DEF EndOfInput, LoopType, recorderVars
<1>3. CASE Receive
  <2> DEFINE events == Append(batch, EventRow(taken + 1))
  <2>1. taken' = taken + 1 /\ taken' \in 0..Len(decoded) /\ taken + 1 \in DOMAIN decoded
    BY <1>1, <1>3 DEF Receive, LoopType
  <2>2. EventRow(taken + 1) \in RowType
    BY <2>1, EventRowType
  <2>3. events \in Seq(RowType)
    BY <1>1, <2>2 DEF LoopType
  <2>4. \/ Flush(events, "running")
        \/ batch' = events /\ stored' = stored /\ recorder' = recorder
    BY <1>3 DEF Receive
  <2> HIDE DEF events
  <2> QED BY <1>1, <2>1, <2>3, <2>4, FlushType DEF LoopType
<1>4. CASE FlushTick
  BY <1>1, <1>4, FlushType DEF FlushTick, LoopType
<1>5. CASE Finish
  BY <1>1, <1>5, FlushType DEF Finish, LoopType
<1>6. CASE Breaks
  BY <1>1, <1>6 DEF Breaks, LoopType
<1> QED BY <1>2, <1>3, <1>4, <1>5, <1>6 DEF OtherSteps

LEMMA RecorderTypeStep ==
  RecorderTypeOK /\ ReportCounts /\ [RecorderNext]_<<decoderVars, recorderVars>>
    => RecorderTypeOK' /\ ReportCounts'
<1> SUFFICES ASSUME RecorderTypeOK, ReportCounts,
                    [RecorderNext]_<<decoderVars, recorderVars>>
             PROVE  RecorderTypeOK' /\ ReportCounts'
  OBVIOUS
<1>1. ASSUME NEW line \in Hosted, ReadHostedLine(line)
      PROVE  RecorderTypeOK' /\ ReportCounts'
  <2>1. DecoderTypeOK'
    BY <1>1, LineGrows, DecoderTypeStep DEF RecorderTypeOK
  <2>2. report' \in ReportType /\ ReportCounts'
    <3>1. report \in ReportType /\ report.lines_total < MaxRecordedLines
      BY <1>1 DEF RecorderTypeOK, ReportType, ReadHostedLine
    <3> QED BY <1>1, <3>1, ReportStep DEF ReadHostedLine
  <2>3. /\ storedBefore' = storedBefore /\ stored' = stored /\ batch' = batch
        /\ taken' = taken /\ recorder' = recorder
    BY <1>1 DEF ReadHostedLine
  <2>4. /\ origins' \in Seq(OriginType) /\ Len(origins') = Len(decoded')
        /\ Len(decoded') \in Nat /\ Len(decoded) <= Len(decoded')
    <3>1. /\ origins \in Seq(OriginType) /\ Len(origins) = Len(decoded)
          /\ Len(decoded) \in Nat
      BY DEF RecorderTypeOK, OriginType, DecoderTypeOK
    <3> HIDE DEF OriginType
    <3>2. CASE decoded' = decoded /\ origins' = origins
      BY <3>1, <3>2
    <3>3. ASSUME NEW e \in DecodedEvents, NEW o \in OriginType,
                 Grows(e), origins' = Append(origins, o)
          PROVE  /\ origins' \in Seq(OriginType) /\ Len(origins') = Len(decoded')
                 /\ Len(decoded') \in Nat /\ Len(decoded) <= Len(decoded')
      BY <3>1, <3>3 DEF Grows
    <3> QED BY <1>1, <3>2, <3>3, LineGrows
  <2>5. taken \in 0..Len(decoded')
    BY <2>4 DEF RecorderTypeOK, DecoderTypeOK
  <2> QED BY <2>1, <2>2, <2>3, <2>4, <2>5 DEF RecorderTypeOK, ReportType, OriginType
<1>2. CASE OtherSteps
  <2>1. StreamKept
    BY <1>2, OthersKeepStream
  <2>2. LoopType'
    BY <1>2, LoopStep
  <2>3. DecoderTypeOK'
    BY <2>1 DEF StreamKept, RecorderTypeOK, DecoderTypeOK
  <2> QED BY <2>1, <2>2, <2>3 DEF StreamKept, RecorderTypeOK, LoopType, ReportCounts
<1>3. CASE UNCHANGED <<decoderVars, recorderVars>>
  BY <1>3 DEF decoderVars, recorderVars, RecorderTypeOK, DecoderTypeOK, ReportCounts
<1> QED BY <1>1, <1>2, <1>3 DEF RecorderNext, OtherSteps

-----------------------------------------------------------------------------
(* What the store holds: first what it held, then the events in order.     *)
RowAt(n) == IF n <= Len(storedBefore) THEN storedBefore[n]
                                      ELSE EventRow(n - Len(storedBefore))
Arrived == Len(storedBefore) + taken

StoredInOrder == \A n \in 1..Len(stored) : stored[n] = RowAt(n)
BatchIsNext ==
  /\ Len(stored) + Len(batch) = Arrived
  /\ \A k \in 1..Len(batch) : batch[k] = RowAt(Len(stored) + k)
  /\ Len(batch) < BatchSize \/ Len(batch) = 0
ArrivedClash == \E i, j \in 1..Arrived : i < j /\ Clashes(RowAt(i), RowAt(j))

RecorderInv ==
  /\ Len(storedBefore) <= Len(stored) /\ Len(stored) <= Arrived
  /\ StoredInOrder
  /\ recorder = "running" => BatchIsNext
  /\ recorder = "saved" => Len(stored) = Len(storedBefore) + Len(decoded)
  /\ recorder = "refused" => ArrivedClash
  /\ Len(decoded) - taken <= ChannelCap /\ Arrived - Len(stored) <= LargestBatch

LEMMA LengthsAreNat ==
  ASSUME RecorderTypeOK
  PROVE  /\ Len(storedBefore) \in Nat /\ Len(stored) \in Nat /\ Len(batch) \in Nat
         /\ Len(decoded) \in Nat /\ taken \in Nat /\ taken <= Len(decoded)
         /\ Arrived \in Nat /\ LargestBatch \in Nat
         /\ DOMAIN decoded = 1..Len(decoded)
<1>1. /\ stored \in Seq(RowType) /\ batch \in Seq(RowType) /\ storedBefore \in Seq(RowType)
      /\ decoded \in Seq(DecodedEvents) /\ taken \in 0..Len(decoded)
  BY RecorderAssumption DEF RecorderTypeOK, DecoderTypeOK, DecodedEvents
<1> HIDE DEF RowType, DecodedEvents
<1>2. Len(storedBefore) \in Nat /\ Len(stored) \in Nat /\ Len(batch) \in Nat
      /\ Len(decoded) \in Nat /\ DOMAIN decoded = 1..Len(decoded)
  BY <1>1
<1>3. taken \in Nat /\ taken <= Len(decoded)
  BY <1>1, <1>2
<1> QED BY <1>2, <1>3, RecorderAssumption DEF Arrived, LargestBatch

(* A flush writes the next rows, or finds two that clash.                  *)
LEMMA FlushWrites ==
  ASSUME RecorderTypeOK, NEW events \in Seq(RowType), NEW next, NEW n \in Nat,
         Len(stored) + Len(events) = n, StoredInOrder,
         \A k \in 1..Len(events) : events[k] = RowAt(Len(stored) + k),
         Flush(events, next)
  PROVE  /\ batch' = <<>>
         /\ \/ /\ recorder' = next /\ Len(stored') = n
               /\ \A i \in 1..n : stored'[i] = RowAt(i)
            \/ /\ recorder' = "refused" /\ stored' = stored
               /\ \E i, j \in 1..n : i < j /\ Clashes(RowAt(i), RowAt(j))
<1> DEFINE all == stored \o events
<1>1. stored \in Seq(RowType)
  BY DEF RecorderTypeOK
<1> HIDE DEF RowType
<1>2. all \in Seq(RowType) /\ Len(all) = n /\ DOMAIN all = 1..n
  BY <1>1
<1>3. ASSUME NEW i \in 1..n PROVE all[i] = RowAt(i)
  <2>1. CASE i <= Len(stored)
    <3>1. i \in 1..Len(stored) /\ all[i] = stored[i]
      BY <1>1, <1>3, <2>1
    <3> QED BY <3>1 DEF StoredInOrder
  <2>2. CASE i > Len(stored)
    <3>1. i - Len(stored) \in 1..Len(events) /\ all[i] = events[i - Len(stored)]
      BY <1>1, <1>3, <2>2
    <3>2. events[i - Len(stored)] = RowAt(Len(stored) + (i - Len(stored)))
      BY <3>1
    <3>3. Len(stored) + (i - Len(stored)) = i
      BY <1>1, <1>3
    <3> QED BY <3>1, <3>2, <3>3
  <2> QED BY <1>1, <1>3, <2>1, <2>2
<1>4. Refused(all) => \E i, j \in 1..n : i < j /\ Clashes(RowAt(i), RowAt(j))
  BY <1>2, <1>3 DEF Refused
<1>5. /\ batch' = <<>>
      /\ \/ stored' = all /\ recorder' = next
         \/ Refused(all) /\ stored' = stored /\ recorder' = "refused"
  BY DEF Flush, append_batch
<1> HIDE DEF all
<1> QED BY <1>2, <1>3, <1>4, <1>5

(* A flush of everything that has arrived, as a step of the loop.          *)
LEMMA FlushKeeps ==
  ASSUME RecorderTypeOK, RecorderInv, StreamKept, taken' \in Nat,
         NEW events \in Seq(RowType), NEW next \in {"running", "saved"},
         Len(stored) + Len(events) = Arrived', taken <= taken', taken' <= Len(decoded),
         \A k \in 1..Len(events) : events[k] = RowAt(Len(stored) + k),
         Len(events) <= LargestBatch,
         next = "saved" => taken' = Len(decoded),
         Flush(events, next)
  PROVE  RecorderInv'
<1>1. /\ decoded' = decoded /\ origins' = origins /\ storedBefore' = storedBefore
      /\ \A n : RowAt(n)' = RowAt(n)
  BY DEF StreamKept, RowAt, EventRow
<1>2. Arrived' = Len(storedBefore) + taken' /\ Arrived' \in Nat
  BY <1>1, LengthsAreNat DEF Arrived
<1>3. /\ batch' = <<>>
      /\ \/ /\ recorder' = next /\ Len(stored') = Arrived'
            /\ \A i \in 1..Arrived' : stored'[i] = RowAt(i)
         \/ /\ recorder' = "refused" /\ stored' = stored
            /\ \E i, j \in 1..Arrived' : i < j /\ Clashes(RowAt(i), RowAt(j))
  BY <1>2, FlushWrites DEF RecorderInv
<1>4. LargestBatch' = LargestBatch /\ LargestBatch \in Nat /\ ChannelCap \in Nat
  BY LengthsAreNat, RecorderAssumption DEF LargestBatch
<1>5. /\ Len(decoded') - taken' <= ChannelCap
      /\ Len(storedBefore') <= Len(stored)
  BY <1>1, <1>4, LengthsAreNat DEF RecorderInv
<1>6. CASE /\ recorder' = next /\ Len(stored') = Arrived'
           /\ \A i \in 1..Arrived' : stored'[i] = RowAt(i)
  <2>1. StoredInOrder'
    BY <1>1, <1>6 DEF StoredInOrder
  <2>2. BatchIsNext'
    <3>1. Len(batch') = 0
      BY <1>3
    <3> QED BY <1>2, <1>6, <3>1 DEF BatchIsNext
  <2>3. recorder' = "saved" => Len(stored') = Len(storedBefore') + Len(decoded')
    BY <1>1, <1>2, <1>6
  <2>4. /\ Len(storedBefore') <= Len(stored') /\ Len(stored') <= Arrived'
        /\ Arrived' - Len(stored') <= LargestBatch
    <3>1. Len(storedBefore) <= Arrived'
      BY <1>2, LengthsAreNat
    <3>2. Arrived' - Arrived' = 0 /\ 0 <= LargestBatch
      BY <1>2, <1>4
    <3>3. Len(storedBefore') = Len(storedBefore) /\ Len(stored') = Arrived'
      BY <1>1, <1>6
    <3> HIDE DEF Arrived, LargestBatch
    <3> QED BY <1>2, <3>1, <3>2, <3>3
  <2> QED BY <1>4, <1>5, <1>6, <2>1, <2>2, <2>3, <2>4 DEF RecorderInv
<1>7. CASE /\ recorder' = "refused" /\ stored' = stored
           /\ \E i, j \in 1..Arrived' : i < j /\ Clashes(RowAt(i), RowAt(j))
  <2>1. StoredInOrder'
    BY <1>1, <1>7 DEF StoredInOrder, RecorderInv
  <2>2. ArrivedClash'
    BY <1>1, <1>7 DEF ArrivedClash, Clashes
  <2>3. Len(stored') <= Arrived' /\ Arrived' - Len(stored') <= LargestBatch
    <3>1. Len(events) \in Nat
      OBVIOUS
    <3> QED BY <1>2, <1>4, <1>7, <3>1, LengthsAreNat
  <2> QED BY <1>4, <1>5, <1>7, <2>1, <2>2, <2>3 DEF RecorderInv
<1> QED BY <1>3, <1>6, <1>7

LEMMA ReceiveKeeps ==
  ASSUME RecorderTypeOK, RecorderInv, Receive
  PROVE  RecorderInv'
<1> DEFINE row == EventRow(taken + 1)
           events == Append(batch, row)
<1>1. StreamKept /\ recorder = "running" /\ taken' = taken + 1 /\ taken < Len(decoded)
  BY OthersKeepStream DEF OtherSteps, Receive
<1>2. batch \in Seq(RowType) /\ row \in RowType
  <2>1. taken + 1 \in DOMAIN decoded
    BY <1>1, LengthsAreNat
  <2> QED BY <2>1, EventRowType DEF RecorderTypeOK
<1>3. Len(stored) + Len(batch) = Arrived /\ Len(batch) \in Nat
      /\ (Len(batch) < BatchSize \/ Len(batch) = 0)
      /\ \A k \in 1..Len(batch) : batch[k] = RowAt(Len(stored) + k)
  BY <1>1, LengthsAreNat DEF RecorderInv, BatchIsNext
<1> HIDE DEF RowType, row
<1>4. /\ events \in Seq(RowType) /\ Len(events) = Len(batch) + 1
      /\ events[Len(batch) + 1] = row
      /\ \A k \in 1..Len(batch) : events[k] = batch[k]
  BY <1>2
<1>5. \/ Flush(events, "running")
      \/ /\ batch' = events /\ stored' = stored /\ recorder' = recorder
         /\ ~(Len(events) >= BatchSize)
  BY DEF Receive, row
<1> HIDE DEF events
<1>6. Arrived' = Arrived + 1 /\ Len(stored) + Len(events) = Arrived'
  <2>1. Arrived' = Len(storedBefore) + (taken + 1)
    BY <1>1 DEF Arrived, StreamKept
  <2>2. Arrived' = Arrived + 1
    BY <2>1, LengthsAreNat DEF Arrived
  <2> QED BY <1>3, <1>4, <2>2, LengthsAreNat
<1>7. row = RowAt(Arrived + 1)
  <2>1. Arrived + 1 > Len(storedBefore) /\ Arrived + 1 - Len(storedBefore) = taken + 1
    BY LengthsAreNat DEF Arrived
  <2> QED BY <2>1, LengthsAreNat DEF RowAt, row
<1>8. ASSUME NEW k \in 1..Len(events) PROVE events[k] = RowAt(Len(stored) + k)
  <2>1. CASE k \in 1..Len(batch)
    BY <1>3, <1>4, <2>1
  <2>2. CASE k = Len(batch) + 1
    <3>1. Len(stored) + k = Arrived + 1
      BY <1>3, <2>2, LengthsAreNat
    <3> QED BY <1>4, <1>7, <2>2, <3>1
  <2> QED BY <1>3, <1>4, <2>1, <2>2
<1>9. Len(events) <= LargestBatch
  BY <1>3, <1>4, RecorderAssumption DEF LargestBatch
<1>10. CASE Flush(events, "running")
  <2>1. taken' \in Nat /\ taken <= taken' /\ taken' <= Len(decoded)
    BY <1>1, LengthsAreNat
  <2> QED BY <1>1, <1>4, <1>6, <1>8, <1>9, <1>10, <2>1, FlushKeeps
<1>11. CASE /\ batch' = events /\ stored' = stored /\ recorder' = recorder
            /\ ~(Len(events) >= BatchSize)
  <2>1. /\ decoded' = decoded /\ storedBefore' = storedBefore
        /\ \A n : RowAt(n)' = RowAt(n)
    BY <1>1 DEF StreamKept, RowAt, EventRow
  <2>2. StoredInOrder'
    BY <1>11, <2>1 DEF RecorderInv, StoredInOrder
  <2>3. BatchIsNext'
    <3>1. Len(events) < BatchSize
      BY <1>3, <1>4, <1>11, RecorderAssumption
    <3> QED BY <1>6, <1>8, <1>11, <2>1, <3>1 DEF BatchIsNext
  <2>4. /\ Len(storedBefore') <= Len(stored') /\ Len(stored') <= Arrived'
        /\ Len(decoded') - taken' <= ChannelCap
        /\ Arrived' - Len(stored') <= LargestBatch
    <3>1. /\ Len(storedBefore') = Len(storedBefore) /\ Len(stored') = Len(stored)
          /\ Len(decoded') = Len(decoded)
      BY <1>11, <2>1
    <3>2. /\ Len(storedBefore) <= Len(stored) /\ Len(decoded) - taken <= ChannelCap
      BY DEF RecorderInv
    <3>3. Len(stored) <= Arrived' /\ Arrived' - Len(stored) <= LargestBatch
      BY <1>3, <1>4, <1>6, <1>9, LengthsAreNat
    <3>4. Len(decoded) - taken' <= ChannelCap
      BY <1>1, <3>2, LengthsAreNat, RecorderAssumption
    <3> QED BY <3>1, <3>2, <3>3, <3>4
  <2>5. recorder' = "running" /\ LargestBatch' = LargestBatch
    BY <1>1, <1>11 DEF LargestBatch
  <2> QED BY <2>2, <2>3, <2>4, <2>5 DEF RecorderInv
<1> QED BY <1>5, <1>10, <1>11

LEMMA LineKeepsRecording ==
  ASSUME RecorderTypeOK, RecorderTypeOK', RecorderInv, NEW line \in Hosted,
         ReadHostedLine(line)
  PROVE  RecorderInv'
<1>1. /\ recorder = "running" /\ Len(decoded) - taken < ChannelCap
      /\ storedBefore' = storedBefore /\ stored' = stored /\ batch' = batch
      /\ taken' = taken /\ recorder' = recorder
  BY DEF ReadHostedLine
<1>2. \A k \in DOMAIN decoded : EventRow(k)' = EventRow(k)
  BY LineGrows, RowsStay
<1>3. Arrived' = Arrived /\ LargestBatch' = LargestBatch
  BY <1>1 DEF Arrived, LargestBatch
<1>4. ASSUME NEW n \in 1..Arrived PROVE RowAt(n)' = RowAt(n)
  <2>1. n > Len(storedBefore) => n - Len(storedBefore) \in DOMAIN decoded
    BY LengthsAreNat DEF Arrived
  <2> QED BY <1>1, <1>2, <2>1, LengthsAreNat DEF RowAt
<1>5. Len(decoded') - taken' <= ChannelCap
  <2>1. decoded' = decoded \/ Len(decoded') = Len(decoded) + 1
    BY LineGrows DEF Grows
  <2> QED BY <1>1, <2>1, LengthsAreNat, RecorderAssumption
<1>6. StoredInOrder'
  BY <1>1, <1>4, LengthsAreNat DEF RecorderInv, StoredInOrder
<1>7. BatchIsNext'
  <2>1. BatchIsNext
    BY <1>1 DEF RecorderInv
  <2>2. \A k \in 1..Len(batch) : Len(stored) + k \in 1..Arrived
    BY <2>1, LengthsAreNat DEF BatchIsNext
  <2> QED BY <1>1, <1>3, <1>4, <2>1, <2>2 DEF BatchIsNext
<1> QED BY <1>1, <1>3, <1>5, <1>6, <1>7 DEF RecorderInv

LEMMA RecorderInvStep ==
  RecorderTypeOK /\ RecorderTypeOK' /\ RecorderInv
    /\ [RecorderNext]_<<decoderVars, recorderVars>> => RecorderInv'
<1> SUFFICES ASSUME RecorderTypeOK, RecorderTypeOK', RecorderInv,
                    [RecorderNext]_<<decoderVars, recorderVars>>
             PROVE  RecorderInv'
  OBVIOUS
<1>1. ASSUME NEW line \in Hosted, ReadHostedLine(line) PROVE RecorderInv'
  BY <1>1, LineKeepsRecording
<1>2. CASE EndOfInput \/ UNCHANGED <<decoderVars, recorderVars>>
  <2>1. /\ decoded' = decoded /\ origins' = origins /\ storedBefore' = storedBefore
        /\ stored' = stored /\ batch' = batch /\ taken' = taken /\ recorder' = recorder
    BY <1>2 DEF EndOfInput, decoderVars, recorderVars
  <2>2. \A n : RowAt(n)' = RowAt(n)
    BY <2>1 DEF RowAt, EventRow
  <2>3. Arrived' = Arrived /\ LargestBatch' = LargestBatch
    BY <2>1 DEF Arrived, LargestBatch
  <2> QED BY <2>1, <2>2, <2>3 DEF RecorderInv, StoredInOrder, BatchIsNext, ArrivedClash, Clashes
<1>3. CASE Receive
  BY <1>3, ReceiveKeeps
<1>4. ASSUME NEW next \in {"running", "saved"}, recorder = "running", StreamKept,
             taken = Len(decoded), taken' = taken, Flush(batch, next)
      PROVE  RecorderInv'
  <2>1. batch \in Seq(RowType) /\ BatchIsNext
    BY <1>4 DEF RecorderTypeOK, RecorderInv
  <2>2. Arrived' = Arrived /\ taken' \in Nat /\ taken <= taken' /\ taken' <= Len(decoded)
    BY <1>4, LengthsAreNat DEF Arrived, StreamKept
  <2>3. Len(batch) <= LargestBatch
    BY <2>1, LengthsAreNat, RecorderAssumption DEF BatchIsNext, LargestBatch
  <2> QED BY <1>4, <2>1, <2>2, <2>3, FlushKeeps DEF BatchIsNext
<1>5. CASE FlushTick \/ Finish
  BY <1>4, <1>5, OthersKeepStream DEF FlushTick, Finish, OtherSteps
<1>6. CASE Breaks
  <2>1. /\ decoded' = decoded /\ origins' = origins /\ storedBefore' = storedBefore
        /\ stored' = stored /\ taken' = taken /\ recorder' = "broken"
    BY <1>6 DEF Breaks, decoderVars
  <2>2. \A n : RowAt(n)' = RowAt(n)
    BY <2>1 DEF RowAt, EventRow
  <2>3. Arrived' = Arrived /\ LargestBatch' = LargestBatch
    BY <2>1 DEF Arrived, LargestBatch
  <2> QED BY <2>1, <2>2, <2>3 DEF RecorderInv, StoredInOrder
<1> QED BY <1>1, <1>2, <1>3, <1>5, <1>6 DEF RecorderNext

LEMMA InOrderIsPrefix ==
  ASSUME RecorderTypeOK, RecorderInv
  PROVE  RecordingIsPrefix
<1> DEFINE events == [k \in 1..Added |-> EventRow(k)]
<1>1. Added \in 0..taken /\ Added \in Nat /\ Len(storedBefore) + Added = Len(stored)
  BY LengthsAreNat DEF RecorderInv, Arrived, Added
<1>2. stored \in Seq(RowType) /\ batch \in Seq(RowType) /\ storedBefore \in Seq(RowType)
  BY RecorderAssumption DEF RecorderTypeOK
<1>3. \A k \in 1..Added : EventRow(k) \in RowType
  BY <1>1, LengthsAreNat, EventRowType
<1> HIDE DEF RowType, Added
<1>4. events \in Seq(RowType) /\ Len(events) = Added
      /\ \A k \in 1..Added : events[k] = EventRow(k)
  BY <1>1, <1>3
<1> HIDE DEF events
<1>5. stored = storedBefore \o events
  <2> DEFINE all == storedBefore \o events
  <2>1. all \in Seq(RowType) /\ Len(all) = Len(stored)
    BY <1>1, <1>2, <1>4
  <2>2. ASSUME NEW n \in 1..Len(stored) PROVE all[n] = stored[n]
    <3>1. stored[n] = RowAt(n)
      BY DEF RecorderInv, StoredInOrder
    <3>2. CASE n <= Len(storedBefore)
      BY <1>2, <1>4, <3>1, <3>2 DEF RowAt
    <3>3. CASE n > Len(storedBefore)
      <4>1. n - Len(storedBefore) \in 1..Added
        BY <1>1, <3>3, LengthsAreNat
      <4>2. all[n] = events[n - Len(storedBefore)]
        BY <1>2, <1>4, <4>1, <3>3, LengthsAreNat
      <4>3. RowAt(n) = EventRow(n - Len(storedBefore))
        BY <3>3, LengthsAreNat DEF RowAt
      <4> QED BY <1>4, <3>1, <4>1, <4>2, <4>3
    <3> HIDE DEF all
    <3>4. n \in Nat /\ Len(storedBefore) \in Nat
      BY LengthsAreNat
    <3>5. n <= Len(storedBefore) \/ n > Len(storedBefore)
      BY <3>4
    <3> QED BY <3>2, <3>3, <3>5
  <2> HIDE DEF all
  <2>3. all = stored
    BY <1>2, <2>1, <2>2, SeqEqual
  <2> QED BY <2>3 DEF all
<1>6. ASSUME recorder = "running"
      PROVE  /\ batch = [k \in 1..(taken - Added) |-> EventRow(Added + k)]
             /\ Len(batch) < BatchSize \/ batch = <<>>
  <2>1. BatchIsNext
    BY <1>6 DEF RecorderInv
  <2>2. Len(batch) = taken - Added
    BY <1>1, <2>1, LengthsAreNat DEF BatchIsNext, Arrived
  <2>3. ASSUME NEW k \in 1..Len(batch) PROVE batch[k] = EventRow(Added + k)
    <3>1. batch[k] = RowAt(Len(stored) + k)
      BY <2>1 DEF BatchIsNext
    <3>2. /\ Len(stored) + k > Len(storedBefore)
          /\ Len(stored) + k - Len(storedBefore) = Added + k
      BY <1>1, LengthsAreNat
    <3> QED BY <3>1, <3>2, LengthsAreNat DEF RowAt
  <2>4. batch = [k \in 1..Len(batch) |-> batch[k]]
    BY <1>2
  <2>5. [k \in 1..Len(batch) |-> batch[k]] = [k \in 1..Len(batch) |-> EventRow(Added + k)]
    BY <2>3
  <2>6. Len(batch) < BatchSize \/ batch = <<>>
    BY <1>2, <2>1 DEF BatchIsNext
  <2> QED BY <2>2, <2>4, <2>5, <2>6
<1>7. recorder = "saved" => Added = Len(decoded)
  BY LengthsAreNat DEF RecorderInv, Added
<1>8. Len(decoded) - Added <= ChannelCap + LargestBatch
  BY <1>1, LengthsAreNat, RecorderAssumption DEF RecorderInv, Arrived
<1> QED BY <1>1, <1>5, <1>6, <1>7, <1>8 DEF RecordingIsPrefix, events

-----------------------------------------------------------------------------
(* What the validator has compared rises in every session, as long as it   *)
(* has found nothing wrong.                                                *)
ComparedRises(k) ==
  /\ report.last_seq[decoded[k].session] # None
  /\ decoded[k].seq <= report.last_seq[decoded[k].session]
  /\ \A i \in 1..(k - 1) :
       origins[i].compared /\ decoded[i].session = decoded[k].session
         => decoded[i].seq < decoded[k].seq

ReportTracks ==
  ExitsZero(report) => \A k \in DOMAIN decoded : origins[k].compared => ComparedRises(k)

(* One valid line: the last numbers only rise.                             *)
LEMMA LastSeqRises ==
  ASSUME RecorderTypeOK, NEW line \in Hosted, report' = ValidateLine(report, line),
         ExitsZero(report')
  PROVE  /\ ExitsZero(report) /\ LineIsValid(report.last_seq, line)
         /\ \A s \in Sessions : report.last_seq[s] # None =>
              /\ report'.last_seq[s] # None
              /\ report.last_seq[s] \in Int /\ report'.last_seq[s] \in Int
              /\ report.last_seq[s] <= report'.last_seq[s]
         /\ Numbered(line) => report'.last_seq[line.session] = line.seq
<1> DEFINE last == report.last_seq
<1>1. /\ last \in [Sessions -> I64 \cup {None}] /\ I64 \subseteq Int
      /\ report.errors \in Nat /\ line \in HostedLines
  BY RecorderAssumption, DecoderAssumption DEF RecorderTypeOK, I64
<1>2. LineIsValid(last, line) /\ ExitsZero(report)
  BY <1>1 DEF ValidateLine, ExitsZero
<1>3. report'.last_seq = IF Numbered(line) THEN [last EXCEPT ![line.session] = line.seq]
                                           ELSE last
  BY <1>2 DEF ValidateLine
<1> HIDE DEF last
<1>4. CASE ~Numbered(line)
  <2>1. report'.last_seq = last
    BY <1>3, <1>4
  <2>2. \A s \in Sessions : last[s] # None => last[s] \in Int
    BY <1>1
  <2>3. \A s \in Sessions : last[s] # None => last[s] <= last[s]
    BY <2>2
  <2>4. \A s \in Sessions : last[s] # None =>
          /\ report'.last_seq[s] # None
          /\ last[s] \in Int /\ report'.last_seq[s] \in Int
          /\ last[s] <= report'.last_seq[s]
    BY <2>1, <2>2, <2>3
  <2> QED BY <1>2, <1>4, <2>4 DEF last
<1>5. CASE Numbered(line)
  <2>1. line.session \in Sessions /\ line.seq \in I64 /\ line.seq # None
    BY <1>1, <1>5, HostSeqsFit DEF HostedLines, Numbered
  <2>2. last[line.session] = None \/ line.seq > last[line.session]
    BY <1>2, <1>5 DEF LineIsValid, Follows
  <2>3. /\ report'.last_seq[line.session] = line.seq
        /\ \A s \in Sessions : s # line.session => report'.last_seq[s] = last[s]
    BY <1>1, <1>3, <1>5, <2>1
  <2>4. ASSUME NEW s \in Sessions, last[s] # None
        PROVE  /\ report'.last_seq[s] # None
               /\ last[s] \in Int /\ report'.last_seq[s] \in Int
               /\ last[s] <= report'.last_seq[s]
    <3>1. last[s] \in Int
      BY <1>1, <2>4
    <3>2. CASE s = line.session
      <4>1. report'.last_seq[s] = line.seq
        BY <2>3, <3>2
      <4>2. line.seq \in Int /\ line.seq > last[s]
        BY <1>1, <2>1, <2>2, <2>4, <3>2
      <4> QED BY <2>1, <3>1, <4>1, <4>2
    <3>3. CASE s # line.session
      BY <2>3, <2>4, <3>1, <3>3
    <3> QED BY <3>2, <3>3
  <2> QED BY <1>2, <2>3, <2>4 DEF last
<1> QED BY <1>4, <1>5

LEMMA TracksStep ==
  RecorderTypeOK /\ RecorderTypeOK' /\ ReportTracks
    /\ [RecorderNext]_<<decoderVars, recorderVars>> => ReportTracks'
<1> SUFFICES ASSUME RecorderTypeOK, RecorderTypeOK', ReportTracks,
                    [RecorderNext]_<<decoderVars, recorderVars>>
             PROVE  ReportTracks'
  OBVIOUS
<1>1. ASSUME NEW line \in Hosted, ReadHostedLine(line), ExitsZero(report'),
             NEW k \in DOMAIN decoded', origins'[k].compared
      PROVE  ComparedRises(k)'
  <2>1. report' = ValidateLine(report, line)
    BY <1>1 DEF ReadHostedLine
  <2>2. /\ ExitsZero(report) /\ LineIsValid(report.last_seq, line)
        /\ \A s \in Sessions : report.last_seq[s] # None =>
             /\ report'.last_seq[s] # None
             /\ report.last_seq[s] \in Int /\ report'.last_seq[s] \in Int
             /\ report.last_seq[s] <= report'.last_seq[s]
        /\ Numbered(line) => report'.last_seq[line.session] = line.seq
    BY <1>1, <2>1, LastSeqRises
  <2>3. /\ DOMAIN decoded = 1..Len(decoded) /\ DOMAIN decoded' = 1..Len(decoded')
        /\ Len(decoded) \in Nat /\ Len(decoded') \in Nat
        /\ \A i \in 1..Len(decoded) :
             decoded[i].session \in Sessions /\ decoded[i].seq \in Int
    <3>1. decoded \in Seq(DecodedEvents) /\ decoded' \in Seq(DecodedEvents)
      BY DEF RecorderTypeOK, DecoderTypeOK, DecodedEvents
    <3>2. \A e \in DecodedEvents : e.session \in Sessions /\ e.seq \in Int
      BY DecoderAssumption DEF DecodedEvents, I64
    <3> HIDE DEF DecodedEvents
    <3> QED BY <3>1, <3>2
  <2>4. \A i \in 1..Len(decoded) : decoded'[i] = decoded[i] /\ origins'[i] = origins[i]
    BY <1>1, <2>3, LineGrows, RowsStay
  <2>5. CASE k \in 1..Len(decoded)
    <3>1. ComparedRises(k)
      BY <1>1, <2>2, <2>3, <2>4, <2>5 DEF ReportTracks
    <3> DEFINE s == decoded[k].session
    <3>2. s \in Sessions /\ report.last_seq[s] # None /\ decoded[k].seq <= report.last_seq[s]
          /\ decoded[k].seq \in Int
      BY <2>3, <2>5, <3>1 DEF ComparedRises
    <3>3. report'.last_seq[s] # None /\ decoded[k].seq <= report'.last_seq[s]
      BY <2>2, <3>2
    <3>4. \A i \in 1..(k - 1) : i \in 1..Len(decoded)
      BY <2>3, <2>5
    <3> QED BY <2>4, <2>5, <3>1, <3>3, <3>4 DEF ComparedRises
  <2>6. CASE k \notin 1..Len(decoded)
    <3>1. BecomesEvent(line)
      <4>1. CASE Accepts(line)
        BY <1>1, <4>1, AcceptedIs
      <4>2. CASE BecomesDiagnostic
        <5>1. Len(decoded') = Len(decoded) + 1 /\ origins' = Append(origins, DiagnosticOrigin)
          BY <4>2 DEF BecomesDiagnostic, Grows
        <5>2. Len(origins) = Len(decoded) /\ origins \in Seq(OriginType)
          BY DEF RecorderTypeOK, OriginType
        <5> HIDE DEF OriginType
        <5>3. k = Len(origins) + 1
          BY <1>1, <2>3, <2>6, <5>1, <5>2
        <5>4. origins'[k] = DiagnosticOrigin
          BY <5>1, <5>2, <5>3
        <5> QED BY <1>1, <5>4 DEF DiagnosticOrigin
      <4>3. CASE decoded' = decoded
        BY <1>1, <2>3, <2>6, <4>3
      <4> QED BY <1>1, <4>1, <4>2, <4>3, RejectedIs
    <3>2. PICK e \in DecodedEvents :
            /\ Grows(e) /\ origins' = Append(origins, Origin(line))
            /\ Numbered(line) => e.session = line.session /\ e.seq = line.seq
      BY <3>1 DEF BecomesEvent
    <3>3. k = Len(decoded) + 1 /\ decoded'[k] = e
      BY <1>1, <2>3, <2>6, <3>2 DEF Grows
    <3>4. Numbered(line)
      <4>1. Len(origins) = Len(decoded) /\ origins \in Seq(OriginType)
        BY DEF RecorderTypeOK, OriginType
      <4> HIDE DEF OriginType
      <4>2. origins'[k] = Origin(line)
        BY <3>2, <3>3, <4>1
      <4> QED BY <1>1, <4>2 DEF Origin
    <3>5. /\ e.session = line.session /\ e.seq = line.seq /\ e.session \in Sessions
          /\ e.seq \in Int
      BY <3>2, <3>4, DecoderAssumption DEF DecodedEvents, I64
    <3>6. report'.last_seq[e.session] = e.seq /\ e.seq # None
      BY <2>2, <3>4, <3>5 DEF Numbered
    <3>7. ASSUME NEW i \in 1..(k - 1), origins'[i].compared,
                 decoded'[i].session = decoded'[k].session
          PROVE  decoded'[i].seq < decoded'[k].seq
      <4>1. i \in 1..Len(decoded) /\ decoded'[i] = decoded[i] /\ origins'[i] = origins[i]
        BY <2>3, <2>4, <3>3
      <4>2. ComparedRises(i)
        BY <2>2, <2>3, <3>7, <4>1 DEF ReportTracks
      <4>3. /\ report.last_seq[e.session] # None
            /\ decoded[i].seq <= report.last_seq[e.session]
        BY <3>3, <3>7, <4>1, <4>2 DEF ComparedRises
      <4>4. e.seq > report.last_seq[e.session]
        BY <2>2, <3>4, <3>5, <4>3 DEF LineIsValid, Follows
      <4>5. report.last_seq[e.session] \in Int /\ decoded[i].seq \in Int
        BY <2>2, <2>3, <3>5, <4>1, <4>3
      <4> QED BY <3>3, <3>5, <4>1, <4>3, <4>4, <4>5
    <3> QED BY <3>3, <3>5, <3>6, <3>7 DEF ComparedRises
  <2> QED BY <2>5, <2>6
<1>2. CASE OtherSteps \/ UNCHANGED <<decoderVars, recorderVars>>
  <2>1. decoded' = decoded /\ origins' = origins /\ report' = report
    BY <1>2, OthersKeepStream DEF StreamKept, decoderVars, recorderVars
  <2> QED BY <2>1 DEF ReportTracks, ComparedRises, ExitsZero
<1> QED BY <1>1, <1>2 DEF RecorderNext, OtherSteps, ReportTracks

(* The recorder reads through the decoder: its numbers are new as well.    *)
LEMMA RecorderNumbersStep ==
  RecorderTypeOK /\ RecorderTypeOK' /\ AssignedSeqIsNew /\ CountersAhead
    /\ [RecorderNext]_<<decoderVars, recorderVars>>
    => AssignedSeqIsNew' /\ CountersAhead'
<1> SUFFICES ASSUME RecorderTypeOK, RecorderTypeOK', AssignedSeqIsNew, CountersAhead,
                    [RecorderNext]_<<decoderVars, recorderVars>>
             PROVE  AssignedSeqIsNew' /\ CountersAhead'
  OBVIOUS
<1>1. ASSUME NEW line \in Hosted, ReadHostedLine(line)
      PROVE  AssignedSeqIsNew' /\ CountersAhead'
  BY <1>1, LineGrows, NumbersStep DEF RecorderTypeOK
<1>2. CASE OtherSteps \/ UNCHANGED <<decoderVars, recorderVars>>
  <2>1. /\ seqs' = seqs /\ decoded' = decoded
        /\ reading' = reading \/ reading' = FALSE
    BY <1>2, OthersKeepStream DEF StreamKept, decoderVars
  <2>2. \A x : StartedOver(x)' = StartedOver(x) /\ Ahead(x)' = Ahead(x)
    BY <2>1 DEF StartedOver, Ahead, Counter
  <2> QED BY <2>1, <2>2, StoppedIsNew DEF CountersAhead
<1> QED BY <1>1, <1>2 DEF RecorderNext, OtherSteps

(* Two rows that clash are one of the three kinds of RefusalHasReason.     *)
LEMMA ClashHasReason ==
  ASSUME RecorderTypeOK, RecorderInv, ReportTracks, AssignedSeqIsNew
  PROVE  RefusalHasReason
<1> SUFFICES ASSUME recorder = "refused", ExitsZero(report) PROVE RefusalHasReason
  BY DEF RefusalHasReason
<1> DEFINE B == Len(storedBefore)
<1>1. B \in Nat /\ Arrived = B + taken /\ taken \in Nat /\ taken <= Len(decoded)
      /\ DOMAIN decoded = 1..Len(decoded) /\ Len(decoded) \in Nat
  BY LengthsAreNat DEF Arrived
<1>2. PICK m, n \in 1..Arrived : m < n /\ Clashes(RowAt(m), RowAt(n))
  BY DEF RecorderInv, ArrivedClash
<1>3. n > B
  <2>1. storedBefore \in Seq(RowType) /\ ~Refused(storedBefore)
    BY RecorderAssumption DEF RecorderTypeOK
  <2> HIDE DEF RowType
  <2>2. DOMAIN storedBefore = 1..B
    BY <2>1
  <2> SUFFICES ASSUME n <= B PROVE FALSE
    BY <1>1
  <2>3. m \in 1..B /\ n \in 1..B /\ RowAt(m) = storedBefore[m] /\ RowAt(n) = storedBefore[n]
    BY <1>1, <1>2 DEF RowAt
  <2> QED BY <1>2, <2>1, <2>2, <2>3 DEF Refused
<1> DEFINE j == n - B
<1>4. j \in 1..taken /\ RowAt(n) = EventRow(j)
  BY <1>1, <1>3 DEF RowAt
<1>5. CASE m <= B
  <2>1. storedBefore \in Seq(RowType)
    BY RecorderAssumption DEF RecorderTypeOK
  <2> HIDE DEF RowType
  <2>2. m \in DOMAIN storedBefore /\ RowAt(m) = storedBefore[m]
    BY <1>1, <1>5, <2>1 DEF RowAt
  <2>3. storedBefore[m] \in ToSet(storedBefore)
    BY <2>2 DEF ToSet
  <2> QED BY <1>2, <1>4, <2>2, <2>3 DEF RefusalHasReason
<1>6. CASE m > B
  <2> DEFINE i == m - B
  <2>1. i \in 1..(j - 1) /\ RowAt(m) = EventRow(i) /\ i < j
    BY <1>1, <1>2, <1>6 DEF RowAt
  <2>2. i \in DOMAIN decoded /\ j \in DOMAIN decoded
    BY <1>1, <1>4, <2>1
  <2> HIDE DEF i, j
  <2>3. Clashes(EventRow(i), EventRow(j))
    BY <1>2, <1>4, <2>1
  <2>4. CASE origins[i].id = origins[j].id /\ origins[j].id # None
    BY <1>4, <2>1, <2>4 DEF RefusalHasReason
  <2>5. CASE SameNumber(i, j)
    <3>1. ~(origins[i].compared /\ origins[j].compared)
      <4> SUFFICES ASSUME origins[i].compared, origins[j].compared PROVE FALSE
        OBVIOUS
      <4>1. decoded[i].seq < decoded[j].seq
        BY <2>1, <2>2, <2>5 DEF ReportTracks, ComparedRises, SameNumber
      <4>2. decoded[j].seq \in Int
        <5>1. decoded \in Seq(DecodedEvents)
          BY DEF RecorderTypeOK, DecoderTypeOK, DecodedEvents
        <5>2. \A e \in DecodedEvents : e.seq \in Int
          BY DecoderAssumption DEF DecodedEvents, I64
        <5> HIDE DEF DecodedEvents
        <5> QED BY <2>2, <5>1, <5>2
      <4> QED BY <2>5, <4>1, <4>2 DEF SameNumber
    <3>2. decoded[j].by \in {"host", "decoder"}
      <4>1. decoded \in Seq(DecodedEvents)
        BY DEF RecorderTypeOK, DecoderTypeOK, DecodedEvents
      <4>2. \A e \in DecodedEvents : e.by \in {"host", "decoder"}
        BY DEF DecodedEvents
      <4> HIDE DEF DecodedEvents
      <4> QED BY <2>2, <4>1, <4>2
    <3>3. \/ decoded[j].by = "host"
          \/ decoded[j].seq = SeqMax \/ StartsOver(decoded[j].session, j)
      BY <2>1, <2>2, <2>5, <3>2 DEF AssignedSeqIsNew, SameNumber
    <3> QED BY <1>4, <2>1, <2>5, <3>1, <3>3 DEF RefusalHasReason
  <2> QED BY <2>3, <2>4, <2>5 DEF Clashes, EventRow, SameNumber
<1> QED BY <1>1, <1>5, <1>6

-----------------------------------------------------------------------------
LEMMA RecorderStarts ==
  DecoderInit /\ RecorderInit =>
    /\ RecorderTypeOK /\ ReportCounts /\ RecorderInv /\ ReportTracks
    /\ AssignedSeqIsNew /\ CountersAhead
<1> SUFFICES ASSUME DecoderInit, RecorderInit
             PROVE  /\ RecorderTypeOK /\ ReportCounts /\ RecorderInv /\ ReportTracks
                    /\ AssignedSeqIsNew /\ CountersAhead
  OBVIOUS
<1>1. DecoderTypeOK /\ AssignedSeqIsNew /\ CountersAhead /\ decoded = <<>>
  BY DecoderAssumption
     DEF DecoderInit, DecoderTypeOK, AssignedSeqIsNew, CountersAhead, StartedOver,
         Ahead, Counter
<1>2. /\ storedBefore \in Stores /\ stored = storedBefore /\ storedBefore \in Seq(RowType)
      /\ batch = <<>> /\ taken = 0 /\ recorder = "running" /\ origins = <<>>
      /\ report = NewReport
  BY RecorderAssumption DEF RecorderInit
<1>3. Len(decoded) = 0 /\ Len(origins) = 0 /\ Len(batch) = 0 /\ Len(storedBefore) \in Nat
  <2> HIDE DEF RowType
  <2> QED BY <1>1, <1>2
<1>4. NewReport \in ReportType
  BY RecorderAssumption DEF NewReport, ReportType
<1>5. ReportCounts
  BY <1>2 DEF NewReport, ReportCounts
<1>6. batch \in Seq(RowType) /\ origins \in Seq(OriginType)
  <2> HIDE DEF RowType, OriginType
  <2> QED BY <1>2
<1>7. RecorderTypeOK
  BY <1>1, <1>2, <1>3, <1>4, <1>6 DEF RecorderTypeOK, ReportType, OriginType
<1>8. ReportTracks
  BY <1>1 DEF ReportTracks
<1>9. RecorderInv
  <2>1. StoredInOrder
    <3> HIDE DEF RowType
    <3> QED BY <1>2, <1>3 DEF StoredInOrder, RowAt
  <2>2. BatchIsNext
    BY <1>2, <1>3 DEF BatchIsNext, Arrived
  <2>3. 0 <= LargestBatch /\ 0 <= ChannelCap
    BY RecorderAssumption DEF LargestBatch
  <2> HIDE DEF LargestBatch
  <2> QED BY <1>2, <1>3, <2>1, <2>2, <2>3 DEF RecorderInv, Arrived
<1> QED BY <1>1, <1>5, <1>7, <1>8, <1>9

(* Store, batch, counts and report of the recorder are well typed, for     *)
(* every batch size, channel, host and store it may find                   *)
(* (camouflage_record.rs, validate.rs).                                    *)
THEOREM RecorderTypeCorrect == RecorderSpec => []RecorderTypeOK
<1>1. RecorderSpec => [](RecorderTypeOK /\ ReportCounts)
  BY RecorderStarts, RecorderTypeStep, PTL DEF RecorderSpec
<1> QED BY <1>1, PTL

LEMMA RecorderInvariant == RecorderSpec => []RecorderInv
BY RecorderStarts, RecorderInvStep, RecorderTypeCorrect, PTL DEF RecorderSpec

(* What camouflage-record has saved is the beginning of the stream in its  *)
(* order, all of it when it ends well, and short of it by no more than a   *)
(* channel and a batch when the store refuses an event or the process is   *)
(* killed.                                                                 *)
THEOREM RecordsPrefix == RecorderSpec => []RecordingIsPrefix
BY InOrderIsPrefix, RecorderInvariant, RecorderTypeCorrect, PTL

(* A stream that camouflage-validate passes is refused by the store only   *)
(* for an event it had, a repeated id, or a number the validator did not   *)
(* compare and the decoder did not give.                                   *)
THEOREM RefusalsExplained == RecorderSpec => []RefusalHasReason
<1>1. RecorderSpec => []ReportTracks
  BY RecorderStarts, TracksStep, RecorderTypeCorrect, PTL DEF RecorderSpec
<1>2. RecorderSpec => [](AssignedSeqIsNew /\ CountersAhead)
  BY RecorderStarts, RecorderNumbersStep, RecorderTypeCorrect, PTL DEF RecorderSpec
<1> QED BY <1>1, <1>2, ClashHasReason, RecorderInvariant, RecorderTypeCorrect, PTL

-----------------------------------------------------------------------------
(* The export. A set of naturals that has an element has a least one.      *)
LEMMA LeastOf ==
  ASSUME NEW S \in SUBSET Nat, S # {}
  PROVE  \E m \in S : \A x \in S : m <= x
<1> DEFINE R == OpToRel(<, Nat)
<1>1. IsWellFoundedOn(R, Nat)
  BY NatLessThanWellFounded
<1>2. PICK m \in S : \A y \in S : ~(<<y, m>> \in R)
  BY <1>1, WFMin, Zenon
<1>3. \A y \in S : m <= y
  <2> SUFFICES ASSUME NEW y \in S PROVE m <= y
    OBVIOUS
  <2>1. ~(<<y, m>> \in R)
    BY <1>2
  <2>2. ~(y < m)
    BY <2>1, Zenon DEF OpToRel
  <2> QED BY <2>2
<1> QED BY <1>3

-----------------------------------------------------------------------------
(* The rows of an export have the payloads their types want: those that    *)
(* were in the store, and those the decoder let pass.                      *)
Fits(row) == validate_payload(row.type, row.payload)
OriginsFit == \A k \in DOMAIN origins : Fits(origins[k])
StoreIsSound == ~Refused(stored) /\ OriginsFit

LEMMA OriginFits ==
  ASSUME NEW line \in Hosted
  PROVE  /\ Accepts(line) => Fits(Origin(line))
         /\ Fits(DiagnosticOrigin)
BY DEF Accepts, Origin, DiagnosticOrigin, Fits, validate_payload

LEMMA OneMoreFits ==
  ASSUME OriginsFit, origins \in Seq(OriginType), NEW o \in OriginType, Fits(o),
         origins' = Append(origins, o)
  PROVE  OriginsFit'
<1> HIDE DEF OriginType
<1>1. /\ Len(origins) \in Nat /\ DOMAIN origins' = 1..(Len(origins) + 1)
      /\ origins'[Len(origins) + 1] = o
      /\ \A k \in 1..Len(origins) : k \in DOMAIN origins /\ origins'[k] = origins[k]
  OBVIOUS
<1>2. ASSUME NEW k \in DOMAIN origins' PROVE Fits(origins'[k])
  <2>1. CASE k = Len(origins) + 1
    BY <1>1, <2>1
  <2>2. CASE k \in 1..Len(origins)
    BY <1>1, <2>2 DEF OriginsFit
  <2> QED BY <1>1, <2>1, <2>2
<1> QED BY <1>2 DEF OriginsFit, Fits

LEMMA SoundStep ==
  RecorderTypeOK /\ StoreIsSound /\ [RecorderNext]_<<decoderVars, recorderVars>>
    => StoreIsSound'
<1> SUFFICES ASSUME RecorderTypeOK, StoreIsSound,
                    [RecorderNext]_<<decoderVars, recorderVars>>
             PROVE  StoreIsSound'
  OBVIOUS
<1>1. ASSUME NEW line \in Hosted, ReadHostedLine(line) PROVE StoreIsSound'
  <2>1. stored' = stored
    BY <1>1 DEF ReadHostedLine
  <2>2. origins \in Seq(OriginType)
    BY DEF RecorderTypeOK, OriginType
  <2>3. CASE Accepts(line)
    <3>1. origins' = Append(origins, Origin(line)) /\ Origin(line) \in OriginType
      BY <1>1, <2>3, AcceptedIs, OriginsAreTyped DEF BecomesEvent
    <3>2. OriginsFit'
      BY <2>2, <2>3, <3>1, OneMoreFits, OriginFits DEF StoreIsSound
    <3> QED BY <2>1, <3>2 DEF StoreIsSound, Refused, Clashes
  <2>4. CASE ~Accepts(line) /\ origins' = origins
    BY <2>1, <2>4 DEF StoreIsSound, Refused, Clashes, OriginsFit, Fits
  <2>5. CASE ~Accepts(line) /\ BecomesDiagnostic
    <3>1. origins' = Append(origins, DiagnosticOrigin) /\ DiagnosticOrigin \in OriginType
      BY <1>1, <2>5, OriginsAreTyped DEF BecomesDiagnostic
    <3>2. OriginsFit'
      BY <1>1, <2>2, <3>1, OneMoreFits, OriginFits DEF StoreIsSound
    <3> QED BY <2>1, <3>2 DEF StoreIsSound, Refused, Clashes
  <2> QED BY <1>1, <2>3, <2>4, <2>5, RejectedIs
<1>2. CASE OtherSteps \/ UNCHANGED <<decoderVars, recorderVars>>
  <2>1. origins' = origins
    BY <1>2, OthersKeepStream DEF StreamKept, recorderVars
  <2>2. stored' = stored \/ ~Refused(stored')
    BY <1>2 DEF OtherSteps, EndOfInput, Receive, FlushTick, Finish, Breaks, Flush,
                append_batch, recorderVars
  <2> QED BY <2>1, <2>2 DEF StoreIsSound, Refused, Clashes, OriginsFit, Fits
<1> QED BY <1>1, <1>2 DEF RecorderNext, OtherSteps

LEMMA SoundStart == RecorderInit => StoreIsSound
<1> SUFFICES ASSUME RecorderInit PROVE StoreIsSound
  OBVIOUS
<1>1. ~Refused(stored)
  BY RecorderAssumption DEF RecorderInit
<1>2. DOMAIN origins = {}
  BY DEF RecorderInit
<1> QED BY <1>1, <1>2 DEF StoreIsSound, OriginsFit

LEMMA StoredFits ==
  ASSUME RecorderTypeOK, RecorderInv, StoreIsSound
  PROVE  \A i \in DOMAIN stored : Fits(stored[i])
<1> SUFFICES ASSUME NEW i \in DOMAIN stored PROVE Fits(stored[i])
  OBVIOUS
<1>1. stored \in Seq(RowType) /\ storedBefore \in Seq(RowType)
  BY RecorderAssumption DEF RecorderTypeOK
<1>2. origins \in Seq(OriginType) /\ Len(origins) = Len(decoded)
  BY DEF RecorderTypeOK, OriginType
<1> HIDE DEF RowType, OriginType
<1>3. i \in 1..Len(stored) /\ DOMAIN storedBefore = 1..Len(storedBefore)
      /\ DOMAIN origins = 1..Len(decoded)
  BY <1>1, <1>2
<1>4. stored[i] = RowAt(i) /\ i <= Len(storedBefore) + taken
  BY <1>3, LengthsAreNat DEF RecorderInv, StoredInOrder, Arrived
<1>5. CASE i <= Len(storedBefore)
  <2>1. i \in DOMAIN storedBefore /\ stored[i] = storedBefore[i]
    BY <1>3, <1>4, <1>5, LengthsAreNat DEF RowAt
  <2>2. storedBefore \in Stores
    BY DEF RecorderTypeOK
  <2> QED BY <2>1, <2>2, RecorderAssumption DEF Fits
<1>6. CASE i > Len(storedBefore)
  <2> DEFINE k == i - Len(storedBefore)
  <2>1. k \in DOMAIN origins /\ stored[i] = EventRow(k)
    BY <1>3, <1>4, <1>6, LengthsAreNat DEF RowAt
  <2> HIDE DEF k
  <2> QED BY <2>1 DEF StoreIsSound, OriginsFit, Fits, EventRow
<1> QED BY <1>3, <1>5, <1>6, LengthsAreNat

-----------------------------------------------------------------------------
(* The rows of a finite set whose numbers differ, in the order of their    *)
(* numbers: as many come before a row as have a smaller number.            *)
Smaller(rows, row) == {other \in rows : InOrder(other, row)}
Place(rows, row) == Cardinality(Smaller(rows, row))

LEMMA PlacesRise ==
  ASSUME NEW rows, IsFiniteSet(rows), \A row \in rows : row.seq \in Int,
         NEW a \in rows, NEW b \in rows
  PROVE  /\ Place(rows, a) \in 0..(Cardinality(rows) - 1)
         /\ a.seq < b.seq => Place(rows, a) < Place(rows, b)
         /\ ~(a.seq < b.seq) => ~(Place(rows, a) < Place(rows, b))
<1>1. \A row \in rows :
        /\ IsFiniteSet(Smaller(rows, row)) /\ Place(rows, row) \in Nat
        /\ Smaller(rows, row) \subseteq rows \ {row}
  <2> SUFFICES ASSUME NEW row \in rows
               PROVE  /\ IsFiniteSet(Smaller(rows, row)) /\ Place(rows, row) \in Nat
                      /\ Smaller(rows, row) \subseteq rows \ {row}
    OBVIOUS
  <2>1. Smaller(rows, row) \in SUBSET rows
    BY DEF Smaller
  <2>2. row \notin Smaller(rows, row)
    BY DEF Smaller, InOrder
  <2> QED BY <2>1, <2>2, FS_Subset, FS_CardinalityType DEF Place
<1>2. Place(rows, a) \in 0..(Cardinality(rows) - 1)
  <2>1. /\ IsFiniteSet(rows \ {a}) /\ Cardinality(rows \ {a}) = Cardinality(rows) - 1
        /\ Cardinality(rows) \in Nat
    BY FS_RemoveElement, FS_CardinalityType
  <2>2. Place(rows, a) <= Cardinality(rows \ {a})
    BY <1>1, <2>1, FS_Subset DEF Place
  <2> QED BY <1>1, <2>1, <2>2
<1>3. ASSUME a.seq < b.seq PROVE Place(rows, a) < Place(rows, b)
  <2>1. Smaller(rows, a) \cup {a} \subseteq Smaller(rows, b)
    BY <1>3 DEF Smaller, InOrder
  <2>2. /\ IsFiniteSet(Smaller(rows, a) \cup {a})
        /\ Cardinality(Smaller(rows, a) \cup {a}) = Place(rows, a) + 1
    BY <1>1, FS_AddElement DEF Place
  <2>3. Cardinality(Smaller(rows, a) \cup {a}) <= Place(rows, b)
    BY <1>1, <2>1, FS_Subset DEF Place
  <2> QED BY <1>1, <2>2, <2>3
<1>4. ASSUME ~(a.seq < b.seq) PROVE ~(Place(rows, a) < Place(rows, b))
  <2>1. Smaller(rows, b) \in SUBSET Smaller(rows, a)
    BY <1>4 DEF Smaller, InOrder
  <2>2. Place(rows, b) <= Place(rows, a)
    BY <1>1, <2>1, FS_Subset DEF Place
  <2> QED BY <1>1, <2>2
<1> QED BY <1>2, <1>3, <1>4

(* Each place is taken.                                                    *)
LEMMA PlacesFill ==
  ASSUME NEW rows, IsFiniteSet(rows), \A row \in rows : row.seq \in Int,
         \A a, b \in rows : a # b => a.seq # b.seq,
         NEW k \in 1..Cardinality(rows)
  PROVE  \E row \in rows : Place(rows, row) = k - 1
<1> DEFINE T == 0..(Cardinality(rows) - 1)
           f == [row \in rows |-> Place(rows, row)]
<1>1. Cardinality(rows) \in Nat
  BY FS_CardinalityType
<1>2. IsFiniteSet(T) /\ Cardinality(T) = Cardinality(rows)
  <2>1. 0 \in Int /\ Cardinality(rows) - 1 \in Int
    BY <1>1
  <2>2. /\ IsFiniteSet(T)
        /\ Cardinality(T) = IF 0 > Cardinality(rows) - 1 THEN 0
                            ELSE Cardinality(rows) - 1 - 0 + 1
    BY <2>1, FS_Interval
  <2> HIDE DEF T
  <2> QED BY <1>1, <2>2
<1>3. f \in [rows -> T]
  BY PlacesRise
<1>4. ASSUME NEW a \in rows, NEW b \in rows, f[a] = f[b] PROVE a = b
  <2>1. Place(rows, a) = Place(rows, b) /\ Place(rows, a) \in Nat
    BY <1>1, <1>4, PlacesRise
  <2>2. ~(a.seq < b.seq) /\ ~(b.seq < a.seq)
    BY <2>1, PlacesRise
  <2> QED BY <2>2
<1>5. f \in Injection(rows, T)
  <2> HIDE DEF f, T
  <2> QED BY <1>3, <1>4 DEF Injection, IsInjective
<1>6. f \in Surjection(rows, T)
  <2> HIDE DEF f, T
  <2> QED BY <1>2, <1>5, FS_Injection
<1>7. k - 1 \in T
  BY <1>1
<1>8. \E row \in rows : f[row] = k - 1
  <2> HIDE DEF f, T
  <2> QED BY <1>6, <1>7 DEF Surjection
<1> QED BY <1>8

-----------------------------------------------------------------------------
(* What load_session reads: the rows of the session, each once and in the  *)
(* order of their numbers.                                                 *)
Indices(s) == {n \in DOMAIN stored : stored[n].session = s}
RowsOf(s)  == {stored[i] : i \in Indices(s)}

LEMMA RowsAre ==
  ASSUME stored \in Seq(RowType), ~Refused(stored), NEW s
  PROVE  /\ IsFiniteSet(RowsOf(s)) /\ Cardinality(RowsOf(s)) = Cardinality(Indices(s))
         /\ RowsOf(s) \subseteq RowType
         /\ \A row \in RowsOf(s) : row.session = s /\ row.seq \in Int
         /\ \A a, b \in RowsOf(s) : a # b => a.seq # b.seq
<1> DEFINE f == [i \in Indices(s) |-> stored[i]]
<1>1. /\ Len(stored) \in Nat /\ DOMAIN stored = 1..Len(stored)
      /\ \A i \in DOMAIN stored : stored[i] \in RowType
  <2> HIDE DEF RowType
  <2> QED OBVIOUS
<1>2. IsFiniteSet(Indices(s))
  <2>1. IsFiniteSet(1..Len(stored))
    BY <1>1, FS_Interval
  <2>2. Indices(s) \in SUBSET (1..Len(stored))
    BY <1>1 DEF Indices
  <2> QED BY <2>1, <2>2, FS_Subset
<1>3. \A row \in RowType : row.seq \in Int
  BY DecoderAssumption DEF RowType, I64
<1>4. ASSUME NEW i \in Indices(s), NEW j \in Indices(s), i # j
      PROVE  stored[i].seq # stored[j].seq
  <2>1. i \in DOMAIN stored /\ j \in DOMAIN stored /\ (i < j \/ j < i)
        /\ stored[i].session = stored[j].session
    BY <1>1, <1>4 DEF Indices
  <2> QED BY <2>1 DEF Refused, Clashes
<1>5. f \in Bijection(Indices(s), RowsOf(s))
  <2>1. f \in [Indices(s) -> RowsOf(s)]
    BY DEF RowsOf
  <2>2. \A i, j \in Indices(s) : f[i] = f[j] => i = j
    BY <1>4
  <2>3. \A row \in RowsOf(s) : \E i \in Indices(s) : f[i] = row
    BY DEF RowsOf
  <2> HIDE DEF f
  <2> QED BY <2>1, <2>2, <2>3 DEF Bijection, Injection, Surjection, IsInjective
<1>6. IsFiniteSet(RowsOf(s)) /\ Cardinality(RowsOf(s)) = Cardinality(Indices(s))
  <2>1. ExistsBijection(Indices(s), RowsOf(s))
    BY <1>5 DEF ExistsBijection
  <2> QED BY <1>2, <2>1, FS_Bijection
<1>7. /\ RowsOf(s) \subseteq RowType
      /\ \A row \in RowsOf(s) : row.session = s /\ row.seq \in Int
  <2> HIDE DEF RowType
  <2> QED BY <1>1, <1>3 DEF RowsOf, Indices
<1>8. \A a, b \in RowsOf(s) : a # b => a.seq # b.seq
  BY <1>4 DEF RowsOf
<1> QED BY <1>6, <1>7, <1>8

LEMMA LoadIs ==
  ASSUME stored \in Seq(RowType), ~Refused(stored), NEW s
  PROVE  /\ load_session(s) \in Seq(RowsOf(s))
         /\ Len(load_session(s)) = Cardinality(Indices(s))
         /\ \A i, j \in 1..Len(load_session(s)) :
              i < j => load_session(s)[i].seq < load_session(s)[j].seq
<1> DEFINE rows == RowsOf(s)
           n == Cardinality(rows)
           At(k) == CHOOSE row \in rows : Place(rows, row) = k - 1
<1>1. /\ IsFiniteSet(rows) /\ n = Cardinality(Indices(s)) /\ n \in Nat
      /\ \A row \in rows : row.seq \in Int
      /\ \A a, b \in rows : a # b => a.seq # b.seq
  <2> HIDE DEF RowType
  <2> QED BY RowsAre, FS_CardinalityType
<1>2. load_session(s) = [k \in 1..n |-> At(k)]
  BY DEF load_session, RowsOf, Indices, Place, Smaller
<1> HIDE DEF rows
<1>3. ASSUME NEW k \in 1..n PROVE At(k) \in rows /\ Place(rows, At(k)) = k - 1
  BY <1>1, PlacesFill
<1> HIDE DEF At, n
<1>4. load_session(s) \in [1..n -> rows]
  BY <1>2, <1>3
<1>5. load_session(s) \in Seq(rows)
  BY <1>1, <1>4, SeqDef
<1>6. Len(load_session(s)) = n
  <2>1. DOMAIN load_session(s) = 1..n
    BY <1>4
  <2>2. DOMAIN load_session(s) = 1..Len(load_session(s)) /\ Len(load_session(s)) \in Nat
    BY <1>5
  <2> QED BY <1>1, <2>1, <2>2
<1>7. ASSUME NEW i \in 1..n, NEW j \in 1..n, i < j
      PROVE  load_session(s)[i].seq < load_session(s)[j].seq
  <2>1. load_session(s)[i] = At(i) /\ load_session(s)[j] = At(j)
    BY <1>2
  <2>2. Place(rows, At(i)) < Place(rows, At(j))
    BY <1>1, <1>3, <1>7
  <2> QED BY <1>1, <1>3, <2>1, <2>2, PlacesRise
<1>8. load_session(s) \in Seq(RowsOf(s))
  BY <1>5 DEF rows
<1> QED BY <1>1, <1>6, <1>7, <1>8

(* What --list counts.                                                     *)
LEMMA ListIs ==
  \A s \in DOMAIN list_sessions : list_sessions[s] = Cardinality(Indices(s))
BY DEF list_sessions, Indices

-----------------------------------------------------------------------------
(* validate_stream, unfolded: the report after each line.                  *)
Reports == [lines_total : Nat, lines_valid : Nat, errors : Nat,
            last_seq : [Sessions -> I64 \cup {None}]]
Written(line) == line.session \in Sessions \cup {None} /\ line.seq \in I64 \cup {None}
Reported(after, lines, n) ==
  /\ after \in [0..n -> Reports]
  /\ \A k \in 0..n :
       after[k] = IF k = 0 THEN NewReport ELSE ValidateLine(after[k - 1], lines[k])

LEMMA ValidateLineType ==
  ASSUME NEW r \in Reports, NEW line, Written(line)
  PROVE  ValidateLine(r, line) \in Reports
<1> DEFINE valid == LineIsValid(r.last_seq, line)
           last == IF valid /\ Numbered(line)
                   THEN [r.last_seq EXCEPT ![line.session] = line.seq]
                   ELSE r.last_seq
           count == IF valid THEN r.lines_valid + 1 ELSE r.lines_valid
           wrong == IF valid THEN r.errors ELSE r.errors + 1
<1>1. last \in [Sessions -> I64 \cup {None}]
  <2>1. r.last_seq \in [Sessions -> I64 \cup {None}]
    BY DEF Reports
  <2>2. Numbered(line) => line.session \in Sessions
    BY DEF Written, Numbered
  <2> QED BY <2>1, <2>2 DEF Written
<1>2. r.lines_total + 1 \in Nat /\ count \in Nat /\ wrong \in Nat
  BY DEF Reports
<1>3. ValidateLine(r, line) = [lines_total |-> r.lines_total + 1, lines_valid |-> count,
                               errors |-> wrong, last_seq |-> last]
  BY DEF ValidateLine
<1> HIDE DEF valid, last, count, wrong
<1> QED BY <1>1, <1>2, <1>3 DEF Reports

LEMMA ReportsExist ==
  ASSUME NEW lines, NEW n \in Nat, \A k \in 1..n : Written(lines[k])
  PROVE  \E after : Reported(after, lines, n)
<1> DEFINE Bad == {m \in 0..n : ~\E after : Reported(after, lines, m)}
<1> SUFFICES ASSUME Bad # {} PROVE FALSE
  OBVIOUS
<1>1. PICK m \in Bad : \A x \in Bad : m <= x
  <2>1. Bad \in SUBSET Nat
    OBVIOUS
  <2> HIDE DEF Bad
  <2> QED BY <2>1, LeastOf
<1>2. NewReport \in Reports
  BY DEF NewReport, Reports
<1>3. m # 0
  <2>1. Reported([k \in 0..0 |-> NewReport], lines, 0)
    BY <1>2 DEF Reported
  <2> QED BY <1>1, <2>1
<1>4. m - 1 \in 0..n /\ ~(m <= m - 1) /\ m \in 1..n
  BY <1>1, <1>3
<1>5. PICK f : Reported(f, lines, m - 1)
  BY <1>1, <1>4
<1> DEFINE g == [k \in 0..m |-> IF k = m THEN ValidateLine(f[m - 1], lines[m]) ELSE f[k]]
<1>6. f[m - 1] \in Reports
  BY <1>4, <1>5 DEF Reported
<1>7. g \in [0..m -> Reports]
  <2>1. ValidateLine(f[m - 1], lines[m]) \in Reports
    BY <1>4, <1>6, ValidateLineType
  <2> QED BY <1>4, <1>5, <2>1 DEF Reported
<1>8. ASSUME NEW k \in 0..m
      PROVE  g[k] = IF k = 0 THEN NewReport ELSE ValidateLine(g[k - 1], lines[k])
  <2>1. CASE k = m
    <3>1. g[k - 1] = f[m - 1] /\ g[k] = ValidateLine(f[m - 1], lines[m])
      BY <1>4, <2>1
    <3> QED BY <1>3, <2>1, <3>1
  <2>2. CASE k # m
    <3>1. k \in 0..(m - 1) /\ g[k] = f[k]
      BY <1>4, <2>2
    <3>2. k # 0 => g[k - 1] = f[k - 1]
      BY <1>4, <2>2
    <3> QED BY <1>5, <3>1, <3>2 DEF Reported
  <2> QED BY <2>1, <2>2
<1>9. Reported(g, lines, m)
  <2> HIDE DEF g
  <2> QED BY <1>7, <1>8 DEF Reported
<1> QED BY <1>1, <1>9

LEMMA ValidatorRuns ==
  ASSUME NEW lines, Len(lines) \in Nat, \A k \in 1..Len(lines) : Written(lines[k])
  PROVE  \E after : Reported(after, lines, Len(lines))
                     /\ validate_stream(lines) = after[Len(lines)]
<1> DEFINE n == Len(lines)
           Is(f) == f = [k \in 0..n |-> IF k = 0 THEN NewReport
                                        ELSE ValidateLine(f[k - 1], lines[k])]
           R == CHOOSE f : Is(f)
<1>1. PICK after : Reported(after, lines, n)
  BY ReportsExist
<1>2. Is(after)
  BY <1>1 DEF Reported
<1>3. Is(R)
  BY <1>2
<1>4. validate_stream(lines) = R[n]
  BY DEF validate_stream
<1> HIDE DEF R
<1>5. ASSUME NEW k \in 0..n PROVE R[k] = after[k]
  <2> DEFINE Bad == {m \in 0..n : R[m] # after[m]}
  <2> SUFFICES ASSUME Bad # {} PROVE FALSE
    OBVIOUS
  <2>1. PICK m \in Bad : \A x \in Bad : m <= x
    <3>1. Bad \in SUBSET Nat
      OBVIOUS
    <3> HIDE DEF Bad
    <3> QED BY <3>1, LeastOf
  <2>2. m # 0
    BY <1>1, <1>3, <2>1 DEF Reported
  <2>3. m - 1 \in 0..n /\ ~(m <= m - 1) /\ m \in 0..n
    BY <2>1, <2>2
  <2>4. R[m - 1] = after[m - 1]
    BY <2>1, <2>3
  <2>5. R[m] = ValidateLine(R[m - 1], lines[m])
    BY <1>3, <2>2, <2>3
  <2>6. after[m] = ValidateLine(after[m - 1], lines[m])
    BY <1>1, <2>2, <2>3 DEF Reported
  <2> QED BY <2>1, <2>4, <2>5, <2>6
<1> QED BY <1>1, <1>4, <1>5

(* A stream whose numbers rise in each session and whose payloads fit has  *)
(* no errors, or the one of its header.                                    *)
LEMMA StreamPasses ==
  ASSUME NEW lines, Len(lines) \in Nat, \A k \in 1..Len(lines) : Written(lines[k]),
         NEW h \in {0, 1}, h <= Len(lines), h = 1 => ~parse_envelope(lines[1]),
         \A k \in h + 1..Len(lines) : parse_envelope(lines[k]) /\ Fits(lines[k]),
         \A i, j \in h + 1..Len(lines) :
           i < j /\ Numbered(lines[i]) /\ Numbered(lines[j])
             /\ lines[i].session = lines[j].session => lines[i].seq < lines[j].seq
  PROVE  validate_stream(lines).errors = h
<1> DEFINE n == Len(lines)
<1>1. PICK after : Reported(after, lines, n) /\ validate_stream(lines) = after[n]
  BY ValidatorRuns
<1> DEFINE LastOf(k, s) == after[k].last_seq[s]
           Seen(k) == \A s \in Sessions :
                        \/ LastOf(k, s) = None
                        \/ \E j \in h + 1..k : /\ Numbered(lines[j]) /\ lines[j].session = s
                                              /\ lines[j].seq = LastOf(k, s)
           Good(k) == after[k].errors = (IF k = 0 THEN 0 ELSE h) /\ Seen(k)
           Bad == {k \in 0..n : ~Good(k)}
<1>2. Bad = {}
  <2> SUFFICES ASSUME Bad # {} PROVE FALSE
    OBVIOUS
  <2>1. PICK m \in Bad : \A x \in Bad : m <= x
    <3>1. Bad \in SUBSET Nat
      OBVIOUS
    <3> HIDE DEF Bad
    <3> QED BY <3>1, LeastOf
  <2>2. m # 0
    <3>1. after[0] = NewReport
      BY <1>1 DEF Reported
    <3>2. Good(0)
      BY <3>1 DEF NewReport
    <3> QED BY <2>1, <3>2
  <2>3. m - 1 \in 0..n /\ ~(m <= m - 1) /\ m \in 1..n
    BY <2>1, <2>2
  <2>4. Good(m - 1)
    BY <2>1, <2>3
  <2> DEFINE r == after[m - 1]
             line == lines[m]
  <2>5. /\ r \in Reports /\ after[m] = ValidateLine(r, line) /\ Written(line)
    BY <1>1, <2>2, <2>3 DEF Reported
  <2>6. CASE m <= h
    <3>1. m = 1 /\ h = 1
      BY <2>3, <2>6
    <3>2. ~LineIsValid(r.last_seq, line)
      BY <3>1 DEF LineIsValid
    <3>3. after[m].errors = 1 /\ after[m].last_seq = r.last_seq
      <4>1. r.errors = 0
        BY <2>4, <3>1
      <4> QED BY <2>5, <3>2, <4>1 DEF ValidateLine
    <3>4. Seen(m)
      BY <2>4, <3>1, <3>3
    <3> QED BY <2>1, <3>1, <3>3, <3>4
  <2>7. CASE ~(m <= h)
    <3>1. m \in h + 1..n /\ m - 1 \in Nat
      BY <2>3, <2>7
    <3>2. parse_envelope(line) /\ validate_payload(line.type, line.payload)
      BY <3>1 DEF Fits
    <3>3. Numbered(line) => line.session \in Sessions /\ line.seq \in Int
      BY <2>5, DecoderAssumption DEF Written, Numbered, I64
    <3>4. ASSUME Numbered(line) PROVE Follows(r.last_seq, line)
      <4>1. CASE r.last_seq[line.session] = None
        BY <4>1 DEF Follows
      <4>2. CASE r.last_seq[line.session] # None
        <5>1. PICK j \in h + 1..m - 1 :
                /\ Numbered(lines[j]) /\ lines[j].session = line.session
                /\ lines[j].seq = r.last_seq[line.session]
          BY <2>4, <3>3, <3>4, <4>2
        <5>2. j \in h + 1..n /\ j < m
          BY <2>3, <3>1, <5>1
        <5>3. lines[j].seq < line.seq
          BY <3>1, <3>4, <5>1, <5>2
        <5>4. Written(lines[j])
          BY <5>2
        <5>5. lines[j].seq \in Int
          BY <5>1, <5>4, DecoderAssumption DEF Written, Numbered, I64
        <5> QED BY <3>3, <3>4, <5>1, <5>3, <5>5 DEF Follows
      <4> QED BY <4>1, <4>2
    <3>5. LineIsValid(r.last_seq, line)
      BY <3>2, <3>4 DEF LineIsValid
    <3>6. /\ after[m].errors = r.errors
          /\ after[m].last_seq = IF Numbered(line)
                                 THEN [r.last_seq EXCEPT ![line.session] = line.seq]
                                 ELSE r.last_seq
      BY <2>5, <3>5 DEF ValidateLine
    <3>7. after[m].errors = h
      <4>1. m - 1 = 0 => h = 0
        BY <2>7
      <4> QED BY <2>4, <3>6, <4>1
    <3>8. ASSUME NEW s \in Sessions
          PROVE  \/ LastOf(m, s) = None
                 \/ \E j \in h + 1..m : /\ Numbered(lines[j]) /\ lines[j].session = s
                                       /\ lines[j].seq = LastOf(m, s)
      <4>1. CASE Numbered(line) /\ line.session = s
        <5>1. LastOf(m, s) = line.seq
          BY <2>5, <3>6, <4>1 DEF Reports
        <5>2. m \in h + 1..m
          BY <3>1
        <5> QED BY <4>1, <5>1, <5>2
      <4>2. CASE ~(Numbered(line) /\ line.session = s)
        <5>1. LastOf(m, s) = LastOf(m - 1, s)
          BY <2>5, <3>6, <4>2 DEF Reports
        <5>2. \A j \in h + 1..m - 1 : j \in h + 1..m
          BY <3>1
        <5> QED BY <2>4, <5>1, <5>2
      <4> QED BY <4>1, <4>2
    <3> QED BY <2>1, <2>2, <3>7, <3>8
  <2> QED BY <2>6, <2>7
<1>3. n \in 0..n /\ (n = 0 => h = 0)
  OBVIOUS
<1>4. after[n].errors = (IF n = 0 THEN 0 ELSE h)
  BY <1>2, <1>3
<1> QED BY <1>1, <1>3, <1>4

(* The lines an export writes, in the form it writes them.                 *)
LEMMA ExportedLine ==
  ASSUME NEW row \in RowType, Fits(row), NEW form \in {"full", "shorthand", "camo"}
  PROVE  LET line == ExportLine(row, form) IN
         /\ Written(line) /\ parse_envelope(line) /\ Fits(line)
         /\ Numbered(line) => line.seq = row.seq
<1>1. row.session \in Sessions /\ row.seq \in I64 /\ row.type \in EventKinds
  BY DEF RowType
<1> QED BY <1>1 DEF ExportLine, Written, parse_envelope, Fits, Numbered

LEMMA ExportIsWritten ==
  ASSUME RecorderTypeOK, RecorderInv, StoreIsSound, NEW s,
         NEW form \in {"full", "shorthand", "camo"}
  PROVE  LET h == IF form = "camo" THEN 1 ELSE 0 IN
         validate_stream(Exported(s, form)).errors = h
<1> DEFINE h == IF form = "camo" THEN 1 ELSE 0
           rows == load_session(s)
           n == Len(rows)
           lines == [i \in DOMAIN rows |-> ExportLine(rows[i], form)]
           out == Exported(s, form)
           Ls == {ExportLine(row, form) : row \in RowsOf(s)} \cup {CamoHeader}
<1>1. stored \in Seq(RowType) /\ ~Refused(stored)
  BY DEF RecorderTypeOK, StoreIsSound
<1>2. /\ rows \in Seq(RowsOf(s))
      /\ \A i, j \in 1..n : i < j => rows[i].seq < rows[j].seq
  BY <1>1, LoadIs
<1>3. \A row \in RowsOf(s) : row \in RowType /\ Fits(row)
  <2>1. \A i \in DOMAIN stored : Fits(stored[i])
    BY StoredFits
  <2> HIDE DEF RowType
  <2> QED BY <1>1, <2>1, RowsAre DEF RowsOf, Indices
<1>4. out = IF form = "camo" THEN <<CamoHeader>> \o lines ELSE lines
  BY DEF Exported
<1> HIDE DEF rows, out
<1>5. n \in Nat /\ DOMAIN rows = 1..n /\ \A k \in 1..n : rows[k] \in RowsOf(s)
  BY <1>2
<1>6. \A k \in 1..n :
        LET line == ExportLine(rows[k], form) IN
        /\ lines[k] = line /\ Written(line) /\ parse_envelope(line) /\ Fits(line)
        /\ Numbered(line) => line.seq = rows[k].seq
  <2> SUFFICES ASSUME NEW k \in 1..n
               PROVE  LET line == ExportLine(rows[k], form) IN
                      /\ lines[k] = line /\ Written(line) /\ parse_envelope(line)
                      /\ Fits(line)
                      /\ Numbered(line) => line.seq = rows[k].seq
    OBVIOUS
  <2>1. rows[k] \in RowType /\ Fits(rows[k]) /\ lines[k] = ExportLine(rows[k], form)
    BY <1>3, <1>5
  <2> HIDE DEF lines
  <2> QED BY <2>1, ExportedLine
<1>7. lines \in Seq(Ls) /\ Len(lines) = n
  <2>1. lines \in [1..n -> Ls]
    BY <1>5
  <2> HIDE DEF lines, Ls, n
  <2>2. lines \in Seq(Ls)
    BY <1>5, <2>1, SeqDef
  <2>3. DOMAIN lines = 1..n /\ DOMAIN lines = 1..Len(lines) /\ Len(lines) \in Nat
    BY <2>1, <2>2
  <2> QED BY <1>5, <2>2, <2>3
<1>8. /\ Len(out) = n + h
      /\ \A k \in 1..n : out[k + h] = lines[k]
      /\ h = 1 => out[1] = CamoHeader
  <2> HIDE DEF lines, n
  <2>1. CASE form = "camo"
    <3>1. <<CamoHeader>> \in Seq(Ls) /\ Len(<<CamoHeader>>) = 1
      OBVIOUS
    <3> HIDE DEF Ls
    <3>2. out = <<CamoHeader>> \o lines
      BY <1>4, <2>1
    <3>3. /\ Len(out) = n + 1 /\ out[1] = CamoHeader
          /\ \A k \in 1..n : out[k + 1] = lines[k]
      BY <1>5, <1>7, <3>1, <3>2
    <3> QED BY <2>1, <3>3
  <2>2. CASE form # "camo"
    BY <1>4, <1>5, <1>7, <2>2
  <2> QED BY <2>1, <2>2
<1> HIDE DEF lines, n
<1>9. ASSUME NEW k \in h + 1..Len(out)
      PROVE  k - h \in 1..n /\ out[k] = lines[k - h]
  <2>1. k - h \in 1..n
    BY <1>5, <1>8
  <2>2. (k - h) + h = k
    OBVIOUS
  <2> QED BY <1>8, <2>1, <2>2
<1>10. h = 1 => ~parse_envelope(out[1]) /\ Written(out[1])
  BY <1>8, RecorderAssumption DEF CamoHeader, parse_envelope, Written
<1>11. \A k \in h + 1..Len(out) : parse_envelope(out[k]) /\ Fits(out[k]) /\ Written(out[k])
  BY <1>6, <1>9
<1>12. \A k \in 1..Len(out) : Written(out[k])
  <2> SUFFICES ASSUME NEW k \in 1..Len(out) PROVE Written(out[k])
    OBVIOUS
  <2>1. k \in h + 1..Len(out) \/ (h = 1 /\ k = 1)
    BY <1>5, <1>8
  <2> QED BY <1>10, <1>11, <2>1
<1>13. ASSUME NEW i \in h + 1..Len(out), NEW j \in h + 1..Len(out), i < j,
              Numbered(out[i]), Numbered(out[j])
       PROVE  out[i].seq < out[j].seq
  <2>1. /\ i - h \in 1..n /\ j - h \in 1..n /\ i - h < j - h
        /\ out[i] = lines[i - h] /\ out[j] = lines[j - h]
    BY <1>9, <1>13
  <2>2. out[i].seq = rows[i - h].seq /\ out[j].seq = rows[j - h].seq
    BY <1>6, <1>13, <2>1
  <2>3. rows[i - h].seq < rows[j - h].seq
    BY <1>2, <2>1 DEF n
  <2> QED BY <2>2, <2>3
<1>14. h \in {0, 1} /\ Len(out) \in Nat /\ h <= Len(out)
  BY <1>5, <1>8
<1> HIDE DEF h
<1>15. validate_stream(out).errors = h
  BY <1>10, <1>11, <1>12, <1>13, <1>14, StreamPasses
<1> QED BY <1>15 DEF out, h

LEMMA ExportsPass ==
  ASSUME RecorderTypeOK, RecorderInv, StoreIsSound
  PROVE  ExportIsValid
<1> SUFFICES ASSUME NEW s \in DOMAIN list_sessions
             PROVE  /\ Len(load_session(s)) = list_sessions[s]
                    /\ \A form \in {"full", "shorthand"} :
                         ExitsZero(validate_stream(Exported(s, form)))
                    /\ validate_stream(Exported(s, "camo")).errors = 1
  BY DEF ExportIsValid
<1>1. Len(load_session(s)) = list_sessions[s]
  <2>1. stored \in Seq(RowType) /\ ~Refused(stored)
    BY DEF RecorderTypeOK, StoreIsSound
  <2> HIDE DEF RowType
  <2> QED BY <2>1, LoadIs, ListIs
<1>2. ASSUME NEW form \in {"full", "shorthand"}
      PROVE  ExitsZero(validate_stream(Exported(s, form)))
  <2>1. form \in {"full", "shorthand", "camo"} /\ form # "camo"
    OBVIOUS
  <2>2. validate_stream(Exported(s, form)).errors = 0
    BY <2>1, ExportIsWritten
  <2> QED BY <2>2 DEF ExitsZero
<1>3. validate_stream(Exported(s, "camo")).errors = 1
  BY ExportIsWritten
<1> QED BY <1>1, <1>2, <1>3

(* What camouflage-export writes of a saved session passes                 *)
(* camouflage-validate, in each form but for the header of a container, and *)
(* has as many events as --list says: for any store, whose rows differ and  *)
(* fit their types when the recorder starts, and however it ends.          *)
THEOREM ExportsAreValid == RecorderSpec => []ExportIsValid
<1>1. RecorderSpec => []StoreIsSound
  BY SoundStart, SoundStep, RecorderTypeCorrect, PTL DEF RecorderSpec
<1> QED BY <1>1, ExportsPass, RecorderInvariant, RecorderTypeCorrect, PTL

-----------------------------------------------------------------------------
(* The viewers of the broadcast.                                           *)

Peer == [kind : PeerKinds, step : PeerSteps, next : Nat, rest : Seq(Nat), got : Seq(Nat)]

(* The backlog holds each waiting peer once.                               *)
BacklogTrue ==
  /\ \A i \in DOMAIN backlog : peer[backlog[i]].step = "queued"
  /\ \A i, j \in DOMAIN backlog : backlog[i] = backlog[j] => i = j

(* The replay buffer is the newest lines read, as many as it may hold.      *)
ReplayIsNewest ==
  /\ linesSent <= linesRead /\ linesRead <= linesSent + 1
  /\ Len(replay) <= linesRead /\ (Len(replay) = linesRead \/ Len(replay) >= ReplayCap)
  /\ \A i \in DOMAIN replay : replay[i] = linesRead - Len(replay) + i

(* The lines of a run that starts after line `a'.                          *)
RunFrom(s, a) == \A i \in DOMAIN s : s[i] = a + i

(* The lines from a to b, in some order.                                   *)
Covers(s, a, b) ==
  /\ \A i \in DOMAIN s : s[i] \in a..b
  /\ \A v \in a..b : \E i \in DOMAIN s : s[i] = v

(* NoGap of what a peer has: see ViewerSeesNoGap.                          *)
NoGap(got) ==
  \A i \in 2..Len(got) :
    \/ \E j \in 1..(i-1) : got[j] = got[i]
    \/ /\ \E j \in 1..(i-1) : got[j] + 1 = got[i]
       /\ \A j \in 1..(i-1) : got[j] < got[i]

(* The channel has overwritten the next line of a task.                    *)
Behind(task, sent) == sent + 1 - task.next > LiveCap

(* A peer has not been sent anything before its copy of the buffer is made, *)
(* and its live lines start no later than the next line sent.               *)
BeforeReplay(task, sent) ==
  /\ task.got = <<>> /\ task.next <= sent + 1
  /\ task.step \in {"handshake", "authorized"} => task.next > 0

(* While the copy is sent, what the peer has and what is left of the copy   *)
(* are one run, and the live lines start within it or right behind it --    *)
(* unless they have left the channel by then.                               *)
InReplay(task, sent) ==
  LET has == Len(task.got) left == Len(task.rest) IN
  \E a \in Nat :
    /\ RunFrom(task.got, a) /\ RunFrom(task.rest, a + has)
    /\ \/ Behind(task, sent) \/ has + left = 0
       \/ task.next \in (a + 1)..(a + has + left + 1)

(* Then the next live line is one the peer has, or the one after.           *)
InLive(task, sent) ==
  \/ Behind(task, sent) \/ task.got = <<>>
  \/ \E a, b \in Nat : /\ a <= b /\ Covers(task.got, a, b)
                       /\ task.next \in a..(b + 1)

KeepsUp(task, sent) ==
  /\ task.step \in {"absent", "queued", "handshake", "authorized"} => BeforeReplay(task, sent)
  /\ task.step = "replaying" => InReplay(task, sent)
  /\ task.step = "live" => InLive(task, sent)
  /\ NoGap(task.got)

PeersFollow == \A p \in Peers : KeepsUp(peer[p], linesSent)

ViewersInv == BacklogTrue /\ ReplayIsNewest /\ (ReplayCap > LiveCap => PeersFollow)

-----------------------------------------------------------------------------
(* Types and the handshake slots.                                          *)

LEMMA CountOf ==
  ASSUME NEW S \in SUBSET Peers, NEW p \in Peers
  PROVE  /\ Cardinality(S) \in Nat
         /\ p \notin S => Cardinality(S \cup {p}) = Cardinality(S) + 1
         /\ p \in S => Cardinality(S \ {p}) = Cardinality(S) - 1
<1>1. IsFiniteSet(S)
  BY BroadcastAssumption, FS_Subset
<1> QED BY <1>1, FS_CardinalityType, FS_AddElement, FS_RemoveElement

(* A peer that takes or leaves a slot changes the count by one.            *)
LEMMA SlotTaken ==
  ASSUME BroadcastTypeOK, NEW p \in Peers, NEW task, task.step = "handshake",
         peer[p].step # "handshake", peer' = [peer EXCEPT ![p] = task]
  PROVE  Cardinality(In("handshake"))' = Cardinality(In("handshake")) + 1
<1>1. In("handshake")' = In("handshake") \cup {p} /\ p \notin In("handshake")
  BY DEF In, BroadcastTypeOK
<1> QED BY <1>1, CountOf DEF In

LEMMA SlotLeft ==
  ASSUME BroadcastTypeOK, NEW p \in Peers, NEW task, task.step # "handshake",
         peer[p].step = "handshake", peer' = [peer EXCEPT ![p] = task]
  PROVE  /\ Cardinality(In("handshake"))' = Cardinality(In("handshake")) - 1
         /\ Cardinality(In("handshake")) > 0
<1>1. In("handshake")' = In("handshake") \ {p} /\ p \in In("handshake")
  BY DEF In, BroadcastTypeOK
<1>2. In("handshake") \in SUBSET Peers
  BY DEF In
<1>3. In("handshake") \ {p} \in SUBSET Peers
  BY <1>2
<1>4. Cardinality(In("handshake") \ {p}) \in Nat
  BY <1>3, CountOf
<1> QED BY <1>1, <1>2, <1>4, CountOf

LEMMA SlotsSame ==
  ASSUME BroadcastTypeOK, NEW p \in Peers, NEW task,
         task.step # "handshake", peer[p].step # "handshake", peer' = [peer EXCEPT ![p] = task]
  PROVE  In("handshake")' = In("handshake")
BY DEF In, BroadcastTypeOK

(* The task of one peer becomes another one of its type.                   *)
LEMMA PeerType ==
  ASSUME BroadcastTypeOK, NEW p, NEW task \in Peer, peer' = [peer EXCEPT ![p] = task]
  PROVE  peer' \in [Peers -> Peer]
BY DEF BroadcastTypeOK, Peer

(* One field of a task is set, and the others stay.                        *)

LEMMA SetStep ==
  ASSUME NEW task \in Peer, NEW step \in PeerSteps
  PROVE  LET t == [task EXCEPT !.step = step] IN
         /\ t \in Peer /\ t.step = step /\ t.kind = task.kind
         /\ t.next = task.next /\ t.rest = task.rest /\ t.got = task.got
BY DEF Peer

LEMMA SetNext ==
  ASSUME NEW task \in Peer, NEW n \in Nat
  PROVE  LET t == [task EXCEPT !.next = n] IN
         /\ t \in Peer /\ t.next = n /\ t.kind = task.kind
         /\ t.step = task.step /\ t.rest = task.rest /\ t.got = task.got
BY DEF Peer

LEMMA SetRest ==
  ASSUME NEW task \in Peer, NEW s \in Seq(Nat)
  PROVE  LET t == [task EXCEPT !.rest = s] IN
         /\ t \in Peer /\ t.rest = s /\ t.kind = task.kind
         /\ t.step = task.step /\ t.next = task.next /\ t.got = task.got
BY DEF Peer

LEMMA SetGot ==
  ASSUME NEW task \in Peer, NEW s \in Seq(Nat)
  PROVE  LET t == [task EXCEPT !.got = s] IN
         /\ t \in Peer /\ t.got = s /\ t.kind = task.kind
         /\ t.step = task.step /\ t.next = task.next /\ t.rest = task.rest
BY DEF Peer

(* A task that ends keeps what its peer received.                          *)
LEMMA EndedTask ==
  ASSUME NEW task \in Peer
  PROVE  Ended(task) \in Peer /\ Ended(task).step = "gone" /\ Ended(task).got = task.got
<1> DEFINE gone == [task EXCEPT !.step = "gone"]
           idle == [gone EXCEPT !.next = 0]
           over == [idle EXCEPT !.rest = <<>>]
<1>1. gone \in Peer /\ gone.step = "gone" /\ gone.got = task.got
  BY SetStep DEF PeerSteps
<1>2. Ended(task) = over
  BY DEF Ended
<1> HIDE DEF gone
<1>3. idle \in Peer /\ idle.step = "gone" /\ idle.got = task.got
  BY <1>1, SetNext
<1> HIDE DEF idle
<1>4. <<>> \in Seq(Nat)
  OBVIOUS
<1>5. over \in Peer /\ over.step = "gone" /\ over.got = task.got
  BY <1>3, <1>4, SetRest
<1> HIDE DEF over
<1> QED BY <1>2, <1>5

-----------------------------------------------------------------------------
(* What each step makes of the one peer it moves.                          *)

Moves(p, t) == t \in Peer /\ peer' = [peer EXCEPT ![p] = t]

LEMMA ConnectMoves ==
  ASSUME BroadcastTypeOK, NEW p \in Peers, NEW kind \in PeerKinds, Connect(p, kind)
  PROVE  \E t : Moves(p, t) /\ t.step = "queued" /\ t.next = peer[p].next /\ t.got = peer[p].got
<1> DEFINE known == [peer[p] EXCEPT !.kind = kind]
           t == [known EXCEPT !.step = "queued"]
<1>1. peer[p] \in Peer
  BY DEF BroadcastTypeOK, Peer
<1>2. known \in Peer /\ known.next = peer[p].next /\ known.got = peer[p].got
  BY <1>1 DEF Peer
<1>3. peer' = [peer EXCEPT ![p] = t]
  BY DEF Connect, BroadcastTypeOK
<1> HIDE DEF known
<1>4. t \in Peer /\ t.step = "queued" /\ t.next = known.next /\ t.got = known.got
  BY <1>2, SetStep DEF PeerSteps
<1> HIDE DEF t
<1> QED BY <1>2, <1>3, <1>4 DEF Moves

LEMMA AcceptMoves ==
  ASSUME BroadcastTypeOK, Accept
  PROVE  LET p == Head(backlog) IN
         p \in Peers /\ \E t : Moves(p, t) /\ t.step = "handshake" /\ t.next = linesSent + 1
                              /\ t.got = peer[p].got
<1> DEFINE p == Head(backlog)
           begun == [peer[p] EXCEPT !.step = "handshake"]
           t == [begun EXCEPT !.next = linesSent + 1]
<1>1. p \in Peers
  BY DEF BroadcastTypeOK, Accept
<1>2. peer[p] \in Peer
  BY <1>1 DEF BroadcastTypeOK, Peer
<1>3. begun \in Peer /\ begun.step = "handshake" /\ begun.got = peer[p].got
  BY <1>2, SetStep DEF PeerSteps
<1>4. peer' = [peer EXCEPT ![p] = t]
  BY <1>1 DEF Accept, BroadcastTypeOK
<1> HIDE DEF begun
<1>5. linesSent + 1 \in Nat
  BY DEF BroadcastTypeOK
<1>6. t \in Peer /\ t.step = "handshake" /\ t.next = linesSent + 1 /\ t.got = peer[p].got
  BY <1>3, <1>5, SetNext
<1> HIDE DEF t
<1> QED BY <1>1, <1>4, <1>6 DEF Moves

LEMMA EndMoves ==
  ASSUME BroadcastTypeOK, NEW p \in Peers, peer' = [peer EXCEPT ![p] = Ended(@)]
  PROVE  \E t : Moves(p, t) /\ t.step = "gone" /\ t.got = peer[p].got
<1>1. peer[p] \in Peer
  BY DEF BroadcastTypeOK, Peer
<1> DEFINE t == Ended(peer[p])
<1>2. peer' = [peer EXCEPT ![p] = t]
  BY DEF BroadcastTypeOK
<1>3. t \in Peer /\ t.step = "gone" /\ t.got = peer[p].got
  BY <1>1, EndedTask
<1> HIDE DEF t
<1> QED BY <1>2, <1>3 DEF Moves

LEMMA AuthorizeMoves ==
  ASSUME BroadcastTypeOK, NEW p \in Peers, peer' = [peer EXCEPT ![p] = [@ EXCEPT !.step = "authorized"]]
  PROVE  \E t : Moves(p, t) /\ t.step = "authorized" /\ t.next = peer[p].next /\ t.got = peer[p].got
<1>1. peer[p] \in Peer
  BY DEF BroadcastTypeOK, Peer
<1> DEFINE t == [peer[p] EXCEPT !.step = "authorized"]
<1>2. peer' = [peer EXCEPT ![p] = t]
  BY DEF BroadcastTypeOK
<1>3. t \in Peer /\ t.step = "authorized" /\ t.next = peer[p].next /\ t.got = peer[p].got
  BY <1>1, SetStep DEF PeerSteps
<1> HIDE DEF t
<1> QED BY <1>2, <1>3 DEF Moves

LEMMA SnapshotMoves ==
  ASSUME BroadcastTypeOK, NEW p \in Peers, TakeSnapshot(p)
  PROVE  \E t : /\ Moves(p, t) /\ t.step = "replaying" /\ t.rest = replay
                /\ t.next = peer[p].next /\ t.got = peer[p].got
<1>1. peer[p] \in Peer /\ replay \in Seq(Nat)
  BY DEF BroadcastTypeOK, Peer
<1> DEFINE ready == [peer[p] EXCEPT !.step = "replaying"]
           t == [ready EXCEPT !.rest = replay]
<1>2. peer' = [peer EXCEPT ![p] = t]
  BY DEF TakeSnapshot, BroadcastTypeOK
<1>3. /\ ready \in Peer /\ ready.step = "replaying"
      /\ ready.next = peer[p].next /\ ready.got = peer[p].got
  BY <1>1, SetStep DEF PeerSteps
<1> HIDE DEF ready
<1>4. /\ t \in Peer /\ t.step = "replaying" /\ t.rest = replay
      /\ t.next = peer[p].next /\ t.got = peer[p].got
  BY <1>1, <1>3, SetRest
<1> HIDE DEF t
<1> QED BY <1>2, <1>4 DEF Moves

LEMMA ReplayMoves ==
  ASSUME BroadcastTypeOK, NEW p \in Peers, SendReplay(p)
  PROVE  \E t : /\ Moves(p, t) /\ t.next = peer[p].next
                /\ \/ /\ peer[p].rest = <<>> /\ t.step = "live"
                      /\ t.got = peer[p].got
                   \/ /\ peer[p].rest # <<>> /\ t.step = "replaying"
                      /\ t.got = Append(peer[p].got, Head(peer[p].rest))
                      /\ t.rest = Tail(peer[p].rest)
<1>1. peer[p] \in Peer
  BY DEF BroadcastTypeOK, Peer
<1>2. CASE peer[p].rest = <<>>
  <2> DEFINE t == [peer[p] EXCEPT !.step = "live"]
  <2>1. peer' = [peer EXCEPT ![p] = t]
    BY <1>2 DEF SendReplay, BroadcastTypeOK
  <2>2. t \in Peer /\ t.step = "live" /\ t.next = peer[p].next /\ t.got = peer[p].got
    BY <1>1, SetStep DEF PeerSteps
  <2> HIDE DEF t
  <2> QED BY <1>2, <2>1, <2>2 DEF Moves
<1>3. CASE peer[p].rest # <<>>
  <2> DEFINE got == Append(peer[p].got, Head(peer[p].rest))
             sent == [peer[p] EXCEPT !.got = got]
             t == [sent EXCEPT !.rest = Tail(peer[p].rest)]
  <2>1. peer' = [peer EXCEPT ![p] = t]
    BY <1>3, Zenon DEF SendReplay
  <2>2. peer[p].got \in Seq(Nat) /\ peer[p].rest \in Seq(Nat) /\ peer[p].step = "replaying"
    BY <1>1 DEF Peer, SendReplay
  <2>3. got \in Seq(Nat) /\ Tail(peer[p].rest) \in Seq(Nat)
    BY <1>3, <2>2
  <2> HIDE DEF got
  <2>4. /\ sent \in Peer /\ sent.step = "replaying" /\ sent.got = got
        /\ sent.next = peer[p].next /\ sent.rest = peer[p].rest
    BY <1>1, <2>2, <2>3, SetGot
  <2> HIDE DEF sent
  <2>5. /\ t \in Peer /\ t.step = "replaying" /\ t.got = got
        /\ t.next = peer[p].next /\ t.rest = Tail(peer[p].rest)
    BY <2>3, <2>4, SetRest
  <2> HIDE DEF t
  <2> QED BY <1>3, <2>1, <2>5 DEF Moves, got
<1> QED BY <1>2, <1>3

LEMMA FollowMoves ==
  ASSUME BroadcastTypeOK, NEW p \in Peers, Follow(p)
  PROVE  \E t : /\ Moves(p, t)
                /\ \/ Lagged(p) /\ t.step = "gone" /\ t.got = peer[p].got
                   \/ /\ ~Lagged(p) /\ t.step = "live" /\ t.next = peer[p].next + 1
                      /\ t.got = Append(peer[p].got, peer[p].next)
<1>1. peer[p] \in Peer
  BY DEF BroadcastTypeOK, Peer
<1>2. CASE Lagged(p)
  BY <1>2, EndMoves DEF Follow
<1>3. CASE ~Lagged(p)
  <2> DEFINE got == Append(peer[p].got, peer[p].next)
             sent == [peer[p] EXCEPT !.got = got]
             t == [sent EXCEPT !.next = peer[p].next + 1]
  <2>1. peer' = [peer EXCEPT ![p] = t]
    BY <1>3, Zenon DEF Follow
  <2>2. peer[p].got \in Seq(Nat) /\ peer[p].next \in Nat /\ peer[p].step = "live"
    BY <1>1 DEF Peer, Follow
  <2>3. got \in Seq(Nat) /\ peer[p].next + 1 \in Nat
    BY <2>2
  <2> HIDE DEF got
  <2>4. sent \in Peer /\ sent.step = "live" /\ sent.got = got /\ sent.next = peer[p].next
    BY <1>1, <2>2, <2>3, SetGot
  <2> HIDE DEF sent
  <2>5. t \in Peer /\ t.step = "live" /\ t.got = got /\ t.next = peer[p].next + 1
    BY <2>3, <2>4, SetNext
  <2> HIDE DEF t
  <2> QED BY <1>3, <2>1, <2>5 DEF Moves, got
<1> QED BY <1>2, <1>3

LEMMA Moved ==
  ASSUME BroadcastTypeOK, NEW p \in Peers, NEW t, Moves(p, t)
  PROVE  /\ peer' \in [Peers -> Peer] /\ peer'[p] = t
         /\ \A x \in Peers : x # p => peer'[x] = peer[x]
<1>1. peer \in [Peers -> Peer]
  BY DEF BroadcastTypeOK, Peer
<1> QED BY <1>1 DEF Moves

LEMMA HandshakeSlots ==
  ASSUME BroadcastTypeOK, NEW p \in Peers, HandshakeAnswered(p) \/ HandshakeFails(p)
  PROVE  /\ peer[p].step = "handshake" /\ serving /\ permits' = permits + 1
         /\ UNCHANGED <<serving, replay, linesRead, linesSent, acceptor, errorsLeft, backlog>>
         /\ \E t : /\ Moves(p, t) /\ t.got = peer[p].got
                   /\ \/ t.step = "gone"
                      \/ t.step = "authorized" /\ t.next = peer[p].next
<1>1. \/ peer' = [peer EXCEPT ![p] = Ended(@)]
      \/ peer' = [peer EXCEPT ![p] = [@ EXCEPT !.step = "authorized"]]
  BY DEF HandshakeAnswered, HandshakeFails, Becomes
<1>2. \E t : /\ Moves(p, t) /\ t.got = peer[p].got
             /\ \/ t.step = "gone"
                \/ t.step = "authorized" /\ t.next = peer[p].next
  BY <1>1, EndMoves, AuthorizeMoves
<1> QED BY <1>2 DEF HandshakeAnswered, HandshakeFails, Becomes

(* Every step of the tasks of a peer that has been answered.               *)
LEMMA FollowerMoves ==
  ASSUME BroadcastTypeOK, NEW p \in Peers,
         TakeSnapshot(p) \/ SendReplay(p) \/ Follow(p) \/ PeerLeaves(p)
  PROVE  /\ peer[p].step \in {"authorized", "replaying", "live"} /\ serving
         /\ UNCHANGED <<serving, replay, linesRead, linesSent, permits, acceptor,
                        errorsLeft, backlog>>
         /\ \E t : Moves(p, t) /\ t.step \in {"replaying", "live", "gone"}
<1>1. PeerLeaves(p) => peer' = [peer EXCEPT ![p] = Ended(@)]
  BY DEF PeerLeaves, Becomes
<1>2. \E t : Moves(p, t) /\ t.step \in {"replaying", "live", "gone"}
  BY <1>1, SnapshotMoves, ReplayMoves, FollowMoves, EndMoves
<1> QED BY <1>2 DEF TakeSnapshot, SendReplay, Follow, PeerLeaves, Becomes

PermitsInRange == permits \in 0..MaxPending

LEMMA InRange ==
  ASSUME BroadcastTypeOK, PermitsAccountedFor', serving', permits' \in Nat
  PROVE  PermitsInRange'
<1>1. In("handshake")' \in SUBSET Peers
  BY DEF In
<1>2. Cardinality(In("handshake")') \in Nat
  BY <1>1, BroadcastAssumption, FS_Subset, FS_CardinalityType
<1> QED BY <1>2, BroadcastAssumption DEF PermitsAccountedFor, PermitsInRange

(* Peers that keep their steps keep the backlog and the slots true.        *)
LEMMA Untouched ==
  ASSUME BroadcastTypeOK, BacklogTrue,
         UNCHANGED <<serving, permits, acceptor, backlog, peer>>
  PROVE  PermitsAccountedFor' /\ PermitsInRange' /\ BacklogTrue'
BY DEF BroadcastTypeOK, BacklogTrue, PermitsAccountedFor, PermitsInRange, In

LEMMA Followed ==
  ASSUME BroadcastTypeOK, BacklogTrue, NEW p \in Peers, NEW t, Moves(p, t),
         peer[p].step \notin {"queued", "handshake"}, t.step # "handshake",
         UNCHANGED <<serving, permits, acceptor, backlog>>
  PROVE  PermitsAccountedFor' /\ PermitsInRange' /\ BacklogTrue'
<1>1. In("handshake")' = In("handshake")
  BY SlotsSame DEF Moves
<1>2. PermitsAccountedFor' /\ PermitsInRange'
  BY <1>1 DEF BroadcastTypeOK, PermitsAccountedFor, PermitsInRange
<1>3. ASSUME NEW i \in DOMAIN backlog PROVE peer'[backlog[i]].step = "queued"
  <2>1. backlog[i] \in Peers /\ peer[backlog[i]].step = "queued"
    BY DEF BacklogTrue, BroadcastTypeOK
  <2> QED BY <2>1, Moved
<1> QED BY <1>2, <1>3 DEF BacklogTrue

(* Types, the slots and the backlog, one case per action.                  *)
PlainTypes ==
  /\ serving \in BOOLEAN
  /\ replay \in Seq(Nat) /\ linesRead \in Nat /\ linesSent \in Nat
  /\ acceptor \in {"waiting", "accepting", "backoff"} /\ errorsLeft \in 0..MaxAcceptErrors
  /\ backlog \in Seq(Peers) /\ peer \in [Peers -> Peer]

LEMMA TypeStep ==
  BroadcastTypeOK /\ BacklogTrue /\ [BroadcastNext]_broadcastVars
    => BroadcastTypeOK' /\ BacklogTrue'
<1> SUFFICES ASSUME BroadcastTypeOK, BacklogTrue, [BroadcastNext]_broadcastVars
             PROVE  PlainTypes' /\ PermitsInRange' /\ PermitsAccountedFor' /\ BacklogTrue'
  BY DEF BroadcastTypeOK, PlainTypes, PermitsInRange, Peer
<1>0. PlainTypes /\ permits \in Nat /\ permits \in 0..MaxPending /\ PermitsAccountedFor
  BY BroadcastAssumption DEF PlainTypes, BroadcastTypeOK, Peer
<1>1. CASE ReadLine \/ SendLine
  <2>1. UNCHANGED <<serving, permits, acceptor, backlog, peer, errorsLeft>>
    BY <1>1 DEF ReadLine, SendLine
  <2>2. linesRead' \in Nat /\ linesSent' \in Nat
    BY <1>0, <1>1 DEF ReadLine, SendLine, PlainTypes
  <2>3. replay' \in Seq(Nat)
    <3>1. CASE SendLine
      BY <1>0, <3>1 DEF SendLine, PlainTypes
    <3>2. CASE ReadLine
      <4>1. linesRead + 1 \in Nat /\ replay \in Seq(Nat)
        BY <1>0 DEF PlainTypes
      <4>2. Len(replay) >= ReplayCap => replay # <<>>
        BY BroadcastAssumption
      <4>3. Len(replay) >= ReplayCap => Tail(replay) \in Seq(Nat)
        BY <4>1, <4>2
      <4> DEFINE kept == IF Len(replay) >= ReplayCap THEN Tail(replay) ELSE replay
      <4>4. kept \in Seq(Nat)
        BY <4>1, <4>3
      <4>5. replay' = Append(kept, linesRead + 1)
        BY <3>2 DEF ReadLine, PushReplay
      <4> HIDE DEF kept
      <4> QED BY <4>1, <4>4, <4>5
    <3> QED BY <1>1, <3>1, <3>2
  <2>4. PlainTypes'
    BY <1>0, <2>1, <2>2, <2>3 DEF PlainTypes
  <2> QED BY <2>1, <2>4, Untouched
<1>2. CASE StdinCloses
  <2>1. ASSUME NEW p \in Peers PROVE peer'[p] \in Peer
    <3>1. peer[p] \in Peer /\ peer'[p] \in {peer[p], Ended(peer[p])}
      BY <1>0, <1>2 DEF StdinCloses, PlainTypes
    <3> QED BY <3>1, EndedTask
  <2>2. peer' \in [Peers -> Peer]
    BY <1>2, <2>1 DEF StdinCloses
  <2>3. ~serving' /\ serving' \in BOOLEAN /\ backlog' = <<>>
        /\ UNCHANGED <<replay, linesRead, linesSent, permits, acceptor, errorsLeft>>
    BY <1>2 DEF StdinCloses
  <2>4. backlog' \in Seq(Peers)
    BY <2>3
  <2>5. PlainTypes' /\ PermitsInRange'
    BY <1>0, <2>2, <2>3, <2>4 DEF PlainTypes, PermitsInRange
  <2> QED BY <2>3, <2>5 DEF PermitsAccountedFor, BacklogTrue
<1>3. CASE \E p \in Peers, kind \in PeerKinds : Connect(p, kind)
  <2>1. PICK p \in Peers, kind \in PeerKinds : Connect(p, kind)
    BY <1>3
  <2>2. PICK t : Moves(p, t) /\ t.step = "queued"
    BY <2>1, ConnectMoves
  <2>3. /\ peer[p].step = "absent" /\ backlog' = Append(backlog, p)
        /\ UNCHANGED <<serving, replay, linesRead, linesSent, permits, acceptor, errorsLeft>>
    BY <2>1 DEF Connect
  <2>4. In("handshake")' = In("handshake")
    BY <2>2, <2>3, SlotsSame DEF Moves
  <2>5. peer' \in [Peers -> Peer] /\ backlog' \in Seq(Peers)
    BY <1>0, <2>2, <2>3, Moved DEF PlainTypes
  <2>6. PlainTypes' /\ PermitsInRange' /\ PermitsAccountedFor'
    BY <1>0, <2>3, <2>4, <2>5 DEF PlainTypes, PermitsInRange, PermitsAccountedFor
  <2>7. \A i \in DOMAIN backlog : backlog[i] \in Peers /\ backlog[i] # p
    BY <1>0, <2>3 DEF BacklogTrue, PlainTypes
  <2>8. /\ DOMAIN backlog' = DOMAIN backlog \cup {Len(backlog) + 1}
        /\ backlog'[Len(backlog) + 1] = p /\ Len(backlog) + 1 \notin DOMAIN backlog
        /\ \A i \in DOMAIN backlog : backlog'[i] = backlog[i]
    BY <1>0, <2>3 DEF PlainTypes
  <2>9. \A i \in DOMAIN backlog' : peer'[backlog'[i]].step = "queued"
    BY <2>2, <2>7, <2>8, Moved DEF BacklogTrue
  <2>10. \A i, j \in DOMAIN backlog' : backlog'[i] = backlog'[j] => i = j
    BY <2>7, <2>8 DEF BacklogTrue
  <2> QED BY <2>6, <2>9, <2>10 DEF BacklogTrue
<1>4. CASE AcquirePermit \/ AcceptFails \/ BackoffEnds
  <2>1. UNCHANGED <<serving, replay, linesRead, linesSent, backlog, peer>> /\ serving
    BY <1>4 DEF AcquirePermit, AcceptFails, BackoffEnds
  <2>2. /\ acceptor' \in {"waiting", "accepting", "backoff"} /\ permits' \in Nat
        /\ \/ errorsLeft' = errorsLeft
           \/ errorsLeft > 0 /\ errorsLeft' = errorsLeft - 1
    BY <1>0, <1>4 DEF AcquirePermit, AcceptFails, BackoffEnds
  <2>3. errorsLeft' \in 0..MaxAcceptErrors
    BY <1>0, <2>2, BroadcastAssumption DEF PlainTypes
  <2>4. PlainTypes' /\ permits' \in Nat
    BY <1>0, <2>1, <2>2, <2>3 DEF PlainTypes
  <2>5. In("handshake")' = In("handshake")
    BY <2>1 DEF In
  <2>6. Cardinality(In("handshake")) \in Nat
    BY BroadcastAssumption, FS_Subset, FS_CardinalityType DEF In
  <2>7. PermitsAccountedFor'
    BY <1>0, <1>4, <2>1, <2>5, <2>6
       DEF AcquirePermit, AcceptFails, BackoffEnds, PermitsAccountedFor
  <2>8. BacklogTrue'
    BY <2>1 DEF BacklogTrue
  <2> QED BY <2>1, <2>4, <2>7, <2>8, InRange
<1>5. CASE Accept
  <2> DEFINE p == Head(backlog)
  <2>1. p \in Peers /\ p = backlog[1] /\ 1 \in DOMAIN backlog /\ backlog \in Seq(Peers)
        /\ backlog # <<>>
    BY <1>0, <1>5 DEF Accept, PlainTypes
  <2>2. PICK t : Moves(p, t) /\ t.step = "handshake"
    BY <1>5, AcceptMoves
  <2>3. peer[p].step = "queued"
    BY <2>1 DEF BacklogTrue
  <2>4. /\ backlog' = Tail(backlog) /\ acceptor = "accepting" /\ acceptor' = "waiting" /\ serving
        /\ UNCHANGED <<serving, replay, linesRead, linesSent, permits, errorsLeft>>
    BY <1>5 DEF Accept
  <2>5. Cardinality(In("handshake"))' = Cardinality(In("handshake")) + 1
    BY <2>1, <2>2, <2>3, SlotTaken DEF Moves
  <2>6. peer' \in [Peers -> Peer] /\ backlog' \in Seq(Peers)
    BY <2>1, <2>2, <2>4, Moved
  <2>7. PlainTypes'
    BY <1>0, <2>4, <2>6 DEF PlainTypes
  <2>8. Cardinality(In("handshake")) \in Nat
    BY BroadcastAssumption, FS_Subset, FS_CardinalityType DEF In
  <2>9. PermitsAccountedFor' /\ PermitsInRange'
    BY <1>0, <2>4, <2>5, <2>8 DEF PermitsAccountedFor, PermitsInRange
  <2>10. \A i \in DOMAIN backlog' : i + 1 \in DOMAIN backlog /\ backlog'[i] = backlog[i + 1]
                                    /\ i \in Nat /\ i # 0
    BY <2>1, <2>4
  <2>11. \A i \in DOMAIN backlog' : backlog'[i] # p /\ backlog'[i] \in Peers
    BY <2>1, <2>10 DEF BacklogTrue
  <2>12. \A i \in DOMAIN backlog' : peer'[backlog'[i]].step = "queued"
    BY <2>1, <2>2, <2>10, <2>11, Moved DEF BacklogTrue
  <2>13. \A i, j \in DOMAIN backlog' : backlog'[i] = backlog'[j] => i = j
    BY <2>10 DEF BacklogTrue
  <2> QED BY <2>7, <2>9, <2>12, <2>13 DEF BacklogTrue
<1>6. ASSUME NEW p \in Peers, HandshakeAnswered(p) \/ HandshakeFails(p)
      PROVE  PlainTypes' /\ PermitsInRange' /\ PermitsAccountedFor' /\ BacklogTrue'
  <2>1. /\ peer[p].step = "handshake" /\ serving /\ permits' = permits + 1
        /\ UNCHANGED <<serving, replay, linesRead, linesSent, acceptor, errorsLeft, backlog>>
    BY <1>6, HandshakeSlots
  <2>2. PICK t : Moves(p, t) /\ t.step \in {"gone", "authorized"}
    BY <1>6, HandshakeSlots
  <2>3. /\ Cardinality(In("handshake"))' = Cardinality(In("handshake")) - 1
        /\ Cardinality(In("handshake")) > 0
    BY <2>1, <2>2, SlotLeft DEF Moves
  <2>4. peer' \in [Peers -> Peer]
    BY <2>2, Moved
  <2>5. PlainTypes' /\ permits' \in Nat /\ serving'
    BY <1>0, <2>1, <2>4 DEF PlainTypes
  <2>6. Cardinality(In("handshake")) \in Nat
    BY BroadcastAssumption, FS_Subset, FS_CardinalityType DEF In
  <2>7. PermitsAccountedFor'
    BY <1>0, <2>1, <2>3, <2>6 DEF PermitsAccountedFor
  <2>8. ASSUME NEW i \in DOMAIN backlog PROVE peer'[backlog[i]].step = "queued"
    <3>1. backlog[i] \in Peers /\ peer[backlog[i]].step = "queued"
      BY <1>0 DEF BacklogTrue, PlainTypes
    <3> QED BY <2>1, <2>2, <3>1, Moved
  <2>9. BacklogTrue'
    BY <2>1, <2>8 DEF BacklogTrue
  <2> QED BY <2>5, <2>7, <2>9, InRange
<1>7. ASSUME NEW p \in Peers, TakeSnapshot(p) \/ SendReplay(p) \/ Follow(p) \/ PeerLeaves(p)
      PROVE  PlainTypes' /\ PermitsInRange' /\ PermitsAccountedFor' /\ BacklogTrue'
  <2>1. /\ peer[p].step \in {"authorized", "replaying", "live"}
        /\ UNCHANGED <<serving, replay, linesRead, linesSent, permits, acceptor,
                       errorsLeft, backlog>>
    BY <1>7, FollowerMoves
  <2>2. PICK t : Moves(p, t) /\ t.step \in {"replaying", "live", "gone"}
    BY <1>7, FollowerMoves
  <2>3. PermitsAccountedFor' /\ PermitsInRange' /\ BacklogTrue'
    BY <2>1, <2>2, Followed
  <2>4. peer' \in [Peers -> Peer]
    BY <2>2, Moved
  <2> QED BY <1>0, <2>1, <2>3, <2>4 DEF PlainTypes
<1>8. CASE UNCHANGED broadcastVars
  <2>1. UNCHANGED <<serving, replay, linesRead, linesSent, permits, acceptor, errorsLeft,
                    backlog, peer>>
    BY <1>8 DEF broadcastVars
  <2> QED BY <1>0, <2>1, Untouched DEF PlainTypes
<1> QED BY <1>1, <1>2, <1>3, <1>4, <1>5, <1>6, <1>7, <1>8 DEF BroadcastNext

LEMMA InitTypes == BroadcastInit => BroadcastTypeOK /\ BacklogTrue
<1> SUFFICES ASSUME BroadcastInit PROVE BroadcastTypeOK /\ BacklogTrue
  OBVIOUS
<1>1. In("handshake") = {}
  BY DEF BroadcastInit, In
<1>2. PermitsAccountedFor
  BY <1>1, FS_EmptySet, BroadcastAssumption DEF BroadcastInit, PermitsAccountedFor
<1>3. <<>> \in Seq(Nat) /\ <<>> \in Seq(Peers)
  OBVIOUS
<1>4. peer \in [Peers -> Peer]
  BY <1>3 DEF BroadcastInit, Peer, PeerKinds, PeerSteps
<1>5. BacklogTrue
  BY DEF BroadcastInit, BacklogTrue
<1> QED BY <1>2, <1>3, <1>4, <1>5, BroadcastAssumption DEF BroadcastInit, BroadcastTypeOK, Peer

-----------------------------------------------------------------------------
(* The replay buffer.                                                      *)

LEMMA ReplayStep ==
  ASSUME BroadcastTypeOK, ReplayIsNewest, [BroadcastNext]_broadcastVars
  PROVE  ReplayIsNewest' /\ linesSent' >= linesSent
<1>0. replay \in Seq(Nat) /\ linesRead \in Nat /\ linesSent \in Nat
  BY DEF BroadcastTypeOK
<1>1. CASE ReadLine
  <2> DEFINE full == Len(replay) >= ReplayCap
             kept == IF full THEN Tail(replay) ELSE replay
             line == linesRead + 1
  <2>1. /\ linesRead = linesSent /\ linesRead' = line /\ linesSent' = linesSent
        /\ replay' = Append(kept, line)
    BY <1>1 DEF ReadLine, PushReplay
  <2>2. Len(replay) \in Nat /\ (full => replay # <<>>) /\ ReplayCap \in Nat \ {0}
    BY <1>0, BroadcastAssumption
  <2>3. /\ kept \in Seq(Nat) /\ Len(kept) <= linesRead
        /\ Len(kept) = linesRead \/ Len(kept) + 1 >= ReplayCap
        /\ \A i \in DOMAIN kept : kept[i] = linesRead - Len(kept) + i
    <3>1. CASE full
      <4>1. /\ Tail(replay) \in Seq(Nat) /\ Len(Tail(replay)) = Len(replay) - 1
            /\ DOMAIN Tail(replay) = 1..(Len(replay) - 1) /\ DOMAIN replay = 1..Len(replay)
            /\ \A i \in 1..(Len(replay) - 1) : Tail(replay)[i] = replay[i + 1]
        BY <1>0, <2>2, <3>1
      <4>2. kept = Tail(replay)
        BY <3>1
      <4> HIDE DEF kept
      <4>3. kept \in Seq(Nat) /\ Len(kept) = Len(replay) - 1
        BY <4>1, <4>2
      <4>4. Len(kept) <= linesRead /\ Len(kept) + 1 >= ReplayCap
        BY <1>0, <2>2, <3>1, <4>3 DEF ReplayIsNewest
      <4>5. ASSUME NEW i \in DOMAIN kept PROVE kept[i] = linesRead - Len(kept) + i
        <5>1. i \in 1..(Len(replay) - 1) /\ i + 1 \in DOMAIN replay
          BY <2>2, <4>1, <4>2
        <5>2. kept[i] = linesRead - Len(replay) + (i + 1)
          BY <4>1, <4>2, <5>1 DEF ReplayIsNewest
        <5> QED BY <1>0, <2>2, <4>3, <5>1, <5>2
      <4> QED BY <4>3, <4>4, <4>5
    <3>2. CASE ~full
      BY <1>0, <2>2, <3>2 DEF ReplayIsNewest
    <3> QED BY <3>1, <3>2
  <2> HIDE DEF kept
  <2>4. /\ Len(replay') = Len(kept) + 1 /\ Len(kept) \in Nat
        /\ DOMAIN replay' = DOMAIN kept \cup {Len(kept) + 1}
        /\ replay'[Len(kept) + 1] = line /\ DOMAIN kept = 1..Len(kept)
        /\ \A i \in DOMAIN kept : replay'[i] = kept[i]
    BY <1>0, <2>1, <2>3
  <2>5. ASSUME NEW i \in DOMAIN replay' PROVE replay'[i] = linesRead' - Len(replay') + i
    <3>1. CASE i \in DOMAIN kept
      <4>1. replay'[i] = linesRead - Len(kept) + i /\ i \in Nat
        BY <2>3, <2>4, <3>1
      <4> QED BY <1>0, <2>1, <2>4, <4>1
    <3>2. CASE i = Len(kept) + 1
      BY <1>0, <2>1, <2>4, <3>2
    <3> QED BY <2>4, <3>1, <3>2
  <2>6. Len(replay') <= linesRead' /\ (Len(replay') = linesRead' \/ Len(replay') >= ReplayCap)
    <3>1. Len(kept) <= linesRead /\ (Len(kept) = linesRead \/ Len(kept) + 1 >= ReplayCap)
      BY <2>3
    <3>2. Len(kept) \in Nat /\ Len(replay') = Len(kept) + 1 /\ linesRead' = linesRead + 1
      BY <2>1, <2>4
    <3> HIDE DEF full, line
    <3> QED BY <1>0, <2>2, <3>1, <3>2
  <2>7. linesSent' <= linesRead' /\ linesRead' <= linesSent' + 1 /\ linesSent' >= linesSent
    BY <1>0, <2>1
  <2> QED BY <2>5, <2>6, <2>7 DEF ReplayIsNewest
<1>2. CASE SendLine
  BY <1>0, <1>2 DEF SendLine, ReplayIsNewest
<1>3. CASE UNCHANGED <<replay, linesRead, linesSent>>
  BY <1>0, <1>3 DEF ReplayIsNewest
<1>4. \/ ReadLine \/ SendLine
      \/ UNCHANGED <<replay, linesRead, linesSent>>
  BY DEF BroadcastNext, broadcastVars, StdinCloses, Connect, AcquirePermit, Accept, AcceptFails,
         BackoffEnds, HandshakeAnswered, HandshakeFails, Becomes, TakeSnapshot, SendReplay,
         Follow, PeerLeaves
<1> QED BY <1>1, <1>2, <1>3, <1>4

-----------------------------------------------------------------------------
(* What a peer has been sent.                                              *)

(* More lines sent leave a task where it was.                              *)
LEMMA FollowsLater ==
  ASSUME NEW task \in Peer, NEW n \in Nat, NEW m \in Nat, n <= m, KeepsUp(task, n)
  PROVE  KeepsUp(task, m)
<1>1. task.next \in Nat
  BY DEF Peer
<1>2. Behind(task, n) => Behind(task, m)
  BY <1>1, BroadcastAssumption DEF Behind
<1>3. BeforeReplay(task, n) => BeforeReplay(task, m)
  BY <1>1 DEF BeforeReplay
<1>4. InReplay(task, n) => InReplay(task, m)
  BY <1>2 DEF InReplay
<1>5. InLive(task, n) => InLive(task, m)
  BY <1>2 DEF InLive
<1> QED BY <1>3, <1>4, <1>5 DEF KeepsUp

LEMMA RunNoGap ==
  ASSUME NEW s \in Seq(Nat), NEW a \in Nat, RunFrom(s, a)
  PROVE  NoGap(s)
<1> SUFFICES ASSUME NEW i \in 2..Len(s)
             PROVE  /\ \E j \in 1..(i-1) : s[j] + 1 = s[i]
                    /\ \A j \in 1..(i-1) : s[j] < s[i]
  BY DEF NoGap
<1>1. s[i] = a + i /\ \A j \in 1..(i-1) : s[j] = a + j
  BY DEF RunFrom
<1>2. i - 1 \in 1..(i-1) /\ s[i-1] + 1 = s[i]
  BY <1>1
<1> QED BY <1>1, <1>2

LEMMA RunCovers ==
  ASSUME NEW s \in Seq(Nat), NEW a \in Nat, RunFrom(s, a), s # <<>>
  PROVE  a + 1 <= a + Len(s) /\ Covers(s, a + 1, a + Len(s))
<1>1. Len(s) \in Nat \ {0} /\ DOMAIN s = 1..Len(s)
  OBVIOUS
<1>2. \A i \in DOMAIN s : s[i] \in (a+1)..(a + Len(s))
  BY <1>1 DEF RunFrom
<1>3. ASSUME NEW v \in (a+1)..(a + Len(s)) PROVE \E i \in DOMAIN s : s[i] = v
  <2>1. v - a \in DOMAIN s /\ s[v - a] = v
    BY <1>1 DEF RunFrom
  <2> QED BY <2>1
<1> QED BY <1>1, <1>2, <1>3 DEF Covers

(* A line that a peer has, or the next one, leaves no gap.                 *)
LEMMA AppendCovers ==
  ASSUME NEW s \in Seq(Nat), NEW a \in Nat, NEW b \in Nat, Covers(s, a, b), a <= b, NoGap(s),
         NEW n \in a..(b + 1)
  PROVE  /\ NoGap(Append(s, n))
         /\ Covers(Append(s, n), a, IF n = b + 1 THEN n ELSE b)
<1> DEFINE t == Append(s, n)
           k == Len(s)
<1>1. /\ t \in Seq(Nat) /\ Len(t) = k + 1 /\ k \in Nat
      /\ t[k + 1] = n /\ \A i \in 1..k : t[i] = s[i]
      /\ DOMAIN s = 1..k /\ DOMAIN t = 1..(k + 1)
  OBVIOUS
<1> HIDE DEF t, k
<1>2. ASSUME NEW i \in 1..k PROVE s[i] \in Nat /\ s[i] <= b /\ s[i] >= a
  <2>1. s[i] \in a..b
    BY <1>1 DEF Covers
  <2> QED BY <2>1
<1>3. /\ n <= b => \E j \in 1..k : t[j] = n
      /\ n = b + 1 => (\E j \in 1..k : t[j] + 1 = n) /\ \A j \in 1..k : t[j] < n
  <2>1. CASE n <= b
    <3>1. n \in a..b
      BY <2>1
    <3> QED BY <1>1, <2>1, <3>1 DEF Covers
  <2>2. CASE n = b + 1
    <3>1. b \in a..b
      OBVIOUS
    <3>2. PICK j \in 1..k : s[j] = b
      BY <1>1, <3>1 DEF Covers
    <3> QED BY <1>1, <1>2, <2>2, <3>2
  <2> QED BY <2>1, <2>2
<1>4. NoGap(t)
  <2> SUFFICES ASSUME NEW i \in 2..Len(t)
               PROVE  \/ \E j \in 1..(i-1) : t[j] = t[i]
                      \/ /\ \E j \in 1..(i-1) : t[j] + 1 = t[i]
                         /\ \A j \in 1..(i-1) : t[j] < t[i]
    BY DEF NoGap
  <2>1. CASE i <= k
    <3>1. i \in 2..k /\ \A j \in 1..(i-1) : t[j] = s[j]
      BY <1>1, <2>1
    <3>2. i \in 2..Len(s) /\ t[i] = s[i]
      BY <1>1, <3>1 DEF k
    <3> QED BY <3>1, <3>2 DEF NoGap
  <2>2. CASE i = k + 1
    <3>1. i - 1 = k /\ t[i] = n /\ (n <= b \/ n = b + 1)
      BY <1>1, <2>2
    <3> QED BY <1>3, <3>1
  <2> QED BY <1>1, <2>1, <2>2
<1>5. Covers(t, a, IF n = b + 1 THEN n ELSE b)
  <2>1. \A i \in DOMAIN t : t[i] \in a..(IF n = b + 1 THEN n ELSE b)
    BY <1>1, <1>2
  <2>2. \A v \in a..b : \E i \in DOMAIN t : t[i] = v
    BY <1>1 DEF Covers
  <2>3. \E i \in DOMAIN t : t[i] = n
    BY <1>1
  <2> QED BY <2>1, <2>2, <2>3 DEF Covers
<1> QED BY <1>4, <1>5 DEF t

-----------------------------------------------------------------------------
(* The steps of one peer's task.                                           *)

(* The copy of the buffer reaches to the line before the live ones, or the  *)
(* live ones have left the channel.                                        *)
LEMMA SnapshotFollows ==
  ASSUME BroadcastTypeOK, ReplayIsNewest, ReplayCap > LiveCap,
         NEW task \in Peer, NEW t \in Peer, task.step = "authorized", KeepsUp(task, linesSent),
         t.step = "replaying", t.rest = replay, t.next = task.next, t.got = task.got
  PROVE  KeepsUp(t, linesSent)
<1> DEFINE n == Len(replay)
           a == linesRead - n
<1>1. /\ replay \in Seq(Nat) /\ linesRead \in Nat /\ linesSent \in Nat /\ n \in Nat
      /\ t.next \in Nat
  BY DEF BroadcastTypeOK, Peer
<1>2. t.got = <<>> /\ t.next <= linesSent + 1 /\ t.next > 0
  BY DEF KeepsUp, BeforeReplay
<1>3. /\ linesSent <= linesRead /\ linesRead <= linesSent + 1 /\ n <= linesRead
      /\ n = linesRead \/ n >= ReplayCap
      /\ \A i \in DOMAIN replay : replay[i] = a + i
  BY DEF ReplayIsNewest
<1> HIDE DEF n
<1>4. a \in Nat
  BY <1>1, <1>3
<1>5. RunFrom(t.got, a) /\ Len(t.got) = 0 /\ Len(t.rest) = n
  BY <1>2 DEF RunFrom, n
<1>6. RunFrom(t.rest, a + 0)
  BY <1>3, <1>4 DEF RunFrom
<1>7. Behind(t, linesSent) \/ t.next \in (a + 1)..(a + 0 + n + 1)
  <2>1. CASE t.next >= a + 1
    <3>1. a + n = linesRead BY <1>1, <1>4
    <3>2. t.next \in Nat /\ n \in Nat /\ linesSent \in Nat /\ linesRead \in Nat BY <1>1
    <3>3. t.next <= linesSent + 1 /\ linesSent <= linesRead BY <1>2, <1>3
    <3> HIDE DEF a
    <3> QED BY <1>4, <2>1, <3>1, <3>2, <3>3
  <2>2. CASE t.next <= a
    <3>1. linesSent + 1 - t.next >= n /\ n >= ReplayCap
      BY <1>1, <1>2, <1>3, <2>2
    <3> QED BY <1>1, <3>1, BroadcastAssumption DEF Behind
  <2> QED BY <1>1, <1>4, <2>1, <2>2
<1> HIDE DEF a
<1>8. InReplay(t, linesSent)
  BY <1>4, <1>5, <1>6, <1>7 DEF InReplay
<1>9. NoGap(t.got)
  BY <1>2 DEF NoGap
<1> QED BY <1>8, <1>9 DEF KeepsUp

LEMMA AppendIs ==
  ASSUME NEW s \in Seq(Nat), NEW n \in Nat
  PROVE  LET t == Append(s, n) IN
         /\ Len(t) = Len(s) + 1 /\ DOMAIN t = DOMAIN s \cup {Len(s) + 1}
         /\ t[Len(s) + 1] = n /\ \A i \in DOMAIN s : t[i] = s[i]
OBVIOUS

(* The next line of the copy continues the run; the last one leaves it to   *)
(* the live lines.                                                         *)
LEMMA ReplayFollows ==
  ASSUME NEW sent \in Nat, NEW task \in Peer, NEW t \in Peer,
         task.step = "replaying", KeepsUp(task, sent), t.next = task.next,
         \/ task.rest = <<>> /\ t.step = "live" /\ t.got = task.got
         \/ /\ task.rest # <<>> /\ t.step = "replaying"
            /\ t.got = Append(task.got, Head(task.rest)) /\ t.rest = Tail(task.rest)
  PROVE  KeepsUp(t, sent)
<1>1. task.got \in Seq(Nat) /\ task.rest \in Seq(Nat) /\ t.got \in Seq(Nat) /\ t.next \in Nat
  BY DEF Peer
<1>2. InReplay(task, sent) /\ NoGap(task.got)
  BY DEF KeepsUp
<1> DEFINE has == Len(task.got)
           left == Len(task.rest)
<1>3. PICK a \in Nat :
        /\ RunFrom(task.got, a) /\ RunFrom(task.rest, a + has)
        /\ \/ Behind(task, sent) \/ has + left = 0
           \/ task.next \in (a + 1)..(a + has + left + 1)
  BY <1>2 DEF InReplay
<1>4. Behind(task, sent) <=> Behind(t, sent)
  BY DEF Behind
<1>5. has \in Nat /\ left \in Nat
  BY <1>1
<1>6. CASE task.rest = <<>> /\ t.step = "live" /\ t.got = task.got
  <2>1. left = 0
    BY <1>6
  <2>2. \/ Behind(t, sent) \/ has = 0 \/ t.next \in (a + 1)..(a + has + 1)
    BY <1>3, <1>4, <1>5, <2>1
  <2>3. has = 0 => t.got = <<>>
    BY <1>1, <1>6
  <2>4. t.got # <<>> => a + 1 <= a + has /\ Covers(t.got, a + 1, a + has)
    BY <1>1, <1>3, <1>6, RunCovers
  <2> HIDE DEF has
  <2>5. a + 1 \in Nat /\ a + has \in Nat /\ a + has + 1 = (a + has) + 1
    BY <1>5
  <2>6. InLive(t, sent)
    BY <2>2, <2>3, <2>4, <2>5 DEF InLive
  <2> QED BY <1>2, <1>6, <2>6 DEF KeepsUp
<1>7. CASE /\ task.rest # <<>> /\ t.step = "replaying"
           /\ t.got = Append(task.got, Head(task.rest)) /\ t.rest = Tail(task.rest)
  <2>1. /\ Head(task.rest) = task.rest[1] /\ 1 \in DOMAIN task.rest
        /\ Tail(task.rest) \in Seq(Nat) /\ Len(Tail(task.rest)) = left - 1
        /\ DOMAIN Tail(task.rest) = 1..(left - 1) /\ DOMAIN task.rest = 1..left /\ left > 0
        /\ \A i \in 1..(left - 1) : Tail(task.rest)[i] = task.rest[i + 1]
    BY <1>1, <1>7
  <2>2. Head(task.rest) = a + has + 1
    BY <1>3, <2>1 DEF RunFrom
  <2>3. /\ Len(t.got) = has + 1 /\ DOMAIN t.got = (DOMAIN task.got) \cup {has + 1}
        /\ t.got[has + 1] = a + has + 1
        /\ \A i \in DOMAIN task.got : t.got[i] = task.got[i]
    BY <1>1, <1>5, <1>7, <2>2, AppendIs
  <2>4. RunFrom(t.got, a)
    <3>1. ASSUME NEW i \in DOMAIN t.got PROVE t.got[i] = a + i
      <4>1. CASE i \in DOMAIN task.got
        BY <1>3, <2>3, <4>1 DEF RunFrom
      <4>2. CASE i = has + 1
        BY <1>5, <2>3, <4>2
      <4> QED BY <2>3, <4>1, <4>2
    <3> QED BY <3>1 DEF RunFrom
  <2>5. RunFrom(t.rest, a + (has + 1))
    <3>1. ASSUME NEW i \in DOMAIN t.rest PROVE t.rest[i] = a + (has + 1) + i
      <4>1. i \in 1..(left - 1) /\ i + 1 \in 1..left /\ t.rest[i] = task.rest[i + 1]
        BY <1>5, <1>7, <2>1
      <4>2. task.rest[i + 1] = a + has + (i + 1)
        BY <1>3, <2>1, <4>1 DEF RunFrom
      <4>3. i \in Nat /\ t.rest[i] = a + has + (i + 1)
        BY <4>1, <4>2
      <4> HIDE DEF has
      <4> QED BY <1>5, <4>3
    <3> QED BY <3>1 DEF RunFrom
  <2>6. Len(t.got) = has + 1 /\ Len(t.rest) = left - 1
    BY <1>7, <2>1, <2>3
  <2> HIDE DEF has, left
  <2>7. \/ Behind(t, sent)
        \/ t.next \in (a + 1)..(a + (has + 1) + (left - 1) + 1)
    BY <1>3, <1>4, <1>5, <2>1
  <2>8. InReplay(t, sent)
    BY <2>4, <2>5, <2>6, <2>7 DEF InReplay
  <2>9. NoGap(t.got)
    BY <1>1, <2>4, RunNoGap
  <2> QED BY <1>7, <2>8, <2>9 DEF KeepsUp
<1> QED BY <1>6, <1>7

(* A live line is one the peer has or the next one.                        *)
LEMMA LiveFollows ==
  ASSUME NEW sent \in Nat, NEW task \in Peer, NEW t \in Peer,
         task.step = "live", KeepsUp(task, sent), ~Behind(task, sent),
         t.step = "live", t.next = task.next + 1, t.got = Append(task.got, task.next)
  PROVE  KeepsUp(t, sent)
<1> DEFINE n == task.next
<1>1. task.got \in Seq(Nat) /\ n \in Nat
  BY DEF Peer
<1>2. NoGap(task.got) /\ InLive(task, sent)
  BY DEF KeepsUp
<1>3. CASE task.got = <<>>
  <2>1. t.got = <<n>>
    BY <1>3
  <2>2. NoGap(t.got)
    BY <2>1 DEF NoGap
  <2>3. Covers(t.got, n, n) /\ n <= n /\ t.next \in n..(n + 1)
    BY <1>1, <2>1 DEF Covers
  <2>4. InLive(t, sent)
    BY <1>1, <2>3 DEF InLive
  <2> QED BY <2>2, <2>4 DEF KeepsUp
<1>4. CASE task.got # <<>>
  <2>1. PICK a, b \in Nat : a <= b /\ Covers(task.got, a, b) /\ n \in a..(b + 1)
    BY <1>2, <1>4 DEF InLive
  <2> DEFINE c == IF n = b + 1 THEN n ELSE b
  <2>2. NoGap(t.got) /\ Covers(t.got, a, c)
    BY <1>1, <1>2, <2>1, AppendCovers
  <2>3. c \in Nat /\ a <= c /\ t.next \in a..(c + 1)
    BY <1>1, <2>1
  <2> HIDE DEF c
  <2>4. InLive(t, sent)
    BY <2>2, <2>3 DEF InLive
  <2> QED BY <2>2, <2>4 DEF KeepsUp
<1> QED BY <1>3, <1>4

(* Nothing before the copy, nothing after the end.                         *)
LEMMA OtherFollows ==
  ASSUME NEW sent \in Nat, NEW task \in Peer, NEW t \in Peer, t.got = task.got,
         KeepsUp(task, sent),
         \/ t.step = "gone"
         \/ /\ task.step \in {"absent", "queued", "handshake", "authorized"}
            /\ \/ t.step = "queued" /\ t.next = task.next
               \/ t.step = "handshake" /\ t.next = sent + 1
               \/ task.step = "handshake" /\ t.step = "authorized" /\ t.next = task.next
  PROVE  KeepsUp(t, sent)
<1>1. task.next \in Nat /\ t.next \in Nat
  BY DEF Peer
<1> QED BY <1>1 DEF KeepsUp, BeforeReplay

-----------------------------------------------------------------------------
(* All of them.                                                            *)

LEMMA PeerStep ==
  ASSUME BroadcastTypeOK, BacklogTrue, ReplayIsNewest, ReplayCap > LiveCap, PeersFollow,
         [BroadcastNext]_broadcastVars, NEW x \in Peers
  PROVE  KeepsUp(peer'[x], linesSent)
<1>0. /\ linesSent \in Nat /\ peer \in [Peers -> Peer] /\ KeepsUp(peer[x], linesSent)
      /\ backlog \in Seq(Peers)
  BY DEF BroadcastTypeOK, Peer, PeersFollow
<1>1. ASSUME NEW p \in Peers, NEW t, Moves(p, t), KeepsUp(t, linesSent)
      PROVE  KeepsUp(peer'[x], linesSent)
  <2>1. peer'[p] = t /\ (x # p => peer'[x] = peer[x])
    BY <1>1, Moved
  <2> QED BY <1>0, <1>1, <2>1
<1>2. ASSUME NEW p \in Peers PROVE peer[p] \in Peer /\ KeepsUp(peer[p], linesSent)
  BY <1>0 DEF PeersFollow
<1>3. CASE UNCHANGED peer
  BY <1>0, <1>3
<1>4. CASE StdinCloses
  <2>1. peer'[x] \in {peer[x], Ended(peer[x])}
    BY <1>4 DEF StdinCloses
  <2> QED BY <1>0, <2>1, EndedTask, OtherFollows
<1>5. CASE \E p \in Peers, kind \in PeerKinds : Connect(p, kind)
  <2>1. PICK p \in Peers, kind \in PeerKinds : Connect(p, kind)
    BY <1>5
  <2>2. PICK t : Moves(p, t) /\ t.step = "queued" /\ t.next = peer[p].next /\ t.got = peer[p].got
    BY <2>1, ConnectMoves
  <2>3. peer[p].step = "absent" /\ t \in Peer
    BY <2>1, <2>2 DEF Connect, Moves
  <2>4. KeepsUp(t, linesSent)
    BY <1>0, <1>2, <2>2, <2>3, OtherFollows
  <2> QED BY <1>1, <2>2, <2>4
<1>6. CASE Accept
  <2> DEFINE p == Head(backlog)
  <2>1. PICK t : /\ Moves(p, t) /\ t.step = "handshake" /\ t.next = linesSent + 1
                 /\ t.got = peer[p].got
    BY <1>6, AcceptMoves
  <2>2. p \in Peers /\ peer[p].step = "queued" /\ t \in Peer
    BY <1>0, <1>6, <2>1 DEF Accept, BacklogTrue, Moves
  <2> HIDE DEF p
  <2>3. KeepsUp(t, linesSent)
    BY <1>0, <1>2, <2>1, <2>2, OtherFollows
  <2> QED BY <1>1, <2>1, <2>2, <2>3
<1>7. ASSUME NEW p \in Peers, HandshakeAnswered(p) \/ HandshakeFails(p)
      PROVE  KeepsUp(peer'[x], linesSent)
  <2>1. PICK t : /\ Moves(p, t) /\ t.got = peer[p].got
                 /\ \/ t.step = "gone"
                    \/ t.step = "authorized" /\ t.next = peer[p].next
    BY <1>7, HandshakeSlots
  <2>2. peer[p].step = "handshake" /\ t \in Peer
    BY <1>7, <2>1, HandshakeSlots DEF Moves
  <2>3. KeepsUp(t, linesSent)
    BY <1>0, <1>2, <2>1, <2>2, OtherFollows
  <2> QED BY <1>1, <2>1, <2>3
<1>8. ASSUME NEW p \in Peers, TakeSnapshot(p) PROVE KeepsUp(peer'[x], linesSent)
  <2>1. PICK t : /\ Moves(p, t) /\ t.step = "replaying" /\ t.rest = replay
                 /\ t.next = peer[p].next /\ t.got = peer[p].got
    BY <1>8, SnapshotMoves
  <2>2. peer[p].step = "authorized" /\ t \in Peer
    BY <1>8, <2>1 DEF TakeSnapshot, Moves
  <2>3. KeepsUp(t, linesSent)
    BY <1>2, <2>1, <2>2, SnapshotFollows
  <2> QED BY <1>1, <2>1, <2>3
<1>9. ASSUME NEW p \in Peers, SendReplay(p) PROVE KeepsUp(peer'[x], linesSent)
  <2>1. PICK t : /\ Moves(p, t) /\ t.next = peer[p].next
                 /\ \/ peer[p].rest = <<>> /\ t.step = "live" /\ t.got = peer[p].got
                    \/ /\ peer[p].rest # <<>> /\ t.step = "replaying"
                       /\ t.got = Append(peer[p].got, Head(peer[p].rest))
                       /\ t.rest = Tail(peer[p].rest)
    BY <1>9, ReplayMoves
  <2>2. peer[p].step = "replaying" /\ t \in Peer
    BY <1>9, <2>1 DEF SendReplay, Moves
  <2>3. KeepsUp(t, linesSent)
    BY <1>0, <1>2, <2>1, <2>2, ReplayFollows
  <2> QED BY <1>1, <2>1, <2>3
<1>10. ASSUME NEW p \in Peers, Follow(p) PROVE KeepsUp(peer'[x], linesSent)
  <2>1. PICK t : /\ Moves(p, t)
                 /\ \/ Lagged(p) /\ t.step = "gone" /\ t.got = peer[p].got
                    \/ /\ ~Lagged(p) /\ t.step = "live" /\ t.next = peer[p].next + 1
                       /\ t.got = Append(peer[p].got, peer[p].next)
    BY <1>10, FollowMoves
  <2>2. peer[p].step = "live" /\ t \in Peer /\ (Lagged(p) <=> Behind(peer[p], linesSent))
    BY <1>10, <2>1 DEF Follow, Moves, Lagged, Behind
  <2>3. KeepsUp(t, linesSent)
    BY <1>0, <1>2, <2>1, <2>2, LiveFollows, OtherFollows
  <2> QED BY <1>1, <2>1, <2>3
<1>11. ASSUME NEW p \in Peers, PeerLeaves(p) PROVE KeepsUp(peer'[x], linesSent)
  <2>1. PICK t : Moves(p, t) /\ t.step = "gone" /\ t.got = peer[p].got
    BY <1>11, EndMoves DEF PeerLeaves, Becomes
  <2>2. KeepsUp(t, linesSent)
    BY <1>0, <1>2, <2>1, OtherFollows DEF Moves
  <2> QED BY <1>1, <2>1, <2>2
<1>12. CASE ReadLine \/ SendLine \/ AcquirePermit \/ AcceptFails \/ BackoffEnds
            \/ UNCHANGED broadcastVars
  BY <1>3, <1>12 DEF ReadLine, SendLine, AcquirePermit, AcceptFails, BackoffEnds, broadcastVars
<1> QED BY <1>4, <1>5, <1>6, <1>7, <1>8, <1>9, <1>10, <1>11, <1>12 DEF BroadcastNext

LEMMA ViewersStep ==
  BroadcastTypeOK /\ ViewersInv /\ [BroadcastNext]_broadcastVars => ViewersInv'
<1> SUFFICES ASSUME BroadcastTypeOK, ViewersInv, [BroadcastNext]_broadcastVars
             PROVE  ViewersInv'
  OBVIOUS
<1>1. BroadcastTypeOK' /\ BacklogTrue'
  BY TypeStep DEF ViewersInv
<1>2. ReplayIsNewest' /\ linesSent' >= linesSent
  BY ReplayStep DEF ViewersInv
<1>3. ASSUME ReplayCap > LiveCap, NEW x \in Peers PROVE KeepsUp(peer'[x], linesSent')
  <2>1. KeepsUp(peer'[x], linesSent)
    BY <1>3, PeerStep DEF ViewersInv
  <2>2. peer'[x] \in Peer /\ linesSent \in Nat /\ linesSent' \in Nat
    BY <1>1 DEF BroadcastTypeOK, Peer
  <2> QED BY <1>2, <2>1, <2>2, FollowsLater
<1> QED BY <1>1, <1>2, <1>3 DEF ViewersInv, PeersFollow

LEMMA InitViewers == BroadcastInit => ViewersInv
<1> SUFFICES ASSUME BroadcastInit PROVE ViewersInv
  OBVIOUS
<1>1. BacklogTrue
  BY InitTypes
<1>2. ReplayIsNewest
  BY DEF BroadcastInit, ReplayIsNewest
<1>3. ASSUME NEW p \in Peers PROVE KeepsUp(peer[p], linesSent)
  BY DEF BroadcastInit, KeepsUp, BeforeReplay, NoGap
<1> QED BY <1>1, <1>2, <1>3 DEF ViewersInv, PeersFollow

(* Types, and no handshake slot is lost or given back twice: the permits of *)
(* the semaphore, the handshakes that run and the one the accept loop holds *)
(* always make up the whole.                                               *)
THEOREM BroadcastTypeCorrect == BroadcastSpec => []BroadcastTypeOK
<1>1. BroadcastInit => BroadcastTypeOK /\ BacklogTrue
  BY InitTypes
<1> QED BY <1>1, TypeStep, PTL DEF BroadcastSpec

(* With a replay buffer longer than the live channel, a viewer is never     *)
(* sent a line that leaves a gap behind it, nor an old line it does not     *)
(* have after a newer one, wherever its copy of the buffer begins.          *)
THEOREM NoGaps == BroadcastSpec => []ViewerSeesNoGap
<1>1. ViewersInv => ViewerSeesNoGap
  BY DEF ViewersInv, PeersFollow, KeepsUp, NoGap, ViewerSeesNoGap
<1> QED BY <1>1, InitViewers, ViewersStep, BroadcastTypeCorrect, PTL DEF BroadcastSpec

-----------------------------------------------------------------------------
(* The SDK: what it holds and what it has written.                          *)

Holds(s, x) == \E i \in DOMAIN s : s[i] = x
Distinct(s) == \A i, j \in DOMAIN s : s[i] = s[j] => i = j

(* The exit event closes the handle.                                       *)
ExitCloses == exitEvent => closed

(* A handle belongs to the turn that opened it and to no other.            *)
OneOwner ==
  \A h \in Handles :
    /\ handle[h].state = "unused" <=> handle[h].of = {}
    /\ \A t, u \in handle[h].of : t = u

(* The children of a turn are its open handles, each once; a turn that is   *)
(* not open has none.                                                      *)
ChildrenAreOpen ==
  \A t \in Turns :
    LET kids == turn[t].children IN
    /\ \A h \in Handles : Holds(kids, h) <=> (t \in handle[h].of /\ handle[h].state = "open")
    /\ Distinct(kids)
    /\ turn[t].state # "open" => kids = <<>>

(* What the wire holds of each handle, as long as it can be written to.     *)
UnusedUnsaid ==
  \A h \in Handles : handle[h].state = "unused" =>
    \A i \in DOMAIN wire : wire[i].of = h => wire[i].kind = "idle"

OpenSaid ==
  \A h \in Handles : handle[h].state = "open" /\ Writes =>
    /\ \E i \in DOMAIN wire : wire[i] = Sent("start", h)
    /\ \A i \in DOMAIN wire : wire[i] # Sent("end", h)

SettledSaid ==
  \A h \in Handles : handle[h].state = "settled" /\ Writes =>
    \A i \in DOMAIN wire : wire[i] = Sent("start", h) =>
      \E k \in (i+1)..Len(wire) : wire[k] = Sent("end", h)

IdleIsOver ==
  \A i \in DOMAIN wire : wire[i].kind = "idle" =>
    wire[i].of \in Turns /\ turn[wire[i].of].state = "ended"

SdkInv ==
  /\ ExitCloses /\ NoPromiseHangs
  /\ OneOwner /\ ChildrenAreOpen
  /\ UnusedUnsaid /\ OpenSaid /\ SettledSaid /\ IdleIsOver /\ WireIsBalanced

-----------------------------------------------------------------------------
(* The records and sequences the model is built from.                      *)

TurnStates == {"unopened", "open", "ended"}
TurnRec    == [state : TurnStates, children : Seq(Handles), pending : SUBSET Requests]
HandleRec  == [of : SUBSET Turns, state : {"unused", "open", "settled"}]
Event      == [kind : Kinds, of : Turns \cup Handles]

(* One field of a turn is set, and the others stay.                        *)
LEMMA SetState ==
  ASSUME NEW r \in TurnRec, NEW x \in TurnStates
  PROVE  LET q == [r EXCEPT !.state = x] IN
         q \in TurnRec /\ q.state = x /\ q.children = r.children /\ q.pending = r.pending
BY DEF TurnRec

LEMMA SetChildren ==
  ASSUME NEW r \in TurnRec, NEW s \in Seq(Handles)
  PROVE  LET q == [r EXCEPT !.children = s] IN
         q \in TurnRec /\ q.state = r.state /\ q.children = s /\ q.pending = r.pending
BY DEF TurnRec

LEMMA SetPending ==
  ASSUME NEW r \in TurnRec, NEW s \in SUBSET Requests
  PROVE  LET q == [r EXCEPT !.pending = s] IN
         q \in TurnRec /\ q.state = r.state /\ q.children = r.children /\ q.pending = s
BY DEF TurnRec

LEMMA EndOfIs ==
  ASSUME NEW r \in TurnRec
  PROVE  /\ EndOf(r) \in TurnRec /\ EndOf(r).state = "ended"
         /\ EndOf(r).children = <<>> /\ EndOf(r).pending = {}
<1> DEFINE ended == [r EXCEPT !.state = "ended"]
           bare == [ended EXCEPT !.children = <<>>]
           over == [bare EXCEPT !.pending = {}]
<1>1. ended \in TurnRec /\ ended.state = "ended"
  BY SetState DEF TurnStates
<1>2. EndOf(r) = over
  BY DEF EndOf
<1> HIDE DEF ended
<1>3. <<>> \in Seq(Handles) /\ {} \in SUBSET Requests
  OBVIOUS
<1>4. bare \in TurnRec /\ bare.state = "ended" /\ bare.children = <<>>
  BY <1>1, <1>3, SetChildren
<1> HIDE DEF bare
<1>5. over \in TurnRec /\ over.state = "ended" /\ over.children = <<>> /\ over.pending = {}
  BY <1>3, <1>4, SetPending
<1> HIDE DEF over
<1> QED BY <1>2, <1>5

(* Removing from a sequence that holds each element once.                  *)
LEMMA RemoveFirstIs ==
  ASSUME NEW S, NEW s \in Seq(S), Distinct(s), NEW x
  PROVE  LET r == RemoveFirst(s, x) IN
         /\ r \in Seq(S) /\ Distinct(r)
         /\ \A y : Holds(r, y) <=> (y # x /\ Holds(s, y))
<1> USE DEF Holds, Distinct
<1> DEFINE n == Len(s)
<1>1. n \in Nat /\ DOMAIN s = 1..n
  OBVIOUS
<1>2. CASE ~ \E i \in 1..n : s[i] = x
  BY <1>1, <1>2 DEF RemoveFirst
<1>3. ASSUME NEW k \in 1..n, s[k] = x
      PROVE  LET r == RemoveFirst(s, x) IN
             /\ r \in Seq(S)
             /\ \A y : (\E i \in DOMAIN r : r[i] = y) <=> (y # x /\ \E i \in DOMAIN s : s[i] = y)
             /\ \A i, j \in DOMAIN r : r[i] = r[j] => i = j
  <2>1. {i \in 1..n : s[i] = x} = {k}
    BY <1>1, <1>3
  <2>2. Min({k}) = k
    BY DEF Min
  <2>3. SelectInSeq(s, LAMBDA v : v = x) = k
    BY <2>1, <2>2 DEF SelectInSeq
  <2>4. RemoveFirst(s, x) = SubSeq(s, 1, k - 1) \o SubSeq(s, k + 1, n)
    BY <1>1, <1>3, <2>3 DEF RemoveFirst, RemoveAt
  <2> DEFINE a == SubSeq(s, 1, k - 1)
             b == SubSeq(s, k + 1, n)
             r == a \o b
  <2>5. /\ a \in Seq(S) /\ Len(a) = k - 1 /\ \A i \in 1..(k-1) : a[i] = s[i]
        /\ b \in Seq(S) /\ Len(b) = n - k /\ \A i \in 1..(n-k) : b[i] = s[k + i]
    <3>1. \A i \in 1..n : s[i] \in S
      BY <1>1
    <3>2. a \in Seq(S) /\ Len(a) = k - 1 /\ \A i \in 1..(k-1) : a[i] = s[i]
      BY <1>1, <3>1, SubSeqProperties
    <3>3. /\ b \in Seq(S) /\ Len(b) = (IF k + 1 <= n THEN n - (k + 1) + 1 ELSE 0)
          /\ \A i \in 1..(n - (k + 1) + 1) : b[i] = s[(k + 1) + i - 1]
      <4>1. k + 1 \in Int /\ n \in Int /\ \A i \in (k+1)..n : s[i] \in S
        BY <1>1, <3>1
      <4> QED BY <4>1, SubSeqProperties
    <3> HIDE DEF a, b
    <3> HIDE DEF n
    <3>4. Len(b) = n - k
      BY <1>1, <3>3
    <3>5. ASSUME NEW i \in 1..(n-k) PROVE b[i] = s[k + i]
      <4>1. i \in 1..(n - (k + 1) + 1) /\ (k + 1) + i - 1 = k + i
        BY <1>1
      <4> QED BY <3>3, <4>1
    <3> QED BY <3>2, <3>3, <3>4, <3>5
  <2> HIDE DEF a, b
  <2>6. /\ r \in Seq(S) /\ Len(r) = n - 1 /\ DOMAIN r = 1..(n-1)
        /\ \A i \in 1..(n-1) : r[i] = IF i < k THEN s[i] ELSE s[i + 1]
    <3>1. /\ r \in Seq(S) /\ Len(r) = Len(a) + Len(b)
          /\ \A i \in 1..(Len(a) + Len(b)) :
               r[i] = IF i <= Len(a) THEN a[i] ELSE b[i - Len(a)]
      BY <2>5, ConcatProperties
    <3> HIDE DEF r
    <3>2. Len(r) = n - 1 /\ DOMAIN r = 1..(n-1)
      BY <1>1, <2>5, <3>1
    <3>3. ASSUME NEW i \in 1..(n-1) PROVE r[i] = IF i < k THEN s[i] ELSE s[i + 1]
      <4>1. r[i] = IF i <= k - 1 THEN a[i] ELSE b[i - (k - 1)]
        BY <1>1, <2>5, <3>1
      <4>2. CASE i < k
        BY <1>1, <2>5, <4>1, <4>2
      <4>3. CASE ~(i < k)
        <5>1. i - (k - 1) \in 1..(n-k) /\ k + (i - (k - 1)) = i + 1
          BY <1>1, <4>3
        <5> QED BY <1>1, <2>5, <4>1, <4>3, <5>1
      <4> QED BY <4>2, <4>3
    <3> QED BY <3>1, <3>2, <3>3
  <2> HIDE DEF r
  <2>7. \A i \in 1..(n-1) : r[i] = s[IF i < k THEN i ELSE i + 1]
    BY <2>6
  <2>8. ASSUME NEW y PROVE (\E i \in 1..(n-1) : r[i] = y) <=> (y # x /\ \E i \in 1..n : s[i] = y)
    <3>1. ASSUME NEW i \in 1..(n-1), r[i] = y PROVE y # x /\ \E j \in 1..n : s[j] = y
      <4>1. (IF i < k THEN i ELSE i + 1) \in 1..n /\ (IF i < k THEN i ELSE i + 1) # k
        BY <1>1
      <4> QED BY <1>1, <1>3, <2>7, <3>1, <4>1
    <3>2. ASSUME NEW i \in 1..n, s[i] = y, y # x PROVE \E j \in 1..(n-1) : r[j] = y
      <4>1. i # k
        BY <1>3, <3>2
      <4>2. CASE i < k
        BY <1>1, <2>6, <3>2, <4>2
      <4>3. CASE i > k
        <5>1. i - 1 \in 1..(n-1) /\ ~(i - 1 < k) /\ (i - 1) + 1 = i
          BY <1>1, <4>3
        <5> QED BY <2>6, <3>2, <5>1
      <4> QED BY <1>1, <4>1, <4>2, <4>3
    <3> QED BY <3>1, <3>2
  <2>9. ASSUME NEW i \in 1..(n-1), NEW j \in 1..(n-1), r[i] = r[j] PROVE i = j
    <3>1. /\ (IF i < k THEN i ELSE i + 1) \in 1..n
          /\ (IF j < k THEN j ELSE j + 1) \in 1..n
      BY <1>1
    <3>2. (IF i < k THEN i ELSE i + 1) = (IF j < k THEN j ELSE j + 1)
      BY <1>1, <2>7, <2>9, <3>1
    <3> QED BY <1>1, <3>2
  <2>10. RemoveFirst(s, x) = r
    BY <2>4 DEF r, a, b
  <2> QED BY <1>1, <2>6, <2>8, <2>9, <2>10
<1> QED BY <1>2, <1>3

-----------------------------------------------------------------------------
(* What is written.                                                        *)

LEMMA SentEvent ==
  ASSUME NEW kind \in Kinds, NEW x \in Turns \cup Handles
  PROVE  Sent(kind, x) \in Event /\ Sent(kind, x).kind = kind /\ Sent(kind, x).of = x
BY DEF Sent, Event

(* The events of a turn's end: one end for each child, then the phase.      *)
LEMMA EndEventsAre ==
  ASSUME NEW t \in Turns, NEW phase \in Phases, turn[t].children \in Seq(Handles)
  PROVE  LET kids == turn[t].children
             m == Len(kids)
             es == EndEvents(t, phase)
         IN  /\ es \in Seq(Event) /\ m \in Nat
             /\ Len(es) = IF phase = "kept" THEN m ELSE m + 1
             /\ \A i \in 1..m : es[i] = Sent("end", kids[i])
             /\ phase # "kept" => es[m + 1] = Sent("idle", t)
<1> DEFINE kids == turn[t].children
           m == Len(kids)
           ends == [i \in DOMAIN kids |-> Sent("end", kids[i])]
           last == IF phase = "kept" THEN <<>> ELSE <<Sent("idle", t)>>
           es == EndEvents(t, phase)
<1>1. m \in Nat /\ DOMAIN kids = 1..m /\ \A i \in 1..m : kids[i] \in Handles
  OBVIOUS
<1>2. es = ends \o last
  BY DEF EndEvents
<1>3. Sent("idle", t) \in Event /\ \A i \in 1..m : Sent("end", kids[i]) \in Event
  BY <1>1, SentEvent DEF Kinds
<1> HIDE DEF kids, m
<1>4. ends \in [1..m -> Event]
  BY <1>1, <1>3
<1>5. ends \in Seq(Event) /\ Len(ends) = m /\ \A i \in 1..m : ends[i] = Sent("end", kids[i])
  BY <1>1, <1>4
<1>6. /\ last \in Seq(Event) /\ Len(last) = IF phase = "kept" THEN 0 ELSE 1
      /\ phase # "kept" => last[1] = Sent("idle", t)
  BY <1>3
<1> HIDE DEF ends, last, es
<1>7. /\ es \in Seq(Event) /\ Len(es) = Len(ends) + Len(last)
      /\ \A i \in 1..(Len(ends) + Len(last)) :
           es[i] = IF i <= Len(ends) THEN ends[i] ELSE last[i - Len(ends)]
  BY <1>2, <1>5, <1>6, ConcatProperties
<1>8. Len(es) = IF phase = "kept" THEN m ELSE m + 1
  BY <1>1, <1>5, <1>6, <1>7
<1>9. \A i \in 1..m : es[i] = Sent("end", kids[i])
  BY <1>1, <1>5, <1>6, <1>7
<1>10. ASSUME phase # "kept" PROVE es[m + 1] = Sent("idle", t)
  <2>1. Len(last) = 1 /\ m + 1 \in 1..(Len(ends) + Len(last)) /\ ~(m + 1 <= m) /\ (m + 1) - m = 1
    BY <1>1, <1>5, <1>6, <1>10
  <2> QED BY <1>5, <1>6, <1>7, <1>10, <2>1
<1> QED BY <1>1, <1>7, <1>8, <1>9, <1>10 DEF m, kids, es

(* send() writes all the events, or none of them; it never opens what is    *)
(* closed.                                                                 *)
LEMMA SendIs ==
  ASSUME wire \in Seq(Event), closed \in BOOLEAN, NEW es \in Seq(Event), Send(es)
  PROVE  /\ wire' \in Seq(Event) /\ closed' \in BOOLEAN /\ (closed => closed')
         /\ ~Writes => wire' = wire
         /\ Writes => /\ Len(wire') = Len(wire) + Len(es)
                      /\ \A i \in DOMAIN wire : i \in DOMAIN wire' /\ wire'[i] = wire[i]
                      /\ \A i \in DOMAIN es : /\ Len(wire) + i \in DOMAIN wire'
                                              /\ wire'[Len(wire) + i] = es[i]
                      /\ \A i \in DOMAIN wire' :
                           i \in DOMAIN wire \/ \E k \in DOMAIN es : i = Len(wire) + k
<1>1. closed' \in BOOLEAN /\ (closed => closed')
  BY DEF Send, SendMarksClosed
<1>2. CASE ~Writes
  BY <1>1, <1>2 DEF Send
<1>3. CASE Writes
  <2> DEFINE n == Len(wire)
             m == Len(es)
             w == wire \o es
  <2>1. n \in Nat /\ m \in Nat /\ DOMAIN wire = 1..n /\ DOMAIN es = 1..m
    OBVIOUS
  <2>2. /\ w \in Seq(Event) /\ Len(w) = n + m
        /\ \A i \in 1..(n + m) : w[i] = IF i <= n THEN wire[i] ELSE es[i - n]
    BY ConcatProperties
  <2>3. wire' = w
    BY <1>3 DEF Send
  <2> HIDE DEF n, m, w
  <2>4. DOMAIN w = 1..(n + m)
    BY <2>2
  <2>5. \A i \in 1..n : i \in DOMAIN w /\ w[i] = wire[i]
    BY <2>1, <2>2, <2>4
  <2>6. ASSUME NEW i \in 1..m PROVE n + i \in DOMAIN w /\ w[n + i] = es[i]
    <3>1. n + i \in 1..(n + m) /\ ~(n + i <= n) /\ (n + i) - n = i
      BY <2>1
    <3> QED BY <2>2, <2>4, <3>1
  <2>7. ASSUME NEW i \in DOMAIN w PROVE i \in 1..n \/ \E k \in 1..m : i = n + k
    <3>1. i \in 1..n \/ (i - n \in 1..m /\ i = n + (i - n))
      BY <2>1, <2>4
    <3> QED BY <3>1
  <2> QED BY <1>1, <1>3, <2>1, <2>2, <2>3, <2>5, <2>6, <2>7 DEF n, m
<1> QED BY <1>2, <1>3

LEMMA SendOneIs ==
  ASSUME wire \in Seq(Event), closed \in BOOLEAN, NEW e \in Event, Send(<<e>>)
  PROVE  /\ wire' \in Seq(Event) /\ closed' \in BOOLEAN /\ (closed => closed')
         /\ ~Writes => wire' = wire
         /\ Writes => /\ Len(wire') = Len(wire) + 1
                      /\ wire'[Len(wire) + 1] = e
                      /\ DOMAIN wire' = DOMAIN wire \cup {Len(wire) + 1}
                      /\ \A i \in DOMAIN wire : wire'[i] = wire[i]
<1> DEFINE es == <<e>>
<1>1. es \in Seq(Event) /\ Len(es) = 1 /\ DOMAIN es = {1} /\ es[1] = e
  OBVIOUS
<1>2. Send(es)
  OBVIOUS
<1> HIDE DEF es
<1>3. /\ wire' \in Seq(Event) /\ closed' \in BOOLEAN /\ (closed => closed')
      /\ ~Writes => wire' = wire
  BY <1>1, <1>2, SendIs
<1>4. ASSUME Writes
      PROVE  /\ Len(wire') = Len(wire) + 1 /\ wire'[Len(wire) + 1] = e
             /\ DOMAIN wire' = DOMAIN wire \cup {Len(wire) + 1}
             /\ \A i \in DOMAIN wire : wire'[i] = wire[i]
  <2>1. /\ Len(wire') = Len(wire) + Len(es)
        /\ \A i \in DOMAIN wire : i \in DOMAIN wire' /\ wire'[i] = wire[i]
        /\ \A i \in DOMAIN es : /\ Len(wire) + i \in DOMAIN wire'
                                /\ wire'[Len(wire) + i] = es[i]
        /\ \A i \in DOMAIN wire' : i \in DOMAIN wire \/ \E k \in DOMAIN es : i = Len(wire) + k
    BY <1>1, <1>2, <1>4, SendIs
  <2>2. /\ Len(wire) + 1 \in DOMAIN wire' /\ wire'[Len(wire) + 1] = e
        /\ \A i \in DOMAIN wire' : i \in DOMAIN wire \/ i = Len(wire) + 1
    BY <1>1, <2>1
  <2>3. DOMAIN wire' = DOMAIN wire \cup {Len(wire) + 1}
    BY <2>1, <2>2
  <2> QED BY <1>1, <2>1, <2>2, <2>3
<1> QED BY <1>3, <1>4

-----------------------------------------------------------------------------
(* Types, one case per callback.                                           *)

Resolved == {"none", "waiting", "answered", "denied", "fallback"}

Types ==
  /\ closed \in BOOLEAN /\ exitEvent \in BOOLEAN
  /\ stdin \in {"open", "broken"} /\ process \in {"up", "wedged", "exited"}
  /\ wire \in Seq(Event)
  /\ turn \in [Turns -> TurnRec] /\ handle \in [Handles -> HandleRec]
  /\ asked \subseteq Asks /\ listening \subseteq Asks /\ replies \in Seq(Asks)
  /\ promise \in [Asks -> Resolved]
  /\ closing \in {"no", "soft", "term", "resolved"} /\ writesLeft \in 0..MaxWrites

LEMMA TypesAre == SdkTypeOK <=> Types
BY DEF SdkTypeOK, Types, Event, TurnRec, TurnStates, HandleRec, Resolved

LEMMA ResolveType ==
  ASSUME NEW p \in [Asks -> Resolved], NEW S, NEW how \in Resolved
  PROVE  Resolve(p, S, how) \in [Asks -> Resolved]
BY DEF Resolve

LEMMA SettleType ==
  ASSUME handle \in [Handles -> HandleRec], NEW ts, SettleHandles(ts)
  PROVE  /\ handle' \in [Handles -> HandleRec]
         /\ \A h \in Handles :
              /\ handle'[h].of = handle[h].of
              /\ handle'[h].state = IF handle[h].of \cap ts # {} THEN "settled" ELSE handle[h].state
<1>1. ASSUME NEW h \in Handles
      PROVE  LET s == [handle[h] EXCEPT !.state = "settled"] IN
             s \in HandleRec /\ s.of = handle[h].of /\ s.state = "settled"
  BY DEF HandleRec
<1> QED BY <1>1 DEF SettleHandles

(* The record of one turn is replaced.                                     *)
LEMMA TurnIs ==
  ASSUME turn \in [Turns -> TurnRec], NEW t \in Turns, NEW r \in TurnRec,
         turn' = [turn EXCEPT ![t] = r]
  PROVE  /\ turn' \in [Turns -> TurnRec] /\ turn'[t] = r
         /\ \A u \in Turns : u # t => turn'[u] = turn[u]
OBVIOUS

(* What an action makes of the turns, field by field.                      *)
LEMMA OpenTurnIs ==
  ASSUME Types, NEW t \in Turns, OpenTurn(t)
  PROVE  /\ turn' \in [Turns -> TurnRec]
         /\ turn'[t].state = "open" /\ turn'[t].children = turn[t].children
         /\ turn'[t].pending = turn[t].pending
         /\ \A u \in Turns : u # t => turn'[u] = turn[u]
<1> DEFINE r == [turn[t] EXCEPT !.state = "open"]
<1>1. turn[t] \in TurnRec
  BY DEF Types
<1>2. r \in TurnRec /\ r.state = "open" /\ r.children = turn[t].children /\ r.pending = turn[t].pending
  BY <1>1, SetState DEF TurnStates
<1>3. turn' = [turn EXCEPT ![t] = r]
  BY DEF OpenTurn, Types
<1> HIDE DEF r
<1> QED BY <1>2, <1>3, TurnIs DEF Types

LEMMA OpenHandleIs ==
  ASSUME Types, NEW t \in Turns, NEW h \in Handles, OpenHandle(t, h)
  PROVE  /\ turn' \in [Turns -> TurnRec]
         /\ turn'[t].state = turn[t].state /\ turn'[t].children = Append(turn[t].children, h)
         /\ turn'[t].pending = turn[t].pending
         /\ \A u \in Turns : u # t => turn'[u] = turn[u]
         /\ handle' \in [Handles -> HandleRec]
         /\ handle'[h].of = {t} /\ handle'[h].state = "open"
         /\ \A g \in Handles : g # h => handle'[g] = handle[g]
<1> DEFINE kids == Append(turn[t].children, h)
           r == [turn[t] EXCEPT !.children = kids]
<1>1. turn[t] \in TurnRec
  BY DEF Types
<1>2. turn[t].children \in Seq(Handles)
  BY <1>1 DEF TurnRec
<1>3. kids \in Seq(Handles)
  BY <1>2
<1>4. turn' = [turn EXCEPT ![t] = r]
  BY DEF OpenHandle, Types
<1> HIDE DEF kids
<1>5. r \in TurnRec /\ r.state = turn[t].state /\ r.children = kids /\ r.pending = turn[t].pending
  BY <1>1, <1>3, SetChildren
<1> HIDE DEF r
<1>6. /\ turn' \in [Turns -> TurnRec] /\ turn'[t] = r
      /\ \A u \in Turns : u # t => turn'[u] = turn[u]
  BY <1>4, <1>5, TurnIs DEF Types
<1>7. /\ handle' \in [Handles -> HandleRec]
      /\ handle'[h].of = {t} /\ handle'[h].state = "open"
      /\ \A g \in Handles : g # h => handle'[g] = handle[g]
  BY DEF OpenHandle, Types, HandleRec
<1> QED BY <1>5, <1>6, <1>7 DEF kids

LEMMA FinishHandleIs ==
  ASSUME Types, NEW h \in Handles, FinishHandle(h), \A t \in Turns : Distinct(turn[t].children)
  PROVE  /\ turn' \in [Turns -> TurnRec]
         /\ \A t \in Turns :
              LET s == turn[t].children r == turn'[t].children IN
              /\ turn'[t].state = turn[t].state /\ turn'[t].pending = turn[t].pending
              /\ t \notin handle[h].of => r = s
              /\ t \in handle[h].of =>
                   Distinct(r) /\ \A g : Holds(r, g) <=> (g # h /\ Holds(s, g))
         /\ handle' \in [Handles -> HandleRec]
         /\ handle'[h].of = handle[h].of /\ handle'[h].state = "settled"
         /\ \A g \in Handles : g # h => handle'[g] = handle[g]
<1> DEFINE cut(t) == RemoveFirst(turn[t].children, h)
<1>1. ASSUME NEW t \in Turns
      PROVE  /\ cut(t) \in Seq(Handles) /\ Distinct(cut(t))
             /\ \A g : Holds(cut(t), g) <=> (g # h /\ Holds(turn[t].children, g))
  <2>1. turn[t].children \in Seq(Handles)
    BY DEF Types, TurnRec
  <2> QED BY <2>1, RemoveFirstIs
<1>2. turn' = [t \in Turns |-> IF t \in handle[h].of THEN [turn[t] EXCEPT !.children = cut(t)]
                               ELSE turn[t]]
  BY DEF FinishHandle
<1> HIDE DEF cut
<1>3. ASSUME NEW t \in Turns
      PROVE  LET q == [turn[t] EXCEPT !.children = cut(t)] IN
             /\ q \in TurnRec /\ q.state = turn[t].state /\ q.children = cut(t)
             /\ q.pending = turn[t].pending
  BY <1>1, SetChildren DEF Types
<1>4. /\ turn' \in [Turns -> TurnRec]
      /\ \A t \in Turns :
           /\ turn'[t].state = turn[t].state /\ turn'[t].pending = turn[t].pending
           /\ t \notin handle[h].of => turn'[t].children = turn[t].children
           /\ t \in handle[h].of => turn'[t].children = cut(t)
  BY <1>2, <1>3 DEF Types
<1>5. /\ handle' \in [Handles -> HandleRec]
      /\ handle'[h].of = handle[h].of /\ handle'[h].state = "settled"
      /\ \A g \in Handles : g # h => handle'[g] = handle[g]
  BY DEF FinishHandle, Types, HandleRec
<1>6. ASSUME NEW t \in Turns, t \in handle[h].of
      PROVE  LET s == turn[t].children r == turn'[t].children IN
             Distinct(r) /\ \A g : Holds(r, g) <=> (g # h /\ Holds(s, g))
  <2>1. turn'[t].children = cut(t)
    BY <1>4, <1>6
  <2> QED BY <1>1, <2>1
<1> QED BY <1>4, <1>5, <1>6

LEMMA AskPermissionIs ==
  ASSUME Types, NEW t \in Turns, NEW a \in Requests, AskPermission(t, a)
  PROVE  /\ turn' \in [Turns -> TurnRec]
         /\ turn'[t].state = turn[t].state /\ turn'[t].children = turn[t].children
         /\ turn'[t].pending = IF closed THEN turn[t].pending ELSE turn[t].pending \cup {a}
         /\ \A u \in Turns : u # t => turn'[u] = turn[u]
<1> DEFINE asks == IF closed THEN turn[t].pending ELSE turn[t].pending \cup {a}
           r == [turn[t] EXCEPT !.pending = asks]
<1>1. turn[t] \in TurnRec
  BY DEF Types
<1>2. asks \in SUBSET Requests
  BY <1>1 DEF TurnRec
<1>3. turn' = [turn EXCEPT ![t] = r]
  BY DEF AskPermission, Types
<1> HIDE DEF asks
<1>4. r \in TurnRec /\ r.state = turn[t].state /\ r.children = turn[t].children /\ r.pending = asks
  BY <1>1, <1>2, SetPending
<1> HIDE DEF r
<1> QED BY <1>3, <1>4, TurnIs DEF Types, asks

LEMMA DeliverReplyIs ==
  ASSUME Types, DeliverReply
  PROVE  /\ turn' \in [Turns -> TurnRec]
         /\ \A t \in Turns :
              /\ turn'[t].state = turn[t].state /\ turn'[t].children = turn[t].children
              /\ turn'[t].pending = turn[t].pending \ ({Head(replies)} \cap listening)
<1> DEFINE heard == {Head(replies)} \cap listening
<1>1. turn' = [t \in Turns |-> [turn[t] EXCEPT !.pending = @ \ heard]]
  BY DEF DeliverReply
<1> HIDE DEF heard
<1>2. ASSUME NEW t \in Turns
      PROVE  LET q == [turn[t] EXCEPT !.pending = @ \ heard] IN
             /\ q \in TurnRec /\ q.state = turn[t].state /\ q.children = turn[t].children
             /\ q.pending = turn[t].pending \ heard
  <2>1. turn[t] \in TurnRec
    BY DEF Types
  <2>2. turn[t].pending \ heard \in SUBSET Requests
    BY <2>1 DEF TurnRec
  <2> QED BY <2>1, <2>2, SetPending
<1> QED BY <1>1, <1>2 DEF heard

LEMMA EndTurnIs ==
  ASSUME Types, NEW t \in Turns, NEW phase \in Phases, EndTurn(t, phase)
  PROVE  /\ turn' \in [Turns -> TurnRec]
         /\ turn'[t].state = "ended" /\ turn'[t].children = <<>> /\ turn'[t].pending = {}
         /\ \A u \in Turns : u # t => turn'[u] = turn[u]
<1> DEFINE r == EndOf(turn[t])
<1>1. r \in TurnRec /\ r.state = "ended" /\ r.children = <<>> /\ r.pending = {}
  BY EndOfIs DEF Types
<1>2. turn' = [turn EXCEPT ![t] = r]
  BY DEF EndTurn
<1> HIDE DEF r
<1> QED BY <1>1, <1>2, TurnIs DEF Types

LEMMA HandleExitIs ==
  ASSUME Types, HandleExit
  PROVE  /\ turn' \in [Turns -> TurnRec]
         /\ \A t \in Turns :
              /\ turn[t].state = "open" => /\ turn'[t].state = "ended"
                                           /\ turn'[t].children = <<>>
              /\ turn[t].state # "open" => turn'[t] = turn[t]
<1>1. ASSUME NEW t \in Turns
      PROVE  /\ EndOf(turn[t]) \in TurnRec /\ EndOf(turn[t]).state = "ended"
             /\ EndOf(turn[t]).children = <<>> /\ turn[t] \in TurnRec
  BY EndOfIs DEF Types
<1>2. turn' = [t \in Turns |-> IF turn[t].state = "open" THEN EndOf(turn[t]) ELSE turn[t]]
  BY DEF HandleExit
<1> QED BY <1>1, <1>2

LEMMA SdkTypeStep ==
  ASSUME Types, ChildrenAreOpen, [SdkNext]_sdkVars
  PROVE  Types'
<1> USE DEF processVars, askVars
<1>0. \A t \in Turns : Distinct(turn[t].children)
  BY DEF ChildrenAreOpen
<1>1. ASSUME NEW t \in Turns, OpenTurn(t) PROVE Types'
  <2>1. turn' \in [Turns -> TurnRec]
    BY <1>1, OpenTurnIs
  <2> QED BY <1>1, <2>1 DEF OpenTurn, Types
<1>2. ASSUME NEW t \in Turns, NEW h \in Handles, OpenHandle(t, h) PROVE Types'
  <2>1. turn' \in [Turns -> TurnRec] /\ handle' \in [Handles -> HandleRec]
    BY <1>2, OpenHandleIs
  <2>2. Sent("start", h) \in Event
    BY SentEvent DEF Kinds
  <2>3. wire' \in Seq(Event) /\ closed' \in BOOLEAN
    BY <1>2, <2>2, SendOneIs DEF OpenHandle, Types
  <2> QED BY <1>2, <2>1, <2>3 DEF OpenHandle, Types
<1>3. ASSUME NEW t \in Turns, NEW a \in Requests, AskPermission(t, a) PROVE Types'
  <2>1. turn' \in [Turns -> TurnRec]
    BY <1>3, AskPermissionIs
  <2>2. closed' \in BOOLEAN /\ asked' \subseteq Asks /\ listening' \subseteq Asks
    BY <1>3 DEF AskPermission, SendAsk, SendMarksClosed, awaitResponse, Types, Asks
  <2>3. promise' \in [Asks -> Resolved]
    BY <1>3 DEF AskPermission, awaitResponse, Types, Resolved
  <2> QED BY <1>3, <2>1, <2>2, <2>3 DEF AskPermission, Types
<1>4. ASSUME NEW t \in Turns, NEW phase \in Phases, EndTurn(t, phase) PROVE Types'
  <2>1. turn' \in [Turns -> TurnRec]
    BY <1>4, EndTurnIs
  <2>2. handle' \in [Handles -> HandleRec]
    BY <1>4, SettleType DEF EndTurn, Types
  <2>3. promise' \in [Asks -> Resolved]
    BY <1>4, ResolveType DEF EndTurn, Types, Resolved
  <2>4. turn[t].children \in Seq(Handles)
    BY DEF Types, TurnRec
  <2>5. EndEvents(t, phase) \in Seq(Event)
    BY <2>4, EndEventsAre
  <2>6. wire' \in Seq(Event) /\ closed' \in BOOLEAN
    BY <1>4, <2>5, SendIs DEF EndTurn, Types
  <2> QED BY <1>4, <2>1, <2>2, <2>3, <2>6 DEF EndTurn, Types
<1>5. ASSUME NEW h \in Handles, WriteHandle(h) PROVE Types'
  <2>1. Sent("delta", h) \in Event
    BY SentEvent DEF Kinds
  <2>2. wire' \in Seq(Event) /\ closed' \in BOOLEAN
    BY <1>5, <2>1, SendOneIs DEF WriteHandle, Types
  <2>3. writesLeft' \in 0..MaxWrites
    BY <1>5, SdkAssumption DEF WriteHandle, Types
  <2> QED BY <1>5, <2>2, <2>3 DEF WriteHandle, Types
<1>6. ASSUME NEW h \in Handles, FinishHandle(h) PROVE Types'
  <2>1. turn' \in [Turns -> TurnRec] /\ handle' \in [Handles -> HandleRec]
    BY <1>0, <1>6, FinishHandleIs
  <2>2. Sent("end", h) \in Event
    BY SentEvent DEF Kinds
  <2>3. wire' \in Seq(Event) /\ closed' \in BOOLEAN
    BY <1>6, <2>2, SendOneIs DEF FinishHandle, Types
  <2> QED BY <1>6, <2>1, <2>3 DEF FinishHandle, Types
<1>7. ASSUME NEW a \in Questions, AskQuestion(a) PROVE Types'
  <2>1. closed' \in BOOLEAN /\ asked' \subseteq Asks /\ listening' \subseteq Asks
    BY <1>7 DEF AskQuestion, SendAsk, SendMarksClosed, awaitResponse, Types, Asks
  <2>2. promise' \in [Asks -> Resolved]
    BY <1>7 DEF AskQuestion, awaitResponse, Types, Resolved
  <2> QED BY <1>7, <2>1, <2>2 DEF AskQuestion, Types
<1>8. ASSUME NEW a \in Asks, RendererAnswers(a) PROVE Types'
  <2>1. replies' \in Seq(Asks)
    BY <1>8 DEF RendererAnswers, Types
  <2> QED BY <1>8, <2>1 DEF RendererAnswers, Types
<1>9. CASE DeliverReply
  <2>1. turn' \in [Turns -> TurnRec]
    BY <1>9, DeliverReplyIs
  <2>2. replies' \in Seq(Asks) /\ listening' \subseteq Asks
    BY <1>9 DEF DeliverReply, Types
  <2>3. promise' \in [Asks -> Resolved]
    BY <1>9, ResolveType DEF DeliverReply, Types, Resolved
  <2> QED BY <1>9, <2>1, <2>2, <2>3 DEF DeliverReply, Types
<1>10. CASE HandleExit
  <2>1. turn' \in [Turns -> TurnRec]
    BY <1>10, HandleExitIs
  <2>2. handle' \in [Handles -> HandleRec]
    BY <1>10, SettleType DEF HandleExit, Types
  <2> DEFINE denied == UNION {turn[t].pending : t \in Turns}
  <2>3. Resolve(promise, denied, "denied") \in [Asks -> Resolved]
    BY ResolveType DEF Types, Resolved
  <2> HIDE DEF denied
  <2>4. promise' = Resolve(Resolve(promise, denied, "denied"), listening, "fallback")
    BY <1>10 DEF HandleExit, denied
  <2>5. promise' \in [Asks -> Resolved]
    BY <2>3, <2>4, ResolveType DEF Resolved
  <2> QED BY <1>10, <2>1, <2>2, <2>5 DEF HandleExit, Types
<1>11. CASE \/ \E state \in {"wedged", "exited"} : ProcessBecomes(state)
            \/ StdinBreaks \/ Close \/ Kill \/ TermTimer \/ KillTimer \/ UNCHANGED sdkVars
  BY <1>11 DEF ProcessBecomes, StdinBreaks, Close, Kill, TermTimer, KillTimer, sdkVars, Types
<1> QED BY <1>1, <1>2, <1>3, <1>4, <1>5, <1>6, <1>7, <1>8, <1>9, <1>10, <1>11 DEF SdkNext

-----------------------------------------------------------------------------
(* No promise hangs.                                                       *)

LEMMA ResolveIs ==
  ASSUME NEW p \in [Asks -> Resolved], NEW S, NEW how \in Resolved \ {"waiting"}, NEW a \in Asks
  PROVE  Resolve(p, S, how)[a] = "waiting" <=> p[a] = "waiting" /\ a \notin S
BY DEF Resolve

LEMMA PromiseStep ==
  ASSUME Types, ExitCloses, NoPromiseHangs, ChildrenAreOpen, [SdkNext]_sdkVars
  PROVE  ExitCloses' /\ NoPromiseHangs'
<1> USE DEF processVars, askVars
<1>0. promise \in [Asks -> Resolved] /\ Requests \subseteq Asks /\ Questions \subseteq Asks
      /\ Requests \cap Questions = {}
  BY SdkAssumption DEF Types, Asks
(* Turns that stay open with what is pending in them.                      *)
<1>2. ASSUME UNCHANGED <<exitEvent, listening, promise>>, closed => closed',
             \A t \in Turns : turn[t].state = "open" =>
                turn'[t].state = "open" /\ turn'[t].pending = turn[t].pending
      PROVE  ExitCloses' /\ NoPromiseHangs'
  <2>1. ExitCloses'
    BY <1>2 DEF ExitCloses
  <2>2. ASSUME NEW a \in Asks, promise'[a] = "waiting"
        PROVE  /\ ~exitEvent' /\ a \in listening'
               /\ a \in Requests => \E t \in Turns : turn'[t].state = "open" /\ a \in turn'[t].pending
    <3>1. promise[a] = "waiting"
      BY <1>2, <2>2
    <3>2. ~exitEvent /\ a \in listening
      BY <3>1 DEF NoPromiseHangs
    <3>3. a \in Requests => \E t \in Turns : turn[t].state = "open" /\ a \in turn[t].pending
      BY <3>1 DEF NoPromiseHangs
    <3> QED BY <1>2, <3>2, <3>3
  <2> QED BY <2>1, <2>2 DEF NoPromiseHangs
<1>1. CASE \/ \E a \in Asks : RendererAnswers(a)
           \/ \E state \in {"wedged", "exited"} : ProcessBecomes(state)
           \/ \E h \in Handles : WriteHandle(h)
           \/ StdinBreaks \/ Close \/ Kill \/ TermTimer \/ KillTimer \/ UNCHANGED sdkVars
  <2>1. UNCHANGED <<exitEvent, listening, promise, turn>>
    BY <1>1 DEF ProcessBecomes, StdinBreaks, Close, Kill, TermTimer, KillTimer, sdkVars,
         RendererAnswers, WriteHandle
  <2>2. closed => closed'
    BY <1>1 DEF ProcessBecomes, StdinBreaks, Close, Kill, TermTimer, KillTimer, sdkVars,
         RendererAnswers, WriteHandle, Send, SendMarksClosed
  <2> QED BY <1>2, <2>1, <2>2
<1>3. ASSUME NEW t \in Turns, OpenTurn(t) PROVE ExitCloses' /\ NoPromiseHangs'
  BY <1>2, <1>3, OpenTurnIs DEF OpenTurn
<1>4. ASSUME NEW t \in Turns, NEW h \in Handles, OpenHandle(t, h)
      PROVE  ExitCloses' /\ NoPromiseHangs'
  <2>1. UNCHANGED <<exitEvent, listening, promise>> /\ (closed => closed')
    BY <1>4 DEF OpenHandle, Send, SendMarksClosed
  <2>2. \A u \in Turns : turn'[u].state = turn[u].state /\ turn'[u].pending = turn[u].pending
    BY <1>4, OpenHandleIs
  <2> QED BY <1>2, <2>1, <2>2
<1>5. ASSUME NEW h \in Handles, FinishHandle(h) PROVE ExitCloses' /\ NoPromiseHangs'
  <2>1. UNCHANGED <<exitEvent, listening, promise>> /\ (closed => closed')
    BY <1>5 DEF FinishHandle, Send, SendMarksClosed
  <2>2. \A t \in Turns : Distinct(turn[t].children)
    BY DEF ChildrenAreOpen
  <2>3. \A u \in Turns : turn'[u].state = turn[u].state /\ turn'[u].pending = turn[u].pending
    BY <1>5, <2>2, FinishHandleIs
  <2> QED BY <1>2, <2>1, <2>3
<1>6. ASSUME NEW t \in Turns, NEW a \in Requests, AskPermission(t, a)
      PROVE  ExitCloses' /\ NoPromiseHangs'
  <2>1. /\ turn[t].state = "open" /\ promise[a] = "none" /\ awaitResponse(a)
        /\ exitEvent' = exitEvent /\ (closed => closed') /\ a \in Asks
    BY <1>0, <1>6 DEF AskPermission, SendAsk, SendMarksClosed
  <2>2. /\ turn'[t].state = "open" /\ turn[t].pending \subseteq turn'[t].pending
        /\ ~closed => a \in turn'[t].pending
        /\ \A u \in Turns : u # t => turn'[u] = turn[u]
    BY <1>6, <2>1, AskPermissionIs
  <2>3. ExitCloses'
    BY <2>1 DEF ExitCloses
  <2>4. ASSUME NEW b \in Asks, promise'[b] = "waiting"
        PROVE  /\ ~exitEvent' /\ b \in listening'
               /\ b \in Requests => \E u \in Turns : turn'[u].state = "open" /\ b \in turn'[u].pending
    <3>1. CASE b = a
      <4>1. ~closed /\ a \in listening'
        BY <1>0, <2>1, <2>4, <3>1 DEF awaitResponse
      <4> QED BY <2>1, <2>2, <3>1, <4>1 DEF ExitCloses
    <3>2. CASE b # a
      <4>1. promise[b] = "waiting" /\ listening \subseteq listening'
        BY <1>0, <2>1, <2>4, <3>2 DEF awaitResponse
      <4>2. ~exitEvent /\ b \in listening
        BY <4>1 DEF NoPromiseHangs
      <4>3. b \in Requests => \E u \in Turns : turn[u].state = "open" /\ b \in turn[u].pending
        BY <4>1 DEF NoPromiseHangs
      <4> QED BY <2>1, <2>2, <4>1, <4>2, <4>3
    <3> QED BY <3>1, <3>2
  <2> QED BY <2>3, <2>4 DEF NoPromiseHangs
<1>7. ASSUME NEW a \in Questions, AskQuestion(a) PROVE ExitCloses' /\ NoPromiseHangs'
  <2>1. /\ promise[a] = "none" /\ awaitResponse(a) /\ turn' = turn
        /\ exitEvent' = exitEvent /\ (closed => closed') /\ a \in Asks /\ a \notin Requests
    BY <1>0, <1>7 DEF AskQuestion, SendAsk, SendMarksClosed
  <2>2. ExitCloses'
    BY <2>1 DEF ExitCloses
  <2>3. ASSUME NEW b \in Asks, promise'[b] = "waiting"
        PROVE  /\ ~exitEvent' /\ b \in listening'
               /\ b \in Requests => \E u \in Turns : turn'[u].state = "open" /\ b \in turn'[u].pending
    <3>1. CASE b = a
      <4>1. ~closed /\ a \in listening'
        BY <1>0, <2>1, <2>3, <3>1 DEF awaitResponse
      <4> QED BY <2>1, <3>1, <4>1 DEF ExitCloses
    <3>2. CASE b # a
      <4>1. promise[b] = "waiting" /\ listening \subseteq listening'
        BY <1>0, <2>1, <2>3, <3>2 DEF awaitResponse
      <4> QED BY <2>1, <4>1 DEF NoPromiseHangs
    <3> QED BY <3>1, <3>2
  <2> QED BY <2>2, <2>3 DEF NoPromiseHangs
<1>8. CASE DeliverReply
  <2> DEFINE heard == {Head(replies)} \cap listening
  <2>1. /\ promise' = Resolve(promise, heard, "answered") /\ listening' = listening \ heard
        /\ UNCHANGED <<exitEvent, closed>>
    BY <1>8 DEF DeliverReply
  <2>2. \A t \in Turns : turn'[t].state = turn[t].state
                         /\ turn'[t].pending = turn[t].pending \ heard
    BY <1>8, DeliverReplyIs
  <2> HIDE DEF heard
  <2>3. ExitCloses'
    BY <2>1 DEF ExitCloses
  <2>4. ASSUME NEW a \in Asks, promise'[a] = "waiting"
        PROVE  /\ ~exitEvent' /\ a \in listening'
               /\ a \in Requests => \E t \in Turns : turn'[t].state = "open" /\ a \in turn'[t].pending
    <3>1. promise[a] = "waiting" /\ a \notin heard
      BY <1>0, <2>1, <2>4, ResolveIs DEF Resolved
    <3>2. ~exitEvent /\ a \in listening
      BY <3>1 DEF NoPromiseHangs
    <3>3. a \in Requests => \E t \in Turns : turn[t].state = "open" /\ a \in turn[t].pending
      BY <3>1 DEF NoPromiseHangs
    <3> QED BY <2>1, <2>2, <3>1, <3>2, <3>3
  <2> QED BY <2>3, <2>4 DEF NoPromiseHangs
<1>9. ASSUME NEW t \in Turns, NEW phase \in Phases, EndTurn(t, phase)
      PROVE  ExitCloses' /\ NoPromiseHangs'
  <2>1. /\ promise' = Resolve(promise, turn[t].pending, "denied")
        /\ UNCHANGED <<exitEvent, listening>> /\ (closed => closed')
    BY <1>9 DEF EndTurn, Send, SendMarksClosed
  <2>2. \A u \in Turns : u # t => turn'[u] = turn[u]
    BY <1>9, EndTurnIs
  <2>3. ExitCloses'
    BY <2>1 DEF ExitCloses
  <2>4. ASSUME NEW a \in Asks, promise'[a] = "waiting"
        PROVE  /\ ~exitEvent' /\ a \in listening'
               /\ a \in Requests => \E u \in Turns : turn'[u].state = "open" /\ a \in turn'[u].pending
    <3>1. promise[a] = "waiting" /\ a \notin turn[t].pending
      BY <1>0, <2>1, <2>4, ResolveIs DEF Resolved
    <3>2. ~exitEvent /\ a \in listening
      BY <3>1 DEF NoPromiseHangs
    <3>3. a \in Requests => \E u \in Turns : turn[u].state = "open" /\ a \in turn[u].pending
      BY <3>1 DEF NoPromiseHangs
    <3> QED BY <2>1, <2>2, <3>1, <3>2, <3>3
  <2> QED BY <2>3, <2>4 DEF NoPromiseHangs
<1>10. CASE HandleExit
  <2> DEFINE denied == UNION {turn[t].pending : t \in Turns}
             first == Resolve(promise, denied, "denied")
  <2>1. promise' = Resolve(first, listening, "fallback") /\ closed'
    BY <1>10 DEF HandleExit
  <2>2. first \in [Asks -> Resolved]
    BY <1>0, ResolveType DEF Resolved
  <2>3. \A a \in Asks : first[a] = "waiting" => promise[a] = "waiting"
    BY <1>0, ResolveIs DEF Resolved
  <2> HIDE DEF first
  <2>4. ASSUME NEW a \in Asks PROVE promise'[a] # "waiting"
    <3>1. promise'[a] = "waiting" => promise[a] = "waiting" /\ a \notin listening
      BY <2>1, <2>2, <2>3, ResolveIs DEF Resolved
    <3> QED BY <3>1 DEF NoPromiseHangs
  <2> QED BY <2>1, <2>4 DEF ExitCloses, NoPromiseHangs
<1> QED BY <1>1, <1>3, <1>4, <1>5, <1>6, <1>7, <1>8, <1>9, <1>10 DEF SdkNext

-----------------------------------------------------------------------------
(* The wire is balanced.                                                   *)

WireInv ==
  /\ OneOwner /\ ChildrenAreOpen
  /\ UnusedUnsaid /\ OpenSaid /\ SettledSaid /\ IdleIsOver /\ WireIsBalanced

LEMMA WireSentIs ==
  ASSUME NEW k, NEW x, NEW l, NEW y
  PROVE  /\ Sent(k, x).kind = k /\ Sent(k, x).of = x
         /\ Sent(k, x) = Sent(l, y) => k = l /\ x = y
BY DEF Sent

(* A callback that writes no event and neither opens nor settles a handle.  *)
LEMMA QuietStep ==
  ASSUME WireInv, UNCHANGED <<wire, handle>>, Writes' => Writes,
         \A t \in Turns : /\ turn'[t].children = turn[t].children
                          /\ turn[t].state = "ended" => turn'[t].state = "ended"
                          /\ turn'[t].state # "open" => turn[t].state # "open"
  PROVE  WireInv'
<1>1. OneOwner' /\ UnusedUnsaid' /\ OpenSaid' /\ SettledSaid'
  BY DEF WireInv, OneOwner, UnusedUnsaid, OpenSaid, SettledSaid
<1>2. ChildrenAreOpen'
  BY DEF WireInv, ChildrenAreOpen
<1>3. IdleIsOver'
  BY DEF WireInv, IdleIsOver
<1>4. WireIsBalanced'
  BY DEF WireInv, WireIsBalanced
<1> QED BY <1>1, <1>2, <1>3, <1>4 DEF WireInv

(* What is written after the events that were there: wire has n of them.    *)
LEMMA OpenHandleWire ==
  ASSUME Types, WireInv, NEW t \in Turns, NEW h \in Handles, OpenHandle(t, h)
  PROVE  WireInv'
<1> DEFINE n == Len(wire)
<1>1. n \in Nat /\ DOMAIN wire = 1..n
  BY DEF Types
<1>2. turn[t].state = "open" /\ handle[h].state = "unused" /\ handle[h].of = {} /\ stdin' = stdin
  BY DEF OpenHandle, WireInv, OneOwner, processVars
<1>3. /\ turn'[t].state = turn[t].state /\ turn'[t].children = Append(turn[t].children, h)
      /\ \A u \in Turns : u # t => turn'[u] = turn[u]
      /\ handle'[h].of = {t} /\ handle'[h].state = "open"
      /\ \A g \in Handles : g # h => handle'[g] = handle[g]
  BY OpenHandleIs
<1>4. /\ closed => closed'
      /\ ~Writes => wire' = wire
      /\ Writes => /\ Len(wire') = n + 1 /\ wire'[n + 1] = Sent("start", h)
                   /\ DOMAIN wire' = 1..n \cup {n + 1}
                   /\ \A i \in 1..n : wire'[i] = wire[i]
  <2>1. Sent("start", h) \in Event
    BY SentEvent DEF Kinds
  <2>2. Send(<<Sent("start", h)>>)
    BY DEF OpenHandle
  <2> QED BY <1>1, <2>1, <2>2, SendOneIs DEF Types
<1>5. Writes' => Writes
  BY <1>2, <1>4 DEF Writes
<1>6. /\ OneOwner /\ ChildrenAreOpen /\ UnusedUnsaid /\ OpenSaid /\ SettledSaid
      /\ IdleIsOver /\ WireIsBalanced
  BY DEF WireInv
<1>7. \A i \in 1..n : wire[i] # Sent("start", h) /\ wire[i] # Sent("end", h)
  BY <1>1, <1>2, <1>6, WireSentIs DEF UnusedUnsaid
<1> HIDE DEF n
<1>8. OneOwner'
  BY <1>2, <1>3, <1>6 DEF OneOwner
<1>9. ChildrenAreOpen'
  <2> DEFINE kids == turn[t].children
  <2>1. kids \in Seq(Handles)
    BY DEF Types, TurnRec
  <2>2. ~Holds(kids, h) /\ Distinct(kids)
    BY <1>2, <1>6 DEF ChildrenAreOpen
  <2>3. /\ \A g \in Handles : Holds(Append(kids, h), g) <=> (Holds(kids, g) \/ g = h)
        /\ Distinct(Append(kids, h))
    <3> HIDE DEF kids
    <3> DEFINE m == Len(kids)
               new == Append(kids, h)
    <3>1. /\ m \in Nat /\ DOMAIN kids = 1..m /\ DOMAIN new = 1..(m+1)
          /\ new[m + 1] = h /\ \A i \in 1..m : new[i] = kids[i]
      BY <2>1
    <3> HIDE DEF m, new
    <3>2. \A i \in 1..(m+1) : i \in 1..m \/ i = m + 1
      BY <3>1
    <3>3. m + 1 \in 1..(m+1) /\ \A i \in 1..m : i \in 1..(m+1)
      BY <3>1
    <3>4. \A g \in Handles : Holds(new, g) <=> (Holds(kids, g) \/ g = h)
      BY <3>1, <3>2, <3>3 DEF Holds
    <3>5. Distinct(new)
      <4>1. ASSUME NEW i \in 1..(m+1), NEW j \in 1..(m+1), new[i] = new[j] PROVE i = j
        <5>1. CASE i \in 1..m /\ j \in 1..m
          BY <2>2, <3>1, <4>1, <5>1 DEF Distinct
        <5>2. CASE i \in 1..m /\ j = m + 1
          BY <2>2, <3>1, <4>1, <5>2 DEF Holds
        <5>3. CASE i = m + 1 /\ j \in 1..m
          BY <2>2, <3>1, <4>1, <5>3 DEF Holds
        <5> QED BY <3>2, <5>1, <5>2, <5>3
      <4> QED BY <3>1, <4>1 DEF Distinct
    <3> QED BY <3>4, <3>5 DEF new
  <2>4. ASSUME NEW u \in Turns
        PROVE  LET k == turn'[u].children IN
               /\ \A g \in Handles : Holds(k, g) <=> (u \in handle'[g].of /\ handle'[g].state = "open")
               /\ Distinct(k)
               /\ turn'[u].state # "open" => k = <<>>
    <3>1. CASE u = t
      <4>1. \A g \in Handles : Holds(kids, g) <=> (t \in handle[g].of /\ handle[g].state = "open")
        BY <1>6 DEF ChildrenAreOpen
      <4> HIDE DEF kids
      <4>2. turn'[u].children = Append(kids, h) /\ turn'[u].state = "open"
        BY <1>2, <1>3, <3>1 DEF kids
      <4> QED BY <1>3, <2>3, <3>1, <4>1, <4>2
    <3>2. CASE u # t
      <4>1. /\ \A g \in Handles : Holds(turn[u].children, g)
                                    <=> (u \in handle[g].of /\ handle[g].state = "open")
            /\ Distinct(turn[u].children)
            /\ turn[u].state # "open" => turn[u].children = <<>>
        BY <1>6 DEF ChildrenAreOpen
      <4> QED BY <1>2, <1>3, <3>2, <4>1
    <3> QED BY <3>1, <3>2
  <2> QED BY <2>4 DEF ChildrenAreOpen
<1>10. UnusedUnsaid'
  <2>1. ASSUME NEW g \in Handles, handle'[g].state = "unused", NEW i \in DOMAIN wire', wire'[i].of = g
        PROVE  wire'[i].kind = "idle"
    <3>1. g # h /\ handle[g].state = "unused"
      BY <1>3, <2>1
    <3>2. i \in 1..n /\ wire'[i] = wire[i]
      BY <1>1, <1>4, <2>1, <3>1, WireSentIs
    <3> QED BY <1>1, <1>6, <2>1, <3>1, <3>2 DEF UnusedUnsaid
  <2> QED BY <2>1 DEF UnusedUnsaid
<1>11. OpenSaid'
  <2>1. ASSUME NEW g \in Handles, handle'[g].state = "open", Writes'
        PROVE  /\ \E i \in DOMAIN wire' : wire'[i] = Sent("start", g)
               /\ \A i \in DOMAIN wire' : wire'[i] # Sent("end", g)
    <3>1. CASE g = h
      <4>1. wire'[n + 1] = Sent("start", g) /\ n + 1 \in DOMAIN wire'
        BY <1>4, <1>5, <2>1, <3>1
      <4>2. \A i \in DOMAIN wire' : wire'[i] # Sent("end", g)
        BY <1>4, <1>5, <1>7, <2>1, <3>1, WireSentIs
      <4> QED BY <4>1, <4>2
    <3>2. CASE g # h
      <4>1. /\ \E i \in 1..n : wire[i] = Sent("start", g)
            /\ \A i \in 1..n : wire[i] # Sent("end", g)
        BY <1>1, <1>3, <1>5, <1>6, <2>1, <3>2 DEF OpenSaid
      <4>2. Sent("start", h) # Sent("end", g)
        BY WireSentIs
      <4> QED BY <1>4, <1>5, <2>1, <4>1, <4>2
    <3> QED BY <3>1, <3>2
  <2> QED BY <2>1 DEF OpenSaid
<1>12. SettledSaid'
  <2>1. ASSUME NEW g \in Handles, handle'[g].state = "settled", Writes',
               NEW i \in DOMAIN wire', wire'[i] = Sent("start", g)
        PROVE  \E k \in (i+1)..Len(wire') : wire'[k] = Sent("end", g)
    <3>1. g # h /\ handle[g].state = "settled"
      BY <1>3, <2>1
    <3>2. Sent("start", h) # Sent("start", g)
      BY <3>1, WireSentIs
    <3>3. i \in 1..n /\ wire[i] = Sent("start", g)
      BY <1>4, <1>5, <2>1, <3>2
    <3>4. PICK k \in (i+1)..n : wire[k] = Sent("end", g)
      BY <1>1, <1>5, <1>6, <2>1, <3>1, <3>3 DEF SettledSaid, n
    <3>5. k \in 1..n /\ k \in (i+1)..(n+1)
      BY <1>1, <3>3
    <3> QED BY <1>4, <1>5, <2>1, <3>4, <3>5
  <2> QED BY <2>1 DEF SettledSaid
<1>13. IdleIsOver'
  <2>1. ASSUME NEW i \in DOMAIN wire', wire'[i].kind = "idle"
        PROVE  wire'[i].of \in Turns /\ turn'[wire'[i].of].state = "ended"
    <3>1. i \in 1..n /\ wire'[i] = wire[i]
      BY <1>1, <1>4, <2>1, WireSentIs
    <3>2. wire[i].of \in Turns /\ turn[wire[i].of].state = "ended"
      BY <1>1, <1>6, <2>1, <3>1 DEF IdleIsOver
    <3> QED BY <1>3, <3>1, <3>2
  <2> QED BY <2>1 DEF IdleIsOver
<1>14. WireIsBalanced'
  <2>1. ASSUME NEW i \in DOMAIN wire', wire'[i].kind \in {"delta", "end"}
        PROVE  /\ \E j \in 1..(i-1) : wire'[j] = Sent("start", wire'[i].of)
               /\ \A j \in 1..(i-1) : wire'[j] # Sent("end", wire'[i].of)
    <3>1. i \in 1..n /\ wire'[i] = wire[i]
      BY <1>1, <1>4, <2>1, WireSentIs
    <3>2. /\ \E j \in 1..(i-1) : wire[j] = Sent("start", wire[i].of)
          /\ \A j \in 1..(i-1) : wire[j] # Sent("end", wire[i].of)
      BY <1>1, <1>6, <2>1, <3>1 DEF WireIsBalanced
    <3>3. \A j \in 1..(i-1) : j \in 1..n
      BY <1>1, <3>1
    <3> QED BY <1>4, <3>1, <3>2, <3>3
  <2>2. ASSUME NEW i \in DOMAIN wire', wire'[i].kind = "idle", NEW g \in Handles,
               NEW j \in DOMAIN wire', wire'[j] = Sent("start", g), wire'[i].of \in handle'[g].of
        PROVE  \E k \in (j+1)..(i-1) : wire'[k] = Sent("end", g)
    <3>1. i \in 1..n /\ wire'[i] = wire[i]
      BY <1>1, <1>4, <2>2, WireSentIs
    <3>2. turn[wire[i].of].state = "ended"
      BY <1>1, <1>6, <2>2, <3>1 DEF IdleIsOver
    <3>3. g # h
      BY <1>2, <1>3, <2>2, <3>1, <3>2
    <3>4. Sent("start", h) # Sent("start", g)
      BY <3>3, WireSentIs
    <3>5. j \in 1..n /\ wire[j] = Sent("start", g)
      BY <1>1, <1>4, <2>2, <3>4
    <3>6. wire[i].of \in handle[g].of /\ wire[i].kind = "idle"
      BY <1>3, <2>2, <3>1, <3>3
    <3>7. PICK k \in (j+1)..(i-1) : wire[k] = Sent("end", g)
      BY <1>1, <1>6, <3>1, <3>5, <3>6 DEF WireIsBalanced
    <3>8. k \in 1..n
      BY <1>1, <3>1, <3>5
    <3> QED BY <1>4, <3>7, <3>8
  <2> QED BY <2>1, <2>2 DEF WireIsBalanced
<1> QED BY <1>8, <1>9, <1>10, <1>11, <1>12, <1>13, <1>14 DEF WireInv

(* The two facts an event of a handle adds to a balanced wire: one more     *)
(* event e after the n that were there, which starts nothing and ends only  *)
(* what is open.                                                           *)
LEMMA OneMoreBalanced ==
  ASSUME Types, WireInv, NEW h \in Handles, handle[h].state = "open",
         NEW kind \in {"delta", "end"}, NEW n \in Nat, n = Len(wire),
         Writes,
         Len(wire') = n + 1, DOMAIN wire' = 1..n \cup {n + 1},
         wire'[n + 1] = Sent(kind, h), \A i \in 1..n : wire'[i] = wire[i],
         \A g \in Handles : handle'[g].of = handle[g].of
  PROVE  WireIsBalanced'
<1>1. DOMAIN wire = 1..n
  BY DEF Types
<1>2. OpenSaid /\ WireIsBalanced
  BY DEF WireInv
<1>3. ASSUME NEW i \in DOMAIN wire', wire'[i].kind \in {"delta", "end"}
      PROVE  /\ \E j \in 1..(i-1) : wire'[j] = Sent("start", wire'[i].of)
             /\ \A j \in 1..(i-1) : wire'[j] # Sent("end", wire'[i].of)
  <2>1. CASE i \in 1..n
    <3>1. /\ \E j \in 1..(i-1) : wire[j] = Sent("start", wire[i].of)
          /\ \A j \in 1..(i-1) : wire[j] # Sent("end", wire[i].of)
      BY <1>1, <1>2, <1>3, <2>1 DEF WireIsBalanced
    <3>2. \A j \in 1..(i-1) : j \in 1..n
      BY <2>1
    <3> QED BY <2>1, <3>1, <3>2
  <2>2. CASE i = n + 1
    <3>1. wire'[i].of = h /\ i - 1 = n
      BY <2>2, WireSentIs
    <3>2. /\ \E j \in 1..n : wire[j] = Sent("start", h)
          /\ \A j \in 1..n : wire[j] # Sent("end", h)
      BY <1>1, <1>2 DEF OpenSaid
    <3> QED BY <3>1, <3>2
  <2> QED BY <2>1, <2>2
<1>4. ASSUME NEW i \in DOMAIN wire', wire'[i].kind = "idle", NEW g \in Handles,
             NEW j \in DOMAIN wire', wire'[j] = Sent("start", g), wire'[i].of \in handle'[g].of
      PROVE  \E k \in (j+1)..(i-1) : wire'[k] = Sent("end", g)
  <2>1. Sent(kind, h).kind # "idle" /\ Sent(kind, h) # Sent("start", g)
    BY WireSentIs
  <2>2. i \in 1..n /\ j \in 1..n
    BY <1>4, <2>1
  <2>3. PICK k \in (j+1)..(i-1) : wire[k] = Sent("end", g)
    BY <1>1, <1>2, <1>4, <2>2 DEF WireIsBalanced
  <2>4. k \in 1..n
    BY <2>2
  <2> QED BY <2>3, <2>4
<1> QED BY <1>3, <1>4 DEF WireIsBalanced

LEMMA WriteHandleWire ==
  ASSUME Types, WireInv, NEW h \in Handles, WriteHandle(h)
  PROVE  WireInv'
<1> DEFINE n == Len(wire)
<1>1. n \in Nat /\ DOMAIN wire = 1..n
  BY DEF Types
<1>2. handle[h].state = "open" /\ UNCHANGED <<turn, handle, stdin>>
  BY DEF WriteHandle, processVars
<1>3. /\ closed => closed'
      /\ ~Writes => wire' = wire
      /\ Writes => /\ Len(wire') = n + 1 /\ wire'[n + 1] = Sent("delta", h)
                   /\ DOMAIN wire' = 1..n \cup {n + 1}
                   /\ \A i \in 1..n : wire'[i] = wire[i]
  <2>1. Sent("delta", h) \in Event
    BY SentEvent DEF Kinds
  <2>2. Send(<<Sent("delta", h)>>)
    BY DEF WriteHandle
  <2> QED BY <1>1, <2>1, <2>2, SendOneIs DEF Types
<1>4. Writes' => Writes
  BY <1>2, <1>3 DEF Writes
<1>5. CASE ~Writes
  BY <1>2, <1>3, <1>4, <1>5, QuietStep
<1>6. CASE Writes
  <2>1. /\ OneOwner /\ ChildrenAreOpen /\ UnusedUnsaid /\ OpenSaid /\ SettledSaid /\ IdleIsOver
    BY DEF WireInv
  <2>2. WireIsBalanced'
    BY <1>1, <1>2, <1>3, <1>6, OneMoreBalanced
  <2>3. /\ Sent("delta", h).kind = "delta" /\ Sent("delta", h).of = h
        /\ \A g \in Handles : Sent("delta", h) # Sent("end", g) /\ Sent("delta", h) # Sent("start", g)
    BY WireSentIs
  <2>4. OneOwner' /\ ChildrenAreOpen'
    BY <1>2, <2>1 DEF OneOwner, ChildrenAreOpen
  <2> HIDE DEF n
  <2>5. UnusedUnsaid'
    BY <1>1, <1>2, <1>3, <1>6, <2>1, <2>3 DEF UnusedUnsaid
  <2>6. OpenSaid'
    <3>1. ASSUME NEW g \in Handles, handle'[g].state = "open", Writes'
          PROVE  /\ \E i \in DOMAIN wire' : wire'[i] = Sent("start", g)
                 /\ \A i \in DOMAIN wire' : wire'[i] # Sent("end", g)
      <4>1. /\ \E i \in 1..n : wire[i] = Sent("start", g)
            /\ \A i \in 1..n : wire[i] # Sent("end", g)
        BY <1>1, <1>2, <1>6, <2>1, <3>1 DEF OpenSaid
      <4> QED BY <1>3, <1>6, <2>3, <4>1
    <3> QED BY <3>1 DEF OpenSaid
  <2>7. SettledSaid'
    <3>1. ASSUME NEW g \in Handles, handle'[g].state = "settled", Writes',
                 NEW i \in DOMAIN wire', wire'[i] = Sent("start", g)
          PROVE  \E k \in (i+1)..Len(wire') : wire'[k] = Sent("end", g)
      <4>1. i \in 1..n /\ wire[i] = Sent("start", g)
        BY <1>3, <1>6, <2>3, <3>1
      <4>2. PICK k \in (i+1)..n : wire[k] = Sent("end", g)
        BY <1>1, <1>2, <1>6, <2>1, <3>1, <4>1 DEF SettledSaid, n
      <4>3. k \in 1..n /\ k \in (i+1)..(n+1)
        BY <1>1, <4>1
      <4> QED BY <1>3, <1>6, <4>2, <4>3
    <3> QED BY <3>1 DEF SettledSaid
  <2>8. IdleIsOver'
    BY <1>1, <1>2, <1>3, <1>6, <2>1, <2>3 DEF IdleIsOver
  <2> QED BY <2>2, <2>4, <2>5, <2>6, <2>7, <2>8 DEF WireInv
<1> QED BY <1>5, <1>6

LEMMA FinishHandleWire ==
  ASSUME Types, WireInv, NEW h \in Handles, FinishHandle(h)
  PROVE  WireInv'
<1> DEFINE n == Len(wire)
<1>1. n \in Nat /\ DOMAIN wire = 1..n
  BY DEF Types
<1>2. handle[h].state = "open" /\ stdin' = stdin
  BY DEF FinishHandle, processVars
<1>3. /\ OneOwner /\ ChildrenAreOpen /\ UnusedUnsaid /\ OpenSaid /\ SettledSaid
      /\ IdleIsOver /\ WireIsBalanced
  BY DEF WireInv
<1>4. /\ \A t \in Turns :
           LET s == turn[t].children r == turn'[t].children IN
           /\ turn'[t].state = turn[t].state
           /\ t \notin handle[h].of => r = s
           /\ t \in handle[h].of =>
                Distinct(r) /\ \A g : Holds(r, g) <=> (g # h /\ Holds(s, g))
      /\ turn' \in [Turns -> TurnRec]
      /\ handle'[h].of = handle[h].of /\ handle'[h].state = "settled"
      /\ \A g \in Handles : g # h => handle'[g] = handle[g]
  <2>1. \A t \in Turns : Distinct(turn[t].children)
    BY <1>3 DEF ChildrenAreOpen
  <2> QED BY <2>1, FinishHandleIs
<1>5. /\ closed => closed'
      /\ ~Writes => wire' = wire
      /\ Writes => /\ Len(wire') = n + 1 /\ wire'[n + 1] = Sent("end", h)
                   /\ DOMAIN wire' = 1..n \cup {n + 1}
                   /\ \A i \in 1..n : wire'[i] = wire[i]
  <2>1. Sent("end", h) \in Event
    BY SentEvent DEF Kinds
  <2>2. Send(<<Sent("end", h)>>)
    BY DEF FinishHandle
  <2> QED BY <1>1, <2>1, <2>2, SendOneIs DEF Types
<1>6. Writes' => Writes
  BY <1>2, <1>5 DEF Writes
<1>7. /\ Sent("end", h).kind = "end" /\ Sent("end", h).of = h
      /\ \A g \in Handles : Sent("end", h) # Sent("start", g)
      /\ \A g \in Handles : g # h => Sent("end", h) # Sent("end", g)
  BY WireSentIs
<1> HIDE DEF n
<1>8. OneOwner'
  BY <1>2, <1>3, <1>4 DEF OneOwner
<1>9. ChildrenAreOpen'
  <2>1. ASSUME NEW t \in Turns
        PROVE  LET r == turn'[t].children IN
               /\ \A g \in Handles : Holds(r, g) <=> (t \in handle'[g].of /\ handle'[g].state = "open")
               /\ Distinct(r)
               /\ turn'[t].state # "open" => r = <<>>
    <3> DEFINE s == turn[t].children
    <3>1. /\ \A g \in Handles : Holds(s, g) <=> (t \in handle[g].of /\ handle[g].state = "open")
          /\ Distinct(s)
          /\ turn[t].state # "open" => s = <<>>
      BY <1>3 DEF ChildrenAreOpen
    <3>2. CASE t \notin handle[h].of
      BY <1>4, <3>1, <3>2
    <3>3. CASE t \in handle[h].of
      <4>1. Holds(s, h)
        BY <1>2, <3>1, <3>3
      <4>2. turn[t].state = "open"
        BY <3>1, <4>1 DEF Holds
      <4> HIDE DEF s
      <4>3. turn'[t].state = "open" /\ Distinct(turn'[t].children)
            /\ \A g : Holds(turn'[t].children, g) <=> (g # h /\ Holds(s, g))
        BY <1>4, <3>3, <4>2 DEF s
      <4>4. \A g \in Handles : (g # h /\ Holds(s, g))
                                 <=> (t \in handle'[g].of /\ handle'[g].state = "open")
        BY <1>4, <3>1
      <4> QED BY <4>3, <4>4
    <3> QED BY <3>2, <3>3
  <2> QED BY <2>1 DEF ChildrenAreOpen
<1>10. UnusedUnsaid'
  <2>1. ASSUME NEW g \in Handles, handle'[g].state = "unused", NEW i \in DOMAIN wire', wire'[i].of = g
        PROVE  wire'[i].kind = "idle"
    <3>1. g # h /\ handle[g].state = "unused"
      BY <1>4, <2>1
    <3>2. i \in 1..n /\ wire'[i] = wire[i]
      BY <1>1, <1>5, <1>7, <2>1, <3>1
    <3> QED BY <1>1, <1>3, <2>1, <3>1, <3>2 DEF UnusedUnsaid
  <2> QED BY <2>1 DEF UnusedUnsaid
<1>11. OpenSaid'
  <2>1. ASSUME NEW g \in Handles, handle'[g].state = "open", Writes'
        PROVE  /\ \E i \in DOMAIN wire' : wire'[i] = Sent("start", g)
               /\ \A i \in DOMAIN wire' : wire'[i] # Sent("end", g)
    <3>1. g # h /\ handle[g].state = "open"
      BY <1>4, <2>1
    <3>2. /\ \E i \in 1..n : wire[i] = Sent("start", g)
          /\ \A i \in 1..n : wire[i] # Sent("end", g)
      BY <1>1, <1>3, <1>6, <2>1, <3>1 DEF OpenSaid
    <3> QED BY <1>5, <1>6, <1>7, <2>1, <3>1, <3>2
  <2> QED BY <2>1 DEF OpenSaid
<1>12. SettledSaid'
  <2>1. ASSUME NEW g \in Handles, handle'[g].state = "settled", Writes',
               NEW i \in DOMAIN wire', wire'[i] = Sent("start", g)
        PROVE  \E k \in (i+1)..Len(wire') : wire'[k] = Sent("end", g)
    <3>1. i \in 1..n /\ wire[i] = Sent("start", g)
      BY <1>5, <1>6, <1>7, <2>1
    <3>2. CASE g = h
      <4>1. n + 1 \in (i+1)..(n+1)
        BY <1>1, <3>1
      <4> QED BY <1>5, <1>6, <2>1, <3>2, <4>1
    <3>3. CASE g # h
      <4>1. PICK k \in (i+1)..n : wire[k] = Sent("end", g)
        BY <1>1, <1>3, <1>4, <1>6, <2>1, <3>1, <3>3 DEF SettledSaid, n
      <4>2. k \in 1..n /\ k \in (i+1)..(n+1)
        BY <1>1, <3>1
      <4> QED BY <1>5, <1>6, <2>1, <4>1, <4>2
    <3> QED BY <3>2, <3>3
  <2> QED BY <2>1 DEF SettledSaid
<1>13. IdleIsOver'
  <2>1. ASSUME NEW i \in DOMAIN wire', wire'[i].kind = "idle"
        PROVE  wire'[i].of \in Turns /\ turn'[wire'[i].of].state = "ended"
    <3>1. i \in 1..n /\ wire'[i] = wire[i]
      BY <1>1, <1>5, <1>7, <2>1
    <3> QED BY <1>1, <1>3, <1>4, <2>1, <3>1 DEF IdleIsOver
  <2> QED BY <2>1 DEF IdleIsOver
<1>14. WireIsBalanced'
  <2>1. \A g \in Handles : handle'[g].of = handle[g].of
    BY <1>4
  <2>2. CASE Writes
    <3>1. n = Len(wire)
      BY DEF n
    <3> QED BY <1>1, <1>2, <1>5, <2>1, <2>2, <3>1, OneMoreBalanced
  <2>3. CASE ~Writes
    BY <1>3, <1>5, <2>1, <2>3 DEF WireIsBalanced
  <2> QED BY <2>2, <2>3
<1> QED BY <1>8, <1>9, <1>10, <1>11, <1>12, <1>13, <1>14 DEF WireInv

LEMMA EndTurnWire ==
  ASSUME Types, WireInv, NEW t \in Turns, NEW phase \in Phases, EndTurn(t, phase)
  PROVE  WireInv'
<1> DEFINE n == Len(wire)
           kids == turn[t].children
           m == Len(kids)
           es == EndEvents(t, phase)
           last == IF phase = "kept" THEN m ELSE m + 1
<1>1. /\ n \in Nat /\ DOMAIN wire = 1..n /\ kids \in Seq(Handles)
      /\ m \in Nat /\ DOMAIN kids = 1..m
  BY DEF Types, TurnRec
<1>2. /\ OneOwner /\ ChildrenAreOpen /\ UnusedUnsaid /\ OpenSaid /\ SettledSaid
      /\ IdleIsOver /\ WireIsBalanced
  BY DEF WireInv
<1>3. turn[t].state = "open" /\ stdin' = stdin
  BY DEF EndTurn, processVars
<1>4. /\ turn' \in [Turns -> TurnRec]
      /\ turn'[t].state = "ended" /\ turn'[t].children = <<>>
      /\ \A u \in Turns : u # t => turn'[u] = turn[u]
  BY EndTurnIs
<1>5. \A h \in Handles :
        /\ handle'[h].of = handle[h].of
        /\ handle'[h].state = IF t \in handle[h].of THEN "settled" ELSE handle[h].state
  BY SettleType DEF EndTurn, Types
<1>6. /\ es \in Seq(Event) /\ Len(es) = last /\ DOMAIN es = 1..last
      /\ \A i \in 1..m : es[i] = Sent("end", kids[i])
      /\ phase # "kept" => es[m + 1] = Sent("idle", t)
  BY <1>1, EndEventsAre
<1>7. Send(es)
  BY DEF EndTurn
<1>8. \A h \in Handles : Holds(kids, h) <=> (t \in handle[h].of /\ handle[h].state = "open")
  BY <1>2 DEF ChildrenAreOpen
<1>9. Distinct(kids)
  BY <1>2 DEF ChildrenAreOpen
<1>10. \A i \in 1..m : /\ kids[i] \in Handles /\ t \in handle[kids[i]].of
                       /\ handle[kids[i]].state = "open"
  BY <1>1, <1>8 DEF Holds
<1>11. ASSUME NEW h \in Handles, t \in handle[h].of, handle[h].state = "open"
       PROVE  \E q \in 1..m : kids[q] = h
  BY <1>1, <1>8, <1>11 DEF Holds
<1> HIDE DEF n, kids, m, es
<1>12. last \in Nat /\ m <= last /\ \A q \in 1..last : q \in 1..m \/ (phase # "kept" /\ q = m + 1)
  BY <1>1
<1> HIDE DEF last
<1>13. (closed => closed') /\ (~Writes => wire' = wire)
  BY <1>6, <1>7, SendIs DEF Types
<1>14. Writes' => Writes
  BY <1>3, <1>13 DEF Writes
(* The wire after: what was there, one end for each child, and the phase.   *)
<1>15. ASSUME Writes
       PROVE  /\ Len(wire') = n + last
              /\ \A i \in 1..n : i \in DOMAIN wire' /\ wire'[i] = wire[i]
              /\ \A q \in 1..m : n + q \in DOMAIN wire' /\ wire'[n + q] = Sent("end", kids[q])
              /\ \A i \in DOMAIN wire' :
                   \/ i \in 1..n
                   \/ \E q \in 1..m : i = n + q
                   \/ i = n + m + 1 /\ wire'[i] = Sent("idle", t)
  <2>1. /\ Len(wire') = Len(wire) + Len(es)
        /\ \A i \in DOMAIN wire : i \in DOMAIN wire' /\ wire'[i] = wire[i]
        /\ \A i \in DOMAIN es : /\ Len(wire) + i \in DOMAIN wire'
                                /\ wire'[Len(wire) + i] = es[i]
        /\ \A i \in DOMAIN wire' : i \in DOMAIN wire \/ \E k \in DOMAIN es : i = Len(wire) + k
    BY <1>6, <1>7, <1>15, SendIs DEF Types
  <2>2. \A q \in 1..m : q \in 1..last
    BY <1>1, <1>12
  <2>3. /\ Len(wire') = n + last
        /\ \A i \in 1..n : i \in DOMAIN wire' /\ wire'[i] = wire[i]
        /\ \A q \in 1..last : n + q \in DOMAIN wire' /\ wire'[n + q] = es[q]
        /\ \A i \in DOMAIN wire' : i \in 1..n \/ \E q \in 1..last : i = n + q
    BY <1>1, <1>6, <2>1 DEF n
  <2>4. ASSUME NEW i \in DOMAIN wire', i \notin 1..n, ~ \E q \in 1..m : i = n + q
        PROVE  i = n + m + 1 /\ wire'[i] = Sent("idle", t)
    <3>1. PICK q \in 1..last : i = n + q
      BY <2>3, <2>4
    <3>2. q = m + 1 /\ phase # "kept"
      BY <1>12, <2>4, <3>1
    <3>3. i = n + m + 1
      BY <1>1, <3>1, <3>2
    <3> QED BY <1>6, <2>3, <3>1, <3>2, <3>3
  <2> QED BY <1>6, <2>2, <2>3, <2>4
<1>16. \A q \in 1..m : n + q \notin 1..n /\ n + q <= n + m
  BY <1>1
<1>17. /\ \A q \in 1..m : Sent("end", kids[q]).kind = "end" /\ Sent("end", kids[q]).of = kids[q]
       /\ Sent("idle", t).kind = "idle" /\ Sent("idle", t).of = t
       /\ \A g \in Handles : Sent("idle", t) # Sent("start", g) /\ Sent("idle", t) # Sent("end", g)
       /\ \A q \in 1..m, g \in Handles :
            /\ Sent("end", kids[q]) # Sent("start", g)
            /\ Sent("end", kids[q]) = Sent("end", g) => kids[q] = g
  BY WireSentIs
<1>18. OneOwner'
  <2>1. ASSUME NEW h \in Handles
        PROVE  /\ handle'[h].state = "unused" <=> handle'[h].of = {}
               /\ \A u, v \in handle'[h].of : u = v
    BY <1>2, <1>5 DEF OneOwner
  <2> QED BY <2>1 DEF OneOwner
<1>19. ChildrenAreOpen'
  <2>1. ASSUME NEW u \in Turns
        PROVE  LET r == turn'[u].children IN
               /\ \A g \in Handles : Holds(r, g) <=> (u \in handle'[g].of /\ handle'[g].state = "open")
               /\ Distinct(r)
               /\ turn'[u].state # "open" => r = <<>>
    <3>1. CASE u = t
      <4>1. turn'[u].children = <<>> /\ Distinct(<<>>) /\ \A g \in Handles : ~Holds(<<>>, g)
        BY <1>4, <3>1 DEF Holds, Distinct
      <4> QED BY <1>5, <3>1, <4>1
    <3>2. CASE u # t
      <4>1. /\ \A g \in Handles : Holds(turn[u].children, g)
                                    <=> (u \in handle[g].of /\ handle[g].state = "open")
            /\ Distinct(turn[u].children)
            /\ turn[u].state # "open" => turn[u].children = <<>>
        BY <1>2 DEF ChildrenAreOpen
      <4>2. \A g \in Handles : u \in handle[g].of => t \notin handle[g].of
        BY <1>2, <3>2 DEF OneOwner
      <4> QED BY <1>4, <1>5, <3>2, <4>1, <4>2
    <3> QED BY <3>1, <3>2
  <2> QED BY <2>1 DEF ChildrenAreOpen
<1>20. UnusedUnsaid'
  <2>1. ASSUME NEW g \in Handles, handle'[g].state = "unused", NEW i \in DOMAIN wire', wire'[i].of = g
        PROVE  wire'[i].kind = "idle"
    <3>1. handle[g].state = "unused"
      BY <1>5, <2>1
    <3>2. CASE i \in 1..n /\ wire'[i] = wire[i]
      BY <1>1, <1>2, <2>1, <3>1, <3>2 DEF UnusedUnsaid
    <3>3. CASE \E q \in 1..m : i = n + q /\ wire'[i] = Sent("end", kids[q])
      BY <1>10, <1>17, <2>1, <3>1, <3>3
    <3>4. CASE Writes
      <4>1. \/ i \in 1..n \/ \E q \in 1..m : i = n + q
            \/ i = n + m + 1 /\ wire'[i] = Sent("idle", t)
        BY <1>15, <2>1, <3>4
      <4>2. CASE i = n + m + 1 /\ wire'[i] = Sent("idle", t)
        BY <1>17, <4>2
      <4> QED BY <1>15, <3>2, <3>3, <3>4, <4>1, <4>2
    <3>5. CASE ~Writes
      BY <1>1, <1>13, <2>1, <3>2, <3>5
    <3> QED BY <3>4, <3>5
  <2> QED BY <2>1 DEF UnusedUnsaid
<1>21. OpenSaid'
  <2>1. ASSUME NEW g \in Handles, handle'[g].state = "open", Writes'
        PROVE  /\ \E i \in DOMAIN wire' : wire'[i] = Sent("start", g)
               /\ \A i \in DOMAIN wire' : wire'[i] # Sent("end", g)
    <3>1. t \notin handle[g].of /\ handle[g].state = "open"
      BY <1>5, <2>1
    <3>2. /\ \E i \in 1..n : wire[i] = Sent("start", g)
          /\ \A i \in 1..n : wire[i] # Sent("end", g)
      BY <1>1, <1>2, <1>14, <2>1, <3>1 DEF OpenSaid
    <3>3. \A q \in 1..m : kids[q] # g
      BY <1>10, <3>1
    <3> QED BY <1>14, <1>15, <1>17, <2>1, <3>2, <3>3
  <2> QED BY <2>1 DEF OpenSaid
<1>22. SettledSaid'
  <2>1. ASSUME NEW g \in Handles, handle'[g].state = "settled", Writes',
               NEW i \in DOMAIN wire', wire'[i] = Sent("start", g)
        PROVE  \E k \in (i+1)..Len(wire') : wire'[k] = Sent("end", g)
    <3>1. i \in 1..n /\ wire[i] = Sent("start", g)
      BY <1>14, <1>15, <1>17, <2>1
    <3>2. CASE handle[g].state = "settled"
      <4>1. PICK k \in (i+1)..n : wire[k] = Sent("end", g)
        BY <1>1, <1>2, <1>14, <2>1, <3>1, <3>2 DEF SettledSaid, n
      <4>2. k \in 1..n /\ k \in (i+1)..(n + last)
        BY <1>1, <1>12, <3>1
      <4> QED BY <1>14, <1>15, <2>1, <4>1, <4>2
    <3>3. CASE handle[g].state # "settled"
      <4>1. t \in handle[g].of
        BY <1>5, <2>1, <3>3
      <4>2. handle[g].state = "open"
        BY <1>2, <3>3, <4>1 DEF OneOwner, Types, HandleRec
      <4>3. PICK q \in 1..m : kids[q] = g
        BY <1>11, <4>1, <4>2
      <4>4. n + q \in (i+1)..(n + last)
        BY <1>1, <1>12, <3>1
      <4> QED BY <1>14, <1>15, <2>1, <4>3, <4>4
    <3> QED BY <3>2, <3>3
  <2> QED BY <2>1 DEF SettledSaid
<1>23. IdleIsOver'
  <2>1. ASSUME NEW i \in DOMAIN wire', wire'[i].kind = "idle"
        PROVE  wire'[i].of \in Turns /\ turn'[wire'[i].of].state = "ended"
    <3>1. CASE i \in 1..n /\ wire'[i] = wire[i]
      <4>1. wire[i].of \in Turns /\ turn[wire[i].of].state = "ended"
        BY <1>1, <1>2, <2>1, <3>1 DEF IdleIsOver
      <4> QED BY <1>3, <1>4, <3>1, <4>1
    <3>2. CASE wire'[i] = Sent("idle", t)
      BY <1>4, <1>17, <3>2
    <3>3. CASE Writes
      <4>1. CASE i \in 1..n
        <5>1. wire'[i] = wire[i] BY <1>15, <3>3, <4>1
        <5> QED BY <3>1, <4>1, <5>1
      <4>2. ASSUME NEW q \in 1..m, i = n + q PROVE FALSE
        <5>1. wire'[i] = Sent("end", kids[q]) BY <1>15, <3>3, <4>2
        <5> QED BY <1>17, <2>1, <5>1
      <4> QED BY <1>15, <2>1, <3>2, <3>3, <4>1, <4>2
    <3>4. CASE ~Writes
      <4>1. wire' = wire BY <1>13, <3>4
      <4> QED BY <1>1, <2>1, <3>1, <4>1
    <3> QED BY <3>3, <3>4
  <2> QED BY <2>1 DEF IdleIsOver
<1>24. WireIsBalanced'
  <2>1. CASE ~Writes
    BY <1>2, <1>5, <1>13, <2>1 DEF WireIsBalanced
  <2>2. ASSUME Writes, NEW i \in DOMAIN wire', wire'[i].kind \in {"delta", "end"}
        PROVE  /\ \E j \in 1..(i-1) : wire'[j] = Sent("start", wire'[i].of)
               /\ \A j \in 1..(i-1) : wire'[j] # Sent("end", wire'[i].of)
    <3>1. CASE i \in 1..n
      <4>1. /\ \E j \in 1..(i-1) : wire[j] = Sent("start", wire[i].of)
            /\ \A j \in 1..(i-1) : wire[j] # Sent("end", wire[i].of)
        BY <1>1, <1>2, <1>15, <2>2, <3>1 DEF WireIsBalanced
      <4>2. \A j \in 1..(i-1) : j \in 1..n
        BY <1>1, <3>1
      <4> QED BY <1>15, <2>2, <3>1, <4>1, <4>2
    <3>2. ASSUME NEW q \in 1..m, i = n + q
          PROVE  /\ \E j \in 1..(i-1) : wire'[j] = Sent("start", wire'[i].of)
                 /\ \A j \in 1..(i-1) : wire'[j] # Sent("end", wire'[i].of)
      <4>1. wire'[i].of = kids[q] /\ kids[q] \in Handles /\ handle[kids[q]].state = "open"
        BY <1>10, <1>15, <1>17, <2>2, <3>2
      <4>2. /\ \E j \in 1..n : wire[j] = Sent("start", kids[q])
            /\ \A j \in 1..n : wire[j] # Sent("end", kids[q])
        BY <1>1, <1>2, <2>2, <4>1 DEF OpenSaid
      <4>3. \A j \in 1..n : j \in 1..(i-1)
        BY <1>1, <3>2
      <4>4. ASSUME NEW j \in 1..(i-1) PROVE j \in 1..n \/ \E p \in 1..m : p # q /\ j = n + p
        <5>1. j \in 1..n \/ (j - n \in 1..m /\ j - n # q /\ j = n + (j - n))
          BY <1>1, <3>2
        <5> QED BY <5>1
      <4>5. \A p \in 1..m : p # q => kids[p] # kids[q]
        BY <1>1, <1>9 DEF Distinct
      <4>6. \A j \in 1..(i-1) : wire'[j] # Sent("end", kids[q])
        BY <1>15, <1>17, <2>2, <4>1, <4>2, <4>4, <4>5
      <4>7. \E j \in 1..(i-1) : wire'[j] = Sent("start", kids[q])
        BY <1>15, <2>2, <4>2, <4>3
      <4> QED BY <4>1, <4>6, <4>7
    <3> QED BY <1>15, <1>17, <2>2, <3>1, <3>2
  <2>3. ASSUME Writes, NEW i \in DOMAIN wire', wire'[i].kind = "idle", NEW g \in Handles,
               NEW j \in DOMAIN wire', wire'[j] = Sent("start", g), wire'[i].of \in handle'[g].of
        PROVE  \E k \in (j+1)..(i-1) : wire'[k] = Sent("end", g)
    <3>1. j \in 1..n /\ wire[j] = Sent("start", g)
      BY <1>15, <1>17, <2>3
    <3>2. CASE i \in 1..n
      <4>1. PICK k \in (j+1)..(i-1) : wire[k] = Sent("end", g)
        <5>1. wire[i].kind = "idle" /\ wire[i].of \in handle[g].of
          BY <1>5, <1>15, <2>3, <3>2
        <5> QED BY <1>1, <1>2, <3>1, <3>2, <5>1 DEF WireIsBalanced
      <4>2. k \in 1..n
        BY <1>1, <3>1, <3>2
      <4> QED BY <1>15, <2>3, <4>1, <4>2
    <3>3. CASE i = n + m + 1 /\ wire'[i] = Sent("idle", t)
      <4>1. t \in handle[g].of
        BY <1>5, <1>17, <2>3, <3>3
      <4>2. handle[g].state \in {"open", "settled"}
        BY <1>2, <4>1 DEF OneOwner, Types, HandleRec
      <4>3. CASE handle[g].state = "open"
        <5>1. PICK q \in 1..m : kids[q] = g
          BY <1>11, <4>1, <4>3
        <5>2. n + q \in (j+1)..(i-1)
          BY <1>1, <3>1, <3>3
        <5> QED BY <1>15, <2>3, <5>1, <5>2
      <4>4. CASE handle[g].state = "settled"
        <5>1. PICK k \in (j+1)..n : wire[k] = Sent("end", g)
          BY <1>1, <1>2, <2>3, <3>1, <4>4 DEF SettledSaid, n
        <5>2. k \in 1..n /\ k \in (j+1)..(i-1)
          BY <1>1, <3>1, <3>3
        <5> QED BY <1>15, <2>3, <5>1, <5>2
      <4> QED BY <4>2, <4>3, <4>4
    <3> QED BY <1>15, <1>17, <2>3, <3>2, <3>3
  <2> QED BY <2>1, <2>2, <2>3 DEF WireIsBalanced
<1> QED BY <1>18, <1>19, <1>20, <1>21, <1>22, <1>23, <1>24 DEF WireInv

LEMMA HandleExitWire ==
  ASSUME Types, WireInv, HandleExit
  PROVE  WireInv'
<1> DEFINE open == {t \in Turns : turn[t].state = "open"}
<1>1. wire' = wire /\ ~Writes'
  BY DEF HandleExit, Writes
<1>2. /\ OneOwner /\ ChildrenAreOpen /\ UnusedUnsaid /\ IdleIsOver /\ WireIsBalanced
  BY DEF WireInv
<1>3. \A t \in Turns : /\ turn[t].state = "open" => turn'[t].state = "ended" /\ turn'[t].children = <<>>
                       /\ turn[t].state # "open" => turn'[t] = turn[t]
  BY HandleExitIs
<1>4. \A h \in Handles :
        /\ handle'[h].of = handle[h].of
        /\ handle'[h].state = IF handle[h].of \cap open # {} THEN "settled" ELSE handle[h].state
  BY SettleType DEF HandleExit, Types
<1>5. OneOwner' /\ UnusedUnsaid'
  <2>1. \A h \in Handles : handle[h].state = "unused" => handle'[h].state = "unused"
    BY <1>2, <1>4 DEF OneOwner
  <2>2. \A h \in Handles : handle'[h].state = "unused" => handle[h].state = "unused"
    BY <1>4
  <2>3. OneOwner'
    BY <1>2, <1>4, <2>1, <2>2 DEF OneOwner
  <2>4. UnusedUnsaid'
    BY <1>1, <1>2, <2>2 DEF UnusedUnsaid
  <2> QED BY <2>3, <2>4
<1>6. OpenSaid' /\ SettledSaid'
  BY <1>1 DEF OpenSaid, SettledSaid
<1>7. IdleIsOver'
  BY <1>1, <1>2, <1>3 DEF IdleIsOver
<1>8. WireIsBalanced'
  BY <1>1, <1>2, <1>4 DEF WireIsBalanced
<1>9. ChildrenAreOpen'
  <2>1. ASSUME NEW t \in Turns PROVE turn'[t].children = <<>>
    BY <1>2, <1>3 DEF ChildrenAreOpen
  <2>2. ASSUME NEW t \in Turns, NEW h \in Handles PROVE ~(t \in handle'[h].of /\ handle'[h].state = "open")
    <3>1. CASE turn[t].state = "open"
      BY <1>4, <3>1
    <3>2. CASE turn[t].state # "open"
      <4>1. turn[t].children = <<>> /\ ~Holds(<<>>, h)
        BY <1>2, <3>2 DEF ChildrenAreOpen, Holds
      <4>2. ~(t \in handle[h].of /\ handle[h].state = "open")
        BY <1>2, <4>1 DEF ChildrenAreOpen
      <4> QED BY <1>4, <4>2
    <3> QED BY <3>1, <3>2
  <2>3. Distinct(<<>>) /\ \A h : ~Holds(<<>>, h)
    BY DEF Distinct, Holds
  <2> QED BY <2>1, <2>2, <2>3 DEF ChildrenAreOpen
<1> QED BY <1>5, <1>6, <1>7, <1>8, <1>9 DEF WireInv

LEMMA WireStep ==
  ASSUME Types, WireInv, [SdkNext]_sdkVars
  PROVE  WireInv'
<1> USE DEF processVars, askVars
<1>1. ASSUME NEW t \in Turns, OpenTurn(t) PROVE WireInv'
  <2>1. UNCHANGED <<wire, handle>> /\ (Writes' => Writes) /\ turn[t].state = "unopened"
    BY <1>1 DEF OpenTurn, Writes
  <2>2. /\ turn'[t].state = "open" /\ turn'[t].children = turn[t].children
        /\ \A u \in Turns : u # t => turn'[u] = turn[u]
    BY <1>1, OpenTurnIs
  <2> QED BY <2>1, <2>2, QuietStep
<1>2. ASSUME NEW t \in Turns, NEW a \in Requests, AskPermission(t, a) PROVE WireInv'
  <2>1. UNCHANGED <<wire, handle>> /\ (Writes' => Writes)
    BY <1>2 DEF AskPermission, SendAsk, SendMarksClosed, Writes
  <2>2. /\ turn'[t].state = turn[t].state /\ turn'[t].children = turn[t].children
        /\ \A u \in Turns : u # t => turn'[u] = turn[u]
    BY <1>2, AskPermissionIs
  <2> QED BY <2>1, <2>2, QuietStep
<1>3. CASE DeliverReply
  <2>1. UNCHANGED <<wire, handle>> /\ (Writes' => Writes)
    BY <1>3 DEF DeliverReply, Writes
  <2>2. \A t \in Turns : turn'[t].state = turn[t].state /\ turn'[t].children = turn[t].children
    BY <1>3, DeliverReplyIs
  <2> QED BY <2>1, <2>2, QuietStep
<1>4. CASE \/ \E a \in Asks : RendererAnswers(a)
           \/ \E a \in Questions : AskQuestion(a)
           \/ \E state \in {"wedged", "exited"} : ProcessBecomes(state)
           \/ StdinBreaks \/ Close \/ Kill \/ TermTimer \/ KillTimer \/ UNCHANGED sdkVars
  <2>1. UNCHANGED <<wire, handle, turn>>
    BY <1>4 DEF ProcessBecomes, StdinBreaks, Close, Kill, TermTimer, KillTimer, sdkVars,
         RendererAnswers, AskQuestion
  <2>2. Writes' => Writes
    BY <1>4 DEF ProcessBecomes, StdinBreaks, Close, Kill, TermTimer, KillTimer, sdkVars,
         RendererAnswers, AskQuestion, SendAsk, SendMarksClosed, Writes
  <2> QED BY <2>1, <2>2, QuietStep
<1> QED
  BY <1>1, <1>2, <1>3, <1>4, OpenHandleWire, WriteHandleWire, FinishHandleWire, EndTurnWire,
     HandleExitWire DEF SdkNext

-----------------------------------------------------------------------------
LEMMA SdkStart == SdkInit => Types /\ SdkInv
<1> SUFFICES ASSUME SdkInit PROVE Types /\ SdkInv
  OBVIOUS
<1>1. Types
  <2>1. turn \in [Turns -> TurnRec] /\ handle \in [Handles -> HandleRec]
    BY DEF SdkInit, TurnRec, TurnStates, HandleRec
  <2>2. wire \in Seq(Event) /\ replies \in Seq(Asks) /\ promise \in [Asks -> Resolved]
    BY DEF SdkInit, Resolved
  <2>3. writesLeft \in 0..MaxWrites
    BY SdkAssumption DEF SdkInit
  <2> QED BY <2>1, <2>2, <2>3 DEF SdkInit, Types
<1>2. ExitCloses /\ NoPromiseHangs
  BY DEF SdkInit, ExitCloses, NoPromiseHangs
<1>3. OneOwner /\ UnusedUnsaid /\ OpenSaid /\ SettledSaid /\ IdleIsOver /\ WireIsBalanced
  BY DEF SdkInit, OneOwner, UnusedUnsaid, OpenSaid, SettledSaid, IdleIsOver, WireIsBalanced
<1>4. ChildrenAreOpen
  <2>1. Distinct(<<>>) /\ \A h : ~Holds(<<>>, h)
    BY DEF Distinct, Holds
  <2> QED BY <2>1 DEF SdkInit, ChildrenAreOpen
<1> QED BY <1>1, <1>2, <1>3, <1>4 DEF SdkInv

LEMMA SdkStep == Types /\ SdkInv /\ [SdkNext]_sdkVars => Types' /\ SdkInv'
<1> SUFFICES ASSUME Types, SdkInv, [SdkNext]_sdkVars PROVE Types' /\ SdkInv'
  OBVIOUS
<1>1. ExitCloses /\ NoPromiseHangs /\ ChildrenAreOpen /\ WireInv
  BY DEF SdkInv, WireInv
<1>2. Types'
  BY <1>1, SdkTypeStep
<1>3. ExitCloses' /\ NoPromiseHangs'
  BY <1>1, PromiseStep
<1>4. WireInv'
  BY <1>1, WireStep
<1> QED BY <1>2, <1>3, <1>4 DEF SdkInv, WireInv

(* The inductive invariant: types, the promises and the balanced wire.      *)
LEMMA SdkInductive == SdkSpec => [](Types /\ SdkInv)
BY SdkStart, SdkStep, PTL DEF SdkSpec

(* The SDK keeps its types, for any number of turns and handles.            *)
THEOREM SdkTypeCorrect == SdkSpec => []SdkTypeOK
BY SdkInductive, TypesAre, PTL

(* A promise that waits has a listener and the exit event to come, and a    *)
(* permission request has its turn still open: nothing waits for what can   *)
(* no longer happen.                                                       *)
THEOREM NoneHangs == SdkSpec => []NoPromiseHangs
<1>1. SdkInv => NoPromiseHangs
  BY DEF SdkInv
<1> QED BY <1>1, SdkInductive, PTL

(* The renderer is told of a handle one start, its deltas and at most one   *)
(* end, and of a turn that is idle only when its handles have ended.        *)
THEOREM BalancedWire == SdkSpec => []WireIsBalanced
<1>1. SdkInv => WireIsBalanced
  BY DEF SdkInv
<1> QED BY <1>1, SdkInductive, PTL
=============================================================================
