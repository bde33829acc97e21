------------------------------- MODULE Decoder -------------------------------
(***************************************************************************)
(* The NDJSON decoder and its reader task (crates/headless/src/lib.rs):    *)
(* every line of the host becomes one event, one diagnostic, or nothing,   *)
(* and the events of each session are numbered, by the host or here.       *)
(*                                                                         *)
(* A line is abstracted to whether it parses, whether its event_type,      *)
(* schema version and payload are accepted, the session it names and the   *)
(* seq it carries. Numbers have the width of an i64, cut down to SeqMax.   *)
(***************************************************************************)
EXTENDS Integers, Sequences, FiniteSets

CONSTANTS
  Sessions, DefaultSession, (* session ids                                  *)
  UnknownTypes,             (* event types this build does not know         *)
  None,                     (* a field the line does not have               *)
  HostSeqs,                 (* seqs a host supplies                         *)
  SeqMax,                   (* i64::MAX                                     *)
  MaxHostLines              (* bound: lines of the host                     *)

ASSUME DecoderAssumption ==
  /\ DefaultSession \in Sessions
  /\ SeqMax \in Nat \ {0} /\ HostSeqs \subseteq 0..SeqMax
  /\ MaxHostLines \in Nat /\ MaxHostLines < SeqMax

VARIABLES
  seqs,          (* next seq of each session seen so far                    *)
  warnedUnknown, (* unknown types already reported                          *)
  decoded,       (* events sent to the renderer, in order                   *)
  reading,       (* the reader task runs                                    *)
  linesLeft      (* lines the host may still write                          *)

decoderVars == <<seqs, warnedUnknown, decoded, reading, linesLeft>>

(* What the decoder keeps of a line it accepts.                            *)
Lines == [session : Sessions \cup {None}, seq : HostSeqs \cup {None}]

DecoderInit ==
  /\ seqs = <<>>
  /\ warnedUnknown = {} /\ decoded = <<>>
  /\ reading = TRUE /\ linesLeft = MaxHostLines

-----------------------------------------------------------------------------
(* i64 addition of 1, as the release build does it.                        *)
Succ(n) == IF n = SeqMax THEN 0 - SeqMax - 1 ELSE n + 1

Counter(s) == IF s \in DOMAIN seqs THEN seqs[s] ELSE 0

SetCounter(s, n) ==
  seqs' = [x \in DOMAIN seqs \cup {s} |-> IF x = s THEN n ELSE seqs[x]]

(* Mutant of observe_seq: the counter is set to the seq, not past it.      *)
observe_seqItself(s, seq) ==
  SetCounter(s, IF seq > Counter(s) THEN seq ELSE Counter(s))

observe_seq(s, seq) ==
  SetCounter(s, IF Succ(seq) > Counter(s) THEN Succ(seq) ELSE Counter(s))

next_seq(s) == SetCounter(s, Succ(Counter(s)))

(* An event the renderer receives; by tells who numbered it.               *)
Decoded(s, seq, by) == [session |-> s, seq |-> seq, by |-> by]

(* tx.send: when the renderer is gone the event is lost and the task ends. *)
SendEvent(event) ==
  \/ /\ decoded' = Append(decoded, event)
     /\ UNCHANGED reading
  \/ /\ reading' = FALSE
     /\ UNCHANGED decoded

-----------------------------------------------------------------------------
(* One action for each answer of parse_line.                               *)

diagnostic_event ==
  /\ next_seq(DefaultSession)
  /\ SendEvent(Decoded(DefaultSession, Counter(DefaultSession), "decoder"))

TakeLine == reading /\ linesLeft > 0 /\ linesLeft' = linesLeft - 1

(* A known type, this schema version, none or the legacy 0, a valid payload. *)
ReadEvent(line) ==
  /\ TakeLine
  /\ LET s == IF line.session = None THEN DefaultSession ELSE line.session IN
     IF line.seq = None
     THEN /\ next_seq(s)
          /\ SendEvent(Decoded(s, Counter(s), "decoder"))
     ELSE /\ observe_seq(s, line.seq)
          /\ SendEvent(Decoded(s, line.seq, "host"))
  /\ UNCHANGED warnedUnknown

(* A line that is not JSON, of another schema version, or with a payload    *)
(* its type does not accept.                                                *)
ReadInvalid ==
  /\ TakeLine
  /\ diagnostic_event
  /\ UNCHANGED warnedUnknown

ReadUnknown(name) ==
  /\ TakeLine
  /\ warnedUnknown' = warnedUnknown \cup {name}
  /\ IF name \in warnedUnknown THEN UNCHANGED <<seqs, decoded, reading>>
                               ELSE diagnostic_event

DecoderNext ==
  \/ \E line \in Lines : ReadEvent(line)
  \/ ReadInvalid
  \/ \E name \in UnknownTypes : ReadUnknown(name)

DecoderSpec == DecoderInit /\ [][DecoderNext]_decoderVars

-----------------------------------------------------------------------------
I64 == (0 - SeqMax - 1)..SeqMax

DecoderTypeOK ==
  /\ DOMAIN seqs \subseteq Sessions /\ \A s \in DOMAIN seqs : seqs[s] \in I64
  /\ warnedUnknown \subseteq UnknownTypes
  /\ decoded \in Seq([session : Sessions, seq : I64, by : {"host", "decoder"}])
  /\ reading \in BOOLEAN /\ linesLeft \in 0..MaxHostLines

(* The decoder gave out the session's largest number before event j.        *)
StartsOver(s, j) ==
  \E k \in 1..(j - 1) : decoded[k] = Decoded(s, SeqMax, "decoder")

(* A number the decoder hands out is one its session has not seen, however  *)
(* the host mixes sessions, numbered events, unnumbered ones and lines that *)
(* turn into diagnostics. The largest number has no successor: it may come  *)
(* twice, and once the decoder itself has handed it out the counter starts  *)
(* over.                                                                    *)
AssignedSeqIsNew ==
  \A i, j \in DOMAIN decoded :
    (i < j /\ decoded[j].by = "decoder" /\ decoded[i].session = decoded[j].session)
      => \/ decoded[i].seq # decoded[j].seq
         \/ decoded[i].seq = SeqMax
         \/ StartsOver(decoded[j].session, j)
==============================================================================
