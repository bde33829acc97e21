------------------------------ MODULE Recorder ------------------------------
(***************************************************************************)
(* The command-line tools that keep and check a stream: camouflage-record  *)
(* (bin/camouflage_record.rs) saves what the decoder makes of the host's    *)
(* lines, in batches, with no terminal; camouflage-validate                *)
(* (headless/validate.rs) judges the same lines without a decoder; and     *)
(* camouflage-export writes a saved session out as lines again.            *)
(*                                                                         *)
(* The reader task and the recorder's loop meet in a bounded channel: the  *)
(* events of decoded after the first taken. The validator is applied to    *)
(* each line as it is read. The store is the real one (store/src/lib.rs):  *)
(* a batch is one transaction, ids are unique and so are the numbers of a  *)
(* session.                                                                *)
(***************************************************************************)
EXTENDS Decoder, SequencesExt

CONSTANTS
  Hosted,           (* the lines a host may write                           *)
  EventIds,         (* ids a host gives its events                          *)
  Stores,           (* what the store may hold when the recorder starts     *)
  BatchSize,        (* --batch-size                                         *)
  ChannelCap,       (* room of the channel                                  *)
  MaxRecordedLines  (* bound: lines of the recorded stream                  *)

VARIABLES
  storedBefore, (* rows of the store when the recorder started              *)
  stored,       (* rows of the store, oldest first                          *)
  batch,        (* events not written yet                                   *)
  taken,        (* how many events the loop has received                    *)
  recorder,     (* "running", "saved", "refused" by the store, or "broken"  *)
  report,       (* the validator over the lines so far                      *)
  origins       (* of each event of decoded: what its line had besides      *)

recorderVars == <<storedBefore, stored, batch, taken, recorder, report, origins>>

(* What the payload of a type may be: a struct with a field that must be    *)
(* there, one with optional fields only, or anything.                       *)
EventKinds == {"typed", "optional", "bodyless"}
Payloads   == {"fits", "missing", "misfits"}

HostedLines ==
  [json : BOOLEAN, type : EventKinds \cup UnknownTypes, payload : Payloads,
   version : {"this", "other"}, session : Sessions \cup {None},
   seq : HostSeqs \cup {None}, id : EventIds \cup {None}]

-----------------------------------------------------------------------------
(* The validator.                                                          *)

parse_envelope(line) == line.json /\ line.type \in EventKinds

validate_payload(type, payload) ==
  \/ type = "bodyless"
  \/ payload = "fits"
  \/ type = "optional" /\ payload = "missing"

NewReport ==
  [lines_total |-> 0, lines_valid |-> 0, errors |-> 0,
   last_seq |-> [s \in Sessions |-> None]]

Numbered(line) == line.session # None /\ line.seq # None

(* Mutant of Follows: a number may come again.                             *)
FollowsOrRepeats(last_seq, line) ==
  last_seq[line.session] = None \/ line.seq >= last_seq[line.session]

(* seq follows what its session had last.                                  *)
Follows(last_seq, line) ==
  last_seq[line.session] = None \/ line.seq > last_seq[line.session]

LineIsValid(last_seq, line) ==
  /\ parse_envelope(line) /\ validate_payload(line.type, line.payload)
  /\ Numbered(line) => Follows(last_seq, line)

(* One line of validate_stream.                                            *)
ValidateLine(r, line) ==
  LET valid == LineIsValid(r.last_seq, line) IN
  [lines_total |-> r.lines_total + 1,
   lines_valid |-> IF valid THEN r.lines_valid + 1 ELSE r.lines_valid,
   errors      |-> IF valid THEN r.errors ELSE r.errors + 1,
   last_seq    |-> IF valid /\ Numbered(line)
                   THEN [r.last_seq EXCEPT ![line.session] = line.seq]
                   ELSE r.last_seq]

(* Line after line, from the first.                                        *)
validate_stream(lines) ==
  LET after[k \in 0..Len(lines)] ==
        IF k = 0 THEN NewReport ELSE ValidateLine(after[k - 1], lines[k])
  IN  after[Len(lines)]

(* The exit code of camouflage-validate.                                   *)
ExitsZero(r) == r.errors = 0

-----------------------------------------------------------------------------
(* The store.                                                              *)

RowType == [session : Sessions, seq : I64, id : EventIds \cup {None},
            type : EventKinds, payload : Payloads]

(* The k-th event as a row.                                                *)
EventRow(k) ==
  [session |-> decoded[k].session, seq |-> decoded[k].seq, id |-> origins[k].id,
   type |-> origins[k].type, payload |-> origins[k].payload]

(* No id: a random one, which no other event has.                          *)
Clashes(a, b) ==
  \/ a.session = b.session /\ a.seq = b.seq
  \/ a.id = b.id /\ a.id # None

Refused(rows) == \E i, j \in DOMAIN rows : i < j /\ Clashes(rows[i], rows[j])

(* All of the events or none: where the store refuses one, the error ends   *)
(* the recorder and its batch is gone.                                      *)
append_batch(events, next) ==
  \/ /\ ~Refused(stored \o events)
     /\ stored' = stored \o events /\ recorder' = next
  \/ /\ Refused(stored \o events)
     /\ recorder' = "refused" /\ UNCHANGED stored

InOrder(a, b) == a.seq < b.seq

(* Mutant of load_session: the rows as they were written.                  *)
load_sessionAsWritten(s) ==
  SelectSeq(stored, LAMBDA row : row.session = s)

(* Each row comes after those of a smaller number.                         *)
load_session(s) ==
  LET rows == {stored[i] : i \in {n \in DOMAIN stored : stored[n].session = s}}
      Before(row) == {other \in rows : InOrder(other, row)}
  IN  [k \in 1..Cardinality(rows) |->
         CHOOSE row \in rows : Cardinality(Before(row)) = k - 1]

(* The lines of an export, in each of its forms.                           *)
ExportLine(row, form) ==
  [json |-> TRUE, type |-> row.type, payload |-> row.payload, version |-> "this",
   session |-> IF form = "shorthand" THEN None ELSE row.session,
   seq |-> IF form = "shorthand" THEN None ELSE row.seq, id |-> row.id]

CamoHeader ==
  [json |-> TRUE, type |-> None, payload |-> "missing", version |-> "this",
   session |-> None, seq |-> None, id |-> None]

Exported(s, form) ==
  LET lines == [i \in DOMAIN load_session(s) |-> ExportLine(load_session(s)[i], form)]
  IN  IF form = "camo" THEN <<CamoHeader>> \o lines ELSE lines

(* --list: the sessions and how many events each has.                      *)
list_sessions ==
  [s \in {stored[i].session : i \in DOMAIN stored} |->
     Cardinality({i \in DOMAIN stored : stored[i].session = s})]

-----------------------------------------------------------------------------
ASSUME RecorderAssumption ==
  /\ BatchSize \in Nat /\ ChannelCap \in Nat \ {0} /\ MaxRecordedLines \in Nat
  /\ Hosted \subseteq HostedLines /\ EventKinds \cap UnknownTypes = {}
  /\ None \notin EventKinds
  /\ \A rows \in Stores :
       /\ rows \in Seq(RowType) /\ ~Refused(rows)
       /\ \A i \in DOMAIN rows : validate_payload(rows[i].type, rows[i].payload)

RecorderInit ==
  /\ storedBefore \in Stores /\ stored = storedBefore
  /\ batch = <<>> /\ taken = 0 /\ recorder = "running"
  /\ report = NewReport /\ origins = <<>>

(* What the decoder makes of a line the validator has its own opinion of.  *)
Accepts(line) ==
  parse_envelope(line) /\ line.version = "this" /\ validate_payload(line.type, line.payload)

Origin(line) ==
  [id |-> line.id, type |-> line.type, payload |-> line.payload,
   compared |-> Numbered(line)]
DiagnosticOrigin ==
  [id |-> None, type |-> "typed", payload |-> "fits", compared |-> FALSE]

Decode(line) ==
  \/ Accepts(line) /\ ReadEvent([session |-> line.session, seq |-> line.seq])
  \/ line.json /\ line.type \in UnknownTypes /\ ReadUnknown(line.type)
  \/ /\ ~Accepts(line) /\ ~(line.json /\ line.type \in UnknownTypes)
     /\ ReadInvalid

(* The reader task. Its receiver is there as long as the recorder runs.    *)
ReadHostedLine(line) ==
  /\ recorder = "running" /\ report.lines_total < MaxRecordedLines
  /\ Len(decoded) - taken < ChannelCap
  /\ Decode(line) /\ reading'
  /\ report' = ValidateLine(report, line)
  /\ origins' = IF decoded' = decoded THEN origins
                ELSE Append(origins, IF Accepts(line) THEN Origin(line)
                                                      ELSE DiagnosticOrigin)
  /\ UNCHANGED <<storedBefore, stored, batch, taken, recorder>>

(* The end of the stream, or a line that is not text.                      *)
EndOfInput ==
  /\ recorder = "running" /\ reading /\ reading' = FALSE
  /\ UNCHANGED <<seqs, warnedUnknown, decoded, linesLeft, recorderVars>>

Flush(events, next) == batch' = <<>> /\ append_batch(events, next)

Receive ==
  /\ recorder = "running" /\ taken < Len(decoded)
  /\ taken' = taken + 1
  /\ LET events == Append(batch, EventRow(taken + 1)) IN
     IF Len(events) >= BatchSize THEN Flush(events, "running")
     ELSE batch' = events /\ UNCHANGED <<stored, recorder>>
  /\ UNCHANGED <<storedBefore, report, origins, decoderVars>>

(* The loop prefers an event, and the end of the channel, to its timer.    *)
FlushTick ==
  /\ recorder = "running" /\ taken = Len(decoded) /\ reading
  /\ batch # <<>> /\ Flush(batch, "running")
  /\ UNCHANGED <<storedBefore, taken, report, origins, decoderVars>>

(* Mutant of Finish: what the last batch held is forgotten.                *)
FinishWithoutFlush ==
  /\ recorder = "running" /\ taken = Len(decoded) /\ ~reading
  /\ batch' = <<>> /\ recorder' = "saved" /\ UNCHANGED stored
  /\ UNCHANGED <<storedBefore, taken, report, origins, decoderVars>>

Finish ==
  /\ recorder = "running" /\ taken = Len(decoded) /\ ~reading
  /\ Flush(batch, "saved")
  /\ UNCHANGED <<storedBefore, taken, report, origins, decoderVars>>

(* The process is killed, or a write fails.                                *)
Breaks ==
  /\ recorder = "running" /\ recorder' = "broken" /\ batch' = <<>>
  /\ UNCHANGED <<storedBefore, stored, taken, report, origins, decoderVars>>

RecorderNext ==
  \/ \E line \in Hosted : ReadHostedLine(line)
  \/ EndOfInput \/ Receive \/ FlushTick \/ Finish \/ Breaks

RecorderSpec ==
  DecoderInit /\ RecorderInit /\ [][RecorderNext]_<<decoderVars, recorderVars>>

-----------------------------------------------------------------------------
RecorderTypeOK ==
  /\ DecoderTypeOK
  /\ storedBefore \in Stores /\ stored \in Seq(RowType) /\ batch \in Seq(RowType)
  /\ taken \in 0..Len(decoded) /\ Len(origins) = Len(decoded)
  /\ recorder \in {"running", "saved", "refused", "broken"}
  /\ report \in [lines_total : 0..MaxRecordedLines, lines_valid : 0..MaxRecordedLines,
                 errors : 0..MaxRecordedLines, last_seq : [Sessions -> I64 \cup {None}]]
  /\ origins \in Seq([id : EventIds \cup {None}, type : EventKinds, payload : Payloads,
                      compared : BOOLEAN])

(* The rows a recorder that stopped early has added.                       *)
Added == Len(stored) - Len(storedBefore)

LargestBatch == IF BatchSize = 0 THEN 1 ELSE BatchSize

(* What was added to the store is the beginning of what the decoder made,  *)
(* in its order and without a gap, whatever the batches, the timer and the *)
(* end of the stream do; a recorder that ends well has saved everything,   *)
(* and one that is stopped loses no more than a channel and a batch.       *)
RecordingIsPrefix ==
  /\ Added \in 0..taken
  /\ stored = storedBefore \o [k \in 1..Added |-> EventRow(k)]
  /\ recorder = "running" =>
       /\ batch = [k \in 1..(taken - Added) |-> EventRow(Added + k)]
       /\ Len(batch) < BatchSize \/ batch = <<>>
  /\ recorder = "saved" => Added = Len(decoded)
  /\ Len(decoded) - Added <= ChannelCap + LargestBatch

SameNumber(i, j) ==
  decoded[i].session = decoded[j].session /\ decoded[i].seq = decoded[j].seq

(* When the store refuses a stream that camouflage-validate passes, some    *)
(* event of it was in the store already, or has the id of another, or has  *)
(* the number of another of which the validator did not see both: and then *)
(* the host gave the later one its number, or the numbers had run out.     *)
RefusalHasReason ==
  recorder = "refused" /\ ExitsZero(report) =>
    \E j \in 1..taken :
      \/ \E row \in ToSet(storedBefore) : Clashes(row, EventRow(j))
      \/ \E i \in 1..(j - 1) : origins[i].id = origins[j].id /\ origins[j].id # None
      \/ \E i \in 1..(j - 1) :
           /\ SameNumber(i, j) /\ ~(origins[i].compared /\ origins[j].compared)
           /\ \/ decoded[j].by = "host"
              \/ decoded[j].seq = SeqMax \/ StartsOver(decoded[j].session, j)

(* An export of a saved session is a valid stream, in each form but for the *)
(* header of a container, and has as many events as the list says.          *)
ExportIsValid ==
  \A s \in DOMAIN list_sessions :
    /\ Len(load_session(s)) = list_sessions[s]
    /\ \A form \in {"full", "shorthand"} : ExitsZero(validate_stream(Exported(s, form)))
    /\ validate_stream(Exported(s, "camo")).errors = 1
=============================================================================
