---------------------------- MODULE AppLoopProofs ----------------------------
(***************************************************************************)
(* Theorems about AppLoop, for every channel, batch and number of inputs:  *)
(* type correctness, that a child which was granted the terminal has it,   *)
(* that the key reader is woken after every suspension, and that the loop  *)
(* knows what is on the terminal.                                          *)
(***************************************************************************)
EXTENDS AppLoop, TLAPS

-----------------------------------------------------------------------------
(* Types.                                                                  *)

(* The input the loop takes is one of those, and the rest are left.        *)
LEMMA HeadType ==
  ASSUME TypeOK, chan # <<>>
  PROVE  /\ Head(chan) \in Inputs /\ Tail(chan) \in Seq(Inputs)
         /\ Len(Tail(chan)) <= ChanCap
         /\ Head(chan) = chan[1] /\ Len(chan) \in Nat \ {0}
         /\ Len(Tail(chan)) = Len(chan) - 1
         /\ \A i \in DOMAIN Tail(chan) : i + 1 \in DOMAIN chan /\ Tail(chan)[i] = chan[i + 1]
<1>1. chan \in Seq(Inputs) /\ Len(chan) <= ChanCap /\ ChanCap \in Nat
  BY BoundsAssumption DEF TypeOK
<1> HIDE DEF Inputs
<1> QED BY <1>1

(* An input pushed is the last of the channel.                             *)
LEMMA PushType ==
  ASSUME TypeOK, NEW inp \in Inputs, Push(inp)
  PROVE  /\ chan' \in Seq(Inputs) /\ Len(chan') <= ChanCap
         /\ Len(chan') = Len(chan) + 1 /\ Len(chan) \in Nat
         /\ DOMAIN chan' = 1..(Len(chan) + 1) /\ DOMAIN chan = 1..Len(chan)
         /\ chan'[Len(chan) + 1] = inp
         /\ \A i \in DOMAIN chan : chan'[i] = chan[i]
<1>1. chan \in Seq(Inputs) /\ Len(chan) < ChanCap /\ chan' = Append(chan, inp)
      /\ ChanCap \in Nat
  BY BoundsAssumption DEF TypeOK, Push
<1> QED BY <1>1

(* The gate of the key reader, after it is set.                            *)
LEMMA GateType ==
  ASSUME TypeOK, NEW value \in BOOLEAN, set_paused(value)
  PROVE  paused' \in BOOLEAN /\ waking' \in BOOLEAN /\ wakes' \in Nat
BY DEF TypeOK, set_paused

(* What handling an input may set.                                         *)
LEMMA HandleType ==
  ASSUME TypeOK, NEW inp \in Inputs, Handle(inp)
  PROVE  /\ closing' \in BOOLEAN /\ urgent' \in BOOLEAN /\ answers' \subseteq Nat
         /\ suspended' \in BOOLEAN /\ transcript' \in BOOLEAN /\ raw' \in BOOLEAN
         /\ lastFrame' \in {"none", "old", "current"}
         /\ screen' \in {"blank", "old", "current", "transcript", "child"}
         /\ flags' \subseteq Flags /\ paused' \in BOOLEAN /\ waking' \in BOOLEAN
         /\ wakes' \in Nat
<1> USE DEF TypeOK, gateVars, modeVars
<1>1. CASE TerminalSuspend(inp)
  <2>1. inp.n \in Nat
    BY <1>1 DEF TerminalSuspend, Inputs
  <2>2. CASE ~suspended
    <3>1. set_paused(TRUE)
      BY <1>1, <2>2 DEF TerminalSuspend
    <3>2. paused' \in BOOLEAN /\ waking' \in BOOLEAN /\ wakes' \in Nat
      BY <3>1, GateType
    <3> QED BY <1>1, <2>1, <2>2, <3>2 DEF TerminalSuspend, Paint
  <2>3. CASE suspended
    BY <1>1, <2>1, <2>3 DEF TerminalSuspend
  <2> QED BY <2>2, <2>3
<1>2. CASE TerminalResume(inp)
  <2>1. CASE suspended
    <3>1. set_paused(FALSE)
      BY <1>2, <2>1 DEF TerminalResume
    <3>2. paused' \in BOOLEAN /\ waking' \in BOOLEAN /\ wakes' \in Nat
      BY <3>1, GateType
    <3> QED BY <1>2, <2>1, <3>2 DEF TerminalResume, Paint
  <2>2. CASE ~suspended
    BY <1>2, <2>2 DEF TerminalResume
  <2> QED BY <2>1, <2>2
<1>3. CASE HostEvent(inp)
  BY <1>3 DEF HostEvent, Outdate, Flags
<1>4. CASE HostClosed(inp)
  BY <1>4 DEF HostClosed
<1>5. CASE Focus(inp)
  BY <1>5 DEF Focus
<1>6. CASE Resize(inp)
  BY <1>6 DEF Resize, Paint
<1>7. CASE TermKey(inp)
  <2>1. inp.key \in KeyKind
    BY <1>7 DEF TermKey, Inputs
  <2>2. CASE transcript
    BY <1>7, <2>2 DEF TermKey, Paint
  <2>3. CASE ~transcript
    <3>1. \E f \in SUBSET Flags : flags' = flags \cup f
      BY <1>7, <2>1, <2>3 DEF TermKey, KeyKind, Flags
    <3> QED BY <1>7, <2>3, <3>1 DEF TermKey, Outdate
  <2> QED BY <2>2, <2>3
<1> QED BY <1>1, <1>2, <1>3, <1>4, <1>5, <1>6, <1>7 DEF Handle

(* What the end of a batch sets and leaves, whatever is drawn.             *)
LEMMA EndBatchType ==
  ASSUME TypeOK, EndBatch
  PROVE  /\ chan' \in Seq(Inputs) /\ Len(chan') <= ChanCap
         /\ handled' \in 0..BatchMax
         /\ closing' \in BOOLEAN /\ urgent' \in BOOLEAN /\ answers' \subseteq Nat
         /\ suspended' \in BOOLEAN /\ raw' \in BOOLEAN
         /\ paused' \in BOOLEAN /\ waking' \in BOOLEAN /\ wakes' \in Nat
         /\ rpc' \in {"poll", "polling", "arm", "select", "check", "read"}
         /\ watch' \in BOOLEAN /\ ready' \in BOOLEAN
         /\ tty' \in Seq(KeyKind) /\ buf' \in Seq(KeyKind)
         /\ host' \in [state: {"idle", "asking", "child"}, n: Nat]
         /\ told' \subseteq Nat /\ open' \subseteq {"pipe", "signals"}
         /\ left' \in 0..MaxInputs
<1>1. /\ UNCHANGED <<chan, suspended, raw, paused, waking, wakes, rpc, watch, ready, buf,
                      tty, host, open, left>>
      /\ told' = told \cup answers /\ answers' = {} /\ handled' = 0
      /\ closing' = FALSE /\ urgent' = FALSE
  BY DEF EndBatch, gateVars, readerVars
<1>2. handled' \in 0..BatchMax
  BY <1>1, BoundsAssumption
<1>3. told' \subseteq Nat /\ answers' \subseteq Nat
  BY <1>1 DEF TypeOK
<1>4. chan' \in Seq(Inputs) /\ Len(chan') <= ChanCap /\ left' \in 0..MaxInputs
  BY <1>1 DEF TypeOK
<1>5. /\ suspended' \in BOOLEAN /\ raw' \in BOOLEAN
      /\ paused' \in BOOLEAN /\ waking' \in BOOLEAN /\ wakes' \in Nat
      /\ rpc' \in {"poll", "polling", "arm", "select", "check", "read"}
      /\ watch' \in BOOLEAN /\ ready' \in BOOLEAN
      /\ tty' \in Seq(KeyKind) /\ buf' \in Seq(KeyKind)
      /\ host' \in [state: {"idle", "asking", "child"}, n: Nat]
      /\ open' \subseteq {"pipe", "signals"}
      /\ closing' \in BOOLEAN /\ urgent' \in BOOLEAN
  BY <1>1 DEF TypeOK
<1> QED BY <1>2, <1>3, <1>4, <1>5

LEMMA SpendType == ASSUME TypeOK, Spend PROVE left' \in 0..MaxInputs
BY BoundsAssumption DEF TypeOK, Spend

(* Every step of the loop, the reader and the environment is well typed.   *)
LEMMA TypeStep == TypeOK /\ [Next]_vars => TypeOK'
<1> SUFFICES ASSUME TypeOK, [Next]_vars PROVE TypeOK'
  OBVIOUS
<1> USE DEF batchVars, drawVars, modeVars, readerVars, gateVars, hostVars, loopVars,
            untouched
<1>1. CASE TakeInput
  <2>1. Head(chan) \in Inputs /\ Handle(Head(chan))
    BY <1>1, HeadType DEF TakeInput
  <2>2. chan' \in Seq(Inputs) /\ Len(chan') <= ChanCap /\ pc' = "batch"
    BY <1>1, HeadType DEF TakeInput
  <2>3. handled' \in 0..BatchMax
    BY <1>1, BoundsAssumption DEF TakeInput, TypeOK
  <2> QED BY <1>1, <2>1, <2>2, <2>3, HandleType DEF TakeInput, TypeOK
<1>2. CASE Tick
  BY <1>2, BoundsAssumption DEF Tick, TypeOK
<1>3. CASE Animate
  BY <1>3, BoundsAssumption DEF Animate, Outdate, TypeOK
<1>4. CASE PassWithoutDrawing
  <2>1. EndBatch
    BY <1>4 DEF PassWithoutDrawing
  <2>2. /\ lastFrame' \in {"none", "old", "current"}
        /\ screen' \in {"blank", "old", "current", "transcript", "child"}
    BY <1>4 DEF PassWithoutDrawing, Paint, Outdate, TypeOK
  <2>3. transcript' \in BOOLEAN /\ pc' \in {"wait", "batch", "gone"} /\ flags' \subseteq Flags
    BY <1>4 DEF PassWithoutDrawing, TypeOK
  <2>4. deferred' = deferred /\ gapOver' = gapOver
    BY <1>4 DEF PassWithoutDrawing
  <2> QED BY <2>1, <2>2, <2>3, <2>4, EndBatchType DEF TypeOK
<1>5. CASE Defer
  <2>1. EndBatch /\ UNCHANGED <<transcript, gapOver, lastFrame, screen>>
        /\ deferred' = TRUE /\ pc' = "wait" /\ flags' \subseteq flags
    BY <1>5 DEF Defer
  <2>2. /\ pc' \in {"wait", "batch", "gone"} /\ deferred' \in BOOLEAN /\ gapOver' \in BOOLEAN
        /\ transcript' \in BOOLEAN /\ lastFrame' \in {"none", "old", "current"}
        /\ screen' \in {"blank", "old", "current", "transcript", "child"}
        /\ flags' \subseteq Flags
    BY <2>1 DEF TypeOK
  <2> QED BY <2>1, <2>2, EndBatchType DEF TypeOK
<1>6. CASE Draw
  <2>1. EndBatch /\ transcript' = transcript /\ flags' \subseteq flags
        /\ deferred' = FALSE /\ gapOver' = FALSE /\ lastFrame' = "current"
    BY <1>6 DEF Draw
  <2>2. screen' \in {screen, "current"} /\ pc' \in {"gone", "wait"}
    BY <1>6 DEF Draw, Paint
  <2>3. /\ pc' \in {"wait", "batch", "gone"} /\ deferred' \in BOOLEAN /\ gapOver' \in BOOLEAN
        /\ transcript' \in BOOLEAN /\ lastFrame' \in {"none", "old", "current"}
        /\ screen' \in {"blank", "old", "current", "transcript", "child"}
        /\ flags' \subseteq Flags
    BY <2>1, <2>2 DEF TypeOK
  <2> QED BY <2>1, <2>3, EndBatchType DEF TypeOK
<1>7. CASE GapPasses
  BY <1>7 DEF GapPasses, TypeOK
<1>8. CASE ReaderPolls
  BY <1>8 DEF ReaderPolls, TypeOK
<1>9. CASE ReaderPolled
  BY <1>9 DEF ReaderPolled, TypeOK
<1>10. CASE ReaderArms
  BY <1>10 DEF ReaderArms, TypeOK
<1>11. CASE ReaderWakes
  BY <1>11 DEF ReaderWakes, TypeOK
<1>12. CASE ReaderChecks
  BY <1>12 DEF ReaderChecks, TypeOK
<1>13. CASE ReaderReads
  <2>1. /\ buf' \in Seq(KeyKind) /\ tty' \in Seq(KeyKind)
        /\ \E key \in KeyKind : chan' = Append(chan, [type |-> "key", key |-> key])
    <3>1. tty \in Seq(KeyKind) /\ buf \in Seq(KeyKind)
      BY DEF TypeOK
    <3>2. CASE /\ buf # <<>> /\ buf' = Tail(buf) /\ tty' = tty
               /\ chan' = Append(chan, [type |-> "key", key |-> Head(buf)])
      BY <3>1, <3>2
    <3>3. CASE /\ tty # <<>> /\ buf' = Tail(tty) /\ tty' = <<>>
               /\ chan' = Append(chan, [type |-> "key", key |-> Head(tty)])
      BY <3>1, <3>3
    <3> QED BY <1>13, <3>2, <3>3 DEF ReaderReads
  <2>2. PICK key \in KeyKind : chan' = Append(chan, [type |-> "key", key |-> key])
    BY <2>1
  <2>3. [type |-> "key", key |-> key] \in Inputs
    BY DEF Inputs
  <2>4. Push([type |-> "key", key |-> key])
    BY <1>13, <2>2 DEF ReaderReads, Push
  <2>5. chan' \in Seq(Inputs) /\ Len(chan') <= ChanCap
    BY <2>3, <2>4, PushType
  <2> QED BY <1>13, <2>1, <2>5 DEF ReaderReads, TypeOK
<1>14. CASE \E type \in {"change", "clear"} : HostSends(type)
  <2>1. PICK type \in {"change", "clear"} : HostSends(type)
    BY <1>14
  <2>2. [type |-> type] \in Inputs /\ Push([type |-> type])
    BY <2>1 DEF HostSends, Inputs
  <2>3. chan' \in Seq(Inputs) /\ Len(chan') <= ChanCap /\ left' \in 0..MaxInputs
    BY <2>1, <2>2, PushType, SpendType DEF HostSends
  <2> QED BY <2>1, <2>3 DEF HostSends, TypeOK
<1>15. CASE HostAsks
  <2>1. host.n + 1 \in Nat
    BY DEF TypeOK
  <2>2. [type |-> "suspend", n |-> host.n + 1] \in Inputs
    BY <2>1 DEF Inputs
  <2>3. chan' \in Seq(Inputs) /\ Len(chan') <= ChanCap
    BY <1>15, <2>2, PushType DEF HostAsks
  <2>4. host' \in [state: {"idle", "asking", "child"}, n: Nat]
    BY <1>15, <2>1 DEF HostAsks
  <2>5. left' \in 0..MaxInputs
    BY <1>15, SpendType DEF HostAsks
  <2> QED BY <1>15, <2>3, <2>4, <2>5 DEF HostAsks, TypeOK
<1>16. CASE HostHears
  BY <1>16 DEF HostHears, TypeOK
<1>17. CASE HostGivesUp
  BY <1>17 DEF HostGivesUp, TypeOK
<1>18. CASE HostGivesBack
  <2>1. [type |-> "resume"] \in Inputs
    BY DEF Inputs
  <2>2. chan' \in Seq(Inputs) /\ Len(chan') <= ChanCap
    BY <1>18, <2>1, PushType DEF HostGivesBack
  <2> QED BY <1>18, <2>2 DEF HostGivesBack, TypeOK
<1>19. CASE HostCloses \/ SignalCloses
  <2>1. [type |-> "closed"] \in Inputs
    BY DEF Inputs
  <2>2. chan' \in Seq(Inputs) /\ Len(chan') <= ChanCap
    BY <1>19, <2>1, PushType DEF HostCloses, SignalCloses
  <2>3. open' \subseteq {"pipe", "signals"}
    BY <1>19 DEF HostCloses, SignalCloses, TypeOK
  <2>4. UNCHANGED <<untouched, screen, tty, host, told, left>>
    BY <1>19 DEF HostCloses, SignalCloses
  <2> QED BY <2>2, <2>3, <2>4 DEF TypeOK
<1>20. CASE \E type \in {"resize", "focus"} : WindowChanges(type)
  <2>1. PICK type \in {"resize", "focus"} : WindowChanges(type)
    BY <1>20
  <2>2. [type |-> type] \in Inputs /\ Push([type |-> type])
    BY <2>1 DEF WindowChanges, Inputs
  <2>3. chan' \in Seq(Inputs) /\ Len(chan') <= ChanCap /\ left' \in 0..MaxInputs
    BY <2>1, <2>2, PushType, SpendType DEF WindowChanges
  <2> QED BY <2>1, <2>3 DEF WindowChanges, TypeOK
<1>21. CASE \E key \in {"edit", "quit"} : SignalInterrupts(key)
  <2>1. PICK key \in {"edit", "quit"} : SignalInterrupts(key)
    BY <1>21
  <2>2. [type |-> "key", key |-> key] \in Inputs /\ Push([type |-> "key", key |-> key])
    BY <2>1 DEF SignalInterrupts, Inputs, KeyKind
  <2>3. chan' \in Seq(Inputs) /\ Len(chan') <= ChanCap /\ left' \in 0..MaxInputs
    BY <2>1, <2>2, PushType, SpendType DEF SignalInterrupts
  <2> QED BY <2>1, <2>3 DEF SignalInterrupts, TypeOK
<1>22. CASE \E key \in KeyKind : UserTypes(key)
  <2>1. PICK key \in KeyKind : UserTypes(key)
    BY <1>22
  <2>2. left' \in 0..MaxInputs
    BY <2>1, SpendType DEF UserTypes
  <2>3. tty \in Seq(KeyKind) /\ tty' = Append(tty, key)
    BY <2>1 DEF UserTypes, TypeOK
  <2>4. tty' \in Seq(KeyKind)
    BY <2>3
  <2> QED BY <2>1, <2>2, <2>4 DEF UserTypes, TypeOK
<1>23. CASE ChildActs
  <2>1. tty' \in Seq(KeyKind)
    <3>1. tty \in Seq(KeyKind)
      BY DEF TypeOK
    <3>2. tty' = tty \/ (tty # <<>> /\ tty' = Tail(tty))
      BY <1>23 DEF ChildActs
    <3> QED BY <3>1, <3>2
  <2> QED BY <1>23, <2>1 DEF ChildActs, TypeOK
<1>24. CASE UNCHANGED vars
  BY <1>24 DEF vars, TypeOK
<1>25. CASE WriteWake
  <2>1. wakes' \in Nat
    BY <1>25 DEF WriteWake, TypeOK
  <2>2. waking' \in BOOLEAN
    BY <1>25 DEF WriteWake
  <2>3. UNCHANGED <<chan, pc, handled, closing, urgent, answers, deferred, gapOver,
                    lastFrame, screen, suspended, transcript, raw, flags, paused,
                    rpc, watch, ready, buf, tty, host, told, open, left>>
    BY <1>25 DEF WriteWake
  <2> QED BY <2>1, <2>2, <2>3 DEF TypeOK
<1> QED
  BY <1>1, <1>2, <1>3, <1>4, <1>5, <1>6, <1>7, <1>8, <1>9, <1>10, <1>11, <1>12,
     <1>13, <1>14, <1>15, <1>16, <1>17, <1>18, <1>19, <1>20, <1>21, <1>22, <1>23, <1>24, <1>25
  DEF Next, Loop, Reader, Environment

(* Type correctness of the loop, the reader, the host and the terminal.    *)
THEOREM TypeCorrect == Spec => []TypeOK
<1>1. Init => TypeOK
  <2> SUFFICES ASSUME Init PROVE TypeOK
    OBVIOUS
  <2>1. handled \in 0..BatchMax /\ left \in 0..MaxInputs /\ Len(chan) <= ChanCap
    BY BoundsAssumption DEF Init
  <2>2. chan \in Seq(Inputs) /\ tty \in Seq(KeyKind) /\ buf \in Seq(KeyKind)
        /\ wakes \in Nat /\ host \in [state: {"idle", "asking", "child"}, n: Nat]
    BY DEF Init
  <2>3. /\ closing \in BOOLEAN /\ urgent \in BOOLEAN /\ answers \subseteq Nat
        /\ deferred \in BOOLEAN /\ gapOver \in BOOLEAN
        /\ suspended \in BOOLEAN /\ transcript \in BOOLEAN /\ raw \in BOOLEAN
        /\ paused \in BOOLEAN /\ waking \in BOOLEAN /\ watch \in BOOLEAN /\ ready \in BOOLEAN
    BY DEF Init
  <2>4. /\ pc \in {"wait", "batch", "gone"} /\ lastFrame \in {"none", "old", "current"}
        /\ screen \in {"blank", "old", "current", "transcript", "child"}
        /\ rpc \in {"poll", "polling", "arm", "select", "check", "read"}
        /\ flags \subseteq Flags /\ told \subseteq Nat /\ open \subseteq {"pipe", "signals"}
    BY DEF Init
  <2> QED BY <2>1, <2>2, <2>3, <2>4 DEF TypeOK
<1> QED BY <1>1, TypeStep, PTL DEF Spec

-----------------------------------------------------------------------------
(* The key reader.                                                         *)

(* Handling an input opens or closes the gate with a byte due.             *)
LEMMA GateIsHeard ==
  ASSUME TypeOK, NEW inp, Handle(inp)
  PROVE  UNCHANGED gateVars \/ waking'
<1>1. ASSUME NEW value, set_paused(value) PROVE waking'
  BY <1>1 DEF set_paused, TypeOK
<1> QED BY <1>1 DEF Handle, TerminalSuspend, TerminalResume, HostEvent, HostClosed, Focus,
                    Resize, TermKey, gateVars

(* The reader leaves select() with the last byte, and enters it watching   *)
(* the terminal unless it is paused then; a byte that was due is written.  *)
LEMMA WokenStep == TypeOK /\ ReaderIsWoken /\ [Next]_vars => ReaderIsWoken'
<1> SUFFICES ASSUME TypeOK, ReaderIsWoken, [Next]_vars PROVE ReaderIsWoken'
  OBVIOUS
<1> USE DEF batchVars, drawVars, modeVars, readerVars, gateVars, hostVars, loopVars,
            untouched
<1>1. CASE TakeInput
  <2>1. UNCHANGED <<rpc, watch>> /\ Handle(Head(chan))
    BY <1>1 DEF TakeInput
  <2> QED BY <2>1, GateIsHeard DEF ReaderIsWoken
<1>2. CASE UNCHANGED <<rpc, watch, paused, waking, wakes>>
  BY <1>2 DEF ReaderIsWoken
<1>3. CASE Tick \/ Animate \/ GapPasses \/ UNCHANGED vars
  <2>1. UNCHANGED <<rpc, watch, paused, waking, wakes>>
    BY <1>3 DEF Tick, Animate, GapPasses, vars
  <2> QED BY <1>2, <2>1
<1>4. CASE PassWithoutDrawing \/ Defer \/ Draw
  <2>1. UNCHANGED <<rpc, watch, paused, waking, wakes>>
    BY <1>4 DEF PassWithoutDrawing, Defer, Draw, EndBatch
  <2> QED BY <1>2, <2>1
<1>5. CASE Reader
  <2>1. CASE ReaderArms
    BY <2>1 DEF ReaderArms, ReaderIsWoken
  <2>2. CASE ~ReaderArms
    <3>1. rpc' # "select"
      BY <1>5, <2>2 DEF Reader, ReaderPolls, ReaderPolled, ReaderWakes, ReaderChecks, ReaderReads
    <3> QED BY <3>1 DEF ReaderIsWoken
  <2> QED BY <2>1, <2>2
<1>6. CASE Environment
  <2>1. UNCHANGED <<rpc, watch, paused, waking, wakes>>
    BY <1>6 DEF Environment, HostSends, HostAsks, HostHears, HostGivesUp, HostGivesBack,
                HostCloses, SignalCloses, ChildActs, WindowChanges, SignalInterrupts, UserTypes
  <2> QED BY <1>2, <2>1
<1>7. CASE WriteWake
  BY <1>7 DEF WriteWake, ReaderIsWoken, TypeOK
<1> QED BY <1>1, <1>3, <1>4, <1>5, <1>6, <1>7 DEF Next, Loop

(* The key reader never sleeps through a resume (inline_app.rs, KeyGate).  *)
THEOREM WokenReader == Spec => []ReaderIsWoken
<1>1. Init => ReaderIsWoken
  BY DEF Init, ReaderIsWoken
<1> QED BY <1>1, WokenStep, TypeCorrect, PTL DEF Spec

-----------------------------------------------------------------------------
(* Handing over the terminal. ChildHasTerminal is not inductive: the host  *)
(* may hear an answer while older asks and resumes are still on their way. *)
(* What holds is an order: asks are numbered upwards, a resume precedes    *)
(* the ask that follows it, so once the ask the host waits for has been    *)
(* taken, no resume is left that could take the terminal back.             *)

NoResume == \A i \in DOMAIN chan : chan[i].type # "resume"
Taken    == answers \cup told

HandedOver == suspended => ~raw /\ paused
AsksNumbered ==
  /\ \A m \in Taken : m <= host.n
  /\ \A i \in DOMAIN chan : chan[i].type = "suspend" => chan[i].n <= host.n
TakenAskHolds == host.state # "idle" /\ host.n \in Taken => suspended /\ NoResume
ResumesFirst ==
  host.state = "asking" =>
    \A i, j \in DOMAIN chan :
      chan[i].type = "suspend" /\ chan[i].n = host.n /\ chan[j].type = "resume" => j < i
ChildWasTold == ChildRuns => host.n \in told

HandoverInv == HandedOver /\ AsksNumbered /\ TakenAskHolds /\ ResumesFirst /\ ChildWasTold

(* The invariant speaks of these variables only; answers and told count    *)
(* together except that a child was told.                                  *)
LEMMA HandoverFrame ==
  ASSUME HandoverInv, UNCHANGED <<chan, host, suspended, raw, paused>>,
         Taken' = Taken, told \subseteq told'
  PROVE  HandoverInv'
BY DEF HandoverInv, HandedOver, AsksNumbered, TakenAskHolds, ResumesFirst, ChildWasTold,
       NoResume, ChildRuns

(* Taking an input keeps the order.                                        *)
LEMMA TakeKeepsHandover ==
  ASSUME TypeOK, HandoverInv, TakeInput
  PROVE  HandoverInv'
<1> DEFINE inp == Head(chan)
<1>1. /\ inp \in Inputs /\ inp = chan[1] /\ 1 \in DOMAIN chan
      /\ \A i \in DOMAIN chan' : i + 1 \in DOMAIN chan /\ chan'[i] = chan[i + 1] /\ i \in Nat \ {0}
  <2>1. chan # <<>> /\ chan' = Tail(chan) /\ chan \in Seq(Inputs)
    BY DEF TakeInput, TypeOK
  <2> HIDE DEF Inputs
  <2>2. 1 \in DOMAIN chan /\ \A i \in DOMAIN Tail(chan) : i \in Nat \ {0}
    BY <2>1
  <2> QED BY <2>1, <2>2, HeadType
<1>2. host' = host /\ told' = told /\ Handle(inp) /\ host.n \in Nat
  BY DEF TakeInput, hostVars, TypeOK
<1> HIDE DEF inp
<1>3. NoResume => NoResume'
  BY <1>1 DEF NoResume
<1>4. ResumesFirst'
  <2> SUFFICES ASSUME host.state = "asking", NEW i \in DOMAIN chan', NEW j \in DOMAIN chan',
                      chan'[i].type = "suspend", chan'[i].n = host.n, chan'[j].type = "resume"
               PROVE  j < i
    BY <1>2 DEF ResumesFirst
  <2>1. j + 1 < i + 1
    BY <1>1 DEF HandoverInv, ResumesFirst
  <2> QED BY <1>1, <2>1
<1>5. ChildWasTold'
  BY <1>2 DEF HandoverInv, ChildWasTold, ChildRuns
<1>6. CASE TerminalSuspend(inp)
  <2>1. suspended' = TRUE /\ inp.type = "suspend" /\ Taken' = Taken \cup {inp.n}
    BY <1>2, <1>6 DEF TerminalSuspend, Taken
  <2>2. HandedOver'
    BY <1>6 DEF TerminalSuspend, set_paused, HandoverInv, HandedOver, gateVars
  <2>3. AsksNumbered'
    BY <1>1, <1>2, <2>1 DEF HandoverInv, AsksNumbered
  <2>4. TakenAskHolds'
    <3> SUFFICES ASSUME host.state # "idle", host.n \in Taken' PROVE NoResume'
      BY <1>2, <2>1 DEF TakenAskHolds
    <3>1. CASE host.n \in Taken
      BY <1>3, <3>1 DEF HandoverInv, TakenAskHolds
    <3>2. CASE host.n \notin Taken
      <4>1. inp.n = host.n /\ host.state = "asking"
        BY <2>1, <3>2 DEF HandoverInv, ChildWasTold, ChildRuns, Taken, TypeOK
      <4>2. ASSUME NEW j \in DOMAIN chan, chan[j].type = "resume"
            PROVE  j < 1
        BY <1>1, <2>1, <4>1, <4>2 DEF HandoverInv, ResumesFirst
      <4>3. ASSUME NEW j \in DOMAIN chan' PROVE chan'[j].type # "resume"
        <5>1. j + 1 \in DOMAIN chan /\ chan'[j] = chan[j + 1] /\ ~(j + 1 < 1)
          BY <1>1
        <5> QED BY <4>2, <5>1
      <4> QED BY <4>3 DEF NoResume
    <3> QED BY <3>1, <3>2
  <2> QED BY <1>4, <1>5, <2>2, <2>3, <2>4 DEF HandoverInv
<1>7. CASE TerminalResume(inp)
  <2>1. inp.type = "resume" /\ Taken' = Taken /\ ~NoResume
    BY <1>1, <1>2, <1>7 DEF TerminalResume, Taken, NoResume
  <2>2. HandedOver'
    BY <1>7 DEF TerminalResume, set_paused, HandoverInv, HandedOver, gateVars
  <2>3. AsksNumbered'
    BY <1>1, <1>2, <2>1 DEF HandoverInv, AsksNumbered
  <2>4. TakenAskHolds'
    BY <1>2, <2>1 DEF HandoverInv, TakenAskHolds
  <2> QED BY <1>4, <1>5, <2>2, <2>3, <2>4 DEF HandoverInv
<1>8. CASE HostEvent(inp) \/ HostClosed(inp) \/ Focus(inp) \/ Resize(inp) \/ TermKey(inp)
  <2>1. UNCHANGED <<answers, suspended, raw, paused>>
    BY <1>8 DEF HostEvent, HostClosed, Focus, Resize, TermKey, gateVars, modeVars
  <2>2. Taken' = Taken /\ HandedOver'
    BY <1>2, <2>1 DEF Taken, HandoverInv, HandedOver
  <2>3. AsksNumbered'
    BY <1>1, <1>2, <2>2 DEF HandoverInv, AsksNumbered
  <2>4. TakenAskHolds'
    BY <1>2, <1>3, <2>1, <2>2 DEF HandoverInv, TakenAskHolds
  <2> QED BY <1>4, <1>5, <2>2, <2>3, <2>4 DEF HandoverInv
<1> QED BY <1>2, <1>6, <1>7, <1>8 DEF Handle

(* An input that is neither an ask nor a resume changes nothing of it.     *)
LEMMA PushKeepsHandover ==
  ASSUME TypeOK, HandoverInv, NEW inp \in Inputs, Push(inp),
         inp.type \notin {"suspend", "resume"},
         UNCHANGED <<answers, told, host, suspended, raw, paused>>
  PROVE  HandoverInv'
<1>1. ASSUME NEW i \in DOMAIN chan', chan'[i].type \in {"suspend", "resume"}
      PROVE  i \in DOMAIN chan /\ chan'[i] = chan[i]
  BY <1>1, PushType
<1>2. Taken' = Taken
  BY DEF Taken
<1>3. AsksNumbered' /\ ResumesFirst' /\ (NoResume => NoResume')
  BY <1>1, <1>2 DEF HandoverInv, AsksNumbered, ResumesFirst, NoResume
<1> QED BY <1>2, <1>3 DEF HandoverInv, HandedOver, TakenAskHolds, ChildWasTold, ChildRuns

(* A new ask has the next number, and comes after every resume.            *)
LEMMA AskKeepsHandover ==
  ASSUME TypeOK, HandoverInv, HostAsks
  PROVE  HandoverInv'
<1> DEFINE m == host.n + 1
<1> DEFINE inp == [type |-> "suspend", n |-> m]
<1>1. host.n \in Nat /\ m \in Nat /\ inp \in Inputs
  BY DEF TypeOK, Inputs
<1>2. Push(inp) /\ host' = [state |-> "asking", n |-> m]
      /\ UNCHANGED <<answers, told, suspended, raw, paused>>
  BY DEF HostAsks, untouched, batchVars, modeVars, gateVars
<1>3. Taken' = Taken /\ Taken \subseteq Nat /\ \A k \in Taken : k <= host.n
  BY <1>2 DEF Taken, TypeOK, HandoverInv, AsksNumbered
<1>4. \A i \in DOMAIN chan : chan[i].type = "suspend" => chan[i].n \in Nat /\ chan[i].n <= host.n
  <2> SUFFICES ASSUME NEW i \in DOMAIN chan, chan[i].type = "suspend" PROVE chan[i].n \in Nat
    BY DEF HandoverInv, AsksNumbered
  <2>1. chan[i] \in Inputs
    BY DEF TypeOK
  <2> QED BY <2>1 DEF Inputs
<1>5. /\ DOMAIN chan' = 1..(Len(chan) + 1) /\ DOMAIN chan = 1..Len(chan) /\ Len(chan) \in Nat
      /\ chan'[Len(chan) + 1] = inp /\ \A i \in DOMAIN chan : chan'[i] = chan[i]
  BY <1>1, <1>2, PushType
<1>6. AsksNumbered'
  BY <1>1, <1>2, <1>3, <1>4, <1>5 DEF AsksNumbered
<1>7. TakenAskHolds'
  BY <1>1, <1>2, <1>3 DEF TakenAskHolds
<1>8. ResumesFirst'
  <2> SUFFICES ASSUME NEW i \in DOMAIN chan', NEW j \in DOMAIN chan',
                      chan'[i].type = "suspend", chan'[i].n = m, chan'[j].type = "resume"
               PROVE  j < i
    BY <1>2 DEF ResumesFirst
  <2>1. i = Len(chan) + 1
    BY <1>1, <1>4, <1>5
  <2>2. j # Len(chan) + 1
    BY <1>5
  <2> QED BY <1>5, <2>1, <2>2
<1>9. HandedOver' /\ ChildWasTold'
  BY <1>2 DEF HandoverInv, HandedOver, ChildWasTold, ChildRuns
<1> QED BY <1>6, <1>7, <1>8, <1>9 DEF HandoverInv

(* Each step keeps the order of asks, resumes and answers.                 *)
LEMMA HandoverStep == TypeOK /\ HandoverInv /\ [Next]_vars => HandoverInv'
<1> SUFFICES ASSUME TypeOK, HandoverInv, [Next]_vars PROVE HandoverInv'
  OBVIOUS
<1> USE DEF batchVars, drawVars, modeVars, readerVars, gateVars, hostVars, loopVars,
            untouched
<1>1. CASE TakeInput
  BY <1>1, TakeKeepsHandover
<1>2. ASSUME UNCHANGED <<chan, answers, told, host, suspended, raw, paused>>
      PROVE  HandoverInv'
  BY <1>2, HandoverFrame DEF Taken
<1>3. CASE Tick \/ Animate \/ GapPasses \/ WriteWake \/ UNCHANGED vars
  BY <1>2, <1>3 DEF Tick, Animate, GapPasses, WriteWake, vars
<1>4. CASE PassWithoutDrawing \/ Defer \/ Draw
  <2>1. /\ UNCHANGED <<chan, host, suspended, raw, paused>>
        /\ told' = told \cup answers /\ answers' = {}
    BY <1>4 DEF PassWithoutDrawing, Defer, Draw, EndBatch
  <2> QED BY <2>1, HandoverFrame DEF Taken
<1>5. CASE ReaderPolls \/ ReaderPolled \/ ReaderArms \/ ReaderWakes \/ ReaderChecks
  BY <1>2, <1>5 DEF ReaderPolls, ReaderPolled, ReaderArms, ReaderWakes, ReaderChecks
<1>6. CASE ReaderReads
  <2>1. \E key \in KeyKind : Push([type |-> "key", key |-> key])
    <3>1. tty \in Seq(KeyKind) /\ buf \in Seq(KeyKind)
      BY DEF TypeOK
    <3>2. (buf # <<>> => Head(buf) \in KeyKind) /\ (tty # <<>> => Head(tty) \in KeyKind)
      BY <3>1
    <3> QED BY <1>6, <3>2 DEF ReaderReads, Push
  <2>2. PICK key \in KeyKind : Push([type |-> "key", key |-> key])
    BY <2>1
  <2>3. [type |-> "key", key |-> key] \in Inputs
    BY DEF Inputs
  <2> QED BY <1>6, <2>2, <2>3, PushKeepsHandover DEF ReaderReads
<1>7. CASE HostAsks
  BY <1>7, AskKeepsHandover
<1>8. CASE HostHears
  <2>1. /\ host.state = "asking" /\ host.n \in told /\ host'.n = host.n
        /\ host'.state = "child" /\ UNCHANGED <<chan, answers, told, suspended, raw, paused>>
    BY <1>8 DEF HostHears, TypeOK
  <2> QED BY <2>1 DEF HandoverInv, HandedOver, AsksNumbered, TakenAskHolds, ResumesFirst,
                      ChildWasTold, ChildRuns, NoResume, Taken
<1>9. CASE HostGivesUp
  <2>1. /\ host'.n = host.n /\ host'.state = "idle"
        /\ UNCHANGED <<chan, answers, told, suspended, raw, paused>>
    BY <1>9 DEF HostGivesUp, TypeOK
  <2> QED BY <2>1 DEF HandoverInv, HandedOver, AsksNumbered, TakenAskHolds, ResumesFirst,
                      ChildWasTold, ChildRuns, Taken
<1>10. CASE HostGivesBack
  <2>1. /\ host'.n = host.n /\ host'.state = "idle" /\ Push([type |-> "resume"])
        /\ UNCHANGED <<answers, told, suspended, raw, paused>>
    BY <1>10 DEF HostGivesBack, TypeOK
  <2>2. [type |-> "resume"] \in Inputs
    BY DEF Inputs
  <2>3. ASSUME NEW i \in DOMAIN chan', chan'[i].type = "suspend"
        PROVE  i \in DOMAIN chan /\ chan'[i] = chan[i]
    BY <2>1, <2>2, <2>3, PushType
  <2> QED BY <2>1, <2>3 DEF HandoverInv, HandedOver, AsksNumbered, TakenAskHolds,
                            ResumesFirst, ChildWasTold, ChildRuns, Taken
<1>11. CASE HostCloses \/ SignalCloses
  <2>1. [type |-> "closed"] \in Inputs
    BY DEF Inputs
  <2> QED BY <1>11, <2>1, PushKeepsHandover DEF HostCloses, SignalCloses
<1>12. CASE \/ \E type \in {"change", "clear"} : HostSends(type)
            \/ \E type \in {"resize", "focus"} : WindowChanges(type)
  <2>1. PICK type \in {"change", "clear", "resize", "focus"} :
               HostSends(type) \/ WindowChanges(type)
    BY <1>12
  <2>2. [type |-> type] \in Inputs /\ type \notin {"suspend", "resume"}
    BY DEF Inputs
  <2> QED BY <2>1, <2>2, PushKeepsHandover DEF HostSends, WindowChanges
<1>13. CASE \E key \in {"edit", "quit"} : SignalInterrupts(key)
  <2>1. PICK key \in {"edit", "quit"} : SignalInterrupts(key)
    BY <1>13
  <2>2. [type |-> "key", key |-> key] \in Inputs
    BY DEF Inputs, KeyKind
  <2> QED BY <2>1, <2>2, PushKeepsHandover DEF SignalInterrupts
<1>14. CASE (\E key \in KeyKind : UserTypes(key)) \/ ChildActs
  BY <1>2, <1>14 DEF UserTypes, ChildActs
<1> QED
  BY <1>1, <1>3, <1>4, <1>5, <1>6, <1>7, <1>8, <1>9, <1>10, <1>11, <1>12, <1>13, <1>14
  DEF Next, Loop, Reader, Environment

(* A child that was granted the terminal has it, however late the answer   *)
(* was (inline_app.rs, TerminalSuspend and TerminalResume; the SDK's       *)
(* suspendTerminal).                                                       *)
THEOREM TerminalHandedOver == Spec => []ChildHasTerminal
<1>1. Init => HandoverInv
  BY DEF Init, HandoverInv, HandedOver, AsksNumbered, TakenAskHolds, ResumesFirst,
         ChildWasTold, ChildRuns, Taken
<1>2. HandoverInv => ChildHasTerminal
  BY DEF HandoverInv, HandedOver, TakenAskHolds, ChildWasTold, ChildHasTerminal, ChildRuns,
         Taken
<1> QED BY <1>1, <1>2, HandoverStep, TypeCorrect, PTL DEF Spec

-----------------------------------------------------------------------------
(* The frame cache. It is true in the middle of a batch as well, and rests *)
(* on the handover: a child writes only while the loop is suspended.       *)

CacheTrue ==
  pc # "gone" /\ ~suspended /\ ~transcript /\ lastFrame = "current" => screen = "current"

LEMMA OutdateIsTrue ==
  ASSUME CacheTrue, Outdate, pc # "gone", UNCHANGED <<suspended, transcript>>
  PROVE  CacheTrue'
BY DEF CacheTrue, Outdate

LEMMA HandleKeepsCache ==
  ASSUME CacheTrue, pc # "gone", NEW inp, Handle(inp)
  PROVE  CacheTrue'
<1> USE DEF modeVars, gateVars
<1>1. CASE TerminalSuspend(inp)
  BY <1>1 DEF TerminalSuspend, Paint, CacheTrue
<1>2. CASE TerminalResume(inp)
  BY <1>2 DEF TerminalResume, Paint, CacheTrue
<1>3. CASE HostEvent(inp)
  BY <1>3, OutdateIsTrue DEF HostEvent
<1>4. CASE HostClosed(inp) \/ Focus(inp)
  BY <1>4 DEF HostClosed, Focus, CacheTrue
<1>5. CASE Resize(inp)
  BY <1>5 DEF Resize, Paint, CacheTrue
<1>6. CASE TermKey(inp)
  <2>1. CASE transcript
    BY <1>6, <2>1 DEF TermKey, Paint, CacheTrue
  <2>2. CASE ~transcript
    BY <1>6, <2>2, OutdateIsTrue DEF TermKey
  <2> QED BY <2>1, <2>2
<1> QED BY <1>1, <1>2, <1>3, <1>4, <1>5, <1>6 DEF Handle

LEMMA CacheStep == CacheTrue /\ ChildHasTerminal /\ [Next]_vars => CacheTrue'
<1> SUFFICES ASSUME CacheTrue, ChildHasTerminal, [Next]_vars PROVE CacheTrue'
  OBVIOUS
<1> USE DEF batchVars, drawVars, modeVars, readerVars, gateVars, hostVars, loopVars,
            untouched
<1>1. CASE TakeInput
  BY <1>1, HandleKeepsCache DEF TakeInput
<1>2. CASE Animate
  BY <1>2, OutdateIsTrue DEF Animate
<1>3. CASE PassWithoutDrawing
  <2>1. suspended' = suspended /\ (suspended \/ InTranscript)
        /\ transcript' = (InTranscript /\ (suspended \/ ~closing))
        /\ pc' = IF ~suspended /\ closing THEN "gone" ELSE "wait"
    BY <1>3 DEF PassWithoutDrawing, EndBatch
  <2> QED BY <2>1 DEF CacheTrue
<1>4. CASE Defer
  BY <1>4 DEF Defer, EndBatch, BatchOver, CacheTrue
<1>5. CASE Draw
  <2>1. pc # "gone" /\ ~suspended /\ ~transcript
    BY <1>5 DEF Draw, EndBatch, BatchOver, Live, InTranscript
  <2>2. screen' = "current"
    BY <1>5, <2>1 DEF Draw, Paint, CacheTrue
  <2> QED BY <2>2 DEF CacheTrue
<1>6. CASE ChildActs
  <2>1. suspended /\ suspended' = suspended
    BY <1>6 DEF ChildActs, ChildHasTerminal
  <2> QED BY <2>1 DEF CacheTrue
<1>7. CASE UNCHANGED <<suspended, transcript, lastFrame, screen>> /\ (pc = "gone" => pc' = "gone")
  BY <1>7 DEF CacheTrue
<1>8. CASE Tick \/ GapPasses \/ WriteWake \/ UNCHANGED vars
  BY <1>7, <1>8 DEF Tick, GapPasses, WriteWake, vars
<1>9. CASE Reader
  BY <1>7, <1>9 DEF Reader, ReaderPolls, ReaderPolled, ReaderArms, ReaderWakes, ReaderChecks,
                    ReaderReads
<1>10. CASE Environment /\ ~ChildActs
  BY <1>7, <1>10 DEF Environment, HostSends, HostAsks, HostHears, HostGivesUp, HostGivesBack,
                     HostCloses, SignalCloses, WindowChanges, SignalInterrupts, UserTypes
<1> QED BY <1>1, <1>2, <1>3, <1>4, <1>5, <1>6, <1>8, <1>9, <1>10 DEF Next, Loop

(* Skipping a draw because the last frame is still the session's loses     *)
(* nothing (inline_app.rs, last_frame).                                    *)
THEOREM TrueCache == Spec => []FrameCacheIsTrue
<1>1. Init => CacheTrue
  BY DEF Init, CacheTrue
<1>2. CacheTrue => FrameCacheIsTrue
  BY DEF CacheTrue, FrameCacheIsTrue
<1> QED BY <1>1, <1>2, CacheStep, TerminalHandedOver, PTL DEF Spec
====
