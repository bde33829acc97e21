--------------------------------- MODULE Sdk ---------------------------------
(***************************************************************************)
(* The Node SDK (sdk/node/src/lifecycle.js, binding.js): turns that own    *)
(* streams, tools and permission requests and settle them when they end,   *)
(* questions that wait for an answer or for the renderer's exit, and the   *)
(* closing of the renderer process.                                        *)
(*                                                                         *)
(* Every action is one JavaScript callback, run to its end. The renderer   *)
(* is external: it may answer what it was asked, lose its stdin, exit at   *)
(* any moment, or hang. Its answers travel in a pipe, so the "exit" event  *)
(* may be handled before an answer written earlier. Ids are unique.        *)
(***************************************************************************)
EXTENDS Naturals, Sequences, SequencesExt

CONSTANTS
  Turns,      (* turns the host opens                                       *)
  Handles,    (* streams and tools                                          *)
  Requests,   (* turn.permission() calls                                    *)
  Questions,  (* selectList, confirm, form ... calls                        *)
  MaxWrites   (* bound: deltas and chunks                                   *)

ASSUME SdkAssumption == MaxWrites \in Nat /\ Requests \cap Questions = {}

Asks == Requests \cup Questions

VARIABLES
  closed,    (* cam._closed                                                 *)
  stdin,     (* "open", or "broken": node knows it is not writable          *)
  process,   (* the renderer: up, wedged, exited                            *)
  exitEvent, (* the child's "exit" event has been handled                   *)
  wire,      (* events of turns written to the renderer (history)           *)
  asked,     (* asks written to the renderer and not answered               *)
  turn,      (* per turn: state, open children, pending requests            *)
  handle,    (* per handle: the turn it belongs to and its state            *)
  listening, (* asks awaitResponse has listeners for                        *)
  promise,   (* per ask: none, waiting, or how it was resolved              *)
  replies,   (* answers in the pipe from the renderer                       *)
  closing,   (* close(): not called, waiting, after SIGTERM, resolved       *)
  writesLeft

processVars == <<stdin, process, exitEvent, closing>>
askVars     == <<asked, listening, promise, replies>>
sdkVars     == <<closed, wire, turn, handle, writesLeft, processVars, askVars>>

Sent(kind, of) == [kind |-> kind, of |-> of]

SdkInit ==
  /\ closed = FALSE /\ stdin = "open" /\ process = "up" /\ exitEvent = FALSE
  /\ wire = <<>>
  /\ turn = [t \in Turns |-> [state |-> "unopened", children |-> <<>>, pending |-> {}]]
  /\ handle = [h \in Handles |-> [of |-> {}, state |-> "unused"]]
  /\ asked = {} /\ listening = {} /\ replies = <<>>
  /\ promise = [a \in Asks |-> "none"]
  /\ closing = "no" /\ writesLeft = MaxWrites

-----------------------------------------------------------------------------
(* send(): nothing once the handle is closed; a pipe that is not writable   *)
(* closes it.                                                               *)
Writes == ~closed /\ stdin = "open"

SendMarksClosed == closed' = (closed \/ stdin = "broken")

Send(events) ==
  /\ wire' = IF Writes THEN wire \o events ELSE wire
  /\ IF events = <<>> THEN UNCHANGED closed ELSE SendMarksClosed

SendAsk(a) ==
  /\ asked' = IF Writes THEN asked \cup {a} ELSE asked
  /\ SendMarksClosed

OpenTurn(t) ==
  /\ turn[t].state = "unopened"
  /\ turn' = [turn EXCEPT ![t].state = "open"]
  /\ UNCHANGED <<closed, wire, handle, writesLeft, processVars, askVars>>

(* stream() and tool(); _assertOpen throws when the turn has ended.        *)
OpenHandle(t, h) ==
  /\ turn[t].state = "open" /\ handle[h].state = "unused"
  /\ handle' = [handle EXCEPT ![h] = [of |-> {t}, state |-> "open"]]
  /\ turn' = [turn EXCEPT ![t].children = Append(@, h)]
  /\ Send(<<Sent("start", h)>>)
  /\ UNCHANGED <<writesLeft, processVars, askVars>>

(* write, reasoning, stdout, stderr; nothing on a settled handle.          *)
WriteHandle(h) ==
  /\ handle[h].state = "open" /\ writesLeft > 0
  /\ Send(<<Sent("delta", h)>>)
  /\ writesLeft' = writesLeft - 1
  /\ UNCHANGED <<turn, handle, processVars, askVars>>

(* Mutant of FinishHandle: the handle stays among its turn's children and   *)
(* looks open to it.                                                        *)
FinishHandleUnforgotten(h) ==
  /\ handle[h].state = "open"
  /\ handle' = [handle EXCEPT ![h].state = "settled"]
  /\ Send(<<Sent("end", h)>>)
  /\ UNCHANGED <<turn, writesLeft, processVars, askVars>>

(* end() and finish() of one handle: the turn forgets it, then the event is *)
(* sent. A status that is not known throws before anything changes.         *)
FinishHandle(h) ==
  /\ handle[h].state = "open"
  /\ handle' = [handle EXCEPT ![h].state = "settled"]
  /\ turn' = [t \in Turns |->
       IF t \in handle[h].of THEN [turn[t] EXCEPT !.children = RemoveFirst(@, h)] ELSE turn[t]]
  /\ Send(<<Sent("end", h)>>)
  /\ UNCHANGED <<writesLeft, processVars, askVars>>

-----------------------------------------------------------------------------
(* Questions: awaitResponse registers its listeners before the event is     *)
(* sent, and resolves at once when the handle is closed.                    *)

Resolve(p, asks, how) ==
  [a \in Asks |-> IF a \in asks /\ p[a] = "waiting" THEN how ELSE p[a]]

(* Mutant of awaitResponse: it does not look whether the handle is closed. *)
awaitResponseAlways(a) ==
  /\ listening' = listening \cup {a}
  /\ promise' = [promise EXCEPT ![a] = "waiting"]

awaitResponse(a) ==
  /\ listening' = IF closed THEN listening ELSE listening \cup {a}
  /\ promise' = [promise EXCEPT ![a] = IF closed THEN "fallback" ELSE "waiting"]

(* turn.permission(): an unanswered request is also pending in its turn.    *)
AskPermission(t, a) ==
  /\ turn[t].state = "open" /\ promise[a] = "none"
  /\ awaitResponse(a)
  /\ turn' = [turn EXCEPT ![t].pending = IF closed THEN @ ELSE @ \cup {a}]
  /\ SendAsk(a)
  /\ UNCHANGED <<wire, handle, replies, writesLeft, processVars>>

AskQuestion(a) ==
  /\ promise[a] = "none"
  /\ awaitResponse(a)
  /\ SendAsk(a)
  /\ UNCHANGED <<wire, turn, handle, replies, writesLeft, processVars>>

(* A line of the renderer: the listener for its id is removed and resolves; *)
(* an answer nobody waits for is dropped.                                   *)
DeliverReply ==
  /\ replies # <<>>
  /\ replies' = Tail(replies)
  /\ LET heard == {Head(replies)} \cap listening IN
     /\ promise' = Resolve(promise, heard, "answered")
     /\ listening' = listening \ heard
     /\ turn' = [t \in Turns |-> [turn[t] EXCEPT !.pending = @ \ heard]]
  /\ UNCHANGED <<closed, asked, wire, handle, writesLeft, processVars>>

-----------------------------------------------------------------------------
(* Turn.end(): open children are finished in the order they were opened,    *)
(* pending requests denied, then the phase is set, unless the caller keeps  *)
(* it (phase: null).                                                        *)

Phases == {"idle", "kept"}

EndEvents(t, phase) ==
  [i \in DOMAIN turn[t].children |-> Sent("end", turn[t].children[i])]
    \o (IF phase = "kept" THEN <<>> ELSE <<Sent("idle", t)>>)

SettleHandles(ts) ==
  handle' = [h \in Handles |->
    IF handle[h].of \cap ts # {} THEN [handle[h] EXCEPT !.state = "settled"] ELSE handle[h]]

EndOf(record) == [record EXCEPT !.state = "ended", !.children = <<>>, !.pending = {}]

EndTurn(t, phase) ==
  /\ turn[t].state = "open"
  /\ turn' = [turn EXCEPT ![t] = EndOf(@)]
  /\ SettleHandles({t})
  /\ promise' = Resolve(promise, turn[t].pending, "denied")
  /\ Send(EndEvents(t, phase))
  /\ UNCHANGED <<asked, listening, replies, writesLeft, processVars>>

-----------------------------------------------------------------------------
(* The renderer and its process.                                           *)

(* External: the user answers something that reached the renderer.         *)
RendererAnswers(a) ==
  /\ process = "up" /\ a \in asked
  /\ asked' = asked \ {a} /\ replies' = Append(replies, a)
  /\ UNCHANGED <<closed, wire, turn, handle, listening, promise, writesLeft, processVars>>

(* External: the process ends, or stops reacting to anything.              *)
ProcessBecomes(state) ==
  /\ process = "up" /\ process' = state
  /\ UNCHANGED <<closed, stdin, exitEvent, closing, wire, turn, handle, writesLeft, askVars>>

(* The pipe breaks: the stream's error handler, which closes the handle, or *)
(* a stream that only stops being writable.                                 *)
StdinBreaks ==
  /\ process = "exited" /\ stdin = "open"
  /\ stdin' = "broken"
  /\ \/ closed' = TRUE
     \/ UNCHANGED closed
  /\ UNCHANGED <<process, exitEvent, closing, wire, turn, handle, writesLeft, askVars>>

(* child.once("exit"): closed, then every open turn is settled (its events  *)
(* go nowhere), then every listener falls back.                             *)
HandleExit ==
  /\ process = "exited" /\ ~exitEvent
  /\ exitEvent' = TRUE /\ closed' = TRUE
  /\ turn' = [t \in Turns |-> IF turn[t].state = "open" THEN EndOf(turn[t]) ELSE turn[t]]
  /\ SettleHandles({t \in Turns : turn[t].state = "open"})
  /\ promise' = LET denied == UNION {turn[t].pending : t \in Turns}
                IN Resolve(Resolve(promise, denied, "denied"), listening, "fallback")
  /\ listening' = {}
  /\ closing' = IF closing \in {"soft", "term"} THEN "resolved" ELSE closing
  /\ UNCHANGED <<stdin, process, wire, asked, replies, writesLeft>>

(* close(): waitForExit returns at once when node knows of the exit.        *)
Close ==
  /\ closing = "no"
  /\ closed' = TRUE
  /\ closing' = IF exitEvent THEN "resolved" ELSE "soft"
  /\ UNCHANGED <<stdin, process, exitEvent, wire, turn, handle, writesLeft, askVars>>

(* kill(): the handle is closed and the signal sent; listeners stay.       *)
Kill ==
  /\ ~closed /\ closed' = TRUE
  /\ process' = IF process = "up" THEN "exited" ELSE process
  /\ UNCHANGED <<stdin, exitEvent, closing, wire, turn, handle, writesLeft, askVars>>

TermTimer ==
  /\ closing = "soft" /\ closing' = "term"
  /\ process' = IF process = "up" THEN "exited" ELSE process
  /\ UNCHANGED <<closed, stdin, exitEvent, wire, turn, handle, writesLeft, askVars>>

(* Mutant of KillTimer: it relies on the child's exit event.               *)
KillTimerWaiting ==
  /\ closing = "term" /\ process = "up" /\ process' = "exited"
  /\ UNCHANGED <<closed, stdin, exitEvent, closing, wire, turn, handle, writesLeft, askVars>>

(* SIGKILL may not end a child that is stuck in the kernel.                *)
KillTimer ==
  /\ closing = "term" /\ closing' = "resolved"
  /\ \/ process' = "exited"
     \/ UNCHANGED process
  /\ UNCHANGED <<closed, stdin, exitEvent, wire, turn, handle, writesLeft, askVars>>

SdkNext ==
  \/ \E t \in Turns :
       \/ OpenTurn(t)
       \/ \E h \in Handles : OpenHandle(t, h)
       \/ \E a \in Requests : AskPermission(t, a)
       \/ \E phase \in Phases : EndTurn(t, phase)
  \/ \E h \in Handles : WriteHandle(h) \/ FinishHandle(h)
  \/ \E a \in Questions : AskQuestion(a)
  \/ \E a \in Asks : RendererAnswers(a)
  \/ \E state \in {"wedged", "exited"} : ProcessBecomes(state)
  \/ DeliverReply \/ StdinBreaks \/ HandleExit
  \/ Close \/ Kill \/ TermTimer \/ KillTimer

(* Node's event loop fires timers and delivers the exit event.             *)
SdkFairness ==
  WF_sdkVars(HandleExit) /\ WF_sdkVars(TermTimer) /\ WF_sdkVars(KillTimer)

SdkSpec == SdkInit /\ [][SdkNext]_sdkVars /\ SdkFairness

-----------------------------------------------------------------------------
Kinds == {"start", "delta", "end", "idle"}

SdkTypeOK ==
  /\ closed \in BOOLEAN /\ exitEvent \in BOOLEAN
  /\ stdin \in {"open", "broken"} /\ process \in {"up", "wedged", "exited"}
  /\ wire \in Seq([kind : Kinds, of : Turns \cup Handles])
  /\ turn \in [Turns -> [state : {"unopened", "open", "ended"},
                         children : Seq(Handles), pending : SUBSET Requests]]
  /\ handle \in [Handles -> [of : SUBSET Turns, state : {"unused", "open", "settled"}]]
  /\ asked \subseteq Asks /\ listening \subseteq Asks /\ replies \in Seq(Asks)
  /\ promise \in [Asks -> {"none", "waiting", "answered", "denied", "fallback"}]
  /\ closing \in {"no", "soft", "term", "resolved"} /\ writesLeft \in 0..MaxWrites

(* No host promise hangs: what still waits has a listener and the exit      *)
(* event to come, and a permission request also has its turn still open.    *)
(* (lifecycle.js: "every pending turn.permission() resolves", "no host      *)
(* hangs".)                                                                 *)
NoPromiseHangs ==
  \A a \in Asks : promise[a] = "waiting" =>
    /\ ~exitEvent /\ a \in listening
    /\ a \in Requests => \E t \in Turns : turn[t].state = "open" /\ a \in turn[t].pending

(* What the renderer is sent of a handle is one start, then deltas, then at *)
(* most one end, and a turn that says it is idle has left nothing running:  *)
(* each of its handles was ended before.                                    *)
WireIsBalanced ==
  \A i \in DOMAIN wire :
    /\ wire[i].kind \in {"delta", "end"} =>
         /\ \E j \in 1..(i-1) : wire[j] = Sent("start", wire[i].of)
         /\ \A j \in 1..(i-1) : wire[j] # Sent("end", wire[i].of)
    /\ wire[i].kind = "idle" =>
         \A h \in Handles, j \in DOMAIN wire :
           (wire[j] = Sent("start", h) /\ wire[i].of \in handle[h].of) =>
             \E k \in (j+1)..(i-1) : wire[k] = Sent("end", h)

(* close() resolves, even when the renderer never reacts to its end of      *)
(* input and SIGTERM.                                                       *)
CloseNeverHangs == closing = "soft" ~> closing = "resolved"
==============================================================================
