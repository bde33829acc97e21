------------------------------- MODULE AppLoop -------------------------------
(***************************************************************************)
(* The renderer's event loop and the threads around it                     *)
(* (crates/tui/src/inline_app.rs): who draws, who reads the keys, when the *)
(* loop sleeps, and how the terminal is handed to a child process.         *)
(*                                                                         *)
(* The loop takes inputs in batches and then draws once. The key reader    *)
(* waits in select() on the terminal and on a wake pipe. The host asks for *)
(* the terminal, runs a child once it is told it may, and gives it back;   *)
(* it gives up on an answer that is late (sdk/node/src/binding.js).        *)
(*                                                                         *)
(* What the session would draw is abstracted to whether the last frame is  *)
(* it (current), is an older one (old), or was forgotten (none); what is   *)
(* really on the terminal is a variable of its own. Time is abstracted to  *)
(* whether the gap since the last draw is over.                            *)
(***************************************************************************)
EXTENDS Naturals, Sequences, FiniteSets

CONSTANTS
  HasStore,   (* was the renderer given a session store?                    *)
  ChanCap,    (* capacity of the channel into the loop                      *)
  BatchMax,   (* inputs handled before a draw (1000 in the code)            *)
  MaxInputs   (* bound: events of the host, the user and the signals        *)

ASSUME BoundsAssumption ==
  /\ HasStore \in BOOLEAN
  /\ ChanCap \in Nat \ {0} /\ BatchMax \in Nat \ {0} /\ MaxInputs \in Nat

VARIABLES
  chan,        (* inputs on their way to the loop                           *)
  pc,          (* loop: waiting, in a batch, gone                           *)
  handled,     (* inputs of this batch                                      *)
  closing,     (* host_closed                                               *)
  urgent,      (* the user did something in this batch                      *)
  answers,     (* TerminalSuspended events in the session's outbound        *)
  deferred,    (* a change waits for its slot                               *)
  gapOver,     (* now - last_draw >= gap                                    *)
  suspended,   (* a child owns the terminal                                 *)
  transcript,  (* the full-screen view is open                              *)
  lastFrame,   (* last_frame against the session's present frame            *)
  flags,       (* session: clear_screen, exit, transcript_requested         *)
  raw,         (* the terminal modes are the renderer's                     *)
  screen,      (* what is on the terminal                                   *)
  paused,      (* KeyGate.paused                                            *)
  waking,      (* set_paused has stored the flag and not yet written a byte *)
  wakes,       (* bytes in the wake pipe                                    *)
  rpc, watch, ready, (* key reader: where it is, what select() saw          *)
  tty, buf,    (* keys in the terminal, and in the parser's buffer          *)
  host,        (* idle, asking, child running; and the number of the ask    *)
  told,        (* answers the host has been sent                            *)
  open,        (* the host's pipe and the signal handler are there          *)
  left         (* inputs the environment may still make                     *)

batchVars  == <<handled, closing, urgent, answers>>
drawVars   == <<deferred, gapOver, lastFrame, screen>>
modeVars   == <<suspended, transcript, raw>>
readerVars == <<rpc, watch, ready, buf>>
gateVars   == <<paused, waking, wakes>>
hostVars   == <<host, told, open>>
vars == <<chan, pc, batchVars, drawVars, modeVars, flags, gateVars, readerVars,
          tty, hostVars, left>>

Flags   == {"clear", "exit", "transcript"}
KeyKind == {"edit", "ctrl_o", "quit"}
Inputs  == [type: {"change", "clear", "resume", "closed", "resize", "focus"}]
             \cup [type: {"suspend"}, n: Nat] \cup [type: {"key"}, key: KeyKind]

ChildRuns == host.state = "child"

-----------------------------------------------------------------------------
(* Handling one input.                                                     *)

(* The session changed: its frame is no longer the last one drawn.         *)
Outdate ==
  /\ lastFrame' = IF lastFrame = "current" THEN "old" ELSE lastFrame
  /\ screen' = IF screen = "current" THEN "old" ELSE screen

Paint(what) == screen' = what

(* Mutant of set_paused: the reader is woken only to be paused.            *)
set_pausedNoWake(value) == paused' = value /\ waking' = value /\ UNCHANGED wakes

(* The flag is stored, the byte follows in a step of its own (WriteWake):  *)
(* the reader may run in between. What the handlers below do besides, no   *)
(* other thread sees before the batch ends; it goes with the flag.         *)
set_paused(value) == paused' = value /\ waking' = TRUE /\ UNCHANGED wakes

TerminalSuspend(inp) ==
  /\ inp.type = "suspend"
  /\ answers' = answers \cup {inp.n}
  /\ \/ /\ ~suspended
        /\ set_paused(TRUE)
        /\ suspended' = TRUE /\ raw' = FALSE
        /\ lastFrame' = "none"
        /\ Paint("blank")
     \/ /\ suspended
        /\ UNCHANGED <<gateVars, suspended, raw, lastFrame, screen>>
  /\ UNCHANGED <<closing, urgent, transcript, flags>>

(* Mutant of TerminalResume: the frame from before is still trusted.       *)
TerminalResumeKeepsFrame(inp) ==
  /\ inp.type = "resume"
  /\ IF suspended
     THEN /\ set_paused(FALSE) /\ suspended' = FALSE /\ raw' = TRUE
          /\ Paint("blank") /\ lastFrame' = lastFrame /\ urgent' = TRUE
     ELSE UNCHANGED <<gateVars, suspended, raw, lastFrame, screen, urgent>>
  /\ UNCHANGED <<closing, answers, transcript, flags>>

TerminalResume(inp) ==
  /\ inp.type = "resume"
  /\ \/ /\ suspended
        /\ set_paused(FALSE)
        /\ suspended' = FALSE /\ raw' = TRUE
        /\ lastFrame' = "none"
        /\ Paint("blank")
        /\ urgent' = TRUE
     \/ /\ ~suspended
        /\ UNCHANGED <<gateVars, suspended, raw, lastFrame, screen, urgent>>
  /\ UNCHANGED <<closing, answers, transcript, flags>>

(* Any other event of the host; TranscriptCleared asks for a clear screen. *)
HostEvent(inp) ==
  /\ inp.type \in {"change", "clear"}
  /\ Outdate
  /\ flags' = IF inp.type = "clear" THEN flags \cup {"clear"} ELSE flags
  /\ UNCHANGED <<gateVars, modeVars, closing, urgent, answers>>

HostClosed(inp) ==
  /\ inp.type = "closed"
  /\ closing' = TRUE
  /\ UNCHANGED <<gateVars, modeVars, lastFrame, screen, urgent, answers, flags>>

Focus(inp) ==
  /\ inp.type = "focus"
  /\ urgent' = TRUE
  /\ UNCHANGED <<gateVars, modeVars, lastFrame, screen, closing, answers, flags>>

(* A resize draws at once, whoever owns the terminal.                      *)
Resize(inp) ==
  /\ inp.type = "resize"
  /\ urgent' = TRUE
  /\ \/ transcript /\ Paint("transcript") /\ UNCHANGED lastFrame
     \/ ~transcript /\ Paint("current") /\ lastFrame' = "current"
  /\ UNCHANGED <<gateVars, modeVars, closing, answers, flags>>

(* A key goes to the open transcript, which it may close, else to the      *)
(* session.                                                                *)
TermKey(inp) ==
  /\ inp.type = "key"
  /\ urgent' = TRUE
  /\ \/ /\ transcript
        /\ \/ /\ transcript' = FALSE
              /\ lastFrame' = "none"
              /\ Paint("old")
           \/ /\ Paint("transcript")
              /\ UNCHANGED <<transcript, lastFrame>>
        /\ UNCHANGED flags
     \/ /\ ~transcript
        /\ Outdate
        /\ flags' = flags \cup (CASE inp.key = "edit"   -> {}
                                  [] inp.key = "ctrl_o" -> {"transcript"}
                                  [] inp.key = "quit"   -> {"exit"})
        /\ UNCHANGED transcript
  /\ UNCHANGED <<gateVars, suspended, raw, closing, answers>>

Handle(inp) ==
  \/ TerminalSuspend(inp) \/ TerminalResume(inp) \/ HostEvent(inp)
  \/ HostClosed(inp) \/ Focus(inp) \/ Resize(inp) \/ TermKey(inp)

-----------------------------------------------------------------------------
(* The loop.                                                               *)

(* Mutant of TakeInput: the batch takes one input more than it may.        *)
TakeInputOneMore ==
  /\ pc \in {"wait", "batch"} /\ ~waking /\ handled <= BatchMax /\ chan # <<>>
  /\ Handle(Head(chan))
  /\ chan' = Tail(chan) /\ pc' = "batch" /\ handled' = handled + 1
  /\ UNCHANGED <<deferred, gapOver, readerVars, tty, hostVars, left>>

(* An input wakes the loop, or follows another in the same batch.          *)
TakeInput ==
  /\ pc \in {"wait", "batch"} /\ ~waking /\ handled < BatchMax /\ chan # <<>>
  /\ Handle(Head(chan))
  /\ chan' = Tail(chan)
  /\ pc' = "batch"
  /\ handled' = handled + 1
  /\ UNCHANGED <<deferred, gapOver, readerVars, tty, hostVars, left>>

(* The second half of set_paused.                                          *)
WriteWake ==
  /\ waking
  /\ waking' = FALSE
  /\ wakes' = wakes + 1
  /\ UNCHANGED <<chan, pc, batchVars, drawVars, modeVars, flags, paused, readerVars,
                 tty, hostVars, left>>

(* The deferred change's slot has come.                                    *)
Tick ==
  /\ pc = "wait" /\ chan = <<>>
  /\ deferred /\ gapOver
  /\ pc' = "batch"
  /\ handled' = 1
  /\ UNCHANGED <<chan, closing, urgent, answers, drawVars, modeVars, flags,
                 gateVars, readerVars, tty, hostVars, left>>

(* session.next_wakeup: an animation or a timed footer needs a new frame.  *)
Animate ==
  /\ pc = "wait" /\ chan = <<>> /\ ~suspended /\ ~transcript
  /\ Outdate
  /\ pc' = "batch"
  /\ handled' = 1
  /\ UNCHANGED <<chan, closing, urgent, answers, deferred, gapOver,
                 modeVars, flags, gateVars, readerVars, tty, hostVars, left>>

BatchOver == pc = "batch" /\ ~waking /\ (handled >= BatchMax \/ chan = <<>>)

(* What every pass does before it decides about drawing: Ctrl+O opens the  *)
(* transcript, and the outbound events go out.                             *)
OpensTranscript == "transcript" \in flags /\ HasStore
InTranscript    == transcript \/ OpensTranscript

EndBatch ==
  /\ BatchOver
  /\ told' = told \cup answers
  /\ answers' = {} /\ handled' = 0 /\ closing' = FALSE /\ urgent' = FALSE
  /\ UNCHANGED <<chan, suspended, raw, gateVars, readerVars, tty, host, open, left>>

(* A child has the terminal, or the transcript is open: nothing is drawn   *)
(* below the transcript, and only the latter heeds a host that closed.     *)
PassWithoutDrawing ==
  /\ EndBatch
  /\ suspended \/ InTranscript
  /\ transcript' = (InTranscript /\ (suspended \/ ~closing))
  /\ pc' = IF ~suspended /\ closing THEN "gone" ELSE "wait"
  /\ flags' = flags \ {"transcript"}
  /\ IF OpensTranscript
     THEN Paint("transcript") /\ UNCHANGED lastFrame
     ELSE IF "transcript" \in flags THEN Outdate
     ELSE UNCHANGED <<screen, lastFrame>>
  /\ UNCHANGED <<deferred, gapOver>>

MustDraw == urgent \/ gapOver \/ closing \/ flags \cap {"clear", "exit"} # {}

Live == ~suspended /\ ~InTranscript

(* Mutant of Defer: the change is put off and nobody remembers it.         *)
DeferForgets ==
  /\ EndBatch /\ Live /\ ~MustDraw
  /\ pc' = "wait"
  /\ flags' = flags \ {"transcript"}
  /\ UNCHANGED <<transcript, deferred, gapOver, lastFrame, screen>>

(* Too soon after the last draw: the change waits for its slot.            *)
Defer ==
  /\ EndBatch /\ Live /\ ~MustDraw
  /\ deferred' = TRUE
  /\ pc' = "wait"
  /\ flags' = flags \ {"transcript"}
  /\ UNCHANGED <<transcript, gapOver, lastFrame, screen>>

(* The pass draws unless the last frame is still the session's, and the    *)
(* loop ends when the user or the host asked for it.                       *)
Draw ==
  /\ EndBatch /\ Live /\ MustDraw
  /\ deferred' = FALSE /\ gapOver' = FALSE
  /\ IF lastFrame = "current" /\ flags \cap {"clear", "transcript"} = {}
     THEN UNCHANGED screen
     ELSE Paint("current")
  /\ lastFrame' = "current"
  /\ pc' = IF closing \/ "exit" \in flags THEN "gone" ELSE "wait"
  /\ flags' = flags \ {"clear", "transcript"}
  /\ UNCHANGED transcript

GapPasses ==
  /\ ~gapOver /\ pc # "gone"
  /\ gapOver' = TRUE
  /\ UNCHANGED <<chan, pc, batchVars, deferred, lastFrame, screen,
                 modeVars, flags, gateVars, readerVars, tty, hostVars, left>>

-----------------------------------------------------------------------------
(* The key reader thread. poll and arm read KeyGate.paused and act on it   *)
(* one step later.                                                         *)

loopVars == <<pc, batchVars, drawVars, modeVars, flags, hostVars, left>>

ReaderPolls ==
  /\ rpc = "poll"
  /\ rpc' = IF paused THEN "arm" ELSE "polling"
  /\ UNCHANGED <<chan, loopVars, gateVars, watch, ready, buf, tty>>

(* crossterm's poll moves what the terminal holds into its own buffer.     *)
ReaderPolled ==
  /\ rpc = "polling"
  /\ buf' = buf \o tty /\ tty' = <<>>
  /\ rpc' = IF buf \o tty = <<>> THEN "arm" ELSE "read"
  /\ UNCHANGED <<chan, loopVars, gateVars, watch, ready>>

ReaderArms ==
  /\ rpc = "arm"
  /\ watch' = ~paused
  /\ rpc' = "select"
  /\ UNCHANGED <<chan, loopVars, gateVars, ready, buf, tty>>

ReaderWakes ==
  /\ rpc = "select"
  /\ wakes > 0 \/ (watch /\ tty # <<>>)
  /\ wakes' = 0
  /\ ready' = (watch /\ tty # <<>>)
  /\ rpc' = "check"
  /\ UNCHANGED <<chan, loopVars, paused, waking, watch, buf, tty>>

ReaderChecks ==
  /\ rpc = "check"
  /\ rpc' = IF ~paused /\ ready THEN "read" ELSE "poll"
  /\ UNCHANGED <<chan, loopVars, gateVars, watch, ready, buf, tty>>

(* crossterm's read returns a buffered key, or blocks on the terminal.     *)
ReaderReads ==
  /\ rpc = "read" /\ Len(chan) < ChanCap
  /\ \/ /\ buf # <<>>
        /\ chan' = Append(chan, [type |-> "key", key |-> Head(buf)])
        /\ buf' = Tail(buf) /\ UNCHANGED tty
     \/ /\ buf = <<>> /\ tty # <<>>
        /\ chan' = Append(chan, [type |-> "key", key |-> Head(tty)])
        /\ buf' = Tail(tty) /\ tty' = <<>>
  /\ rpc' = "poll"
  /\ UNCHANGED <<loopVars, gateVars, watch, ready>>

-----------------------------------------------------------------------------
(* The host, its child, the user and the signals.                          *)

Spend == left > 0 /\ left' = left - 1

Push(inp) == Len(chan) < ChanCap /\ chan' = Append(chan, inp)

untouched == <<pc, batchVars, deferred, gapOver, lastFrame, modeVars,
               flags, gateVars, readerVars>>

HostSends(type) ==
  /\ type \in {"change", "clear"} /\ "pipe" \in open
  /\ Spend /\ Push([type |-> type])
  /\ UNCHANGED <<untouched, screen, tty, hostVars>>

(* suspendTerminal.                                                        *)
HostAsks ==
  /\ host.state = "idle" /\ "pipe" \in open
  /\ Spend /\ Push([type |-> "suspend", n |-> host.n + 1])
  /\ host' = [state |-> "asking", n |-> host.n + 1]
  /\ UNCHANGED <<untouched, screen, tty, told, open>>

(* Mutant of HostHears: any answer will do, a late one of an ask before too. *)
HostHearsStale ==
  /\ host.state = "asking" /\ told # {}
  /\ host' = [host EXCEPT !.state = "child"]
  /\ UNCHANGED <<untouched, chan, screen, tty, told, open, left>>

HostHears ==
  /\ host.state = "asking" /\ host.n \in told
  /\ host' = [host EXCEPT !.state = "child"]
  /\ UNCHANGED <<untouched, chan, screen, tty, told, open, left>>

(* No answer within timeoutMs: the child runs without a terminal, and      *)
(* nothing is given back.                                                  *)
HostGivesUp ==
  /\ host.state = "asking" /\ host.n \notin told
  /\ host' = [host EXCEPT !.state = "idle"]
  /\ UNCHANGED <<untouched, chan, screen, tty, told, open, left>>

(* resumeTerminal, when the child has ended.                               *)
HostGivesBack ==
  /\ ChildRuns /\ "pipe" \in open
  /\ Push([type |-> "resume"])
  /\ host' = [host EXCEPT !.state = "idle"]
  /\ UNCHANGED <<untouched, screen, tty, told, open, left>>

HostCloses ==
  /\ "pipe" \in open
  /\ Push([type |-> "closed"])
  /\ open' = open \ {"pipe"}
  /\ UNCHANGED <<untouched, screen, tty, host, told, left>>

(* SIGTERM or SIGHUP: passed on once, then the handler is gone.            *)
SignalCloses ==
  /\ "signals" \in open
  /\ Push([type |-> "closed"])
  /\ open' = open \ {"signals"}
  /\ UNCHANGED <<untouched, screen, tty, host, told, left>>

(* SIGINT is a Ctrl+C the terminal turned into a signal: the key it stands *)
(* for interrupts a turn or arms the exit, and the next one exits.         *)
SignalInterrupts(key) ==
  /\ key \in {"edit", "quit"} /\ "signals" \in open
  /\ Spend /\ Push([type |-> "key", key |-> key])
  /\ UNCHANGED <<untouched, screen, tty, hostVars>>

WindowChanges(type) ==
  /\ type \in {"resize", "focus"}
  /\ Spend /\ Push([type |-> type])
  /\ UNCHANGED <<untouched, screen, tty, hostVars>>

UserTypes(key) ==
  /\ Spend
  /\ tty' = Append(tty, key)
  /\ UNCHANGED <<untouched, chan, screen, hostVars>>

ChildActs ==
  /\ ChildRuns
  /\ \/ screen' = "child" /\ UNCHANGED tty
     \/ tty # <<>> /\ tty' = Tail(tty) /\ UNCHANGED screen
  /\ UNCHANGED <<untouched, chan, hostVars, left>>

-----------------------------------------------------------------------------
Init ==
  /\ chan = <<>> /\ pc = "wait"
  /\ handled = 0 /\ closing = FALSE /\ urgent = FALSE /\ answers = {}
  /\ deferred = FALSE /\ gapOver = TRUE
  /\ suspended = FALSE /\ transcript = FALSE /\ raw = TRUE
  /\ lastFrame = "none" /\ screen = "blank" /\ flags = {}
  /\ paused = FALSE /\ waking = FALSE /\ wakes = 0
  /\ rpc = "poll" /\ watch = FALSE /\ ready = FALSE /\ tty = <<>> /\ buf = <<>>
  /\ host = [state |-> "idle", n |-> 0] /\ told = {} /\ open = {"pipe", "signals"}
  /\ left = MaxInputs

Loop   == TakeInput \/ WriteWake \/ Tick \/ PassWithoutDrawing \/ Defer \/ Draw
Reader == \/ ReaderPolls \/ ReaderPolled \/ ReaderArms \/ ReaderWakes
          \/ ReaderChecks \/ ReaderReads
Environment ==
  \/ \E type \in {"change", "clear"} : HostSends(type)
  \/ HostAsks \/ HostHears \/ HostGivesUp \/ HostGivesBack \/ HostCloses
  \/ SignalCloses \/ ChildActs
  \/ \E type \in {"resize", "focus"} : WindowChanges(type)
  \/ \E key \in {"edit", "quit"} : SignalInterrupts(key)
  \/ \E key \in KeyKind : UserTypes(key)

Next == \/ Loop \/ Animate \/ GapPasses
        \/ pc # "gone" /\ (Reader \/ Environment)

Spec == Init /\ [][Next]_vars

(* The loop and the reader thread are scheduled, and time passes. Nothing  *)
(* is assumed of the host, the user or the child.                          *)
FairSpec == /\ Spec
            /\ WF_vars(Loop) /\ WF_vars(pc # "gone" /\ Reader) /\ WF_vars(GapPasses)

-----------------------------------------------------------------------------
TypeOK ==
  /\ chan \in Seq(Inputs) /\ Len(chan) <= ChanCap
  /\ pc \in {"wait", "batch", "gone"} /\ handled \in 0..BatchMax
  /\ closing \in BOOLEAN /\ urgent \in BOOLEAN /\ answers \subseteq Nat
  /\ deferred \in BOOLEAN /\ gapOver \in BOOLEAN
  /\ suspended \in BOOLEAN /\ transcript \in BOOLEAN /\ raw \in BOOLEAN
  /\ lastFrame \in {"none", "old", "current"}
  /\ screen \in {"blank", "old", "current", "transcript", "child"}
  /\ flags \subseteq Flags
  /\ paused \in BOOLEAN /\ waking \in BOOLEAN /\ wakes \in Nat
  /\ rpc \in {"poll", "polling", "arm", "select", "check", "read"}
  /\ watch \in BOOLEAN /\ ready \in BOOLEAN /\ tty \in Seq(KeyKind) /\ buf \in Seq(KeyKind)
  /\ host \in [state: {"idle", "asking", "child"}, n: Nat]
  /\ told \subseteq Nat /\ open \subseteq {"pipe", "signals"} /\ left \in 0..MaxInputs

(* last_frame is a cache of what the terminal shows, and four other actors *)
(* write there: the child, the transcript, a resize, a cleared screen.     *)
(* When the loop sleeps and owns the terminal, a last frame equal to the   *)
(* session's is really on it, so skipping the draw loses nothing.          *)
FrameCacheIsTrue ==
  pc = "wait" /\ ~suspended /\ ~transcript /\ lastFrame = "current"
    => screen = "current"

(* A child that was granted the terminal has it: the loop is suspended, the*)
(* terminal is out of raw mode and the key reader paused, however late the *)
(* answer was and whatever the host asked for in the meantime.             *)
ChildHasTerminal == ChildRuns => suspended /\ ~raw /\ paused

(* The reader never sleeps through a resume: if it waits without watching  *)
(* the terminal while it should, a byte is in the pipe to wake it, or the  *)
(* loop is between the flag and the byte. The reader may run there: it may *)
(* take the byte of the pause before, or go to sleep after the flag.       *)
ReaderIsWoken == rpc = "select" /\ ~watch /\ ~paused => wakes > 0 \/ waking

(* Once a batch has left the terminal with a frame that is not the         *)
(* session's, because something changed, a child gave the terminal back or *)
(* the transcript closed, the loop draws it, by the timer that deferred    *)
(* sets if nothing else comes. A child or a transcript in between may take *)
(* the terminal as often as it likes: only one that never lets go of it    *)
(* again excuses the loop.                                                 *)
ChangesAreDrawn ==
  (pc = "batch" /\ lastFrame # "current")
    ~> (lastFrame = "current" \/ pc = "gone" \/ [](suspended \/ transcript))

(* Keys that wait in the terminal are read unless the reader is paused.    *)
KeysAreRead == (tty # <<>>) ~> (tty = <<>> \/ paused \/ pc = "gone")

(* inline_app.rs: a child process owns the terminal (TerminalSuspend): no  *)
(* drawing. No step brings a frame to the terminal while the child runs.   *)
NoDrawingOverChild ==
  [][ChildRuns /\ screen' \in {"current", "transcript"} => screen' = screen]_vars

(* inline_app.rs: SIGTERM and SIGHUP exit cleanly, so that the terminal is *)
(* restored.                                                               *)
SignalsExit == ("signals" \notin open) ~> (pc = "gone")
====
