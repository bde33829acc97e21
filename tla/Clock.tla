-------------------------------- MODULE Clock --------------------------------
(***************************************************************************)
(* What a frame shows of the time, and when the loop wakes to show it      *)
(* (next_wakeup and live_frame of session.rs, the pass of inline_app.rs):  *)
(* spinners, the seconds of a turn, the rows of a busy turn that age or    *)
(* expire, the ages in the activity browser, and footer texts that expire. *)
(* The loop sleeps until an input or a deadline it computed when it went   *)
(* to sleep; a deadline forgotten is a text that stays for ever, one too   *)
(* many a machine that never rests.                                        *)
(*                                                                         *)
(* Time passes only while nothing is due: a pass takes none. The editor is *)
(* empty, a prompt is a permission request; the rest of the session is in  *)
(* Turn, Prompts, Activity and Composer.                                   *)
(***************************************************************************)
EXTENDS Naturals, FiniteSetsExt

CONSTANTS
  Gap, Frame, Second,   (* MIN_FRAME_GAP_MS, FRAME_MS, UNFOCUSED_FRAME_MS   *)
  Window, ToastFor, ShowFor, (* CTRL_C_WINDOW_MS, a toast's, FOOTER_SHOW_MS *)
  ActionFor,            (* how long the latest action is the spinner's verb *)
  Cycle, InView,       (* CYCLE_MS, VISIBLE_MS of the code glimpse         *)
  MaxTime,              (* bound                                            *)
  MaxClockInputs        (* bound                                            *)

ASSUME ClockAssumption ==
  /\ {Gap, Frame, Second, Window, ToastFor, ShowFor, MaxTime} \subseteq Nat \ {0}
  /\ {ActionFor, Cycle, InView} \subseteq Nat \ {0}
  /\ Gap <= Frame /\ Frame <= Second /\ Second <= ShowFor + ToastFor
  /\ MaxClockInputs \in Nat

VARIABLES
  clock,
  timed,      (* the session: focused, phase_busy, open (an entry is not    *)
              (* done), busy_since, tasks, prompt, browser, active, and the *)
              (* times foot, ctrl_c_at, status_until, latest (action),      *)
              (* running (an agent, or a tool expanded), glimpse (of code); *)
              (* {} or {a time}                                             *)
  shown,      (* what the last frame showed                                 *)
  last_draw, deferred,
  deadline,   (* {} or when the sleep ends                                  *)
  turnAt,     (* when the turn that runs began (history)                    *)
  unsettled,  (* a turn ended without settle() since (history)              *)
  clockInputs

clockVars ==
  <<clock, timed, shown, last_draw, deferred, deadline, turnAt, unsettled, clockInputs>>

Due(set, t)   == \E u \in set : u > t
Passed(t, at) == IF t > at THEN t - at ELSE 0

is_busyNow(s) == s.phase_busy \/ s.open

-----------------------------------------------------------------------------
(* live_frame: the parts that change with time alone. The fading of the     *)
(* latest line, the trail, the plan and finished agents goes by frame_at.   *)

frame_at(s, t) ==
  IF ~s.focused THEN 0
  ELSE IF s.busy_since # {} THEN Passed(t, Min(s.busy_since)) \div Frame
  ELSE t \div Frame

spinner(s, t) ==
  IF is_busyNow(s)
  THEN <<"turn", frame_at(s, t),
         IF s.busy_since = {} THEN 0 ELSE Passed(t, Min(s.busy_since)) \div Second>>
  ELSE IF s.tasks THEN <<"task", frame_at(s, t), 0>> ELSE <<"none", 0, 0>>

(* The rows of a busy turn that go by the clock and not by the frame: the   *)
(* verb, an age in seconds, and which part of the code is in view.          *)
code_glimpse(age) ==
  IF age % Cycle >= InView THEN <<>> ELSE <<age \div Cycle, (2 * (age % Cycle)) \div Cycle>>

busy_rows(s, t) ==
  IF ~is_busyNow(s) THEN [verb |-> FALSE, age |-> {}, code |-> {}]
  ELSE [verb |-> \E at \in s.latest : Passed(t, at) < ActionFor,
        age  |-> {Passed(t, at) \div Second : at \in s.running},
        code |-> {code_glimpse(Passed(t, at)) : at \in s.glimpse}]

footer_hint(s, t) ==
  IF \E at \in s.ctrl_c_at : Passed(t, at) < Window THEN "ctrl+c"
  ELSE IF Due(s.foot, t) THEN "toast" ELSE "plain"

(* Below it: a prompt, the browser, or the input box with its footer.       *)
below(s, t) ==
  IF s.prompt THEN <<"prompt">>
  ELSE IF s.browser THEN <<"browser", IF s.active THEN t \div Second ELSE 0>>
  ELSE <<"input", footer_hint(s, t), Due(s.status_until, t) /\ ~is_busyNow(s)>>

FrameAt(s, t) ==
  [rows |-> busy_rows(s, t), spinner |-> spinner(s, t), below |-> below(s, t)]

-----------------------------------------------------------------------------
(* The next multiple of every after t, counted from since.                  *)
NextBeat(since, t, every) == since + (Passed(t, since) \div every + 1) * every

Animates(s) == (is_busyNow(s) /\ ~s.prompt) \/ s.tasks

(* Mutant of next_wakeup: the hint of Ctrl+C has no deadline.               *)
next_wakeupUnarmed(s, t) ==
  LET beat  == NextBeat(IF s.busy_since = {} THEN 0 ELSE Min(s.busy_since), t,
                        IF s.focused THEN Frame ELSE Second)
      wants == (IF Animates(s) THEN {beat} ELSE {})
               \cup {u \in s.status_until : u > t /\ ~is_busyNow(s)}
               \cup {u \in s.foot : u > t}
  IN  IF wants = {} THEN {} ELSE {Min(wants)}

next_wakeup(s, t) ==
  LET beat  == NextBeat(IF s.busy_since = {} THEN 0 ELSE Min(s.busy_since), t,
                        IF s.focused THEN Frame ELSE Second)
      wants == (IF Animates(s) THEN {beat} ELSE {})
               \cup (IF s.browser /\ s.active THEN {NextBeat(0, t, Second)} ELSE {})
               \cup {u \in s.status_until : u > t /\ ~is_busyNow(s)}
               \cup {u \in s.foot : u > t}
               \cup {u \in {at + Window : at \in s.ctrl_c_at} : u > t}
  IN  IF wants = {} THEN {} ELSE {Min(wants)}

(* One pass of the loop over a session that became s: it draws, or puts the *)
(* draw off, and goes to sleep.                                             *)
Pass(s, urgent) ==
  LET gap  == IF s.focused THEN Gap ELSE Second
      soon == ~urgent /\ clock - last_draw < gap
      next == next_wakeup(s, clock) \cup (IF soon THEN {last_draw + gap} ELSE {})
  IN  /\ timed' = s
      /\ deferred' = soon
      /\ last_draw' = IF soon THEN last_draw ELSE clock
      /\ shown' = IF soon THEN shown ELSE FrameAt(s, clock)
      /\ deadline' = IF next = {} THEN {} ELSE {Min(next)}
      /\ UNCHANGED clock

ClockInit ==
  /\ clock = 0
  /\ timed = [focused |-> TRUE, phase_busy |-> FALSE, open |-> FALSE, busy_since |-> {},
              tasks |-> FALSE, prompt |-> FALSE, browser |-> FALSE, active |-> FALSE,
              foot |-> {}, ctrl_c_at |-> {}, status_until |-> {},
              latest |-> {}, running |-> {}, glimpse |-> {}]
  /\ shown = FrameAt(timed, 0)
  /\ last_draw = 0 /\ deferred = FALSE /\ deadline = {}
  /\ turnAt = 0 /\ unsettled = FALSE /\ clockInputs = MaxClockInputs

TimePasses ==
  /\ clock < MaxTime /\ deadline # {clock}
  /\ clock' = clock + 1
  /\ UNCHANGED <<timed, shown, last_draw, deferred, deadline, turnAt, unsettled,
                 clockInputs>>

WakeUp ==
  /\ deadline = {clock}
  /\ Pass(timed, FALSE)
  /\ UNCHANGED <<turnAt, unsettled, clockInputs>>

-----------------------------------------------------------------------------
InputComes == clockInputs > 0 /\ clockInputs' = clockInputs - 1

(* compact.clear: what a turn did is forgotten with it.                     *)
cleared(s) == [s EXCEPT !.latest = {}, !.running = {}, !.glimpse = {}]

became_busyNow(s) ==
  IF s.busy_since # {} THEN s ELSE [cleared(s) EXCEPT !.busy_since = {clock}]

settled(s) ==
  [cleared(s) EXCEPT !.phase_busy = FALSE, !.open = FALSE, !.busy_since = {},
                     !.prompt = FALSE]

(* The events that begin and end a turn; the entry may be a tool. An answer *)
(* that ends while no phase was announced leaves busy_since to the next.    *)
TurnBegins ==
  /\ InputComes
  /\ \E s \in {became_busyNow([timed EXCEPT !.phase_busy = TRUE]),
               became_busyNow([timed EXCEPT !.open = TRUE]),
               [became_busyNow([timed EXCEPT !.open = TRUE]) EXCEPT !.latest = {clock}]} :
       Pass(s, FALSE)
  /\ turnAt' = IF is_busyNow(timed) THEN turnAt ELSE clock
  /\ UNCHANGED unsettled

TurnEnds ==
  /\ InputComes
  /\ \/ /\ timed.phase_busy
        /\ Pass(settled(timed), FALSE) /\ unsettled' = FALSE
     \/ /\ timed.open
        /\ Pass([timed EXCEPT !.open = FALSE], FALSE)
        /\ unsettled' = (unsettled \/ ~timed.phase_busy)
  /\ UNCHANGED turnAt

HostShows ==
  /\ InputComes
  /\ \E s \in {[timed EXCEPT !.foot = {clock + ToastFor}],
               [timed EXCEPT !.status_until = {clock + ShowFor}],
               [timed EXCEPT !.tasks = ~@], [timed EXCEPT !.prompt = TRUE],
               [timed EXCEPT !.active = ~@], [timed EXCEPT !.browser = TRUE],
               [timed EXCEPT !.running = IF @ = {} THEN {clock} ELSE {}],
               [timed EXCEPT !.glimpse = {clock}]} :
       Pass(s, FALSE)
  /\ UNCHANGED <<turnAt, unsettled>>

(* A key goes to the prompt, else to the browser, else to the input box.    *)
CtrlCNow ==
  /\ InputComes
  /\ \/ timed.prompt /\ Pass([timed EXCEPT !.prompt = FALSE], TRUE) /\ UNCHANGED unsettled
     \/ /\ ~timed.prompt /\ timed.browser
        /\ Pass([timed EXCEPT !.browser = FALSE], TRUE) /\ UNCHANGED unsettled
     \/ /\ ~timed.prompt /\ ~timed.browser /\ is_busyNow(timed)
        /\ Pass([settled(timed) EXCEPT !.ctrl_c_at = {clock}], TRUE)
        /\ unsettled' = FALSE
     \/ /\ ~timed.prompt /\ ~timed.browser /\ ~is_busyNow(timed)
        /\ \A at \in timed.ctrl_c_at : Passed(clock, at) >= Window
        /\ Pass([timed EXCEPT !.ctrl_c_at = {clock}], TRUE) /\ UNCHANGED unsettled
  /\ UNCHANGED turnAt

KeyPressed ==
  /\ InputComes
  /\ \/ timed.prompt /\ Pass([timed EXCEPT !.prompt = FALSE], TRUE)
     \/ ~timed.prompt /\ ~timed.browser /\ Pass([timed EXCEPT !.ctrl_c_at = {}], TRUE)
  /\ UNCHANGED <<turnAt, unsettled>>

FocusChanges ==
  /\ InputComes
  /\ Pass([timed EXCEPT !.focused = ~@], TRUE)
  /\ UNCHANGED <<turnAt, unsettled>>

ClockNext ==
  \/ TimePasses \/ WakeUp \/ TurnBegins \/ TurnEnds \/ HostShows
  \/ CtrlCNow \/ KeyPressed \/ FocusChanges

ClockSpec == ClockInit /\ [][ClockNext]_clockVars

-----------------------------------------------------------------------------
(* Types: a deadline is never in the past.                                  *)
ClockTypeOK ==
  /\ clock \in 0 .. MaxTime /\ last_draw \in 0 .. clock
  /\ deferred \in BOOLEAN /\ unsettled \in BOOLEAN
  /\ Cardinality(deadline) <= 1 /\ \A d \in deadline : d >= clock
  /\ \A set \in {timed.foot, timed.ctrl_c_at, timed.status_until, timed.busy_since,
                 timed.latest, timed.running, timed.glimpse} : Cardinality(set) <= 1
  /\ clockInputs \in 0 .. MaxClockInputs

(* The seconds and the rows of a busy turn may be a beat late, which is a   *)
(* second without the focus, and so may the ages in the browser; the frame  *)
(* of a spinner is not, nor a text of the footer that expires.              *)
Lately(s, was) ==
  LET late == (IF s.focused THEN Frame ELSE Second) - 1
      from(n) == IF clock > n THEN clock - n ELSE 0
  IN  /\ \E t \in from(late) .. clock : was.spinner[3] = spinner(s, t)[3]
      /\ \E t \in from(late) .. clock : was.rows = busy_rows(s, t)
      /\ was.spinner[1] = spinner(s, clock)[1] /\ was.spinner[2] = spinner(s, clock)[2]
      /\ \E t \in from(Second - 1) .. clock : was.below = below(s, t)
      /\ was.below[1] = "input" => was.below = below(s, clock)

(* session.rs 1760-1799, inline-redesign.md:140 "Idle means zero work":     *)
(* while the loop sleeps the screen shows the time as it is, but for what   *)
(* may be a beat late (Lately: the latest action, an age or a glimpse of    *)
(* code stays until the beat after it expires), for a turn that waits for   *)
(* the user, where they stay until it has an answer, and for a draw put off *)
(* by no more than the gap; it sleeps for good unless a later frame         *)
(* differs, but for a hint of Ctrl+C or a text under another, and a task's  *)
(* spinner that stands still while unfocused; and the seconds shown are     *)
(* those of the turn that runs, but after a turn that nothing settled.      *)
ScreenKeepsTime ==
  /\ deferred => clock - last_draw <= IF timed.focused THEN Gap ELSE Second
  /\ ~deferred /\ deadline # {clock} /\ ~(is_busyNow(timed) /\ timed.prompt)
       => Lately(timed, shown)
  /\ (/\ ~deferred /\ deadline # {} /\ timed.ctrl_c_at = {}
      /\ ~timed.prompt /\ ~timed.browser /\ (timed.tasks => timed.focused))
       => \E t \in clock .. clock + ShowFor + ToastFor : FrameAt(timed, t) # shown
  /\ is_busyNow(timed) /\ ~unsettled => timed.busy_since = {turnAt}
==============================================================================
