------------------------------- MODULE Prompts -------------------------------
(***************************************************************************)
(* Questions the host asks through the renderer, and the keys that answer  *)
(* them (crates/inline/src/session.rs, form.rs).                           *)
(*                                                                         *)
(* Permission requests, select lists and confirmations share one prompt    *)
(* slot and a queue behind it; a form covers the prompt; a wizard runs its *)
(* steps through both and collects the answers. Events of the host, keys,  *)
(* frames and the passing of time interleave freely, as the event loop     *)
(* drains them in one batch before it draws.                               *)
(*                                                                         *)
(* The clock is abstracted to ages: only now - shown_at >= PERMISSION_ARM  *)
(* is ever tested, so an age stops growing there. Optional times are sets  *)
(* of at most one age. Queued prompts are a set, each with its number of   *)
(* arrival; the front of the queue is the lowest one.                      *)
(***************************************************************************)
EXTENDS Naturals, Sequences, FiniteSets

CONSTANTS
  Id,             (* request ids and wizard step ids                        *)
  Requests,       (* what the host may ask, each at most once               *)
  PERMISSION_ARM, (* PERMISSION_ARM_MS, in ticks                            *)
  MaxFilter,      (* bound: length of a select list's filter                *)
  MaxAsked,       (* bound: requests per behaviour                          *)
  MaxCancels      (* bound: CancelRequested events sent either way          *)

PromptKinds == {"permission", "select", "confirm"}

Question == [id: Id, kind: PromptKinds \cup {"form"}, cancel: BOOLEAN,
             filter: BOOLEAN, options: Nat]
Step == [id: Id, kind: {"select", "confirm", "form"}, cancel: BOOLEAN,
         filter: BOOLEAN, options: Nat]
WizardRequest == [id: Id, kind: {"wizard"}, cancel: BOOLEAN, steps: Seq(Step)]

Permissions == {r.id : r \in {q \in Requests : q.kind = "permission"}}
StepsOf(r)  == IF r.kind = "wizard" THEN {r.steps[i].id : i \in DOMAIN r.steps} ELSE {}

ASSUME RequestsAssumption ==
  /\ Requests \subseteq Question \cup WizardRequest
  /\ \A r \in Requests : r.kind = "permission" => r.options = 3
(* The host gives every request, and every step of a wizard, its own id.   *)
ASSUME IdsAssumption ==
  /\ \A r, q \in Requests : r # q =>
       ({r.id} \cup StepsOf(r)) \cap ({q.id} \cup StepsOf(q)) = {}
  /\ \A r \in Requests : r.kind = "wizard" =>
       /\ r.id \notin StepsOf(r)
       /\ \A i, j \in DOMAIN r.steps : i # j => r.steps[i].id # r.steps[j].id
ASSUME BoundsAssumption ==
  /\ PERMISSION_ARM \in Nat /\ MaxFilter \in Nat
  /\ MaxAsked \in Nat /\ MaxCancels \in Nat

VARIABLES
  prompts,   (* Session.prompt (open) and queued_prompts (queued)           *)
  form,      (* Session.form                                                *)
  wizard,    (* Session.wizard                                              *)
  busy,      (* phase_busy                                                  *)
  opened,    (* prompts built so far: numbers the queue                     *)
  told,      (* outbound answers to each request, in order                  *)
  cancels,   (* CancelRequested events so far                               *)
  asked,     (* history: requests received, in order                        *)
  withdrawn, (* history: permission requests settle() dropped               *)
  screen,    (* history: what the last frame showed, and for how long       *)
  drawn,     (* history: age of the first frame that showed each permission *)
  grants     (* history: permissions granted, with what was on screen       *)

slot == <<prompts, form, wizard, opened>>
seen == <<screen, drawn>>
vars == <<slot, busy, told, cancels, asked, withdrawn, seen, grants>>

(* An empty slot.                                                          *)
None == [kind |-> "none"]

Ages    == 0..PERMISSION_ARM
Prompt  == [id: Id, kind: PromptKinds, cancel: BOOLEAN, filterable: BOOLEAN,
            options: Nat, selected: Nat, filter: Seq(SUBSET Nat),
            shown_at: SUBSET Ages, no: Nat]
Form    == [id: Id, kind: {"form"}, cancel: BOOLEAN]
Wizard  == [id: Id, kind: {"wizard"}, cancel: BOOLEAN, steps: Seq(Step),
            at: Nat, results: SUBSET Id]

Older(age) == IF age < PERMISSION_ARM THEN age + 1 ELSE age

-----------------------------------------------------------------------------
(* The prompt slot and its queue.                                          *)

is_permission(p) == p.kind = "permission"

(* A fresh prompt. The option a host suggests is one MoveSelection away.   *)
PromptOf(q, cancel, no) ==
  [id |-> q.id, kind |-> q.kind, cancel |-> cancel, filterable |-> q.filter,
   options |-> q.options, selected |-> 0, filter |-> <<>>, shown_at |-> {},
   no |-> no]

(* Mutant of open_prompt: a permission request takes the slot at once.     *)
open_promptPreempts(ps, p) ==
  IF ps.open # None /\ is_permission(ps.open) /\ ~is_permission(p)
  THEN [ps EXCEPT !.queued = @ \cup {p}]
  ELSE [ps EXCEPT !.open = p]

(* Show p, or queue it when it or the open prompt is a permission request. *)
open_prompt(ps, p) ==
  IF ps.open # None /\ (is_permission(ps.open) \/ is_permission(p))
  THEN [ps EXCEPT !.queued = @ \cup {p}]
  ELSE [ps EXCEPT !.open = p]

(* Mutant of Front: the newest prompt is taken.                            *)
FrontNewest(queued) == CHOOSE p \in queued : \A q \in queued : q.no <= p.no

Front(queued) == CHOOSE p \in queued : \A q \in queued : p.no <= q.no

(* Mutant of show_queued_prompt: the prompt shown stays in the queue.      *)
show_queued_promptPeeks(ps) ==
  IF ps.open = None /\ ps.queued # {}
  THEN [ps EXCEPT !.open = Front(ps.queued)] ELSE ps

show_queued_prompt(ps) ==
  IF ps.open = None /\ ps.queued # {}
  THEN [open |-> Front(ps.queued), queued |-> ps.queued \ {Front(ps.queued)}]
  ELSE ps

(* Mutant of settled: the queue is left waiting.                           *)
settledLeavesQueue(ps) ==
  [open   |-> IF ps.open # None /\ is_permission(ps.open) THEN None ELSE ps.open,
   queued |-> {p \in ps.queued : ~is_permission(p)}]

(* Mutant of settled: the request the user sees stays.                     *)
settledKeepsOpen(ps) ==
  [ps EXCEPT !.queued = {p \in @ : ~is_permission(p)}]

(* The end of settle(): permission requests go, what else waits is shown.  *)
settled(ps) ==
  show_queued_prompt(
    [open   |-> IF ps.open # None /\ is_permission(ps.open) THEN None ELSE ps.open,
     queued |-> {p \in ps.queued : ~is_permission(p)}])

Waiting(ps)     == ps.queued \cup (IF ps.open = None THEN {} ELSE {ps.open})
PermissionIds(ps) == {p.id : p \in {q \in Waiting(ps) : is_permission(q)}}

armed(p) == is_permission(p) => \E age \in p.shown_at : age >= PERMISSION_ARM

-----------------------------------------------------------------------------
(* A wizard shows its steps in turn and takes their answers.               *)

CurrentStep(w) == w.steps[w.at + 1]

(* Show one question through the ordinary prompt and form paths, once the  *)
(* prompts and the form are ps and fm.                                     *)
Show(q, cancel, ps, fm) ==
  \/ /\ q.kind = "form"
     /\ form' = [id |-> q.id, kind |-> "form", cancel |-> cancel]
     /\ prompts' = ps
     /\ UNCHANGED opened
  \/ /\ q.kind # "form"
     /\ form' = fm
     /\ prompts' = open_prompt(ps, PromptOf(q, cancel, opened))
     /\ opened' = opened + 1

show_wizard_step(w, ps, fm) ==
  wizard' = w /\ Show(CurrentStep(w), w.cancel, ps, fm)

Response(kind, id, value) == [kind |-> kind, id |-> id, value |-> value]

(* outbound.push of the answer to request i.                               *)
Tell(i, value, steps) ==
  told' = [told EXCEPT ![i] = Append(@, [value |-> value, steps |-> steps])]

IsStepAnswer(ans) ==
  wizard # None /\ ans.kind # "permission" /\ ans.id = CurrentStep(wizard).id

(* Mutant of absorb_wizard_answers: the first answer completes the wizard. *)
absorbShort(ans, ps, fm) ==
  \/ /\ ~IsStepAnswer(ans)
     /\ Tell(ans.id, ans.value, {}) /\ prompts' = ps /\ form' = fm
     /\ UNCHANGED <<wizard, opened>>
  \/ /\ IsStepAnswer(ans)
     /\ wizard' = None /\ prompts' = ps /\ form' = fm
     /\ Tell(wizard.id, "completed", wizard.results \cup {ans.id})
     /\ UNCHANGED opened

(* Mutant of absorb_wizard_answers: the wizard is not over after its last  *)
(* step.                                                                   *)
absorbNoEnd(ans, ps, fm) ==
  /\ prompts' = ps /\ form' = fm /\ UNCHANGED opened
  /\ IF IsStepAnswer(ans)
     THEN wizard' = [wizard EXCEPT !.at = @ + 1] /\ UNCHANGED told
     ELSE Tell(ans.id, ans.value, {}) /\ UNCHANGED wizard

(* An answer has been given, and ps and fm are what it left open: it goes  *)
(* to the host unless it answers the current step of the wizard.           *)
absorb_wizard_answers(ans, ps, fm) ==
  \/ /\ ~IsStepAnswer(ans)
     /\ Tell(ans.id, ans.value, {})
     /\ prompts' = ps /\ form' = fm
     /\ UNCHANGED <<wizard, opened>>
  \/ /\ IsStepAnswer(ans)
     /\ \/ /\ ans.value = "cancelled"
           /\ wizard' = None
           /\ Tell(wizard.id, "cancelled", {})
           /\ prompts' = ps /\ form' = fm
           /\ UNCHANGED opened
        \/ /\ ans.value # "cancelled"
           /\ wizard.at + 1 >= Len(wizard.steps)
           /\ wizard' = None
           /\ Tell(wizard.id, "completed", wizard.results \cup {ans.id})
           /\ prompts' = ps /\ form' = fm
           /\ UNCHANGED opened
        \/ /\ ans.value # "cancelled"
           /\ wizard.at + 1 < Len(wizard.steps)
           /\ show_wizard_step([wizard EXCEPT !.at = @ + 1,
                                              !.results = @ \cup {ans.id}], ps, fm)
           /\ UNCHANGED told

-----------------------------------------------------------------------------
(* Events of the host.                                                     *)

Ask(r) ==
  /\ Len(asked) < MaxAsked
  /\ \A i \in DOMAIN asked : asked[i] # r.id
  /\ asked' = Append(asked, r.id)
  /\ UNCHANGED <<busy, cancels, withdrawn, seen, grants>>

(* PermissionRequested, ShowSelectList, ShowConfirm, ShowForm.             *)
AskQuestion(r) ==
  /\ r.kind # "wizard"
  /\ Ask(r)
  /\ Show(r, r.cancel, prompts, form)
  /\ UNCHANGED <<wizard, told>>

(* ShowWizard; one without steps is complete at once.                      *)
AskWizard(r) ==
  /\ r.kind = "wizard"
  /\ Ask(r)
  /\ \/ /\ r.steps = <<>>
        /\ Tell(r.id, "completed", {})
        /\ UNCHANGED slot
     \/ /\ r.steps # <<>>
        /\ show_wizard_step([id |-> r.id, kind |-> "wizard", cancel |-> r.cancel,
                             steps |-> r.steps, at |-> 0, results |-> {}],
                            prompts, form)
        /\ UNCHANGED told

(* settle(): the turn is over, whoever ended it.                           *)
Settle ==
  /\ prompts' = settled(prompts)
  /\ withdrawn' = withdrawn \cup PermissionIds(prompts)
  /\ busy' = FALSE
  /\ UNCHANGED <<form, wizard, opened>>

HostCancels ==
  /\ cancels < MaxCancels
  /\ cancels' = cancels + 1
  /\ Settle
  /\ UNCHANGED <<told, asked, seen, grants>>

(* StatusUpdate: leaving a busy phase settles; staying idle does nothing.  *)
StatusBusy ==
  /\ ~busy
  /\ busy' = TRUE
  /\ UNCHANGED <<slot, told, cancels, asked, withdrawn, seen, grants>>

StatusIdle ==
  /\ busy
  /\ Settle
  /\ UNCHANGED <<told, cancels, asked, seen, grants>>

-----------------------------------------------------------------------------
(* Frames and time.                                                        *)

(* What live_frame puts in the place of the input box.                     *)
Visible == IF form # None THEN {form.id}
           ELSE IF prompts.open # None THEN {prompts.open.id} ELSE {}

(* Mutant of frame_drawn: a prompt behind a form counts as shown.          *)
frame_drawnBehindForm ==
  prompts' = IF prompts.open = None \/ prompts.open.shown_at # {} THEN prompts
             ELSE [prompts EXCEPT !.open.shown_at = {0}]

frame_drawn ==
  prompts' = IF form # None \/ prompts.open = None \/ prompts.open.shown_at # {}
             THEN prompts ELSE [prompts EXCEPT !.open.shown_at = {0}]

(* A frame reaches the terminal.                                           *)
Draw ==
  /\ frame_drawn
  /\ screen' = IF screen.what = Visible THEN screen ELSE [what |-> Visible, age |-> 0]
  /\ drawn' = [i \in Permissions |->
                 IF i \in Visible /\ drawn[i] = {} THEN {0} ELSE drawn[i]]
  /\ UNCHANGED <<form, wizard, opened, busy, told, cancels, asked, withdrawn, grants>>

(* Time passes: every age that is running grows.                           *)
Grown(p) == [p EXCEPT !.shown_at = {Older(a) : a \in @}]

Tick ==
  /\ prompts' = [open   |-> IF prompts.open = None THEN None ELSE Grown(prompts.open),
                 queued |-> {Grown(p) : p \in prompts.queued}]
  /\ screen' = [screen EXCEPT !.age = Older(@)]
  /\ drawn' = [i \in Permissions |-> {Older(a) : a \in drawn[i]}]
  /\ UNCHANGED <<form, wizard, opened, busy, told, cancels, asked, withdrawn, grants>>

-----------------------------------------------------------------------------
(* Keys: they go to the form if there is one, else to the open prompt.     *)

(* Enter on the last field with nothing required left empty.               *)
SubmitForm ==
  /\ form # None
  /\ absorb_wizard_answers(Response("form", form.id, "values"), prompts, None)
  /\ UNCHANGED <<busy, cancels, asked, withdrawn, seen, grants>>

CancelForm ==
  /\ form # None /\ form.cancel
  /\ absorb_wizard_answers(Response("form", form.id, "cancelled"), prompts, None)
  /\ UNCHANGED <<busy, cancels, asked, withdrawn, seen, grants>>

PromptHasKeys == form = None /\ prompts.open # None

visible_options(p) ==
  IF p.filter = <<>> THEN 0..(p.options - 1) ELSE p.filter[Len(p.filter)]

WithOpen(p) ==
  /\ prompts' = [prompts EXCEPT !.open = p]
  /\ UNCHANGED <<form, wizard, opened, busy, told, cancels, asked, withdrawn, seen, grants>>

(* Up, Down, Tab: the selection moves among the visible options.           *)
MoveSelection ==
  /\ PromptHasKeys /\ armed(prompts.open)
  /\ \E i \in visible_options(prompts.open) :
       WithOpen([prompts.open EXCEPT !.selected = i])

(* A character narrows the list; the selection goes to the best match.     *)
TypeFilter ==
  /\ PromptHasKeys /\ prompts.open.kind = "select" /\ prompts.open.filterable
  /\ Len(prompts.open.filter) < MaxFilter
  /\ \E match \in SUBSET visible_options(prompts.open) :
       \/ /\ match = {}
          /\ WithOpen([prompts.open EXCEPT !.filter = Append(@, match)])
       \/ \E best \in match :
            WithOpen([prompts.open EXCEPT !.filter = Append(@, match),
                                          !.selected = best])

EraseFilter ==
  /\ PromptHasKeys /\ prompts.open.filter # <<>>
  /\ WithOpen([prompts.open EXCEPT !.filter = SubSeq(@, 1, Len(@) - 1)])

(* Which of the options keys can pick: Enter takes the selected one while  *)
(* it is visible, a digit any when the list is not filterable, y and n     *)
(* those of a confirmation.                                                *)
Pickable(p) ==
  {i \in 0..(p.options - 1) :
     \/ i = p.selected /\ i \in visible_options(p)
     \/ ~(p.kind = "select" /\ p.filterable)}

Choice(p, i) ==
  IF ~is_permission(p) THEN "picked"
  ELSE IF i = 0 THEN "allow_once" ELSE IF i = 1 THEN "allow_session" ELSE "deny"

Grant(p, choice) ==
  IF choice \in {"allow_once", "allow_session"}
  THEN grants' = grants \cup {[id |-> p.id, first |-> drawn[p.id], screen |-> screen]}
  ELSE UNCHANGED grants

(* resolve_prompt with an option.                                          *)
Pick ==
  /\ PromptHasKeys /\ armed(prompts.open)
  /\ LET p == prompts.open IN
     \E i \in Pickable(p) :
       /\ Grant(p, Choice(p, i))
       /\ absorb_wizard_answers(Response(p.kind, p.id, Choice(p, i)),
            show_queued_prompt([prompts EXCEPT !.open = None]), None)
  /\ UNCHANGED <<busy, cancels, asked, withdrawn, seen>>

(* Esc or Ctrl+C on a permission request, armed or not: it is denied, the  *)
(* turn interrupted and with it every other request withdrawn.             *)
DenyAndInterrupt ==
  /\ PromptHasKeys /\ is_permission(prompts.open) /\ cancels < MaxCancels
  /\ Tell(prompts.open.id, "deny", {})
  /\ cancels' = cancels + 1
  /\ prompts' = settled([prompts EXCEPT !.open = None])
  /\ withdrawn' = withdrawn \cup (PermissionIds(prompts) \ {prompts.open.id})
  /\ busy' = FALSE
  /\ UNCHANGED <<form, wizard, opened, asked, seen, grants>>

(* Esc or Ctrl+C on another prompt.                                        *)
CancelPrompt ==
  /\ PromptHasKeys /\ ~is_permission(prompts.open) /\ prompts.open.cancel
  /\ absorb_wizard_answers(Response(prompts.open.kind, prompts.open.id, "cancelled"),
       show_queued_prompt([prompts EXCEPT !.open = None]), None)
  /\ UNCHANGED <<busy, cancels, asked, withdrawn, seen, grants>>

(* One that must be answered comes back: a confirmation as it was (nothing *)
(* changes), a select list filterable whatever the host had said.          *)
RefuseCancel ==
  /\ PromptHasKeys /\ ~is_permission(prompts.open) /\ ~prompts.open.cancel
  /\ prompts.open.kind = "select"
  /\ WithOpen([prompts.open EXCEPT !.filterable = TRUE])

(* Esc or Ctrl+C while only the editor is open and a turn is running.      *)
Interrupt ==
  /\ form = None /\ prompts.open = None /\ cancels < MaxCancels
  /\ cancels' = cancels + 1
  /\ Settle
  /\ UNCHANGED <<told, asked, seen, grants>>

-----------------------------------------------------------------------------
Init ==
  /\ prompts = [open |-> None, queued |-> {}]
  /\ form = None /\ wizard = None /\ busy = FALSE /\ opened = 0
  /\ told = [i \in Id |-> <<>>] /\ cancels = 0 /\ asked = <<>> /\ withdrawn = {}
  /\ screen = [what |-> {}, age |-> 0]
  /\ drawn = [i \in Permissions |-> {}]
  /\ grants = {}

Host == \/ \E r \in Requests : AskQuestion(r) \/ AskWizard(r)
        \/ HostCancels \/ StatusBusy \/ StatusIdle
Keys == \/ SubmitForm \/ CancelForm \/ MoveSelection \/ TypeFilter \/ EraseFilter
        \/ Pick \/ DenyAndInterrupt \/ CancelPrompt \/ RefuseCancel \/ Interrupt

Next == Host \/ Keys \/ Draw \/ Tick

Spec == Init /\ [][Next]_vars

-----------------------------------------------------------------------------
Answer == [value: {"allow_once", "allow_session", "deny", "picked", "values",
                   "cancelled", "completed"},
           steps: SUBSET Id]

TypeOK ==
  /\ prompts \in [open: {None} \cup Prompt, queued: SUBSET Prompt]
  /\ form \in {None} \cup Form
  /\ wizard \in {None} \cup Wizard
  /\ wizard # None => wizard.at < Len(wizard.steps)
  /\ busy \in BOOLEAN /\ opened \in Nat /\ cancels \in Nat
  /\ told \in [Id -> Seq(Answer)]
  /\ asked \in Seq(Id) /\ withdrawn \subseteq Id
  /\ screen \in [what: SUBSET Id, age: Ages]
  /\ drawn \in [Permissions -> SUBSET Ages]
  /\ grants \subseteq [id: Id, first: SUBSET Ages, screen: [what: SUBSET Id, age: Ages]]

Asked == {asked[n] : n \in DOMAIN asked}

(* However prompts queue, replace each other, come back or are settled, no *)
(* request (and no wizard) is answered to the host twice.                  *)
AnsweredAtMostOnce == \A i \in Id : Len(told[i]) <= 1

(* A permission request never falls out of the slot and its queue: it is   *)
(* waiting, or answered, or was withdrawn with its turn, and only one of   *)
(* these. "A pending request is never silently replaced."                  *)
PermissionsAccounted ==
  \A i \in Asked \cap Permissions :
    LET waits    == i \in PermissionIds(prompts)
        answered == told[i] # <<>>
        gone     == i \in withdrawn
    IN /\ waits \/ answered \/ gone
       /\ ~(waits /\ answered) /\ ~(waits /\ gone) /\ ~(answered /\ gone)

(* Nothing is left waiting behind an empty slot: whoever closes the open   *)
(* prompt shows the next one, so no request waits for a key nobody can     *)
(* press.                                                                  *)
QueueIsServed == prompts.queued # {} => prompts.open # None

(* Permission requests are put to the user in the order they came: none is *)
(* answered while an earlier one still waits.                              *)
PermissionsInOrder ==
  \A m, n \in DOMAIN asked :
    /\ m < n /\ {asked[m], asked[n]} \subseteq Permissions
    /\ told[asked[n]] # <<>>
    => asked[m] \notin PermissionIds(prompts)

(* A request is granted only after a frame that really showed it had been  *)
(* on the terminal PERMISSION_ARM earlier, however many keys were typed    *)
(* ahead and whatever covered it in between.                               *)
ReadBeforeGranted ==
  \A g \in grants : \E age \in g.first : age >= PERMISSION_ARM

(* The inductive strengthening of the two above and of the types: a prompt *)
(* that is armed was really drawn, by itself, at least as long ago.        *)
ReallyShown(p) ==
  is_permission(p) =>
    /\ p.id \in Permissions
    /\ \A age \in p.shown_at : \E since \in drawn[p.id] : age <= since

PromptsInv ==
  /\ TypeOK
  /\ QueueIsServed
  /\ \A p \in Waiting(prompts) : ReallyShown(p)
  /\ ReadBeforeGranted

(* A wizard is reported complete only with an answer to each of its steps, *)
(* and a step's answer reaches the host by itself only when another wizard *)
(* had taken its wizard's place.                                           *)
WizardsComplete ==
  \A r \in Requests : r.kind = "wizard" =>
    /\ \A n \in DOMAIN told[r.id] :
         told[r.id][n].value = "completed" => told[r.id][n].steps = StepsOf(r)
    /\ \A i \in StepsOf(r) : told[i] # <<>> =>
         /\ told[r.id] = <<>>
         /\ \E q \in Requests : q.kind = "wizard" /\ q # r /\ q.id \in Asked

Service == INSTANCE PermissionQueue WITH
  received <- asked, waiting <- PermissionIds(prompts),
  answered <- {i \in Permissions : told[i] # <<>>}

(* The slot, its queue and what shares them are a queue of permission      *)
(* requests: one step answers the oldest, or withdraws all, or neither,    *)
(* whatever else a key or an event closes, shows and reports in that step. *)
ImplementsPermissionQueue == Service!Spec

(* docs/protocol.md: each request gets exactly one PermissionResponse. The *)
(* part of it that is about safety: a request no longer waiting has it.    *)
ExactlyOneResponse ==
  \A i \in Asked \cap Permissions :
    i \in PermissionIds(prompts) \/ Len(told[i]) = 1

(* docs/protocol.md: the widget only takes an answer once it has been      *)
(* drawn and on screen for 400 ms.                                         *)
GrantedOnScreen ==
  \A g \in grants : g.screen.what = {g.id} /\ g.screen.age >= PERMISSION_ARM
====
