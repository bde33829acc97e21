---------------------------- MODULE PromptsProofs ----------------------------
(***************************************************************************)
(* Proofs about the prompts of a session: for every set of requests, every *)
(* arming delay and every bound, the state is well typed, nothing waits    *)
(* behind an empty slot, and a permission is granted only after a frame    *)
(* that showed it has been up for the arming delay.                        *)
(*                                                                         *)
(* No question is answered twice, no permission request is lost, and they  *)
(* are put to the user in the order they came. The invariant of this is    *)
(* stated of values, not of the variables: a key closes a prompt, tells    *)
(* the host and shows the next question in one step, and the proof follows *)
(* it through the states in between.                                       *)
(*                                                                         *)
(* With it the session's prompts implement the queue of permission         *)
(* requests: which requests wait follows from what was received, answered  *)
(* and withdrawn, so a step need only be followed through these three.     *)
(*                                                                         *)
(* Of wizards it is shown that their report is complete: the answers of a  *)
(* wizard that runs are those of the steps behind it, and a step left when *)
(* its wizard was displaced answers for itself.                            *)
(***************************************************************************)
EXTENDS Prompts, TLAPS, WellFoundedInduction

PromptState == [open: {None} \cup Prompt, queued: SUBSET Prompt]
Served(ps)  == ps.queued # {} => ps.open # None

(* Two states of one prompt between which it was not drawn.                *)
Kin(p, q) == p.id = q.id /\ p.kind = q.kind /\ p.shown_at = q.shown_at

(* Every prompt of ps2 was in ps, or has never been drawn.                 *)
Derived(ps2, ps) ==
  \A p \in Waiting(ps2) :
    \/ \E q \in Waiting(ps) : Kin(p, q)
    \/ p.shown_at = {} /\ (is_permission(p) => p.id \in Permissions)

-----------------------------------------------------------------------------
(* A non-empty set of numbers has a least element.                         *)
LEMMA NatMin ==
  ASSUME NEW T, T \subseteq Nat, T # {}
  PROVE  \E x \in T : \A y \in T : x <= y
<1> DEFINE R == {ss \in Nat \X Nat : ss[1] < ss[2]}
<1>1. IsWellFoundedOn(R, Nat)
  BY NatLessThanWellFounded, Zenon DEF OpToRel
<1> HIDE DEF R
<1>2. PICK x \in T : \A y \in T : ~(<<y, x>> \in R)
  BY <1>1, WFMin, Zenon
<1>3. \A y \in T : ~(y < x)
  BY <1>2 DEF R
<1>4. QED BY <1>3

(* A prompt is not the empty slot.                                         *)
LEMMA PromptIsSome == \A p \in Prompt : p # None
<1>1. SUFFICES ASSUME NEW p \in Prompt, p = None PROVE FALSE
  OBVIOUS
<1>2. p.kind = "none"
  BY <1>1 DEF None
<1>3. p.kind \in PromptKinds
  BY DEF Prompt
<1>4. QED BY <1>2, <1>3 DEF PromptKinds

(* The front of a queue is in it.                                          *)
LEMMA FrontIsQueued ==
  ASSUME NEW Q \in SUBSET Prompt, Q # {}
  PROVE  Front(Q) \in Q
<1> DEFINE T == {p.no : p \in Q}
<1>1. T \subseteq Nat /\ T # {}
  BY DEF Prompt
<1>2. PICK n \in T : \A m \in T : n <= m
  BY <1>1, NatMin
<1>3. \E p \in Q : \A q \in Q : p.no <= q.no
  BY <1>2
<1>4. QED BY <1>3 DEF Front

(* Showing the next prompt keeps the set of waiting prompts, and serves it.*)
LEMMA ShowQueued ==
  ASSUME NEW ps \in PromptState
  PROVE  /\ show_queued_prompt(ps) \in PromptState
         /\ Served(show_queued_prompt(ps))
         /\ Waiting(show_queued_prompt(ps)) = Waiting(ps)
<1>1. ps.open \in {None} \cup Prompt /\ ps.queued \in SUBSET Prompt
  BY DEF PromptState
<1>2. CASE ps.open = None /\ ps.queued # {}
  <2>1. Front(ps.queued) \in ps.queued
    BY <1>1, <1>2, FrontIsQueued
  <2>2. Front(ps.queued) # None
    BY <1>1, <2>1, PromptIsSome
  <2>3. QED BY <1>1, <1>2, <2>1, <2>2
          DEF show_queued_prompt, PromptState, Served, Waiting
<1>3. CASE ~(ps.open = None /\ ps.queued # {})
  BY <1>1, <1>3 DEF show_queued_prompt, PromptState, Served, Waiting
<1>4. QED BY <1>2, <1>3

(* Opening a prompt adds it to those that wait, and replaces or queues.    *)
LEMMA OpenPrompt ==
  ASSUME NEW ps \in PromptState, NEW p \in Prompt
  PROVE  /\ open_prompt(ps, p) \in PromptState
         /\ Served(ps) => Served(open_prompt(ps, p))
         /\ Waiting(open_prompt(ps, p)) \subseteq Waiting(ps) \cup {p}
<1>1. ps.open \in {None} \cup Prompt /\ ps.queued \in SUBSET Prompt /\ p # None
  BY PromptIsSome DEF PromptState
<1>2. QED BY <1>1 DEF open_prompt, PromptState, Served, Waiting

(* Settling keeps only prompts that waited, and serves them.               *)
LEMMA Settling ==
  ASSUME NEW ps \in PromptState
  PROVE  /\ settled(ps) \in PromptState
         /\ Served(settled(ps))
         /\ Waiting(settled(ps)) \subseteq Waiting(ps)
<1> DEFINE qs == [open   |-> IF ps.open # None /\ is_permission(ps.open)
                             THEN None ELSE ps.open,
                  queued |-> {p \in ps.queued : ~is_permission(p)}]
<1>1. ps.open \in {None} \cup Prompt /\ ps.queued \in SUBSET Prompt
  BY DEF PromptState
<1>2. qs \in PromptState /\ Waiting(qs) \subseteq Waiting(ps)
  BY <1>1 DEF PromptState, Waiting
<1>3. settled(ps) = show_queued_prompt(qs)
  BY DEF settled
<1> HIDE DEF qs
<1>4. QED BY <1>2, <1>3, ShowQueued

(* Taking the open prompt out leaves prompts that waited.                  *)
LEMMA TakeOpen ==
  ASSUME NEW ps \in PromptState
  PROVE  /\ [ps EXCEPT !.open = None] \in PromptState
         /\ Waiting([ps EXCEPT !.open = None]) \subseteq Waiting(ps)
BY DEF PromptState, Waiting

(* Derived is kept by subsets and composes with one new prompt.            *)
LEMMA DerivedSubset ==
  ASSUME NEW ps, NEW qs, Waiting(qs) \subseteq Waiting(ps)
  PROVE  Derived(qs, ps)
BY DEF Derived, Kin

(* A question other than a form makes a prompt that was never drawn.       *)
LEMMA PromptOfType ==
  ASSUME NEW q \in Question, q.kind # "form", NEW c \in BOOLEAN, NEW n \in Nat,
         q.kind = "permission" => q.id \in Permissions
  PROVE  /\ PromptOf(q, c, n) \in Prompt
         /\ PromptOf(q, c, n).shown_at = {}
         /\ is_permission(PromptOf(q, c, n)) => PromptOf(q, c, n).id \in Permissions
BY DEF PromptOf, Prompt, Question, is_permission

-----------------------------------------------------------------------------
(* What showing a question does to the slot, the queue and the form.       *)
LEMMA Showing ==
  ASSUME NEW q \in Question, NEW c \in BOOLEAN, NEW ps \in PromptState,
         NEW fm \in {None} \cup Form, opened \in Nat,
         q.kind = "permission" => q.id \in Permissions,
         Show(q, c, ps, fm)
  PROVE  /\ prompts' \in PromptState /\ form' \in {None} \cup Form /\ opened' \in Nat
         /\ Served(ps) => Served(prompts')
         /\ Derived(prompts', ps)
<1>1. CASE q.kind = "form"
  <2>1. prompts' = ps /\ form' = [id |-> q.id, kind |-> "form", cancel |-> c]
        /\ opened' = opened
    BY <1>1 DEF Show
  <2>2. form' \in Form
    BY <2>1 DEF Form, Question
  <2>3. QED BY <2>1, <2>2, DerivedSubset
<1>2. CASE q.kind # "form"
  <2> DEFINE p == PromptOf(q, c, opened)
  <2>1. p \in Prompt /\ p.shown_at = {} /\ (is_permission(p) => p.id \in Permissions)
    BY <1>2, PromptOfType
  <2>2. prompts' = open_prompt(ps, p) /\ form' = fm /\ opened' = opened + 1
    BY <1>2 DEF Show
  <2> HIDE DEF p
  <2>3. /\ prompts' \in PromptState
        /\ Served(ps) => Served(prompts')
        /\ Waiting(prompts') \subseteq Waiting(ps) \cup {p}
    BY <2>1, <2>2, OpenPrompt
  <2>4. Derived(prompts', ps)
    BY <2>1, <2>3 DEF Derived, Kin
  <2>5. QED BY <2>2, <2>3, <2>4
<1>3. QED BY <1>1, <1>2

(* What a request of the host is.                                          *)
LEMMA RequestKinds ==
  ASSUME NEW r \in Requests
  PROVE  /\ r.kind # "wizard" => r \in Question
         /\ r.kind = "wizard" => r \in WizardRequest
         /\ r.kind = "permission" => r.id \in Permissions
<1>1. r \in Question \/ r \in WizardRequest
  BY RequestsAssumption
<1>2. r \in Question => r.kind # "wizard"
  BY DEF Question, PromptKinds
<1>3. r \in WizardRequest => r.kind = "wizard"
  BY DEF WizardRequest
<1>4. QED BY <1>1, <1>2, <1>3 DEF Permissions

(* A wizard whose steps are not over shows the current one.                *)
LEMMA ShowingStep ==
  ASSUME NEW w \in Wizard, w.at < Len(w.steps), NEW ps \in PromptState,
         NEW fm \in {None} \cup Form, opened \in Nat,
         show_wizard_step(w, ps, fm)
  PROVE  /\ wizard' \in {None} \cup Wizard
         /\ wizard' # None => wizard'.at < Len(wizard'.steps)
         /\ prompts' \in PromptState /\ form' \in {None} \cup Form /\ opened' \in Nat
         /\ Served(ps) => Served(prompts')
         /\ Derived(prompts', ps)
<1>1. w.steps \in Seq(Step) /\ w.at \in Nat /\ w.cancel \in BOOLEAN
  BY DEF Wizard
<1>2. w.at + 1 \in 1..Len(w.steps)
  BY <1>1
<1>3. CurrentStep(w) \in Step
  BY <1>1, <1>2 DEF CurrentStep
<1>4. CurrentStep(w) \in Question /\ CurrentStep(w).kind # "permission"
  BY <1>3 DEF Step, Question, PromptKinds
<1>5. wizard' = w /\ Show(CurrentStep(w), w.cancel, ps, fm)
  BY DEF show_wizard_step
<1>6. /\ prompts' \in PromptState /\ form' \in {None} \cup Form /\ opened' \in Nat
      /\ Served(ps) => Served(prompts')
      /\ Derived(prompts', ps)
  BY <1>1, <1>4, <1>5, Showing
<1>7. QED BY <1>5, <1>6

AnswerValue == {"allow_once", "allow_session", "deny", "picked", "values",
                "cancelled", "completed"}

(* Telling the host an answer keeps the record of answers well typed.      *)
LEMMA Telling ==
  ASSUME told \in [Id -> Seq(Answer)], NEW i \in Id, NEW v \in AnswerValue,
         NEW st \in SUBSET Id, Tell(i, v, st)
  PROVE  told' \in [Id -> Seq(Answer)]
<1> DEFINE a == [value |-> v, steps |-> st]
<1>1. a \in Answer
  BY DEF Answer, AnswerValue
<1>2. told' = [told EXCEPT ![i] = Append(told[i], a)]
  BY DEF Tell
<1> HIDE DEF a
<1>3. Append(told[i], a) \in Seq(Answer)
  BY <1>1
<1>4. QED BY <1>2, <1>3

(* An answer goes to the host or to the wizard, which may show a step.     *)
LEMMA Absorbing ==
  ASSUME TypeOK, NEW k \in PromptKinds \cup {"form"}, NEW i \in Id,
         NEW v \in AnswerValue, NEW ps \in PromptState,
         absorb_wizard_answers(Response(k, i, v), ps, None)
  PROVE  /\ wizard' \in {None} \cup Wizard
         /\ wizard' # None => wizard'.at < Len(wizard'.steps)
         /\ prompts' \in PromptState /\ form' \in {None} \cup Form /\ opened' \in Nat
         /\ told' \in [Id -> Seq(Answer)]
         /\ Served(ps) => Served(prompts')
         /\ Derived(prompts', ps)
<1> DEFINE ans == Response(k, i, v)
<1>a. ans.id = i /\ ans.value = v /\ ans.kind = k
  BY DEF Response
<1>b. /\ told \in [Id -> Seq(Answer)] /\ opened \in Nat
      /\ wizard \in {None} \cup Wizard
      /\ wizard # None => wizard.at < Len(wizard.steps)
      /\ absorb_wizard_answers(ans, ps, None)
  BY DEF TypeOK
<1> HIDE DEF ans
<1>1. CASE ~IsStepAnswer(ans)
  <2>1. Tell(i, v, {}) /\ prompts' = ps /\ form' = None /\ wizard' = wizard /\ opened' = opened
    BY <1>1, <1>a, <1>b DEF absorb_wizard_answers
  <2>2. told' \in [Id -> Seq(Answer)]
    BY <2>1, <1>b, Telling
  <2>3. QED BY <2>1, <2>2, <1>b, DerivedSubset
<1>2. CASE IsStepAnswer(ans)
  <2>1. wizard \in Wizard /\ wizard.id \in Id /\ wizard.results \subseteq Id
    BY <1>2, <1>b DEF IsStepAnswer, Wizard
  <2>2. CASE /\ ans.value = "cancelled" /\ wizard' = None
             /\ Tell(wizard.id, "cancelled", {})
             /\ prompts' = ps /\ form' = None /\ opened' = opened
    <3>1. told' \in [Id -> Seq(Answer)]
      BY <2>1, <2>2, <1>b, Telling DEF AnswerValue
    <3>2. QED BY <2>2, <3>1, <1>b, DerivedSubset
  <2>3. CASE /\ wizard' = None
             /\ Tell(wizard.id, "completed", wizard.results \cup {ans.id})
             /\ prompts' = ps /\ form' = None /\ opened' = opened
    <3>1. told' \in [Id -> Seq(Answer)]
      BY <2>1, <2>3, <1>a, <1>b, Telling DEF AnswerValue
    <3>2. QED BY <2>3, <3>1, <1>b, DerivedSubset
  <2>4. CASE /\ wizard.at + 1 < Len(wizard.steps)
             /\ show_wizard_step([wizard EXCEPT !.at = @ + 1,
                                                !.results = @ \cup {ans.id}], ps, None)
             /\ told' = told
    <3> DEFINE w == [wizard EXCEPT !.at = @ + 1, !.results = @ \cup {ans.id}]
    <3> DEFINE u == [wizard EXCEPT !.at = @ + 1]
    <3>a. u \in Wizard /\ u.at = wizard.at + 1 /\ u.steps = wizard.steps
          /\ u.results = wizard.results
      BY <2>1 DEF Wizard
    <3>b. w = [u EXCEPT !.results = u.results \cup {i}]
      BY <1>a, <3>a
    <3> HIDE DEF u
    <3>1. w \in Wizard /\ w.at = wizard.at + 1 /\ w.steps = wizard.steps
      <4> HIDE DEF w
      <4>1. QED BY <3>a, <3>b, <2>1 DEF Wizard
    <3>2. show_wizard_step(w, ps, None)
      BY <2>4
    <3> HIDE DEF w
    <3>3. w.at < Len(w.steps)
      BY <3>1, <2>4
    <3>4. /\ wizard' \in {None} \cup Wizard
          /\ wizard' # None => wizard'.at < Len(wizard'.steps)
          /\ prompts' \in PromptState /\ form' \in {None} \cup Form /\ opened' \in Nat
          /\ Served(ps) => Served(prompts')
          /\ Derived(prompts', ps)
      BY <3>1, <3>2, <3>3, <1>b, ShowingStep
    <3>5. QED BY <3>4, <2>4, <1>b
  <2>5. QED BY <2>2, <2>3, <2>4, <1>2, <1>b DEF absorb_wizard_answers
<1>3. QED BY <1>1, <1>2

-----------------------------------------------------------------------------
(* Keys that only edit the open prompt keep its id, kind and age.          *)
LEMMA Editing ==
  ASSUME TypeOK, prompts.open # None, NEW p \in Prompt, Kin(p, prompts.open),
         WithOpen(p)
  PROVE  /\ prompts' \in PromptState
         /\ Served(prompts')
         /\ Derived(prompts', prompts)
<1>1. prompts \in PromptState
  BY DEF TypeOK, PromptState
<1>2. prompts' = [prompts EXCEPT !.open = p] /\ p # None
  BY PromptIsSome DEF WithOpen
<1>3. prompts' \in PromptState /\ prompts'.open = p /\ prompts'.queued = prompts.queued
  BY <1>1, <1>2 DEF PromptState
<1>4. \A q \in Waiting(prompts') : q = p \/ q \in Waiting(prompts)
  BY <1>3 DEF Waiting
<1>5. prompts.open \in Waiting(prompts)
  BY DEF Waiting
<1>6. \A q : Kin(q, q)
  BY DEF Kin
<1>7. QED BY <1>2, <1>3, <1>4, <1>5, <1>6 DEF Served, Derived

(* An edit leaves the prompt's id, kind, age and number.                   *)
Edit(p, q) == Kin(p, q) /\ p.no = q.no

LEMMA Edits ==
  ASSUME TypeOK, MoveSelection \/ TypeFilter \/ EraseFilter \/ RefuseCancel
  PROVE  /\ prompts.open \in Prompt /\ prompts.open # None
         /\ \E q \in Prompt : Edit(q, prompts.open) /\ WithOpen(q)
<1>1. prompts.open \in Prompt /\ prompts.open # None
  BY DEF MoveSelection, TypeFilter, EraseFilter, RefuseCancel, PromptHasKeys, TypeOK
<1> DEFINE p == prompts.open
<1>2. p.filter \in Seq(SUBSET Nat) /\ p.options \in Nat
  BY <1>1 DEF Prompt
<1>3. visible_options(p) \in SUBSET Nat
  BY <1>2 DEF visible_options
<1>4. \E q \in Prompt : Edit(q, p) /\ WithOpen(q)
  <2>1. CASE MoveSelection
    <3>1. PICK i \in visible_options(p) : WithOpen([p EXCEPT !.selected = i])
      BY <2>1 DEF MoveSelection
    <3>2. [p EXCEPT !.selected = i] \in Prompt /\ Edit([p EXCEPT !.selected = i], p)
      BY <1>1, <1>3 DEF Prompt, Edit, Kin
    <3>3. QED BY <3>1, <3>2
  <2>2. CASE TypeFilter
    <3>1. PICK match \in SUBSET visible_options(p) :
            \/ WithOpen([p EXCEPT !.filter = Append(@, match)])
            \/ \E best \in match :
                 WithOpen([p EXCEPT !.filter = Append(@, match), !.selected = best])
      BY <2>2 DEF TypeFilter
    <3> DEFINE f == Append(p.filter, match)
    <3>2. f \in Seq(SUBSET Nat)
      BY <1>2, <1>3
    <3>3. \/ WithOpen([p EXCEPT !.filter = f])
          \/ \E best \in match : WithOpen([p EXCEPT !.filter = f, !.selected = best])
      BY <3>1
    <3> HIDE DEF f
    <3>4. [p EXCEPT !.filter = f] \in Prompt /\ Edit([p EXCEPT !.filter = f], p)
      BY <1>1, <3>2 DEF Prompt, Edit, Kin
    <3> DEFINE g == [p EXCEPT !.filter = f]
    <3>5. g \in Prompt /\ Edit(g, p)
      BY <3>4
    <3>6. \A best : [p EXCEPT !.filter = f, !.selected = best] = [g EXCEPT !.selected = best]
      OBVIOUS
    <3> HIDE DEF g
    <3>7. \A best \in match : /\ [g EXCEPT !.selected = best] \in Prompt
                              /\ Edit([g EXCEPT !.selected = best], p)
      BY <3>5, <1>3 DEF Prompt, Edit, Kin
    <3>8. QED BY <3>3, <3>4, <3>6, <3>7
  <2>3. CASE EraseFilter
    <3> DEFINE f == SubSeq(p.filter, 1, Len(p.filter) - 1)
    <3>1. p.filter # <<>> /\ WithOpen([p EXCEPT !.filter = f])
      BY <2>3 DEF EraseFilter
    <3>2. f \in Seq(SUBSET Nat)
      BY <1>2, <3>1
    <3> HIDE DEF f
    <3>3. [p EXCEPT !.filter = f] \in Prompt /\ Edit([p EXCEPT !.filter = f], p)
      BY <1>1, <3>2 DEF Prompt, Edit, Kin
    <3>4. QED BY <3>1, <3>3
  <2>4. CASE RefuseCancel
    <3>1. WithOpen([p EXCEPT !.filterable = TRUE])
      BY <2>4 DEF RefuseCancel
    <3>2. [p EXCEPT !.filterable = TRUE] \in Prompt /\ Edit([p EXCEPT !.filterable = TRUE], p)
      BY <1>1 DEF Prompt, Edit, Kin
    <3>3. QED BY <3>1, <3>2
  <2>5. QED BY <2>1, <2>2, <2>3, <2>4
<1> QED BY <1>1, <1>4

(* Derived composes with a set of prompts that all waited before.          *)
LEMMA DerivedFrom ==
  ASSUME NEW ps, NEW qs, NEW rs, Derived(ps, qs), Waiting(qs) \subseteq Waiting(rs)
  PROVE  Derived(ps, rs)
BY DEF Derived

(* Closing the open prompt and showing the next one.                       *)
LEMMA Closing ==
  ASSUME NEW ps \in PromptState
  PROVE  LET qs == show_queued_prompt([ps EXCEPT !.open = None])
         IN  qs \in PromptState /\ Served(qs) /\ Waiting(qs) \subseteq Waiting(ps)
<1> DEFINE es == [ps EXCEPT !.open = None]
<1>1. es \in PromptState /\ Waiting(es) \subseteq Waiting(ps)
  BY TakeOpen
<1> HIDE DEF es
<1>2. /\ show_queued_prompt(es) \in PromptState
      /\ Served(show_queued_prompt(es))
      /\ Waiting(show_queued_prompt(es)) = Waiting(es)
  BY <1>1, ShowQueued
<1>3. QED BY <1>1, <1>2 DEF es

(* Every event of the host and every key leaves the slot, the queue, the   *)
(* form, the wizard and the answers well typed, serves the queue, and adds *)
(* no prompt that could count as drawn.                                    *)
LEMMA SlotStep ==
  ASSUME TypeOK, Served(prompts), Host \/ Keys
  PROVE  /\ prompts' \in PromptState /\ form' \in {None} \cup Form
         /\ wizard' \in {None} \cup Wizard
         /\ wizard' # None => wizard'.at < Len(wizard'.steps)
         /\ opened' \in Nat /\ told' \in [Id -> Seq(Answer)]
         /\ Served(prompts')
         /\ Derived(prompts', prompts)
         /\ screen' = screen /\ drawn' = drawn
<1> DEFINE Goal == /\ prompts' \in PromptState /\ form' \in {None} \cup Form
                   /\ wizard' \in {None} \cup Wizard
                   /\ wizard' # None => wizard'.at < Len(wizard'.steps)
                   /\ opened' \in Nat /\ told' \in [Id -> Seq(Answer)]
                   /\ Served(prompts')
                   /\ Derived(prompts', prompts)
                   /\ screen' = screen /\ drawn' = drawn
<1>a. /\ prompts \in PromptState /\ form \in {None} \cup Form
      /\ wizard \in {None} \cup Wizard
      /\ wizard # None => wizard.at < Len(wizard.steps)
      /\ opened \in Nat /\ told \in [Id -> Seq(Answer)]
  BY DEF TypeOK, PromptState
<1>b. Derived(prompts, prompts)
  BY DerivedSubset
<1>c. prompts.open # None => prompts.open \in Prompt
  BY <1>a DEF PromptState
<1>d. \A q \in Prompt : q.id \in Id /\ q.kind \in PromptKinds
  BY DEF Prompt
<1>e. form # None => form.id \in Id
  BY <1>a DEF Form
<1>1. ASSUME NEW r \in Requests, AskQuestion(r) PROVE Goal
  <2>1. r \in Question /\ (r.kind = "permission" => r.id \in Permissions)
    BY <1>1, RequestKinds DEF AskQuestion
  <2>2. r.cancel \in BOOLEAN
    BY <2>1 DEF Question
  <2>3. Show(r, r.cancel, prompts, form)
    BY <1>1 DEF AskQuestion
  <2>4. /\ prompts' \in PromptState /\ form' \in {None} \cup Form /\ opened' \in Nat
        /\ Served(prompts) => Served(prompts')
        /\ Derived(prompts', prompts)
    BY <2>1, <2>2, <2>3, <1>a, Showing
  <2>5. UNCHANGED <<wizard, told, screen, drawn>>
    BY <1>1 DEF AskQuestion, Ask, seen
  <2>6. QED BY <2>4, <2>5, <1>a
<1>2. ASSUME NEW r \in Requests, AskWizard(r) PROVE Goal
  <2>1. r \in WizardRequest
    BY <1>2, RequestKinds DEF AskWizard
  <2>2. r.id \in Id /\ r.steps \in Seq(Step) /\ r.cancel \in BOOLEAN
    BY <2>1 DEF WizardRequest
  <2>3. UNCHANGED <<screen, drawn>>
    BY <1>2 DEF AskWizard, Ask, seen
  <2>4. CASE /\ Tell(r.id, "completed", {}) /\ UNCHANGED slot
    <3>1. told' \in [Id -> Seq(Answer)]
      BY <2>2, <2>4, <1>a, Telling DEF AnswerValue
    <3>2. UNCHANGED <<prompts, form, wizard, opened>>
      BY <2>4 DEF slot
    <3>3. QED BY <3>1, <3>2, <2>3, <1>a, <1>b
  <2>5. CASE /\ r.steps # <<>> /\ told' = told
             /\ show_wizard_step([id |-> r.id, kind |-> "wizard", cancel |-> r.cancel,
                                  steps |-> r.steps, at |-> 0, results |-> {}],
                                 prompts, form)
    <3> DEFINE w == [id |-> r.id, kind |-> "wizard", cancel |-> r.cancel,
                     steps |-> r.steps, at |-> 0, results |-> {}]
    <3>1. w \in Wizard /\ w.at = 0 /\ w.steps = r.steps
      BY <2>2 DEF Wizard
    <3>2. show_wizard_step(w, prompts, form)
      BY <2>5
    <3> HIDE DEF w
    <3>3. w.at < Len(w.steps)
      BY <3>1, <2>2, <2>5
    <3>4. /\ wizard' \in {None} \cup Wizard
          /\ wizard' # None => wizard'.at < Len(wizard'.steps)
          /\ prompts' \in PromptState /\ form' \in {None} \cup Form /\ opened' \in Nat
          /\ Served(prompts) => Served(prompts')
          /\ Derived(prompts', prompts)
      BY <3>1, <3>2, <3>3, <1>a, ShowingStep
    <3>5. QED BY <3>4, <2>3, <2>5, <1>a
  <2>6. QED BY <2>4, <2>5, <1>2 DEF AskWizard
<1>3. ASSUME HostCancels \/ StatusIdle \/ Interrupt PROVE Goal
  <2>1. Settle /\ UNCHANGED <<told, screen, drawn>>
    BY <1>3 DEF HostCancels, StatusIdle, Interrupt, seen
  <2>2. prompts' = settled(prompts) /\ UNCHANGED <<form, wizard, opened>>
    BY <2>1 DEF Settle
  <2>3. QED BY <2>1, <2>2, <1>a, Settling, DerivedSubset
<1>4. ASSUME StatusBusy PROVE Goal
  BY <1>4, <1>a, <1>b DEF StatusBusy, slot, seen
<1>5. ASSUME SubmitForm \/ CancelForm PROVE Goal
  <2>1. \E v \in {"values", "cancelled"} :
          absorb_wizard_answers(Response("form", form.id, v), prompts, None)
    BY <1>5 DEF SubmitForm, CancelForm
  <2>2. PICK v \in {"values", "cancelled"} :
          absorb_wizard_answers(Response("form", form.id, v), prompts, None)
    BY <2>1
  <2>3. v \in AnswerValue /\ form.id \in Id
    BY <1>5, <1>e DEF AnswerValue, SubmitForm, CancelForm
  <2>4. UNCHANGED <<screen, drawn>>
    BY <1>5 DEF SubmitForm, CancelForm, seen
  <2>5. /\ wizard' \in {None} \cup Wizard
        /\ wizard' # None => wizard'.at < Len(wizard'.steps)
        /\ prompts' \in PromptState /\ form' \in {None} \cup Form /\ opened' \in Nat
        /\ told' \in [Id -> Seq(Answer)]
        /\ Served(prompts) => Served(prompts')
        /\ Derived(prompts', prompts)
    BY <2>2, <2>3, <1>a, Absorbing
  <2>6. QED BY <2>4, <2>5
<1>6. ASSUME Pick \/ CancelPrompt PROVE Goal
  <2> DEFINE qs == show_queued_prompt([prompts EXCEPT !.open = None])
  <2>1. qs \in PromptState /\ Served(qs) /\ Waiting(qs) \subseteq Waiting(prompts)
    BY <1>a, Closing
  <2>2. prompts.open \in Prompt
    BY <1>6, <1>c DEF Pick, CancelPrompt, PromptHasKeys
  <2>3. \E v \in AnswerValue :
          absorb_wizard_answers(
            Response(prompts.open.kind, prompts.open.id, v), qs, None)
    <3>1. CASE CancelPrompt
      BY <3>1 DEF CancelPrompt, AnswerValue
    <3>2. CASE Pick
      <4>1. \A i : Choice(prompts.open, i) \in AnswerValue
        BY DEF Choice, AnswerValue
      <4>2. QED BY <3>2, <4>1 DEF Pick
    <3>3. QED BY <3>1, <3>2, <1>6
  <2> HIDE DEF qs
  <2>4. PICK v \in AnswerValue :
          absorb_wizard_answers(
            Response(prompts.open.kind, prompts.open.id, v), qs, None)
    BY <2>3
  <2>5. UNCHANGED <<screen, drawn>>
    BY <1>6 DEF Pick, CancelPrompt, seen
  <2>6. /\ wizard' \in {None} \cup Wizard
        /\ wizard' # None => wizard'.at < Len(wizard'.steps)
        /\ prompts' \in PromptState /\ form' \in {None} \cup Form /\ opened' \in Nat
        /\ told' \in [Id -> Seq(Answer)]
        /\ Served(qs) => Served(prompts')
        /\ Derived(prompts', qs)
    BY <2>1, <2>2, <2>4, <1>d, Absorbing
  <2>7. Derived(prompts', prompts)
    BY <2>1, <2>6, DerivedFrom
  <2>8. QED BY <2>1, <2>5, <2>6, <2>7
<1>7. ASSUME MoveSelection \/ TypeFilter \/ EraseFilter \/ RefuseCancel PROVE Goal
  <2>1. prompts.open # None
    BY <1>7, Edits
  <2>2. PICK q \in Prompt : Kin(q, prompts.open) /\ WithOpen(q)
    BY <1>7, Edits DEF Edit
  <2>3. /\ prompts' \in PromptState
        /\ Served(prompts')
        /\ Derived(prompts', prompts)
    BY <2>1, <2>2, Editing
  <2>4. UNCHANGED <<form, wizard, opened, told, screen, drawn>>
    BY <2>2 DEF WithOpen, seen
  <2>5. QED BY <2>3, <2>4, <1>a
<1>8. ASSUME DenyAndInterrupt PROVE Goal
  <2> DEFINE es == [prompts EXCEPT !.open = None]
  <2>1. es \in PromptState /\ Waiting(es) \subseteq Waiting(prompts)
    BY <1>a, TakeOpen
  <2>2. prompts' = settled(es) /\ UNCHANGED <<form, wizard, opened, screen, drawn>>
    BY <1>8 DEF DenyAndInterrupt, seen
  <2> HIDE DEF es
  <2>3. prompts' \in PromptState /\ Served(prompts') /\ Waiting(prompts') \subseteq Waiting(es)
    BY <2>1, <2>2, Settling
  <2>4. Derived(prompts', prompts)
    BY <2>1, <2>3, DerivedSubset
  <2>5. prompts.open.id \in Id /\ Tell(prompts.open.id, "deny", {})
    BY <1>8, <1>c, <1>d DEF DenyAndInterrupt, PromptHasKeys
  <2>6. told' \in [Id -> Seq(Answer)]
    BY <2>5, <1>a, Telling DEF AnswerValue
  <2>7. QED BY <2>2, <2>3, <2>4, <2>6, <1>a
<1>9. QED BY <1>1, <1>2, <1>3, <1>4, <1>5, <1>6, <1>7, <1>8 DEF Host, Keys

-----------------------------------------------------------------------------
(* Ages grow together and stay in range.                                   *)
LEMMA OlderAges ==
  /\ \A a \in Ages : Older(a) \in Ages
  /\ \A a, b \in Ages : a <= b => Older(a) <= Older(b)
BY BoundsAssumption DEF Ages, Older

(* A prompt only grows older.                                              *)
LEMMA GrownType ==
  ASSUME NEW p \in Prompt
  PROVE  /\ Grown(p) \in Prompt /\ Grown(p).id = p.id /\ Grown(p).kind = p.kind
         /\ Grown(p).shown_at = {Older(a) : a \in p.shown_at}
<1> DEFINE s == {Older(a) : a \in p.shown_at}
<1>1. p.shown_at \subseteq Ages
  BY DEF Prompt
<1>2. s \subseteq Ages
  BY <1>1, OlderAges
<1>3. Grown(p) = [p EXCEPT !.shown_at = s]
  BY DEF Grown
<1> HIDE DEF s
<1>4. /\ Grown(p) \in Prompt /\ Grown(p).id = p.id /\ Grown(p).kind = p.kind
      /\ Grown(p).shown_at = s
  BY <1>2, <1>3 DEF Prompt
<1>5. QED BY <1>4 DEF s

(* The prompts a Tick leaves are those that waited, each a little older.   *)
LEMMA TickPrompts ==
  ASSUME TypeOK, Tick
  PROVE  /\ prompts' \in PromptState
         /\ Served(prompts) => Served(prompts')
         /\ \A p \in Waiting(prompts') : \E q \in Waiting(prompts) : p = Grown(q)
<1>1. prompts.open \in {None} \cup Prompt /\ prompts.queued \in SUBSET Prompt
  BY DEF TypeOK
<1>2. prompts' = [open   |-> IF prompts.open = None THEN None ELSE Grown(prompts.open),
                  queued |-> {Grown(p) : p \in prompts.queued}]
  BY DEF Tick
<1>3. /\ prompts'.open = IF prompts.open = None THEN None ELSE Grown(prompts.open)
      /\ prompts'.queued = {Grown(p) : p \in prompts.queued}
  BY <1>2
<1>4. \A p \in Prompt : Grown(p) \in Prompt /\ Grown(p) # None
  BY GrownType, PromptIsSome
<1>5. prompts' \in PromptState
  <2>1. prompts'.open \in {None} \cup Prompt
    BY <1>1, <1>3, <1>4
  <2>2. prompts'.queued \in SUBSET Prompt
    BY <1>1, <1>3, <1>4
  <2>3. QED BY <1>2, <2>1, <2>2 DEF PromptState
<1>6. Served(prompts) => Served(prompts')
  BY <1>1, <1>3, <1>4 DEF Served
<1>7. \A p \in Waiting(prompts') : \E q \in Waiting(prompts) : p = Grown(q)
  BY <1>1, <1>3, <1>4 DEF Waiting
<1>8. QED BY <1>5, <1>6, <1>7

(* A frame stamps the open prompt, if it is the one in the frame.          *)
LEMMA DrawPrompts ==
  ASSUME TypeOK, Draw
  PROVE  /\ prompts' \in PromptState
         /\ Served(prompts) => Served(prompts')
         /\ \A p \in Waiting(prompts') :
              \/ p \in Waiting(prompts)
              \/ /\ p.shown_at = {0} /\ p.id \in Visible
                 /\ \E q \in Waiting(prompts) : p.id = q.id /\ p.kind = q.kind
<1>1. prompts \in PromptState
  BY DEF TypeOK, PromptState
<1>2. CASE prompts' = prompts
  BY <1>1, <1>2
<1>3. CASE prompts' # prompts
  <2> DEFINE p == [prompts.open EXCEPT !.shown_at = {0}]
  <2>1. form = None /\ prompts.open # None /\ prompts' = [prompts EXCEPT !.open = p]
    BY <1>3 DEF Draw, frame_drawn
  <2>2. prompts.open \in Prompt /\ 0 \in Ages
    BY <1>1, <2>1, BoundsAssumption DEF PromptState, Ages
  <2>3. p \in Prompt /\ p.shown_at = {0} /\ p.id = prompts.open.id
        /\ p.kind = prompts.open.kind
    BY <2>2 DEF Prompt
  <2> HIDE DEF p
  <2>4. prompts' \in PromptState /\ prompts'.open = p /\ prompts'.queued = prompts.queued
    BY <1>1, <2>1, <2>3 DEF PromptState
  <2>5. p # None /\ p.id \in Visible /\ prompts.open \in Waiting(prompts)
    BY <2>1, <2>3, PromptIsSome DEF Visible, Waiting
  <2>6. \A r \in Waiting(prompts') : r = p \/ r \in Waiting(prompts)
    BY <2>4 DEF Waiting
  <2>7. Served(prompts')
    BY <2>4, <2>5 DEF Served
  <2>8. QED BY <2>3, <2>4, <2>5, <2>6, <2>7
<1>4. QED BY <1>2, <1>3

-----------------------------------------------------------------------------
(* The invariant holds at first.                                           *)
LEMMA PromptsInvInit == Init => PromptsInv
<1> SUFFICES ASSUME Init PROVE PromptsInv
  OBVIOUS
<1>1. prompts.open = None /\ prompts.queued = {} /\ Waiting(prompts) = {}
  BY DEF Init, Waiting
<1>2. prompts \in [open: {None} \cup Prompt, queued: SUBSET Prompt]
  BY DEF Init
<1>3. screen \in [what: SUBSET Id, age: Ages]
  BY BoundsAssumption DEF Init, Ages
<1>4. TypeOK
  <2>1. told \in [Id -> Seq(Answer)] /\ asked \in Seq(Id)
    BY DEF Init
  <2>2. drawn \in [Permissions -> SUBSET Ages]
    BY DEF Init
  <2>3. form = None /\ wizard = None /\ busy = FALSE /\ opened = 0 /\ cancels = 0
        /\ withdrawn = {} /\ grants = {}
    BY DEF Init
  <2>4. QED BY <1>2, <1>3, <2>1, <2>2, <2>3 DEF TypeOK
<1>5. QED BY <1>1, <1>4 DEF PromptsInv, QueueIsServed, ReadBeforeGranted, Init

(* Every step keeps the prompts honest about when they were drawn.         *)
LEMMA ShownStep ==
  ASSUME PromptsInv, Next
  PROVE  /\ prompts' \in PromptState
         /\ Served(prompts')
         /\ drawn' \in [Permissions -> SUBSET Ages]
         /\ \A p \in Waiting(prompts') : ReallyShown(p)'
<1>a. /\ TypeOK /\ Served(prompts) /\ drawn \in [Permissions -> SUBSET Ages]
      /\ \A p \in Waiting(prompts) : ReallyShown(p)
      /\ prompts \in PromptState
  BY DEF PromptsInv, QueueIsServed, Served, TypeOK, PromptState
<1>b. Waiting(prompts) \subseteq Prompt
  BY <1>a DEF Waiting, PromptState
<1>1. CASE Host \/ Keys
  <2>1. prompts' \in PromptState /\ Served(prompts') /\ Derived(prompts', prompts)
        /\ drawn' = drawn
    BY <1>1, <1>a, SlotStep
  <2>2. ASSUME NEW p \in Waiting(prompts') PROVE ReallyShown(p)'
    <3>1. CASE \E q \in Waiting(prompts) : Kin(p, q)
      BY <3>1, <2>1, <1>a DEF Kin, ReallyShown, is_permission
    <3>2. CASE p.shown_at = {} /\ (is_permission(p) => p.id \in Permissions)
      BY <3>2 DEF ReallyShown, is_permission
    <3>3. QED BY <3>1, <3>2, <2>1 DEF Derived
  <2>3. QED BY <2>1, <2>2, <1>a
<1>2. CASE Draw
  <2>1. /\ prompts' \in PromptState /\ Served(prompts')
        /\ \A p \in Waiting(prompts') :
             \/ p \in Waiting(prompts)
             \/ /\ p.shown_at = {0} /\ p.id \in Visible
                /\ \E q \in Waiting(prompts) : p.id = q.id /\ p.kind = q.kind
    BY <1>2, <1>a, DrawPrompts
  <2>2. drawn' = [i \in Permissions |->
                    IF i \in Visible /\ drawn[i] = {} THEN {0} ELSE drawn[i]]
    BY <1>2 DEF Draw
  <2>3. drawn' \in [Permissions -> SUBSET Ages]
    BY <2>2, <1>a, BoundsAssumption DEF Ages
  <2>4. \A i \in Permissions : drawn[i] \subseteq drawn'[i]
    BY <2>2
  <2>5. \A i \in Permissions : i \in Visible => \E b \in drawn'[i] : 0 <= b
    BY <2>2, <2>3, <1>a, BoundsAssumption DEF Ages
  <2>6. ASSUME NEW p \in Waiting(prompts') PROVE ReallyShown(p)'
    <3>1. CASE p \in Waiting(prompts)
      <4>1. ReallyShown(p)
        BY <3>1, <1>a
      <4>2. QED BY <4>1, <2>4 DEF ReallyShown, is_permission
    <3>2. CASE /\ p.shown_at = {0} /\ p.id \in Visible
               /\ \E q \in Waiting(prompts) : p.id = q.id /\ p.kind = q.kind
      <4>1. is_permission(p) => p.id \in Permissions
        BY <3>2, <1>a DEF ReallyShown, is_permission
      <4>2. QED BY <3>2, <4>1, <2>5 DEF ReallyShown, is_permission
    <3>3. QED BY <3>1, <3>2, <2>1
  <2>7. QED BY <2>1, <2>3, <2>6
<1>3. CASE Tick
  <2>1. /\ prompts' \in PromptState /\ Served(prompts')
        /\ \A p \in Waiting(prompts') : \E q \in Waiting(prompts) : p = Grown(q)
    BY <1>3, <1>a, TickPrompts
  <2>2. drawn' = [i \in Permissions |-> {Older(a) : a \in drawn[i]}]
    BY <1>3 DEF Tick
  <2>3. drawn' \in [Permissions -> SUBSET Ages]
    BY <2>2, <1>a, OlderAges
  <2>4. ASSUME NEW p \in Waiting(prompts') PROVE ReallyShown(p)'
    <3>1. PICK q \in Waiting(prompts) : p = Grown(q)
      BY <2>1
    <3>2. /\ q \in Prompt /\ ReallyShown(q) /\ p.id = q.id /\ p.kind = q.kind
          /\ p.shown_at = {Older(a) : a \in q.shown_at} /\ q.shown_at \subseteq Ages
      BY <3>1, <1>a, <1>b, GrownType DEF Prompt
    <3>3. SUFFICES ASSUME is_permission(p), NEW a \in p.shown_at
                   PROVE  p.id \in Permissions /\ \E b \in drawn'[p.id] : a <= b
      BY <3>2 DEF ReallyShown, is_permission
    <3>4. p.id \in Permissions
      BY <3>2, <3>3 DEF ReallyShown, is_permission
    <3>5. PICK a0 \in q.shown_at : a = Older(a0)
      BY <3>2, <3>3
    <3>6. PICK b0 \in drawn[q.id] : a0 <= b0
      BY <3>2, <3>3, <3>5 DEF ReallyShown, is_permission
    <3>7. Older(a0) <= Older(b0)
      BY <3>2, <3>4, <3>5, <3>6, <1>a, OlderAges
    <3>8. Older(b0) \in drawn'[p.id]
      BY <3>2, <3>4, <3>6, <2>2
    <3>9. QED BY <3>4, <3>5, <3>7, <3>8
  <2>5. \A p : is_permission(p) /\ p \in Waiting(prompts') => p.id \in Permissions
    BY <2>4 DEF ReallyShown, is_permission
  <2>6. QED BY <2>1, <2>3, <2>4
<1>4. QED BY <1>1, <1>2, <1>3 DEF Next

(* The other variables keep their types.                                   *)
LEMMA RestStep ==
  ASSUME PromptsInv, Next
  PROVE  /\ busy' \in BOOLEAN /\ cancels' \in Nat /\ asked' \in Seq(Id)
         /\ withdrawn' \subseteq Id
         /\ screen' \in [what: SUBSET Id, age: Ages]
         /\ form' \in {None} \cup Form /\ wizard' \in {None} \cup Wizard
         /\ wizard' # None => wizard'.at < Len(wizard'.steps)
         /\ opened' \in Nat /\ told' \in [Id -> Seq(Answer)]
<1>a. /\ TypeOK /\ Served(prompts) /\ prompts \in PromptState
  BY DEF PromptsInv, QueueIsServed, Served, TypeOK, PromptState
<1>b. /\ busy \in BOOLEAN /\ cancels \in Nat /\ asked \in Seq(Id)
      /\ withdrawn \subseteq Id /\ screen \in [what: SUBSET Id, age: Ages]
      /\ form \in {None} \cup Form
  BY <1>a DEF TypeOK
<1>c. PermissionIds(prompts) \subseteq Id
  BY <1>a DEF PermissionIds, Waiting, PromptState, Prompt
<1>1. CASE Host \/ Keys
  <2>1. /\ form' \in {None} \cup Form /\ wizard' \in {None} \cup Wizard
        /\ wizard' # None => wizard'.at < Len(wizard'.steps)
        /\ opened' \in Nat /\ told' \in [Id -> Seq(Answer)]
        /\ screen' = screen
    BY <1>1, <1>a, SlotStep
  <2>2. CASE \E r \in Requests : AskQuestion(r) \/ AskWizard(r)
    <3>1. PICK r \in Requests : AskQuestion(r) \/ AskWizard(r)
      BY <2>2
    <3>2. r.id \in Id
      BY RequestKinds DEF Question, WizardRequest
    <3>3. asked' = Append(asked, r.id) /\ UNCHANGED <<busy, cancels, withdrawn>>
      BY <3>1 DEF AskQuestion, AskWizard, Ask
    <3>4. QED BY <3>2, <3>3, <2>1, <1>b
  <2>3. CASE HostCancels \/ StatusIdle \/ Interrupt
    <3>1. /\ busy' = FALSE /\ withdrawn' = withdrawn \cup PermissionIds(prompts)
          /\ asked' = asked /\ cancels' \in {cancels, cancels + 1}
      BY <2>3 DEF HostCancels, StatusIdle, Interrupt, Settle
    <3>2. busy' \in BOOLEAN
      BY <3>1, Zenon
    <3>3. cancels' \in Nat
      BY <3>1, <1>b
    <3>4. withdrawn' \subseteq Id
      BY <3>1, <1>b, <1>c
    <3>5. QED BY <3>1, <3>2, <3>3, <3>4, <2>1, <1>b
  <2>4. CASE StatusBusy
    BY <2>4, <2>1, <1>b DEF StatusBusy
  <2>5. CASE SubmitForm \/ CancelForm \/ Pick \/ CancelPrompt
    <3>1. UNCHANGED <<busy, cancels, asked, withdrawn>>
      BY <2>5 DEF SubmitForm, CancelForm, Pick, CancelPrompt
    <3>2. QED BY <3>1, <2>1, <1>b
  <2>6. CASE MoveSelection \/ TypeFilter \/ EraseFilter \/ RefuseCancel
    <3>1. UNCHANGED <<busy, cancels, asked, withdrawn>>
      BY <2>6 DEF MoveSelection, TypeFilter, EraseFilter, RefuseCancel, WithOpen
    <3>2. QED BY <3>1, <2>1, <1>b
  <2>7. CASE DenyAndInterrupt
    <3>1. /\ busy' = FALSE /\ asked' = asked /\ cancels' = cancels + 1
          /\ withdrawn' = withdrawn \cup (PermissionIds(prompts) \ {prompts.open.id})
      BY <2>7 DEF DenyAndInterrupt
    <3>2. busy' \in BOOLEAN
      BY <3>1, Zenon
    <3>3. cancels' \in Nat
      BY <3>1, <1>b
    <3>4. withdrawn' \subseteq Id
      BY <3>1, <1>b, <1>c
    <3>5. QED BY <3>1, <3>2, <3>3, <3>4, <2>1, <1>b
  <2>8. QED BY <1>1, <2>2, <2>3, <2>4, <2>5, <2>6, <2>7 DEF Host, Keys
<1>2. CASE Draw \/ Tick
  <2>1. UNCHANGED <<form, wizard, opened, busy, told, cancels, asked, withdrawn>>
    BY <1>2 DEF Draw, Tick
  <2>2. Visible \subseteq Id
    BY <1>a, <1>b DEF Visible, Form, PromptState, Prompt
  <2>3. screen' \in [what: SUBSET Id, age: Ages]
    <3>1. CASE Draw
      BY <3>1, <2>2, <1>b, BoundsAssumption DEF Draw, Ages
    <3>2. CASE Tick
      <4>1. screen' = [screen EXCEPT !.age = Older(screen.age)]
        BY <3>2 DEF Tick
      <4>2. Older(screen.age) \in Ages
        BY <1>b, OlderAges
      <4>3. QED BY <4>1, <4>2, <1>b
    <3>3. QED BY <3>1, <3>2, <1>2
  <2>4. QED BY <2>1, <2>3, <1>a DEF TypeOK
<1>3. QED BY <1>1, <1>2 DEF Next

(* Only a prompt that was really on screen long enough is granted.         *)
LEMMA GrantStep ==
  ASSUME PromptsInv, Next
  PROVE  /\ grants' \subseteq [id: Id, first: SUBSET Ages, screen: [what: SUBSET Id, age: Ages]]
         /\ ReadBeforeGranted'
<1>a. /\ TypeOK /\ ReadBeforeGranted /\ prompts \in PromptState
      /\ drawn \in [Permissions -> SUBSET Ages]
      /\ screen \in [what: SUBSET Id, age: Ages]
      /\ grants \subseteq [id: Id, first: SUBSET Ages, screen: [what: SUBSET Id, age: Ages]]
      /\ \A p \in Waiting(prompts) : ReallyShown(p)
  BY DEF PromptsInv, TypeOK, PromptState
<1>1. CASE grants' = grants
  BY <1>1, <1>a DEF ReadBeforeGranted
<1>2. CASE grants' # grants
  <2> DEFINE p == prompts.open
             g == [id |-> p.id, first |-> drawn[p.id], screen |-> screen]
  <2>1. Pick
    BY <1>2 DEF Next, Host, Keys, AskQuestion, AskWizard, Ask, HostCancels,
       StatusBusy, StatusIdle, SubmitForm, CancelForm, MoveSelection, TypeFilter,
       EraseFilter, WithOpen, DenyAndInterrupt, CancelPrompt, RefuseCancel,
       Interrupt, Draw, Tick
  <2>2. p # None /\ armed(p) /\ \E i : Grant(p, Choice(p, i))
    BY <2>1 DEF Pick, PromptHasKeys
  <2>3. p \in Prompt /\ p \in Waiting(prompts) /\ p.shown_at \subseteq Ages /\ p.id \in Id
    BY <2>2, <1>a DEF PromptState, Waiting, Prompt
  <2>4. is_permission(p) /\ grants' = grants \cup {g}
    BY <2>2, <1>2 DEF Grant, Choice
  <2>5. p.id \in Permissions /\ \A a \in p.shown_at : \E b \in drawn[p.id] : a <= b
    BY <2>3, <2>4, <1>a DEF ReallyShown
  <2>6. PICK a \in p.shown_at : a >= PERMISSION_ARM
    BY <2>2, <2>4 DEF armed
  <2>7. PICK b \in drawn[p.id] : a <= b
    BY <2>5, <2>6
  <2>8. a \in Ages /\ b \in Ages /\ drawn[p.id] \subseteq Ages
    BY <2>3, <2>5, <2>6, <2>7, <1>a
  <2>9. b >= PERMISSION_ARM
    BY <2>6, <2>7, <2>8, BoundsAssumption DEF Ages
  <2>10. g.first = drawn[p.id]
         /\ g \in [id: Id, first: SUBSET Ages, screen: [what: SUBSET Id, age: Ages]]
    BY <2>3, <2>8, <1>a
  <2> HIDE DEF g, p
  <2>11. QED BY <2>4, <2>7, <2>9, <2>10, <1>a DEF ReadBeforeGranted
<1>3. QED BY <1>1, <1>2

(* Every step keeps the invariant.                                         *)
LEMMA PromptsInvStep == PromptsInv /\ [Next]_vars => PromptsInv'
<1> SUFFICES ASSUME PromptsInv, [Next]_vars PROVE PromptsInv'
  OBVIOUS
<1>1. CASE Next
  <2>1. /\ prompts' \in PromptState
        /\ Served(prompts')
        /\ drawn' \in [Permissions -> SUBSET Ages]
        /\ \A p \in Waiting(prompts') : ReallyShown(p)'
    BY <1>1, ShownStep
  <2>2. /\ busy' \in BOOLEAN /\ cancels' \in Nat /\ asked' \in Seq(Id)
        /\ withdrawn' \subseteq Id
        /\ screen' \in [what: SUBSET Id, age: Ages]
        /\ form' \in {None} \cup Form /\ wizard' \in {None} \cup Wizard
        /\ wizard' # None => wizard'.at < Len(wizard'.steps)
        /\ opened' \in Nat /\ told' \in [Id -> Seq(Answer)]
    BY <1>1, RestStep
  <2>3. /\ grants' \subseteq [id: Id, first: SUBSET Ages, screen: [what: SUBSET Id, age: Ages]]
        /\ ReadBeforeGranted'
    BY <1>1, GrantStep
  <2>4. TypeOK'
    BY <2>1, <2>2, <2>3 DEF TypeOK, PromptState
  <2>5. QED BY <2>1, <2>3, <2>4 DEF PromptsInv, QueueIsServed, Served
<1>2. CASE UNCHANGED vars
  BY <1>2 DEF PromptsInv, TypeOK, QueueIsServed, ReadBeforeGranted, ReallyShown,
     vars, slot, seen
<1>3. QED BY <1>1, <1>2

-----------------------------------------------------------------------------
(* The session's slot, queue, form and wizard are always well formed.      *)
THEOREM TypeCorrect == Spec => []TypeOK
<1>1. PromptsInv => TypeOK
  BY DEF PromptsInv
<1>2. QED BY <1>1, PromptsInvInit, PromptsInvStep, PTL DEF Spec

(* open_prompt, resolve_prompt and settle never leave a prompt waiting     *)
(* behind an empty slot.                                                   *)
THEOREM QueueServed == Spec => []QueueIsServed
<1>1. PromptsInv => QueueIsServed
  BY DEF PromptsInv
<1>2. QED BY <1>1, PromptsInvInit, PromptsInvStep, PTL DEF Spec

(* Keys grant a permission only once a frame with it has been up for the   *)
(* arming delay, for every delay and every order of requests, keys, frames *)
(* and time.                                                               *)
THEOREM GrantsWereRead == Spec => []ReadBeforeGranted
<1>1. PromptsInv => ReadBeforeGranted
  BY DEF PromptsInv
<1>2. QED BY <1>1, PromptsInvInit, PromptsInvStep, PTL DEF Spec

-----------------------------------------------------------------------------
(* The answers.                                                            *)

(* The ids a slot with its queue, a form and a wizard stand for: what they *)
(* may still answer. Of a wizard's steps only the later ones are its own.  *)
Ids(ps)      == {p.id : p \in Waiting(ps)}
FormIds(fm)  == IF fm = None THEN {} ELSE {fm.id}
Later(w)     == {w.steps[j].id : j \in {k \in DOMAIN w.steps : k > w.at + 1}}
WizardIds(w) == IF w = None THEN {} ELSE {w.id} \cup Later(w)

IdsOf(r)  == {r.id} \cup StepsOf(r)
Known(ak) == UNION {IdsOf(r) : r \in {q \in Requests : \E k \in DOMAIN ak : ak[k] = q.id}}

(* Every waiting prompt has an id of its own, queued ones a number of their*)
(* own, and an open permission request was the first of all that wait.     *)
Distinct(ps, n) ==
  /\ \A p, q \in ps.queued : p.id = q.id \/ p.no = q.no => p = q
  /\ ps.open # None => \A p \in ps.queued :
       p.id # ps.open.id /\ (is_permission(ps.open) => ps.open.no < p.no)
  /\ \A p \in Waiting(ps) : p.no < n
Sound(ps, n) == ps \in PromptState /\ n \in Nat /\ Served(ps) /\ Distinct(ps, n)

(* No id is in two places.                                                 *)
StepsApart(w) ==
  w # None => \A i \in DOMAIN w.steps :
    w.steps[i].id # w.id /\ \A j \in DOMAIN w.steps : i # j => w.steps[i].id # w.steps[j].id
Apart(ps, fm, w) ==
  /\ FormIds(fm) \cap Ids(ps) = {}
  /\ WizardIds(w) \cap (Ids(ps) \cup FormIds(fm)) = {}
  /\ StepsApart(w)

(* Only permission prompts carry the ids of permission requests.           *)
KindsTrue(ps, fm, w) ==
  /\ \A p \in Waiting(ps) : p.id \in Permissions <=> is_permission(p)
  /\ (FormIds(fm) \cup WizardIds(w)) \cap Permissions = {}

(* Nothing has been said of an id, which belongs to a request received.    *)
Unsaid(i, td, wd, ak) == i \in Id /\ td[i] = <<>> /\ i \notin wd /\ i \in Known(ak)

(* What has been said was said once, of a request received.                *)
Said(td, wd, ak) ==
  /\ td \in [Id -> Seq(Answer)] /\ ak \in Seq(Id) /\ wd \subseteq Known(ak)
  /\ \A i \in Id : td[i] # <<>> => Len(td[i]) = 1 /\ i \in Known(ak) /\ i \notin wd

(* Permission requests wait and are answered in the order they came.       *)
InOrder(ps, td, ak) ==
  \A m, k \in DOMAIN ak :
    m < k /\ ak[m] \in Permissions /\ ak[k] \in Permissions =>
      /\ \A p, q \in Waiting(ps) : p.id = ak[m] /\ q.id = ak[k] => p.no < q.no
      /\ td[ak[k]] # <<>> => ak[m] \notin PermissionIds(ps)

Base(ps, fm, w, n, td, wd, ak) ==
  /\ Sound(ps, n) /\ fm \in {None} \cup Form /\ w \in {None} \cup Wizard
  /\ Apart(ps, fm, w)
  /\ KindsTrue(ps, fm, w)
  /\ \A i \in Ids(ps) \cup FormIds(fm) \cup WizardIds(w) : Unsaid(i, td, wd, ak)
  /\ Said(td, wd, ak)
  /\ InOrder(ps, td, ak)

(* No permission request received is lost.                                 *)
NoneLost(ps, td, wd, ak) ==
  \A k \in DOMAIN ak :
    ak[k] \in Permissions => ak[k] \in PermissionIds(ps) \/ td[ak[k]] # <<>> \/ ak[k] \in wd

AnswersInv ==
  /\ Base(prompts, form, wizard, opened, told, withdrawn, asked)
  /\ NoneLost(prompts, told, withdrawn, asked)

(* Two states of one prompt: it may have been drawn or edited.             *)
Same(p, q)     == p.id = q.id /\ p.kind = q.kind /\ p.no = q.no
Comes(ps2, ps) == \A p \in Waiting(ps2) : \E q \in Waiting(ps) : Same(p, q)

-----------------------------------------------------------------------------
(* The slot and its queue.                                                 *)

(* The front of a queue has the lowest number.                             *)
LEMMA FrontIsFirst ==
  ASSUME NEW Q \in SUBSET Prompt, Q # {}
  PROVE  Front(Q) \in Q /\ \A q \in Q : Front(Q).no <= q.no
<1> DEFINE T == {p.no : p \in Q}
<1>1. T \subseteq Nat /\ T # {}
  BY DEF Prompt
<1>2. PICK n \in T : \A m \in T : n <= m
  BY <1>1, NatMin
<1>3. \E p \in Q : \A q \in Q : p.no <= q.no
  BY <1>2
<1> QED BY <1>3 DEF Front

(* Showing the next prompt keeps the order, for it is the first.           *)
LEMMA NextShown ==
  ASSUME NEW ps \in PromptState, NEW n \in Nat, Distinct(ps, n)
  PROVE  /\ Sound(show_queued_prompt(ps), n)
         /\ Waiting(show_queued_prompt(ps)) = Waiting(ps)
<1>1. /\ show_queued_prompt(ps) \in PromptState
      /\ Served(show_queued_prompt(ps))
      /\ Waiting(show_queued_prompt(ps)) = Waiting(ps)
  BY ShowQueued
<1>2. CASE ps.open = None /\ ps.queued # {}
  <2> DEFINE f == Front(ps.queued)
  <2>1. ps.queued \in SUBSET Prompt
    BY DEF PromptState
  <2>2. f \in ps.queued /\ \A q \in ps.queued : f.no <= q.no /\ q.no \in Nat
    BY <1>2, <2>1, FrontIsFirst DEF Prompt
  <2>3. show_queued_prompt(ps) = [open |-> f, queued |-> ps.queued \ {f}]
    BY <1>2 DEF show_queued_prompt
  <2> HIDE DEF f
  <2>4. \A p \in ps.queued \ {f} : p.id # f.id /\ p.no # f.no
    BY <2>2 DEF Distinct
  <2>5. \A p \in ps.queued \ {f} : f.no < p.no
    BY <2>2, <2>4
  <2> QED BY <1>1, <2>3, <2>4, <2>5 DEF Sound, Distinct
<1>3. CASE ~(ps.open = None /\ ps.queued # {})
  <2>1. show_queued_prompt(ps) = ps
    BY <1>3 DEF show_queued_prompt
  <2> QED BY <1>1, <2>1 DEF Sound
<1> QED BY <1>2, <1>3

(* Closing the open prompt leaves the others, in their order.              *)
LEMMA CloseOpen ==
  ASSUME NEW ps, NEW n, Sound(ps, n), ps.open # None
  PROVE  LET qs == show_queued_prompt([ps EXCEPT !.open = None]) IN
         Sound(qs, n) /\ Waiting(qs) = ps.queued /\ ps.open.id \notin Ids(qs)
<1> DEFINE es == [ps EXCEPT !.open = None]
<1>1. ps \in PromptState /\ n \in Nat /\ Distinct(ps, n)
  BY DEF Sound
<1>2. es \in PromptState /\ es.open = None /\ es.queued = ps.queued
  BY <1>1 DEF PromptState
<1> HIDE DEF es
<1>3. Waiting(es) = ps.queued /\ Waiting(es) \subseteq Waiting(ps)
  BY <1>2 DEF Waiting
<1>4. Distinct(es, n)
  BY <1>1, <1>2, <1>3 DEF Distinct
<1>5. Sound(show_queued_prompt(es), n) /\ Waiting(show_queued_prompt(es)) = Waiting(es)
  BY <1>1, <1>2, <1>4, NextShown
<1>6. \A p \in ps.queued : p.id # ps.open.id
  BY <1>1 DEF Distinct
<1> QED BY <1>3, <1>5, <1>6 DEF es, Ids

(* Settling leaves what is not a permission request.                       *)
LEMMA SettleSound ==
  ASSUME NEW ps \in PromptState, NEW n \in Nat, Distinct(ps, n)
  PROVE  /\ Sound(settled(ps), n)
         /\ Waiting(settled(ps)) = {p \in Waiting(ps) : ~is_permission(p)}
<1> DEFINE o  == IF ps.open # None /\ is_permission(ps.open) THEN None ELSE ps.open
           rs == [open |-> o, queued |-> {p \in ps.queued : ~is_permission(p)}]
<1>1. ps.open \in {None} \cup Prompt /\ ps.queued \in SUBSET Prompt
  BY DEF PromptState
<1>2. rs \in PromptState /\ rs.open = o /\ rs.queued = {p \in ps.queued : ~is_permission(p)}
  BY <1>1 DEF PromptState
<1>3. settled(ps) = show_queued_prompt(rs)
  BY DEF settled
<1>4. o = None \/ (o = ps.open /\ ~is_permission(ps.open))
  OBVIOUS
<1>5. ps.open # None /\ ~is_permission(ps.open) => o = ps.open
  OBVIOUS
<1> HIDE DEF rs, o
<1>6. Waiting(rs) = {p \in Waiting(ps) : ~is_permission(p)}
  BY <1>2, <1>4, <1>5 DEF Waiting
<1>7. Distinct(rs, n)
  BY <1>2, <1>4, <1>6 DEF Distinct
<1> QED BY <1>2, <1>3, <1>6, <1>7, NextShown

(* A new prompt, numbered last, is queued or takes the place of one that   *)
(* is not a permission request.                                            *)
LEMMA OpenSound ==
  ASSUME NEW ps, NEW n, Sound(ps, n), NEW p \in Prompt, p.no = n, p.id \notin Ids(ps)
  PROVE  /\ Sound(open_prompt(ps, p), n + 1)
         /\ p \in Waiting(open_prompt(ps, p))
         /\ Waiting(open_prompt(ps, p)) \subseteq Waiting(ps) \cup {p}
         /\ \A q \in Waiting(ps) : is_permission(q) => q \in Waiting(open_prompt(ps, p))
<1> DEFINE qs == open_prompt(ps, p)
<1>1. ps \in PromptState /\ n \in Nat /\ Served(ps) /\ Distinct(ps, n)
  BY DEF Sound
<1>2. qs \in PromptState /\ Served(qs) /\ Waiting(qs) \subseteq Waiting(ps) \cup {p}
  BY <1>1, OpenPrompt
<1>3. p # None /\ ps.open \in {None} \cup Prompt /\ ps.queued \in SUBSET Prompt
  BY <1>1, PromptIsSome DEF PromptState
<1>4. \A q \in Waiting(ps) : q.no < n /\ q.no \in Nat /\ q.id # p.id
  BY <1>1, <1>3 DEF Distinct, Ids, Waiting, Prompt
<1>5. \A q \in Waiting(qs) : q.no < n + 1
  BY <1>1, <1>2, <1>4
<1>6. CASE ps.open # None /\ (is_permission(ps.open) \/ is_permission(p))
  <2>1. qs.open = ps.open /\ qs.queued = ps.queued \cup {p}
    BY <1>1, <1>6 DEF open_prompt, PromptState
  <2> HIDE DEF qs
  <2>2. ps.open \in Waiting(ps) /\ ps.queued \subseteq Waiting(ps)
    BY <1>6 DEF Waiting
  <2>3. \A q \in ps.queued : q.id # p.id /\ q.no # p.no
    BY <1>4, <2>2
  <2>4. \A q, r \in qs.queued : q.id = r.id \/ q.no = r.no => q = r
    BY <1>1, <2>1, <2>3 DEF Distinct
  <2>5. \A q \in qs.queued :
          q.id # qs.open.id /\ (is_permission(qs.open) => qs.open.no < q.no)
    BY <1>1, <1>4, <1>6, <2>1, <2>2 DEF Distinct
  <2>6. Waiting(qs) = Waiting(ps) \cup {p}
    BY <2>1 DEF Waiting
  <2>7. Distinct(qs, n + 1)
    BY <1>5, <2>4, <2>5 DEF Distinct
  <2> QED BY <1>1, <1>2, <2>6, <2>7 DEF Sound, qs
<1>7. CASE ~(ps.open # None /\ (is_permission(ps.open) \/ is_permission(p)))
  <2>1. qs.open = p /\ qs.queued = ps.queued
    BY <1>1, <1>7 DEF open_prompt, PromptState
  <2> HIDE DEF qs
  <2>2. \A q \in ps.queued : q \in Waiting(ps)
    BY DEF Waiting
  <2>3. is_permission(p) => ps.queued = {}
    BY <1>1, <1>7 DEF Served
  <2>4. \A q \in qs.queued : q.id # p.id /\ (is_permission(p) => p.no < q.no)
    BY <1>4, <2>1, <2>2, <2>3
  <2>5. Distinct(qs, n + 1)
    BY <1>1, <1>5, <2>1, <2>4 DEF Distinct
  <2>6. p \in Waiting(qs) /\ \A q \in Waiting(ps) : is_permission(q) => q \in Waiting(qs)
    BY <1>3, <1>7, <2>1 DEF Waiting
  <2> QED BY <1>1, <1>2, <2>5, <2>6 DEF Sound, qs
<1> QED BY <1>6, <1>7

(* An edit, a frame or a tick changes no id, kind or number.               *)
LEMMA EditSound ==
  ASSUME NEW ps, NEW n, Sound(ps, n), ps.open # None, NEW p \in Prompt, Same(p, ps.open)
  PROVE  LET qs == [ps EXCEPT !.open = p] IN
         Sound(qs, n) /\ Comes(qs, ps) /\ PermissionIds(qs) = PermissionIds(ps)
<1> DEFINE qs == [ps EXCEPT !.open = p]
<1>1. ps \in PromptState /\ n \in Nat /\ Distinct(ps, n) /\ p # None
  BY PromptIsSome DEF Sound
<1>2. qs \in PromptState /\ qs.open = p /\ qs.queued = ps.queued
  BY <1>1 DEF PromptState
<1> HIDE DEF qs
<1>3. Waiting(qs) = ps.queued \cup {p} /\ Waiting(ps) = ps.queued \cup {ps.open}
  BY <1>1, <1>2 DEF Waiting
<1>4. \A q : Same(q, q)
  BY DEF Same
<1>5. Comes(qs, ps)
  BY <1>3, <1>4 DEF Comes
<1>6. PermissionIds(qs) = PermissionIds(ps)
  BY <1>3 DEF PermissionIds, is_permission, Same
<1>7. Distinct(qs, n)
  BY <1>1, <1>2, <1>3 DEF Distinct, Same, is_permission
<1>8. Served(qs)
  BY <1>1, <1>2 DEF Served
<1> QED BY <1>1, <1>2, <1>5, <1>6, <1>7, <1>8 DEF Sound, qs

(* So does time.                                                           *)
LEMMA TickSound ==
  ASSUME NEW ps, NEW n, Sound(ps, n)
  PROVE  LET qs == [open   |-> IF ps.open = None THEN None ELSE Grown(ps.open),
                    queued |-> {Grown(p) : p \in ps.queued}]
         IN  Sound(qs, n) /\ Comes(qs, ps) /\ PermissionIds(qs) = PermissionIds(ps)
<1> DEFINE o  == IF ps.open = None THEN None ELSE Grown(ps.open)
           qs == [open |-> o, queued |-> {Grown(p) : p \in ps.queued}]
<1>1. /\ ps.open \in {None} \cup Prompt /\ ps.queued \in SUBSET Prompt
      /\ n \in Nat /\ Distinct(ps, n) /\ Served(ps)
  BY DEF Sound, PromptState
<1>2. \A p \in Prompt : Grown(p) \in Prompt /\ Same(Grown(p), p) /\ Grown(p) # None
  BY GrownType, PromptIsSome DEF Same, Grown, Prompt
<1>3. qs.open = o /\ qs.queued = {Grown(p) : p \in ps.queued}
  OBVIOUS
<1>4. /\ ps.open = None => o = None
      /\ ps.open # None => o = Grown(ps.open) /\ o \in Prompt /\ Same(o, ps.open) /\ o # None
  BY <1>1, <1>2
<1> HIDE DEF o
<1>5. qs \in PromptState
  BY <1>1, <1>2, <1>4 DEF PromptState
<1> HIDE DEF qs
<1>6. Served(qs)
  BY <1>1, <1>3, <1>4 DEF Served
<1>7. \A q \in qs.queued : \E p \in ps.queued : q = Grown(p) /\ Same(q, p)
  BY <1>1, <1>2, <1>3
<1>8. \A p \in ps.queued : Grown(p) \in qs.queued /\ Same(Grown(p), p)
  BY <1>1, <1>2, <1>3
<1>9. Comes(qs, ps)
  <2>1. \A q \in Waiting(qs) : \E p \in Waiting(ps) : Same(q, p)
    BY <1>3, <1>4, <1>7 DEF Waiting
  <2> QED BY <2>1 DEF Comes
<1>10. \A p \in Waiting(ps) : \E q \in Waiting(qs) : Same(q, p)
  BY <1>3, <1>4, <1>8 DEF Waiting
<1>11. PermissionIds(qs) = PermissionIds(ps)
  BY <1>9, <1>10 DEF Comes, Same, PermissionIds, is_permission
<1>12. Distinct(qs, n)
  <2>1. \A p, q \in qs.queued : p.id = q.id \/ p.no = q.no => p = q
    BY <1>1, <1>7 DEF Distinct, Same
  <2>2. qs.open # None => \A q \in qs.queued :
          q.id # qs.open.id /\ (is_permission(qs.open) => qs.open.no < q.no)
    BY <1>1, <1>3, <1>4, <1>7 DEF Distinct, Same, is_permission
  <2>3. \A q \in Waiting(qs) : q.no < n
    BY <1>1, <1>9 DEF Distinct, Comes, Same
  <2> QED BY <2>1, <2>2, <2>3 DEF Distinct
<1> QED BY <1>1, <1>5, <1>6, <1>9, <1>11, <1>12 DEF Sound, qs, o

(* Prompts that were there before.                                         *)
LEMMA ComesSubset ==
  ASSUME NEW ps, NEW qs, Waiting(qs) \subseteq Waiting(ps)
  PROVE  Comes(qs, ps)
BY DEF Comes, Same

(* They stand for ids that were there before.                              *)
LEMMA ComesIds ==
  ASSUME NEW ps, NEW qs, Comes(qs, ps)
  PROVE  Ids(qs) \subseteq Ids(ps) /\ PermissionIds(qs) \subseteq PermissionIds(ps)
         /\ PermissionIds(ps) \subseteq Ids(ps)
BY DEF Comes, Same, Ids, PermissionIds, is_permission

-----------------------------------------------------------------------------
(* The invariant through what a step is made of.                           *)

(* Prompts and the form may go, and the requests of a turn be withdrawn.   *)
LEMMA FewerKeeps ==
  ASSUME NEW ps, NEW fm, NEW w, NEW n, NEW td, NEW wd, NEW ak,
         Base(ps, fm, w, n, td, wd, ak),
         NEW ps2, Sound(ps2, n), Comes(ps2, ps), NEW fm2 \in {None, fm},
         NEW W \in SUBSET PermissionIds(ps), W \cap Ids(ps2) = {}
  PROVE  Base(ps2, fm2, w, n, td, wd \cup W, ak)
<1>1. Ids(ps2) \subseteq Ids(ps) /\ PermissionIds(ps2) \subseteq PermissionIds(ps)
      /\ W \subseteq Ids(ps)
  BY ComesIds
<1>2. FormIds(fm2) \subseteq FormIds(fm) /\ fm2 \in {None} \cup Form
  BY DEF Base, FormIds
<1>3. Apart(ps2, fm2, w)
  BY <1>1, <1>2 DEF Base, Apart
<1>4. KindsTrue(ps2, fm2, w)
  <2>1. \A p \in Waiting(ps2) : p.id \in Permissions <=> is_permission(p)
    BY DEF Base, KindsTrue, Comes, Same, is_permission
  <2> QED BY <1>2, <2>1 DEF Base, KindsTrue
<1>5. ASSUME NEW i \in Ids(ps2) \cup FormIds(fm2) \cup WizardIds(w)
      PROVE  Unsaid(i, td, wd \cup W, ak)
  <2>1. Unsaid(i, td, wd, ak)
    BY <1>1, <1>2 DEF Base
  <2>2. i \notin W
    BY <1>1, <1>2 DEF Base, Apart
  <2> QED BY <2>1, <2>2 DEF Unsaid
<1>6. \A i \in W : Unsaid(i, td, wd, ak)
  BY <1>1 DEF Base
<1>7. Said(td, wd \cup W, ak)
  BY <1>6 DEF Base, Said, Unsaid
<1>8. InOrder(ps2, td, ak)
  <2> SUFFICES ASSUME NEW m \in DOMAIN ak, NEW k \in DOMAIN ak,
                      m < k, ak[m] \in Permissions, ak[k] \in Permissions
               PROVE  /\ \A p, q \in Waiting(ps2) : p.id = ak[m] /\ q.id = ak[k] => p.no < q.no
                      /\ td[ak[k]] # <<>> => ak[m] \notin PermissionIds(ps2)
    BY DEF InOrder
  <2>1. /\ \A p, q \in Waiting(ps) : p.id = ak[m] /\ q.id = ak[k] => p.no < q.no
        /\ td[ak[k]] # <<>> => ak[m] \notin PermissionIds(ps)
    BY DEF Base, InOrder
  <2>2. \A p, q \in Waiting(ps2) : p.id = ak[m] /\ q.id = ak[k] => p.no < q.no
    BY <2>1 DEF Comes, Same
  <2> QED BY <1>1, <2>1, <2>2
<1> QED BY <1>2, <1>3, <1>4, <1>5, <1>7, <1>8 DEF Base

(* A wizard may go, go on, or come, if its ids are its own.                *)
LEMMA WizardKeeps ==
  ASSUME NEW ps, NEW fm, NEW w, NEW n, NEW td, NEW wd, NEW ak,
         Base(ps, fm, w, n, td, wd, ak),
         NEW w2 \in {None} \cup Wizard, StepsApart(w2),
         WizardIds(w2) \cap (Ids(ps) \cup FormIds(fm) \cup Permissions) = {},
         \A i \in WizardIds(w2) : Unsaid(i, td, wd, ak)
  PROVE  Base(ps, fm, w2, n, td, wd, ak)
<1>1. Apart(ps, fm, w2)
  BY DEF Base, Apart
<1>2. KindsTrue(ps, fm, w2)
  BY DEF Base, KindsTrue
<1> QED BY <1>1, <1>2 DEF Base

(* An id that stands nowhere any more may be answered; if it is that of a  *)
(* permission request, no earlier one may wait.                            *)
LEMMA AnswerKeeps ==
  ASSUME NEW ps, NEW fm, NEW w, NEW n, NEW td, NEW wd, NEW ak,
         Base(ps, fm, w, n, td, wd, ak),
         NEW i, Unsaid(i, td, wd, ak), i \notin Ids(ps) \cup FormIds(fm) \cup WizardIds(w),
         \A m, k \in DOMAIN ak :
           m < k /\ ak[k] = i /\ ak[m] \in Permissions /\ i \in Permissions =>
             ak[m] \notin PermissionIds(ps),
         NEW a \in Answer
  PROVE  Base(ps, fm, w, n, [td EXCEPT ![i] = Append(@, a)], wd, ak)
<1> DEFINE td2 == [td EXCEPT ![i] = Append(@, a)]
<1>1. td \in [Id -> Seq(Answer)] /\ i \in Id /\ td[i] = <<>>
  BY DEF Base, Said, Unsaid
<1>2. Append(td[i], a) \in Seq(Answer) /\ Len(Append(td[i], a)) = 1
  <2>1. td[i] \in Seq(Answer) /\ Len(td[i]) = 0
    BY <1>1
  <2> QED BY <2>1
<1>3. /\ td2 \in [Id -> Seq(Answer)] /\ Len(td2[i]) = 1
      /\ \A j : j # i => (j \in Id => td2[j] = td[j])
  BY <1>1, <1>2
<1> HIDE DEF td2
<1>4. ASSUME NEW j \in Ids(ps) \cup FormIds(fm) \cup WizardIds(w)
      PROVE  Unsaid(j, td2, wd, ak)
  <2>1. Unsaid(j, td, wd, ak) /\ j # i
    BY DEF Base
  <2> QED BY <1>3, <2>1 DEF Unsaid
<1>5. Said(td2, wd, ak)
  <2>1. \A j \in Id : td2[j] # <<>> => Len(td2[j]) = 1 /\ j \in Known(ak) /\ j \notin wd
    BY <1>3 DEF Base, Said, Unsaid
  <2> QED BY <1>3, <2>1 DEF Base, Said
<1>6. InOrder(ps, td2, ak)
  <2> SUFFICES ASSUME NEW m \in DOMAIN ak, NEW k \in DOMAIN ak,
                      m < k, ak[m] \in Permissions, ak[k] \in Permissions,
                      td2[ak[k]] # <<>>
               PROVE  ak[m] \notin PermissionIds(ps)
    BY DEF InOrder, Base
  <2>1. CASE ak[k] = i
    BY <2>1
  <2>2. CASE ak[k] # i
    <3>1. ak[k] \in Id
      BY DEF Base, Said
    <3> QED BY <1>3, <2>2, <3>1 DEF Base, InOrder
  <2> QED BY <2>1, <2>2
<1> QED BY <1>4, <1>5, <1>6 DEF Base, td2

(* Whose an id is.                                                         *)
LEMMA RequestIds ==
  ASSUME NEW r \in Requests
  PROVE  /\ r.id \in Id /\ IdsOf(r) \subseteq Id
         /\ r.id \in Permissions <=> r.kind = "permission"
         /\ StepsOf(r) \cap Permissions = {}
<1>1. r.kind # "wizard" => r \in Question /\ StepsOf(r) = {}
  BY RequestKinds DEF StepsOf
<1>2. r.kind = "wizard" => r \in WizardRequest /\ StepsOf(r) = {r.steps[i].id : i \in DOMAIN r.steps}
  BY RequestKinds DEF StepsOf
<1>3. r.id \in Id
  BY <1>1, <1>2 DEF Question, WizardRequest
<1>4. StepsOf(r) \subseteq Id
  <2>1. r.kind = "wizard" => \A i \in DOMAIN r.steps : r.steps[i] \in Step
    BY <1>2 DEF WizardRequest
  <2> QED BY <1>1, <1>2, <2>1 DEF Step
<1>5. \A p \in Requests : p.kind = "permission" /\ p # r => p.id \notin IdsOf(r)
  BY IdsAssumption DEF IdsOf
<1>6. r.id \in Permissions <=> r.kind = "permission"
  BY <1>5 DEF Permissions, IdsOf
<1>7. StepsOf(r) \cap Permissions = {}
  BY <1>1, <1>5 DEF Permissions, IdsOf
<1> QED BY <1>3, <1>4, <1>6, <1>7 DEF IdsOf

(* A request received: its ids are new, so nothing was said of them.       *)
LEMMA AskKeeps ==
  ASSUME NEW ps, NEW fm, NEW w, NEW n, NEW td, NEW wd, NEW ak,
         Base(ps, fm, w, n, td, wd, ak),
         NEW r \in Requests, \A k \in DOMAIN ak : ak[k] # r.id
  PROVE  /\ Base(ps, fm, w, n, td, wd, Append(ak, r.id))
         /\ \A i \in IdsOf(r) : Unsaid(i, td, wd, Append(ak, r.id))
         /\ IdsOf(r) \cap (Ids(ps) \cup FormIds(fm) \cup WizardIds(w)) = {}
         /\ DOMAIN Append(ak, r.id) = DOMAIN ak \cup {Len(ak) + 1}
         /\ Append(ak, r.id)[Len(ak) + 1] = r.id
         /\ \A k \in DOMAIN ak : k < Len(ak) + 1 /\ Append(ak, r.id)[k] = ak[k]
<1> DEFINE ak2 == Append(ak, r.id)
           e == Len(ak) + 1
<1>1. ak \in Seq(Id) /\ r.id \in Id /\ IdsOf(r) \subseteq Id
  BY RequestIds DEF Base, Said
<1>2. /\ ak2 \in Seq(Id) /\ DOMAIN ak2 = DOMAIN ak \cup {e} /\ ak2[e] = r.id
      /\ DOMAIN ak \subseteq Nat /\ e \in Nat
      /\ \A k \in DOMAIN ak : k < e /\ ak2[k] = ak[k]
  BY <1>1
<1> HIDE DEF ak2, e
<1>3. Known(ak) \subseteq Known(ak2) /\ IdsOf(r) \subseteq Known(ak2)
  BY <1>2 DEF Known
<1>4. IdsOf(r) \cap Known(ak) = {}
  <2>1. \A q \in Requests : (\E k \in DOMAIN ak : ak[k] = q.id) => q # r
    OBVIOUS
  <2>2. \A q \in Requests : q # r => IdsOf(q) \cap IdsOf(r) = {}
    BY IdsAssumption DEF IdsOf
  <2> QED BY <2>1, <2>2 DEF Known
<1>5. \A i : Unsaid(i, td, wd, ak) => Unsaid(i, td, wd, ak2)
  BY <1>3 DEF Unsaid
<1>6. \A i \in IdsOf(r) : Unsaid(i, td, wd, ak2)
  BY <1>1, <1>3, <1>4 DEF Unsaid, Base, Said
<1>7. IdsOf(r) \cap (Ids(ps) \cup FormIds(fm) \cup WizardIds(w)) = {}
  BY <1>4 DEF Base, Unsaid
<1>8. Said(td, wd, ak2)
  BY <1>2, <1>3 DEF Base, Said
<1>9. InOrder(ps, td, ak2)
  <2> SUFFICES ASSUME NEW m \in DOMAIN ak2, NEW k \in DOMAIN ak2,
                      m < k, ak2[m] \in Permissions, ak2[k] \in Permissions
               PROVE  /\ \A p, q \in Waiting(ps) : p.id = ak2[m] /\ q.id = ak2[k] => p.no < q.no
                      /\ td[ak2[k]] # <<>> => ak2[m] \notin PermissionIds(ps)
    BY DEF InOrder
  <2>1. m \in DOMAIN ak
    BY <1>2
  <2>2. CASE k \in DOMAIN ak
    BY <1>2, <2>1, <2>2 DEF Base, InOrder
  <2>3. CASE k = e
    <3>1. ak2[k] = r.id /\ r.id \in IdsOf(r)
      BY <1>2, <2>3 DEF IdsOf
    <3>2. \A q \in Waiting(ps) : q.id # r.id
      BY <1>7, <3>1 DEF Ids
    <3> QED BY <1>6, <3>1, <3>2 DEF Unsaid
  <2> QED BY <1>2, <2>2, <2>3
<1>10. Base(ps, fm, w, n, td, wd, ak2)
  BY <1>5, <1>8, <1>9 DEF Base
<1> QED BY <1>2, <1>6, <1>7, <1>10 DEF ak2, e

(* A question is shown whose id stands nowhere yet; a permission request   *)
(* among them was received last.                                           *)
LEMMA ShowKeeps ==
  ASSUME NEW ps, NEW fm, NEW w, NEW td, NEW wd, NEW ak,
         Base(ps, fm, w, opened, td, wd, ak),
         NEW q \in Question, NEW c \in BOOLEAN, Show(q, c, ps, fm),
         Unsaid(q.id, td, wd, ak), q.id \notin Ids(ps) \cup FormIds(fm) \cup WizardIds(w),
         q.id \in Permissions <=> q.kind = "permission",
         q.id \in Permissions => \A m, k \in DOMAIN ak : m < k => ak[m] # q.id
  PROVE  /\ Base(prompts', form', w, opened', td, wd, ak)
         /\ PermissionIds(ps) \subseteq PermissionIds(prompts')
         /\ q.kind = "permission" => q.id \in PermissionIds(prompts')
<1>1. CASE q.kind = "form"
  <2>1. prompts' = ps /\ form' = [id |-> q.id, kind |-> "form", cancel |-> c]
        /\ opened' = opened
    BY <1>1 DEF Show
  <2>2. form' \in Form /\ form'.id = q.id /\ form' # None
    BY <2>1 DEF Form, Question, None
  <2>3. FormIds(form') = {q.id}
    BY <2>2 DEF FormIds
  <2>4. Apart(ps, form', w)
    BY <2>3 DEF Base, Apart
  <2>5. KindsTrue(ps, form', w)
    BY <1>1, <2>3 DEF Base, KindsTrue
  <2>6. Base(ps, form', w, opened, td, wd, ak)
    BY <2>2, <2>3, <2>4, <2>5 DEF Base
  <2> QED BY <1>1, <2>1, <2>6
<1>2. CASE q.kind # "form"
  <2> DEFINE p == PromptOf(q, c, opened)
             qs == open_prompt(ps, p)
  <2>1. prompts' = qs /\ form' = fm /\ opened' = opened + 1
    BY <1>2 DEF Show
  <2>2. Sound(ps, opened) /\ opened \in Nat
    BY DEF Base, Sound
  <2>3. p \in Prompt /\ p.id = q.id /\ p.no = opened /\ p.kind = q.kind
    BY <1>2, <2>2, PromptOfType DEF PromptOf, Prompt, Question
  <2> HIDE DEF p
  <2>4. /\ Sound(qs, opened + 1) /\ p \in Waiting(qs)
        /\ Waiting(qs) \subseteq Waiting(ps) \cup {p}
        /\ \A x \in Waiting(ps) : is_permission(x) => x \in Waiting(qs)
    BY <2>2, <2>3, OpenSound
  <2> HIDE DEF qs
  <2>5. Ids(qs) \subseteq Ids(ps) \cup {q.id}
    BY <2>3, <2>4 DEF Ids
  <2>6. Apart(qs, fm, w)
    BY <2>5 DEF Base, Apart
  <2>7. KindsTrue(qs, fm, w)
    <3>1. \A x \in Waiting(qs) : x.id \in Permissions <=> is_permission(x)
      BY <2>3, <2>4 DEF Base, KindsTrue, is_permission
    <3> QED BY <3>1 DEF Base, KindsTrue
  <2>8. InOrder(qs, td, ak)
    <3> SUFFICES ASSUME NEW m \in DOMAIN ak, NEW k \in DOMAIN ak,
                        m < k, ak[m] \in Permissions, ak[k] \in Permissions
                 PROVE  /\ \A x, y \in Waiting(qs) : x.id = ak[m] /\ y.id = ak[k] => x.no < y.no
                        /\ td[ak[k]] # <<>> => ak[m] \notin PermissionIds(qs)
      BY DEF InOrder
    <3>1. /\ \A x, y \in Waiting(ps) : x.id = ak[m] /\ y.id = ak[k] => x.no < y.no
          /\ td[ak[k]] # <<>> => ak[m] \notin PermissionIds(ps)
      BY DEF Base, InOrder
    <3>2. ak[m] # q.id
      OBVIOUS
    <3>3. \A x \in Waiting(ps) : x.no < opened
      BY <2>2 DEF Sound, Distinct
    <3>4. \A x, y \in Waiting(qs) : x.id = ak[m] /\ y.id = ak[k] => x.no < y.no
      BY <2>3, <2>4, <3>1, <3>2, <3>3
    <3>5. td[ak[k]] # <<>> => ak[m] \notin PermissionIds(qs)
      BY <2>3, <2>4, <3>1, <3>2 DEF PermissionIds
    <3> QED BY <3>4, <3>5
  <2>9. \A i \in Ids(qs) \cup FormIds(fm) \cup WizardIds(w) : Unsaid(i, td, wd, ak)
    BY <2>5 DEF Base
  <2>10. Base(qs, fm, w, opened + 1, td, wd, ak)
    BY <2>4, <2>6, <2>7, <2>8, <2>9 DEF Base
  <2>11. /\ PermissionIds(ps) \subseteq PermissionIds(qs)
         /\ q.kind = "permission" => q.id \in PermissionIds(qs)
    BY <2>3, <2>4 DEF PermissionIds, is_permission
  <2> QED BY <2>1, <2>10, <2>11
<1> QED BY <1>1, <1>2

(* An answer goes to the host, or to the wizard, which ends or goes on.    *)
LEMMA AbsorbKeeps ==
  ASSUME TypeOK, NEW ps, Base(ps, None, wizard, opened, told, withdrawn, asked),
         NEW k \in PromptKinds \cup {"form"}, NEW i \in Id, NEW v \in AnswerValue,
         Unsaid(i, told, withdrawn, asked), i \notin Ids(ps) \cup WizardIds(wizard),
         i \in Permissions => k = "permission",
         \A m, n \in DOMAIN asked :
           m < n /\ asked[n] = i /\ asked[m] \in Permissions /\ i \in Permissions =>
             asked[m] \notin PermissionIds(ps),
         absorb_wizard_answers(Response(k, i, v), ps, None)
  PROVE  /\ Base(prompts', form', wizard', opened', told', withdrawn, asked)
         /\ PermissionIds(ps) \subseteq PermissionIds(prompts')
         /\ i \in Permissions => told'[i] # <<>>
         /\ \A j \in Id : told[j] # <<>> => told'[j] # <<>>
<1> DEFINE ans == Response(k, i, v)
<1>1. ans.id = i /\ ans.value = v /\ ans.kind = k /\ FormIds(None) = {}
  BY DEF Response, FormIds
<1>2. told \in [Id -> Seq(Answer)] /\ absorb_wizard_answers(ans, ps, None)
  BY DEF TypeOK
<1> HIDE DEF ans
<1>3. ASSUME NEW j \in Id, NEW x \in AnswerValue, NEW st \in SUBSET Id, Tell(j, x, st)
      PROVE  /\ told' = [told EXCEPT ![j] = Append(@, [value |-> x, steps |-> st])]
             /\ [value |-> x, steps |-> st] \in Answer
             /\ told'[j] # <<>> /\ \A h \in Id : told[h] # <<>> => told'[h] # <<>>
  <2> DEFINE a == [value |-> x, steps |-> st]
  <2>1. a \in Answer
    BY DEF Answer, AnswerValue
  <2>2. told' = [told EXCEPT ![j] = Append(told[j], a)]
    BY <1>3 DEF Tell
  <2> HIDE DEF a
  <2>3. Append(told[j], a) # <<>>
    BY <1>2, <2>1
  <2>4. told'[j] # <<>> /\ \A h \in Id : told[h] # <<>> => told'[h] # <<>>
    BY <1>2, <2>2, <2>3
  <2> QED BY <2>1, <2>2, <2>4 DEF a
<1>4. CASE ~IsStepAnswer(ans)
  <2>1. Tell(i, v, {}) /\ prompts' = ps /\ form' = None /\ wizard' = wizard /\ opened' = opened
    BY <1>1, <1>2, <1>4 DEF absorb_wizard_answers
  <2>2. /\ told' = [told EXCEPT ![i] = Append(@, [value |-> v, steps |-> {}])]
        /\ [value |-> v, steps |-> {}] \in Answer
        /\ told'[i] # <<>> /\ \A h \in Id : told[h] # <<>> => told'[h] # <<>>
    BY <1>3, <2>1
  <2>3. Base(ps, None, wizard, opened, told', withdrawn, asked)
    BY <1>1, <2>2, AnswerKeeps
  <2> QED BY <2>1, <2>2, <2>3
<1>5. CASE IsStepAnswer(ans)
  <2>1. /\ wizard \in Wizard /\ wizard # None /\ wizard.id \in Id /\ wizard.results \subseteq Id
        /\ wizard.steps \in Seq(Step) /\ wizard.at \in Nat /\ wizard.cancel \in BOOLEAN
        /\ i \notin Permissions
    BY <1>1, <1>5 DEF IsStepAnswer, TypeOK, Wizard
  <2>2. /\ WizardIds(wizard) = {wizard.id} \cup Later(wizard)
        /\ WizardIds(wizard) \cap (Ids(ps) \cup Permissions) = {} /\ StepsApart(wizard)
        /\ \A j \in WizardIds(wizard) : Unsaid(j, told, withdrawn, asked)
    BY <2>1 DEF WizardIds, Base, Apart, KindsTrue
  <2>3. ASSUME wizard' = None, prompts' = ps, form' = None, opened' = opened,
               NEW x \in AnswerValue, NEW st \in SUBSET Id, Tell(wizard.id, x, st)
        PROVE  /\ Base(prompts', form', wizard', opened', told', withdrawn, asked)
               /\ \A j \in Id : told[j] # <<>> => told'[j] # <<>>
    <3>1. WizardIds(None) = {} /\ StepsApart(None)
      BY DEF WizardIds, StepsApart
    <3>2. Base(ps, None, None, opened, told, withdrawn, asked)
      BY <3>1, WizardKeeps
    <3>3. /\ told' = [told EXCEPT ![wizard.id] = Append(@, [value |-> x, steps |-> st])]
          /\ [value |-> x, steps |-> st] \in Answer
          /\ \A j \in Id : told[j] # <<>> => told'[j] # <<>>
      BY <1>3, <2>1, <2>3
    <3>4. Base(ps, None, None, opened, told', withdrawn, asked)
      BY <1>1, <2>2, <3>1, <3>2, <3>3, AnswerKeeps
    <3> QED BY <2>3, <3>3, <3>4
  <2>4. CASE /\ ans.value = "cancelled" /\ wizard' = None
             /\ Tell(wizard.id, "cancelled", {})
             /\ prompts' = ps /\ form' = None /\ opened' = opened
    BY <2>1, <2>3, <2>4 DEF AnswerValue
  <2>5. CASE /\ wizard' = None
             /\ Tell(wizard.id, "completed", wizard.results \cup {ans.id})
             /\ prompts' = ps /\ form' = None /\ opened' = opened
    BY <1>1, <2>1, <2>3, <2>5 DEF AnswerValue
  <2>6. CASE /\ wizard.at + 1 < Len(wizard.steps)
             /\ show_wizard_step([wizard EXCEPT !.at = @ + 1,
                                                !.results = @ \cup {ans.id}], ps, None)
             /\ told' = told
    <3> DEFINE w == [wizard EXCEPT !.at = @ + 1, !.results = @ \cup {ans.id}]
               u == [wizard EXCEPT !.at = @ + 1]
               q == CurrentStep(w)
    <3>1. u \in Wizard /\ u.at = wizard.at + 1 /\ u.steps = wizard.steps
          /\ u.results = wizard.results /\ u.id = wizard.id /\ u.cancel = wizard.cancel
      BY <2>1 DEF Wizard
    <3>2. w = [u EXCEPT !.results = u.results \cup {i}]
      BY <1>1, <3>1
    <3> HIDE DEF u
    <3>3. w \in Wizard /\ w.at = wizard.at + 1 /\ w.steps = wizard.steps /\ w.id = wizard.id
          /\ w.cancel \in BOOLEAN
      <4> HIDE DEF w
      <4> QED BY <2>1, <3>1, <3>2 DEF Wizard
    <3>4. show_wizard_step(w, ps, None)
      BY <2>6
    <3> HIDE DEF w
    <3>5. wizard' = w /\ Show(q, w.cancel, ps, None)
      BY <3>4 DEF show_wizard_step
    <3> DEFINE e == wizard.at + 2
    <3>6. e \in DOMAIN wizard.steps /\ e = w.at + 1 /\ e > wizard.at + 1 /\ e \in Nat
      BY <2>1, <2>6, <3>3
    <3>7. q = wizard.steps[e]
      BY <3>3, <3>6 DEF CurrentStep
    <3> HIDE DEF e, q
    <3>8. q.id \in Later(wizard) /\ q.id # wizard.id /\ q \in Step
      <4>1. wizard.steps[e] \in Step
        BY <2>1, <3>6
      <4> QED BY <2>1, <2>2, <3>6, <3>7, <4>1 DEF Later, StepsApart
    <3>9. w # None /\ WizardIds(w) = {wizard.id} \cup Later(w)
      BY <3>3 DEF WizardIds, Wizard, None
    <3>10. Later(w) \subseteq Later(wizard) /\ q.id \notin Later(w)
      <4>1. DOMAIN wizard.steps \subseteq Nat
        BY <2>1
      <4>2. \A j \in DOMAIN w.steps : j > w.at + 1 => j \in DOMAIN wizard.steps /\ j > wizard.at + 1 /\ j # e
        BY <2>1, <3>3, <3>6, <4>1
      <4> QED BY <2>1, <2>2, <3>3, <3>6, <3>7, <4>2 DEF Later, StepsApart
    <3>11. StepsApart(w)
      BY <2>1, <2>2, <3>3 DEF StepsApart
    <3>12. Base(ps, None, w, opened, told, withdrawn, asked)
      BY <1>1, <2>2, <3>3, <3>9, <3>10, <3>11, WizardKeeps
    <3>13. q \in Question /\ q.kind # "permission"
      BY <3>8 DEF Step, Question, PromptKinds
    <3>14. Unsaid(q.id, told, withdrawn, asked) /\ q.id \notin Permissions
           /\ q.id \notin Ids(ps) \cup FormIds(None) \cup WizardIds(w)
      BY <1>1, <2>2, <3>8, <3>9, <3>10
    <3>15. /\ Base(prompts', form', w, opened', told, withdrawn, asked)
           /\ PermissionIds(ps) \subseteq PermissionIds(prompts')
      BY <3>3, <3>5, <3>12, <3>13, <3>14, ShowKeeps
    <3> QED BY <2>1, <2>6, <3>5, <3>15
  <2> QED BY <1>2, <1>5, <2>1, <2>3, <2>4, <2>5, <2>6 DEF absorb_wizard_answers
<1> QED BY <1>4, <1>5

(* A permission request that waits goes on waiting, or is answered, or is  *)
(* withdrawn.                                                              *)
LEMMA NoneLostKept ==
  ASSUME NEW ps, NEW td, NEW wd, NEW ak, NEW ps2, NEW td2, NEW wd2,
         ak \in Seq(Id), NoneLost(ps, td, wd, ak), wd \subseteq wd2,
         \A i \in Id : td[i] # <<>> => td2[i] # <<>>,
         \A i \in PermissionIds(ps) \cap Permissions :
           i \in PermissionIds(ps2) \/ td2[i] # <<>> \/ i \in wd2
  PROVE  NoneLost(ps2, td2, wd2, ak)
<1>1. \A k \in DOMAIN ak : ak[k] \in Id
  OBVIOUS
<1> QED BY <1>1 DEF NoneLost

-----------------------------------------------------------------------------
(* Events of the host.                                                     *)

(* A request is shown, or waits behind the others.                         *)
LEMMA QuestionKeeps ==
  ASSUME TypeOK, AnswersInv, NEW r \in Requests, AskQuestion(r)
  PROVE  AnswersInv'
<1> DEFINE ak2 == Append(asked, r.id)
           e   == Len(asked) + 1
<1>1. /\ \A k \in DOMAIN asked : asked[k] # r.id
      /\ asked' = ak2 /\ Show(r, r.cancel, prompts, form)
      /\ UNCHANGED <<wizard, told, withdrawn>> /\ r.kind # "wizard"
  BY DEF AskQuestion, Ask
<1>2. r \in Question /\ r.cancel \in BOOLEAN
  BY <1>1, RequestKinds DEF Question
<1>3. Base(prompts, form, wizard, opened, told, withdrawn, asked)
      /\ NoneLost(prompts, told, withdrawn, asked)
  BY DEF AnswersInv
<1>4. /\ Base(prompts, form, wizard, opened, told, withdrawn, ak2)
      /\ \A i \in IdsOf(r) : Unsaid(i, told, withdrawn, ak2)
      /\ IdsOf(r) \cap (Ids(prompts) \cup FormIds(form) \cup WizardIds(wizard)) = {}
      /\ DOMAIN ak2 = DOMAIN asked \cup {e} /\ ak2[e] = r.id
      /\ \A k \in DOMAIN asked : k < e /\ ak2[k] = asked[k]
  BY <1>1, <1>3, AskKeeps
<1> HIDE DEF ak2, e
<1>5. r.id \in IdsOf(r)
  BY DEF IdsOf
<1>6. \A m, k \in DOMAIN ak2 : m < k => ak2[m] # r.id
  <2>1. e \in Nat /\ DOMAIN asked \subseteq Nat
    BY DEF e, TypeOK
  <2> QED BY <1>1, <1>4, <2>1
<1>7. r.id \in Permissions <=> r.kind = "permission"
  BY RequestIds
<1>8. /\ Base(prompts', form', wizard, opened', told, withdrawn, ak2)
      /\ PermissionIds(prompts) \subseteq PermissionIds(prompts')
      /\ r.kind = "permission" => r.id \in PermissionIds(prompts')
  BY <1>1, <1>2, <1>4, <1>5, <1>6, <1>7, ShowKeeps
<1>9. NoneLost(prompts', told, withdrawn, ak2)
  BY <1>3, <1>4, <1>7, <1>8 DEF NoneLost
<1> QED BY <1>1, <1>8, <1>9 DEF AnswersInv

(* A wizard brings the ids of its later steps.                             *)
LEMMA WizardRequestKeeps ==
  ASSUME TypeOK, AnswersInv, NEW r \in Requests, AskWizard(r)
  PROVE  AnswersInv'
<1> DEFINE ak2 == Append(asked, r.id)
           e   == Len(asked) + 1
           a   == [value |-> "completed", steps |-> {}]
<1>1. /\ \A k \in DOMAIN asked : asked[k] # r.id
      /\ asked' = ak2 /\ UNCHANGED withdrawn /\ r.kind = "wizard"
  BY DEF AskWizard, Ask
<1>2. r \in WizardRequest /\ r.id \in Id /\ r.steps \in Seq(Step) /\ r.cancel \in BOOLEAN
  BY <1>1, RequestKinds DEF WizardRequest
<1>3. Base(prompts, form, wizard, opened, told, withdrawn, asked)
      /\ NoneLost(prompts, told, withdrawn, asked)
  BY DEF AnswersInv
<1>4. /\ Base(prompts, form, wizard, opened, told, withdrawn, ak2)
      /\ \A i \in IdsOf(r) : Unsaid(i, told, withdrawn, ak2)
      /\ IdsOf(r) \cap (Ids(prompts) \cup FormIds(form) \cup WizardIds(wizard)) = {}
      /\ DOMAIN ak2 = DOMAIN asked \cup {e} /\ ak2[e] = r.id
      /\ \A k \in DOMAIN asked : k < e /\ ak2[k] = asked[k]
  BY <1>1, <1>3, AskKeeps
<1>5. a \in Answer
  BY DEF Answer
<1> HIDE DEF ak2, e
<1>6. r.id \notin Permissions /\ IdsOf(r) \cap Permissions = {} /\ r.id \in IdsOf(r)
  BY <1>1, RequestIds DEF IdsOf
<1>7. NoneLost(prompts, told, withdrawn, ak2)
  BY <1>3, <1>4, <1>6 DEF NoneLost
<1>8. ak2 \in Seq(Id)
  BY <1>4 DEF Base, Said
<1>9. CASE Tell(r.id, "completed", {}) /\ UNCHANGED slot
  <2>1. told' = [told EXCEPT ![r.id] = Append(@, a)] /\ UNCHANGED <<prompts, form, wizard, opened>>
    BY <1>9 DEF Tell, slot
  <2> HIDE DEF a
  <2>2. Base(prompts, form, wizard, opened, told', withdrawn, ak2)
    BY <1>4, <1>5, <1>6, <2>1, AnswerKeeps
  <2>3. told \in [Id -> Seq(Answer)]
    BY DEF TypeOK
  <2>4. \A i \in Id : told[i] # <<>> => told'[i] # <<>>
    BY <1>2, <1>5, <2>1, <2>3
  <2>5. NoneLost(prompts, told', withdrawn, ak2)
    BY <1>7, <1>8, <2>4, NoneLostKept
  <2> QED BY <1>1, <2>1, <2>2, <2>5 DEF AnswersInv
<1>10. CASE /\ r.steps # <<>> /\ told' = told
            /\ show_wizard_step([id |-> r.id, kind |-> "wizard", cancel |-> r.cancel,
                                 steps |-> r.steps, at |-> 0, results |-> {}],
                                prompts, form)
  <2> DEFINE w == [id |-> r.id, kind |-> "wizard", cancel |-> r.cancel,
                   steps |-> r.steps, at |-> 0, results |-> {}]
             q == CurrentStep(w)
  <2>1. w \in Wizard /\ w.at = 0 /\ w.steps = r.steps /\ w.id = r.id /\ w.cancel = r.cancel
    BY <1>2 DEF Wizard
  <2>2. show_wizard_step(w, prompts, form)
    BY <1>10
  <2> HIDE DEF w
  <2>3. wizard' = w /\ Show(q, w.cancel, prompts, form)
    BY <2>2 DEF show_wizard_step
  <2>4. 1 \in DOMAIN r.steps /\ q = r.steps[1] /\ q \in Step
    BY <1>2, <1>10, <2>1 DEF CurrentStep
  <2> HIDE DEF q
  <2>5. StepsOf(r) = {r.steps[j].id : j \in DOMAIN r.steps}
    BY <1>1 DEF StepsOf
  <2>6. StepsApart(w) /\ w # None
    BY <1>1, <2>1, <2>5, IdsAssumption DEF StepsApart, Wizard, None
  <2>7. WizardIds(w) \subseteq IdsOf(r) /\ q.id \in IdsOf(r) /\ q.id \notin WizardIds(w)
    <3>1. WizardIds(w) = {r.id} \cup {r.steps[j].id : j \in {k \in DOMAIN r.steps : k > 1}}
      BY <2>1, <2>6 DEF WizardIds, Later
    <3>2. q.id # r.id /\ \A j \in DOMAIN r.steps : j # 1 => r.steps[j].id # q.id
      BY <2>1, <2>4, <2>6 DEF StepsApart
    <3> QED BY <2>4, <2>5, <3>1, <3>2 DEF IdsOf
  <2>8. Base(prompts, form, w, opened, told, withdrawn, ak2)
    BY <1>4, <1>6, <2>1, <2>6, <2>7, WizardKeeps
  <2>9. q \in Question /\ q.kind # "permission"
    BY <2>4 DEF Step, Question, PromptKinds
  <2>10. /\ Base(prompts', form', w, opened', told, withdrawn, ak2)
         /\ PermissionIds(prompts) \subseteq PermissionIds(prompts')
    BY <1>2, <1>4, <1>6, <2>1, <2>3, <2>7, <2>8, <2>9, ShowKeeps
  <2>11. NoneLost(prompts', told, withdrawn, ak2)
    BY <1>7, <2>10 DEF NoneLost
  <2> QED BY <1>1, <1>10, <2>3, <2>10, <2>11 DEF AnswersInv
<1> QED BY <1>9, <1>10 DEF AskWizard

(* Nothing is told: prompts may go, as settle() has it, or change.         *)
LEMMA QuietKeeps ==
  ASSUME TypeOK, AnswersInv, Sound(prompts', opened), Comes(prompts', prompts),
         NEW W \in SUBSET PermissionIds(prompts), W \cap Ids(prompts') = {},
         PermissionIds(prompts) \subseteq PermissionIds(prompts') \cup W,
         withdrawn' = withdrawn \cup W, UNCHANGED <<form, wizard, opened, told, asked>>
  PROVE  AnswersInv'
<1>1. Base(prompts, form, wizard, opened, told, withdrawn, asked)
      /\ NoneLost(prompts, told, withdrawn, asked) /\ asked \in Seq(Id)
  BY DEF AnswersInv, TypeOK
<1>2. Base(prompts', form, wizard, opened, told, withdrawn \cup W, asked)
  BY <1>1, FewerKeeps
<1>3. NoneLost(prompts', told, withdrawn \cup W, asked)
  BY <1>1, NoneLostKept
<1> QED BY <1>2, <1>3 DEF AnswersInv

(* settle() withdraws the permission requests that wait.                   *)
LEMMA SettleKeeps ==
  ASSUME TypeOK, AnswersInv, Settle, UNCHANGED <<told, asked>>
  PROVE  AnswersInv'
<1>1. Sound(prompts, opened)
  BY DEF AnswersInv, Base
<1>2. /\ Sound(prompts', opened)
      /\ Waiting(prompts') = {p \in Waiting(prompts) : ~is_permission(p)}
  BY <1>1, SettleSound DEF Settle, Sound
<1>3. Comes(prompts', prompts)
  BY <1>2, ComesSubset
<1>4. PermissionIds(prompts) \cap Ids(prompts') = {}
  BY <1>2 DEF AnswersInv, Base, KindsTrue, PermissionIds, Ids
<1> QED BY <1>2, <1>3, <1>4, QuietKeeps DEF Settle

(* Whatever the host sends.                                                *)
LEMMA HostKeeps ==
  ASSUME TypeOK, AnswersInv, Host
  PROVE  AnswersInv'
<1>1. CASE \E r \in Requests : AskQuestion(r) \/ AskWizard(r)
  BY <1>1, QuestionKeeps, WizardRequestKeeps
<1>2. CASE HostCancels \/ StatusIdle
  BY <1>2, SettleKeeps DEF HostCancels, StatusIdle
<1>3. CASE StatusBusy
  <2>1. UNCHANGED <<prompts, form, wizard, opened, told, asked, withdrawn>>
    BY <1>3 DEF StatusBusy, slot
  <2> QED BY <2>1 DEF AnswersInv
<1> QED BY <1>1, <1>2, <1>3 DEF Host

-----------------------------------------------------------------------------
(* Frames, time and keys.                                                  *)

(* The open prompt is changed in place.                                    *)
LEMMA OpenKeeps ==
  ASSUME TypeOK, AnswersInv, prompts.open # None, NEW p \in Prompt, Same(p, prompts.open),
         prompts' = [prompts EXCEPT !.open = p],
         UNCHANGED <<form, wizard, opened, told, asked, withdrawn>>
  PROVE  AnswersInv'
<1>1. Sound(prompts, opened)
  BY DEF AnswersInv, Base
<1>2. /\ Sound(prompts', opened) /\ Comes(prompts', prompts)
      /\ PermissionIds(prompts') = PermissionIds(prompts)
  BY <1>1, EditSound
<1>3. withdrawn' = withdrawn \cup {}
  OBVIOUS
<1> QED BY <1>2, <1>3, QuietKeeps

(* Moving the selection, filtering, refusing to be cancelled.              *)
LEMMA EditKeeps ==
  ASSUME TypeOK, AnswersInv, MoveSelection \/ TypeFilter \/ EraseFilter \/ RefuseCancel
  PROVE  AnswersInv'
<1>1. PICK q \in Prompt : Edit(q, prompts.open) /\ WithOpen(q) /\ prompts.open # None
  BY Edits
<1>2. Same(q, prompts.open)
  BY <1>1 DEF Edit, Kin, Same
<1> QED BY <1>1, <1>2, OpenKeeps DEF WithOpen

(* A frame stamps the open prompt.                                         *)
LEMMA FrameKeeps ==
  ASSUME TypeOK, AnswersInv, Draw
  PROVE  AnswersInv'
<1>1. UNCHANGED <<form, wizard, opened, told, asked, withdrawn>>
  BY DEF Draw
<1>2. CASE prompts' = prompts
  BY <1>1, <1>2 DEF AnswersInv
<1>3. CASE prompts' # prompts
  <2> DEFINE p == [prompts.open EXCEPT !.shown_at = {0}]
  <2>1. prompts.open # None /\ prompts' = [prompts EXCEPT !.open = p]
    BY <1>3 DEF Draw, frame_drawn
  <2>2. prompts.open \in Prompt /\ 0 \in Ages
    BY <2>1, BoundsAssumption DEF TypeOK, Ages
  <2>3. p \in Prompt /\ Same(p, prompts.open)
    BY <2>2 DEF Prompt, Same
  <2> HIDE DEF p
  <2> QED BY <1>1, <2>1, <2>3, OpenKeeps
<1> QED BY <1>2, <1>3

(* Time passes.                                                            *)
LEMMA TickKeeps ==
  ASSUME TypeOK, AnswersInv, Tick
  PROVE  AnswersInv'
<1>1. Sound(prompts, opened)
  BY DEF AnswersInv, Base
<1>2. /\ Sound(prompts', opened) /\ Comes(prompts', prompts)
      /\ PermissionIds(prompts') = PermissionIds(prompts)
  BY <1>1, TickSound DEF Tick
<1>3. withdrawn' = withdrawn \cup {} /\ UNCHANGED <<form, wizard, opened, told, asked>>
  BY DEF Tick
<1> QED BY <1>2, <1>3, QuietKeeps

(* The form, or the prompt, an answer came from is closed; ps is left.     *)
LEMMA AnswerStep ==
  ASSUME TypeOK, AnswersInv, NEW ps, NEW i \in Id,
         Sound(ps, opened), Comes(ps, prompts), i \notin Ids(ps) \cup WizardIds(wizard),
         Unsaid(i, told, withdrawn, asked),
         PermissionIds(prompts) \subseteq PermissionIds(ps) \cup {i},
         NEW k \in PromptKinds \cup {"form"}, i \in Permissions => k = "permission",
         \A m, n \in DOMAIN asked :
           m < n /\ asked[n] = i /\ asked[m] \in Permissions /\ i \in Permissions =>
             asked[m] \notin PermissionIds(ps),
         NEW v \in AnswerValue, absorb_wizard_answers(Response(k, i, v), ps, None),
         UNCHANGED <<asked, withdrawn>>
  PROVE  AnswersInv'
<1>1. /\ Base(prompts, form, wizard, opened, told, withdrawn, asked)
      /\ NoneLost(prompts, told, withdrawn, asked) /\ asked \in Seq(Id)
      /\ withdrawn \cup {} = withdrawn
  BY DEF AnswersInv, TypeOK
<1>2. Base(ps, None, wizard, opened, told, withdrawn \cup {}, asked)
  BY <1>1, FewerKeeps
<1>3. Base(ps, None, wizard, opened, told, withdrawn, asked)
  BY <1>1, <1>2
<1>4. /\ Base(prompts', form', wizard', opened', told', withdrawn, asked)
      /\ PermissionIds(ps) \subseteq PermissionIds(prompts')
      /\ i \in Permissions => told'[i] # <<>>
      /\ \A j \in Id : told[j] # <<>> => told'[j] # <<>>
  BY <1>3, AbsorbKeeps
<1>5. NoneLost(prompts', told', withdrawn, asked)
  BY <1>1, <1>4, NoneLostKept
<1> QED BY <1>4, <1>5 DEF AnswersInv

(* A form is submitted or cancelled.                                       *)
LEMMA FormKeeps ==
  ASSUME TypeOK, AnswersInv, SubmitForm \/ CancelForm
  PROVE  AnswersInv'
<1> DEFINE i == form.id
<1>1. Base(prompts, form, wizard, opened, told, withdrawn, asked)
  BY DEF AnswersInv
<1>2. form \in Form /\ i \in Id /\ FormIds(form) = {i}
  BY DEF SubmitForm, CancelForm, TypeOK, Form, FormIds
<1>3. PICK v \in AnswerValue : absorb_wizard_answers(Response("form", i, v), prompts, None)
  BY DEF SubmitForm, CancelForm, AnswerValue
<1>4. UNCHANGED <<asked, withdrawn>>
  BY DEF SubmitForm, CancelForm
<1> HIDE DEF i
<1>5. /\ i \notin Ids(prompts) \cup WizardIds(wizard) /\ i \notin Permissions
      /\ Unsaid(i, told, withdrawn, asked) /\ Sound(prompts, opened)
  BY <1>1, <1>2 DEF Base, Apart, KindsTrue
<1>6. Comes(prompts, prompts)
  BY ComesSubset
<1> QED BY <1>2, <1>3, <1>4, <1>5, <1>6, AnswerStep

(* What is known of the prompt that has the keys, and of those behind it.  *)
LEMMA OpenPromptIds ==
  ASSUME TypeOK, AnswersInv, prompts.open # None
  PROVE  LET i  == prompts.open.id
             qs == show_queued_prompt([prompts EXCEPT !.open = None])
         IN  /\ i \in Id /\ Unsaid(i, told, withdrawn, asked)
             /\ prompts.open.kind \in PromptKinds
             /\ i \in Permissions <=> is_permission(prompts.open)
             /\ Sound(qs, opened) /\ Comes(qs, prompts)
             /\ i \notin Ids(qs) \cup FormIds(form) \cup WizardIds(wizard)
             /\ PermissionIds(prompts) \subseteq PermissionIds(qs) \cup {i}
             /\ \A m, n \in DOMAIN asked :
                  m < n /\ asked[n] = i /\ asked[m] \in Permissions /\ i \in Permissions =>
                    asked[m] \notin PermissionIds(qs)
<1> DEFINE o  == prompts.open
           i  == o.id
           qs == show_queued_prompt([prompts EXCEPT !.open = None])
<1>1. Base(prompts, form, wizard, opened, told, withdrawn, asked)
  BY DEF AnswersInv
<1>2. o \in Prompt /\ o \in Waiting(prompts) /\ prompts.queued \subseteq Waiting(prompts)
      /\ Waiting(prompts) = prompts.queued \cup {o}
  BY DEF TypeOK, Waiting
<1>3. Sound(prompts, opened) /\ prompts.queued \in SUBSET Prompt
  BY <1>1 DEF Base, TypeOK
<1>4. Sound(qs, opened) /\ Waiting(qs) = prompts.queued /\ i \notin Ids(qs)
  BY <1>3, CloseOpen
<1> HIDE DEF qs, o
<1>5. Comes(qs, prompts)
  BY <1>2, <1>4, ComesSubset
<1>6. i \in Ids(prompts) /\ i \in Id /\ o.kind \in PromptKinds
  BY <1>2 DEF Ids, Prompt
<1>7. Unsaid(i, told, withdrawn, asked) /\ i \notin FormIds(form) \cup WizardIds(wizard)
  BY <1>1, <1>6 DEF Base, Apart
<1>8. i \in Permissions <=> is_permission(o)
  BY <1>1, <1>2 DEF Base, KindsTrue
<1>9. PermissionIds(prompts) \subseteq PermissionIds(qs) \cup {i}
  BY <1>2, <1>4 DEF PermissionIds
<1>10. ASSUME NEW m \in DOMAIN asked, NEW n \in DOMAIN asked, m < n, asked[n] = i,
              asked[m] \in Permissions, i \in Permissions,
              NEW p \in Waiting(qs), p.id = asked[m]
       PROVE  FALSE
  <2>1. p \in prompts.queued /\ p \in Waiting(prompts) /\ p.no \in Nat /\ o.no \in Nat
    BY <1>2, <1>3, <1>4 DEF Prompt
  <2>2. o.no < p.no
    BY <1>3, <1>8, <1>10, <2>1 DEF Sound, Distinct, o
  <2>3. p.no < o.no
    BY <1>1, <1>2, <1>10, <2>1 DEF Base, InOrder
  <2> QED BY <2>1, <2>2, <2>3
<1>11. \A m, n \in DOMAIN asked :
         m < n /\ asked[n] = i /\ asked[m] \in Permissions /\ i \in Permissions =>
           asked[m] \notin PermissionIds(qs)
  BY <1>10 DEF PermissionIds
<1> QED BY <1>4, <1>5, <1>6, <1>7, <1>8, <1>9, <1>11 DEF qs, o

(* The open prompt is answered or cancelled.                               *)
LEMMA PromptKeeps ==
  ASSUME TypeOK, AnswersInv, Pick \/ CancelPrompt
  PROVE  AnswersInv'
<1> DEFINE i  == prompts.open.id
           k  == prompts.open.kind
           qs == show_queued_prompt([prompts EXCEPT !.open = None])
<1>1. prompts.open # None /\ UNCHANGED <<asked, withdrawn>>
  BY DEF Pick, CancelPrompt, PromptHasKeys
<1>2. \E v \in AnswerValue : absorb_wizard_answers(Response(k, i, v), qs, None)
  <2>1. CASE Pick
    <3>1. \E c \in Nat : absorb_wizard_answers(Response(k, i, Choice(prompts.open, c)), qs, None)
      BY <2>1 DEF Pick, Pickable
    <3>2. \A c : Choice(prompts.open, c) \in AnswerValue
      BY DEF Choice, AnswerValue
    <3> QED BY <3>1, <3>2
  <2>2. CASE CancelPrompt
    BY <2>2 DEF CancelPrompt, AnswerValue
  <2> QED BY <2>1, <2>2
<1>3. /\ i \in Id /\ Unsaid(i, told, withdrawn, asked) /\ k \in PromptKinds
      /\ i \in Permissions => k = "permission"
      /\ Sound(qs, opened) /\ Comes(qs, prompts)
      /\ i \notin Ids(qs) \cup WizardIds(wizard)
      /\ PermissionIds(prompts) \subseteq PermissionIds(qs) \cup {i}
      /\ \A m, n \in DOMAIN asked :
           m < n /\ asked[n] = i /\ asked[m] \in Permissions /\ i \in Permissions =>
             asked[m] \notin PermissionIds(qs)
  BY <1>1, OpenPromptIds DEF is_permission
<1> HIDE DEF qs, i, k
<1> QED BY <1>1, <1>2, <1>3, AnswerStep

(* One request is denied and every other withdrawn.                        *)
LEMMA DenyKeeps ==
  ASSUME TypeOK, AnswersInv, DenyAndInterrupt
  PROVE  AnswersInv'
<1> DEFINE i  == prompts.open.id
           es == [prompts EXCEPT !.open = None]
           W  == PermissionIds(prompts) \ {i}
           a  == [value |-> "deny", steps |-> {}]
<1>1. /\ prompts.open # None /\ prompts' = settled(es)
      /\ told' = [told EXCEPT ![i] = Append(@, a)]
      /\ withdrawn' = withdrawn \cup W
      /\ UNCHANGED <<form, wizard, opened, asked>>
  BY DEF DenyAndInterrupt, PromptHasKeys, Tell
<1>2. /\ Base(prompts, form, wizard, opened, told, withdrawn, asked)
      /\ NoneLost(prompts, told, withdrawn, asked) /\ Sound(prompts, opened)
      /\ asked \in Seq(Id) /\ told \in [Id -> Seq(Answer)] /\ a \in Answer
  BY DEF AnswersInv, Base, TypeOK, Answer
<1>3. /\ i \in Id /\ Unsaid(i, told, withdrawn, asked)
      /\ i \notin FormIds(form) \cup WizardIds(wizard)
  BY <1>1, OpenPromptIds
<1>4. prompts \in PromptState /\ opened \in Nat /\ Distinct(prompts, opened)
  BY <1>2 DEF Sound
<1>5. es \in PromptState /\ es.open = None /\ es.queued = prompts.queued
  BY <1>4 DEF PromptState
<1>6. \A p \in prompts.queued : p.id # i
  BY <1>1, <1>4 DEF Distinct
<1> HIDE DEF es, a, i
<1>7. Waiting(es) = prompts.queued /\ Waiting(es) \subseteq Waiting(prompts)
  BY <1>5 DEF Waiting
<1>8. Distinct(es, opened)
  BY <1>4, <1>5, <1>7 DEF Distinct
<1>9. /\ Sound(prompts', opened)
      /\ Waiting(prompts') = {p \in prompts.queued : ~is_permission(p)}
  BY <1>1, <1>4, <1>5, <1>7, <1>8, SettleSound
<1>10. Comes(prompts', prompts)
  BY <1>7, <1>9, ComesSubset
<1>11. PermissionIds(prompts) \cap Ids(prompts') = {} /\ PermissionIds(prompts') = {}
       /\ i \notin Ids(prompts')
  <2>1. \A p, q \in Waiting(prompts) : p.id = q.id => (is_permission(p) <=> is_permission(q))
    BY <1>2 DEF Base, KindsTrue
  <2> QED BY <1>6, <1>7, <1>9, <2>1 DEF PermissionIds, Ids
<1>12. Base(prompts', form, wizard, opened, told, withdrawn', asked)
  <2>1. W \in SUBSET PermissionIds(prompts) /\ W \cap Ids(prompts') = {}
    BY <1>11
  <2> QED BY <1>1, <1>2, <1>9, <1>10, <2>1, FewerKeeps
<1>13. Unsaid(i, told, withdrawn', asked)
  BY <1>1, <1>3 DEF Unsaid
<1>14. \A m, k \in DOMAIN asked : asked[m] \notin PermissionIds(prompts')
  BY <1>11
<1>15. Base(prompts', form, wizard, opened, told', withdrawn', asked)
  BY <1>1, <1>2, <1>3, <1>11, <1>12, <1>13, <1>14, AnswerKeeps
<1>16. told'[i] # <<>> /\ \A j \in Id : told[j] # <<>> => told'[j] # <<>>
  <2>1. told' = [told EXCEPT ![i] = Append(told[i], a)]
    BY <1>1
  <2>2. Append(told[i], a) # <<>>
    BY <1>2, <1>3
  <2> QED BY <1>2, <1>3, <2>1, <2>2
<1>17. NoneLost(prompts', told', withdrawn', asked)
  <2>1. withdrawn \subseteq withdrawn'
    BY <1>1
  <2>2. \A j \in PermissionIds(prompts) : told'[j] # <<>> \/ j \in withdrawn'
    BY <1>1, <1>16
  <2> QED BY <1>2, <1>16, <2>1, <2>2, NoneLostKept
<1> QED BY <1>1, <1>15, <1>17 DEF AnswersInv

(* Whatever key is pressed.                                                *)
LEMMA KeysKeep ==
  ASSUME TypeOK, AnswersInv, Keys
  PROVE  AnswersInv'
<1>1. CASE Interrupt
  BY <1>1, SettleKeeps DEF Interrupt
<1> QED BY <1>1, FormKeeps, EditKeeps, PromptKeeps, DenyKeeps DEF Keys

-----------------------------------------------------------------------------
(* At first nothing waits and nothing was said.                            *)
LEMMA AnswersInvInit == Init => AnswersInv
<1> SUFFICES ASSUME Init PROVE AnswersInv
  OBVIOUS
<1>1. prompts = [open |-> None, queued |-> {}] /\ asked = <<>> /\ withdrawn = {}
      /\ form = None /\ wizard = None /\ opened = 0 /\ told = [i \in Id |-> <<>>]
  BY DEF Init
<1>2. prompts \in PromptState /\ Waiting(prompts) = {} /\ prompts.queued = {}
      /\ prompts.open = None
  BY <1>1 DEF PromptState, Waiting
<1>3. Ids(prompts) = {} /\ FormIds(form) = {} /\ WizardIds(wizard) = {} /\ StepsApart(wizard)
  BY <1>1, <1>2 DEF Ids, FormIds, WizardIds, StepsApart
<1>4. Sound(prompts, opened)
  BY <1>1, <1>2 DEF Sound, Served, Distinct
<1>5. asked \in Seq(Id) /\ DOMAIN asked = {} /\ told \in [Id -> Seq(Answer)]
      /\ \A i \in Id : told[i] = <<>>
  BY <1>1
<1>6. Said(told, withdrawn, asked)
  BY <1>1, <1>5 DEF Said
<1>7. InOrder(prompts, told, asked) /\ NoneLost(prompts, told, withdrawn, asked)
  BY <1>5 DEF InOrder, NoneLost
<1>8. Apart(prompts, form, wizard) /\ KindsTrue(prompts, form, wizard)
  BY <1>2, <1>3 DEF Apart, KindsTrue
<1> QED BY <1>1, <1>3, <1>4, <1>6, <1>7, <1>8 DEF AnswersInv, Base

(* The invariant, with PromptsInv for the types.                           *)
LEMMA AnswersInvStep == PromptsInv /\ AnswersInv /\ [Next]_vars => AnswersInv'
<1> SUFFICES ASSUME TypeOK, AnswersInv, [Next]_vars PROVE AnswersInv'
  BY DEF PromptsInv
<1>1. CASE UNCHANGED vars
  <2>1. UNCHANGED <<prompts, form, wizard, opened, told, asked, withdrawn>>
    BY <1>1 DEF vars, slot
  <2> QED BY <2>1 DEF AnswersInv
<1>2. CASE Next
  BY <1>2, HostKeeps, KeysKeep, FrameKeeps, TickKeeps DEF Next
<1> QED BY <1>1, <1>2

(* The invariant holds throughout.                                         *)
LEMMA AnswersHold == Spec => []AnswersInv
BY PromptsInvInit, PromptsInvStep, AnswersInvInit, AnswersInvStep, PTL DEF Spec

(* However prompts queue, replace each other, come back or are settled,    *)
(* outbound carries at most one answer to a request and to a wizard.       *)
THEOREM AnsweredOnce == Spec => []AnsweredAtMostOnce
<1>1. AnswersInv => AnsweredAtMostOnce
  <2> SUFFICES ASSUME AnswersInv, NEW i \in Id PROVE Len(told[i]) <= 1
    BY DEF AnsweredAtMostOnce
  <2>1. told[i] # <<>> => Len(told[i]) = 1
    BY DEF AnswersInv, Base, Said
  <2>2. CASE told[i] = <<>>
    BY <2>2
  <2>3. CASE told[i] # <<>>
    <3>1. Len(told[i]) = 1
      BY <2>1, <2>3
    <3> DEFINE n == Len(told[i])
    <3>2. n = 1
      BY <3>1
    <3> HIDE DEF n
    <3>3. n <= 1
      BY <3>2
    <3> QED BY <3>3 DEF n
  <2> QED BY <2>2, <2>3
<1> QED BY <1>1, AnswersHold, PTL

(* No permission request received falls out of the slot and its queue: it  *)
(* waits, or was answered, or was withdrawn with its turn, and only one.   *)
THEOREM NoneForgotten == Spec => []PermissionsAccounted
<1>1. AnswersInv => PermissionsAccounted
  <2> SUFFICES ASSUME AnswersInv, NEW i \in Asked \cap Permissions
               PROVE  LET waits    == i \in PermissionIds(prompts)
                          answered == told[i] # <<>>
                          gone     == i \in withdrawn
                      IN  /\ waits \/ answered \/ gone
                          /\ ~(waits /\ answered) /\ ~(waits /\ gone) /\ ~(answered /\ gone)
    BY DEF PermissionsAccounted
  <2>1. i \in PermissionIds(prompts) \/ told[i] # <<>> \/ i \in withdrawn
    BY DEF AnswersInv, NoneLost, Asked
  <2>2. i \in PermissionIds(prompts) => told[i] = <<>> /\ i \notin withdrawn
    BY DEF AnswersInv, Base, Unsaid, PermissionIds, Ids
  <2>3. told[i] # <<>> => i \notin withdrawn
    BY DEF AnswersInv, Base, Said, Asked
  <2> QED BY <2>1, <2>2, <2>3
<1> QED BY <1>1, AnswersHold, PTL

(* The queue answers permission requests in the order they came: none is   *)
(* answered while an earlier one still waits.                              *)
THEOREM AskedOrder == Spec => []PermissionsInOrder
<1>1. AnswersInv => PermissionsInOrder
  BY DEF AnswersInv, Base, InOrder, PermissionsInOrder
<1> QED BY <1>1, AnswersHold, PTL

-----------------------------------------------------------------------------
(* The queue of permission requests.                                       *)

(* The requests that wait are those received, not answered, not withdrawn. *)
Open(td, wd, ak) ==
  {i \in Permissions : (\E n \in DOMAIN ak : ak[n] = i) /\ td[i] = <<>> /\ i \notin wd}

LEMMA WaitingIsOpen ==
  ASSUME NEW ps, NEW fm, NEW w, NEW n, NEW td, NEW wd, NEW ak,
         Base(ps, fm, w, n, td, wd, ak), NoneLost(ps, td, wd, ak)
  PROVE  PermissionIds(ps) = Open(td, wd, ak)
<1>1. ASSUME NEW i \in PermissionIds(ps) PROVE i \in Open(td, wd, ak)
  <2>1. i \in Permissions /\ Unsaid(i, td, wd, ak)
    BY DEF Base, KindsTrue, PermissionIds, Ids
  <2>2. PICK r \in Requests : i \in IdsOf(r) /\ \E k \in DOMAIN ak : ak[k] = r.id
    BY <2>1 DEF Unsaid, Known
  <2>3. i = r.id
    BY <2>1, <2>2, RequestIds DEF IdsOf
  <2> QED BY <2>1, <2>2, <2>3 DEF Open, Unsaid
<1>2. ASSUME NEW i \in Open(td, wd, ak) PROVE i \in PermissionIds(ps)
  BY DEF Open, NoneLost
<1> QED BY <1>1, <1>2

-----------------------------------------------------------------------------
(* What changes for the queue of requests, and what does not.              *)
Told(td) == {i \in Permissions : td[i] # <<>>}

LEMMA Unseen ==
  ASSUME TypeOK, AnswersInv, AnswersInv', UNCHANGED <<asked, withdrawn>>, Told(told') = Told(told)
  PROVE  UNCHANGED Service!queueVars
<1>1. PermissionIds(prompts) = Open(told, withdrawn, asked)
  BY WaitingIsOpen DEF AnswersInv
<1>2. PermissionIds(prompts') = Open(told', withdrawn', asked')
  BY WaitingIsOpen DEF AnswersInv
<1>3. Open(told', withdrawn', asked') = Open(told, withdrawn, asked)
  BY DEF Open, Told
<1> QED BY <1>1, <1>2, <1>3 DEF Service!queueVars, Told

(* A question is received; if it is a permission request it waits.         *)
LEMMA Received ==
  ASSUME TypeOK, AnswersInv, AnswersInv', NEW r \in Requests, AskQuestion(r) \/ AskWizard(r)
  PROVE  Service!Receive
<1>1. /\ \A n \in DOMAIN asked : asked[n] # r.id
      /\ asked' = Append(asked, r.id) /\ withdrawn' = withdrawn
  BY DEF AskQuestion, AskWizard, Ask
<1>2. /\ Base(prompts, form, wizard, opened, told, withdrawn, asked)
      /\ asked \in Seq(Id) /\ told \in [Id -> Seq(Answer)] /\ r.id \in Id
  BY RequestIds DEF AnswersInv, TypeOK
<1> DEFINE e == Len(asked) + 1
<1>3. /\ DOMAIN asked' = DOMAIN asked \cup {e} /\ asked'[e] = r.id
      /\ \A n \in DOMAIN asked : asked'[n] = asked[n]
      /\ Len(asked') = e
  BY <1>1, <1>2
<1>4. told' = told \/ (r.id \notin Permissions
                       /\ told' = [told EXCEPT ![r.id] = Append(@, [value |-> "completed", steps |-> {}])])
  <2>1. CASE AskQuestion(r)
    BY <2>1 DEF AskQuestion
  <2>2. CASE AskWizard(r)
    BY <2>2, RequestIds DEF AskWizard, Tell
  <2> QED BY <2>1, <2>2
<1>5. \A i \in Permissions : told'[i] = told[i]
  <2>1. Permissions \subseteq Id
    BY RequestIds DEF Permissions
  <2> QED BY <1>2, <1>4, <2>1
<1>6. told[r.id] = <<>> /\ r.id \notin withdrawn
  BY <1>1, <1>2, AskKeeps DEF IdsOf, Unsaid
<1> HIDE DEF e
<1>7. PermissionIds(prompts) = Open(told, withdrawn, asked)
  BY WaitingIsOpen DEF AnswersInv
<1>8. PermissionIds(prompts') = Open(told', withdrawn', asked')
  BY WaitingIsOpen DEF AnswersInv
<1>9. Open(told', withdrawn', asked') = Open(told, withdrawn, asked) \cup ({r.id} \cap Permissions)
  BY <1>1, <1>3, <1>5, <1>6 DEF Open
<1>10. PermissionIds(prompts') = PermissionIds(prompts) \cup ({r.id} \cap Permissions)
  BY <1>7, <1>8, <1>9
<1>11. {i \in Permissions : told'[i] # <<>>} = {i \in Permissions : told[i] # <<>>}
  BY <1>5
<1> QED BY <1>1, <1>3, <1>10, <1>11 DEF Service!Receive, e

(* A turn ends: all that wait are withdrawn.                               *)
LEMMA Withdrawn ==
  ASSUME TypeOK, AnswersInv, AnswersInv', Settle, UNCHANGED <<told, asked>>
  PROVE  Service!Withdraw
<1>1. withdrawn' = withdrawn \cup PermissionIds(prompts)
  BY DEF Settle
<1>2. PermissionIds(prompts) = Open(told, withdrawn, asked)
  BY WaitingIsOpen DEF AnswersInv
<1>3. PermissionIds(prompts') = Open(told', withdrawn', asked')
  BY WaitingIsOpen DEF AnswersInv
<1>4. Open(told', withdrawn', asked') = {}
  BY <1>1, <1>2 DEF Open
<1> QED BY <1>1, <1>3, <1>4 DEF Service!Withdraw

(* The open permission request has waited longest.                         *)
LEMMA OpenIsFirst ==
  ASSUME TypeOK, AnswersInv, prompts.open # None, is_permission(prompts.open)
  PROVE  Service!First(prompts.open.id) /\ prompts.open.id \in Permissions
<1> DEFINE i  == prompts.open.id
           qs == show_queued_prompt([prompts EXCEPT !.open = None])
<1>1. /\ i \in Permissions
      /\ PermissionIds(prompts) \subseteq PermissionIds(qs) \cup {i}
      /\ \A m, n \in DOMAIN asked :
           m < n /\ asked[n] = i /\ asked[m] \in Permissions /\ i \in Permissions =>
             asked[m] \notin PermissionIds(qs)
  BY OpenPromptIds
<1> HIDE DEF qs
<1>2. i \in PermissionIds(prompts)
  BY DEF PermissionIds, Waiting
<1>3. PermissionIds(prompts) = Open(told, withdrawn, asked)
  BY WaitingIsOpen DEF AnswersInv
<1>4. ASSUME NEW m \in DOMAIN asked, NEW n \in DOMAIN asked, m < n, asked[n] = i PROVE asked[m] # i
  <2>1. prompts.open \in Waiting(prompts) /\ prompts.open.no \in Nat
    BY DEF Waiting, TypeOK, Prompt
  <2>2. asked[m] = i => prompts.open.no < prompts.open.no
    BY <1>1, <1>4, <2>1 DEF AnswersInv, Base, InOrder
  <2> QED BY <2>1, <2>2
<1>5. \A m, n \in DOMAIN asked : m < n /\ asked[n] = i => asked[m] \notin PermissionIds(prompts)
  BY <1>1, <1>3, <1>4 DEF Open
<1> QED BY <1>1, <1>2, <1>5 DEF Service!First

-----------------------------------------------------------------------------
(* What an answer of a prompt or a form tells the host.                    *)
LEMMA AbsorbTells ==
  ASSUME NEW ps, NEW k, NEW i \in Id, NEW v \in AnswerValue, TypeOK,
         absorb_wizard_answers(Response(k, i, v), ps, None)
  PROVE  \/ told' = told
         \/ \E j \in {i} \cup WizardIds(wizard), a \in Answer :
              j \in Id /\ told' = [told EXCEPT ![j] = Append(@, a)]
<1> DEFINE ans == Response(k, i, v)
<1>1. ans.id = i /\ ans.value = v
  BY DEF Response
<1> HIDE DEF ans
<1>2. ASSUME NEW j \in Id, NEW x \in AnswerValue, NEW st \in SUBSET Id, Tell(j, x, st)
      PROVE  \E a \in Answer : told' = [told EXCEPT ![j] = Append(@, a)]
  <2>1. [value |-> x, steps |-> st] \in Answer
    BY DEF Answer, AnswerValue
  <2> QED BY <1>2, <2>1 DEF Tell
<1>3. absorb_wizard_answers(ans, ps, None)
  BY DEF ans
<1>4. CASE ~IsStepAnswer(ans)
  <2>1. Tell(i, v, {})
    BY <1>1, <1>3, <1>4 DEF absorb_wizard_answers
  <2> QED BY <1>2, <2>1
<1>5. CASE IsStepAnswer(ans)
  <2>1. wizard \in Wizard /\ wizard.id \in WizardIds(wizard) /\ wizard.id \in Id
        /\ wizard.results \cup {i} \subseteq Id
    BY <1>5 DEF IsStepAnswer, TypeOK, Wizard, WizardIds
  <2>2. \/ told' = told
        \/ Tell(wizard.id, "cancelled", {})
        \/ Tell(wizard.id, "completed", wizard.results \cup {i})
    BY <1>1, <1>3, <1>5 DEF absorb_wizard_answers
  <2> QED BY <1>2, <2>1, <2>2 DEF AnswerValue
<1> QED BY <1>4, <1>5

(* An answer to the permission request that waited longest, or to what is  *)
(* none.                                                                   *)
LEMMA Answered ==
  ASSUME TypeOK, AnswersInv, AnswersInv', UNCHANGED <<asked, withdrawn>>,
         NEW j \in Id, NEW a \in Answer, told' = [told EXCEPT ![j] = Append(@, a)],
         j \in Permissions => Service!First(j)
  PROVE  Service!Answer \/ UNCHANGED Service!queueVars
<1>1. /\ told'[j] # <<>> /\ \A i \in Id : i # j => told'[i] = told[i]
      /\ told \in [Id -> Seq(Answer)]
  <2>1. told \in [Id -> Seq(Answer)] /\ told' = [told EXCEPT ![j] = Append(told[j], a)]
    BY DEF TypeOK
  <2>2. Append(told[j], a) # <<>>
    BY <2>1
  <2> QED BY <2>1, <2>2
<1>2. Permissions \subseteq Id
  BY RequestIds DEF Permissions
<1>3. CASE j \notin Permissions
  <2>1. Told(told') = Told(told)
    BY <1>1, <1>2, <1>3 DEF Told
  <2> QED BY <2>1, Unseen
<1>4. CASE j \in Permissions
  <2>1. PermissionIds(prompts) = Open(told, withdrawn, asked)
    BY WaitingIsOpen DEF AnswersInv
  <2>2. PermissionIds(prompts') = Open(told', withdrawn', asked')
    BY WaitingIsOpen DEF AnswersInv
  <2>3. Open(told', withdrawn', asked') = Open(told, withdrawn, asked) \ {j}
    BY <1>1, <1>2 DEF Open
  <2>4. {i \in Permissions : told'[i] # <<>>} = {i \in Permissions : told[i] # <<>>} \cup {j}
    BY <1>1, <1>2, <1>4
  <2>5. Service!First(j) /\ j \in PermissionIds(prompts)
    BY <1>4 DEF Service!First
  <2>6. PermissionIds(prompts') = PermissionIds(prompts) \ {j}
    BY <2>1, <2>2, <2>3
  <2> QED BY <2>4, <2>5, <2>6 DEF Service!Answer
<1> QED BY <1>3, <1>4

(* A form or a prompt is answered or cancelled.                            *)
LEMMA Closed ==
  ASSUME TypeOK, AnswersInv, AnswersInv', SubmitForm \/ CancelForm \/ Pick \/ CancelPrompt
  PROVE  Service!Answer \/ UNCHANGED Service!queueVars
<1>1. UNCHANGED <<asked, withdrawn>>
  BY DEF SubmitForm, CancelForm, Pick, CancelPrompt
<1>2. WizardIds(wizard) \cap Permissions = {} /\ FormIds(form) \cap Permissions = {}
  BY DEF AnswersInv, Base, KindsTrue
<1>3. \E i \in Id, v \in AnswerValue : \E k, ps :
        /\ i \in Permissions => Service!First(i)
        /\ absorb_wizard_answers(Response(k, i, v), ps, None)
  <2>1. CASE SubmitForm \/ CancelForm
    <3>1. form.id \in Id /\ form.id \notin Permissions
      BY <1>2, <2>1 DEF SubmitForm, CancelForm, TypeOK, Form, FormIds
    <3> QED BY <2>1, <3>1 DEF SubmitForm, CancelForm, AnswerValue
  <2>2. CASE Pick \/ CancelPrompt
    <3>1. prompts.open # None
      BY <2>2 DEF Pick, CancelPrompt, PromptHasKeys
    <3>2. /\ prompts.open.id \in Id
          /\ prompts.open.id \in Permissions => Service!First(prompts.open.id)
      BY <3>1, OpenPromptIds, OpenIsFirst
    <3>3. \E v \in AnswerValue :
            absorb_wizard_answers(Response(prompts.open.kind, prompts.open.id, v),
              show_queued_prompt([prompts EXCEPT !.open = None]), None)
      <4>1. \A c : Choice(prompts.open, c) \in AnswerValue
        BY DEF Choice, AnswerValue
      <4> QED BY <2>2, <4>1 DEF Pick, CancelPrompt, AnswerValue
    <3> QED BY <3>2, <3>3
  <2> QED BY <2>1, <2>2
<1>4. PICK i \in Id, v \in AnswerValue : \E k, ps :
        /\ i \in Permissions => Service!First(i)
        /\ absorb_wizard_answers(Response(k, i, v), ps, None)
  BY <1>3
<1>5. CASE told' = told
  BY <1>1, <1>5, Unseen
<1>6. CASE \E j \in {i} \cup WizardIds(wizard), a \in Answer :
             j \in Id /\ told' = [told EXCEPT ![j] = Append(@, a)]
  BY <1>1, <1>2, <1>4, <1>6, Answered
<1> QED BY <1>4, <1>5, <1>6, AbsorbTells

(* Esc on a permission request: it is refused and the others withdrawn.    *)
LEMMA Refused ==
  ASSUME TypeOK, AnswersInv, AnswersInv', DenyAndInterrupt
  PROVE  Service!Refuse
<1> DEFINE i == prompts.open.id
           a == [value |-> "deny", steps |-> {}]
<1>1. /\ prompts.open # None /\ is_permission(prompts.open)
      /\ told' = [told EXCEPT ![i] = Append(@, a)]
      /\ withdrawn' = withdrawn \cup (PermissionIds(prompts) \ {i})
      /\ asked' = asked
  BY DEF DenyAndInterrupt, PromptHasKeys, Tell
<1>2. Service!First(i) /\ i \in Permissions /\ i \in Id /\ a \in Answer
  BY <1>1, OpenIsFirst, OpenPromptIds DEF Answer
<1> HIDE DEF i, a
<1>3. /\ told'[i] # <<>> /\ \A j \in Id : j # i => told'[j] = told[j]
  <2>1. told \in [Id -> Seq(Answer)] /\ told' = [told EXCEPT ![i] = Append(told[i], a)]
    BY <1>1 DEF TypeOK
  <2>2. Append(told[i], a) # <<>>
    BY <1>2, <2>1
  <2> QED BY <1>2, <2>1, <2>2
<1>4. Permissions \subseteq Id
  BY RequestIds DEF Permissions
<1>5. PermissionIds(prompts) = Open(told, withdrawn, asked)
  BY WaitingIsOpen DEF AnswersInv
<1>6. PermissionIds(prompts') = Open(told', withdrawn', asked')
  BY WaitingIsOpen DEF AnswersInv
<1>7. Open(told', withdrawn', asked') = {}
  BY <1>1, <1>3, <1>4, <1>5 DEF Open
<1>8. {j \in Permissions : told'[j] # <<>>} = {j \in Permissions : told[j] # <<>>} \cup {i}
  BY <1>2, <1>3, <1>4
<1>9. i \in PermissionIds(prompts) /\ PermissionIds(prompts') = {}
  BY <1>2, <1>6, <1>7 DEF Service!First
<1> QED BY <1>1, <1>2, <1>8, <1>9 DEF Service!Refuse

(* The refinement, step by step.                                           *)
LEMMA QueueStep ==
  TypeOK /\ AnswersInv /\ AnswersInv' /\ [Next]_vars => [Service!Next]_(Service!queueVars)
<1> SUFFICES ASSUME TypeOK, AnswersInv, AnswersInv', [Next]_vars
             PROVE  Service!Next \/ UNCHANGED Service!queueVars
  OBVIOUS
<1>1. CASE \E r \in Requests : AskQuestion(r) \/ AskWizard(r)
  BY <1>1, Received DEF Service!Next
<1>2. CASE HostCancels \/ StatusIdle \/ Interrupt
  BY <1>2, Withdrawn DEF Service!Next, HostCancels, StatusIdle, Interrupt
<1>3. CASE SubmitForm \/ CancelForm \/ Pick \/ CancelPrompt
  BY <1>3, Closed DEF Service!Next
<1>4. CASE DenyAndInterrupt
  BY <1>4, Refused DEF Service!Next
<1>5. CASE MoveSelection \/ TypeFilter \/ EraseFilter \/ RefuseCancel
  <2>1. UNCHANGED <<told, asked, withdrawn>>
    BY <1>5, Edits DEF WithOpen
  <2> QED BY <2>1, Unseen
<1>6. CASE StatusBusy \/ Draw \/ Tick \/ UNCHANGED vars
  <2>1. UNCHANGED <<told, asked, withdrawn>>
    BY <1>6 DEF StatusBusy, Draw, Tick, vars
  <2> QED BY <2>1, Unseen
<1> QED BY <1>1, <1>2, <1>3, <1>4, <1>5, <1>6 DEF Next, Host, Keys

(* The slot with its queue, the form and the wizard that share it, and     *)
(* settle(), are a queue of permission requests: the oldest is answered,   *)
(* or all are withdrawn with the turn, and no other key or event counts.   *)
THEOREM ImplementsQueue == Spec => ImplementsPermissionQueue
<1>1. Init => Service!Init
  <2> SUFFICES ASSUME Init PROVE Service!Init
    OBVIOUS
  <2>1. prompts = [open |-> None, queued |-> {}] /\ asked = <<>> /\ withdrawn = {}
    BY DEF Init
  <2>2. PermissionIds(prompts) = {}
    BY <2>1 DEF PermissionIds, Waiting
  <2>3. Permissions \subseteq Id
    BY RequestIds DEF Permissions
  <2>4. {i \in Permissions : told[i] # <<>>} = {}
    BY <2>3 DEF Init
  <2> QED BY <2>1, <2>2, <2>4 DEF Service!Init
<1>2. Service!Init /\ [][Service!Next]_(Service!queueVars) => Service!Spec
  BY DEF Service!Spec
<1> QED BY <1>1, <1>2, QueueStep, TypeCorrect, AnswersHold, PTL
        DEF Spec, ImplementsPermissionQueue

-----------------------------------------------------------------------------
(* Wizards.                                                                *)

(* Where an id stands that a key may answer; the wizards, and which of     *)
(* them have come; the steps a wizard has behind it.                       *)
Places(ps, fm)  == Ids(ps) \cup FormIds(fm)
Wizards         == {r \in Requests : r.kind = "wizard"}
Came(r, ak)     == \E k \in DOMAIN ak : ak[k] = r.id
Displaced(r, ak) == \E q \in Wizards : q # r /\ Came(q, ak)
Behind(w)       == {w.steps[j].id : j \in {k \in DOMAIN w.steps : k <= w.at}}

(* The wizard that runs is a request received. It has the answers to the   *)
(* steps behind it, which wait no longer, and the host has none of them.   *)
Runs(w, pl, td, ak) ==
  w # None => /\ w.results = Behind(w) /\ Behind(w) \cap pl = {}
              /\ \E r \in Wizards : /\ w.id = r.id /\ w.steps = r.steps /\ Came(r, ak)
                                    /\ \A i \in StepsOf(r) : td[i] = <<>>

(* A wizard the host has heard of has no step waiting; one that came, does *)
(* not run and was not reported was displaced by another.                  *)
Reported(r, w, pl, td, ak) ==
  /\ r.id \notin pl
  /\ td[r.id] # <<>> => StepsOf(r) \cap pl = {}
  /\ \A n \in DOMAIN td[r.id] :
       td[r.id][n].value = "completed" => td[r.id][n].steps = StepsOf(r)
  /\ \A i \in StepsOf(r) : td[i] # <<>> => td[r.id] = <<>> /\ Displaced(r, ak)
  /\ Came(r, ak) /\ td[r.id] = <<>> => (w # None /\ w.id = r.id) \/ Displaced(r, ak)

WizardTrue(w, pl, td, ak) ==
  Runs(w, pl, td, ak) /\ \A r \in Wizards : Reported(r, w, pl, td, ak)

WizardInv == WizardTrue(wizard, Places(prompts, form), told, asked)

(* Whose the ids are.                                                      *)
LEMMA WizardsApart ==
  ASSUME NEW r \in Wizards, NEW q \in Requests
  PROVE  /\ r \in Requests /\ r.id \in Id /\ StepsOf(r) \subseteq Id /\ r.id \notin StepsOf(r)
         /\ r.id = q.id => r = q
         /\ q.id \notin StepsOf(r) /\ r.id \notin StepsOf(q)
         /\ StepsOf(r) \cap StepsOf(q) # {} => r = q
         /\ r.id \notin Permissions /\ StepsOf(r) \cap Permissions = {}
         /\ r.steps \in Seq(Step) /\ StepsOf(r) = {r.steps[j].id : j \in DOMAIN r.steps}
<1>1. r \in Requests /\ r.kind = "wizard"
  BY DEF Wizards
<1>2. r.id \in Id /\ StepsOf(r) \subseteq Id /\ StepsOf(r) \cap Permissions = {}
      /\ r.id \notin Permissions
  BY <1>1, RequestIds DEF IdsOf
<1>3. r.id \notin StepsOf(r)
  BY <1>1, IdsAssumption
<1>4. r # q => ({r.id} \cup StepsOf(r)) \cap ({q.id} \cup StepsOf(q)) = {}
  BY <1>1, IdsAssumption
<1>5. r.steps \in Seq(Step)
  BY <1>1, RequestKinds DEF WizardRequest
<1> QED BY <1>1, <1>2, <1>3, <1>4, <1>5 DEF StepsOf

(* An id known that is a wizard's or one of its steps': the wizard came.   *)
LEMMA KnownCame ==
  ASSUME NEW r \in Wizards, NEW ak, NEW i \in Known(ak), i \in IdsOf(r)
  PROVE  Came(r, ak)
<1>1. PICK q \in Requests : i \in IdsOf(q) /\ \E k \in DOMAIN ak : ak[k] = q.id
  BY DEF Known
<1>2. q = r
  BY <1>1, WizardsApart DEF IdsOf
<1> QED BY <1>1, <1>2 DEF Came

(* One answer.                                                             *)
LEMMA OneAnswer ==
  ASSUME NEW a
  PROVE  <<a>> # <<>> /\ \A n \in DOMAIN <<a>> : <<a>>[n] = a
OBVIOUS

(* Prompts and the form may go.                                            *)
LEMMA FewerPlaces ==
  ASSUME NEW w, NEW pl, NEW td, NEW ak, WizardTrue(w, pl, td, ak),
         NEW pl2 \in SUBSET pl
  PROVE  WizardTrue(w, pl2, td, ak)
<1>1. Runs(w, pl2, td, ak)
  BY DEF WizardTrue, Runs
<1>2. ASSUME NEW r \in Wizards PROVE Reported(r, w, pl2, td, ak)
  BY DEF WizardTrue, Reported
<1> QED BY <1>1, <1>2 DEF WizardTrue

(* The host is told the answer to a question that is no step of the wizard *)
(* that runs: it came by itself, or with a wizard displaced since.         *)
LEMMA QuestionTold ==
  ASSUME NEW w, NEW pl, NEW td \in [Id -> Seq(Answer)], NEW ak,
         WizardTrue(w, pl, td, ak),
         NEW i \in Id, i \in pl, i \in Known(ak), NEW a \in Answer,
         w # None => \A r \in Wizards : w.id = r.id => i \notin StepsOf(r)
  PROVE  WizardTrue(w, pl, [td EXCEPT ![i] = Append(@, a)], ak)
<1> DEFINE td2 == [td EXCEPT ![i] = Append(@, a)]
<1>1. td2[i] # <<>> /\ \A j \in Id : j # i => td2[j] = td[j]
  <2>1. td2[i] = Append(td[i], a) /\ td[i] \in Seq(Answer)
    BY DEF td2
  <2>2. Append(td[i], a) # <<>>
    BY <2>1
  <2> QED BY <2>1, <2>2 DEF td2
<1> HIDE DEF td2
<1>2. Runs(w, pl, td2, ak)
  <2> SUFFICES ASSUME w # None PROVE Runs(w, pl, td2, ak)
    BY DEF Runs
  <2>1. PICK r \in Wizards : /\ w.id = r.id /\ w.steps = r.steps /\ Came(r, ak)
                             /\ \A j \in StepsOf(r) : td[j] = <<>>
    BY DEF WizardTrue, Runs
  <2>2. \A j \in StepsOf(r) : j \in Id /\ j # i
    BY <2>1, WizardsApart DEF Wizards
  <2>3. \A j \in StepsOf(r) : td2[j] = <<>>
    BY <1>1, <2>1, <2>2
  <2> QED BY <2>1, <2>3 DEF WizardTrue, Runs
<1>3. ASSUME NEW r \in Wizards PROVE Reported(r, w, pl, td2, ak)
  <2>1. Reported(r, w, pl, td, ak) /\ r.id \in Id /\ StepsOf(r) \subseteq Id
    BY WizardsApart DEF WizardTrue, Wizards
  <2>2. r.id # i
    BY <2>1 DEF Reported
  <2>3. td2[r.id] = td[r.id]
    BY <1>1, <2>1, <2>2
  <2>4. ASSUME NEW j \in StepsOf(r), td2[j] # <<>>
        PROVE  td[r.id] = <<>> /\ Displaced(r, ak)
    <3>1. CASE j # i
      BY <1>1, <2>1, <2>4, <3>1 DEF Reported
    <3>2. CASE j = i
      <4>1. td[r.id] = <<>>
        BY <2>1, <3>2 DEF Reported
      <4>2. Came(r, ak)
        BY <3>2, KnownCame DEF IdsOf
      <4>3. ~(w # None /\ w.id = r.id)
        BY <3>2
      <4> QED BY <2>1, <4>1, <4>2, <4>3 DEF Reported
    <3> QED BY <3>1, <3>2
  <2> QED BY <2>1, <2>3, <2>4 DEF Reported
<1> QED BY <1>2, <1>3 DEF WizardTrue, td2

(* A wizard ends, and the host is told: complete with all answers, or not. *)
LEMMA WizardTold ==
  ASSUME NEW w \in Wizard, NEW pl, NEW td \in [Id -> Seq(Answer)], NEW ak,
         WizardTrue(w, pl, td, ak), w # None,
         NEW pl2 \in SUBSET pl, {w.steps[j].id : j \in DOMAIN w.steps} \cap pl2 = {},
         NEW a \in Answer,
         a.value = "completed" => a.steps = {w.steps[j].id : j \in DOMAIN w.steps},
         td[w.id] = <<>>
  PROVE  WizardTrue(None, pl2, [td EXCEPT ![w.id] = Append(@, a)], ak)
<1> DEFINE td2 == [td EXCEPT ![w.id] = Append(@, a)]
<1>1. w.id \in Id
  BY DEF Wizard
<1>2. td2[w.id] = <<a>> /\ \A j \in Id : j # w.id => td2[j] = td[j]
  BY <1>1 DEF td2
<1> HIDE DEF td2
<1>3. PICK r \in Wizards : /\ w.id = r.id /\ w.steps = r.steps /\ Came(r, ak)
                           /\ \A i \in StepsOf(r) : td[i] = <<>>
  BY DEF WizardTrue, Runs
<1>4. StepsOf(r) = {w.steps[j].id : j \in DOMAIN w.steps}
  BY <1>3, WizardsApart DEF Wizards
<1>5. Runs(None, pl2, td2, ak)
  BY DEF Runs
<1>6. ASSUME NEW q \in Wizards PROVE Reported(q, None, pl2, td2, ak)
  <2>1. Reported(q, w, pl, td, ak) /\ q.id \in Id /\ StepsOf(q) \subseteq Id
    BY WizardsApart DEF WizardTrue, Wizards
  <2>2. w.id \notin StepsOf(q) /\ (q # r => q.id # w.id)
    BY <1>3, WizardsApart DEF Wizards
  <2>3. \A j \in StepsOf(q) : td2[j] = td[j]
    BY <1>2, <2>1, <2>2
  <2>4. CASE q = r
    <3>1. q.id = w.id /\ td2[q.id] = <<a>> /\ q.id \notin pl2
      BY <1>2, <1>3, <2>1, <2>4 DEF Reported
    <3>2. StepsOf(q) \cap pl2 = {} /\ \A j \in StepsOf(q) : td2[j] = <<>>
      BY <1>3, <1>4, <2>3, <2>4
    <3>3. \A n \in DOMAIN td2[q.id] :
            td2[q.id][n].value = "completed" => td2[q.id][n].steps = StepsOf(q)
      BY <1>4, <2>4, <3>1, OneAnswer
    <3>4. td2[q.id] # <<>>
      BY <3>1, OneAnswer
    <3> QED BY <3>1, <3>2, <3>3, <3>4 DEF Reported
  <2>5. CASE q # r
    <3>1. td2[q.id] = td[q.id] /\ q.id # w.id
      BY <1>2, <2>1, <2>2, <2>5
    <3> QED BY <2>1, <2>3, <3>1 DEF Reported
  <2> QED BY <2>4, <2>5
<1> QED BY <1>5, <1>6 DEF WizardTrue, td2

(* A wizard takes the answer to its step and shows the next.               *)
LEMMA WizardGoesOn ==
  ASSUME NEW w \in Wizard, NEW w2 \in Wizard, NEW pl, NEW td, NEW ak,
         WizardTrue(w, pl, td, ak), StepsApart(w), w # None, w2 # None,
         w.at + 1 < Len(w.steps),
         w2.id = w.id /\ w2.steps = w.steps /\ w2.at = w.at + 1,
         w2.results = w.results \cup {CurrentStep(w).id},
         NEW pl2 \in SUBSET pl, CurrentStep(w).id \notin pl2, td[w.id] = <<>>,
         NEW pl3 \in SUBSET (pl2 \cup {CurrentStep(w2).id})
  PROVE  WizardTrue(w2, pl3, td, ak)
<1> DEFINE c == w.at + 1
           e == w.at + 2
<1>1. w.steps \in Seq(Step) /\ w.at \in Nat /\ DOMAIN w.steps = 1..Len(w.steps)
      /\ Len(w.steps) \in Nat
  BY DEF Wizard
<1>2. c \in DOMAIN w.steps /\ e \in DOMAIN w.steps /\ c # e
      /\ \A j \in DOMAIN w.steps : (j <= w2.at <=> j <= w.at \/ j = c) /\ (j <= w2.at => j # e)
  BY <1>1
<1>3. CurrentStep(w) = w.steps[c] /\ CurrentStep(w2) = w.steps[e]
  BY <1>1 DEF CurrentStep
<1> HIDE DEF c, e
<1>4. PICK r \in Wizards : /\ w.id = r.id /\ w.steps = r.steps /\ Came(r, ak)
                           /\ \A i \in StepsOf(r) : td[i] = <<>>
  BY DEF WizardTrue, Runs
<1>5. w.steps[e].id \in StepsOf(r) /\ r \in Requests
  BY <1>2, <1>4, WizardsApart DEF Wizards
<1>6. Behind(w2) = Behind(w) \cup {w.steps[c].id}
  BY <1>2 DEF Behind
<1>7. Behind(w2) \cap pl3 = {}
  <2>1. Behind(w) \cap pl = {}
    BY DEF WizardTrue, Runs
  <2>2. w.steps[e].id \notin Behind(w2)
    BY <1>2 DEF Behind, StepsApart
  <2> QED BY <1>3, <1>6, <2>1, <2>2
<1>8. w2.results = Behind(w2)
  BY <1>3, <1>6 DEF WizardTrue, Runs
<1>9. Runs(w2, pl3, td, ak)
  BY <1>4, <1>7, <1>8 DEF Runs
<1>10. ASSUME NEW q \in Wizards PROVE Reported(q, w2, pl3, td, ak)
  <2>1. Reported(q, w, pl, td, ak)
    BY DEF WizardTrue
  <2>2. q.id # w.steps[e].id
    BY <1>5, WizardsApart DEF Wizards
  <2>3. q.id \notin pl3
    BY <1>3, <2>1, <2>2 DEF Reported
  <2>4. td[q.id] # <<>> => StepsOf(q) \cap pl3 = {}
    <3>1. td[q.id] # <<>> => q # r
      BY <1>4
    <3>2. q # r => w.steps[e].id \notin StepsOf(q)
      BY <1>5, WizardsApart
    <3> QED BY <1>3, <2>1, <3>1, <3>2 DEF Reported
  <2> QED BY <2>1, <2>3, <2>4 DEF Reported
<1> QED BY <1>9, <1>10 DEF WizardTrue

(* A request comes: its ids are new.                                       *)
LEMMA CameMore ==
  ASSUME NEW ak \in Seq(Id), NEW r0 \in Requests, NEW r \in Wizards
  PROVE  /\ Came(r, Append(ak, r0.id)) <=> Came(r, ak) \/ r = r0
         /\ Displaced(r, ak) => Displaced(r, Append(ak, r0.id))
<1> DEFINE ak2 == Append(ak, r0.id)
           e == Len(ak) + 1
<1>1. r0.id \in Id
  BY RequestIds
<1>2. /\ DOMAIN ak2 = DOMAIN ak \cup {e} /\ ak2[e] = r0.id
      /\ \A k \in DOMAIN ak : ak2[k] = ak[k]
  BY <1>1
<1> HIDE DEF ak2, e
<1>3. ASSUME NEW q \in Wizards
      PROVE  Came(q, ak2) <=> Came(q, ak) \/ q = r0
  <2>1. q.id = r0.id <=> q = r0
    BY WizardsApart
  <2> QED BY <1>2, <2>1 DEF Came
<1> QED BY <1>3 DEF Displaced, ak2

(* A question comes, and waits perhaps.                                    *)
LEMMA QuestionComes ==
  ASSUME NEW w, NEW pl, NEW td, NEW ak \in Seq(Id), WizardTrue(w, pl, td, ak),
         w \in {None} \cup Wizard, NEW r0 \in Requests, r0.kind # "wizard",
         NEW pl2 \in SUBSET (pl \cup {r0.id})
  PROVE  WizardTrue(w, pl2, td, Append(ak, r0.id))
<1> DEFINE ak2 == Append(ak, r0.id)
<1>1. \A r \in Wizards : /\ Came(r, ak2) <=> Came(r, ak)
                         /\ Displaced(r, ak) => Displaced(r, ak2)
                         /\ r.id # r0.id /\ r0.id \notin StepsOf(r)
  BY CameMore, WizardsApart DEF Wizards
<1> HIDE DEF ak2
<1>2. Runs(w, pl2, td, ak2)
  <2> SUFFICES ASSUME w # None PROVE Runs(w, pl2, td, ak2)
    BY DEF Runs
  <2>1. PICK r \in Wizards : /\ w.id = r.id /\ w.steps = r.steps /\ Came(r, ak)
                             /\ \A i \in StepsOf(r) : td[i] = <<>>
    BY DEF WizardTrue, Runs
  <2>2. Behind(w) \subseteq StepsOf(r)
    BY <2>1, WizardsApart DEF Behind, Wizards
  <2>3. w.results = Behind(w) /\ Behind(w) \cap pl2 = {}
    BY <1>1, <2>2 DEF WizardTrue, Runs
  <2>4. Came(r, ak2)
    BY <1>1, <2>1
  <2> QED BY <2>1, <2>3, <2>4 DEF Runs
<1>3. ASSUME NEW r \in Wizards PROVE Reported(r, w, pl2, td, ak2)
  <2>1. Reported(r, w, pl, td, ak)
    BY DEF WizardTrue
  <2>2. r.id \notin pl2 /\ (td[r.id] # <<>> => StepsOf(r) \cap pl2 = {})
    BY <1>1, <2>1 DEF Reported
  <2> QED BY <1>1, <2>1, <2>2 DEF Reported
<1> QED BY <1>2, <1>3 DEF WizardTrue, ak2

(* A wizard without steps comes, and is complete.                          *)
LEMMA EmptyWizardComes ==
  ASSUME NEW w, NEW pl, NEW td \in [Id -> Seq(Answer)], NEW ak \in Seq(Id),
         WizardTrue(w, pl, td, ak), NEW r0 \in Wizards, r0.steps = <<>>, td[r0.id] = <<>>,
         r0.id \notin pl, NEW a \in Answer, a.steps = {}
  PROVE  WizardTrue(w, pl, [td EXCEPT ![r0.id] = Append(@, a)], Append(ak, r0.id))
<1> DEFINE ak2 == Append(ak, r0.id)
           td2 == [td EXCEPT ![r0.id] = Append(@, a)]
<1>1. r0 \in Requests /\ r0.id \in Id /\ StepsOf(r0) = {}
  BY WizardsApart DEF Wizards
<1>2. td2[r0.id] = <<a>> /\ \A j \in Id : j # r0.id => td2[j] = td[j]
  BY <1>1 DEF td2
<1>3. \A r \in Wizards : /\ Came(r, ak2) <=> Came(r, ak) \/ r = r0
                         /\ Displaced(r, ak) => Displaced(r, ak2)
                         /\ r.id = r0.id => r = r0
                         /\ r0.id \notin StepsOf(r) /\ r.id \in Id /\ StepsOf(r) \subseteq Id
  BY <1>1, CameMore, WizardsApart DEF Wizards
<1> HIDE DEF ak2, td2
<1>4. \A r \in Wizards : \A j \in StepsOf(r) : td2[j] = td[j]
  BY <1>2, <1>3
<1>5. Runs(w, pl, td2, ak2)
  BY <1>3, <1>4 DEF WizardTrue, Runs
<1>6. ASSUME NEW r \in Wizards PROVE Reported(r, w, pl, td2, ak2)
  <2>1. Reported(r, w, pl, td, ak)
    BY DEF WizardTrue
  <2>2. CASE r = r0
    <3>1. td2[r.id] = <<a>> /\ td2[r.id] # <<>>
      BY <1>2, <2>2, OneAnswer
    <3>2. \A n \in DOMAIN td2[r.id] : td2[r.id][n].steps = StepsOf(r)
      BY <1>1, <2>2, <3>1, OneAnswer
    <3> QED BY <1>1, <2>2, <3>1, <3>2 DEF Reported
  <2>3. CASE r # r0
    <3>1. td2[r.id] = td[r.id]
      BY <1>2, <1>3, <2>3
    <3> QED BY <1>3, <1>4, <2>1, <2>3, <3>1 DEF Reported
  <2> QED BY <2>2, <2>3
<1> QED BY <1>5, <1>6 DEF WizardTrue, ak2, td2

(* A wizard comes, shows its first step and displaces the one before it.   *)
LEMMA WizardComes ==
  ASSUME NEW w, NEW pl, NEW td, NEW ak \in Seq(Id), WizardTrue(w, pl, td, ak),
         NEW r0 \in Wizards, r0.id \notin pl, \A i \in IdsOf(r0) : td[i] = <<>>,
         NEW w2 \in Wizard, w2 # None, w2.id = r0.id, w2.steps = r0.steps,
         w2.at = 0, w2.results = {}, w2.steps # <<>>,
         NEW pl2 \in SUBSET (pl \cup {CurrentStep(w2).id})
  PROVE  WizardTrue(w2, pl2, td, Append(ak, r0.id))
<1> DEFINE ak2 == Append(ak, r0.id)
           c == CurrentStep(w2).id
<1>1. r0 \in Requests /\ r0.steps \in Seq(Step)
      /\ StepsOf(r0) = {r0.steps[j].id : j \in DOMAIN r0.steps}
  BY WizardsApart DEF Wizards
<1>2. \A r \in Wizards : /\ Came(r, ak2) <=> Came(r, ak) \/ r = r0
                         /\ Displaced(r, ak) => Displaced(r, ak2)
                         /\ r.id = r0.id => r = r0
                         /\ \A i \in StepsOf(r0) : r.id # i /\ (i \in StepsOf(r) => r = r0)
  BY <1>1, CameMore, WizardsApart DEF Wizards
<1>3. c \in StepsOf(r0)
  <2>1. 1 \in DOMAIN r0.steps /\ CurrentStep(w2) = r0.steps[1]
    BY <1>1 DEF CurrentStep
  <2> QED BY <1>1, <2>1
<1> HIDE DEF ak2, c
<1>4. Behind(w2) = {}
  <2>1. \A j \in DOMAIN w2.steps : j >= 1 /\ ~(j <= 0)
    BY <1>1
  <2> QED BY <2>1 DEF Behind
<1>5. Runs(w2, pl2, td, ak2)
  BY <1>2, <1>4 DEF Runs, IdsOf
<1>6. \A r \in Wizards : r # r0 => Displaced(r, ak2)
  BY <1>2 DEF Displaced
<1>7. ASSUME NEW r \in Wizards PROVE Reported(r, w2, pl2, td, ak2)
  <2>1. Reported(r, w, pl, td, ak)
    BY DEF WizardTrue
  <2>2. r.id \notin pl2
    BY <1>2, <1>3, <2>1 DEF Reported, c
  <2>3. CASE r = r0
    <3>1. td[r.id] = <<>> /\ \A i \in StepsOf(r) : td[i] = <<>>
      BY <2>3 DEF IdsOf
    <3>2. w2 # None /\ w2.id = r.id
      BY <2>3
    <3> QED BY <2>1, <2>2, <3>1, <3>2 DEF Reported
  <2>4. CASE r # r0
    <3>1. td[r.id] # <<>> => StepsOf(r) \cap pl2 = {}
      BY <1>2, <1>3, <2>1, <2>4 DEF Reported, c
    <3> QED BY <1>6, <2>1, <2>2, <2>4, <3>1 DEF Reported
  <2> QED BY <2>3, <2>4
<1> QED BY <1>5, <1>7 DEF WizardTrue, ak2

(* A question shown takes no more than its own place.                      *)
LEMMA ShowPlaces ==
  ASSUME NEW ps \in PromptState, NEW fm, opened \in Nat,
         NEW q \in Question, NEW c \in BOOLEAN, Show(q, c, ps, fm)
  PROVE  Places(prompts', form') \subseteq Places(ps, fm) \cup {q.id}
<1>1. CASE q.kind = "form"
  <2>1. prompts' = ps /\ form' = [id |-> q.id, kind |-> "form", cancel |-> c]
    BY <1>1 DEF Show
  <2>2. FormIds(form') = {q.id}
    BY <2>1 DEF FormIds, None
  <2> QED BY <2>1, <2>2 DEF Places
<1>2. CASE q.kind # "form"
  <2> DEFINE p == PromptOf(q, c, opened)
  <2>1. prompts' = open_prompt(ps, p) /\ form' = fm
    BY <1>2 DEF Show
  <2>2. p.id = q.id /\ p \in Prompt
    BY <1>2 DEF PromptOf, Prompt, Question
  <2> HIDE DEF p
  <2>3. Waiting(prompts') \subseteq Waiting(ps) \cup {p}
    BY <2>1, <2>2, OpenPrompt
  <2>4. Ids(prompts') \subseteq Ids(ps) \cup {q.id}
    BY <2>2, <2>3 DEF Ids
  <2> QED BY <2>1, <2>4 DEF Places
<1> QED BY <1>1, <1>2

(* Of the running wizard's steps only the current one can be answered.     *)
LEMMA OnlyCurrent ==
  ASSUME TypeOK, AnswersInv, WizardInv, wizard # None,
         NEW j \in DOMAIN wizard.steps, wizard.steps[j].id \in Places(prompts, form)
  PROVE  j = wizard.at + 1
<1>1. wizard \in Wizard /\ wizard.steps \in Seq(Step) /\ wizard.at \in Nat
  BY DEF TypeOK, Wizard
<1>2. j \in Nat
  BY <1>1
<1>3. ~(j <= wizard.at)
  BY DEF WizardInv, WizardTrue, Runs, Behind
<1>4. ~(j > wizard.at + 1)
  BY DEF AnswersInv, Base, Apart, WizardIds, Later, Places
<1> QED BY <1>1, <1>2, <1>3, <1>4

(* An answer to what waited goes to the host, or to the wizard, which ends *)
(* or goes on.                                                             *)
LEMMA AbsorbWizard ==
  ASSUME TypeOK, AnswersInv, WizardInv, NEW ps \in PromptState, Ids(ps) \subseteq Ids(prompts),
         NEW i \in Id, i \in Places(prompts, form), i \notin Ids(ps),
         NEW k, i \in Permissions <=> k = "permission",
         NEW v \in AnswerValue \ {"completed"},
         absorb_wizard_answers(Response(k, i, v), ps, None), UNCHANGED asked
  PROVE  WizardInv'
<1> DEFINE ans == Response(k, i, v)
           pl  == Places(prompts, form)
           pl2 == Places(ps, None)
<1>1. ans.id = i /\ ans.value = v /\ ans.kind = k
  BY DEF Response
<1>2. /\ told \in [Id -> Seq(Answer)] /\ absorb_wizard_answers(ans, ps, None)
      /\ opened \in Nat /\ WizardTrue(wizard, pl, told, asked) /\ i \in pl
  BY DEF TypeOK, WizardInv
<1>3. pl2 \subseteq pl /\ i \notin pl2
  BY DEF Places, FormIds
<1>4. i \in Known(asked)
  BY DEF AnswersInv, Base, Unsaid, Places
<1> HIDE DEF ans, pl, pl2
<1>5. CASE ~IsStepAnswer(ans)
  <2> DEFINE a == [value |-> v, steps |-> {}]
  <2>1. /\ told' = [told EXCEPT ![i] = Append(@, a)]
        /\ prompts' = ps /\ form' = None /\ wizard' = wizard
    BY <1>1, <1>2, <1>5 DEF absorb_wizard_answers, Tell
  <2>2. a \in Answer
    BY DEF Answer, AnswerValue
  <2> HIDE DEF a
  <2>3. ASSUME wizard # None, NEW r \in Wizards, wizard.id = r.id, i \in StepsOf(r)
        PROVE  FALSE
    <3>1. PICK q \in Wizards : wizard.id = q.id /\ wizard.steps = q.steps
      BY <1>2, <2>3 DEF WizardTrue, Runs
    <3>2. q = r
      BY <2>3, <3>1, WizardsApart DEF Wizards
    <3>3. i \notin Permissions /\ i \in {wizard.steps[j].id : j \in DOMAIN wizard.steps}
      BY <2>3, <3>1, <3>2, WizardsApart DEF Wizards
    <3>4. PICK j \in DOMAIN wizard.steps : i = wizard.steps[j].id
      BY <3>3
    <3>5. j = wizard.at + 1
      BY <2>3, <3>4, OnlyCurrent
    <3> QED BY <1>1, <1>5, <2>3, <3>3, <3>4, <3>5 DEF IsStepAnswer, CurrentStep
  <2>4. WizardTrue(wizard, pl, told', asked)
    BY <1>2, <1>4, <2>1, <2>2, <2>3, QuestionTold
  <2>5. WizardTrue(wizard, pl2, told', asked)
    BY <1>3, <2>4, FewerPlaces
  <2> QED BY <2>1, <2>5 DEF WizardInv, pl2
<1>6. CASE IsStepAnswer(ans)
  <2>1. /\ wizard \in Wizard /\ wizard # None /\ wizard.id \in Id /\ wizard.results \subseteq Id
        /\ wizard.steps \in Seq(Step) /\ wizard.at \in Nat /\ wizard.cancel \in BOOLEAN
        /\ DOMAIN wizard.steps = 1..Len(wizard.steps) /\ Len(wizard.steps) \in Nat
        /\ i = CurrentStep(wizard).id /\ wizard.at < Len(wizard.steps)
    BY <1>1, <1>6 DEF IsStepAnswer, TypeOK, Wizard
  <2>2. told[wizard.id] = <<>> /\ StepsApart(wizard)
    BY <2>1 DEF AnswersInv, Base, Apart, Unsaid, WizardIds
  <2>3. {wizard.steps[j].id : j \in DOMAIN wizard.steps} \cap pl2 = {}
    <3>1. ASSUME NEW j \in DOMAIN wizard.steps, wizard.steps[j].id \in pl2 PROVE FALSE
      <4>1. j = wizard.at + 1
        BY <1>3, <2>1, <3>1, OnlyCurrent DEF pl
      <4> QED BY <1>3, <2>1, <3>1, <4>1 DEF CurrentStep
    <3> QED BY <3>1
  <2>4. ASSUME wizard' = None, prompts' = ps, form' = None, NEW x \in AnswerValue,
               NEW st \in SUBSET Id, Tell(wizard.id, x, st),
               x = "completed" => st = {wizard.steps[j].id : j \in DOMAIN wizard.steps}
        PROVE  WizardInv'
    <3> DEFINE a == [value |-> x, steps |-> st]
    <3>1. a \in Answer /\ a.value = x /\ a.steps = st
      BY DEF Answer, AnswerValue
    <3>2. told' = [told EXCEPT ![wizard.id] = Append(@, a)]
      BY <2>4 DEF Tell
    <3> HIDE DEF a
    <3>3. WizardTrue(None, pl2, told', asked)
      BY <1>2, <1>3, <2>1, <2>2, <2>3, <2>4, <3>1, <3>2, WizardTold
    <3> QED BY <2>4, <3>3 DEF WizardInv, pl2
  <2>5. CASE /\ wizard' = None /\ Tell(wizard.id, "cancelled", {})
             /\ prompts' = ps /\ form' = None
    BY <2>4, <2>5 DEF AnswerValue
  <2>6. CASE /\ wizard.at + 1 >= Len(wizard.steps) /\ wizard' = None
             /\ Tell(wizard.id, "completed", wizard.results \cup {ans.id})
             /\ prompts' = ps /\ form' = None
    <3>1. wizard.results = Behind(wizard)
      BY <1>2, <2>1 DEF WizardTrue, Runs
    <3>2. \A j \in DOMAIN wizard.steps : j <= wizard.at \/ j = wizard.at + 1
      BY <2>1, <2>6
    <3>3. wizard.at + 1 \in DOMAIN wizard.steps
      BY <2>1
    <3>4. wizard.results \cup {i} = {wizard.steps[j].id : j \in DOMAIN wizard.steps}
      BY <2>1, <3>1, <3>2, <3>3 DEF Behind, CurrentStep
    <3> QED BY <1>1, <2>1, <2>4, <2>6, <3>4 DEF AnswerValue
  <2>7. CASE /\ wizard.at + 1 < Len(wizard.steps)
             /\ show_wizard_step([wizard EXCEPT !.at = @ + 1,
                                                !.results = @ \cup {ans.id}], ps, None)
             /\ told' = told
    <3> DEFINE w == [wizard EXCEPT !.at = @ + 1, !.results = @ \cup {ans.id}]
               u == [wizard EXCEPT !.at = @ + 1]
               q == CurrentStep(w)
    <3>1. u \in Wizard /\ u.at = wizard.at + 1 /\ u.steps = wizard.steps
          /\ u.results = wizard.results /\ u.id = wizard.id /\ u.cancel = wizard.cancel
      BY <2>1 DEF Wizard
    <3>2. w = [u EXCEPT !.results = u.results \cup {i}]
      BY <1>1, <3>1
    <3> HIDE DEF u
    <3>3. w \in Wizard /\ w.at = wizard.at + 1 /\ w.steps = wizard.steps /\ w.id = wizard.id
          /\ w.cancel \in BOOLEAN /\ w.results = wizard.results \cup {i}
      <4> HIDE DEF w
      <4> QED BY <2>1, <3>1, <3>2 DEF Wizard
    <3>4. show_wizard_step(w, ps, None)
      BY <2>7
    <3> HIDE DEF w
    <3>5. wizard' = w /\ Show(q, w.cancel, ps, None)
      BY <3>4 DEF show_wizard_step
    <3>6. q = wizard.steps[w.at + 1] /\ w.at + 1 \in DOMAIN wizard.steps
      BY <2>1, <2>7, <3>3 DEF CurrentStep
    <3>7. q \in Question
      <4>1. q \in Step
        BY <2>1, <3>6
      <4> QED BY <4>1 DEF Step, Question, PromptKinds
    <3>8. Places(prompts', form') \subseteq pl2 \cup {q.id}
      BY <1>2, <3>3, <3>5, <3>7, ShowPlaces DEF pl2
    <3>9. w # None
      BY <3>3 DEF Wizard, None
    <3>10. WizardTrue(w, Places(prompts', form'), told, asked)
      BY <1>2, <1>3, <2>1, <2>2, <2>7, <3>3, <3>8, <3>9, WizardGoesOn
    <3> QED BY <2>7, <3>5, <3>10 DEF WizardInv
  <2> QED BY <1>1, <1>2, <1>6, <2>5, <2>6, <2>7 DEF absorb_wizard_answers
<1> QED BY <1>5, <1>6

(* The host's questions and wizards.                                       *)
LEMMA RequestWizard ==
  ASSUME TypeOK, AnswersInv, WizardInv, NEW r \in Requests, AskQuestion(r) \/ AskWizard(r)
  PROVE  WizardInv'
<1> DEFINE pl == Places(prompts, form)
<1>1. asked' = Append(asked, r.id) /\ \A k \in DOMAIN asked : asked[k] # r.id
  BY DEF AskQuestion, AskWizard, Ask
<1>2. /\ WizardTrue(wizard, pl, told, asked) /\ wizard \in {None} \cup Wizard
      /\ asked \in Seq(Id) /\ opened \in Nat /\ prompts \in PromptState
      /\ told \in [Id -> Seq(Answer)]
  BY DEF WizardInv, TypeOK, PromptState
<1>3. \A i \in IdsOf(r) : told[i] = <<>> /\ i \notin pl
  BY <1>1, AskKeeps DEF AnswersInv, Unsaid, Places
<1>4. r.id \in IdsOf(r)
  BY DEF IdsOf
<1> HIDE DEF pl
<1>5. CASE AskQuestion(r)
  <2>1. r.kind # "wizard" /\ Show(r, r.cancel, prompts, form) /\ UNCHANGED <<wizard, told>>
    BY <1>5 DEF AskQuestion
  <2>2. r \in Question /\ r.cancel \in BOOLEAN
    BY <2>1, RequestKinds DEF Question
  <2>3. Places(prompts', form') \subseteq pl \cup {r.id}
    BY <1>2, <2>1, <2>2, ShowPlaces DEF pl
  <2>4. WizardTrue(wizard, Places(prompts', form'), told, asked')
    BY <1>1, <1>2, <2>1, <2>3, QuestionComes
  <2> QED BY <2>1, <2>4 DEF WizardInv
<1>6. CASE AskWizard(r)
  <2>1. r \in Wizards /\ r \in WizardRequest /\ r.steps \in Seq(Step) /\ r.id \in Id
        /\ r.cancel \in BOOLEAN
    BY <1>6, RequestKinds DEF AskWizard, Wizards, WizardRequest
  <2>2. CASE r.steps = <<>>
    <3> DEFINE a == [value |-> "completed", steps |-> {}]
    <3>1. a \in Answer /\ a.steps = {}
      BY DEF Answer
    <3>2. told' = [told EXCEPT ![r.id] = Append(@, a)] /\ UNCHANGED <<wizard, prompts, form>>
      BY <1>6, <2>2 DEF AskWizard, Tell, slot
    <3> HIDE DEF a
    <3>3. WizardTrue(wizard, pl, told', asked')
      BY <1>1, <1>2, <1>3, <1>4, <2>1, <2>2, <3>1, <3>2, EmptyWizardComes
    <3> QED BY <3>2, <3>3 DEF WizardInv, pl
  <2>3. CASE r.steps # <<>>
    <3> DEFINE w == [id |-> r.id, kind |-> "wizard", cancel |-> r.cancel,
                     steps |-> r.steps, at |-> 0, results |-> {}]
               q == CurrentStep(w)
    <3>1. w \in Wizard /\ w.at = 0 /\ w.steps = r.steps /\ w.id = r.id /\ w.cancel = r.cancel
          /\ w.results = {}
      BY <2>1 DEF Wizard
    <3>2. show_wizard_step(w, prompts, form) /\ told' = told
      BY <1>6, <2>3 DEF AskWizard
    <3> HIDE DEF w
    <3>3. wizard' = w /\ Show(q, w.cancel, prompts, form)
      BY <3>2 DEF show_wizard_step
    <3>4. q \in Question
      <4>1. 1 \in DOMAIN r.steps /\ q = r.steps[1]
        BY <2>1, <2>3, <3>1 DEF CurrentStep
      <4>2. q \in Step
        BY <2>1, <4>1
      <4> QED BY <4>2 DEF Step, Question, PromptKinds
    <3>5. Places(prompts', form') \subseteq pl \cup {q.id}
      BY <1>2, <2>1, <3>1, <3>3, <3>4, ShowPlaces DEF pl
    <3>6. w # None
      BY <3>1 DEF Wizard, None
    <3>7. WizardTrue(w, Places(prompts', form'), told, asked')
      BY <1>1, <1>2, <1>3, <1>4, <2>1, <2>3, <3>1, <3>5, <3>6, WizardComes
    <3> QED BY <3>2, <3>3, <3>7 DEF WizardInv
  <2> QED BY <2>2, <2>3
<1> QED BY <1>5, <1>6

(* Prompts go or change; nothing is told.                                  *)
LEMMA QuietWizard ==
  ASSUME WizardInv, Comes(prompts', prompts), UNCHANGED <<form, wizard, told, asked>>
  PROVE  WizardInv'
<1>1. Places(prompts', form) \subseteq Places(prompts, form)
  BY ComesIds DEF Places
<1>2. WizardTrue(wizard, Places(prompts', form), told, asked)
  BY <1>1, FewerPlaces DEF WizardInv
<1> QED BY <1>2 DEF WizardInv

(* A turn ends.                                                            *)
LEMMA SettleWizard ==
  ASSUME TypeOK, AnswersInv, WizardInv, Settle, UNCHANGED <<told, asked>>
  PROVE  WizardInv'
<1>1. Sound(prompts, opened)
  BY DEF AnswersInv, Base
<1>2. Waiting(prompts') \subseteq Waiting(prompts)
  BY <1>1, SettleSound DEF Settle, Sound
<1> QED BY <1>2, ComesSubset, QuietWizard DEF Settle

(* An edit of the open prompt, a frame, time.                              *)
LEMMA FrameWizard ==
  ASSUME TypeOK, AnswersInv, WizardInv,
         MoveSelection \/ TypeFilter \/ EraseFilter \/ RefuseCancel \/ Draw \/ Tick
  PROVE  WizardInv'
<1>1. Sound(prompts, opened)
  BY DEF AnswersInv, Base
<1>2. CASE MoveSelection \/ TypeFilter \/ EraseFilter \/ RefuseCancel
  <2>1. PICK q \in Prompt : Edit(q, prompts.open) /\ WithOpen(q) /\ prompts.open # None
    BY <1>2, Edits
  <2>2. Same(q, prompts.open)
    BY <2>1 DEF Edit, Kin, Same
  <2>3. Comes(prompts', prompts)
    BY <1>1, <2>1, <2>2, EditSound DEF WithOpen
  <2> QED BY <2>1, <2>3, QuietWizard DEF WithOpen
<1>3. CASE Draw
  <2>1. UNCHANGED <<form, wizard, told, asked>>
    BY <1>3 DEF Draw
  <2>2. CASE prompts' = prompts
    BY <2>1, <2>2 DEF WizardInv
  <2>3. CASE prompts' # prompts
    <3> DEFINE p == [prompts.open EXCEPT !.shown_at = {0}]
    <3>1. prompts.open # None /\ prompts' = [prompts EXCEPT !.open = p]
      BY <1>3, <2>3 DEF Draw, frame_drawn
    <3>2. prompts.open \in Prompt /\ 0 \in Ages
      BY <3>1, BoundsAssumption DEF TypeOK, Ages
    <3>3. p \in Prompt /\ Same(p, prompts.open)
      BY <3>2 DEF Prompt, Same
    <3> HIDE DEF p
    <3>4. Comes(prompts', prompts)
      BY <1>1, <3>1, <3>3, EditSound
    <3> QED BY <2>1, <3>4, QuietWizard
  <2> QED BY <2>2, <2>3
<1>4. CASE Tick
  <2>1. Comes(prompts', prompts)
    BY <1>1, <1>4, TickSound DEF Tick
  <2> QED BY <1>4, <2>1, QuietWizard DEF Tick
<1> QED BY <1>2, <1>3, <1>4

(* A form or a prompt is answered or cancelled.                            *)
LEMMA ClosedWizard ==
  ASSUME TypeOK, AnswersInv, WizardInv, SubmitForm \/ CancelForm \/ Pick \/ CancelPrompt
  PROVE  WizardInv'
<1>1. UNCHANGED asked
  BY DEF SubmitForm, CancelForm, Pick, CancelPrompt
<1>2. CASE SubmitForm \/ CancelForm
  <2> DEFINE i == form.id
  <2>1. form \in Form /\ i \in Id /\ FormIds(form) = {i}
    BY <1>2 DEF SubmitForm, CancelForm, TypeOK, Form, FormIds
  <2>2. PICK v \in AnswerValue \ {"completed"} :
          absorb_wizard_answers(Response("form", i, v), prompts, None)
    BY <1>2 DEF SubmitForm, CancelForm, AnswerValue
  <2> HIDE DEF i
  <2>3. i \notin Ids(prompts) /\ i \notin Permissions /\ i \in Places(prompts, form)
    BY <2>1 DEF AnswersInv, Base, Apart, KindsTrue, Places
  <2>4. prompts \in PromptState /\ "form" # "permission"
    BY DEF TypeOK, PromptState
  <2> QED BY <1>1, <2>1, <2>2, <2>3, <2>4, AbsorbWizard
<1>3. CASE Pick \/ CancelPrompt
  <2> DEFINE i  == prompts.open.id
             k  == prompts.open.kind
             qs == show_queued_prompt([prompts EXCEPT !.open = None])
  <2>1. prompts.open # None
    BY <1>3 DEF Pick, CancelPrompt, PromptHasKeys
  <2>2. \E v \in AnswerValue \ {"completed"} :
          absorb_wizard_answers(Response(k, i, v), qs, None)
    <3>1. \A c : Choice(prompts.open, c) \in AnswerValue \ {"completed"}
      BY DEF Choice, AnswerValue
    <3> QED BY <1>3, <3>1 DEF Pick, CancelPrompt, AnswerValue
  <2>3. /\ i \in Id /\ (i \in Permissions <=> k = "permission")
        /\ Sound(qs, opened) /\ Comes(qs, prompts) /\ i \notin Ids(qs)
    BY <2>1, OpenPromptIds DEF is_permission
  <2>4. i \in Places(prompts, form)
    BY <2>1 DEF Places, Ids, Waiting
  <2> HIDE DEF i, k, qs
  <2>5. qs \in PromptState /\ Ids(qs) \subseteq Ids(prompts)
    BY <2>3, ComesIds DEF Sound
  <2> QED BY <1>1, <2>2, <2>3, <2>4, <2>5, AbsorbWizard
<1> QED BY <1>2, <1>3

(* Esc on a permission request: no wizard is told.                         *)
LEMMA DenyWizard ==
  ASSUME TypeOK, AnswersInv, WizardInv, DenyAndInterrupt
  PROVE  WizardInv'
<1> DEFINE i  == prompts.open.id
           es == [prompts EXCEPT !.open = None]
           a  == [value |-> "deny", steps |-> {}]
<1>1. /\ prompts.open # None /\ is_permission(prompts.open) /\ prompts' = settled(es)
      /\ told' = [told EXCEPT ![i] = Append(@, a)] /\ UNCHANGED <<form, wizard, asked>>
  BY DEF DenyAndInterrupt, PromptHasKeys, Tell
<1>2. /\ i \in Id /\ i \in Permissions /\ i \in Known(asked) /\ a \in Answer
      /\ told \in [Id -> Seq(Answer)] /\ i \in Places(prompts, form)
  BY <1>1, OpenPromptIds DEF Unsaid, Answer, TypeOK, Places, Ids, Waiting
<1>3. prompts \in PromptState
  BY DEF TypeOK, PromptState
<1>4. es \in PromptState /\ Waiting(es) \subseteq Waiting(prompts)
  BY <1>3, TakeOpen
<1> HIDE DEF i, es, a
<1>5. Waiting(prompts') \subseteq Waiting(prompts)
  BY <1>1, <1>4, Settling
<1>6. \A r \in Wizards : i \notin StepsOf(r)
  BY <1>2, WizardsApart DEF Wizards
<1>7. WizardTrue(wizard, Places(prompts, form), told', asked)
  BY <1>1, <1>2, <1>6, QuestionTold DEF WizardInv
<1>8. Places(prompts', form) \subseteq Places(prompts, form)
  BY <1>5 DEF Places, Ids
<1>9. WizardTrue(wizard, Places(prompts', form), told', asked)
  BY <1>7, <1>8, FewerPlaces
<1> QED BY <1>1, <1>9 DEF WizardInv

(* At first no wizard has come.                                            *)
LEMMA WizardInvInit == Init => WizardInv
<1> SUFFICES ASSUME Init PROVE WizardInv
  OBVIOUS
<1>1. /\ wizard = None /\ form = None /\ Waiting(prompts) = {} /\ asked = <<>>
      /\ told = [i \in Id |-> <<>>]
  BY DEF Init, Waiting
<1>2. Places(prompts, form) = {}
  BY <1>1 DEF Places, Ids, FormIds
<1>3. ASSUME NEW r \in Wizards PROVE Reported(r, wizard, {}, told, asked)
  <2>1. r.id \in Id /\ StepsOf(r) \subseteq Id
    BY WizardsApart DEF Wizards
  <2>2. told[r.id] = <<>> /\ (\A i \in StepsOf(r) : told[i] = <<>>) /\ ~Came(r, asked)
    BY <1>1, <2>1 DEF Came
  <2> QED BY <2>2 DEF Reported
<1>4. Runs(wizard, {}, told, asked)
  BY <1>1 DEF Runs
<1> QED BY <1>2, <1>3, <1>4 DEF WizardInv, WizardTrue

(* Every step keeps it.                                                    *)
LEMMA WizardInvStep == TypeOK /\ AnswersInv /\ WizardInv /\ [Next]_vars => WizardInv'
<1> SUFFICES ASSUME TypeOK, AnswersInv, WizardInv, [Next]_vars PROVE WizardInv'
  OBVIOUS
<1>1. CASE \E r \in Requests : AskQuestion(r) \/ AskWizard(r)
  BY <1>1, RequestWizard
<1>2. CASE HostCancels \/ StatusIdle \/ Interrupt
  BY <1>2, SettleWizard DEF HostCancels, StatusIdle, Interrupt
<1>3. CASE SubmitForm \/ CancelForm \/ Pick \/ CancelPrompt
  BY <1>3, ClosedWizard
<1>4. CASE DenyAndInterrupt
  BY <1>4, DenyWizard
<1>5. CASE MoveSelection \/ TypeFilter \/ EraseFilter \/ RefuseCancel \/ Draw \/ Tick
  BY <1>5, FrameWizard
<1>6. CASE StatusBusy \/ UNCHANGED vars
  <2>1. UNCHANGED <<prompts, form, wizard, told, asked>>
    BY <1>6 DEF StatusBusy, slot, vars
  <2> QED BY <2>1 DEF WizardInv
<1> QED BY <1>1, <1>2, <1>3, <1>4, <1>5, <1>6 DEF Next, Host, Keys

(* A wizard is reported complete only with an answer to each of its steps, *)
(* and a step's answer reaches the host alone only after another wizard    *)
(* took its wizard's place.                                                *)
THEOREM WizardsAnswered == Spec => []WizardsComplete
<1>1. WizardInv => WizardsComplete
  <2> SUFFICES ASSUME WizardInv, NEW r \in Wizards
               PROVE  /\ \A n \in DOMAIN told[r.id] :
                           told[r.id][n].value = "completed" => told[r.id][n].steps = StepsOf(r)
                      /\ \A i \in StepsOf(r) : told[i] # <<>> =>
                           /\ told[r.id] = <<>>
                           /\ \E q \in Requests : q.kind = "wizard" /\ q # r /\ q.id \in Asked
    BY DEF WizardsComplete, Wizards
  <2>1. Reported(r, wizard, Places(prompts, form), told, asked)
    BY DEF WizardInv, WizardTrue
  <2>2. Displaced(r, asked) =>
          \E q \in Requests : q.kind = "wizard" /\ q # r /\ q.id \in Asked
    BY DEF Displaced, Came, Wizards, Asked
  <2> QED BY <2>1, <2>2 DEF Reported
<1> QED BY <1>1, WizardInvInit, WizardInvStep, TypeCorrect, AnswersHold, PTL DEF Spec
=============================================================================
