--------------------------- MODULE PermissionQueue ---------------------------
(***************************************************************************)
(* What a host may count on when it asks for permissions: they wait in the *)
(* order they came, the one that has waited longest is the next to be      *)
(* answered, and the end of a turn withdraws all that wait, at once. Other *)
(* questions come and go between them and are nobody's business here.      *)
(* Slots, forms, wizards, keys and frames are those of Prompts.            *)
(***************************************************************************)
EXTENDS Naturals, Sequences

CONSTANT Permissions

VARIABLES
  received,  (* ids of all questions, in order                              *)
  waiting,   (* permission requests not answered yet                        *)
  answered,
  withdrawn

queueVars == <<received, waiting, answered, withdrawn>>

Init == received = <<>> /\ waiting = {} /\ answered = {} /\ withdrawn = {}

Receive ==
  /\ Len(received') = Len(received) + 1
  /\ \A n \in DOMAIN received : received'[n] = received[n]
  /\ LET i == received'[Len(received) + 1] IN
     /\ \A n \in DOMAIN received : received[n] # i
     /\ waiting' = waiting \cup ({i} \cap Permissions)
  /\ UNCHANGED <<answered, withdrawn>>

(* No request that waits came before i.                                    *)
First(i) ==
  /\ i \in waiting
  /\ \A m, n \in DOMAIN received : m < n /\ received[n] = i => received[m] \notin waiting

Answer ==
  /\ \E i \in waiting : First(i) /\ waiting' = waiting \ {i} /\ answered' = answered \cup {i}
  /\ UNCHANGED <<received, withdrawn>>

Withdraw ==
  /\ waiting' = {} /\ withdrawn' = withdrawn \cup waiting
  /\ UNCHANGED <<received, answered>>

(* The user refuses one and stops the turn.                                *)
Refuse ==
  /\ \E i \in waiting :
       First(i) /\ answered' = answered \cup {i} /\ withdrawn' = withdrawn \cup (waiting \ {i})
  /\ waiting' = {}
  /\ UNCHANGED received

Next == Receive \/ Answer \/ Withdraw \/ Refuse

Spec == Init /\ [][Next]_queueVars
==============================================================================
