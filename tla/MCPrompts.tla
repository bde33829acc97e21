----------------------------- MODULE MCPrompts -----------------------------
(* Two permission requests, a list that must be answered, a form, and two  *)
(* wizards, of which the second may take the place of the first.           *)
EXTENDS Prompts

CONSTANTS p1, p2, l1, f1, w1, w2, a1, a2, b1

Ask1(id, kind, options) ==
  [id |-> id, kind |-> kind, cancel |-> TRUE, filter |-> FALSE, options |-> options]

MCRequests ==
  {Ask1(p1, "permission", 3), Ask1(p2, "permission", 3),
   [Ask1(l1, "select", 2) EXCEPT !.cancel = FALSE],
   Ask1(f1, "form", 0),
   [id |-> w1, kind |-> "wizard", cancel |-> TRUE,
    steps |-> <<Ask1(a1, "confirm", 2), Ask1(a2, "form", 0)>>],
   [id |-> w2, kind |-> "wizard", cancel |-> FALSE,
    steps |-> <<[Ask1(b1, "select", 2) EXCEPT !.filter = TRUE]>>]}
====
