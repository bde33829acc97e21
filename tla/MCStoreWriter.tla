--------------------------- MODULE MCStoreWriter ---------------------------
(* A host that streams one message, runs one tool, repeats a registration, *)
(* and resends an event under the id it had.                               *)
EXTENDS StoreWriter

CONSTANTS s1, t1, b1, b2, h1

Of(kind, ref) == [kind |-> kind, ref |-> ref, size |-> 1, id |-> Fresh, old |-> FALSE]

MCShapes ==
  {Of("token", s1), Of("completed", s1),
   [Of("stdout", t1) EXCEPT !.size = 2], Of("finished", t1),
   Of("slash", b1), [Of("slash", b2) EXCEPT !.old = TRUE], Of("activity", b1),
   [Of("other", b1) EXCEPT !.id = h1]}

-----------------------------------------------------------------------------
MCStreamShapes == {Of("token", s1), Of("completed", s1), Of("other", b1)}
====
