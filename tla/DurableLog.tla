----------------------------- MODULE DurableLog -----------------------------
(***************************************************************************)
(* What the session store promises to the rest of the program: a queue     *)
(* whose events are taken in order into a buffer, and a buffer that goes   *)
(* to disk whole or is given up whole. A sync in the queue is passed only  *)
(* when the buffer is empty. At any moment, then, the events saved or      *)
(* given up are all those up to some point of the queue, whenever the      *)
(* process is killed. Runs, batches, windows and threads are StoreWriter's.*)
(***************************************************************************)
EXTENDS Naturals, Sequences

VARIABLES
  waiting,  (* messages, oldest first: each the set of the events it brings, *)
            (* which is empty for a sync                                    *)
  held,     (* taken, in memory only                                        *)
  saved,    (* on disk                                                      *)
  givenUp   (* not kept, refused by the disk, or forgotten by retention     *)

logVars == <<waiting, held, saved, givenUp>>

Init == waiting = <<>> /\ held = {} /\ saved = {} /\ givenUp = {}

Accept ==
  /\ Len(waiting') = Len(waiting) + 1
  /\ \A i \in DOMAIN waiting : waiting'[i] = waiting[i]
  /\ UNCHANGED <<held, saved, givenUp>>

(* The next event joins the buffer; it, or an older one, may be given up.  *)
Take ==
  /\ waiting # <<>> /\ Head(waiting) # {}
  /\ waiting' = Tail(waiting)
  /\ LET known == held \cup Head(waiting) IN
     /\ held' \subseteq known
     /\ givenUp \subseteq givenUp' /\ givenUp' \subseteq givenUp \cup known
     /\ known \subseteq held' \cup givenUp'
  /\ UNCHANGED saved

Empty ==
  /\ held' = {}
  /\ \/ saved' = saved \cup held /\ UNCHANGED givenUp
     \/ givenUp' = givenUp \cup held /\ UNCHANGED saved

Commit == Empty /\ UNCHANGED waiting

PassSync ==
  /\ waiting # <<>> /\ Head(waiting) = {}
  /\ waiting' = Tail(waiting)
  /\ Empty

Forget ==
  /\ saved' \subseteq saved
  /\ givenUp' = givenUp \cup (saved \ saved')
  /\ UNCHANGED <<waiting, held>>

Next == Accept \/ Take \/ Commit \/ PassSync \/ Forget

Spec == Init /\ [][Next]_logVars
==============================================================================
