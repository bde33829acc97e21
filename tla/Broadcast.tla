------------------------------ MODULE Broadcast ------------------------------
(***************************************************************************)
(* The websocket server (crates/headless/src/bin/camouflage_broadcast.rs,  *)
(* broadcast_auth.rs): one task reads lines from stdin into a replay       *)
(* buffer and then into a live channel; an accept loop takes a handshake   *)
(* slot before it accepts a peer; each peer has a task that checks the     *)
(* token under a timeout, sends the replay buffer and then follows the     *)
(* live channel.                                                           *)
(*                                                                         *)
(* A line is its number. A viewer knows the token, a stranger does not, a  *)
(* silent peer connects and never completes the handshake.                 *)
(***************************************************************************)
EXTENDS Naturals, Sequences, FiniteSets

CONSTANTS
  Peers,          (* connections that may be made                           *)
  ReplayCap,      (* lines kept for late viewers (--replay-cap)             *)
  LiveCap,        (* capacity of the broadcast channel (256)                *)
  MaxPending,     (* MAX_PENDING_HANDSHAKES                                 *)
  MaxLines,       (* bound: lines the host writes                           *)
  MaxAcceptErrors (* bound: accepts that fail                               *)

(* A buffer of no lines is left out: the server would end at the first one. *)
ASSUME BroadcastAssumption ==
  /\ LiveCap \in Nat \ {0} /\ ReplayCap \in Nat \ {0}
  /\ MaxPending \in Nat \ {0} /\ MaxLines \in Nat /\ MaxAcceptErrors \in Nat
  /\ IsFiniteSet(Peers)

VARIABLES
  serving,   (* main() has not returned                                     *)
  replay,    (* the replay buffer                                           *)
  linesRead, (* lines the stdin task has pushed into it                     *)
  linesSent, (* lines it has sent to the channel                            *)
  permits,   (* free permits of the handshake semaphore                     *)
  acceptor,  (* accept loop: waiting for a permit, accepting, backing off   *)
  errorsLeft,(* accepts that may still fail                                 *)
  backlog,   (* peers the kernel queues for accept()                        *)
  peer       (* per peer: its kind, its task, what it has been sent         *)

broadcastVars == <<serving, replay, linesRead, linesSent, permits, acceptor,
                   errorsLeft, backlog, peer>>

PeerKinds == {"viewer", "stranger", "silent"}
PeerSteps == {"absent", "queued", "handshake", "authorized", "replaying", "live", "gone"}

In(step) == {p \in Peers : peer[p].step = step}

(* A task that ends drops what it held, apart from what its peer received. *)
Ended(task) == [task EXCEPT !.step = "gone", !.next = 0, !.rest = <<>>]

BroadcastInit ==
  /\ serving = TRUE
  /\ replay = <<>> /\ linesRead = 0 /\ linesSent = 0
  /\ permits = MaxPending /\ acceptor = "waiting" /\ errorsLeft = MaxAcceptErrors
  /\ backlog = <<>>
  /\ peer = [p \in Peers |-> [kind |-> "silent", step |-> "absent", next |-> 0,
                              rest |-> <<>>, got |-> <<>>]]

-----------------------------------------------------------------------------
(* The stdin task.                                                         *)

PushReplay(line) ==
  replay' = Append(IF Len(replay) >= ReplayCap THEN Tail(replay) ELSE replay, line)

ReadLine ==
  /\ serving /\ linesRead = linesSent /\ linesRead < MaxLines
  /\ PushReplay(linesRead + 1)
  /\ linesRead' = linesRead + 1
  /\ UNCHANGED <<serving, linesSent, permits, acceptor, errorsLeft, backlog, peer>>

SendLine ==
  /\ serving /\ linesSent < linesRead
  /\ linesSent' = linesSent + 1
  /\ UNCHANGED <<serving, replay, linesRead, permits, acceptor, errorsLeft, backlog, peer>>

(* main() returns: the runtime drops every task and its socket.            *)
StdinCloses ==
  /\ serving /\ linesRead = linesSent
  /\ serving' = FALSE
  /\ peer' = [p \in Peers |-> IF p \in In("absent") THEN peer[p] ELSE Ended(peer[p])]
  /\ backlog' = <<>>
  /\ UNCHANGED <<replay, linesRead, linesSent, permits, acceptor, errorsLeft>>

-----------------------------------------------------------------------------
(* The accept loop.                                                        *)

Connect(p, kind) ==
  /\ serving /\ peer[p].step = "absent"
  /\ peer' = [peer EXCEPT ![p].kind = kind, ![p].step = "queued"]
  /\ backlog' = Append(backlog, p)
  /\ UNCHANGED <<serving, replay, linesRead, linesSent, permits, acceptor, errorsLeft>>

AcquirePermit ==
  /\ serving /\ acceptor = "waiting" /\ permits > 0
  /\ permits' = permits - 1 /\ acceptor' = "accepting"
  /\ UNCHANGED <<serving, replay, linesRead, linesSent, errorsLeft, backlog, peer>>

(* The peer's task subscribes here: it will follow from the next line sent. *)
Accept ==
  /\ serving /\ acceptor = "accepting" /\ backlog # <<>>
  /\ peer' = [peer EXCEPT ![Head(backlog)].step = "handshake",
                          ![Head(backlog)].next = linesSent + 1]
  /\ backlog' = Tail(backlog)
  /\ acceptor' = "waiting"
  /\ UNCHANGED <<serving, replay, linesRead, linesSent, permits, errorsLeft>>

(* The permit of this round is dropped at `continue`, after the pause.     *)
AcceptFails ==
  /\ serving /\ acceptor = "accepting" /\ errorsLeft > 0
  /\ acceptor' = "backoff" /\ errorsLeft' = errorsLeft - 1
  /\ UNCHANGED <<serving, replay, linesRead, linesSent, permits, backlog, peer>>

BackoffEnds ==
  /\ serving /\ acceptor = "backoff"
  /\ acceptor' = "waiting" /\ permits' = permits + 1
  /\ UNCHANGED <<serving, replay, linesRead, linesSent, errorsLeft, backlog, peer>>

-----------------------------------------------------------------------------
(* A peer's task.                                                          *)

check_handshake(p) == peer[p].kind = "viewer"

Becomes(p, step) ==
  /\ peer' = [peer EXCEPT ![p] = IF step = "gone" THEN Ended(@) ELSE [@ EXCEPT !.step = step]]
  /\ UNCHANGED <<serving, replay, linesRead, linesSent, acceptor, errorsLeft, backlog>>

HandshakeAnswered(p) ==
  /\ serving /\ peer[p].step = "handshake" /\ peer[p].kind # "silent"
  /\ permits' = permits + 1
  /\ Becomes(p, IF check_handshake(p) THEN "authorized" ELSE "gone")

(* Mutant of HandshakeFails: the early return forgets the permit.          *)
HandshakeKeepsPermit(p) ==
  /\ serving /\ peer[p].step = "handshake"
  /\ permits' = permits
  /\ Becomes(p, "gone")

(* Mutant of HandshakeFails: a silent peer has no deadline.                *)
HandshakeWithoutDeadline(p) ==
  /\ serving /\ peer[p].step = "handshake" /\ peer[p].kind # "silent"
  /\ permits' = permits + 1
  /\ Becomes(p, "gone")

(* The timeout, and a peer that closes the connection half way: the task   *)
(* ends, and the permit it owns with it.                                   *)
HandshakeFails(p) ==
  /\ serving /\ peer[p].step = "handshake"
  /\ permits' = permits + 1
  /\ Becomes(p, "gone")

(* Mutant of TakeSnapshot: the channel is subscribed to after the copy, by  *)
(* when one more line may have been sent.                                   *)
TakeSnapshotThenSubscribe(p) ==
  /\ serving /\ peer[p].step = "authorized"
  /\ peer' = [peer EXCEPT ![p].step = "replaying", ![p].rest = replay,
                          ![p].next = linesRead + 2]
  /\ UNCHANGED <<serving, replay, linesRead, linesSent, permits, acceptor, errorsLeft, backlog>>

(* The copy is taken under one read lock.                                  *)
TakeSnapshot(p) ==
  /\ serving /\ peer[p].step = "authorized"
  /\ peer' = [peer EXCEPT ![p].step = "replaying", ![p].rest = replay]
  /\ UNCHANGED <<serving, replay, linesRead, linesSent, permits, acceptor, errorsLeft, backlog>>

SendReplay(p) ==
  /\ serving /\ peer[p].step = "replaying"
  /\ LET task == peer[p] IN
     peer' = [peer EXCEPT ![p] =
       IF task.rest = <<>> THEN [task EXCEPT !.step = "live"]
       ELSE [task EXCEPT !.got = Append(task.got, Head(task.rest)),
                         !.rest = Tail(task.rest)]]
  /\ UNCHANGED <<serving, replay, linesRead, linesSent, permits, acceptor, errorsLeft, backlog>>

(* RecvError::Lagged: the channel has overwritten the line the peer is at. *)
Lagged(p) == linesSent + 1 - peer[p].next > LiveCap

Follow(p) ==
  /\ serving /\ peer[p].step = "live" /\ peer[p].next <= linesSent
  /\ LET task == peer[p] IN
     peer' = [peer EXCEPT ![p] =
       IF Lagged(p) THEN Ended(task)
       ELSE [task EXCEPT !.got = Append(task.got, task.next), !.next = task.next + 1]]
  /\ UNCHANGED <<serving, replay, linesRead, linesSent, permits, acceptor, errorsLeft, backlog>>

(* A send that fails, a Close frame or an error on the read half.          *)
PeerLeaves(p) ==
  /\ serving /\ peer[p].step \in {"replaying", "live"}
  /\ UNCHANGED permits
  /\ Becomes(p, "gone")

BroadcastNext ==
  \/ ReadLine \/ SendLine \/ StdinCloses
  \/ AcquirePermit \/ Accept \/ AcceptFails \/ BackoffEnds
  \/ \E p \in Peers :
       \/ \E kind \in PeerKinds : Connect(p, kind)
       \/ HandshakeAnswered(p) \/ HandshakeFails(p)
       \/ TakeSnapshot(p) \/ SendReplay(p) \/ Follow(p) \/ PeerLeaves(p)

(* The runtime polls every ready task, and the handshake has a deadline.   *)
BroadcastFairness ==
  /\ WF_broadcastVars(AcquirePermit) /\ WF_broadcastVars(Accept)
  /\ WF_broadcastVars(BackoffEnds)
  /\ \A p \in Peers : /\ WF_broadcastVars(HandshakeFails(p))
                      /\ WF_broadcastVars(TakeSnapshot(p) \/ SendReplay(p) \/ Follow(p))

BroadcastSpec == BroadcastInit /\ [][BroadcastNext]_broadcastVars /\ BroadcastFairness

-----------------------------------------------------------------------------
(* No handshake slot is lost or given back twice, whatever the order of     *)
(* failed accepts, timeouts, refusals and answers.                          *)
PermitsAccountedFor ==
  serving => permits + Cardinality(In("handshake"))
               + (IF acceptor = "waiting" THEN 0 ELSE 1) = MaxPending

BroadcastTypeOK ==
  /\ serving \in BOOLEAN
  /\ replay \in Seq(Nat) /\ linesRead \in Nat /\ linesSent \in Nat
  /\ permits \in 0..MaxPending /\ acceptor \in {"waiting", "accepting", "backoff"}
  /\ errorsLeft \in 0..MaxAcceptErrors
  /\ backlog \in Seq(Peers)
  /\ peer \in [Peers -> [kind : PeerKinds, step : PeerSteps, next : Nat,
                         rest : Seq(Nat), got : Seq(Nat)]]
  /\ PermitsAccountedFor

(* Where the replay buffer is longer than the channel (10000 lines and 256, *)
(* unless --replay-cap says less), every line a peer is sent is one it was  *)
(* sent before or the one right after the newest it has: whatever the stdin *)
(* task does between the accept, the copy of the buffer and the first live  *)
(* line, no line is skipped and none the peer lacks comes after a newer     *)
(* one. A line may come twice, in the copy and live; and the first is       *)
(* whichever was the oldest in the copy, or live if the copy was empty.     *)
ViewerSeesNoGap ==
  ReplayCap > LiveCap =>
  \A p \in Peers : LET got == peer[p].got IN
    \A i \in 2..Len(got) :
      \/ \E j \in 1..(i-1) : got[j] = got[i]
      \/ /\ \E j \in 1..(i-1) : got[j] + 1 = got[i]
         /\ \A j \in 1..(i-1) : got[j] < got[i]

(* Silent peers cannot lock a viewer out: whoever waits in the backlog gets *)
(* its handshake, or the server ends.                                       *)
BacklogDrains ==
  \A p \in Peers : peer[p].step = "queued" ~> peer[p].step # "queued"
==============================================================================
