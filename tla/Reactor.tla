------------------------------- MODULE Reactor -------------------------------
(***************************************************************************)
(* What the event loop promises, without descriptors, fd_sets or rounds: a *)
(* connection that is accepted has one handler, which gets this            *)
(* connection's bytes and nobody else's, answers no more than it was sent, *)
(* loses an answer only when the kernel has no room for it, and is closed  *)
(* only after its peer closed or reset the connection or sent urgent data. *)
(* SelectLoop is to implement it.                                          *)
(***************************************************************************)
EXTENDS Peers

CONSTANT Lossy      \* an accepted connection may be dropped at once

VARIABLES
  live,     \* the connections that have a handler
  resp      \* responses queued in a connection's handler

vars == <<listening, backlog, peer, live, resp>>

Init == PeersInit /\ live = {} /\ resp = [c \in Client |-> 0]

Open ==
  /\ ~listening /\ listening' = TRUE
  /\ UNCHANGED <<backlog, peer, live, resp>>

PeerStep == \E c \in Client : (Connect(c) \/ PeerActs(c)) /\ UNCHANGED <<live, resp>>

Accept ==
  /\ backlog # <<>> /\ Head(backlog) \notin live
  /\ backlog' = Tail(backlog)
  /\ live' = live \cup {Head(backlog)} \/ (Lossy /\ UNCHANGED live)
  /\ UNCHANGED <<listening, peer, resp>>

(* Every piece may complete a request, and so queue a response. *)
Read(c) ==
  /\ c \in live
  /\ \E n \in 1 .. peer[c].inbox : \E m \in 0 .. n :
       /\ peer' = [peer EXCEPT ![c].inbox = @ - n]
       /\ resp' = [resp EXCEPT ![c] = @ + m]
  /\ UNCHANGED <<listening, backlog, live>>

(* The kernel takes n responses; what it has no room for may be lost. *)
Write(c) ==
  /\ c \in live
  /\ \E n \in 0 .. resp[c] :
       /\ n <= SendBuf - peer[c].unread
       /\ peer' = [peer EXCEPT ![c].unread = @ + n]
       /\ \/ resp' = [resp EXCEPT ![c] = @ - n]
          \/ n = SendBuf - peer[c].unread /\ resp' = [resp EXCEPT ![c] = 0]
  /\ UNCHANGED <<listening, backlog, live>>

Ended(c) == peer[c].state \in {"fin", "rst"} \/ peer[c].oob

Close(c) ==
  /\ c \in live /\ Ended(c)
  /\ live' = live \ {c} /\ resp' = [resp EXCEPT ![c] = 0]
  /\ UNCHANGED <<listening, backlog, peer>>

Next == Open \/ PeerStep \/ Accept \/ \E c \in Client : Read(c) \/ Write(c) \/ Close(c)

Spec == Init /\ [][Next]_vars
=============================================================================
