-------------------------------- MODULE Peers --------------------------------
(***************************************************************************)
(* The peers of the server and what the kernel keeps of their connections: *)
(* the queue in front of accept(), and for each peer (a peer is one        *)
(* connection) what it did, what of it recv() has not returned yet, and    *)
(* what send() was given and the peer has not read.  Bytes are counted in  *)
(* pieces on their way in, in responses on their way out.                  *)
(***************************************************************************)
EXTENDS Naturals, Sequences

CONSTANTS
  Client,      \* the peers
  Urgent,      \* the peers that may send urgent data
  Ahead,       \* the peers that may send on before they have read the answer
  MaxSend,     \* pieces of one peer that are under way at a time (bound)
  SendBuf,     \* responses the kernel holds for a peer that does not read
  Backlog      \* connections the kernel queues for accept(); listen(5)

VARIABLES
  listening,  \* bind() and listen() gave the listener its port
  backlog,    \* connections waiting for accept()
  peer        \* what each peer has done, and what of it is unread

env == <<listening, backlog, peer>>

(***************************************************************************)
(* The state of a connection as the kernel sees it, the pieces recv() has  *)
(* not returned (inbox), the responses the kernel holds for the peer       *)
(* (unread), and the pieces the peer has read no answer to (due).          *)
(***************************************************************************)
Peer == [state : {"new", "up", "fin", "rst"}, inbox : 0 .. MaxSend,
         due : 0 .. MaxSend, oob : BOOLEAN, unread : 0 .. SendBuf]

PeersInit ==
  /\ listening = FALSE /\ backlog = <<>>
  /\ peer = [c \in Client |-> [state |-> "new", inbox |-> 0, due |-> 0, oob |-> FALSE, unread |-> 0]]

Connect(c) ==
  /\ listening /\ peer[c].state = "new" /\ Len(backlog) < Backlog
  /\ peer' = [peer EXCEPT ![c].state = "up"]
  /\ backlog' = Append(backlog, c)
  /\ UNCHANGED listening

PeerSend(c) ==
  /\ peer[c].state = "up" /\ peer[c].due < MaxSend
  /\ c \in Ahead \/ peer[c].due = 0
  /\ peer' = [peer EXCEPT ![c] = [peer[c] EXCEPT !.inbox = @ + 1, !.due = @ + 1]]
  /\ UNCHANGED <<listening, backlog>>

PeerUrgent(c) ==
  /\ c \in Urgent /\ peer[c].state = "up" /\ ~peer[c].oob
  /\ peer' = [peer EXCEPT ![c].oob = TRUE]
  /\ UNCHANGED <<listening, backlog>>

PeerCloses(c) ==
  /\ peer[c].state = "up"
  /\ peer' = [peer EXCEPT ![c].state = "fin"]
  /\ UNCHANGED <<listening, backlog>>

(* A reset discards what was not read; a queued connection may vanish. *)
PeerResets(c) ==
  /\ peer[c].state \in {"up", "fin"}
  /\ peer' = [peer EXCEPT ![c] = [peer[c] EXCEPT !.state = "rst", !.inbox = 0]]
  /\ \/ UNCHANGED backlog
     \/ \E i \in DOMAIN backlog :
          /\ backlog[i] = c
          /\ backlog' = SubSeq(backlog, 1, i - 1) \o SubSeq(backlog, i + 1, Len(backlog))
  /\ UNCHANGED listening

(* The peer takes a response off its connection: there is room for one more. *)
PeerReads(c) ==
  /\ peer[c].state \in {"up", "fin"} /\ peer[c].unread > 0
  /\ peer' = [peer EXCEPT ![c] = [peer[c] EXCEPT !.unread = @ - 1, !.due = @ - 1]]
  /\ UNCHANGED <<listening, backlog>>

PeerActs(c) ==
  PeerSend(c) \/ PeerUrgent(c) \/ PeerCloses(c) \/ PeerResets(c) \/ PeerReads(c)
=============================================================================
