-------------------------- MODULE SelectLoopProofs --------------------------
(***************************************************************************)
(* Theorems about SelectLoop, for every set of descriptors and peers: its  *)
(* safety properties, and that it implements Reactor.                      *)
(***************************************************************************)
EXTENDS SelectLoop, FiniteSetTheorems, SequenceTheorems, TLAPS

Blocks == {"r", "w", "e"}

(* The thread is at a socket of the round: in a block, or waiting in its send(). *)
Inside == Blocks \cup {"send"}

(***************************************************************************)
(* What makes NoStaleDispatch and ListenerStays inductive: a socket still  *)
(* to be visited was polled with a handler, the one being visited is not   *)
(* visited again, no round is under way outside do_select(), select() does *)
(* not report an exception for the listener, and it is a peer's handler    *)
(* that waits in send().                                                   *)
(***************************************************************************)
RoundInv ==
  /\ \A fd \in todo : polled[fd] # None
  /\ pc \in Inside => sock \notin todo
  /\ pc \in {"start", "loop"} => todo = {}
  /\ pc \in Inside \cup {"next"} => \A fd \in ready.e : polled[fd] # Listener
  /\ pc = "send" => handlers[sock] \in Client

(* Before the constructor of TCPServerImpl has run nothing is listening. *)
StartInv == pc = "start" => ~listening /\ \A fd \in Fd : handlers[fd] = None /\ ksock[fd] = None

(***************************************************************************)
(* A piece the peer has sent is received once and answered at most once:   *)
(* what is in the receive buffer, the queue and the send buffer is under   *)
(* way.  It bounds the receive buffer, and is why a full send buffer means *)
(* a peer that has not waited for its answers.                             *)
(***************************************************************************)
Owed == \A c \in Client : resp[c] + peer[c].inbox + peer[c].unread <= peer[c].due

IInv == /\ TypeOK /\ HandlerOwnsSocket /\ NoSocketLeaked /\ NoStaleDispatch
        /\ ListenerStays /\ RoundInv /\ StartInv /\ Owed

-----------------------------------------------------------------------------
(* Every subset of the descriptors is finite, and has a natural number of elements. *)
LEMMA FdCardinality == \A S \in SUBSET Fd : Cardinality(S) \in Nat
<1> SUFFICES ASSUME NEW S \in SUBSET Fd PROVE Cardinality(S) \in Nat
  OBVIOUS
<1>1. IsFiniteSet(S)
  BY FS_Subset, LoopAssumption DEF LoopAssumption
<1> QED BY <1>1, FS_CardinalityType

(* FD_SET puts no socket into an fd_set that was not given to it. *)
LEMMA InFdSetSubset == ASSUME NEW S PROVE InFdSet(S) \subseteq S
  BY DEF InFdSet

(* The initial state: an empty map, no sockets, no round. *)
LEMMA InitInv == Init => IInv
<1> SUFFICES ASSUME Init PROVE IInv
  OBVIOUS
<1> USE LoopAssumption DEF Init, PeersInit, NoHandlers, NoFds
<1>1. TypeOK
  <2>1. [state |-> "new", inbox |-> 0, due |-> 0, oob |-> FALSE, unread |-> 0] \in Peer
    BY DEF Peer, LoopAssumption
  <2>2. peer \in [Client -> Peer]
    BY <2>1
  <2>3. ready \in [r : SUBSET Fd, w : SUBSET Fd, e : SUBSET Fd]
    OBVIOUS
  <2>4. backlog \in Seq(Client)
    OBVIOUS
  <2> QED BY <2>2, <2>3, <2>4 DEF TypeOK, Handler
<1>2. HandlerOwnsSocket /\ NoSocketLeaked /\ NoStaleDispatch /\ ListenerStays
  BY DEF HandlerOwnsSocket, Registered, NoSocketLeaked, NoStaleDispatch, ListenerStays
<1>3. RoundInv /\ StartInv
  BY DEF RoundInv, StartInv, Inside, Blocks
<1>4. Owed
  BY DEF Owed
<1> QED BY <1>1, <1>2, <1>3, <1>4 DEF IInv

(* A reset connection holds no bytes. *)
LEMMA ResetPeer ==
  ASSUME NEW p \in Peer PROVE [p EXCEPT !.state = "rst", !.inbox = 0] \in Peer
<1>1. ASSUME NEW z \in 0 .. MaxSend
      PROVE  [p EXCEPT !.state = "rst", !.inbox = z] \in Peer
  BY DEF Peer
<1>2. 0 \in 0 .. MaxSend
  BY LoopAssumption DEF LoopAssumption
<1> QED BY <1>1, <1>2

(* What a peer does keeps the types. *)
LEMMA EnvironmentType == TypeOK /\ Owed /\ Environment => TypeOK' /\ Owed'
<1> SUFFICES ASSUME TypeOK, Owed, Environment PROVE TypeOK' /\ Owed'
  OBVIOUS
<1> USE LoopAssumption DEF LoopAssumption
<1>1. PICK c \in Client : \/ Connect(c) \/ PeerSend(c) \/ PeerUrgent(c)
                          \/ PeerCloses(c) \/ PeerResets(c) \/ PeerReads(c)
  BY DEF Environment, PeerActs
<1>2. /\ peer \in [Client -> Peer] /\ peer[c] \in Peer
      /\ resp' = resp /\ resp \in [Client -> Nat]
      /\ resp[c] + peer[c].inbox + peer[c].unread <= peer[c].due
  BY DEF TypeOK, Owed, Environment, table
<1>3. backlog \in Seq(Client)
  BY DEF TypeOK
<1>4. PICK p \in Peer : /\ peer' = [peer EXCEPT ![c] = p]
                        /\ resp[c] + p.inbox + p.unread <= p.due
  <2>1. CASE Connect(c)
    <3> DEFINE q == [peer[c] EXCEPT !.state = "up"]
    <3>1. q \in Peer /\ q.inbox = peer[c].inbox /\ q.due = peer[c].due /\ q.unread = peer[c].unread
      BY <1>2 DEF Peer
    <3>2. peer' = [peer EXCEPT ![c] = q]
      BY <1>2, <2>1 DEF Connect
    <3> QED BY <1>2, <3>1, <3>2
  <2>2. CASE PeerSend(c)
    <3> DEFINE q == [peer[c] EXCEPT !.inbox = @ + 1, !.due = @ + 1]
    <3>1. resp[c] \in Nat /\ peer[c].unread \in Nat /\ peer[c].inbox \in Nat /\ peer[c].due \in Nat
      BY <1>2 DEF Peer
    <3>2. peer[c].inbox + 1 \in 0 .. MaxSend /\ peer[c].due + 1 \in 0 .. MaxSend
      BY <1>2, <2>2, <3>1 DEF PeerSend
    <3>3. q \in Peer /\ q.inbox = peer[c].inbox + 1 /\ q.due = peer[c].due + 1 /\ q.unread = peer[c].unread
      BY <1>2, <3>2 DEF Peer
    <3>4. resp[c] + q.inbox + q.unread <= q.due
      BY <1>2, <3>1, <3>3
    <3> QED BY <2>2, <3>3, <3>4 DEF PeerSend
  <2>3. CASE PeerUrgent(c)
    <3> DEFINE q == [peer[c] EXCEPT !.oob = TRUE]
    <3>1. q \in Peer /\ q.inbox = peer[c].inbox /\ q.due = peer[c].due /\ q.unread = peer[c].unread
      BY <1>2 DEF Peer
    <3>2. peer' = [peer EXCEPT ![c] = q]
      BY <1>2, <2>3 DEF PeerUrgent
    <3> QED BY <1>2, <3>1, <3>2
  <2>4. CASE PeerCloses(c)
    <3> DEFINE q == [peer[c] EXCEPT !.state = "fin"]
    <3>1. q \in Peer /\ q.inbox = peer[c].inbox /\ q.due = peer[c].due /\ q.unread = peer[c].unread
      BY <1>2 DEF Peer
    <3>2. peer' = [peer EXCEPT ![c] = q]
      BY <1>2, <2>4 DEF PeerCloses
    <3> QED BY <1>2, <3>1, <3>2
  <2>5. CASE PeerResets(c)
    <3> DEFINE q == [peer[c] EXCEPT !.state = "rst", !.inbox = 0]
    <3>1. peer' = [peer EXCEPT ![c] = q] /\ q \in Peer
      BY <1>2, <2>5, ResetPeer DEF PeerResets
    <3>2. q.inbox = 0 /\ q.unread = peer[c].unread /\ q.due = peer[c].due
      BY <1>2 DEF Peer
    <3>3. resp[c] \in Nat /\ peer[c].unread \in Nat /\ peer[c].inbox \in Nat /\ peer[c].due \in Nat
      BY <1>2 DEF Peer
    <3>4. resp[c] + q.inbox + q.unread <= q.due
      BY <1>2, <3>2, <3>3
    <3> QED BY <3>1, <3>4
  <2>6. CASE PeerReads(c)
    <3> DEFINE q == [peer[c] EXCEPT !.unread = @ - 1, !.due = @ - 1]
    <3>1. resp[c] \in Nat /\ peer[c].unread \in Nat /\ peer[c].inbox \in Nat /\ peer[c].due \in Nat
      BY <1>2 DEF Peer
    <3>2. peer[c].unread - 1 \in 0 .. SendBuf /\ peer[c].due - 1 \in 0 .. MaxSend
      BY <1>2, <2>6, <3>1 DEF PeerReads, Peer
    <3>3. q \in Peer /\ q.inbox = peer[c].inbox /\ q.due = peer[c].due - 1 /\ q.unread = peer[c].unread - 1
      BY <1>2, <3>2 DEF Peer
    <3>4. resp[c] + q.inbox + q.unread <= q.due
      BY <1>2, <3>1, <3>3
    <3> QED BY <2>6, <3>3, <3>4 DEF PeerReads
  <2> QED BY <1>1, <2>1, <2>2, <2>3, <2>4, <2>5, <2>6
<1>5. backlog' \in Seq(Client)
  <2>1. CASE UNCHANGED backlog
    BY <1>3, <2>1
  <2>2. CASE Connect(c)
    BY <1>3, <2>2 DEF Connect
  <2>3. ASSUME NEW i \in DOMAIN backlog,
               backlog' = SubSeq(backlog, 1, i - 1) \o SubSeq(backlog, i + 1, Len(backlog))
        PROVE  backlog' \in Seq(Client)
    BY <1>3, <2>3
  <2> QED BY <1>1, <2>1, <2>2, <2>3 DEF PeerSend, PeerUrgent, PeerCloses, PeerResets, PeerReads
<1>6. listening' = listening /\ UNCHANGED <<table, round, pc>>
  BY <1>1 DEF Environment, Connect, PeerSend, PeerUrgent, PeerCloses, PeerResets, PeerReads
<1>7. peer' \in [Client -> Peer] /\ \A d \in Client : peer'[d] = IF d = c THEN p ELSE peer[d]
  BY <1>2, <1>4
<1>8. TypeOK'
  BY <1>5, <1>6, <1>7 DEF TypeOK, table, round
<1>9. Owed'
  BY <1>2, <1>4, <1>7 DEF Owed
<1> QED BY <1>8, <1>9

(* close() keeps the types of what it changes. *)
LEMMA CloseType ==
  ASSUME TypeOK, NEW fd \in Fd, close(fd)
  PROVE  /\ handlers' \in [Fd -> Handler \cup {None}] /\ ksock' \in [Fd -> Handler \cup {None}]
         /\ resp' \in [Client -> Nat]
  BY DEF TypeOK, close

(* A reset of a queue keeps what is owed. *)
LEMMA CloseOwed ==
  ASSUME TypeOK, Owed, NEW h, resp' = [resp EXCEPT ![h] = 0], peer' = peer
  PROVE  Owed'
<1> SUFFICES ASSUME NEW c \in Client
             PROVE  resp'[c] + peer[c].inbox + peer[c].unread <= peer[c].due
  BY DEF Owed
<1>1. /\ resp[c] + peer[c].inbox + peer[c].unread <= peer[c].due
      /\ resp[c] \in Nat /\ peer[c].inbox \in Nat /\ peer[c].unread \in Nat /\ peer[c].due \in Nat
  BY LoopAssumption DEF Owed, TypeOK, Peer, LoopAssumption
<1>2. resp'[c] = resp[c] \/ resp'[c] = 0
  BY DEF TypeOK
<1> QED BY <1>1, <1>2

(***************************************************************************)
(* What handle_write() does: the kernel takes n responses, and the rest    *)
(* stays, or is lost where send() does not wait and there is no room.      *)
(***************************************************************************)
LEMMA SendFacts ==
  ASSUME TypeOK, NEW c \in Client, SendAll(c)
  PROVE  /\ \E n \in 0 .. resp[c] :
              /\ n <= Room(c) /\ peer' = [peer EXCEPT ![c].unread = @ + n]
              /\ \/ resp' = [resp EXCEPT ![c] = @ - n]
                 \/ ~Blocking /\ n = Room(c) /\ n < resp[c] /\ resp' = [resp EXCEPT ![c] = 0]
         /\ pc' \in {"send", "e"} /\ UNCHANGED <<handlers, ksock, backlog>>
<1>1. /\ resp[c] \in Nat /\ peer[c] \in Peer /\ Room(c) \in Nat
      /\ resp \in [Client -> Nat] /\ peer \in [Client -> Peer]
  BY LoopAssumption DEF TypeOK, Peer, Room, LoopAssumption
<1> DEFINE n == IF resp[c] < Room(c) THEN resp[c] ELSE Room(c)
<1>2. n \in 0 .. resp[c] /\ n <= Room(c) /\ (n = resp[c] \/ (n = Room(c) /\ n < resp[c]))
  BY <1>1
<1>3. /\ peer' = [peer EXCEPT ![c].unread = @ + n]
      /\ IF Blocking /\ n < resp[c]
         THEN resp' = [resp EXCEPT ![c] = @ - n] /\ pc' = "send"
         ELSE resp' = [resp EXCEPT ![c] = 0] /\ pc' = "e"
      /\ UNCHANGED <<handlers, ksock, backlog>>
  BY DEF SendAll
<1> HIDE DEF n
<1>4. \/ resp' = [resp EXCEPT ![c] = @ - n]
      \/ ~Blocking /\ n = Room(c) /\ n < resp[c] /\ resp' = [resp EXCEPT ![c] = 0]
  <2>1. CASE Blocking /\ n < resp[c]
    BY <1>3, <2>1
  <2>2. CASE n = resp[c]
    <3>1. resp[c] - n = 0 /\ ~(n < resp[c])
      BY <1>1, <2>2
    <3> QED BY <1>3, <3>1
  <2>3. CASE ~Blocking /\ n = Room(c) /\ n < resp[c]
    BY <1>3, <2>3
  <2> QED BY <1>2, <2>1, <2>2, <2>3
<1> QED BY <1>2, <1>3, <1>4

(* handle_write() keeps the types and what is owed. *)
LEMMA SendType ==
  ASSUME TypeOK, Owed, NEW c \in Client, SendAll(c)
  PROVE  /\ peer' \in [Client -> Peer] /\ resp' \in [Client -> Nat] /\ Owed'
         /\ \A d \in Client : /\ peer'[d].state = peer[d].state /\ peer'[d].oob = peer[d].oob
                              /\ peer'[d].inbox = peer[d].inbox
<1>1. PICK n \in 0 .. resp[c] :
        /\ n <= Room(c) /\ peer' = [peer EXCEPT ![c].unread = @ + n]
        /\ \/ resp' = [resp EXCEPT ![c] = @ - n]
           \/ ~Blocking /\ n = Room(c) /\ n < resp[c] /\ resp' = [resp EXCEPT ![c] = 0]
  BY SendFacts
<1>2. /\ resp \in [Client -> Nat] /\ peer \in [Client -> Peer] /\ SendBuf \in Nat /\ n \in Nat
      /\ resp[c] \in Nat /\ peer[c].unread \in 0 .. SendBuf
  BY LoopAssumption, <1>1 DEF TypeOK, Peer, LoopAssumption
<1>3. peer[c].unread + n \in 0 .. SendBuf
  BY <1>1, <1>2 DEF Room
<1>4. /\ peer' \in [Client -> Peer]
      /\ \A d \in Client : /\ peer'[d].state = peer[d].state /\ peer'[d].oob = peer[d].oob
                           /\ peer'[d].inbox = peer[d].inbox /\ peer'[d].due = peer[d].due
                           /\ d # c => peer'[d] = peer[d]
      /\ peer'[c].unread = peer[c].unread + n
  BY <1>1, <1>2, <1>3 DEF Peer
<1>5. resp' \in [Client -> Nat] /\ resp'[c] <= resp[c] - n /\ \A d \in Client \ {c} : resp'[d] = resp[d]
  BY <1>1, <1>2
<1>6. Owed'
  <2> SUFFICES ASSUME NEW d \in Client
               PROVE  resp'[d] + peer'[d].inbox + peer'[d].unread <= peer'[d].due
    BY DEF Owed
  <2>1. /\ resp[d] + peer[d].inbox + peer[d].unread <= peer[d].due
        /\ peer[d].inbox \in Nat /\ peer[d].due \in Nat /\ resp'[d] \in Nat
    BY LoopAssumption, <1>2, <1>5 DEF Owed, Peer, LoopAssumption
  <2> QED BY <1>2, <1>4, <1>5, <2>1
<1> QED BY <1>4, <1>5, <1>6

(* A step of the thread keeps the types. *)
LEMMA MainType ==
  TypeOK /\ Owed /\ HandlerOwnsSocket /\ RoundInv /\ Main => TypeOK' /\ Owed'
<1> SUFFICES ASSUME TypeOK, Owed, HandlerOwnsSocket, RoundInv, Main PROVE TypeOK' /\ Owed'
  OBVIOUS
<1> USE LoopAssumption DEF LoopAssumption
<1>0. ASSUME UNCHANGED <<peer, resp>> PROVE Owed'
  BY <1>0 DEF Owed
<1>1. CASE Startup
  BY <1>0, <1>1 DEF Startup, create_socket, BindAndListen, add_channel, TypeOK, Handler, round
<1>2. CASE StartupFails
  BY <1>0, <1>2 DEF StartupFails, TypeOK, env, table, round
<1>3. CASE LoopReturns
  BY <1>0, <1>3 DEF LoopReturns, TypeOK, env, table, round
<1>4. CASE Select
  <2>1. ReadFds \subseteq Fd /\ WriteFds \subseteq Fd /\ ExptFds \subseteq Fd /\ Registered \subseteq Fd
    BY InFdSetSubset DEF ReadFds, WriteFds, ExptFds, Registered
  <2>2. retv' \in Nat
    BY <1>4, <2>1, FdCardinality DEF Select
  <2>3. ready' \in [r : SUBSET Fd, w : SUBSET Fd, e : SUBSET Fd]
    BY <1>4, <2>1 DEF Select
  <2> QED BY <1>0, <1>4, <2>1, <2>2, <2>3 DEF Select, TypeOK, env, table
<1>5. CASE FdSetOverflow
  BY <1>0, <1>5 DEF FdSetOverflow, TypeOK, env, table, round
<1>6. CASE NextSocket
  BY <1>0, <1>6 DEF NextSocket, TypeOK, env, table
<1>7. CASE RoundEnds
  BY <1>0, <1>7 DEF RoundEnds, TypeOK, env, table, NoFds, NoHandlers
<1>8. CASE HandlerGone
  BY <1>0, <1>8 DEF HandlerGone, TypeOK, env, table, round
<1>9. CASE NoEvent
  BY <1>0, <1>9 DEF NoEvent, After, TypeOK, env, table, round
<1>10. ASSUME Visit PROVE TypeOK' /\ Owed'
  <2>1. PICK block \in Blocks : Event(block)
    BY <1>10 DEF Visit, Accept, AcceptFails, ReadData, ReadEvent, ReadEnds, Write, WriteEvent,
      WriteFails, Expt, Blocks
  <2>2. pc = block /\ sock \in Fd /\ handlers[sock] \in Handler
    BY <2>1 DEF Event, Blocks, TypeOK
  <2>3. /\ listening' \in BOOLEAN /\ todo' \subseteq Fd /\ sock' \in Fd
        /\ ready' \in [r : SUBSET Fd, w : SUBSET Fd, e : SUBSET Fd]
        /\ retv' \in Nat /\ polled' \in [Fd -> Handler \cup {None}]
    BY <2>1, <2>2 DEF Event, TypeOK
  <2>4. Continue => pc' \in {"w", "e", "next"}
    BY <2>2 DEF Continue, After, Blocks
  <2>5. CASE Accept
    <3>1. backlog' \in Seq(Client) /\ Head(backlog) \in Client
      BY <2>5 DEF Accept, TypeOK
    <3>2. /\ handlers' \in [Fd -> Handler \cup {None}] /\ ksock' \in [Fd -> Handler \cup {None}]
          /\ pc' \in {"w", "e", "next", "crashed"}
      <4>1. PICK fd \in Fd : Construct(fd, Head(backlog))
        BY <2>5 DEF Accept
      <4>2. /\ handlers \in [Fd -> Handler \cup {None}] /\ ksock \in [Fd -> Handler \cup {None}]
            /\ Head(backlog) \in Handler
        BY <3>1 DEF TypeOK, Handler
      <4> QED BY <4>1, <4>2 DEF Construct, add_channel
    <3> QED BY <1>0, <2>3, <2>5, <3>1, <3>2 DEF Accept, TypeOK
  <2>6. CASE AcceptFails
    BY <1>0, <2>3, <2>4, <2>6 DEF AcceptFails, TypeOK, table
  <2>7. CASE ReadData
    <3> DEFINE k == ksock[sock]
    <3>2. k \in Client /\ peer \in [Client -> Peer] /\ peer[k] \in Peer
      BY <2>7 DEF ReadData, TypeOK
    <3>1. PICK n \in 1 .. peer[k].inbox : \E m \in 0 .. n :
            /\ peer' = [peer EXCEPT ![k].inbox = @ - n]
            /\ resp' = [resp EXCEPT ![handlers[sock]] = @ + m]
      BY <2>7 DEF ReadData
    <3>6. handlers[sock] = k /\ n \in Nat
      BY <2>2, <2>7, <3>1, <3>2 DEF HandlerOwnsSocket, Registered, ReadData, ReadEvent, Peer
    <3>7. PICK m \in 0 .. n : resp' = [resp EXCEPT ![k] = @ + m]
      BY <3>1, <3>6
    <3> HIDE DEF k
    <3>3. /\ peer' \in [Client -> Peer]
          /\ \A d \in Client : /\ peer'[d].inbox = IF d = k THEN peer[k].inbox - n ELSE peer[d].inbox
                               /\ peer'[d].unread = peer[d].unread /\ peer'[d].due = peer[d].due
      <4>1. peer[k].inbox - n \in 0 .. MaxSend
        BY <3>1, <3>2, <3>6 DEF Peer
      <4>2. PICK p \in Peer : p = [peer[k] EXCEPT !.inbox = @ - n]
        BY <3>2, <4>1 DEF Peer
      <4>3. p.inbox = peer[k].inbox - n /\ p.unread = peer[k].unread /\ p.due = peer[k].due
        BY <3>2, <4>2 DEF Peer
      <4>4. peer' = [peer EXCEPT ![k] = p]
        BY <3>1, <3>2, <4>2
      <4> QED BY <3>2, <4>3, <4>4
    <3>4. /\ resp' \in [Client -> Nat] /\ m \in Nat
          /\ \A d \in Client : resp'[d] = IF d = k THEN resp[k] + m ELSE resp[d]
      BY <3>6, <3>7, <3>2 DEF TypeOK
    <3>5. Owed'
      <4> SUFFICES ASSUME NEW d \in Client
                   PROVE  resp'[d] + peer'[d].inbox + peer'[d].unread <= peer'[d].due
        BY DEF Owed
      <4>1. /\ resp[d] + peer[d].inbox + peer[d].unread <= peer[d].due /\ resp[d] \in Nat
            /\ peer[d].inbox \in Nat /\ peer[d].due \in Nat /\ peer[d].unread \in Nat
        BY DEF Owed, Peer, TypeOK
      <4> QED BY <3>3, <3>4, <3>6, <3>7, <4>1
    <3> QED BY <2>3, <2>4, <2>7, <3>3, <3>4, <3>5 DEF ReadData, TypeOK
  <2>8. CASE ReadEnds \/ WriteFails \/ Expt
    <3>1. /\ close(sock) /\ UNCHANGED <<backlog, peer>> /\ resp' = [resp EXCEPT ![handlers[sock]] = 0]
          /\ pc' \in {"w", "e", "next", "crashed"}
      BY <2>4, <2>8 DEF ReadEnds, WriteFails, Expt, close
    <3>2. Owed'
      BY <3>1, CloseOwed
    <3> QED BY <2>2, <2>3, <3>1, <3>2, CloseType DEF TypeOK
  <2>9. CASE Write
    <3>1. ksock[sock] \in Client /\ SendAll(ksock[sock])
      BY <2>9 DEF Write
    <3>2. /\ peer' \in [Client -> Peer] /\ resp' \in [Client -> Nat] /\ Owed'
          /\ pc' \in {"send", "e"} /\ UNCHANGED <<handlers, ksock, backlog>>
      BY <3>1, SendType, SendFacts
    <3> QED BY <2>3, <3>2 DEF TypeOK
  <2> QED BY <1>10, <2>5, <2>6, <2>7, <2>8, <2>9 DEF Visit
<1>11. ASSUME SendMore \/ SendAborted PROVE TypeOK' /\ Owed'
  <2>1. /\ sock \in Fd /\ ksock[sock] \in Client /\ UNCHANGED <<listening, round>>
    BY <1>11 DEF SendMore, SendAborted, env, RoundInv, HandlerOwnsSocket, Registered, TypeOK
  <2>2. CASE SendMore
    <3>1. /\ peer' \in [Client -> Peer] /\ resp' \in [Client -> Nat] /\ Owed'
          /\ pc' \in {"send", "e"} /\ UNCHANGED <<handlers, ksock, backlog>>
      BY <2>1, <2>2, SendType, SendFacts DEF SendMore
    <3> QED BY <2>1, <3>1 DEF TypeOK, round
  <2>3. CASE SendAborted
    <3>1. /\ close(sock) /\ UNCHANGED <<backlog, peer>> /\ resp' = [resp EXCEPT ![handlers[sock]] = 0]
          /\ pc' \in {"e", "crashed"}
      BY <2>3 DEF SendAborted, close, env
    <3>2. Owed'
      BY <3>1, CloseOwed
    <3> QED BY <2>1, <3>1, <3>2, CloseType DEF TypeOK, round
  <2> QED BY <1>11, <2>2, <2>3
<1> QED BY <1>1, <1>2, <1>3, <1>4, <1>5, <1>6, <1>7, <1>8, <1>9, <1>10, <1>11 DEF Main, Dispatch

(* The invariant without the types. *)
Safe == /\ HandlerOwnsSocket /\ NoSocketLeaked /\ NoStaleDispatch
        /\ ListenerStays /\ RoundInv /\ StartInv

(***************************************************************************)
(* The visited socket is closed: it is not among the ones to be visited,   *)
(* and it is not the listener's.                                           *)
(***************************************************************************)
LEMMA CloseSafe ==
  ASSUME IInv, pc \in Inside, close(sock), handlers[sock] \in Client,
         UNCHANGED <<listening, todo, sock, ready, polled>>,
         pc' \in {"w", "e", "next", "crashed"}
  PROVE  Safe'
<1> USE LoopAssumption DEF LoopAssumption, IInv, Inside, Blocks
<1>0. /\ sock \in Fd /\ sock \notin todo /\ todo \subseteq Fd
      /\ handlers \in [Fd -> Handler \cup {None}] /\ ksock \in [Fd -> Handler \cup {None}]
  BY DEF TypeOK, RoundInv
<1>1. handlers' = [handlers EXCEPT ![sock] = None]
  BY DEF close
<1>2. ksock' = [ksock EXCEPT ![sock] = None] \/ ("stale_this" \in Faults /\ ksock' = ksock)
  BY DEF close
<1>3. HandlerOwnsSocket' /\ NoSocketLeaked'
  BY <1>0, <1>1, <1>2 DEF HandlerOwnsSocket, NoSocketLeaked, Registered
<1>4. NoStaleDispatch'
  BY <1>0, <1>1 DEF NoStaleDispatch
<1>5. ListenerStays'
  BY <1>0, <1>1 DEF ListenerStays
<1>6. RoundInv' /\ StartInv'
  BY <1>0 DEF RoundInv, StartInv
<1> QED BY <1>3, <1>4, <1>5, <1>6 DEF Safe

(***************************************************************************)
(* A new socket: its descriptor was free, so no handler had it, and it is  *)
(* neither the visited one nor one still to be visited.                    *)
(***************************************************************************)
LEMMA AcceptSafe == ASSUME IInv, Accept PROVE Safe'
<1> USE LoopAssumption DEF LoopAssumption, IInv
<1>1. /\ pc = "r" /\ sock \in Fd /\ handlers[sock] = Listener
      /\ UNCHANGED <<listening, todo, sock, ready, polled>>
      /\ handlers \in [Fd -> Handler \cup {None}] /\ ksock \in [Fd -> Handler \cup {None}]
      /\ todo \subseteq Fd
  BY DEF Accept, Event, TypeOK
<1>2. Head(backlog) \in Client
  BY DEF Accept, TypeOK
<1>3. PICK fd \in Fd :
        /\ ksock[fd] = None
        /\ ksock' = [ksock EXCEPT ![fd] = Head(backlog)]
        /\ \/ handlers' = [handlers EXCEPT ![fd] = Head(backlog)]
           \/ "peername" \in Faults /\ handlers' = [handlers EXCEPT ![fd] = None]
        /\ pc' \in {"w", "crashed"}
  BY <1>1 DEF Accept, Construct, add_channel, Continue, After
<1>4. handlers[fd] = None /\ fd # sock /\ fd \notin todo
  BY <1>1, <1>3 DEF HandlerOwnsSocket, Registered, NoStaleDispatch, RoundInv
<1>5. HandlerOwnsSocket' /\ NoSocketLeaked'
  BY <1>1, <1>2, <1>3, <1>4 DEF HandlerOwnsSocket, NoSocketLeaked, Registered
<1>6. NoStaleDispatch'
  BY <1>1, <1>3, <1>4 DEF NoStaleDispatch
<1>7. ListenerStays'
  BY <1>1, <1>3, <1>4 DEF ListenerStays
<1>8. RoundInv' /\ StartInv'
  BY <1>1, <1>3 DEF RoundInv, StartInv, Inside, Blocks
<1> QED BY <1>5, <1>6, <1>7, <1>8 DEF Safe

(* A step of the thread. *)
LEMMA MainSafe == IInv /\ Main => Safe'
<1> SUFFICES ASSUME IInv, Main PROVE Safe'
  OBVIOUS
<1> USE LoopAssumption DEF LoopAssumption, IInv
<1>1. CASE Startup
  <2>1. PICK fd \in Fd : /\ ksock' = [ksock EXCEPT ![fd] = Listener]
                         /\ handlers' = [handlers EXCEPT ![fd] = Listener]
    BY <1>1 DEF Startup, create_socket, BindAndListen, add_channel
  <2>2. /\ pc = "start" /\ pc' = "loop" /\ UNCHANGED round
        /\ handlers \in [Fd -> Handler \cup {None}] /\ ksock \in [Fd -> Handler \cup {None}]
        /\ \A g \in Fd : handlers[g] = None /\ ksock[g] = None
        /\ todo = {}
    BY <1>1 DEF Startup, BindAndListen, TypeOK, StartInv, RoundInv
  <2>3. HandlerOwnsSocket' /\ NoSocketLeaked' /\ ListenerStays'
    BY <2>1, <2>2 DEF HandlerOwnsSocket, NoSocketLeaked, Registered, ListenerStays
  <2>4. NoStaleDispatch' /\ RoundInv' /\ StartInv'
    BY <2>2 DEF NoStaleDispatch, RoundInv, StartInv, Inside, Blocks, round
  <2> QED BY <2>3, <2>4 DEF Safe
<1>2. ASSUME UNCHANGED <<table, listening, todo, ready, polled>>,
             sock' = sock \/ pc' \notin Blocks, pc # "send",
             pc \in Blocks => pc' \in Blocks \cup {"next"},
             pc \notin Blocks => pc \in {"start", "loop"} /\ pc' \in {"loop", "stopped", "crashed"}
      PROVE  Safe'
  <2>1. HandlerOwnsSocket' /\ NoSocketLeaked'
    BY <1>2 DEF HandlerOwnsSocket, NoSocketLeaked, Registered, table
  <2>2. NoStaleDispatch' /\ RoundInv' /\ StartInv'
    BY <1>2 DEF NoStaleDispatch, RoundInv, StartInv, Inside, Blocks, table, TypeOK
  <2>3. ListenerStays'
    BY <1>2 DEF ListenerStays, table, Blocks, TypeOK
  <2> QED BY <2>1, <2>2, <2>3 DEF Safe
<1>3. CASE StartupFails \/ LoopReturns \/ FdSetOverflow \/ HandlerGone \/ NoEvent
  BY <1>2, <1>3 DEF StartupFails, LoopReturns, FdSetOverflow, HandlerGone, NoEvent,
       env, round, Blocks, After, StartInv
<1>4. CASE Select
  <2>1. /\ UNCHANGED <<table, listening>> /\ pc = "loop" /\ pc' = "next"
        /\ todo' = Registered /\ polled' = handlers /\ ready'.e = ExptFds
    BY <1>4 DEF Select, env
  <2>2. \A fd \in ExptFds : fd \in Registered /\ handlers[fd] # Listener
    BY InFdSetSubset DEF ExptFds, ExptReady, HandlerOwnsSocket
  <2>3. HandlerOwnsSocket' /\ NoSocketLeaked' /\ ListenerStays'
    BY <2>1 DEF HandlerOwnsSocket, NoSocketLeaked, Registered, ListenerStays, table
  <2>4. NoStaleDispatch' /\ RoundInv' /\ StartInv'
    BY <2>1, <2>2 DEF NoStaleDispatch, RoundInv, StartInv, Registered, Inside, Blocks, table
  <2> QED BY <2>3, <2>4 DEF Safe
<1>5. CASE NextSocket
  <2>1. HandlerOwnsSocket' /\ NoSocketLeaked' /\ ListenerStays'
    BY <1>5 DEF NextSocket, HandlerOwnsSocket, NoSocketLeaked, Registered, ListenerStays, table, env
  <2>2. NoStaleDispatch' /\ RoundInv' /\ StartInv'
    BY <1>5 DEF NextSocket, NoStaleDispatch, RoundInv, StartInv, Inside, Blocks, table
  <2> QED BY <2>1, <2>2 DEF Safe
<1>6. CASE RoundEnds
  <2>1. HandlerOwnsSocket' /\ NoSocketLeaked' /\ ListenerStays'
    BY <1>6 DEF RoundEnds, HandlerOwnsSocket, NoSocketLeaked, Registered, ListenerStays, table, env
  <2>2. NoStaleDispatch' /\ RoundInv' /\ StartInv'
    BY <1>6 DEF RoundEnds, NoStaleDispatch, RoundInv, StartInv, Inside, Blocks
  <2> QED BY <2>1, <2>2 DEF Safe
<1>7. CASE Accept
  BY <1>7, AcceptSafe
<1>8. CASE AcceptFails \/ ReadData \/ Write \/ SendMore
  <2>1. /\ UNCHANGED <<handlers, ksock, listening, todo, sock, ready, polled>>
        /\ pc \in Inside /\ pc' \in Inside \cup {"next"}
        /\ pc' = "send" => handlers[sock] \in Client
    BY <1>8 DEF AcceptFails, ReadData, ReadEvent, Write, WriteEvent, SendMore, SendAll, Event, Continue,
         After, Inside, Blocks, table, round, RoundInv
  <2>2. HandlerOwnsSocket' /\ NoSocketLeaked' /\ ListenerStays'
    BY <2>1 DEF HandlerOwnsSocket, NoSocketLeaked, Registered, ListenerStays, Inside, Blocks
  <2>3. NoStaleDispatch' /\ RoundInv' /\ StartInv'
    BY <2>1 DEF NoStaleDispatch, RoundInv, StartInv, Inside, Blocks
  <2> QED BY <2>2, <2>3 DEF Safe
<1>9. CASE ReadEnds \/ WriteFails \/ SendAborted
  BY <1>9, CloseSafe DEF ReadEnds, ReadEvent, WriteFails, WriteEvent, SendAborted, Event, Continue, After,
     Inside, Blocks, env, round, RoundInv
<1>10. CASE Expt
  <2>1. /\ pc = "e" /\ close(sock) /\ UNCHANGED <<listening, todo, sock, ready, polled>>
        /\ pc' = "next" /\ handlers[sock] # None /\ sock \in ready.e /\ sock \in Fd
    BY <1>10 DEF Expt, Event, Continue, After, TypeOK
  <2>2. handlers[sock] = polled[sock] /\ polled[sock] # Listener
    BY <2>1 DEF NoStaleDispatch, RoundInv, Inside, Blocks
  <2>3. handlers[sock] \in Client
    BY <2>1, <2>2 DEF TypeOK, Handler
  <2> QED BY <2>1, <2>3, CloseSafe DEF Inside, Blocks
<1> QED BY <1>1, <1>3, <1>4, <1>5, <1>6, <1>7, <1>8, <1>9, <1>10 DEF Main, Dispatch, Visit

(* Every step keeps the invariant; a peer's step touches nothing it speaks of. *)
LEMMA NextInv == IInv /\ [Next]_vars => IInv'
<1> SUFFICES ASSUME IInv, [Next]_vars PROVE IInv'
  OBVIOUS
<1>1. CASE Main
  BY <1>1, MainType, MainSafe DEF IInv, Safe
<1>2. CASE Environment
  <2>1. /\ UNCHANGED <<handlers, ksock, listening, pc, todo, sock, ready, polled>>
    BY <1>2 DEF Environment, PeerActs, Connect, PeerSend, PeerUrgent, PeerCloses, PeerResets, PeerReads,
       table, round
  <2>2. HandlerOwnsSocket' /\ NoSocketLeaked' /\ NoStaleDispatch' /\ ListenerStays'
    BY <2>1 DEF IInv, HandlerOwnsSocket, NoSocketLeaked, NoStaleDispatch, Registered, ListenerStays
  <2>3. RoundInv' /\ StartInv'
    BY <2>1 DEF IInv, RoundInv, StartInv
  <2> QED BY <1>2, <2>2, <2>3, EnvironmentType DEF IInv
<1>3. CASE UNCHANGED vars
  BY <1>3 DEF vars, IInv, TypeOK, HandlerOwnsSocket, NoSocketLeaked, NoStaleDispatch,
       ListenerStays, RoundInv, StartInv, Registered, Owed
<1> QED BY <1>1, <1>2, <1>3 DEF Next, SelectNothing, Ended

-----------------------------------------------------------------------------
(* The invariant holds in every reachable state. *)
THEOREM Invariance == Spec => []IInv
  BY InitInv, NextInv, PTL DEF Spec

(* The map, the descriptor table and do_select()'s variables keep their types. *)
THEOREM TypeCorrect == Spec => []TypeOK
<1>1. IInv => TypeOK
  BY DEF IInv
<1> QED BY <1>1, Invariance, PTL

(* A registered handler's descriptor is open and is the handler's own socket. *)
THEOREM OwnSocket == Spec => []HandlerOwnsSocket
<1>1. IInv => HandlerOwnsSocket
  BY DEF IInv
<1> QED BY <1>1, Invariance, PTL

(* Barring the two uses of a freed object, no socket is left without a handler. *)
THEOREM NoLeak == Spec => []NoSocketLeaked
<1>1. IInv => NoSocketLeaked
  BY DEF IInv
<1> QED BY <1>1, Invariance, PTL

(* do_select() calls only handlers it polled, whatever its callbacks close or accept. *)
THEOREM NoStale == Spec => []NoStaleDispatch
<1>1. IInv => NoStaleDispatch
  BY DEF IInv
<1> QED BY <1>1, Invariance, PTL

(* Nothing a peer does removes the listener from the map. *)
THEOREM ListenerKept == Spec => []ListenerStays
<1>1. IInv => ListenerStays
  BY DEF IInv
<1> QED BY <1>1, Invariance, PTL

-----------------------------------------------------------------------------
(***************************************************************************)
(* The events of the sockets still to be visited, and those of the visited *)
(* socket from a block on, are covered by what is left of retv.  The first *)
(* alone is NoEventDropped, and is not inductive: a block counts retv down *)
(* for the visited socket.                                                 *)
(***************************************************************************)
Left == Cardinality(ready.r \cap todo) + Cardinality(ready.w \cap todo)
          + Cardinality(ready.e \cap todo)

Has(block) == IF sock \in ready[block] THEN 1 ELSE 0

CountInv ==
  /\ pc = "next" => Left <= retv
  /\ pc = "r" => Left + Has("r") + Has("w") + Has("e") <= retv
  /\ pc = "w" => Left + Has("w") + Has("e") <= retv
  /\ pc \in {"send", "e"} => Left + Has("e") <= retv

(* Counts are natural numbers. *)
LEMMA LeftType ==
  ASSUME TypeOK PROVE Left \in Nat /\ \A block : Has(block) \in {0, 1}
<1>1. ready.r \cap todo \in SUBSET Fd /\ ready.w \cap todo \in SUBSET Fd /\ ready.e \cap todo \in SUBSET Fd
  BY DEF TypeOK
<1>2. /\ Cardinality(ready.r \cap todo) \in Nat /\ Cardinality(ready.w \cap todo) \in Nat
      /\ Cardinality(ready.e \cap todo) \in Nat
  BY <1>1, FdCardinality
<1> QED BY <1>2 DEF Left, Has

(* A socket that is visited is counted once in each fd_set that has it. *)
LEMMA CountWithout ==
  ASSUME NEW S \in SUBSET Fd, NEW T \in SUBSET Fd, NEW fd \in T
  PROVE  Cardinality(S \cap T) = Cardinality(S \cap (T \ {fd})) + (IF fd \in S THEN 1 ELSE 0)
<1>1. IsFiniteSet(S \cap T) /\ IsFiniteSet(S \cap (T \ {fd}))
  BY FS_Subset, LoopAssumption DEF LoopAssumption
<1>2. CASE fd \in S
  <2>1. S \cap (T \ {fd}) = (S \cap T) \ {fd}
    OBVIOUS
  <2>2. Cardinality((S \cap T) \ {fd}) = Cardinality(S \cap T) - 1
    BY <1>1, <1>2, FS_RemoveElement
  <2>3. Cardinality(S \cap T) \in Nat
    BY <1>1, FS_CardinalityType
  <2>4. Cardinality(S \cap (T \ {fd})) = Cardinality(S \cap T) - 1
    BY <2>1, <2>2
  <2>5. \A x \in Nat : \A y : y = x - 1 => x = y + 1
    OBVIOUS
  <2>6. Cardinality(S \cap T) = Cardinality(S \cap (T \ {fd})) + 1
    BY <2>3, <2>4, <2>5
  <2> QED BY <1>2, <2>6
<1>3. CASE fd \notin S
  <2>1. S \cap (T \ {fd}) = S \cap T
    BY <1>3
  <2>2. Cardinality(S \cap T) \in Nat
    BY <1>1, FS_CardinalityType
  <2> QED BY <1>3, <2>1, <2>2
<1> QED BY <1>2, <1>3

(* A step inside a round that leaves the sets alone and counts down for an event only. *)
LEMMA BlockCount ==
  ASSUME TypeOK, CountInv, pc \in Blocks, UNCHANGED <<todo, sock, ready>>,
         retv' \in {retv, retv - 1}, retv' # retv => sock \in ready[pc],
         pc' \in {After[pc], "next", "crashed"} \/ (pc = "w" /\ pc' = "send")
  PROVE  CountInv'
<1>1. Left \in Nat /\ Has("r") \in {0, 1} /\ Has("w") \in {0, 1} /\ Has("e") \in {0, 1} /\ retv \in Nat
  BY LeftType DEF TypeOK
<1>2. Left' = Left /\ Has("r")' = Has("r") /\ Has("w")' = Has("w") /\ Has("e")' = Has("e")
  BY DEF Left, Has
<1>6. retv' \in Int /\ retv' + Has(pc) >= retv
  <2>1. retv' # retv => Has(pc) = 1
    BY DEF Has
  <2>2. Has(pc) \in {0, 1}
    BY LeftType
  <2> QED BY <1>1, <2>1, <2>2
<1>3. CASE pc = "r"
  <2>1. pc' \in {"w", "next", "crashed"} /\ retv' + Has("r") >= retv /\ retv' \in Int
    BY <1>6, <1>1, <1>3 DEF After
  <2>2. Left + Has("r") + Has("w") + Has("e") <= retv
    BY <1>3 DEF CountInv
  <2> QED BY <1>1, <1>2, <2>1, <2>2 DEF CountInv
<1>4. CASE pc = "w"
  <2>1. pc' \in {"send", "e", "next", "crashed"} /\ retv' + Has("w") >= retv /\ retv' \in Int
    BY <1>6, <1>1, <1>4 DEF After
  <2>2. Left + Has("w") + Has("e") <= retv
    BY <1>4 DEF CountInv
  <2> QED BY <1>1, <1>2, <2>1, <2>2 DEF CountInv
<1>5. CASE pc = "e"
  <2>1. pc' \in {"next", "crashed"} /\ retv' + Has("e") >= retv /\ retv' \in Int
    BY <1>6, <1>1, <1>5 DEF After
  <2>2. Left + Has("e") <= retv
    BY <1>5 DEF CountInv
  <2> QED BY <1>1, <1>2, <2>1, <2>2 DEF CountInv
<1> QED BY <1>3, <1>4, <1>5 DEF Blocks

(* Every step keeps the count: select() sets it up, each callback pays for one event. *)
LEMMA NextCount == IInv /\ CountInv /\ [Next]_vars => CountInv'
<1> SUFFICES ASSUME IInv, CountInv, [Next]_vars PROVE CountInv'
  OBVIOUS
<1>0. TypeOK
  BY DEF IInv
<1>1. CASE Startup \/ StartupFails \/ LoopReturns \/ FdSetOverflow \/ RoundEnds
  BY <1>1 DEF Startup, StartupFails, LoopReturns, FdSetOverflow, RoundEnds, CountInv
<1>2. CASE Select
  <2>1. ReadFds \subseteq Registered /\ WriteFds \subseteq Registered /\ ExptFds \subseteq Registered
    <3>1. WriteFds \subseteq InFdSet({g \in Registered : handlers[g] # Listener /\ writable(handlers[g])})
      BY DEF WriteFds
    <3> QED BY <3>1, InFdSetSubset DEF ReadFds, ExptFds
  <2>2. ready'.r \cap todo' = ReadFds /\ ready'.w \cap todo' = WriteFds /\ ready'.e \cap todo' = ExptFds
    BY <1>2, <2>1 DEF Select
  <2>3. Left' = retv'
    BY <1>2, <2>2 DEF Select, Left
  <2>4. Registered \subseteq Fd
    BY DEF Registered
  <2>5. retv' \in Nat
    BY <1>2, <2>1, <2>4, FdCardinality DEF Select
  <2> QED BY <1>2, <2>3, <2>5 DEF Select, CountInv
<1>3. CASE NextSocket
  <2>1. PICK fd \in todo : sock' = fd /\ todo' = todo \ {fd}
    BY <1>3 DEF NextSocket
  <2>2. pc = "next" /\ pc' = "r" /\ ready' = ready /\ retv' = retv
    BY <1>3 DEF NextSocket
  <2>3. /\ ready.r \in SUBSET Fd /\ ready.w \in SUBSET Fd /\ ready.e \in SUBSET Fd
        /\ todo \in SUBSET Fd /\ todo \ {fd} \in SUBSET Fd /\ retv \in Nat
    BY <1>0 DEF TypeOK
  <2>4. \A S \in SUBSET Fd :
          Cardinality(S \cap todo) = Cardinality(S \cap (todo \ {fd})) + (IF fd \in S THEN 1 ELSE 0)
    BY <2>3, CountWithout
  <2>5. \A S \in SUBSET Fd : Cardinality(S \cap (todo \ {fd})) \in Nat
    BY FdCardinality
  <2> DEFINE N(S) == Cardinality(S \cap (todo \ {fd}))
             H(S) == IF fd \in S THEN 1 ELSE 0
  <2>8. \A S \in SUBSET Fd : Cardinality(S \cap todo) = N(S) + H(S) /\ N(S) \in Nat /\ H(S) \in Nat
    BY <2>4, <2>5
  <2>9. /\ Left' = N(ready.r) + N(ready.w) + N(ready.e)
        /\ Has("r")' = H(ready.r) /\ Has("w")' = H(ready.w) /\ Has("e")' = H(ready.e)
    BY <2>1, <2>2 DEF Left, Has
  <2> HIDE DEF N, H
  <2>10. Left = (N(ready.r) + H(ready.r)) + (N(ready.w) + H(ready.w)) + (N(ready.e) + H(ready.e))
    BY <2>3, <2>8 DEF Left
  <2>11. /\ N(ready.r) \in Nat /\ N(ready.w) \in Nat /\ N(ready.e) \in Nat
         /\ H(ready.r) \in Nat /\ H(ready.w) \in Nat /\ H(ready.e) \in Nat
    BY <2>3, <2>8
  <2>6. Left = Left' + Has("r")' + Has("w")' + Has("e")'
    BY <2>9, <2>10, <2>11
  <2>7. Left <= retv
    BY <2>2 DEF CountInv
  <2> QED BY <2>2, <2>6, <2>7 DEF CountInv
<1>4. CASE HandlerGone \/ NoEvent
  <2>1. /\ pc \in Blocks /\ UNCHANGED <<todo, sock, ready>> /\ retv' = retv
        /\ pc' \in {After[pc], "next", "crashed"}
    BY <1>4 DEF HandlerGone, NoEvent, round, Blocks
  <2> QED BY <1>0, <2>1, BlockCount
<1>5. CASE Visit
  <2>1. /\ pc \in Blocks /\ UNCHANGED <<todo, sock, ready>> /\ retv' = retv - 1 /\ sock \in ready[pc]
    BY <1>5 DEF Visit, Accept, AcceptFails, ReadData, ReadEvent, ReadEnds, Write, WriteEvent,
      WriteFails, Expt, Blocks, Event
  <2>2. pc' \in {After[pc], "crashed"} \/ (pc = "w" /\ pc' = "send")
    BY <1>5 DEF Visit, Accept, AcceptFails, ReadData, ReadEvent, ReadEnds, Write, WriteEvent, SendAll,
      WriteFails, Expt, Event, Continue, Construct, After
  <2> QED BY <1>0, <2>1, <2>2, BlockCount
<1>7. CASE SendMore \/ SendAborted
  <2>1. pc = "send" /\ pc' \in {"send", "e", "crashed"} /\ UNCHANGED round
    BY <1>7 DEF SendMore, SendAborted, SendAll
  <2> QED BY <2>1 DEF CountInv, Left, Has, round
<1>6. CASE UNCHANGED <<pc, round>>
  BY <1>6 DEF CountInv, Left, Has, round
<1> QED BY <1>1, <1>2, <1>3, <1>4, <1>5, <1>6, <1>7 DEF Next, Main, Dispatch, SelectNothing, Ended,
      Environment, vars, round

(* The count holds in every reachable state. *)
THEOREM CountInvariance == Spec => []CountInv
<1>1. Init => CountInv
  BY DEF Init, CountInv
<1> QED BY <1>1, NextCount, Invariance, PTL DEF Spec

(* do_select() never stops dispatching with an event of a polled socket undelivered. *)
THEOREM NothingDropped == Spec => []NoEventDropped
<1>1. IInv /\ CountInv => NoEventDropped
  <2> SUFFICES ASSUME IInv, CountInv, pc \in {"next", "r", "w", "send", "e"} PROVE Left <= retv
    BY DEF NoEventDropped, Left
  <2>1. Left \in Nat /\ Has("r") \in {0, 1} /\ Has("w") \in {0, 1} /\ Has("e") \in {0, 1} /\ retv \in Nat
    BY LeftType DEF IInv, TypeOK
  <2> QED BY <2>1 DEF CountInv
<1> QED BY <1>1, Invariance, CountInvariance, PTL

-----------------------------------------------------------------------------
(***************************************************************************)
(* SelectLoop implements Reactor, for every set of descriptors and peers,  *)
(* both platforms and all faults: the refinement that ImplementsReactor    *)
(* states, and the run checks on a small instance.                         *)
(***************************************************************************)

(***************************************************************************)
(* A peer is one connection: it is queued for accept() or has a socket,    *)
(* once, and a peer that has neither may be one that has not connected.    *)
(***************************************************************************)
OneConnection ==
  /\ \A i, j \in DOMAIN backlog : backlog[i] = backlog[j] => i = j
  /\ \A fd, g \in Fd : ksock[fd] = ksock[g] /\ ksock[fd] \in Client => fd = g
  /\ \A i \in DOMAIN backlog : \A fd \in Fd : ksock[fd] # backlog[i]
  /\ \A i \in DOMAIN backlog : peer[backlog[i]].state # "new"
  /\ \A fd \in Fd : ksock[fd] \in Client => peer[ksock[fd]].state # "new"

(* What recv() has to return for the peer c: bytes, or the end of the stream. *)
HasInput(c) == peer[c].inbox > 0 \/ peer[c].state \in {"fin", "rst"}

(* The sockets whose read event is still to be delivered. *)
Unread == {fd \in ready.r : fd \in todo \/ (pc = "r" /\ fd = sock)}

(***************************************************************************)
(* What select() saw still holds when the event is delivered: nobody else  *)
(* reads a socket's bytes, and urgent data stays.  So recv() does not meet *)
(* EWOULDBLOCK, for which handle_read() would close a healthy connection.  *)
(***************************************************************************)
ReadyInv ==
  /\ \A fd \in ready.e : polled[fd] \in Client => peer[polled[fd]].oob
  /\ \A fd \in Unread : polled[fd] \in Client => HasInput(polled[fd])

RInv == IInv /\ OneConnection /\ ReadyInv

-----------------------------------------------------------------------------
(* Nobody has connected, nothing is polled. *)
LEMMA ReactInit == Init => OneConnection /\ ReadyInv
<1> SUFFICES ASSUME Init PROVE OneConnection /\ ReadyInv
  OBVIOUS
<1>1. /\ DOMAIN backlog = {} /\ \A fd \in Fd : ksock[fd] \notin Client
      /\ ready.e = {} /\ ready.r = {}
  BY LoopAssumption DEF Init, PeersInit, NoHandlers, NoFds, LoopAssumption
<1>2. OneConnection
  BY <1>1 DEF OneConnection
<1>3. ReadyInv
  BY <1>1 DEF ReadyInv, Unread
<1> QED BY <1>2, <1>3

(* A step of the peer c: it is connected then, keeps its urgent data, and has input if it had. *)
LEMMA PeerKeeps ==
  ASSUME TypeOK, NEW c \in Client, Connect(c) \/ PeerActs(c)
  PROVE  /\ peer'[c].state # "new"
         /\ \A d \in Client : /\ peer[d].state # "new" => peer'[d].state # "new"
                              /\ peer[d].oob => peer'[d].oob
                              /\ HasInput(d) => HasInput(d)'
<1>1. peer \in [Client -> Peer] /\ peer[c] \in Peer
  BY DEF TypeOK
<1>2. PICK p : peer' = [peer EXCEPT ![c] = p] /\ p.state # "new" /\ (peer[c].oob => p.oob)
               /\ (peer[c].inbox > 0 => p.inbox > 0 \/ p.state = "rst")
               /\ (peer[c].state \in {"fin", "rst"} => p.state \in {"fin", "rst"})
  <2>1. CASE Connect(c)
    <3> WITNESS [peer[c] EXCEPT !.state = "up"]
    <3> QED BY <1>1, <2>1 DEF Connect, Peer
  <2>2. CASE PeerSend(c)
    <3> WITNESS [peer[c] EXCEPT !.inbox = @ + 1, !.due = @ + 1]
    <3> QED BY <1>1, <2>2 DEF PeerSend, Peer
  <2>3. CASE PeerUrgent(c)
    <3> WITNESS [peer[c] EXCEPT !.oob = TRUE]
    <3> QED BY <1>1, <2>3 DEF PeerUrgent, Peer
  <2>4. CASE PeerCloses(c)
    <3> WITNESS [peer[c] EXCEPT !.state = "fin"]
    <3> QED BY <1>1, <2>4 DEF PeerCloses, Peer
  <2>5. CASE PeerResets(c)
    <3> WITNESS [peer[c] EXCEPT !.state = "rst", !.inbox = 0]
    <3> QED BY <1>1, <2>5 DEF PeerResets, Peer
  <2>6. CASE PeerReads(c)
    <3> WITNESS [peer[c] EXCEPT !.unread = @ - 1, !.due = @ - 1]
    <3> QED BY <1>1, <2>6 DEF PeerReads, Peer
  <2> QED BY <2>1, <2>2, <2>3, <2>4, <2>5, <2>6 DEF PeerActs
<1>3. \A d \in Client : peer'[d] = IF d = c THEN p ELSE peer[d]
  BY <1>1, <1>2
<1> QED BY <1>2, <1>3 DEF HasInput

(* What a peer's step does to the queue: nothing, it joins, or it leaves. *)
LEMMA QueueKeeps ==
  ASSUME TypeOK, NEW c \in Client, Connect(c) \/ PeerActs(c)
  PROVE  /\ backlog' \in Seq(Client)
         /\ \A i \in DOMAIN backlog' : \/ backlog'[i] = c /\ Connect(c)
                                       \/ \E j \in DOMAIN backlog : backlog'[i] = backlog[j]
         /\ (\A i, j \in DOMAIN backlog : backlog[i] = backlog[j] => i = j)
              /\ (Connect(c) => \A i \in DOMAIN backlog : backlog[i] # c)
            => \A i, j \in DOMAIN backlog' : backlog'[i] = backlog'[j] => i = j
<1>0. backlog \in Seq(Client) /\ DOMAIN backlog = 1 .. Len(backlog) /\ Len(backlog) \in Nat
  BY DEF TypeOK
<1>1. CASE UNCHANGED backlog
  BY <1>0, <1>1
<1>2. CASE Connect(c)
  <2>1. /\ backlog' \in Seq(Client) /\ DOMAIN backlog' = 1 .. (Len(backlog) + 1)
        /\ \A i \in 1 .. Len(backlog) : backlog'[i] = backlog[i]
        /\ backlog'[Len(backlog) + 1] = c
    BY <1>0, <1>2 DEF Connect
  <2> QED BY <1>0, <1>2, <2>1
<1>3. ASSUME NEW i \in DOMAIN backlog, ~Connect(c),
             backlog' = SubSeq(backlog, 1, i - 1) \o SubSeq(backlog, i + 1, Len(backlog))
      PROVE  /\ backlog' \in Seq(Client) /\ DOMAIN backlog' = 1 .. (Len(backlog) - 1)
             /\ \A j \in 1 .. (Len(backlog) - 1) :
                  backlog'[j] = IF j < i THEN backlog[j] ELSE backlog[j + 1]
  <2> DEFINE s == SubSeq(backlog, 1, i - 1)
             t == SubSeq(backlog, i + 1, Len(backlog))
  <2>1. /\ s \in Seq(Client) /\ Len(s) = i - 1 /\ \A j \in 1 .. (i - 1) : s[j] = backlog[j]
    BY <1>0
  <2>2. /\ t \in Seq(Client) /\ Len(t) = Len(backlog) - i
        /\ \A j \in 1 .. (Len(backlog) - i) : t[j] = backlog[j + i]
    BY <1>0
  <2> HIDE DEF s, t
  <2>3. backlog' = s \o t
    BY <1>3 DEF s, t
  <2>4. backlog' \in Seq(Client) /\ Len(backlog') = Len(backlog) - 1
    <3>1. backlog' \in Seq(Client) /\ Len(backlog') = Len(s) + Len(t)
      BY <2>1, <2>2, <2>3, ConcatProperties
    <3>2. i \in Nat
      BY <1>0
    <3> QED BY <1>0, <2>1, <2>2, <3>1, <3>2
  <2>5. ASSUME NEW j \in 1 .. (Len(backlog) - 1)
        PROVE  backlog'[j] = IF j < i THEN backlog[j] ELSE backlog[j + 1]
    <3>1. backlog'[j] = IF j <= Len(s) THEN s[j] ELSE t[j - Len(s)]
      BY <1>0, <2>1, <2>2, <2>3
    <3>2. CASE j < i
      BY <1>0, <2>1, <3>1, <3>2
    <3>3. CASE j >= i
      <4>1. j - (i - 1) \in 1 .. (Len(backlog) - i) /\ (j - (i - 1)) + i = j + 1
        BY <1>0, <3>3
      <4> QED BY <1>0, <2>1, <2>2, <3>1, <3>3, <4>1
    <3> QED BY <1>0, <3>2, <3>3
  <2> QED BY <2>4, <2>5
<1>4. CASE ~Connect(c) /\ \E i \in DOMAIN backlog :
             backlog' = SubSeq(backlog, 1, i - 1) \o SubSeq(backlog, i + 1, Len(backlog))
  <2>1. PICK i \in DOMAIN backlog :
             backlog' = SubSeq(backlog, 1, i - 1) \o SubSeq(backlog, i + 1, Len(backlog))
    BY <1>4
  <2>2. /\ backlog' \in Seq(Client) /\ DOMAIN backlog' = 1 .. (Len(backlog) - 1)
        /\ \A j \in 1 .. (Len(backlog) - 1) :
             backlog'[j] = IF j < i THEN backlog[j] ELSE backlog[j + 1]
    BY <1>3, <1>4, <2>1
  <2>3. \A j \in DOMAIN backlog' : (IF j < i THEN j ELSE j + 1) \in DOMAIN backlog
    BY <1>0, <2>2
  <2>4. \A j, k \in DOMAIN backlog' :
          (IF j < i THEN j ELSE j + 1) = (IF k < i THEN k ELSE k + 1) => j = k
    BY <1>0, <2>2
  <2>5. \A j \in DOMAIN backlog' : backlog'[j] = backlog[IF j < i THEN j ELSE j + 1]
    BY <2>2
  <2> DEFINE g(j) == IF j < i THEN j ELSE j + 1
  <2>6. \A j \in DOMAIN backlog' : g(j) \in DOMAIN backlog /\ backlog'[j] = backlog[g(j)]
    BY <2>3, <2>5
  <2>7. \A j, k \in DOMAIN backlog' : g(j) = g(k) => j = k
    BY <2>4
  <2> HIDE DEF g
  <2>8. \A j \in DOMAIN backlog' : \E k \in DOMAIN backlog : backlog'[j] = backlog[k]
    BY <2>6
  <2>9. ASSUME \A j, k \in DOMAIN backlog : backlog[j] = backlog[k] => j = k,
               NEW j \in DOMAIN backlog', NEW k \in DOMAIN backlog', backlog'[j] = backlog'[k]
        PROVE  j = k
    BY <2>6, <2>7, <2>9
  <2> QED BY <2>2, <2>8, <2>9
<1> QED BY <1>1, <1>2, <1>4 DEF PeerActs, PeerSend, PeerUrgent, PeerCloses, PeerResets, PeerReads

(* No other descriptor belongs to the peer of a registered handler. *)
LEMMA Alone ==
  ASSUME RInv, NEW fd \in Fd, handlers[fd] \in Client
  PROVE  /\ ksock[fd] = handlers[fd]
         /\ \A g \in Fd : handlers[g] = handlers[fd] => g = fd
         /\ \A g \in Fd : ksock[g] = handlers[fd] => g = fd
<1>1. None \notin Client
  BY LoopAssumption DEF LoopAssumption
<1>2. \A g \in Fd : handlers[g] # None => ksock[g] = handlers[g]
  BY DEF RInv, IInv, HandlerOwnsSocket, Registered
<1> QED BY <1>1, <1>2 DEF RInv, OneConnection

(* Sockets are closed or stay, no peer joins or leaves the queue. *)
LEMMA OneShrinks ==
  ASSUME TypeOK, OneConnection, backlog' = backlog,
         \A fd \in Fd : ksock'[fd] \in {ksock[fd], None, Listener},
         \A d \in Client : peer[d].state # "new" => peer'[d].state # "new"
  PROVE  OneConnection'
<1>1. Listener \notin Client /\ None \notin Client
  BY LoopAssumption DEF LoopAssumption
<1>2. backlog \in Seq(Client)
  BY DEF TypeOK
<1>3. \A i \in DOMAIN backlog : backlog[i] \in Client
  BY <1>2
<1>4. \A fd \in Fd : ksock'[fd] \in Client => ksock'[fd] = ksock[fd]
  BY <1>1
<1> QED BY <1>1, <1>3, <1>4 DEF OneConnection

(* No round begins, no read event is added, and what select() saw still holds. *)
LEMMA ReadyKept ==
  ASSUME ReadyInv, UNCHANGED <<ready, polled>>, Unread' \subseteq Unread,
         \A d \in Client : peer[d].oob => peer'[d].oob,
         \A fd \in Unread' : polled[fd] \in Client /\ HasInput(polled[fd]) => HasInput(polled[fd])'
  PROVE  ReadyInv'
<1>1. \A fd \in ready.e : polled[fd] \in Client => peer'[polled[fd]].oob
  BY DEF ReadyInv
<1>2. ASSUME NEW fd \in Unread', polled[fd] \in Client PROVE HasInput(polled[fd])'
  BY <1>2 DEF ReadyInv
<1> QED BY <1>1, <1>2 DEF ReadyInv, HasInput

(* What a peer does. *)
LEMMA EnvironmentReact ==
  ASSUME RInv, Environment PROVE OneConnection' /\ ReadyInv'
<1>0. TypeOK /\ OneConnection /\ ReadyInv
  BY DEF RInv, IInv
<1>1. PICK c \in Client : Connect(c) \/ PeerActs(c)
  BY DEF Environment
<1>2. /\ UNCHANGED <<handlers, ksock, pc, todo, sock, ready, polled>>
      /\ Connect(c) => peer[c].state = "new"
  BY DEF Environment, table, round, Connect
<1>3. /\ peer'[c].state # "new"
      /\ \A d \in Client : /\ peer[d].state # "new" => peer'[d].state # "new"
                           /\ peer[d].oob => peer'[d].oob
                           /\ HasInput(d) => HasInput(d)'
  BY <1>0, <1>1, PeerKeeps
<1>4. OneConnection'
  <2>1. /\ backlog' \in Seq(Client) /\ backlog \in Seq(Client)
        /\ \A i \in DOMAIN backlog : backlog[i] \in Client
    BY <1>0, <1>1, QueueKeeps DEF TypeOK
  <2>2. Connect(c) => \A i \in DOMAIN backlog : backlog[i] # c
    BY <1>0, <1>2 DEF OneConnection
  <2>3. \A i \in DOMAIN backlog' : \/ backlog'[i] = c /\ Connect(c)
                                   \/ \E j \in DOMAIN backlog : backlog'[i] = backlog[j]
    BY <1>0, <1>1, QueueKeeps
  <2>4. \A i, j \in DOMAIN backlog' : backlog'[i] = backlog'[j] => i = j
    <3>1. \A i, j \in DOMAIN backlog : backlog[i] = backlog[j] => i = j
      BY <1>0 DEF OneConnection
    <3> QED BY <1>0, <1>1, <2>2, <3>1, QueueKeeps
  <2>5. Connect(c) => \A fd \in Fd : ksock[fd] # c
    BY <1>0, <1>2 DEF OneConnection
  <2>6. ASSUME NEW i \in DOMAIN backlog'
        PROVE  peer'[backlog'[i]].state # "new" /\ \A fd \in Fd : ksock[fd] # backlog'[i]
    BY <1>0, <1>3, <2>1, <2>3, <2>5 DEF OneConnection
  <2>7. \A fd \in Fd : ksock[fd] \in Client => peer'[ksock[fd]].state # "new"
    BY <1>0, <1>3 DEF OneConnection
  <2>8. \A fd, g \in Fd : ksock[fd] = ksock[g] /\ ksock[fd] \in Client => fd = g
    BY <1>0 DEF OneConnection
  <2> QED BY <1>2, <2>4, <2>6, <2>7, <2>8 DEF OneConnection
<1>5. ReadyInv'
  <2>1. Unread' = Unread
    BY <1>2 DEF Unread
  <2> QED BY <1>0, <1>2, <1>3, <2>1, ReadyKept
<1> QED BY <1>4, <1>5

(* accept() moves the first of the queue to a descriptor that was free. *)
LEMMA AcceptReact == ASSUME RInv, Accept PROVE OneConnection' /\ ReadyInv'
<1>0. TypeOK /\ OneConnection /\ ReadyInv /\ backlog \in Seq(Client) /\ backlog # <<>>
  BY DEF RInv, IInv, TypeOK, Accept
<1>1. /\ backlog' = Tail(backlog) /\ UNCHANGED <<peer, todo, sock, ready, polled>>
      /\ pc = "r" /\ pc' # "r"
  BY DEF Accept, Event, Construct
<1>2. PICK fd \in Fd : ksock[fd] = None /\ ksock' = [ksock EXCEPT ![fd] = Head(backlog)]
  BY DEF Accept, Construct, add_channel
<1>3. /\ Len(backlog) \in Nat /\ Len(backlog) > 0 /\ DOMAIN backlog = 1 .. Len(backlog)
      /\ DOMAIN backlog' = 1 .. (Len(backlog) - 1) /\ Head(backlog) = backlog[1]
      /\ \A i \in DOMAIN backlog' : backlog'[i] = backlog[i + 1]
      /\ \A i \in DOMAIN backlog : backlog[i] \in Client
  BY <1>0, <1>1
<1>4. /\ 1 \in DOMAIN backlog
      /\ \A i \in DOMAIN backlog' : i + 1 \in DOMAIN backlog /\ i + 1 # 1
      /\ \A i, j \in DOMAIN backlog' : i + 1 = j + 1 => i = j
  BY <1>3
<1>5. OneConnection'
  <2>1. \A i, j \in DOMAIN backlog' : backlog'[i] = backlog'[j] => i = j
    BY <1>0, <1>3, <1>4 DEF OneConnection
  <2>2. \A g \in Fd : ksock'[g] = IF g = fd THEN backlog[1] ELSE ksock[g]
    BY <1>0, <1>2, <1>3 DEF TypeOK
  <2>3. \A f, g \in Fd : ksock'[f] = ksock'[g] /\ ksock'[f] \in Client => f = g
    BY <1>0, <1>4, <2>2 DEF OneConnection
  <2>4. \A i \in DOMAIN backlog' : \A g \in Fd : ksock'[g] # backlog'[i]
    BY <1>0, <1>3, <1>4, <2>2 DEF OneConnection
  <2>5. \A i \in DOMAIN backlog' : peer'[backlog'[i]].state # "new"
    BY <1>0, <1>1, <1>3, <1>4 DEF OneConnection
  <2>6. \A g \in Fd : ksock'[g] \in Client => peer'[ksock'[g]].state # "new"
    BY <1>0, <1>1, <1>4, <2>2 DEF OneConnection
  <2> QED BY <2>1, <2>3, <2>4, <2>5, <2>6 DEF OneConnection
<1>6. ReadyInv'
  <2>1. Unread' \subseteq Unread
    BY <1>1 DEF Unread
  <2>2. \A f \in Unread' : polled[f] \in Client /\ HasInput(polled[f]) => HasInput(polled[f])'
    BY <1>1 DEF HasInput
  <2> QED BY <1>0, <1>1, <2>1, <2>2, ReadyKept
<1> QED BY <1>5, <1>6

(* recv() of bytes: only the read event that is being delivered was about them. *)
LEMMA ReadReact == ASSUME RInv, ReadData PROVE OneConnection' /\ ReadyInv'
<1>0. /\ TypeOK /\ OneConnection /\ ReadyInv /\ sock \in Fd /\ sock \notin todo /\ todo \subseteq Fd
      /\ peer \in [Client -> Peer]
  BY DEF RInv, IInv, TypeOK, RoundInv, Inside, Blocks, ReadData, ReadEvent, Event
<1>1. /\ UNCHANGED <<handlers, ksock, backlog, todo, sock, ready, polled>>
      /\ pc = "r" /\ pc' = "w" /\ handlers[sock] \in Client /\ ksock[sock] = handlers[sock]
  BY <1>0, Alone DEF ReadData, ReadEvent, Event, Continue, After
<1>2. PICK c \in Client : c = ksock[sock]
  BY <1>1
<1>3. PICK n \in 1 .. peer[c].inbox : peer' = [peer EXCEPT ![c].inbox = @ - n]
  BY <1>2 DEF ReadData
<1>4. \A d \in Client : /\ d # c => peer'[d] = peer[d]
                        /\ peer'[d].state = peer[d].state /\ peer'[d].oob = peer[d].oob
  BY <1>0, <1>3 DEF Peer
<1>5. OneConnection'
  BY <1>0, <1>1, <1>4, OneShrinks
<1>6. ReadyInv'
  <2>1. Unread' \subseteq Unread /\ Unread' \subseteq todo
    BY <1>1 DEF Unread
  <2>2. ASSUME NEW fd \in Unread', polled[fd] \in Client, HasInput(polled[fd])
        PROVE  HasInput(polled[fd])'
    <3>1. fd \in Fd /\ fd # sock /\ handlers[fd] = polled[fd]
      BY <1>0, <2>1 DEF RInv, IInv, NoStaleDispatch
    <3>2. polled[fd] # c
      BY <1>0, <1>1, <1>2, <2>2, <3>1, Alone
    <3> QED BY <1>1, <1>4, <2>2, <3>2 DEF HasInput
  <2> QED BY <1>0, <1>1, <1>4, <2>1, <2>2, ReadyKept
<1> QED BY <1>5, <1>6

(* select() reports what is so: the ready sockets of peers have input or urgent data. *)
LEMMA SelectReact == ASSUME RInv, Select PROVE OneConnection' /\ ReadyInv'
<1>0. TypeOK /\ OneConnection
  BY DEF RInv, IInv
<1>1. /\ UNCHANGED <<handlers, ksock, backlog, peer>> /\ polled' = handlers
      /\ ready'.r = ReadFds /\ ready'.e = ExptFds
  BY DEF Select, env, table
<1>2. OneConnection'
  BY <1>0, <1>1, OneShrinks
<1>3. Listener \notin Client
  BY LoopAssumption DEF LoopAssumption
<1>4. \A fd \in ReadFds \cup ExptFds : ksock[fd] = handlers[fd]
  BY InFdSetSubset DEF ReadFds, ExptFds, RInv, IInv, HandlerOwnsSocket
<1>5. \A fd \in ExptFds : handlers[fd] \in Client => peer[handlers[fd]].oob
  BY <1>4 DEF ExptFds, ExptReady
<1>6. \A fd \in ReadFds : handlers[fd] \in Client => HasInput(handlers[fd])
  BY <1>3, <1>4 DEF ReadFds, ReadReady, HasInput
<1>7. Unread' \subseteq ReadFds
  BY <1>1 DEF Unread
<1> QED BY <1>1, <1>2, <1>5, <1>6, <1>7 DEF ReadyInv, HasInput

(* The thread waits in send() on the socket of the peer whose handler it runs. *)
LEMMA SendingPeer ==
  ASSUME IInv, pc = "send"
  PROVE  sock \in Fd /\ handlers[sock] \in Client /\ ksock[sock] = handlers[sock]
  BY LoopAssumption DEF IInv, RoundInv, TypeOK, HandlerOwnsSocket, Registered, LoopAssumption

(* A step of the thread. *)
LEMMA MainReact == ASSUME RInv, Main PROVE OneConnection' /\ ReadyInv'
<1>0. /\ TypeOK /\ OneConnection /\ ReadyInv /\ None \notin Client
  BY LoopAssumption DEF RInv, IInv, LoopAssumption
<1>1. ASSUME UNCHANGED <<backlog, peer, ready, polled>>, Unread' \subseteq Unread,
             \A fd \in Fd : ksock'[fd] \in {ksock[fd], None, Listener}
      PROVE  OneConnection' /\ ReadyInv'
  <2>1. OneConnection'
    BY <1>0, <1>1, OneShrinks
  <2>2. \A f \in Unread' : polled[f] \in Client /\ HasInput(polled[f]) => HasInput(polled[f])'
    BY <1>1 DEF HasInput
  <2> QED BY <1>0, <1>1, <2>1, <2>2, ReadyKept
<1>2. CASE Startup
  <2>1. /\ UNCHANGED <<backlog, peer, ready, polled>> /\ Unread' \subseteq Unread
    BY <1>2 DEF Startup, round, Unread
  <2>2. \A fd \in Fd : ksock'[fd] \in {ksock[fd], None, Listener}
    BY <1>0, <1>2 DEF Startup, create_socket, add_channel, TypeOK
  <2> QED BY <1>1, <2>1, <2>2
<1>3. CASE StartupFails \/ LoopReturns \/ FdSetOverflow \/ HandlerGone \/ NoEvent
  <2>1. /\ UNCHANGED <<ksock, backlog, peer, ready, polled>> /\ Unread' \subseteq Unread
    BY <1>3 DEF StartupFails, LoopReturns, FdSetOverflow, HandlerGone, NoEvent, env, table, round, Unread, After
  <2> QED BY <1>1, <2>1
<1>4. CASE NextSocket
  <2>1. /\ UNCHANGED <<ksock, backlog, peer, ready, polled>> /\ Unread' \subseteq Unread
    BY <1>4 DEF NextSocket, env, table, Unread
  <2> QED BY <1>1, <2>1
<1>5. CASE RoundEnds
  <2>1. UNCHANGED <<ksock, backlog, peer>> /\ ready'.e = {} /\ ready'.r = {}
    BY <1>5 DEF RoundEnds, env, table, NoFds
  <2>2. OneConnection'
    BY <1>0, <2>1, OneShrinks
  <2> QED BY <2>1, <2>2 DEF ReadyInv, Unread
<1>6. CASE AcceptFails
  <2>1. /\ UNCHANGED <<ksock, backlog, peer, ready, polled>> /\ Unread' \subseteq Unread
    BY <1>6 DEF AcceptFails, Event, Continue, After, table, Unread
  <2> QED BY <1>1, <2>1
<1>8. CASE Write \/ SendMore
  <2>1. ksock[sock] \in Client /\ SendAll(ksock[sock])
    BY <1>8, SendingPeer DEF Write, SendMore, RInv
  <2>2. /\ UNCHANGED <<ksock, backlog, todo, sock, ready, polled>> /\ pc' # "r"
    BY <1>8, <2>1 DEF Write, WriteEvent, SendMore, Event, round, SendAll
  <2>3. \A d \in Client : /\ peer'[d].state = peer[d].state /\ peer'[d].oob = peer[d].oob
                         /\ peer'[d].inbox = peer[d].inbox
    BY <1>0, <2>1, SendType DEF RInv, IInv
  <2>4. Unread' \subseteq Unread
    BY <2>2 DEF Unread
  <2>5. \A f \in Unread' : polled[f] \in Client /\ HasInput(polled[f]) => HasInput(polled[f])'
    BY <2>2, <2>3 DEF HasInput
  <2>6. OneConnection'
    BY <1>0, <2>2, <2>3, OneShrinks
  <2> QED BY <1>0, <2>2, <2>3, <2>4, <2>5, <2>6, ReadyKept
<1>7. CASE ReadEnds \/ WriteFails \/ Expt \/ SendAborted
  <2>1. UNCHANGED <<backlog, peer, ready, polled>> /\ close(sock)
    BY <1>7 DEF ReadEnds, ReadEvent, WriteFails, WriteEvent, Expt, SendAborted, Event, env, round
  <2>2. Unread' \subseteq Unread
    BY <1>7 DEF ReadEnds, ReadEvent, WriteFails, WriteEvent, Expt, SendAborted, Event, Continue, After,
       Unread, env, round
  <2>3. \A fd \in Fd : ksock'[fd] \in {ksock[fd], None, Listener}
    BY <1>0, <2>1 DEF close, TypeOK
  <2> QED BY <1>1, <2>1, <2>2, <2>3
<1> QED BY <1>2, <1>3, <1>4, <1>5, <1>6, <1>7, <1>8, AcceptReact, ReadReact, SelectReact
       DEF Main, Dispatch, Visit

(* Every step keeps what the refinement rests on. *)
LEMMA NextReact == RInv /\ [Next]_vars => RInv'
<1> SUFFICES ASSUME RInv, [Next]_vars PROVE RInv'
  OBVIOUS
<1>1. IInv'
  BY NextInv DEF RInv
<1>2. OneConnection' /\ ReadyInv'
  <2>1. CASE UNCHANGED vars
    BY <2>1 DEF vars, RInv, OneConnection, ReadyInv, Unread, HasInput
  <2> QED BY <2>1, EnvironmentReact, MainReact DEF Next, SelectNothing, Ended
<1> QED BY <1>1, <1>2 DEF RInv

-----------------------------------------------------------------------------
(* The connections that have a handler, as the refinement maps them. *)
Live == {c \in Client : Served(c)}

(* A step that leaves the map and what the peers and the queues hold alone is no step of Reactor. *)
LEMMA Stutters ==
  ASSUME UNCHANGED <<handlers, listening, backlog, peer, resp>>
  PROVE  UNCHANGED ReactorView!vars
<1>1. {c \in Client : Served(c)}' = {c \in Client : Served(c)}
  BY DEF Served, Registered
<1> QED BY <1>1 DEF ReactorView!vars

(* close() of a peer's handler takes that peer, and no other, out of the live ones. *)
LEMMA CloseLive ==
  ASSUME RInv, sock \in Fd, handlers[sock] \in Client, close(sock)
  PROVE  /\ handlers[sock] \in Live /\ Live' = Live \ {handlers[sock]}
         /\ resp' = [resp EXCEPT ![handlers[sock]] = 0]
<1>0. /\ handlers \in [Fd -> Handler \cup {None}] /\ None \notin Client
  BY LoopAssumption DEF RInv, IInv, TypeOK, LoopAssumption
<1>1. /\ handlers' = [handlers EXCEPT ![sock] = None]
      /\ resp' = [resp EXCEPT ![handlers[sock]] = 0]
  BY DEF close
<1>2. \A g \in Fd : handlers[g] = handlers[sock] => g = sock
  BY Alone
<1>3. \A c \in Client : Served(c) <=> \E g \in Fd : handlers[g] = c
  BY <1>0 DEF Served, Registered
<1>4. \A c \in Client : Served(c)' <=> \E g \in Fd : handlers'[g] = c
  BY <1>0 DEF Served, Registered
<1>5. \A c \in Client : Served(c)' <=> Served(c) /\ c # handlers[sock]
  BY <1>0, <1>1, <1>2, <1>3, <1>4
<1> QED BY <1>1, <1>3, <1>5 DEF Live

(* A callback that closes is the Reactor's Close of an ended connection. *)
LEMMA CloseRefines ==
  ASSUME RInv, sock \in Fd, handlers[sock] \in Client, close(sock),
         peer[handlers[sock]].state \in {"fin", "rst"} \/ peer[handlers[sock]].oob,
         UNCHANGED <<listening, backlog, peer>>
  PROVE  ReactorView!Next
<1>1. PICK c \in Client : c = handlers[sock]
  OBVIOUS
<1>2. c \in Live /\ Live' = Live \ {c} /\ resp' = [resp EXCEPT ![c] = 0]
  BY <1>1, CloseLive
<1>3. ReactorView!Ended(c)
  BY <1>1 DEF ReactorView!Ended
<1>4. ReactorView!Close(c)
  BY <1>2, <1>3 DEF ReactorView!Close, Live
<1> QED BY <1>4 DEF ReactorView!Next

(* accept() is the Reactor's Accept, of a connection that has no handler yet. *)
LEMMA AcceptRefines == ASSUME RInv, Accept PROVE ReactorView!Next
<1>0. /\ handlers \in [Fd -> Handler \cup {None}] /\ None \notin Client
      /\ backlog \in Seq(Client) /\ backlog # <<>>
  BY LoopAssumption DEF RInv, IInv, TypeOK, LoopAssumption, Accept
<1>1. PICK c \in Client : c = Head(backlog) /\ 1 \in DOMAIN backlog /\ c = backlog[1]
  BY <1>0
<1>2. PICK fd \in Fd :
        /\ ksock[fd] = None
        /\ \/ handlers' = [handlers EXCEPT ![fd] = c]
           \/ "peername" \in Faults /\ handlers' = [handlers EXCEPT ![fd] = None]
  BY <1>1 DEF Accept, Construct, add_channel
<1>3. handlers[fd] = None
  BY <1>2 DEF RInv, IInv, HandlerOwnsSocket, Registered
<1>4. \A g \in Fd : handlers[g] # c
  BY <1>0, <1>1 DEF RInv, OneConnection, IInv, HandlerOwnsSocket, Registered
<1>5. \A d \in Client : Served(d) <=> \E g \in Fd : handlers[g] = d
  BY <1>0 DEF Served, Registered
<1>6. \A d \in Client : Served(d)' <=> \E g \in Fd : handlers'[g] = d
  BY <1>0 DEF Served, Registered
<1>7. c \notin Live
  BY <1>4, <1>5 DEF Live
<1>8. Live' = Live \cup {c} \/ ("peername" \in Faults /\ Live' = Live)
  <2>1. CASE handlers' = [handlers EXCEPT ![fd] = c]
    <3>1. \A d \in Client : Served(d)' <=> Served(d) \/ d = c
      BY <1>0, <1>3, <1>5, <1>6, <2>1
    <3> QED BY <3>1 DEF Live
  <2>2. CASE "peername" \in Faults /\ handlers' = [handlers EXCEPT ![fd] = None]
    <3>1. handlers' = handlers
      BY <1>0, <1>3, <2>2
    <3> QED BY <1>5, <1>6, <2>2, <3>1 DEF Live
  <2> QED BY <1>2, <2>1, <2>2
<1>9. backlog' = Tail(backlog) /\ UNCHANGED <<listening, peer, resp>>
  BY DEF Accept, Event
<1>10. ReactorView!Accept
  BY <1>0, <1>1, <1>7, <1>8, <1>9 DEF ReactorView!Accept, Live
<1> QED BY <1>10 DEF ReactorView!Next

(* recv() of bytes is the Reactor's Read, send() of the answers its Write. *)
LEMMA DataRefines == ASSUME RInv, ReadData \/ Write \/ SendMore PROVE ReactorView!Next
<1>0. /\ sock \in Fd /\ handlers[sock] \in Client /\ UNCHANGED <<handlers, listening, backlog>>
      /\ Listener \notin Client /\ None \notin Client
  <2>1. CASE ReadData \/ Write
    BY LoopAssumption, <2>1 DEF RInv, IInv, TypeOK, LoopAssumption, ReadData, ReadEvent, Write, WriteEvent,
       SendAll, Event
  <2>2. CASE SendMore
    BY LoopAssumption, SendingPeer, <2>2 DEF RInv, LoopAssumption, SendMore, SendAll
  <2> QED BY <2>1, <2>2
<1>1. PICK c \in Client : c = handlers[sock] /\ c = ksock[sock]
  BY <1>0, Alone
<1>2. c \in Live /\ Live' = Live
  BY <1>0, <1>1 DEF Live, Served, Registered
<1>3. CASE ReadData
  <2>1. PICK n \in 1 .. peer[c].inbox : \E m \in 0 .. n :
          /\ peer' = [peer EXCEPT ![c].inbox = @ - n]
          /\ resp' = [resp EXCEPT ![c] = @ + m]
    BY <1>1, <1>3 DEF ReadData
  <2>2. ReactorView!Read(c)
    BY <1>0, <1>2, <2>1 DEF ReactorView!Read, Live
  <2> QED BY <2>2 DEF ReactorView!Next
<1>4. CASE Write \/ SendMore
  <2>1. SendAll(c) /\ TypeOK
    BY <1>1, <1>4 DEF Write, SendMore, RInv, IInv
  <2>2. PICK n \in 0 .. resp[c] :
          /\ n <= Room(c) /\ peer' = [peer EXCEPT ![c].unread = @ + n]
          /\ \/ resp' = [resp EXCEPT ![c] = @ - n]
             \/ ~Blocking /\ n = Room(c) /\ n < resp[c] /\ resp' = [resp EXCEPT ![c] = 0]
    BY <2>1, SendFacts
  <2>3. ReactorView!Write(c)
    BY <1>0, <1>2, <2>2 DEF ReactorView!Write, Live, Room
  <2> QED BY <2>3 DEF ReactorView!Next
<1> QED BY <1>3, <1>4

(* A socket is closed only after its peer ended the connection or sent urgent data. *)
LEMMA EndRefines ==
  ASSUME RInv, ReadEnds \/ WriteFails \/ Expt \/ SendAborted PROVE ReactorView!Next
<1>0. /\ sock \in Fd /\ handlers[sock] # None /\ handlers[sock] \in Handler \cup {None}
      /\ close(sock) /\ UNCHANGED <<listening, backlog, peer>>
      /\ peer \in [Client -> Peer]
  <2>1. CASE ReadEnds \/ WriteFails \/ Expt
    BY <2>1 DEF RInv, IInv, TypeOK, ReadEnds, ReadEvent, WriteFails, WriteEvent, Expt, Event
  <2>2. CASE SendAborted
    BY LoopAssumption, <2>2, SendingPeer DEF RInv, IInv, TypeOK, SendAborted, env, Handler, LoopAssumption
  <2> QED BY <2>1, <2>2
<1>1. handlers[sock] = polled[sock]
  BY <1>0 DEF RInv, IInv, NoStaleDispatch, ReadEnds, ReadEvent, WriteFails, WriteEvent, Expt, SendAborted,
     Event
<1>2. CASE ReadEnds
  <2>1. pc = "r" /\ sock \in ready.r /\ handlers[sock] \in Client
    BY <1>2 DEF ReadEnds, ReadEvent, Event
  <2>2. HasInput(handlers[sock])
    BY <1>1, <2>1 DEF RInv, ReadyInv, Unread
  <2>3. peer[handlers[sock]].inbox = 0
    BY <1>0, <1>2, <2>1, Alone DEF ReadEnds
  <2>4. peer[handlers[sock]].state \in {"fin", "rst"}
    BY <2>2, <2>3 DEF HasInput
  <2> QED BY <1>0, <2>1, <2>4, CloseRefines
<1>3. CASE WriteFails
  <2>1. handlers[sock] \in Client
    BY <1>3 DEF WriteFails, WriteEvent
  <2>2. peer[handlers[sock]].state \in {"fin", "rst"}
    BY <1>0, <1>3, <2>1, Alone DEF WriteFails
  <2> QED BY <1>0, <2>1, <2>2, CloseRefines
<1>4. CASE Expt
  <2>1. pc = "e" /\ sock \in ready.e
    BY <1>4 DEF Expt, Event
  <2>2. handlers[sock] \in Client
    BY <1>0, <1>1, <2>1 DEF RInv, IInv, RoundInv, Inside, Blocks, Handler
  <2>3. peer[handlers[sock]].oob
    BY <1>1, <2>1, <2>2 DEF RInv, ReadyInv
  <2> QED BY <1>0, <2>2, <2>3, CloseRefines
<1>5. CASE SendAborted
  <2>1. handlers[sock] \in Client /\ peer[handlers[sock]].state \in {"fin", "rst"}
    BY <1>5, SendingPeer DEF SendAborted, RInv
  <2> QED BY <1>0, <2>1, CloseRefines
<1> QED BY <1>2, <1>3, <1>4, <1>5

(* TCPServerImpl's constructor opens the port, or does not; nobody is served yet. *)
LEMMA StartupRefines ==
  ASSUME RInv, Startup PROVE ReactorView!Next \/ UNCHANGED ReactorView!vars
<1>0. /\ Listener \notin Client /\ None \notin Client /\ ~listening
      /\ \A fd \in Fd : handlers[fd] = None
      /\ handlers \in [Fd -> Handler \cup {None}]
  BY LoopAssumption DEF LoopAssumption, RInv, IInv, StartInv, Startup, TypeOK
<1>1. /\ listening' \in BOOLEAN /\ UNCHANGED <<backlog, peer, resp>>
      /\ \E fd \in Fd : handlers' = [handlers EXCEPT ![fd] = Listener]
  BY DEF Startup, BindAndListen, create_socket, add_channel
<1>2. \A fd \in Fd : handlers'[fd] \notin Client /\ handlers[fd] \notin Client
  BY <1>0, <1>1
<1>3. {c \in Client : Served(c)} = {} /\ {c \in Client : Served(c)}' = {}
  BY <1>2 DEF Served, Registered
<1>4. CASE listening'
  <2>1. ReactorView!Open
    BY <1>0, <1>1, <1>3, <1>4 DEF ReactorView!Open
  <2> QED BY <2>1 DEF ReactorView!Next
<1>5. CASE ~listening'
  <2>1. listening' = listening
    BY <1>0, <1>1, <1>5 DEF RInv, IInv, TypeOK
  <2> QED BY <1>1, <1>3, <2>1 DEF ReactorView!vars
<1> QED BY <1>1, <1>4, <1>5

(* What the peers do is what Reactor lets them do. *)
LEMMA EnvironmentRefines == ASSUME Environment PROVE ReactorView!Next
<1>1. PICK c \in Client : Connect(c) \/ PeerActs(c)
  BY DEF Environment
<1>2. {d \in Client : Served(d)}' = {d \in Client : Served(d)} /\ resp' = resp
  BY DEF Environment, table, Served, Registered
<1>3. ReactorView!PeerStep
  BY <1>1, <1>2 DEF ReactorView!PeerStep, ReactorView!Connect, ReactorView!PeerActs,
     ReactorView!PeerSend, ReactorView!PeerUrgent, ReactorView!PeerCloses, ReactorView!PeerResets,
     ReactorView!PeerReads, Connect, PeerActs, PeerSend, PeerUrgent, PeerCloses, PeerResets, PeerReads
<1> QED BY <1>3 DEF ReactorView!Next

(* Every step of the loop is a step of Reactor or none. *)
LEMMA StepRefines == RInv /\ [Next]_vars => [ReactorView!Next]_(ReactorView!vars)
<1> SUFFICES ASSUME RInv, [Next]_vars PROVE ReactorView!Next \/ UNCHANGED ReactorView!vars
  OBVIOUS
<1>1. CASE \/ StartupFails \/ LoopReturns \/ FdSetOverflow \/ Select \/ NextSocket \/ RoundEnds
           \/ HandlerGone \/ NoEvent \/ AcceptFails \/ UNCHANGED vars
  <2>1. UNCHANGED <<handlers, listening, backlog, peer, resp>>
    BY <1>1 DEF StartupFails, LoopReturns, FdSetOverflow, Select, NextSocket, RoundEnds, HandlerGone,
       NoEvent, AcceptFails, Event, env, table, vars
  <2> QED BY <2>1, Stutters
<1> QED BY <1>1, StartupRefines, AcceptRefines, DataRefines, EndRefines, EnvironmentRefines
       DEF Next, Main, Dispatch, Visit, SelectNothing, Ended

(* Initially no connection is live. *)
LEMMA InitRefines == Init => ReactorView!Init
<1> SUFFICES ASSUME Init PROVE ReactorView!Init
  OBVIOUS
<1>1. {c \in Client : Served(c)} = {}
  BY DEF Init, NoHandlers, Served, Registered
<1> QED BY <1>1 DEF Init, PeersInit, ReactorView!Init, ReactorView!PeersInit

(***************************************************************************)
(* do_select() implements the Reactor: each callback acts on the connection*)
(* whose event it was, and closes only what its peer has ended.            *)
(***************************************************************************)
THEOREM LoopIsReactor == Spec => ImplementsReactor
<1>1. Init => RInv
  BY InitInv, ReactInit DEF RInv
<1>2. Spec => []RInv
  BY <1>1, NextReact, PTL DEF Spec
<1> QED BY <1>2, InitRefines, StepRefines, PTL DEF Spec, ImplementsReactor, ReactorView!Spec

-----------------------------------------------------------------------------
(* A step that drops an answer, as NoAnswerDropped rules it out but for one case. *)
Kept ==
  \A c \in Client :
    Served(c) /\ Served(c)' /\ resp'[c] < resp[c] =>
      \/ peer'[c].unread - peer[c].unread = resp[c] - resp'[c]
      \/ ~Blocking /\ peer[c].due > SendBuf

(* What handle_write() loses, it loses for want of room among answers the peer is owed. *)
LEMMA SendKeeps ==
  ASSUME IInv, NEW c \in Client, SendAll(c) PROVE Kept
<1>1. PICK n \in 0 .. resp[c] :
        /\ n <= Room(c) /\ peer' = [peer EXCEPT ![c].unread = @ + n]
        /\ \/ resp' = [resp EXCEPT ![c] = @ - n]
           \/ ~Blocking /\ n = Room(c) /\ n < resp[c] /\ resp' = [resp EXCEPT ![c] = 0]
  BY SendFacts DEF IInv
<1>2. /\ resp \in [Client -> Nat] /\ peer \in [Client -> Peer] /\ SendBuf \in Nat /\ n \in Nat
      /\ resp[c] \in Nat /\ peer[c].unread \in Nat /\ peer[c].inbox \in Nat /\ peer[c].due \in Nat
      /\ resp[c] + peer[c].inbox + peer[c].unread <= peer[c].due
  BY LoopAssumption, <1>1 DEF IInv, TypeOK, Owed, Peer, LoopAssumption
<1>3. peer'[c].unread = peer[c].unread + n /\ \A d \in Client \ {c} : resp'[d] = resp[d]
  BY <1>1, <1>2 DEF Peer
<1>4. \/ peer'[c].unread - peer[c].unread = resp[c] - resp'[c]
      \/ ~Blocking /\ peer[c].due > SendBuf
  <2>1. CASE resp' = [resp EXCEPT ![c] = @ - n]
    BY <1>2, <1>3, <2>1
  <2>2. CASE ~Blocking /\ n = Room(c) /\ n < resp[c]
    BY <1>2, <2>2 DEF Room
  <2> QED BY <1>1, <2>1, <2>2
<1>5. \A d \in Client \ {c} : resp[d] \in Nat /\ ~(resp'[d] < resp[d])
  BY <1>2, <1>3
<1> QED BY <1>4, <1>5 DEF Kept

(***************************************************************************)
(* An answer is lost only on a non-blocking socket, and only for a peer    *)
(* with more pieces under way than the kernel holds answers for.  The      *)
(* queue shrinks otherwise by what goes to the peer, or with its handler.  *)
(***************************************************************************)
THEOREM NothingLost == Spec => NoAnswerDropped
<1>1. RInv /\ [Next]_vars => [Kept]_vars
  <2> SUFFICES ASSUME RInv, [Next]_vars PROVE Kept
    OBVIOUS
  <2>0. TypeOK /\ resp \in [Client -> Nat] /\ IInv
    BY DEF RInv, IInv, TypeOK
  <2>1. CASE UNCHANGED resp
    BY <2>0, <2>1 DEF Kept
  <2>2. CASE ReadData
    <3>1. PICK m \in Nat : resp' = [resp EXCEPT ![handlers[sock]] = @ + m]
      <4>1. ksock[sock] \in Client /\ peer[ksock[sock]].inbox \in Nat
        BY <2>0, <2>2 DEF ReadData, TypeOK, Peer
      <4>2. PICK n \in 1 .. peer[ksock[sock]].inbox : \E m \in 0 .. n :
              resp' = [resp EXCEPT ![handlers[sock]] = @ + m]
        BY <2>2 DEF ReadData
      <4>3. n \in Nat /\ 0 .. n \subseteq Nat
        BY <4>1
      <4> QED BY <4>2, <4>3
    <3>2. \A d \in Client : resp'[d] \in Nat /\ resp[d] \in Nat /\ resp'[d] >= resp[d]
      BY <2>0, <3>1
    <3> QED BY <3>2 DEF Kept
  <2>3. CASE Write \/ SendMore
    <3>1. ksock[sock] \in Client /\ SendAll(ksock[sock])
      BY <2>0, <2>3, SendingPeer DEF Write, SendMore
    <3> QED BY <2>0, <3>1, SendKeeps
  <2>4. CASE ReadEnds \/ WriteFails \/ Expt \/ SendAborted
    <3>1. /\ sock \in Fd /\ close(sock) /\ handlers[sock] \in Client
      <4>1. CASE ReadEnds \/ WriteFails
        BY <2>0, <4>1 DEF ReadEnds, ReadEvent, WriteFails, WriteEvent, Event, TypeOK
      <4>2. CASE Expt
        <5>1. pc = "e" /\ sock \in Fd /\ close(sock) /\ handlers[sock] # None /\ sock \in ready.e
          BY <2>0, <4>2 DEF Expt, Event, TypeOK
        <5>2. handlers[sock] = polled[sock] /\ polled[sock] # Listener
          BY <2>0, <5>1 DEF IInv, NoStaleDispatch, RoundInv, Inside, Blocks
        <5> QED BY <2>0, <5>1, <5>2 DEF TypeOK, Handler
      <4>3. CASE SendAborted
        BY <2>0, <4>3, SendingPeer DEF SendAborted
      <4> QED BY <2>4, <4>1, <4>2, <4>3
    <3>2. /\ Live' = Live \ {handlers[sock]} /\ resp' = [resp EXCEPT ![handlers[sock]] = 0]
      BY <3>1, CloseLive
    <3>3. \A d \in Client : resp'[d] < resp[d] => ~Served(d)'
      <4> SUFFICES ASSUME NEW d \in Client, resp'[d] < resp[d] PROVE ~Served(d)'
        OBVIOUS
      <4>1. CASE d = handlers[sock]
        BY <3>2, <4>1 DEF Live
      <4>2. CASE d # handlers[sock]
        BY <2>0, <3>2, <4>2
      <4> QED BY <4>1, <4>2
    <3> QED BY <3>3 DEF Kept
  <2>5. CASE \/ Startup \/ StartupFails \/ LoopReturns \/ Select \/ FdSetOverflow \/ NextSocket \/ RoundEnds
             \/ HandlerGone \/ NoEvent \/ Accept \/ AcceptFails \/ Environment \/ UNCHANGED vars
    <3>1. UNCHANGED resp
      BY <2>5 DEF Startup, StartupFails, LoopReturns, Select, FdSetOverflow, NextSocket, RoundEnds,
         HandlerGone, NoEvent, Accept, AcceptFails, Environment, vars, table
    <3> QED BY <2>1, <3>1
  <2> QED BY <2>2, <2>3, <2>4, <2>5 DEF Next, Main, Dispatch, Visit, SelectNothing, Ended
<1>2. Init => RInv
  BY InitInv, ReactInit DEF RInv
<1>3. Spec => []RInv
  BY <1>2, NextReact, PTL DEF Spec
<1>4. Spec => [][Kept]_vars
  BY <1>1, <1>3, PTL DEF Spec
<1> QED BY <1>4 DEF NoAnswerDropped, Kept
=============================================================================
