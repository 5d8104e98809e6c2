----------------------------- MODULE SelectLoop -----------------------------
(***************************************************************************)
(* The reactor of doc_ferry_server: BaseSocket's channel map, do_select()  *)
(* and loop() of base_socket.cpp, with the listening TCPServerImpl and the *)
(* VirusHandlers it creates.  One thread runs loop(); between any two of   *)
(* its steps the peers may connect, send, close or reset.                  *)
(*                                                                         *)
(* A handler object is named by the peer it was created for (a peer is one *)
(* connection), the TCPServerImpl by Listener.  What a VirusHandler does   *)
(* with the bytes is module VirusHandler; here bytes are counted in pieces *)
(* and a piece may complete a request.                                     *)
(***************************************************************************)
EXTENDS CpSocket, Peers, Integers, FiniteSets

CONSTANTS
  Fd,          \* descriptors the process may have
  Listener,    \* the TCPServerImpl, and the socket it listens on
  None,        \* no handler, no socket
  FdSetSize,   \* FD_SETSIZE: 64 on Windows, 1024 on Linux
  Faults       \* which rare failures may happen

Fault == {"stale_this",   \* close() finds this->sock overwritten
          "peername",     \* getpeername() fails on an accepted socket
          "socket",       \* the listening socket cannot be created or bound
          "nofile"}       \* cache files have taken the descriptors that were free

ASSUME LoopAssumption ==
  /\ Fd \subseteq Nat \ {0} /\ IsFiniteSet(Fd)
  /\ Listener \notin Client /\ None \notin Client /\ Listener # None
  /\ MaxSend \in Nat /\ SendBuf \in Nat \ {0} /\ Backlog \in Nat /\ FdSetSize \in Nat
  /\ Faults \subseteq Fault

Handler == Client \cup {Listener}

VARIABLES
  handlers,   \* *p_handlers: the object registered for a descriptor
  ksock,      \* the kernel's descriptor table
  resp,       \* responses of a peer's handler that send() has not taken (VirusHandler::resp)
  pc,         \* where loop() is
  todo,       \* the descriptors of select_socks that are still to be visited
  sock,       \* the one being visited
  ready,      \* the fd_sets r, w and e as select() left them
  retv,       \* select()'s result, counted down
  polled      \* history: the map when select_socks was filled

table == <<handlers, ksock, resp>>
round == <<todo, sock, ready, retv, polled>>
vars == <<handlers, ksock, listening, backlog, peer, resp, pc, todo, sock, ready, retv, polled>>

Registered == {fd \in Fd : handlers[fd] # None}

NoFds == [r |-> {}, w |-> {}, e |-> {}]
NoHandlers == [fd \in Fd |-> None]

Init ==
  /\ handlers = NoHandlers /\ ksock = NoHandlers
  /\ PeersInit
  /\ resp = [c \in Client |-> 0]
  /\ pc = "start" /\ todo = {} /\ sock = 0 /\ ready = NoFds /\ retv = 0 /\ polled = NoHandlers

-----------------------------------------------------------------------------
(* The process is there, and so is the connection: queued, or a socket of ours. *)
Alive == pc \notin {"stopped", "crashed"}
Connected(c) == \/ \E i \in DOMAIN backlog : backlog[i] = c
                \/ \E fd \in Fd : ksock[fd] = c

Environment ==
  /\ Alive
  /\ \E c \in Client : Connect(c) \/ (Connected(c) /\ PeerActs(c))
  /\ UNCHANGED <<table, round, pc>>

-----------------------------------------------------------------------------
(* BaseSocket::add_channel() for a socket the kernel has just handed out. *)
add_channel(fd, h) ==
  /\ ksock' = [ksock EXCEPT ![fd] = h]
  /\ handlers' = [handlers EXCEPT ![fd] = h]

(* Mutant: the handler stays in the map. *)
close_keeps_channel(fd) ==
  /\ ksock' = [ksock EXCEPT ![fd] = None]
  /\ UNCHANGED <<handlers, resp>>

(* Mutant: the socket is not closed. *)
close_keeps_socket(fd) ==
  /\ handlers' = [handlers EXCEPT ![fd] = None]
  /\ resp' = [resp EXCEPT ![handlers[fd]] = 0]
  /\ UNCHANGED ksock

(***************************************************************************)
(* BaseSocket::close() of the handler registered for fd: del_channel()     *)
(* drops the last reference and so deletes the object with its queue;      *)
(* this->sock is then read from the freed memory, and if it is no longer   *)
(* there the socket leaks.                                                 *)
(***************************************************************************)
close(fd) ==
  /\ handlers' = [handlers EXCEPT ![fd] = None]
  /\ resp' = [resp EXCEPT ![handlers[fd]] = 0]
  /\ \/ ksock' = [ksock EXCEPT ![fd] = None]
     \/ "stale_this" \in Faults /\ UNCHANGED ksock

(***************************************************************************)
(* BaseSocket's constructor for an accepted socket: the object inserts     *)
(* itself into the map.  If getpeername() fails for another reason than a  *)
(* lost connection it erases itself again, and so deletes the object that  *)
(* is being constructed; the socket stays open.                            *)
(***************************************************************************)
Construct(fd, c) ==
  \/ /\ add_channel(fd, c)
     /\ pc' = "w"
  \/ /\ "peername" \in Faults
     /\ ksock' = [ksock EXCEPT ![fd] = c]
     /\ handlers' = [handlers EXCEPT ![fd] = None]
     /\ pc' \in {"w", "crashed"}

(* BaseSocket::create_socket() registers the socket it was given. *)
create_socket(fd) == add_channel(fd, Listener)

(***************************************************************************)
(* Whether cp_bind() (any address, port 7890) and cp_listen() succeed.  On *)
(* Linux a socket that could not be bound may listen on another port; no   *)
(* peer comes there, and the loop only waits, as in SelectNothing.         *)
(***************************************************************************)
BindAndListen == {TRUE} \cup (IF "socket" \in Faults THEN {FALSE} ELSE {})

(***************************************************************************)
(* main(): TCPServerImpl's constructor creates the socket, binds and       *)
(* listens, and looks at none of the results.                              *)
(***************************************************************************)
Startup ==
  /\ pc = "start"
  /\ \E fd \in Fd : create_socket(fd)
  /\ listening' \in BindAndListen
  /\ pc' = "loop"
  /\ UNCHANGED <<backlog, peer, resp, round>>

(* No socket: create_socket() registers nothing, and the map stays empty. *)
StartupFails ==
  /\ pc = "start" /\ "socket" \in Faults
  /\ pc' = "loop"
  /\ UNCHANGED <<env, table, round>>

(* loop() returns when the map is empty. *)
LoopReturns ==
  /\ pc = "loop" /\ Registered = {}
  /\ pc' = "stopped"
  /\ UNCHANGED <<env, table, round>>

-----------------------------------------------------------------------------
(* Mutant: the last response is not counted. *)
writable_off_by_one(h) == h = Listener \/ resp[h] > 1

(* BaseSocket::writable() of the listener is true, VirusHandler's is resp.size(). *)
writable(h) == h = Listener \/ resp[h] > 0

(* Mutant: select() is given max_fd, not max_fd + 1. *)
InFdSet_max_fd(S) == {fd \in S : \E g \in S : fd < g}

(***************************************************************************)
(* FD_SET: on Windows an fd_set that holds FdSetSize sockets ignores the   *)
(* next one.  On Linux a descriptor from FdSetSize on is written behind    *)
(* the fd_set, which is FdSetOverflow below when it does not go well.      *)
(***************************************************************************)
InFdSet(S) ==
  IF Platform = "windows" THEN {fd \in S : Cardinality({g \in S : g < fd}) < FdSetSize}
  ELSE S

(* Mutant: the fd_set is taken as it was filled, not as select() left it. *)
ReadReady_unselected(k) == TRUE

(***************************************************************************)
(* What select() looks at; a socket that is not open makes it fail.  On    *)
(* Linux a TCP socket that does not listen counts as hung up, and readable.*)
(***************************************************************************)
ReadReady(k) ==
  IF k = Listener THEN backlog # <<>> \/ (~listening /\ Platform = "linux")
  ELSE peer[k].inbox > 0 \/ peer[k].state \in {"fin", "rst"}

(* A peer's socket is writable while there is room in its send buffer. *)
WriteReady(k) == peer[k].unread < SendBuf \/ peer[k].state = "rst"

ExptReady(k) == k # Listener /\ peer[k].oob

(* The first half of do_select(): which sockets are asked for, and are ready. *)
ReadFds == {fd \in InFdSet(Registered) : ReadReady(ksock[fd])}
WriteFds == {fd \in InFdSet({g \in Registered : handlers[g] # Listener /\ writable(handlers[g])}) :
               WriteReady(ksock[fd])}
ExptFds == {fd \in InFdSet(Registered) : ExptReady(ksock[fd])}

(* Mutant: every descriptor is visited, not the ones that were polled. *)
Select_visits_all ==
  /\ pc = "loop" /\ Registered # {}
  /\ \A fd \in Registered : ksock[fd] # None
  /\ ready' = [r |-> ReadFds, w |-> WriteFds, e |-> ExptFds]
  /\ retv' = Cardinality(ReadFds) + Cardinality(WriteFds) + Cardinality(ExptFds)
  /\ retv' > 0
  /\ todo' = Fd /\ polled' = handlers
  /\ pc' = "next"
  /\ UNCHANGED <<env, table, sock>>

Select ==
  /\ pc = "loop" /\ Registered # {}
  /\ \A fd \in Registered : ksock[fd] # None
  /\ ready' = [r |-> ReadFds, w |-> WriteFds, e |-> ExptFds]
  /\ retv' = Cardinality(ReadFds) + Cardinality(WriteFds) + Cardinality(ExptFds)
  /\ retv' > 0
  /\ todo' = Registered /\ polled' = handlers
  /\ pc' = "next"
  /\ UNCHANGED <<env, table, sock>>

(* select() times out or fails (EINTR, EBADF): do_select() just returns. *)
SelectNothing ==
  /\ pc = "loop" /\ Registered # {}
  /\ UNCHANGED vars

FdSetOverflow ==
  /\ pc = "loop" /\ Platform = "linux"
  /\ \E fd \in Registered : fd >= FdSetSize
  /\ pc' = "crashed"
  /\ UNCHANGED <<env, table, round>>

-----------------------------------------------------------------------------
(* The second half of do_select(): select_socks in ascending order. *)
NextSocket ==
  /\ pc = "next" /\ retv > 0
  /\ \E fd \in todo :
       /\ \A g \in todo : fd <= g
       /\ sock' = fd /\ todo' = todo \ {fd}
  /\ pc' = "r"
  /\ UNCHANGED <<env, table, ready, retv, polled>>

(* All sockets visited, or no event left: the rest of the loop does nothing. *)
RoundEnds ==
  /\ pc = "next" /\ (todo = {} \/ retv = 0)
  /\ pc' = "loop" /\ todo' = {} /\ sock' = 0 /\ ready' = NoFds /\ retv' = 0
  /\ polled' = NoHandlers
  /\ UNCHANGED <<env, table>>

(* The three blocks of the loop body, one after the other. *)
After == [r |-> "w", w |-> "e", e |-> "next"]

(* A block whose socket has lost its handler: continue. *)
HandlerGone ==
  /\ pc \in {"r", "w", "e"} /\ retv > 0
  /\ handlers[sock] = None
  /\ pc' = "next"
  /\ UNCHANGED <<env, table, round>>

(* Mutant: retv is counted down for a socket without an event too. *)
NoEvent_counts_down ==
  /\ pc \in {"r", "w", "e"}
  /\ retv = 0 \/ (handlers[sock] # None /\ sock \notin ready[pc])
  /\ retv' = IF retv = 0 THEN 0 ELSE retv - 1
  /\ pc' = After[pc]
  /\ UNCHANGED <<env, table, todo, sock, ready, polled>>

(* A block without an event for this socket. *)
NoEvent ==
  /\ pc \in {"r", "w", "e"}
  /\ \/ retv = 0
     \/ /\ handlers[sock] # None
        /\ sock \notin ready[pc] \/ (pc = "w" /\ ~writable(handlers[sock]))
  /\ pc' = After[pc]
  /\ UNCHANGED <<env, table, round>>

(* Mutant: neither retv nor FD_ISSET is looked at. *)
Event_unchecked(block) ==
  /\ pc = block /\ handlers[sock] # None
  /\ retv' = retv - 1
  /\ UNCHANGED <<listening, todo, sock, ready, polled>>

(* The handler's event method is called, and retv counted down. *)
Event(block) ==
  /\ pc = block /\ retv > 0 /\ handlers[sock] # None
  /\ sock \in ready[block]
  /\ retv' = retv - 1
  /\ UNCHANGED <<listening, todo, sock, ready, polled>>

Continue == pc' = After[pc]

(* TCPServerImpl::handle_accept(): a VirusHandler for the descriptor the kernel chose. *)
Accept ==
  /\ Event("r") /\ handlers[sock] = Listener
  /\ backlog # <<>>
  /\ backlog' = Tail(backlog)
  /\ \E fd \in {f \in Fd : ksock[f] = None} : Construct(fd, Head(backlog))
  /\ UNCHANGED <<peer, resp>>

(* Mutant: a failed accept() closes the listener. *)
AcceptFails_closes ==
  /\ Event("r") /\ handlers[sock] = Listener
  /\ backlog = <<>>
  /\ close(sock)
  /\ Continue
  /\ UNCHANGED <<backlog, peer>>

(* accept() fails: no descriptor is free, or the connection has gone. *)
AcceptFails ==
  /\ Event("r") /\ handlers[sock] = Listener
  /\ \/ backlog = <<>> /\ "O_NONBLOCK" \in ListenerFlags
     \/ backlog # <<>> /\ ("nofile" \in Faults \/ \A fd \in Fd : ksock[fd] # None)
  /\ Continue
  /\ UNCHANGED <<table, backlog, peer>>

(* handle_read_event() of a handler that does not listen: handle_read(). *)
ReadEvent == Event("r") /\ handlers[sock] \in Client

(* Mutant: a request may be answered twice. *)
ReadData_answers_twice ==
  /\ ReadEvent
  /\ ksock[sock] \in Client /\ peer[ksock[sock]].inbox > 0
  /\ \E n \in 1 .. peer[ksock[sock]].inbox : \E m \in 0 .. 2 * n :
       /\ peer' = [peer EXCEPT ![ksock[sock]].inbox = @ - n]
       /\ resp' = [resp EXCEPT ![handlers[sock]] = @ + m]
  /\ Continue
  /\ UNCHANGED <<handlers, ksock, backlog>>

(* VirusHandler::handle_read() gets pieces, each of which may end a request. *)
ReadData ==
  /\ ReadEvent
  /\ ksock[sock] \in Client /\ peer[ksock[sock]].inbox > 0
  /\ \E n \in 1 .. peer[ksock[sock]].inbox : \E m \in 0 .. n :
       /\ peer' = [peer EXCEPT ![ksock[sock]].inbox = @ - n]
       /\ resp' = [resp EXCEPT ![handlers[sock]] = @ + m]
  /\ Continue
  /\ UNCHANGED <<handlers, ksock, backlog>>

(* Mutant: the end of the stream is not handled. *)
ReadEnds_ignored ==
  /\ ReadEvent
  /\ ksock[sock] \in Client => peer[ksock[sock]].inbox = 0
  /\ Continue
  /\ UNCHANGED <<table, backlog, peer>>

(***************************************************************************)
(* recv() returns 0 or an error, EWOULDBLOCK among them: handle_close() or *)
(* handle_expt(), which both close the socket.                             *)
(***************************************************************************)
ReadEnds ==
  /\ ReadEvent
  /\ ksock[sock] \in Client =>
       /\ peer[ksock[sock]].inbox = 0
       /\ peer[ksock[sock]].state \in {"fin", "rst"} \/ "O_NONBLOCK" \in SocketFlags
  /\ close(sock)
  /\ Continue
  /\ UNCHANGED <<backlog, peer>>

(* handle_write_event(): the listener is never asked to write. *)
WriteEvent ==
  /\ Event("w") /\ handlers[sock] \in Client
  /\ writable(handlers[sock])

(* Whether send() waits for room. *)
Blocking == "O_NONBLOCK" \notin SocketFlags

(* Responses the kernel has room for on the peer c's connection. *)
Room(c) == SendBuf - peer[c].unread

(***************************************************************************)
(* VirusHandler::handle_write() pops every response and gives it to send().*)
(* The kernel takes what it has room for.  A blocking send() waits with    *)
(* the rest, and the only thread with it; another one returns a short      *)
(* count, or EAGAIN, which BaseSocket::send() makes 0: handle_write() looks*)
(* at neither, and the rest is lost.                                       *)
(***************************************************************************)
SendAll(c) ==
  LET n == IF resp[c] < Room(c) THEN resp[c] ELSE Room(c)
  IN /\ peer' = [peer EXCEPT ![c].unread = @ + n]
     /\ IF Blocking /\ n < resp[c]
        THEN resp' = [resp EXCEPT ![c] = @ - n] /\ pc' = "send"
        ELSE resp' = [resp EXCEPT ![c] = 0] /\ pc' = "e"
     /\ UNCHANGED <<handlers, ksock, backlog>>

Write ==
  /\ WriteEvent
  /\ ksock[sock] \in Client /\ peer[ksock[sock]].state # "rst"
  /\ SendAll(ksock[sock])

(***************************************************************************)
(* A send() fails: handle_close() deletes the object, and handle_write()   *)
(* goes on with the freed queue (on Linux SIGPIPE may come first).         *)
(***************************************************************************)
WriteFails ==
  /\ WriteEvent
  /\ ksock[sock] \in Client => peer[ksock[sock]].state \in {"fin", "rst"}
  /\ close(sock)
  /\ Continue \/ pc' = "crashed"
  /\ UNCHANGED <<backlog, peer>>

(* Mutant: send() goes on only when there is room for two. *)
SendMore_off_by_one ==
  /\ pc = "send" /\ Room(ksock[sock]) > 1 /\ peer[ksock[sock]].state # "rst"
  /\ SendAll(ksock[sock])
  /\ UNCHANGED <<listening, round>>

(* The peer has read something: send() goes on. *)
SendMore ==
  /\ pc = "send" /\ Room(ksock[sock]) > 0 /\ peer[ksock[sock]].state # "rst"
  /\ SendAll(ksock[sock])
  /\ UNCHANGED <<listening, round>>

(* The connection ends while send() waits: as in WriteFails. *)
SendAborted ==
  /\ pc = "send" /\ peer[ksock[sock]].state \in {"fin", "rst"}
  /\ close(sock)
  /\ pc' \in {"e", "crashed"}
  /\ UNCHANGED <<env, round>>

(***************************************************************************)
(* handle_expt_event(): getsockopt() without a buffer fails always, so the *)
(* event closes the socket; handle_expt() is not called.                   *)
(***************************************************************************)
Expt ==
  /\ Event("e")
  /\ close(sock)
  /\ Continue
  /\ UNCHANGED <<backlog, peer>>

(* main() has returned from loop(), or the process is gone. *)
Ended ==
  /\ pc \in {"stopped", "crashed"}
  /\ UNCHANGED vars

Visit == Accept \/ AcceptFails \/ ReadData \/ ReadEnds \/ Write \/ WriteFails \/ Expt
Dispatch == NextSocket \/ RoundEnds \/ HandlerGone \/ NoEvent \/ Visit \/ SendMore \/ SendAborted
Main == Startup \/ StartupFails \/ LoopReturns \/ Select \/ FdSetOverflow \/ Dispatch
Next == Main \/ SelectNothing \/ Ended \/ Environment

Spec == Init /\ [][Next]_vars

(* The thread runs on: loop() blocks in select() only while nothing is ready. *)
FairSpec == Spec /\ WF_vars(Main)

(* A peer that reads what it is sent, as TestClient does.  The code cannot make it. *)
PeerGetsAnswer(c) ==
  /\ Alive /\ Connected(c) /\ PeerReads(c)
  /\ UNCHANGED <<table, round, pc>>

ReadingSpec == FairSpec /\ \A c \in Client : WF_vars(PeerGetsAnswer(c))

-----------------------------------------------------------------------------
(* The map, the descriptor table and do_select()'s variables have their types. *)
TypeOK ==
  /\ handlers \in [Fd -> Handler \cup {None}] /\ ksock \in [Fd -> Handler \cup {None}]
  /\ listening \in BOOLEAN /\ backlog \in Seq(Client)
  /\ peer \in [Client -> Peer] /\ resp \in [Client -> Nat]
  /\ pc \in {"start", "loop", "next", "r", "w", "send", "e", "stopped", "crashed"}
  /\ todo \subseteq Fd /\ sock \in Nat /\ (pc \in {"r", "w", "send", "e"} => sock \in Fd)
  /\ ready \in [r : SUBSET Fd, w : SUBSET Fd, e : SUBSET Fd]
  /\ retv \in Nat /\ polled \in [Fd -> Handler \cup {None}]

(***************************************************************************)
(* add_channel()/close(): a registered handler's descriptor is open, and   *)
(* it is the socket the handler was created for.  Otherwise select() would *)
(* fail with EBADF for ever, or one peer would get another's bytes.        *)
(***************************************************************************)
HandlerOwnsSocket == \A fd \in Registered : ksock[fd] = handlers[fd]

(***************************************************************************)
(* Every socket the process holds has a handler: none is open and never    *)
(* polled again (unless the freed object was overwritten, or deleted in    *)
(* its constructor).                                                       *)
(***************************************************************************)
NoSocketLeaked ==
  Faults \cap {"stale_this", "peername"} = {} =>
    \A fd \in Fd : ksock[fd] # None => handlers[fd] # None

(***************************************************************************)
(* do_select() keeps descriptors, not handlers, across the callbacks of a  *)
(* round: what it finds in the map for one it still has to visit is the    *)
(* handler that was polled, and for the one it visits that or nothing.  An *)
(* accepted socket never takes over the events of a closed one.            *)
(***************************************************************************)
NoStaleDispatch ==
  /\ \A fd \in todo : handlers[fd] = polled[fd]
  /\ pc \in {"r", "w", "send", "e"} => handlers[sock] \in {None, polled[sock]}

(***************************************************************************)
(* do_select() stops dispatching when retv has been counted down to 0: it  *)
(* never gets there with an event of a socket still to be visited left.    *)
(***************************************************************************)
NoEventDropped ==
  pc \in {"next", "r", "w", "send", "e"} =>
    Cardinality(ready.r \cap todo) + Cardinality(ready.w \cap todo)
      + Cardinality(ready.e \cap todo) <= retv

(* One listener, registered from the constructor on: no peer gets it closed. *)
ListenerStays ==
  listening /\ pc # "crashed" => \E fd \in Fd : handlers[fd] = Listener

(* A queued connection is accepted, whatever the other peers do. *)
EveryConnectionAccepted ==
  \A c \in Client :
    (\E i \in DOMAIN backlog : backlog[i] = c)
      ~> (\A i \in DOMAIN backlog : backlog[i] # c) \/ pc = "crashed"

Served(c) == \E fd \in Registered : handlers[fd] = c

(* A peer's bytes are read and its end is noticed: the handler empties or closes. *)
EveryPeerServed ==
  \A c \in Client :
    Served(c) /\ (peer[c].inbox > 0 \/ peer[c].state \in {"fin", "rst"})
      ~> ~Served(c) \/ pc = "crashed" \/ (peer[c].inbox = 0 /\ peer[c].state = "up")

(***************************************************************************)
(* A response that is queued is given to send(), or its connection closed, *)
(* as long as its own peer goes on reading; a peer that does not read only *)
(* delays its own.  Whether send() takes the response whole is             *)
(* NoAnswerDropped.                                                        *)
(***************************************************************************)
EveryResponseSent ==
  \A c \in Client :
    []<>(peer[c].unread < SendBuf) =>
      (Served(c) /\ resp[c] > 0 ~> ~Served(c) \/ pc = "crashed" \/ resp[c] = 0)

(***************************************************************************)
(* handle_write() pops a response before send() has taken it, and looks at *)
(* no result: a queued response that does not go to the peer is gone.  On  *)
(* a non-blocking socket that happens, but only to a peer with more        *)
(* requests under way than the kernel holds answers for, never to one that *)
(* reads each answer before it sends on; on a blocking socket it does not. *)
(***************************************************************************)
NoAnswerDropped ==
  [][\A c \in Client :
       Served(c) /\ Served(c)' /\ resp'[c] < resp[c] =>
         \/ peer'[c].unread - peer[c].unread = resp[c] - resp'[c]
         \/ ~Blocking /\ peer[c].due > SendBuf]_vars

-----------------------------------------------------------------------------
ReactorView == INSTANCE Reactor
                 WITH live <- {c \in Client : Served(c)}, Lossy <- "peername" \in Faults

(***************************************************************************)
(* do_select() with its descriptors, its rounds and its counted-down retv  *)
(* is a Reactor: every callback is one step of the abstract loop, on the   *)
(* connection whose event it was, and no handler is closed that could go   *)
(* on.                                                                     *)
(***************************************************************************)
ImplementsReactor == ReactorView!Spec
=============================================================================
