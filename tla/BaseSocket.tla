----------------------------- MODULE BaseSocket -----------------------------
(***************************************************************************)
(* doc_ferry_server/src/base_socket.cpp as a library: a program on one     *)
(* thread makes handlers and servers, connects, and runs loop() on one of  *)
(* two maps, its own or g_handlers.  This is the life of a BaseSocket and  *)
(* of its flags; a round of do_select() and the accepted connections are   *)
(* module SelectLoop, here loop() takes one event after the other.         *)
(*                                                                         *)
(* The program calls create_socket() once per object and uses no object it *)
(* knows to be deleted.                                                    *)
(***************************************************************************)
EXTENDS CpSocket, FiniteSets

CONSTANTS
  Object,   \* the handlers the program makes
  Server,   \* the TCPServers; the TCPServerImpl goes by the same name
  Fd,       \* descriptors
  None      \* no object, no map, no descriptor

ASSUME BaseSocketAssumption ==
  /\ Fd \subseteq Nat \ {0} /\ None \notin Fd
  /\ Object \cap Server = {} /\ None \notin Object \cup Server

Map == {"g_handlers", "sock_handlers"}

(* The argument p_handlers, and the map the constructors and loop() take for it. *)
Argument == {"nullptr", "sock_handlers"}

(* Mutant: nullptr is not replaced. *)
MapOf_raw(p) == p

MapOf(p) == IF p = "nullptr" THEN "g_handlers" ELSE p

(* Which virtual methods a handler has: those of BaseSocket or of SocketHandler. *)
Class == {"BaseSocket", "SocketHandler"}

VARIABLES
  obj,        \* the handler objects
  server,     \* the TCPServer objects
  handlers,   \* the two maps
  ksock,      \* the kernel's sockets: whose, and their state
  port,       \* the descriptor that has the server's port
  errno,
  running,    \* the map loop() runs on
  counted,    \* whether loop() was given a count
  misled,     \* history: the objects whose connect() took for connected what was not
  alive       \* the process is there

program == <<running, counted>>
vars == <<obj, server, handlers, ksock, port, errno, running, counted, misled, alive>>

(* "aborted": deleted by its own constructor; "leaked": by a close() that lost its socket. *)
ObjectRecord ==
  [status : {"none", "live", "deleted", "aborted", "leaked"}, class : Class, sock : Fd \cup {None},
   map : Map, connected : BOOLEAN, connecting : BOOLEAN]

(***************************************************************************)
(* "fresh": neither connected nor listening; "syn": connect() under way;   *)
(* "up", "data", "urgent": connected, the latter with bytes or an urgent   *)
(* byte to read; "ended": closed or reset by the peer; "refused": a        *)
(* connect() under way has failed.                                         *)
(***************************************************************************)
Up == {"up", "data", "urgent", "ended"}
Tcp == Up \cup {"fresh", "syn", "refused", "listen"}
Closed == [by |-> None, tcp |-> "fresh"]

(* What connect() tells apart; EINPROGRESS stands for EALREADY too. *)
Errno == {"EISCONN", "EINPROGRESS", "other"}

(* An object that is not there: not made yet, or deleted. *)
NoObject(status) ==
  [status |-> status, class |-> "BaseSocket", sock |-> None, map |-> "g_handlers",
   connected |-> FALSE, connecting |-> FALSE]
NoServer(status) == [status |-> status, sock |-> None, map |-> "g_handlers"]

Init ==
  /\ obj = [o \in Object |-> NoObject("none")]
  /\ server = [s \in Server |-> NoServer("none")]
  /\ handlers = [m \in Map |-> [fd \in Fd |-> None]]
  /\ ksock = [fd \in Fd |-> Closed]
  /\ port = None /\ errno = "other" /\ running = None /\ counted = FALSE
  /\ misled = {} /\ alive = TRUE

Registered(m) == {fd \in Fd : handlers[m][fd] # None}
FreeFd == {fd \in Fd : ksock[fd].by = None}

-----------------------------------------------------------------------------
(* The network: a connect() under way ends, peers send and go. *)
SynEnds(fd) ==
  /\ alive /\ ksock[fd].tcp = "syn"
  /\ \E t \in {"up", "refused"} : ksock' = [ksock EXCEPT ![fd].tcp = t]
  /\ UNCHANGED <<obj, server, handlers, port, errno, program, misled, alive>>

PeerActs(fd) ==
  /\ alive /\ ksock[fd].tcp \in Up \ {"ended"}
  /\ \E t \in {"data", "urgent", "ended"} : ksock' = [ksock EXCEPT ![fd].tcp = t]
  /\ UNCHANGED <<obj, server, handlers, port, errno, program, misled, alive>>

-----------------------------------------------------------------------------
(* The program has the thread. *)
Program == alive /\ running = None
Live(o) == obj[o].status = "live"

add_channel(m, fd, h) == handlers' = [handlers EXCEPT ![m][fd] = h]

(* BaseSocket(INVALID_SOCKET, p) and SocketHandler(INVALID_SOCKET, p). *)
Construct(o, class, p) ==
  /\ Program /\ obj[o].status = "none"
  /\ obj' = [obj EXCEPT ![o] = [@ EXCEPT !.status = "live", !.class = class, !.map = MapOf(p)]]
  /\ UNCHANGED <<server, handlers, ksock, port, errno, program, misled, alive>>

(* create_socket(): a socket the kernel hands out, registered in the object's map. *)
create_socket(o) ==
  /\ Program /\ Live(o) /\ obj[o].sock = None
  /\ \E fd \in FreeFd :
       /\ obj' = [obj EXCEPT ![o].sock = fd]
       /\ ksock' = [ksock EXCEPT ![fd] = [by |-> o, tcp |-> "fresh"]]
       /\ add_channel(obj[o].map, fd, o)
  /\ UNCHANGED <<server, port, errno, program, misled, alive>>

create_socket_fails(o) ==
  /\ Program /\ Live(o) /\ obj[o].sock = None /\ FreeFd = {}
  /\ errno' = "other"
  /\ UNCHANGED <<obj, server, handlers, ksock, port, program, misled, alive>>

(* create_connection(): a new socket, connected; its peer may have gone already. *)
create_connection == [fd : FreeFd, tcp : {"up", "ended"}]

(* cp_getpeername(): 0, or how it fails. *)
cp_getpeername(t) == {"0", "other"} \cup (IF t = "up" THEN {} ELSE {"ENOTCONN"})

(***************************************************************************)
(* A handler constructed on a connected socket.  If getpeername() fails    *)
(* for another reason than a lost peer the object deletes itself.  The map *)
(* is the argument as it was given, so that a nullptr is dereferenced.     *)
(***************************************************************************)
Adopt(o, class, p) ==
  /\ Program /\ obj[o].status = "none"
  /\ \E s \in create_connection : \E name \in cp_getpeername(s.tcp) :
       /\ ksock' = [ksock EXCEPT ![s.fd] = [by |-> o, tcp |-> s.tcp]]
       /\ \/ /\ p # "nullptr" /\ name # "other"
             /\ add_channel(p, s.fd, o)
             /\ obj' = [obj EXCEPT ![o] = [@ EXCEPT !.status = "live", !.class = class,
                          !.sock = s.fd, !.map = p, !.connected = (name = "0")]]
             /\ errno' = IF name = "0" THEN errno ELSE "other"
             /\ UNCHANGED alive
          \/ /\ p # "nullptr" /\ name = "other"
             /\ obj' = [obj EXCEPT ![o] = NoObject("aborted")]
             /\ errno' = "other" /\ alive' \in BOOLEAN
             /\ UNCHANGED handlers
          \/ /\ p = "nullptr" /\ alive' = FALSE
             /\ UNCHANGED <<obj, handlers, errno>>
  /\ UNCHANGED <<server, port, program, misled>>

-----------------------------------------------------------------------------
(* Mutant: the socket is not closed. *)
close_keeps_socket(o) ==
  /\ obj' = [obj EXCEPT ![o] = NoObject("deleted")]
  /\ handlers' = [handlers EXCEPT ![obj[o].map][obj[o].sock] = None]
  /\ UNCHANGED ksock

(* Mutant: the handler is taken out of the global map. *)
close_global(o) ==
  /\ obj' = [obj EXCEPT ![o] = NoObject("deleted")]
  /\ handlers' = [handlers EXCEPT !["g_handlers"][obj[o].sock] = None]
  /\ ksock' = [ksock EXCEPT ![obj[o].sock] = Closed]

(***************************************************************************)
(* BaseSocket::close() of a registered object: del_channel() deletes it,   *)
(* this->sock is then read from the freed memory, and the socket is closed *)
(* or, when the value is no longer there, leaks.                           *)
(***************************************************************************)
close(o) ==
  /\ handlers' = [handlers EXCEPT ![obj[o].map][obj[o].sock] = None]
  /\ \/ /\ obj' = [obj EXCEPT ![o] = NoObject("deleted")]
        /\ ksock' = [ksock EXCEPT ![obj[o].sock] = Closed]
     \/ /\ obj' = [obj EXCEPT ![o] = NoObject("leaked")]
        /\ UNCHANGED ksock

(* handle_error() and handle_close() of either class, handle_expt() of SocketHandler. *)
handle_error(o) == close(o)
handle_close(o) == close(o)

(* Mutant: getsockopt() is given a buffer, and what it says is not looked at. *)
handle_connect_event_unchecked(o, err) ==
  /\ obj' = [obj EXCEPT ![o].connected = TRUE, ![o].connecting = FALSE]
  /\ errno' = err
  /\ UNCHANGED <<handlers, ksock>>

(***************************************************************************)
(* getsockopt(.., nullptr, nullptr) fails with EFAULT always: handle_error *)
(* and handle_close() follow, and handle_connect() is never called.  err   *)
(* is errno before the call.                                               *)
(***************************************************************************)
handle_connect_event(o, err) ==
  /\ handle_error(o)
  /\ errno' = "other"

(* The program closes its object. *)
ProgramCloses(o) ==
  /\ Program /\ Live(o) /\ obj[o].sock # None
  /\ close(o)
  /\ UNCHANGED <<server, port, errno, program, misled, alive>>

-----------------------------------------------------------------------------
(***************************************************************************)
(* cp_connect(): what it returns, the state it leaves a socket in that was *)
(* in state t, and errno.  The refusals that come before connect() is      *)
(* called leave errno as it is.                                            *)
(***************************************************************************)
cp_connect(t, host, number) ==
  IF host = "NULL" \/ number = 0 THEN {[ret |-> -2, tcp |-> t, errno |-> errno]}
  ELSE IF cp_inet_pton(host) # 1 THEN {[ret |-> -3, tcp |-> t, errno |-> errno]}
  ELSE CASE t = "syn" -> {[ret |-> -1, tcp |-> t, errno |-> "EINPROGRESS"]}
         [] t = "refused" -> {[ret |-> -1, tcp |-> "fresh", errno |-> "other"]}
         [] t = "fresh" -> {[ret |-> 0, tcp |-> "up", errno |-> errno],
                            [ret |-> -1, tcp |-> "syn", errno |-> "EINPROGRESS"],
                            [ret |-> -1, tcp |-> "fresh", errno |-> "other"]}
         [] OTHER -> {[ret |-> 0, tcp |-> t, errno |-> errno],
                      [ret |-> -1, tcp |-> t, errno |-> "EISCONN"]}

(* connect() counts 0 and errno = EISCONN as success. *)
Succeeds(r) == r.ret = 0 \/ r.errno = "EISCONN"

(***************************************************************************)
(* connect().  Success is reported to handle_connect_event(), which closes *)
(* the socket and deletes the object before 0 is returned.                 *)
(***************************************************************************)
Connect(o, host, number) ==
  /\ Program /\ Live(o) /\ obj[o].sock # None
  /\ \E r \in cp_connect(ksock[obj[o].sock].tcp, host, number) :
       /\ \/ /\ Succeeds(r)
             /\ handle_connect_event(o, r.errno)
             /\ misled' = misled \cup {x \in {o} : r.tcp \notin Up}
          \/ /\ ~Succeeds(r)
             /\ obj' = [obj EXCEPT ![o].connected = FALSE, ![o].connecting = TRUE]
             /\ ksock' = [ksock EXCEPT ![obj[o].sock].tcp = r.tcp]
             /\ errno' = r.errno
             /\ UNCHANGED <<handlers, misled>>
  /\ UNCHANGED <<server, port, program, alive>>

-----------------------------------------------------------------------------
(* cp_bind() gives the socket the port if the host can be read and the port is free. *)
cp_bind(host) == cp_inet_pton(host) = 1 /\ port = None

(***************************************************************************)
(* TCPServer's constructor: create_socket(), bind() and listen() of the    *)
(* TCPServerImpl, whose result nobody looks at.  On Linux a socket that  *)
(* was not bound listens all the same, on a port the kernel chooses.       *)
(***************************************************************************)
TCPServer(s, host, p) ==
  /\ Program /\ server[s].status = "none"
  /\ \E fd \in IF FreeFd = {} THEN {None} ELSE FreeFd :
       /\ server' = [server EXCEPT ![s] = [status |-> "live", sock |-> fd, map |-> MapOf(p)]]
       /\ IF fd = None
          THEN errno' = "other" /\ UNCHANGED <<handlers, ksock, port>>
          ELSE /\ add_channel(MapOf(p), fd, s)
               /\ ksock' = [ksock EXCEPT ![fd] = [by |-> s, tcp |->
                              IF cp_bind(host) \/ Platform = "linux" THEN "listen" ELSE "fresh"]]
               /\ port' = IF cp_bind(host) THEN fd ELSE port
               /\ UNCHANGED errno
  /\ UNCHANGED <<obj, program, misled, alive>>

(* ~TCPServer() takes the TCPServerImpl out of the map; its socket stays open. *)
DestroyServer(s) ==
  /\ Program /\ server[s].status = "live"
  /\ server' = [server EXCEPT ![s] = NoServer("deleted")]
  /\ handlers' = IF server[s].sock = None THEN handlers
                 ELSE [handlers EXCEPT ![server[s].map][server[s].sock] = None]
  /\ UNCHANGED <<obj, ksock, port, errno, program, misled, alive>>

-----------------------------------------------------------------------------
(* loop() on a map that is not empty; with a count it may return after any round. *)
RunLoop(p) ==
  /\ Program /\ Registered(MapOf(p)) # {}
  /\ running' = MapOf(p) /\ counted' \in BOOLEAN
  /\ UNCHANGED <<obj, server, handlers, ksock, port, errno, misled, alive>>

LoopReturns ==
  /\ alive /\ running # None
  /\ counted \/ Registered(running) = {}
  /\ running' = None /\ counted' = FALSE
  /\ UNCHANGED <<obj, server, handlers, ksock, port, errno, misled, alive>>

(* The states in which select() reports a socket. *)
ReadReady == {"data", "ended"} \cup (IF Platform = "linux" THEN {"fresh", "refused"} ELSE {})
WriteReady == {"up", "urgent"} \cup ReadReady
ExptReady == {"urgent"} \cup (IF Platform = "windows" THEN {"refused"} ELSE {})

(* The loop finds an object of the program at fd. *)
Visits(fd, o) == alive /\ running # None /\ handlers[running][fd] = o
Connecting(o) == ~obj[o].connected /\ obj[o].connecting

(***************************************************************************)
(* handle_connect_event() from handle_read_event() or handle_write_event():*)
(* the object is deleted, and handle_read() or handle_write() called on it.*)
(***************************************************************************)
ConnectEvent(o) ==
  /\ Connecting(o)
  /\ handle_connect_event(o, errno)
  /\ alive' \in BOOLEAN

(***************************************************************************)
(* handle_read(): BaseSocket's does nothing.  SocketHandler's receives and *)
(* drops what it gets, and closes the socket at the end of the stream and  *)
(* at any error.                                                           *)
(***************************************************************************)
HandleRead(fd, o) ==
  /\ ~Connecting(o)
  /\ CASE obj[o].class = "BaseSocket" -> UNCHANGED <<obj, handlers, ksock, errno>>
       [] ksock[fd].tcp = "data" -> /\ ksock' = [ksock EXCEPT ![fd].tcp = "up"]
                                    /\ UNCHANGED <<obj, handlers, errno>>
       [] OTHER -> /\ handle_close(o)
                   /\ errno' \in {"other"} \cup {e \in {errno} : ksock[fd].tcp = "ended"}
  /\ UNCHANGED alive

ReadEvent(fd) ==
  \E o \in Object :
    /\ Visits(fd, o) /\ ksock[fd].tcp \in ReadReady
    /\ ConnectEvent(o) \/ HandleRead(fd, o)
    /\ UNCHANGED <<server, port, program, misled>>

(* Mutant: connecting is not looked at. *)
WriteEvent_ignores_connecting(fd) == FALSE

(* handle_write_event(): only BaseSocket asks for it, and its handle_write() does nothing. *)
WriteEvent(fd) ==
  \E o \in Object :
    /\ Visits(fd, o) /\ ksock[fd].tcp \in WriteReady
    /\ obj[o].class = "BaseSocket"
    /\ ConnectEvent(o)
    /\ UNCHANGED <<server, port, program, misled>>

(* handle_expt_event(): getsockopt() fails here too, so the socket is closed. *)
ExptEvent(fd) ==
  \E o \in Object :
    /\ Visits(fd, o) /\ ksock[fd].tcp \in ExptReady
    /\ handle_close(o) /\ errno' = "other"
    /\ UNCHANGED <<server, port, program, misled, alive>>

(* A round without any of these; or the program does nothing, or is gone. *)
Nothing == UNCHANGED vars

Event(fd) == ReadEvent(fd) \/ WriteEvent(fd) \/ ExptEvent(fd)

Uses(o) ==
  \/ \E class \in Class, p \in Argument : Construct(o, class, p) \/ Adopt(o, class, p)
  \/ create_socket(o) \/ create_socket_fails(o) \/ ProgramCloses(o)
  \/ \E host \in Host, number \in {0, 1} : Connect(o, host, number)

Next ==
  \/ \E o \in Object : Uses(o)
  \/ \E s \in Server : DestroyServer(s) \/ \E host \in Host, p \in Argument : TCPServer(s, host, p)
  \/ \E p \in Argument : RunLoop(p)
  \/ LoopReturns \/ Nothing
  \/ \E fd \in Fd : Event(fd) \/ SynEnds(fd) \/ PeerActs(fd)

Spec == Init /\ [][Next]_vars

(* loop() comes to every socket with an event, and the kernel gives up a connect() some time. *)
FairSpec == Spec /\ \A fd \in Fd : WF_vars(Event(fd)) /\ WF_vars(SynEnds(fd))

-----------------------------------------------------------------------------
(* Objects, maps and sockets have their types. *)
TypeOK ==
  /\ obj \in [Object -> ObjectRecord]
  /\ server \in [Server -> [status : {"none", "live", "deleted"}, sock : Fd \cup {None}, map : Map]]
  /\ handlers \in [Map -> [Fd -> Object \cup Server \cup {None}]]
  /\ ksock \in [Fd -> [by : Object \cup Server \cup {None}, tcp : Tcp]]
  /\ port \in Fd \cup {None} /\ errno \in Errno
  /\ running \in Map \cup {None} /\ counted \in BOOLEAN
  /\ misled \subseteq Object /\ alive \in BOOLEAN

(***************************************************************************)
(* The maps own the objects: what is registered for a descriptor is alive, *)
(* has that descriptor, open, as its socket, and is in the map it was made *)
(* for.  An object in two entries would be deleted twice, one in the wrong *)
(* map would get no events.                                                *)
(***************************************************************************)
OwnedOnce ==
  \A m \in Map : \A fd \in Registered(m) :
    LET h == handlers[m][fd]
        r == IF h \in Object THEN obj[h] ELSE server[h]
    IN r.status = "live" /\ r.map = m /\ r.sock = fd /\ ksock[fd].by = h

(* How an object is gone whose socket stayed open. *)
Lost == {"aborted", "leaked"}

(***************************************************************************)
(* A socket is open without a handler for one of three reasons only, while *)
(* the process lives: ~TCPServer() left it so, a constructor deleted its   *)
(* object, or close() read its descriptor too late.  No step on one object *)
(* takes the entry or the socket of another.                               *)
(***************************************************************************)
OrphansKnown ==
  alive =>
    \A fd \in Fd \ (FreeFd \cup Registered("g_handlers") \cup Registered("sock_handlers")) :
      LET h == ksock[fd].by IN
      IF h \in Object THEN obj[h].status \in Lost ELSE server[h].status = "deleted"

(***************************************************************************)
(* connect() goes to its success branch, which closes the socket, only for *)
(* a socket the kernel has connected, although it reads errno after        *)
(* refusals that did not set it: no EISCONN is left over from another      *)
(* object's connect() to end a connection that is still being made.        *)
(***************************************************************************)
SuccessIsReal == misled = {}

(***************************************************************************)
(* An object does not stay connecting while loop() runs on its map (Linux):*)
(* the outcome is noticed, whether connect() was called in vain, refused   *)
(* later, or went well; a SocketHandler, which never asks for writability, *)
(* notices only when its peer sends or goes.                               *)
(***************************************************************************)
ConnectNoticed ==
  \A o \in Object :
    obj[o].connecting /\ running = obj[o].map /\ ~counted
      ~> \/ ~obj[o].connecting \/ ~alive
         \/ obj[o].class = "SocketHandler" /\ ksock[obj[o].sock].tcp = "up"
=============================================================================
