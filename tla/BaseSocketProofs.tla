-------------------------- MODULE BaseSocketProofs --------------------------
(***************************************************************************)
(* Theorems about BaseSocket, for any number of handlers, servers and      *)
(* descriptors and both platforms.                                         *)
(***************************************************************************)
EXTENDS BaseSocket, TLAPS

(***************************************************************************)
(* The converse of OwnedOnce: an object that has a socket is registered    *)
(* for it in its own map.  Only with both do two objects never share one.  *)
(***************************************************************************)
ObjectInv ==
  \A o \in Object :
    /\ obj[o].status # "live" => obj[o].sock = None
    /\ obj[o].sock # None => handlers[obj[o].map][obj[o].sock] = o

ServerInv ==
  \A s \in Server :
    server[s].sock # None => /\ server[s].status = "live"
                             /\ handlers[server[s].map][server[s].sock] = s

(***************************************************************************)
(* What OrphansKnown says, of every open socket: its maker still has it or *)
(* is gone in one of the known ways.  And no handler's socket listens.     *)
(***************************************************************************)
SocketInv ==
  \A fd \in Fd :
    LET h == ksock[fd].by IN
    /\ alive /\ h \in Object => obj[h].sock = fd \/ obj[h].status \in Lost
    /\ alive /\ h \in Server => server[h].sock = fd \/ server[h].status = "deleted"
    /\ h \in Object => ksock[fd].tcp # "listen"

(* No EISCONN outlives the connect() that met it: what follows sets errno anew. *)
ErrnoInv == errno # "EISCONN"

IInv == /\ TypeOK /\ OwnedOnce /\ SuccessIsReal
        /\ ObjectInv /\ ServerInv /\ SocketInv /\ ErrnoInv

-----------------------------------------------------------------------------
(* The names do not clash. *)
LEMMA Names ==
  /\ None \notin Fd /\ None \notin Object /\ None \notin Server /\ Object \cap Server = {}
  BY BaseSocketAssumption DEF BaseSocketAssumption

(* The argument p_handlers stands for a map. *)
LEMMA MapOfType == ASSUME NEW p \in Argument PROVE MapOf(p) \in Map
  BY DEF Argument, MapOf, Map

(* A deleted, an aborted and an unborn object are objects. *)
LEMMA NoObjectType ==
  ASSUME NEW status \in {"none", "live", "deleted", "aborted", "leaked"}
  PROVE  /\ NoObject(status) \in ObjectRecord
         /\ NoObject(status).status = status /\ NoObject(status).sock = None
  BY DEF NoObject, ObjectRecord, Class, Map

(* No object has been made, no socket opened. *)
LEMMA InitInv == Init => IInv
<1> SUFFICES ASSUME Init PROVE IInv
  OBVIOUS
<1>1. TypeOK
  BY NoObjectType DEF Init, TypeOK, NoServer, Closed, Map, Errno, Tcp
<1>2. OwnedOnce /\ SuccessIsReal
  BY NoObjectType DEF Init, OwnedOnce, Registered, SuccessIsReal
<1>3. ObjectInv /\ ServerInv
  BY NoObjectType DEF Init, ObjectInv, ServerInv, NoServer
<1>4. SocketInv /\ ErrnoInv
  BY Names DEF Init, SocketInv, Closed, ErrnoInv
<1> QED BY <1>1, <1>2, <1>3, <1>4 DEF IInv

(* OwnedOnce, entry by entry. *)
LEMMA OwnedEntry ==
  ASSUME IInv, NEW m \in Map, NEW fd \in Fd, handlers[m][fd] # None
  PROVE  /\ handlers[m][fd] \in Object => /\ obj[handlers[m][fd]].status = "live"
                                          /\ obj[handlers[m][fd]].map = m
                                          /\ obj[handlers[m][fd]].sock = fd
         /\ handlers[m][fd] \in Server => /\ server[handlers[m][fd]].status = "live"
                                          /\ server[handlers[m][fd]].map = m
                                          /\ server[handlers[m][fd]].sock = fd
         /\ ksock[fd].by = handlers[m][fd]
  BY Names DEF IInv, OwnedOnce, Registered

(***************************************************************************)
(* close() of a handler that has a socket: the entry of that very object   *)
(* goes, and its socket, which is nobody else's, or the object is lost.    *)
(***************************************************************************)
LEMMA CloseInv ==
  ASSUME IInv, NEW o \in Object, obj[o].sock # None, close(o),
         UNCHANGED <<server, port>>, alive, alive' \in BOOLEAN,
         errno' \in {errno, "other"}, running' \in Map \cup {None}, counted' \in BOOLEAN,
         SuccessIsReal'
  PROVE  IInv'
<1> DEFINE m == obj[o].map
           fd == obj[o].sock
<1>0. /\ obj \in [Object -> ObjectRecord] /\ m \in Map /\ fd \in Fd
      /\ handlers \in [Map -> [Fd -> Object \cup Server \cup {None}]]
      /\ ksock \in [Fd -> [by : Object \cup Server \cup {None}, tcp : Tcp]]
      /\ handlers[m][fd] = o /\ obj[o].status = "live"
  BY DEF IInv, TypeOK, ObjectRecord, ObjectInv
<1> HIDE DEF m, fd
<1>3. ksock[fd].by = o
  BY <1>0, Names, OwnedEntry
<1>1. PICK status \in {"deleted", "leaked"} :
        /\ obj' = [obj EXCEPT ![o] = NoObject(status)]
        /\ handlers' = [handlers EXCEPT ![m][fd] = None]
        /\ ksock' = IF status = "leaked" THEN ksock ELSE [ksock EXCEPT ![fd] = Closed]
  BY DEF close, m, fd
<1>2. /\ Closed \in [by : Object \cup Server \cup {None}, tcp : Tcp] /\ Closed.by = None
      /\ NoObject(status) \in ObjectRecord /\ NoObject(status).sock = None
      /\ NoObject(status).status = status
  BY NoObjectType DEF Closed, Tcp
<1>b. /\ \A g \in Fd \ {fd} : ksock'[g] = ksock[g]
      /\ (status = "leaked" /\ ksock'[fd] = ksock[fd]) \/ ksock'[fd].by = None
      /\ obj'[o].sock = None /\ obj'[o].status = status
  BY <1>0, <1>1, <1>2
<1>4. TypeOK'
  <2>1. obj' \in [Object -> ObjectRecord] /\ ksock' \in [Fd -> [by : Object \cup Server \cup {None}, tcp : Tcp]]
    BY <1>0, <1>1, <1>2
  <2>2. handlers' \in [Map -> [Fd -> Object \cup Server \cup {None}]]
    BY <1>0, <1>1
  <2>3. errno' \in Errno /\ misled' \subseteq Object
    BY DEF IInv, TypeOK, Errno, SuccessIsReal
  <2> QED BY <2>1, <2>2, <2>3 DEF IInv, TypeOK
<1>5. ASSUME NEW x \in Object, x # o PROVE obj'[x] = obj[x] /\ obj[x].sock # fd
  <2>1. ASSUME obj[x].sock = fd PROVE FALSE
    <3>1. obj[x].map \in Map /\ handlers[obj[x].map][fd] = x /\ x # None
      BY <1>0, <2>1, Names DEF IInv, TypeOK, ObjectRecord, ObjectInv
    <3>2. ksock[fd].by = x
      BY <1>0, <3>1, OwnedEntry
    <3> QED BY <1>3, <1>5, <3>2
  <2> QED BY <1>0, <1>1, <1>5, <2>1
<1>6. OwnedOnce'
  <2> SUFFICES ASSUME NEW n \in Map, NEW g \in Fd, handlers'[n][g] # None
               PROVE  LET h == handlers'[n][g] IN
                      /\ h \in Object => obj'[h].status = "live" /\ obj'[h].map = n /\ obj'[h].sock = g
                      /\ h \notin Object => server'[h].status = "live" /\ server'[h].map = n
                                            /\ server'[h].sock = g
                      /\ ksock'[g].by = h
    BY DEF OwnedOnce, Registered
  <2>1. handlers[n][g] # None /\ handlers'[n][g] = handlers[n][g] /\ ~(n = m /\ g = fd)
    BY <1>0, <1>1
  <2>2. handlers[n][g] # o /\ g # fd
    BY <1>0, <1>3, <2>1, OwnedEntry DEF m, fd
  <2>3. handlers[n][g] \in Object \cup Server
    BY <1>0, <2>1
  <2> QED BY <1>0, <1>1, <1>b, <1>5, <2>1, <2>2, <2>3, OwnedEntry
<1>8. ObjectInv'
  <2> SUFFICES ASSUME NEW x \in Object
               PROVE  /\ obj'[x].status # "live" => obj'[x].sock = None
                      /\ obj'[x].sock # None => handlers'[obj'[x].map][obj'[x].sock] = x
    BY DEF ObjectInv
  <2>1. CASE x = o
    BY <1>0, <1>1, <1>2, <2>1
  <2>2. CASE x # o
    <3>1. obj'[x] = obj[x] /\ obj[x].sock # fd /\ obj[x].map \in Map /\ obj[x].sock \in Fd \cup {None}
      BY <1>0, <1>5, <2>2 DEF ObjectRecord
    <3> QED BY <1>0, <1>1, <3>1 DEF IInv, ObjectInv
  <2> QED BY <2>1, <2>2
<1>9. ServerInv'
  <2> SUFFICES ASSUME NEW s \in Server, server[s].sock # None
               PROVE  server[s].status = "live" /\ handlers'[server[s].map][server[s].sock] = s
    BY DEF ServerInv
  <2>1. /\ server[s].status = "live" /\ handlers[server[s].map][server[s].sock] = s
        /\ server[s].map \in Map /\ server[s].sock \in Fd
    BY DEF IInv, TypeOK, ServerInv
  <2>2. s # o
    BY Names
  <2> QED BY <1>0, <1>1, <2>1, <2>2
<1>10. SocketInv' /\ ErrnoInv'
  <2>1. ASSUME NEW g \in Fd, g # fd PROVE ksock'[g] = ksock[g] /\ ksock[g].by # o
    BY <1>0, <1>b, <2>1 DEF IInv, SocketInv, fd, Lost
  <2>3. ErrnoInv'
    BY DEF IInv, ErrnoInv
  <2>4. ASSUME NEW g \in Fd, NEW h, h = ksock'[g].by
        PROVE  /\ alive' /\ h \in Object => obj'[h].sock = g \/ obj'[h].status \in Lost
               /\ alive' /\ h \in Server => server'[h].sock = g \/ server'[h].status = "deleted"
               /\ h \in Object => ksock'[g].tcp # "listen"
    <3>1. CASE g = fd
      <4>1. CASE h = None
        BY <4>1, Names
      <4>2. CASE h # None
        <5>1. h = o /\ obj'[h].status \in Lost /\ ksock'[g].tcp = ksock[g].tcp /\ h \notin Server
          BY <1>b, <1>3, <2>4, <3>1, <4>2, Names DEF Lost
        <5> QED BY <1>3, <3>1, <5>1 DEF IInv, SocketInv
      <4> QED BY <4>1, <4>2
    <3>2. CASE g # fd
      <4>1. ksock'[g] = ksock[g] /\ h = ksock[g].by /\ h # o
        BY <2>1, <2>4, <3>2
      <4>2. h \in Object => obj'[h] = obj[h]
        BY <1>5, <4>1
      <4> QED BY <4>1, <4>2 DEF IInv, SocketInv
    <3> QED BY <3>1, <3>2
  <2> QED BY <2>3, <2>4 DEF SocketInv
<1> QED BY <1>4, <1>6, <1>8, <1>9, <1>10 DEF IInv

(* The step changes at most the flags of objects. *)
FlagsOnly ==
  /\ obj' \in [Object -> ObjectRecord]
  /\ \A x \in Object : /\ obj'[x].status = obj[x].status /\ obj'[x].sock = obj[x].sock
                       /\ obj'[x].map = obj[x].map

(***************************************************************************)
(* A step that registers nothing and closes nothing: at most the state of  *)
(* one socket changes, and the flags of the object that has it.            *)
(***************************************************************************)
LEMMA FlagsInv ==
  ASSUME IInv, NEW fd \in Fd, NEW t \in Tcp, ksock' = [ksock EXCEPT ![fd].tcp = t],
         FlagsOnly, t = "listen" => ksock[fd].tcp = "listen",
         UNCHANGED <<server, handlers, port, running, counted, misled, alive>>,
         errno' \in {"other", "EINPROGRESS", errno}
  PROVE  IInv'
<1>0. /\ ksock \in [Fd -> [by : Object \cup Server \cup {None}, tcp : Tcp]]
      /\ \A g \in Fd : ksock'[g].by = ksock[g].by
      /\ \A g \in Fd \ {fd} : ksock'[g] = ksock[g]
      /\ ksock'[fd].tcp = t
      /\ ksock' \in [Fd -> [by : Object \cup Server \cup {None}, tcp : Tcp]]
  BY DEF IInv, TypeOK
<1>a. /\ obj' \in [Object -> ObjectRecord]
      /\ \A x \in Object : /\ obj'[x].status = obj[x].status /\ obj'[x].sock = obj[x].sock
                           /\ obj'[x].map = obj[x].map
  BY DEF FlagsOnly
<1>1. TypeOK'
  BY <1>0, <1>a DEF IInv, TypeOK, Errno
<1>2. OwnedOnce'
  BY <1>0, <1>a, OwnedEntry DEF OwnedOnce, Registered, IInv, TypeOK
<1>4. ObjectInv' /\ ServerInv'
  BY <1>a DEF IInv, ObjectInv, ServerInv
<1>5. SocketInv'
  BY <1>0, <1>a DEF IInv, SocketInv
<1>6. SuccessIsReal' /\ ErrnoInv'
  BY DEF IInv, SuccessIsReal, ErrnoInv
<1> QED BY <1>1, <1>2, <1>4, <1>5, <1>6 DEF IInv

(***************************************************************************)
(* add_channel() of a descriptor the kernel has just handed out: it was in *)
(* no map, because everything in a map is open.                            *)
(***************************************************************************)
LEMMA FreshFd ==
  ASSUME IInv, NEW fd \in FreeFd
  PROVE  /\ fd \in Fd /\ \A m \in Map : handlers[m][fd] = None
         /\ \A o \in Object : obj[o].sock # fd
         /\ \A s \in Server : server[s].sock # fd
<1>1. fd \in Fd /\ ksock[fd].by = None
  BY DEF FreeFd
<1>2. ASSUME NEW m \in Map PROVE handlers[m][fd] = None
  BY <1>1, OwnedEntry
<1>3. ASSUME NEW o \in Object PROVE obj[o].sock # fd
  BY <1>1, <1>2, Names DEF IInv, TypeOK, ObjectRecord, ObjectInv
<1>4. ASSUME NEW s \in Server PROVE server[s].sock # fd
  BY <1>1, <1>2, Names DEF IInv, TypeOK, ServerInv
<1> QED BY <1>1, <1>2, <1>3, <1>4

(* An object gets a socket: create_socket(), or the constructor with an accepted one. *)
LEMMA RegisterObject ==
  ASSUME IInv, alive, NEW o \in Object, NEW fd \in FreeFd, NEW r \in ObjectRecord,
         NEW t \in Tcp, t # "listen", r.status = "live", r.sock = fd,
         obj[o].sock = None, obj[o].status \notin Lost,
         obj' = [obj EXCEPT ![o] = r], handlers' = [handlers EXCEPT ![r.map][fd] = o],
         ksock' = [ksock EXCEPT ![fd] = [by |-> o, tcp |-> t]],
         UNCHANGED <<server, port, running, counted, misled, alive>>, errno' \in {errno, "other"}
  PROVE  IInv'
<1>0. /\ obj \in [Object -> ObjectRecord] /\ r.map \in Map /\ fd \in Fd
      /\ handlers \in [Map -> [Fd -> Object \cup Server \cup {None}]]
      /\ ksock \in [Fd -> [by : Object \cup Server \cup {None}, tcp : Tcp]]
  BY FreshFd DEF IInv, TypeOK, ObjectRecord
<1>1. [by |-> o, tcp |-> t] \in [by : Object \cup Server \cup {None}, tcp : Tcp]
  OBVIOUS
<1>2. TypeOK'
  <2>1. obj' \in [Object -> ObjectRecord] /\ ksock' \in [Fd -> [by : Object \cup Server \cup {None}, tcp : Tcp]]
    BY <1>0, <1>1
  <2>2. handlers' \in [Map -> [Fd -> Object \cup Server \cup {None}]]
    BY <1>0
  <2> QED BY <2>1, <2>2 DEF IInv, TypeOK, Errno
<1>3. /\ ksock'[fd] = [by |-> o, tcp |-> t] /\ handlers'[r.map][fd] = o /\ obj'[o] = r
      /\ \A g \in Fd \ {fd} : ksock'[g] = ksock[g]
      /\ \A x \in Object \ {o} : obj'[x] = obj[x]
      /\ \A m \in Map, g \in Fd : ~(m = r.map /\ g = fd) => handlers'[m][g] = handlers[m][g]
  BY <1>0
<1>4. ASSUME NEW m \in Map, NEW g \in Fd, handlers[m][g] # None PROVE g # fd /\ handlers[m][g] # o
  <2>1. g # fd
    BY <1>4, FreshFd
  <2>2. handlers[m][g] # o
    BY <1>0, <1>4, OwnedEntry, Names
  <2> QED BY <2>1, <2>2
<1>5. OwnedOnce'
  <2> SUFFICES ASSUME NEW n \in Map, NEW g \in Fd, handlers'[n][g] # None
               PROVE  LET h == handlers'[n][g] IN
                      /\ h \in Object => obj'[h].status = "live" /\ obj'[h].map = n /\ obj'[h].sock = g
                      /\ h \notin Object => server'[h].status = "live" /\ server'[h].map = n
                                            /\ server'[h].sock = g
                      /\ ksock'[g].by = h
    BY DEF OwnedOnce, Registered
  <2>1. CASE n = r.map /\ g = fd
    BY <1>3, <2>1
  <2>2. CASE ~(n = r.map /\ g = fd)
    <3>1. handlers'[n][g] = handlers[n][g] /\ handlers[n][g] \in Object \cup Server
      BY <1>0, <1>3, <2>2
    <3> QED BY <1>3, <1>4, <3>1, OwnedEntry
  <2> QED BY <2>1, <2>2
<1>6. ObjectInv'
  <2> SUFFICES ASSUME NEW x \in Object
               PROVE  /\ obj'[x].status # "live" => obj'[x].sock = None
                      /\ obj'[x].sock # None => handlers'[obj'[x].map][obj'[x].sock] = x
    BY DEF ObjectInv
  <2>1. CASE x = o
    BY <1>0, <1>3, <2>1, Names
  <2>2. CASE x # o
    <3>1. obj'[x] = obj[x] /\ obj[x].sock # fd /\ obj[x].map \in Map /\ obj[x].sock \in Fd \cup {None}
      BY <1>0, <1>3, <2>2, FreshFd DEF ObjectRecord
    <3>2. /\ obj[x].status # "live" => obj[x].sock = None
          /\ obj[x].sock # None => handlers[obj[x].map][obj[x].sock] = x
      BY <3>1 DEF IInv, ObjectInv
    <3> QED BY <1>3, <3>1, <3>2
  <2> QED BY <2>1, <2>2
<1>7. ServerInv'
  BY <1>3, FreshFd DEF IInv, TypeOK, ServerInv
<1>8. SocketInv'
  <2> SUFFICES ASSUME NEW g \in Fd, NEW h, h = ksock'[g].by
               PROVE  /\ alive' /\ h \in Object => obj'[h].sock = g \/ obj'[h].status \in Lost
                      /\ alive' /\ h \in Server => server'[h].sock = g \/ server'[h].status = "deleted"
                      /\ h \in Object => ksock'[g].tcp # "listen"
    BY DEF SocketInv
  <2>1. CASE g = fd
    BY <1>3, <2>1, Names
  <2>2. CASE g # fd
    <3>1. h = ksock[g].by /\ ksock'[g] = ksock[g]
      BY <1>3, <2>2
    <3>2. h # o
      BY <3>1, Names DEF IInv, SocketInv
    <3> QED BY <1>3, <3>1, <3>2 DEF IInv, SocketInv
  <2> QED BY <2>1, <2>2
<1>9. SuccessIsReal' /\ ErrnoInv'
  BY DEF IInv, SuccessIsReal, ErrnoInv
<1> QED BY <1>2, <1>5, <1>6, <1>7, <1>8, <1>9 DEF IInv

(***************************************************************************)
(* A constructor leaves an open socket without an entry: it aborts itself, *)
(* or dereferences the null map and the process is gone.                   *)
(***************************************************************************)
LEMMA OrphanInv ==
  ASSUME IInv, alive, NEW o \in Object, NEW fd \in FreeFd, NEW t \in Tcp, t # "listen",
         obj[o].sock = None, obj[o].status \notin Lost,
         \/ obj' = [obj EXCEPT ![o] = NoObject("aborted")]
         \/ obj' = obj /\ ~alive',
         ksock' = [ksock EXCEPT ![fd] = [by |-> o, tcp |-> t]],
         UNCHANGED <<server, handlers, port, running, counted, misled>>, errno' \in {errno, "other"},
         alive' \in BOOLEAN
  PROVE  IInv'
<1>0. /\ obj \in [Object -> ObjectRecord] /\ fd \in Fd
      /\ ksock \in [Fd -> [by : Object \cup Server \cup {None}, tcp : Tcp]]
      /\ \A x \in Object : obj[x].sock \in Fd \cup {None}
      /\ \A x \in Object : obj[x].map \in Map
  BY FreshFd DEF IInv, TypeOK, ObjectRecord
<1>1. [by |-> o, tcp |-> t] \in [by : Object \cup Server \cup {None}, tcp : Tcp]
  OBVIOUS
<1>2. /\ obj' \in [Object -> ObjectRecord] /\ \A x \in Object \ {o} : obj'[x] = obj[x]
      /\ obj'[o].sock = None /\ (alive' => obj'[o].status \in Lost)
  BY <1>0, NoObjectType DEF IInv, ObjectInv, Lost
<1>3. /\ ksock'[fd] = [by |-> o, tcp |-> t] /\ \A g \in Fd \ {fd} : ksock'[g] = ksock[g]
      /\ ksock' \in [Fd -> [by : Object \cup Server \cup {None}, tcp : Tcp]]
  BY <1>0, <1>1
<1>4. TypeOK'
  BY <1>2, <1>3 DEF IInv, TypeOK, Errno
<1>5. OwnedOnce'
  <2> SUFFICES ASSUME NEW n \in Map, NEW g \in Fd, handlers[n][g] # None
               PROVE  LET h == handlers[n][g] IN
                      /\ h \in Object => obj'[h].status = "live" /\ obj'[h].map = n /\ obj'[h].sock = g
                      /\ h \notin Object => server'[h].status = "live" /\ server'[h].map = n
                                            /\ server'[h].sock = g
                      /\ ksock'[g].by = h
    BY DEF OwnedOnce, Registered
  <2>1. g # fd /\ handlers[n][g] # o /\ handlers[n][g] \in Object \cup Server
    BY FreshFd, OwnedEntry, Names DEF IInv, TypeOK
  <2> QED BY <1>2, <1>3, <2>1, OwnedEntry
<1>6. ObjectInv'
  <2> SUFFICES ASSUME NEW x \in Object
               PROVE  /\ obj'[x].status # "live" => obj'[x].sock = None
                      /\ obj'[x].sock # None => handlers[obj'[x].map][obj'[x].sock] = x
    BY DEF ObjectInv
  <2>1. CASE x = o
    BY <1>2, <2>1
  <2>2. CASE x # o
    <3>1. obj'[x] = obj[x] /\ obj[x].sock # fd
      BY <1>2, <2>2, FreshFd
    <3> QED BY <1>0, <1>3, <3>1 DEF IInv, ObjectInv
  <2> QED BY <2>1, <2>2
<1>7. ServerInv' /\ SuccessIsReal' /\ ErrnoInv'
  BY DEF IInv, ServerInv, SuccessIsReal, ErrnoInv
<1>8. SocketInv'
  <2> SUFFICES ASSUME NEW g \in Fd, NEW h, h = ksock'[g].by
               PROVE  /\ alive' /\ h \in Object => obj'[h].sock = g \/ obj'[h].status \in Lost
                      /\ alive' /\ h \in Server => server'[h].sock = g \/ server'[h].status = "deleted"
                      /\ h \in Object => ksock'[g].tcp # "listen"
    BY DEF SocketInv
  <2>1. CASE g = fd
    BY <1>2, <1>3, <2>1, Names
  <2>2. CASE g # fd
    <3>1. h = ksock[g].by /\ ksock'[g] = ksock[g]
      BY <1>3, <2>2
    <3>2. h # o
      BY <3>1, Names DEF IInv, SocketInv
    <3> QED BY <1>2, <3>1, <3>2 DEF IInv, SocketInv
  <2> QED BY <2>1, <2>2
<1> QED BY <1>4, <1>5, <1>6, <1>7, <1>8 DEF IInv

-----------------------------------------------------------------------------
(* TCPServer's constructor, with or without a descriptor left. *)
LEMMA ServerMade ==
  ASSUME IInv, NEW s \in Server, NEW host \in Host, NEW p \in Argument, TCPServer(s, host, p)
  PROVE  IInv'
<1> DEFINE m == MapOf(p)
<1>0. /\ server \in [Server -> [status : {"none", "live", "deleted"}, sock : Fd \cup {None}, map : Map]]
      /\ handlers \in [Map -> [Fd -> Object \cup Server \cup {None}]]
      /\ ksock \in [Fd -> [by : Object \cup Server \cup {None}, tcp : Tcp]]
      /\ m \in Map /\ alive /\ server[s].status = "none" /\ server[s].sock = None
      /\ UNCHANGED <<obj, running, counted, misled, alive>>
  BY MapOfType DEF TCPServer, Program, program, IInv, TypeOK, ServerInv
<1>1. PICK fd \in IF FreeFd = {} THEN {None} ELSE FreeFd :
        /\ server' = [server EXCEPT ![s] = [status |-> "live", sock |-> fd, map |-> m]]
        /\ IF fd = None
           THEN errno' = "other" /\ UNCHANGED <<handlers, ksock, port>>
           ELSE /\ add_channel(m, fd, s)
                /\ ksock' = [ksock EXCEPT ![fd] = [by |-> s, tcp |->
                               IF cp_bind(host) \/ Platform = "linux" THEN "listen" ELSE "fresh"]]
                /\ port' = IF cp_bind(host) THEN fd ELSE port
                /\ UNCHANGED errno
  BY DEF TCPServer
<1> HIDE DEF m
<1>2. ErrnoInv' /\ SuccessIsReal' /\ errno' \in Errno
  BY <1>0, <1>1 DEF IInv, ErrnoInv, SuccessIsReal, TypeOK, Errno
<1>3. ASSUME NEW g \in Fd PROVE ksock[g].by # s
  BY <1>0, Names DEF IInv, SocketInv
<1>4. /\ \A x \in Server \ {s} : server'[x] = server[x]
      /\ server'[s].status = "live" /\ server'[s].sock = fd /\ server'[s].map = m
  BY <1>0, <1>1
<1>5. CASE fd = None
  <2>1. TypeOK'
    BY <1>0, <1>1, <1>2, <1>5 DEF IInv, TypeOK
  <2>2. OwnedOnce'
    <3> SUFFICES ASSUME NEW n \in Map, NEW g \in Fd, handlers[n][g] # None
                 PROVE  LET h == handlers[n][g] IN
                        /\ h \in Object => obj[h].status = "live" /\ obj[h].map = n /\ obj[h].sock = g
                        /\ h \notin Object => server'[h].status = "live" /\ server'[h].map = n
                                              /\ server'[h].sock = g
                        /\ ksock[g].by = h
      BY <1>0, <1>1, <1>5 DEF OwnedOnce, Registered
    <3>1. handlers[n][g] # s /\ handlers[n][g] \in Object \cup Server
      BY <1>0, <1>3, OwnedEntry
    <3> QED BY <1>4, <3>1, OwnedEntry
  <2>3. ObjectInv'
    BY <1>0, <1>1, <1>5 DEF IInv, ObjectInv
  <2>4. ServerInv' /\ SocketInv'
    BY <1>0, <1>1, <1>3, <1>4, <1>5 DEF IInv, ServerInv, SocketInv
  <2> QED BY <1>2, <2>1, <2>2, <2>3, <2>4 DEF IInv
<1>6. CASE fd # None
  <2>0. fd \in FreeFd /\ fd \in Fd
    BY <1>1, <1>6 DEF FreeFd
  <2>1. PICK t \in {"listen", "fresh"} :
          /\ handlers' = [handlers EXCEPT ![m][fd] = s]
          /\ ksock' = [ksock EXCEPT ![fd] = [by |-> s, tcp |-> t]]
          /\ port' \in {fd, port}
    BY <1>1, <1>6 DEF add_channel
  <2>2. /\ handlers'[m][fd] = s /\ ksock'[fd] = [by |-> s, tcp |-> t]
        /\ \A g \in Fd \ {fd} : ksock'[g] = ksock[g]
        /\ \A n \in Map, g \in Fd : ~(n = m /\ g = fd) => handlers'[n][g] = handlers[n][g]
    BY <1>0, <2>0, <2>1
  <2>3. TypeOK'
    <3>1. [by |-> s, tcp |-> t] \in [by : Object \cup Server \cup {None}, tcp : Tcp]
      BY DEF Tcp
    <3>2. handlers' \in [Map -> [Fd -> Object \cup Server \cup {None}]]
      BY <1>0, <2>0, <2>1
    <3>3. ksock' \in [Fd -> [by : Object \cup Server \cup {None}, tcp : Tcp]]
      BY <1>0, <2>0, <2>1, <3>1
    <3>4. server' \in [Server -> [status : {"none", "live", "deleted"}, sock : Fd \cup {None}, map : Map]]
      BY <1>0, <1>1, <2>0
    <3> QED BY <1>0, <1>2, <2>0, <2>1, <3>2, <3>3, <3>4 DEF IInv, TypeOK
  <2>4. OwnedOnce'
    <3> SUFFICES ASSUME NEW n \in Map, NEW g \in Fd, handlers'[n][g] # None
                 PROVE  LET h == handlers'[n][g] IN
                        /\ h \in Object => obj[h].status = "live" /\ obj[h].map = n /\ obj[h].sock = g
                        /\ h \notin Object => server'[h].status = "live" /\ server'[h].map = n
                                              /\ server'[h].sock = g
                        /\ ksock'[g].by = h
      BY <1>0 DEF OwnedOnce, Registered
    <3>1. CASE n = m /\ g = fd
      BY <1>4, <2>2, <3>1, Names
    <3>2. CASE ~(n = m /\ g = fd)
      <4>1. handlers'[n][g] = handlers[n][g] /\ handlers[n][g] \in Object \cup Server
        BY <1>0, <2>2, <3>2
      <4>2. handlers[n][g] # s /\ g # fd
        BY <1>3, <2>0, <4>1, OwnedEntry, FreshFd
      <4> QED BY <1>4, <2>2, <4>1, <4>2, OwnedEntry
    <3> QED BY <3>1, <3>2
  <2>5. ObjectInv'
    <3> SUFFICES ASSUME NEW x \in Object
                 PROVE  /\ obj[x].status # "live" => obj[x].sock = None
                        /\ obj[x].sock # None => handlers'[obj[x].map][obj[x].sock] = x
      BY <1>0 DEF ObjectInv
    <3>1. obj[x].sock # fd /\ obj[x].map \in Map /\ obj[x].sock \in Fd \cup {None}
      BY <2>0, FreshFd DEF IInv, TypeOK, ObjectRecord
    <3> QED BY <2>2, <3>1 DEF IInv, ObjectInv
  <2>6. ServerInv'
    <3> SUFFICES ASSUME NEW x \in Server, server'[x].sock # None
                 PROVE  server'[x].status = "live" /\ handlers'[server'[x].map][server'[x].sock] = x
      BY DEF ServerInv
    <3>1. CASE x = s
      BY <1>4, <2>2, <3>1
    <3>2. CASE x # s
      BY <1>0, <1>4, <2>0, <2>2, <3>2, FreshFd DEF IInv, ServerInv
    <3> QED BY <3>1, <3>2
  <2>7. SocketInv'
    <3> SUFFICES ASSUME NEW g \in Fd, NEW h, h = ksock'[g].by
                 PROVE  /\ h \in Object => obj[h].sock = g \/ obj[h].status \in Lost
                        /\ h \in Server => server'[h].sock = g \/ server'[h].status = "deleted"
                        /\ h \in Object => ksock'[g].tcp # "listen"
      BY <1>0 DEF SocketInv
    <3>1. CASE g = fd
      BY <1>4, <2>2, <3>1, Names
    <3>2. CASE g # fd
      <4>1. h = ksock[g].by /\ ksock'[g] = ksock[g] /\ h # s
        BY <1>3, <2>2, <3>2
      <4> QED BY <1>0, <1>4, <4>1 DEF IInv, SocketInv
    <3> QED BY <3>1, <3>2
  <2> QED BY <1>2, <2>3, <2>4, <2>5, <2>6, <2>7 DEF IInv
<1> QED BY <1>5, <1>6

(* ~TCPServer() takes its own entry out of the map and no other. *)
LEMMA ServerDestroyed == ASSUME IInv, NEW s \in Server, DestroyServer(s) PROVE IInv'
<1>0. /\ server \in [Server -> [status : {"none", "live", "deleted"}, sock : Fd \cup {None}, map : Map]]
      /\ handlers \in [Map -> [Fd -> Object \cup Server \cup {None}]]
      /\ server' = [server EXCEPT ![s] = NoServer("deleted")]
      /\ handlers' = IF server[s].sock = None THEN handlers
                     ELSE [handlers EXCEPT ![server[s].map][server[s].sock] = None]
      /\ UNCHANGED <<obj, ksock, port, errno, running, counted, misled, alive>>
      /\ server[s].map \in Map /\ server[s].sock \in Fd \cup {None}
  BY DEF DestroyServer, program, IInv, TypeOK
<1>1. /\ NoServer("deleted") \in [status : {"none", "live", "deleted"}, sock : Fd \cup {None}, map : Map]
      /\ NoServer("deleted").sock = None /\ NoServer("deleted").status = "deleted"
  BY DEF NoServer, Map
<1>2. /\ handlers' \in [Map -> [Fd -> Object \cup Server \cup {None}]]
      /\ \A n \in Map, g \in Fd :
           IF n = server[s].map /\ g = server[s].sock THEN handlers'[n][g] = None
           ELSE handlers'[n][g] = handlers[n][g]
  BY <1>0, Names
<1>3. /\ server' \in [Server -> [status : {"none", "live", "deleted"}, sock : Fd \cup {None}, map : Map]]
      /\ \A x \in Server \ {s} : server'[x] = server[x]
      /\ server'[s].sock = None /\ server'[s].status = "deleted"
  BY <1>0, <1>1
<1>4. TypeOK'
  BY <1>0, <1>2, <1>3 DEF IInv, TypeOK
<1>a. obj' = obj /\ ksock' = ksock
  BY <1>0
<1>5. OwnedOnce'
  <2> SUFFICES ASSUME NEW n \in Map, NEW g \in Fd, handlers'[n][g] # None
               PROVE  LET h == handlers'[n][g] IN
                      /\ h \in Object => obj[h].status = "live" /\ obj[h].map = n /\ obj[h].sock = g
                      /\ h \notin Object => server'[h].status = "live" /\ server'[h].map = n
                                            /\ server'[h].sock = g
                      /\ ksock[g].by = h
    BY <1>a DEF OwnedOnce, Registered
  <2>1. /\ handlers'[n][g] = handlers[n][g] /\ ~(n = server[s].map /\ g = server[s].sock)
        /\ handlers[n][g] \in Object \cup Server
    BY <1>0, <1>2
  <2>2. handlers[n][g] # s
    BY <2>1, OwnedEntry
  <2> QED BY <1>3, <2>1, <2>2, OwnedEntry
<1>6. ObjectInv'
  <2> SUFFICES ASSUME NEW x \in Object, obj[x].sock # None
               PROVE  handlers'[obj[x].map][obj[x].sock] = x
    BY <1>0 DEF IInv, ObjectInv
  <2>1. /\ obj[x].map \in Map /\ obj[x].sock \in Fd
        /\ handlers[obj[x].map][obj[x].sock] = x
    BY DEF IInv, TypeOK, ObjectRecord, ObjectInv
  <2>2. ~(obj[x].map = server[s].map /\ obj[x].sock = server[s].sock)
    BY <2>1, Names DEF IInv, ServerInv
  <2> QED BY <1>2, <2>1, <2>2
<1>7. ServerInv'
  <2> SUFFICES ASSUME NEW x \in Server, server'[x].sock # None
               PROVE  server'[x].status = "live" /\ handlers'[server'[x].map][server'[x].sock] = x
    BY DEF ServerInv
  <2>1. x # s /\ server'[x] = server[x] /\ server[x].map \in Map /\ server[x].sock \in Fd
    BY <1>0, <1>3
  <2>2. server[x].status = "live" /\ handlers[server[x].map][server[x].sock] = x
    BY <2>1 DEF IInv, ServerInv
  <2>3. ~(server[x].map = server[s].map /\ server[x].sock = server[s].sock)
    BY <2>1, <2>2 DEF IInv, ServerInv
  <2> QED BY <1>2, <2>1, <2>2, <2>3
<1>8. SocketInv'
  BY <1>0, <1>3 DEF IInv, SocketInv
<1>9. SuccessIsReal' /\ ErrnoInv'
  BY <1>0 DEF IInv, SuccessIsReal, ErrnoInv
<1> QED BY <1>4, <1>5, <1>6, <1>7, <1>8, <1>9 DEF IInv

-----------------------------------------------------------------------------
(* A step that changes errno, the flags of loop() or nothing. *)
LEMMA IdleInv ==
  ASSUME IInv, UNCHANGED <<obj, server, handlers, ksock, port, misled, alive>>,
         errno' \in {errno, "other"}, running' \in Map \cup {None}, counted' \in BOOLEAN
  PROVE  IInv'
<1>1. TypeOK'
  BY DEF IInv, TypeOK, Errno
<1>2. OwnedOnce' /\ SuccessIsReal'
  BY DEF IInv, OwnedOnce, Registered, SuccessIsReal
<1>3. ObjectInv' /\ ServerInv' /\ SocketInv' /\ ErrnoInv'
  BY DEF IInv, ObjectInv, ServerInv, SocketInv, ErrnoInv
<1> QED BY <1>1, <1>2, <1>3 DEF IInv

(* The constructors. *)
LEMMA Constructed ==
  ASSUME IInv, NEW o \in Object, NEW class \in Class, NEW p \in Argument,
         Construct(o, class, p) \/ Adopt(o, class, p)
  PROVE  IInv'
<1>0. /\ alive /\ obj \in [Object -> ObjectRecord] /\ obj[o] \in ObjectRecord
      /\ obj[o].status = "none" /\ obj[o].sock = None
  BY DEF Construct, Adopt, Program, IInv, TypeOK, ObjectInv, ObjectRecord
<1>1. CASE Construct(o, class, p)
  <2> DEFINE r == [obj[o] EXCEPT !.status = "live", !.class = class, !.map = MapOf(p)]
  <2>1. /\ r \in ObjectRecord /\ r.status = "live" /\ r.sock = None
    BY <1>0, MapOfType DEF ObjectRecord
  <2>2. /\ obj' = [obj EXCEPT ![o] = r]
        /\ UNCHANGED <<server, handlers, ksock, port, errno, running, counted, misled, alive>>
    BY <1>1 DEF Construct, program
  <2> HIDE DEF r
  <2>3. obj'[o] = r /\ \A x \in Object \ {o} : obj'[x] = obj[x]
    BY <1>0, <2>2
  <2>4. TypeOK'
    BY <1>0, <2>1, <2>2 DEF IInv, TypeOK
  <2>5. OwnedOnce'
    <3> SUFFICES ASSUME NEW n \in Map, NEW g \in Fd, handlers[n][g] # None
                 PROVE  LET h == handlers[n][g] IN
                        /\ h \in Object => obj'[h].status = "live" /\ obj'[h].map = n /\ obj'[h].sock = g
                        /\ h \notin Object => server[h].status = "live" /\ server[h].map = n
                                              /\ server[h].sock = g
                        /\ ksock[g].by = h
      BY <2>2 DEF OwnedOnce, Registered
    <3>1. handlers[n][g] # o /\ handlers[n][g] \in Object \cup Server
      BY <1>0, OwnedEntry DEF IInv, TypeOK
    <3> QED BY <2>3, <3>1, OwnedEntry
  <2>6. ObjectInv'
    BY <2>1, <2>2, <2>3 DEF IInv, ObjectInv
  <2>7. SocketInv'
    <3>1. \A g \in Fd : ksock[g].by # o
      BY <1>0, Names DEF IInv, SocketInv, Lost
    <3> QED BY <2>2, <2>3, <3>1 DEF IInv, SocketInv
  <2>8. ServerInv' /\ SuccessIsReal' /\ ErrnoInv'
    BY <2>2 DEF IInv, ServerInv, SuccessIsReal, ErrnoInv
  <2> QED BY <2>4, <2>5, <2>6, <2>7, <2>8 DEF IInv
<1>2. CASE Adopt(o, class, p)
  <2>1. PICK c \in create_connection : \E name \in cp_getpeername(c.tcp) :
       /\ ksock' = [ksock EXCEPT ![c.fd] = [by |-> o, tcp |-> c.tcp]]
       /\ \/ /\ p # "nullptr" /\ name # "other"
             /\ add_channel(p, c.fd, o)
             /\ obj' = [obj EXCEPT ![o] = [@ EXCEPT !.status = "live", !.class = class,
                          !.sock = c.fd, !.map = p, !.connected = (name = "0")]]
             /\ errno' = IF name = "0" THEN errno ELSE "other"
             /\ UNCHANGED alive
          \/ /\ p # "nullptr" /\ name = "other"
             /\ obj' = [obj EXCEPT ![o] = NoObject("aborted")]
             /\ errno' = "other" /\ alive' \in BOOLEAN
             /\ UNCHANGED handlers
          \/ /\ p = "nullptr" /\ alive' = FALSE
             /\ UNCHANGED <<obj, handlers, errno>>
    BY <1>2 DEF Adopt
  <2>2. /\ c.fd \in FreeFd /\ c.fd \in Fd /\ c.tcp \in Up /\ c.tcp \in Tcp /\ c.tcp # "listen"
        /\ UNCHANGED <<server, port, running, counted, misled>>
    BY <1>2 DEF Adopt, program, create_connection, FreeFd, Up, Tcp
  <2>3. CASE /\ p # "nullptr" /\ UNCHANGED alive /\ handlers' = [handlers EXCEPT ![p][c.fd] = o]
             /\ errno' \in {errno, "other"}
             /\ \E b \in BOOLEAN :
                  obj' = [obj EXCEPT ![o] = [@ EXCEPT !.status = "live", !.class = class,
                            !.sock = c.fd, !.map = p, !.connected = b]]
    <3>1. PICK b \in BOOLEAN :
            obj' = [obj EXCEPT ![o] = [@ EXCEPT !.status = "live", !.class = class,
                      !.sock = c.fd, !.map = p, !.connected = b]]
      BY <2>3
    <3> DEFINE r == [obj[o] EXCEPT !.status = "live", !.class = class,
                       !.sock = c.fd, !.map = p, !.connected = b]
    <3>2. r \in ObjectRecord /\ r.status = "live" /\ r.sock = c.fd /\ r.map = p
      BY <1>0, <2>2, <2>3 DEF ObjectRecord, Argument, Map
    <3>3. obj' = [obj EXCEPT ![o] = r]
      BY <3>1
    <3> HIDE DEF r
    <3>4. handlers' = [handlers EXCEPT ![r.map][c.fd] = o]
      BY <2>3, <3>2
    <3>5. obj[o].status \notin Lost /\ ksock' = [ksock EXCEPT ![c.fd] = [by |-> o, tcp |-> c.tcp]]
      BY <1>0, <2>1 DEF Lost
    <3> QED BY <1>0, <2>2, <2>3, <3>2, <3>3, <3>4, <3>5, RegisterObject
  <2>4. CASE /\ handlers' = handlers /\ errno' \in {errno, "other"} /\ alive' \in BOOLEAN
             /\ \/ obj' = [obj EXCEPT ![o] = NoObject("aborted")]
                \/ obj' = obj /\ ~alive'
    <3>1. ksock' = [ksock EXCEPT ![c.fd] = [by |-> o, tcp |-> c.tcp]] /\ obj[o].status \notin Lost
      BY <1>0, <2>1 DEF Lost
    <3> QED BY <1>0, <2>2, <2>4, <3>1, OrphanInv
  <2> QED BY <2>1, <2>3, <2>4 DEF add_channel
<1> QED BY <1>1, <1>2

(***************************************************************************)
(* connect() on a socket that does not listen, when no EISCONN is left in  *)
(* errno: whatever counts as success leaves the socket connected.          *)
(***************************************************************************)
LEMMA ConnectResult ==
  ASSUME ErrnoInv, errno \in Errno, NEW t \in Tcp, t # "listen", NEW host \in Host,
         NEW number \in {0, 1}, NEW r \in cp_connect(t, host, number)
  PROVE  /\ r.tcp \in Tcp /\ r.tcp # "listen" /\ r.errno \in Errno
         /\ Succeeds(r) => r.tcp \in Up
         /\ ~Succeeds(r) => r.errno \in {"other", "EINPROGRESS", errno}
<1>1. \/ r = [ret |-> -2, tcp |-> t, errno |-> errno] \/ r = [ret |-> -3, tcp |-> t, errno |-> errno]
      \/ r = [ret |-> -1, tcp |-> t, errno |-> "EINPROGRESS"]
      \/ r = [ret |-> -1, tcp |-> "fresh", errno |-> "other"]
      \/ r = [ret |-> 0, tcp |-> "up", errno |-> errno]
      \/ r = [ret |-> -1, tcp |-> "syn", errno |-> "EINPROGRESS"]
      \/ t \in Up /\ \/ r = [ret |-> 0, tcp |-> t, errno |-> errno]
                     \/ r = [ret |-> -1, tcp |-> t, errno |-> "EISCONN"]
  BY DEF cp_connect, Tcp, Up
<1> QED BY <1>1 DEF Succeeds, Errno, ErrnoInv, Tcp, Up

(* connect(), whether it counts as a success and closes or not. *)
LEMMA ConnectCalled ==
  ASSUME IInv, NEW o \in Object, NEW host \in Host, NEW number \in {0, 1}, Connect(o, host, number)
  PROVE  IInv'
<1>a. PICK fd \in Fd : fd = obj[o].sock
  BY DEF Connect, IInv, TypeOK, ObjectRecord
<1>0. /\ alive /\ obj[o].sock = fd /\ obj \in [Object -> ObjectRecord] /\ obj[o] \in ObjectRecord
      /\ obj[o].sock # None
      /\ ksock \in [Fd -> [by : Object \cup Server \cup {None}, tcp : Tcp]]
      /\ errno \in Errno /\ SuccessIsReal
      /\ running \in Map \cup {None} /\ counted \in BOOLEAN
      /\ UNCHANGED <<server, port, running, counted, alive>>
  BY <1>a DEF Connect, Program, Live, IInv, TypeOK, ObjectRecord, program
<1>1. ksock[fd].tcp \in Tcp /\ ksock[fd].tcp # "listen" /\ ksock[fd].by = o
  <2>1. obj[o].map \in Map /\ handlers[obj[o].map][fd] = o
    BY <1>0 DEF ObjectRecord, IInv, ObjectInv
  <2>2. ksock[fd].by = o
    BY <1>0, <2>1, OwnedEntry, Names
  <2> QED BY <1>0, <2>2 DEF IInv, SocketInv
<1>2. PICK r \in cp_connect(ksock[fd].tcp, host, number) :
       \/ /\ Succeeds(r)
          /\ handle_connect_event(o, r.errno)
          /\ misled' = misled \cup {x \in {o} : r.tcp \notin Up}
       \/ /\ ~Succeeds(r)
          /\ obj' = [obj EXCEPT ![o].connected = FALSE, ![o].connecting = TRUE]
          /\ ksock' = [ksock EXCEPT ![fd].tcp = r.tcp]
          /\ errno' = r.errno
          /\ UNCHANGED <<handlers, misled>>
  BY <1>a DEF Connect
<1>3. /\ r.tcp \in Tcp /\ r.tcp # "listen" /\ r.errno \in Errno
      /\ Succeeds(r) => r.tcp \in Up
      /\ ~Succeeds(r) => r.errno \in {"other", "EINPROGRESS", errno}
  BY <1>0, <1>1, ConnectResult DEF IInv
<1>4. CASE Succeeds(r)
  <2>1. close(o) /\ errno' = "other" /\ misled' = misled \cup {x \in {o} : r.tcp \notin Up}
    BY <1>2, <1>4 DEF handle_connect_event, handle_error
  <2>2. SuccessIsReal'
    BY <1>0, <1>3, <1>4, <2>1 DEF SuccessIsReal
  <2> QED BY <1>0, <2>1, <2>2, CloseInv
<1>5. CASE ~Succeeds(r)
  <2>1. /\ obj' = [obj EXCEPT ![o] = [obj[o] EXCEPT !.connected = FALSE, !.connecting = TRUE]]
        /\ ksock' = [ksock EXCEPT ![fd].tcp = r.tcp]
        /\ errno' \in {"other", "EINPROGRESS", errno} /\ UNCHANGED <<handlers, misled>>
    BY <1>0, <1>2, <1>3, <1>5
  <2>2. PICK t \in Tcp : t = r.tcp /\ t # "listen"
    BY <1>3
  <2>3. ksock' = [ksock EXCEPT ![fd].tcp = t]
    BY <2>1, <2>2
  <2>4. UNCHANGED <<server, handlers, port, running, counted, misled, alive>>
    BY <1>0, <2>1
  <2>5. FlagsOnly
    BY <1>0, <2>1 DEF FlagsOnly, ObjectRecord
  <2>6. t # "listen" /\ errno' \in {"other", "EINPROGRESS", errno}
    BY <1>0, <1>1, <2>1, <2>2
  <2> QED BY ONLY IInv, fd \in Fd, t \in Tcp, <2>3, <2>4, <2>5, <2>6, FlagsInv
<1> QED BY <1>4, <1>5

(* What the loop finds in its map is a handler that has that socket. *)
LEMMA Visited ==
  ASSUME IInv, NEW fd \in Fd, NEW o \in Object, Visits(fd, o)
  PROVE  /\ alive /\ obj[o].sock = fd /\ obj[o].sock # None /\ ksock[fd].by = o
         /\ running \in Map \cup {None} /\ counted \in BOOLEAN
         /\ SuccessIsReal
<1>1. running \in Map /\ handlers[running][fd] = o /\ o # None /\ alive
  BY Names DEF Visits, IInv, TypeOK
<1> QED BY <1>1, OwnedEntry, Names DEF IInv, TypeOK

(* One event of loop(). *)
LEMMA EventInv == ASSUME IInv, NEW fd \in Fd, Event(fd) PROVE IInv'
<1>1. PICK o \in Object :
        /\ Visits(fd, o) /\ UNCHANGED <<server, port, running, counted, misled>>
        /\ \/ ConnectEvent(o)
           \/ HandleRead(fd, o) /\ ksock[fd].tcp \in ReadReady
           \/ handle_close(o) /\ errno' = "other" /\ UNCHANGED alive
  BY DEF Event, ReadEvent, WriteEvent, ExptEvent, program
<1>2. /\ alive /\ obj[o].sock = fd /\ obj[o].sock # None /\ ksock[fd].by = o
      /\ running' \in Map \cup {None} /\ counted' \in BOOLEAN
      /\ SuccessIsReal'
  <2>1. /\ alive /\ obj[o].sock = fd /\ obj[o].sock # None /\ ksock[fd].by = o
        /\ running \in Map \cup {None} /\ counted \in BOOLEAN
        /\ SuccessIsReal
    BY <1>1, Visited
  <2> QED BY <1>1, <2>1 DEF SuccessIsReal
<1>3. ASSUME close(o), errno' \in {errno, "other"}, alive' \in BOOLEAN PROVE IInv'
  BY <1>1, <1>2, <1>3, CloseInv
<1>4. CASE ConnectEvent(o)
  BY <1>3, <1>4 DEF ConnectEvent, handle_connect_event, handle_error
<1>5. CASE handle_close(o) /\ errno' = "other" /\ UNCHANGED alive
  BY <1>2, <1>3, <1>5 DEF handle_close
<1>6. CASE HandleRead(fd, o)
  <2>1. \/ UNCHANGED <<obj, handlers, ksock, errno>>
        \/ /\ ksock[fd].tcp = "data" /\ ksock' = [ksock EXCEPT ![fd].tcp = "up"]
           /\ UNCHANGED <<obj, handlers, errno>>
        \/ close(o) /\ errno' \in {errno, "other"}
    BY <1>6 DEF HandleRead, handle_close
  <2>2. alive' = alive
    BY <1>6 DEF HandleRead
  <2>3. CASE UNCHANGED <<obj, handlers, ksock, errno>>
    BY <1>1, <1>2, <2>2, <2>3, IdleInv
  <2>4. CASE /\ ksock[fd].tcp = "data" /\ ksock' = [ksock EXCEPT ![fd].tcp = "up"]
             /\ UNCHANGED <<obj, handlers, errno>>
    <3>1. "up" \in Tcp /\ "up" \in Up /\ obj' \in [Object -> ObjectRecord] /\ obj' = obj
      BY <2>4 DEF Tcp, Up, IInv, TypeOK
    <3>2. UNCHANGED <<server, handlers, port, running, counted, misled, alive>>
      BY <1>1, <2>2, <2>4
    <3>3. FlagsOnly
      BY <3>1 DEF FlagsOnly
    <3> QED BY <2>4, <3>1, <3>2, <3>3, FlagsInv
  <2>5. CASE close(o) /\ errno' \in {errno, "other"}
    BY <1>2, <1>3, <2>2, <2>5
  <2> QED BY <2>1, <2>3, <2>4, <2>5
<1> QED BY <1>1, <1>4, <1>5, <1>6

(* Every step of the program, of loop() and of the network keeps the invariant. *)
LEMMA NextInv == IInv /\ [Next]_vars => IInv'
<1> SUFFICES ASSUME IInv, [Next]_vars PROVE IInv'
  OBVIOUS
<1>0. /\ running \in Map \cup {None} /\ counted \in BOOLEAN /\ obj \in [Object -> ObjectRecord]
      /\ ksock \in [Fd -> [by : Object \cup Server \cup {None}, tcp : Tcp]]
      /\ SuccessIsReal
  BY DEF IInv, TypeOK
<1>1. ASSUME NEW o \in Object, Uses(o) PROVE IInv'
  <2>1. ASSUME NEW class \in Class, NEW p \in Argument, Construct(o, class, p) \/ Adopt(o, class, p)
        PROVE  IInv'
    BY <2>1, Constructed
  <2>2. CASE create_socket(o)
    <3>1. PICK fd \in FreeFd :
            /\ obj' = [obj EXCEPT ![o].sock = fd]
            /\ ksock' = [ksock EXCEPT ![fd] = [by |-> o, tcp |-> "fresh"]]
            /\ handlers' = [handlers EXCEPT ![obj[o].map][fd] = o]
      BY <2>2 DEF create_socket, add_channel
    <3>2. /\ alive /\ obj[o].status = "live" /\ obj[o].sock = None /\ fd \in Fd
          /\ UNCHANGED <<server, port, running, counted, misled, alive>> /\ errno' = errno
      BY <2>2 DEF create_socket, Program, Live, program, FreeFd
    <3> DEFINE r == [obj[o] EXCEPT !.sock = fd]
    <3>3. /\ r \in ObjectRecord /\ r.status = "live" /\ r.sock = fd /\ r.map = obj[o].map
          /\ obj' = [obj EXCEPT ![o] = r]
      BY <1>0, <3>1, <3>2 DEF ObjectRecord, IInv, ObjectInv
    <3> HIDE DEF r
    <3>4. handlers' = [handlers EXCEPT ![r.map][fd] = o] /\ "fresh" \in Tcp
      BY <3>1, <3>3 DEF Tcp
    <3> QED BY <3>1, <3>2, <3>3, <3>4, RegisterObject DEF Lost
  <2>3. CASE create_socket_fails(o)
    BY <1>0, <2>3, IdleInv DEF create_socket_fails, program
  <2>4. CASE ProgramCloses(o)
    <3>1. /\ alive /\ obj[o].sock # None /\ close(o)
          /\ UNCHANGED <<server, port, errno, running, counted, misled, alive>>
      BY <2>4 DEF ProgramCloses, Program, program
    <3>2. SuccessIsReal'
      BY <1>0, <3>1 DEF SuccessIsReal
    <3> QED BY <1>0, <3>1, <3>2, CloseInv
  <2>5. ASSUME NEW host \in Host, NEW number \in {0, 1}, Connect(o, host, number) PROVE IInv'
    BY <2>5, ConnectCalled
  <2> QED BY <1>1, <2>1, <2>2, <2>3, <2>4, <2>5 DEF Uses
<1>2. ASSUME NEW s \in Server, DestroyServer(s) \/ \E host \in Host, p \in Argument : TCPServer(s, host, p)
      PROVE  IInv'
  BY <1>2, ServerMade, ServerDestroyed
<1>3. ASSUME NEW p \in Argument, RunLoop(p) PROVE IInv'
  BY <1>3, IdleInv, MapOfType DEF RunLoop
<1>4. CASE LoopReturns
  BY <1>4, IdleInv DEF LoopReturns
<1>5. CASE UNCHANGED vars
  BY <1>0, <1>5, IdleInv DEF vars
<1>6. ASSUME NEW fd \in Fd, Event(fd) PROVE IInv'
  BY <1>6, EventInv
<1>7. ASSUME NEW fd \in Fd, SynEnds(fd) \/ PeerActs(fd) PROVE IInv'
  <2>1. PICK t \in Tcp :
          ksock' = [ksock EXCEPT ![fd].tcp = t] /\ t # "listen"
    BY <1>7 DEF SynEnds, PeerActs, Tcp, Up
  <2>2. UNCHANGED <<obj, server, handlers, port, errno, running, counted, misled, alive>>
    BY <1>7 DEF SynEnds, PeerActs, program
  <2>3. FlagsOnly
    BY <1>0, <2>1, <2>2 DEF FlagsOnly
  <2> QED BY <1>0, <2>1, <2>2, <2>3, FlagsInv
<1> QED BY <1>1, <1>2, <1>3, <1>4, <1>5, <1>6, <1>7 DEF Next, Nothing

-----------------------------------------------------------------------------
(* The invariant holds in every reachable state. *)
THEOREM Invariance == Spec => []IInv
  BY InitInv, NextInv, PTL DEF Spec

(* Objects, maps and sockets keep their types. *)
THEOREM TypeCorrect == Spec => []TypeOK
<1>1. IInv => TypeOK
  BY DEF IInv
<1> QED BY <1>1, Invariance, PTL

(* An entry of a map is a live object that has that descriptor, open, and was made for that map. *)
THEOREM Owned == Spec => []OwnedOnce
<1>1. IInv => OwnedOnce
  BY DEF IInv
<1> QED BY <1>1, Invariance, PTL

(***************************************************************************)
(* A socket is open and in no map only after ~TCPServer(), an aborted      *)
(* constructor, or a close() that read its descriptor too late.            *)
(***************************************************************************)
THEOREM Orphans == Spec => []OrphansKnown
<1>1. IInv => OrphansKnown
  <2> SUFFICES ASSUME IInv, alive, NEW fd \in Fd, fd \notin FreeFd,
                      fd \notin Registered("g_handlers"), fd \notin Registered("sock_handlers"),
                      NEW h, h = ksock[fd].by
               PROVE  IF h \in Object THEN obj[h].status \in Lost ELSE server[h].status = "deleted"
    BY DEF OrphansKnown
  <2>1. h \in Object \cup Server /\ \A m \in Map : handlers[m][fd] = None
    BY DEF IInv, TypeOK, FreeFd, Registered, Map
  <2>2. CASE h \in Object
    <3>1. obj[h].sock = fd \/ obj[h].status \in Lost
      BY <2>2 DEF IInv, SocketInv
    <3>2. obj[h].sock # fd
      BY <2>1, <2>2, Names DEF IInv, TypeOK, ObjectRecord, ObjectInv
    <3> QED BY <2>2, <3>1, <3>2
  <2>3. CASE h \in Server /\ h \notin Object
    <3>1. server[h].sock = fd \/ server[h].status = "deleted"
      BY <2>3 DEF IInv, SocketInv
    <3>2. server[h].sock # fd
      BY <2>1, <2>3, Names DEF IInv, TypeOK, ServerInv
    <3> QED BY <2>3, <3>1, <3>2
  <2> QED BY <2>1, <2>2, <2>3
<1> QED BY <1>1, Invariance, PTL

(* connect() takes its success branch only for a socket that is connected, stale errno or not. *)
THEOREM SuccessTrue == Spec => []SuccessIsReal
<1>1. IInv => SuccessIsReal
  BY DEF IInv
<1> QED BY <1>1, Invariance, PTL
=============================================================================
