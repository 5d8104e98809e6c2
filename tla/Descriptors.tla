---------------------------- MODULE Descriptors ----------------------------
(***************************************************************************)
(* Handlers and caches together: what several connections cost the process *)
(* in descriptors.  On Linux the listener, the accepted sockets and the    *)
(* FILEs of the caches share one table of MaxFd entries, and               *)
(* BaseSocket::close() deletes a handler whose decoder may still hold an   *)
(* open cache: HV::~HV() releases nothing.  The sockets may leak too:      *)
(* close() reads the descriptor from the object it has deleted, and a      *)
(* constructor that getpeername() fails leaves the accepted socket open.   *)
(*                                                                         *)
(* Headers are one byte here (HeaderSize = 1), so that none is cut; a byte *)
(* of a header is the length it announces, one of GarbageLength.  How the  *)
(* thread comes to the handlers is module SelectLoop.  A peer that has     *)
(* been closed may connect again.                                          *)
(***************************************************************************)
EXTENDS HV, Sequences, FiniteSets

CONSTANTS
  Client,       \* the peers
  None,         \* no handler is running
  Value,        \* a byte of a value
  MaxFd,        \* descriptors of the process
  MaxRequest,   \* requests in all (bound)
  MaxConnect    \* connections in all (bound)

ASSUME DescriptorsAssumption ==
  /\ HeaderSize = 1 /\ "cache" \in Faults
  /\ IsFiniteSet(Client) /\ None \notin Client /\ Value \notin Nat
  /\ MaxFd \in Nat \ {0} /\ MaxRequest \in Nat /\ MaxConnect \in Nat

VARIABLES
  conn,       \* a peer's connection: none, waiting for accept(), accepted
  peer,       \* what the peer has done on it
  inbox,      \* the bytes recv() has not returned
  req, resp,  \* VirusHandler::req and the number of responses in resp
  cur, buf,   \* the handler in handle_read(), and what is left of its buffer
  files,      \* FILEs the process has open
  leaked,     \* sockets that are open and that no handler has
  made,       \* connections made
  asked,      \* requests begun
  disturbed,  \* history: connections that ended with peer.disturbed
  alive       \* the process is there

bounds == <<made, asked>>
decoders == <<req, resp>>
reader == <<cur, buf>>
table == <<files, leaked>>
vars == <<conn, peer, inbox, req, resp, cur, buf, files, leaked, made, asked, disturbed, alive>>

(***************************************************************************)
(* owed: bytes of the value it has announced and not sent.  disturbed: it  *)
(* sent a request below MemoryCache, got INTERNAL_ERROR, or ended before   *)
(* its last request was complete and answered.                             *)
(***************************************************************************)
Peer == [owed : Nat, gone : BOOLEAN, disturbed : BOOLEAN]

NewPeer == [owed |-> 0, gone |-> FALSE, disturbed |-> FALSE]

Init ==
  /\ conn = [c \in Client |-> "none"] /\ peer = [c \in Client |-> NewPeer]
  /\ inbox = [c \in Client |-> <<>>]
  /\ req = [c \in Client |-> NewHV("TO_AUTO")] /\ resp = [c \in Client |-> 0]
  /\ cur = None /\ buf = <<>>
  /\ files = 0 /\ leaked = 0 /\ made = 0 /\ asked = 0 /\ disturbed = 0 /\ alive = TRUE

Accepted == {c \in Client : conn[c] = "accepted"}

(* Entries of the table that are free: the listener has one. *)
Free == MaxFd - (1 + Cardinality(Accepted) + files + leaked)

-----------------------------------------------------------------------------
Connect(c) ==
  /\ conn[c] = "none" /\ made < MaxConnect
  /\ conn' = [conn EXCEPT ![c] = "waiting"] /\ made' = made + 1
  /\ peer' = [peer EXCEPT ![c] = NewPeer]
  /\ UNCHANGED <<inbox, decoders, reader, table, disturbed, alive, asked>>

Talks(c) == conn[c] # "none" /\ ~peer[c].gone

(* The peer sends the header of its next request, or a byte of its value. *)
SendHeader(c) ==
  /\ Talks(c) /\ peer[c].owed = 0 /\ asked < MaxRequest
  /\ \E length \in GarbageLength :
       /\ inbox' = [inbox EXCEPT ![c] = Append(@, length)]
       /\ peer' = [peer EXCEPT ![c] =
            [peer[c] EXCEPT !.owed = length, !.disturbed = @ \/ length < MemoryCache]]
  /\ asked' = asked + 1
  /\ UNCHANGED <<conn, made, decoders, reader, table, disturbed, alive>>

SendValue(c) ==
  /\ Talks(c) /\ peer[c].owed > 0
  /\ inbox' = [inbox EXCEPT ![c] = Append(@, Value)]
  /\ peer' = [peer EXCEPT ![c].owed = @ - 1]
  /\ UNCHANGED <<conn, bounds, decoders, reader, table, disturbed, alive>>

(* Every byte has been decoded, every response sent. *)
Quiet(c) == inbox[c] = <<>> /\ resp[c] = 0 /\ cur # c

(* The peer closes or resets; a reset discards what was not read. *)
PeerEnds(c) ==
  /\ Talks(c)
  /\ peer' = [peer EXCEPT ![c] =
       [peer[c] EXCEPT !.gone = TRUE, !.disturbed = @ \/ peer[c].owed > 0 \/ ~Quiet(c)]]
  /\ UNCHANGED inbox \/ inbox' = [inbox EXCEPT ![c] = <<>>]
  /\ UNCHANGED <<conn, bounds, decoders, reader, table, disturbed, alive>>

PeerActs(c) == Connect(c) \/ SendHeader(c) \/ SendValue(c) \/ PeerEnds(c)

-----------------------------------------------------------------------------
(* The thread is in select(). *)
Idle == alive /\ cur = None

(* TCPServerImpl::handle_accept(): a VirusHandler with a new decoder. *)
Accept(c) ==
  /\ Idle /\ conn[c] = "waiting" /\ Free > 0
  /\ conn' = [conn EXCEPT ![c] = "accepted"]
  /\ \E to \in Storage : req' = [req EXCEPT ![c] = NewHV(to)]
  /\ UNCHANGED <<peer, inbox, resp, reader, table, bounds, disturbed, alive>>

(***************************************************************************)
(* getpeername() fails for another reason than a lost peer: the object     *)
(* deletes itself in its constructor, and if the process survives that the *)
(* accepted socket is open and nobody's.                                   *)
(***************************************************************************)
AcceptLost(c) ==
  /\ Idle /\ conn[c] = "waiting" /\ Free > 0
  /\ conn' = [conn EXCEPT ![c] = "none"] /\ inbox' = [inbox EXCEPT ![c] = <<>>]
  /\ leaked' = leaked + 1 /\ alive' \in BOOLEAN
  /\ UNCHANGED <<peer, decoders, reader, files, bounds, disturbed>>

(***************************************************************************)
(* select() times out, or accept() finds the table full and the connection *)
(* stays where it is.                                                      *)
(***************************************************************************)
NothingDone ==
  /\ Idle
  /\ (\E c \in Client : conn[c] = "waiting") => Free <= 0
  /\ UNCHANGED vars

(* Mutant: what is called has nothing to close, and the handler stays. *)
close_keeps_handler(c) ==
  /\ resp' = [resp EXCEPT ![c] = 0] /\ inbox' = [inbox EXCEPT ![c] = <<>>]
  /\ disturbed' = disturbed + IF peer[c].disturbed THEN 1 ELSE 0
  /\ req' = [req EXCEPT ![c] = NewHV("TO_AUTO")]
  /\ UNCHANGED <<conn, table>>

(***************************************************************************)
(* BaseSocket::close(): the handler is deleted and with it the decoder and *)
(* the queue, but none of the caches they point to.  The descriptor to     *)
(* close is then read from the freed memory: the socket is closed, or it   *)
(* leaks when the value is no longer there.                                *)
(***************************************************************************)
close(c) ==
  /\ conn' = [conn EXCEPT ![c] = "none"]
  /\ resp' = [resp EXCEPT ![c] = 0] /\ inbox' = [inbox EXCEPT ![c] = <<>>]
  /\ disturbed' = disturbed + IF peer[c].disturbed THEN 1 ELSE 0
  /\ req' = [req EXCEPT ![c] = NewHV("TO_AUTO")]
  /\ leaked' \in {leaked, leaked + 1}
  /\ UNCHANGED files

(* recv() returns 0 or SOCKET_ERROR. *)
ReadEnds(c) ==
  /\ Idle /\ conn[c] = "accepted" /\ peer[c].gone /\ inbox[c] = <<>>
  /\ close(c)
  /\ UNCHANGED <<peer, reader, bounds, alive>>

Write(c) ==
  /\ Idle /\ conn[c] = "accepted" /\ resp[c] > 0
  /\ resp' = [resp EXCEPT ![c] = 0]
  /\ UNCHANGED <<conn, bounds, peer, inbox, req, reader, table, disturbed, alive>>

(***************************************************************************)
(* send() fails and handle_close() deletes the handler that is writing:    *)
(* either that goes well or the process is gone, as it is after SIGPIPE.   *)
(***************************************************************************)
WriteFails(c) ==
  /\ Idle /\ conn[c] = "accepted" /\ resp[c] > 0 /\ peer[c].gone
  /\ close(c)
  /\ alive' \in BOOLEAN
  /\ UNCHANGED <<peer, reader, bounds>>

(* handle_read(): recv() returns some of what has arrived. *)
Recv(c) ==
  /\ Idle /\ conn[c] = "accepted"
  /\ \E n \in 1 .. Len(inbox[c]) :
       /\ buf' = SubSeq(inbox[c], 1, n)
       /\ inbox' = [inbox EXCEPT ![c] = SubSeq(@, n + 1, Len(@))]
  /\ cur' = c
  /\ UNCHANGED <<conn, bounds, peer, decoders, table, disturbed, alive>>

-----------------------------------------------------------------------------
(* What the next byte says when it is taken for a header. *)
Decoded == {GarbageId} \X (IF Head(buf) = Value THEN GarbageLength ELSE {Head(buf)})

(* Mutant: every call creates a cache, whether there is one or not. *)
Opened_each_time(h, g) == IF g.value # NULL THEN 1 ELSE 0

(* fopen() in create_cache_file(), called by write_value() when there is no cache. *)
Opened(h, g) == IF h.value = NULL /\ g.value # NULL THEN 1 ELSE 0

(* Mutant: a FILE is closed whatever the cache is kept for. *)
Left_always(h) == 1

(* Mutant: clear() forgets the cache without leave_cache(). *)
Left_forgotten(h) == 0

(* fclose() in leave_cache(), called by clear(). *)
Left(h) == IF h.to \in {"TO_FILE", "TO_SHM"} /\ h.value # NULL THEN 1 ELSE 0

(***************************************************************************)
(* One call of HV::write() for the handler that is reading: create_cache() *)
(* fails when, and only when, the table is full.                           *)
(***************************************************************************)
Writes ==
  {r \in write(req[cur], Len(buf), Decoded, Len(buf)) :
     IF r.wlen = -1 THEN Free <= 0 ELSE Opened(req[cur], r.hv) = 1 => Free > 0}

(* The loop of handle_read() goes on with the rest of the buffer, or ends. *)
Advance(w) ==
  /\ buf' = SubSeq(buf, w + 1, Len(buf))
  /\ cur' = IF w = Len(buf) THEN None ELSE cur

Reading == alive /\ cur # None

WriteMore ==
  /\ Reading
  /\ \E r \in Writes :
       /\ r.wlen # -1 /\ ~is_complete(r.hv)
       /\ req' = [req EXCEPT ![cur] = r.hv]
       /\ files' = files + Opened(req[cur], r.hv)
       /\ Advance(r.wlen)
  /\ UNCHANGED <<conn, bounds, peer, inbox, resp, leaked, disturbed, alive>>

WriteLast ==
  /\ Reading
  /\ \E r \in Writes :
       /\ r.wlen # -1 /\ is_complete(r.hv)
       /\ req' = [req EXCEPT ![cur] = clear(r.hv)]
       /\ files' = files + Opened(req[cur], r.hv) - Left(r.hv)
       /\ Advance(r.wlen)
  /\ resp' = [resp EXCEPT ![cur] = @ + 1]
  /\ UNCHANGED <<conn, bounds, peer, inbox, leaked, disturbed, alive>>

(* No descriptor for the cache: INTERNAL_ERROR, the rest of buf is dropped. *)
WriteFailed ==
  /\ Reading
  /\ \E r \in Writes :
       /\ r.wlen = -1
       /\ req' = [req EXCEPT ![cur] = clear(r.hv)]
       /\ files' = files - Left(r.hv)
  /\ resp' = [resp EXCEPT ![cur] = @ + 1]
  /\ peer' = [peer EXCEPT ![cur].disturbed = TRUE]
  /\ cur' = None /\ buf' = <<>>
  /\ UNCHANGED <<conn, bounds, inbox, leaked, disturbed, alive>>

(* Nothing is left of the process. *)
Dead == ~alive /\ UNCHANGED vars

Handle(c) ==
  Accept(c) \/ AcceptLost(c) \/ ReadEnds(c) \/ Write(c) \/ WriteFails(c) \/ Recv(c)

Read == WriteMore \/ WriteLast \/ WriteFailed
Next ==
  \/ \E c \in Client : Handle(c) \/ (alive /\ PeerActs(c))
  \/ NothingDone \/ Read \/ Dead

Spec == Init /\ [][Next]_vars

(* handle_read() runs on, and the loop comes to every handler with an event. *)
FairSpec ==
  /\ Spec /\ WF_vars(Read)
  /\ \A c \in Client : SF_vars(ReadEnds(c) \/ Recv(c))

-----------------------------------------------------------------------------
(* Decoders, buffers and counters have their types. *)
TypeOK ==
  /\ conn \in [Client -> {"none", "waiting", "accepted"}]
  /\ peer \in [Client -> Peer]
  /\ inbox \in [Client -> Seq(GarbageLength \cup {Value})]
  /\ buf \in Seq(GarbageLength \cup {Value})
  /\ req \in [Client -> HVRecord({GarbageId})] /\ resp \in [Client -> Nat]
  /\ cur \in Client \cup {None}
  /\ files \in Nat /\ leaked \in Nat /\ made \in Nat /\ asked \in Nat /\ disturbed \in Nat
  /\ alive \in BOOLEAN

(* The handlers whose decoder holds an open cache. *)
Holding == {c \in Accepted : req[c].value # NULL}

(***************************************************************************)
(* What close() loses: a FILE nobody holds was left behind by a connection *)
(* that ended disturbed, one by each at most.  A peer that sends requests  *)
(* of MemoryCache bytes or more and waits for the answers costs no FILE    *)
(* when it has gone, however its values were cut (headers are one piece    *)
(* here) and whatever the others do.                                       *)
(***************************************************************************)
OneFilePerDisturbed ==
  /\ Cardinality(Holding) <= files
  /\ files <= Cardinality(Holding) + disturbed

(* The connections that have not ended. *)
Connected == {c \in Client : conn[c] # "none"}

(***************************************************************************)
(* The table never overflows, and it runs full only when the connections   *)
(* that are there, at two descriptors each, the FILEs of the ones that     *)
(* ended disturbed and the leaked sockets account for it.  A connection    *)
(* leaks its socket once at most, and only when it has ended: whoever is   *)
(* refused is refused for a reason.                                        *)
(***************************************************************************)
FullForAReason ==
  /\ Free >= 0
  /\ Free = 0 => 1 + 2 * Cardinality(Accepted) + disturbed + leaked >= MaxFd
  /\ leaked + Cardinality(Connected) <= made

(***************************************************************************)
(* A full table stops no connection from ending: a peer that has gone is   *)
(* noticed and its handler deleted, unless the process is gone too.  The   *)
(* socket comes back if close() still reads it from the deleted handler.   *)
(***************************************************************************)
EndNoticed ==
  \A c \in Client :
    conn[c] = "accepted" /\ peer[c].gone ~> conn[c] # "accepted" \/ ~alive
=============================================================================
