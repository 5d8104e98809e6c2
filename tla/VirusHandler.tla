---------------------------- MODULE VirusHandler ----------------------------
(***************************************************************************)
(* doc_ferry_server/src/virus_handler.cpp: one accepted connection.  The   *)
(* peer writes NReq requests back to back; the event loop calls            *)
(* handle_read() when bytes are there and handle_write() when a response   *)
(* is queued.  handle_read() is the loop over HV::write() on the bytes one *)
(* recv() returned, handle_write() the loop over the response queue: each  *)
(* iteration is a step of its own, so that a loop that never ends shows.   *)
(*                                                                         *)
(* A byte of the stream is its offset.  Message k occupies the offsets     *)
(* from Start[k] up to Start[k+1] - 1: its header, then VLen[k] bytes.     *)
(***************************************************************************)
EXTENDS HV, CpSocket, Sequences

CONSTANTS
  NReq,      \* number of requests the peer sends
  VLen,      \* VLen[k]: the length field of request k, and its value's size
  Start,     \* Start[k]: the offset of request k, Start[NReq + 1] the total
  RecvBuf,   \* sizeof(buf) in handle_read(), 65535 in the code
  DiskSize   \* bytes the disk takes before fwrite() comes back short

Request == 1 .. NReq

ASSUME StreamAssumption ==
  /\ NReq \in Nat /\ RecvBuf \in Nat \ {0} /\ DiskSize \in Nat
  /\ VLen \in [Request -> Nat]
  /\ Start \in [1 .. NReq + 1 -> Nat] /\ Start[1] = 0
  /\ \A k \in Request : Start[k + 1] = Start[k] + HeaderSize + VLen[k]
  /\ \A j, k \in 1 .. NReq + 1 : j < k => Start[j] + HeaderSize <= Start[k]

Total == Start[NReq + 1]

VARIABLES
  rcvd,     \* bytes recv() has returned so far
  pos,      \* bytes of them that HV::write() has taken: p_buf is at this offset
  req,      \* VirusHandler::req, the decoder
  resp,     \* VirusHandler::resp, the queue of responses
  wire,     \* the responses handed to send(), in order
  served,   \* history: requests is_complete() has reported
  space,    \* free bytes on the disk: clear() leaves every file behind
  failed,   \* history: a request has been given up with INTERNAL_ERROR
  pc        \* "idle" between events, "read"/"write" inside a handler,
            \* "closed" after handle_close(), "crashed" when the process died,
            \* "undefined" when it goes on with memory it has overwritten

vars == <<rcvd, pos, req, resp, wire, served, space, failed, pc>>

(* iface::State, as far as handle_read() uses it *)
State == {"OK", "INTERNAL_ERROR"}

(* A queued response; value = FALSE when its cache could not be created. *)
Response == [id : Request \cup {GarbageId}, state : State, value : BOOLEAN]

(* What went out for one response; whole = FALSE when send() dropped some. *)
Frame == [id : Request \cup {GarbageId}, state : State, whole : BOOLEAN]

-----------------------------------------------------------------------------
(* What HeaderSize bytes from offset p decode to. *)
DecodedAt(p) ==
  LET here == {k \in Request : Start[k] = p} IN
  IF here # {} THEN {<<k, VLen[k]>> : k \in here} ELSE {GarbageId} \X GarbageLength

InsideHeader(p) == \E k \in Request : Start[k] < p /\ p < Start[k] + HeaderSize

(* VirusHandler::response(): the queue entry pushed for the decoder's id. *)
Responses(id, state) ==
  {[id |-> id, state |-> state, value |-> v] :
     v \in {TRUE} \cup (IF "cache" \in Faults THEN {FALSE} ELSE {})}

Init ==
  /\ rcvd = 0 /\ pos = 0
  /\ \E to \in Storage : req = NewHV(to)
  /\ resp = <<>> /\ wire = <<>>
  /\ served = 0 /\ space = DiskSize /\ failed = FALSE
  /\ pc = "idle"

-----------------------------------------------------------------------------
(* handle_read(): recv() returns some of the bytes that have arrived. *)
Recv ==
  /\ pc = "idle"
  /\ \E n \in 1 .. RecvBuf :
       /\ rcvd + n <= Total
       /\ "split" \in Faults \/ ~InsideHeader(rcvd + n)
       /\ rcvd' = rcvd + n
  /\ pc' = "read"
  /\ UNCHANGED <<pos, req, resp, wire, served, space, failed>>

(* recv() returns 0 (end of stream): handle_close(). *)
PeerClosed ==
  /\ pc = "idle"
  /\ pc' = "closed"
  /\ UNCHANGED <<rcvd, pos, req, resp, wire, served, space, failed>>

(* recv() returns SOCKET_ERROR: handle_expt(), which closes as well. *)
PeerReset ==
  /\ "reset" \in Faults
  /\ pc = "idle"
  /\ pc' = "closed"
  /\ UNCHANGED <<rcvd, pos, req, resp, wire, served, space, failed>>

(* The end of one iteration: leave the loop when nread has reached 0. *)
Advance(r) ==
  /\ pos' = pos + r.wlen
  /\ space' = space - r.stored
  /\ pc' = IF pos + r.wlen = rcvd THEN "idle" ELSE "read"

(* write() took some bytes and the request is not complete yet. *)
WriteMore ==
  /\ pc = "read"
  /\ \E r \in write(req, rcvd - pos, DecodedAt(pos), space) :
       /\ r.wlen # -1 /\ ~is_complete(r.hv)
       /\ req' = r.hv
       /\ Advance(r)
  /\ UNCHANGED <<rcvd, resp, wire, served, failed>>

(* Mutant: the responses are kept in a stack. *)
WriteLast_stack ==
  /\ pc = "read"
  /\ \E r \in write(req, rcvd - pos, DecodedAt(pos), space) :
       /\ r.wlen # -1 /\ is_complete(r.hv)
       /\ req' = clear(r.hv)
       /\ \E q \in Responses(r.hv.id, "OK") : resp' = <<q>> \o resp
       /\ Advance(r)
  /\ served' = served + 1
  /\ UNCHANGED <<rcvd, wire, failed>>

(* The request is complete: request() clears the decoder, OK is queued. *)
WriteLast ==
  /\ pc = "read"
  /\ \E r \in write(req, rcvd - pos, DecodedAt(pos), space) :
       /\ r.wlen # -1 /\ is_complete(r.hv)
       /\ req' = clear(r.hv)
       /\ \E q \in Responses(r.hv.id, "OK") : resp' = Append(resp, q)
       /\ Advance(r)
  /\ served' = served + 1
  /\ UNCHANGED <<rcvd, wire, failed>>

(* write() failed: INTERNAL_ERROR is queued, the rest of buf is dropped. *)
WriteFailed ==
  /\ pc = "read"
  /\ \E r \in write(req, rcvd - pos, DecodedAt(pos), space) :
       /\ r.wlen = -1
       /\ req' = clear(r.hv)
       /\ \E q \in Responses(r.hv.id, "INTERNAL_ERROR") : resp' = Append(resp, q)
  /\ failed' = TRUE
  /\ pos' = rcvd /\ pc' = "idle"
  /\ UNCHANGED <<rcvd, wire, served, space>>

(***************************************************************************)
(* The misplaced memcpy of write_head() leaves a wild value pointer, a     *)
(* negative hlen or a broken queue.  The process dies, or it goes on and   *)
(* cache_push() may write anywhere: nothing is said of it from there on.   *)
(***************************************************************************)
Clobber ==
  /\ pc = "read"
  /\ 0 < req.hlen /\ req.hlen < HeaderSize
  /\ pc' \in {"crashed", "undefined"}
  /\ UNCHANGED <<rcvd, pos, req, resp, wire, served, space, failed>>

-----------------------------------------------------------------------------
(* Mutant: writable() is off by one. *)
StartWrite_needs_two ==
  /\ pc = "idle" /\ Len(resp) > 1
  /\ pc' = "write"
  /\ UNCHANGED <<rcvd, pos, req, resp, wire, served, space, failed>>

(* handle_write(): called when writable(), that is resp.size() > 0. *)
StartWrite ==
  /\ pc = "idle" /\ resp # <<>>
  /\ pc' = "write"
  /\ UNCHANGED <<rcvd, pos, req, resp, wire, served, space, failed>>

(* Mutant: the response stays in the queue. *)
PopFront_keeps ==
  /\ pc = "write"
  /\ pc' = IF Len(resp) = 1 THEN "idle" ELSE "write"
  /\ UNCHANGED <<rcvd, pos, req, resp, served, space, failed>>

(* The front of the queue is popped; the loop goes on until it is empty. *)
PopFront ==
  /\ pc = "write"
  /\ resp' = Tail(resp)
  /\ pc' = IF Len(resp) = 1 THEN "idle" ELSE "write"
  /\ UNCHANGED <<rcvd, pos, req, served, space, failed>>

(* A response without a value is skipped: nothing is sent. *)
SkipResponse ==
  /\ PopFront
  /\ ~Head(resp).value
  /\ UNCHANGED wire

(***************************************************************************)
(* The header and then the value are sent; what send() returns is ignored, *)
(* so a non-blocking socket whose send buffer is full loses bytes.         *)
(***************************************************************************)
SendResponse ==
  /\ PopFront
  /\ Head(resp).value
  /\ \E whole \in {TRUE} \cup (IF "O_NONBLOCK" \in SocketFlags THEN {FALSE} ELSE {}) :
       wire' = Append(wire, [id |-> Head(resp).id, state |-> Head(resp).state, whole |-> whole])

(***************************************************************************)
(* send() fails: handle_close() erases the handler from the map and with   *)
(* it deletes the object whose handle_write() is still running.            *)
(***************************************************************************)
SendFails ==
  /\ "reset" \in Faults
  /\ pc = "write" /\ Head(resp).value
  /\ pc' \in {"closed", "crashed"}
  /\ UNCHANGED <<rcvd, pos, req, resp, wire, served, space, failed>>

(* Nothing calls the handler again, or nothing is known of what it does. *)
Ended ==
  /\ pc \in {"closed", "crashed", "undefined"}
  /\ UNCHANGED vars

Reading == WriteMore \/ WriteLast \/ WriteFailed \/ Clobber
Writing == SkipResponse \/ SendResponse \/ SendFails
Next == Recv \/ PeerClosed \/ PeerReset \/ Reading \/ StartWrite \/ Writing \/ Ended

Spec == Init /\ [][Next]_vars

(***************************************************************************)
(* A handler that was entered runs on, and select() reports a socket with  *)
(* free send buffer as writable: the loop gets to handle_write().  Nothing *)
(* makes the peer send, close or reset.                                    *)
(***************************************************************************)
Fairness == WF_vars(Reading) /\ WF_vars(StartWrite) /\ WF_vars(Writing)
FairSpec == Spec /\ Fairness

-----------------------------------------------------------------------------
(* The variables keep the types of the members and counters they model. *)
TypeOK ==
  /\ rcvd \in Nat /\ pos \in Nat /\ served \in Nat /\ space \in Nat
  /\ req \in HVRecord(Request \cup {GarbageId})
  /\ resp \in Seq(Response)
  /\ wire \in Seq(Frame)
  /\ failed \in BOOLEAN
  /\ pc \in {"idle", "read", "write", "closed", "crashed", "undefined"}

InBounds ==
  /\ pos <= rcvd /\ rcvd <= Total
  /\ req.value # NULL => req.value.widx <= req.value.capacity

(***************************************************************************)
(* handle_read() never moves p_buf beyond the bytes recv() returned, and   *)
(* cache_push() never stores beyond the cache's capacity, whatever lengths *)
(* the stream declares, whatever fails, and also with a header of which    *)
(* the end was never received.  Not so once the memcpy for a cut header    *)
(* has left a pointer that is none of the decoder's: of that nothing is    *)
(* claimed.                                                                *)
(***************************************************************************)
BufferBounds == pc # "undefined" => InBounds

(***************************************************************************)
(* No request so far has done what the decoder does not recover from: the  *)
(* requests served all went to TO_FILE, so that clear() released their     *)
(* caches, none was given up, and no header is cut by a recv().            *)
(***************************************************************************)
Undisturbed ==
  /\ "split" \notin Faults /\ ~failed
  /\ \A k \in Request : k <= served => VLen[k] >= MemoryCache

(* The decoder waits for the first byte of the next message. *)
AtBoundary ==
  /\ pos = Start[served + 1]
  /\ req.hlen = 0 /\ ~req.head_complete /\ req.value = NULL

(* At offset p, decoder h holds the header of message k and the first bytes of its value. *)
Holds(h, p, k) ==
  /\ h.hlen = HeaderSize /\ h.head_complete
  /\ h.id = k /\ h.length = VLen[k]
  /\ h.to = IF VLen[k] < MemoryCache THEN "TO_MEM" ELSE "TO_FILE"
  /\ IF h.value = NULL THEN p = Start[k] + HeaderSize
     ELSE /\ h.value.capacity = VLen[k]
          /\ p = Start[k] + HeaderSize + h.value.widx

InMessage == served < NReq /\ Holds(req, pos, served + 1)

(***************************************************************************)
(* Framing of the stream: between two iterations of handle_read()'s loop   *)
(* the decoder is at the boundary of the next message or inside it, with   *)
(* that message's own header.  No byte of a value is taken for a header.   *)
(***************************************************************************)
Framing ==
  Undisturbed =>
    /\ served <= NReq /\ ~req.value_complete
    /\ AtBoundary \/ InMessage

(* Responses without what only this module knows of them. *)
Plain(s) == [i \in DOMAIN s |-> [id |-> s[i].id, state |-> s[i].state]]

(* The responses in the order the peer gets them. *)
Outgoing == Plain(wire) \o Plain(resp)

(***************************************************************************)
(* response(): the i-th response answers the i-th request, with OK, and    *)
(* there is one for every request served, queued or sent.                  *)
(***************************************************************************)
AnswersInOrder ==
  Undisturbed /\ "cache" \notin Faults =>
    Outgoing = [i \in 1 .. served |-> [id |-> i, state |-> "OK"]]

(***************************************************************************)
(* "a request is complete" (virus_handler.cpp:72): OK is answered only     *)
(* when every byte of the request's value has been taken off the stream.   *)
(***************************************************************************)
NoEarlyAnswer ==
  \A i \in DOMAIN Outgoing :
    Outgoing[i].state = "OK" /\ Outgoing[i].id # GarbageId
      => pos >= Start[Outgoing[i].id + 1]

(***************************************************************************)
(* A response carries the id of a request of the peer: the header that     *)
(* write_head() reports complete is one the peer sent.                     *)
(***************************************************************************)
OwnHeader == \A i \in DOMAIN Outgoing : Outgoing[i].id # GarbageId

(* fwrite() takes nothing more, and handle_read() calls it again and again. *)
StuckOnDisk == pc = "read" /\ space = 0

(***************************************************************************)
(* The loop of handle_read() comes to an end, which it must because it     *)
(* runs on the only thread.  With headers in one piece a full disk is the  *)
(* one exception; a cut header may leave an hlen beyond the header's size, *)
(* and then write() takes nothing either.                                  *)
(***************************************************************************)
ReadTerminates == pc = "read" ~> pc # "read" \/ StuckOnDisk

(***************************************************************************)
(* A request that has been received is answered, unless the peer goes or   *)
(* the disk is full.                                                       *)
(***************************************************************************)
EveryRequestAnswered ==
  \A k \in Request :
    rcvd >= Start[k + 1] ~> \/ \E i \in DOMAIN wire : wire[i].id = k
                            \/ pc \in {"closed", "crashed"}
                            \/ StuckOnDisk

-----------------------------------------------------------------------------
Channel == INSTANCE RequestChannel
             WITH arrived <- rcvd, queued <- Plain(resp), sent <- Plain(wire)

(***************************************************************************)
(* The handler, with its decoder, its caches and its partial reads, is a   *)
(* RequestChannel: every step of handle_read() and handle_write() is one   *)
(* step of the channel or none.  Requests that reach MemoryCache (the last *)
(* one may be smaller), headers in one piece, no failing create_cache().   *)
(***************************************************************************)
ImplementsChannel == Channel!Spec
=============================================================================
