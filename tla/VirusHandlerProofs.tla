------------------------- MODULE VirusHandlerProofs -------------------------
(***************************************************************************)
(* Theorems about VirusHandler, for every number and length of requests,   *)
(* every size of header, buffer, cache threshold and disk, both platforms. *)
(***************************************************************************)
EXTENDS VirusHandler, HVProofs

Ids == Request \cup {GarbageId}

(* The id no client wrote is one of them. *)
LEMMA GarbageIsId == GarbageId \in Ids
  BY DEF Ids

(* What a header can decode to. *)
LEMMA DecodedType == ASSUME NEW p \in Nat PROVE DecodedAt(p) \in SUBSET (Ids \X Nat)
<1>1. \A k \in Request : VLen[k] \in Nat
  BY StreamAssumption DEF StreamAssumption
<1>2. \A d \in DecodedAt(p) : d \in Ids \X Nat
  <2> SUFFICES ASSUME NEW d \in DecodedAt(p) PROVE d \in Ids \X Nat
    OBVIOUS
  <2>1. CASE \E k \in Request : d = <<k, VLen[k]>>
    BY <1>1, <2>1 DEF Ids
  <2>2. CASE d \in {GarbageId} \X GarbageLength
    BY <2>2, Sizes DEF Ids
  <2> QED BY <2>1, <2>2 DEF DecodedAt
<1> QED BY <1>2

-----------------------------------------------------------------------------
(***************************************************************************)
(* Neither TypeOK nor InBounds is inductive without the other: that    *)
(* the room in a cache is not negative keeps pos and space natural.        *)
(* handle_write() stays in its loop only while the queue is not empty.     *)
(***************************************************************************)
TInv == TypeOK /\ InBounds /\ (pc = "write" => resp # <<>>)

(* A new connection: nothing received, an empty decoder and queue. *)
LEMMA InitTInv == Init => TInv
<1> SUFFICES ASSUME Init PROVE TInv
  OBVIOUS
<1>1. PICK to \in Storage : req = NewHV(to)
  BY DEF Init
<1>2. req \in HVRecord(Ids) /\ req.value = NULL
  BY <1>1, Sizes DEF NewHV, HVRecord, Ids
<1>3. Total \in Nat /\ DiskSize \in Nat
  BY StreamAssumption DEF StreamAssumption, Total
<1>6. failed \in BOOLEAN /\ pc \in {"idle", "read", "write", "closed", "crashed", "undefined"}
  BY DEF Init
<1>7. resp \in Seq(Response) /\ wire \in Seq(Frame)
  BY DEF Init
<1>4. TypeOK
  BY <1>2, <1>3, <1>6, <1>7 DEF Init, TypeOK, Ids
<1>5. InBounds
  BY <1>2, <1>3 DEF Init, InBounds
<1> QED BY <1>4, <1>5 DEF TInv, Init

(* An iteration of handle_read() takes no more than what is left of the buffer. *)
LEMMA AdvanceType ==
  ASSUME rcvd \in Nat, pos \in Nat, space \in Nat, pos <= rcvd,
         NEW r, Advance(r), r.wlen \in 0 .. rcvd - pos, r.stored \in 0 .. space
  PROVE  pos' \in Nat /\ pos' <= rcvd /\ space' \in Nat /\ pc' \in {"idle", "read"}
  BY DEF Advance

(* Every step of the handlers keeps types and bounds. *)
LEMMA NextTInv == TInv /\ [Next]_vars => TInv'
<1> SUFFICES ASSUME TInv, [Next]_vars PROVE TInv'
  OBVIOUS
<1>0. /\ rcvd \in Nat /\ pos \in Nat /\ served \in Nat /\ space \in Nat
      /\ req \in HVRecord(Ids) /\ Bounded(req) /\ pos <= rcvd /\ rcvd <= Total
      /\ resp \in Seq(Response) /\ wire \in Seq(Frame) /\ failed \in BOOLEAN
      /\ RecvBuf \in Nat /\ Total \in Nat
  BY StreamAssumption DEF TInv, TypeOK, InBounds, Bounded, Ids, StreamAssumption, Total
<1>a. ASSUME NEW r \in write(req, rcvd - pos, DecodedAt(pos), space)
      PROVE  /\ r.hv \in HVRecord(Ids) /\ Bounded(r.hv)
             /\ r.wlen = -1 \/ r.wlen \in 0 .. rcvd - pos
             /\ r.stored \in 0 .. space
  BY <1>0, GarbageIsId, WriteType, DecodedType
<1>b. ASSUME NEW id \in Ids, NEW state \in State, NEW q \in Responses(id, state)
      PROVE  q \in Response
  <2>1. PICK v \in BOOLEAN : q = [id |-> id, state |-> state, value |-> v]
    BY Zenon DEF Responses
  <2> QED BY <2>1 DEF Response, Ids
<1>1. CASE Recv
  BY <1>0, <1>1 DEF Recv, TInv, TypeOK, InBounds, Bounded, Ids
<1>2. CASE PeerClosed \/ PeerReset \/ Clobber \/ StartWrite \/ SendFails
  BY <1>2 DEF PeerClosed, PeerReset, Clobber, StartWrite, SendFails, TInv, TypeOK, InBounds
<1>3. CASE WriteMore
  <2>1. PICK r \in write(req, rcvd - pos, DecodedAt(pos), space) :
          r.wlen # -1 /\ req' = r.hv /\ Advance(r)
    BY <1>3 DEF WriteMore
  <2>a. /\ req' \in HVRecord(Ids) /\ Bounded(req')
        /\ r.wlen \in 0 .. rcvd - pos /\ r.stored \in 0 .. space
    BY <1>a, <2>1
  <2>2. pos' \in Nat /\ pos' <= rcvd /\ space' \in Nat /\ pc' \in {"idle", "read"}
    BY <1>0, <2>1, <2>a, AdvanceType
  <2> QED BY <1>0, <1>3, <2>a, <2>2 DEF WriteMore, TInv, TypeOK, InBounds, Bounded, Ids
<1>4. CASE WriteLast
  <2>1. PICK r \in write(req, rcvd - pos, DecodedAt(pos), space) :
          /\ r.wlen # -1 /\ req' = clear(r.hv) /\ Advance(r)
          /\ \E q \in Responses(r.hv.id, "OK") : resp' = Append(resp, q)
    BY <1>4 DEF WriteLast
  <2>a. /\ r.hv \in HVRecord(Ids) /\ Bounded(r.hv)
        /\ r.wlen \in 0 .. rcvd - pos /\ r.stored \in 0 .. space
    BY <1>a, <2>1
  <2>b. req' \in HVRecord(Ids) /\ Bounded(req')
    BY <2>1, <2>a, GarbageIsId, ClearType
  <2>2. pos' \in Nat /\ pos' <= rcvd /\ space' \in Nat /\ pc' \in {"idle", "read"}
    BY <1>0, <2>1, <2>a, AdvanceType
  <2>3. r.hv.id \in Ids
    BY <1>a DEF HVRecord
  <2>4. resp' \in Seq(Response)
    BY <1>0, <1>b, <2>1, <2>3 DEF State
  <2> QED BY <1>0, <1>4, <2>b, <2>2, <2>4 DEF WriteLast, TInv, TypeOK, InBounds, Bounded, Ids
<1>5. CASE WriteFailed
  <2>1. PICK r \in write(req, rcvd - pos, DecodedAt(pos), space) :
          /\ req' = clear(r.hv)
          /\ \E q \in Responses(r.hv.id, "INTERNAL_ERROR") : resp' = Append(resp, q)
    BY <1>5 DEF WriteFailed
  <2>2. req' \in HVRecord(Ids) /\ Bounded(req')
    BY <1>a, <2>1, GarbageIsId, ClearType
  <2>3. r.hv.id \in Ids
    BY <1>a DEF HVRecord
  <2>4. resp' \in Seq(Response)
    BY <1>0, <1>b, <2>1, <2>3 DEF State
  <2> QED BY <1>0, <1>5, <2>2, <2>4 DEF WriteFailed, TInv, TypeOK, InBounds, Bounded, Ids
<1>6. CASE SkipResponse \/ SendResponse
  <2>1. /\ resp # <<>> /\ resp' = Tail(resp) /\ pc' = IF Len(resp) = 1 THEN "idle" ELSE "write"
        /\ UNCHANGED <<rcvd, pos, req, served, space, failed>>
    BY <1>6 DEF SkipResponse, SendResponse, PopFront, TInv
  <2>2. Head(resp) \in Response /\ resp' \in Seq(Response) /\ (pc' = "write" => resp' # <<>>)
    <3>1. Head(resp) \in Response /\ Tail(resp) \in Seq(Response) /\ Len(Tail(resp)) = Len(resp) - 1
      BY <1>0, <2>1
    <3>2. Len(resp) # 1 => Tail(resp) # <<>>
      BY <1>0, <2>1, <3>1
    <3> QED BY <2>1, <3>1, <3>2
  <2>3. wire' \in Seq(Frame)
    <3>1. ASSUME NEW whole \in BOOLEAN
          PROVE  [id |-> Head(resp).id, state |-> Head(resp).state, whole |-> whole] \in Frame
      BY <2>2 DEF Response, Frame
    <3>2. CASE SkipResponse
      BY <1>0, <3>2 DEF SkipResponse
    <3>3. CASE SendResponse
      <4>1. PICK whole \in BOOLEAN :
              wire' = Append(wire, [id |-> Head(resp).id, state |-> Head(resp).state, whole |-> whole])
        BY <3>3, Zenon DEF SendResponse
      <4> QED BY <1>0, <3>1, <4>1
    <3> QED BY <1>6, <3>2, <3>3
  <2> QED BY <1>0, <2>1, <2>2, <2>3 DEF TInv, TypeOK, InBounds
<1>7. CASE UNCHANGED vars
  BY <1>7 DEF vars, TInv, TypeOK, InBounds
<1> QED BY <1>1, <1>2, <1>3, <1>4, <1>5, <1>6, <1>7 DEF Next, Reading, Writing, Ended

(* Members and counters keep their types. *)
THEOREM TypeCorrect == Spec => []TypeOK
<1>1. TInv => TypeOK
  BY DEF TInv
<1> QED BY <1>1, InitTInv, NextTInv, PTL DEF Spec

(***************************************************************************)
(* Neither the receive buffer nor a cache is overrun, whatever arrives or  *)
(* fails, up to the point where the memcpy for a cut header has destroyed  *)
(* what the decoder stands on.                                             *)
(***************************************************************************)
THEOREM BoundsKept == Spec => []BufferBounds
<1>1. TInv => BufferBounds
  BY DEF TInv, BufferBounds
<1> QED BY <1>1, InitTInv, NextTInv, PTL DEF Spec

-----------------------------------------------------------------------------
(* The offsets of the messages. *)
LEMMA Offsets ==
  /\ NReq \in Nat /\ Request = 1 .. NReq
  /\ \A k \in 1 .. NReq + 1 : Start[k] \in Nat
  /\ \A k \in Request : VLen[k] \in Nat /\ Start[k + 1] = Start[k] + HeaderSize + VLen[k]
  /\ \A j, k \in 1 .. NReq + 1 : j < k => Start[j] + HeaderSize <= Start[k]
  BY StreamAssumption DEF StreamAssumption, Request

(* No two messages start at the same offset: a header decodes to its own message. *)
LEMMA DecodedHere ==
  ASSUME NEW k \in Request PROVE DecodedAt(Start[k]) = {<<k, VLen[k]>>}
<1>1. \A j \in Request : Start[j] = Start[k] => j = k
  <2> SUFFICES ASSUME NEW j \in Request, Start[j] = Start[k], j # k PROVE FALSE
    OBVIOUS
  <2>1. j < k \/ k < j
    BY Offsets
  <2> QED BY <2>1, Offsets, Sizes
<1>2. {j \in Request : Start[j] = Start[k]} = {k}
  BY <1>1
<1> QED BY <1>2 DEF DecodedAt

(***************************************************************************)
(* write_value() inside message k moves on by what it stored, and sets     *)
(* value_complete only at the first byte of the next message.              *)
(***************************************************************************)
LEMMA ValueInMessage ==
  ASSUME NEW k \in Request, NEW p \in Nat, NEW n \in Nat, NEW room \in Nat,
         NEW g \in HVRecord(Ids), Bounded(g), Holds(g, p, k), ~g.value_complete,
         NEW q \in write_value(g, n, room), q.wlen # -1
  PROVE  /\ Holds(q.hv, p + q.wlen, k)
         /\ q.hv.value_complete => p + q.wlen = Start[k + 1]
<1>0. /\ Start[k] \in Nat /\ VLen[k] \in Nat /\ Start[k + 1] = Start[k] + HeaderSize + VLen[k]
      /\ g.length \in Nat /\ g.value \in Cache \cup {NULL} /\ HeaderSize \in Nat
      /\ NULL \notin Cache
  BY Offsets, Sizes DEF HVRecord
<1>1. CASE q = [hv |-> g, wlen |-> 0, stored |-> 0]
  BY <1>0, <1>1
<1>2. ASSUME NEW c \in ValueCache(g), c # NULL,
             LET w == Stored(c, n, room)
                 d == cache_push(c, w)
             IN q = [hv |-> [g EXCEPT !.value = d, !.value_complete = @ \/ cache_full(d)],
                     wlen |-> w, stored |-> w]
      PROVE  /\ Holds(q.hv, p + q.wlen, k)
             /\ q.hv.value_complete => p + q.wlen = Start[k + 1]
  <2> DEFINE w == Stored(c, n, room)
             d == cache_push(c, w)
  <2>1. c \in Cache /\ c.capacity = VLen[k] /\ p = Start[k] + HeaderSize + c.widx
        /\ c.widx <= c.capacity
    BY <1>0, <1>2 DEF ValueCache, create_cache, Cache, Bounded, Holds
  <2>2. w \in Nat
    BY <2>1 DEF Stored, PushLen, Least, Cache
  <2>3. d \in Cache /\ d.capacity = VLen[k] /\ d.widx = c.widx + w
    BY <2>1, <2>2 DEF cache_push, Cache
  <2>4. q = [hv |-> [g EXCEPT !.value = d, !.value_complete = @ \/ cache_full(d)],
             wlen |-> w, stored |-> w]
    BY <1>2
  <2>5. cache_full(d) <=> d.widx = d.capacity
    BY DEF cache_full
  <2> HIDE DEF w, d
  <2>6. /\ q.hv.value = d /\ q.hv.hlen = g.hlen /\ q.hv.head_complete = g.head_complete
        /\ q.hv.id = g.id /\ q.hv.length = g.length /\ q.hv.to = g.to /\ q.wlen = w
    BY <2>4 DEF HVRecord
  <2>7. q.hv.value_complete <=> cache_full(d)
    BY <2>4 DEF HVRecord
  <2>8. p + q.wlen = Start[k] + HeaderSize + d.widx
    BY <1>0, <2>1, <2>2, <2>3, <2>6 DEF Cache
  <2>9. d # NULL
    BY <1>0, <2>3
  <2>10. Holds(q.hv, p + q.wlen, k)
    BY <2>3, <2>6, <2>8, <2>9 DEF Holds
  <2> QED BY <1>0, <2>3, <2>5, <2>7, <2>8, <2>10
<1>3. q # [hv |-> g, wlen |-> -1, stored |-> 0]
  OBVIOUS
<1> QED BY <1>1, <1>2, <1>3 DEF write_value

(***************************************************************************)
(* The invariant behind Framing: recv() stops at no offset inside a header *)
(* (without the "split" fault), and the loop of handle_read() goes on only *)
(* while bytes are left.                                                   *)
(***************************************************************************)
FInv ==
  /\ TInv /\ Framing
  /\ "split" \notin Faults => ~InsideHeader(rcvd)
  /\ pc = "read" => pos < rcvd

(* One call of write() in an undisturbed stream stays within the next message. *)
LEMMA WriteInMessage ==
  ASSUME FInv, Undisturbed, pc = "read",
         NEW r \in write(req, rcvd - pos, DecodedAt(pos), space), r.wlen # -1
  PROVE  /\ served < NReq
         /\ Holds(r.hv, pos + r.wlen, served + 1)
         /\ r.hv.value_complete => pos + r.wlen = Start[served + 2]
<1> DEFINE n == rcvd - pos
           k == served + 1
           w == HeadLen(req, n)
<1>0. /\ pos \in Nat /\ rcvd \in Nat /\ served \in Nat /\ space \in Nat /\ pos < rcvd
      /\ rcvd <= Start[NReq + 1] /\ n \in Nat /\ 0 < n /\ ~req.value_complete /\ served <= NReq
      /\ req \in HVRecord(Ids) /\ Bounded(req) /\ (AtBoundary \/ InMessage)
      /\ ~InsideHeader(rcvd) /\ NReq \in Nat /\ HeaderSize \in Nat /\ 0 < HeaderSize
  BY Sizes, Offsets DEF FInv, TInv, TypeOK, InBounds, Bounded, Framing, Undisturbed, Total, Ids
<1>1. PICK g \in write_head(req, n, DecodedAt(pos)) : \E q \in write_value(g, n - w, space) :
        r = [q EXCEPT !.wlen = IF @ = -1 THEN -1 ELSE w + @]
  BY DEF write
<1>2. PICK q \in write_value(g, n - w, space) : r = [q EXCEPT !.wlen = IF @ = -1 THEN -1 ELSE w + @]
  BY <1>1
<1>3. g \in HVRecord(Ids) /\ Bounded(g) /\ w \in 0 .. n
  BY <1>0, GarbageIsId, WriteHeadType, DecodedType
<1>4. n - w \in Nat
  BY <1>0, <1>3
<1>5. (q.wlen = -1 \/ q.wlen \in 0 .. n - w) /\ DOMAIN q = {"hv", "wlen", "stored"}
  BY <1>0, <1>3, <1>4, GarbageIsId, WriteValueType
<1>6. r.hv = q.hv /\ q.wlen # -1 /\ q.wlen \in Nat /\ r.wlen = w + q.wlen
  <2>1. r.hv = q.hv /\ r.wlen = IF q.wlen = -1 THEN -1 ELSE w + q.wlen
    BY <1>2, <1>5
  <2> QED BY <1>3, <1>4, <1>5, <2>1
<1>7. served < NReq /\ Holds(g, pos + w, k) /\ ~g.value_complete
  <2>1. CASE AtBoundary
    <3>1. pos = Start[k] /\ req.hlen = 0 /\ ~req.head_complete /\ req.value = NULL
      BY <2>1 DEF AtBoundary
    <3>2. served < NReq
      BY <1>0, <3>1
    <3>3. k \in Request
      BY <1>0, <3>2 DEF Request
    <3>4. Start[k] + HeaderSize <= rcvd
      BY <1>0, <3>1, <3>3, Offsets DEF InsideHeader
    <3>5. w = HeaderSize
      BY <1>0, <3>1, <3>4 DEF HeadLen, Least
    <3>6. DecodedAt(pos) = {<<k, VLen[k]>>}
      BY <3>1, <3>3, DecodedHere
    <3>7. g = head_completed([req EXCEPT !.hlen = HeaderSize, !.id = k, !.length = VLen[k]])
      <4>1. PICK d \in DecodedAt(pos) :
              g = head_completed([req EXCEPT !.hlen = w, !.id = d[1], !.length = d[2]])
        <5> HIDE DEF n, w
        <5>1. w # 0 /\ ~(req.hlen > 0) /\ ~(w < HeaderSize)
          BY <1>0, <3>1, <3>5
        <5> QED BY <5>1 DEF write_head, w
      <4>2. d[1] = k /\ d[2] = VLen[k]
        BY <3>6
      <4> QED BY <3>5, <4>1, <4>2
    <3>8. /\ g.hlen = HeaderSize /\ g.head_complete /\ g.id = k /\ g.length = VLen[k]
          /\ g.to = (IF VLen[k] < MemoryCache THEN "TO_MEM" ELSE "TO_FILE")
          /\ g.value = NULL /\ g.value_complete = req.value_complete
      BY <1>0, <3>1, <3>7 DEF head_completed, HVRecord
    <3> QED BY <1>0, <3>1, <3>2, <3>5, <3>8 DEF Holds
  <2>2. CASE InMessage
    <3>1. served < NReq /\ Holds(req, pos, k)
      BY <2>2 DEF InMessage
    <3>2. w = 0
      BY <1>0, <3>1 DEF Holds, HeadLen
    <3>3. g = req
      BY <3>2 DEF write_head
    <3> QED BY <1>0, <3>1, <3>2, <3>3
  <2> QED BY <1>0, <2>1, <2>2
<1>8. k \in Request /\ pos + w \in Nat
  BY <1>0, <1>3, <1>7 DEF Request
<1>9. /\ Holds(q.hv, (pos + w) + q.wlen, k)
      /\ q.hv.value_complete => (pos + w) + q.wlen = Start[k + 1]
  <2> HIDE DEF n, k, w
  <2> QED BY <1>0, <1>3, <1>4, <1>6, <1>7, <1>8, ValueInMessage
<1>10. (pos + w) + q.wlen = pos + r.wlen /\ k + 1 = served + 2
  BY <1>0, <1>3, <1>6
<1> QED BY <1>6, <1>7, <1>9, <1>10

(* A new connection waits for the first message. *)
LEMMA InitFInv == Init => FInv
<1> SUFFICES ASSUME Init PROVE FInv
  OBVIOUS
<1>1. PICK to \in Storage : req = NewHV(to)
  BY DEF Init
<1>2. Start[1] = 0
  BY StreamAssumption DEF StreamAssumption
<1>3. Framing
  BY <1>1, <1>2, Offsets DEF Init, NewHV, Framing, AtBoundary
<1>4. ~InsideHeader(rcvd)
  BY Offsets DEF Init, InsideHeader
<1> QED BY <1>3, <1>4, InitTInv DEF FInv, Init

(* Every step keeps the decoder at a boundary or inside the next message. *)
LEMMA NextFInv == FInv /\ [Next]_vars => FInv'
<1> SUFFICES ASSUME FInv, [Next]_vars PROVE FInv'
  OBVIOUS
<1>0. TInv' /\ pos \in Nat /\ rcvd \in Nat /\ served \in Nat /\ pos <= rcvd
  BY NextTInv DEF FInv, TInv, TypeOK, InBounds
<1>1. CASE Recv
  <2>1. PICK m \in 1 .. RecvBuf :
          /\ rcvd' = rcvd + m
          /\ "split" \in Faults \/ ~InsideHeader(rcvd + m)
    BY <1>1 DEF Recv
  <2>2. UNCHANGED <<pos, req, served, failed>>
    BY <1>1 DEF Recv
  <2>3. Framing'
    BY <2>2 DEF FInv, Framing, Undisturbed, AtBoundary, InMessage, Holds
  <2>4. "split" \notin Faults => ~InsideHeader(rcvd')
    BY <2>1
  <2>5. pos' < rcvd'
    <3>1. m \in Nat /\ 0 < m
      BY StreamAssumption DEF StreamAssumption
    <3> QED BY <1>0, <2>1, <2>2, <3>1
  <2> QED BY <1>0, <2>3, <2>4, <2>5 DEF FInv, InsideHeader
<1>2. ASSUME UNCHANGED <<rcvd, pos, req, served, failed>>, pc' = "read" => pc = "read"
      PROVE  FInv'
  <2>1. Framing'
    BY <1>2 DEF FInv, Framing, Undisturbed, AtBoundary, InMessage, Holds
  <2> QED BY <1>0, <1>2, <2>1 DEF FInv, InsideHeader
<1>3. CASE PeerClosed \/ PeerReset \/ Clobber \/ StartWrite \/ SkipResponse \/ SendResponse
           \/ SendFails \/ UNCHANGED vars
  BY <1>2, <1>3 DEF PeerClosed, PeerReset, Clobber, StartWrite, SkipResponse, SendResponse,
       SendFails, PopFront, vars
<1>4. CASE WriteMore
  <2>1. PICK r \in write(req, rcvd - pos, DecodedAt(pos), space) :
          r.wlen # -1 /\ ~is_complete(r.hv) /\ req' = r.hv /\ Advance(r)
    BY <1>4 DEF WriteMore
  <2>2. pc = "read" /\ UNCHANGED <<rcvd, served, failed>>
    BY <1>4 DEF WriteMore
  <2>3. Framing'
    <3> SUFFICES ASSUME Undisturbed' PROVE (served <= NReq /\ ~req.value_complete /\ InMessage)'
      BY DEF Framing
    <3>1. Undisturbed
      BY <2>2 DEF Undisturbed
    <3>2. served < NReq /\ Holds(r.hv, pos + r.wlen, served + 1)
      BY <2>1, <2>2, <3>1, WriteInMessage
    <3>3. ~r.hv.value_complete
      BY <2>1, <3>2 DEF is_complete, Holds
    <3>4. pos' = pos + r.wlen /\ req' = r.hv /\ served' = served
      BY <2>1, <2>2 DEF Advance
    <3> QED BY <1>0, <3>2, <3>3, <3>4, Offsets DEF InMessage, Holds
  <2>4. pc' = "read" => pos' < rcvd'
    BY <1>0, <2>1, <2>2 DEF Advance, TInv, TypeOK, InBounds
  <2> QED BY <1>0, <2>2, <2>3, <2>4 DEF FInv, InsideHeader
<1>5. CASE WriteLast
  <2>1. PICK r \in write(req, rcvd - pos, DecodedAt(pos), space) :
          r.wlen # -1 /\ is_complete(r.hv) /\ req' = clear(r.hv) /\ Advance(r)
    BY <1>5 DEF WriteLast
  <2>2. pc = "read" /\ UNCHANGED <<rcvd, failed>> /\ served' = served + 1
    BY <1>5 DEF WriteLast
  <2>3. Framing'
    <3> SUFFICES ASSUME Undisturbed' PROVE (served <= NReq /\ ~req.value_complete /\ AtBoundary)'
      BY DEF Framing
    <3>1. Undisturbed
      BY <1>0, <2>2, Offsets DEF Undisturbed
    <3>2. /\ served < NReq /\ Holds(r.hv, pos + r.wlen, served + 1)
          /\ r.hv.value_complete => pos + r.wlen = Start[served + 2]
      BY <2>1, <2>2, <3>1, WriteInMessage
    <3>3. pos' = Start[served' + 1] /\ served' <= NReq
      <4>1. served' + 1 = served + 2 /\ served' <= NReq
        BY <1>0, <2>2, <3>2, Offsets
      <4> QED BY <2>1, <3>2, <4>1 DEF Advance, is_complete
    <3>4. r.hv.to = "TO_FILE"
      <4>1. served + 1 \in Request
        BY <1>0, <3>2, Offsets
      <4>2. VLen[served + 1] >= MemoryCache
        BY <1>0, <2>2, <4>1 DEF Undisturbed
      <4> QED BY <3>2, <4>1, <4>2, Offsets, Sizes DEF Holds
    <3>5. r.hv \in HVRecord(Ids)
      <4>1. req \in HVRecord(Ids) /\ Bounded(req) /\ space \in Nat /\ rcvd - pos \in Nat
        BY <1>0 DEF FInv, TInv, TypeOK, InBounds, Bounded, Ids
      <4> QED BY <1>0, <4>1, GarbageIsId, WriteType, DecodedType
    <3>6. req'.hlen = 0 /\ ~req'.head_complete /\ req'.value = NULL /\ ~req'.value_complete
      BY <2>1, <3>4, <3>5 DEF clear, HVRecord
    <3> QED BY <3>3, <3>6 DEF AtBoundary
  <2>4. pc' = "read" => pos' < rcvd'
    BY <1>0, <2>1, <2>2 DEF Advance, TInv, TypeOK, InBounds
  <2> QED BY <1>0, <2>2, <2>3, <2>4 DEF FInv, InsideHeader
<1>6. CASE WriteFailed
  <2>1. ~Undisturbed' /\ rcvd' = rcvd /\ pc' = "idle"
    BY <1>6 DEF WriteFailed, Undisturbed
  <2> QED BY <1>0, <2>1 DEF FInv, Framing, InsideHeader
<1> QED BY <1>1, <1>3, <1>4, <1>5, <1>6 DEF Next, Reading, Writing, Ended

(***************************************************************************)
(* As long as every request reaches the threshold, no cache creation fails *)
(* and recv() does not cut a header, handle_read() keeps in step with the  *)
(* peer's messages, however the stream is cut and however full the disk.   *)
(***************************************************************************)
THEOREM FramingKept == Spec => []Framing
<1>1. FInv => Framing
  BY DEF FInv
<1> QED BY <1>1, InitFInv, NextFInv, PTL DEF Spec
=============================================================================
