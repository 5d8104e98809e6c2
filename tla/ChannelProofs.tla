---------------------------- MODULE ChannelProofs ----------------------------
(***************************************************************************)
(* What the peer of a VirusHandler gets: theorems about the answers, and   *)
(* the refinement of RequestChannel, for every number and length of        *)
(* requests, every cut of the stream between headers and every disk.       *)
(***************************************************************************)
EXTENDS VirusHandlerProofs, SequenceTheorems

(***************************************************************************)
(* What the code needs to serve a whole connection: recv() cuts no header, *)
(* create_cache() does not fail and only the last request may stay below   *)
(* the threshold.                                                          *)
(***************************************************************************)
Proper ==
  /\ Faults \cap {"split", "cache"} = {}
  /\ \A k \in Request : k < NReq => VLen[k] >= MemoryCache

(* Nothing has disturbed the decoder, or nothing ever will. *)
Orderly == "cache" \notin Faults /\ (Undisturbed \/ Proper)

(* The answers one by one: the i-th that leaves, or is to leave, answers request i. *)
InOrder ==
  /\ Len(wire) + Len(resp) = served
  /\ \A i \in 1 .. Len(wire) : wire[i].id = i /\ wire[i].state = "OK"
  /\ \A i \in 1 .. Len(resp) :
       resp[i].id = Len(wire) + i /\ resp[i].state = "OK" /\ resp[i].value

(***************************************************************************)
(* The inductive invariant behind AnswersInOrder, NoEarlyAnswer and the    *)
(* refinement: the stream is past every request that was answered, so that *)
(* after the last one nothing is left that could be taken for a header.    *)
(***************************************************************************)
OInv ==
  Orderly => /\ ~failed /\ served <= NReq /\ Start[served + 1] <= pos
             /\ InOrder

-----------------------------------------------------------------------------
(* create_cache() does not fail: write() never returns -1. *)
LEMMA NoFailure ==
  ASSUME "cache" \notin Faults, NEW h \in HVRecord(Ids), Bounded(h), NEW n \in Nat, NEW room \in Nat,
         NEW decoded \in SUBSET (Ids \X Nat), NEW r \in write(h, n, decoded, room)
  PROVE  r.wlen # -1
<1> DEFINE w == HeadLen(h, n)
<1>1. PICK g \in write_head(h, n, decoded) : \E q \in write_value(g, n - w, room) :
        r = [q EXCEPT !.wlen = IF @ = -1 THEN -1 ELSE w + @]
  BY DEF write
<1>2. g \in HVRecord(Ids) /\ Bounded(g) /\ w \in 0 .. n
  BY GarbageIsId, WriteHeadType
<1>3. n - w \in Nat
  BY <1>2
<1>4. PICK q \in write_value(g, n - w, room) :
        r = [q EXCEPT !.wlen = IF @ = -1 THEN -1 ELSE w + @]
  BY <1>1
<1>5. (q.wlen = -1 \/ q.wlen \in 0 .. n - w) /\ DOMAIN q = {"hv", "wlen", "stored"}
  BY <1>2, <1>3, GarbageIsId, WriteValueType
<1> HIDE DEF w
<1>6. q.wlen # -1
  <2>1. CASE n - w <= 0 \/ ~g.head_complete
    <3>1. q = [hv |-> g, wlen |-> 0, stored |-> 0]
      BY <2>1 DEF write_value
    <3> QED BY <3>1
  <2>2. CASE ~(n - w <= 0 \/ ~g.head_complete)
    <3>1. PICK c \in ValueCache(g) :
            q = IF c = NULL THEN [hv |-> g, wlen |-> -1, stored |-> 0]
                ELSE LET x == Stored(c, n - w, room)
                         d == cache_push(c, x)
                     IN [hv |-> [g EXCEPT !.value = d, !.value_complete = @ \/ cache_full(d)],
                         wlen |-> x, stored |-> x]
      BY <2>2 DEF write_value
    <3>2. c \in Cache /\ c # NULL /\ c.widx <= c.capacity
      BY <1>2, Sizes DEF ValueCache, create_cache, HVRecord, Cache, Bounded
    <3>3. q.wlen = Stored(c, n - w, room)
      BY <3>1, <3>2
    <3>4. Stored(c, n - w, room) >= 0
      BY <1>3, <3>2 DEF Stored, PushLen, Least, Cache
    <3> QED BY <3>3, <3>4
  <2> QED BY <2>1, <2>2
<1>7. r.wlen = w + q.wlen
  BY <1>4, <1>5, <1>6
<1> QED BY <1>2, <1>3, <1>5, <1>6, <1>7

(* While handle_read() has bytes left, an orderly stream is undisturbed. *)
LEMMA StillUndisturbed ==
  ASSUME FInv, OInv, Orderly, pc = "read" PROVE Undisturbed
<1>0. /\ ~failed /\ served <= NReq /\ Start[served + 1] <= pos /\ served \in Nat
      /\ pos < rcvd /\ rcvd <= Start[NReq + 1] /\ pos \in Nat /\ rcvd \in Nat
      /\ NReq \in Nat /\ Start[NReq + 1] \in Nat
  BY Offsets DEF OInv, FInv, TInv, TypeOK, InBounds, Total
<1>1. CASE Proper
  <2>1. served < NReq
    BY <1>0
  <2>2. \A k \in Request : k <= served => VLen[k] >= MemoryCache
    BY <1>0, <1>1, <2>1, Offsets DEF Proper
  <2> QED BY <1>0, <1>1, <2>2 DEF Undisturbed, Proper
<1> QED BY <1>1 DEF Orderly

(* A response that is queued has its value, when create_cache() does not fail. *)
LEMMA QueuedWhole ==
  ASSUME "cache" \notin Faults, NEW id, NEW state, NEW q \in Responses(id, state)
  PROVE  q = [id |-> id, state |-> state, value |-> TRUE]
  BY DEF Responses

(* A new connection has no answers. *)
LEMMA InitOInv == Init => OInv
<1> SUFFICES ASSUME Init PROVE OInv
  OBVIOUS
<1>1. Start[1] = 0 /\ NReq \in Nat
  BY StreamAssumption DEF StreamAssumption
<1>2. Len(wire) = 0 /\ Len(resp) = 0 /\ served = 0 /\ pos = 0 /\ ~failed
  BY DEF Init
<1> QED BY <1>1, <1>2 DEF OInv, InOrder

(* The order survives as long as only the other variables change. *)
LEMMA OrderlyBefore ==
  ASSUME served \in Nat, served' \in {served, served + 1}, failed' = failed, Orderly'
  PROVE  Orderly
<1>1. ASSUME Undisturbed' PROVE Undisturbed
  BY <1>1, Offsets DEF Undisturbed
<1> QED BY <1>1 DEF Orderly, Proper

(* Every step keeps the answers in order. *)
LEMMA NextOInv == FInv /\ OInv /\ [Next]_vars => OInv'
<1> SUFFICES ASSUME FInv, OInv, [Next]_vars, Orderly'
             PROVE  /\ ~failed' /\ served' <= NReq /\ Start[served' + 1] <= pos'
                    /\ InOrder'
  BY DEF OInv
<1>0. /\ rcvd \in Nat /\ pos \in Nat /\ served \in Nat /\ space \in Nat /\ pos <= rcvd
      /\ req \in HVRecord(Ids) /\ Bounded(req) /\ rcvd - pos \in Nat
      /\ resp \in Seq(Response) /\ wire \in Seq(Frame) /\ Len(wire) \in Nat /\ Len(resp) \in Nat
      /\ "cache" \notin Faults
  BY DEF FInv, TInv, TypeOK, InBounds, Bounded, Ids, Orderly
<1>1. ASSUME Orderly
      PROVE  ~failed /\ served <= NReq /\ Start[served + 1] <= pos /\ InOrder
  BY <1>1 DEF OInv
<1>2. ASSUME UNCHANGED <<resp, wire, served, failed, pos>>
      PROVE  /\ ~failed' /\ served' <= NReq /\ Start[served' + 1] <= pos'
             /\ InOrder'
  BY <1>0, <1>1, <1>2, OrderlyBefore DEF InOrder
<1>3. CASE Recv \/ PeerClosed \/ PeerReset \/ Clobber \/ StartWrite \/ SendFails \/ UNCHANGED vars
  BY <1>2, <1>3 DEF Recv, PeerClosed, PeerReset, Clobber, StartWrite, SendFails, vars
<1>4. ASSUME NEW r \in write(req, rcvd - pos, DecodedAt(pos), space) PROVE r.wlen \in Nat
  <2>1. DecodedAt(pos) \in SUBSET (Ids \X Nat)
    BY <1>0, DecodedType
  <2> QED BY <1>0, <2>1, GarbageIsId, NoFailure, WriteType
<1>5. CASE WriteMore
  <2>1. PICK r \in write(req, rcvd - pos, DecodedAt(pos), space) : Advance(r)
    BY <1>5 DEF WriteMore
  <2>2. UNCHANGED <<resp, wire, served, failed>> /\ pos' = pos + r.wlen
    BY <1>5, <2>1 DEF WriteMore, Advance
  <2>3. ~failed /\ served <= NReq /\ Start[served + 1] <= pos /\ InOrder
    BY <1>0, <1>1, <2>2, OrderlyBefore
  <2>4. Start[served + 1] \in Nat
    BY <1>0, <2>3, Offsets
  <2> QED BY <1>0, <1>4, <2>2, <2>3, <2>4 DEF InOrder
<1>6. CASE WriteFailed
  <2>1. FALSE
    BY <1>4, <1>6 DEF WriteFailed
  <2> QED BY <2>1
<1>7. CASE WriteLast
  <2>1. PICK r \in write(req, rcvd - pos, DecodedAt(pos), space) :
          /\ r.wlen # -1 /\ is_complete(r.hv) /\ Advance(r)
          /\ \E q \in Responses(r.hv.id, "OK") : resp' = Append(resp, q)
    BY <1>7 DEF WriteLast
  <2>2. pc = "read" /\ served' = served + 1 /\ UNCHANGED <<wire, failed>> /\ pos' = pos + r.wlen
    BY <1>7, <2>1 DEF WriteLast, Advance
  <2>3. Orderly /\ ~failed /\ served <= NReq /\ InOrder
    BY <1>0, <1>1, <2>2, OrderlyBefore
  <2>4. Undisturbed
    BY <2>2, <2>3, StillUndisturbed
  <2>5. /\ served < NReq /\ Holds(r.hv, pos + r.wlen, served + 1)
        /\ r.hv.value_complete => pos + r.wlen = Start[served + 2]
    BY <2>1, <2>2, <2>4, WriteInMessage
  <2>6. resp' = Append(resp, [id |-> served + 1, state |-> "OK", value |-> TRUE])
    BY <1>0, <2>1, <2>5, QueuedWhole DEF Holds
  <2>7. pos' = Start[served' + 1] /\ served' <= NReq
    <3>1. served' + 1 = served + 2 /\ served' <= NReq
      BY <1>0, <2>2, <2>5, Offsets
    <3> QED BY <2>1, <2>2, <2>5, <3>1 DEF is_complete
  <2>8. pos' \in Nat
    BY <1>0, <1>4, <2>2
  <2>9. InOrder'
    <3>1. /\ Len(resp') = Len(resp) + 1
          /\ \A i \in 1 .. Len(resp) : resp'[i] = resp[i]
          /\ resp'[Len(resp) + 1] = [id |-> served + 1, state |-> "OK", value |-> TRUE]
      BY <1>0, <2>6
    <3>2. Len(wire) + (Len(resp) + 1) = served + 1
      BY <1>0, <2>3 DEF InOrder
    <3>3. ASSUME NEW i \in 1 .. Len(resp')
          PROVE  resp'[i].id = Len(wire) + i /\ resp'[i].state = "OK" /\ resp'[i].value
      <4>1. CASE i = Len(resp) + 1
        BY <3>1, <3>2, <4>1
      <4>2. CASE i \in 1 .. Len(resp)
        BY <2>3, <3>1, <4>2 DEF InOrder
      <4> QED BY <1>0, <3>1, <4>1, <4>2
    <3> QED BY <1>0, <2>2, <2>3, <3>1, <3>2, <3>3 DEF InOrder
  <2> QED BY <2>2, <2>3, <2>7, <2>8, <2>9
<1>8. CASE SkipResponse \/ SendResponse
  <2>1. /\ pc = "write" /\ resp' = Tail(resp) /\ UNCHANGED <<pos, served, failed>>
    BY <1>8 DEF SkipResponse, SendResponse, PopFront
  <2>2. ~failed /\ served <= NReq /\ Start[served + 1] <= pos /\ InOrder
    BY <1>0, <1>1, <2>1, OrderlyBefore
  <2>3. resp # <<>>
    BY <2>1 DEF FInv, TInv
  <2>4. /\ Len(resp) > 0 /\ Len(resp') = Len(resp) - 1 /\ Head(resp) = resp[1]
        /\ \A i \in 1 .. (Len(resp) - 1) : resp'[i] = resp[i + 1]
    BY <1>0, <2>1, <2>3
  <2>5. resp[1].id = Len(wire) + 1 /\ resp[1].state = "OK" /\ resp[1].value
    BY <1>0, <2>2, <2>4 DEF InOrder
  <2>6. PICK whole : wire' = Append(wire, [id |-> Len(wire) + 1, state |-> "OK", whole |-> whole])
    BY <1>8, <2>4, <2>5 DEF SkipResponse, SendResponse
  <2>7. /\ Len(wire') = Len(wire) + 1 /\ \A i \in 1 .. Len(wire) : wire'[i] = wire[i]
        /\ wire'[Len(wire) + 1] = [id |-> Len(wire) + 1, state |-> "OK", whole |-> whole]
    BY <1>0, <2>6
  <2>8. ASSUME NEW i \in 1 .. Len(wire') PROVE wire'[i].id = i /\ wire'[i].state = "OK"
    <3>1. CASE i = Len(wire) + 1
      BY <2>7, <3>1
    <3>2. CASE i \in 1 .. Len(wire)
      BY <2>2, <2>7, <3>2 DEF InOrder
    <3> QED BY <1>0, <2>7, <3>1, <3>2
  <2>9. ASSUME NEW i \in 1 .. Len(resp')
        PROVE  resp'[i].id = Len(wire') + i /\ resp'[i].state = "OK" /\ resp'[i].value
    <3>1. i + 1 \in 1 .. Len(resp) /\ resp'[i] = resp[i + 1] /\ Len(wire') + i = Len(wire) + (i + 1)
      BY <1>0, <2>4, <2>7
    <3> QED BY <2>2, <3>1 DEF InOrder
  <2>10. Len(wire') + Len(resp') = served
    <3>1. Len(wire) + Len(resp) = served
      BY <2>2 DEF InOrder
    <3>2. Len(wire') = Len(wire) + 1 /\ Len(resp') = Len(resp) - 1
      BY <2>4, <2>7
    <3>3. \A m, n \in Nat : (m + 1) + (n - 1) = m + n
      OBVIOUS
    <3> QED BY <1>0, <3>1, <3>2, <3>3
  <2> QED BY <2>1, <2>2, <2>8, <2>9, <2>10 DEF InOrder
<1> QED BY <1>3, <1>5, <1>6, <1>7, <1>8 DEF Next, Reading, Writing, Ended

(* The answers are in order in every reachable state. *)
THEOREM OrderInvariance == Spec => [](FInv /\ OInv)
  BY InitFInv, InitOInv, NextFInv, NextOInv, PTL DEF Spec

-----------------------------------------------------------------------------
(***************************************************************************)
(* The same where create_cache() may fail, up to the first request that is *)
(* given up.  A response whose own value found no memory is skipped, so    *)
(* that only this is left of the order: what leaves, or is to leave, is OK *)
(* for a request that has been served.                                     *)
(***************************************************************************)
Intact ==
  /\ "split" \notin Faults /\ ~failed
  /\ \/ \A k \in Request : k < NReq => VLen[k] >= MemoryCache
     \/ \A k \in Request : k <= served => VLen[k] >= MemoryCache

OfServed(q) == \A i \in 1 .. Len(q) : q[i].id \in 1 .. served /\ q[i].state = "OK"

EInv ==
  Intact => /\ served <= NReq /\ Start[served + 1] <= pos
            /\ OfServed(wire) /\ OfServed(resp)

(* While handle_read() has bytes left, an intact stream is undisturbed. *)
LEMMA IntactUndisturbed ==
  ASSUME FInv, EInv, Intact, pc = "read" PROVE Undisturbed
<1>0. /\ served <= NReq /\ Start[served + 1] <= pos /\ served \in Nat
      /\ pos < rcvd /\ rcvd <= Start[NReq + 1] /\ pos \in Nat /\ rcvd \in Nat
      /\ NReq \in Nat /\ Start[NReq + 1] \in Nat
  BY Offsets DEF EInv, FInv, TInv, TypeOK, InBounds, Total
<1>1. served < NReq
  BY <1>0
<1> QED BY <1>0, <1>1, Offsets DEF Intact, Undisturbed

(* A stream that is intact after a step was so before. *)
LEMMA IntactBefore ==
  ASSUME served \in Nat, served' \in {served, served + 1}, failed' = failed, Intact'
  PROVE  Intact
  BY Offsets DEF Intact

(* A new connection has no answers. *)
LEMMA InitEInv == Init => EInv
<1> SUFFICES ASSUME Init PROVE EInv
  OBVIOUS
<1>1. Start[1] = 0 /\ NReq \in Nat
  BY StreamAssumption DEF StreamAssumption
<1>2. Len(wire) = 0 /\ Len(resp) = 0 /\ served = 0 /\ pos = 0
  BY DEF Init
<1> QED BY <1>1, <1>2 DEF EInv, OfServed

(* No step answers a request that was not served, until one is given up. *)
LEMMA NextEInv == FInv /\ EInv /\ [Next]_vars => EInv'
<1> SUFFICES ASSUME FInv, EInv, [Next]_vars, Intact'
             PROVE  /\ served' <= NReq /\ Start[served' + 1] <= pos'
                    /\ OfServed(wire)' /\ OfServed(resp)'
  BY DEF EInv
<1>0. /\ rcvd \in Nat /\ pos \in Nat /\ served \in Nat /\ space \in Nat /\ pos <= rcvd
      /\ req \in HVRecord(Ids) /\ Bounded(req) /\ rcvd - pos \in Nat
      /\ resp \in Seq(Response) /\ wire \in Seq(Frame) /\ Len(wire) \in Nat /\ Len(resp) \in Nat
  BY DEF FInv, TInv, TypeOK, InBounds, Bounded, Ids
<1>1. ASSUME served' \in {served, served + 1}, failed' = failed
      PROVE  /\ Intact /\ served <= NReq /\ Start[served + 1] <= pos
             /\ OfServed(wire) /\ OfServed(resp)
  BY <1>0, <1>1, IntactBefore DEF EInv
<1>3. CASE Recv \/ PeerClosed \/ PeerReset \/ Clobber \/ StartWrite \/ SendFails \/ UNCHANGED vars
  <2>1. UNCHANGED <<resp, wire, served, failed, pos>>
    BY <1>3 DEF Recv, PeerClosed, PeerReset, Clobber, StartWrite, SendFails, vars
  <2> QED BY <1>1, <2>1 DEF OfServed
<1>4. ASSUME NEW r \in write(req, rcvd - pos, DecodedAt(pos), space), r.wlen # -1 PROVE r.wlen \in Nat
  <2>1. DecodedAt(pos) \in SUBSET (Ids \X Nat)
    BY <1>0, DecodedType
  <2>2. r.wlen \in 0 .. rcvd - pos
    BY <1>0, <1>4, <2>1, GarbageIsId, WriteType
  <2> QED BY <1>0, <2>2
<1>5. CASE WriteMore
  <2>1. PICK r \in write(req, rcvd - pos, DecodedAt(pos), space) : r.wlen # -1 /\ Advance(r)
    BY <1>5 DEF WriteMore
  <2>2. UNCHANGED <<resp, wire, served, failed>> /\ pos' = pos + r.wlen
    BY <1>5, <2>1 DEF WriteMore, Advance
  <2>3. /\ served <= NReq /\ Start[served + 1] <= pos /\ OfServed(wire) /\ OfServed(resp)
    BY <1>1, <2>2
  <2>4. Start[served + 1] \in Nat /\ r.wlen \in Nat
    BY <1>0, <1>4, <2>1, <2>3, Offsets
  <2> QED BY <1>0, <2>2, <2>3, <2>4 DEF OfServed
<1>6. CASE WriteFailed
  <2>1. failed' /\ ~failed'
    BY <1>6 DEF WriteFailed, Intact
  <2> QED BY <2>1
<1>7. CASE WriteLast
  <2>1. PICK r \in write(req, rcvd - pos, DecodedAt(pos), space) :
          /\ r.wlen # -1 /\ is_complete(r.hv) /\ Advance(r)
          /\ \E q \in Responses(r.hv.id, "OK") : resp' = Append(resp, q)
    BY <1>7 DEF WriteLast
  <2>2. pc = "read" /\ served' = served + 1 /\ UNCHANGED <<wire, failed>> /\ pos' = pos + r.wlen
    BY <1>7, <2>1 DEF WriteLast, Advance
  <2>3. Intact /\ OfServed(wire) /\ OfServed(resp)
    BY <1>1, <2>2
  <2>4. Undisturbed
    BY <2>2, <2>3, IntactUndisturbed
  <2>5. /\ served < NReq /\ Holds(r.hv, pos + r.wlen, served + 1)
        /\ r.hv.value_complete => pos + r.wlen = Start[served + 2]
    BY <2>1, <2>2, <2>4, WriteInMessage
  <2>6. PICK q \in Responses(served + 1, "OK") : resp' = Append(resp, q)
    BY <2>1, <2>5 DEF Holds
  <2>12. q \in Response /\ q.id = served + 1 /\ q.state = "OK"
    <3>1. PICK v \in BOOLEAN : q = [id |-> served + 1, state |-> "OK", value |-> v]
      BY DEF Responses
    <3>2. served + 1 \in Request
      BY <1>0, <2>5, Offsets
    <3> QED BY <3>1, <3>2 DEF Response, State
  <2>7. pos' = Start[served' + 1] /\ served' <= NReq
    <3>1. served' + 1 = served + 2 /\ served' <= NReq
      BY <1>0, <2>2, <2>5, Offsets
    <3> QED BY <2>1, <2>2, <2>5, <3>1 DEF is_complete
  <2>8. pos' \in Nat
    BY <1>0, <1>4, <2>1, <2>2
  <2>9. \A k \in 1 .. served : k \in 1 .. served'
    BY <1>0, <2>2
  <2>10. OfServed(wire)'
    BY <2>2, <2>3, <2>9 DEF OfServed
  <2>11. OfServed(resp)'
    <3>1. /\ Len(resp') = Len(resp) + 1 /\ resp'[Len(resp) + 1] = q
          /\ \A i \in 1 .. Len(resp) : resp'[i] = resp[i]
      BY <1>0, <2>6, <2>12
    <3>2. ASSUME NEW i \in 1 .. Len(resp') PROVE resp'[i].id \in 1 .. served' /\ resp'[i].state = "OK"
      <4>1. CASE i = Len(resp) + 1
        BY <1>0, <2>2, <2>12, <3>1, <4>1
      <4>2. CASE i \in 1 .. Len(resp)
        BY <2>3, <2>9, <3>1, <4>2 DEF OfServed
      <4> QED BY <1>0, <3>1, <4>1, <4>2
    <3> QED BY <3>2 DEF OfServed
  <2> QED BY <2>7, <2>8, <2>10, <2>11
<1>8. CASE SkipResponse \/ SendResponse
  <2>1. /\ pc = "write" /\ resp' = Tail(resp) /\ UNCHANGED <<pos, served, failed>>
    BY <1>8 DEF SkipResponse, SendResponse, PopFront
  <2>2. served <= NReq /\ Start[served + 1] <= pos /\ OfServed(wire) /\ OfServed(resp)
    BY <1>1, <2>1
  <2>3. resp # <<>>
    BY <2>1 DEF FInv, TInv
  <2>4. /\ Len(resp) > 0 /\ Len(resp') = Len(resp) - 1 /\ Head(resp) = resp[1]
        /\ \A i \in 1 .. (Len(resp) - 1) : resp'[i] = resp[i + 1]
    BY <1>0, <2>1, <2>3
  <2>5. OfServed(resp)'
    <3>1. ASSUME NEW i \in 1 .. Len(resp') PROVE i + 1 \in 1 .. Len(resp) /\ resp'[i] = resp[i + 1]
      BY <1>0, <2>4
    <3> QED BY <2>1, <2>2, <3>1 DEF OfServed
  <2>6. resp[1].id \in 1 .. served /\ resp[1].state = "OK"
    BY <1>0, <2>2, <2>4 DEF OfServed
  <2>7. OfServed(wire)'
    <3>1. CASE SkipResponse
      BY <2>1, <2>2, <3>1 DEF SkipResponse, OfServed
    <3>2. CASE SendResponse
      <4>1. PICK f : wire' = Append(wire, f) /\ f.id = resp[1].id /\ f.state = resp[1].state
        BY <2>4, <3>2 DEF SendResponse
      <4>2. /\ Len(wire') = Len(wire) + 1 /\ wire'[Len(wire) + 1] = f
            /\ \A i \in 1 .. Len(wire) : wire'[i] = wire[i]
        BY <1>0, <4>1
      <4>3. ASSUME NEW i \in 1 .. Len(wire') PROVE wire'[i].id \in 1 .. served /\ wire'[i].state = "OK"
        <5>1. CASE i = Len(wire) + 1
          BY <2>6, <4>1, <4>2, <5>1
        <5>2. CASE i \in 1 .. Len(wire)
          BY <2>2, <4>2, <5>2 DEF OfServed
        <5> QED BY <1>0, <4>2, <5>1, <5>2
      <4> QED BY <2>1, <4>3 DEF OfServed
    <3> QED BY <1>8, <3>1, <3>2
  <2> QED BY <2>1, <2>2, <2>5, <2>7
<1> QED BY <1>3, <1>5, <1>6, <1>7, <1>8 DEF Next, Reading, Writing, Ended

-----------------------------------------------------------------------------
(* A response or a frame without what only this module knows of it. *)
Answer == [id : Ids, state : State]

(* Plain() of a sequence of records that have an id and a state. *)
LEMMA PlainType ==
  ASSUME NEW S, \A x \in S : x.id \in Ids /\ x.state \in State, NEW s \in Seq(S)
  PROVE  /\ Plain(s) \in Seq(Answer) /\ Len(Plain(s)) = Len(s)
         /\ \A i \in 1 .. Len(s) : Plain(s)[i] = [id |-> s[i].id, state |-> s[i].state]
<1>1. DOMAIN s = 1 .. Len(s) /\ Len(s) \in Nat /\ \A i \in 1 .. Len(s) : s[i] \in S
  OBVIOUS
<1>2. \A i \in 1 .. Len(s) : [id |-> s[i].id, state |-> s[i].state] \in Answer
  BY <1>1 DEF Answer
<1>3. Plain(s) = [i \in 1 .. Len(s) |-> [id |-> s[i].id, state |-> s[i].state]]
  BY <1>1 DEF Plain
<1> HIDE DEF Plain
<1>4. Plain(s) \in [1 .. Len(s) -> Answer]
  BY <1>2, <1>3
<1>5. Plain(s) \in Seq(Answer)
  BY <1>1, <1>4, IsASeq
<1>6. Len(Plain(s)) = Len(s)
  BY <1>1, <1>4, <1>5
<1> QED BY <1>3, <1>5, <1>6

(* Both queues hold such records. *)
LEMMA PlainQueues ==
  ASSUME TypeOK
  PROVE  /\ Plain(resp) \in Seq(Answer) /\ Len(Plain(resp)) = Len(resp)
         /\ \A i \in 1 .. Len(resp) : Plain(resp)[i] = [id |-> resp[i].id, state |-> resp[i].state]
         /\ Plain(wire) \in Seq(Answer) /\ Len(Plain(wire)) = Len(wire)
         /\ \A i \in 1 .. Len(wire) : Plain(wire)[i] = [id |-> wire[i].id, state |-> wire[i].state]
<1>1. resp \in Seq(Response) /\ \A x \in Response : x.id \in Ids /\ x.state \in State
  BY DEF TypeOK, Response, Ids
<1>2. wire \in Seq(Frame) /\ \A x \in Frame : x.id \in Ids /\ x.state \in State
  BY DEF TypeOK, Frame, Ids
<1>3. /\ Plain(resp) \in Seq(Answer) /\ Len(Plain(resp)) = Len(resp)
      /\ \A i \in 1 .. Len(resp) : Plain(resp)[i] = [id |-> resp[i].id, state |-> resp[i].state]
  BY <1>1, PlainType
<1>4. /\ Plain(wire) \in Seq(Answer) /\ Len(Plain(wire)) = Len(wire)
      /\ \A i \in 1 .. Len(wire) : Plain(wire)[i] = [id |-> wire[i].id, state |-> wire[i].state]
  BY <1>2, PlainType
<1> QED BY <1>3, <1>4

(* Read one by one, answers in order are the sequence AnswersInOrder names. *)
LEMMA OutgoingInOrder ==
  ASSUME TypeOK, InOrder
  PROVE  /\ Outgoing = [i \in 1 .. served |-> [id |-> i, state |-> "OK"]]
         /\ DOMAIN Outgoing = 1 .. served
<1> DEFINE a == Plain(wire)
           b == Plain(resp)
<1>0. /\ Len(wire) \in Nat /\ Len(resp) \in Nat /\ served \in Nat
      /\ Len(wire) + Len(resp) = served
  BY DEF TypeOK, InOrder
<1>1. /\ a \in Seq(Answer) /\ Len(a) = Len(wire)
      /\ \A i \in 1 .. Len(wire) : a[i] = [id |-> i, state |-> "OK"]
  BY PlainQueues DEF InOrder
<1>2. /\ b \in Seq(Answer) /\ Len(b) = Len(resp)
      /\ \A i \in 1 .. Len(resp) : b[i] = [id |-> Len(wire) + i, state |-> "OK"]
  BY PlainQueues DEF InOrder
<1> HIDE DEF a, b
<1> DEFINE f == a \o b
<1>3. /\ f \in Seq(Answer) /\ Len(f) = served
      /\ \A i \in 1 .. served : f[i] = IF i <= Len(a) THEN a[i] ELSE b[i - Len(a)]
  BY <1>0, <1>1, <1>2, ConcatProperties
<1> HIDE DEF f
<1>4. ASSUME NEW i \in 1 .. served PROVE f[i] = [id |-> i, state |-> "OK"]
  <2>1. CASE i <= Len(wire)
    <3>1. i \in 1 .. Len(wire)
      BY <1>0, <2>1
    <3>2. f[i] = a[i]
      BY <1>1, <1>3, <2>1
    <3> QED BY <1>1, <3>1, <3>2
  <2>2. CASE i > Len(wire)
    <3>1. i - Len(wire) \in 1 .. Len(resp) /\ Len(wire) + (i - Len(wire)) = i
      BY <1>0, <2>2
    <3>2. f[i] = b[i - Len(wire)]
      BY <1>0, <1>1, <1>3, <2>2
    <3> QED BY <1>2, <3>1, <3>2
  <2>3. i \in Int /\ Len(wire) \in Int
    BY <1>0
  <2> QED BY <2>1, <2>2, <2>3
<1>5. f \in [1 .. served -> Answer] /\ DOMAIN f = 1 .. served
  BY <1>3
<1>6. f = [i \in 1 .. served |-> [id |-> i, state |-> "OK"]]
  BY <1>4, <1>5
<1> QED BY <1>5, <1>6 DEF Outgoing, a, b, f

(***************************************************************************)
(* As long as nothing disturbs the decoder and create_cache() does not     *)
(* fail, the i-th answer is OK for the i-th request.                       *)
(***************************************************************************)
THEOREM Answers == Spec => []AnswersInOrder
<1>1. FInv /\ OInv => AnswersInOrder
  <2> SUFFICES ASSUME FInv, OInv, Undisturbed, "cache" \notin Faults
               PROVE  Outgoing = [i \in 1 .. served |-> [id |-> i, state |-> "OK"]]
    BY DEF AnswersInOrder
  <2>1. TypeOK /\ InOrder
    BY DEF FInv, TInv, OInv, Orderly
  <2> QED BY <2>1, OutgoingInOrder
<1> QED BY <1>1, OrderInvariance, PTL

(***************************************************************************)
(* No OK leaves before the last byte of its request was taken off the      *)
(* stream, for any lengths and with a create_cache() that may fail, as     *)
(* long as no request was given up and the ones served were large, but for *)
(* the last of the stream.                                                 *)
(***************************************************************************)
THEOREM NotEarlyYet == Spec => [](Intact => NoEarlyAnswer)
<1>1. FInv /\ EInv => (Intact => NoEarlyAnswer)
  <2> SUFFICES ASSUME FInv, EInv, Intact, NEW i \in DOMAIN Outgoing
               PROVE  pos >= Start[Outgoing[i].id + 1]
    BY DEF NoEarlyAnswer
  <2>1. /\ served <= NReq /\ Start[served + 1] <= pos /\ OfServed(wire) /\ OfServed(resp)
        /\ TypeOK /\ served \in Nat /\ pos \in Nat /\ Len(wire) \in Nat /\ Len(resp) \in Nat
    BY DEF FInv, TInv, TypeOK, EInv
  <2> DEFINE a == Plain(wire)
             b == Plain(resp)
             k == Outgoing[i].id
  <2>2. a \in Seq(Answer) /\ Len(a) = Len(wire) /\ b \in Seq(Answer) /\ Len(b) = Len(resp)
    BY <2>1, PlainQueues
  <2>3. /\ \A j \in 1 .. Len(wire) : a[j].id \in 1 .. served
        /\ \A j \in 1 .. Len(resp) : b[j].id \in 1 .. served
    <3>1. ASSUME NEW j \in 1 .. Len(wire) PROVE a[j].id \in 1 .. served
      <4>1. a[j] = [id |-> wire[j].id, state |-> wire[j].state]
        BY <2>1, PlainQueues
      <4>2. wire[j].id \in 1 .. served
        BY <2>1 DEF OfServed
      <4> QED BY <4>1, <4>2
    <3>2. ASSUME NEW j \in 1 .. Len(resp) PROVE b[j].id \in 1 .. served
      <4>1. b[j] = [id |-> resp[j].id, state |-> resp[j].state]
        BY <2>1, PlainQueues
      <4>2. resp[j].id \in 1 .. served
        BY <2>1 DEF OfServed
      <4> QED BY <4>1, <4>2
    <3> QED BY <3>1, <3>2
  <2> HIDE DEF a, b
  <2> DEFINE f == a \o b
  <2>4. /\ f \in Seq(Answer) /\ Len(f) = Len(a) + Len(b)
        /\ \A j \in 1 .. Len(a) + Len(b) : f[j] = IF j <= Len(a) THEN a[j] ELSE b[j - Len(a)]
    BY <2>2, ConcatProperties
  <2>10. Outgoing = f
    BY DEF Outgoing, a, b, f
  <2> HIDE DEF f
  <2>5. i \in 1 .. Len(wire) + Len(resp)
    BY <2>1, <2>2, <2>4, <2>10
  <2>6. k \in 1 .. served
    <3>1. CASE i <= Len(wire)
      BY <2>1, <2>2, <2>3, <2>4, <2>5, <2>10, <3>1
    <3>2. CASE i > Len(wire)
      <4>1. i - Len(wire) \in 1 .. Len(resp)
        BY <2>1, <2>5, <3>2
      <4>2. Outgoing[i] = b[i - Len(wire)]
        BY <2>1, <2>2, <2>4, <2>5, <2>10, <3>2
      <4> QED BY <2>3, <4>1, <4>2
    <3> QED BY <2>1, <2>5, <3>1, <3>2
  <2> HIDE DEF k
  <2>7. k + 1 \in 1 .. NReq + 1 /\ served + 1 \in 1 .. NReq + 1 /\ k + 1 <= served + 1
    BY <2>1, <2>6, Offsets
  <2>8. Start[k + 1] \in Nat /\ Start[served + 1] \in Nat
    BY <2>7, Offsets
  <2>9. Start[k + 1] <= Start[served + 1]
    <3>1. CASE k + 1 = served + 1
      BY <2>8, <3>1
    <3>2. CASE k + 1 < served + 1
      BY <2>7, <2>8, <3>2, Offsets, Sizes
    <3> QED BY <2>7, <3>1, <3>2
  <2> QED BY <2>1, <2>8, <2>9 DEF k
<1> QED BY <1>1, InitFInv, InitEInv, NextFInv, NextEInv, PTL DEF Spec

(***************************************************************************)
(* A proper connection stays intact, so that no OK ever leaves too early.  *)
(* Without the hypothesis the run conn_small shows that it can.            *)
(***************************************************************************)
THEOREM NotEarly == ASSUME Proper PROVE Spec => []NoEarlyAnswer
<1>1. OInv => Intact
  BY DEF OInv, Orderly, Proper, Intact
<1> QED BY <1>1, OrderInvariance, NotEarlyYet, PTL

-----------------------------------------------------------------------------
(* Plain() of a queue to which one record is added. *)
LEMMA PlainAppend ==
  ASSUME NEW S, \A y \in S : y.id \in Ids /\ y.state \in State, NEW s \in Seq(S), NEW x \in S
  PROVE  Plain(Append(s, x)) = Append(Plain(s), [id |-> x.id, state |-> x.state])
<1> DEFINE t == Append(s, x)
           z == [id |-> x.id, state |-> x.state]
           f == Plain(t)
           g == Append(Plain(s), z)
<1>1. /\ t \in Seq(S) /\ Len(t) = Len(s) + 1 /\ Len(s) \in Nat
      /\ t[Len(s) + 1] = x /\ \A i \in 1 .. Len(s) : t[i] = s[i]
  OBVIOUS
<1>2. /\ f \in Seq(Answer) /\ Len(f) = Len(s) + 1
      /\ \A i \in 1 .. Len(s) + 1 : f[i] = [id |-> t[i].id, state |-> t[i].state]
  BY <1>1, PlainType
<1>3. /\ Plain(s) \in Seq(Answer) /\ Len(Plain(s)) = Len(s)
      /\ \A i \in 1 .. Len(s) : Plain(s)[i] = [id |-> s[i].id, state |-> s[i].state]
  BY PlainType
<1>4. z \in Answer
  BY DEF Answer
<1> HIDE DEF z
<1>5. /\ g \in Seq(Answer) /\ Len(g) = Len(s) + 1
      /\ g[Len(s) + 1] = z /\ \A i \in 1 .. Len(s) : g[i] = Plain(s)[i]
  BY <1>1, <1>3, <1>4
<1> HIDE DEF t, f, g
<1>6. ASSUME NEW i \in 1 .. Len(s) + 1 PROVE f[i] = g[i]
  <2>1. CASE i = Len(s) + 1
    BY <1>1, <1>2, <1>5, <2>1 DEF z
  <2>2. CASE i \in 1 .. Len(s)
    <3>1. f[i] = [id |-> s[i].id, state |-> s[i].state]
      BY <1>1, <1>2, <2>2
    <3> QED BY <1>3, <1>5, <2>2, <3>1
  <2> QED BY <1>1, <2>1, <2>2
<1>7. f = g
  BY <1>2, <1>5, <1>6, SeqEqual
<1> QED BY <1>7 DEF f, g, t, z

(* Plain() of a queue whose front is taken. *)
LEMMA PlainTail ==
  ASSUME NEW S, \A y \in S : y.id \in Ids /\ y.state \in State, NEW s \in Seq(S), s # <<>>
  PROVE  /\ Plain(Tail(s)) = Tail(Plain(s)) /\ Plain(s) # <<>>
         /\ Head(Plain(s)) = [id |-> Head(s).id, state |-> Head(s).state]
<1> DEFINE t == Tail(s)
           p == Plain(s)
           f == Plain(t)
           g == Tail(p)
<1>1. /\ t \in Seq(S) /\ Len(t) = Len(s) - 1 /\ Len(s) \in Nat /\ Len(s) > 0
      /\ Head(s) = s[1] /\ \A i \in 1 .. Len(s) - 1 : t[i] = s[i + 1]
  OBVIOUS
<1>2. /\ f \in Seq(Answer) /\ Len(f) = Len(s) - 1
      /\ \A i \in 1 .. Len(s) - 1 : f[i] = [id |-> t[i].id, state |-> t[i].state]
  BY <1>1, PlainType
<1>3. /\ p \in Seq(Answer) /\ Len(p) = Len(s)
      /\ \A i \in 1 .. Len(s) : p[i] = [id |-> s[i].id, state |-> s[i].state]
  BY PlainType
<1> HIDE DEF p, t, f
<1>4. /\ p # <<>> /\ Head(p) = p[1]
      /\ g \in Seq(Answer) /\ Len(g) = Len(s) - 1 /\ \A i \in 1 .. Len(s) - 1 : g[i] = p[i + 1]
  BY <1>1, <1>3
<1> HIDE DEF g
<1>5. ASSUME NEW i \in 1 .. Len(s) - 1 PROVE f[i] = g[i]
  <2>1. i + 1 \in 1 .. Len(s)
    BY <1>1
  <2>2. f[i] = [id |-> s[i + 1].id, state |-> s[i + 1].state]
    BY <1>1, <1>2
  <2> QED BY <1>3, <1>4, <2>1, <2>2
<1>6. f = g
  BY <1>2, <1>4, <1>5, SeqEqual
<1>7. 1 \in 1 .. Len(s)
  BY <1>1
<1>8. Head(p) = [id |-> Head(s).id, state |-> Head(s).state]
  BY <1>1, <1>3, <1>4, <1>7
<1> QED BY <1>4, <1>6, <1>8 DEF f, g, t, p

(* Responses and frames have what Plain() looks at. *)
LEMMA Records ==
  /\ \A x \in Response : x.id \in Ids /\ x.state \in State
  /\ \A x \in Frame : x.id \in Ids /\ x.state \in State
  BY DEF Response, Frame, Ids

(* The last byte of a request is taken: the channel answers the first open request. *)
LEMMA LastRefines == ASSUME Proper, FInv, OInv, WriteLast PROVE Channel!Next
<1>0. /\ rcvd \in Nat /\ pos \in Nat /\ served \in Nat /\ space \in Nat /\ pos <= rcvd
      /\ req \in HVRecord(Ids) /\ Bounded(req) /\ rcvd - pos \in Nat
      /\ resp \in Seq(Response) /\ wire \in Seq(Frame) /\ Len(wire) \in Nat /\ Len(resp) \in Nat
      /\ pc = "read" /\ UNCHANGED <<rcvd, wire>> /\ "cache" \notin Faults /\ TypeOK
  BY DEF FInv, TInv, TypeOK, InBounds, Bounded, Ids, WriteLast, Proper
<1>1. Orderly /\ Undisturbed /\ InOrder
  BY <1>0, StillUndisturbed DEF OInv, Orderly
<1>2. PICK r \in write(req, rcvd - pos, DecodedAt(pos), space) :
        /\ r.wlen # -1 /\ is_complete(r.hv)
        /\ \E q \in Responses(r.hv.id, "OK") : resp' = Append(resp, q)
  BY DEF WriteLast
<1>3. /\ served < NReq /\ Holds(r.hv, pos + r.wlen, served + 1)
      /\ pos + r.wlen = Start[served + 2]
  BY <1>0, <1>1, <1>2, WriteInMessage DEF is_complete
<1>4. resp' = Append(resp, [id |-> served + 1, state |-> "OK", value |-> TRUE])
  BY <1>0, <1>2, <1>3, QueuedWhole DEF Holds
<1>5. pos + r.wlen <= rcvd
  <2>1. DecodedAt(pos) \in SUBSET (Ids \X Nat)
    BY <1>0, DecodedType
  <2>2. r.wlen \in 0 .. rcvd - pos
    BY <1>0, <1>2, <2>1, GarbageIsId, WriteType
  <2> QED BY <1>0, <2>2
<1> DEFINE x == [id |-> served + 1, state |-> "OK", value |-> TRUE]
<1>6. x \in Response /\ x.id = served + 1 /\ x.state = "OK"
  BY <1>0, <1>3, Offsets DEF Response, State
<1>7. resp' = Append(resp, x)
  BY <1>4
<1> HIDE DEF x
<1>8. Plain(resp)' = Append(Plain(resp), [id |-> served + 1, state |-> "OK"])
  <2>1. Plain(Append(resp, x)) = Append(Plain(resp), [id |-> x.id, state |-> x.state])
    BY <1>0, <1>6, PlainAppend, Records
  <2>2. Plain(resp)' = Plain(Append(resp, x))
    BY <1>7 DEF Plain
  <2> QED BY <1>6, <2>1, <2>2
<1>9. Plain(wire)' = Plain(wire)
  BY <1>0 DEF Plain
<1>10. Len(Plain(wire)) + Len(Plain(resp)) + 1 = served + 1
  BY <1>0, <1>1, PlainQueues DEF InOrder
<1>11. served + 1 <= NReq /\ Start[(served + 1) + 1] <= rcvd
  <2>1. (served + 1) + 1 = served + 2 /\ served + 1 <= NReq
    BY <1>0, <1>3, Offsets
  <2> QED BY <1>3, <1>5, <2>1
<1>12. Channel!Answer
  BY <1>0, <1>8, <1>9, <1>10, <1>11 DEF Channel!Answer, Channel!OK
<1> QED BY <1>12 DEF Channel!Next

(* send() of the front of the queue delivers the oldest answer. *)
LEMMA SendRefines ==
  ASSUME Proper, FInv, OInv, SkipResponse \/ SendResponse PROVE Channel!Next
<1>0. /\ resp \in Seq(Response) /\ wire \in Seq(Frame) /\ resp # <<>> /\ resp' = Tail(resp)
      /\ UNCHANGED rcvd
  BY DEF FInv, TInv, TypeOK, SkipResponse, SendResponse, PopFront
<1>1. InOrder
  BY DEF OInv, Orderly, Proper
<1>2. Head(resp) = resp[1] /\ 1 \in 1 .. Len(resp) /\ Head(resp) \in Response
  BY <1>0
<1>3. Head(resp).value
  BY <1>1, <1>2 DEF InOrder
<1>4. PICK whole \in BOOLEAN :
        wire' = Append(wire, [id |-> Head(resp).id, state |-> Head(resp).state, whole |-> whole])
  BY <1>3, Zenon DEF SkipResponse, SendResponse
<1> DEFINE x == [id |-> Head(resp).id, state |-> Head(resp).state, whole |-> whole]
<1>5. x \in Frame /\ x.id = Head(resp).id /\ x.state = Head(resp).state /\ wire' = Append(wire, x)
  BY <1>2, <1>4 DEF Response, Frame
<1> HIDE DEF x
<1>6. /\ Plain(Tail(resp)) = Tail(Plain(resp)) /\ Plain(resp) # <<>>
      /\ Head(Plain(resp)) = [id |-> Head(resp).id, state |-> Head(resp).state]
  BY <1>0, PlainTail, Records
<1>7. Plain(Append(wire, x)) = Append(Plain(wire), [id |-> x.id, state |-> x.state])
  BY <1>0, <1>5, PlainAppend, Records
<1>8. Plain(resp)' = Tail(Plain(resp)) /\ Plain(wire)' = Append(Plain(wire), Head(Plain(resp)))
  <2>1. Plain(resp)' = Plain(Tail(resp)) /\ Plain(wire)' = Plain(Append(wire, x))
    BY <1>0, <1>5 DEF Plain
  <2> QED BY <1>5, <1>6, <1>7, <2>1
<1>9. Channel!Deliver
  BY <1>0, <1>6, <1>8 DEF Channel!Deliver
<1> QED BY <1>9 DEF Channel!Next

(* Every step of the handlers is a step of the channel or none. *)
LEMMA StepRefines ==
  ASSUME Proper PROVE FInv /\ OInv /\ [Next]_vars => [Channel!Next]_(Channel!vars)
<1> SUFFICES ASSUME FInv, OInv, [Next]_vars PROVE Channel!Next \/ UNCHANGED Channel!vars
  OBVIOUS
<1>1. CASE Recv
  <2>1. PICK n \in 1 .. RecvBuf : rcvd' = rcvd + n /\ rcvd + n <= Total
    BY <1>1 DEF Recv
  <2>2. rcvd \in Nat /\ Total \in Nat /\ RecvBuf \in Nat /\ UNCHANGED <<resp, wire>>
    BY <1>1, StreamAssumption DEF FInv, TInv, TypeOK, Recv, StreamAssumption, Total
  <2>3. rcvd' \in rcvd + 1 .. Start[NReq + 1]
    BY <2>1, <2>2 DEF Total
  <2>4. Plain(resp)' = Plain(resp) /\ Plain(wire)' = Plain(wire)
    BY <2>2 DEF Plain
  <2>5. Channel!Arrive
    BY <2>3, <2>4 DEF Channel!Arrive
  <2> QED BY <2>5 DEF Channel!Next
<1>2. ASSUME UNCHANGED <<rcvd, resp, wire>> PROVE UNCHANGED Channel!vars
  BY <1>2 DEF Channel!vars, Plain
<1>3. CASE \/ PeerClosed \/ PeerReset \/ Clobber \/ WriteMore \/ StartWrite \/ SendFails
           \/ UNCHANGED vars
  BY <1>2, <1>3 DEF PeerClosed, PeerReset, Clobber, WriteMore, StartWrite, SendFails, vars
<1>4. CASE WriteFailed
  <2>1. /\ rcvd - pos \in Nat /\ pos \in Nat /\ space \in Nat /\ req \in HVRecord(Ids)
        /\ Bounded(req) /\ "cache" \notin Faults
    BY DEF FInv, TInv, TypeOK, InBounds, Bounded, Ids, Proper
  <2>2. DecodedAt(pos) \in SUBSET (Ids \X Nat)
    BY <2>1, DecodedType
  <2>3. FALSE
    BY <1>4, <2>1, <2>2, GarbageIsId, NoFailure DEF WriteFailed
  <2> QED BY <2>3
<1> QED BY <1>1, <1>3, <1>4, LastRefines, SendRefines DEF Next, Reading, Writing, Ended

(***************************************************************************)
(* A proper connection is a RequestChannel: every request is answered at   *)
(* most once, with OK, in order, and not before it has arrived.            *)
(***************************************************************************)
THEOREM HandlerIsChannel == ASSUME Proper PROVE Spec => ImplementsChannel
<1>1. Init => Channel!Init
  BY DEF Init, Channel!Init, Plain
<1> QED BY <1>1, OrderInvariance, StepRefines, PTL DEF Spec, ImplementsChannel, Channel!Spec
=============================================================================
