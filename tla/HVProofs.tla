------------------------------ MODULE HVProofs ------------------------------
(***************************************************************************)
(* Lemmas about the decoder HV, for every size of header and threshold and *)
(* every set Ids of ids a header may carry, the garbage id among them.     *)
(***************************************************************************)
EXTENDS HV, TLAPS

(* The cache of decoder h holds no more than its capacity. *)
Bounded(h) == h.value # NULL => h.value.widx <= h.value.capacity

(* The sizes are numbers; a cache is never the null pointer. *)
LEMMA Sizes ==
  /\ HeaderSize \in Nat /\ 0 < HeaderSize /\ MemoryCache \in Nat
  /\ GarbageLength \subseteq Nat /\ NULL \notin Cache
  BY HVAssumption DEF HVAssumption

(* Least(a, b) is one of the two, and not above either. *)
LEMMA LeastBound ==
  ASSUME NEW a \in Int, NEW b \in Int
  PROVE  Least(a, b) \in {a, b} /\ Least(a, b) <= a /\ Least(a, b) <= b
  BY DEF Least

(* head_completed() changes head_complete and to. *)
LEMMA HeadCompletedType ==
  ASSUME NEW Ids, GarbageId \in Ids, NEW h \in HVRecord(Ids)
  PROVE  /\ head_completed(h) \in HVRecord(Ids)
         /\ head_completed(h).value = h.value
  BY DEF head_completed, HVRecord, Storage

(* clear() keeps the type, and does not grow the cache. *)
LEMMA ClearType ==
  ASSUME NEW Ids, GarbageId \in Ids, NEW h \in HVRecord(Ids), Bounded(h)
  PROVE  clear(h) \in HVRecord(Ids) /\ Bounded(clear(h))
<1>1. ASSUME NEW v \in {h.value, NULL},
             clear(h) = [h EXCEPT !.hlen = 0, !.head_complete = FALSE,
                                  !.value_complete = FALSE, !.value = v]
      PROVE  clear(h) \in HVRecord(Ids) /\ Bounded(clear(h))
  <2>1. v \in Cache \cup {NULL} /\ 0 \in 0 .. HeaderSize + 1
    BY Sizes DEF HVRecord
  <2>2. clear(h) \in HVRecord(Ids)
    BY <1>1, <2>1 DEF HVRecord
  <2>3. clear(h).value = v
    BY <1>1 DEF HVRecord
  <2> QED BY <2>2, <2>3 DEF Bounded
<1> QED BY <1>1 DEF clear

(* What the misplaced memcpy leaves behind is still a decoder. *)
LEMMA ClobberedType ==
  ASSUME NEW Ids, GarbageId \in Ids, NEW h \in HVRecord(Ids), Bounded(h), NEW g \in Clobbered(h)
  PROVE  g \in HVRecord(Ids) /\ Bounded(g)
<1>1. PICK f \in Overwritten(h) : g = IF f.hlen = HeaderSize THEN head_completed(f) ELSE f
  BY DEF Clobbered
<1>2. f \in HVRecord(Ids) /\ f.value \in {h.value, NULL}
  BY Sizes DEF Overwritten, HVRecord
<1>3. g = f \/ g = head_completed(f)
  BY <1>1
<1> QED BY <1>2, <1>3, HeadCompletedType DEF Bounded

(* write_head() takes at most what it is offered and leaves a decoder. *)
LEMMA WriteHeadType ==
  ASSUME NEW Ids, GarbageId \in Ids, NEW h \in HVRecord(Ids), Bounded(h), NEW n \in Nat,
         NEW decoded \in SUBSET (Ids \X Nat),
         NEW g \in write_head(h, n, decoded)
  PROVE  /\ g \in HVRecord(Ids) /\ Bounded(g)
         /\ HeadLen(h, n) \in 0 .. n
<1>1. HeadLen(h, n) \in 0 .. n
  BY Sizes DEF HeadLen, HVRecord, Least
<1>2. CASE g = h
  BY <1>1, <1>2
<1>3. CASE g \in Clobbered(h)
  BY <1>1, <1>3, ClobberedType
<1>4. ASSUME NEW w \in 0 .. HeaderSize, NEW d \in decoded, g = [h EXCEPT !.hlen = w, !.id = d[1]]
      PROVE  g \in HVRecord(Ids) /\ Bounded(g)
  <2>1. d[1] \in Ids /\ w \in 0 .. HeaderSize + 1
    BY Sizes
  <2>2. g \in HVRecord(Ids) /\ g.value = h.value
    BY <1>4, <2>1 DEF HVRecord
  <2> QED BY <2>2 DEF Bounded
<1>5. ASSUME NEW w \in 0 .. HeaderSize, NEW d \in decoded,
             g = head_completed([h EXCEPT !.hlen = w, !.id = d[1], !.length = d[2]])
      PROVE  g \in HVRecord(Ids) /\ Bounded(g)
  <2> DEFINE f == [h EXCEPT !.hlen = w, !.id = d[1], !.length = d[2]]
  <2>0. d[1] \in Ids /\ d[2] \in Nat /\ w \in 0 .. HeaderSize + 1
    BY Sizes
  <2>1. f \in HVRecord(Ids) /\ f.value = h.value
    BY <2>0 DEF HVRecord
  <2> HIDE DEF f
  <2> QED BY <1>5, <2>1, HeadCompletedType DEF Bounded, f
<1>6. HeadLen(h, n) \in 0 .. HeaderSize
  BY Sizes DEF HeadLen, HVRecord, Least
<1> QED BY <1>1, <1>2, <1>3, <1>4, <1>5, <1>6 DEF write_head

(* write_value() never stores beyond the cache, the data or the disk. *)
LEMMA WriteValueType ==
  ASSUME NEW Ids, GarbageId \in Ids, NEW h \in HVRecord(Ids), Bounded(h), NEW n \in Nat, NEW room \in Nat,
         NEW r \in write_value(h, n, room)
  PROVE  /\ r.hv \in HVRecord(Ids) /\ Bounded(r.hv)
         /\ r.wlen = -1 \/ r.wlen \in 0 .. n
         /\ r.stored \in 0 .. room
         /\ DOMAIN r = {"hv", "wlen", "stored"}
<1>1. CASE r = [hv |-> h, wlen |-> 0, stored |-> 0] \/ r = [hv |-> h, wlen |-> -1, stored |-> 0]
  BY <1>1
<1>2. ASSUME NEW c \in ValueCache(h), c # NULL,
             LET w == Stored(c, n, room)
                 d == cache_push(c, w)
             IN r = [hv |-> [h EXCEPT !.value = d, !.value_complete = @ \/ cache_full(d)],
                     wlen |-> w, stored |-> w]
      PROVE  /\ r.hv \in HVRecord(Ids) /\ Bounded(r.hv)
             /\ r.wlen \in 0 .. n /\ r.stored \in 0 .. room
             /\ DOMAIN r = {"hv", "wlen", "stored"}
  <2> DEFINE w == Stored(c, n, room)
             d == cache_push(c, w)
  <2>0. h.length \in Nat /\ h.value \in Cache \cup {NULL}
    BY DEF HVRecord
  <2>1. c \in Cache /\ c.widx <= c.capacity
    BY <1>2, <2>0 DEF ValueCache, create_cache, Cache, Bounded
  <2>2. w \in 0 .. n /\ w \in 0 .. room /\ w <= c.capacity - c.widx
    BY <2>1 DEF Stored, PushLen, Least, Cache
  <2>3. d \in Cache /\ d.widx <= d.capacity
    BY <2>1, <2>2 DEF cache_push, Cache
  <2>4. r = [hv |-> [h EXCEPT !.value = d, !.value_complete = @ \/ cache_full(d)],
             wlen |-> w, stored |-> w]
    BY <1>2
  <2> HIDE DEF w, d
  <2>5. (h.value_complete \/ cache_full(d)) \in BOOLEAN
    OBVIOUS
  <2>6. r.hv \in HVRecord(Ids) /\ r.hv.value = d
    BY <2>3, <2>4, <2>5 DEF HVRecord
  <2> QED BY <2>2, <2>3, <2>4, <2>6 DEF Bounded
<1> QED BY <1>1, <1>2 DEF write_value

(***************************************************************************)
(* HV::write() returns -1 or the number of bytes it took, which is within  *)
(* what it was given; the decoder it leaves is within its cache.           *)
(***************************************************************************)
LEMMA WriteType ==
  ASSUME NEW Ids, GarbageId \in Ids, NEW h \in HVRecord(Ids), Bounded(h), NEW n \in Nat, NEW room \in Nat,
         NEW decoded \in SUBSET (Ids \X Nat),
         NEW r \in write(h, n, decoded, room)
  PROVE  /\ r.hv \in HVRecord(Ids) /\ Bounded(r.hv)
         /\ r.wlen = -1 \/ r.wlen \in 0 .. n
         /\ r.stored \in 0 .. room
<1> DEFINE w == HeadLen(h, n)
<1>1. PICK g \in write_head(h, n, decoded) : \E q \in write_value(g, n - w, room) :
        r = [q EXCEPT !.wlen = IF @ = -1 THEN -1 ELSE w + @]
  BY DEF write
<1>2. g \in HVRecord(Ids) /\ Bounded(g) /\ w \in 0 .. n
  BY WriteHeadType
<1>3. n - w \in Nat
  BY <1>2
<1>6. PICK q \in write_value(g, n - w, room) :
        r = [q EXCEPT !.wlen = IF @ = -1 THEN -1 ELSE w + @]
  BY <1>1
<1>4. /\ q.hv \in HVRecord(Ids) /\ Bounded(q.hv)
      /\ q.wlen = -1 \/ q.wlen \in 0 .. n - w
      /\ q.stored \in 0 .. room
      /\ DOMAIN q = {"hv", "wlen", "stored"}
  BY <1>2, <1>3, WriteValueType
<1> HIDE DEF w
<1>5. /\ r.hv = q.hv /\ r.stored = q.stored
      /\ r.wlen = IF q.wlen = -1 THEN -1 ELSE w + q.wlen
  BY <1>4, <1>6
<1> QED BY <1>2, <1>4, <1>5
=============================================================================
