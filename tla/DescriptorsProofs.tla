------------------------- MODULE DescriptorsProofs -------------------------
(***************************************************************************)
(* Theorems about module Descriptors, for any number of peers, any table,  *)
(* any threshold and any lengths.                                          *)
(*                                                                         *)
(* OneFilePerDisturbed rests on what the decoder of an undisturbed peer    *)
(* is: in step with the bytes.  What has arrived and not been decoded is   *)
(* the rest of one value followed by whole requests of MemoryCache bytes   *)
(* or more, the last of them short by what the peer still owes.  So a peer *)
(* that owes nothing and has been read to the end leaves a decoder that    *)
(* holds no cache, and close() loses nothing.                              *)
(***************************************************************************)
EXTENDS Descriptors, HVProofs, FiniteSetTheorems, SequenceTheorems

Byte == GarbageLength \cup {Value}

(* The bytes of the current value decoder h waits for. *)
Rem(h) ==
  IF ~h.head_complete THEN 0
  ELSE IF h.value = NULL THEN h.length ELSE h.value.capacity - h.value.widx

(***************************************************************************)
(* After rem bytes of a value, s is requests of MemoryCache bytes or more  *)
(* and lacks owed bytes at its end: H is where their headers are.          *)
(***************************************************************************)
Framing(H, s, rem, owed) ==
  /\ \A i \in 1 .. Len(s) :
       IF i \in H THEN s[i] \in GarbageLength /\ s[i] >= MemoryCache ELSE s[i] = Value
  /\ \A i \in H : rem < i
  /\ IF rem < Len(s) THEN rem + 1 \in H ELSE owed = rem - Len(s)
  /\ \A p \in H : \A i \in H : p < i => p + s[p] < i
  /\ \A p \in H : IF p + s[p] < Len(s) THEN p + s[p] + 1 \in H
                  ELSE owed = p + s[p] - Len(s)

Framed(s, rem, owed) == \E H \in SUBSET (1 .. Len(s)) : Framing(H, s, rem, owed)

(* t is s without its first j elements. *)
Dropped(t, s, j) ==
  /\ t \in Seq(Byte) /\ Len(t) = Len(s) - j
  /\ \A i \in 1 .. Len(t) : t[i] = s[i + j]

(* t is s followed by x. *)
Grown(t, s, x) ==
  /\ t \in Seq(Byte) /\ Len(t) = Len(s) + 1 /\ t[Len(t)] = x
  /\ \A i \in 1 .. Len(s) : t[i] = s[i]

(* A decoder between two calls of write() that has only met such requests. *)
Decoding(h) ==
  /\ ~h.value_complete /\ h.hlen = (IF h.head_complete THEN 1 ELSE 0)
  /\ h.head_complete => h.to = "TO_FILE"
  /\ h.value # NULL => /\ h.head_complete /\ h.value.capacity = h.length
                       /\ h.value.widx < h.value.capacity

-----------------------------------------------------------------------------
(* The constants are what the code's constants are. *)
LEMMA Constants ==
  /\ HeaderSize = 1 /\ MemoryCache \in Nat /\ GarbageLength \subseteq Nat
  /\ "cache" \in Faults /\ NULL \notin Cache
  /\ IsFiniteSet(Client) /\ None \notin Client /\ Value \notin Nat
  /\ MaxFd \in Nat /\ 1 <= MaxFd
  BY HVAssumption, DescriptorsAssumption DEF HVAssumption, DescriptorsAssumption

(* Two sets that agree but for one element differ in size by that element. *)
LEMMA OneElement ==
  ASSUME NEW S, IsFiniteSet(S), NEW T, IsFiniteSet(T), NEW x, S \ {x} = T \ {x}
  PROVE  Cardinality(T) = Cardinality(S) + (IF x \in T THEN 1 ELSE 0) - (IF x \in S THEN 1 ELSE 0)
<1>1. Cardinality(S) \in Nat /\ Cardinality(T) \in Nat
  BY FS_CardinalityType
<1>2. Cardinality(S \ {x}) = IF x \in S THEN Cardinality(S) - 1 ELSE Cardinality(S)
  BY FS_RemoveElement
<1>3. Cardinality(T \ {x}) = IF x \in T THEN Cardinality(T) - 1 ELSE Cardinality(T)
  BY FS_RemoveElement
<1> QED BY <1>1, <1>2, <1>3

(* Bytes of the value that comes first may go. *)
LEMMA FramedDrop ==
  ASSUME NEW s \in Seq(Byte), NEW t, NEW rem \in Nat, NEW owed \in Nat,
         NEW j \in 0 .. rem, j <= Len(s), Framed(s, rem, owed), Dropped(t, s, j)
  PROVE  Framed(t, rem - j, owed)
<1>1. PICK H \in SUBSET (1 .. Len(s)) : Framing(H, s, rem, owed)
  BY DEF Framed
<1>0. /\ Len(s) \in Nat /\ Len(t) \in Nat /\ Len(t) = Len(s) - j /\ GarbageLength \subseteq Nat
      /\ MemoryCache \in Nat
  BY Constants DEF Dropped
<1> DEFINE G == {i \in 1 .. Len(t) : i + j \in H}
<1>2. \A i \in H : i - j \in G
  BY <1>0, <1>1 DEF Framing
<1>3. \A i \in G : i \in 1 .. Len(t) /\ i + j \in H /\ t[i] = s[i + j] /\ t[i] \in Nat
  BY <1>0, <1>1 DEF Framing, Dropped
<1>4. \A i \in 1 .. Len(t) : IF i \in G THEN t[i] \in GarbageLength /\ t[i] >= MemoryCache
                                        ELSE t[i] = Value
  <2> TAKE i \in 1 .. Len(t)
  <2>1. i + j \in 1 .. Len(s) /\ t[i] = s[i + j] /\ (i \in G <=> i + j \in H)
    BY <1>0 DEF Dropped
  <2> QED BY <1>1, <2>1 DEF Framing
<1>5. \A i \in G : rem - j < i
  BY <1>0, <1>1, <1>3 DEF Framing
<1>6. IF rem - j < Len(t) THEN rem - j + 1 \in G ELSE owed = rem - j - Len(t)
  <2>1. CASE rem < Len(s)
    <3>1. rem + 1 \in H
      BY <1>1, <2>1 DEF Framing
    <3>2. rem + 1 - j \in G
      BY <3>1, <1>2
    <3> QED BY <3>2, <2>1, <1>0
  <2>2. CASE ~(rem < Len(s))
    BY <1>0, <1>1, <2>2 DEF Framing
  <2> QED BY <2>1, <2>2
<1>7. \A p \in G : \A i \in G : p < i => p + t[p] < i
  <2> TAKE p \in G
  <2> TAKE i \in G
  <2> HAVE p < i
  <2>1. p + j \in H /\ i + j \in H /\ p + j < i + j
    BY <1>3, <1>0
  <2>2. (p + j) + s[p + j] < i + j
    BY <1>1, <2>1 DEF Framing
  <2> QED BY <2>2, <1>3, <1>0
<1>8. \A p \in G : IF p + t[p] < Len(t) THEN p + t[p] + 1 \in G ELSE owed = p + t[p] - Len(t)
  <2> TAKE p \in G
  <2>1. p + j \in H /\ t[p] = s[p + j] /\ t[p] \in Nat /\ p \in Nat
    BY <1>3, <1>0
  <2>2. IF (p + j) + s[p + j] < Len(s) THEN (p + j) + s[p + j] + 1 \in H
        ELSE owed = (p + j) + s[p + j] - Len(s)
    BY <1>1, <2>1 DEF Framing
  <2>3. CASE p + t[p] < Len(t)
    <3>1. (p + j) + t[p] + 1 \in H
      BY <2>1, <2>2, <2>3, <1>0
    <3>2. PICK q \in H : q = (p + j) + t[p] + 1
      BY <3>1
    <3>3. q - j \in G /\ q - j = p + t[p] + 1
      BY <3>2, <1>2, <2>1, <1>0
    <3> QED BY <3>3, <2>3
  <2>4. CASE ~(p + t[p] < Len(t))
    BY <2>1, <2>2, <2>4, <1>0
  <2> QED BY <2>3, <2>4
<1>9. G \in SUBSET (1 .. Len(t))
  OBVIOUS
<1> HIDE DEF G
<1>10. Framing(G, t, rem - j, owed)
  BY <1>4, <1>5, <1>6, <1>7, <1>8 DEF Framing
<1> QED BY <1>9, <1>10 DEF Framed

(* With no value begun, what comes first is a header, and its value follows. *)
LEMMA FramedHeader ==
  ASSUME NEW s \in Seq(Byte), NEW t, NEW owed \in Nat, s # <<>>,
         Framed(s, 0, owed), Dropped(t, s, 1)
  PROVE  s[1] \in GarbageLength /\ s[1] >= MemoryCache /\ Framed(t, s[1], owed)
<1>1. PICK H \in SUBSET (1 .. Len(s)) : Framing(H, s, 0, owed)
  BY DEF Framed
<1>0. /\ Len(s) \in Nat /\ Len(s) > 0 /\ Len(t) = Len(s) - 1
      /\ Len(t) \in Nat /\ GarbageLength \subseteq Nat /\ MemoryCache \in Nat
  BY Constants, EmptySeq DEF Dropped
<1>2. 1 \in H
  BY <1>0, <1>1 DEF Framing
<1>3. s[1] \in GarbageLength /\ s[1] >= MemoryCache /\ s[1] \in Nat
  BY <1>0, <1>1, <1>2 DEF Framing
<1> DEFINE G == {i \in 1 .. Len(t) : i + 1 \in H}
<1>4. \A i \in H : 1 < i => i - 1 \in G
  BY <1>0
<1>5. \A i \in G : i \in 1 .. Len(t) /\ i + 1 \in H /\ t[i] = s[i + 1] /\ t[i] \in Nat
  BY <1>0, <1>1 DEF Framing, Dropped
<1>6. \A i \in 1 .. Len(t) : IF i \in G THEN t[i] \in GarbageLength /\ t[i] >= MemoryCache
                                        ELSE t[i] = Value
  <2> TAKE i \in 1 .. Len(t)
  <2>1. i + 1 \in 1 .. Len(s) /\ t[i] = s[i + 1] /\ (i \in G <=> i + 1 \in H)
    BY <1>0 DEF Dropped
  <2> QED BY <1>1, <2>1 DEF Framing
<1>7. \A i \in G : s[1] < i
  <2> TAKE i \in G
  <2>1. i + 1 \in H /\ 1 < i + 1 /\ i \in Nat
    BY <1>5, <1>0
  <2>2. 1 + s[1] < i + 1
    BY <1>1, <1>2, <2>1 DEF Framing
  <2> QED BY <2>1, <2>2, <1>3
<1>8. IF s[1] < Len(t) THEN s[1] + 1 \in G ELSE owed = s[1] - Len(t)
  <2>1. IF 1 + s[1] < Len(s) THEN 1 + s[1] + 1 \in H ELSE owed = 1 + s[1] - Len(s)
    BY <1>1, <1>2 DEF Framing
  <2>2. CASE s[1] < Len(t)
    <3>1. 1 + s[1] + 1 \in H
      BY <2>1, <2>2, <1>0, <1>3
    <3>2. 1 + s[1] + 1 - 1 \in G
      BY <3>1, <1>4, <1>3
    <3> QED BY <3>2, <2>2, <1>3
  <2>3. CASE ~(s[1] < Len(t))
    BY <2>1, <2>3, <1>0, <1>3
  <2> QED BY <2>2, <2>3
<1>9. \A p \in G : \A i \in G : p < i => p + t[p] < i
  <2> TAKE p \in G
  <2> TAKE i \in G
  <2> HAVE p < i
  <2>1. p + 1 \in H /\ i + 1 \in H /\ p + 1 < i + 1
    BY <1>5, <1>0
  <2>2. (p + 1) + s[p + 1] < i + 1
    BY <1>1, <2>1 DEF Framing
  <2> QED BY <2>2, <1>5, <1>0
<1>10. \A p \in G : IF p + t[p] < Len(t) THEN p + t[p] + 1 \in G ELSE owed = p + t[p] - Len(t)
  <2> TAKE p \in G
  <2>1. p + 1 \in H /\ t[p] = s[p + 1] /\ t[p] \in Nat /\ p \in Nat /\ 1 <= p
    BY <1>5, <1>0
  <2>2. IF (p + 1) + s[p + 1] < Len(s) THEN (p + 1) + s[p + 1] + 1 \in H
        ELSE owed = (p + 1) + s[p + 1] - Len(s)
    BY <1>1, <2>1 DEF Framing
  <2>3. CASE p + t[p] < Len(t)
    <3>1. (p + 1) + t[p] + 1 \in H
      BY <2>1, <2>2, <2>3, <1>0
    <3>2. PICK q \in H : q = (p + 1) + t[p] + 1
      BY <3>1
    <3>3. PICK m \in Nat : m = t[p]
      BY <2>1
    <3>4. q = p + 1 + m + 1 /\ p \in Nat
      BY <3>2, <3>3, <2>1
    <3>5. 1 < q
      BY <3>4
    <3>6. q - 1 = p + m + 1
      BY <3>4
    <3>7. q - 1 \in G
      BY <3>5, <1>4
    <3> QED BY <3>3, <3>6, <3>7, <2>3
  <2>4. CASE ~(p + t[p] < Len(t))
    BY <2>1, <2>2, <2>4, <1>0
  <2> QED BY <2>3, <2>4
<1>11. G \in SUBSET (1 .. Len(t))
  OBVIOUS
<1> HIDE DEF G
<1>12. Framing(G, t, s[1], owed)
  BY <1>6, <1>7, <1>8, <1>9, <1>10 DEF Framing
<1> QED BY <1>3, <1>11, <1>12 DEF Framed

(* A peer that owes nothing sends the header of a request. *)
LEMMA FramedRequest ==
  ASSUME NEW s \in Seq(Byte), NEW t, NEW rem \in Nat, NEW x \in GarbageLength, x >= MemoryCache,
         Framed(s, rem, 0), Grown(t, s, x)
  PROVE  Framed(t, rem, x)
<1>1. PICK H \in SUBSET (1 .. Len(s)) : Framing(H, s, rem, 0)
  BY DEF Framed
<1>0. /\ Len(s) \in Nat /\ Len(t) \in Nat /\ Len(t) = Len(s) + 1 /\ GarbageLength \subseteq Nat
      /\ MemoryCache \in Nat /\ x \in Nat /\ t[Len(t)] = x
      /\ \A i \in 1 .. Len(s) : t[i] = s[i]
  BY Constants DEF Grown
<1> DEFINE G == H \cup {Len(t)}
<1>2. \A p \in H : p \in 1 .. Len(s) /\ t[p] = s[p] /\ t[p] \in Nat
  BY <1>0, <1>1 DEF Framing
<1>3. \A p \in H : p + t[p] <= Len(s)
  BY <1>0, <1>1, <1>2 DEF Framing
<1>4. \A i \in 1 .. Len(t) : IF i \in G THEN t[i] \in GarbageLength /\ t[i] >= MemoryCache
                                        ELSE t[i] = Value
  <2> TAKE i \in 1 .. Len(t)
  <2>1. CASE i = Len(t)
    BY <2>1, <1>0
  <2>2. CASE i # Len(t)
    <3>1. i \in 1 .. Len(s) /\ t[i] = s[i] /\ (i \in G <=> i \in H)
      BY <2>2, <1>0
    <3> QED BY <1>1, <3>1 DEF Framing
  <2> QED BY <2>1, <2>2
<1>5. rem <= Len(s)
  BY <1>0, <1>1 DEF Framing
<1>6. \A i \in G : rem < i
  BY <1>0, <1>1, <1>5 DEF Framing
<1>7. rem < Len(t) /\ rem + 1 \in G
  BY <1>0, <1>1, <1>5 DEF Framing
<1>8. \A p \in G : \A i \in G : p < i => p + t[p] < i
  <2> TAKE p \in G
  <2> TAKE i \in G
  <2> HAVE p < i
  <2>1. p \in H
    BY <1>2, <1>0
  <2>2. CASE i \in H
    BY <1>1, <1>2, <2>1, <2>2 DEF Framing
  <2>3. CASE i = Len(t)
    BY <1>3, <1>2, <2>1, <2>3, <1>0
  <2> QED BY <2>2, <2>3
<1>9. \A p \in G : IF p + t[p] < Len(t) THEN p + t[p] + 1 \in G ELSE x = p + t[p] - Len(t)
  <2> TAKE p \in G
  <2>1. CASE p = Len(t)
    BY <2>1, <1>0
  <2>2. CASE p \in H
    <3>1. p + s[p] < Len(s) => p + s[p] + 1 \in H
      BY <1>1, <2>2 DEF Framing
    <3>2. p + t[p] <= Len(s) /\ t[p] = s[p] /\ p \in Nat /\ t[p] \in Nat
      BY <1>2, <1>3, <2>2, <1>0
    <3>3. CASE p + t[p] < Len(s)
      BY <3>1, <3>2, <3>3, <1>0
    <3>4. CASE p + t[p] = Len(s)
      <4>1. p + t[p] + 1 = Len(t)
        BY <3>4, <1>0
      <4>2. p + t[p] + 1 \in G
        BY <4>1
      <4> QED BY <4>2, <3>4, <1>0
    <3> QED BY <3>2, <3>3, <3>4, <1>0
  <2> QED BY <2>1, <2>2
<1>10. G \in SUBSET (1 .. Len(t))
  <2>1. Len(t) \in 1 .. Len(t) /\ 1 .. Len(s) \subseteq 1 .. Len(t)
    BY <1>0
  <2> QED BY <2>1
<1> HIDE DEF G
<1>11. Framing(G, t, rem, x)
  BY <1>4, <1>6, <1>7, <1>8, <1>9 DEF Framing
<1> QED BY <1>10, <1>11 DEF Framed

(* A peer sends a byte of the value it owes. *)
LEMMA FramedValue ==
  ASSUME NEW s \in Seq(Byte), NEW t, NEW rem \in Nat, NEW owed \in Nat, owed > 0,
         Framed(s, rem, owed), Grown(t, s, Value)
  PROVE  Framed(t, rem, owed - 1)
<1>1. PICK H \in SUBSET (1 .. Len(s)) : Framing(H, s, rem, owed)
  BY DEF Framed
<1>0. /\ Len(s) \in Nat /\ Len(t) \in Nat /\ Len(t) = Len(s) + 1 /\ GarbageLength \subseteq Nat
      /\ MemoryCache \in Nat /\ t[Len(t)] = Value
      /\ \A i \in 1 .. Len(s) : t[i] = s[i]
  BY Constants DEF Grown
<1>2. \A p \in H : p \in 1 .. Len(s) /\ t[p] = s[p] /\ t[p] \in Nat
  BY <1>0, <1>1 DEF Framing
<1>4. \A i \in 1 .. Len(t) : IF i \in H THEN t[i] \in GarbageLength /\ t[i] >= MemoryCache
                                        ELSE t[i] = Value
  <2> TAKE i \in 1 .. Len(t)
  <2>1. CASE i = Len(t)
    BY <2>1, <1>0, <1>2
  <2>2. CASE i # Len(t)
    <3>1. i \in 1 .. Len(s) /\ t[i] = s[i]
      BY <2>2, <1>0
    <3> QED BY <1>1, <3>1 DEF Framing
  <2> QED BY <2>1, <2>2
<1>6. \A i \in H : rem < i
  BY <1>1 DEF Framing
<1>7. IF rem < Len(t) THEN rem + 1 \in H ELSE owed - 1 = rem - Len(t)
  BY <1>0, <1>1 DEF Framing
<1>8. \A p \in H : \A i \in H : p < i => p + t[p] < i
  BY <1>1, <1>2 DEF Framing
<1>9. \A p \in H : IF p + t[p] < Len(t) THEN p + t[p] + 1 \in H ELSE owed - 1 = p + t[p] - Len(t)
  <2> TAKE p \in H
  <2>1. IF p + s[p] < Len(s) THEN p + s[p] + 1 \in H ELSE owed = p + s[p] - Len(s)
    BY <1>1 DEF Framing
  <2>2. t[p] = s[p] /\ p \in Nat /\ t[p] \in Nat
    BY <1>2, <1>0
  <2> QED BY <2>1, <2>2, <1>0
<1>10. H \in SUBSET (1 .. Len(t))
  BY <1>0
<1>11. Framing(H, t, rem, owed - 1)
  BY <1>4, <1>6, <1>7, <1>8, <1>9 DEF Framing
<1> QED BY <1>10, <1>11 DEF Framed

(* Nothing has arrived: the value that was begun is what the peer owes. *)
LEMMA FramedEmpty ==
  ASSUME NEW s, s = <<>>, NEW rem \in Nat, NEW owed \in Nat
  PROVE  Framed(s, rem, owed) <=> owed = rem
<1>0. Len(s) = 0 /\ 1 .. Len(s) = {}
  OBVIOUS
<1>1. ASSUME owed = rem PROVE Framing({}, s, rem, owed)
  BY <1>0, <1>1 DEF Framing
<1>2. ASSUME NEW H \in SUBSET (1 .. Len(s)), Framing(H, s, rem, owed) PROVE owed = rem
  BY <1>0, <1>2 DEF Framing
<1> QED BY <1>0, <1>1, <1>2 DEF Framed

-----------------------------------------------------------------------------
(* Decoder h when it has read the header d. *)
Headed(h, d) == head_completed([h EXCEPT !.hlen = 1, !.id = d[1], !.length = d[2]])

(* write_head() with headers of one byte: a header is read. *)
LEMMA HeadRead ==
  ASSUME NEW h \in HVRecord({GarbageId}), h.hlen = 0, NEW n \in Nat, n > 0, NEW decoded,
         NEW g \in write_head(h, n, decoded)
  PROVE  /\ HeadLen(h, n) = 1
         /\ \E d \in decoded : g = Headed(h, d)
<1>0. HeaderSize = 1
  BY Constants
<1>1. HeadLen(h, n) = 1
  BY <1>0 DEF HeadLen, Least
<1>2. HeadLen(h, n) # 0 /\ ~(h.hlen > 0) /\ ~(HeadLen(h, n) < HeaderSize)
  BY <1>0, <1>1
<1>3. g \in {head_completed([h EXCEPT !.hlen = HeadLen(h, n), !.id = d[1], !.length = d[2]]) :
               d \in decoded}
  BY <1>2, Zenon DEF write_head
<1>4. PICK d \in decoded :
        g = head_completed([h EXCEPT !.hlen = HeadLen(h, n), !.id = d[1], !.length = d[2]])
  BY <1>3
<1> QED BY <1>1, <1>4 DEF Headed

(* Or there is one, and write_head() takes nothing. *)
LEMMA HeadThere ==
  ASSUME NEW h \in HVRecord({GarbageId}), h.hlen # 0, NEW n \in Nat, n > 0, NEW decoded,
         NEW g \in write_head(h, n, decoded)
  PROVE  HeadLen(h, n) = 0 /\ g = h
<1>0. HeaderSize = 1 /\ h.hlen \in 0 .. 2
  BY Constants DEF HVRecord
<1>1. HeadLen(h, n) = 0
  BY <1>0 DEF HeadLen, Least
<1> QED BY <1>1 DEF write_head

(* What a call of write_value() that was offered m bytes made of g. *)
Took(g, m, q) ==
  /\ q.wlen = Least(Rem(g), m) /\ Rem(q.hv) = Rem(g) - q.wlen
  /\ q.hv.hlen = g.hlen /\ q.hv.head_complete /\ q.hv.to = g.to
  /\ q.hv.length = g.length /\ q.hv.value # NULL
  /\ q.hv.value.capacity = IF g.value = NULL THEN g.length ELSE g.value.capacity
  /\ q.hv.value_complete <=> g.value_complete \/ Rem(q.hv) = 0

(***************************************************************************)
(* write_value(): it keeps the cache there is, it fails only when there is *)
(* none, and it takes what the value lacks or what it is given.            *)
(***************************************************************************)
LEMMA ValueStep ==
  ASSUME NEW g \in HVRecord({GarbageId}), Bounded(g), NEW m \in Nat, NEW room \in Nat, m <= room,
         NEW q \in write_value(g, m, room)
  PROVE  /\ DOMAIN q = {"hv", "wlen", "stored"}
         /\ q.hv.value = NULL => g.value = NULL
         /\ q.wlen = -1 => q.hv.value = NULL
         /\ m = 0 => q.wlen = 0 /\ q.hv = g
         /\ g.head_complete /\ m > 0 /\ q.wlen # -1 => Took(g, m, q)
<1>0. NULL \notin Cache /\ g.length \in Nat /\ g.value \in Cache \cup {NULL}
  BY Constants DEF HVRecord
<1>1. CASE m <= 0 \/ ~g.head_complete
  <2>1. q = [hv |-> g, wlen |-> 0, stored |-> 0]
    BY <1>1 DEF write_value
  <2> QED BY <2>1, <1>1
<1>2. CASE ~(m <= 0 \/ ~g.head_complete)
  <2>1. PICK c \in ValueCache(g) :
          q = IF c = NULL THEN [hv |-> g, wlen |-> -1, stored |-> 0]
              ELSE LET w == Stored(c, m, room)
                       d == cache_push(c, w)
                   IN [hv |-> [g EXCEPT !.value = d, !.value_complete = @ \/ cache_full(d)],
                       wlen |-> w, stored |-> w]
    BY <1>2 DEF write_value
  <2>2. CASE c = NULL
    <3>1. g.value = NULL
      BY <2>2, <1>0 DEF ValueCache
    <3>2. q = [hv |-> g, wlen |-> -1, stored |-> 0]
      BY <2>1, <2>2
    <3> QED BY <3>1, <3>2, <1>2
  <2>3. CASE c # NULL
    <3> DEFINE w == Stored(c, m, room)
               d == cache_push(c, w)
    <3>1. /\ c \in Cache /\ c.widx <= c.capacity /\ Rem(g) = c.capacity - c.widx
          /\ c.capacity = IF g.value = NULL THEN g.length ELSE g.value.capacity
      <4>1. CASE g.value = NULL
        <5>1. c = create_cache(g.length)
          BY <4>1, <2>3 DEF ValueCache
        <5> QED BY <5>1, <4>1, <1>0, <1>2 DEF create_cache, Cache, Rem
      <4>2. CASE g.value # NULL
        BY <4>2, <1>0, <1>2 DEF ValueCache, Bounded, Rem
      <4> QED BY <4>1, <4>2
    <3>2. w = Least(Rem(g), m) /\ w \in Nat /\ w <= c.capacity - c.widx
      BY <3>1 DEF Stored, PushLen, Least, Cache
    <3>3. d \in Cache /\ d.capacity = c.capacity /\ d.widx = c.widx + w
      BY <3>1, <3>2 DEF cache_push, Cache
    <3>4. q = [hv |-> [g EXCEPT !.value = d, !.value_complete = @ \/ cache_full(d)],
               wlen |-> w, stored |-> w]
      BY <2>1, <2>3
    <3> HIDE DEF w, d
    <3>5. /\ q.hv = [g EXCEPT !.value = d, !.value_complete = @ \/ cache_full(d)]
          /\ q.wlen = w /\ DOMAIN q = {"hv", "wlen", "stored"}
      BY <3>4
    <3>6. /\ q.hv.hlen = g.hlen /\ q.hv.head_complete = g.head_complete /\ q.hv.to = g.to
          /\ q.hv.length = g.length /\ q.hv.value = d
          /\ q.hv.value_complete = (g.value_complete \/ cache_full(d))
      BY <3>5 DEF HVRecord
    <3>7. d # NULL /\ w # -1 /\ d.capacity \in Nat /\ c.widx \in Nat
      BY <3>1, <3>2, <3>3, <1>0 DEF Cache
    <3>8. Rem(q.hv) = d.capacity - d.widx
      BY <3>6, <3>7, <1>2 DEF Rem
    <3>9. Rem(q.hv) = Rem(g) - w
      BY <3>8, <3>1, <3>2, <3>3, <3>7
    <3>10. cache_full(d) <=> Rem(q.hv) = 0
      BY <3>8, <3>3, <3>7, <3>2 DEF cache_full
    <3>11. q.hv.value # NULL /\ q.wlen # -1 /\ ~(m = 0)
      BY <3>5, <3>6, <3>7, <1>2
    <3>12. q.hv.value_complete <=> g.value_complete \/ Rem(q.hv) = 0
      BY <3>6, <3>10
    <3>13. q.wlen = Least(Rem(g), m) /\ Rem(q.hv) = Rem(g) - q.wlen
      BY <3>2, <3>5, <3>9
    <3>14. q.hv.head_complete
      BY <3>6, <1>2
    <3>15. q.hv.value.capacity = IF g.value = NULL THEN g.length ELSE g.value.capacity
      BY <3>1, <3>3, <3>6
    <3>16. Took(g, m, q)
      BY <3>6, <3>11, <3>12, <3>13, <3>14, <3>15 DEF Took
    <3> QED BY <3>5, <3>11, <3>16
  <2> QED BY <2>2, <2>3
<1> QED BY <1>1, <1>2

(* write() is write_head() and then write_value() with what is left. *)
LEMMA WriteSplit ==
  ASSUME NEW h, NEW n, NEW decoded, NEW r \in write(h, n, decoded, n)
  PROVE  \E g \in write_head(h, n, decoded) : \E q \in write_value(g, n - HeadLen(h, n), n) :
           r = [q EXCEPT !.wlen = IF @ = -1 THEN -1 ELSE HeadLen(h, n) + @]
  BY DEF write

(* write() keeps the cache there is, and fails only when there is none. *)
LEMMA WriteKeeps ==
  ASSUME NEW h \in HVRecord({GarbageId}), Bounded(h), NEW n \in Nat, n > 0,
         NEW decoded \in SUBSET ({GarbageId} \X Nat), NEW r \in write(h, n, decoded, n)
  PROVE  /\ r.hv.value = NULL => h.value = NULL
         /\ r.wlen = -1 => r.hv.value = NULL
<1>1. PICK g \in write_head(h, n, decoded) : \E q \in write_value(g, n - HeadLen(h, n), n) :
        r = [q EXCEPT !.wlen = IF @ = -1 THEN -1 ELSE HeadLen(h, n) + @]
  BY WriteSplit
<1>2. g \in HVRecord({GarbageId}) /\ Bounded(g) /\ HeadLen(h, n) \in 0 .. n
  BY WriteHeadType
<1>3. g.value = h.value
  <2>1. ASSUME NEW d \in decoded, g = Headed(h, d)
        PROVE  g.value = h.value
    BY <2>1 DEF Headed, head_completed, HVRecord
  <2>2. CASE h.hlen = 0
    BY <2>1, <2>2, HeadRead
  <2>3. CASE h.hlen # 0
    BY <2>3, HeadThere
  <2> QED BY <2>2, <2>3
<1>4. PICK w \in 0 .. n : w = HeadLen(h, n)
  BY <1>2
<1>5. PICK m \in Nat : m = n - w
  BY <1>4
<1>6. PICK q \in write_value(g, m, n) : r = [q EXCEPT !.wlen = IF @ = -1 THEN -1 ELSE w + @]
  BY <1>1, <1>4, <1>5
<1>7. m <= n
  BY <1>4, <1>5
<1>8. /\ q.hv.value = NULL => g.value = NULL
      /\ q.wlen = -1 => q.hv.value = NULL
  BY <1>2, <1>7, ValueStep
<1>9. DOMAIN q = {"hv", "wlen", "stored"} /\ (q.wlen = -1 \/ q.wlen \in 0 .. m)
  BY <1>2, <1>7, WriteValueType
<1>10. r.hv = q.hv /\ r.wlen = IF q.wlen = -1 THEN -1 ELSE w + q.wlen
  BY <1>6, <1>9
<1> QED BY <1>3, <1>4, <1>8, <1>9, <1>10

(* A decoder that has read a header, and whose value is not complete. *)
HasHead(g) ==
  /\ g.head_complete /\ ~g.value_complete /\ g.hlen = 1 /\ g.to = "TO_FILE"
  /\ g.value # NULL => g.value.capacity = g.length /\ g.value.widx < g.value.capacity

(* What is left of a value is a number. *)
LEMMA RemType ==
  ASSUME NEW h \in HVRecord({GarbageId}), Bounded(h)
  PROVE  Rem(h) \in Nat
  BY Constants DEF HVRecord, Rem, Cache, Bounded

(* What a decoder in step with the bytes s is after write_head(). *)
LEMMA CleanHead ==
  ASSUME NEW h \in HVRecord({GarbageId}), Bounded(h), Decoding(h),
         NEW s \in Seq(Byte), NEW n \in 1 .. Len(s), NEW owed \in Nat,
         Framed(s, Rem(h), owed),
         NEW decoded, decoded = {GarbageId} \X (IF s[1] = Value THEN GarbageLength ELSE {s[1]}),
         NEW g \in write_head(h, n, decoded), NEW u, Dropped(u, s, HeadLen(h, n))
  PROVE  HasHead(g) /\ Framed(u, Rem(g), owed)
<1>0. /\ Len(s) \in Nat /\ n \in Nat /\ n > 0 /\ s # <<>>
      /\ GarbageLength \subseteq Nat /\ Value \notin Nat
      /\ \A x \in Nat : x # Value
      /\ MemoryCache \in Nat
  BY Constants
<1>3. h \in HVRecord({GarbageId}) /\ n \in Nat /\ n > 0 /\ g \in write_head(h, n, decoded)
  BY <1>0
<1>1. CASE h.hlen = 0
  <2>0. ~h.head_complete /\ h.value = NULL /\ Rem(h) = 0 /\ ~h.value_complete
    BY <1>1 DEF Decoding, Rem, HVRecord
  <2>1. HeadLen(h, n) = 1
    BY ONLY <1>1, <1>3, HeadRead
  <2>2. s[1] \in GarbageLength /\ s[1] >= MemoryCache /\ Framed(u, s[1], owed)
    BY <2>0, <2>1, <1>0, FramedHeader
  <2>3. PICK d \in decoded : g = Headed(h, d)
    BY ONLY <1>1, <1>3, HeadRead
  <2>4. d[2] = s[1] /\ s[1] \in Nat
    BY <2>2, <1>0
  <2> DEFINE f == [h EXCEPT !.hlen = 1, !.id = d[1], !.length = d[2]]
  <2>5. /\ f.hlen = 1 /\ f.length = s[1] /\ f.head_complete = h.head_complete
        /\ f.value_complete = h.value_complete /\ f.value = h.value
        /\ DOMAIN f = {"hlen", "id", "length", "to", "head_complete", "value_complete", "value"}
    BY <2>4 DEF HVRecord
  <2>6. g = head_completed(f)
    BY <2>3 DEF Headed
  <2> HIDE DEF f
  <2>7. ~f.head_complete /\ ~(f.length < MemoryCache)
    BY <2>0, <2>2, <2>4, <2>5, <1>0
  <2>8. g = [f EXCEPT !.head_complete = TRUE, !.to = "TO_FILE"]
    BY <2>6, <2>7 DEF head_completed
  <2>9. /\ g.head_complete /\ ~g.value_complete /\ g.hlen = 1 /\ g.to = "TO_FILE"
        /\ g.value = NULL /\ g.length = s[1]
    BY <2>0, <2>5, <2>8
  <2>10. Rem(g) = s[1]
    BY <2>9 DEF Rem
  <2> QED BY <2>2, <2>9, <2>10 DEF HasHead
<1>2. CASE h.hlen # 0
  <2>1. HeadLen(h, n) = 0 /\ g = h
    BY ONLY <1>2, <1>3, HeadThere
  <2>2. HasHead(g)
    BY <1>2, <2>1 DEF Decoding, HasHead
  <2>3. PICK rem \in Nat : rem = Rem(h)
    BY RemType
  <2>4. PICK j \in 0 .. rem : j = 0
    BY <2>3
  <2>5. Framed(s, rem, owed) /\ Dropped(u, s, j) /\ j <= Len(s)
    BY <2>1, <2>3, <2>4, <1>0
  <2>6. Framed(u, rem - j, owed)
    BY <2>5, FramedDrop
  <2>7. rem - j = Rem(g)
    BY <2>1, <2>3, <2>4
  <2> QED BY <2>2, <2>6, <2>7
<1> QED BY <1>1, <1>2

(* And after write_value(): one whose request is complete is cleared. *)
LEMMA CleanValue ==
  ASSUME NEW g \in HVRecord({GarbageId}), Bounded(g), HasHead(g),
         NEW m \in Nat, NEW room \in Nat, m <= room, NEW q \in write_value(g, m, room), q.wlen # -1,
         NEW u \in Seq(Byte), m <= Len(u), NEW owed \in Nat, Framed(u, Rem(g), owed),
         NEW t, Dropped(t, u, q.wlen)
  PROVE  IF is_complete(q.hv)
         THEN Decoding(clear(q.hv)) /\ Framed(t, Rem(clear(q.hv)), owed)
         ELSE Decoding(q.hv) /\ Framed(t, Rem(q.hv), owed)
<1>1. PICK rem \in Nat : rem = Rem(g)
  BY RemType
<1>2. /\ q.hv \in HVRecord({GarbageId}) /\ Bounded(q.hv) /\ q.wlen \in 0 .. m
  BY WriteValueType
<1>3. PICK k \in 0 .. m : k = q.wlen
  BY <1>2
<1>4. Framed(u, rem, owed) /\ Dropped(t, u, k) /\ k <= Len(u)
  BY <1>1, <1>3
<1>5. /\ g \in HVRecord({GarbageId}) /\ Bounded(g) /\ m \in Nat /\ room \in Nat /\ m <= room
      /\ q \in write_value(g, m, room) /\ q.wlen # -1
  OBVIOUS
<1>12. CASE m = 0
  <2>1. q.wlen = 0 /\ q.hv = g
    BY ONLY <1>5, <1>12, ValueStep
  <2>2. k \in 0 .. rem /\ rem - k = rem
    BY <2>1, <1>3
  <2>3. Framed(t, rem, owed)
    BY <2>2, <1>4, FramedDrop
  <2>4. ~is_complete(q.hv) /\ Decoding(q.hv)
    BY <2>1 DEF is_complete, Decoding, HasHead
  <2> QED BY <2>1, <2>3, <2>4, <1>1
<1>13. CASE m > 0
  <2>1. /\ q.wlen = Least(Rem(g), m) /\ Rem(q.hv) = Rem(g) - q.wlen
        /\ q.hv.hlen = g.hlen /\ q.hv.head_complete /\ q.hv.to = g.to
        /\ q.hv.length = g.length /\ q.hv.value # NULL
        /\ q.hv.value.capacity = IF g.value = NULL THEN g.length ELSE g.value.capacity
        /\ q.hv.value_complete <=> g.value_complete \/ Rem(q.hv) = 0
    <3>1. g.head_complete
      BY DEF HasHead
    <3>2. Took(g, m, q)
      BY ONLY <3>1, <1>5, <1>13, ValueStep
    <3> QED BY <3>2 DEF Took
  <2>2. k \in 0 .. rem
    BY <2>1, <1>1, <1>3 DEF Least
  <2>3. Framed(t, rem - k, owed) /\ rem - k = Rem(q.hv)
    BY <2>1, <2>2, <1>1, <1>3, <1>4, FramedDrop
  <2>4. CASE Rem(q.hv) = 0
    <3>1. is_complete(q.hv)
      BY <2>1, <2>4 DEF is_complete
    <3>2. q.hv.to = "TO_FILE"
      BY <2>1 DEF HasHead
    <3>3. /\ clear(q.hv).hlen = 0 /\ ~clear(q.hv).head_complete /\ ~clear(q.hv).value_complete
          /\ clear(q.hv).value = NULL
      BY <3>2, <1>2 DEF clear, HVRecord
    <3>4. Decoding(clear(q.hv)) /\ Rem(clear(q.hv)) = 0
      BY <3>3 DEF Decoding, Rem
    <3> QED BY <3>1, <3>4, <2>3, <2>4
  <2>5. CASE Rem(q.hv) # 0
    <3>1. ~is_complete(q.hv)
      BY <2>1, <2>5 DEF is_complete, HasHead
    <3>2. q.hv.value \in Cache /\ Rem(q.hv) = q.hv.value.capacity - q.hv.value.widx
      BY <1>2, <2>1 DEF HVRecord, Rem
    <3>3. q.hv.value.widx < q.hv.value.capacity
      BY <3>2, <2>1, <2>5, <1>2 DEF Bounded, Cache
    <3>4. Decoding(q.hv)
      BY <3>3, <2>1, <2>5 DEF Decoding, HasHead
    <3> QED BY <3>1, <3>4, <2>3
  <2> QED BY <2>4, <2>5
<1> QED BY <1>12, <1>13

(* Dropping in two steps is dropping. *)
LEMMA DroppedTwice ==
  ASSUME NEW s \in Seq(Byte), NEW w \in Nat, NEW k \in Nat, w + k <= Len(s),
         NEW u, Dropped(u, s, w), NEW t, Dropped(t, s, w + k)
  PROVE  Dropped(t, u, k)
<1>1. Len(u) = Len(s) - w /\ Len(t) = Len(u) - k /\ Len(t) \in Nat /\ Len(s) \in Nat
  BY DEF Dropped
<1>2. \A i \in 1 .. Len(t) : t[i] = u[i + k]
  <2> TAKE i \in 1 .. Len(t)
  <2>1. PICK p \in 1 .. Len(u) : p = i + k
    BY <1>1
  <2>2. u[p] = s[p + w] /\ t[i] = s[i + (w + k)]
    BY DEF Dropped
  <2>3. p + w = i + (w + k)
    BY <2>1
  <2> QED BY <2>1, <2>2, <2>3
<1> QED BY <1>1, <1>2 DEF Dropped

(* What SubSeq() drops. *)
LEMMA SubSeqDropped ==
  ASSUME NEW s \in Seq(Byte), NEW w \in 0 .. Len(s)
  PROVE  Dropped(SubSeq(s, w + 1, Len(s)), s, w)
<1> DEFINE u == SubSeq(s, w + 1, Len(s))
<1>0. Len(s) \in Nat /\ w \in Nat
  OBVIOUS
<1>1. \A i \in w + 1 .. Len(s) : s[i] \in Byte
  BY <1>0
<1>2. /\ u \in Seq(Byte)
      /\ Len(u) = IF w + 1 <= Len(s) THEN Len(s) - (w + 1) + 1 ELSE 0
      /\ \A i \in 1 .. Len(s) - (w + 1) + 1 : u[i] = s[(w + 1) + i - 1]
  BY <1>1, <1>0, SubSeqProperties
<1> HIDE DEF u
<1>3. Len(u) = Len(s) - w
  BY <1>0, <1>2
<1>4. \A i \in 1 .. Len(u) : u[i] = s[i + w]
  <2> TAKE i \in 1 .. Len(u)
  <2>1. i \in 1 .. Len(s) - (w + 1) + 1 /\ (w + 1) + i - 1 = i + w
    BY <1>0, <1>3
  <2>2. u[i] = s[(w + 1) + i - 1]
    BY <1>2, <2>1
  <2> QED BY <2>1, <2>2
<1>5. Dropped(u, s, w)
  BY <1>2, <1>3, <1>4 DEF Dropped
<1> QED BY <1>5 DEF u

(***************************************************************************)
(* A decoder in step with the bytes s stays in step when write() takes     *)
(* some of the n it is given, and holds no cache when a request is         *)
(* complete and cleared.                                                   *)
(***************************************************************************)
LEMMA CleanWrite ==
  ASSUME NEW h \in HVRecord({GarbageId}), Bounded(h), Decoding(h),
         NEW s \in Seq(Byte), NEW n \in 1 .. Len(s), NEW owed \in Nat,
         Framed(s, Rem(h), owed),
         NEW decoded, decoded = {GarbageId} \X (IF s[1] = Value THEN GarbageLength ELSE {s[1]}),
         NEW r \in write(h, n, decoded, n), r.wlen # -1,
         NEW t, Dropped(t, s, r.wlen)
  PROVE  IF is_complete(r.hv)
         THEN Decoding(clear(r.hv)) /\ Framed(t, Rem(clear(r.hv)), owed)
         ELSE Decoding(r.hv) /\ Framed(t, Rem(r.hv), owed)
<1>0. /\ Len(s) \in Nat /\ n \in Nat /\ n > 0 /\ GarbageLength \subseteq Nat /\ s[1] \in Byte
  BY Constants
<1>1. decoded \in SUBSET ({GarbageId} \X Nat)
  BY <1>0 DEF Byte
<1>2. PICK g \in write_head(h, n, decoded) : \E q \in write_value(g, n - HeadLen(h, n), n) :
        r = [q EXCEPT !.wlen = IF @ = -1 THEN -1 ELSE HeadLen(h, n) + @]
  BY WriteSplit
<1>3. g \in HVRecord({GarbageId}) /\ Bounded(g) /\ HeadLen(h, n) \in 0 .. n
  BY <1>0, <1>1, WriteHeadType
<1>4. PICK w \in 0 .. n : w = HeadLen(h, n)
  BY <1>3
<1>5. PICK m \in Nat : m = n - w
  BY <1>0, <1>4
<1>6. PICK q \in write_value(g, m, n) : r = [q EXCEPT !.wlen = IF @ = -1 THEN -1 ELSE w + @]
  BY <1>2, <1>4, <1>5
<1>7. PICK u : u = SubSeq(s, w + 1, Len(s))
  OBVIOUS
<1>8. w \in 0 .. Len(s) /\ m <= n /\ n \in Nat
  BY <1>0, <1>4, <1>5
<1>9. Dropped(u, s, w)
  BY <1>7, <1>8, SubSeqDropped
<1>10. u \in Seq(Byte) /\ Len(u) = Len(s) - w
  BY <1>9 DEF Dropped
<1>11. HasHead(g) /\ Framed(u, Rem(g), owed)
  BY <1>4, <1>9, CleanHead
<1>12. /\ DOMAIN q = {"hv", "wlen", "stored"}
       /\ q.wlen = -1 \/ q.wlen \in 0 .. m
  BY <1>3, <1>8, WriteValueType
<1>13. r.hv = q.hv /\ r.wlen = (IF q.wlen = -1 THEN -1 ELSE w + q.wlen)
  BY <1>6, <1>12
<1>14. PICK k \in 0 .. m : k = q.wlen
  BY <1>12, <1>13
<1>15. r.wlen = w + k /\ q.wlen # -1 /\ w \in Nat /\ k \in Nat /\ w + k <= Len(s) /\ m <= Len(u)
  BY <1>0, <1>4, <1>5, <1>10, <1>13, <1>14
<1>16. Dropped(t, s, w + k)
  BY <1>15
<1>17. Dropped(t, u, k)
  BY <1>9, <1>15, <1>16, DroppedTwice
<1>18. Dropped(t, u, q.wlen)
  BY <1>14, <1>17
<1>19. IF is_complete(q.hv)
       THEN Decoding(clear(q.hv)) /\ Framed(t, Rem(clear(q.hv)), owed)
       ELSE Decoding(q.hv) /\ Framed(t, Rem(q.hv), owed)
  BY <1>3, <1>8, <1>10, <1>11, <1>15, <1>18, CleanValue
<1> QED BY <1>13, <1>19

-----------------------------------------------------------------------------
(* The bytes of peer c that have arrived and not been decoded. *)
Rest(c) == (IF cur = c THEN buf ELSE <<>>) \o inbox[c]

(***************************************************************************)
(* A peer that has not been disturbed: its decoder is in step with its     *)
(* bytes, and when it has gone there is nothing left to decode or to send. *)
(***************************************************************************)
Clean(c) ==
  conn[c] # "none" /\ ~peer[c].disturbed =>
    /\ Framed(Rest(c), Rem(req[c]), peer[c].owed)
    /\ Decoding(req[c])
    /\ peer[c].gone => Quiet(c) /\ peer[c].owed = 0

CleanInv == \A c \in Client : Clean(c)

(* Who is reading, and what a peer without a handler has. *)
TurnInv ==
  /\ IF cur = None THEN buf = <<>> ELSE buf # <<>> /\ conn[cur] = "accepted"
  /\ \A c \in Client : conn[c] # "accepted" => req[c] = NewHV("TO_AUTO") /\ resp[c] = 0
  /\ \A c \in Client : conn[c] = "none" => inbox[c] = <<>>

(* No cache is overfull. *)
BoundInv == \A c \in Client : Bounded(req[c])

(* The table holds what it must, and not more than it can. *)
Accounts ==
  /\ OneFilePerDisturbed /\ Free >= 0
  /\ leaked + Cardinality(Connected) <= made

(* The inductive invariant. *)
DInv == TypeOK /\ BoundInv /\ TurnInv /\ CleanInv /\ Accounts

-----------------------------------------------------------------------------
(* Sets of peers have a size. *)
LEMMA Finite ==
  ASSUME NEW S \in SUBSET Client
  PROVE  IsFiniteSet(S) /\ Cardinality(S) \in Nat
<1>1. IsFiniteSet(S)
  BY Constants, FS_Subset
<1> QED BY <1>1, FS_CardinalityType

(* What one peer's connection and decoder do to the three counts. *)
LEMMA Counts ==
  ASSUME NEW c \in Client, \A d \in Client : d # c => conn'[d] = conn[d] /\ req'[d] = req[d]
  PROVE  /\ Cardinality(Accepted') = Cardinality(Accepted)
              + (IF conn'[c] = "accepted" THEN 1 ELSE 0) - (IF conn[c] = "accepted" THEN 1 ELSE 0)
         /\ Cardinality(Holding') = Cardinality(Holding)
              + (IF conn'[c] = "accepted" /\ req'[c].value # NULL THEN 1 ELSE 0)
              - (IF conn[c] = "accepted" /\ req[c].value # NULL THEN 1 ELSE 0)
         /\ Cardinality(Connected') = Cardinality(Connected)
              + (IF conn'[c] # "none" THEN 1 ELSE 0) - (IF conn[c] # "none" THEN 1 ELSE 0)
         /\ Cardinality(Accepted) \in Nat /\ Cardinality(Holding) \in Nat
         /\ Cardinality(Holding') \in Nat /\ Cardinality(Connected) \in Nat
<1>1. PICK A \in SUBSET Client : A = Accepted
  BY DEF Accepted
<1>2. PICK B \in SUBSET Client : B = Accepted'
  BY DEF Accepted
<1>3. PICK H \in SUBSET Client : H = Holding
  BY DEF Holding, Accepted
<1>4. PICK G \in SUBSET Client : G = Holding'
  BY DEF Holding, Accepted
<1>a. PICK C \in SUBSET Client : C = Connected
  BY DEF Connected
<1>b. PICK D \in SUBSET Client : D = Connected'
  BY DEF Connected
<1>c. (c \in C <=> conn[c] # "none") /\ (c \in D <=> conn'[c] # "none")
  BY <1>a, <1>b DEF Connected
<1>d. C \ {c} = D \ {c}
  BY <1>a, <1>b DEF Connected
<1>e. /\ IsFiniteSet(C) /\ IsFiniteSet(D) /\ Cardinality(C) \in Nat
  BY Finite
<1>f. Cardinality(D) = Cardinality(C) + (IF c \in D THEN 1 ELSE 0) - (IF c \in C THEN 1 ELSE 0)
  BY <1>d, <1>e, OneElement
<1>5. /\ c \in A <=> conn[c] = "accepted"
      /\ c \in B <=> conn'[c] = "accepted"
      /\ c \in H <=> conn[c] = "accepted" /\ req[c].value # NULL
      /\ c \in G <=> conn'[c] = "accepted" /\ req'[c].value # NULL
  BY <1>1, <1>2, <1>3, <1>4 DEF Accepted, Holding
<1>6. A \ {c} = B \ {c}
  BY <1>1, <1>2 DEF Accepted
<1>7. H \ {c} = G \ {c}
  BY <1>3, <1>4 DEF Accepted, Holding
<1>8. /\ IsFiniteSet(A) /\ IsFiniteSet(B) /\ IsFiniteSet(H) /\ IsFiniteSet(G)
      /\ Cardinality(A) \in Nat /\ Cardinality(H) \in Nat /\ Cardinality(G) \in Nat
  BY Finite
<1>9. Cardinality(B) = Cardinality(A) + (IF c \in B THEN 1 ELSE 0) - (IF c \in A THEN 1 ELSE 0)
  BY <1>6, <1>8, OneElement
<1>10. Cardinality(G) = Cardinality(H) + (IF c \in G THEN 1 ELSE 0) - (IF c \in H THEN 1 ELSE 0)
  BY <1>7, <1>8, OneElement
<1> QED BY <1>1, <1>2, <1>3, <1>4, <1>5, <1>8, <1>9, <1>10, <1>a, <1>b, <1>c, <1>e, <1>f

(* When neither changes for anyone, nor the files, the accounts stay. *)
LEMMA AccountsSame ==
  ASSUME Accounts, conn' = conn, req' = req, files' = files, leaked' = leaked,
         disturbed' = disturbed, made' = made
  PROVE  Accounts'
<1>1. Accepted' = Accepted
  BY DEF Accepted
<1>2. Holding' = Holding
  BY <1>1 DEF Holding
<1>3. Connected' = Connected
  BY DEF Connected
<1> QED BY <1>1, <1>2, <1>3 DEF Accounts, OneFilePerDisturbed, Free

(* An action that leaves peer d alone, as far as Clean(d) can tell. *)
Same(d) ==
  /\ conn'[d] = conn[d] /\ peer'[d] = peer[d] /\ inbox'[d] = inbox[d]
  /\ req'[d] = req[d] /\ resp'[d] = resp[d]
  /\ cur' = d <=> cur = d
  /\ cur = d => buf' = buf

(* Such an action keeps the peer in step. *)
LEMMA CleanSame ==
  ASSUME NEW d \in Client, Clean(d), Same(d)
  PROVE  Clean(d)'
<1>1. Rest(d)' = Rest(d)
  BY DEF Same, Rest
<1>2. peer[d].gone /\ Quiet(d) => Quiet(d)'
  BY DEF Same, Quiet
<1> QED BY <1>1, <1>2 DEF Clean, Same

(* The bytes that wait are bytes. *)
LEMMA RestType ==
  ASSUME TypeOK, NEW c \in Client
  PROVE  /\ Rest(c) \in Seq(Byte)
         /\ cur # c => Rest(c) = inbox[c]
         /\ cur = c => Rest(c) = buf \o inbox[c]
<1>1. inbox[c] \in Seq(Byte) /\ buf \in Seq(Byte)
  BY DEF TypeOK, Byte
<1>2. CASE cur = c
  BY <1>1, <1>2, ConcatProperties DEF Rest
<1>3. CASE cur # c
  BY <1>1, <1>3, ConcatEmptySeq DEF Rest
<1> QED BY <1>2, <1>3

(* A byte more in the inbox is a byte more that waits. *)
LEMMA RestGrows ==
  ASSUME TypeOK, NEW c \in Client, NEW x \in Byte, inbox'[c] = Append(inbox[c], x),
         cur' = cur, buf' = buf
  PROVE  Grown(Rest(c)', Rest(c), x)
<1>1. PICK a \in Seq(Byte) : a = IF cur = c THEN buf ELSE <<>>
  BY EmptySeq DEF TypeOK, Byte
<1>2. PICK b \in Seq(Byte) : b = inbox[c]
  BY DEF TypeOK, Byte
<1>3. PICK e \in Seq(Byte) : e = Append(b, x)
  BY AppendProperties
<1>4. Len(e) = Len(b) + 1 /\ e[Len(b) + 1] = x /\ \A i \in 1 .. Len(b) : e[i] = b[i]
  BY <1>3, AppendProperties
<1>5. PICK s : s = a \o b
  OBVIOUS
<1>6. PICK t : t = a \o e
  OBVIOUS
<1>7. /\ s \in Seq(Byte) /\ Len(s) = Len(a) + Len(b)
      /\ \A i \in 1 .. Len(a) + Len(b) : s[i] = IF i <= Len(a) THEN a[i] ELSE b[i - Len(a)]
  BY <1>5, ConcatProperties
<1>8. /\ t \in Seq(Byte) /\ Len(t) = Len(a) + Len(e)
      /\ \A i \in 1 .. Len(a) + Len(e) : t[i] = IF i <= Len(a) THEN a[i] ELSE e[i - Len(a)]
  BY <1>6, ConcatProperties
<1>9. Len(a) \in Nat /\ Len(b) \in Nat
  OBVIOUS
<1>10. \A i \in 1 .. Len(s) : t[i] = s[i]
  <2> TAKE i \in 1 .. Len(s)
  <2>0. i \in 1 .. Len(a) + Len(b) /\ i \in 1 .. Len(a) + Len(e)
    BY <1>4, <1>7, <1>9
  <2>1. CASE i <= Len(a)
    BY <2>0, <2>1, <1>7, <1>8
  <2>2. CASE ~(i <= Len(a))
    <3>0. PICK la \in Nat, lb \in Nat : la = Len(a) /\ lb = Len(b)
      BY <1>9
    <3>3. i \in 1 .. la + lb /\ i > la
      BY <2>0, <2>2, <3>0
    <3>4. i - la \in 1 .. lb
      BY <3>3
    <3>1. PICK k \in 1 .. Len(b) : k = i - Len(a)
      BY <3>0, <3>4
    <3>2. t[i] = e[k] /\ s[i] = b[k] /\ e[k] = b[k]
      BY <3>1, <2>0, <2>2, <1>4, <1>7, <1>8
    <3> QED BY <3>2
  <2> QED BY <2>1, <2>2
<1>11. Len(t) = Len(s) + 1 /\ t[Len(t)] = x
  <2>1. Len(t) = Len(s) + 1 /\ Len(t) \in 1 .. Len(a) + Len(e) /\ ~(Len(t) <= Len(a))
    BY <1>4, <1>7, <1>8, <1>9
  <2>2. t[Len(t)] = e[Len(t) - Len(a)]
    BY <2>1, <1>8
  <2>3. Len(t) - Len(a) = Len(b) + 1
    BY <1>4, <1>8, <1>9
  <2> QED BY <2>1, <2>2, <2>3, <1>4
<1>12. Rest(c) = s /\ Rest(c)' = t
  BY <1>1, <1>2, <1>3, <1>5, <1>6 DEF Rest
<1> QED BY <1>8, <1>10, <1>11, <1>12 DEF Grown

-----------------------------------------------------------------------------
(* The peers. *)
LEMMA ConnectStep ==
  ASSUME DInv, NEW c \in Client, Connect(c)
  PROVE  DInv'
<1>0. TypeOK /\ BoundInv /\ TurnInv /\ CleanInv /\ Accounts
  BY DEF DInv
<1>1. /\ conn[c] = "none" /\ conn' = [conn EXCEPT ![c] = "waiting"] /\ made' = made + 1
      /\ peer' = [peer EXCEPT ![c] = NewPeer]
      /\ inbox' = inbox /\ req' = req /\ resp' = resp /\ cur' = cur /\ buf' = buf
      /\ files' = files /\ disturbed' = disturbed /\ alive' = alive /\ asked' = asked
      /\ leaked' = leaked
  BY DEF Connect, decoders, reader, table
<1>2. NewPeer \in Peer
  BY DEF NewPeer, Peer
<1>3. /\ conn'[c] = "waiting" /\ peer'[c] = NewPeer
      /\ \A d \in Client : d # c => conn'[d] = conn[d] /\ peer'[d] = peer[d]
  BY <1>0, <1>1 DEF TypeOK
<1>4. TypeOK'
  <2>1. conn' \in [Client -> {"none", "waiting", "accepted"}] /\ made' \in Nat
    BY <1>0, <1>1 DEF TypeOK
  <2>2. peer' \in [Client -> Peer]
    BY <1>0, <1>1, <1>2 DEF TypeOK
  <2> QED BY <1>0, <1>1, <2>1, <2>2 DEF TypeOK
<1>5. BoundInv'
  BY <1>0, <1>1 DEF BoundInv
<1>6. cur # c /\ cur \in Client \cup {None}
  BY <1>0, <1>1, Constants DEF TurnInv, TypeOK
<1>7. TurnInv'
  BY <1>0, <1>1, <1>3, <1>6 DEF TurnInv
<1>8. CleanInv'
  <2>1. ASSUME NEW d \in Client, d # c PROVE Clean(d)'
    <3>1. Clean(d) /\ Same(d)
      BY <1>0, <1>1, <1>3, <2>1 DEF CleanInv, Same
    <3> QED BY <3>1, CleanSame
  <2>2. Clean(c)'
    <3>1. req'[c] = NewHV("TO_AUTO") /\ inbox'[c] = <<>> /\ cur' # c
      BY <1>0, <1>1, <1>6 DEF TurnInv
    <3>2. Rest(c)' = <<>>
      BY <3>1, ConcatEmptySeq, EmptySeq DEF Rest
    <3>3. Rem(req[c])' = 0 /\ Decoding(req[c])'
      BY <3>1 DEF Rem, Decoding, NewHV
    <3>4. peer'[c].owed = 0 /\ ~peer'[c].gone
      BY <1>3 DEF NewPeer
    <3>5. Framed(Rest(c)', 0, 0)
      BY <3>2, FramedEmpty
    <3> QED BY <3>3, <3>4, <3>5 DEF Clean
  <2> QED BY <2>1, <2>2 DEF CleanInv
<1>9. Accounts'
  <2>1. /\ Cardinality(Accepted') = Cardinality(Accepted)
        /\ Cardinality(Holding') = Cardinality(Holding)
        /\ Cardinality(Connected') = Cardinality(Connected) + 1
        /\ Cardinality(Connected) \in Nat
    BY <1>1, <1>3, Counts
  <2>2. leaked \in Nat /\ made \in Nat
    BY <1>0 DEF TypeOK
  <2> QED BY <1>0, <1>1, <2>1, <2>2 DEF Accounts, OneFilePerDisturbed, Free
<1> QED BY <1>4, <1>5, <1>7, <1>8, <1>9 DEF DInv

(* What a peer with a connection sends or does leaves the server alone. *)
LEMMA PeerKeeps ==
  ASSUME DInv, NEW c \in Client, conn[c] # "none",
         conn' = conn, req' = req, resp' = resp, cur' = cur, buf' = buf,
         files' = files, leaked' = leaked, disturbed' = disturbed, made' = made,
         NEW a \in Seq(Byte), inbox' = [inbox EXCEPT ![c] = a],
         NEW p \in Peer, peer' = [peer EXCEPT ![c] = p],
         TypeOK', Clean(c)'
  PROVE  DInv'
<1>0. TypeOK /\ BoundInv /\ TurnInv /\ CleanInv /\ Accounts
  BY DEF DInv
<1>1. \A d \in Client : d # c => inbox'[d] = inbox[d] /\ peer'[d] = peer[d]
  BY <1>0 DEF TypeOK
<1>2. BoundInv'
  BY <1>0 DEF BoundInv
<1>3. TurnInv'
  BY <1>0, <1>1 DEF TurnInv
<1>4. ASSUME NEW d \in Client, d # c PROVE Clean(d)'
  <2>1. Clean(d) /\ Same(d)
    BY <1>0, <1>1, <1>4 DEF CleanInv, Same
  <2> QED BY <2>1, CleanSame
<1>5. CleanInv'
  BY <1>4 DEF CleanInv
<1>6. Accounts'
  BY <1>0, AccountsSame
<1> QED BY <1>2, <1>3, <1>5, <1>6 DEF DInv

(* A request below MemoryCache disturbs its peer, a larger one is framed. *)
LEMMA SendHeaderStep ==
  ASSUME DInv, NEW c \in Client, SendHeader(c)
  PROVE  DInv'
<1>0. TypeOK /\ CleanInv /\ BoundInv
  BY DEF DInv
<1>1. PICK length \in GarbageLength :
        /\ inbox' = [inbox EXCEPT ![c] = Append(@, length)]
        /\ peer' = [peer EXCEPT ![c] =
             [peer[c] EXCEPT !.owed = length, !.disturbed = @ \/ length < MemoryCache]]
  BY DEF SendHeader
<1>2. /\ conn[c] # "none" /\ ~peer[c].gone /\ peer[c].owed = 0
      /\ conn' = conn /\ made' = made /\ req' = req /\ resp' = resp /\ cur' = cur /\ buf' = buf
      /\ files' = files /\ disturbed' = disturbed /\ alive' = alive /\ asked' = asked + 1
      /\ leaked' = leaked
  BY DEF SendHeader, Talks, decoders, reader, table
<1>3. length \in Nat /\ length \in Byte /\ inbox[c] \in Seq(Byte) /\ peer[c] \in Peer
  BY <1>0, Constants DEF TypeOK, Byte
<1>4. PICK a \in Seq(Byte) : a = Append(inbox[c], length)
  BY <1>3, AppendProperties
<1>5. PICK v \in BOOLEAN : v = (peer[c].disturbed \/ length < MemoryCache)
  OBVIOUS
<1>6. PICK p \in Peer : p = [peer[c] EXCEPT !.owed = length, !.disturbed = v]
  BY <1>3 DEF Peer
<1>7. p.owed = length /\ p.disturbed = v /\ p.gone = peer[c].gone
  BY <1>3, <1>6 DEF Peer
<1>8. inbox' = [inbox EXCEPT ![c] = a]
  BY <1>1, <1>4
<1>9. peer' = [peer EXCEPT ![c] = p]
  <2>1. [peer[c] EXCEPT !.owed = length, !.disturbed = @ \/ length < MemoryCache] = p
    BY <1>3, <1>5, <1>6 DEF Peer
  <2> QED BY <1>1, <2>1
<1>10. inbox'[c] = a /\ peer'[c] = p
  BY <1>0, <1>8, <1>9 DEF TypeOK
<1>11. TypeOK'
  <2>1. inbox' \in [Client -> Seq(GarbageLength \cup {Value})]
    BY <1>0, <1>8 DEF TypeOK, Byte
  <2>2. peer' \in [Client -> Peer] /\ asked' \in Nat
    BY <1>0, <1>2, <1>9 DEF TypeOK
  <2> QED BY <1>0, <1>2, <2>1, <2>2 DEF TypeOK
<1>12. Clean(c)'
  <2>1. SUFFICES ASSUME ~p.disturbed
                 PROVE  /\ Framed(Rest(c)', Rem(req[c]), length)
                        /\ Decoding(req[c])
    BY <1>2, <1>7, <1>10 DEF Clean
  <2>2. ~peer[c].disturbed /\ ~(length < MemoryCache)
    BY <1>5, <1>7, <2>1
  <2>3. Framed(Rest(c), Rem(req[c]), 0) /\ Decoding(req[c])
    BY <1>0, <1>2, <2>2 DEF CleanInv, Clean
  <2>4. PICK s \in Seq(Byte) : s = Rest(c)
    BY <1>0, RestType
  <2>5. PICK t : t = Rest(c)'
    OBVIOUS
  <2>6. Grown(t, s, length)
    BY <1>0, <1>2, <1>3, <1>4, <1>10, <2>4, <2>5, RestGrows
  <2>7. PICK rem \in Nat : rem = Rem(req[c])
    BY <1>0, RemType DEF TypeOK, BoundInv
  <2>8. length >= MemoryCache
    BY <2>2, <1>3, Constants
  <2>9. Framed(t, rem, length)
    BY <2>3, <2>4, <2>6, <2>7, <2>8, FramedRequest
  <2> QED BY <2>3, <2>5, <2>7, <2>9
<1> QED BY <1>2, <1>8, <1>9, <1>11, <1>12, PeerKeeps

(* A byte of the value is one the peer no longer owes. *)
LEMMA SendValueStep ==
  ASSUME DInv, NEW c \in Client, SendValue(c)
  PROVE  DInv'
<1>0. TypeOK /\ CleanInv /\ BoundInv
  BY DEF DInv
<1>2. /\ conn[c] # "none" /\ ~peer[c].gone /\ peer[c].owed > 0
      /\ inbox' = [inbox EXCEPT ![c] = Append(@, Value)]
      /\ peer' = [peer EXCEPT ![c].owed = @ - 1]
      /\ conn' = conn /\ made' = made /\ req' = req /\ resp' = resp /\ cur' = cur /\ buf' = buf
      /\ files' = files /\ disturbed' = disturbed /\ alive' = alive /\ asked' = asked
      /\ leaked' = leaked
  BY DEF SendValue, Talks, decoders, reader, bounds, table
<1>3. Value \in Byte /\ inbox[c] \in Seq(Byte) /\ peer[c] \in Peer
  BY <1>0 DEF TypeOK, Byte
<1>4. PICK a \in Seq(Byte) : a = Append(inbox[c], Value)
  BY <1>3, AppendProperties
<1>5. PICK owed \in Nat : owed = peer[c].owed
  BY <1>3 DEF Peer
<1>1. owed - 1 \in Nat
  BY <1>2, <1>5
<1>6. PICK p \in Peer : p = [peer[c] EXCEPT !.owed = owed - 1]
  BY <1>1, <1>3 DEF Peer
<1>7. p.owed = owed - 1 /\ p.disturbed = peer[c].disturbed /\ p.gone = peer[c].gone
  BY <1>3, <1>6 DEF Peer
<1>8. inbox' = [inbox EXCEPT ![c] = a]
  BY <1>2, <1>4
<1>9. peer' = [peer EXCEPT ![c] = p]
  BY <1>0, <1>2, <1>5, <1>6 DEF TypeOK, Peer
<1>10. inbox'[c] = a /\ peer'[c] = p
  BY <1>0, <1>8, <1>9 DEF TypeOK
<1>11. TypeOK'
  <2>1. inbox' \in [Client -> Seq(GarbageLength \cup {Value})]
    BY <1>0, <1>8 DEF TypeOK, Byte
  <2>2. peer' \in [Client -> Peer] /\ asked' \in Nat
    BY <1>0, <1>2, <1>9 DEF TypeOK
  <2> QED BY <1>0, <1>2, <2>1, <2>2 DEF TypeOK
<1>12. Clean(c)'
  <2>1. SUFFICES ASSUME ~p.disturbed
                 PROVE  /\ Framed(Rest(c)', Rem(req[c]), owed - 1)
                        /\ Decoding(req[c])
    BY <1>2, <1>7, <1>10 DEF Clean
  <2>3. Framed(Rest(c), Rem(req[c]), owed) /\ Decoding(req[c])
    BY <1>0, <1>2, <1>5, <1>7, <2>1 DEF CleanInv, Clean
  <2>4. PICK s \in Seq(Byte) : s = Rest(c)
    BY <1>0, RestType
  <2>5. PICK t : t = Rest(c)'
    OBVIOUS
  <2>6. Grown(t, s, Value)
    BY <1>0, <1>2, <1>3, <1>4, <1>10, <2>4, <2>5, RestGrows
  <2>7. PICK rem \in Nat : rem = Rem(req[c])
    BY <1>0, RemType DEF TypeOK, BoundInv
  <2>9. Framed(t, rem, owed - 1)
    BY <1>2, <1>5, <2>3, <2>4, <2>6, <2>7, FramedValue
  <2> QED BY <2>3, <2>5, <2>7, <2>9
<1> QED BY <1>2, <1>8, <1>9, <1>11, <1>12, PeerKeeps

(* A peer that goes undisturbed has been decoded and answered to the end. *)
LEMMA PeerEndsStep ==
  ASSUME DInv, NEW c \in Client, PeerEnds(c)
  PROVE  DInv'
<1>0. TypeOK /\ CleanInv
  BY DEF DInv
<1>2. /\ conn[c] # "none" /\ ~peer[c].gone
      /\ peer' = [peer EXCEPT ![c] =
           [peer[c] EXCEPT !.gone = TRUE, !.disturbed = @ \/ peer[c].owed > 0 \/ ~Quiet(c)]]
      /\ inbox' = inbox \/ inbox' = [inbox EXCEPT ![c] = <<>>]
      /\ conn' = conn /\ made' = made /\ req' = req /\ resp' = resp /\ cur' = cur /\ buf' = buf
      /\ files' = files /\ disturbed' = disturbed /\ alive' = alive /\ asked' = asked
      /\ leaked' = leaked
  BY DEF PeerEnds, Talks, decoders, reader, bounds, table
<1>3. inbox[c] \in Seq(Byte) /\ peer[c] \in Peer /\ <<>> \in Seq(Byte)
  BY <1>0, EmptySeq DEF TypeOK, Byte
<1>4. PICK a \in Seq(Byte) : a \in {inbox[c], <<>>} /\ inbox' = [inbox EXCEPT ![c] = a]
  <2>1. inbox = [inbox EXCEPT ![c] = inbox[c]]
    BY <1>0 DEF TypeOK
  <2> QED BY <2>1, <1>2, <1>3
<1>5. PICK v \in BOOLEAN : v = (peer[c].disturbed \/ peer[c].owed > 0 \/ ~Quiet(c))
  OBVIOUS
<1>6. PICK p \in Peer : p = [peer[c] EXCEPT !.gone = TRUE, !.disturbed = v]
  BY <1>3 DEF Peer
<1>7. p.owed = peer[c].owed /\ p.disturbed = v /\ p.gone = TRUE
  BY <1>3, <1>6 DEF Peer
<1>9. peer' = [peer EXCEPT ![c] = p]
  <2>1. [peer[c] EXCEPT !.gone = TRUE, !.disturbed = @ \/ peer[c].owed > 0 \/ ~Quiet(c)] = p
    BY <1>3, <1>5, <1>6 DEF Peer
  <2> QED BY <1>2, <2>1
<1>10. inbox'[c] = a /\ peer'[c] = p
  BY <1>0, <1>4, <1>9 DEF TypeOK
<1>11. TypeOK'
  BY <1>0, <1>2, <1>4, <1>9 DEF TypeOK, Byte
<1>12. Clean(c)'
  <2>1. SUFFICES ASSUME ~p.disturbed
                 PROVE  /\ Framed(Rest(c)', Rem(req[c]), peer[c].owed)
                        /\ Decoding(req[c])
                        /\ Quiet(c)' /\ peer[c].owed = 0
    BY <1>2, <1>7, <1>10 DEF Clean
  <2>2. ~peer[c].disturbed /\ ~(peer[c].owed > 0) /\ Quiet(c)
    BY <1>5, <1>7, <2>1
  <2>3. inbox'[c] = inbox[c] /\ inbox[c] = <<>>
    BY <1>4, <1>10, <2>2 DEF Quiet
  <2>4. Rest(c)' = Rest(c) /\ Quiet(c)'
    BY <1>2, <2>2, <2>3 DEF Rest, Quiet
  <2>5. peer[c].owed = 0
    BY <1>3, <2>2 DEF Peer
  <2> QED BY <1>0, <1>2, <2>2, <2>4, <2>5 DEF CleanInv, Clean
<1> QED BY <1>2, <1>4, <1>9, <1>11, <1>12, PeerKeeps

-----------------------------------------------------------------------------
(* The handlers, when the thread is in select(). *)
LEMMA AcceptStep ==
  ASSUME DInv, NEW c \in Client, Accept(c)
  PROVE  DInv'
<1>0. TypeOK /\ BoundInv /\ TurnInv /\ CleanInv /\ Accounts
  BY DEF DInv
<1>1. PICK to \in Storage : req' = [req EXCEPT ![c] = NewHV(to)]
  BY DEF Accept
<1>2. /\ cur = None /\ conn[c] = "waiting" /\ Free > 0
      /\ conn' = [conn EXCEPT ![c] = "accepted"]
      /\ peer' = peer /\ inbox' = inbox /\ resp' = resp /\ cur' = cur /\ buf' = buf
      /\ files' = files /\ made' = made /\ asked' = asked
      /\ disturbed' = disturbed /\ alive' = alive /\ leaked' = leaked
  BY DEF Accept, Idle, reader, bounds, table
<1>3. NewHV(to) \in HVRecord({GarbageId}) /\ NewHV(to).value = NULL
  BY Constants DEF NewHV, HVRecord
<1>4. /\ conn'[c] = "accepted" /\ req'[c] = NewHV(to) /\ req'[c].value = NULL
      /\ \A d \in Client : d # c => conn'[d] = conn[d] /\ req'[d] = req[d]
  BY <1>0, <1>1, <1>2, <1>3 DEF TypeOK
<1>5. TypeOK'
  <2>1. conn' \in [Client -> {"none", "waiting", "accepted"}]
    BY <1>0, <1>2 DEF TypeOK
  <2>2. req' \in [Client -> HVRecord({GarbageId})]
    BY <1>0, <1>1, <1>3 DEF TypeOK
  <2> QED BY <1>0, <1>2, <2>1, <2>2 DEF TypeOK
<1>6. BoundInv'
  BY <1>0, <1>4 DEF BoundInv, Bounded
<1>7. TurnInv'
  BY <1>0, <1>2, <1>4 DEF TurnInv
<1>8. CleanInv'
  <2>1. ASSUME NEW d \in Client, d # c PROVE Clean(d)'
    <3>1. Clean(d) /\ Same(d)
      BY <1>0, <1>2, <1>4, <2>1 DEF CleanInv, Same
    <3> QED BY <3>1, CleanSame
  <2>2. Clean(c)'
    <3>1. req[c] = NewHV("TO_AUTO")
      BY <1>0, <1>2 DEF TurnInv
    <3>2. Rem(req[c]) = 0 /\ Rem(req'[c]) = 0 /\ Decoding(req'[c])
      BY <3>1, <1>4 DEF Rem, Decoding, NewHV
    <3>3. Rest(c)' = Rest(c) /\ (Quiet(c) => Quiet(c)')
      BY <1>2 DEF Rest, Quiet
    <3> QED BY <1>0, <1>2, <3>2, <3>3 DEF CleanInv, Clean
  <2> QED BY <2>1, <2>2 DEF CleanInv
<1>9. Accounts'
  <2>1. /\ Cardinality(Accepted') = Cardinality(Accepted) + 1
        /\ Cardinality(Holding') = Cardinality(Holding)
        /\ Cardinality(Connected') = Cardinality(Connected)
        /\ Cardinality(Accepted) \in Nat /\ Cardinality(Holding) \in Nat
        /\ Cardinality(Connected) \in Nat
    BY <1>2, <1>4, Counts
  <2>2. files \in Nat /\ leaked \in Nat /\ MaxFd \in Nat
    BY <1>0, Constants DEF TypeOK
  <2> QED BY <1>0, <1>2, <2>1, <2>2 DEF Accounts, OneFilePerDisturbed, Free
<1> QED BY <1>5, <1>6, <1>7, <1>8, <1>9 DEF DInv

(* A constructor that fails: the connection ends before it has a decoder. *)
LEMMA AcceptLostStep ==
  ASSUME DInv, NEW c \in Client, AcceptLost(c)
  PROVE  DInv'
<1>0. TypeOK /\ BoundInv /\ TurnInv /\ CleanInv /\ Accounts
  BY DEF DInv
<1>1. /\ cur = None /\ conn[c] = "waiting" /\ Free > 0
      /\ conn' = [conn EXCEPT ![c] = "none"] /\ inbox' = [inbox EXCEPT ![c] = <<>>]
      /\ peer' = peer /\ req' = req /\ resp' = resp /\ cur' = cur /\ buf' = buf
      /\ files' = files /\ leaked' = leaked + 1 /\ made' = made /\ asked' = asked
      /\ disturbed' = disturbed /\ alive' \in BOOLEAN
  BY DEF AcceptLost, Idle, decoders, reader, bounds
<1>2. /\ conn'[c] = "none" /\ inbox'[c] = <<>>
      /\ \A d \in Client : d # c => conn'[d] = conn[d] /\ inbox'[d] = inbox[d]
  BY <1>0, <1>1 DEF TypeOK
<1>3. TypeOK'
  <2>1. conn' \in [Client -> {"none", "waiting", "accepted"}] /\ leaked' \in Nat
    BY <1>0, <1>1 DEF TypeOK
  <2>2. inbox' \in [Client -> Seq(GarbageLength \cup {Value})]
    BY <1>0, <1>1, EmptySeq DEF TypeOK
  <2> QED BY <1>0, <1>1, <2>1, <2>2 DEF TypeOK
<1>4. BoundInv' /\ TurnInv'
  BY <1>0, <1>1, <1>2 DEF BoundInv, TurnInv
<1>5. CleanInv'
  <2>1. ASSUME NEW d \in Client, d # c PROVE Clean(d)'
    <3>1. Clean(d) /\ Same(d)
      BY <1>0, <1>1, <1>2, <2>1 DEF CleanInv, Same
    <3> QED BY <3>1, CleanSame
  <2>2. Clean(c)'
    BY <1>2 DEF Clean
  <2> QED BY <2>1, <2>2 DEF CleanInv
<1>6. Accounts'
  <2>1. /\ Cardinality(Accepted') = Cardinality(Accepted)
        /\ Cardinality(Holding') = Cardinality(Holding)
        /\ Cardinality(Connected') = Cardinality(Connected) - 1
        /\ Cardinality(Accepted) \in Nat /\ Cardinality(Connected) \in Nat
    BY <1>1, <1>2, Counts
  <2>2. files \in Nat /\ leaked \in Nat /\ made \in Nat /\ MaxFd \in Nat
    BY <1>0, Constants DEF TypeOK
  <2> QED BY <1>0, <1>1, <2>1, <2>2 DEF Accounts, OneFilePerDisturbed, Free
<1> QED BY <1>3, <1>4, <1>5, <1>6 DEF DInv

(***************************************************************************)
(* close() of a peer that has gone: one that was not disturbed has nothing *)
(* left to decode and no cache, the other loses one FILE at most; either   *)
(* may leave its socket, which then takes the place it had in the table.   *)
(***************************************************************************)
LEMMA CloseStep ==
  ASSUME DInv, NEW c \in Client, close(c), cur = None, conn[c] = "accepted", peer[c].gone,
         inbox[c] # <<>> => resp[c] > 0,
         peer' = peer, cur' = cur, buf' = buf, made' = made, asked' = asked, alive' \in BOOLEAN
  PROVE  DInv'
<1>0. TypeOK /\ BoundInv /\ TurnInv /\ CleanInv /\ Accounts
  BY DEF DInv
<1>1. /\ conn' = [conn EXCEPT ![c] = "none"]
      /\ resp' = [resp EXCEPT ![c] = 0] /\ inbox' = [inbox EXCEPT ![c] = <<>>]
      /\ disturbed' = disturbed + (IF peer[c].disturbed THEN 1 ELSE 0)
      /\ req' = [req EXCEPT ![c] = NewHV("TO_AUTO")] /\ files' = files
      /\ leaked' \in {leaked, leaked + 1}
  BY DEF close
<1>2. NewHV("TO_AUTO") \in HVRecord({GarbageId}) /\ NewHV("TO_AUTO").value = NULL
  BY Constants DEF NewHV, HVRecord, Storage
<1>3. /\ conn'[c] = "none" /\ resp'[c] = 0 /\ inbox'[c] = <<>>
      /\ req'[c] = NewHV("TO_AUTO") /\ req'[c].value = NULL
      /\ \A d \in Client : d # c => /\ conn'[d] = conn[d] /\ resp'[d] = resp[d]
                                    /\ inbox'[d] = inbox[d] /\ req'[d] = req[d]
  BY <1>0, <1>1, <1>2 DEF TypeOK
<1>4. TypeOK'
  <2>1. conn' \in [Client -> {"none", "waiting", "accepted"}]
    BY <1>0, <1>1 DEF TypeOK
  <2>2. req' \in [Client -> HVRecord({GarbageId})]
    BY <1>0, <1>1, <1>2 DEF TypeOK
  <2>3. inbox' \in [Client -> Seq(GarbageLength \cup {Value})] /\ resp' \in [Client -> Nat]
    BY <1>0, <1>1, EmptySeq DEF TypeOK
  <2>4. disturbed' \in Nat /\ leaked' \in Nat
    BY <1>0, <1>1 DEF TypeOK
  <2> QED BY <1>0, <1>1, <2>1, <2>2, <2>3, <2>4 DEF TypeOK
<1>5. BoundInv'
  BY <1>0, <1>3 DEF BoundInv, Bounded
<1>6. TurnInv'
  BY <1>0, <1>3 DEF TurnInv
<1>7. CleanInv'
  <2>1. ASSUME NEW d \in Client, d # c PROVE Clean(d)'
    <3>1. Clean(d) /\ Same(d)
      BY <1>0, <1>3, <2>1 DEF CleanInv, Same
    <3> QED BY <3>1, CleanSame
  <2>2. Clean(c)'
    BY <1>3 DEF Clean
  <2> QED BY <2>1, <2>2 DEF CleanInv
<1>8. ~peer[c].disturbed => req[c].value = NULL
  <2>1. SUFFICES ASSUME ~peer[c].disturbed PROVE req[c].value = NULL
    OBVIOUS
  <2>2. /\ Framed(Rest(c), Rem(req[c]), 0) /\ Decoding(req[c])
        /\ inbox[c] = <<>>
    BY <1>0, <2>1 DEF CleanInv, Clean, Quiet
  <2>3. Rest(c) = <<>>
    BY <1>0, <2>2, RestType, Constants
  <2>4. PICK rem \in Nat : rem = Rem(req[c])
    BY <1>0, RemType DEF TypeOK, BoundInv
  <2>5. rem = 0
    BY <2>2, <2>3, <2>4, FramedEmpty
  <2>6. req[c] \in HVRecord({GarbageId}) /\ NULL \notin Cache
    BY <1>0, Constants DEF TypeOK
  <2> QED BY <2>2, <2>4, <2>5, <2>6 DEF Decoding, Rem, HVRecord, Cache
<1>9. Accounts'
  <2>1. /\ Cardinality(Accepted') = Cardinality(Accepted) - 1
        /\ Cardinality(Holding') = Cardinality(Holding) - (IF req[c].value # NULL THEN 1 ELSE 0)
        /\ Cardinality(Connected') = Cardinality(Connected) - 1
        /\ Cardinality(Accepted) \in Nat /\ Cardinality(Holding) \in Nat
        /\ Cardinality(Connected) \in Nat
    <3>1. conn'[c] # "accepted" /\ ~(conn'[c] # "none") /\ conn[c] = "accepted" /\ conn[c] # "none"
      BY <1>3
    <3>2. \A d \in Client : d # c => conn'[d] = conn[d] /\ req'[d] = req[d]
      BY <1>3
    <3> QED BY <3>1, <3>2, Counts
  <2>2. files \in Nat /\ leaked \in Nat /\ made \in Nat /\ MaxFd \in Nat /\ disturbed \in Nat
    BY <1>0, Constants DEF TypeOK
  <2>3. OneFilePerDisturbed'
    BY <1>0, <1>1, <1>8, <2>1, <2>2 DEF Accounts, OneFilePerDisturbed
  <2>4. (Free >= 0)'
    BY <1>0, <1>1, <2>1, <2>2 DEF Accounts, Free
  <2>5. (leaked + Cardinality(Connected) <= made)'
    BY <1>0, <1>1, <2>1, <2>2 DEF Accounts
  <2> QED BY <2>3, <2>4, <2>5 DEF Accounts
<1> QED BY <1>4, <1>5, <1>6, <1>7, <1>9 DEF DInv

(* recv() has told the handler that the peer is gone: nothing is in the inbox. *)
LEMMA ReadEndsStep ==
  ASSUME DInv, NEW c \in Client, ReadEnds(c)
  PROVE  DInv'
<1>1. alive \in BOOLEAN
  BY DEF DInv, TypeOK
<1> QED BY <1>1, CloseStep DEF ReadEnds, Idle, reader, bounds

(* send() has: there were responses, so the peer was disturbed. *)
LEMMA WriteFailsStep ==
  ASSUME DInv, NEW c \in Client, WriteFails(c)
  PROVE  DInv'
  BY CloseStep DEF WriteFails, Idle, reader, bounds

(* handle_write() touches the queue only. *)
LEMMA WriteStep ==
  ASSUME DInv, NEW c \in Client, Write(c)
  PROVE  DInv'
<1>0. TypeOK /\ BoundInv /\ TurnInv /\ CleanInv /\ Accounts
  BY DEF DInv
<1>1. /\ conn[c] = "accepted" /\ resp[c] > 0 /\ resp' = [resp EXCEPT ![c] = 0]
      /\ conn' = conn /\ made' = made /\ asked' = asked /\ peer' = peer /\ inbox' = inbox
      /\ req' = req /\ cur' = cur /\ buf' = buf /\ files' = files
      /\ disturbed' = disturbed /\ alive' = alive /\ leaked' = leaked
  BY DEF Write, reader, bounds, table
<1>2. resp'[c] = 0 /\ \A d \in Client : d # c => resp'[d] = resp[d]
  BY <1>0, <1>1 DEF TypeOK
<1>3. TypeOK'
  BY <1>0, <1>1 DEF TypeOK
<1>4. BoundInv' /\ TurnInv'
  BY <1>0, <1>1, <1>2 DEF BoundInv, TurnInv
<1>5. CleanInv'
  <2>1. ASSUME NEW d \in Client, d # c PROVE Clean(d)'
    <3>1. Clean(d) /\ Same(d)
      BY <1>0, <1>1, <1>2, <2>1 DEF CleanInv, Same
    <3> QED BY <3>1, CleanSame
  <2>2. Clean(c)'
    <3>1. ~peer[c].disturbed => ~peer[c].gone
      BY <1>0, <1>1 DEF CleanInv, Clean, Quiet
    <3>2. Rest(c)' = Rest(c)
      BY <1>1 DEF Rest
    <3> QED BY <1>0, <1>1, <3>1, <3>2 DEF CleanInv, Clean
  <2> QED BY <2>1, <2>2 DEF CleanInv
<1>6. Accounts'
  BY <1>0, <1>1, AccountsSame
<1> QED BY <1>3, <1>4, <1>5, <1>6 DEF DInv

(* A sequence cut in two and put together again is the sequence. *)
LEMMA CutAndJoined ==
  ASSUME NEW s \in Seq(Byte), NEW n \in 1 .. Len(s)
  PROVE  /\ SubSeq(s, 1, n) \in Seq(Byte) /\ SubSeq(s, 1, n) # <<>>
         /\ SubSeq(s, n + 1, Len(s)) \in Seq(Byte)
         /\ SubSeq(s, 1, n) \o SubSeq(s, n + 1, Len(s)) = s
<1>0. Len(s) \in Nat /\ n \in Nat /\ \A i \in 1 .. Len(s) : s[i] \in Byte
  OBVIOUS
<1>1. PICK a : a = SubSeq(s, 1, n)
  OBVIOUS
<1>2. PICK b : b = SubSeq(s, n + 1, Len(s))
  OBVIOUS
<1>3. a \in Seq(Byte) /\ Len(a) = n /\ \A i \in 1 .. n : a[i] = s[i]
  <2>1. \A i \in 1 .. n : s[i] \in Byte
    BY <1>0
  <2>2. /\ a \in Seq(Byte) /\ Len(a) = (IF 1 <= n THEN n - 1 + 1 ELSE 0)
        /\ \A i \in 1 .. n - 1 + 1 : a[i] = s[1 + i - 1]
    BY <1>1, <2>1, SubSeqProperties
  <2> QED BY <2>2, <1>0
<1>4. Dropped(b, s, n)
  BY <1>2, SubSeqDropped
<1>5. b \in Seq(Byte) /\ Len(b) = Len(s) - n /\ \A i \in 1 .. Len(b) : b[i] = s[i + n]
  BY <1>4 DEF Dropped
<1>6. PICK t : t = a \o b
  OBVIOUS
<1>7. /\ t \in Seq(Byte) /\ Len(t) = Len(a) + Len(b)
      /\ \A i \in 1 .. Len(a) + Len(b) : t[i] = IF i <= Len(a) THEN a[i] ELSE b[i - Len(a)]
  <2>1. a \in Seq(Byte) /\ b \in Seq(Byte)
    BY <1>3, <1>5
  <2>2. /\ a \o b \in Seq(Byte) /\ Len(a \o b) = Len(a) + Len(b)
        /\ \A i \in 1 .. Len(a) + Len(b) :
             (a \o b)[i] = IF i <= Len(a) THEN a[i] ELSE b[i - Len(a)]
    BY ONLY <2>1, ConcatProperties
  <2> QED BY <2>2, <1>6
<1>8. Len(t) = Len(s)
  BY <1>0, <1>3, <1>5, <1>7
<1>9. \A i \in 1 .. Len(t) : t[i] = s[i]
  <2> TAKE i \in 1 .. Len(t)
  <2>1. CASE i <= n
    BY <2>1, <1>0, <1>3, <1>7
  <2>2. CASE i > n
    <3>1. PICK k \in 1 .. Len(b) : k = i - n /\ k + n = i
      BY <2>2, <1>0, <1>5, <1>8
    <3>2. t[i] = b[k]
      BY <3>1, <2>2, <1>0, <1>3, <1>7
    <3> QED BY <3>1, <3>2, <1>5
  <2> QED BY <2>1, <2>2, <1>0
<1>10. t = s
  BY <1>7, <1>8, <1>9, SeqEqual
<1>11. a # <<>>
  BY <1>3, EmptySeq
<1> QED BY <1>1, <1>2, <1>3, <1>5, <1>6, <1>10, <1>11

(* recv() moves bytes from the inbox to the buffer, and their order stays. *)
LEMMA RecvStep ==
  ASSUME DInv, NEW c \in Client, Recv(c)
  PROVE  DInv'
<1>0. TypeOK /\ BoundInv /\ TurnInv /\ CleanInv /\ Accounts
  BY DEF DInv
<1>1. PICK n \in 1 .. Len(inbox[c]) :
        /\ buf' = SubSeq(inbox[c], 1, n)
        /\ inbox' = [inbox EXCEPT ![c] = SubSeq(@, n + 1, Len(@))]
  BY DEF Recv
<1>2. /\ cur = None /\ cur' = c /\ conn[c] = "accepted"
      /\ conn' = conn /\ made' = made /\ asked' = asked /\ peer' = peer
      /\ req' = req /\ resp' = resp /\ files' = files
      /\ disturbed' = disturbed /\ alive' = alive /\ leaked' = leaked
  BY DEF Recv, Idle, decoders, bounds, table
<1>3. PICK s \in Seq(Byte) : s = inbox[c]
  BY <1>0 DEF TypeOK, Byte
<1>4. PICK m \in 1 .. Len(s) : m = n
  BY <1>1, <1>3
<1>5. PICK a, b : a = SubSeq(s, 1, m) /\ b = SubSeq(s, m + 1, Len(s))
  OBVIOUS
<1>6. a \in Seq(Byte) /\ a # <<>> /\ b \in Seq(Byte) /\ a \o b = s
  BY <1>5, CutAndJoined
<1>7. buf' = a /\ inbox' = [inbox EXCEPT ![c] = b]
  BY <1>1, <1>3, <1>4, <1>5
<1>8. inbox'[c] = b /\ \A d \in Client : d # c => inbox'[d] = inbox[d]
  BY <1>0, <1>7 DEF TypeOK
<1>9. TypeOK'
  <2>1. inbox' \in [Client -> Seq(GarbageLength \cup {Value})]
    BY <1>0, <1>6, <1>7 DEF TypeOK, Byte
  <2>2. buf' \in Seq(GarbageLength \cup {Value})
    BY <1>6, <1>7 DEF Byte
  <2> QED BY <1>0, <1>2, <2>1, <2>2 DEF TypeOK
<1>10. BoundInv'
  BY <1>0, <1>2 DEF BoundInv
<1>11. TurnInv'
  BY <1>0, <1>2, <1>6, <1>7, <1>8, Constants DEF TurnInv
<1>12. CleanInv'
  <2>1. ASSUME NEW d \in Client, d # c PROVE Clean(d)'
    <3>1. Clean(d) /\ Same(d)
      BY <1>0, <1>2, <1>8, <2>1, Constants DEF CleanInv, Same
    <3> QED BY <3>1, CleanSame
  <2>2. Clean(c)'
    <3>1. Rest(c) = s
      BY <1>0, <1>2, <1>3, Constants, RestType
    <3>2. Rest(c)' = s
      BY <1>2, <1>6, <1>7, <1>8 DEF Rest
    <3>3. inbox[c] # <<>>
      BY <1>3, <1>4, <1>6, EmptySeq
    <3>4. ~peer[c].disturbed => ~peer[c].gone
      BY <1>0, <1>2, <3>3 DEF CleanInv, Clean, Quiet
    <3> QED BY <1>0, <1>2, <3>1, <3>2, <3>4 DEF CleanInv, Clean
  <2> QED BY <2>1, <2>2 DEF CleanInv
<1>13. Accounts'
  BY <1>0, <1>2, AccountsSame
<1> QED BY <1>9, <1>10, <1>11, <1>12, <1>13 DEF DInv

-----------------------------------------------------------------------------
(***************************************************************************)
(* handle_read(): what a call of write() for the handler c may do to the   *)
(* rest of the state, whatever it made of the decoder.                     *)
(***************************************************************************)
LEMMA ReadKeeps ==
  ASSUME DInv, NEW c \in Client, cur = c,
         NEW g \in HVRecord({GarbageId}), Bounded(g), req' = [req EXCEPT ![c] = g],
         NEW x \in Nat, resp' = [resp EXCEPT ![c] = x],
         NEW p \in Peer, peer' = [peer EXCEPT ![c] = p],
         buf' \in Seq(Byte), cur' \in {None, c}, cur' = None <=> buf' = <<>>,
         files' = files + (IF g.value # NULL THEN 1 ELSE 0) - (IF req[c].value # NULL THEN 1 ELSE 0),
         g.value # NULL /\ req[c].value = NULL => Free > 0,
         conn' = conn, made' = made, asked' = asked, inbox' = inbox,
         leaked' = leaked, disturbed' = disturbed, alive' = alive, Clean(c)'
  PROVE  DInv'
<1>0. TypeOK /\ BoundInv /\ TurnInv /\ CleanInv /\ Accounts
  BY DEF DInv
<1>1. /\ req'[c] = g /\ resp'[c] = x /\ peer'[c] = p
      /\ \A d \in Client : d # c => req'[d] = req[d] /\ resp'[d] = resp[d] /\ peer'[d] = peer[d]
  BY <1>0 DEF TypeOK
<1>2. conn[c] = "accepted" /\ None # c
  BY <1>0, Constants DEF TurnInv
<1>3. /\ Cardinality(Accepted') = Cardinality(Accepted)
      /\ Cardinality(Holding') = Cardinality(Holding)
           + (IF g.value # NULL THEN 1 ELSE 0) - (IF req[c].value # NULL THEN 1 ELSE 0)
      /\ Cardinality(Connected') = Cardinality(Connected)
      /\ Cardinality(Accepted) \in Nat /\ Cardinality(Holding) \in Nat
      /\ Cardinality(Holding') \in Nat /\ Cardinality(Connected) \in Nat
  <2>1. conn'[c] = "accepted" /\ conn[c] = "accepted" /\ conn'[c] # "none" /\ conn[c] # "none"
    BY <1>2
  <2>2. \A d \in Client : d # c => conn'[d] = conn[d] /\ req'[d] = req[d]
    BY <1>1
  <2> QED BY <1>1, <2>1, <2>2, Counts
<1>4. files \in Nat /\ leaked \in Nat /\ disturbed \in Nat /\ MaxFd \in Nat
  BY <1>0, Constants DEF TypeOK
<1>5. OneFilePerDisturbed' /\ files' \in Nat
  BY <1>0, <1>3, <1>4 DEF Accounts, OneFilePerDisturbed
<1>6. (Free >= 0)'
  <2>1. PICK A \in Nat : A = Cardinality(Accepted) /\ A = Cardinality(Accepted')
    BY <1>3
  <2>2. PICK x1 \in {0, 1}, x2 \in {0, 1} :
          /\ x1 = (IF g.value # NULL THEN 1 ELSE 0) /\ x2 = (IF req[c].value # NULL THEN 1 ELSE 0)
          /\ files' = files + x1 - x2
    OBVIOUS
  <2>3. MaxFd - (1 + A + files + leaked) >= 0
    BY <1>0, <2>1 DEF Accounts, Free
  <2>4. x1 = 1 /\ x2 = 0 => MaxFd - (1 + A + files + leaked) > 0
    BY <2>1, <2>2 DEF Free
  <2>5. MaxFd - (1 + A + files' + leaked') >= 0
    <3>1. leaked' = leaked /\ files' = files + x1 - x2 /\ A \in Nat
      BY <2>1, <2>2
    <3> QED BY ONLY <1>4, <2>3, <2>4, <3>1, x1 \in {0, 1}, x2 \in {0, 1}
  <2> QED BY <2>1, <2>5 DEF Free
<1>7. Accounts'
  BY <1>0, <1>3, <1>5, <1>6 DEF Accounts
<1>8. TypeOK'
  <2>1. req' \in [Client -> HVRecord({GarbageId})] /\ resp' \in [Client -> Nat]
    BY <1>0 DEF TypeOK
  <2>2. peer' \in [Client -> Peer]
    BY <1>0 DEF TypeOK
  <2>3. buf' \in Seq(GarbageLength \cup {Value}) /\ cur' \in Client \cup {None}
    BY DEF Byte
  <2> QED BY <1>0, <1>5, <2>1, <2>2, <2>3 DEF TypeOK
<1>9. BoundInv'
  BY <1>0, <1>1 DEF BoundInv
<1>10. TurnInv'
  BY <1>0, <1>1, <1>2 DEF TurnInv
<1>11. ASSUME NEW d \in Client, d # c PROVE Clean(d)'
  <2>1. Clean(d) /\ Same(d)
    BY <1>0, <1>1, <1>11, Constants DEF CleanInv, Same
  <2> QED BY <2>1, CleanSame
<1>12. CleanInv'
  BY <1>11 DEF CleanInv
<1> QED BY <1>7, <1>8, <1>9, <1>10, <1>12 DEF DInv

(* Advancing in the buffer drops what waits. *)
LEMMA RestDrops ==
  ASSUME TypeOK, NEW c \in Client, cur = c, NEW w \in 0 .. Len(buf), Advance(w), inbox' = inbox
  PROVE  /\ Dropped(Rest(c)', Rest(c), w)
         /\ buf' \in Seq(Byte) /\ cur' \in {None, c} /\ (cur' = None <=> buf' = <<>>)
<1>1. PICK a \in Seq(Byte) : a = buf
  BY DEF TypeOK, Byte
<1>2. PICK b \in Seq(Byte) : b = inbox[c]
  BY DEF TypeOK, Byte
<1>3. PICK e : e = SubSeq(a, w + 1, Len(a))
  OBVIOUS
<1>4. Dropped(e, a, w) /\ w \in 0 .. Len(a)
  BY <1>1, <1>3, SubSeqDropped
<1>5. e \in Seq(Byte) /\ Len(e) = Len(a) - w /\ \A i \in 1 .. Len(e) : e[i] = a[i + w]
  BY <1>4 DEF Dropped
<1>6. buf' = e /\ cur' = (IF w = Len(a) THEN None ELSE cur) /\ c # None
  BY <1>1, <1>3, Constants DEF Advance
<1>7. e = <<>> <=> w = Len(a)
  BY <1>4, <1>5, EmptySeq
<1>8. PICK s, t : s = a \o b /\ t = e \o b
  OBVIOUS
<1>9. Rest(c) = s /\ Rest(c)' = t
  BY <1>1, <1>2, <1>6, <1>7, <1>8 DEF Rest
<1>10. /\ a \o b \in Seq(Byte) /\ Len(a \o b) = Len(a) + Len(b)
       /\ \A i \in 1 .. Len(a) + Len(b) : (a \o b)[i] = IF i <= Len(a) THEN a[i] ELSE b[i - Len(a)]
  BY ConcatProperties
<1>11. /\ e \o b \in Seq(Byte) /\ Len(e \o b) = Len(e) + Len(b)
       /\ \A i \in 1 .. Len(e) + Len(b) : (e \o b)[i] = IF i <= Len(e) THEN e[i] ELSE b[i - Len(e)]
  <2>1. e \in Seq(Byte) /\ b \in Seq(Byte)
    BY <1>5
  <2> QED BY ONLY <2>1, ConcatProperties
<1>12. /\ s \in Seq(Byte) /\ Len(s) = Len(a) + Len(b)
       /\ \A i \in 1 .. Len(a) + Len(b) : s[i] = IF i <= Len(a) THEN a[i] ELSE b[i - Len(a)]
  BY <1>8, <1>10
<1>13. /\ t \in Seq(Byte) /\ Len(t) = Len(e) + Len(b)
       /\ \A i \in 1 .. Len(e) + Len(b) : t[i] = IF i <= Len(e) THEN e[i] ELSE b[i - Len(e)]
  BY <1>8, <1>11
<1>14. PICK la \in Nat, lb \in Nat : la = Len(a) /\ lb = Len(b)
  OBVIOUS
<1>15. w \in 0 .. la /\ Len(e) = la - w /\ Len(t) = la - w + lb /\ Len(s) = la + lb
  BY <1>4, <1>5, <1>12, <1>13, <1>14
<1>16. \A i \in 1 .. Len(t) : t[i] = s[i + w]
  <2> TAKE i \in 1 .. Len(t)
  <2>0. i \in 1 .. la - w + lb /\ i + w \in 1 .. la + lb
    BY <1>15
  <2>1. CASE i <= la - w
    <3>1. i + w <= la /\ i \in 1 .. Len(e)
      BY <2>0, <2>1, <1>15
    <3>2. t[i] = e[i] /\ s[i + w] = a[i + w] /\ e[i] = a[i + w]
      BY <3>1, <2>0, <2>1, <1>5, <1>12, <1>13, <1>14, <1>15
    <3> QED BY <3>2
  <2>2. CASE ~(i <= la - w)
    <3>1. ~(i + w <= la) /\ i - (la - w) = (i + w) - la
      BY <2>0, <2>2, <1>15
    <3>2. t[i] = b[i - (la - w)]
      BY <2>0, <2>2, <1>13, <1>14, <1>15
    <3>3. s[i + w] = b[(i + w) - la]
      BY <3>1, <2>0, <1>12, <1>14
    <3> QED BY <3>1, <3>2, <3>3
  <2> QED BY <2>1, <2>2
<1>17. Len(t) = Len(s) - w
  BY <1>15
<1>18. Dropped(t, s, w)
  BY <1>13, <1>16, <1>17 DEF Dropped
<1> QED BY <1>5, <1>6, <1>7, <1>9, <1>18

(* What a call of write() for the handler that is reading starts from. *)
LEMMA ReadFacts ==
  ASSUME DInv, Reading, NEW r \in Writes
  PROVE  /\ cur \in Client /\ conn[cur] = "accepted"
         /\ r \in write(req[cur], Len(buf), Decoded, Len(buf))
         /\ IF r.wlen = -1 THEN Free <= 0 ELSE Opened(req[cur], r.hv) = 1 => Free > 0
         /\ req[cur] \in HVRecord({GarbageId}) /\ Bounded(req[cur])
         /\ peer[cur] \in Peer /\ resp[cur] \in Nat
         /\ buf \in Seq(Byte) /\ Len(buf) \in Nat /\ Len(buf) > 0 /\ Head(buf) = buf[1]
         /\ Decoded \in SUBSET ({GarbageId} \X Nat)
         /\ r.hv \in HVRecord({GarbageId}) /\ Bounded(r.hv)
         /\ r.wlen = -1 \/ r.wlen \in 0 .. Len(buf)
         /\ r.hv.value = NULL => req[cur].value = NULL
         /\ r.wlen = -1 => r.hv.value = NULL
<1>0. TypeOK /\ BoundInv /\ TurnInv
  BY DEF DInv
<1>1. cur \in Client /\ cur # None
  BY <1>0 DEF Reading, TypeOK
<1>2. conn[cur] = "accepted" /\ buf # <<>>
  BY <1>0, <1>1 DEF TurnInv
<1>3. /\ r \in write(req[cur], Len(buf), Decoded, Len(buf))
      /\ IF r.wlen = -1 THEN Free <= 0 ELSE Opened(req[cur], r.hv) = 1 => Free > 0
  BY DEF Writes
<1>4. /\ req[cur] \in HVRecord({GarbageId}) /\ Bounded(req[cur])
      /\ peer[cur] \in Peer /\ resp[cur] \in Nat /\ buf \in Seq(Byte)
  BY <1>0, <1>1 DEF TypeOK, BoundInv, Byte
<1>5. Len(buf) \in Nat /\ Len(buf) > 0 /\ Head(buf) = buf[1] /\ Head(buf) \in Byte
  BY <1>2, <1>4, EmptySeq, HeadTailProperties
<1>6. Decoded \in SUBSET ({GarbageId} \X Nat)
  BY <1>5, Constants DEF Decoded, Byte
<1>7. PICK h \in HVRecord({GarbageId}), n \in Nat, D \in SUBSET ({GarbageId} \X Nat) :
        h = req[cur] /\ n = Len(buf) /\ D = Decoded
  BY <1>4, <1>5, <1>6
<1>8. r \in write(h, n, D, n) /\ Bounded(h) /\ n > 0
  BY <1>3, <1>4, <1>5, <1>7
<1>9. r.hv \in HVRecord({GarbageId}) /\ Bounded(r.hv) /\ (r.wlen = -1 \/ r.wlen \in 0 .. n)
  <2>1. GarbageId \in {GarbageId}
    OBVIOUS
  <2> QED BY <2>1, <1>8, WriteType
<1>10. /\ r.hv.value = NULL => h.value = NULL
       /\ r.wlen = -1 => r.hv.value = NULL
  BY <1>8, WriteKeeps
<1> QED BY <1>1, <1>2, <1>3, <1>4, <1>5, <1>6, <1>7, <1>9, <1>10

(* The decoder of an undisturbed peer that is being read stays in step. *)
LEMMA ReadClean ==
  ASSUME DInv, Reading, NEW r \in Writes, r.wlen # -1, Advance(r.wlen),
         NEW c \in Client, cur = c, inbox' = inbox, conn' = conn, peer' = peer,
         NEW g, req'[c] = g, g = IF is_complete(r.hv) THEN clear(r.hv) ELSE r.hv
  PROVE  Clean(c)'
<1>0. TypeOK /\ CleanInv
  BY DEF DInv
<1>1. SUFFICES ASSUME ~peer[c].disturbed
               PROVE  /\ Framed(Rest(c)', Rem(g), peer[c].owed) /\ Decoding(g)
                      /\ ~peer[c].gone
  BY DEF Clean
<1>2. /\ conn[c] = "accepted"
      /\ r \in write(req[c], Len(buf), Decoded, Len(buf))
      /\ req[c] \in HVRecord({GarbageId}) /\ Bounded(req[c]) /\ peer[c] \in Peer
      /\ buf \in Seq(Byte) /\ Len(buf) \in Nat /\ Len(buf) > 0 /\ Head(buf) = buf[1]
      /\ r.wlen \in 0 .. Len(buf)
  BY ReadFacts
<1>3. /\ Framed(Rest(c), Rem(req[c]), peer[c].owed) /\ Decoding(req[c])
      /\ ~peer[c].gone
  BY <1>0, <1>1, <1>2 DEF CleanInv, Clean, Quiet
<1>4. PICK s \in Seq(Byte) : s = Rest(c)
  BY <1>0, RestType
<1>5. s = buf \o inbox[c] /\ inbox[c] \in Seq(Byte)
  BY <1>0, <1>4, RestType DEF TypeOK, Byte
<1>6. Len(s) = Len(buf) + Len(inbox[c]) /\ Len(inbox[c]) \in Nat /\ s[1] = buf[1]
  <2>1. PICK a \in Seq(Byte), b \in Seq(Byte) : a = buf /\ b = inbox[c]
    BY <1>2, <1>5
  <2>2. /\ Len(a \o b) = Len(a) + Len(b)
        /\ \A i \in 1 .. Len(a) + Len(b) : (a \o b)[i] = IF i <= Len(a) THEN a[i] ELSE b[i - Len(a)]
    BY ConcatProperties
  <2>3. Len(b) \in Nat /\ Len(a) \in Nat /\ Len(a) > 0
    BY <1>2, <2>1
  <2>4. 1 \in 1 .. Len(a) + Len(b) /\ 1 <= Len(a)
    BY <2>3
  <2>5. (a \o b)[1] = a[1]
    BY <2>2, <2>4
  <2> QED BY <1>5, <2>1, <2>2, <2>3, <2>5
<1>7. PICK n \in 1 .. Len(s) : n = Len(buf)
  BY <1>2, <1>6
<1>8. PICK D : D = Decoded
  OBVIOUS
<1>9. D = {GarbageId} \X (IF s[1] = Value THEN GarbageLength ELSE {s[1]})
  BY <1>2, <1>6, <1>8 DEF Decoded
<1>10. PICK h \in HVRecord({GarbageId}), owed \in Nat : h = req[c] /\ owed = peer[c].owed
  BY <1>2 DEF Peer
<1>11. PICK t : t = Rest(c)'
  OBVIOUS
<1>12. Dropped(t, s, r.wlen)
  <2>1. PICK w \in 0 .. Len(buf) : w = r.wlen
    BY <1>2
  <2>2. Advance(w)
    BY <2>1
  <2>3. Dropped(Rest(c)', Rest(c), w)
    BY <1>0, <2>2, RestDrops
  <2> QED BY <2>1, <2>3, <1>4, <1>11
<1>13. /\ r \in write(h, n, D, n) /\ Bounded(h) /\ Decoding(h) /\ Framed(s, Rem(h), owed)
  BY <1>2, <1>3, <1>4, <1>7, <1>8, <1>10
<1>14. IF is_complete(r.hv)
       THEN Decoding(clear(r.hv)) /\ Framed(t, Rem(clear(r.hv)), owed)
       ELSE Decoding(r.hv) /\ Framed(t, Rem(r.hv), owed)
  BY <1>9, <1>12, <1>13, CleanWrite
<1> QED BY <1>3, <1>10, <1>11, <1>14

(* A part of a request: a FILE is opened when there was no cache. *)
LEMMA WriteMoreStep ==
  ASSUME DInv, WriteMore
  PROVE  DInv'
<1>0. TypeOK
  BY DEF DInv
<1>1. PICK r \in Writes :
        /\ r.wlen # -1 /\ ~is_complete(r.hv)
        /\ req' = [req EXCEPT ![cur] = r.hv]
        /\ files' = files + Opened(req[cur], r.hv)
        /\ Advance(r.wlen)
  BY DEF WriteMore
<1>2. /\ Reading /\ conn' = conn /\ made' = made /\ asked' = asked /\ peer' = peer
      /\ inbox' = inbox /\ resp' = resp /\ disturbed' = disturbed /\ alive' = alive
      /\ leaked' = leaked
  BY DEF WriteMore, bounds
<1>3. PICK c \in Client : c = cur
  BY <1>2, ReadFacts
<1>4. /\ peer[c] \in Peer /\ resp[c] \in Nat /\ r.hv \in HVRecord({GarbageId}) /\ Bounded(r.hv)
      /\ r.wlen \in 0 .. Len(buf)
      /\ r.hv.value = NULL => req[c].value = NULL
      /\ Opened(req[c], r.hv) = 1 => Free > 0
  BY <1>1, <1>2, <1>3, ReadFacts
<1>5. PICK g \in HVRecord({GarbageId}) : g = r.hv
  BY <1>4
<1>6. req' = [req EXCEPT ![c] = g] /\ req'[c] = g
  BY <1>0, <1>1, <1>3, <1>5 DEF TypeOK
<1>7. peer' = [peer EXCEPT ![c] = peer[c]] /\ resp' = [resp EXCEPT ![c] = resp[c]]
  BY <1>0, <1>2 DEF TypeOK
<1>8. files' = files + (IF g.value # NULL THEN 1 ELSE 0) - (IF req[c].value # NULL THEN 1 ELSE 0)
  BY <1>0, <1>1, <1>3, <1>4, <1>5 DEF Opened, TypeOK
<1>9. g.value # NULL /\ req[c].value = NULL => Free > 0
  BY <1>4, <1>5 DEF Opened
<1>10. buf' \in Seq(Byte) /\ cur' \in {None, c} /\ (cur' = None <=> buf' = <<>>)
  BY <1>0, <1>1, <1>2, <1>3, <1>4, RestDrops
<1>11. g = IF is_complete(r.hv) THEN clear(r.hv) ELSE r.hv
  BY <1>1, <1>5
<1>12. Clean(c)'
  BY <1>1, <1>2, <1>3, <1>6, <1>11, ReadClean
<1>13. PICK x \in Nat, p \in Peer : x = resp[c] /\ p = peer[c]
  BY <1>4
<1>14. peer' = [peer EXCEPT ![c] = p] /\ resp' = [resp EXCEPT ![c] = x] /\ Bounded(g) /\ cur = c
  BY <1>3, <1>4, <1>5, <1>7, <1>13
<1> QED BY <1>2, <1>6, <1>8, <1>9, <1>10, <1>12, <1>14, ReadKeeps

(* What clear() does to the cache: it is released for TO_FILE and TO_SHM. *)
LEMMA ClearLeaves ==
  ASSUME NEW h \in HVRecord({GarbageId})
  PROVE  Left(h) = (IF h.value # NULL THEN 1 ELSE 0) - (IF clear(h).value # NULL THEN 1 ELSE 0)
<1>1. clear(h).value = IF h.to \in {"TO_FILE", "TO_SHM"} THEN NULL ELSE h.value
  BY DEF clear, HVRecord
<1> QED BY <1>1 DEF Left

(* The last byte of a request: clear() closes the FILE of a large one. *)
LEMMA WriteLastStep ==
  ASSUME DInv, WriteLast
  PROVE  DInv'
<1>0. TypeOK
  BY DEF DInv
<1>1. PICK r \in Writes :
        /\ r.wlen # -1 /\ is_complete(r.hv)
        /\ req' = [req EXCEPT ![cur] = clear(r.hv)]
        /\ files' = files + Opened(req[cur], r.hv) - Left(r.hv)
        /\ Advance(r.wlen)
  BY DEF WriteLast
<1>2. /\ Reading /\ conn' = conn /\ made' = made /\ asked' = asked /\ peer' = peer
      /\ inbox' = inbox /\ disturbed' = disturbed /\ alive' = alive /\ leaked' = leaked
      /\ resp' = [resp EXCEPT ![cur] = @ + 1]
  BY DEF WriteLast, bounds
<1>3. PICK c \in Client : c = cur
  BY <1>2, ReadFacts
<1>4. /\ peer[c] \in Peer /\ resp[c] \in Nat /\ r.hv \in HVRecord({GarbageId}) /\ Bounded(r.hv)
      /\ r.wlen \in 0 .. Len(buf)
      /\ r.hv.value = NULL => req[c].value = NULL
      /\ Opened(req[c], r.hv) = 1 => Free > 0
  BY <1>1, <1>2, <1>3, ReadFacts
<1>5. PICK g \in HVRecord({GarbageId}) : g = clear(r.hv) /\ Bounded(g)
  <2>1. GarbageId \in {GarbageId}
    OBVIOUS
  <2> QED BY <1>4, <2>1, ClearType
<1>6. req' = [req EXCEPT ![c] = g] /\ req'[c] = g
  BY <1>0, <1>1, <1>3, <1>5 DEF TypeOK
<1>7. PICK x \in Nat, p \in Peer : x = resp[c] + 1 /\ p = peer[c]
  BY <1>4
<1>8. peer' = [peer EXCEPT ![c] = p] /\ resp' = [resp EXCEPT ![c] = x] /\ cur = c
  BY <1>0, <1>2, <1>3, <1>7 DEF TypeOK
<1>9. Left(r.hv) = (IF r.hv.value # NULL THEN 1 ELSE 0) - (IF g.value # NULL THEN 1 ELSE 0)
  BY <1>4, <1>5, ClearLeaves
<1>10. files' = files + (IF g.value # NULL THEN 1 ELSE 0) - (IF req[c].value # NULL THEN 1 ELSE 0)
  <2>1. Opened(req[c], r.hv) = (IF r.hv.value # NULL THEN 1 ELSE 0)
                                 - (IF req[c].value # NULL THEN 1 ELSE 0)
    BY <1>4 DEF Opened
  <2>2. files \in Nat
    BY <1>0 DEF TypeOK
  <2> QED BY <1>1, <1>3, <1>9, <2>1, <2>2
<1>11. g.value # NULL /\ req[c].value = NULL => Free > 0
  <2>1. g.value # NULL => r.hv.value # NULL
    BY <1>4, <1>5 DEF clear, HVRecord
  <2> QED BY <1>4, <2>1 DEF Opened
<1>12. buf' \in Seq(Byte) /\ cur' \in {None, c} /\ (cur' = None <=> buf' = <<>>)
  BY <1>0, <1>1, <1>2, <1>3, <1>4, RestDrops
<1>13. g = IF is_complete(r.hv) THEN clear(r.hv) ELSE r.hv
  BY <1>1, <1>5
<1>14. Clean(c)'
  BY <1>1, <1>2, <1>3, <1>6, <1>13, ReadClean
<1> QED BY <1>2, <1>5, <1>6, <1>8, <1>10, <1>11, <1>12, <1>14, ReadKeeps

(* The table is full: no FILE is opened, and the peer is disturbed. *)
LEMMA WriteFailedStep ==
  ASSUME DInv, WriteFailed
  PROVE  DInv'
<1>0. TypeOK
  BY DEF DInv
<1>1. PICK r \in Writes :
        /\ r.wlen = -1
        /\ req' = [req EXCEPT ![cur] = clear(r.hv)]
        /\ files' = files - Left(r.hv)
  BY DEF WriteFailed
<1>2. /\ Reading /\ conn' = conn /\ made' = made /\ asked' = asked
      /\ inbox' = inbox /\ disturbed' = disturbed /\ alive' = alive /\ leaked' = leaked
      /\ resp' = [resp EXCEPT ![cur] = @ + 1]
      /\ peer' = [peer EXCEPT ![cur].disturbed = TRUE]
      /\ cur' = None /\ buf' = <<>>
  BY DEF WriteFailed, bounds
<1>3. PICK c \in Client : c = cur
  BY <1>2, ReadFacts
<1>4. /\ peer[c] \in Peer /\ resp[c] \in Nat /\ r.hv \in HVRecord({GarbageId}) /\ Bounded(r.hv)
      /\ r.hv.value = NULL /\ req[c].value = NULL
  BY <1>1, <1>2, <1>3, ReadFacts
<1>5. PICK g \in HVRecord({GarbageId}) : g = clear(r.hv) /\ Bounded(g)
  <2>1. GarbageId \in {GarbageId}
    OBVIOUS
  <2> QED BY <1>4, <2>1, ClearType
<1>6. g.value = NULL
  BY <1>4, <1>5 DEF clear, HVRecord
<1>7. req' = [req EXCEPT ![c] = g]
  BY <1>1, <1>3, <1>5
<1>8. PICK x \in Nat, p \in Peer : x = resp[c] + 1 /\ p = [peer[c] EXCEPT !.disturbed = TRUE]
  <2>1. resp[c] + 1 \in Nat
    BY <1>4
  <2>2. [peer[c] EXCEPT !.disturbed = TRUE] \in Peer
    BY <1>4 DEF Peer
  <2> QED BY <2>1, <2>2
<1>9. /\ peer' = [peer EXCEPT ![c] = p] /\ resp' = [resp EXCEPT ![c] = x] /\ cur = c
      /\ p.disturbed
  BY <1>0, <1>2, <1>3, <1>4, <1>8 DEF TypeOK, Peer
<1>10. files' = files + (IF g.value # NULL THEN 1 ELSE 0) - (IF req[c].value # NULL THEN 1 ELSE 0)
  BY <1>0, <1>1, <1>4, <1>6 DEF Left, TypeOK
<1>11. buf' \in Seq(Byte) /\ cur' \in {None, c} /\ (cur' = None <=> buf' = <<>>)
  BY <1>2, EmptySeq
<1>12. Clean(c)'
  <2>1. peer'[c] = p
    BY <1>0, <1>9 DEF TypeOK
  <2> QED BY <1>9, <2>1 DEF Clean
<1> QED BY <1>2, <1>5, <1>6, <1>7, <1>9, <1>10, <1>11, <1>12, ReadKeeps

-----------------------------------------------------------------------------
(* A process without connections. *)
LEMMA DInit == Init => DInv
<1> SUFFICES ASSUME Init PROVE DInv
  OBVIOUS
<1> USE DEF Init
<1>1. NewHV("TO_AUTO") \in HVRecord({GarbageId}) /\ NewHV("TO_AUTO").value = NULL /\ NewPeer \in Peer
  BY Constants DEF NewHV, HVRecord, Storage, NewPeer, Peer
<1>2. TypeOK
  BY <1>1, EmptySeq DEF TypeOK
<1>3. BoundInv
  BY <1>1 DEF BoundInv, Bounded
<1>4. TurnInv /\ CleanInv
  BY DEF TurnInv, CleanInv, Clean
<1>5. Accounts
  <2>1. Accepted = {} /\ Holding = {} /\ Connected = {}
    BY DEF Accepted, Holding, Connected
  <2>2. Cardinality(Accepted) = 0 /\ Cardinality(Holding) = 0 /\ Cardinality(Connected) = 0
    BY <2>1, FS_EmptySet
  <2> QED BY <2>2, Constants DEF Accounts, OneFilePerDisturbed, Free
<1> QED BY <1>2, <1>3, <1>4, <1>5 DEF DInv

(* Every step of the peers and of the handlers. *)
LEMMA DNext == DInv /\ [Next]_vars => DInv'
<1> SUFFICES ASSUME DInv, [Next]_vars PROVE DInv'
  OBVIOUS
<1>1. CASE UNCHANGED vars
  BY <1>1 DEF vars, DInv, TypeOK, BoundInv, TurnInv, CleanInv, Clean, Rest, Quiet,
              Accounts, OneFilePerDisturbed, Free, Holding, Accepted, Connected
<1>2. ASSUME NEW c \in Client, Handle(c) PROVE DInv'
  BY <1>2, AcceptStep, AcceptLostStep, ReadEndsStep, WriteStep, WriteFailsStep, RecvStep DEF Handle
<1>3. ASSUME NEW c \in Client, PeerActs(c) PROVE DInv'
  BY <1>3, ConnectStep, SendHeaderStep, SendValueStep, PeerEndsStep DEF PeerActs
<1>4. CASE Read
  BY <1>4, WriteMoreStep, WriteLastStep, WriteFailedStep DEF Read
<1>5. CASE NothingDone \/ Dead
  BY <1>1, <1>5 DEF NothingDone, Dead
<1> QED BY <1>1, <1>2, <1>3, <1>4, <1>5 DEF Next

(* The table runs full for a reason: every peer costs two entries at most. *)
LEMMA DReason == DInv => FullForAReason
<1> SUFFICES ASSUME DInv PROVE FullForAReason
  OBVIOUS
<1>1. PICK A \in SUBSET Client : A = Accepted
  BY DEF Accepted
<1>2. PICK H \in SUBSET A : H = Holding
  BY <1>1 DEF Holding
<1>3. IsFiniteSet(A) /\ Cardinality(A) \in Nat
  BY Finite
<1>4. Cardinality(H) <= Cardinality(A) /\ Cardinality(H) \in Nat
  BY <1>3, FS_Subset, FS_CardinalityType
<1>5. files \in Nat /\ leaked \in Nat /\ disturbed \in Nat /\ MaxFd \in Nat
  BY Constants DEF DInv, TypeOK
<1> QED BY <1>1, <1>2, <1>3, <1>4, <1>5 DEF DInv, Accounts, OneFilePerDisturbed, Free, FullForAReason

(* What handle_read(), close() and the peers do keeps the invariant. *)
THEOREM Invariance == Spec => []DInv
  BY DInit, DNext, PTL DEF Spec

(* Decoders, buffers and counters of the handlers keep their types. *)
THEOREM TypeCorrect == Spec => []TypeOK
<1>1. DInv => TypeOK
  BY DEF DInv
<1> QED BY Invariance, <1>1, PTL

(***************************************************************************)
(* However many peers there are and however their values are cut: FILEs    *)
(* that no handler holds were left by close() of disturbed peers, one each.*)
(***************************************************************************)
THEOREM FilesAccounted == Spec => []OneFilePerDisturbed
<1>1. DInv => OneFilePerDisturbed
  BY DEF DInv, Accounts
<1> QED BY Invariance, <1>1, PTL

(***************************************************************************)
(* accept() and fopen() are refused only when the peers that are there, the*)
(* disturbed ones that have gone and the sockets that leaked, one for each *)
(* ended connection at most, fill the table, which never overflows.        *)
(***************************************************************************)
THEOREM TableFull == Spec => []FullForAReason
  BY Invariance, DReason, PTL
=============================================================================
