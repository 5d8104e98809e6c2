--------------------------- MODULE CachePartProofs ---------------------------
(***************************************************************************)
(* Theorems about CachePart, for any number of caches, every capacity and  *)
(* threshold, and a clock that may stall for as long as it likes.          *)
(***************************************************************************)
EXTENDS CachePart, TLAPS

(* A cache is within what create_cache() was asked for. *)
SizeInv == \A c \in CacheId : idx[c].capacity <= MaxCapacity

(***************************************************************************)
(* FifoOrder is not inductive: it needs that the buffer holds what was     *)
(* pushed, in its place, and that only a buffer is ever popped from.       *)
(***************************************************************************)
BufferInv ==
  \A c \in CacheId :
    /\ cache[c] \in {"new", "file", "failed"} => idx[c].ridx = 0
    /\ cache[c] = "buf" => \A p \in Place : p < idx[c].widx => mem[c][p] = <<c, p>>

(***************************************************************************)
(* Neither is FileKept: a file belongs to a cache that was created with    *)
(* one, and delete_cache() leaves an object whose file has been removed,   *)
(* which leave_cache() turns into one that looks as if it had kept it.     *)
(***************************************************************************)
PathInv ==
  \A c \in CacheId :
    /\ cache[c] \in {"new", "buf", "failed"} => path[c] = NoFile
    /\ cache[c] = "file" => path[c] # NoFile
    /\ cache[c] = "empty" /\ path[c] # NoFile => path[c] \in removed

IInv == TypeOK /\ SizeInv /\ BufferInv /\ FifoOrder /\ PathInv /\ FileKept

-----------------------------------------------------------------------------
(* The sizes are numbers, and the first tick is a time. *)
LEMMA Sizes ==
  /\ MaxCapacity \in Nat /\ MaxTime \in Nat /\ 0 \in Time /\ Time \subseteq Nat
  /\ Place = 0 .. MaxCapacity /\ NoFile \notin Time /\ NoFile \notin Contents
  BY CachePartAssumption, NoFileAssumption DEF CachePartAssumption, NoFileAssumption, Time, Place

(* What a caller pushes, and an empty file, are contents of a file or a buffer. *)
LEMMA BlankType == Blank \in Contents /\ \A c \in CacheId : Data(c) \in Contents
<1>1. Hole \in Byte /\ \A c \in CacheId, p \in Place : <<c, p>> \in Byte
  BY DEF Byte
<1> QED BY <1>1 DEF Blank, Contents, Data

(* Copying bytes between two contents gives contents, byte by byte one or the other's. *)
LEMMA CopyType ==
  ASSUME NEW to \in Contents, NEW from \in Contents, NEW lo \in Int, NEW hi \in Int
  PROVE  /\ Copy(to, from, lo, hi) \in Contents
         /\ \A p \in Place : Copy(to, from, lo, hi)[p] =
              IF lo <= p /\ p < hi THEN from[p] ELSE to[p]
  BY DEF Copy, Contents

(* create_cache() gives an empty cache of the capacity it was asked for. *)
LEMMA CreateType ==
  ASSUME NEW n \in Place
  PROVE  /\ create_cache(n) \in Cache /\ create_cache(n).capacity = n
         /\ create_cache(n).widx = 0 /\ create_cache(n).ridx = 0
  BY Sizes DEF create_cache, Cache

(* cache_push() never stores more than there is room for. *)
LEMMA PushType ==
  ASSUME NEW x \in Cache, x.widx <= x.capacity, NEW n \in Nat,
         NEW w \in 0 .. PushLen(x, n)
  PROVE  /\ PushLen(x, n) \in Nat /\ cache_push(x, w) \in Cache
         /\ cache_push(x, w).capacity = x.capacity /\ cache_push(x, w).ridx = x.ridx
         /\ cache_push(x, w).widx = x.widx + w /\ x.widx + w <= x.capacity
  BY DEF PushLen, Least, cache_push, Cache

(* cache_pop() never returns more than was pushed. *)
LEMMA PopType ==
  ASSUME NEW x \in Cache, x.ridx <= x.widx, NEW n \in Nat
  PROVE  /\ PopLen(x, n) \in Nat /\ x.ridx + PopLen(x, n) <= x.widx
         /\ [x EXCEPT !.ridx = @ + PopLen(x, n)] \in Cache
  BY DEF PopLen, Least, Cache

(* Nothing is created, written or removed at first. *)
LEMMA InitInv == Init => IInv
<1> SUFFICES ASSUME Init PROVE IInv
  OBVIOUS
<1>1. create_cache(0) \in Cache /\ create_cache(0).widx = 0 /\ create_cache(0).ridx = 0
      /\ create_cache(0).capacity = 0
  BY DEF create_cache, Cache
<1>2. TypeOK
  BY <1>1, BlankType, Sizes DEF Init, TypeOK, Status
<1>3. SizeInv /\ BufferInv /\ FifoOrder /\ PathInv /\ FileKept
  BY <1>1, Sizes DEF Init, SizeInv, BufferInv, FifoOrder, PathInv, FileKept, Blank
<1> QED BY <1>2, <1>3 DEF IInv

(* What one call of a push, a pop or a create does to the other invariants' parts. *)
LEMMA CallTypeOK == ASSUME TypeOK, SizeInv, NEW c \in CacheId, Call(c) PROVE TypeOK' /\ SizeInv'
<1>0. /\ idx \in [CacheId -> Cache] /\ idx[c] \in Cache /\ idx[c].ridx <= idx[c].widx
      /\ idx[c].widx <= idx[c].capacity /\ idx[c].capacity <= MaxCapacity
      /\ idx[c].widx \in Nat /\ idx[c].ridx \in Nat
      /\ now \in Time /\ \A m \in 1 .. MaxCapacity : m \in Nat
      /\ mem[c] \in Contents /\ popped[c] \in Contents
      /\ Data(c) \in Contents /\ Blank \in Contents /\ MaxCapacity \in Nat
  BY Sizes, BlankType DEF TypeOK, SizeInv, Cache
<1>1. ASSUME NEW x \in Cache, idx' = [idx EXCEPT ![c] = x], x.ridx <= x.widx,
             x.widx <= x.capacity, x.capacity <= MaxCapacity
      PROVE  /\ idx' \in [CacheId -> Cache] /\ SizeInv'
             /\ \A d \in CacheId : idx'[d].ridx <= idx'[d].widx /\ idx'[d].widx <= idx'[d].capacity
  BY <1>1 DEF TypeOK, SizeInv
<1>2. CASE CreateBuffer(c)
  <2>1. PICK capacity \in Place : idx' = [idx EXCEPT ![c] = create_cache(capacity)]
    BY <1>2 DEF CreateBuffer
  <2>2. /\ idx' \in [CacheId -> Cache] /\ SizeInv'
        /\ \A d \in CacheId : idx'[d].ridx <= idx'[d].widx /\ idx'[d].widx <= idx'[d].capacity
    <3>1. /\ create_cache(capacity) \in Cache /\ create_cache(capacity).capacity = capacity
          /\ create_cache(capacity).widx = 0 /\ create_cache(capacity).ridx = 0
      BY CreateType
    <3>2. /\ create_cache(capacity).ridx <= create_cache(capacity).widx
          /\ create_cache(capacity).widx <= create_cache(capacity).capacity
          /\ create_cache(capacity).capacity <= MaxCapacity
      BY <3>1, Sizes
    <3> QED BY <1>1, <2>1, <3>1, <3>2
  <2> QED BY <1>2, <2>2 DEF CreateBuffer, TypeOK, Status
<1>3. CASE CreateFile(c)
  <2>1. PICK capacity \in Place : idx' = [idx EXCEPT ![c] = create_cache(capacity)]
    BY <1>3 DEF CreateFile
  <2>2. /\ idx' \in [CacheId -> Cache] /\ SizeInv'
        /\ \A d \in CacheId : idx'[d].ridx <= idx'[d].widx /\ idx'[d].widx <= idx'[d].capacity
    <3>1. /\ create_cache(capacity) \in Cache /\ create_cache(capacity).capacity = capacity
          /\ create_cache(capacity).widx = 0 /\ create_cache(capacity).ridx = 0
      BY CreateType
    <3>2. /\ create_cache(capacity).ridx <= create_cache(capacity).widx
          /\ create_cache(capacity).widx <= create_cache(capacity).capacity
          /\ create_cache(capacity).capacity <= MaxCapacity
      BY <3>1, Sizes
    <3> QED BY <1>1, <2>1, <3>1, <3>2
  <2> QED BY <1>0, <1>3, <2>2 DEF CreateFile, TypeOK, Status
<1>4. CASE CreateFails(c) \/ Refused(c) \/ delete_cache(c) \/ leave_cache(c)
  <2>1. /\ UNCHANGED <<idx, mem, now, path, popped>>
        /\ cache' \in [CacheId -> Status]
    BY <1>4 DEF CreateFails, Refused, delete_cache, leave_cache, vars, TypeOK, Status
  <2>2. disk' \in [Time -> Contents \cup {NoFile}] /\ removed' \subseteq Time
    BY <1>4 DEF CreateFails, Refused, delete_cache, leave_cache, vars, TypeOK
  <2> QED BY <2>1, <2>2 DEF TypeOK, SizeInv
<1>5. CASE PushBuffer(c)
  <2>1. PICK n \in 1 .. MaxCapacity :
          /\ mem' = [mem EXCEPT ![c] =
               Copy(@, Data(c), idx[c].widx, idx[c].widx + PushLen(idx[c], n))]
          /\ idx' = [idx EXCEPT ![c] = cache_push(@, PushLen(idx[c], n))]
    BY <1>5 DEF PushBuffer
  <2> DEFINE w == PushLen(idx[c], n)
  <2>2. w \in Nat
    BY <1>0 DEF PushLen, Least, Cache
  <2>3. w \in 0 .. PushLen(idx[c], n)
    BY <2>2
  <2>4. /\ cache_push(idx[c], w) \in Cache
        /\ cache_push(idx[c], w).capacity = idx[c].capacity
        /\ cache_push(idx[c], w).ridx = idx[c].ridx
        /\ cache_push(idx[c], w).widx = idx[c].widx + w /\ idx[c].widx + w <= idx[c].capacity
    BY <1>0, <2>3, PushType
  <2> HIDE DEF w
  <2>5. /\ idx' \in [CacheId -> Cache] /\ SizeInv'
        /\ \A d \in CacheId : idx'[d].ridx <= idx'[d].widx /\ idx'[d].widx <= idx'[d].capacity
    <3>1. idx' = [idx EXCEPT ![c] = cache_push(idx[c], w)]
      BY <1>0, <2>1 DEF w
    <3>2. idx[c].ridx <= idx[c].widx + w /\ idx[c].capacity <= MaxCapacity
      BY <1>0, <2>2
    <3> QED BY <1>1, <2>4, <3>1, <3>2
  <2>6. mem' \in [CacheId -> Contents]
    <3>1. Copy(mem[c], Data(c), idx[c].widx, idx[c].widx + w) \in Contents
      BY <1>0, <2>2, CopyType
    <3> QED BY <2>1, <3>1 DEF TypeOK, w
  <2> QED BY <1>5, <2>5, <2>6 DEF PushBuffer, TypeOK
<1>6. CASE PushFile(c)
  <2>1. PICK n \in 1 .. MaxCapacity : \E w \in 0 .. PushLen(idx[c], n) :
          /\ disk' = [disk EXCEPT ![path[c]] =
               IF @ = NoFile THEN NoFile
               ELSE Copy(@, Data(c), idx[c].widx, idx[c].widx + w)]
          /\ idx' = [idx EXCEPT ![c] = cache_push(@, w)]
    BY <1>6 DEF PushFile
  <2>2. PICK w \in 0 .. PushLen(idx[c], n) :
          /\ disk' = [disk EXCEPT ![path[c]] =
               IF @ = NoFile THEN NoFile
               ELSE Copy(@, Data(c), idx[c].widx, idx[c].widx + w)]
          /\ idx' = [idx EXCEPT ![c] = cache_push(@, w)]
    BY <2>1
  <2>4. /\ cache_push(idx[c], w) \in Cache
        /\ cache_push(idx[c], w).capacity = idx[c].capacity
        /\ cache_push(idx[c], w).ridx = idx[c].ridx
        /\ cache_push(idx[c], w).widx = idx[c].widx + w /\ idx[c].widx + w <= idx[c].capacity
    BY <1>0, <2>2, PushType
  <2>5. /\ idx' \in [CacheId -> Cache] /\ SizeInv'
        /\ \A d \in CacheId : idx'[d].ridx <= idx'[d].widx /\ idx'[d].widx <= idx'[d].capacity
    <3>1. idx' = [idx EXCEPT ![c] = cache_push(idx[c], w)]
      BY <1>0, <2>2
    <3>2. idx[c].ridx <= idx[c].widx + w /\ idx[c].capacity <= MaxCapacity
      BY <1>0
    <3> QED BY <1>1, <2>4, <3>1, <3>2
  <2>6. disk' \in [Time -> Contents \cup {NoFile}]
    <3>1. ASSUME NEW f \in Contents
          PROVE  Copy(f, Data(c), idx[c].widx, idx[c].widx + w) \in Contents
      BY <1>0, CopyType
    <3> QED BY <2>2, <3>1 DEF TypeOK
  <2> QED BY <1>6, <2>5, <2>6 DEF PushFile, TypeOK
<1>7. CASE PopBuffer(c)
  <2>1. PICK n \in 1 .. MaxCapacity :
          /\ popped' = [popped EXCEPT ![c] =
               Copy(@, mem[c], idx[c].ridx, idx[c].ridx + PopLen(idx[c], n))]
          /\ idx' = [idx EXCEPT ![c].ridx = @ + PopLen(idx[c], n)]
    BY <1>7 DEF PopBuffer
  <2> DEFINE r == PopLen(idx[c], n)
             x == [idx[c] EXCEPT !.ridx = @ + r]
  <2>2. r \in Nat /\ idx[c].ridx + r <= idx[c].widx /\ x \in Cache
    BY <1>0, PopType
  <2>3. x.ridx = idx[c].ridx + r /\ x.widx = idx[c].widx /\ x.capacity = idx[c].capacity
    BY <1>0 DEF Cache
  <2>4. idx' = [idx EXCEPT ![c] = x]
    BY <1>0, <2>1
  <2> HIDE DEF r, x
  <2>5. /\ idx' \in [CacheId -> Cache] /\ SizeInv'
        /\ \A d \in CacheId : idx'[d].ridx <= idx'[d].widx /\ idx'[d].widx <= idx'[d].capacity
    BY <1>0, <1>1, <2>2, <2>3, <2>4
  <2>6. popped' \in [CacheId -> Contents]
    <3>2. idx[c].ridx \in Int /\ idx[c].ridx + r \in Int
      BY <1>0, <2>2
    <3>1. Copy(popped[c], mem[c], idx[c].ridx, idx[c].ridx + r) \in Contents
      BY <1>0, <3>2, CopyType
    <3> QED BY <2>1, <3>1 DEF TypeOK, r
  <2> QED BY <1>7, <2>5, <2>6 DEF PopBuffer, TypeOK
<1> QED BY <1>2, <1>3, <1>4, <1>5, <1>6, <1>7 DEF Call

(* One call on cache c leaves every other cache's indices and bytes alone. *)
LEMMA CallOthers ==
  ASSUME TypeOK, NEW c \in CacheId, Call(c), NEW d \in CacheId, d # c
  PROVE  /\ cache'[d] = cache[d] /\ idx'[d] = idx[d] /\ mem'[d] = mem[d]
         /\ path'[d] = path[d] /\ popped'[d] = popped[d]
  BY DEF Call, CreateBuffer, CreateFile, CreateFails, PushBuffer, PushFile, PopBuffer, Refused,
         delete_cache, leave_cache, vars, TypeOK

(* One call keeps the order of the bytes in the buffer and in what was returned. *)
LEMMA CallFifo ==
  ASSUME TypeOK, SizeInv, BufferInv, FifoOrder, NEW c \in CacheId, Call(c)
  PROVE  BufferInv' /\ FifoOrder'
<1>0. /\ idx[c] \in Cache /\ idx[c].ridx <= idx[c].widx /\ idx[c].widx <= idx[c].capacity
      /\ idx[c].widx \in Nat /\ idx[c].ridx \in Nat /\ idx \in [CacheId -> Cache]
      /\ mem[c] \in Contents /\ popped[c] \in Contents /\ Data(c) \in Contents
      /\ \A m \in 1 .. MaxCapacity : m \in Nat
      /\ cache \in [CacheId -> Status] /\ mem \in [CacheId -> Contents]
      /\ popped \in [CacheId -> Contents]
  BY Sizes, BlankType DEF TypeOK, Cache
<1>1. SUFFICES /\ cache'[c] \in {"new", "file", "failed"} => idx'[c].ridx = 0
               /\ cache'[c] = "buf" => \A p \in Place : p < idx'[c].widx => mem'[c][p] = <<c, p>>
               /\ \A p \in Place : popped'[c][p] = IF p < idx'[c].ridx THEN <<c, p>> ELSE Hole
  BY CallOthers DEF BufferInv, FifoOrder
<1>2. CASE CreateBuffer(c) \/ CreateFile(c)
  <2>1. PICK capacity \in Place : idx' = [idx EXCEPT ![c] = create_cache(capacity)]
    BY <1>2 DEF CreateBuffer, CreateFile
  <2>2. idx'[c].widx = 0 /\ idx'[c].ridx = 0 /\ idx[c].ridx = 0 /\ popped' = popped
    BY <1>0, <1>2, <2>1, CreateType DEF CreateBuffer, CreateFile, BufferInv
  <2>3. \A p \in Place : ~(p < 0)
    BY Sizes
  <2> QED BY <2>2, <2>3 DEF FifoOrder
<1>3. CASE CreateFails(c) \/ Refused(c) \/ delete_cache(c) \/ leave_cache(c)
  <2>1. UNCHANGED <<idx, mem, popped>>
    BY <1>3 DEF CreateFails, Refused, delete_cache, leave_cache, vars
  <2>2. \/ cache'[c] = cache[c] \/ cache'[c] \in {"empty", "left"}
        \/ cache[c] = "new" /\ cache'[c] = "failed"
    BY <1>0, <1>3 DEF CreateFails, Refused, delete_cache, leave_cache, vars
  <2> QED BY <2>1, <2>2 DEF BufferInv, FifoOrder
<1>4. CASE PushBuffer(c)
  <2>1. PICK n \in 1 .. MaxCapacity :
          /\ mem' = [mem EXCEPT ![c] =
               Copy(@, Data(c), idx[c].widx, idx[c].widx + PushLen(idx[c], n))]
          /\ idx' = [idx EXCEPT ![c] = cache_push(@, PushLen(idx[c], n))]
    BY <1>4 DEF PushBuffer
  <2> DEFINE w == PushLen(idx[c], n)
  <2>2. w \in Nat
    BY <1>0 DEF PushLen, Least, Cache
  <2>3. w \in 0 .. PushLen(idx[c], n)
    BY <2>2
  <2>4. cache_push(idx[c], w).ridx = idx[c].ridx /\ cache_push(idx[c], w).widx = idx[c].widx + w
    BY <1>0, <2>3, PushType
  <2> HIDE DEF w
  <2>5. /\ cache[c] = "buf" /\ cache' = cache /\ popped' = popped
        /\ idx'[c].ridx = idx[c].ridx /\ idx'[c].widx = idx[c].widx + w
        /\ mem'[c] = Copy(mem[c], Data(c), idx[c].widx, idx[c].widx + w)
    BY <1>0, <1>4, <2>1, <2>4 DEF PushBuffer, w
  <2>6. \A p \in Place : p < idx[c].widx + w => mem'[c][p] = <<c, p>>
    <3> SUFFICES ASSUME NEW p \in Place, p < idx[c].widx + w PROVE mem'[c][p] = <<c, p>>
      OBVIOUS
    <3>1. idx[c].widx + w \in Int /\ p \in Int
      BY <1>0, <2>2, Sizes
    <3>2. mem'[c][p] = IF idx[c].widx <= p /\ p < idx[c].widx + w THEN Data(c)[p] ELSE mem[c][p]
      BY <1>0, <2>5, <3>1, CopyType
    <3>3. Data(c)[p] = <<c, p>>
      BY DEF Data
    <3>4. CASE idx[c].widx <= p
      BY <3>2, <3>3, <3>4
    <3>5. CASE p < idx[c].widx
      BY <1>0, <2>5, <3>1, <3>2, <3>5 DEF BufferInv
    <3> QED BY <1>0, <3>1, <3>4, <3>5
  <2> QED BY <2>5, <2>6 DEF FifoOrder
<1>5. CASE PushFile(c)
  <2>1. PICK n \in 1 .. MaxCapacity : \E w \in 0 .. PushLen(idx[c], n) :
          idx' = [idx EXCEPT ![c] = cache_push(@, w)]
    BY <1>5 DEF PushFile
  <2>2. PICK w \in 0 .. PushLen(idx[c], n) : idx' = [idx EXCEPT ![c] = cache_push(@, w)]
    BY <2>1
  <2>3. cache[c] = "file" /\ cache' = cache /\ popped' = popped /\ idx'[c].ridx = idx[c].ridx
    BY <1>0, <1>5, <2>2, PushType DEF PushFile
  <2> QED BY <2>3 DEF BufferInv, FifoOrder
<1>6. CASE PopBuffer(c)
  <2>1. PICK n \in 1 .. MaxCapacity :
          /\ popped' = [popped EXCEPT ![c] =
               Copy(@, mem[c], idx[c].ridx, idx[c].ridx + PopLen(idx[c], n))]
          /\ idx' = [idx EXCEPT ![c].ridx = @ + PopLen(idx[c], n)]
    BY <1>6 DEF PopBuffer
  <2> DEFINE r == PopLen(idx[c], n)
  <2>2. r \in Nat /\ idx[c].ridx + r <= idx[c].widx
    BY <1>0, PopType
  <2> HIDE DEF r
  <2>3. /\ cache[c] = "buf" /\ cache' = cache /\ mem' = mem
        /\ idx'[c].ridx = idx[c].ridx + r /\ idx'[c].widx = idx[c].widx
        /\ popped'[c] = Copy(popped[c], mem[c], idx[c].ridx, idx[c].ridx + r)
    BY <1>0, <1>6, <2>1 DEF PopBuffer, r, Cache
  <2>4. \A p \in Place : popped'[c][p] = IF p < idx[c].ridx + r THEN <<c, p>> ELSE Hole
    <3> SUFFICES ASSUME NEW p \in Place
                 PROVE  popped'[c][p] = IF p < idx[c].ridx + r THEN <<c, p>> ELSE Hole
      OBVIOUS
    <3>1. idx[c].ridx + r \in Int /\ idx[c].ridx \in Int /\ p \in Int
      BY <1>0, <2>2, Sizes
    <3>2. popped'[c][p] = IF idx[c].ridx <= p /\ p < idx[c].ridx + r THEN mem[c][p] ELSE popped[c][p]
      BY <1>0, <2>3, <3>1, CopyType
    <3>3. popped[c][p] = IF p < idx[c].ridx THEN <<c, p>> ELSE Hole
      BY DEF FifoOrder
    <3>4. p < idx[c].widx => mem[c][p] = <<c, p>>
      BY <2>3 DEF BufferInv
    <3> QED BY <1>0, <2>2, <3>1, <3>2, <3>3, <3>4
  <2> QED BY <2>3, <2>4 DEF BufferInv
<1> QED BY <1>2, <1>3, <1>4, <1>5, <1>6 DEF Call

(***************************************************************************)
(* One call keeps the file of every cache that has its name for itself:    *)
(* whoever writes to, empties or removes a file is the cache that has its  *)
(* name.                                                                   *)
(***************************************************************************)
LEMMA CallFile ==
  ASSUME TypeOK, SizeInv, PathInv, FileKept, NEW c \in CacheId, Call(c)
  PROVE  PathInv' /\ FileKept'
<1>0. /\ idx[c] \in Cache /\ idx[c].widx <= idx[c].capacity /\ idx \in [CacheId -> Cache]
      /\ idx[c].widx \in Nat /\ Data(c) \in Contents /\ Blank \in Contents
      /\ \A m \in 1 .. MaxCapacity : m \in Nat
      /\ cache \in [CacheId -> Status] /\ path \in [CacheId -> Time \cup {NoFile}]
      /\ disk \in [Time -> Contents \cup {NoFile}] /\ NoFile \notin Time /\ NoFile \notin Contents
      /\ now \in Time
  BY Sizes, BlankType DEF TypeOK, Cache
<1>a. removed \subseteq removed'
  BY DEF Call, CreateBuffer, CreateFile, CreateFails, PushBuffer, PushFile, PopBuffer, Refused,
         delete_cache, leave_cache, vars
<1>1. PathInv'
  <2>1. SUFFICES /\ cache'[c] \in {"new", "buf", "failed"} => path'[c] = NoFile
                 /\ cache'[c] = "file" => path'[c] # NoFile
                 /\ cache'[c] = "empty" /\ path'[c] # NoFile => path'[c] \in removed'
    BY <1>a, CallOthers DEF PathInv
  <2>2. CASE CreateFile(c)
    BY <1>0, <2>2 DEF CreateFile
  <2>3. CASE delete_cache(c)
    BY <1>0, <2>3 DEF delete_cache, PathInv
  <2>4. CASE CreateBuffer(c) \/ CreateFails(c) \/ leave_cache(c)
    BY <1>0, <2>4 DEF CreateBuffer, CreateFails, leave_cache, PathInv
  <2>5. CASE PushBuffer(c) \/ PushFile(c) \/ PopBuffer(c) \/ Refused(c)
    BY <2>5 DEF PushBuffer, PushFile, PopBuffer, Refused, vars, PathInv
  <2> QED BY <2>2, <2>3, <2>4, <2>5 DEF Call
<1>2. FileKept'
  <2> SUFFICES ASSUME NEW d \in CacheId, cache'[d] \in {"file", "left"}, OwnName(d)',
                      path'[d] \notin removed'
               PROVE  /\ disk'[path'[d]] # NoFile
                      /\ \A p \in Place : p < idx'[d].widx => disk'[path'[d]][p] = <<d, p>>
    BY DEF FileKept
  <2>0. path'[d] # NoFile /\ \A e \in CacheId \ {d} : path'[e] # path'[d]
    BY DEF OwnName
  <2>1. CASE CreateFile(c) /\ d = c
    <3>1. PICK capacity \in Place : idx' = [idx EXCEPT ![c] = create_cache(capacity)]
      BY <2>1 DEF CreateFile
    <3>2. idx'[c].widx = 0
      BY <1>0, <3>1, CreateType
    <3>3. disk'[path'[c]] = Blank
      BY <1>0, <2>1 DEF CreateFile
    <3> QED BY <1>0, <2>1, <3>2, <3>3, Sizes
  <2>2. ASSUME ~(CreateFile(c) /\ d = c)
        PROVE  /\ path'[d] = path[d] /\ path[d] \in Time /\ cache[d] \in {"file", "left"}
               /\ disk[path[d]] # NoFile
               /\ \A p \in Place : p < idx[d].widx => disk[path[d]][p] = <<d, p>>
    <3>1. path'[d] = path[d]
      <4>1. CASE d # c
        BY <4>1, CallOthers
      <4>2. CASE d = c
        BY <2>2, <4>2 DEF Call, CreateBuffer, CreateFails, PushBuffer, PushFile, PopBuffer,
             Refused, delete_cache, leave_cache, vars
      <4> QED BY <4>1, <4>2
    <3>2. \A e \in CacheId \ {d} : path[e] # path[d]
      <4> SUFFICES ASSUME NEW e \in CacheId \ {d}, path[e] = path[d] PROVE FALSE
        OBVIOUS
      <4>1. e = c
        BY <2>0, <3>1, CallOthers
      <4>2. CreateFile(c)
        BY <2>0, <3>1, <4>1 DEF Call, CreateBuffer, CreateFails, PushBuffer, PushFile, PopBuffer,
             Refused, delete_cache, leave_cache, vars
      <4>3. path[c] = NoFile
        BY <4>2 DEF CreateFile, PathInv
      <4> QED BY <2>0, <3>1, <4>1, <4>3
    <3>3. cache[d] \in {"file", "left"}
      <4>1. CASE d # c
        BY <4>1, CallOthers
      <4>2. ASSUME d = c, cache[c] # cache'[c], ~CreateFile(c) PROVE cache[c] = "file"
        <5>1. leave_cache(c)
          BY <1>0, <4>2 DEF Call, CreateBuffer, CreateFails, PushBuffer, PushFile, PopBuffer,
             Refused, delete_cache, leave_cache, vars
        <5>2. cache[c] \in Live /\ removed' = removed
          BY <5>1 DEF leave_cache
        <5> QED BY <2>0, <3>1, <4>2, <5>2 DEF Live, PathInv
      <4> QED BY <2>2, <4>1, <4>2
    <3>4. path[d] \notin removed
      BY <1>a, <3>1
    <3> QED BY <1>0, <2>0, <3>1, <3>2, <3>3, <3>4 DEF FileKept, OwnName
  <2>3. CASE CreateFile(c) /\ d # c
    <3>1. idx'[d] = idx[d]
      BY <2>3, CallOthers
    <3>2. path'[c] = now /\ disk' = [disk EXCEPT ![now] = Blank]
      BY <1>0, <2>3 DEF CreateFile
    <3>3. path[d] # now
      BY <2>0, <2>2, <2>3, <3>2
    <3> QED BY <1>0, <2>2, <2>3, <3>1, <3>2, <3>3
  <2>4. CASE PushFile(c)
    <3>0. ~CreateFile(c)
      BY <2>4 DEF CreateFile, PushFile
    <3>1. PICK n \in 1 .. MaxCapacity : \E w \in 0 .. PushLen(idx[c], n) :
          /\ disk' = [disk EXCEPT ![path[c]] =
               IF @ = NoFile THEN NoFile
               ELSE Copy(@, Data(c), idx[c].widx, idx[c].widx + w)]
          /\ idx' = [idx EXCEPT ![c] = cache_push(@, w)]
      BY <2>4 DEF PushFile
    <3>2. PICK w \in 0 .. PushLen(idx[c], n) :
          /\ disk' = [disk EXCEPT ![path[c]] =
               IF @ = NoFile THEN NoFile
               ELSE Copy(@, Data(c), idx[c].widx, idx[c].widx + w)]
          /\ idx' = [idx EXCEPT ![c] = cache_push(@, w)]
      BY <3>1
    <3>3. CASE d # c
      <4>1. idx'[d] = idx[d] /\ path'[c] = path[c]
        BY <2>4, <3>3, CallOthers DEF PushFile
      <4>2. path[d] # path[c]
        BY <2>0, <2>2, <3>0, <3>3, <4>1
      <4> QED BY <1>0, <2>2, <3>0, <3>2, <4>1, <4>2
    <3>4. CASE d = c
      <4>1. idx'[c].widx = idx[c].widx + w /\ w \in Nat
        BY <1>0, <3>2, PushType
      <4>2. disk[path[c]] \in Contents /\ path[c] \in Time
        BY <1>0, <2>2, <3>0, <3>4
      <4> DEFINE f == Copy(disk[path[c]], Data(c), idx[c].widx, idx[c].widx + w)
      <4>3. disk'[path[c]] = f
        BY <1>0, <3>2, <4>2
      <4>4. idx[c].widx + w \in Int /\ idx[c].widx \in Int
        BY <1>0, <4>1
      <4>5. f \in Contents /\ \A p \in Place : f[p] =
               IF idx[c].widx <= p /\ p < idx[c].widx + w THEN Data(c)[p] ELSE disk[path[c]][p]
        BY <1>0, <4>2, <4>4, CopyType
      <4> HIDE DEF f
      <4>6. ASSUME NEW p \in Place, p < idx[c].widx + w PROVE f[p] = <<c, p>>
        <5>1. Data(c)[p] = <<c, p>> /\ p \in Int
          BY Sizes DEF Data
        <5>2. p < idx[c].widx => disk[path[c]][p] = <<c, p>>
          BY <2>2, <3>0, <3>4
        <5> QED BY <4>4, <4>5, <4>6, <5>1, <5>2
      <4> QED BY <1>0, <2>2, <3>0, <3>4, <4>1, <4>3, <4>5, <4>6
    <3> QED BY <3>3, <3>4
  <2>5. CASE delete_cache(c)
    <3>1. d # c /\ ~CreateFile(c)
      BY <1>0, <2>5 DEF delete_cache, CreateFile, Live
    <3>2. idx'[d] = idx[d] /\ path' = path
      BY <2>5, <3>1, CallOthers DEF delete_cache
    <3>3. path[d] # path[c]
      BY <2>0, <3>1, <3>2
    <3>4. disk'[path[d]] = disk[path[d]]
      BY <1>0, <2>2, <2>5, <3>1, <3>3 DEF delete_cache
    <3> QED BY <2>2, <3>1, <3>2, <3>4
  <2>6. CASE CreateBuffer(c) \/ CreateFails(c) \/ PushBuffer(c) \/ PopBuffer(c) \/ Refused(c)
             \/ leave_cache(c)
    <3>1. ~CreateFile(c) /\ disk' = disk
      BY <1>0, <2>6, Sizes DEF CreateFile, CreateBuffer, CreateFails, PushBuffer, PopBuffer, Refused,
           leave_cache, vars, Live
    <3>2. CASE d # c
      BY <2>2, <3>1, <3>2, CallOthers
    <3>3. CASE d = c
      <4>1. cache'[c] \in {"file", "left"} /\ cache[c] \in {"file", "left"}
        BY <2>2, <3>1, <3>3
      <4>2. idx' = idx
        BY <1>0, <2>6, <4>1 DEF CreateBuffer, CreateFails, PushBuffer, PopBuffer, Refused,
           leave_cache, vars
      <4> QED BY <2>2, <3>1, <3>3, <4>2
    <3> QED BY <3>2, <3>3
  <2> QED BY <2>1, <2>3, <2>4, <2>5, <2>6 DEF Call
<1> QED BY <1>1, <1>2

(* Every call, and the clock, keep the invariant. *)
LEMMA NextInv == IInv /\ [Next]_vars => IInv'
<1> SUFFICES ASSUME IInv, [Next]_vars PROVE IInv'
  OBVIOUS
<1>1. ASSUME NEW c \in CacheId, Call(c) PROVE IInv'
  BY <1>1, CallTypeOK, CallFifo, CallFile DEF IInv
<1>2. ASSUME UNCHANGED <<cache, idx, mem, disk, path, popped, removed>>, now' \in Time
      PROVE  IInv'
  BY <1>2 DEF IInv, TypeOK, SizeInv, BufferInv, FifoOrder, PathInv, FileKept, OwnName
<1>3. CASE Tick
  <2>1. now' \in Time
    BY <1>3, Sizes DEF Tick, IInv, TypeOK, Time
  <2> QED BY <1>2, <1>3, <2>1 DEF Tick
<1>4. CASE UNCHANGED vars
  BY <1>2, <1>4 DEF vars, IInv, TypeOK
<1> QED BY <1>1, <1>3, <1>4 DEF Next, Finished

-----------------------------------------------------------------------------
(* The invariant holds in every reachable state. *)
THEOREM Invariance == Spec => []IInv
  BY InitInv, NextInv, PTL DEF Spec

(* No index passes another, and no cache holds more than its capacity. *)
THEOREM TypeCorrect == Spec => []TypeOK
<1>1. IInv => TypeOK
  BY DEF IInv
<1> QED BY <1>1, Invariance, PTL

(* cache_pop() returns what cache_push() took, byte for byte and in its order. *)
THEOREM Fifo == Spec => []FifoOrder
<1>1. IInv => FifoOrder
  BY DEF IInv
<1> QED BY <1>1, Invariance, PTL

(***************************************************************************)
(* A file that has its name for itself keeps what was pushed until it is   *)
(* removed, whatever is created, written or deleted besides.               *)
(***************************************************************************)
THEOREM FilesKept == Spec => []FileKept
<1>1. IInv => FileKept
  BY DEF IInv
<1> QED BY <1>1, Invariance, PTL
=============================================================================
