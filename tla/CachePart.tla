----------------------------- MODULE CachePart -----------------------------
(***************************************************************************)
(* doc_ferry_server/src/cache_part.cpp: caches in memory and in files.  A  *)
(* cache's bytes are named by the cache and their place in what was pushed *)
(* so that a byte that is lost, moved or overwritten shows.  A FILE* keeps *)
(* its own position, which is the cache's write index; writes are taken to *)
(* reach the file at once.                                                 *)
(***************************************************************************)
EXTENDS CacheOps, FiniteSets

CONSTANTS
  CacheId,         \* the calls of create_cache()
  MaxCapacity,     \* largest capacity asked for (bound)
  MaxTime,         \* clock ticks (bound)
  MemoryCacheLen,  \* MEMORY_CACHE_LEN
  NoFile           \* no file of that name

ASSUME CachePartAssumption ==
  MaxCapacity \in Nat /\ MaxTime \in Nat /\ MemoryCacheLen \in Nat

Time == 0 .. MaxTime
Place == 0 .. MaxCapacity

(* A byte that was pushed, and what a file or buffer holds before any was. *)
Hole == <<"hole", 0>>
Byte == (CacheId \X Place) \cup {Hole}
Contents == [Place -> Byte]

ASSUME NoFileAssumption == NoFile \notin Time \cup Contents

VARIABLES
  cache,    \* the live cache_t objects: absent, or where they store what
  idx,      \* their capacity, widx and ridx
  mem,      \* buf
  disk,     \* the files by name; the name is the time of creation
  now,      \* gettimeofday()
  path,     \* cache_t::path
  popped,   \* history: the bytes cache_pop() has returned, by place
  removed   \* history: names passed to remove()

vars == <<cache, idx, mem, disk, now, path, popped, removed>>

(***************************************************************************)
(* "new": not created; "buf": buf is set; "file": wfp is set; "empty":     *)
(* delete_cache() has taken either away; "left": leave_cache() freed it.   *)
(***************************************************************************)
Status == {"new", "buf", "file", "empty", "left", "failed"}
Live == {"buf", "file", "empty"}

Blank == [p \in Place |-> Hole]

Init ==
  /\ cache = [c \in CacheId |-> "new"]
  /\ idx = [c \in CacheId |-> create_cache(0)]
  /\ mem = [c \in CacheId |-> Blank]
  /\ disk = [t \in Time |-> NoFile]
  /\ now = 0
  /\ path = [c \in CacheId |-> NoFile]
  /\ popped = [c \in CacheId |-> Blank]
  /\ removed = {}

(* The bytes of from at the places p with lo <= p < hi are put into to. *)
Copy(to, from, lo, hi) == [p \in Place |-> IF lo <= p /\ p < hi THEN from[p] ELSE to[p]]

(* The bytes a caller pushes into c, in order. *)
Data(c) == [p \in Place |-> <<c, p>>]

Tick ==
  /\ now < MaxTime
  /\ now' = now + 1
  /\ UNCHANGED <<cache, idx, mem, disk, path, popped, removed>>

-----------------------------------------------------------------------------
(* Which of the two stores create_cache() chooses. *)
InFile(to, capacity) ==
  \/ to \in {"TO_FILE", "TO_SHM"}
  \/ to = "TO_AUTO" /\ capacity > MemoryCacheLen

(* create_cache() with create_cache_buffer(). *)
CreateBuffer(c) ==
  /\ cache[c] = "new"
  /\ \E capacity \in Place, to \in {"TO_AUTO", "TO_MEM"} :
       /\ ~InFile(to, capacity)
       /\ idx' = [idx EXCEPT ![c] = create_cache(capacity)]
  /\ cache' = [cache EXCEPT ![c] = "buf"]
  /\ UNCHANGED <<mem, disk, now, path, popped, removed>>

(***************************************************************************)
(* create_cache() with create_cache_file(): the name is made of the time,  *)
(* and "wb" empties a file that has it already.                            *)
(***************************************************************************)
CreateFile(c) ==
  /\ cache[c] = "new"
  /\ \E capacity \in Place, to \in {"TO_AUTO", "TO_FILE", "TO_SHM"} :
       /\ InFile(to, capacity)
       /\ idx' = [idx EXCEPT ![c] = create_cache(capacity)]
  /\ path' = [path EXCEPT ![c] = now]
  /\ disk' = [disk EXCEPT ![now] = Blank]
  /\ cache' = [cache EXCEPT ![c] = "file"]
  /\ UNCHANGED <<mem, now, popped, removed>>

(* malloc() or fopen() fails: leave_cache() and NULL. *)
CreateFails(c) ==
  /\ cache[c] = "new"
  /\ cache' = [cache EXCEPT ![c] = "failed"]
  /\ UNCHANGED <<idx, mem, disk, now, path, popped, removed>>

-----------------------------------------------------------------------------
(* cache_push() of n bytes into memory. *)
PushBuffer(c) ==
  /\ cache[c] = "buf"
  /\ \E n \in 1 .. MaxCapacity :
       LET w == PushLen(idx[c], n) IN
       /\ mem' = [mem EXCEPT ![c] = Copy(@, Data(c), idx[c].widx, idx[c].widx + w)]
       /\ idx' = [idx EXCEPT ![c] = cache_push(@, w)]
  /\ UNCHANGED <<cache, disk, now, path, popped, removed>>

(* cache_push() into a file: fwrite() may store less than it is given. *)
PushFile(c) ==
  /\ cache[c] = "file"
  /\ \E n \in 1 .. MaxCapacity : \E w \in 0 .. PushLen(idx[c], n) :
       /\ disk' = [disk EXCEPT ![path[c]] =
                     IF @ = NoFile THEN NoFile
                     ELSE Copy(@, Data(c), idx[c].widx, idx[c].widx + w)]
       /\ idx' = [idx EXCEPT ![c] = cache_push(@, w)]
  /\ UNCHANGED <<cache, mem, now, path, popped, removed>>

(* How many bytes cache_pop() tries to return. *)
PopLen(x, n) == Least(x.widx - x.ridx, n)

(* Mutant: cache_pop() does not advance the read index. *)
PopBuffer_rereads(c) ==
  /\ cache[c] = "buf"
  /\ \E n \in 1 .. MaxCapacity :
       LET r == PopLen(idx[c], n) IN
       /\ popped' = [popped EXCEPT ![c] =
            [p \in Place |-> IF idx[c].ridx <= p /\ p < idx[c].ridx + r
                             THEN mem[c][p - idx[c].ridx] ELSE @[p]]]
       /\ idx' = [idx EXCEPT ![c].ridx = @ + r]
  /\ UNCHANGED <<cache, mem, disk, now, path, removed>>

(* cache_pop() of up to n bytes out of memory. *)
PopBuffer(c) ==
  /\ cache[c] = "buf"
  /\ \E n \in 1 .. MaxCapacity :
       LET r == PopLen(idx[c], n) IN
       /\ popped' = [popped EXCEPT ![c] = Copy(@, mem[c], idx[c].ridx, idx[c].ridx + r)]
       /\ idx' = [idx EXCEPT ![c].ridx = @ + r]
  /\ UNCHANGED <<cache, mem, disk, now, path, removed>>

(***************************************************************************)
(* Calls that change nothing: cache_pop() of a file, which was opened for  *)
(* writing only, returns 0; both calls on an emptied cache return -1.      *)
(***************************************************************************)
Refused(c) ==
  /\ cache[c] \in {"file", "empty"}
  /\ UNCHANGED vars

-----------------------------------------------------------------------------
(* delete_cache(): the buffer is freed, or the file closed and removed. *)
delete_cache(c) ==
  /\ cache[c] \in Live
  /\ cache' = [cache EXCEPT ![c] = "empty"]
  /\ IF cache[c] # "buf" /\ path[c] # NoFile
     THEN /\ disk' = [disk EXCEPT ![path[c]] = NoFile]
          /\ removed' = removed \cup {path[c]}
     ELSE UNCHANGED <<disk, removed>>
  /\ UNCHANGED <<idx, mem, now, path, popped>>

(* Mutant: leave_cache() removes the file as well. *)
leave_cache_removes(c) ==
  /\ cache[c] \in Live
  /\ cache' = [cache EXCEPT ![c] = "left"]
  /\ disk' = IF path[c] = NoFile THEN disk ELSE [disk EXCEPT ![path[c]] = NoFile]
  /\ UNCHANGED <<idx, mem, now, path, popped, removed>>

(* leave_cache(): the file is closed and stays, the objects are freed. *)
leave_cache(c) ==
  /\ cache[c] \in Live
  /\ cache' = [cache EXCEPT ![c] = "left"]
  /\ UNCHANGED <<idx, mem, disk, now, path, popped, removed>>

Call(c) == \/ CreateBuffer(c) \/ CreateFile(c) \/ CreateFails(c)
           \/ PushBuffer(c) \/ PushFile(c) \/ PopBuffer(c) \/ Refused(c)
           \/ delete_cache(c) \/ leave_cache(c)

(* Nothing is left to call. *)
Finished ==
  /\ now = MaxTime /\ \A c \in CacheId : cache[c] \in {"left", "failed"}
  /\ UNCHANGED vars

Next == Tick \/ Finished \/ \E c \in CacheId : Call(c)

Spec == Init /\ [][Next]_vars

-----------------------------------------------------------------------------
(* Objects, buffers and files have their types, and the indices their order. *)
TypeOK ==
  /\ cache \in [CacheId -> Status] /\ idx \in [CacheId -> Cache]
  /\ mem \in [CacheId -> Contents] /\ popped \in [CacheId -> Contents]
  /\ disk \in [Time -> Contents \cup {NoFile}] /\ path \in [CacheId -> Time \cup {NoFile}]
  /\ now \in Time /\ removed \subseteq Time
  /\ \A c \in CacheId : idx[c].ridx <= idx[c].widx /\ idx[c].widx <= idx[c].capacity

(* cache_pop() returns what cache_push() took, byte for byte and in its order. *)
FifoOrder ==
  \A c \in CacheId, p \in Place :
    popped[c][p] = IF p < idx[c].ridx THEN <<c, p>> ELSE Hole

OwnName(c) == path[c] # NoFile /\ \A d \in CacheId \ {c} : path[d] # path[c]

(***************************************************************************)
(* "cache buf/file need outside delete" (cache_part.h:42): the file of a   *)
(* cache holds what was pushed, while it is open and after leave_cache(),  *)
(* until somebody removes it, whatever the other caches do.  Two caches of *)
(* one clock tick have one name, and there the code keeps no such promise. *)
(***************************************************************************)
FileKept ==
  \A c \in CacheId :
    cache[c] \in {"file", "left"} /\ OwnName(c) /\ path[c] \notin removed =>
      /\ disk[path[c]] # NoFile
      /\ \A p \in Place : p < idx[c].widx => disk[path[c]][p] = <<c, p>>
=============================================================================
