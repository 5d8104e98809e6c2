--------------------------------- MODULE HV ---------------------------------
(***************************************************************************)
(* doc_ferry_server/src/hv.cpp: class vc::HV, the incremental decoder of   *)
(* one request.  A request is a fixed-size header (id, length) followed by *)
(* length bytes of value, which are pushed into a cache.  The decoder is a *)
(* record; each method is an operator giving the set of states it can      *)
(* leave the record in (a set, because create_cache can fail and because   *)
(* one memcpy has undefined behaviour).                                    *)
(***************************************************************************)
EXTENDS CacheOps

CONSTANTS
  HeaderSize,      \* sizeof(iface::Header), 8 in the code
  MemoryCache,     \* DEFAULT_MAX_MEMORY_CACHE, 1024 in the code
  GarbageLength,   \* lengths that bytes other than a header may decode to
  NULL,            \* the null cache pointer
  Faults           \* which failures of the environment may happen

Fault == {"split",   \* a recv() may end in the middle of a header
          "cache",   \* create_cache() may fail (malloc, fopen)
          "reset"}   \* the peer may reset the connection

ASSUME HVAssumption ==
  /\ HeaderSize \in Nat \ {0}
  /\ MemoryCache \in Nat
  /\ GarbageLength \subseteq Nat
  /\ NULL \notin Cache
  /\ Faults \subseteq Fault

(* enum storage_to *)
Storage == {"TO_AUTO", "TO_MEM", "TO_SHM", "TO_FILE"}

(* The id of a header that no client wrote. *)
GarbageId == 0

(***************************************************************************)
(* hlen = HeaderSize + 1 stands for every value above the header's size:   *)
(* only an overwritten hlen takes it.                                      *)
(***************************************************************************)
HVRecord(Ids) ==
  [hlen : 0 .. HeaderSize + 1, id : Ids, length : Nat, to : Storage,
   head_complete : BOOLEAN, value_complete : BOOLEAN, value : Cache \cup {NULL}]

(***************************************************************************)
(* HV::HV().  The member "to" and the header are not initialised: "to" is  *)
(* a parameter, the header is not read before write_head() has filled it.  *)
(***************************************************************************)
NewHV(to) ==
  [hlen |-> 0, id |-> GarbageId, length |-> 0, to |-> to,
   head_complete |-> FALSE, value_complete |-> FALSE, value |-> NULL]

(* Mutant: only the header is asked for. *)
is_complete_head_only(h) == h.head_complete

is_complete(h) == h.head_complete /\ h.value_complete

(* HV::clear(): the cache is released for TO_FILE and TO_SHM only. *)
clear(h) ==
  [h EXCEPT !.hlen = 0, !.head_complete = FALSE, !.value_complete = FALSE,
            !.value = IF h.to \in {"TO_FILE", "TO_SHM"} THEN NULL ELSE @]

(* Mutant: a request of exactly MemoryCache bytes counts as small. *)
head_completed_off_by_one(h) ==
  IF h.head_complete THEN h
  ELSE [h EXCEPT !.head_complete = TRUE,
                 !.to = IF h.length <= MemoryCache THEN "TO_MEM" ELSE "TO_FILE"]

(* HV::head_completed() *)
head_completed(h) ==
  IF h.head_complete THEN h
  ELSE [h EXCEPT !.head_complete = TRUE,
                 !.to = IF h.length < MemoryCache THEN "TO_MEM" ELSE "TO_FILE"]

(***************************************************************************)
(* memcpy(&this->header + this->hlen, ...) with hlen > 0: the offset is    *)
(* counted in headers, not bytes, so the bytes land in the members behind  *)
(* the header (value, hlen, head_complete, vlen, value_complete) or behind *)
(* the object, and the header keeps bytes it never received: its id is the *)
(* peer's only if all of it came with the first bytes.  Overwritten holds  *)
(* the outcomes after which the members still mean something: value is the *)
(* pointer it was or NULL.  A wild value pointer, a negative hlen or a     *)
(* broken object behind (the queue of responses), in a process that dies   *)
(* of it or lives on with it, is VirusHandler!Clobber.                     *)
(***************************************************************************)
Overwritten(h) ==
  [hlen : 0 .. HeaderSize + 1, id : {h.id, GarbageId}, length : GarbageLength, to : {h.to},
   head_complete : BOOLEAN, value_complete : BOOLEAN, value : {h.value, NULL}]

Clobbered(h) ==
  {IF g.hlen = HeaderSize THEN head_completed(g) ELSE g : g \in Overwritten(h)}

(* The bytes write_head() takes out of the n it is offered. *)
HeadLen(h, n) == IF h.hlen < HeaderSize THEN Least(HeaderSize - h.hlen, n) ELSE 0

(***************************************************************************)
(* HV::write_head(): decoded is the set of <<id, length>> pairs that the   *)
(* next HeaderSize bytes of the stream can stand for after ntohl().        *)
(***************************************************************************)
write_head(h, n, decoded) ==
  LET w == HeadLen(h, n) IN
  IF w = 0 THEN {h}
  ELSE IF h.hlen > 0 THEN Clobbered(h)
  ELSE IF w < HeaderSize THEN {[h EXCEPT !.hlen = w, !.id = d[1]] : d \in decoded}
  ELSE { head_completed([h EXCEPT !.hlen = w, !.id = d[1], !.length = d[2]]) :
           d \in decoded }

(* The cache write_value() pushes into, NULL when it cannot be created. *)
ValueCache(h) ==
  IF h.value # NULL THEN {h.value}
  ELSE {create_cache(h.length)} \cup (IF "cache" \in Faults THEN {NULL} ELSE {})

(* Mutant: a short fwrite() is not noticed. *)
Stored_assumes_success(c, n, space) == PushLen(c, n)

(* What fwrite() stores of the bytes cache_push() hands it. *)
Stored(c, n, space) == Least(PushLen(c, n), space)

(* HV::write_value(), with space free bytes on the disk: wlen = -1 is the failure return. *)
write_value(h, n, space) ==
  IF n <= 0 \/ ~h.head_complete THEN {[hv |-> h, wlen |-> 0, stored |-> 0]}
  ELSE { IF c = NULL THEN [hv |-> h, wlen |-> -1, stored |-> 0]
         ELSE LET w == Stored(c, n, space)
                  d == cache_push(c, w)
              IN [hv |-> [h EXCEPT !.value = d, !.value_complete = @ \/ cache_full(d)],
                  wlen |-> w, stored |-> w] :
         c \in ValueCache(h) }

(***************************************************************************)
(* HV::write(p_data, data_len): the header first, the rest to the value.   *)
(***************************************************************************)
write(h, n, decoded, space) ==
  LET w == HeadLen(h, n) IN
  { [r EXCEPT !.wlen = IF @ = -1 THEN -1 ELSE w + @] :
      r \in UNION { write_value(g, n - w, space) : g \in write_head(h, n, decoded) } }
=============================================================================
