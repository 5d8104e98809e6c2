------------------------------ MODULE CacheOps ------------------------------
(***************************************************************************)
(* The bookkeeping of doc_ferry_server/src/cache_part.cpp: a cache_t is a  *)
(* write-once buffer or file of a fixed capacity, with a write index and a *)
(* read index.  The bytes themselves are left to the modules that need     *)
(* them; every operator here is what one function does to the indices.     *)
(***************************************************************************)
EXTENDS Integers

Least(a, b) == IF a <= b THEN a ELSE b

(* struct private_cache *)
Cache == [capacity : Nat, widx : Nat, ridx : Nat]

(* create_cache(): calloc leaves both indices at 0. *)
create_cache(capacity) == [capacity |-> capacity, widx |-> 0, ridx |-> 0]

(* Mutant: the room that is left is not looked at. *)
PushLen_unclamped(c, n) == n

(* How many of n bytes cache_push() tries to store: the room that is left. *)
PushLen(c, n) == Least(c.capacity - c.widx, n)

(* cache_push() after memcpy/fwrite stored w bytes. *)
cache_push(c, w) == [c EXCEPT !.widx = @ + w]

(* Mutant: off by one, a cache of the announced length never counts as full. *)
cache_full_off_by_one(c) == c.widx = c.capacity + 1

(* cache_full() *)
cache_full(c) == c.widx = c.capacity
=============================================================================
