--------------------------- MODULE RequestChannel ---------------------------
(***************************************************************************)
(* What one connection promises its peer: every request is answered once,  *)
(* with OK, in the order of the requests and not before its last byte has  *)
(* arrived.  No decoder, cache or socket: VirusHandler is to implement it. *)
(***************************************************************************)
EXTENDS Naturals, Sequences

CONSTANTS
  NReq,     \* requests the peer sends
  Start     \* Start[k]: the offset of request k, Start[NReq + 1] the total

VARIABLES
  arrived,   \* bytes of the requests that have arrived
  queued,    \* answers that are ready
  sent       \* answers that went out

vars == <<arrived, queued, sent>>

OK(k) == [id |-> k, state |-> "OK"]

Init == arrived = 0 /\ queued = <<>> /\ sent = <<>>

(* More bytes arrive. *)
Arrive ==
  /\ \E n \in arrived + 1 .. Start[NReq + 1] : arrived' = n
  /\ UNCHANGED <<queued, sent>>

(* The first request that has no answer yet gets one. *)
Answer ==
  LET k == Len(sent) + Len(queued) + 1 IN
  /\ k <= NReq /\ Start[k + 1] <= arrived
  /\ queued' = Append(queued, OK(k))
  /\ UNCHANGED <<arrived, sent>>

(* The oldest answer goes out. *)
Deliver ==
  /\ queued # <<>>
  /\ sent' = Append(sent, Head(queued)) /\ queued' = Tail(queued)
  /\ UNCHANGED arrived

Next == Arrive \/ Answer \/ Deliver

Spec == Init /\ [][Next]_vars
=============================================================================
