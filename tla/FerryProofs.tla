----------------------------- MODULE FerryProofs -----------------------------
(***************************************************************************)
(* Client and server end to end, for a file of any length, any threshold   *)
(* and any cut of the stream behind the header: the theorem carries the    *)
(* invariants of the server's handler over to the composition, in which    *)
(* either process may be killed at any moment.                             *)
(***************************************************************************)
EXTENDS Ferry, ChannelProofs

(* The answer the client is meant to print. *)
Expected == [id |-> ClientId, length |-> Word(StateSize), errcode |-> Word(0)]

(***************************************************************************)
(* The client is past its first recv(), or has printed, only when the      *)
(* server has sent: wire[1] is there when RecvErrcode looks at it.         *)
(***************************************************************************)
ClientInv ==
  /\ cpc = "errcode" => wire # <<>>
  /\ shown # NoAnswer => wire # <<>> /\ (~failed => shown = Expected)

FerryInv == FInv /\ EInv /\ ClientInv

-----------------------------------------------------------------------------
(* The file's request was not given up: the answer is OK, and it is its own. *)
LEMMA FirstFrame ==
  ASSUME "split" \notin Faults, ~failed, FInv, EInv, wire # <<>>
  PROVE  wire[1].id = 1 /\ wire[1].state = "OK" /\ pos = Total
<1>0. /\ wire \in Seq(Frame) /\ pos \in Nat /\ rcvd \in Nat
      /\ served \in Nat /\ pos <= rcvd /\ rcvd <= Total /\ NReq = 1
  BY OneRequest DEF FInv, TInv, TypeOK, InBounds, OneRequest
<1>1. Intact
  BY <1>0, Offsets DEF Intact
<1>2. served <= NReq /\ Start[served + 1] <= pos /\ OfServed(wire)
  BY <1>1 DEF EInv
<1>3. Len(wire) \in Nat /\ Len(wire) >= 1
  BY <1>0, EmptySeq
<1>4. wire[1].id \in 1 .. served /\ wire[1].state = "OK"
  BY <1>2, <1>3 DEF OfServed
<1>5. served = 1
  BY <1>0, <1>2, <1>4
<1>6. Start[2] <= pos /\ Total = Start[2] /\ Start[2] \in Nat
  BY <1>0, <1>2, <1>5, Offsets DEF Total
<1>7. pos = Total
  BY <1>0, <1>6
<1> QED BY <1>4, <1>5, <1>7

(* htonl() at the server and ntohl() at the client: the header comes back as it was. *)
LEMMA RoundTrip ==
  ASSUME NEW f, f.id = 1, f.state = "OK"
  PROVE  Printed(Encoded(f)) = Expected
<1>1. Encoded(f).id = htonl(ClientId)
  BY DEF Encoded, GarbageId
<1>2. Encoded(f).length = htonl(Word(4)) /\ Encoded(f).errcode = Word(0)
  BY DEF Encoded, StateSize, StateNumber
<1>3. /\ ntohl(htonl(ClientId)) = ClientId /\ ntohl(htonl(Word(4))) = Word(4)
      /\ ntohl(Word(0)) = Word(0)
  BY DEF ntohl, htonl, ClientId, Word
<1> QED BY <1>1, <1>2, <1>3 DEF Printed, Expected, StateSize

(* The server's step, or none: what it has sent stays sent. *)
LEMMA WireGrows ==
  ASSUME wire \in Seq(Frame), resp \in Seq(Response), pc = "write" => resp # <<>>,
         [Next]_vars, wire # <<>>
  PROVE  wire' # <<>>
<1>1. CASE SendResponse
  <2>1. PICK whole \in BOOLEAN :
          wire' = Append(wire, [id |-> Head(resp).id, state |-> Head(resp).state, whole |-> whole])
    BY <1>1 DEF SendResponse
  <2>2. resp # <<>> /\ Head(resp) \in Response
    BY <1>1, HeadTailProperties DEF SendResponse, PopFront
  <2>3. [id |-> Head(resp).id, state |-> Head(resp).state, whole |-> whole] \in Frame
    BY <2>2 DEF Response, Frame
  <2> QED BY <2>1, <2>3, AppendProperties
<1>2. CASE ~SendResponse
  <2>1. wire' = wire
    BY <1>2 DEF Next, Recv, PeerClosed, PeerReset, Reading, WriteMore, WriteLast, WriteFailed,
                Clobber, StartWrite, Writing, SkipResponse, SendFails, Ended, vars
  <2> QED BY <2>1
<1> QED BY <1>1, <1>2

(* A server that is killed leaves everything but pc as it was. *)
LEMMA KilledKeeps ==
  ASSUME FInv, EInv, ServerKilled
  PROVE  FInv' /\ EInv'
<1>1. /\ pc' = "crashed" /\ rcvd' = rcvd /\ pos' = pos /\ req' = req /\ resp' = resp
      /\ wire' = wire /\ served' = served /\ space' = space /\ failed' = failed
  BY DEF ServerKilled
<1>2. TInv'
  BY <1>1 DEF FInv, TInv, TypeOK, InBounds
<1>3. Framing'
  BY <1>1 DEF FInv, Framing, Undisturbed, AtBoundary, InMessage
<1>4. FInv'
  BY <1>1, <1>2, <1>3 DEF FInv
<1>5. EInv'
  BY <1>1 DEF EInv, Intact, OfServed
<1> QED BY <1>4, <1>5

(* A step of the composition is a step of the handler, a kill, or neither. *)
LEMMA ServerOrKilled ==
  ASSUME [FerryNext]_allvars PROVE [Next]_vars \/ ServerKilled
<1>1. CASE ClientStep \/ ClientKilled \/ UNCHANGED allvars
  BY <1>1 DEF ClientStep, ReadFile, SendHeader, SendValue, ClientSendFails, RecvHeader,
              RecvErrcode, RecvShort, RecvFails, ClientKilled, allvars
<1>2. CASE ServerStep \/ ServerSeesReset \/ ServerSendFails \/ Over
  BY <1>2 DEF ServerStep, ServerRecv, ServerSeesEnd, ServerReads, ServerStartsWrite, ServerWrites,
              ServerSeesReset, ServerSendFails, Over, Next, Writing
<1> QED BY <1>1, <1>2 DEF FerryNext, Failure

(* A request that was given up stays given up. *)
LEMMA GivenUp == ASSUME [Next]_vars, failed PROVE failed'
  BY DEF Next, Recv, PeerClosed, PeerReset, Reading, WriteMore, WriteLast, WriteFailed, Clobber, StartWrite,
         Writing, SkipResponse, SendResponse, PopFront, SendFails, Ended, vars

(* The client prints what it was meant to print. *)
LEMMA NextClientInv ==
  ASSUME "split" \notin Faults, FerryInv, [FerryNext]_allvars
  PROVE  ClientInv'
<1>0. /\ wire \in Seq(Frame) /\ resp \in Seq(Response)
      /\ pc = "write" => resp # <<>>
  BY DEF FerryInv, FInv, TInv, TypeOK
<1>1. wire # <<>> => wire' # <<>>
  <2>1. CASE [Next]_vars
    BY <1>0, <2>1, WireGrows
  <2>2. CASE ServerKilled
    BY <2>2 DEF ServerKilled
  <2> QED BY <2>1, <2>2, ServerOrKilled
<1>7. failed => failed'
  BY ServerOrKilled, GivenUp DEF ServerKilled
<1>2. CASE RecvErrcode
  <2>1. /\ cpc = "errcode" /\ shown' = Printed(Encoded(wire[1])) /\ cpc' = "done" /\ vars' = vars
    BY <1>2 DEF RecvErrcode
  <2>2. wire # <<>>
    BY <2>1 DEF FerryInv, ClientInv
  <2>3. ASSUME ~failed' PROVE shown' = Expected
    <3>1. wire[1].id = 1 /\ wire[1].state = "OK"
      BY <2>1, <2>2, <2>3, FirstFrame DEF FerryInv, vars
    <3> QED BY <2>1, <3>1, RoundTrip
  <2> QED BY <1>1, <2>1, <2>2, <2>3 DEF ClientInv
<1>3. CASE RecvHeader
  BY <1>1, <1>3, <1>7 DEF RecvHeader, FerryInv, ClientInv
<1>4. ASSUME shown' = shown, cpc' \in {cpc, "header", "value", "wait", "done"} PROVE ClientInv'
  BY <1>1, <1>4, <1>7 DEF FerryInv, ClientInv
<1>5. CASE ReadFile \/ SendHeader \/ SendValue \/ ClientSendFails \/ RecvShort \/ RecvFails \/ ClientKilled
  BY <1>4, <1>5 DEF ReadFile, SendHeader, SendValue, ClientSendFails, RecvShort, RecvFails, ClientKilled
<1>6. CASE ServerStep \/ ServerSeesReset \/ ServerSendFails \/ ServerKilled \/ Over \/ UNCHANGED allvars
  <2>1. shown' = shown /\ cpc' = cpc
    BY <1>6 DEF ServerStep, ServerRecv, ServerSeesEnd, ServerReads, ServerStartsWrite, ServerWrites,
                ServerSeesReset, ServerSendFails, ServerKilled, Over, client, allvars
  <2> QED BY <1>4, <2>1
<1> QED BY <1>2, <1>3, <1>5, <1>6 DEF FerryNext, ClientStep, Failure

(* The invariant of the composition. *)
LEMMA NextFerryInv == ASSUME "split" \notin Faults PROVE FerryInv /\ [FerryNext]_allvars => FerryInv'
<1> SUFFICES ASSUME FerryInv, [FerryNext]_allvars PROVE FerryInv'
  OBVIOUS
<1>1. FInv' /\ EInv'
  <2>1. CASE [Next]_vars
    BY <2>1, NextFInv, NextEInv DEF FerryInv
  <2>2. CASE ServerKilled
    BY <2>2, KilledKeeps DEF FerryInv
  <2> QED BY <2>1, <2>2, ServerOrKilled
<1>2. ClientInv'
  BY NextClientInv
<1> QED BY <1>1, <1>2 DEF FerryInv

(***************************************************************************)
(* Whatever the file's length, however recv() cuts it behind its header,   *)
(* whoever is killed and whatever memory the server finds: what the client *)
(* prints is the answer to its own request, and the server had taken every *)
(* byte of the file, unless the request was given up.                      *)
(***************************************************************************)
THEOREM AnswerIsOwn == ASSUME "split" \notin Faults PROVE FerrySpec => []AnswerMatchesRequest
<1>1. FerryInit => FerryInv
  BY InitFInv, InitEInv DEF FerryInit, FerryInv, ClientInv
<1>2. FerryInv => AnswerMatchesRequest
  BY FirstFrame DEF FerryInv, ClientInv, AnswerMatchesRequest, Expected
<1> QED BY <1>1, <1>2, NextFerryInv, PTL DEF FerrySpec
=============================================================================
