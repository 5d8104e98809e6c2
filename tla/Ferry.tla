-------------------------------- MODULE Ferry --------------------------------
(***************************************************************************)
(* The test client (client/test_client.cpp) and the server's handler of    *)
(* its connection, end to end: fake_client_send_file() sends one file and  *)
(* prints the answer.  The server's steps are those of VirusHandler, with  *)
(* one request; what it can receive is what the client has sent, and the   *)
(* end of its stream is the client's closesocket().                        *)
(*                                                                         *)
(* A 32-bit integer is its four bytes in memory, the lowest first, as on   *)
(* the machines both programs are built for.                               *)
(***************************************************************************)
EXTENDS VirusHandler

ASSUME OneRequest == NReq = 1

VARIABLES
  sent,    \* bytes of the request the client has handed to send()
  cpc,     \* where fake_client_send_file() is
  shown    \* what it has printed of the answer

client == <<sent, cpc, shown>>
allvars == <<vars, client>>

(* A number below 256, and the id 123456 that the client always uses. *)
Word(n) == <<n, 0, 0, 0>>
ClientId == <<64, 226, 1, 0>>

htonl(w) == <<w[4], w[3], w[2], w[1]>>
ntohl(w) == htonl(w)

(* enum State, and sizeof(iface::State) *)
StateNumber == [OK |-> 0, INTERNAL_ERROR |-> 3]
StateSize == 4

(* Mutant: HV::write() puts the header on the wire as it is. *)
Encoded_host_order(f) ==
  [id |-> IF f.id = GarbageId THEN Word(0) ELSE ClientId,
   length |-> Word(StateSize), errcode |-> Word(StateNumber[f.state])]

(***************************************************************************)
(* The bytes of response f: HV::write(header, value) converts the header   *)
(* to network order; the state is copied as it lies in memory.             *)
(***************************************************************************)
Encoded(f) ==
  [id |-> htonl(IF f.id = GarbageId THEN Word(0) ELSE ClientId),
   length |-> htonl(Word(StateSize)), errcode |-> Word(StateNumber[f.state])]

(* What the client prints of these bytes. *)
Printed(b) == [id |-> ntohl(b.id), length |-> ntohl(b.length), errcode |-> ntohl(b.errcode)]

NoAnswer == [id |-> <<>>, length |-> <<>>, errcode |-> <<>>]

FerryInit == Init /\ sent = 0 /\ cpc = "connected" /\ shown = NoAnswer

-----------------------------------------------------------------------------
(* The client, from the connection on.  Every goto ends in closesocket(). *)

ServerGone == pc \in {"closed", "crashed"}

ReadFile ==
  /\ cpc = "connected"
  /\ cpc' \in {"header", "done"}
  /\ UNCHANGED <<vars, sent, shown>>

SendHeader ==
  /\ cpc = "header"
  /\ sent' = HeaderSize /\ cpc' = "value"
  /\ UNCHANGED <<vars, shown>>

(* send() of an empty file returns 0, which the client takes for an error. *)
SendValue ==
  /\ cpc = "value"
  /\ sent' = Total
  /\ cpc' = IF VLen[1] = 0 THEN "done" ELSE "wait"
  /\ UNCHANGED <<vars, shown>>

(* SOCKET_ERROR: the server has closed the connection, or is gone. *)
ClientSendFails ==
  /\ cpc \in {"header", "value"} /\ ServerGone
  /\ cpc' = "done"
  /\ UNCHANGED <<vars, sent, shown>>

(* The first recv() gets the header. *)
RecvHeader ==
  /\ cpc = "wait" /\ wire # <<>>
  /\ cpc' = "errcode"
  /\ UNCHANGED <<vars, sent, shown>>

(* The second recv() gets the state, and the answer is printed. *)
RecvErrcode ==
  /\ cpc = "errcode" /\ wire[1].whole
  /\ shown' = Printed(Encoded(wire[1]))
  /\ cpc' = "done"
  /\ UNCHANGED <<vars, sent>>

(* Either recv() returns fewer bytes than asked for: the client gives up. *)
RecvShort ==
  /\ cpc \in {"wait", "errcode"} /\ wire # <<>>
  /\ cpc' = "done"
  /\ UNCHANGED <<vars, sent, shown>>

(* Nothing more will come: recv() returns 0 or SOCKET_ERROR. *)
RecvFails ==
  /\ cpc \in {"wait", "errcode"} /\ ServerGone
  /\ cpc' = "done"
  /\ UNCHANGED <<vars, sent, shown>>

-----------------------------------------------------------------------------
(* The server's handler, on what this client does. *)

ServerRecv == Recv /\ rcvd' <= sent /\ UNCHANGED client

(* Mutant: recv() = 0 is not handled. *)
ServerSeesEnd_ignored ==
  /\ pc = "idle" /\ cpc = "done" /\ rcvd = sent
  /\ UNCHANGED allvars

ServerSeesEnd == PeerClosed /\ cpc = "done" /\ rcvd = sent /\ UNCHANGED client

(* closesocket() with bytes of the answer unread resets the connection. *)
ServerSeesReset == PeerReset /\ cpc = "done" /\ UNCHANGED client

ServerReads == Reading /\ UNCHANGED client
ServerStartsWrite == StartWrite /\ UNCHANGED client
ServerWrites == (SkipResponse \/ SendResponse) /\ UNCHANGED client
ServerSendFails == SendFails /\ cpc = "done" /\ UNCHANGED client

-----------------------------------------------------------------------------
(***************************************************************************)
(* Either process may be killed between any two of its steps; the system   *)
(* closes its socket.                                                      *)
(***************************************************************************)
ClientKilled ==
  /\ cpc # "done"
  /\ cpc' = "done"
  /\ UNCHANGED <<vars, sent, shown>>

ServerKilled ==
  /\ ~ServerGone
  /\ pc' = "crashed"
  /\ UNCHANGED <<rcvd, pos, req, resp, wire, served, space, failed, client>>

(* Both ends have closed. *)
Over == cpc = "done" /\ Ended /\ UNCHANGED client

ClientStep == \/ ReadFile \/ SendHeader \/ SendValue \/ ClientSendFails
              \/ RecvHeader \/ RecvErrcode \/ RecvShort \/ RecvFails
ServerStep == \/ ServerRecv \/ ServerSeesEnd \/ ServerReads
              \/ ServerStartsWrite \/ ServerWrites
Failure == ServerSeesReset \/ ServerSendFails \/ ClientKilled \/ ServerKilled
FerryNext == ClientStep \/ ServerStep \/ Failure \/ Over

FerrySpec == FerryInit /\ [][FerryNext]_allvars

(***************************************************************************)
(* Two processes that run; a recv() that has nothing to return blocks.     *)
(* No failure has to happen.                                               *)
(***************************************************************************)
FerryFair == FerrySpec /\ WF_allvars(ClientStep) /\ WF_allvars(ServerStep)

-----------------------------------------------------------------------------
(***************************************************************************)
(* What the client prints is the answer to its own request: its id and the *)
(* length of a state, through both conversions of the header, and OK only  *)
(* when the server has taken every byte of the file.  A request that the   *)
(* server gave up is the exception.                                        *)
(***************************************************************************)
AnswerMatchesRequest ==
  shown # NoAnswer /\ ~failed =>
    /\ shown = [id |-> ClientId, length |-> Word(StateSize), errcode |-> Word(0)]
    /\ pos = Total

(***************************************************************************)
(* "errcode:%d" (client/test_client.cpp:296): the number printed is the    *)
(* state the server answered with.                                         *)
(***************************************************************************)
ReportedState ==
  shown # NoAnswer => shown.errcode = Word(StateNumber[wire[1].state])

(***************************************************************************)
(* fake_client_send_file() comes to its end: no recv() waits for ever,     *)
(* whether the server answers or dies.                                     *)
(***************************************************************************)
ClientEnds == <>(cpc = "done")

(* The handler of a client that has gone is closed, wherever it stopped. *)
HandlerCloses == cpc = "done" ~> pc \in {"closed", "crashed"}
=============================================================================
