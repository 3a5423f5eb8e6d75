--------------------------- MODULE ControlStream ---------------------------
(***************************************************************************)
(* How controller_run (controller.c) takes the byte stream of a control    *)
(* client apart: the header may come in several pieces, the body is taken  *)
(* by a single recv whose result is ignored, anything else is skipped      *)
(* header by header.  The stream carries whole requests, delivers them in  *)
(* any pieces and may end after any byte; the clients come one after the   *)
(* other.  What a request does is in PadCommands, what the client makes of *)
(* the answers in ControlLink.                                             *)
(***************************************************************************)
EXTENDS Integers, Sequences, SequencesExt, FiniteSets

CONSTANTS
    Bodies,            \* the requests: bodies of act_req_p and arm_req_p
    Garbage,           \* bytes an uninitialized act_req_p or arm_req_p may hold
    MaxConns,          \* bound: connections
    MaxSent            \* bound: requests sent on a connection

VARIABLES
    sent,              \* requests sent, for every connection opened so far
    stream,            \* the bytes sent and not received, for every connection
    ended,             \* connections the client has closed, or that have broken
    srv,               \* the controller thread: where it is
    conn,              \* the connections accepted so far; the last is served
    hdr,               \* the bytes of the header received so far
    executed,          \* history: requests executed, for every connection
    short, torn        \* history: connections with a short body; that lost bytes

streamVars == <<sent, stream, ended, srv, conn, hdr, executed, short, torn>>

(* packet.h: a header has two bytes, type and subtype.                      *)
TYPE_CNTRL    == 0
CNTRL_ACT_REQ == 0
CNTRL_ARM_REQ == 2
HeaderSize    == 2

BodySize(sub) == IF sub = CNTRL_ACT_REQ THEN 2 ELSE 1

\* Requests as the client sends them: act_req_p has two bytes, arm_req_p one.
Encoded(body) ==
    <<TYPE_CNTRL, IF Len(body) = 2 THEN CNTRL_ACT_REQ ELSE CNTRL_ARM_REQ>> \o body

ASSUME StreamAssumption ==
    /\ Garbage # {} /\ Garbage \subseteq 0 .. 255
    /\ Bodies \subseteq Seq(0 .. 255) /\ \A body \in Bodies : Len(body) \in {1, 2}
    /\ MaxConns \in Nat \ {0} /\ MaxSent \in Nat \ {0}

Opened == DOMAIN sent
Newest == Len(sent)

StreamTypeOK ==
    /\ sent \in Seq(Seq(Bodies)) /\ Newest <= MaxConns
    /\ stream \in Seq(Seq(0 .. 255)) /\ Len(stream) = Newest
    /\ executed \in Seq(Seq(Seq(0 .. 255))) /\ Len(executed) = Newest
    /\ \A c \in Opened : Len(sent[c]) <= MaxSent
    /\ ended \subseteq Opened /\ short \subseteq Opened /\ torn \subseteq ended
    /\ srv \in {"accept", "header", "body"}
    /\ conn \in 0 .. Newest /\ (srv # "accept" => conn > 0)
    /\ hdr \in Seq(0 .. 255)
    /\ IF srv = "body" THEN Len(hdr) = HeaderSize ELSE Len(hdr) < HeaderSize
    /\ srv = "accept" => hdr = <<>>

StreamInit ==
    /\ sent = <<>> /\ stream = <<>> /\ executed = <<>>
    /\ ended = {} /\ short = {} /\ torn = {}
    /\ srv = "accept" /\ conn = 0 /\ hdr = <<>>

-----------------------------------------------------------------------------
(* The clients and the network.                                             *)

\* listen has a backlog: the client's connect does not wait for accept, and it may
\* be back before the server has noticed that it was gone.
Open ==
    /\ Newest < MaxConns /\ ended = Opened
    /\ sent' = Append(sent, <<>>) /\ stream' = Append(stream, <<>>)
    /\ executed' = Append(executed, <<>>)
    /\ UNCHANGED <<ended, srv, conn, hdr, short, torn>>

Send(body) ==
    /\ Newest \notin ended /\ Newest > 0
    /\ Len(sent[Newest]) < MaxSent
    /\ sent' = [sent EXCEPT ![Newest] = Append(@, body)]
    /\ stream' = [stream EXCEPT ![Newest] = @ \o Encoded(body)]
    /\ UNCHANGED <<ended, srv, conn, hdr, executed, short, torn>>

\* The client closes its end, after which everything sent still arrives, or the
\* connection breaks after any byte.
End ==
    /\ Newest \notin ended /\ Newest > 0
    /\ ended' = ended \cup {Newest}
    /\ \E n \in 0 .. Len(stream[Newest]) :
          /\ stream' = [stream EXCEPT ![Newest] = SubSeq(@, 1, n)]
          /\ torn' = IF n = Len(stream[Newest]) THEN torn ELSE torn \cup {Newest}
    /\ UNCHANGED <<sent, srv, conn, hdr, executed, short>>

-----------------------------------------------------------------------------
(* The controller thread.                                                   *)

\* controller_accept takes the next connection of the backlog.
Accept ==
    /\ srv = "accept" /\ conn < Newest
    /\ conn' = conn + 1 /\ srv' = "header"
    /\ UNCHANGED <<sent, stream, ended, hdr, executed, short, torn>>

\* Setting the keep-alive options of the new socket fails: it is closed again.
AcceptFails ==
    /\ srv = "accept" /\ conn < Newest
    /\ conn' = conn + 1
    /\ ended' = ended \cup {conn'} /\ torn' = torn \cup {conn'}
    /\ UNCHANGED <<sent, stream, srv, hdr, executed, short>>

Bytes == IF conn = 0 THEN <<>> ELSE stream[conn]
AtEnd == Bytes = <<>> /\ conn \in ended

\* recv(n): any part of the bytes that have arrived, at most n; none at the end.
Received(n) ==
    {SubSeq(Bytes, 1, k) : k \in 1 .. (IF n < Len(Bytes) THEN n ELSE Len(Bytes))}
        \cup (IF AtEnd THEN {<<>>} ELSE {})

Consume(bytes) == stream' = [stream EXCEPT ![conn] = SubSeq(@, Len(bytes) + 1, Len(@))]

\* What follows a complete header: the body of a request, or the next header.
Dispatch(h) ==
    IF h[1] = TYPE_CNTRL /\ h[2] \in {CNTRL_ACT_REQ, CNTRL_ARM_REQ}
    THEN srv' = "body" /\ hdr' = h
    ELSE srv' = "header" /\ hdr' = <<>>

\* Faulty variant: a header that comes in two pieces is taken for a lost client.
ReceiveHeaderWhole ==
    /\ srv = "header"
    /\ \E bytes \in Received(HeaderSize) \ {<<>>} :
          /\ Consume(bytes)
          /\ IF Len(bytes) < HeaderSize THEN srv' = "accept" /\ hdr' = <<>> ELSE Dispatch(bytes)
    /\ UNCHANGED <<sent, ended, conn, executed, short, torn>>

\* Further pieces are appended until the header is complete.
ReceiveHeader ==
    /\ srv = "header"
    /\ \E bytes \in Received(HeaderSize - Len(hdr)) \ {<<>>} :
          /\ Consume(bytes)
          /\ LET h == hdr \o bytes IN
             IF Len(h) < HeaderSize THEN srv' = srv /\ hdr' = h ELSE Dispatch(h)
    /\ UNCHANGED <<sent, ended, conn, executed, short, torn>>

\* Faulty variant: the bytes of an unfinished header are kept for the next client.
LosesClientKeepsHeader ==
    /\ srv = "header" /\ AtEnd
    /\ srv' = "accept"
    /\ UNCHANGED <<sent, stream, ended, conn, hdr, executed, short, torn>>

\* Faulty variant: the end is noticed only between two requests.
LosesClientBetween ==
    /\ srv = "header" /\ AtEnd /\ hdr = <<>>
    /\ srv' = "accept"
    /\ UNCHANGED <<sent, stream, ended, conn, hdr, executed, short, torn>>

\* recv gives 0 or -1: whatever there is of a header is forgotten.
LosesClient ==
    /\ srv = "header" /\ AtEnd
    /\ srv' = "accept" /\ hdr' = <<>>
    /\ UNCHANGED <<sent, stream, ended, conn, executed, short, torn>>

\* One recv; whatever it does not fill is not initialized.
ReceiveBody ==
    /\ srv = "body"
    /\ LET n == BodySize(hdr[2]) IN
       \E bytes \in Received(n) : \E rest \in [1 .. n - Len(bytes) -> Garbage] :
          /\ Consume(bytes)
          /\ executed' = [executed EXCEPT ![conn] = Append(@, bytes \o rest)]
          /\ short' = IF Len(bytes) < n THEN short \cup {conn} ELSE short
    /\ srv' = "header" /\ hdr' = <<>>
    /\ UNCHANGED <<sent, ended, conn, torn>>

Client == Open \/ End \/ \E body \in Bodies : Send(body)
Server == Accept \/ AcceptFails \/ ReceiveHeader \/ LosesClient \/ ReceiveBody

StreamNext == Client \/ Server

StreamSpec == StreamInit /\ [][StreamNext]_streamVars

(***************************************************************************)
(* Fairness: the controller thread goes on while it is not blocked.        *)
(* Nothing is asked of the clients.                                        *)
(***************************************************************************)
FairStreamSpec == StreamSpec /\ WF_streamVars(Server)

-----------------------------------------------------------------------------
(* Properties.                                                              *)

(***************************************************************************)
(* Requests are executed as they were sent, in order and once, however the *)
(* stream was cut into pieces, wherever it ended, and whatever the         *)
(* connections before it left behind; the exception is a connection on     *)
(* which the one recv of a body came short (controller.c:357, 392).        *)
(***************************************************************************)
ExecutedAsSent ==
    \A c \in Opened \ short : IsPrefix(executed[c], sent[c])

(***************************************************************************)
(* The server leaves a connection only after it has executed everything    *)
(* that was sent on it, unless the connection lost bytes or a body came    *)
(* short.                                                                  *)
(***************************************************************************)
NothingLeftBehind ==
    \A c \in Opened \ (short \cup torn) :
        (c < conn \/ (c = conn /\ srv = "accept")) => executed[c] = sent[c]

(***************************************************************************)
(* A short body does not stop the server, nor does a connection that ends  *)
(* within a request: the client's newest connection is served in the end.  *)
(***************************************************************************)
ServerReturns ==
    \A c \in 1 .. MaxConns : (c = Newest) ~> (conn >= c)
(***************************************************************************)
(* Why they hold.  What is left of a stream is what is left of the         *)
(* requests: request k begins behind byte off[k] of it, the current one at *)
(* most a header before its first byte, and the last ends where the stream *)
(* does, or `lost' bytes later.  No offset is computed, which would take   *)
(* an induction: it is enough that there is one.                           *)
(***************************************************************************)
InStep(reqs, first, bytes, taken, lost) ==
    \E off \in [first .. Len(reqs) + 1 -> -HeaderSize .. 4 * MaxSent] :
       /\ off[first] + taken = 0
       /\ off[Len(reqs) + 1] = Len(bytes) + lost
       /\ \A k \in first .. Len(reqs) + 1 : off[k] <= 4 * (k - 1)
       /\ \A j, k \in first .. Len(reqs) + 1 : j <= k => off[j] <= off[k]
       /\ \A k \in first .. Len(reqs) : off[k + 1] = off[k] + Len(Encoded(reqs[k]))
       /\ \A k \in first .. Len(reqs) : \A i \in 1 .. Len(Encoded(reqs[k])) :
             off[k] + i \in 1 .. Len(bytes) => bytes[off[k] + i] = Encoded(reqs[k])[i]

Left(c)  == c < conn \/ (c = conn /\ srv = "accept")
Taken(c) == IF c = conn THEN Len(hdr) ELSE 0

\* A connection the server has not left is in step, and the header it has is that
\* of the request that comes next.
Aligned(c) ==
    /\ \E lost \in 0 .. 4 * MaxSent :
          /\ InStep(sent[c], Len(executed[c]) + 1, stream[c], Taken(c), lost)
          /\ c \notin torn => lost = 0
    /\ c = conn => \A i \in 1 .. Len(hdr) :
          Len(executed[c]) < Len(sent[c]) /\ hdr[i] = Encoded(sent[c][Len(executed[c]) + 1])[i]

\* The clients come one after the other.
InTurn ==
    /\ \A c \in Opened : c # Newest \/ Left(c) => c \in ended
    /\ \A c \in Opened : c > conn => executed[c] = <<>>

Agrees(c) ==
    /\ Len(executed[c]) <= Len(sent[c])
    /\ \A k \in 1 .. Len(executed[c]) : executed[c][k] = sent[c][k]

\* A connection the server has left was executed to its end, unless bytes were lost.
ConnInv(c) ==
    /\ Agrees(c)
    /\ ~Left(c) => Aligned(c)
    /\ Left(c) /\ c \notin torn => Len(executed[c]) = Len(sent[c])

StreamInv == StreamTypeOK /\ InTurn /\ \A c \in Opened \ short : ConnInv(c)
=============================================================================
