---------------------------- MODULE ControlLink ----------------------------
(***************************************************************************)
(* The control client and the pad server at the two ends of TCP: a request *)
(* (switch_callback), its acknowledgement, the loss of the connection and  *)
(* the way both sides return to a new one (control_client_main.c on the    *)
(* board, pad.c, switch.c; controller.c).  What the server decides is any  *)
(* status here: the rules are PadRules'.  A request arrives whole.         *)
(*                                                                         *)
(* Acknowledgements are read as bytes: an actuation is acknowledged by two *)
(* bytes, an arming request by one, and the client reads as many bytes as  *)
(* the request it sent last calls for.                                     *)
(***************************************************************************)
EXTENDS Integers, Sequences, FiniteSetsExt

CONSTANTS
    Requests,           \* requests: records with kind ("act" or "arm") and id
    ReceiveTimeout,     \* CONFIG_CLOCK_TIMEKEEPING: does the client's recv time out?
    DriverFails,        \* can actuator_set fail, so that no answer is sent?
    ServerStops,        \* can the server process end?
    OptionsFail,        \* can setting the options of a new socket fail?
    LinkErrors,         \* the errors a broken connection shows to the client
    MaxSends, MaxConns  \* bounds: requests sent, connections made

ASSUME LinkAssumption ==
    /\ \A r \in Requests : r.kind \in {"act", "arm"} /\ r.id \in 0 .. 255
    /\ {ReceiveTimeout, DriverFails, ServerStops, OptionsFail} \subseteq BOOLEAN
    /\ MaxSends \in Nat /\ MaxConns \in Nat

\* What recv and sendmsg say of a broken connection (ECONNRESET, ENOTCONN, ...) is
\* no errno that switch.c makes of a status.
Answers == {"ok", "EPERM", "ENODEV", "EINVAL"}

ASSUME ErrorAssumption == LinkErrors \cap Answers = {}

VARIABLES
    cli,            \* the client: "connect", "idle", or "waiting" for an answer
    cConn,          \* its connection, 0 if none
    sent,           \* history: the requests it has sent, or tried to
    verdict,        \* what switch_callback returned last
    late,           \* history: connections on which an answer may still come late
    conns,          \* connections made so far
    backlog,        \* connections waiting to be accepted
    broken,         \* connections that carry nothing any more
    closed,         \* connections closed by the client, and by the server
    up, down,       \* the bytes under way: requests, and tagged answer bytes
    srv, sConn,     \* the controller thread: "accept", "recv" or "stopped"
    executed,       \* history: the requests executed, by number
    outcome         \* history: the status of the last one

client == <<cli, cConn, sent, verdict, late>>
server == <<srv, sConn, executed, outcome>>
net    == <<conns, backlog, broken, closed, up, down>>
vars   == <<client, server, net>>

Conns   == 1 .. MaxConns
Latest  == Len(sent)
Current == sent[Latest]

Reconnect   == {"ENOTCONN", "ECONNABORTED", "ECONNREFUSED"}    \* control_client_main.c:427
AckLen(r)   == IF r.kind = "act" THEN 2 ELSE 1
Outcomes(r) == IF r.kind = "act" THEN 0 .. 3 ELSE 0 .. 2
Silent      == 4                            \* no acknowledgement
StatusByte  == 0 .. 4                       \* 4 stands for any value that is no status

\* check_act_response and check_arm_response: unknown statuses are successes.
Verdict(r, status) ==
    CASE status = 1                    -> "EPERM"
      [] r.kind = "act" /\ status = 2  -> "ENODEV"
      [] r.kind = "act" /\ status = 3  -> "EINVAL"
      [] r.kind = "arm" /\ status = 2  -> "EINVAL"
      [] OTHER                         -> "ok"

LinkTypeOK ==
    /\ cli \in {"connect", "idle", "waiting"}
    /\ cConn \in 0 .. conns /\ (cConn = 0 <=> cli = "connect")
    /\ sent \in Seq(Requests) /\ Len(sent) <= MaxSends
    /\ cli = "waiting" => sent # <<>>
    /\ verdict \in Answers \cup LinkErrors \cup {"none", "EAGAIN"}
    /\ late \subseteq Conns
    /\ conns \in 0 .. MaxConns
    /\ backlog \in Seq(1 .. conns) /\ Len(backlog) <= 1
    /\ broken \subseteq Conns
    /\ closed \in [{"client", "server"} -> SUBSET Conns]
    /\ srv \in {"accept", "recv", "stopped"}
    /\ sConn \in 0 .. conns /\ (sConn = 0 <=> srv # "recv")
    /\ outcome \in 0 .. Silent

LinkInit ==
    /\ cli = "connect" /\ cConn = 0 /\ sent = <<>> /\ verdict = "none" /\ late = {}
    /\ conns = 0 /\ backlog = <<>> /\ broken = {}
    /\ closed = [end \in {"client", "server"} |-> {}]
    /\ up = [c \in Conns |-> <<>>] /\ down = [c \in Conns |-> <<>>]
    /\ srv = "accept" /\ sConn = 0 /\ executed = <<>> /\ outcome = 0

-----------------------------------------------------------------------------
(* The client.                                                             *)

Close(end, c) == closed' = [closed EXCEPT ![end] = @ \cup {c}]

\* switch_callback returns v.  Some errors make main close the connection.
Returns(v) ==
    /\ verdict' = v
    /\ IF v \in Reconnect
       THEN cli' = "connect" /\ cConn' = 0 /\ Close("client", cConn)
       ELSE cli' = "idle" /\ cConn' = cConn /\ closed' = closed

\* Faulty variant: a request that met an error is sent again.
ConnectResends ==
    /\ cli = "connect"
    /\ srv # "stopped" /\ backlog = <<>> /\ conns < MaxConns
    /\ conns' = conns + 1
    /\ backlog' = <<conns'>>
    /\ cConn' = conns'
    /\ IF sent # <<>>
       THEN up' = [up EXCEPT ![conns'] = <<Latest>>] /\ cli' = "waiting"
       ELSE up' = up /\ cli' = "idle"
    /\ UNCHANGED <<sent, verdict, late, broken, closed, down, server>>

\* pad_init and pad_connect_forever: the backlog holds one connection.
Connect ==
    /\ cli = "connect"
    /\ srv # "stopped" /\ backlog = <<>> /\ conns < MaxConns
    /\ conns' = conns + 1
    /\ backlog' = <<conns'>>
    /\ cConn' = conns' /\ cli' = "idle"
    /\ UNCHANGED <<sent, verdict, late, broken, closed, up, down, server>>

\* A switch was flipped: switch_callback up to the receipt.  Nothing the client
\* sends on a dead connection arrives.
Send(r) ==
    /\ cli = "idle"
    /\ Len(sent) < MaxSends
    /\ sent' = Append(sent, r)
    /\ cli' = "waiting"
    /\ up' = IF cConn \in broken \cup closed["server"] THEN up
             ELSE [up EXCEPT ![cConn] = Append(@, Len(sent'))]
    /\ UNCHANGED <<cConn, verdict, late, conns, backlog, broken, closed, down, server>>

\* ... or sendmsg fails at once.
SendFails(r) ==
    /\ cli = "idle"
    /\ Len(sent) < MaxSends
    /\ cConn \in broken \cup closed["server"]
    /\ sent' = Append(sent, r)
    /\ \E e \in LinkErrors : Returns(e)
    /\ UNCHANGED <<late, conns, backlog, broken, up, down, server>>

\* recv: as many bytes as are there, up to the size of the acknowledgement.  A
\* byte that was not read is uninitialized.
ReceiveAck ==
    /\ cli = "waiting"
    /\ down[cConn] # <<>>
    /\ LET n == Min({AckLen(Current), Len(down[cConn])}) IN
       /\ \E status \in IF n = AckLen(Current) THEN {down[cConn][n].value} ELSE StatusByte :
             Returns(Verdict(Current, status))
       /\ down' = [down EXCEPT ![cConn] = SubSeq(@, n + 1, Len(@))]
    /\ UNCHANGED <<sent, late, conns, backlog, broken, up, server>>

\* SO_RCVTIMEO expires.
ReceiveTimesOut ==
    /\ ReceiveTimeout
    /\ cli = "waiting"
    /\ down[cConn] = <<>>
    /\ Returns("EAGAIN")
    /\ late' = late \cup {cConn}
    /\ UNCHANGED <<sent, conns, backlog, broken, up, down, server>>

\* recv returns 0: the acknowledgement is uninitialized as a whole.
ReceiveEof ==
    /\ cli = "waiting"
    /\ down[cConn] = <<>>
    /\ cConn \in closed["server"] \ broken
    /\ \E status \in StatusByte : Returns(Verdict(Current, status))
    /\ UNCHANGED <<sent, late, conns, backlog, broken, up, down, server>>

ReceiveFails ==
    /\ cli = "waiting"
    /\ down[cConn] = <<>>
    /\ cConn \in broken
    /\ \E e \in LinkErrors : Returns(e)
    /\ UNCHANGED <<sent, late, conns, backlog, broken, up, down, server>>

-----------------------------------------------------------------------------
(* The server: controller_run.                                             *)

\* controller_accept.  (An accept that takes no connection changes nothing.)
Accept ==
    /\ srv = "accept"
    /\ backlog # <<>>
    /\ srv' = "recv" /\ sConn' = Head(backlog)
    /\ backlog' = Tail(backlog)
    /\ UNCHANGED <<client, executed, outcome, conns, broken, closed, up, down>>

\* The connection is accepted, but the keep-alive options cannot be set: it is closed,
\* with all that was sent on it, and the next one awaited.
AcceptFails ==
    /\ OptionsFail
    /\ srv = "accept"
    /\ backlog # <<>>
    /\ backlog' = Tail(backlog)
    /\ Close("server", Head(backlog))
    /\ up' = [up EXCEPT ![Head(backlog)] = <<>>]
    /\ UNCHANGED <<client, srv, sConn, executed, outcome, conns, broken, down>>

AckBytes(n, status) ==
    IF sent[n].kind = "act"
    THEN <<[of |-> n, value |-> sent[n].id], [of |-> n, value |-> status]>>
    ELSE <<[of |-> n, value |-> status]>>

\* Faulty variant: a case without its break, that answers twice.
ExecuteAnswersTwice ==
    /\ srv = "recv"
    /\ up[sConn] # <<>>
    /\ LET n == Head(up[sConn]) IN
       /\ up' = [up EXCEPT ![sConn] = Tail(@)]
       /\ executed' = Append(executed, n)
       /\ outcome' \in Outcomes(sent[n]) \cup IF DriverFails THEN {Silent} ELSE {}
       /\ down' = IF outcome' = Silent \/ sConn \in broken \cup closed["client"] THEN down
                  ELSE [down EXCEPT ![sConn] = @ \o AckBytes(n, outcome') \o AckBytes(n, outcome')]
    /\ UNCHANGED <<client, srv, sConn, conns, backlog, broken, closed>>

\* A request is read, executed and acknowledged; a driver error is met with
\* silence.
Execute ==
    /\ srv = "recv"
    /\ up[sConn] # <<>>
    /\ LET n == Head(up[sConn]) IN
       /\ up' = [up EXCEPT ![sConn] = Tail(@)]
       /\ executed' = Append(executed, n)
       /\ \/ outcome' \in Outcomes(sent[n])
          \/ DriverFails /\ sent[n].kind = "act" /\ outcome' = Silent
       /\ down' = IF outcome' = Silent \/ sConn \in broken \cup closed["client"] THEN down
                  ELSE [down EXCEPT ![sConn] = @ \o AckBytes(n, outcome')]
    /\ UNCHANGED <<client, srv, sConn, conns, backlog, broken, closed>>

\* Faulty variant: an error of recv is not the end of the connection.
ServerLosesClientEofOnly ==
    /\ srv = "recv"
    /\ up[sConn] = <<>>
    /\ sConn \in closed["client"] \ broken
    /\ srv' = "accept" /\ sConn' = 0
    /\ Close("server", sConn)
    /\ UNCHANGED <<client, executed, outcome, conns, backlog, broken, up, down>>

\* recv returns 0 or an error (keep-alive finds a broken connection): the
\* connection is closed and the next one accepted.
ServerLosesClient ==
    /\ srv = "recv"
    /\ up[sConn] = <<>>
    /\ sConn \in broken \cup closed["client"]
    /\ srv' = "accept" /\ sConn' = 0
    /\ Close("server", sConn)
    /\ UNCHANGED <<client, executed, outcome, conns, backlog, broken, up, down>>

\* The process ends: its connections are closed, what it had not read is lost.
Stop ==
    /\ ServerStops
    /\ srv # "stopped"
    /\ srv' = "stopped" /\ sConn' = 0
    /\ closed' = [closed EXCEPT !["server"] = 1 .. conns]
    /\ backlog' = <<>>
    /\ UNCHANGED <<client, executed, outcome, conns, broken, up, down>>

\* NuttX only: a second listen fails with EADDRINUSE, the select that follows
\* times out, and nxfail stops the program.
AbortsWaiting ==
    /\ ServerStops
    /\ srv = "accept" /\ closed["server"] # {} /\ backlog = <<>>
    /\ srv' = "stopped"
    /\ closed' = [closed EXCEPT !["server"] = 1 .. conns]
    /\ UNCHANGED <<client, sConn, executed, outcome, conns, backlog, broken, up, down>>

-----------------------------------------------------------------------------
\* The network: a connection breaks, and loses any tail of what is under way.
\* An acknowledgement is one segment: it arrives whole or not at all.
Boundaries(bytes) ==
    {j \in 0 .. Len(bytes) : j \in {0, Len(bytes)} \/ bytes[j].of # bytes[j + 1].of}

Break(c) ==
    /\ c \in 1 .. conns /\ c \notin broken
    /\ broken' = broken \cup {c}
    /\ \E i \in 0 .. Len(up[c]), j \in Boundaries(down[c]) :
          /\ up' = [up EXCEPT ![c] = SubSeq(@, 1, i)]
          /\ down' = [down EXCEPT ![c] = SubSeq(@, 1, j)]
    /\ UNCHANGED <<client, server, conns, backlog, closed>>

ClientReceives == ReceiveAck \/ ReceiveEof \/ ReceiveFails
ServerSteps    == Accept \/ AcceptFails \/ Execute \/ ServerLosesClient

LinkNext ==
    \/ Connect
    \/ \E r \in Requests : Send(r) \/ SendFails(r)
    \/ ClientReceives \/ ReceiveTimesOut
    \/ ServerSteps
    \/ Stop \/ AbortsWaiting
    \/ \E c \in Conns : Break(c)

LinkSpec == LinkInit /\ [][LinkNext]_vars

(***************************************************************************)
(* Fairness: both programs take the steps they can (keep-alive makes the   *)
(* server notice a broken connection); nothing makes a switch be flipped,  *)
(* and no property relies on a receive that times out.                     *)
(***************************************************************************)
FairLinkSpec ==
    LinkSpec /\ WF_vars(Connect) /\ WF_vars(ClientReceives) /\ WF_vars(ServerSteps)

-----------------------------------------------------------------------------
(* Properties.                                                             *)

(***************************************************************************)
(* Requests are executed in the order they were sent and at most once,     *)
(* also across a lost connection and a new one: the server finishes what   *)
(* it has received on the old one before it accepts the next, and the      *)
(* client never repeats a request.                                         *)
(***************************************************************************)
ExecutedInOrder == \A i, j \in DOMAIN executed : i < j => executed[i] < executed[j]

(***************************************************************************)
(* The inductive invariant behind it: only the connection the server has   *)
(* and the one that waits for it still carry requests, those of the first  *)
(* are older than those of the second, and the executed ones older still.  *)
(***************************************************************************)
Increasing(s)  == \A i, j \in DOMAIN s : i < j => s[i] < s[j]
Precedes(s, t) == \A i \in DOMAIN s, j \in DOMAIN t : s[i] < t[j]

Served(c) == c = sConn \/ backlog = <<c>>

EndsInv ==
    /\ sent \in Seq(Requests) /\ executed \in Seq(Nat) /\ up \in [Conns -> Seq(Nat)]
    /\ conns \in 0 .. MaxConns /\ backlog \in {<<>>, <<conns>>}
    /\ backlog # <<>> => conns \in Conns
    /\ cConn \in {0, conns} /\ (cConn = 0 => cli = "connect")
    /\ sConn \in IF srv = "recv" THEN 1 .. conns ELSE {0}
    /\ backlog # <<>> => sConn # conns
    /\ closed \in [{"client", "server"} -> SUBSET Conns]
    /\ srv # "stopped" =>
          \A c \in Conns : (c <= conns /\ c \notin closed["server"]) \/ up[c] # <<>> => Served(c)

OrderInv ==
    /\ EndsInv
    /\ ExecutedInOrder /\ \A n \in DOMAIN executed : executed[n] <= Latest
    /\ \A c \in Conns : Increasing(up[c]) /\ \A n \in DOMAIN up[c] : up[c][n] <= Latest
    /\ srv # "stopped" =>
          /\ \A c \in Conns : Precedes(executed, up[c])
          /\ srv = "recv" /\ backlog # <<>> => Precedes(up[sConn], up[conns])

(***************************************************************************)
(* The bytes a waiting client can read belong to the request it waits for, *)
(* on every connection on which no receive has timed out.                  *)
(***************************************************************************)
AnswerBelongs ==
    cli = "waiting" /\ cConn \notin late =>
        \A i \in DOMAIN down[cConn] : down[cConn][i].of = Latest

(***************************************************************************)
(* switch.c:8 and switch.c:34: "Verifies the response of ..."; "0 on       *)
(* success, errno code on failure".  When switch_callback tells how a      *)
(* request was answered, the server has executed it with that very result. *)
(***************************************************************************)
VerdictTrue ==
    cli # "waiting" /\ verdict \in Answers =>
        /\ executed # <<>> /\ executed[Len(executed)] = Latest
        /\ outcome # Silent /\ verdict = Verdict(Current, outcome)

(***************************************************************************)
(* The same, but for what is made of a late answer and of the end of a     *)
(* connection the server has closed (it ended, or could not set the        *)
(* options of a new socket): no driver error, no broken, new or older      *)
(* connection makes the client believe what did not happen.                *)
(***************************************************************************)
VerdictTrueInTime == cConn \notin late \cup closed["server"] => VerdictTrue

(***************************************************************************)
(* The inductive invariant behind the two: on a connection no receive has  *)
(* timed out on, nothing is left to be read or executed when the client is *)
(* idle; when it waits, a server it can still reach holds no request but   *)
(* the one it waits for, and what can be read is the whole answer to it.   *)
(***************************************************************************)
Heeded == executed # <<>> /\ executed[Len(executed)] = Latest

WholeAnswer == Heeded /\ outcome \in Outcomes(Current) /\ down[cConn] = AckBytes(Latest, outcome)

Reached(c) == srv # "stopped" /\ c \notin broken \cup closed["server"]

NetInv ==
    /\ DOMAIN down = Conns
    /\ late \subseteq Conns
    /\ cli = "waiting" => sent # <<>>
    /\ (cConn = 0 <=> cli = "connect") /\ cConn \notin closed["client"]
    /\ \A c \in Conns : c > conns => down[c] = <<>> /\ c \notin closed["client"]
    /\ \A c \in closed["server"] : c <= conns /\ c # sConn /\ backlog # <<c>>

Quiet ==
    /\ down[cConn] # <<>> => cli = "waiting" /\ WholeAnswer
    /\ Reached(cConn) => \A n \in DOMAIN up[cConn] : cli = "waiting" /\ up[cConn][n] = Latest

AnswerInv ==
    /\ OrderInv
    /\ NetInv
    /\ cConn # 0 /\ cConn \notin late => Quiet
    /\ VerdictTrueInTime

(***************************************************************************)
(* A connected client is served in the end, unless its connection breaks   *)
(* or the server closes it (it ends, or cannot set the options of the new  *)
(* socket): it is not left in the backlog behind an older connection.      *)
(***************************************************************************)
ClientServed ==
    \A c \in Conns : (cConn = c) ~> (sConn = c \/ c \in broken \cup closed["server"] \/ cConn # c)

(***************************************************************************)
(* Even without a time-out a client is not left waiting for an answer,     *)
(* unless the driver failed in the execution of that very request, which   *)
(* the server passes over in silence.                                      *)
(***************************************************************************)
PassedOver == outcome = Silent /\ executed[Len(executed)] = Latest

ClientReturns == (cli = "waiting") ~> (cli # "waiting" \/ PassedOver)
=============================================================================
