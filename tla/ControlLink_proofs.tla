------------------------- MODULE ControlLink_proofs -------------------------
(***************************************************************************)
(* Requests are executed in the order they were sent and at most once, for *)
(* any set of requests, any errors of the connection and any number of     *)
(* requests and connections.  The requests under way lie in one line:      *)
(* those executed, those on the connection the server has, those on the    *)
(* connection that waits to be accepted.  Requests join at its end, since  *)
(* the client sends on its latest connection only; the server takes them   *)
(* from its front, since it empties a connection before it lets go of it.  *)
(***************************************************************************)
EXTENDS ControlLink, TLAPS

(***************************************************************************)
(* Increasing sequences of numbers.                                        *)
(***************************************************************************)
LEMMA AppendToIncreasing ==
    ASSUME NEW s \in Seq(Nat), NEW x \in Nat, Increasing(s), \A n \in DOMAIN s : s[n] < x
    PROVE  Append(s, x) \in Seq(Nat) /\ Increasing(Append(s, x))
<1> DEFINE t == Append(s, x)
<1>1. /\ t \in Seq(Nat) /\ Len(s) \in Nat /\ DOMAIN s = 1 .. Len(s)
      /\ DOMAIN t = 1 .. Len(s) + 1 /\ t[Len(s) + 1] = x
      /\ \A n \in 1 .. Len(s) : t[n] = s[n] /\ s[n] \in Nat
  OBVIOUS
<1> HIDE DEF t
<1>2. Increasing(t)
  <2> SUFFICES ASSUME NEW i \in DOMAIN t, NEW j \in DOMAIN t, i < j PROVE t[i] < t[j]
    BY DEF Increasing
  <2>1. i \in 1 .. Len(s)
    BY <1>1
  <2>2. CASE j = Len(s) + 1
    BY <1>1, <2>1, <2>2
  <2>3. CASE j \in 1 .. Len(s)
    BY <1>1, <2>1, <2>3 DEF Increasing
  <2> QED
    BY <1>1, <2>2, <2>3
<1> QED
  BY <1>1, <1>2 DEF t

\* Every element of an extended sequence is old or new.
LEMMA AppendElements ==
    ASSUME NEW s \in Seq(Nat), NEW x \in Nat
    PROVE  \A n \in DOMAIN Append(s, x) :
              Append(s, x)[n] = x \/ \E k \in DOMAIN s : Append(s, x)[n] = s[k]
OBVIOUS

\* What is left of a sequence when its ends are cut off.
LEMMA PartIncreasing ==
    ASSUME NEW s \in Seq(Nat), NEW t \in Seq(Nat), NEW d \in Nat, d + Len(t) <= Len(s),
           \A k \in 1 .. Len(t) : t[k] = s[d + k], Increasing(s)
    PROVE  /\ Increasing(t)
           /\ \A n \in DOMAIN t : \E k \in DOMAIN s : t[n] = s[k]
<1>1. Len(s) \in Nat /\ Len(t) \in Nat /\ DOMAIN s = 1 .. Len(s) /\ DOMAIN t = 1 .. Len(t)
  OBVIOUS
<1>2. \A k \in 1 .. Len(t) : d + k \in 1 .. Len(s)
  BY <1>1
<1>3. Increasing(t)
  <2> SUFFICES ASSUME NEW i \in 1 .. Len(t), NEW j \in 1 .. Len(t), i < j PROVE t[i] < t[j]
    BY <1>1 DEF Increasing
  <2>1. d + i < d + j
    OBVIOUS
  <2> QED
    BY <1>1, <1>2, <2>1 DEF Increasing
<1> QED
  BY <1>1, <1>2, <1>3

LEMMA FirstAndRest ==
    ASSUME NEW s \in Seq(Nat), s # <<>>, Increasing(s)
    PROVE  /\ Head(s) \in Nat /\ Tail(s) \in Seq(Nat) /\ Increasing(Tail(s))
           /\ \E k \in DOMAIN s : Head(s) = s[k]
           /\ \A n \in DOMAIN Tail(s) : Head(s) < Tail(s)[n]
           /\ \A n \in DOMAIN Tail(s) : \E k \in DOMAIN s : Tail(s)[n] = s[k]
<1> DEFINE t == Tail(s)
<1>1. /\ t \in Seq(Nat) /\ Len(s) \in Nat /\ Len(t) = Len(s) - 1 /\ Head(s) = s[1]
      /\ Head(s) \in Nat /\ 1 \in DOMAIN s
      /\ DOMAIN s = 1 .. Len(s) /\ DOMAIN t = 1 .. Len(s) - 1
      /\ \A k \in 1 .. Len(t) : t[k] = s[1 + k]
  OBVIOUS
<1> HIDE DEF t
<1>2. 1 \in Nat /\ 1 + Len(t) <= Len(s)
  BY <1>1
<1>3. Increasing(t) /\ \A n \in DOMAIN t : \E k \in DOMAIN s : t[n] = s[k]
  BY <1>1, <1>2, PartIncreasing
<1>4. \A n \in DOMAIN t : Head(s) < t[n]
  <2> TAKE n \in DOMAIN t
  <2>1. 1 + n \in DOMAIN s /\ 1 < 1 + n /\ t[n] = s[1 + n]
    BY <1>1
  <2> QED
    BY <1>1, <2>1 DEF Increasing
<1> QED
  BY <1>1, <1>3, <1>4 DEF t

-----------------------------------------------------------------------------
(* The steps.                                                              *)

LEMMA InitOrder == LinkInit => OrderInv
<1> SUFFICES ASSUME LinkInit PROVE OrderInv
  OBVIOUS
<1>1. MaxConns \in Nat
  BY LinkAssumption
<1>2. EndsInv
  BY <1>1 DEF LinkInit, EndsInv, Conns
<1>3. executed = <<>> /\ \A c \in Conns : up[c] = <<>>
  BY DEF LinkInit
<1>4. ExecutedInOrder
  BY <1>3 DEF ExecutedInOrder
<1>5. /\ \A n \in DOMAIN executed : executed[n] <= Latest
      /\ \A c \in Conns : Increasing(up[c]) /\ \A n \in DOMAIN up[c] : up[c][n] <= Latest
      /\ \A c \in Conns : Precedes(executed, up[c])
  BY <1>3 DEF Increasing, Precedes
<1>6. srv # "recv"
  BY DEF LinkInit
<1> QED
  BY <1>2, <1>4, <1>5, <1>6 DEF OrderInv

\* The steps that leave the requests and the server alone.
LEMMA QuietLink ==
    ASSUME OrderInv, UNCHANGED <<sent, executed, up, conns, backlog, srv, sConn>>,
           cConn' \in {0, conns}, cConn' = 0 => cli' = "connect",
           closed' \in [{"client", "server"} -> SUBSET Conns],
           closed'["server"] = closed["server"]
    PROVE  OrderInv'
<1>1. EndsInv'
  BY DEF OrderInv, EndsInv, Served
<1> QED
  BY <1>1 DEF OrderInv, ExecutedInOrder, Latest

\* The client's end, after a call of switch_callback.
LEMMA ReturnsFacts ==
    ASSUME EndsInv, cli # "connect", NEW v, Returns(v)
    PROVE  /\ cConn' \in {0, conns} /\ (cConn' = 0 => cli' = "connect")
           /\ closed' \in [{"client", "server"} -> SUBSET Conns]
           /\ closed'["server"] = closed["server"]
<1>1. cConn \in Conns /\ cConn = conns /\ cConn # 0
  BY LinkAssumption DEF EndsInv, Conns
<1>2. CASE v \in Reconnect
  <2>1. cli' = "connect" /\ cConn' = 0
        /\ closed' = [closed EXCEPT !["client"] = @ \cup {cConn}]
    BY <1>2 DEF Returns, Close
  <2> QED
    BY <1>1, <2>1 DEF EndsInv
<1>3. CASE v \notin Reconnect
  BY <1>1, <1>3 DEF Returns, EndsInv
<1> QED
  BY <1>2, <1>3

LEMMA ClientSteps ==
    ASSUME OrderInv, ReceiveAck \/ ReceiveEof \/ ReceiveFails \/ ReceiveTimesOut
    PROVE  OrderInv'
<1>1. UNCHANGED <<sent, executed, up, conns, backlog, srv, sConn>> /\ cli # "connect"
  BY DEF ReceiveAck, ReceiveEof, ReceiveFails, ReceiveTimesOut, server
<1>2. \E v : Returns(v)
  BY Zenon DEF ReceiveAck, ReceiveEof, ReceiveFails, ReceiveTimesOut
<1> QED
  BY <1>1, <1>2, ReturnsFacts, QuietLink DEF OrderInv

LEMMA ConnectStep ==
    ASSUME OrderInv, Connect
    PROVE  OrderInv'
<1> USE DEF server
<1>1. /\ conns \in Nat /\ conns < MaxConns /\ conns' = conns + 1 /\ backlog' = <<conns'>>
      /\ backlog = <<>> /\ cConn' = conns' /\ srv # "stopped" /\ MaxConns \in Nat
      /\ sConn \in 0 .. conns
      /\ UNCHANGED <<sent, executed, up, closed, srv, sConn>>
  BY LinkAssumption DEF Connect, OrderInv, EndsInv
<1>2. conns' \in Conns /\ conns' # sConn /\ conns' # 0 /\ conns' \in 0 .. MaxConns
  BY <1>1 DEF Conns
<1>3. up[conns'] = <<>>
  BY <1>1, <1>2 DEF OrderInv, EndsInv, Served
<1>4. EndsInv'
  <2>1. \A c \in Conns : c <= conns' => c <= conns \/ c = conns'
    BY <1>1 DEF Conns
  <2>2. \A c \in Conns : (c <= conns' /\ c \notin closed'["server"]) \/ up'[c] # <<>>
                            => Served(c)'
    BY <1>1, <1>2, <1>3, <2>1 DEF OrderInv, EndsInv, Served
  <2>3. sConn' \in IF srv' = "recv" THEN 1 .. conns' ELSE {0}
    BY <1>1 DEF OrderInv, EndsInv
  <2> QED
    BY <1>1, <1>2, <2>2, <2>3 DEF OrderInv, EndsInv
<1>5. Precedes(up[sConn], up[conns'])
  BY <1>3 DEF Precedes
<1> QED
  BY <1>1, <1>4, <1>5 DEF OrderInv, ExecutedInOrder, Latest

LEMMA SentGrows ==
    ASSUME EndsInv, NEW r \in Requests, sent' = Append(sent, r)
    PROVE  sent' \in Seq(Requests) /\ Len(sent) \in Nat /\ Len(sent') = Len(sent) + 1
BY DEF EndsInv

\* A request joins the line at its end.
LEMMA SendStep ==
    ASSUME OrderInv, NEW r \in Requests, Send(r)
    PROVE  OrderInv'
<1> USE DEF server
<1>1. /\ sent' = Append(sent, r) /\ cli = "idle" /\ cli' = "waiting"
      /\ UNCHANGED <<cConn, conns, backlog, closed, executed, srv, sConn>>
  BY DEF Send
<1>2. sent' \in Seq(Requests) /\ Latest \in Nat /\ Latest' = Latest + 1
  BY <1>1, SentGrows DEF OrderInv, Latest
<1>3. cConn = conns /\ cConn \in Conns
  BY <1>1, LinkAssumption DEF OrderInv, EndsInv, Conns
<1>4. executed \in Seq(Nat) /\ up \in [Conns -> Seq(Nat)]
      /\ \A n \in DOMAIN executed : executed[n] \in Nat
  BY DEF OrderInv, EndsInv
<1>5. \A n \in DOMAIN executed : executed[n] < Latest' /\ executed[n] <= Latest'
  BY <1>2, <1>4 DEF OrderInv
<1>6. \A c \in Conns : \A n \in DOMAIN up[c] : up[c][n] < Latest' /\ up[c][n] <= Latest'
  <2>1. \A c \in Conns : \A n \in DOMAIN up[c] : up[c][n] \in Nat /\ up[c][n] <= Latest
    BY <1>4 DEF OrderInv
  <2> QED
    BY <1>2, <2>1
<1>7. CASE up' = up
  <2>1. EndsInv'
    BY <1>1, <1>2, <1>3, <1>7 DEF OrderInv, EndsInv, Served
  <2> QED
    BY <1>1, <1>2, <1>5, <1>6, <1>7, <2>1 DEF OrderInv, ExecutedInOrder
<1>8. CASE cConn \notin closed["server"] /\ up' = [up EXCEPT ![cConn] = Append(@, Latest')]
  <2> DEFINE s == up[cConn]
  <2>1. s \in Seq(Nat) /\ Increasing(s) /\ \A n \in DOMAIN s : s[n] < Latest'
    BY <1>3, <1>4, <1>6 DEF OrderInv
  <2>2. /\ up'[cConn] = Append(s, Latest')
        /\ \A c \in Conns : c # cConn => up'[c] = up[c]
    BY <1>3, <1>4, <1>8
  <2> HIDE DEF s
  <2>3. /\ Append(s, Latest') \in Seq(Nat) /\ Increasing(Append(s, Latest'))
        /\ \A n \in DOMAIN Append(s, Latest') :
              Append(s, Latest')[n] = Latest' \/ \E k \in DOMAIN s : Append(s, Latest')[n] = s[k]
    <3>1. Latest' \in Nat
      BY <1>2
    <3> QED
      BY <2>1, <3>1, AppendToIncreasing, AppendElements
  <2>4. up' \in [Conns -> Seq(Nat)]
    BY <1>3, <1>4, <1>8, <2>3 DEF s
  <2>5. srv # "stopped" => Served(cConn)
    BY <1>3, <1>8 DEF OrderInv, EndsInv
  <2>6. EndsInv'
    <3>1. srv # "stopped" =>
             \A c \in Conns : (c <= conns /\ c \notin closed["server"]) \/ up'[c] # <<>>
                                 => Served(c)'
      BY <1>1, <2>2, <2>5 DEF OrderInv, EndsInv, Served
    <3> QED
      BY <1>1, <1>2, <1>3, <2>4, <3>1 DEF OrderInv, EndsInv
  <2>7. \A c \in Conns : Increasing(up'[c]) /\ \A n \in DOMAIN up'[c] : up'[c][n] <= Latest'
    <3> TAKE c \in Conns
    <3>1. CASE c = cConn
      <4>1. \A n \in DOMAIN s : s[n] <= Latest'
        BY <1>3, <1>6 DEF s
      <4>2. Latest' <= Latest'
        BY <1>2
      <4> QED
        BY <2>2, <2>3, <3>1, <4>1, <4>2
    <3>2. CASE c # cConn
      BY <1>6, <2>2, <3>2 DEF OrderInv
    <3> QED
      BY <3>1, <3>2
  <2>8. srv # "stopped" => \A c \in Conns : Precedes(executed, up'[c])
    <3> SUFFICES ASSUME srv # "stopped", NEW c \in Conns PROVE Precedes(executed, up'[c])
      OBVIOUS
    <3>1. Precedes(executed, up[c])
      BY DEF OrderInv
    <3>2. CASE c = cConn
      BY <1>5, <2>2, <2>3, <3>1, <3>2 DEF Precedes, s
    <3>3. CASE c # cConn
      BY <2>2, <3>1, <3>3
    <3> QED
      BY <3>2, <3>3
  <2>9. srv = "recv" /\ backlog # <<>> => Precedes(up'[sConn], up'[conns])
    <3> SUFFICES ASSUME srv = "recv", backlog # <<>> PROVE Precedes(up'[sConn], up'[conns])
      OBVIOUS
    <3>1. Precedes(up[sConn], up[conns]) /\ sConn # conns /\ sConn \in Conns
      BY LinkAssumption DEF OrderInv, EndsInv, Conns
    <3>2. \A n \in DOMAIN up[sConn] : up[sConn][n] < Latest'
      BY <1>6, <3>1
    <3> QED
      BY <1>3, <2>2, <2>3, <3>1, <3>2 DEF Precedes, s
  <2>10. ExecutedInOrder' /\ \A n \in DOMAIN executed' : executed'[n] <= Latest'
    BY <1>1, <1>2, <1>4, <1>5 DEF OrderInv, ExecutedInOrder
  <2> QED
    BY <1>1, <2>6, <2>7, <2>8, <2>9, <2>10 DEF OrderInv
<1> QED
  BY <1>7, <1>8 DEF Send, Latest

\* ... or does not, when sendmsg fails.
LEMMA SendFailsStep ==
    ASSUME OrderInv, NEW r \in Requests, SendFails(r)
    PROVE  OrderInv'
<1> USE DEF server
<1>1. /\ sent' = Append(sent, r) /\ cli # "connect" /\ \E v : Returns(v)
      /\ UNCHANGED <<conns, backlog, up, executed, srv, sConn>>
  BY DEF SendFails
<1>2. sent' \in Seq(Requests) /\ Latest \in Nat /\ Latest' = Latest + 1
  BY <1>1, SentGrows DEF OrderInv, Latest
<1>3. /\ cConn' \in {0, conns} /\ (cConn' = 0 => cli' = "connect")
      /\ closed' \in [{"client", "server"} -> SUBSET Conns]
      /\ closed'["server"] = closed["server"]
  BY <1>1, ReturnsFacts DEF OrderInv
<1>4. EndsInv'
  BY <1>1, <1>2, <1>3 DEF OrderInv, EndsInv, Served
<1>5. \A n \in DOMAIN executed : executed[n] <= Latest'
  <2>1. \A n \in DOMAIN executed : executed[n] \in Nat /\ executed[n] <= Latest
    BY DEF OrderInv, EndsInv
  <2> QED
    BY <1>2, <2>1
<1>6. \A c \in Conns : \A n \in DOMAIN up[c] : up[c][n] <= Latest'
  <2>1. \A c \in Conns : \A n \in DOMAIN up[c] : up[c][n] \in Nat /\ up[c][n] <= Latest
    BY DEF OrderInv, EndsInv
  <2> QED
    BY <1>2, <2>1
<1> QED
  BY <1>1, <1>4, <1>5, <1>6 DEF OrderInv, ExecutedInOrder

\* The server takes the next connection when it has none.
LEMMA AcceptStep ==
    ASSUME OrderInv, Accept
    PROVE  OrderInv'
<1> USE DEF client
<1>1. /\ srv = "accept" /\ srv' = "recv" /\ backlog = <<conns>> /\ backlog' = <<>>
      /\ sConn' = conns /\ sConn = 0 /\ conns \in Conns /\ conns \in Nat
      /\ UNCHANGED <<sent, cli, cConn, conns, closed, executed, up>>
  <2>1. /\ srv = "accept" /\ srv' = "recv" /\ backlog # <<>> /\ sConn' = Head(backlog)
        /\ backlog' = Tail(backlog)
        /\ UNCHANGED <<sent, cli, cConn, conns, closed, executed, up>>
    BY DEF Accept
  <2>2. backlog = <<conns>> /\ conns \in Conns /\ conns \in Nat /\ sConn = 0
    BY <2>1, LinkAssumption DEF OrderInv, EndsInv
  <2>3. Head(<<conns>>) = conns /\ Tail(<<conns>>) = <<>>
    OBVIOUS
  <2> QED
    BY <2>1, <2>2, <2>3
<1>2. \A c \in Conns : Served(c) => Served(c)'
  BY <1>1 DEF Served, Conns
<1>3. EndsInv'
  BY <1>1, <1>2, LinkAssumption DEF OrderInv, EndsInv, Conns
<1> QED
  BY <1>1, <1>3 DEF OrderInv, ExecutedInOrder, Latest

\* ... or closes it at once, and what was sent on it is lost.
LEMMA AcceptFailsStep ==
    ASSUME OrderInv, AcceptFails
    PROVE  OrderInv'
<1> USE DEF client
<1>1. /\ srv = "accept" /\ srv' = srv /\ backlog = <<conns>> /\ backlog' = <<>>
      /\ sConn' = sConn /\ conns \in Conns /\ conns \in Nat
      /\ closed' = [closed EXCEPT !["server"] = @ \cup {conns}]
      /\ up' = [up EXCEPT ![conns] = <<>>]
      /\ UNCHANGED <<sent, cli, cConn, conns, executed>>
  <2>1. /\ srv = "accept" /\ backlog # <<>> /\ backlog' = Tail(backlog)
        /\ closed' = [closed EXCEPT !["server"] = @ \cup {Head(backlog)}]
        /\ up' = [up EXCEPT ![Head(backlog)] = <<>>]
        /\ UNCHANGED <<sent, cli, cConn, srv, sConn, conns, executed>>
    BY DEF AcceptFails, Close
  <2>2. backlog = <<conns>> /\ conns \in Conns /\ conns \in Nat
    BY <2>1, LinkAssumption DEF OrderInv, EndsInv
  <2>3. Head(<<conns>>) = conns /\ Tail(<<conns>>) = <<>>
    OBVIOUS
  <2> QED
    BY <2>1, <2>2, <2>3
<1>2. /\ closed' \in [{"client", "server"} -> SUBSET Conns]
      /\ closed'["server"] = closed["server"] \cup {conns}
  BY <1>1 DEF OrderInv, EndsInv
<1>3. /\ up' \in [Conns -> Seq(Nat)] /\ up'[conns] = <<>>
      /\ \A c \in Conns : c # conns => up'[c] = up[c]
  <2>1. up \in [Conns -> Seq(Nat)] /\ <<>> \in Seq(Nat)
    BY DEF OrderInv, EndsInv
  <2> QED
    BY <1>1, <2>1
<1>4. \A c \in Conns : up'[c] = <<>> \/ up'[c] = up[c]
  BY <1>3
<1>5. EndsInv'
  <2>1. \A c \in Conns : (c <= conns /\ c \notin closed'["server"]) \/ up'[c] # <<>> => Served(c)'
    <3> SUFFICES ASSUME NEW c \in Conns,
                        (c <= conns /\ c \notin closed'["server"]) \/ up'[c] # <<>>
                 PROVE  c = sConn
      BY <1>1 DEF Served
    <3>1. c # conns
      BY <1>2, <1>3
    <3>2. Served(c)
      BY <1>1, <1>2, <1>3, <3>1 DEF OrderInv, EndsInv
    <3>3. backlog # <<c>>
      BY <1>1, <3>1
    <3> QED
      BY <3>2, <3>3 DEF Served
  <2> QED
    BY <1>1, <1>2, <1>3, <2>1 DEF OrderInv, EndsInv
<1>6. \A c \in Conns : /\ Increasing(up'[c]) /\ \A n \in DOMAIN up'[c] : up'[c][n] <= Latest
                       /\ Precedes(executed, up'[c])
  <2> TAKE c \in Conns
  <2>1. CASE up'[c] = up[c]
    BY <1>1, <2>1 DEF OrderInv
  <2>2. CASE up'[c] = <<>>
    BY <2>2 DEF Increasing, Precedes
  <2> QED
    BY <1>4, <2>1, <2>2
<1> QED
  BY <1>1, <1>5, <1>6 DEF OrderInv, ExecutedInOrder, Latest

\* The first request of the line is executed.
LEMMA ExecuteStep ==
    ASSUME OrderInv, Execute
    PROVE  OrderInv'
<1> USE DEF client
<1> DEFINE s == up[sConn]
           n == Head(s)
<1>1. /\ srv = "recv" /\ s # <<>> /\ up' = [up EXCEPT ![sConn] = Tail(@)]
      /\ executed' = Append(executed, n)
      /\ UNCHANGED <<sent, cli, cConn, srv, sConn, conns, backlog, closed>>
  BY DEF Execute
<1>2. sConn \in Conns /\ sConn # 0
  BY <1>1, LinkAssumption DEF OrderInv, EndsInv, Conns
<1>3. /\ s \in Seq(Nat) /\ Increasing(s) /\ \A k \in DOMAIN s : s[k] <= Latest
      /\ executed \in Seq(Nat) /\ up \in [Conns -> Seq(Nat)]
  BY <1>2 DEF OrderInv, EndsInv
<1>4. up'[sConn] = Tail(s) /\ \A c \in Conns : c # sConn => up'[c] = up[c]
  BY <1>1, <1>2, <1>3
<1>5. Precedes(executed, s)
  BY <1>1, <1>2 DEF OrderInv
<1> HIDE DEF s
<1>6. /\ n \in Nat /\ Tail(s) \in Seq(Nat) /\ Increasing(Tail(s))
      /\ \E k \in DOMAIN s : n = s[k]
      /\ \A k \in DOMAIN Tail(s) : n < Tail(s)[k]
      /\ \A k \in DOMAIN Tail(s) : \E j \in DOMAIN s : Tail(s)[k] = s[j]
  BY <1>1, <1>3, FirstAndRest
<1> HIDE DEF n
<1>7. up' \in [Conns -> Seq(Nat)]
  BY <1>1, <1>2, <1>3, <1>6 DEF s
<1>8. \A k \in DOMAIN executed : executed[k] < n
  BY <1>5, <1>6 DEF Precedes
<1>9. Increasing(executed)
  BY DEF OrderInv, ExecutedInOrder, Increasing
<1>10. /\ executed' \in Seq(Nat) /\ Increasing(executed')
       /\ \A k \in DOMAIN executed' :
             executed'[k] = n \/ \E j \in DOMAIN executed : executed'[k] = executed[j]
  BY <1>1, <1>3, <1>6, <1>8, <1>9, AppendToIncreasing, AppendElements
<1>11. EndsInv'
  <2>1. \A c \in Conns : up'[c] # <<>> => up[c] # <<>>
    BY <1>1, <1>4 DEF s
  <2>2. \A c \in Conns : (c <= conns /\ c \notin closed["server"]) \/ up'[c] # <<>> => Served(c)'
    BY <1>1, <2>1 DEF OrderInv, EndsInv, Served
  <2> QED
    BY <1>1, <1>7, <1>10, <2>2 DEF OrderInv, EndsInv
<1>12. ExecutedInOrder' /\ \A k \in DOMAIN executed' : executed'[k] <= Latest'
  <2>1. n <= Latest /\ Latest' = Latest
    BY <1>1, <1>3, <1>6 DEF Latest
  <2> QED
    BY <1>10, <2>1 DEF OrderInv, ExecutedInOrder, Increasing
<1>13. \A c \in Conns : Increasing(up'[c]) /\ \A k \in DOMAIN up'[c] : up'[c][k] <= Latest'
  <2> TAKE c \in Conns
  <2>1. Latest' = Latest
    BY <1>1 DEF Latest
  <2>2. CASE c = sConn
    BY <1>3, <1>4, <1>6, <2>1, <2>2
  <2>3. CASE c # sConn
    BY <1>4, <2>1, <2>3 DEF OrderInv
  <2> QED
    BY <2>2, <2>3
<1>14. \A c \in Conns : Precedes(executed', up'[c])
  <2> TAKE c \in Conns
  <2>1. CASE c = sConn
    BY <1>4, <1>5, <1>6, <1>10, <2>1 DEF Precedes
  <2>2. CASE c # sConn /\ up[c] = <<>>
    BY <1>4, <2>2 DEF Precedes
  <2>3. CASE c # sConn /\ up[c] # <<>>
    <3>1. backlog = <<c>>
      BY <1>1, <2>3 DEF OrderInv, EndsInv, Served
    <3>2. backlog # <<>>
      BY <3>1
    <3>3. backlog = <<conns>>
      BY <3>2 DEF OrderInv, EndsInv
    <3>4. c = conns
      BY <3>1, <3>3
    <3>5. Precedes(s, up[c]) /\ Precedes(executed, up[c])
      BY <1>1, <3>2, <3>4 DEF OrderInv, s
    <3> QED
      BY <1>4, <1>6, <1>10, <2>3, <3>5 DEF Precedes
  <2> QED
    BY <2>1, <2>2, <2>3
<1>15. backlog # <<>> => Precedes(up'[sConn], up'[conns])
  <2> SUFFICES ASSUME backlog # <<>> PROVE Precedes(up'[sConn], up'[conns])
    OBVIOUS
  <2>1. Precedes(s, up[conns]) /\ sConn # conns /\ conns \in Conns
    BY <1>1 DEF OrderInv, EndsInv, s
  <2> QED
    BY <1>4, <1>6, <2>1 DEF Precedes
<1> QED
  BY <1>1, <1>11, <1>12, <1>13, <1>14, <1>15 DEF OrderInv

\* The server lets go of a connection that has nothing left to read.
LEMMA LosesClientStep ==
    ASSUME OrderInv, ServerLosesClient
    PROVE  OrderInv'
<1> USE DEF client
<1>1. /\ srv = "recv" /\ up[sConn] = <<>> /\ srv' = "accept" /\ sConn' = 0
      /\ closed' = [closed EXCEPT !["server"] = @ \cup {sConn}]
      /\ UNCHANGED <<sent, cli, cConn, executed, conns, backlog, up>>
  BY DEF ServerLosesClient, Close
<1>2. sConn \in Conns /\ conns # 0
  BY <1>1, LinkAssumption DEF OrderInv, EndsInv, Conns
<1>3. closed' \in [{"client", "server"} -> SUBSET Conns]
      /\ closed'["server"] = closed["server"] \cup {sConn}
  BY <1>1, <1>2 DEF OrderInv, EndsInv
<1>4. \A c \in Conns : (c <= conns /\ c \notin closed'["server"]) \/ up[c] # <<>> => Served(c)'
  BY <1>1, <1>3 DEF OrderInv, EndsInv, Served
<1>5. EndsInv'
  BY <1>1, <1>2, <1>3, <1>4 DEF OrderInv, EndsInv
<1> QED
  BY <1>1, <1>5 DEF OrderInv, ExecutedInOrder, Latest

LEMMA StopSteps ==
    ASSUME OrderInv, Stop \/ AbortsWaiting
    PROVE  OrderInv'
<1> USE DEF client
<1>1. /\ srv' = "stopped" /\ sConn' = 0 /\ closed' = [closed EXCEPT !["server"] = 1 .. conns]
      /\ backlog' = <<>>
      /\ UNCHANGED <<sent, cli, cConn, executed, conns, up>>
  BY DEF Stop, AbortsWaiting, OrderInv, EndsInv
<1>2. 1 .. conns \subseteq Conns
  BY LinkAssumption DEF OrderInv, EndsInv, Conns
<1>3. EndsInv'
  BY <1>1, <1>2 DEF OrderInv, EndsInv
<1> QED
  BY <1>1, <1>3 DEF OrderInv, ExecutedInOrder, Latest

\* A connection that breaks loses the last of its requests, not the first.
LEMMA BreakStep ==
    ASSUME OrderInv, NEW c \in Conns, Break(c)
    PROVE  OrderInv'
<1> USE DEF client, server
<1> DEFINE s == up[c]
<1>1. PICK i \in 0 .. Len(s) : up' = [up EXCEPT ![c] = SubSeq(@, 1, i)]
  BY DEF Break
<1>2. UNCHANGED <<sent, cli, cConn, executed, srv, sConn, conns, backlog, closed>>
  BY DEF Break
<1>3. s \in Seq(Nat) /\ Increasing(s) /\ up \in [Conns -> Seq(Nat)]
  BY DEF OrderInv, EndsInv
<1>4. up'[c] = SubSeq(s, 1, i) /\ \A d \in Conns : d # c => up'[d] = up[d]
  BY <1>1, <1>3
<1> HIDE DEF s
<1> DEFINE t == SubSeq(s, 1, i)
<1>5. /\ t \in Seq(Nat) /\ 0 \in Nat /\ 0 + Len(t) <= Len(s)
      /\ \A k \in 1 .. Len(t) : t[k] = s[0 + k]
      /\ s = <<>> => t = <<>>
  BY <1>1, <1>3
<1> HIDE DEF t
<1>6. Increasing(t) /\ \A n \in DOMAIN t : \E k \in DOMAIN s : t[n] = s[k]
  BY <1>3, <1>5, PartIncreasing
<1>7. /\ up' \in [Conns -> Seq(Nat)]
      /\ \A d \in Conns : /\ Increasing(up'[d])
                          /\ up[d] = <<>> => up'[d] = <<>>
                          /\ \A n \in DOMAIN up'[d] : \E k \in DOMAIN up[d] : up'[d][n] = up[d][k]
  <2>1. up' \in [Conns -> Seq(Nat)]
    BY <1>1, <1>3, <1>5 DEF s, t
  <2>2. ASSUME NEW d \in Conns
        PROVE  /\ Increasing(up'[d])
               /\ up[d] = <<>> => up'[d] = <<>>
               /\ \A n \in DOMAIN up'[d] : \E k \in DOMAIN up[d] : up'[d][n] = up[d][k]
    <3>1. CASE d = c
      <4>1. up'[d] = t /\ up[d] = s
        BY <1>4, <3>1 DEF s, t
      <4> QED
        BY <1>5, <1>6, <4>1
    <3>2. CASE d # c
      BY <1>4, <3>2 DEF OrderInv
    <3> QED
      BY <3>1, <3>2
  <2> QED
    BY <2>1, <2>2
<1>8. EndsInv'
  <2>1. srv # "stopped" =>
           \A d \in Conns : (d <= conns /\ d \notin closed["server"]) \/ up'[d] # <<>> => Served(d)'
    BY <1>2, <1>7 DEF OrderInv, EndsInv, Served
  <2> QED
    BY <1>2, <1>7, <2>1 DEF OrderInv, EndsInv
<1>9. ExecutedInOrder' /\ \A n \in DOMAIN executed' : executed'[n] <= Latest'
  BY <1>2 DEF OrderInv, ExecutedInOrder, Latest
<1>10. \A d \in Conns : Increasing(up'[d]) /\ \A n \in DOMAIN up'[d] : up'[d][n] <= Latest'
  BY <1>2, <1>7 DEF OrderInv, Latest
<1>11. srv # "stopped" => \A d \in Conns : Precedes(executed, up'[d])
  BY <1>7 DEF OrderInv, Precedes
<1>12. srv = "recv" /\ backlog # <<>> => Precedes(up'[sConn], up'[conns])
  <2>1. srv = "recv" /\ backlog # <<>> => sConn \in Conns /\ conns \in Conns
    BY LinkAssumption DEF OrderInv, EndsInv, Conns
  <2> QED
    BY <1>7, <2>1 DEF OrderInv, Precedes
<1> QED
  BY <1>2, <1>8, <1>9, <1>10, <1>11, <1>12 DEF OrderInv

-----------------------------------------------------------------------------
(* The theorems.                                                           *)

LEMMA OrderStep == OrderInv /\ [LinkNext]_vars => OrderInv'
<1> SUFFICES ASSUME OrderInv, [LinkNext]_vars
             PROVE  OrderInv'
  OBVIOUS
<1>1. CASE UNCHANGED vars
  BY <1>1, QuietLink DEF vars, client, server, net, OrderInv, EndsInv
<1>2. CASE Connect
  BY <1>2, ConnectStep
<1>3. CASE \E r \in Requests : Send(r) \/ SendFails(r)
  BY <1>3, SendStep, SendFailsStep
<1>4. CASE ClientReceives \/ ReceiveTimesOut
  BY <1>4, ClientSteps DEF ClientReceives
<1>5. CASE ServerSteps
  BY <1>5, AcceptStep, AcceptFailsStep, ExecuteStep, LosesClientStep DEF ServerSteps
<1>6. CASE Stop \/ AbortsWaiting
  BY <1>6, StopSteps
<1>7. CASE \E c \in Conns : Break(c)
  BY <1>7, BreakStep
<1> QED
  BY <1>1, <1>2, <1>3, <1>4, <1>5, <1>6, <1>7 DEF LinkNext

LEMMA OrderInvAlways == LinkSpec => []OrderInv
BY InitOrder, OrderStep, PTL DEF LinkSpec

(***************************************************************************)
(* However often the connection breaks, times out and is made again, the   *)
(* controller executes the requests of the control client in the order     *)
(* they were sent, and none twice (controller.c:288, pad.c:116).           *)
(***************************************************************************)
THEOREM InOrderAtMostOnce == LinkSpec => []ExecutedInOrder
<1>1. OrderInv => ExecutedInOrder
  BY DEF OrderInv
<1> QED
  BY <1>1, OrderInvAlways, PTL

-----------------------------------------------------------------------------
(* The answers.                                                            *)

AckByte == [of : Nat, value : Nat]

LEMMA AckFacts ==
    ASSUME sent \in Seq(Requests), NEW n \in 1 .. Len(sent), NEW st \in Nat
    PROVE  /\ AckBytes(n, st) \in Seq(AckByte)
           /\ Len(AckBytes(n, st)) = AckLen(sent[n]) /\ AckLen(sent[n]) \in {1, 2}
           /\ AckBytes(n, st)[AckLen(sent[n])].value = st
           /\ \A i \in DOMAIN AckBytes(n, st) : AckBytes(n, st)[i].of = n
<1>1. sent[n] \in Requests /\ sent[n].kind \in {"act", "arm"} /\ sent[n].id \in Nat
  <2>1. sent[n] \in Requests
    OBVIOUS
  <2>2. sent[n].kind \in {"act", "arm"} /\ sent[n].id \in 0 .. 255
    BY <2>1, LinkAssumption, Zenon
  <2>3. \A x \in 0 .. 255 : x \in Nat
    OBVIOUS
  <2>4. sent[n].id \in Nat
    BY <2>2, <2>3, Zenon
  <2> QED
    BY <2>1, <2>2, <2>4
<1> DEFINE a == [of |-> n, value |-> sent[n].id]
           b == [of |-> n, value |-> st]
<1>2. a \in AckByte /\ b \in AckByte /\ a.of = n /\ b.of = n /\ b.value = st
  BY <1>1 DEF AckByte
<1>3. AckBytes(n, st) = IF sent[n].kind = "act" THEN <<a, b>> ELSE <<b>>
  BY DEF AckBytes
<1> HIDE DEF a, b
<1>4. CASE sent[n].kind = "act"
  BY <1>2, <1>3, <1>4 DEF AckLen
<1>5. CASE sent[n].kind # "act"
  BY <1>2, <1>3, <1>5 DEF AckLen
<1> QED
  BY <1>4, <1>5

LEMMA NoElements ==
    ASSUME NEW s \in Seq(Nat), \A n \in DOMAIN s : FALSE
    PROVE  s = <<>>
<1>1. Len(s) \in Nat /\ DOMAIN s = 1 .. Len(s)
  OBVIOUS
<1>2. ASSUME Len(s) # 0
      PROVE  FALSE
  <2>1. 1 \in DOMAIN s
    BY <1>1, <1>2
  <2> QED
    BY <2>1
<1> QED
  BY <1>1, <1>2

LEMMA SmallestOfTwo ==
    ASSUME NEW n \in Nat
    PROVE  Min({n, n}) = n
BY DEF Min

\* Once the latest request is executed, nothing is left on any connection.
LEMMA NothingLeft ==
    ASSUME OrderInv, Heeded, srv # "stopped", NEW c \in Conns
    PROVE  up[c] = <<>>
<1>1. executed \in Seq(Nat) /\ up[c] \in Seq(Nat) /\ Latest \in Nat
  BY DEF OrderInv, EndsInv, Latest
<1>2. Len(executed) \in DOMAIN executed /\ executed[Len(executed)] = Latest
  BY <1>1 DEF Heeded
<1>3. \A n \in DOMAIN up[c] : Latest < up[c][n] /\ up[c][n] <= Latest /\ up[c][n] \in Nat
  BY <1>1, <1>2 DEF OrderInv, Precedes
<1>4. \A n \in DOMAIN up[c] : FALSE
  BY <1>1, <1>3
<1> QED
  BY <1>1, <1>4, NoElements

\* The client's connection is the latest one.
LEMMA ClientConn ==
    ASSUME AnswerInv
    PROVE  /\ cConn \in {0, conns} /\ (cConn # 0 => cConn \in Conns) /\ 0 \notin Conns
           /\ conns \in 0 .. MaxConns /\ conns \in Nat /\ MaxConns \in Nat
           /\ closed \in [{"client", "server"} -> SUBSET Conns]
           /\ up \in [Conns -> Seq(Nat)] /\ DOMAIN down = Conns
           /\ sent \in Seq(Requests) /\ Latest \in Nat
BY LinkAssumption DEF AnswerInv, OrderInv, EndsInv, NetInv, Conns, Latest

LEMMA InitAnswer == LinkInit => AnswerInv
<1> SUFFICES ASSUME LinkInit PROVE AnswerInv
  OBVIOUS
<1>1. OrderInv
  BY InitOrder
<1>2. NetInv
  BY LinkAssumption DEF LinkInit, NetInv, Conns
<1>3. cConn = 0 /\ verdict \notin Answers
  BY DEF LinkInit, Answers
<1> QED
  BY <1>1, <1>2, <1>3 DEF AnswerInv, VerdictTrueInTime, VerdictTrue

\* What switch_callback leaves behind when it returns.
LEMMA ReturnsKeeps ==
    ASSUME AnswerInv, cli # "connect", NEW v, Returns(v),
           DOMAIN down' = Conns, \A c \in Conns \ {cConn} : down'[c] = down[c],
           late' \subseteq Conns, UNCHANGED <<conns, backlog, broken, srv, sConn>>
    PROVE  /\ NetInv'
           /\ verdict' = v /\ cli' # "waiting"
           /\ cConn' = 0 \/ (cConn' = cConn /\ cConn # 0)
           /\ cConn' = 0 => v \in Reconnect
           /\ closed'["server"] = closed["server"]
<1>1. cConn = conns /\ cConn # 0 /\ cConn \in Conns /\ conns \in Nat
  BY ClientConn DEF AnswerInv, NetInv
<1>2. CASE v \in Reconnect
  <2>1. cli' = "connect" /\ cConn' = 0 /\ verdict' = v
        /\ closed' = [closed EXCEPT !["client"] = @ \cup {cConn}]
    BY <1>2 DEF Returns, Close
  <2>2. closed'["server"] = closed["server"] /\ closed'["client"] = closed["client"] \cup {cConn}
    BY <2>1, ClientConn
  <2>3. 0 \notin closed'["client"]
    BY <1>1, <2>2, ClientConn
  <2>4. \A c \in Conns : c > conns => down'[c] = <<>> /\ c \notin closed'["client"]
    BY <1>1, <2>2 DEF AnswerInv, NetInv
  <2>5. NetInv'
    BY <2>1, <2>2, <2>3, <2>4 DEF AnswerInv, NetInv
  <2> QED
    BY <1>2, <2>1, <2>2, <2>5
<1>3. CASE v \notin Reconnect
  <2>1. cli' = "idle" /\ cConn' = cConn /\ verdict' = v /\ closed' = closed
    BY <1>3 DEF Returns
  <2>2. NetInv'
    BY <1>1, <2>1 DEF AnswerInv, NetInv
  <2> QED
    BY <1>1, <2>1, <2>2
<1> QED
  BY <1>2, <1>3

LEMMA ConnectAnswer ==
    ASSUME AnswerInv, Connect, OrderInv'
    PROVE  AnswerInv'
<1> USE DEF server
<1>1. /\ cli = "connect" /\ cConn = 0 /\ conns' = conns + 1 /\ conns < MaxConns
      /\ backlog = <<>> /\ backlog' = <<conns'>> /\ cConn' = conns' /\ cli' = "idle"
      /\ srv # "stopped"
      /\ UNCHANGED <<sent, verdict, late, broken, closed, up, down, srv, sConn, executed, outcome>>
  BY DEF Connect, AnswerInv, NetInv
<1>2. conns' \in Conns /\ conns' > conns /\ conns \in Nat /\ sConn \in 0 .. conns
  BY <1>1, ClientConn DEF Conns, AnswerInv, OrderInv, EndsInv
<1>3. down[conns'] = <<>> /\ up[conns'] = <<>>
  BY <1>1, <1>2 DEF AnswerInv, NetInv, OrderInv, EndsInv, Served
<1>4. NetInv'
  <2>1. \A c \in closed["server"] : c <= conns' /\ c # sConn /\ backlog' # <<c>>
    <3> TAKE c \in closed["server"]
    <3>1. c <= conns /\ c # sConn /\ c \in Conns
      BY ClientConn DEF AnswerInv, NetInv
    <3>2. c # conns' /\ c <= conns'
      BY <1>2, <3>1 DEF Conns
    <3> QED
      BY <1>1, <3>1, <3>2
  <2>2. \A c \in Conns : c > conns' => c > conns
    BY <1>1, <1>2 DEF Conns
  <2>3. \A c \in Conns : c > conns' => down[c] = <<>> /\ c \notin closed["client"]
    BY <2>2 DEF AnswerInv, NetInv
  <2>4. conns' \notin closed["client"] /\ conns' # 0
    BY <1>2, ClientConn DEF AnswerInv, NetInv
  <2> QED
    BY <1>1, <2>1, <2>3, <2>4 DEF AnswerInv, NetInv
<1>5. Quiet'
  BY <1>1, <1>3 DEF Quiet
<1>6. VerdictTrueInTime'
  <2>1. cConn \notin late \cup closed["server"]
    BY <1>1, ClientConn DEF AnswerInv, NetInv
  <2>2. VerdictTrue
    BY <1>1, <2>1 DEF AnswerInv, VerdictTrueInTime
  <2>3. VerdictTrue'
    BY <1>1, <2>2 DEF VerdictTrue, Latest, Current
  <2> QED
    BY <2>3 DEF VerdictTrueInTime
<1> QED
  BY <1>4, <1>5, <1>6 DEF AnswerInv

LEMMA SendAnswer ==
    ASSUME AnswerInv, NEW r \in Requests, Send(r), OrderInv'
    PROVE  AnswerInv'
<1> USE DEF server
<1>1. /\ cli = "idle" /\ cli' = "waiting" /\ sent' = Append(sent, r)
      /\ UNCHANGED <<cConn, verdict, late, conns, backlog, broken, closed, down, srv, sConn,
                     executed, outcome>>
  BY DEF Send
<1>2. cConn # 0 /\ cConn \in Conns
  BY <1>1, ClientConn DEF AnswerInv, NetInv
<1>3. NetInv'
  <2>1. sent' # <<>>
    BY <1>1, ClientConn
  <2> QED
    BY <1>1, <1>2, <2>1 DEF AnswerInv, NetInv
<1>4. VerdictTrueInTime'
  BY <1>1 DEF VerdictTrueInTime, VerdictTrue
<1>5. ASSUME cConn \notin late
      PROVE  Quiet'
  <2>1. Quiet
    BY <1>2, <1>5 DEF AnswerInv
  <2>2. down'[cConn'] = <<>>
    BY <1>1, <2>1 DEF Quiet
  <2>3. ASSUME Reached(cConn)
        PROVE  \A n \in DOMAIN up'[cConn] : up'[cConn][n] = Latest'
    <3>1. up[cConn] \in Seq(Nat) /\ \A n \in DOMAIN up[cConn] : FALSE
      BY <1>1, <1>2, <2>1, <2>3, ClientConn DEF Quiet
    <3>2. up[cConn] = <<>>
      BY <3>1, NoElements
    <3>3. up'[cConn] = Append(<<>>, Latest')
      BY <1>2, <2>3, <3>2, ClientConn DEF Send, Reached, Latest
    <3> QED
      BY <3>3
  <2> QED
    BY <1>1, <2>2, <2>3 DEF Quiet, Reached
<1> QED
  BY <1>1, <1>3, <1>4, <1>5 DEF AnswerInv

\* switch_callback returns without an answer: the connection carries nothing
\* any more, or the receive has timed out on it.
LEMMA UnansweredStep ==
    ASSUME AnswerInv, cli # "connect", NEW v, Returns(v), OrderInv',
           UNCHANGED <<conns, backlog, broken, srv, sConn, down>>,
           down[cConn] = <<>> \/ cConn \in late', late \subseteq late', late' \subseteq Conns,
           cConn \in broken \cup closed["server"] \/ cConn \in late',
           v \in Answers => cConn \in closed["server"] \/ cConn \in late',
           v \in Reconnect => v \notin Answers
    PROVE  AnswerInv'
<1>1. /\ NetInv'
      /\ verdict' = v /\ cli' # "waiting"
      /\ cConn' = 0 \/ (cConn' = cConn /\ cConn # 0)
      /\ cConn' = 0 => v \in Reconnect
      /\ closed'["server"] = closed["server"]
  BY ReturnsKeeps, ClientConn
<1>2. cConn' # 0 /\ cConn' \notin late' => Quiet'
  BY <1>1 DEF Quiet, Reached
<1>3. VerdictTrueInTime'
  BY <1>1 DEF VerdictTrueInTime, VerdictTrue
<1> QED
  BY <1>1, <1>2, <1>3 DEF AnswerInv

LEMMA UnansweredSteps ==
    ASSUME AnswerInv, OrderInv',
           (\E r \in Requests : SendFails(r)) \/ ReceiveTimesOut \/ ReceiveEof \/ ReceiveFails
    PROVE  AnswerInv'
<1> USE DEF server
<1>0. cConn \in late \/ cConn = 0 \/ Quiet
  BY DEF AnswerInv
<1>1. CASE (\E r \in Requests : SendFails(r)) \/ ReceiveFails
  <2>1. PICK e \in LinkErrors : Returns(e)
    BY <1>1, Zenon DEF SendFails, ReceiveFails
  <2>2. /\ cli # "connect" /\ UNCHANGED <<late, conns, backlog, broken, srv, sConn, down>>
        /\ cConn \in broken \cup closed["server"]
        /\ cli # "waiting" \/ down[cConn] = <<>>
    BY <1>1 DEF SendFails, ReceiveFails
  <2>3. e \notin Answers
    BY ErrorAssumption
  <2>4. down[cConn] = <<>> \/ cConn \in late'
    BY <1>0, <2>2, ClientConn DEF Quiet, AnswerInv, NetInv
  <2> QED
    BY <2>1, <2>2, <2>3, <2>4, UnansweredStep DEF AnswerInv, NetInv
<1>2. CASE ReceiveTimesOut
  <2>1. /\ cli = "waiting" /\ Returns("EAGAIN") /\ late' = late \cup {cConn}
        /\ UNCHANGED <<conns, backlog, broken, srv, sConn, down>>
    BY <1>2 DEF ReceiveTimesOut
  <2>2. late' \subseteq Conns /\ "EAGAIN" \notin Answers
    BY <2>1, ClientConn DEF AnswerInv, NetInv, Answers
  <2> QED
    BY <2>1, <2>2, UnansweredStep
<1>3. CASE ReceiveEof
  <2>1. PICK status \in StatusByte : Returns(Verdict(Current, status))
    BY <1>3, Zenon DEF ReceiveEof
  <2>2. /\ cli = "waiting" /\ down[cConn] = <<>> /\ cConn \in closed["server"] \ broken
        /\ UNCHANGED <<late, conns, backlog, broken, srv, sConn, down>>
    BY <1>3 DEF ReceiveEof
  <2>3. Verdict(Current, status) \notin Reconnect
    BY DEF Verdict, Reconnect
  <2> QED
    BY <2>1, <2>2, <2>3, UnansweredStep DEF AnswerInv, NetInv
<1> QED
  BY <1>1, <1>2, <1>3

\* The answer is read whole, or an older one on a late connection.
LEMMA ReceiveAckStep ==
    ASSUME AnswerInv, OrderInv', ReceiveAck
    PROVE  AnswerInv'
<1> USE DEF server
<1> DEFINE n == Min({AckLen(Current), Len(down[cConn])})
<1>1. /\ cli = "waiting" /\ down[cConn] # <<>>
      /\ down' = [down EXCEPT ![cConn] = SubSeq(@, n + 1, Len(@))]
      /\ UNCHANGED <<sent, late, conns, backlog, broken, up, srv, sConn, executed, outcome>>
  BY DEF ReceiveAck
<1>2. PICK status \in IF n = AckLen(Current) THEN {down[cConn][n].value} ELSE StatusByte :
         Returns(Verdict(Current, status))
  BY Zenon DEF ReceiveAck
<1>3. cConn # 0 /\ cConn \in Conns
  BY <1>1, ClientConn DEF AnswerInv, NetInv
<1>4. Verdict(Current, status) \notin Reconnect
  BY DEF Verdict, Reconnect
<1> HIDE DEF n
<1>7. DOMAIN down' = Conns /\ \A c \in Conns \ {cConn} : down'[c] = down[c]
  BY <1>1, <1>3, ClientConn
<1>8. /\ NetInv'
      /\ verdict' = Verdict(Current, status) /\ cli' # "waiting"
      /\ cConn' = cConn
      /\ closed'["server"] = closed["server"]
  BY <1>1, <1>2, <1>4, <1>7, ReturnsKeeps, ClientConn DEF AnswerInv, NetInv
<1>9. ASSUME cConn \notin late
      PROVE  Quiet' /\ VerdictTrueInTime'
  <2>1. Quiet /\ WholeAnswer
    BY <1>1, <1>3, <1>9 DEF AnswerInv, Quiet
  <2>2. /\ Heeded /\ outcome \in Outcomes(Current) /\ down[cConn] = AckBytes(Latest, outcome)
        /\ outcome \in Nat /\ outcome # Silent
    BY <2>1 DEF WholeAnswer, Outcomes, Silent
  <2>3. Latest \in 1 .. Len(sent)
    <3>1. executed \in Seq(Nat) /\ Len(executed) \in DOMAIN executed /\ Latest \in Nat
      BY <2>2, ClientConn DEF Heeded, AnswerInv, OrderInv, EndsInv
    <3> QED
      BY <1>1, <3>1 DEF AnswerInv, NetInv, Latest
  <2>4. /\ Len(down[cConn]) = AckLen(Current) /\ AckLen(Current) \in Nat
        /\ down[cConn] \in Seq(AckByte)
        /\ down[cConn][AckLen(Current)].value = outcome
    <3>1. /\ AckBytes(Latest, outcome) \in Seq(AckByte)
          /\ Len(AckBytes(Latest, outcome)) = AckLen(sent[Latest]) /\ AckLen(sent[Latest]) \in {1, 2}
          /\ AckBytes(Latest, outcome)[AckLen(sent[Latest])].value = outcome
      BY <2>2, <2>3, AckFacts, ClientConn
    <3>2. AckLen(sent[Latest]) \in Nat
      BY <3>1
    <3> QED
      BY <2>2, <3>1, <3>2, Zenon DEF Current
  <2>5. n = AckLen(Current)
    BY <2>4, SmallestOfTwo DEF n
  <2>6. status = outcome
    BY <1>2, <2>4, <2>5
  <2>7. down'[cConn] = <<>>
    BY <1>1, <1>3, <2>4, <2>5, ClientConn
  <2>8. srv # "stopped" => up[cConn] = <<>>
    BY <1>3, <2>2, NothingLeft DEF AnswerInv
  <2>9. Quiet'
    BY <1>1, <1>8, <2>7, <2>8 DEF Quiet, Reached
  <2>10. VerdictTrueInTime'
    BY <1>1, <1>8, <2>2, <2>6 DEF VerdictTrueInTime, VerdictTrue, Heeded, Current, Latest
  <2> QED
    BY <2>9, <2>10
<1>10. cConn \in late => VerdictTrueInTime'
  BY <1>1, <1>8 DEF VerdictTrueInTime
<1> QED
  BY <1>1, <1>8, <1>9, <1>10 DEF AnswerInv

\* Taking the next connection changes nothing for the client.
LEMMA AcceptAnswer ==
    ASSUME AnswerInv, Accept, OrderInv'
    PROVE  AnswerInv'
<1> USE DEF client
<1>1. /\ srv = "accept" /\ srv' = "recv" /\ backlog # <<>> /\ sConn' = Head(backlog)
      /\ backlog' = Tail(backlog)
      /\ UNCHANGED <<cli, cConn, sent, verdict, late, executed, outcome, conns, broken, closed,
                     up, down>>
  BY DEF Accept
<1>2. backlog = <<conns>> /\ Head(<<conns>>) = conns /\ Tail(<<conns>>) = <<>>
  BY <1>1 DEF AnswerInv, OrderInv, EndsInv
<1>3. sConn' = conns /\ backlog' = <<>>
  BY <1>1, <1>2
<1>4. \A c \in closed["server"] : c # conns
  BY <1>2 DEF AnswerInv, NetInv
<1>5. NetInv'
  BY <1>1, <1>3, <1>4 DEF AnswerInv, NetInv
<1>6. cConn' # 0 /\ cConn' \notin late' => Quiet'
  BY <1>1 DEF AnswerInv, Quiet, WholeAnswer, Heeded, Latest, Current, AckBytes, Reached
<1>7. VerdictTrueInTime'
  BY <1>1 DEF AnswerInv, VerdictTrueInTime, VerdictTrue, Latest, Current
<1> QED
  BY <1>5, <1>6, <1>7 DEF AnswerInv

\* A connection that is accepted and closed at once carries nothing to the server.
LEMMA AcceptFailsAnswer ==
    ASSUME AnswerInv, AcceptFails, OrderInv'
    PROVE  AnswerInv'
<1> USE DEF client
<1>1. /\ srv = "accept" /\ backlog # <<>> /\ backlog' = Tail(backlog)
      /\ closed' = [closed EXCEPT !["server"] = @ \cup {Head(backlog)}]
      /\ up' = [up EXCEPT ![Head(backlog)] = <<>>]
      /\ UNCHANGED <<cli, cConn, sent, verdict, late, srv, sConn, executed, outcome, conns, broken,
                     down>>
  BY DEF AcceptFails, Close
<1>2. backlog = <<conns>> /\ Head(<<conns>>) = conns /\ Tail(<<conns>>) = <<>> /\ sConn = 0
      /\ conns \in Conns
  BY <1>1 DEF AnswerInv, OrderInv, EndsInv
<1>3. /\ backlog' = <<>> /\ closed'["server"] = closed["server"] \cup {conns}
      /\ closed'["client"] = closed["client"]
  BY <1>1, <1>2, ClientConn
<1>4. NetInv'
  <2>1. \A c \in closed'["server"] : c <= conns /\ c # 0 /\ backlog' # <<c>>
    BY <1>2, <1>3, ClientConn DEF AnswerInv, NetInv
  <2> QED
    BY <1>1, <1>2, <1>3, <2>1 DEF AnswerInv, NetInv
<1>5. cConn' # 0 /\ cConn' \notin late' => Quiet'
  <2>1. Reached(cConn)' => Reached(cConn) /\ cConn # conns
    BY <1>1, <1>3 DEF Reached
  <2>2. cConn \in Conns /\ cConn # conns => up'[cConn] = up[cConn]
    BY <1>1, <1>2, ClientConn
  <2> QED
    BY <1>1, <2>1, <2>2, ClientConn
       DEF AnswerInv, Quiet, WholeAnswer, Heeded, Latest, Current, AckBytes
<1>6. VerdictTrueInTime'
  BY <1>1, <1>3 DEF AnswerInv, VerdictTrueInTime, VerdictTrue, Latest, Current
<1> QED
  BY <1>4, <1>5, <1>6 DEF AnswerInv

\* Only the request the client waits for is answered to a client that is not late.
LEMMA ExecuteAnswer ==
    ASSUME AnswerInv, Execute, OrderInv'
    PROVE  AnswerInv'
<1> USE DEF client
<1> DEFINE n == Head(up[sConn])
<1>1. /\ srv = "recv" /\ up[sConn] # <<>> /\ up' = [up EXCEPT ![sConn] = Tail(@)]
      /\ executed' = Append(executed, n)
      /\ outcome' \in Outcomes(sent[n]) \/ outcome' = Silent
      /\ down' = IF outcome' = Silent \/ sConn \in broken \cup closed["client"] THEN down
                 ELSE [down EXCEPT ![sConn] = @ \o AckBytes(n, outcome')]
      /\ UNCHANGED <<cli, cConn, sent, verdict, late, srv, sConn, conns, backlog, broken, closed>>
  BY DEF Execute
<1>2. sConn \in Conns /\ sConn # 0 /\ up[sConn] \in Seq(Nat) /\ executed \in Seq(Nat)
  BY <1>1, ClientConn DEF AnswerInv, OrderInv, EndsInv, Conns
<1>3. sConn \notin closed["server"] /\ sConn <= conns
  <2>1. sConn \in 1 .. conns
    BY <1>1 DEF AnswerInv, OrderInv, EndsInv
  <2> QED
    BY <2>1, ClientConn DEF AnswerInv, NetInv
<1>4. n \in Nat /\ n = up[sConn][1] /\ 1 \in DOMAIN up[sConn]
  BY <1>1, <1>2
<1>5. /\ up'[sConn] = Tail(up[sConn])
      /\ \A k \in DOMAIN Tail(up[sConn]) : k + 1 \in DOMAIN up[sConn]
                                           /\ Tail(up[sConn])[k] = up[sConn][k + 1]
      /\ \A c \in Conns : c # sConn => up'[c] = up[c]
  BY <1>1, <1>2, ClientConn
<1>6. ~Heeded
  BY <1>1, <1>2, NothingLeft DEF AnswerInv
<1> HIDE DEF n
<1>7. executed'[Len(executed')] = n /\ executed' # <<>>
  BY <1>1, <1>2, <1>4
<1>8. /\ DOMAIN down' = Conns /\ \A c \in Conns : c # sConn => down'[c] = down[c]
      /\ down' = down \/ down'[sConn] = down[sConn] \o AckBytes(n, outcome')
  BY <1>1, <1>2, ClientConn
<1>9. NetInv'
  <2>1. \A c \in Conns : c > conns => c # sConn
    BY <1>3, ClientConn DEF Conns
  <2> QED
    BY <1>1, <1>8, <2>1 DEF AnswerInv, NetInv
<1>10. ASSUME cConn # 0, cConn \notin late
       PROVE  Quiet'
  <2>1. Quiet /\ down[cConn] = <<>> /\ cConn \in Conns
    BY <1>6, <1>10, ClientConn DEF AnswerInv, Quiet, WholeAnswer
  <2>2. Reached(cConn) => \A k \in DOMAIN up'[cConn] : cli = "waiting" /\ up'[cConn][k] = Latest
    BY <1>5, <2>1 DEF Quiet
  <2>3. CASE down' = down
    BY <1>1, <2>1, <2>2, <2>3 DEF Quiet, Reached, Latest
  <2>4. CASE cConn # sConn
    BY <1>1, <1>8, <2>1, <2>2, <2>4 DEF Quiet, Reached, Latest
  <2>5. CASE down' # down /\ cConn = sConn
    <3>1. /\ outcome' # Silent /\ sConn \notin broken /\ outcome' \in Outcomes(sent[n])
          /\ down'[cConn] = <<>> \o AckBytes(n, outcome')
      BY <1>1, <1>8, <2>1, <2>5
    <3>2. Reached(cConn)
      BY <1>1, <1>3, <2>5, <3>1 DEF Reached
    <3>3. cli = "waiting" /\ n = Latest
      BY <1>4, <2>1, <2>5, <3>2 DEF Quiet
    <3>4. n \in 1 .. Len(sent) /\ outcome' \in Nat
      BY <3>1, <3>3, ClientConn DEF AnswerInv, NetInv, Latest, Outcomes
    <3>5. AckBytes(n, outcome') \in Seq(AckByte)
      BY <3>4, AckFacts, ClientConn
    <3>6. down'[cConn] = AckBytes(n, outcome')
      BY <3>1, <3>5
    <3>7. WholeAnswer'
      BY <1>1, <1>7, <3>1, <3>3, <3>6 DEF WholeAnswer, Heeded, Current, Latest, AckBytes
    <3> QED
      BY <1>1, <2>2, <3>3, <3>7 DEF Quiet, Reached, Latest
  <2> QED
    BY <2>3, <2>4, <2>5
<1>11. VerdictTrueInTime'
  <2>1. ~VerdictTrue \/ cli = "waiting" \/ verdict \notin Answers
    BY <1>6 DEF VerdictTrue, Heeded
  <2> QED
    BY <1>1, <2>1 DEF AnswerInv, VerdictTrueInTime, VerdictTrue
<1> QED
  BY <1>1, <1>9, <1>10, <1>11 DEF AnswerInv

\* The server lets go of a connection, or of everything.
LEMMA ServerClosesAnswer ==
    ASSUME AnswerInv, ServerLosesClient \/ Stop \/ AbortsWaiting, OrderInv'
    PROVE  AnswerInv'
<1> USE DEF client
<1>1. UNCHANGED <<cli, cConn, sent, verdict, late, executed, outcome, conns, broken, up, down>>
  BY DEF ServerLosesClient, Stop, AbortsWaiting
<1>2. NetInv' /\ closed["server"] \subseteq closed'["server"] /\ (srv' # "stopped" => srv # "stopped")
  <2>1. CASE ServerLosesClient
    <3>1. /\ srv = "recv" /\ srv' = "accept" /\ sConn' = 0 /\ backlog' = backlog
          /\ sConn \in broken \cup closed["client"]
          /\ closed' = [closed EXCEPT !["server"] = @ \cup {sConn}]
      BY <2>1 DEF ServerLosesClient, Close
    <3>2. closed'["server"] = closed["server"] \cup {sConn} /\ closed'["client"] = closed["client"]
      BY <3>1, ClientConn
    <3>3. sConn <= conns /\ sConn # 0 /\ backlog # <<sConn>>
      <4>1. sConn \in 1 .. conns /\ backlog \in {<<>>, <<conns>>}
            /\ (backlog # <<>> => sConn # conns)
        BY <3>1 DEF AnswerInv, OrderInv, EndsInv
      <4>2. <<conns>> = <<sConn>> => conns = sConn
        OBVIOUS
      <4>3. <<>> # <<sConn>>
        OBVIOUS
      <4>4. backlog # <<sConn>>
        BY <4>1, <4>2, <4>3, Zenon
      <4>5. conns \in Nat
        BY ClientConn
      <4> QED
        BY <4>1, <4>4, <4>5
    <3>4. \A c \in closed'["server"] : c <= conns /\ c # 0 /\ backlog # <<c>>
      BY <3>2, <3>3, ClientConn DEF AnswerInv, NetInv
    <3> QED
      BY <1>1, <3>1, <3>2, <3>4 DEF AnswerInv, NetInv
  <2>2. CASE Stop \/ AbortsWaiting
    <3>1. /\ srv' = "stopped" /\ sConn' = 0 /\ backlog' = <<>>
          /\ closed' = [closed EXCEPT !["server"] = 1 .. conns]
      BY <2>2 DEF Stop, AbortsWaiting, AnswerInv, OrderInv, EndsInv
    <3>2. closed'["server"] = 1 .. conns /\ closed'["client"] = closed["client"]
      BY <3>1, ClientConn
    <3>3. \A c \in 1 .. conns : c <= conns /\ c # 0
      BY ClientConn
    <3>4. closed["server"] \subseteq 1 .. conns
      BY ClientConn DEF AnswerInv, NetInv, Conns
    <3> QED
      BY <1>1, <3>1, <3>2, <3>3, <3>4 DEF AnswerInv, NetInv
  <2> QED
    BY <2>1, <2>2
<1>3. cConn' # 0 /\ cConn' \notin late' => Quiet'
  <2>1. Reached(cConn)' => Reached(cConn)
    BY <1>1, <1>2 DEF Reached
  <2> QED
    BY <1>1, <2>1 DEF AnswerInv, Quiet, WholeAnswer, Heeded, Latest, Current, AckBytes
<1>4. VerdictTrueInTime'
  BY <1>1, <1>2 DEF AnswerInv, VerdictTrueInTime, VerdictTrue, Latest, Current
<1> QED
  BY <1>2, <1>3, <1>4 DEF AnswerInv

\* A connection that breaks brings the answer as a whole, or loses it.
LEMMA BreakAnswer ==
    ASSUME AnswerInv, NEW c \in Conns, Break(c), OrderInv'
    PROVE  AnswerInv'
<1> USE DEF client, server
<1>1. PICK j \in Boundaries(down[c]) : down' = [down EXCEPT ![c] = SubSeq(@, 1, j)]
  BY DEF Break
<1>2. /\ broken' = broken \cup {c} /\ c <= conns
      /\ UNCHANGED <<cli, cConn, sent, verdict, late, srv, sConn, executed, outcome, conns, backlog,
                     closed>>
      /\ \A d \in Conns : d # c => up'[d] = up[d]
  BY ClientConn DEF Break
<1>3. j \in 0 .. Len(down[c])
  BY <1>1 DEF Boundaries
<1>4. /\ DOMAIN down' = Conns /\ down'[c] = SubSeq(down[c], 1, j)
      /\ \A d \in Conns : d # c => down'[d] = down[d]
  BY <1>1, ClientConn
<1>5. NetInv'
  <2>1. \A d \in Conns : d > conns => d # c
    BY <1>2, ClientConn DEF Conns
  <2> QED
    BY <1>2, <1>4, <2>1 DEF AnswerInv, NetInv
<1>6. ASSUME cConn # 0, cConn \notin late
      PROVE  Quiet'
  <2>1. Quiet
    BY <1>6 DEF AnswerInv
  <2>2. CASE cConn # c
    <3>1. up'[cConn] = up[cConn] /\ down'[cConn] = down[cConn] /\ (Reached(cConn)' => Reached(cConn))
      BY <1>2, <1>4, <1>6, <2>2, ClientConn DEF Reached
    <3> QED
      BY <1>2, <2>1, <3>1 DEF Quiet, WholeAnswer, Heeded, Latest, Current, AckBytes
  <2>3. CASE cConn = c /\ down[c] = <<>>
    <3>1. down'[cConn] = <<>>
      BY <1>3, <1>4, <2>3
    <3> QED
      BY <1>2, <2>3, <3>1 DEF Quiet, Reached
  <2>4. CASE cConn = c /\ down[c] # <<>>
    <3>1. cli = "waiting" /\ WholeAnswer
      BY <2>1, <2>4 DEF Quiet
    <3>2. Latest \in 1 .. Len(sent) /\ outcome \in Nat
      BY <3>1, ClientConn DEF AnswerInv, NetInv, Latest, WholeAnswer, Outcomes
    <3>3. down[c] \in Seq(AckByte) /\ \A i \in DOMAIN down[c] : down[c][i].of = Latest
      BY <2>4, <3>1, <3>2, AckFacts, ClientConn DEF WholeAnswer
    <3>4. j \in {0, Len(down[c])}
      BY <1>3, <3>3 DEF Boundaries
    <3>5. down'[c] = <<>> \/ down'[c] = down[c]
      BY <1>3, <1>4, <3>3, <3>4
    <3> QED
      BY <1>2, <2>4, <3>1, <3>5 DEF Quiet, WholeAnswer, Heeded, Latest, Current, AckBytes, Reached
  <2> QED
    BY <2>2, <2>3, <2>4
<1>7. VerdictTrueInTime'
  BY <1>2 DEF AnswerInv, VerdictTrueInTime, VerdictTrue, Latest, Current
<1> QED
  BY <1>2, <1>5, <1>6, <1>7 DEF AnswerInv

LEMMA AnswerStep == AnswerInv /\ [LinkNext]_vars => AnswerInv'
<1> SUFFICES ASSUME AnswerInv, [LinkNext]_vars
             PROVE  AnswerInv'
  OBVIOUS
<1>0. OrderInv'
  BY OrderStep DEF AnswerInv
<1>1. CASE UNCHANGED vars
  <2>1. NetInv'
    BY <1>1 DEF vars, client, server, net, AnswerInv, NetInv
  <2>2. cConn' # 0 /\ cConn' \notin late' => Quiet'
    BY <1>1 DEF vars, client, server, net, AnswerInv, Quiet, WholeAnswer, Heeded, Latest, Current,
                AckBytes, Reached
  <2>3. VerdictTrueInTime'
    BY <1>1 DEF vars, client, server, net, AnswerInv, VerdictTrueInTime, VerdictTrue, Latest, Current
  <2> QED
    BY <1>0, <2>1, <2>2, <2>3 DEF AnswerInv
<1>2. CASE Connect
  BY <1>0, <1>2, ConnectAnswer
<1>3. CASE \E r \in Requests : Send(r)
  BY <1>0, <1>3, SendAnswer
<1>4. CASE ReceiveAck
  BY <1>0, <1>4, ReceiveAckStep
<1>5. CASE (\E r \in Requests : SendFails(r)) \/ ReceiveTimesOut \/ ReceiveEof \/ ReceiveFails
  BY <1>0, <1>5, UnansweredSteps
<1>6. CASE Accept \/ AcceptFails \/ Execute
  BY <1>0, <1>6, AcceptAnswer, AcceptFailsAnswer, ExecuteAnswer
<1>7. CASE ServerLosesClient \/ Stop \/ AbortsWaiting
  BY <1>0, <1>7, ServerClosesAnswer
<1>8. CASE \E c \in Conns : Break(c)
  BY <1>0, <1>8, BreakAnswer
<1> QED
  BY <1>1, <1>2, <1>3, <1>4, <1>5, <1>6, <1>7, <1>8 DEF LinkNext, ClientReceives, ServerSteps

LEMMA AnswerInvAlways == LinkSpec => []AnswerInv
BY InitAnswer, AnswerStep, PTL DEF LinkSpec

(***************************************************************************)
(* As long as no receive has timed out on its connection, every byte a     *)
(* waiting client can read answers the request it waits for (switch.c:34,  *)
(* pad.c:190).                                                             *)
(***************************************************************************)
THEOREM AnswersBelong == LinkSpec => []AnswerBelongs
<1>1. AnswerInv => AnswerBelongs
  <2> SUFFICES ASSUME AnswerInv, cli = "waiting", cConn \notin late
               PROVE  \A i \in DOMAIN down[cConn] : down[cConn][i].of = Latest
    BY DEF AnswerBelongs
  <2>1. Quiet
    BY DEF AnswerInv, NetInv
  <2>2. CASE down[cConn] = <<>>
    BY <2>2
  <2>3. CASE down[cConn] # <<>>
    <3>1. down[cConn] = AckBytes(Latest, outcome) /\ outcome \in Nat
      BY <2>1, <2>3 DEF Quiet, WholeAnswer, Outcomes
    <3>2. Latest \in 1 .. Len(sent)
      BY ClientConn DEF AnswerInv, NetInv, Latest
    <3> QED
      BY <3>1, <3>2, AckFacts, ClientConn
  <2> QED
    BY <2>2, <2>3
<1> QED
  BY <1>1, AnswerInvAlways, PTL

(***************************************************************************)
(* What switch_callback says of a request is what the server made of it,   *)
(* whatever connections break, drivers fail and new connections replace    *)
(* them, as long as no receive times out on the connection and the server  *)
(* has not closed it (switch.c:8, switch.c:34).                            *)
(***************************************************************************)
THEOREM VerdictsTrue == LinkSpec => []VerdictTrueInTime
<1>1. AnswerInv => VerdictTrueInTime
  BY DEF AnswerInv
<1> QED
  BY <1>1, AnswerInvAlways, PTL

(***************************************************************************)
(* Type correctness.  AnswerInv has the types of the connections and of    *)
(* the requests; what is left are the states of the two programs.          *)
(***************************************************************************)
ProgramTypes ==
    /\ cli \in {"connect", "idle", "waiting"}
    /\ Len(sent) <= MaxSends
    /\ verdict \in Answers \cup LinkErrors \cup {"none", "EAGAIN"}
    /\ broken \subseteq Conns
    /\ srv \in {"accept", "recv", "stopped"}
    /\ outcome \in 0 .. Silent

LEMMA TypesTogether == AnswerInv /\ ProgramTypes => LinkTypeOK
<1> SUFFICES ASSUME AnswerInv, ProgramTypes PROVE LinkTypeOK
  OBVIOUS
<1>1. EndsInv /\ NetInv /\ conns \in Nat /\ MaxConns \in Nat
  BY LinkAssumption DEF AnswerInv, OrderInv, EndsInv
<1>2. backlog \in Seq(1 .. conns) /\ Len(backlog) <= 1
  <2>1. CASE backlog = <<>>
    BY <2>1
  <2>2. CASE backlog # <<>>
    <3>1. backlog = <<conns>> /\ conns \in 1 .. conns
      BY <1>1, <2>2 DEF EndsInv, Conns
    <3> QED
      BY <3>1
  <2> QED
    BY <2>1, <2>2
<1>3. cConn \in 0 .. conns /\ sConn \in 0 .. conns /\ (sConn = 0 <=> srv # "recv")
  BY <1>1 DEF EndsInv
<1> QED
  BY <1>1, <1>2, <1>3 DEF LinkTypeOK, EndsInv, NetInv, ProgramTypes

LEMMA VerdictIsAnswer == \A r, status : Verdict(r, status) \in Answers
<1> TAKE r, status
<1>1. CASE status = 1
  BY <1>1 DEF Verdict, Answers
<1>2. CASE status # 1 /\ r.kind = "act"
  BY <1>2 DEF Verdict, Answers
<1>3. CASE status # 1 /\ r.kind # "act"
  BY <1>3 DEF Verdict, Answers
<1> QED
  BY <1>1, <1>2, <1>3

LEMMA ProgramTypesStep == ProgramTypes /\ OrderInv /\ [LinkNext]_vars => ProgramTypes'
<1> SUFFICES ASSUME ProgramTypes, OrderInv, [LinkNext]_vars PROVE ProgramTypes'
  OBVIOUS
<1>0. MaxSends \in Nat /\ sent \in Seq(Requests)
  BY LinkAssumption DEF OrderInv, EndsInv
<1>a. ASSUME NEW v \in Answers \cup LinkErrors \cup {"EAGAIN"}, Returns(v)
      PROVE  /\ cli' \in {"connect", "idle", "waiting"}
             /\ verdict' \in Answers \cup LinkErrors \cup {"none", "EAGAIN"}
  BY <1>a DEF Returns
<1>1. CASE UNCHANGED vars
  BY <1>1 DEF vars, client, server, net, ProgramTypes
<1>2. CASE Connect
  BY <1>2 DEF Connect, server, ProgramTypes
<1>3. ASSUME NEW r \in Requests, Send(r) \/ SendFails(r) PROVE ProgramTypes'
  <2>1. Len(sent') <= MaxSends
    BY <1>0, <1>3 DEF Send, SendFails
  <2>2. CASE Send(r)
    BY <2>1, <2>2 DEF Send, server, ProgramTypes
  <2>3. CASE SendFails(r)
    BY <1>a, <2>1, <2>3 DEF SendFails, server, ProgramTypes
  <2> QED
    BY <1>3, <2>2, <2>3
<1>4. CASE ReceiveAck \/ ReceiveEof
  <2>1. PICK status : Returns(Verdict(Current, status))
    BY <1>4 DEF ReceiveAck, ReceiveEof
  <2>2. UNCHANGED <<sent, broken, srv, outcome>>
    BY <1>4 DEF ReceiveAck, ReceiveEof, server
  <2> QED
    BY <1>a, <2>1, <2>2, VerdictIsAnswer DEF ProgramTypes
<1>5. CASE ReceiveFails \/ ReceiveTimesOut
  BY <1>a, <1>5 DEF ReceiveFails, ReceiveTimesOut, server, ProgramTypes
<1>6. CASE Accept \/ AcceptFails \/ ServerLosesClient \/ Stop \/ AbortsWaiting
  BY <1>6 DEF Accept, AcceptFails, ServerLosesClient, Stop, AbortsWaiting, client, ProgramTypes
<1>7. CASE Execute
  <2>1. outcome' \in 0 .. Silent
    BY <1>7 DEF Execute, Outcomes, Silent
  <2> QED
    BY <1>7, <2>1 DEF Execute, client, ProgramTypes
<1>8. ASSUME NEW c \in Conns, Break(c) PROVE ProgramTypes'
  BY <1>8 DEF Break, client, server, ProgramTypes
<1> QED
  BY <1>1, <1>2, <1>3, <1>4, <1>5, <1>6, <1>7, <1>8 DEF LinkNext, ClientReceives, ServerSteps

(***************************************************************************)
(* The types of both programs and of the network between them, for any     *)
(* requests, connections and errors.                                       *)
(***************************************************************************)
THEOREM LinkTypeCorrect == LinkSpec => []LinkTypeOK
<1>1. LinkInit => ProgramTypes
  BY LinkAssumption DEF LinkInit, ProgramTypes, Silent
<1>2. LinkSpec => []ProgramTypes
  BY <1>1, OrderInvAlways, ProgramTypesStep, PTL DEF LinkSpec
<1> QED
  BY <1>2, AnswerInvAlways, TypesTogether, PTL
=============================================================================
