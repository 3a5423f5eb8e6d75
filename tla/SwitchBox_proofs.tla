-------------------------- MODULE SwitchBox_proofs --------------------------
(***************************************************************************)
(* The privilege guard of the control box, for every table of switches in  *)
(* which one switch is the key: the pad leaves ARMED_PAD only by a request *)
(* that was sent while the key was recorded as in.  The argument is about  *)
(* the requests under way: the guard makes KeyInv true of every request    *)
(* that is sent, and lost, late or abandoned requests do not change it.    *)
(***************************************************************************)
EXTENDS SwitchBox, TLAPS

Requested == [by : Ids, on : BOOLEAN, key : BOOLEAN, last : BOOLEAN]

(***************************************************************************)
(* The table.                                                              *)
(***************************************************************************)
LEMMA BoxTable ==
    /\ Len(Switches) \in Nat \ {0} /\ Ids = 1 .. Len(Switches)
    /\ \A i \in Ids : Switches[i] \in [kind : {"act", "arm"}, act_id : Byte, pin : BOOLEAN]
    /\ Looks \in Nat \ {0}
<1>1. Len(Switches) \in Nat /\ Ids = 1 .. Len(Switches) /\ KEY \in Ids
  BY BoxAssumption DEF Ids
<1>2. Len(Switches) # 0
  BY <1>1
<1>3. \A m, n \in Nat \ {0} : m * n \in Nat \ {0}
  OBVIOUS
<1>4. Looks \in Nat \ {0}
  BY <1>1, <1>2, <1>3, BoxAssumption DEF Looks
<1>5. \A i \in 1 .. Len(Switches) :
         Switches[i] \in [kind : {"act", "arm"}, act_id : Byte, pin : BOOLEAN]
  <2> DEFINE Entries == [kind : {"act", "arm"}, act_id : Byte, pin : BOOLEAN]
  <2>1. Switches \in Seq(Entries)
    BY BoxAssumption
  <2> HIDE DEF Entries
  <2>2. \A i \in 1 .. Len(Switches) : Switches[i] \in Entries
    BY <2>1
  <2> QED
    BY <2>2 DEF Entries
<1> QED
  BY <1>1, <1>2, <1>4, <1>5

LEMMA ScanInTable ==
    ASSUME at \in Nat
    PROVE  SwitchAt \in Ids
<1>1. \A m \in Nat, n \in Nat \ {0} : m % n \in 0 .. n - 1
  OBVIOUS
<1> QED
  BY <1>1, BoxTable DEF SwitchAt

LEMMA RequestKind ==
    ASSUME NEW i \in Ids, NEW on \in BOOLEAN
    PROVE  /\ RequestOf(i, on) \in Requests /\ RequestOf(i, on) \in AllRequests
           /\ RequestOf(i, on).kind = "arm" /\ RequestOf(i, on).level = ARMED_VALVES =>
                 (on /\ i = KEY) \/ (~on /\ IsArming(i, ARMED_IGNITION))
<1>1. RequestOf(i, on) \in Requests /\ RequestOf(i, on) \in AllRequests
  BY BoxAssumption, RequestAssumption
<1>2. ASSUME RequestOf(i, on).kind = "arm", RequestOf(i, on).level = ARMED_VALVES
      PROVE  (on /\ i = KEY) \/ (~on /\ IsArming(i, ARMED_IGNITION))
  <2>1. Switches[i].kind = "arm" /\ Switches[i].act_id \in 0 .. 255
    BY <1>2, BoxTable DEF RequestOf, Byte
  <2>2. CASE on
    BY <1>2, <2>1, <2>2, BoxAssumption DEF RequestOf, IsArming
  <2>3. CASE ~on
    <3>1. (Switches[i].act_id - 1) % 256 = 1
      BY <1>2, <2>1, <2>3 DEF RequestOf, ARMED_VALVES
    <3>2. Switches[i].act_id = 2
      BY <2>1, <3>1
    <3> QED
      BY <2>1, <2>3, <3>2 DEF IsArming, ARMED_IGNITION
  <2> QED
    BY <2>2, <2>3
<1> QED
  BY <1>1, <1>2

(***************************************************************************)
(* The pad: its types, and the only way out of ARMED_PAD.                  *)
(***************************************************************************)
LEMMA PadStep ==
    ASSUME TypeOK, NEW r \in Requests, Arm(r) \/ Actuate(r) \/ Refuse(r)
    PROVE  /\ TypeOK'
           /\ level = ARMED_PAD /\ level' # ARMED_PAD => r.kind = "arm" /\ r.level = ARMED_VALVES
<1> USE DEF Levels, ARMED_PAD, ARMED_VALVES, ARMED_IGNITION, ARMED_DISCONNECTED, ARMED_LAUNCH
<1>0. \A st \in Statuses : Reply(r, st) \in {Reply(q, s) : q \in Requests, s \in Statuses}
  OBVIOUS
<1>1. CASE Arm(r)
  <2>1. ArmStatus(level, r.level) \in Statuses
    BY DEF ArmStatus, Statuses, ARM_OK, ARM_DENIED, ARM_INV, ACT_OK, ACT_DENIED, ACT_DNE, ACT_INV
  <2>2. ArmStatus(level, r.level) = ARM_OK => r.level \in Levels /\ ChangeAllowed(level, r.level)
    BY DEF ArmStatus, ARM_OK, ARM_DENIED, ARM_INV
  <2>3. level' \in Levels
    BY <1>1, <2>2 DEF Arm, TypeOK
  <2>4. TypeOK'
    BY <1>0, <1>1, <2>1, <2>3 DEF Arm, TypeOK
  <2>5. level = ARMED_PAD /\ level' # ARMED_PAD => r.level = ARMED_VALVES
    BY <1>1, <2>2 DEF Arm, ChangeAllowed, FiringSequence
  <2> QED
    BY <1>1, <2>4, <2>5 DEF Arm
<1>2. CASE Actuate(r)
  <2>1. FollowUp(level, r.id, r.state) \subseteq Levels
    BY DEF FollowUp
  <2>2. LevelAfter(level, r.id, r.state) \in Levels
    BY <2>1 DEF LevelAfter, TypeOK
  <2>3. \A new \in FollowUp(level, r.id, r.state) : level = ARMED_PAD => ~ChangeAllowed(level, new)
    BY DEF FollowUp, ChangeAllowed, FiringSequence
  <2>4. level = ARMED_PAD => LevelAfter(level, r.id, r.state) = level
    BY <2>3 DEF LevelAfter
  <2>5. r.id \in Actuators
    BY <1>2 DEF Actuate, ActStatus, ACT_OK, ACT_DNE
  <2>6. TypeOK'
    BY <1>0, <1>2, <2>2, <2>5 DEF Actuate, TypeOK, Statuses
  <2> QED
    BY <1>2, <2>4, <2>6 DEF Actuate
<1>3. CASE Refuse(r)
  <2>1. ActStatus(level, r.id, r.state) \in Statuses
    BY DEF ActStatus, Statuses
  <2> QED
    BY <1>0, <1>3, <2>1 DEF Refuse, TypeOK
<1> QED
  BY <1>1, <1>2, <1>3

LEMMA PadOtherStep ==
    ASSUME TypeOK, Connect \/ Disconnect \/ SendAnswer \/ UNCHANGED vars
    PROVE  TypeOK' /\ level' = level
BY DEF TypeOK, Connect, Disconnect, SendAnswer, vars, ConnStatus, CONN_CONNECTED,
       CONN_RECONNECTING

(***************************************************************************)
(* The initial state, and the steps of the switches and of the scan.       *)
(***************************************************************************)
LEMMA InitBoxInv == BoxInit => BoxInv
<1> SUFFICES ASSUME BoxInit PROVE BoxInv
  OBVIOUS
<1>1. TypeOK
  BY DEF BoxInit, Init, TypeOK, Levels, ARMED_PAD, ARMED_LAUNCH, ConnStatus
<1>2. MaxFlight \in Nat /\ Looks \in Nat \ {0}
  BY BoxTable, BoxAssumption
<1>3. flight \in Seq([by : Ids, on : BOOLEAN, key : BOOLEAN, last : BOOLEAN]) /\ Len(flight) = 0
  BY DEF BoxInit
<1>4. pins \in [Ids -> BOOLEAN] /\ recorded \in [Ids -> BOOLEAN] /\ unmet \subseteq Ids
  BY DEF BoxInit
<1>5. signal \in BOOLEAN /\ broken \in BOOLEAN /\ build \in {"board", "desktop"}
  BY Zenon DEF BoxInit
<1>6. cli \in {"connect", "wait", "scan", "answer"} /\ at \in 0 .. Looks /\ at < Looks
  BY <1>2 DEF BoxInit
<1>7. BoxTypeOK
  BY <1>1, <1>2, <1>3, <1>4, <1>5, <1>6 DEF BoxTypeOK
<1> QED
  BY <1>7 DEF BoxInit, BoxInv, KeyInv

\* flight stays, shrinks to a prefix or to its tail, or only loses its marks.
LEMMA FlightFacts ==
    ASSUME flight \in Seq(Requested)
    PROVE  /\ Len(flight) \in Nat /\ DOMAIN flight = 1 .. Len(flight)
           /\ \A n \in 1 .. Len(flight) : flight[n] \in Requested
OBVIOUS

LEMMA GoOnTypes ==
    ASSUME NEW n \in 0 .. Looks, GoOn(n)
    PROVE  cli' \in {"scan", "wait"} /\ at' \in 0 .. Looks /\ at' < Looks
BY BoxTable DEF GoOn

\* The steps that leave what is under way alone.
LEMMA QuietStep ==
    ASSUME BoxInv, UNCHANGED <<vars, build, flight>>,
           pins' \in [Ids -> BOOLEAN], recorded' \in [Ids -> BOOLEAN],
           signal' \in BOOLEAN, broken' \in BOOLEAN, unmet' \subseteq Ids,
           cli' \in {"connect", "wait", "scan", "answer"},
           at' \in 0 .. Looks, cli' # "answer" => at' < Looks
    PROVE  BoxInv'
<1>1. TypeOK'
  BY PadOtherStep DEF BoxInv, BoxTypeOK
<1>2. BoxTypeOK'
  BY <1>1 DEF BoxInv, BoxTypeOK
<1>3. KeyInv'
  BY DEF BoxInv, KeyInv
<1> QED
  BY <1>2, <1>3 DEF BoxInv

LEMMA SwitchSteps ==
    ASSUME BoxInv, Wake \/ Skip \/ GivesUp \/ Error \/ \E i \in Ids : Flip(i)
    PROVE  BoxInv'
<1> USE BoxTable DEF link
<1>0. /\ pins \in [Ids -> BOOLEAN] /\ recorded \in [Ids -> BOOLEAN] /\ signal \in BOOLEAN
      /\ broken \in BOOLEAN /\ unmet \subseteq Ids /\ at \in 0 .. Looks
      /\ cli # "answer" => at < Looks
      /\ cli \in {"connect", "wait", "scan", "answer"}
  BY DEF BoxInv, BoxTypeOK
<1>1. CASE Wake
  <2>1. UNCHANGED <<vars, build, pins, recorded, broken, flight, unmet>>
    BY <1>1 DEF Wake
  <2>2. signal' \in BOOLEAN
    BY <1>1, Zenon DEF Wake
  <2>3. cli' = "scan" /\ at' = 0
    BY <1>1 DEF Wake
  <2>4. at' \in 0 .. Looks /\ at' < Looks
    BY <2>3
  <2> QED
    BY <1>0, <2>1, <2>2, <2>3, <2>4, QuietStep
<1>2. CASE Skip
  <2>1. at + 1 \in 0 .. Looks
    BY <1>0, <1>2 DEF Skip
  <2>2. cli' \in {"scan", "wait"} /\ at' \in 0 .. Looks /\ at' < Looks
    BY <1>2, <2>1, GoOnTypes DEF Skip
  <2> QED
    BY <1>0, <1>2, <2>2, QuietStep DEF Skip
<1>3. CASE GivesUp
  BY <1>0, <1>3, GoOnTypes, QuietStep DEF GivesUp
<1>4. CASE Error
  <2>1. cli' \in {"scan", "wait", "connect"} /\ at' \in 0 .. Looks /\ at' < Looks
    BY <1>0, <1>4, GoOnTypes DEF Error
  <2> QED
    BY <1>0, <1>4, <2>1, QuietStep DEF Error
<1>5. CASE \E i \in Ids : Flip(i)
  <2>1. PICK i \in Ids : Flip(i)
    BY <1>5
  <2>2. pins' \in [Ids -> BOOLEAN] /\ signal' \in BOOLEAN
    BY <1>0, <2>1 DEF Flip
  <2> QED
    BY <1>0, <2>1, <2>2, QuietStep DEF Flip
<1> QED
  BY <1>1, <1>2, <1>3, <1>4, <1>5

(***************************************************************************)
(* The steps that change what is under way.  Each keeps its types and      *)
(* KeyInv, which is about the requests one by one.                         *)
(***************************************************************************)
Safe(f) == LET r == RequestOf(f.by, f.on) IN
           r.kind = "arm" /\ r.level = ARMED_VALVES => f.key

LEMMA KeyInvIsSafe ==
    /\ KeyInv <=> (build = "board" => \A n \in DOMAIN flight : Safe(flight[n]))
    /\ KeyInv' <=> (build' = "board" => \A n \in DOMAIN flight' : Safe(flight'[n]))
BY Zenon DEF KeyInv, Safe

\* What becomes of flight in a step, as far as BoxInv is concerned.
LEMMA FlightStep ==
    ASSUME BoxInv, TypeOK', UNCHANGED build,
           pins' \in [Ids -> BOOLEAN], recorded' \in [Ids -> BOOLEAN],
           signal' \in BOOLEAN, broken' \in BOOLEAN, unmet' \subseteq Ids,
           cli' \in {"connect", "wait", "scan", "answer"},
           at' \in 0 .. Looks, cli' # "answer" => at' < Looks,
           flight' \in Seq(Requested), Len(flight') <= MaxFlight,
           build = "board" => \A n \in DOMAIN flight' : Safe(flight'[n])
    PROVE  BoxInv'
<1>1. BoxTypeOK'
  BY DEF BoxInv, BoxTypeOK, Requested
<1>2. KeyInv'
  BY KeyInvIsSafe
<1> QED
  BY <1>1, <1>2 DEF BoxInv

\* The facts of BoxInv the steps start from.
LEMMA BoxFacts ==
    ASSUME BoxInv
    PROVE  /\ TypeOK
           /\ pins \in [Ids -> BOOLEAN] /\ recorded \in [Ids -> BOOLEAN]
           /\ signal \in BOOLEAN /\ broken \in BOOLEAN
           /\ unmet \subseteq Ids /\ at \in 0 .. Looks
           /\ cli # "answer" => at < Looks
           /\ cli \in {"connect", "wait", "scan", "answer"}
           /\ flight \in Seq(Requested) /\ Len(flight) <= MaxFlight
           /\ build = "board" => \A n \in DOMAIN flight : Safe(flight[n])
BY KeyInvIsSafe DEF BoxInv, BoxTypeOK, Requested

\* A part of what is under way, taken from one end.
LEMMA PartOfFlight ==
    ASSUME flight \in Seq(Requested), Len(flight) <= MaxFlight,
           NEW f \in Seq(Requested), NEW d \in Nat, d + Len(f) <= Len(flight),
           \A k \in 1 .. Len(f) : f[k] = flight[d + k],
           build = "board" => \A n \in DOMAIN flight : Safe(flight[n])
    PROVE  /\ Len(f) <= MaxFlight
           /\ build = "board" => \A n \in DOMAIN f : Safe(f[n])
<1>1. MaxFlight \in Nat /\ Len(flight) \in Nat /\ Len(f) \in Nat
      /\ DOMAIN flight = 1 .. Len(flight) /\ DOMAIN f = 1 .. Len(f)
  BY BoxAssumption
<1>2. \A k \in 1 .. Len(f) : d + k \in 1 .. Len(flight)
  BY <1>1
<1>3. Len(f) <= MaxFlight
  BY <1>1
<1> QED
  BY <1>1, <1>2, <1>3

LEMMA TakesNextKeeps ==
    ASSUME BoxInv, flight # <<>>, NEW ok \in BOOLEAN, TakesNext(ok)
    PROVE  /\ flight' \in Seq(Requested) /\ Len(flight') <= MaxFlight
           /\ build = "board" => \A n \in DOMAIN flight' : Safe(flight'[n])
           /\ unmet' \subseteq Ids
           /\ Oldest \in Requested
           /\ Request \in Requests
           /\ build = "board" => Safe(Oldest)
<1>1. flight' = Tail(flight)
  BY DEF TakesNext
<1>2. /\ flight' \in Seq(Requested) /\ Len(flight') = Len(flight) - 1
      /\ Oldest = flight[1] /\ Oldest \in Requested
      /\ \A k \in 1 .. Len(flight') : flight'[k] = flight[1 + k]
      /\ Len(flight) \in Nat /\ 1 \in DOMAIN flight
  BY <1>1, BoxFacts DEF Oldest
<1>3. Oldest.by \in Ids /\ Oldest.on \in BOOLEAN
  BY <1>2 DEF Requested
<1>4. Request \in Requests
  BY <1>3, RequestKind DEF Request
<1>5. unmet' \subseteq Ids
  BY <1>3, BoxFacts DEF TakesNext
<1>6. build = "board" => Safe(Oldest)
  BY <1>2, BoxFacts
<1>7. /\ Len(flight') <= MaxFlight
      /\ build = "board" => \A n \in DOMAIN flight' : Safe(flight'[n])
  BY <1>2, BoxFacts, PartOfFlight
<1> QED
  BY <1>2, <1>4, <1>5, <1>6, <1>7

LEMMA PadSteps ==
    ASSUME BoxInv, PadExecutes \/ PadStaysSilent \/ PadAnswers \/ PadLosesClient \/ Reconnect
    PROVE  BoxInv'
<1> USE DEF box, link
<1>1. CASE PadExecutes
  <2>1. PICK ok \in BOOLEAN : TakesNext(ok)
    BY <1>1, Zenon DEF PadExecutes
  <2>2. flight # <<>> /\ UNCHANGED <<build, pins, recorded, signal, cli, at, broken>>
    BY <1>1 DEF PadExecutes
  <2>3. Request \in Requests
    BY <2>1, <2>2, TakesNextKeeps
  <2>4. TypeOK'
    BY <1>1, <2>3, PadStep, BoxFacts DEF PadExecutes
  <2> QED
    BY <2>1, <2>2, <2>4, TakesNextKeeps, BoxFacts, FlightStep
<1>2. CASE PadStaysSilent
  <2>1. TakesNext(FALSE) /\ flight # <<>>
    BY <1>2, Zenon DEF PadStaysSilent
  <2>2. UNCHANGED <<vars, build, pins, recorded, signal, cli, at, broken>>
    BY <1>2 DEF PadStaysSilent
  <2>3. TypeOK'
    BY <2>2, PadOtherStep, BoxFacts
  <2> QED
    BY <2>1, <2>2, <2>3, TakesNextKeeps, BoxFacts, FlightStep
<1>3. CASE PadAnswers
  <2>1. TypeOK'
    BY <1>3, PadOtherStep, BoxFacts DEF PadAnswers
  <2>2. UNCHANGED <<build, pins, recorded, signal, broken, flight, unmet>>
    BY <1>3 DEF PadAnswers
  <2>3. /\ cli' \in {"connect", "wait", "scan", "answer"}
        /\ at' \in 0 .. Looks /\ (cli' # "answer" => at' < Looks)
    BY <1>3, BoxFacts, GoOnTypes DEF PadAnswers
  <2> QED
    BY <2>1, <2>2, <2>3, BoxFacts, FlightStep
<1>4. CASE PadLosesClient
  <2>1. TypeOK'
    BY <1>4, PadOtherStep, BoxFacts DEF PadLosesClient
  <2>2. UNCHANGED <<build, pins, recorded, signal, cli, at, broken, flight, unmet>>
    BY <1>4 DEF PadLosesClient
  <2> QED
    BY <2>1, <2>2, BoxFacts, FlightStep
<1>5. CASE Reconnect
  <2>1. TypeOK'
    BY <1>5, PadOtherStep, BoxFacts DEF Reconnect
  <2>2. UNCHANGED <<build, pins, recorded, signal, at, flight, unmet>> /\ cli = "connect"
    BY <1>5 DEF Reconnect
  <2>3. broken' \in BOOLEAN /\ cli' = "wait"
    BY <1>5, Zenon DEF Reconnect
  <2> QED
    BY <2>1, <2>2, <2>3, BoxFacts, FlightStep
<1> QED
  BY <1>1, <1>2, <1>3, <1>4, <1>5

\* A superseded request keeps everything but its mark.
LEMMA SupersededFacts ==
    ASSUME flight \in Seq(Requested), NEW i \in Ids
    PROVE  /\ Superseded(i) \in Seq(Requested)
           /\ Len(Superseded(i)) = Len(flight)
           /\ DOMAIN Superseded(i) = DOMAIN flight
           /\ \A n \in DOMAIN flight :
                 /\ Superseded(i)[n].by = flight[n].by
                 /\ Superseded(i)[n].on = flight[n].on
                 /\ Superseded(i)[n].key = flight[n].key
                 /\ Superseded(i)[n].last <=> flight[n].last /\ flight[n].by # i
<1> DEFINE f == [k \in DOMAIN flight |-> [flight[k] EXCEPT !.last = @ /\ flight[k].by # i]]
<1>1. Len(flight) \in Nat /\ DOMAIN flight = 1 .. Len(flight)
      /\ \A n \in 1 .. Len(flight) : flight[n] \in Requested
  BY FlightFacts
<1>2. \A n \in 1 .. Len(flight) :
         /\ f[n] \in Requested
         /\ f[n].by = flight[n].by /\ f[n].on = flight[n].on /\ f[n].key = flight[n].key
         /\ f[n].last <=> flight[n].last /\ flight[n].by # i
  <2> TAKE n \in 1 .. Len(flight)
  <2>1. flight[n] \in Requested
    BY <1>1
  <2>2. f[n] = [flight[n] EXCEPT !.last = @ /\ flight[n].by # i]
    BY <1>1
  <2>3. (flight[n].last /\ flight[n].by # i) \in BOOLEAN
    BY Zenon
  <2> HIDE DEF f
  <2> QED
    BY <2>1, <2>2, <2>3 DEF Requested
<1>3. DOMAIN f = 1 .. Len(flight)
  BY <1>1
<1>4. f \in [1 .. Len(flight) -> Requested]
  <2>1. f = [k \in 1 .. Len(flight) |-> f[k]]
    BY <1>1
  <2> HIDE DEF f
  <2> QED
    BY <1>2, <2>1
<1> HIDE DEF f
<1>5. f \in Seq(Requested) /\ Len(f) = Len(flight)
  BY <1>1, <1>3, <1>4
<1>6. Superseded(i) = f
  BY DEF Superseded, f
<1> QED
  BY <1>1, <1>2, <1>3, <1>5, <1>6

\* What a callback does to the requests under way, given that the guard was passed.
LEMMA CallbackKeeps ==
    ASSUME BoxInv, NEW i \in Ids, NEW on \in BOOLEAN, Callback(i, on),
           build = "board" /\ ~on /\ IsArming(i, ARMED_IGNITION) => recorded[KEY]
    PROVE  /\ flight' \in Seq(Requested) /\ Len(flight') <= MaxFlight
           /\ build = "board" => \A n \in DOMAIN flight' : Safe(flight'[n])
           /\ unmet' \subseteq Ids /\ recorded' \in [Ids -> BOOLEAN]
<1>1. recorded' = [recorded EXCEPT ![i] = on] /\ recorded' \in [Ids -> BOOLEAN]
  BY BoxFacts DEF Callback
<1>2. Len(flight) \in Nat /\ MaxFlight \in Nat /\ Len(flight) < MaxFlight
  BY BoxFacts, BoxAssumption DEF Callback
<1>3. unmet' \subseteq Ids
  BY BoxFacts DEF Callback
<1>4. build = "board" => \A n \in DOMAIN Superseded(i) : Safe(Superseded(i)[n])
  BY BoxFacts, SupersededFacts DEF Safe
<1>5. CASE broken
  <2>1. flight' = Superseded(i)
    BY <1>5 DEF Callback
  <2> QED
    BY <1>1, <1>2, <1>3, <1>4, <2>1, SupersededFacts, BoxFacts
<1>6. CASE ~broken
  <2> DEFINE new == [by |-> i, on |-> on, key |-> recorded'[KEY], last |-> TRUE]
  <2>1. flight' = Append(Superseded(i), new)
    BY <1>6 DEF Callback
  <2>2. recorded'[KEY] \in BOOLEAN
    BY <1>1, BoxAssumption
  <2>3. new \in Requested
    BY <2>2 DEF Requested
  <2>4. build = "board" => Safe(new)
    <3> SUFFICES ASSUME build = "board", RequestOf(i, on).kind = "arm",
                        RequestOf(i, on).level = ARMED_VALVES
                 PROVE  recorded'[KEY]
      BY DEF Safe
    <3>1. CASE on /\ i = KEY
      BY <1>1, <3>1, BoxFacts
    <3>2. CASE ~on /\ IsArming(i, ARMED_IGNITION)
      <4>1. i # KEY
        BY <3>2, BoxAssumption DEF IsArming, ARMED_VALVES, ARMED_IGNITION
      <4>2. recorded[KEY]
        BY <3>2
      <4> QED
        BY <1>1, <4>1, <4>2, BoxFacts, BoxAssumption
    <3> QED
      BY <3>1, <3>2, RequestKind
  <2> HIDE DEF new
  <2>5. /\ flight' \in Seq(Requested) /\ Len(flight') = Len(flight) + 1
        /\ DOMAIN flight' = 1 .. Len(flight) + 1
        /\ flight'[Len(flight) + 1] = new
        /\ \A n \in 1 .. Len(flight) : flight'[n] = Superseded(i)[n]
    BY <1>2, <2>1, <2>3, SupersededFacts, BoxFacts
  <2>6. DOMAIN Superseded(i) = 1 .. Len(flight)
    BY SupersededFacts, BoxFacts, FlightFacts
  <2>7. build = "board" => \A n \in DOMAIN flight' : Safe(flight'[n])
    BY <1>2, <1>4, <2>4, <2>5, <2>6
  <2> QED
    BY <1>1, <1>2, <1>3, <2>5, <2>7
<1> QED
  BY <1>5, <1>6

LEMMA CallbackSteps ==
    ASSUME BoxInv, Notice \/ \E i \in Ids : PressKey(i)
    PROVE  BoxInv'
<1> USE DEF box, link
<1>1. CASE Notice
  <2> DEFINE i == SwitchAt
  <2>1. i \in Ids /\ cli = "scan" /\ at \in 0 .. Looks /\ at < Looks
    BY <1>1, BoxFacts, ScanInTable, BoxTable DEF Notice
  <2>2. Callback(i, pins[i]) /\ ~HeldBack(i) /\ at' = at + 1
    BY <1>1 DEF Notice
  <2> HIDE DEF i
  <2>3. pins[i] \in BOOLEAN
    BY <2>1, BoxFacts
  <2>4. ~pins[i] /\ IsArming(i, ARMED_IGNITION) => recorded[KEY]
    BY <2>2 DEF HeldBack
  <2>5. /\ flight' \in Seq(Requested) /\ Len(flight') <= MaxFlight
        /\ build = "board" => \A n \in DOMAIN flight' : Safe(flight'[n])
        /\ unmet' \subseteq Ids /\ recorded' \in [Ids -> BOOLEAN]
    BY <2>1, <2>2, <2>3, <2>4, CallbackKeeps
  <2>6. UNCHANGED <<vars, build, pins, signal, broken>> /\ cli' = "answer"
    BY <2>2 DEF Callback
  <2>7. TypeOK'
    BY <2>6, PadOtherStep, BoxFacts
  <2>8. at' \in 0 .. Looks
    BY <2>1, <2>2, BoxTable
  <2> QED
    BY <2>5, <2>6, <2>7, <2>8, BoxFacts, FlightStep
<1>2. CASE \E i \in Ids : PressKey(i)
  <2>1. PICK i \in Ids : PressKey(i)
    BY <1>2
  <2>2. Callback(i, ~recorded[i]) /\ build # "board" /\ at' = at
    BY <2>1 DEF PressKey
  <2>3. (~recorded[i]) \in BOOLEAN
    BY Zenon
  <2>4. /\ flight' \in Seq(Requested) /\ Len(flight') <= MaxFlight
        /\ build = "board" => \A n \in DOMAIN flight' : Safe(flight'[n])
        /\ unmet' \subseteq Ids /\ recorded' \in [Ids -> BOOLEAN]
    BY <2>2, <2>3, CallbackKeeps
  <2>5. UNCHANGED <<vars, build, pins, signal, broken>> /\ cli' = "answer"
    BY <2>2 DEF Callback
  <2>6. TypeOK'
    BY <2>5, PadOtherStep, BoxFacts
  <2> QED
    BY <2>2, <2>4, <2>5, <2>6, BoxFacts, FlightStep
<1> QED
  BY <1>1, <1>2

LEMMA LossSteps ==
    ASSUME BoxInv, Break \/ Restart
    PROVE  BoxInv'
<1> USE DEF box, link
<1>1. CASE Break
  <2>1. PICK n \in 0 .. Len(flight) : Loses(n)
    BY <1>1 DEF Break
  <2>2. UNCHANGED <<vars, build, pins, recorded, signal, cli, at>>
    BY <1>1 DEF Break
  <2>3. broken' \in BOOLEAN
    BY <1>1, Zenon DEF Break
  <2>4. TypeOK'
    BY <2>2, PadOtherStep, BoxFacts
  <2>5. flight' = SubSeq(flight, 1, n) /\ flight \in Seq(Requested) /\ n \in Nat /\ n <= Len(flight)
    BY <2>1, BoxFacts DEF Loses
  <2>6. /\ flight' \in Seq(Requested) /\ Len(flight') = n
        /\ \A k \in 1 .. Len(flight') : flight'[k] = flight[0 + k]
    BY <2>5
  <2>7. /\ Len(flight') <= MaxFlight
        /\ build = "board" => \A k \in DOMAIN flight' : Safe(flight'[k])
    <3>1. 0 \in Nat /\ 0 + Len(flight') <= Len(flight)
      BY <2>5, <2>6
    <3> QED
      BY <2>6, <3>1, BoxFacts, PartOfFlight
  <2>8. unmet' \subseteq Ids
    <3>1. \A k \in n + 1 .. Len(flight) : flight[k].by \in Ids
      BY <2>5, FlightFacts DEF Requested
    <3> QED
      BY <2>1, <3>1, BoxFacts DEF Loses
  <2> QED
    BY <2>2, <2>3, <2>4, <2>6, <2>7, <2>8, BoxFacts, FlightStep
<1>2. CASE Restart
  <2>1. PICK n \in 0 .. Len(flight) :
           flight' = [k \in 1 .. n |-> [flight[k] EXCEPT !.last = FALSE]]
    BY <1>2 DEF Restart
  <2>2. UNCHANGED <<vars, build, pins>> /\ cli' = "connect" /\ at' = 0 /\ unmet' \subseteq Ids
        /\ recorded' \in [Ids -> BOOLEAN]
    BY <1>2 DEF Restart
  <2>3. signal' \in BOOLEAN /\ broken' \in BOOLEAN
    BY <1>2, Zenon DEF Restart
  <2>4. TypeOK'
    BY <2>2, PadOtherStep, BoxFacts
  <2>5. Len(flight) \in Nat /\ n \in Nat /\ n <= Len(flight) /\ DOMAIN flight = 1 .. Len(flight)
        /\ \A k \in 1 .. n : flight[k] \in Requested
    BY <2>1, BoxFacts, FlightFacts
  <2>6. \A k \in 1 .. n :
           /\ flight'[k] \in Requested
           /\ flight'[k].by = flight[k].by /\ flight'[k].on = flight[k].on
           /\ flight'[k].key = flight[k].key
    <3> TAKE k \in 1 .. n
    <3>1. flight'[k] = [flight[k] EXCEPT !.last = FALSE]
      BY <2>1
    <3> QED
      BY <2>5, <3>1 DEF Requested
  <2>7. flight' \in [1 .. n -> Requested]
    BY <2>1, <2>6
  <2>8. flight' \in Seq(Requested) /\ Len(flight') = n /\ DOMAIN flight' = 1 .. n
    BY <2>5, <2>7
  <2>9. Len(flight') <= MaxFlight
    BY <2>5, <2>8, BoxFacts, BoxAssumption
  <2>10. build = "board" => \A k \in DOMAIN flight' : Safe(flight'[k])
    BY <2>5, <2>6, <2>8, BoxFacts DEF Safe
  <2>11. 0 \in 0 .. Looks /\ 0 < Looks
    BY BoxTable
  <2> QED
    BY <2>2, <2>3, <2>4, <2>8, <2>9, <2>10, <2>11, BoxFacts, FlightStep
<1> QED
  BY <1>1, <1>2

(***************************************************************************)
(* The theorems.                                                           *)
(***************************************************************************)
LEMMA BoxStep == BoxInv /\ [BoxNext]_boxVars => BoxInv'
<1> SUFFICES ASSUME BoxInv, [BoxNext]_boxVars
             PROVE  BoxInv'
  OBVIOUS
<1>1. CASE UNCHANGED boxVars
  BY <1>1, BoxFacts, QuietStep DEF boxVars, box, link
<1>2. CASE Wake \/ Skip \/ GivesUp \/ Error \/ \E i \in Ids : Flip(i)
  BY <1>2, SwitchSteps
<1>3. CASE Notice \/ \E i \in Ids : PressKey(i)
  BY <1>3, CallbackSteps
<1>4. CASE PadExecutes \/ PadStaysSilent \/ PadAnswers \/ PadLosesClient \/ Reconnect
  BY <1>4, PadSteps
<1>5. CASE Break \/ Restart
  BY <1>5, LossSteps
<1> QED
  BY <1>1, <1>2, <1>3, <1>4, <1>5 DEF BoxNext

(***************************************************************************)
(* For any table of switches, any number of looks and any number of        *)
(* requests under way: the types of box and pad, and that every request    *)
(* for ARMED_VALVES on its way to the pad was sent while the key was       *)
(* recorded as in (control_client_main.c:391, switch.c:83).                *)
(***************************************************************************)
THEOREM BoxInvAlways == BoxSpec => []BoxInv
BY InitBoxInv, BoxStep, PTL DEF BoxSpec

LEMMA OnlyWithKey ==
    BoxInv /\ [BoxNext]_boxVars =>
        (build = "board" /\ level = ARMED_PAD /\ level' # ARMED_PAD => Oldest.key)
<1> SUFFICES ASSUME BoxInv, [BoxNext]_boxVars, build = "board",
                    level = ARMED_PAD, level' # ARMED_PAD
             PROVE  Oldest.key
  OBVIOUS
<1> USE DEF box, link
<1>1. level' = level \/ PadExecutes
  <2>1. TypeOK
    BY BoxFacts
  <2>2. (Connect \/ Disconnect \/ SendAnswer \/ UNCHANGED vars) => level' = level
    BY <2>1, PadOtherStep
  <2>3. CASE UNCHANGED boxVars \/ Wake \/ Skip \/ PadStaysSilent \/ GivesUp \/ Break
             \/ Error \/ Restart
    BY <2>2, <2>3 DEF boxVars, Wake, Skip, PadStaysSilent, GivesUp, Break, Error, Restart
  <2>4. CASE PadAnswers \/ PadLosesClient \/ Reconnect
    BY <2>2, <2>4 DEF PadAnswers, PadLosesClient, Reconnect
  <2>5. CASE Notice
    BY <2>2, <2>5 DEF Notice, Callback
  <2>6. CASE \E i \in Ids : Flip(i) \/ PressKey(i)
    BY <2>2, <2>6 DEF Flip, PressKey, Callback
  <2> QED
    BY <2>3, <2>4, <2>5, <2>6 DEF BoxNext
<1>2. PadExecutes
  BY <1>1
<1>3. PICK ok \in BOOLEAN : TakesNext(ok)
  BY <1>2, Zenon DEF PadExecutes
<1>4. flight # <<>> /\ (Arm(Request) \/ Actuate(Request) \/ Refuse(Request))
  BY <1>2 DEF PadExecutes
<1>5. Request \in Requests /\ Safe(Oldest)
  BY <1>3, <1>4, TakesNextKeeps
<1>6. Request.kind = "arm" /\ Request.level = ARMED_VALVES
  BY <1>4, <1>5, PadStep, BoxFacts
<1> QED
  BY <1>5, <1>6 DEF Safe, Request

(***************************************************************************)
(* The privilege guard holds: whatever is flipped, lost, refused or read   *)
(* in vain, and however often the client is restarted, the pad leaves      *)
(* ARMED_PAD only on a request sent with the key in                        *)
(* (control_client_main.c:391).                                            *)
(***************************************************************************)
THEOREM GuardHolds == BoxSpec => NoEscalation
<1>1. BoxInv /\ [BoxNext]_boxVars =>
         [build = "board" /\ level = ARMED_PAD /\ level' # ARMED_PAD => Oldest.key]_boxVars
  BY OnlyWithKey
<1> QED
  BY <1>1, BoxInvAlways, PTL DEF BoxSpec, NoEscalation
-----------------------------------------------------------------------------
(***************************************************************************)
(* What the switches ask for and what the pad does in the end.             *)
(***************************************************************************)
LEMMA InitFollow == BoxInit => FollowInv
<1> SUFFICES ASSUME BoxInit PROVE FollowInv
  OBVIOUS
<1>1. /\ flight = <<>> /\ DOMAIN flight = {} /\ level = ARMED_PAD
      /\ act = [i \in Actuators |-> FALSE] /\ recorded = [i \in Ids |-> FALSE]
  BY DEF BoxInit, Init
<1>2. BoxInv
  BY InitBoxInv
<1>3. LatestInv /\ KeyKnown
  BY <1>1 DEF LatestInv, KeyKnown, Latest, UnderWay
<1>4. ActuatorsFollow
  BY <1>1 DEF ActuatorsFollow
<1>5. LevelFollows
  BY <1>1 DEF LevelFollows, ARMED_PAD, ARMED_VALVES
<1> QED
  BY <1>2, <1>3, <1>4, <1>5 DEF FollowInv

\* The steps that leave the pad alone and let no switch be heeded anew.
LEMMA SamePad ==
    ASSUME FollowInv, UNCHANGED <<level, act, build>>,
           \A i \in Ids : Heeded(i)' => Heeded(i) /\ recorded'[i] = recorded[i],
           build = "board" => \A n \in DOMAIN flight' : Switches[flight'[n].by].pin
    PROVE  ActuatorsFollow' /\ LevelFollows'
<1>1. ActuatorsFollow'
  BY DEF FollowInv, ActuatorsFollow
<1>2. IgnitionOff' => IgnitionOff
  BY DEF IgnitionOff
<1>3. Heeded(KEY)' /\ ~recorded'[KEY] => Heeded(KEY) /\ ~recorded[KEY]
  BY BoxAssumption
<1>4. LevelFollows'
  BY <1>2, <1>3 DEF FollowInv, LevelFollows
<1> QED
  BY <1>1, <1>4

LEMMA QuietFollow ==
    ASSUME FollowInv, BoxInv', UNCHANGED <<level, act, build, recorded, flight, unmet>>
    PROVE  FollowInv'
<1>1. LatestInv' /\ KeyKnown'
  BY DEF FollowInv, LatestInv, KeyKnown, Latest, Heeded, UnderWay
<1>2. \A i \in Ids : Heeded(i)' => Heeded(i) /\ recorded'[i] = recorded[i]
  BY DEF Heeded, UnderWay
<1>3. build = "board" => \A n \in DOMAIN flight' : Switches[flight'[n].by].pin
  BY DEF FollowInv, LevelFollows
<1>4. ActuatorsFollow' /\ LevelFollows'
  BY <1>2, <1>3, SamePad
<1> QED
  BY <1>1, <1>4 DEF FollowInv

LEMMA QuietSteps ==
    ASSUME FollowInv, BoxInv',
           \/ UNCHANGED boxVars \/ Wake \/ Skip \/ GivesUp \/ Error \/ PadAnswers
           \/ PadLosesClient \/ Reconnect \/ \E i \in Ids : Flip(i)
    PROVE  FollowInv'
<1>1. UNCHANGED <<level, act, build, recorded, flight, unmet>>
  BY DEF boxVars, vars, box, link, Wake, Skip, GivesUp, Error, PadAnswers, PadLosesClient, Reconnect,
         Flip, SendAnswer, Disconnect, Connect
<1> QED
  BY <1>1, QuietFollow

-----------------------------------------------------------------------------
(* A request is sent: it becomes the latest of its switch.                 *)

LEMMA CallbackFlight ==
    ASSUME BoxInv, NEW i \in Ids, NEW on \in BOOLEAN, Callback(i, on)
    PROVE  /\ Len(flight) \in Nat /\ DOMAIN flight = 1 .. Len(flight)
           /\ \A n \in 1 .. Len(flight) :
                 /\ flight'[n].by = flight[n].by /\ flight'[n].on = flight[n].on
                 /\ flight'[n].key = flight[n].key
                 /\ flight'[n].last <=> flight[n].last /\ flight[n].by # i
           /\ recorded'[i] = on /\ \A j \in Ids : j # i => recorded'[j] = recorded[j]
           /\ \/ /\ DOMAIN flight' = 1 .. Len(flight)
                 /\ unmet' = unmet \cup {i}
              \/ /\ DOMAIN flight' = 1 .. Len(flight) + 1
                 /\ LET new == flight'[Len(flight) + 1] IN
                    new.by = i /\ new.on = on /\ new.key = recorded'[KEY] /\ new.last
                 /\ unmet' = unmet
<1>1. /\ Len(flight) \in Nat /\ DOMAIN flight = 1 .. Len(flight)
      /\ Superseded(i) \in Seq(Requested) /\ Len(Superseded(i)) = Len(flight)
      /\ DOMAIN Superseded(i) = DOMAIN flight
  BY FlightFacts, SupersededFacts, BoxFacts
<1>2. \A n \in 1 .. Len(flight) :
         /\ Superseded(i)[n].by = flight[n].by /\ Superseded(i)[n].on = flight[n].on
         /\ Superseded(i)[n].key = flight[n].key
         /\ Superseded(i)[n].last <=> flight[n].last /\ flight[n].by # i
  BY <1>1, SupersededFacts, BoxFacts
<1>3. recorded'[i] = on /\ \A j \in Ids : j # i => recorded'[j] = recorded[j]
  BY BoxFacts DEF Callback
<1>4. CASE broken
  <2>1. flight' = Superseded(i) /\ unmet' = unmet \cup {i}
    BY <1>4 DEF Callback
  <2> QED
    BY <1>1, <1>2, <1>3, <2>1
<1>5. CASE ~broken
  <2> DEFINE new == [by |-> i, on |-> on, key |-> recorded'[KEY], last |-> TRUE]
  <2>1. flight' = Append(Superseded(i), new) /\ unmet' = unmet
    BY <1>5 DEF Callback
  <2>2. new.by = i /\ new.on = on /\ new.key = recorded'[KEY] /\ new.last
    OBVIOUS
  <2> HIDE DEF new
  <2>3. /\ DOMAIN flight' = 1 .. Len(flight) + 1 /\ flight'[Len(flight) + 1] = new
        /\ \A n \in 1 .. Len(flight) : flight'[n] = Superseded(i)[n]
    BY <1>1, <2>1
  <2>4. \A n \in 1 .. Len(flight) :
           /\ flight'[n].by = flight[n].by /\ flight'[n].on = flight[n].on
           /\ flight'[n].key = flight[n].key
           /\ flight'[n].last <=> flight[n].last /\ flight[n].by # i
    BY <1>1, <1>2, <2>3
  <2>5. LET f == flight'[Len(flight) + 1] IN
           f.by = i /\ f.on = on /\ f.key = recorded'[KEY] /\ f.last
    BY <2>2, <2>3
  <2> QED
    BY <1>1, <1>3, <2>1, <2>3, <2>4, <2>5
<1> QED
  BY <1>4, <1>5

LEMMA CallbackFollow ==
    ASSUME FollowInv, BoxInv', NEW i \in Ids, NEW on \in BOOLEAN, Callback(i, on),
           build = "board" => Switches[i].pin
    PROVE  FollowInv'
<1> DEFINE L == Len(flight)
<1>1. /\ L \in Nat /\ DOMAIN flight = 1 .. L
      /\ \A n \in 1 .. L :
            /\ flight'[n].by = flight[n].by /\ flight'[n].on = flight[n].on
            /\ flight'[n].key = flight[n].key
            /\ flight'[n].last <=> flight[n].last /\ flight[n].by # i
      /\ recorded'[i] = on /\ \A j \in Ids : j # i => recorded'[j] = recorded[j]
  BY CallbackFlight DEF FollowInv
<1>2. \/ DOMAIN flight' = 1 .. L /\ unmet' = unmet \cup {i}
      \/ /\ DOMAIN flight' = 1 .. L + 1 /\ unmet' = unmet
         /\ flight'[L + 1].by = i /\ flight'[L + 1].on = on /\ flight'[L + 1].key = recorded'[KEY]
         /\ flight'[L + 1].last
  BY CallbackFlight DEF FollowInv
<1> HIDE DEF L
<1>3. \A n \in DOMAIN flight' : n \in 1 .. L \/ n = L + 1
  BY <1>1, <1>2
<1>4. \A j \in Ids : j # i =>
         /\ Latest(j)' = Latest(j) /\ (UnderWay(j)' <=> UnderWay(j)) /\ (Heeded(j)' <=> Heeded(j))
         /\ (j \in unmet' <=> j \in unmet)
  BY <1>1, <1>2, <1>3 DEF Latest, UnderWay, Heeded
<1>5. ~Heeded(i)'
  BY <1>1, <1>2 DEF Heeded, UnderWay
<1>6. /\ Latest(i)' \subseteq {L + 1}
      /\ i \notin unmet' => L + 1 \in Latest(i)'
      /\ \A m \in DOMAIN flight' : ~(m > L + 1)
  BY <1>1, <1>2, <1>3 DEF Latest
<1>7. LatestInv'
  <2> SUFFICES ASSUME NEW j \in Ids
               PROVE  /\ \A n \in Latest(j)' : flight'[n].on = recorded'[j]
                                     /\ \A m \in DOMAIN flight' : m > n => flight'[m].by # j
                      /\ j \notin unmet' /\ UnderWay(j)' => Latest(j)' # {}
    BY DEF LatestInv
  <2>1. CASE j = i
    <3>1. \A n \in Latest(i)' : n = L + 1 /\ flight'[n].on = on
      BY <1>1, <1>2, <1>6 DEF Latest
    <3> QED
      BY <1>1, <1>6, <2>1, <3>1
  <2>2. CASE j # i
    <3>1. /\ \A n \in Latest(j) : flight[n].on = recorded[j]
                                   /\ \A m \in DOMAIN flight : m > n => flight[m].by # j
          /\ j \notin unmet /\ UnderWay(j) => Latest(j) # {}
      BY DEF FollowInv, LatestInv
    <3>2. \A n \in Latest(j) : n \in 1 .. L
      BY <1>1 DEF Latest
    <3> QED
      BY <1>1, <1>2, <1>3, <1>4, <2>2, <3>1, <3>2
  <2> QED
    BY <2>1, <2>2
<1>8. KeyKnown'
  <2>1. CASE i = KEY
    BY <1>5, <1>6, <2>1 DEF KeyKnown
  <2>2. CASE i # KEY
    <3>1. recorded'[KEY] = recorded[KEY] /\ Latest(KEY)' = Latest(KEY) /\ (Heeded(KEY)' <=> Heeded(KEY))
      BY <1>1, <1>4, <2>2, BoxAssumption
    <3>2. \A n \in Latest(KEY), m \in DOMAIN flight' : m > n => flight'[m].key = recorded[KEY]
      <4> TAKE n \in Latest(KEY), m \in DOMAIN flight'
      <4>1. CASE m \in 1 .. L
        BY <1>1, <4>1 DEF FollowInv, KeyKnown
      <4>2. CASE m = L + 1 /\ m \notin 1 .. L
        BY <1>1, <1>2, <3>1, <4>2
      <4> QED
        BY <1>3, <4>1, <4>2, <1>1
    <3>3. Heeded(KEY) => \A m \in DOMAIN flight' : flight'[m].key = recorded[KEY]
      <4> SUFFICES ASSUME Heeded(KEY), NEW m \in DOMAIN flight' PROVE flight'[m].key = recorded[KEY]
        OBVIOUS
      <4>1. CASE m \in 1 .. L
        BY <1>1, <4>1 DEF FollowInv, KeyKnown
      <4>2. CASE m = L + 1 /\ m \notin 1 .. L
        BY <1>1, <1>2, <3>1, <4>2
      <4> QED
        BY <1>3, <4>1, <4>2, <1>1
    <3> QED
      BY <3>1, <3>2, <3>3 DEF KeyKnown
  <2> QED
    BY <2>1, <2>2
<1>9. UNCHANGED <<level, act, build>>
  BY DEF Callback, vars
<1>10. \A j \in Ids : Heeded(j)' => Heeded(j) /\ recorded'[j] = recorded[j]
  BY <1>1, <1>4, <1>5
<1>11. build = "board" => \A n \in DOMAIN flight' : Switches[flight'[n].by].pin
  BY <1>1, <1>2, <1>3 DEF FollowInv, LevelFollows
<1>12. ActuatorsFollow' /\ LevelFollows'
  BY <1>9, <1>10, <1>11, SamePad
<1> QED
  BY <1>7, <1>8, <1>12 DEF FollowInv

LEMMA CallbacksFollow ==
    ASSUME FollowInv, BoxInv', Notice \/ \E i \in Ids : PressKey(i)
    PROVE  FollowInv'
<1>1. CASE Notice
  <2>1. SwitchAt \in Ids
    BY <1>1, ScanInTable, BoxFacts, BoxTable DEF FollowInv, Notice
  <2>2. Switches[SwitchAt].pin /\ Callback(SwitchAt, pins[SwitchAt])
    BY <1>1 DEF Notice
  <2>3. pins[SwitchAt] \in BOOLEAN
    BY <2>1, BoxFacts DEF FollowInv
  <2> QED
    BY <2>1, <2>2, <2>3, CallbackFollow
<1>2. CASE \E i \in Ids : PressKey(i)
  <2>1. PICK i \in Ids : PressKey(i)
    BY <1>2
  <2>2. Callback(i, ~recorded[i]) /\ build # "board"
    BY <2>1 DEF PressKey
  <2>3. (~recorded[i]) \in BOOLEAN
    BY Zenon
  <2> QED
    BY <2>2, <2>3, CallbackFollow
<1> QED
  BY <1>1, <1>2

-----------------------------------------------------------------------------
(* The pad takes the oldest request.                                       *)

Fulfils(i, ok) == ok /\ i = Oldest.by /\ Oldest.last /\ Oldest.on = recorded[i]

\* Requests move up by one; a switch is heeded anew only by its latest request.
LEMMA TakeFlight ==
    ASSUME FollowInv, flight # <<>>, NEW ok \in BOOLEAN, TakesNext(ok), UNCHANGED recorded
    PROVE  /\ Oldest.by \in Ids /\ Oldest.on \in BOOLEAN /\ Oldest = flight[1] /\ 1 \in DOMAIN flight
           /\ \A n \in DOMAIN flight' : n + 1 \in DOMAIN flight /\ flight'[n] = flight[n + 1]
           /\ LatestInv' /\ KeyKnown'
           /\ \A i \in Ids : Heeded(i)' => (i # Oldest.by /\ Heeded(i)) \/ Fulfils(i, ok)
<1> DEFINE L == Len(flight)
<1>1. /\ flight' = Tail(flight) /\ flight \in Seq(Requested)
      /\ unmet' = IF ~Oldest.last THEN unmet
                  ELSE IF ok THEN unmet \ {Oldest.by} ELSE unmet \cup {Oldest.by}
  BY BoxFacts DEF TakesNext, FollowInv
<1>2. /\ L \in Nat /\ L >= 1 /\ DOMAIN flight = 1 .. L /\ DOMAIN flight' = 1 .. L - 1
      /\ \A n \in 1 .. L - 1 : flight'[n] = flight[n + 1]
      /\ Oldest = flight[1] /\ Oldest \in Requested
  BY <1>1 DEF Oldest
<1> HIDE DEF L
<1>3. Oldest.by \in Ids /\ Oldest.on \in BOOLEAN
  BY <1>2 DEF Requested
<1>4. \A n \in DOMAIN flight' : n + 1 \in DOMAIN flight /\ flight'[n] = flight[n + 1]
  BY <1>2
<1>5. \A n \in DOMAIN flight : n = 1 \/ (n > 1 /\ n - 1 \in DOMAIN flight' /\ flight'[n - 1] = flight[n])
  BY <1>2
<1>6. \A i \in Ids : \A n \in Latest(i)' : n + 1 \in Latest(i)
  BY <1>4 DEF Latest
<1>7. \A i \in Ids : \A n \in Latest(i) : n = 1 \/ n - 1 \in Latest(i)'
  BY <1>5 DEF Latest
<1>8. \A i \in Ids : UnderWay(i) => UnderWay(i)' \/ i = Oldest.by
  BY <1>2, <1>5 DEF UnderWay
<1>9. \A i \in Ids : i = Oldest.by /\ Oldest.last =>
         1 \in Latest(i) /\ ~UnderWay(i)' /\ Oldest.on = recorded[i]
  <2> SUFFICES ASSUME NEW i \in Ids, i = Oldest.by, Oldest.last
               PROVE  1 \in Latest(i) /\ ~UnderWay(i)' /\ Oldest.on = recorded[i]
    OBVIOUS
  <2>1. 1 \in Latest(i)
    BY <1>2 DEF Latest
  <2>2. Oldest.on = recorded[i] /\ \A m \in DOMAIN flight : m > 1 => flight[m].by # i
    BY <1>2, <2>1 DEF FollowInv, LatestInv
  <2>3. \A n \in DOMAIN flight' : n + 1 > 1 /\ flight'[n].by # i
    BY <1>2, <1>4, <2>2
  <2> QED
    BY <2>1, <2>2, <2>3 DEF UnderWay
<1>10. LatestInv'
  <2> SUFFICES ASSUME NEW i \in Ids
               PROVE  /\ \A n \in Latest(i)' : flight'[n].on = recorded[i]
                                     /\ \A m \in DOMAIN flight' : m > n => flight'[m].by # i
                      /\ i \notin unmet' /\ UnderWay(i)' => Latest(i)' # {}
    BY DEF LatestInv
  <2>1. \A n \in Latest(i) : flight[n].on = recorded[i]
                             /\ \A m \in DOMAIN flight : m > n => flight[m].by # i
    BY DEF FollowInv, LatestInv
  <2>2. ASSUME NEW n \in Latest(i)'
        PROVE  flight'[n].on = recorded[i] /\ \A m \in DOMAIN flight' : m > n => flight'[m].by # i
    <3>1. n + 1 \in Latest(i) /\ n \in DOMAIN flight' /\ n \in 1 .. L - 1
      BY <1>2, <1>6 DEF Latest
    <3> QED
      BY <1>2, <1>4, <2>1, <3>1
  <2>3. ASSUME i \notin unmet', UnderWay(i)'
        PROVE  Latest(i)' # {}
    <3>1. ~(i = Oldest.by /\ Oldest.last)
      BY <1>9, <2>3
    <3>2. i \notin unmet /\ UnderWay(i)
      BY <1>1, <1>4, <2>3, <3>1 DEF UnderWay
    <3>3. PICK n \in Latest(i) : TRUE
      BY <3>2 DEF FollowInv, LatestInv
    <3>4. n # 1
      BY <1>2, <3>1, <3>3 DEF Latest
    <3> QED
      BY <1>7, <3>3, <3>4
  <2> QED
    BY <2>2, <2>3
<1>11. \A i \in Ids : Heeded(i)' => (i # Oldest.by /\ Heeded(i)) \/ Fulfils(i, ok)
  <2> SUFFICES ASSUME NEW i \in Ids, Heeded(i)'
               PROVE  (i # Oldest.by /\ Heeded(i)) \/ Fulfils(i, ok)
    OBVIOUS
  <2>1. CASE i # Oldest.by
    BY <1>1, <1>8, <2>1 DEF Heeded
  <2>2. CASE i = Oldest.by /\ Oldest.last
    BY <1>1, <1>9, <2>2 DEF Heeded, Fulfils
  <2>3. CASE i = Oldest.by /\ ~Oldest.last
    <3>1. i \notin unmet /\ UnderWay(i)
      BY <1>1, <1>2, <2>3 DEF Heeded, UnderWay
    <3>2. PICK n \in Latest(i) : TRUE
      BY <3>1 DEF FollowInv, LatestInv
    <3>3. n # 1
      BY <1>2, <2>3, <3>2 DEF Latest
    <3>4. n - 1 \in DOMAIN flight' /\ flight'[n - 1].by = i
      BY <1>7, <3>2, <3>3 DEF Latest
    <3> QED
      BY <3>4 DEF Heeded, UnderWay
  <2> QED
    BY <2>1, <2>2, <2>3
<1>12. KeyKnown'
  <2>1. \A n \in Latest(KEY)', m \in DOMAIN flight' : m > n => flight'[m].key = recorded[KEY]
    <3> SUFFICES ASSUME NEW n \in Latest(KEY)', NEW m \in DOMAIN flight', m > n
                 PROVE  flight'[m].key = recorded[KEY]
      OBVIOUS
    <3>1. n + 1 \in Latest(KEY) /\ n \in 1 .. L - 1
      BY <1>2, <1>6, BoxAssumption DEF Latest
    <3>2. m + 1 \in DOMAIN flight /\ flight'[m] = flight[m + 1] /\ m + 1 > n + 1
      BY <1>2, <1>4, <3>1
    <3> QED
      BY <3>1, <3>2 DEF FollowInv, KeyKnown
  <2>2. Heeded(KEY)' => \A m \in DOMAIN flight' : flight'[m].key = recorded[KEY]
    <3> SUFFICES ASSUME Heeded(KEY)', NEW m \in DOMAIN flight'
                 PROVE  flight'[m].key = recorded[KEY]
      OBVIOUS
    <3>1. m + 1 \in DOMAIN flight /\ flight'[m] = flight[m + 1] /\ m + 1 > 1
      BY <1>2, <1>4
    <3>2. Heeded(KEY) \/ 1 \in Latest(KEY)
      BY <1>9, <1>11, BoxAssumption DEF Fulfils
    <3> QED
      BY <3>1, <3>2 DEF FollowInv, KeyKnown
  <2> QED
    BY <2>1, <2>2 DEF KeyKnown
<1> QED
  BY <1>2, <1>3, <1>4, <1>10, <1>11, <1>12

\* What the pad makes of a request.
LEMMA LevelRises ==
    ASSUME TypeOK, NEW r \in Requests, Arm(r) \/ Actuate(r) \/ Refuse(r),
           level <= ARMED_VALVES, level' > ARMED_VALVES
    PROVE  r.kind = "arm" /\ r.level = ARMED_IGNITION
<1> USE DEF Levels, ARMED_PAD, ARMED_VALVES, ARMED_IGNITION, ARMED_DISCONNECTED, ARMED_LAUNCH
<1>1. level \in {0, 1}
  BY DEF TypeOK
<1>2. CASE Arm(r)
  <2>1. r.level \in Nat
    BY <1>2, RequestAssumption DEF Arm, AllRequests, ActRequests, ArmRequests, Byte
  <2> QED
    BY <1>1, <1>2, <2>1 DEF Arm, ArmStatus, ARM_OK, ARM_DENIED, ARM_INV, ChangeAllowed, FiringSequence
<1>3. CASE Actuate(r)
  <2>1. r.id # ID_QUICK_DISCONNECT /\ r.id # ID_IGNITER
    BY <1>1, <1>3, ActuatorAssumption
       DEF Actuate, ActStatus, ACT_OK, ACT_DNE, ACT_INV, ACT_DENIED, Commandable, Solenoids
  <2>2. FollowUp(level, r.id, r.state) = {}
    BY <2>1 DEF FollowUp
  <2>3. level' = level
    BY <1>3, <2>2 DEF Actuate, LevelAfter
  <2> QED
    BY <1>1, <2>3
<1>4. CASE Refuse(r)
  <2>1. level' = level
    BY <1>4 DEF Refuse
  <2> QED
    BY <1>1, <2>1
<1> QED
  BY <1>2, <1>3, <1>4

\* Switching an arming switch off, for the two levels the interlock is about.
LEMMA SwitchedOff ==
    ASSUME TypeOK, NEW i \in Ids, Arm(RequestOf(i, FALSE))
    PROVE  /\ i = KEY => level' = ARMED_PAD
           /\ IsArming(i, ARMED_IGNITION) => level' <= ARMED_VALVES
<1> USE DEF Levels, ARMED_PAD, ARMED_VALVES, ARMED_IGNITION, ARMED_DISCONNECTED, ARMED_LAUNCH
<1>1. level \in 0 .. 4
  BY DEF TypeOK
<1>2. ASSUME i = KEY
      PROVE  level' = ARMED_PAD
  <2>1. RequestOf(i, FALSE).level = 0
    BY <1>2, BoxAssumption DEF RequestOf, IsArming
  <2>2. ArmStatus(level, 0) = ARM_OK
    BY <1>1 DEF ArmStatus, ARM_OK, ChangeAllowed
  <2> QED
    BY <2>1, <2>2 DEF Arm
<1>3. ASSUME IsArming(i, ARMED_IGNITION)
      PROVE  level' <= ARMED_VALVES
  <2>1. RequestOf(i, FALSE).level = 1
    BY <1>3 DEF RequestOf, IsArming
  <2>2. level > 1 => ArmStatus(level, 1) = ARM_OK
    BY <1>1 DEF ArmStatus, ARM_OK, ChangeAllowed, FiringSequence
  <2>3. level' = IF ArmStatus(level, 1) = ARM_OK THEN 1 ELSE level
    BY <2>1 DEF Arm
  <2> QED
    BY <1>1, <2>2, <2>3
<1> QED
  BY <1>2, <1>3

\* A request for ARMED_IGNITION comes from its switch, or from one without a pin.
LEMMA IgnitionRequest ==
    ASSUME NEW i \in Ids, NEW on \in BOOLEAN, Switches[i].pin,
           RequestOf(i, on).kind = "arm", RequestOf(i, on).level = ARMED_IGNITION
    PROVE  on /\ IsArming(i, ARMED_IGNITION)
<1>1. Switches[i].kind = "arm" /\ Switches[i].act_id \in 0 .. 255
  BY BoxTable DEF RequestOf, Byte
<1>2. CASE on
  BY <1>1, <1>2 DEF RequestOf, IsArming
<1>3. CASE ~on
  <2>1. (Switches[i].act_id - 1) % 256 = 2
    BY <1>1, <1>3 DEF RequestOf, ARMED_IGNITION
  <2>2. Switches[i].act_id = 3
    BY <1>1, <2>1
  <2> QED
    BY <1>1, <2>2, BoxAssumption DEF IsArming, ARMED_DISCONNECTED
<1> QED
  BY <1>2, <1>3

LEMMA SilentFollow ==
    ASSUME FollowInv, BoxInv', PadStaysSilent
    PROVE  FollowInv'
<1>1. flight # <<>> /\ TakesNext(FALSE) /\ UNCHANGED <<level, act, build, recorded>>
  BY Zenon DEF PadStaysSilent, vars, box
<1>2. /\ \A n \in DOMAIN flight' : n + 1 \in DOMAIN flight /\ flight'[n] = flight[n + 1]
      /\ LatestInv' /\ KeyKnown'
      /\ \A i \in Ids : Heeded(i)' => Heeded(i) \/ Fulfils(i, FALSE)
  BY <1>1, TakeFlight
<1>3. \A i \in Ids : Heeded(i)' => Heeded(i) /\ recorded'[i] = recorded[i]
  BY <1>1, <1>2 DEF Fulfils
<1>4. build = "board" => \A n \in DOMAIN flight' : Switches[flight'[n].by].pin
  BY <1>2 DEF FollowInv, LevelFollows
<1>5. ActuatorsFollow' /\ LevelFollows'
  BY <1>1, <1>3, <1>4, SamePad
<1> QED
  BY <1>2, <1>5 DEF FollowInv

LEMMA ExecutesFollow ==
    ASSUME FollowInv, BoxInv', PadExecutes
    PROVE  FollowInv'
<1> DEFINE ok == Request.kind = "arm" \/ answer'.status = ACT_OK
           by == Oldest.by
           on == Oldest.on
<1>1. /\ flight # <<>> /\ TakesNext(ok) /\ UNCHANGED <<build, recorded>>
      /\ Arm(Request) \/ Actuate(Request) \/ Refuse(Request)
  BY DEF PadExecutes, box
<1>2. ok \in BOOLEAN
  BY Zenon
<1>3. /\ by \in Ids /\ on \in BOOLEAN /\ Oldest = flight[1] /\ 1 \in DOMAIN flight
      /\ \A n \in DOMAIN flight' : n + 1 \in DOMAIN flight /\ flight'[n] = flight[n + 1]
      /\ LatestInv' /\ KeyKnown'
      /\ \A i \in Ids : Heeded(i)' => (i # by /\ Heeded(i)) \/ Fulfils(i, ok)
  <2> HIDE DEF ok
  <2> QED
    BY <1>1, <1>2, TakeFlight
<1>4. Request = RequestOf(by, on) /\ Request \in Requests /\ TypeOK /\ act \in [Actuators -> BOOLEAN]
  BY <1>3, RequestKind, BoxFacts DEF Request, FollowInv, TypeOK
<1>5. ASSUME NEW i \in Ids, Fulfils(i, ok)
      PROVE  i = by /\ on = recorded[i] /\ ok
  BY <1>5 DEF Fulfils
<1>6. ASSUME NEW i \in Ids, Switches[i].kind = "act", Switches[i].act_id \in Actuators, Heeded(i)'
      PROVE  act'[Switches[i].act_id] = recorded[i]
  <2> DEFINE id == Switches[i].act_id
  <2>1. CASE i # by /\ Heeded(i)
    <3>1. act[id] = recorded[i]
      BY <1>6, <2>1 DEF FollowInv, ActuatorsFollow
    <3>2. CASE Actuate(Request)
      <4>1. Request.kind = "act" /\ act' = [act EXCEPT ![Request.id] = (Request.state # 0)]
        BY <3>2 DEF Actuate
      <4>2. Switches[by].kind = "act" /\ Request.id = Switches[by].act_id
        BY <1>3, <1>4, <4>1 DEF RequestOf
      <4>3. Request.id # id
        BY <1>3, <1>6, <2>1, <4>2, BoxAssumption
      <4> QED
        BY <1>4, <1>6, <3>1, <4>1, <4>3
    <3>3. CASE Arm(Request) \/ Refuse(Request)
      BY <3>1, <3>3 DEF Arm, Refuse
    <3> QED
      BY <1>1, <3>2, <3>3
  <2>2. CASE Fulfils(i, ok)
    <3>1. i = by /\ on = recorded[i] /\ ok
      BY <1>5, <2>2
    <3>2. Request.kind = "act" /\ Request.id = id /\ Request.state = IF on THEN 1 ELSE 0
      BY <1>4, <1>6, <3>1 DEF RequestOf
    <3>3. answer'.status = ACT_OK
      BY <3>1, <3>2
    <3>4. Actuate(Request)
      BY <1>1, <3>2, <3>3 DEF Arm, Refuse, Reply
    <3>5. act' = [act EXCEPT ![id] = (Request.state # 0)]
      BY <3>2, <3>4 DEF Actuate
    <3>6. act'[id] = (Request.state # 0)
      BY <1>4, <1>6, <3>5
    <3>7. (Request.state # 0) = on
      BY <1>3, <3>2
    <3> QED
      BY <3>1, <3>6, <3>7
  <2> QED
    BY <1>3, <1>6, <2>1, <2>2
<1>7. ActuatorsFollow'
  BY <1>1, <1>6 DEF ActuatorsFollow
<1>8. ASSUME build = "board"
      PROVE  /\ \A n \in DOMAIN flight' : Switches[flight'[n].by].pin
             /\ Heeded(KEY)' /\ ~recorded[KEY] => level' = ARMED_PAD
             /\ IgnitionOff' => level' <= ARMED_VALVES
  <2>1. Switches[by].pin /\ \A n \in DOMAIN flight' : Switches[flight'[n].by].pin
    BY <1>3, <1>8 DEF FollowInv, LevelFollows
  <2>2. ASSUME Heeded(KEY)', ~recorded[KEY]
        PROVE  level' = ARMED_PAD
    <3>1. CASE Heeded(KEY)
      <4>1. level = ARMED_PAD
        BY <1>8, <2>2, <3>1 DEF FollowInv, LevelFollows
      <4>2. ~Oldest.key
        BY <1>3, <2>2, <3>1 DEF FollowInv, KeyKnown
      <4>3. Safe(Oldest)
        BY <1>3, <1>8, BoxFacts DEF FollowInv
      <4>4. ~(Request.kind = "arm" /\ Request.level = ARMED_VALVES)
        BY <1>4, <4>2, <4>3 DEF Safe
      <4> QED
        BY <1>1, <1>4, <4>1, <4>4, PadStep
    <3>2. CASE Fulfils(KEY, ok)
      <4>1. KEY = by /\ on = FALSE
        BY <1>3, <1>5, <2>2, <3>2, BoxAssumption
      <4>2. Arm(Request)
        BY <1>1, <1>4, <4>1, BoxAssumption DEF RequestOf, IsArming, Actuate, Refuse
      <4> QED
        BY <1>4, <4>1, <4>2, SwitchedOff, BoxAssumption
    <3> QED
      BY <1>3, <2>2, <3>1, <3>2, BoxAssumption
  <2>3. ASSUME IgnitionOff'
        PROVE  level' <= ARMED_VALVES
    <3>1. CASE IsArming(by, ARMED_IGNITION)
      <4>1. PICK i \in Ids : i = by
        BY <1>3
      <4>2. Heeded(i)' /\ ~recorded[i]
        BY <1>1, <2>3, <3>1, <4>1 DEF IgnitionOff
      <4>3. Fulfils(i, ok)
        BY <1>3, <4>1, <4>2
      <4>4. on = FALSE
        BY <1>3, <1>5, <4>2, <4>3
      <4>5. Arm(Request)
        BY <1>1, <1>4, <3>1 DEF RequestOf, IsArming, Actuate, Refuse
      <4> QED
        BY <1>3, <1>4, <3>1, <4>4, <4>5, SwitchedOff
    <3>2. CASE ~IsArming(by, ARMED_IGNITION)
      <4>1. \A i \in Ids : IsArming(i, ARMED_IGNITION) => Heeded(i) /\ ~recorded[i]
        BY <1>1, <1>3, <1>5, <2>3, <3>2 DEF IgnitionOff
      <4>2. level <= ARMED_VALVES
        BY <1>8, <4>1 DEF FollowInv, LevelFollows, IgnitionOff
      <4>3. ~(Request.kind = "arm" /\ Request.level = ARMED_IGNITION)
        BY <1>3, <1>4, <2>1, <3>2, IgnitionRequest
      <4>4. level' \in Levels
        BY <1>1, <1>4, PadStep DEF TypeOK
      <4> QED
        BY <1>1, <1>4, <4>2, <4>3, <4>4, LevelRises DEF Levels, ARMED_PAD, ARMED_LAUNCH, ARMED_VALVES
    <3> QED
      BY <3>1, <3>2
  <2> QED
    BY <2>1, <2>2, <2>3
<1>9. LevelFollows'
  BY <1>1, <1>8 DEF LevelFollows
<1> QED
  BY <1>3, <1>7, <1>9 DEF FollowInv

-----------------------------------------------------------------------------
(* What is under way is lost, or the client is restarted.                  *)

LEMMA BreakFollow ==
    ASSUME FollowInv, BoxInv', Break
    PROVE  FollowInv'
<1>1. PICK n \in 0 .. Len(flight) : Loses(n)
  BY DEF Break
<1>2. UNCHANGED <<level, act, build, recorded>>
  BY DEF Break, vars, box
<1>3. /\ Len(flight) \in Nat /\ n \in Nat /\ n <= Len(flight) /\ DOMAIN flight = 1 .. Len(flight)
      /\ DOMAIN flight' = 1 .. n /\ \A k \in 1 .. n : flight'[k] = flight[k]
      /\ unmet' = unmet \cup {flight[k].by : k \in n + 1 .. Len(flight)}
  BY <1>1, BoxFacts, FlightFacts DEF Loses, FollowInv
<1>4. /\ \A k \in DOMAIN flight' : k \in DOMAIN flight /\ flight'[k] = flight[k]
      /\ \A k \in DOMAIN flight : k \in DOMAIN flight' \/ flight[k].by \in unmet'
      /\ unmet \subseteq unmet'
  BY <1>3
<1>5. \A i \in Ids : Latest(i)' \subseteq Latest(i)
  BY <1>4 DEF Latest
<1>6. \A i \in Ids : Heeded(i)' => Heeded(i)
  BY <1>4 DEF Heeded, UnderWay
<1>7. LatestInv'
  <2> SUFFICES ASSUME NEW i \in Ids
               PROVE  /\ \A k \in Latest(i)' : flight'[k].on = recorded[i]
                                     /\ \A m \in DOMAIN flight' : m > k => flight'[m].by # i
                      /\ i \notin unmet' /\ UnderWay(i)' => Latest(i)' # {}
    BY <1>2 DEF LatestInv
  <2>1. /\ \A k \in Latest(i) : flight[k].on = recorded[i]
                                /\ \A m \in DOMAIN flight : m > k => flight[m].by # i
        /\ i \notin unmet /\ UnderWay(i) => Latest(i) # {}
    BY DEF FollowInv, LatestInv
  <2>2. \A k \in Latest(i)' : k \in DOMAIN flight'
    BY DEF Latest
  <2>3. ASSUME i \notin unmet', UnderWay(i)'
        PROVE  Latest(i)' # {}
    <3>1. i \notin unmet /\ UnderWay(i)
      BY <1>4, <2>3 DEF UnderWay
    <3>2. PICK k \in Latest(i) : TRUE
      BY <2>1, <3>1
    <3>3. k \in DOMAIN flight'
      BY <1>4, <2>3, <3>2 DEF Latest
    <3> QED
      BY <1>4, <3>2, <3>3 DEF Latest
  <2> QED
    BY <1>4, <1>5, <2>1, <2>2, <2>3
<1>8. KeyKnown'
  BY <1>2, <1>4, <1>5, <1>6, BoxAssumption DEF FollowInv, KeyKnown
<1>9. build = "board" => \A k \in DOMAIN flight' : Switches[flight'[k].by].pin
  BY <1>4 DEF FollowInv, LevelFollows
<1>10. ActuatorsFollow' /\ LevelFollows'
  BY <1>2, <1>6, <1>9, SamePad
<1> QED
  BY <1>7, <1>8, <1>10 DEF FollowInv

LEMMA RestartFollow ==
    ASSUME FollowInv, BoxInv', Restart
    PROVE  FollowInv'
<1>1. PICK n \in 0 .. Len(flight) : flight' = [k \in 1 .. n |-> [flight[k] EXCEPT !.last = FALSE]]
  BY DEF Restart
<1>2. unmet' = Ids /\ UNCHANGED <<level, act, build>>
  BY DEF Restart, vars
<1>3. \A k \in DOMAIN flight' : k \in DOMAIN flight /\ flight'[k].by = flight[k].by /\ ~flight'[k].last
  <2>1. Len(flight) \in Nat /\ DOMAIN flight = 1 .. Len(flight)
        /\ \A k \in 1 .. Len(flight) : flight[k] \in Requested
    BY FlightFacts, BoxFacts DEF FollowInv
  <2> TAKE k \in DOMAIN flight'
  <2>2. k \in 1 .. n /\ flight'[k] = [flight[k] EXCEPT !.last = FALSE]
    BY <1>1
  <2>3. k \in DOMAIN flight /\ flight[k] \in Requested
    BY <2>1, <2>2
  <2> QED
    BY <2>2, <2>3 DEF Requested
<1>4. \A i \in Ids : Latest(i)' = {} /\ ~Heeded(i)'
  BY <1>2, <1>3 DEF Latest, Heeded
<1>5. LatestInv' /\ KeyKnown'
  BY <1>2, <1>4, BoxAssumption DEF LatestInv, KeyKnown
<1>6. build = "board" => \A k \in DOMAIN flight' : Switches[flight'[k].by].pin
  BY <1>3 DEF FollowInv, LevelFollows
<1>7. ActuatorsFollow' /\ LevelFollows'
  BY <1>2, <1>4, <1>6, SamePad
<1> QED
  BY <1>5, <1>7 DEF FollowInv

LEMMA FollowStep == FollowInv /\ [BoxNext]_boxVars => FollowInv'
<1> SUFFICES ASSUME FollowInv, [BoxNext]_boxVars
             PROVE  FollowInv'
  OBVIOUS
<1>0. BoxInv'
  BY BoxStep DEF FollowInv
<1>1. CASE \/ UNCHANGED boxVars \/ Wake \/ Skip \/ GivesUp \/ Error \/ PadAnswers
           \/ PadLosesClient \/ Reconnect \/ \E i \in Ids : Flip(i)
  BY <1>0, <1>1, QuietSteps
<1>2. CASE Notice \/ \E i \in Ids : PressKey(i)
  BY <1>0, <1>2, CallbacksFollow
<1>3. CASE PadExecutes \/ PadStaysSilent
  BY <1>0, <1>3, ExecutesFollow, SilentFollow
<1>4. CASE Break \/ Restart
  BY <1>0, <1>4, BreakFollow, RestartFollow
<1> QED
  BY <1>1, <1>2, <1>3, <1>4 DEF BoxNext

(***************************************************************************)
(* For any table in which no two switches ask for the same, and any number *)
(* of requests under way: the latest request of every switch is the one    *)
(* that counts, whatever is superseded, refused, lost or left over from a  *)
(* client that was restarted.                                              *)
(***************************************************************************)
THEOREM FollowInvAlways == BoxSpec => []FollowInv
BY InitFollow, FollowStep, PTL DEF BoxSpec

(***************************************************************************)
(* On the board, with nothing under way and both switches heard, the pad   *)
(* is not armed above what the key and the ignition switch are recorded as *)
(* (control_client_main.c:391, switch.c:83).                               *)
(***************************************************************************)
THEOREM InterlockHolds == BoxSpec => []Interlock
<1>1. FollowInv => Interlock
  <2> SUFFICES ASSUME FollowInv, build = "board", flight = <<>>, Heard
               PROVE  level <= Permitted
    BY DEF Interlock
  <2>1. \A i \in Ids : ~UnderWay(i)
    BY DEF UnderWay
  <2>2. Heeded(KEY) /\ \A i \in Ids : IsArming(i, ARMED_IGNITION) => Heeded(i)
    BY <2>1, BoxAssumption DEF Heard, Heeded
  <2>3. level \in 0 .. 4
    BY BoxFacts DEF FollowInv, TypeOK, Levels, ARMED_PAD, ARMED_LAUNCH
  <2> QED
    BY <2>2, <2>3 DEF FollowInv, LevelFollows, IgnitionOff, Permitted, ARMED_PAD, ARMED_VALVES,
                      ARMED_LAUNCH
<1> QED
  BY <1>1, FollowInvAlways, PTL

(***************************************************************************)
(* On either build, with nothing under way, an actuator is where its       *)
(* switch was last recorded, unless the last request of this switch was    *)
(* refused or lost (switch.c:83, state.c:274).                             *)
(***************************************************************************)
THEOREM PadFollows == BoxSpec => []PadFollowsBox
<1>1. FollowInv => PadFollowsBox
  BY DEF FollowInv, ActuatorsFollow, PadFollowsBox, Heeded, UnderWay
<1> QED
  BY <1>1, FollowInvAlways, PTL
=============================================================================
