----------------------------- MODULE SwitchBox -----------------------------
(***************************************************************************)
(* The control client and the pad it commands: switches that are flipped,  *)
(* the signal that wakes main, the scan that compares every switch with    *)
(* its recorded state, switch_callback (control_client_main.c, switch.c),  *)
(* and the pad as PadCommands describes it.  On a desktop the keyboard     *)
(* toggles the recorded states instead.  ControlLink has the connection    *)
(* byte by byte; here a request is executed, refused or lost.              *)
(***************************************************************************)
EXTENDS PadCommands, Sequences

CONSTANTS
    Switches,          \* switches[], in order: records with kind, act_id and pin
    KEY,               \* VALVE_ARMING_SWITCH_IDX, counted from 1
    Rounds,            \* how often a scan goes through all switches
    Unreadable,        \* switches whose GPIO may fail to open or to be read
    ReceiveTimeout,    \* does the client's recv time out?
    MaxFlight          \* bound: requests under way

VARIABLES
    build,        \* "board" or "desktop"
    pins,         \* the position of every switch
    recorded,     \* switch_t.state
    signal,       \* is INTERRUPT_SIGNAL pending?
    cli, at,      \* the client: where it is, and how many looks of the scan it has taken
    broken,       \* the client's connection carries nothing any more
    flight,       \* requests on their way to the pad, oldest first (key, last: history)
    unmet         \* history: switches whose last request was lost, or refused to an actuator

box     == <<build, pins, recorded, signal, cli, at>>
link    == <<broken, flight, unmet>>
boxVars == <<vars, box, link>>

Ids == DOMAIN Switches

\* Faulty variant: OFF on an arming switch asks for its own level again.
RequestOfNeverDown(i, on) ==
    IF Switches[i].kind = "act"
    THEN [kind |-> "act", id |-> Switches[i].act_id, state |-> IF on THEN 1 ELSE 0]
    ELSE [kind |-> "arm", level |-> Switches[i].act_id]

\* switch_callback: OFF on an arming switch asks for the level below, as a byte.
RequestOf(i, on) ==
    IF Switches[i].kind = "act"
    THEN [kind |-> "act", id |-> Switches[i].act_id, state |-> IF on THEN 1 ELSE 0]
    ELSE [kind |-> "arm", level |-> IF on THEN Switches[i].act_id
                                    ELSE (Switches[i].act_id - 1) % 256]

IsArming(i, lvl) == Switches[i].kind = "arm" /\ Switches[i].act_id = lvl

ASSUME BoxAssumption ==
    /\ Switches \in Seq([kind : {"act", "arm"}, act_id : Byte, pin : BOOLEAN])
    /\ KEY \in Ids /\ IsArming(KEY, ARMED_VALVES)
    /\ \A i, j \in Ids : Switches[i].kind = Switches[j].kind /\ Switches[i].act_id = Switches[j].act_id
                             => i = j
    /\ \A i \in Ids : IsArming(i, ARMED_DISCONNECTED) => ~Switches[i].pin
    /\ \A i \in Ids, on \in BOOLEAN : RequestOf(i, on) \in Requests
    /\ Rounds \in Nat \ {0} /\ MaxFlight \in Nat \ {0}
    /\ Unreadable \subseteq Ids /\ ReceiveTimeout \in BOOLEAN

Looks     == Rounds * Len(Switches)
SwitchAt  == 1 + (at % Len(Switches))          \* the switch the scan looks at next
LastLook(i) == (Rounds - 1) * Len(Switches) + i - 1

BoxTypeOK ==
    /\ TypeOK
    /\ build \in {"board", "desktop"}
    /\ pins \in [Ids -> BOOLEAN] /\ recorded \in [Ids -> BOOLEAN]
    /\ signal \in BOOLEAN /\ broken \in BOOLEAN
    /\ cli \in {"connect", "wait", "scan", "answer"}
    /\ at \in 0 .. Looks /\ (cli # "answer" => at < Looks)
    /\ flight \in Seq([by : Ids, on : BOOLEAN, key : BOOLEAN, last : BOOLEAN])
    /\ Len(flight) <= MaxFlight
    /\ unmet \subseteq Ids

BoxInit ==
    /\ Init
    /\ build \in {"board", "desktop"}
    /\ pins \in [Ids -> BOOLEAN] /\ (build = "desktop" => pins = [i \in Ids |-> FALSE])
    /\ recorded = [i \in Ids |-> FALSE]
    /\ signal = FALSE /\ cli = "connect" /\ at = 0
    /\ broken = FALSE /\ flight = <<>> /\ unmet = {}

-----------------------------------------------------------------------------
(* The switches and the signal.                                            *)

\* A signal that finds main in sigwaitinfo is delivered.  One that does not may
\* be kept or, as it is not blocked and has no handler, be dropped.
Flip(i) ==
    /\ build = "board"
    /\ Switches[i].pin
    /\ pins' = [pins EXCEPT ![i] = ~@]
    /\ signal' \in IF cli = "wait" THEN {TRUE} ELSE {signal, TRUE}
    /\ UNCHANGED <<vars, build, recorded, cli, at, link>>

\* sigwaitinfo returns; after the debouncing time a scan begins.
Wake ==
    /\ build = "board" /\ cli = "wait" /\ signal
    /\ cli' = "scan" /\ at' = 0 /\ signal' = FALSE
    /\ UNCHANGED <<vars, build, pins, recorded, link>>

-----------------------------------------------------------------------------
(* The scan.                                                               *)

\* Faulty variant: the scan takes one look too many.
GoOnTooLong(n) ==
    IF build = "board" /\ n <= Looks
    THEN cli' = "scan" /\ at' = n
    ELSE cli' = "wait" /\ at' = 0

\* The next look, or back to sigwaitinfo after the last.
GoOn(n) ==
    IF build = "board" /\ n < Looks
    THEN cli' = "scan" /\ at' = n
    ELSE cli' = "wait" /\ at' = 0

\* Faulty variant: the guard is forgotten.
HeldBackNever(i) == i \notin Ids

\* control_client_main.c:391: without the key the switch of ARMED_IGNITION may not
\* go off, for this would ask for ARMED_VALVES.
HeldBack(i) == IsArming(i, ARMED_IGNITION) /\ ~pins[i] /\ ~recorded[KEY]

\* Faulty variant: a switch that cannot be read ends the scan.
SkipEndsScan ==
    /\ cli = "scan"
    /\ LET i == SwitchAt IN
       /\ ~Switches[i].pin \/ i \in Unreadable \/ pins[i] = recorded[i] \/ HeldBack(i)
       /\ GoOn(IF i \in Unreadable THEN Looks ELSE at + 1)
    /\ UNCHANGED <<vars, build, pins, recorded, signal, link>>

\* The switch has no pin, cannot be read, is where it was, or is held back.
Skip ==
    /\ cli = "scan"
    /\ LET i == SwitchAt IN
       ~Switches[i].pin \/ i \in Unreadable \/ pins[i] = recorded[i] \/ HeldBack(i)
    /\ GoOn(at + 1)
    /\ UNCHANGED <<vars, build, pins, recorded, signal, link>>

\* The requests under way, of which those of switch i are not its last.
Superseded(i) ==
    [k \in DOMAIN flight |-> [flight[k] EXCEPT !.last = @ /\ flight[k].by # i]]

\* switch_callback, up to the receipt: the new state is recorded first.  Nothing
\* arrives that is sent on a dead connection.
Callback(i, on) ==
    /\ Len(flight) < MaxFlight
    /\ recorded' = [recorded EXCEPT ![i] = on]
    /\ cli' = "answer"
    /\ IF broken
       THEN flight' = Superseded(i) /\ unmet' = unmet \cup {i}
       ELSE /\ flight' = Append(Superseded(i),
                                [by |-> i, on |-> on, key |-> recorded'[KEY], last |-> TRUE])
            /\ unmet' = unmet
    /\ UNCHANGED <<vars, build, pins, signal, broken>>

Notice ==
    /\ cli = "scan"
    /\ LET i == SwitchAt IN
       /\ Switches[i].pin /\ pins[i] # recorded[i] /\ ~HeldBack(i)
       /\ Callback(i, pins[i])
    /\ at' = at + 1

\* The desktop build: a key toggles any switch, and no error is looked at.
PressKey(i) ==
    /\ build = "desktop" /\ cli = "wait"
    /\ Callback(i, ~recorded[i])
    /\ at' = at

-----------------------------------------------------------------------------
(* The pad, as PadCommands has it, takes requests in the order they arrive. *)

Oldest == Head(flight)

Request == RequestOf(Oldest.by, Oldest.on)

TakesNext(ok) ==
    /\ flight' = Tail(flight)
    /\ unmet' = IF ~Oldest.last THEN unmet
                ELSE IF ok THEN unmet \ {Oldest.by} ELSE unmet \cup {Oldest.by}

PadExecutes ==
    /\ flight # <<>>
    /\ Arm(Request) \/ Actuate(Request) \/ Refuse(Request)
    /\ TakesNext(Request.kind = "arm" \/ answer'.status = ACT_OK)
    /\ UNCHANGED <<box, broken>>

\* The driver fails: nothing happens and no answer is sent.
PadStaysSilent ==
    /\ flight # <<>> /\ Ready
    /\ Request.kind = "act" /\ ActStatus(level, Request.id, Request.state) = ACT_OK
    /\ TakesNext(FALSE)
    /\ UNCHANGED <<vars, box, broken>>

\* The answer ends the wait.  One that comes too late is read in place of another
\* (ControlLink); the scan makes no difference between answers.
PadAnswers ==
    /\ SendAnswer
    /\ IF cli = "answer" THEN GoOn(at) ELSE UNCHANGED <<cli, at>>
    /\ UNCHANGED <<build, pins, recorded, signal, link>>

PadLosesClient ==
    /\ cli = "connect" \/ broken
    /\ flight = <<>>
    /\ Disconnect
    /\ UNCHANGED <<box, link>>

-----------------------------------------------------------------------------
(* The connection.                                                         *)

\* pad_init, pad_connect_forever and the server's accept, which comes after it has
\* finished with the old connection.  An accept that fails (ControlLink) is here a
\* connection that breaks at once.
Reconnect ==
    /\ cli = "connect"
    /\ Connect
    /\ cli' = "wait" /\ broken' = FALSE
    /\ UNCHANGED <<build, pins, recorded, signal, at, flight, unmet>>

\* Faulty variant: the switch is taken back, to be tried again by the next look.
GivesUpTakesBack ==
    /\ ReceiveTimeout
    /\ cli = "answer"
    /\ GoOn(at)
    /\ recorded' = IF at = 0 THEN recorded
                   ELSE [recorded EXCEPT ![1 + ((at - 1) % Len(Switches))] = ~@]
    /\ UNCHANGED <<vars, build, pins, signal, link>>

\* The receive times out, and the scan goes on.
GivesUp ==
    /\ ReceiveTimeout
    /\ cli = "answer"
    /\ GoOn(at)
    /\ UNCHANGED <<vars, build, pins, recorded, signal, link>>

Loses(n) ==
    /\ flight' = SubSeq(flight, 1, n)
    /\ unmet' = unmet \cup {flight[k].by : k \in n + 1 .. Len(flight)}

\* The connection breaks and loses any tail of what is under way.
Break ==
    /\ ~broken /\ cli # "connect"
    /\ broken' = TRUE
    /\ \E n \in 0 .. Len(flight) : Loses(n)
    /\ UNCHANGED <<vars, box>>

\* sendmsg or recv fails.  Some errors make the board reconnect and so leave the
\* scan, others are printed and the scan goes on.
Error ==
    /\ cli = "answer" /\ broken
    /\ \/ GoOn(at)
       \/ build = "board" /\ cli' = "connect" /\ at' = 0
    /\ UNCHANGED <<vars, build, pins, recorded, signal, link>>

\* The client is switched off and on: all switches are recorded as off.
Restart ==
    /\ cli' = "connect" /\ at' = 0 /\ signal' = FALSE /\ broken' = FALSE
    /\ recorded' = [i \in Ids |-> FALSE]
    /\ \E n \in 0 .. Len(flight) :
          flight' = [k \in 1 .. n |-> [flight[k] EXCEPT !.last = FALSE]]
    /\ unmet' = Ids
    /\ UNCHANGED <<vars, build, pins>>

BoxNext ==
    \/ \E i \in Ids : Flip(i) \/ PressKey(i)
    \/ Wake \/ Skip \/ Notice
    \/ PadExecutes \/ PadStaysSilent \/ PadAnswers \/ PadLosesClient
    \/ Reconnect \/ GivesUp \/ Break \/ Error \/ Restart

BoxSpec == BoxInit /\ [][BoxNext]_boxVars

(***************************************************************************)
(* Fairness: client and pad together do not stop while either can go on:   *)
(* receives time out, and the pad takes and answers requests               *)
(* (AvailableWhileTelemetryLives).  Nobody has to flip a switch.           *)
(***************************************************************************)
Works == \/ Wake \/ Skip \/ Notice \/ GivesUp \/ Error
         \/ PadExecutes \/ PadStaysSilent \/ PadAnswers

FairBoxSpec == BoxSpec /\ WF_boxVars(Works)

-----------------------------------------------------------------------------
(* Properties.                                                             *)

(***************************************************************************)
(* The comment at control_client_main.c:391: nothing but the arming key    *)
(* brings the pad out of ARMED_PAD.  Whatever is flipped, lost, refused or *)
(* read in vain, also by a client that was restarted, the request that     *)
(* does it was sent while the key was recorded as in.                      *)
(***************************************************************************)
NoEscalation ==
    [][build = "board" /\ level = ARMED_PAD /\ level' # ARMED_PAD => Oldest.key]_boxVars

(***************************************************************************)
(* The interlock as the operator sees it: without the key the pad is       *)
(* disarmed, and without the ignition switch it is not in the firing       *)
(* sequence, once the requests under way are executed.  The exception is a *)
(* client that has not been heard since it was restarted, or whose last    *)
(* request for one of the two was lost: switch_callback has recorded it as *)
(* done (switch.c:83), and it is not repeated.                             *)
(***************************************************************************)
Heard == \A i \in Ids : i = KEY \/ IsArming(i, ARMED_IGNITION) => i \notin unmet

Permitted ==
    IF ~recorded[KEY] THEN ARMED_PAD
    ELSE IF \A i \in Ids : IsArming(i, ARMED_IGNITION) => ~recorded[i] THEN ARMED_VALVES
    ELSE ARMED_LAUNCH

Interlock == build = "board" /\ flight = <<>> /\ Heard => level <= Permitted

(***************************************************************************)
(* An actuator is where its switch was last recorded, unless its last      *)
(* request was refused or lost: of several requests for it under way, late *)
(* or abandoned, sent before and after the scan gave up on one, the last   *)
(* one decides.                                                            *)
(***************************************************************************)
PadFollowsBox ==
    flight = <<>> =>
        \A i \in Ids : Switches[i].kind = "act" /\ Switches[i].act_id \in Actuators
                           /\ i \notin unmet => act[Switches[i].act_id] = recorded[i]

(***************************************************************************)
(* control_client_main.c:344: a switch that is flipped before the scan has *)
(* looked at it for the last time, or that has raised a signal, comes to   *)
(* be recorded, unless the connection is lost or the interlock holds it    *)
(* back.  (One flipped after that, whose signal finds nobody waiting, may  *)
(* be overlooked until the next flip.)                                     *)
(***************************************************************************)
WillBeSeen(i) == signal \/ (cli \in {"scan", "answer"} /\ at <= LastLook(i))

SwitchNoticed ==
    \A i \in Ids \ Unreadable :
        (build = "board" /\ pins[i] # recorded[i] /\ WillBeSeen(i))
            ~> (pins[i] = recorded[i] \/ HeldBack(i) \/ cli = "connect" \/ ~Switches[i].pin)

-----------------------------------------------------------------------------
(***************************************************************************)
(* The inductive invariant behind NoEscalation: of all requests under way, *)
(* wherever they come from, those for ARMED_VALVES have seen the key.      *)
(***************************************************************************)
KeyInv ==
    build = "board" =>
        \A n \in DOMAIN flight :
            LET r == RequestOf(flight[n].by, flight[n].on) IN
            r.kind = "arm" /\ r.level = ARMED_VALVES => flight[n].key

BoxInv == BoxTypeOK /\ KeyInv

(***************************************************************************)
(* The inductive invariant behind Interlock and PadFollowsBox.  The marked *)
(* request of a switch is its latest one and carries what is recorded; one *)
(* that has none under way is heeded, or known to be unmet.  What follows  *)
(* the key's latest request was sent with the key as it is recorded.  A    *)
(* switch that was heeded has had its effect on the pad.                   *)
(***************************************************************************)
UnderWay(i) == \E n \in DOMAIN flight : flight[n].by = i
Heeded(i)   == i \notin unmet /\ ~UnderWay(i)
Latest(i)   == {n \in DOMAIN flight : flight[n].by = i /\ flight[n].last}

LatestInv ==
    \A i \in Ids :
        /\ \A n \in Latest(i) : flight[n].on = recorded[i]
                              /\ \A m \in DOMAIN flight : m > n => flight[m].by # i
        /\ i \notin unmet /\ UnderWay(i) => Latest(i) # {}

KeyKnown ==
    /\ \A n \in Latest(KEY), m \in DOMAIN flight : m > n => flight[m].key = recorded[KEY]
    /\ Heeded(KEY) => \A m \in DOMAIN flight : flight[m].key = recorded[KEY]

ActuatorsFollow ==
    \A i \in Ids : Switches[i].kind = "act" /\ Switches[i].act_id \in Actuators /\ Heeded(i)
                      => act[Switches[i].act_id] = recorded[i]

IgnitionOff == \A i \in Ids : IsArming(i, ARMED_IGNITION) => Heeded(i) /\ ~recorded[i]

LevelFollows ==
    build = "board" =>
        /\ \A n \in DOMAIN flight : Switches[flight[n].by].pin
        /\ Heeded(KEY) /\ ~recorded[KEY] => level = ARMED_PAD
        /\ IgnitionOff => level <= ARMED_VALVES

FollowInv == BoxInv /\ LatestInv /\ KeyKnown /\ ActuatorsFollow /\ LevelFollows
=============================================================================
