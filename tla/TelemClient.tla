---------------------------- MODULE TelemClient ----------------------------
(***************************************************************************)
(* The telemetry channel as a telemetry client sees it                     *)
(* (telem_client_main.c, stream.c): datagrams of one or more messages, a   *)
(* socket buffer that drops what does not fit, and a client that peeks at  *)
(* the first header of a datagram and then receives that one message.      *)
(* recvfrom discards the rest of the datagram.                             *)
(***************************************************************************)
EXTENDS Integers, Sequences

CONSTANTS
    NUM_ACTUATORS,
    Levels,           \* the arming levels the pad takes
    Readings,         \* the values of a pressure sensor
    BufferSize,       \* bound: datagrams the socket buffer holds
    Nothing           \* a model value: not shown yet

ASSUME TelemAssumption ==
    /\ NUM_ACTUATORS \in Nat \ {0} /\ BufferSize \in Nat \ {0}
    /\ Levels # {} /\ Readings # {}
    /\ Nothing \notin Levels /\ Nothing \notin Readings /\ Nothing \notin BOOLEAN

VARIABLES
    level, act,       \* the state of the pad
    buffer,           \* datagrams in the client's socket buffer
    pc, hdr,          \* where main of the client is, and the type it peeked at
    shown             \* what it printed last of each kind

pad    == <<level, act>>
viewer == <<pc, hdr, shown>>
vars   == <<pad, buffer, viewer>>

Actuators == 0 .. NUM_ACTUATORS - 1
Types     == {"arm", "conn", "act", "pressure"}

Messages  == [type : {"conn"}]
                 \cup [type : {"arm"}, value : Levels]
                 \cup [type : {"act"}, id : Actuators, value : BOOLEAN]
                 \cup [type : {"pressure"}, value : Readings]

\* The level is in Levels, what is shown is of the kind it is shown as.
TelemTypeOK ==
    /\ level \in Levels /\ act \in [Actuators -> BOOLEAN]
    /\ buffer \in Seq(Seq(Messages) \ {<<>>}) /\ Len(buffer) <= BufferSize
    /\ pc \in {"peek", "recv"} /\ hdr \in Types \cup {Nothing}
    /\ shown \in [arm : Levels \cup {Nothing},
                   act : [Actuators -> BOOLEAN \cup {Nothing}],
                   pressure : Readings \cup {Nothing}]

Init ==
    /\ level \in Levels /\ act = [i \in Actuators |-> FALSE]
    /\ buffer = <<>>
    /\ pc = "peek" /\ hdr = Nothing
    /\ shown = [arm |-> Nothing, act |-> [i \in Actuators |-> Nothing], pressure |-> Nothing]

-----------------------------------------------------------------------------
(* The pad server.                                                         *)

PadChanges ==
    /\ \/ level' \in Levels /\ UNCHANGED act
       \/ \E i \in Actuators : act' = [act EXCEPT ![i] = ~@] /\ UNCHANGED level
    /\ UNCHANGED <<buffer, viewer>>

\* Faulty variant: the connection status goes first.
PadDatagramConnFirst ==
    <<[type |-> "conn"], [type |-> "arm", value |-> level]>>
        \o [i \in 1 .. NUM_ACTUATORS |-> [type |-> "act", id |-> i - 1, value |-> act[i - 1]]]

\* telemetry_send_padstate: one datagram with the level, the connection status
\* and every actuator.
PadDatagram ==
    <<[type |-> "arm", value |-> level], [type |-> "conn"]>>
        \o [i \in 1 .. NUM_ACTUATORS |-> [type |-> "act", id |-> i - 1, value |-> act[i - 1]]]

Arrives(datagram) == Len(buffer) < BufferSize /\ buffer' = Append(buffer, datagram)

SendPadState == Arrives(PadDatagram) /\ UNCHANGED <<pad, viewer>>
SendTelemetry ==
    /\ \E r \in Readings : Arrives(<<[type |-> "pressure", value |-> r]>>)
    /\ UNCHANGED <<pad, viewer>>

-----------------------------------------------------------------------------
(* The client.                                                             *)

First == Head(Head(buffer))     \* the first message of the oldest datagram

\* stream_peek: the header only; the datagram stays.  A subtype the switch does
\* not know (TELEM_CONN among them) is not received either.
Peek ==
    /\ pc = "peek"
    /\ buffer # <<>>
    /\ hdr' = First.type
    /\ pc' = IF hdr' \in {"arm", "act", "pressure"} THEN "recv" ELSE "peek"
    /\ UNCHANGED <<pad, buffer, shown>>

Show(msg) ==
    CASE msg.type = "act" -> [shown EXCEPT !.act[msg.id] = msg.value]
      [] msg.type = "arm" -> [shown EXCEPT !.arm = msg.value]
      [] OTHER            -> [shown EXCEPT !.pressure = msg.value]

\* Faulty variant: a message is shown without a look at its type.
ReceiveUntyped ==
    /\ pc = "recv"
    /\ shown' = [shown EXCEPT !.arm = First.value]
    /\ buffer' = Tail(buffer)
    /\ pc' = "peek"
    /\ UNCHANGED <<pad, hdr>>

\* Faulty variant: the header of the first datagram serves for all.
ReceiveOnAndOn ==
    /\ pc = "recv"
    /\ buffer # <<>>
    /\ shown' = Show(First)
    /\ buffer' = Tail(buffer)
    /\ UNCHANGED <<pad, pc, hdr>>

\* stream_recv of the size of that message, which discards the others.
Receive ==
    /\ pc = "recv"
    /\ shown' = Show(First)
    /\ buffer' = Tail(buffer)
    /\ pc' = "peek"
    /\ UNCHANGED <<pad, hdr>>

Next == PadChanges \/ SendPadState \/ SendTelemetry \/ Peek \/ Receive

(***************************************************************************)
(* Fairness: the client runs, and of the endless heartbeats that find room *)
(* in the buffer now and then, some arrive.                                *)
(***************************************************************************)
Spec == Init /\ [][Next]_vars /\ WF_vars(Peek) /\ WF_vars(Receive) /\ SF_vars(SendPadState)

-----------------------------------------------------------------------------
(* Properties.                                                             *)

(***************************************************************************)
(* The comment at telem_client_main.c:83: what is received is exactly the  *)
(* message whose header was peeked at.                                     *)
(***************************************************************************)
PeekHolds == pc = "recv" => buffer # <<>> /\ hdr = First.type

\* The inductive invariant behind it: what is received is also of a known type.
TelemInv == TelemTypeOK /\ PeekHolds /\ (pc = "recv" => hdr \in {"arm", "act", "pressure"})

(***************************************************************************)
(* Once the arming level stops changing, the client eventually shows it    *)
(* and goes on showing it, whatever else is sent and dropped.              *)
(***************************************************************************)
LevelShown == <>[][FALSE]_level => <>[](shown.arm = level)

(***************************************************************************)
(* telem_client/README.md:9: "a simple logging client which logs the       *)
(* telemetry packets to the console": once the actuators stop changing,    *)
(* the client eventually shows their states.                               *)
(***************************************************************************)
ActuatorsShown == <>[][FALSE]_act => <>[](shown.act = act)
=============================================================================
