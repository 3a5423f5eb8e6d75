------------------------- MODULE TelemClient_proofs -------------------------
(***************************************************************************)
(* What the telemetry client receives is what it peeked at, for any number *)
(* of actuators, any readings and any size of the buffer: the datagrams    *)
(* that arrive between the two calls go to the end of the buffer, and no   *)
(* call but its own takes the first one away.                              *)
(***************************************************************************)
EXTENDS TelemClient, SequenceTheorems, TLAPS

Datagrams == Seq(Messages) \ {<<>>}

LEMMA MessageFields ==
    ASSUME NEW msg \in Messages
    PROVE  /\ msg.type \in Types
           /\ msg.type = "arm" => msg.value \in Levels
           /\ msg.type = "act" => msg.id \in Actuators /\ msg.value \in BOOLEAN
           /\ msg.type = "pressure" => msg.value \in Readings
BY DEF Messages, Types

LEMMA OldestFirst ==
    ASSUME buffer \in Seq(Datagrams), buffer # <<>>
    PROVE  First \in Messages
<1>1. Head(buffer) \in Datagrams
  OBVIOUS
<1>2. \A d \in Datagrams : Head(d) \in Messages
  BY DEF Datagrams
<1> QED
  BY <1>1, <1>2 DEF First

\* A datagram that arrives leaves the oldest one where it is.
LEMMA ArrivesLast ==
    ASSUME TelemInv, NEW d \in Datagrams, Arrives(d), UNCHANGED <<pad, viewer>>
    PROVE  TelemInv'
<1> USE DEF pad, viewer
<1>1. /\ buffer \in Seq(Datagrams) /\ Len(buffer) \in Nat /\ BufferSize \in Nat
      /\ buffer' = Append(buffer, d) /\ Len(buffer) < BufferSize
  BY TelemAssumption DEF TelemInv, TelemTypeOK, Arrives, Datagrams
<1>2. buffer' \in Seq(Datagrams) /\ Len(buffer') = Len(buffer) + 1 /\ buffer' # <<>>
  BY <1>1
<1>3. TelemTypeOK'
  BY <1>1, <1>2 DEF TelemInv, TelemTypeOK, Datagrams
<1>4. buffer # <<>> => Head(buffer') = Head(buffer)
  BY <1>1
<1>5. PeekHolds'
  BY <1>2, <1>4 DEF TelemInv, PeekHolds, First
<1> QED
  BY <1>3, <1>5 DEF TelemInv

LEMMA PadDatagramTyped == TelemTypeOK => PadDatagram \in Datagrams
<1> SUFFICES ASSUME TelemTypeOK PROVE PadDatagram \in Datagrams
  OBVIOUS
<1> DEFINE lead == <<[type |-> "arm", value |-> level], [type |-> "conn"]>>
           rest == [i \in 1 .. NUM_ACTUATORS |->
                       [type |-> "act", id |-> i - 1, value |-> act[i - 1]]]
<1>1. lead \in Seq(Messages) /\ Len(lead) = 2
  <2>1. [type |-> "arm", value |-> level] \in Messages /\ [type |-> "conn"] \in Messages
    BY DEF TelemTypeOK, Messages
  <2> QED
    BY <2>1
<1>2. rest \in Seq(Messages)
  <2>1. NUM_ACTUATORS \in Nat
    BY TelemAssumption
  <2>2. \A i \in 1 .. NUM_ACTUATORS : i - 1 \in Actuators /\ act[i - 1] \in BOOLEAN
    BY <2>1 DEF TelemTypeOK, Actuators
  <2>3. \A i \in 1 .. NUM_ACTUATORS :
           [type |-> "act", id |-> i - 1, value |-> act[i - 1]] \in Messages
    BY <2>2 DEF Messages
  <2> QED
    BY <2>1, <2>3
<1> HIDE DEF lead, rest
<1>3. lead \o rest \in Seq(Messages) /\ Len(lead \o rest) = 2 + Len(rest) /\ Len(rest) \in Nat
  <2>1. lead \o rest \in Seq(Messages) /\ Len(lead \o rest) = Len(lead) + Len(rest)
    BY <1>1, <1>2, ConcatProperties, Zenon
  <2>2. Len(rest) \in Nat
    BY <1>2
  <2> QED
    BY <1>1, <2>1, <2>2
<1>4. PadDatagram = lead \o rest
  BY DEF PadDatagram, lead, rest
<1>5. lead \o rest # <<>>
  BY <1>3
<1> QED
  BY <1>3, <1>4, <1>5 DEF Datagrams

LEMMA InitTelemInv == Init => TelemInv
<1> SUFFICES ASSUME Init PROVE TelemInv
  OBVIOUS
<1>1. BufferSize \in Nat
  BY TelemAssumption
<1>2. act \in [Actuators -> BOOLEAN]
  BY DEF Init
<1>3. shown \in [arm : Levels \cup {Nothing},
                 act : [Actuators -> BOOLEAN \cup {Nothing}],
                 pressure : Readings \cup {Nothing}]
  BY DEF Init
<1>4. TelemTypeOK
  BY <1>1, <1>2, <1>3 DEF Init, TelemTypeOK
<1> QED
  BY <1>4 DEF Init, TelemInv, PeekHolds

LEMMA TelemStep == TelemInv /\ [Next]_vars => TelemInv'
<1> SUFFICES ASSUME TelemInv, [Next]_vars
             PROVE  TelemInv'
  OBVIOUS
<1> USE DEF pad, viewer
<1>0. /\ buffer \in Seq(Datagrams) /\ Len(buffer) \in Nat /\ BufferSize \in Nat
      /\ Len(buffer) <= BufferSize
  BY TelemAssumption DEF TelemInv, TelemTypeOK, Datagrams
<1>1. CASE PadChanges
  <2>1. level' \in Levels /\ UNCHANGED <<buffer, viewer>>
    BY <1>1 DEF PadChanges, TelemInv, TelemTypeOK
  <2>2. act' \in [Actuators -> BOOLEAN]
    <3>1. \A i \in Actuators : (~act[i]) \in BOOLEAN
      BY Zenon
    <3> QED
      BY <1>1, <3>1 DEF PadChanges, TelemInv, TelemTypeOK
  <2> QED
    BY <2>1, <2>2 DEF TelemInv, TelemTypeOK, PeekHolds, First
<1>2. CASE SendPadState
  BY <1>2, PadDatagramTyped, ArrivesLast DEF SendPadState, TelemInv
<1>3. CASE SendTelemetry
  <2>1. PICK r \in Readings : Arrives(<<[type |-> "pressure", value |-> r]>>)
    BY <1>3 DEF SendTelemetry
  <2>2. [type |-> "pressure", value |-> r] \in Messages
    BY DEF Messages
  <2>3. <<[type |-> "pressure", value |-> r]>> \in Datagrams
    BY <2>2 DEF Datagrams
  <2> QED
    BY <1>3, <2>1, <2>3, ArrivesLast DEF SendTelemetry
<1>4. CASE Peek
  <2>1. /\ buffer # <<>> /\ hdr' = First.type
        /\ pc' = IF hdr' \in {"arm", "act", "pressure"} THEN "recv" ELSE "peek"
        /\ UNCHANGED <<pad, buffer, shown>>
    BY <1>4 DEF Peek
  <2>2. hdr' \in Types
    BY <1>0, <2>1, OldestFirst, MessageFields
  <2>3. TelemTypeOK'
    BY <2>1, <2>2 DEF TelemInv, TelemTypeOK
  <2> QED
    BY <2>1, <2>3 DEF TelemInv, PeekHolds, First
<1>5. CASE Receive
  <2>1. /\ pc = "recv" /\ shown' = Show(First) /\ buffer' = Tail(buffer) /\ pc' = "peek"
        /\ UNCHANGED <<pad, hdr>>
    BY <1>5 DEF Receive
  <2>2. buffer # <<>> /\ First.type \in {"arm", "act", "pressure"} /\ First \in Messages
    BY <1>0, <2>1, OldestFirst DEF TelemInv, PeekHolds
  <2>3. shown' \in [arm : Levels \cup {Nothing},
                    act : [Actuators -> BOOLEAN \cup {Nothing}],
                    pressure : Readings \cup {Nothing}]
    BY <2>1, <2>2, MessageFields DEF Show, TelemInv, TelemTypeOK
  <2>4. buffer' \in Seq(Datagrams) /\ Len(buffer') <= BufferSize
    BY <1>0, <2>1, <2>2
  <2>5. TelemTypeOK'
    BY <2>1, <2>3, <2>4 DEF TelemInv, TelemTypeOK, Datagrams
  <2> QED
    BY <2>1, <2>5 DEF TelemInv, PeekHolds
<1>6. CASE UNCHANGED vars
  BY <1>6 DEF vars, TelemInv, TelemTypeOK, PeekHolds, First
<1> QED
  BY <1>1, <1>2, <1>3, <1>4, <1>5, <1>6 DEF Next

(***************************************************************************)
(* The types of the telemetry client, for every value of the constants:    *)
(* what is printed as an arming level is one, what is printed as the state *)
(* of an actuator is a state, though datagrams are overlaid with structs   *)
(* chosen by a header that was read before (telem_client_main.c:83).       *)
(***************************************************************************)
THEOREM TelemInvAlways == Spec => []TelemInv
BY InitTelemInv, TelemStep, PTL DEF Spec

(***************************************************************************)
(* stream_recv receives the message whose header stream_peek returned.     *)
(***************************************************************************)
THEOREM ReceivesWhatItPeeked == Spec => []PeekHolds
<1>1. TelemInv => PeekHolds
  BY DEF TelemInv
<1> QED
  BY <1>1, TelemInvAlways, PTL
=============================================================================
