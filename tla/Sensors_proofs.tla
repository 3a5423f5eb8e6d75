--------------------------- MODULE Sensors_proofs ---------------------------
(***************************************************************************)
(* The rounds of sensor_telemetry, for every table of ADCs and sensors:    *)
(* messages name the sensor they were measured at, and the arrays of the   *)
(* packet cannot overflow.  The argument is the order of the two inner     *)
(* loops: when column j is read, the last conversion of every open ADC is  *)
(* that of its channel j, and no channel is due twice.                     *)
(***************************************************************************)
EXTENDS Sensors, FiniteSetTheorems, TLAPS

Messages == [sensor : Sensors, of : Sensors \cup {None}]

(***************************************************************************)
(* What the table says.                                                    *)
(***************************************************************************)
LEMMA TableTypes ==
    /\ Len(Adcs) \in Nat \ {0} /\ Len(Topics) \in Nat \ {0}
    /\ \A d \in AdcIds : Adcs[d] \in Seq(Sensors) /\ Len(Adcs[d]) \in Columns
    /\ AdcIds = 1 .. Len(Adcs) /\ DOMAIN Topics = 1 .. Len(Topics)
BY SensorAssumption DEF AdcIds, Columns

LEMMA SlotTypes ==
    ASSUME NEW d \in AdcIds, NEW k \in Columns, k <= Len(Adcs[d])
    PROVE  /\ <<d, k>> \in Slots
           /\ Adcs[d][k] \in OnAdc(d) /\ Adcs[d][k] \in Sensors
           /\ Adcs[d][k] # MassSensor /\ Adcs[d][k] \notin Range(Topics)
<1>1. k \in DOMAIN Adcs[d]
  BY TableTypes DEF Columns
<1>2. Adcs[d][k] \in OnAdc(d) /\ Adcs[d][k] \in Sensors
  BY <1>1, TableTypes DEF OnAdc, Range
<1>3. <<d, k>> \in Slots
  BY DEF Slots
<1> QED
  BY <1>2, <1>3, SensorAssumption

LEMMA TopicTypes ==
    ASSUME NEW n \in DOMAIN Topics
    PROVE  /\ Topics[n] \in Sensors /\ Topics[n] \in Range(Topics)
           /\ Topics[n] # MassSensor
           /\ \A d \in AdcIds : Topics[n] \notin OnAdc(d)
BY TableTypes, SensorAssumption DEF Range

LEMMA MassTypes == MassSensor \in Sensors /\ \A d \in AdcIds : MassSensor \notin OnAdc(d)
BY SensorAssumption DEF Sensors

(***************************************************************************)
(* A message added to the packet: the others stay.                         *)
(***************************************************************************)
LEMMA Added ==
    ASSUME pkt \in Seq(Messages), NEW s \in Sensors, NEW o \in Sensors \cup {None}, Add(s, o)
    PROVE  /\ pkt' \in Seq(Messages)
           /\ DOMAIN pkt = 1 .. Len(pkt) /\ DOMAIN pkt' = 1 .. Len(pkt) + 1 /\ Len(pkt) \in Nat
           /\ \A n \in 1 .. Len(pkt) : pkt'[n] = pkt[n]
           /\ pkt'[Len(pkt) + 1] = [sensor |-> s, of |-> o]
BY DEF Add, Messages

(***************************************************************************)
(* What a message that is added has to satisfy for the packet to stay in   *)
(* order and its sensors distinct.                                         *)
(***************************************************************************)
LEMMA AddedInOrder ==
    ASSUME SensorInv, NEW s \in Sensors, NEW o \in Sensors \cup {None}, Add(s, o),
           ~Due(s, pc, i, j), Due(s, pc', i', j'),
           \A x \in Sensors : Due(x, pc, i, j) => Due(x, pc', i', j'),
           o = s \/ s \in failed,
           \A d \in AdcIds : s \in OnAdc(d) => o \in OnAdc(d) \cup {None},
           failed' = failed
    PROVE  pkt' \in Seq(Messages) /\ OrderInv' /\ Distinct' /\ LabelTrue'
<1>0. /\ pkt \in Seq(Messages)
      /\ OrderInv /\ Distinct /\ LabelTrue
  BY DEF SensorInv, SensorTypeOK, Messages
<1>1. /\ pkt' \in Seq(Messages)
      /\ DOMAIN pkt = 1 .. Len(pkt) /\ DOMAIN pkt' = 1 .. Len(pkt) + 1 /\ Len(pkt) \in Nat
      /\ \A n \in 1 .. Len(pkt) : pkt'[n] = pkt[n]
      /\ pkt'[Len(pkt) + 1] = [sensor |-> s, of |-> o]
  BY <1>0, Added
<1>2. \A n \in 1 .. Len(pkt) : pkt[n] \in Messages
  BY <1>0
<1>3. \A n \in 1 .. Len(pkt) : pkt[n].sensor \in Sensors
  BY <1>2 DEF Messages
<1>4. pkt'[Len(pkt) + 1].sensor = s /\ pkt'[Len(pkt) + 1].of = o
  BY <1>1
<1>5. OrderInv'
  <2>1. \A n \in 1 .. Len(pkt) : Due(pkt'[n].sensor, pc', i', j')
    BY <1>0, <1>1, <1>3 DEF OrderInv
  <2>2. Due(pkt'[Len(pkt) + 1].sensor, pc', i', j')
    BY <1>4
  <2> QED
    BY <1>1, <2>1, <2>2 DEF OrderInv
<1>6. \A n \in 1 .. Len(pkt) : pkt[n].sensor # s
  BY <1>0, <1>1 DEF OrderInv
<1>7. Distinct'
  BY <1>0, <1>1, <1>4, <1>6 DEF Distinct
<1>8. LabelTrue'
  <2>1. \A n \in 1 .. Len(pkt) :
           /\ pkt'[n].of = pkt'[n].sensor \/ pkt'[n].sensor \in failed'
           /\ SameAdc(pkt'[n])
    BY <1>0, <1>1 DEF LabelTrue, MeasuredHere
  <2>2. SameAdc(pkt'[Len(pkt) + 1])
    BY <1>4 DEF SameAdc
  <2> QED
    BY <1>1, <1>4, <2>1, <2>2 DEF LabelTrue, MeasuredHere
<1> QED
  BY <1>1, <1>5, <1>7, <1>8

(***************************************************************************)
(* The loop counters: what is due stays due, and the channel that is read  *)
(* becomes due with this step and not before.                              *)
(***************************************************************************)
CountersOK(label, dev, col) ==
    /\ label \in Labels /\ dev \in Nat \ {0} /\ col \in Columns
    /\ label \in {"flush", "tare"} => dev <= READINGS
    /\ label \in {"trigger", "read"} => dev \in AdcIds
    /\ label = "temp" => dev \in DOMAIN Topics

LEMMA AfterTriggerCounts ==
    ASSUME SensorTypeOK, pc = "trigger", AfterTrigger
    PROVE  /\ CountersOK(pc', i', j') /\ j' = j
           /\ \A x : Due(x, pc, i, j) => Due(x, pc', i', j')
           /\ pc' = "trigger" => i' = i + 1
           /\ pc' = "read" => i = Len(Adcs)
<1> USE TableTypes DEF SensorTypeOK, AfterTrigger, Goto, Labels, Columns
<1>1. CountersOK(pc', i', j') /\ j' = j
  BY DEF CountersOK
<1>2. \A x : Due(x, pc, i, j) => Due(x, pc', i', j')
  BY DEF Due, Slots
<1> QED
  BY <1>1, <1>2

LEMMA AfterReadCounts ==
    ASSUME SensorTypeOK, pc = "read", AfterRead
    PROVE  /\ CountersOK(pc', i', j')
           /\ \A x : Due(x, pc, i, j) => Due(x, pc', i', j')
           /\ <<i, j>> \in Slots => Due(Channel, pc', i', j')
           /\ pc' = "read" => j' = j
           /\ pc' = "trigger" => i' = 1
<1> USE TableTypes DEF SensorTypeOK, AfterRead, Goto, Labels, Columns
<1>1. CountersOK(pc', i', j')
  BY DEF CountersOK
<1>2. \A x : Due(x, pc, i, j) => Due(x, pc', i', j')
  BY DEF Due, Slots
<1>3. <<i, j>> \in Slots => Due(Channel, pc', i', j')
  BY DEF Due, Slots, Channel
<1> QED
  BY <1>1, <1>2, <1>3

LEMMA ChannelNotDue ==
    ASSUME SensorTypeOK, pc = "read", HasChannel
    PROVE  ~Due(Channel, pc, i, j)
<1>1. i \in AdcIds /\ j \in Columns /\ j <= Len(Adcs[i])
  BY DEF SensorTypeOK, HasChannel
<1>2. <<i, j>> \in Slots /\ Channel # MassSensor /\ Channel \notin Range(Topics)
  BY <1>1, SlotTypes DEF Channel
<1>3. \A s \in Slots : Channel = Adcs[s[1]][s[2]] => s[1] = i /\ s[2] = j
  <2> SUFFICES ASSUME NEW s \in Slots, Channel = Adcs[s[1]][s[2]]
               PROVE  s[1] = i /\ s[2] = j
    OBVIOUS
  <2>1. \A t \in Slots : Adcs[s[1]][s[2]] = Adcs[t[1]][t[2]] => s = t
    BY SensorAssumption
  <2>2. s = <<i, j>>
    BY <1>2, <2>1 DEF Channel
  <2> QED
    BY <2>2
<1> QED
  BY <1>1, <1>2, <1>3, TopicTypes, TableTypes DEF Due, Columns

(***************************************************************************)
(* The initial state.                                                      *)
(***************************************************************************)
LEMMA InitInv == SensorInit => SensorInv
<1> SUFFICES ASSUME SensorInit PROVE SensorInv
  OBVIOUS
<1>1. SensorTypeOK
  BY TableTypes, SensorAssumption
     DEF SensorInit, SensorTypeOK, Labels, Columns
<1>2. ColumnInv
  BY TableTypes DEF SensorInit, ColumnInv, Triggered
<1>3. OrderInv /\ Distinct /\ LabelTrue
  BY DEF SensorInit, OrderInv, Distinct, LabelTrue
<1> QED
  BY <1>1, <1>2, <1>3 DEF SensorInv

(***************************************************************************)
(* One lemma per kind of step.                                             *)
(***************************************************************************)
LEMMA CalibrationStep ==
    ASSUME SensorInv, FetchFails \/ Flush \/ \E force \in Forces : Tare(force)
    PROVE  SensorInv'
<1> USE DEF FetchFails, Flush, Tare, Miss, Goto, devices, tare
<1>1. pc \in {"flush", "tare"} /\ UNCHANGED <<devices, j, converted, pkt, failed>>
  OBVIOUS
<1>2. pkt = <<>>
  <2>1. \A n \in DOMAIN pkt : FALSE
    BY <1>1 DEF SensorInv, OrderInv, Due
  <2>2. pkt \in Seq(Messages)
    BY DEF SensorInv, SensorTypeOK, Messages
  <2>3. Len(pkt) \in Nat /\ DOMAIN pkt = 1 .. Len(pkt)
    BY <2>2
  <2>4. 1 \notin 1 .. Len(pkt)
    BY <2>1, <2>3
  <2>5. Len(pkt) = 0
    BY <2>3, <2>4
  <2> QED
    BY <2>2, <2>5
<1>3. SensorTypeOK'
  <2> USE TableTypes DEF SensorInv, SensorTypeOK, Labels
  <2>0. READINGS \in Nat \ {0} /\ Forces \subseteq Int
    BY SensorAssumption
  <2>1. CASE FetchFails
    BY <2>1
  <2>2. CASE Flush
    BY <2>0, <2>2
  <2>3. CASE \E force \in Forces : Tare(force)
    <3>1. PICK force \in Forces : Tare(force)
      BY <2>3
    <3>2. Cut(READINGS * zero_point + force) \in Int
      <4>1. READINGS * zero_point + force \in Int
        BY <2>0
      <4> QED
        BY <2>0, <4>1 DEF Cut
    <3>3. taken' \in [n : Nat, sum : Int]
      BY <2>0, <3>1
    <3>4. zero_point' \in Int /\ missed' \in 0 .. 2
      BY <3>1, <3>2
    <3>5. pc' \in Labels /\ i' \in Nat \ {0}
      BY <2>0, <3>1 DEF Labels
    <3>6. /\ pc' \in {"flush", "tare"} => i' <= READINGS
          /\ pc' \in {"trigger", "read"} => i' \in AdcIds
          /\ pc' = "temp" => i' \in DOMAIN Topics
      BY <2>0, <3>1, TableTypes
    <3> QED
      BY <2>0, <3>3, <3>4, <3>5, <3>6, <1>1
  <2> QED
    BY <2>1, <2>2, <2>3
<1>4. ColumnInv'
  BY <1>1, TableTypes DEF SensorInv, ColumnInv, Triggered
<1>5. OrderInv' /\ Distinct' /\ LabelTrue'
  BY <1>1, <1>2 DEF OrderInv, Distinct, LabelTrue
<1> QED
  BY <1>3, <1>4, <1>5 DEF SensorInv

(***************************************************************************)
(* The packet stays as it is: what matters is where the thread goes.       *)
(***************************************************************************)
LEMMA PacketKept ==
    ASSUME SensorInv, UNCHANGED <<devices, tare, pkt, missed>>,
           failed \subseteq failed', CountersOK(pc', i', j'),
           \A x : Due(x, pc, i, j) => Due(x, pc', i', j')
    PROVE  OrderInv' /\ Distinct' /\ LabelTrue'
<1>1. OrderInv'
  BY DEF SensorInv, OrderInv
<1>2. Distinct'
  BY DEF SensorInv, Distinct
<1>3. LabelTrue'
  BY DEF SensorInv, LabelTrue, MeasuredHere, SameAdc
<1> QED
  BY <1>1, <1>2, <1>3

LEMMA TriggerStep ==
    ASSUME SensorInv, pc = "trigger", SkipChannel \/ Trigger \/ TriggerFails
    PROVE  SensorInv'
<1> USE DEF devices, tare
<1>1. /\ AfterTrigger /\ UNCHANGED <<devices, tare, pkt, missed>>
      /\ failed \subseteq failed' /\ SensorTypeOK /\ ColumnInv
  BY DEF SensorInv, SkipChannel, Trigger, TriggerFails
<1>2. /\ CountersOK(pc', i', j') /\ j' = j
      /\ \A x : Due(x, pc, i, j) => Due(x, pc', i', j')
      /\ pc' = "trigger" => i' = i + 1
      /\ pc' = "read" => i = Len(Adcs)
  BY <1>1, AfterTriggerCounts
<1>3. i \in AdcIds /\ j \in Columns /\ converted \in [AdcIds -> Sensors \cup {None}]
  BY <1>1 DEF SensorTypeOK
<1>4. HasChannel => Channel \in OnAdc(i) /\ Channel \in Sensors
  BY <1>3, SlotTypes DEF HasChannel, Channel
<1>5. \/ converted' = converted /\ ~HasChannel
      \/ /\ HasChannel
         /\ \/ converted' = converted /\ Channel \in failed'
            \/ converted' = [converted EXCEPT ![i] = Channel]
  BY DEF SkipChannel, Trigger, TriggerFails
<1>6. failed' \subseteq Sensors
  BY <1>1, <1>4 DEF SensorTypeOK, SkipChannel, Trigger, TriggerFails
<1>7. SensorTypeOK'
  <2>1. converted' \in [AdcIds -> Sensors \cup {None}]
    BY <1>3, <1>4, <1>5
  <2> QED
    BY <1>1, <1>2, <1>6, <2>1 DEF SensorTypeOK, CountersOK
<1>8. ColumnInv'
  <2> SUFFICES ASSUME NEW d \in AdcIds
               PROVE  /\ converted'[d] \in OnAdc(d) \cup {None}
                      /\ d \in open' /\ j' <= Len(Adcs[d]) /\ Triggered(d)' =>
                            converted'[d] = Adcs[d][j'] \/ Adcs[d][j'] \in failed'
    BY DEF ColumnInv
  <2>1. CASE d = i
    BY <1>1, <1>2, <1>3, <1>4, <1>5, <2>1 DEF ColumnInv, HasChannel, Channel
  <2>2. CASE d # i
    <3>1. converted'[d] = converted[d]
      BY <1>3, <1>5, <2>2
    <3>2. Triggered(d)' => d < i
      BY <1>1, <1>2, <1>3, <2>2, TableTypes DEF Triggered, AfterTrigger, Goto
    <3> QED
      BY <1>1, <1>2, <3>1, <3>2 DEF ColumnInv, Triggered
  <2> QED
    BY <2>1, <2>2
<1> QED
  BY <1>1, <1>2, <1>7, <1>8, PacketKept DEF SensorInv

LEMMA ReadStep ==
    ASSUME SensorInv, pc = "read", SkipChannel \/ Read \/ ReadFails
    PROVE  SensorInv'
<1> USE DEF devices, tare
<1>1. /\ AfterRead /\ UNCHANGED <<devices, tare, converted, missed, failed>>
      /\ SensorTypeOK /\ ColumnInv
  BY DEF SensorInv, SkipChannel, Read, ReadFails
<1>2. /\ CountersOK(pc', i', j')
      /\ \A x : Due(x, pc, i, j) => Due(x, pc', i', j')
      /\ <<i, j>> \in Slots => Due(Channel, pc', i', j')
      /\ pc' = "read" => j' = j
      /\ pc' = "trigger" => i' = 1
  BY <1>1, AfterReadCounts
<1>3. i \in AdcIds /\ j \in Columns
  BY <1>1 DEF SensorTypeOK
<1>4. ColumnInv'
  BY <1>1, <1>2, TableTypes DEF ColumnInv, Triggered
<1>5. CASE pkt' = pkt
  <2>1. SensorTypeOK'
    BY <1>1, <1>2, <1>5 DEF SensorTypeOK, CountersOK
  <2> QED
    BY <1>1, <1>2, <1>4, <1>5, <2>1, PacketKept DEF SensorInv
<1>6. CASE Read
  <2>1. HasChannel /\ Add(Channel, converted[i])
    BY <1>6 DEF Read
  <2>2. /\ <<i, j>> \in Slots /\ Channel \in OnAdc(i) /\ Channel \in Sensors
    BY <1>3, <2>1, SlotTypes DEF HasChannel, Channel
  <2>3. converted[i] \in OnAdc(i) \cup {None} /\ converted[i] \in Sensors \cup {None}
    BY <1>1, <1>3 DEF ColumnInv, SensorTypeOK
  <2>4. converted[i] = Channel \/ Channel \in failed
    BY <1>1, <1>3, <2>1 DEF ColumnInv, HasChannel, Channel, Triggered
  <2>5. \A d \in AdcIds : Channel \in OnAdc(d) => converted[i] \in OnAdc(d) \cup {None}
    <3> SUFFICES ASSUME NEW d \in AdcIds, Channel \in OnAdc(d)
                 PROVE  d = i
      BY <2>3
    <3>1. PICK k \in DOMAIN Adcs[d] : Channel = Adcs[d][k]
      BY DEF OnAdc, Range
    <3>2. k \in Columns /\ k <= Len(Adcs[d])
      BY TableTypes DEF Columns
    <3>3. <<d, k>> \in Slots
      BY <3>2, SlotTypes
    <3>4. <<d, k>> = <<i, j>>
      <4>1. \A t \in Slots : Adcs[<<d, k>>[1]][<<d, k>>[2]] = Adcs[t[1]][t[2]] => <<d, k>> = t
        BY <3>3, SensorAssumption
      <4> QED
        BY <3>1, <4>1, <2>2 DEF Channel
    <3> QED
      BY <3>4
  <2>6. ~Due(Channel, pc, i, j)
    BY <1>1, <2>1, ChannelNotDue
  <2>7. pkt' \in Seq(Messages) /\ OrderInv' /\ Distinct' /\ LabelTrue'
    <3> DEFINE s == Channel
               o == converted[i]
    <3> HIDE DEF s, o
    <3> QED
      BY <1>1, <1>2, <2>1, <2>2, <2>3, <2>4, <2>5, <2>6, AddedInOrder DEF s, o
  <2>8. SensorTypeOK'
    BY <1>1, <1>2, <2>7 DEF SensorTypeOK, CountersOK, Messages
  <2> QED
    BY <1>4, <2>7, <2>8 DEF SensorInv
<1> QED
  BY <1>5, <1>6 DEF SkipChannel, ReadFails

LEMMA MassStep == ASSUME SensorInv, Mass PROVE SensorInv'
<1> USE DEF devices, tare
<1>1. /\ pc = "mass" /\ pc' = "temp" /\ i' = 1 /\ j' = j
      /\ UNCHANGED <<devices, tare, converted, missed, failed>>
      /\ SensorTypeOK /\ ColumnInv
  BY DEF SensorInv, Mass, Goto
<1>2. CountersOK(pc', i', j') /\ \A x : Due(x, pc, i, j) => Due(x, pc', i', j')
  BY <1>1, TableTypes DEF CountersOK, SensorTypeOK, Labels, Due
<1>3. ColumnInv'
  BY <1>1 DEF ColumnInv, Triggered
<1>4. CASE pkt' = pkt
  <2>1. SensorTypeOK'
    BY <1>1, <1>2, <1>4 DEF SensorTypeOK, CountersOK
  <2> QED
    BY <1>1, <1>2, <1>3, <1>4, <2>1, PacketKept DEF SensorInv
<1>5. CASE Add(MassSensor, MassSensor)
  <2>2. ~Due(MassSensor, pc, i, j) /\ Due(MassSensor, pc', i', j')
    <3>1. \A s \in Slots : MassSensor # Adcs[s[1]][s[2]]
      BY SlotTypes DEF Slots
    <3> QED
      BY <1>1, <3>1 DEF Due
  <2>3. pkt' \in Seq(Messages) /\ OrderInv' /\ Distinct' /\ LabelTrue'
    BY <1>1, <1>2, <1>5, <2>2, MassTypes, AddedInOrder
  <2>4. SensorTypeOK'
    BY <1>1, <1>2, <2>3 DEF SensorTypeOK, CountersOK, Messages
  <2> QED
    BY <1>3, <2>3, <2>4 DEF SensorInv
<1> QED
  BY <1>4, <1>5 DEF Mass

LEMMA TempStep == ASSUME SensorInv, Temp PROVE SensorInv'
<1> USE DEF devices, tare
<1>1. /\ pc = "temp" /\ j' = j
      /\ \/ pc' = "temp" /\ i' = i + 1 /\ i < Len(Topics)
         \/ pc' = "publish" /\ i' = 1
      /\ UNCHANGED <<devices, tare, converted, missed, failed>>
      /\ SensorTypeOK /\ ColumnInv
  BY DEF SensorInv, Temp, Goto
<1>2. i \in 1 .. Len(Topics) /\ i \in DOMAIN Topics
  BY <1>1, TableTypes DEF SensorTypeOK
<1>3. CountersOK(pc', i', j') /\ \A x : Due(x, pc, i, j) => Due(x, pc', i', j')
  BY <1>1, <1>2, TableTypes DEF CountersOK, SensorTypeOK, Labels, Due
<1>4. ColumnInv'
  BY <1>1 DEF ColumnInv, Triggered
<1>5. CASE pkt' = pkt
  <2>1. SensorTypeOK'
    BY <1>1, <1>3, <1>5 DEF SensorTypeOK, CountersOK
  <2> QED
    BY <1>1, <1>3, <1>4, <1>5, <2>1, PacketKept DEF SensorInv
<1>6. CASE Add(Topics[i], Topics[i])
  <2>1. /\ Topics[i] \in Sensors /\ Topics[i] # MassSensor /\ Topics[i] \in Range(Topics)
        /\ \A d \in AdcIds : Topics[i] \notin OnAdc(d)
    BY <1>2, TopicTypes
  <2>2. ~Due(Topics[i], pc, i, j) /\ Due(Topics[i], pc', i', j')
    <3>1. \A s \in Slots : Topics[i] # Adcs[s[1]][s[2]]
      BY <2>1, SlotTypes DEF Slots
    <3>2. \A n \in DOMAIN Topics : Topics[i] = Topics[n] => n = i
      BY <1>2, SensorAssumption DEF IsInjective
    <3>3. \A n \in DOMAIN Topics : n \in Nat
      BY TableTypes
    <3>4. ~Due(Topics[i], pc, i, j)
      BY <1>1, <1>2, <2>1, <3>1, <3>2, <3>3 DEF Due
    <3>5. Due(Topics[i], pc', i', j')
      BY <1>1, <1>2 DEF Due
    <3> QED
      BY <3>4, <3>5
  <2>3. pkt' \in Seq(Messages) /\ OrderInv' /\ Distinct' /\ LabelTrue'
    <3> DEFINE s == Topics[i]
    <3>1. s \in Sensors /\ Add(s, s) /\ ~Due(s, pc, i, j) /\ Due(s, pc', i', j')
      BY <1>6, <2>1, <2>2
    <3>2. \A d \in AdcIds : s \notin OnAdc(d)
      BY <2>1
    <3> HIDE DEF s
    <3> QED
      BY <1>1, <1>3, <3>1, <3>2, AddedInOrder
  <2>4. SensorTypeOK'
    BY <1>1, <1>3, <2>3 DEF SensorTypeOK, CountersOK, Messages
  <2> QED
    BY <1>4, <2>3, <2>4 DEF SensorInv
<1> QED
  BY <1>5, <1>6 DEF Temp

LEMMA PublishStep == ASSUME SensorInv, Publish PROVE SensorInv'
<1> USE DEF devices, tare
<1>1. SensorTypeOK'
  BY TableTypes DEF SensorInv, SensorTypeOK, Publish, NewRound, Goto, Labels, Columns
<1>2. ColumnInv'
  BY TableTypes DEF SensorInv, ColumnInv, Triggered, Publish, NewRound, Goto
<1>3. OrderInv' /\ Distinct' /\ LabelTrue'
  BY DEF Publish, NewRound, OrderInv, Distinct, LabelTrue
<1> QED
  BY <1>1, <1>2, <1>3 DEF SensorInv

LEMMA StutterStep == ASSUME SensorInv, UNCHANGED sensorVars PROVE SensorInv'
BY DEF sensorVars, devices, SensorInv, SensorTypeOK, ColumnInv, Triggered, OrderInv, Distinct,
       LabelTrue, MeasuredHere

(***************************************************************************)
(* SensorInv is an invariant of sensor_telemetry, for every table of ADCs  *)
(* and thermocouples in which every sensor stands once.                    *)
(***************************************************************************)
THEOREM SensorInvAlways == SensorSpec => []SensorInv
<1>1. SensorInit => SensorInv
  BY InitInv
<1>2. SensorInv /\ [SensorNext]_sensorVars => SensorInv'
  <2> SUFFICES ASSUME SensorInv, [SensorNext]_sensorVars PROVE SensorInv'
    OBVIOUS
  <2>1. CASE FetchFails \/ Flush \/ \E force \in Forces : Tare(force)
    BY <2>1, CalibrationStep
  <2>2. CASE SkipChannel \/ Trigger \/ TriggerFails \/ Read \/ ReadFails
    BY <2>2, TriggerStep, ReadStep DEF SkipChannel, Trigger, TriggerFails, Read, ReadFails
  <2>3. CASE Mass
    BY <2>3, MassStep
  <2>4. CASE Temp
    BY <2>4, TempStep
  <2>5. CASE Publish
    BY <2>5, PublishStep
  <2>6. CASE UNCHANGED sensorVars
    BY <2>6, StutterStep
  <2> QED
    BY <2>1, <2>2, <2>3, <2>4, <2>5, <2>6 DEF SensorNext
<1> QED
  BY <1>1, <1>2, PTL DEF SensorSpec

(***************************************************************************)
(* Messages name the sensor they were measured at (telemetry.c:382), but   *)
(* for a conversion that could not be triggered in the same round.         *)
(***************************************************************************)
THEOREM LabelsAreTrue == SensorSpec => []LabelTrue
<1>1. SensorInv => LabelTrue
  BY DEF SensorInv
<1> QED
  BY <1>1, SensorInvAlways, PTL

(***************************************************************************)
(* A packet is never longer than the table of sensors: the messages map    *)
(* to their sensors one to one.                                            *)
(***************************************************************************)
THEOREM PacketFits == SensorSpec => []OneReadingEach
<1>1. SensorInv => OneReadingEach
  <2> SUFFICES ASSUME SensorInv PROVE OneReadingEach
    OBVIOUS
  <2>1. pkt \in Seq(Messages) /\ Distinct
    BY DEF SensorInv, SensorTypeOK, Messages
  <2>2. Len(pkt) \in Nat /\ DOMAIN pkt = 1 .. Len(pkt) /\ \A n \in 1 .. Len(pkt) : pkt[n] \in Messages
    BY <2>1
  <2> DEFINE f == [n \in 1 .. Len(pkt) |-> pkt[n].sensor]
  <2>3. f \in [1 .. Len(pkt) -> Sensors]
    BY <2>2 DEF Messages
  <2>4. \A m, n \in 1 .. Len(pkt) : f[m] = f[n] => m = n
    BY <2>1, <2>2 DEF Distinct
  <2>5. IsFiniteSet(Sensors) /\ Cardinality(Sensors) \in Nat /\ Cardinality(Sensors) <= 32
    BY SensorAssumption, FS_CardinalityType
  <2>6. IsFiniteSet(1 .. Len(pkt)) /\ Cardinality(1 .. Len(pkt)) = Len(pkt)
    BY <2>2, FS_Interval
  <2>7. f \in Injection(1 .. Len(pkt), Sensors)
    BY <2>3, <2>4 DEF Injection, IsInjective
  <2>8. Cardinality(1 .. Len(pkt)) <= Cardinality(Sensors)
    BY <2>5, <2>7, FS_Injection
  <2> QED
    BY <2>1, <2>2, <2>5, <2>6, <2>8 DEF OneReadingEach
<1> QED
  BY <1>1, SensorInvAlways, PTL

(***************************************************************************)
(* The calibration.  A cut loses less than one, whatever the sign.         *)
(***************************************************************************)
LEMMA CutLosesLess ==
    ASSUME NEW m \in Int
    PROVE  Cut(m) \in Int /\ Within(READINGS * Cut(m) - m, READINGS - 1)
<1>1. READINGS \in Nat \ {0}
  BY SensorAssumption
<1>2. \A n \in Nat : n \div READINGS \in Int
                     /\ READINGS * (n \div READINGS) <= n
                     /\ n < READINGS * (n \div READINGS) + READINGS
  BY <1>1
<1>3. CASE m >= 0
  BY <1>1, <1>2, <1>3 DEF Cut, Within
<1>4. CASE m < 0
  <2>1. -m \in Nat /\ Cut(m) = -((-m) \div READINGS)
    BY <1>4 DEF Cut
  <2>2. PICK q \in Int : q = (-m) \div READINGS
    BY <1>2, <2>1
  <2>3. READINGS * q <= -m /\ -m < READINGS * q + READINGS
    BY <1>2, <2>1, <2>2
  <2>4. Cut(m) = -q /\ READINGS * (-q) = -(READINGS * q)
    BY <1>1, <2>1, <2>2
  <2> QED
    BY <1>1, <2>3, <2>4 DEF Within
<1> QED
  BY <1>3, <1>4

LEMMA TareStep ==
    ASSUME SensorInv, TareInv, NEW force \in Forces, Tare(force)
    PROVE  TareInv'
<1>1. /\ pc = "tare" /\ READINGS \in Nat \ {0} /\ force \in Int /\ zero_point \in Int
      /\ taken \in [n : Nat, sum : Int] /\ i \in 1 .. READINGS
      /\ massAvailable /\ taken.n = i - 1
      /\ Within(READINGS * zero_point - taken.sum, taken.n * (READINGS - 1))
  BY SensorAssumption DEF SensorInv, SensorTypeOK, TareInv, Tare
<1>2. /\ taken'.n = taken.n + 1 /\ taken'.sum = taken.sum + force
      /\ zero_point' = Cut(READINGS * zero_point + force)
      /\ UNCHANGED massAvailable
      /\ \/ pc' = "tare" /\ i' = i + 1
         \/ pc' = "trigger" /\ i = READINGS
  BY <1>1 DEF Tare, Goto, devices
<1>3. PICK p \in Int : p = READINGS * zero_point
  BY <1>1
<1>4. PICK b \in Int : b = taken.n * (READINGS - 1)
  BY <1>1
<1>5. zero_point' \in Int /\ Within(READINGS * zero_point' - (p + force), READINGS - 1)
  BY <1>1, <1>2, <1>3, CutLosesLess
<1>6. READINGS * zero_point' \in Int
  <2>1. \A z \in Int : READINGS * z \in Int
    BY <1>1
  <2> QED
    BY <1>5, <2>1
<1>7. taken'.n * (READINGS - 1) = b + (READINGS - 1)
  BY <1>1, <1>2, <1>4
<1>8. Within(READINGS * zero_point' - taken'.sum, taken'.n * (READINGS - 1))
  BY <1>1, <1>2, <1>3, <1>4, <1>5, <1>6, <1>7 DEF Within
<1>9. /\ pc' \in {"flush", "tare"} => massAvailable'
      /\ pc' = "flush" => taken'.n = 0
      /\ pc' = "tare" => taken'.n = i' - 1
      /\ massAvailable' /\ pc' \notin {"flush", "tare"} => taken'.n = READINGS
  BY <1>1, <1>2
<1> QED
  BY <1>8, <1>9 DEF TareInv

(***************************************************************************)
(* The zero point is near the mean of the readings, for every number of    *)
(* readings and whatever the load cell measures.                           *)
(***************************************************************************)
THEOREM TareIsNear == SensorSpec => []TareNear
<1>1. SensorInit => TareInv
  BY SensorAssumption DEF SensorInit, TareInv, Within
<1>2. SensorInv /\ TareInv /\ [SensorNext]_sensorVars => TareInv'
  <2> SUFFICES ASSUME SensorInv, TareInv, [SensorNext]_sensorVars PROVE TareInv'
    OBVIOUS
  <2> USE DEF devices, tare, Goto
  <2>1. CASE FetchFails
    BY <2>1 DEF FetchFails, TareInv
  <2>2. CASE Flush
    BY <2>2 DEF Flush, TareInv
  <2>3. CASE \E force \in Forces : Tare(force)
    BY <2>3, TareStep
  <2>4. CASE SkipChannel \/ Trigger \/ TriggerFails \/ Read \/ ReadFails
    BY <2>4 DEF SkipChannel, Trigger, TriggerFails, Read, ReadFails, AfterTrigger, AfterRead, TareInv
  <2>5. CASE Mass \/ Temp \/ Publish
    BY <2>5 DEF Mass, Temp, Publish, NewRound, TareInv
  <2>6. CASE UNCHANGED sensorVars
    BY <2>6 DEF sensorVars, TareInv
  <2> QED
    BY <2>1, <2>2, <2>3, <2>4, <2>5, <2>6 DEF SensorNext
<1>3. TareInv => TareNear
  BY DEF TareInv, TareNear
<1> QED
  BY <1>1, <1>2, <1>3, SensorInvAlways, PTL DEF SensorSpec
=============================================================================
