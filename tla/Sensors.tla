------------------------------ MODULE Sensors ------------------------------
(***************************************************************************)
(* sensor_telemetry (telemetry.c) with the sensors of the board            *)
(* (sensors.c): the calibration of the load cell, then rounds without end, *)
(* each of which has every ADC convert one channel after the other, reads  *)
(* the results back, adds load cell and thermocouples and publishes one    *)
(* packet.  Every call of a driver may fail.  Readings are abstract: a     *)
(* message is the sensor it names and the one it was measured at.          *)
(***************************************************************************)
EXTENDS Integers, Sequences, Functions, FiniteSets

CONSTANTS
    Adcs,              \* adc_devices[]: for every ADC the sensors on its channels
    Topics,            \* sensor_temp[]: the sensors of the thermocouple topics
    MassSensor,        \* the load cell
    None,              \* what an ADC holds before its first conversion
    READINGS,          \* readings flushed, and readings averaged, in a calibration
    Forces             \* what the load cell may measure

VARIABLES
    open,              \* the ADCs whose device could be opened
    massAvailable, tempAvailable,  \* sensor_mass.available, the available topics
    pc,                \* where the thread is
    i, j,              \* its loop counters
    converted,         \* per ADC: the sensor whose voltage was converted last
    pkt,               \* the messages of this round: [sensor, of]
    zero_point,        \* of the load cell
    missed,            \* failures since the last reading of the calibration: none, odd, even
    taken, failed      \* history: number and sum of the tare readings; the round's failed triggers

devices == <<open, massAvailable, tempAvailable>>
tare    == <<zero_point, taken>>
sensorVars == <<devices, pc, i, j, converted, pkt, zero_point, missed, taken, failed>>

AdcIds  == DOMAIN Adcs
Columns == 1 .. 4                              \* an ADS1115 has four channels
Slots   == {s \in AdcIds \X Columns : s[2] <= Len(Adcs[s[1]])}
OnAdc(d) == Range(Adcs[d])
Sensors == (UNION {OnAdc(d) : d \in AdcIds}) \cup Range(Topics) \cup {MassSensor}

\* The table of telemetry.c names every sensor once, at most 32 of them.
ASSUME SensorAssumption ==
    /\ Adcs \in Seq(Seq(Sensors)) /\ Len(Adcs) > 0
    /\ \A d \in AdcIds : Len(Adcs[d]) \in Columns
    /\ Topics \in Seq(Sensors) /\ Len(Topics) > 0 /\ IsInjective(Topics)
    /\ \A s, t \in Slots : Adcs[s[1]][s[2]] = Adcs[t[1]][t[2]] => s = t
    /\ \A d \in AdcIds : OnAdc(d) \cap (Range(Topics) \cup {MassSensor}) = {}
    /\ MassSensor \notin Range(Topics) /\ None \notin Sensors
    /\ IsFiniteSet(Sensors) /\ Cardinality(Sensors) <= 32
    /\ READINGS \in Nat \ {0} /\ Forces \subseteq Int

Labels == {"flush", "tare", "trigger", "read", "mass", "temp", "publish"}

SensorTypeOK ==
    /\ open \subseteq AdcIds /\ massAvailable \in BOOLEAN /\ tempAvailable \subseteq DOMAIN Topics
    /\ pc \in Labels
    /\ i \in Nat \ {0} /\ j \in Columns
    /\ pc \in {"flush", "tare"} => i <= READINGS
    /\ pc \in {"trigger", "read"} => i \in AdcIds
    /\ pc = "temp" => i \in DOMAIN Topics
    /\ converted \in [AdcIds -> Sensors \cup {None}]
    /\ pkt \in Seq([sensor : Sensors, of : Sensors \cup {None}])
    /\ zero_point \in Int /\ taken \in [n : Nat, sum : Int] /\ missed \in 0 .. 2
    /\ failed \subseteq Sensors

SensorInit ==
    /\ open \in SUBSET AdcIds /\ massAvailable \in BOOLEAN
    /\ tempAvailable \in SUBSET DOMAIN Topics
    /\ pc = IF massAvailable THEN "flush" ELSE "trigger"
    /\ i = 1 /\ j = 1
    /\ converted = [d \in AdcIds |-> None]
    /\ pkt = <<>> /\ zero_point = 0 /\ missed = 0 /\ failed = {}
    /\ taken = [n |-> 0, sum |-> 0]

Goto(label, first) == pc' = label /\ i' = first
NewRound == Goto("trigger", 1) /\ j' = 1 /\ pkt' = <<>> /\ failed' = {}

-----------------------------------------------------------------------------
(* sensor_mass_calibrate.                                                  *)

\* Faulty variant: a failed reading is counted like any other.
FetchFailsCounted ==
    /\ pc \in {"flush", "tare"}
    /\ missed' = 0
    /\ IF i < READINGS THEN Goto(pc, i + 1)
       ELSE Goto(IF pc = "flush" THEN "tare" ELSE "trigger", 1)
    /\ UNCHANGED <<devices, tare, j, converted, pkt, failed>>

Miss == missed' = IF missed = 1 THEN 2 ELSE 1

\* No new reading, or an error: the loop takes the turn again.
FetchFails ==
    /\ pc \in {"flush", "tare"}
    /\ Miss
    /\ UNCHANGED <<devices, tare, pc, i, j, converted, pkt, failed>>

Flush ==
    /\ pc = "flush"
    /\ missed' = 0
    /\ IF i < READINGS THEN Goto(pc, i + 1) ELSE Goto("tare", 1)
    /\ UNCHANGED <<devices, tare, j, converted, pkt, failed>>

\* The zero point is an integer: the fraction that a reading adds is cut off, toward 0.
Cut(n) == IF n >= 0 THEN n \div READINGS ELSE -((-n) \div READINGS)

Tare(force) ==
    /\ pc = "tare"
    /\ missed' = 0
    /\ zero_point' = Cut(READINGS * zero_point + force)
    /\ taken' = [n |-> taken.n + 1, sum |-> taken.sum + force]
    /\ IF i < READINGS THEN Goto(pc, i + 1) ELSE Goto("trigger", 1)
    /\ UNCHANGED <<devices, j, converted, pkt, failed>>

-----------------------------------------------------------------------------
(* The rounds over the ADCs: channel j of all is triggered, then read.     *)

\* Faulty variant: all channels are triggered before any is read.
AfterTriggerAllFirst ==
    IF i < Len(Adcs) THEN Goto("trigger", i + 1) /\ j' = j
    ELSE IF j < 4 THEN Goto("trigger", 1) /\ j' = j + 1
    ELSE Goto("read", 1) /\ j' = 1

AfterTrigger ==
    IF i < Len(Adcs) THEN Goto("trigger", i + 1) /\ j' = j
    ELSE Goto("read", 1) /\ j' = j

\* Faulty variant: j goes one past the last channel.
AfterReadTooFar ==
    IF i < Len(Adcs) THEN Goto("read", i + 1) /\ j' = j
    ELSE IF j <= 4 THEN Goto("trigger", 1) /\ j' = j + 1
    ELSE Goto("mass", 1) /\ j' = j

AfterRead ==
    IF i < Len(Adcs) THEN Goto("read", i + 1) /\ j' = j
    ELSE IF j < 4 THEN Goto("trigger", 1) /\ j' = j + 1
    ELSE Goto("mass", 1) /\ j' = j

HasChannel == i \in open /\ j <= Len(Adcs[i])
Channel    == Adcs[i][j]

SkipChannel ==
    /\ pc \in {"trigger", "read"} /\ ~HasChannel
    /\ IF pc = "trigger" THEN AfterTrigger ELSE AfterRead
    /\ UNCHANGED <<devices, tare, converted, pkt, missed, failed>>

Trigger ==
    /\ pc = "trigger" /\ HasChannel
    /\ converted' = [converted EXCEPT ![i] = Channel]
    /\ AfterTrigger
    /\ UNCHANGED <<devices, tare, pkt, missed, failed>>

\* Faulty variant: a conversion that cannot be triggered is tried again.
TriggerFailsRetried ==
    /\ pc = "trigger" /\ HasChannel
    /\ converted' \in {converted, [converted EXCEPT ![i] = Channel]}
    /\ Miss /\ failed' = failed \cup {Channel}
    /\ UNCHANGED <<devices, tare, pc, i, j, pkt>>

\* The conversion may have begun all the same.
TriggerFails ==
    /\ pc = "trigger" /\ HasChannel
    /\ converted' \in {converted, [converted EXCEPT ![i] = Channel]}
    /\ failed' = failed \cup {Channel}
    /\ AfterTrigger
    /\ UNCHANGED <<devices, tare, pkt, missed>>

Add(sensor, of) == pkt' = Append(pkt, [sensor |-> sensor, of |-> of])

\* The result of the last conversion, whichever channel that was of.
Read ==
    /\ pc = "read" /\ HasChannel
    /\ Add(Channel, converted[i])
    /\ AfterRead
    /\ UNCHANGED <<devices, tare, converted, missed, failed>>

ReadFails ==
    /\ pc = "read" /\ HasChannel
    /\ AfterRead
    /\ UNCHANGED <<devices, tare, converted, pkt, missed, failed>>

-----------------------------------------------------------------------------
(* Load cell, thermocouples and the packet.                                *)

Mass ==
    /\ pc = "mass"
    /\ \/ massAvailable /\ Add(MassSensor, MassSensor)
       \/ pkt' = pkt
    /\ Goto("temp", 1)
    /\ UNCHANGED <<devices, tare, j, converted, missed, failed>>

Temp ==
    /\ pc = "temp"
    /\ \/ i \in tempAvailable /\ Add(Topics[i], Topics[i])
       \/ pkt' = pkt
    /\ IF i < Len(Topics) THEN Goto("temp", i + 1) ELSE Goto("publish", 1)
    /\ UNCHANGED <<devices, tare, j, converted, missed, failed>>

\* Faulty variant: sensor_count is not reset between rounds.
PublishOnAndOn ==
    /\ pc = "publish"
    /\ Goto("trigger", 1) /\ j' = 1 /\ failed' = {}
    /\ UNCHANGED <<devices, tare, converted, pkt, missed>>

\* telemetry_publish if there is anything; whether it succeeds is not looked at.
Publish ==
    /\ pc = "publish"
    /\ NewRound
    /\ UNCHANGED <<devices, tare, converted, missed>>

SensorNext ==
    \/ FetchFails \/ Flush \/ \E force \in Forces : Tare(force)
    \/ SkipChannel \/ Trigger \/ TriggerFails \/ Read \/ ReadFails
    \/ Mass \/ Temp \/ Publish

SensorSpec == SensorInit /\ [][SensorNext]_sensorVars

\* The telemetry thread is never blocked: drivers answer, or fail, in time.
FairSensorSpec == SensorSpec /\ WF_sensorVars(SensorNext)

-----------------------------------------------------------------------------
(* Properties.                                                             *)

(***************************************************************************)
(* A message carries what was measured at the sensor it names, unless the  *)
(* conversion could not be triggered in this very round (telemetry.c:383); *)
(* and it always comes from the same ADC, or from none if that has         *)
(* converted nothing yet.                                                  *)
(***************************************************************************)
MeasuredHere(m) == m.of = m.sensor \/ m.sensor \in failed

SameAdc(m) == \A d \in AdcIds : m.sensor \in OnAdc(d) => m.of \in OnAdc(d) \cup {None}

LabelTrue == \A n \in DOMAIN pkt : MeasuredHere(pkt[n]) /\ SameAdc(pkt[n])

Distinct == \A m, n \in DOMAIN pkt : pkt[m].sensor = pkt[n].sensor => m = n

(***************************************************************************)
(* A packet has at most one message of every sensor, and so the arrays of  *)
(* 32 headers and bodies (telemetry.c:351) cannot overflow.                *)
(***************************************************************************)
OneReadingEach ==
    /\ Distinct
    /\ Len(pkt) <= 32

Within(error, bound) == -bound <= error /\ error <= bound

(***************************************************************************)
(* The zero point is the mean of READINGS readings that were really taken, *)
(* off by less than one for each of them (sensors.c:136 cuts the fraction  *)
(* off every time), however many calls failed in between.                  *)
(***************************************************************************)
TareNear ==
    massAvailable /\ pc \notin {"flush", "tare"} =>
        /\ taken.n = READINGS
        /\ Within(READINGS * zero_point - taken.sum, READINGS * (READINGS - 1))

(***************************************************************************)
(* Packets are published in round after round, whatever fails, unless the  *)
(* load cell delivers nothing more while it is being calibrated            *)
(* (sensors.c:124 and 134).                                                *)
(***************************************************************************)
TelemetryFlows ==
    []<>(pc = "publish") \/ <>[](pc \in {"flush", "tare"} /\ missed > 0)

-----------------------------------------------------------------------------
(***************************************************************************)
(* The inductive invariant: every ADC that has been triggered in the       *)
(* current column holds the channel of this column, unless the trigger     *)
(* failed, and no message is there before its turn has come.               *)
(***************************************************************************)
Triggered(d) == pc = "read" \/ (pc = "trigger" /\ d < i)

ColumnInv ==
    \A d \in AdcIds :
        /\ converted[d] \in OnAdc(d) \cup {None}
        /\ d \in open /\ j <= Len(Adcs[d]) /\ Triggered(d) =>
              converted[d] = Adcs[d][j] \/ Adcs[d][j] \in failed

\* Is it this sensor's turn, or has it been, with the thread at label, i and j?
Due(sensor, label, dev, col) ==
    \/ \E s \in Slots : /\ sensor = Adcs[s[1]][s[2]]
                        /\ \/ label \in {"mass", "temp", "publish"}
                           \/ label \in {"trigger", "read"} /\ s[2] < col
                           \/ label = "read" /\ s[2] = col /\ s[1] < dev
    \/ sensor = MassSensor /\ label \in {"temp", "publish"}
    \/ \E n \in DOMAIN Topics : /\ sensor = Topics[n]
                                /\ label = "publish" \/ (label = "temp" /\ n < dev)

OrderInv == \A n \in DOMAIN pkt : Due(pkt[n].sensor, pc, i, j)

(***************************************************************************)
(* What TareNear rests on: every reading so far has cost less than one.    *)
(***************************************************************************)
TareInv ==
    /\ pc \in {"flush", "tare"} => massAvailable
    /\ pc = "flush" => taken.n = 0
    /\ pc = "tare" => taken.n = i - 1
    /\ massAvailable /\ pc \notin {"flush", "tare"} => taken.n = READINGS
    /\ Within(READINGS * zero_point - taken.sum, taken.n * (READINGS - 1))

SensorInv == SensorTypeOK /\ ColumnInv /\ OrderInv /\ Distinct /\ LabelTrue
=============================================================================
