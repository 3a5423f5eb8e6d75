--------------------------- MODULE ActuatorDriver ---------------------------
(***************************************************************************)
(* How the pad server drives an actuator on the board: actuator_set and    *)
(* the two drivers below it, gpio_actuator.c (a pin of its own for every   *)
(* valve and the igniter) and pwm_actuator.c (the dump valve and the quick *)
(* disconnect, two channels of one PWM device).  Only the controller       *)
(* thread drives actuators, one command after the other; what makes it     *)
(* hard are the system calls that fail between two effects, and file       *)
(* descriptors, which are limited and not all given back.                  *)
(***************************************************************************)
EXTENDS Integers

CONSTANTS
    Gpio, Pwm,        \* the actuators by kind (ACTUATORS[].gpio)
    MaxFds,           \* descriptors the system lets the process hold
    DeviceFaults      \* can open, ioctl and close fail for other reasons?

ASSUME DriverAssumption ==
    /\ Gpio \cap Pwm = {}
    /\ MaxFds \in Nat
    /\ DeviceFaults \in BOOLEAN

Ids     == Gpio \cup Pwm
Duties  == {"unset", "open", "close"}       \* open_duty, close_duty
Failed  == -1
Errno   == 1                                \* any positive error code
Results == {Failed, 0, Errno}

VARIABLES
    recorded,         \* actuator_t.state
    pin,              \* what the GPIO pins are at
    duty, started,    \* the PWM device: the duty of each channel, is it running?
    fds,              \* open descriptors
    pc, cmd,          \* where actuator_set is; the actuator and state asked for
    config,           \* pwm_config, the local copy of the duties
    result,           \* what the driver returns
    last,             \* history: the answer to the last command of each actuator
    fdsBefore         \* history: fds when the command came

device == <<pin, duty, started>>
vars   == <<recorded, device, fds, pc, cmd, config, result, last, fdsBefore>>

Labels == {"idle", "open", "write", "close", "get", "set", "start", "return"}

DriverTypeOK ==
    /\ recorded \in [Ids -> BOOLEAN]
    /\ pin \in [Gpio -> BOOLEAN]
    /\ duty \in [Pwm -> Duties] /\ started \in BOOLEAN
    /\ fds \in 0 .. MaxFds
    /\ pc \in Labels
    /\ cmd \in [id : Ids, on : BOOLEAN]
    /\ config \in [Pwm -> Duties]
    /\ result \in Results
    /\ last \in [Ids -> {"none", "ok", "silence"}]
    /\ fdsBefore \in 0 .. MaxFds

\* padstate_init, before the first command.
Init ==
    /\ recorded = [a \in Ids |-> FALSE]
    /\ pin = [a \in Gpio |-> FALSE]
    /\ duty = [a \in Pwm |-> "unset"] /\ started = FALSE
    /\ fds = 0
    /\ pc = "idle" /\ cmd \in [id : Ids, on : {FALSE}]
    /\ config = duty
    /\ result = 0
    /\ last = [a \in Ids |-> "none"] /\ fdsBefore = 0

-----------------------------------------------------------------------------
At(label)   == pc = label
GoTo(label) == pc' = label /\ result' = result
Return(r)   == pc' = "return" /\ result' = r
Fault       == DeviceFaults

\* Calls actuator_set.
Command(a, on) ==
    /\ At("idle")
    /\ cmd' = [id |-> a, on |-> on]
    /\ fdsBefore' = fds
    /\ GoTo("open")
    /\ UNCHANGED <<recorded, device, fds, config, last>>

Open ==
    /\ At("open")
    /\ fds < MaxFds
    /\ fds' = fds + 1
    /\ IF cmd.id \in Gpio THEN GoTo("write") ELSE GoTo("get")
    /\ UNCHANGED <<recorded, device, cmd, config, last, fdsBefore>>

\* The GPIO driver returns -1, the PWM driver errno.
OpenFails ==
    /\ At("open")
    /\ fds = MaxFds \/ Fault
    /\ Return(IF cmd.id \in Gpio THEN Failed ELSE Errno)
    /\ UNCHANGED <<recorded, device, fds, cmd, config, last, fdsBefore>>

-----------------------------------------------------------------------------
(* gpio_actuator.c                                                         *)

\* ioctl(GPIOC_WRITE).
Write ==
    /\ At("write")
    /\ pin' = [pin EXCEPT ![cmd.id] = cmd.on]
    /\ GoTo("close")
    /\ UNCHANGED <<recorded, duty, started, fds, cmd, config, last, fdsBefore>>

\* It fails; the descriptor is not closed.
WriteFails ==
    /\ At("write") /\ Fault
    /\ Return(Failed)
    /\ UNCHANGED <<recorded, device, fds, cmd, config, last, fdsBefore>>

\* Faulty variant: the descriptor is not closed, as in the PWM driver.
CloseForgotten ==
    /\ At("close")
    /\ Return(0)
    /\ UNCHANGED <<recorded, device, fds, cmd, config, last, fdsBefore>>

Close ==
    /\ At("close")
    /\ fds' = fds - 1
    /\ Return(0)
    /\ UNCHANGED <<recorded, device, cmd, config, last, fdsBefore>>

\* close fails after the pin was written; the descriptor may be lost.
CloseFails ==
    /\ At("close") /\ Fault
    /\ fds' \in {fds, fds - 1}
    /\ Return(Failed)
    /\ UNCHANGED <<recorded, device, cmd, config, last, fdsBefore>>

-----------------------------------------------------------------------------
(* pwm_send_signal.  No path closes the descriptor.                        *)

\* ioctl(PWMIOC_GETCHARACTERISTICS).
GetCharacteristics ==
    /\ At("get")
    /\ config' = duty
    /\ GoTo("set")
    /\ UNCHANGED <<recorded, device, fds, cmd, last, fdsBefore>>

\* pwm_actuator_on asks for the close pulse, pwm_actuator_off for the open one.
Pulse(on) == IF on THEN "close" ELSE "open"

\* Faulty variant: a configuration built from nothing instead of the device's.
SetCharacteristicsAfresh ==
    /\ At("set")
    /\ duty' = [a \in Pwm |-> IF a = cmd.id THEN Pulse(cmd.on) ELSE "unset"]
    /\ GoTo("start")
    /\ UNCHANGED <<recorded, pin, started, fds, cmd, config, last, fdsBefore>>

\* The duty of the one channel is changed, then ioctl(PWMIOC_SETCHARACTERISTICS).
SetCharacteristics ==
    /\ At("set")
    /\ duty' = [config EXCEPT ![cmd.id] = Pulse(cmd.on)]
    /\ GoTo("start")
    /\ UNCHANGED <<recorded, pin, started, fds, cmd, config, last, fdsBefore>>

\* ioctl(PWMIOC_START).
StartPwm ==
    /\ At("start")
    /\ started' = TRUE
    /\ Return(0)
    /\ UNCHANGED <<recorded, pin, duty, fds, cmd, config, last, fdsBefore>>

\* Any of the three ioctls fails.
PwmFails ==
    /\ pc \in {"get", "set", "start"} /\ Fault
    /\ Return(Errno)
    /\ UNCHANGED <<recorded, device, fds, cmd, config, last, fdsBefore>>

-----------------------------------------------------------------------------
(* actuator_on and actuator_off, and the answer of pad_actuate.            *)

\* The record follows every result but -1, and ACT_OK is sent.
Record ==
    /\ At("return")
    /\ result # Failed
    /\ recorded' = [recorded EXCEPT ![cmd.id] = cmd.on]
    /\ last' = [last EXCEPT ![cmd.id] = "ok"]
    /\ GoTo("idle")
    /\ UNCHANGED <<device, fds, cmd, config, fdsBefore>>

\* Faulty variant: a failure is reported like a success.
GiveUpReportsOk ==
    /\ At("return")
    /\ result = Failed
    /\ last' = [last EXCEPT ![cmd.id] = "ok"]
    /\ GoTo("idle")
    /\ UNCHANGED <<recorded, device, fds, cmd, config, fdsBefore>>

\* pad_actuate returns -1; nothing is recorded and no answer is sent.
GiveUp ==
    /\ At("return")
    /\ result = Failed
    /\ last' = [last EXCEPT ![cmd.id] = "silence"]
    /\ GoTo("idle")
    /\ UNCHANGED <<recorded, device, fds, cmd, config, fdsBefore>>

Next ==
    \/ \E a \in Ids, on \in BOOLEAN : Command(a, on)
    \/ Open \/ OpenFails
    \/ Write \/ WriteFails \/ Close \/ CloseFails
    \/ GetCharacteristics \/ SetCharacteristics \/ StartPwm \/ PwmFails
    \/ Record \/ GiveUp

Spec == Init /\ [][Next]_vars

-----------------------------------------------------------------------------
(* Properties.                                                             *)

(***************************************************************************)
(* The recorded state of a GPIO actuator, which telemetry reports, differs *)
(* from its pin only after a command of it that was not answered: whatever *)
(* system call fails, an answered command has been carried out.            *)
(***************************************************************************)
GpioAnswerMeansDriven ==
    pc = "idle" => \A a \in Gpio : last[a] # "silence" => pin[a] = recorded[a]

(***************************************************************************)
(* The dump valve and the quick disconnect share a PWM device: driving one *)
(* of them never changes the pulse of the other.                           *)
(***************************************************************************)
OtherChannelKept == [][\A a \in Pwm : duty'[a] # duty[a] => cmd.id = a]_vars

(***************************************************************************)
(* A GPIO command that was answered has given its descriptor back.         *)
(***************************************************************************)
GpioGivesBack == pc = "return" /\ cmd.id \in Gpio /\ result = 0 => fds = fdsBefore

\* The actuator is where its recorded state says.
Driven(a) ==
    IF a \in Gpio THEN pin[a] = recorded[a]
    ELSE started /\ duty[a] = Pulse(recorded[a])

(***************************************************************************)
(* packet.h:60 says of ACT_OK: "The request was processed without any      *)
(* errors".                                                                *)
(* An actuator whose last command was answered with ACT_OK was driven.     *)
(***************************************************************************)
OkMeansDriven == pc = "idle" => \A a \in Ids : last[a] = "ok" => Driven(a)

-----------------------------------------------------------------------------
(***************************************************************************)
(* The inductive invariant behind the properties: what each label of       *)
(* actuator_set says of the command, its descriptor and its effect.  It    *)
(* holds in every reachable state.                                         *)
(***************************************************************************)
DriverInv ==
    /\ DriverTypeOK
    /\ pc = "open" => fds = fdsBefore
    /\ pc \in {"write", "close"} => cmd.id \in Gpio /\ fds = fdsBefore + 1
    /\ pc \in {"get", "set", "start"} => cmd.id \in Pwm
    /\ pc = "set" => config = duty
    /\ pc = "close" => pin[cmd.id] = cmd.on
    /\ pc = "return" /\ cmd.id \in Gpio /\ result # Failed =>
         result = 0 /\ pin[cmd.id] = cmd.on /\ fds = fdsBefore
    /\ \A a \in Gpio :
         last[a] # "silence" /\ ~(a = cmd.id /\ pc \in {"close", "return"}) =>
           pin[a] = recorded[a]
=============================================================================
