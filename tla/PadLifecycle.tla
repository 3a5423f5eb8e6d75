---------------------------- MODULE PadLifecycle ----------------------------
(***************************************************************************)
(* Birth and death of the pad server's threads on a desktop build, around  *)
(* the two threads of PadServer:                                           *)
(*   - main starts the controller and the telemetry thread, installs       *)
(*     int_handler, which cancels and joins both, and joins the controller *)
(*     itself (pad_server_main.c);                                         *)
(*   - the telemetry thread owns the socket and the pad-state telemetry    *)
(*     thread, which its cleanup handlers cancel and join (telemetry.c).   *)
(* Cancellation is deferred: it takes effect at accept, recv and send in   *)
(* the controller, at pthread_cond_timedwait and sendmsg in the pad-state  *)
(* thread, and it may take effect at any output of the logging macros.     *)
(* pthread_mutex_lock is no cancellation point, and no thread has a        *)
(* cleanup handler that would unlock update_mut.                           *)
(***************************************************************************)
EXTENDS PadServer

CONSTANTS
    BadDataFile,        \* may the -f option name a file that cannot be opened or read?
    SecondJoinReturns   \* does pthread_join of a thread that is being joined return at once?

ASSUME LifeAssumption == BadDataFile \in BOOLEAN /\ SecondJoinReturns \in BOOLEAN

VARIABLES
    proc,           \* the process: "running" or "exited"
    telem,          \* telemetry_run: what it is at
    sock,           \* is its socket open?
    cancelled,      \* the threads a cancellation is pending for
    handler,        \* int_handler: what it is at
    joining         \* is main in pthread_join of the controller?

life     == <<proc, telem, sock, cancelled, handler, joining>>
lifeVars == <<vars, life>>

TelemStates   == {"unborn", "init", "spawn", "mock", "cancel", "join", "close", "dead"}
HandlerStates == {"none", "cancelTelem", "joinTelem", "cancelCtrl", "joinCtrl", "exit"}

LifeTypeOK ==
    /\ proc \in {"running", "exited"}
    /\ telem \in TelemStates
    /\ sock \in BOOLEAN
    /\ cancelled \subseteq {"telem", "padstate", "controller"}
    /\ handler \in HandlerStates
    /\ joining \in BOOLEAN
    /\ pcC \in CtrlLabels \cup {"unborn", "init", "dead"}
    /\ pcT \in TelemLabels \cup {"unborn", "dead"}
    /\ ret \in {"accept", "recv", "update", "reply"}

LifeInit ==
    /\ level = ARMED_PAD /\ conn = CONN_RECONNECTING /\ act = [i \in Actuators |-> FALSE]
    /\ updateMut = Free /\ updateRecorded = FALSE
    /\ pcC = "unborn" /\ req = NoRequest /\ status = ACT_OK /\ ret = "accept"
    /\ pcT = "unborn" /\ timedOut = FALSE /\ snap = Pad /\ next = 0 /\ heard = Silence
    /\ window = {}
    /\ proc = "running" /\ telem = "unborn" /\ sock = FALSE /\ cancelled = {}
    /\ handler = "none" /\ joining = FALSE

Running == proc = "running"

-----------------------------------------------------------------------------
(* The steps of PadServer go on until the cancellation of their thread     *)
(* meets a cancellation point.                                             *)

Do(A) == Running /\ A /\ UNCHANGED life

ClientSteps == C_Accept \/ C_Disconnect \/ \E r \in Requests : C_Receive(r)
TimedWait   == T_Timeout \/ T_SpuriousWakeup

ControllerRuns ==
    \/ Do(C_Arm \/ C_CheckActuation \/ C_Drive \/ C_DriveFails \/ C_FollowUp)
    \/ Do(C_Lock)
    \/ Do(C_Signal)
    \/ "controller" \notin cancelled /\ Do(C_Reply)

ClientRuns == "controller" \notin cancelled /\ Do(ClientSteps)

PadstateRuns ==
    \/ Do(T_Lock)
    \/ Do(TelemetryReads)
    \/ Do(T_Unlock)
    \/ "padstate" \notin cancelled /\ Do(TimedWait)
    \/ "padstate" \notin cancelled /\ Do(T_Publish)

-----------------------------------------------------------------------------
(* main and controller_run.                                                *)

\* main: padstate_init, then pthread_create of the controller thread, then of
\* the telemetry thread.  Either may fail, which exits.
StartController ==
    /\ Running
    /\ pcC = "unborn"
    /\ \/ pcC' = "init" /\ proc' = proc
       \/ pcC' = pcC /\ proc' = "exited"
    /\ UNCHANGED <<level, conn, act, updateMut, updateRecorded, req, status, ret, telemVars, window,
                   telem, sock, cancelled, handler, joining>>

StartTelemetry ==
    /\ Running
    /\ pcC # "unborn"
    /\ telem = "unborn"
    /\ \/ telem' = "init" /\ proc' = proc
       \/ telem' = telem /\ proc' = "exited"
    /\ UNCHANGED <<vars, sock, cancelled, handler, joining>>

\* controller_init: a socket that cannot be bound exits the process.
InitController ==
    /\ Running
    /\ pcC = "init"
    /\ \/ pcC' = "accept" /\ proc' = proc
       \/ pcC' = pcC /\ proc' = "exited"
    /\ UNCHANGED <<level, conn, act, updateMut, updateRecorded, req, status, ret, telemVars, window,
                   telem, sock, cancelled, handler, joining>>

\* main waits for the controller thread.
MainJoins ==
    /\ Running
    /\ handler = "none"
    /\ telem # "unborn"
    /\ ~joining
    /\ joining' = TRUE
    /\ UNCHANGED <<vars, proc, telem, sock, cancelled, handler>>

\* Cancelled anywhere but in pthread_mutex_lock; controller_cleanup closes the
\* sockets and leaves the mutex as it is.
ControllerDies ==
    /\ Running
    /\ "controller" \in cancelled
    /\ pcC \in CtrlLabels \ {"lock"}
    /\ pcC' = "dead"
    /\ UNCHANGED <<level, conn, act, updateMut, updateRecorded, req, status, ret, telemVars, window,
                   life>>

-----------------------------------------------------------------------------
(* telemetry_run.                                                          *)

Telem(from, to) == Running /\ telem = from /\ telem' = to

\* telemetry_init: without a socket the thread returns.
InitSocket ==
    /\ \/ Telem("init", "spawn") /\ sock' = TRUE
       \/ Telem("init", "dead") /\ sock' = FALSE
    /\ UNCHANGED <<vars, proc, cancelled, handler, joining>>

\* pthread_create of the pad-state thread; if it fails only the socket is
\* cleaned up.
SpawnPadstate ==
    /\ \/ Telem("spawn", "mock") /\ pcT' = "lock"
       \/ Telem("spawn", "close") /\ pcT' = pcT
    /\ UNCHANGED <<level, conn, act, updateMut, updateRecorded, ctrlVars, timedOut, snap, next,
                   heard, window, proc, sock, cancelled, handler,
                   joining>>

\* mock_telemetry returns only if the data file cannot be opened or read;
\* thread_return then runs the cleanup handlers.
MockReturns ==
    /\ BadDataFile
    /\ Telem("mock", "cancel")
    /\ UNCHANGED <<vars, proc, sock, cancelled, handler, joining>>

\* Cancelled at sendmsg or usleep: the cleanup handlers run.
TelemetryDies ==
    /\ "telem" \in cancelled
    /\ Telem("mock", "cancel")
    /\ UNCHANGED <<vars, proc, sock, cancelled, handler, joining>>

\* Faulty variant: only the join is left of the cleanup.
CancelPadstateForgotten ==
    /\ Telem("cancel", "join")
    /\ UNCHANGED <<vars, proc, sock, cancelled, handler, joining>>

\* telemetry_cancel_padstate_thread: pthread_cancel ...
CancelPadstate ==
    /\ Telem("cancel", "join")
    /\ cancelled' = cancelled \cup {"padstate"}
    /\ UNCHANGED <<vars, proc, sock, handler, joining>>

\* Faulty variant: the thread is cancelled and not waited for.
JoinPadstateSkipped ==
    /\ Telem("join", "close")
    /\ UNCHANGED <<vars, proc, sock, cancelled, handler, joining>>

\* ... and pthread_join.
JoinPadstate ==
    /\ pcT = "dead"
    /\ Telem("join", "close")
    /\ UNCHANGED <<vars, proc, sock, cancelled, handler, joining>>

\* telemetry_cleanup.
CloseSocket ==
    /\ Telem("close", "dead")
    /\ sock' = FALSE
    /\ UNCHANGED <<vars, proc, cancelled, handler, joining>>

\* Cancelled in pthread_cond_timedwait: the mutex is locked again before the
\* thread dies, and stays locked.  Cancelled in the output before the snapshot
\* or in sendmsg: it is locked already.
PadstateDies ==
    /\ Running
    /\ "padstate" \in cancelled
    /\ \/ pcT = "wait" /\ updateMut = Free
       \/ pcT \in {"level", "publish"}
    /\ pcT' = "dead"
    /\ updateMut' = "telemetry"
    /\ window' = {}
    /\ UNCHANGED <<level, conn, act, updateRecorded, ctrlVars, timedOut, snap, next, heard, life>>

-----------------------------------------------------------------------------
(* int_handler, on SIGINT, in the main thread, once it is installed.       *)

Handler(from, to) == Running /\ handler = from /\ handler' = to

Sigint ==
    /\ telem # "unborn"
    /\ Handler("none", "cancelTelem")
    /\ UNCHANGED <<vars, proc, telem, sock, cancelled, joining>>

CancelTelemetry ==
    /\ Handler("cancelTelem", "joinTelem")
    /\ cancelled' = cancelled \cup {"telem"}
    /\ UNCHANGED <<vars, proc, telem, sock, joining>>

\* Faulty variant: the telemetry thread is cancelled and not waited for.
JoinTelemetrySkipped ==
    /\ Handler("joinTelem", "cancelCtrl")
    /\ UNCHANGED <<vars, proc, telem, sock, cancelled, joining>>

JoinTelemetry ==
    /\ telem = "dead"
    /\ Handler("joinTelem", "cancelCtrl")
    /\ UNCHANGED <<vars, proc, telem, sock, cancelled, joining>>

CancelController ==
    /\ Handler("cancelCtrl", "joinCtrl")
    /\ cancelled' = cancelled \cup {"controller"}
    /\ UNCHANGED <<vars, proc, telem, sock, joining>>

\* The second join of a thread main is joining already: undefined by POSIX, so
\* it waits like the first or returns at once with EINVAL.
JoinController ==
    /\ pcC = "dead" \/ (joining /\ SecondJoinReturns)
    /\ Handler("joinCtrl", "exit")
    /\ UNCHANGED <<vars, proc, telem, sock, cancelled, joining>>

Exit ==
    /\ Running
    /\ handler = "exit"
    /\ proc' = "exited"
    /\ UNCHANGED <<vars, telem, sock, cancelled, handler, joining>>

MainSteps       == StartController \/ StartTelemetry \/ InitController \/ MainJoins
TelemetryThread ==
    \/ InitSocket \/ SpawnPadstate \/ TelemetryDies
    \/ CancelPadstate \/ JoinPadstate \/ CloseSocket
HandlerSteps    == CancelTelemetry \/ JoinTelemetry \/ CancelController \/ JoinController \/ Exit

LifeNext ==
    \/ ClientRuns \/ ControllerRuns \/ PadstateRuns
    \/ MainSteps \/ TelemetryThread \/ MockReturns
    \/ ControllerDies \/ PadstateDies
    \/ Sigint \/ HandlerSteps

LifeSpec == LifeInit /\ [][LifeNext]_lifeVars

(***************************************************************************)
(* Fairness.  Every thread that can take a step eventually does, and a     *)
(* pending cancellation takes effect.  A thread that waits for the mutex   *)
(* is not overtaken for ever: the other one gives it up between any two    *)
(* uses, to wait a second or to wait for a request.  The deadline of the   *)
(* timed wait is absolute, so no number of wake-ups postpones it.  The     *)
(* network delivers one of any endless series of sends.  The data file     *)
(* need not be bad, and SIGINT need not come.                              *)
(***************************************************************************)
LifeFairness ==
    /\ WF_lifeVars(ControllerRuns) /\ SF_lifeVars(Do(C_Lock))
    /\ WF_lifeVars(PadstateRuns) /\ SF_lifeVars(Do(T_Lock)) /\ SF_lifeVars(Do(T_Timeout))
    /\ SF_lifeVars("padstate" \notin cancelled /\ Do(T_Publish /\ heard' = snap))
    /\ WF_lifeVars(MainSteps) /\ WF_lifeVars(TelemetryThread) /\ WF_lifeVars(HandlerSteps)
    /\ WF_lifeVars(ControllerDies) /\ SF_lifeVars(PadstateDies)

FairLifeSpec == LifeSpec /\ LifeFairness

-----------------------------------------------------------------------------
(* Properties.                                                             *)

(***************************************************************************)
(* The pad-state thread works with the socket and the arguments on the     *)
(* stack of telemetry_run (telemetry.c:547, telemetry.c:558): it is dead   *)
(* before the one is closed and the other is gone.                         *)
(***************************************************************************)
SocketOutlivesItsUser == pcT \notin {"unborn", "dead"} => sock /\ telem \in {"mock", "cancel", "join"}

(***************************************************************************)
(* int_handler exits only with the telemetry threads joined, the socket    *)
(* closed by its cleanup handler, and the controller told to die.          *)
(***************************************************************************)
ExitAfterCleanup ==
    handler = "exit" =>
        telem = "dead" /\ pcT \in {"unborn", "dead"} /\ ~sock /\ "controller" \in cancelled

(***************************************************************************)
(* A signalled telemetry thread always dies, and its pad-state thread with *)
(* it, whatever the controller is doing (unless the process ends first):   *)
(* the first join of int_handler returns.                                  *)
(***************************************************************************)
TelemetryStops == ("telem" \in cancelled) ~> (telem = "dead" \/ proc = "exited")

(***************************************************************************)
(* The controller is never stuck in a request, although it waits for the   *)
(* telemetry thread, which holds update_mut across sendmsg: it comes back  *)
(* to read the next one or to accept a client.  (Not so once the telemetry *)
(* thread ends: SignalUpdateReturns.)                                      *)
(***************************************************************************)
TelemetryEnds == telem \in {"cancel", "join", "close", "dead"} \/ proc = "exited"

AvailableWhileTelemetryLives ==
    (pcC \in CtrlLabels \ {"accept", "recv"})
        ~> (pcC \in {"accept", "recv", "dead"} \/ TelemetryEnds)

(***************************************************************************)
(* Once the pad state stops changing, the listeners eventually show it and *)
(* go on showing it, whatever datagrams were lost, as long as telemetry is *)
(* not ended: the heartbeat repeats what a lost update said.               *)
(***************************************************************************)
AgreementWhileTelemetryLives == <>[][FALSE]_Pad => <>TelemetryEnds \/ <>[](heard = Pad)

(***************************************************************************)
(* state.c:121 says padstate_signal_update returns "0 on success, errno    *)
(* code on failure": the controller does not wait for update_mut for ever. *)
(***************************************************************************)
SignalUpdateReturns == (pcC = "lock") ~> (pcC # "lock" \/ proc = "exited")
(***************************************************************************)
(* Why they hold: each thread is tended by the one that started it.  The   *)
(* inductive invariant, by its parts: the pad-state thread exists only     *)
(* while telemetry_run is between its pthread_create and its pthread_join, *)
(* the socket is open from telemetry_init to telemetry_cleanup, and        *)
(* int_handler goes past a join only with the thread dead.                 *)
(***************************************************************************)
PadstateTended ==
    /\ pcT # "unborn" => telem \in {"mock", "cancel", "join", "close", "dead"}
    /\ telem \in {"close", "dead"} => pcT \in {"unborn", "dead"}

SocketTended == sock <=> telem \in {"spawn", "mock", "cancel", "join", "close"}

HandlerInOrder ==
    /\ handler \in {"cancelCtrl", "joinCtrl", "exit"} => telem = "dead"
    /\ handler \in {"joinCtrl", "exit"} => "controller" \in cancelled
    /\ "telem" \in cancelled => handler \notin {"none", "cancelTelem"}

(***************************************************************************)
(* What a death leaves behind: update_mut belongs to the pad-state thread  *)
(* from the test of its wait loop to the unlock, and for ever once it has  *)
(* died, since no cleanup handler unlocks it.  From then on                *)
(* padstate_signal_update cannot return, which is what SignalUpdateReturns *)
(* runs into.                                                              *)
(***************************************************************************)
MutexInherited ==
    /\ updateMut = "telemetry" <=> Collecting \/ pcT = "dead"
    /\ pcC = "signal" => updateMut = "controller"

\* A controller that wants the mutex when the pad-state thread is dead waits for
\* it until the process exits: no cancellation reaches it.
ControllerStuck == [][pcT = "dead" /\ pcC = "lock" => pcC' = "lock"]_lifeVars

LifeInv == LifeTypeOK /\ PadstateTended /\ SocketTended /\ HandlerInOrder /\ MutexInherited
=============================================================================
