------------------------------ MODULE CliRunner ------------------------------
(***************************************************************************)
(* One Claude CLI process and its runner: startClaudeCliRun of             *)
(* core/cli-runner.ts.  The child's events, two timers and cancel() race   *)
(* for the one result; each handler is one action.  The process itself may *)
(* ignore SIGTERM, and outlive its runner.                                 *)
(***************************************************************************)
CONSTANT InactivityTimeout   \* invocation has inactivityTimeoutMs > 0

ASSUME InactivityAssumption == InactivityTimeout \in BOOLEAN

VARIABLES
    exit,               \* "running", or how the process ended: "zero", "other"; "unborn"
    pipes,              \* stdout and stderr: "open" until every writer closed them
    childClosed,        \* the close event was handled
    result,             \* "none", or the status completed was resolved with
    cancelRequested,
    inactivityTimer,    \* set
    killTimer,          \* set
    signal,             \* the strongest signal sent: "none", "SIGTERM", "SIGKILL"
    partialLine         \* the stream parser holds an unfinished line

process == <<exit, pipes, childClosed, signal>>
vars == <<exit, pipes, childClosed, result, cancelRequested,
          inactivityTimer, killTimer, signal, partialLine>>

(* The domains of the variables. *)
TypeOK ==
    /\ exit \in {"unborn", "running", "zero", "other"}
    /\ pipes \in {"open", "ended"}
    /\ childClosed \in BOOLEAN
    /\ result \in {"none", "succeeded", "failed", "canceled"}
    /\ cancelRequested \in BOOLEAN
    /\ inactivityTimer \in BOOLEAN
    /\ killTimer \in BOOLEAN
    /\ signal \in {"none", "SIGTERM", "SIGKILL"}
    /\ partialLine \in BOOLEAN

Completed == result # "none"
Open == exit # "unborn" /\ ~childClosed

(* spawn throws, and the runner has failed; or the child is there and the *)
(* watchdog starts.                                                       *)
Init ==
    /\ pipes = "open"
    /\ childClosed = FALSE
    /\ cancelRequested = FALSE
    /\ killTimer = FALSE
    /\ signal = "none"
    /\ partialLine = FALSE
    /\ \/ exit = "unborn" /\ result = "failed" /\ inactivityTimer = FALSE
       \/ exit = "running" /\ result = "none" /\ inactivityTimer = InactivityTimeout

(* A fault: the watchdog survives the result. *)
CompleteKeepingWatchdog(status, watchdog) ==
    /\ result' = IF Completed THEN result ELSE status
    /\ inactivityTimer' = watchdog

(* complete(): the first result stays, and the watchdog is cleared. *)
Complete(status, watchdog) ==
    /\ result' = IF Completed THEN result ELSE status
    /\ inactivityTimer' = (Completed /\ watchdog)

(* terminateChild and scheduleKillEscalation: SIGTERM now, and one timer   *)
(* for SIGKILL.                                                            *)
TerminateChild ==
    /\ signal' = IF childClosed \/ signal = "SIGKILL" THEN signal ELSE "SIGTERM"
    /\ killTimer' = (killTimer \/ ~childClosed)

(* noteActivity: the watchdog is set anew unless the run is over or told to stop. *)
WatchdogAfterActivity(watchdog) ==
    IF Completed \/ cancelRequested \/ ~InactivityTimeout THEN watchdog ELSE TRUE

-----------------------------------------------------------------------------
(* The process: it ends by itself, or as the signals make it. *)
ProcessExits ==
    /\ exit = "running"
    /\ exit' \in IF signal = "SIGKILL" THEN {"other"} ELSE {"zero", "other"}
    /\ UNCHANGED <<pipes, childClosed, result, cancelRequested, inactivityTimer, killTimer,
                   signal, partialLine>>

(* The last writer closes the pipes: the process, or what it left behind. *)
PipesEnd ==
    /\ exit # "unborn"
    /\ pipes = "open"
    /\ pipes' = "ended"
    /\ UNCHANGED <<exit, childClosed, result, cancelRequested, inactivityTimer, killTimer,
                   signal, partialLine>>

(* A chunk on stdout or stderr; what the pipes hold still comes after the exit. *)
Output ==
    /\ exit # "unborn"
    /\ pipes = "open"
    /\ inactivityTimer' = WatchdogAfterActivity(inactivityTimer)
    /\ partialLine' \in BOOLEAN
    /\ UNCHANGED <<process, result, cancelRequested, killTimer>>

(* failForInactivity. *)
InactivityFires ==
    /\ inactivityTimer
    /\ IF Completed \/ cancelRequested
       THEN UNCHANGED <<result, inactivityTimer, killTimer, signal>>
       ELSE Complete("failed", inactivityTimer) /\ TerminateChild
    /\ UNCHANGED <<exit, pipes, childClosed, cancelRequested, partialLine>>

(* An error event of the child or, other than EPIPE, of its stdin: the run *)
(* fails, also one that was told to stop.                                  *)
Error ==
    /\ Open
    /\ ~Completed
    /\ Complete("failed", inactivityTimer)
    /\ TerminateChild
    /\ UNCHANGED <<exit, pipes, childClosed, cancelRequested, partialLine>>

KillTimerFires ==
    /\ killTimer
    /\ killTimer' = FALSE
    /\ signal' = IF childClosed THEN signal ELSE "SIGKILL"
    /\ UNCHANGED <<exit, pipes, childClosed, result, cancelRequested, inactivityTimer, partialLine>>

(* A fault: a canceled child that exits with 0 is a success. *)
CloseStatusOfExit ==
    IF exit = "zero" THEN "succeeded" ELSE IF cancelRequested THEN "canceled" ELSE "failed"

(* The result close gives a run that has none. *)
CloseStatus ==
    CASE cancelRequested -> "canceled"
      [] ~cancelRequested /\ exit = "zero" -> "succeeded"
      [] ~cancelRequested /\ exit # "zero" -> "failed"

(* The close event, after the exit and the end of both pipes.  The timers  *)
(* are cleared, the parser is flushed (which counts as activity when a     *)
(* line was left), and only then the run completes.                        *)
Close ==
    /\ Open
    /\ exit # "running"
    /\ pipes = "ended"
    /\ childClosed' = TRUE
    /\ killTimer' = FALSE
    /\ partialLine' = FALSE
    /\ Complete(CloseStatus, IF partialLine THEN WatchdogAfterActivity(FALSE) ELSE FALSE)
    /\ UNCHANGED <<exit, pipes, cancelRequested, signal>>

(* The cancel() of the handle. *)
Cancel ==
    /\ ~Completed
    /\ ~cancelRequested
    /\ cancelRequested' = TRUE
    /\ inactivityTimer' = FALSE
    /\ TerminateChild
    /\ UNCHANGED <<exit, pipes, childClosed, result, partialLine>>

Next ==
    \/ ProcessExits \/ PipesEnd \/ Output \/ Close \/ Error
    \/ InactivityFires \/ KillTimerFires \/ Cancel

Spec == Init /\ [][Next]_vars

(***************************************************************************)
(* Timers fire, SIGKILL ends the process, and the pipes of an ended        *)
(* process end (no grandchild keeps them open for ever: the runner could   *)
(* not complete a canceled run then).  Nothing else makes a process end:   *)
(* neither time nor SIGTERM.                                               *)
(***************************************************************************)
Fairness ==
    /\ WF_vars(InactivityFires)
    /\ WF_vars(KillTimerFires)
    /\ WF_vars(signal = "SIGKILL" /\ ProcessExits)
    /\ WF_vars(exit \in {"zero", "other"} /\ PipesEnd)
    /\ WF_vars(Close)

FairSpec == Spec /\ Fairness

-----------------------------------------------------------------------------
(* The watchdog is set exactly as long as the run can still be found       *)
(* inactive, so that no silent run is left unwatched and none that was     *)
(* canceled or is over is failed for its silence.                          *)
WatchdogCoversRun ==
    inactivityTimer <=> InactivityTimeout /\ ~Completed /\ ~cancelRequested

(* A child that was asked to stop will be killed if it does not, also when *)
(* the run has its result already; no timer outlives the child.            *)
EscalationCoversChild ==
    /\ Open /\ signal = "SIGTERM" => killTimer
    /\ childClosed => ~killTimer

(* In whatever order the handlers run, both timers are there exactly as    *)
(* long as somebody needs them.                                            *)
TimersAreExact == WatchdogCoversRun /\ EscalationCoversChild

Contract == INSTANCE RunnerContract WITH
    runner <- CASE Completed -> "completed"
                [] ~Completed /\ cancelRequested -> "canceling"
                [] ~Completed /\ ~cancelRequested -> "active",
    child <- CASE exit = "unborn" -> "none"
               [] exit # "unborn" /\ childClosed -> "dead"
               [] exit # "unborn" /\ ~childClosed -> "alive"

(* The handlers together keep to the result rule RunLifecycle relies on. *)
KeepsRunnerContract == Contract!Spec

(* A run either keeps producing output or completes, silence is not         *)
(* forever; and a child that was told to stop is gone in the end, with its  *)
(* run completed.                                                           *)
RunsEnd ==
    /\ []<><<Output>>_vars \/ <>Completed
    /\ signal # "none" ~> childClosed /\ Completed
=============================================================================
