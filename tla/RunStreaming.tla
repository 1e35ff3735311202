---------------------------- MODULE RunStreaming ----------------------------
(***************************************************************************)
(* A Claude process, its runner and the event stream of its run, from the  *)
(* spawn to the clients: what the handlers of startClaudeCliRun emit goes  *)
(* into the buffer and to the open streams, and the end of the runner, or  *)
(* the run timeout, starts the finishRun that emits the end event.         *)
(* Shutdown, artifacts and the rows of the run are RunLifecycle's.         *)
(***************************************************************************)
EXTENDS CliRunner, Naturals, Sequences

CONSTANTS
    Clients,
    BufferSize,
    MaxEvents       \* bound: output makes no more events than that

ASSUME EventsAssumption == BufferSize \in Nat \ {0} /\ MaxEvents \in Nat

VARIABLES
    phase, kinds, buffer, conn, wire, seen,     \* of RunEvents
    finishing,      \* "no", or finishRun was called "with" or "without" artifacts
    runTimeoutTimer \* set

Events == INSTANCE RunEvents

events == <<phase, kinds, buffer, conn, wire, seen>>
streamVars == <<vars, events, finishing, runTimeoutTimer>>

(* A spawn that throws has emitted its diagnosis and failed the run. *)
StreamInit ==
    /\ Init
    /\ Events!Init
    /\ finishing = "no"
    /\ runTimeoutTimer \in BOOLEAN

(* The completed promise calls finishRun, which clears the run timeout. *)
FinishRun ==
    /\ finishing' = IF finishing # "no" \/ result' = "none" THEN finishing
                    ELSE IF result' = "canceled" THEN "without" ELSE "with"
    /\ runTimeoutTimer' = (runTimeoutTimer /\ finishing' = "no")

FailedSpawn ==
    /\ exit = "unborn" /\ finishing = "no"
    /\ UNCHANGED vars
    /\ Events!RunEvent(<<"shown">>)
    /\ FinishRun

Kinds == {"shown", "hidden"}

(* What a chunk or the flushed line is parsed to: an event, or none. *)
Parsed == {<<>>} \cup (IF Len(kinds) < MaxEvents THEN {<<kind>> : kind \in Kinds} ELSE {})

Chunk ==
    /\ Output
    /\ \E new \in Parsed : Events!RunEvent(new)
    /\ UNCHANGED <<finishing, runTimeoutTimer>>

(* The child, its pipes and the second signal are silent. *)
ProcessStep ==
    /\ ProcessExits \/ PipesEnd \/ KillTimerFires
    /\ UNCHANGED <<events, finishing, runTimeoutTimer>>

(* failWithDiagnostic and failForInactivity emit an error before the result. *)
RunnerFails ==
    /\ InactivityFires \/ Error
    /\ Events!RunEvent(IF result' # result THEN <<"shown">> ELSE <<>>)
    /\ FinishRun

(* The flushed line, then the diagnosis of a failure. *)
ChildCloses ==
    /\ Close
    /\ \E line \in (IF partialLine THEN Parsed ELSE {<<>>}) :
          Events!RunEvent(line \o (IF result' # result /\ result' = "failed"
                                   THEN <<"shown">> ELSE <<>>))
    /\ FinishRun

(* cancelRun leaves the end to the runner, and clears the run timeout. *)
CancelRun ==
    /\ finishing = "no"
    /\ Cancel
    /\ runTimeoutTimer' = FALSE
    /\ UNCHANGED <<events, finishing>>

(* timeoutRun: an error, cancel() of the runner, and finishRun at once. *)
TimeoutRun ==
    /\ runTimeoutTimer
    /\ Cancel
    /\ Events!RunEvent(<<"shown">>)
    /\ finishing' = "without"
    /\ runTimeoutTimer' = FALSE

(* finishRun: artifact_finalized or an error of the scan, and the end. *)
ArtifactsFinalized ==
    /\ finishing = "with" /\ phase = "live" /\ Len(kinds) < MaxEvents
    /\ Events!RunEvent(<<"shown">>)
    /\ UNCHANGED <<vars, finishing, runTimeoutTimer>>

EndEvent ==
    /\ finishing # "no"
    /\ Events!EndEvent
    /\ UNCHANGED <<vars, finishing, runTimeoutTimer>>

StreamStep ==
    /\ Events!CommitTerminal \/ Events!Cleanup \/ Events!ClientStep
    /\ UNCHANGED <<vars, finishing, runTimeoutTimer>>

StreamNext ==
    \/ FailedSpawn \/ Chunk \/ ProcessStep \/ RunnerFails \/ ChildCloses
    \/ CancelRun \/ TimeoutRun \/ ArtifactsFinalized \/ EndEvent \/ StreamStep

(* Beside the fairness of the process and its timers: the I/O of finishRun *)
(* returns.  Neither the run timeout nor a client need ever act.           *)
StreamFairness ==
    /\ Fairness
    /\ WF_streamVars(FailedSpawn)
    /\ WF_streamVars(EndEvent)

StreamSpec == StreamInit /\ [][StreamNext]_streamVars /\ StreamFairness

-----------------------------------------------------------------------------
(* However often a client reconnects, it receives no event twice and none  *)
(* out of order: replay and live events meet without an overlap.  A shown  *)
(* event it was passed over with was trimmed from the buffer: nothing is   *)
(* lost between the replay and the subscription, or with the connection.   *)
OnlyTrimmedEventsAreMissed == Events!OnlyTrimmedEventsAreMissed

(* Unless the process goes on producing output, a stream that was open      *)
(* while the run was live is ended, however the run comes to its end: the   *)
(* watchdog, the escalation, the runner and finishRun hand on to each       *)
(* other.  And a run that does not go on producing output completes, with   *)
(* its process gone when that was told to stop.                             *)
StreamsEnd ==
    /\ RunsEnd
    /\ \/ []<><<Output>>_vars
       \/ \A c \in Clients : conn[c] = "open" /\ phase = "live" ~> conn[c] # "open"
=============================================================================
