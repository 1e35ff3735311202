------------------------------ MODULE RunFiles ------------------------------
(***************************************************************************)
(* What one run leaves to be looked at: its logs, its artifacts, and the   *)
(* review bundle that is put together from them while the run may still be *)
(* under way.  startRun and finishRun are separate sequences of steps: a   *)
(* run can be finished while it is being started.                          *)
(*                                                                         *)
(* The state of the run itself, its timers and the runner are those of     *)
(* RunLifecycle and CliRunner; here they are reduced to who finishes the   *)
(* run, with which status, and whether the child may still be writing.     *)
(* Sanitizing and the layout of the bundle are left out.                   *)
(***************************************************************************)
EXTENDS RunLogs, Uploads

CONSTANTS
  MaxOutput,  \* bound: bytes of output, over all logs
  MaxFaults,  \* bound: failed writes and scans
  BundleLayout,          \* the bytes of a bundle that are the same in all
  MaxReviewBundleBytes

ASSUME RunFilesAssumption ==
  /\ MaxOutput \in Nat /\ MaxFaults \in Nat
  /\ BundleLayout \in Nat /\ MaxReviewBundleBytes \in Nat

\* In the order the bundle reads them; stderr is as stdout.
Logs  == <<"stdout", "debug-events">>
Kinds == ToSet(Logs)

Ended == {"succeeded", "failed", "canceled", "interrupted"}

VARIABLES
  start,    \* startRun: "opening", "storing", "opened", "spawned", "returned"
  finish,   \* finishRun: [pc, status (to be committed), scanned, rules (still to be scanned)]
  row,      \* status of the run in the database
  child,    \* "none", "alive", "dying" (told to stop), "gone"
  handle,   \* state.logHandle is set
  sink,     \* the runner has the handle
  stored,   \* run_logs has the paths
  output,   \* per log: the bytes the child has put out so far
  writer,   \* per log
  closing,  \* per log: the operations close waits for, and the output they stand for
  closed,   \* "no", "whole" (close answered), "warned"
  artifacts,\* rows of artifacts
  bundle,   \* the review bundle: [next, status, missing, logs, artifacts, size]
  faults

vars == <<start, finish, row, child, handle, sink, stored, output, writer, closing, closed,
          uploadVars, artifacts, bundle, faults>>

NoBundle == [next |-> 0, status |-> "running", missing |-> {},
             logs |-> [k \in Kinds |-> <<>>], artifacts |-> {}, size |-> 0]

Init ==
  /\ start = "opening"
  /\ finish = [pc |-> "no", status |-> "running", scanned |-> {}, rules |-> Rules]
  /\ row = "running"
  /\ child = "none"
  /\ handle = FALSE /\ sink = FALSE /\ stored = FALSE
  /\ output = [k \in Kinds |-> <<>>]
  /\ writer = [k \in Kinds |-> NewWriter]
  /\ closing = [k \in Kinds |-> [queued |-> 0, output |-> <<>>]]
  /\ closed = "no"
  /\ UploadInit
  /\ artifacts = {}
  /\ bundle = NoBundle
  /\ faults = 0

Fault == faults < MaxFaults /\ faults' = faults + 1

-----------------------------------------------------------------------------
(* startRun *)

\* The files are there, empty, before the row that names them.
OpenRunLogs ==
  /\ start = "opening"
  /\ start' = "storing"
  /\ UNCHANGED <<finish, row, child, handle, sink, stored, output, writer, closing, closed,
                 uploadVars, artifacts, bundle, faults>>

UpsertRunLogPaths ==
  /\ start = "storing"
  /\ start' = "opened"
  /\ stored' = TRUE
  /\ handle' = TRUE
  /\ UNCHANGED <<finish, row, child, sink, output, writer, closing, closed, uploadVars, artifacts,
                 bundle, faults>>

\* Only a run that is terminal is not spawned, one that is being finished is.
Spawn ==
  /\ start = "opened"
  /\ IF row \in Ended
     THEN start' = "returned" /\ UNCHANGED <<child, sink>>
     ELSE start' = "spawned" /\ child' = "alive" /\ sink' = handle
  /\ UNCHANGED <<finish, row, handle, stored, output, writer, closing, closed, uploadVars, artifacts,
                 bundle, faults>>

-----------------------------------------------------------------------------
(* The child and the logs *)

Running == child \in {"alive", "dying"}

Output(k, size) ==
  /\ Running /\ Len(output[Logs[1]]) + Len(output[Logs[2]]) + size <= MaxOutput
  /\ LET chunk == [i \in 1..size |-> Len(output[k]) + i] IN
     /\ output' = [output EXCEPT ![k] = @ \o chunk]
     /\ writer' = IF sink THEN [writer EXCEPT ![k] = AppendChunk(@, chunk)] ELSE writer
  /\ UNCHANGED <<start, finish, row, child, handle, sink, stored, closing, closed, uploadVars,
                 artifacts, bundle, faults>>

WriteLog(k) ==
  /\ writer[k].queue # <<>>
  /\ \/ writer' = [writer EXCEPT ![k] = WriteHead(@)] /\ UNCHANGED faults
     \/ Fault /\ \E w \in WriteHeadFails(writer[k]) : writer' = [writer EXCEPT ![k] = w]
  /\ UNCHANGED <<start, finish, row, child, handle, sink, stored, output, closing, closed, uploadVars,
                 artifacts, bundle>>

WriteFile(f) ==
  /\ Running /\ f \notin disk
  /\ disk' = disk \cup {f}
  /\ UNCHANGED <<start, finish, row, child, handle, sink, stored, output, writer, closing,
                 closed, upload, temp, artifacts, bundle, faults>>

-----------------------------------------------------------------------------
(* finishRun *)

\* A run is finished once.
Finish(status, finalizeArtifacts) ==
  finish' = IF finish.pc # "no" THEN finish
            ELSE [finish EXCEPT !.status = status,
                                !.pc = IF finalizeArtifacts THEN "scan" ELSE "close"]

\* The child is closed: completed, and what finishes the run with it.
ChildCloses ==
  /\ Running
  /\ child' = "gone"
  /\ \/ child = "dying" /\ Finish("canceled", FALSE)
     \/ child = "alive" /\ \E status \in {"succeeded", "failed"} : Finish(status, TRUE)
  /\ UNCHANGED <<start, row, handle, sink, stored, output, writer, closing, closed, uploadVars,
                 artifacts, bundle, faults>>

\* With a runner it is the runner that is stopped, without one the run ends here.
CancelRun ==
  /\ finish.pc = "no" /\ child # "gone"
  /\ IF child = "none" THEN Finish("canceled", FALSE) /\ UNCHANGED child
     ELSE child' = "dying" /\ UNCHANGED finish
  /\ UNCHANGED <<start, row, handle, sink, stored, output, writer, closing, closed, uploadVars,
                 artifacts, bundle, faults>>

\* The run timeout ("failed") or the end of the grace of a shutdown: the run does not wait
\* for its child.
StopRun ==
  /\ finish.pc = "no"
  /\ \E status \in {"failed", "interrupted"} :
       /\ status = "failed" => start \in {"opened", "spawned"}
       /\ Finish(status, FALSE)
  /\ child' = IF Running THEN "dying" ELSE child
  /\ UNCHANGED <<start, row, handle, sink, stored, output, writer, closing, closed, uploadVars,
                 artifacts, bundle, faults>>

\* Rule by rule.
ScanArtifacts ==
  /\ finish.pc = "scan" /\ finish.rules # {}
  /\ LET rule == CHOOSE r \in finish.rules : \A q \in finish.rules : r <= q IN
     finish' = [finish EXCEPT !.rules = @ \ {rule},
                              !.scanned = @ \cup Matches(rule, disk)]
  /\ UNCHANGED <<start, row, child, handle, sink, stored, output, writer, closing, closed,
                 uploadVars, artifacts, bundle, faults>>

\* In one transaction.
ReplaceArtifactsForRun(selected) == artifacts' = selected

\* A success without what is required is none.
FinalizeRunArtifacts ==
  /\ finish.pc = "scan" /\ finish.rules = {}
  /\ ReplaceArtifactsForRun(SelectHighestPriorityArtifacts(finish.scanned))
  /\ finish' = [finish EXCEPT !.pc = "close",
                              !.status = IF @ = "succeeded" /\ MissingRequired(finish.scanned) # {}
                                         THEN "failed" ELSE @]
  /\ UNCHANGED <<start, row, child, handle, sink, stored, output, writer, closing, closed,
                 uploadVars, bundle, faults>>

ArtifactScanFails ==
  /\ finish.pc = "scan" /\ Fault
  /\ finish' = [finish EXCEPT !.pc = "close", !.status = "failed"]
  /\ UNCHANGED <<start, row, child, handle, sink, stored, output, writer, closing, closed,
                 uploadVars, artifacts, bundle>>

\* Mutant: what is queued is not waited for.
CloseNow ==
  /\ finish.pc = "close"
  /\ finish' = [finish EXCEPT !.pc = IF handle THEN "closing" ELSE "end"]
  /\ closing' = [k \in Kinds |-> [queued |-> 0, output |-> output[k]]]
  /\ UNCHANGED <<start, row, child, handle, sink, stored, output, writer, closed, uploadVars,
                 artifacts, bundle, faults>>

\* closeRunLogHandle waits for what has been queued by now.
CloseRunLogHandle ==
  /\ finish.pc = "close"
  /\ finish' = [finish EXCEPT !.pc = IF handle THEN "closing" ELSE "end"]
  /\ closing' = [k \in Kinds |-> [queued |-> writer[k].queued, output |-> output[k]]]
  /\ UNCHANGED <<start, row, child, handle, sink, stored, output, writer, closed, uploadVars,
                 artifacts, bundle, faults>>

\* A write that has failed, or the timeout, makes a warning of it.
LogsClosed ==
  /\ finish.pc = "closing"
  /\ \/ /\ \A k \in Kinds : writer[k].done >= closing[k].queued
        /\ closed' = IF \E k \in Kinds : writer[k].failed THEN "warned" ELSE "whole"
        /\ UNCHANGED faults
     \/ closed' = "warned" /\ Fault
  /\ handle' = FALSE
  /\ finish' = [finish EXCEPT !.pc = "end"]
  /\ UNCHANGED <<start, row, child, sink, stored, output, writer, closing, uploadVars, artifacts, bundle>>

\* After the end event and the last write of the messages.
CommitTerminal ==
  /\ finish.pc = "end"
  /\ row' = finish.status
  /\ finish' = [finish EXCEPT !.pc = "done"]
  /\ UNCHANGED <<start, child, handle, sink, stored, output, writer, closing, closed, uploadVars,
                 artifacts, bundle, faults>>

\* What was queued is lost with the daemon; the next one interrupts the run.
Crash ==
  /\ row \notin Ended /\ Fault
  /\ row' = "interrupted"
  /\ start' = "returned"
  /\ finish' = [finish EXCEPT !.pc = "done"]
  /\ child' = IF child = "none" THEN "none" ELSE "gone"
  /\ handle' = FALSE /\ sink' = FALSE
  /\ writer' = [k \in Kinds |-> [writer[k] EXCEPT !.queue = <<>>]]
  /\ closed' = IF closed = "whole" THEN "whole" ELSE "warned"
  /\ bundle' = NoBundle
  /\ RestartUploads
  /\ UNCHANGED <<stored, output, closing, artifacts>>

-----------------------------------------------------------------------------
(* The workspace *)

\* bound: no upload goes on beside a review bundle, which reads nothing an upload writes.
NoBundleYet == bundle.next = 0

Upload ==
  /\ NoBundleYet
  /\ \/ CreateUploadDirectory \/ ReceiveFails \/ PrepareUploadedWorkspaceFile
     \/ CleanupUploadPath
  /\ UNCHANGED <<start, finish, row, child, handle, sink, stored, output, writer, closing,
                 closed, artifacts, bundle, faults>>

UploadFails ==
  /\ CleanupFails /\ Fault
  /\ UNCHANGED <<start, finish, row, child, handle, sink, stored, output, writer, closing,
                 closed, artifacts, bundle>>

-----------------------------------------------------------------------------
(* createRunReviewBundle *)

\* Mutant: the run itself is read after its files.
BundleDetailLast ==
  /\ (bundle.next = 0 /\ upload.pc = "idle") \/ bundle.next = Len(Logs) + 2
  /\ bundle' = [bundle EXCEPT !.next = @ + 1, !.status = row]
  /\ UNCHANGED <<start, finish, row, child, handle, sink, stored, output, writer, closing,
                 closed, uploadVars, artifacts, faults>>

BundleDetail ==
  /\ bundle.next = 0 /\ upload.pc = "idle"
  /\ bundle' = [bundle EXCEPT !.next = 1, !.status = row]
  /\ UNCHANGED <<start, finish, row, child, handle, sink, stored, output, writer, closing,
                 closed, uploadVars, artifacts, faults>>

\* The file that the row of run_logs names, if there is one.
RunLogDownload(k) == IF stored THEN {writer[k].file} ELSE {}

\* A log that is not there is reported missing.
BundleLog ==
  /\ bundle.next \in DOMAIN Logs
  /\ LET k == Logs[bundle.next] IN
     \/ \E file \in RunLogDownload(k) :
          bundle' = [bundle EXCEPT !.next = @ + 1, !.logs[k] = file]
     \/ /\ RunLogDownload(k) = {}
        /\ bundle' = [bundle EXCEPT !.next = @ + 1, !.missing = @ \cup {k}]
  /\ UNCHANGED <<start, finish, row, child, handle, sink, stored, output, writer, closing,
                 closed, uploadVars, artifacts, faults>>

\* All of the run, whatever their role.
ListArtifactsForRun == artifacts

\* The entries a bundle is packed from, by their paths.  (Those that only repeat what is
\* stored with the run since its creation are part of BundleLayout.)
BundleEntries(b) ==
  [manifest    |-> b.status,
   artifacts   |-> b.artifacts,
   diagnostics |-> [missing |-> b.missing, size |-> b.size],
   logs        |-> [k \in Kinds \ b.missing |-> b.logs[k]]]

\* bound: sizes of ten digits
Powers == {1, 10, 100, 1000, 10000, 100000, 1000000, 10000000, 100000000, 1000000000}
Digits(n) == Cardinality({p \in Powers : p <= n \/ p = 1})

LogBytes(entries, k) == IF k \in DOMAIN entries.logs THEN Len(entries.logs[k]) ELSE 0

CalculateEntryContentByteCount(entries) ==
  BundleLayout + LogBytes(entries, Logs[1]) + LogBytes(entries, Logs[2])
    + Cardinality(entries.artifacts) + Cardinality(entries.diagnostics.missing)
    + Digits(entries.diagnostics.size)

\* The size is written into one of the entries it is the size of: five attempts.
Attempt(b) == [b EXCEPT !.size = CalculateEntryContentByteCount(BundleEntries(b))]
FinalizeDiagnosticsEntry(b) == Attempt(Attempt(Attempt(Attempt(Attempt(b)))))

TooLarge(b) == CalculateEntryContentByteCount(BundleEntries(b)) > MaxReviewBundleBytes

\* A bundle that is too large is refused: nothing of it is sent.
BundleRows ==
  /\ bundle.next = Len(Logs) + 1
  /\ LET packed == FinalizeDiagnosticsEntry([bundle EXCEPT !.next = @ + 1,
                                                    !.artifacts = ListArtifactsForRun])
     IN bundle' = IF TooLarge(packed) THEN NoBundle ELSE packed
  /\ UNCHANGED <<start, finish, row, child, handle, sink, stored, output, writer, closing,
                 closed, uploadVars, artifacts, faults>>

Next ==
  \/ OpenRunLogs \/ UpsertRunLogPaths \/ Spawn
  \/ \E k \in Kinds : WriteLog(k) \/ \E size \in 1..2 : Output(k, size)
  \/ \E f \in Files : WriteFile(f)
  \/ ChildCloses \/ CancelRun \/ StopRun
  \/ ScanArtifacts \/ FinalizeRunArtifacts \/ ArtifactScanFails
  \/ CloseRunLogHandle \/ LogsClosed \/ CommitTerminal \/ Crash
  \/ Upload \/ UploadFails
  \/ BundleDetail \/ BundleLog \/ BundleRows

Spec == Init /\ [][Next]_vars

-----------------------------------------------------------------------------
(* A log that was closed without a warning holds all the run had put out    *)
(* by then, cut at the limit and marked as cut; no log ever grows beyond    *)
(* its limit, however far its queue is behind.                              *)
ClosedLogsAreWhole ==
  \A k \in Kinds :
    /\ Cardinality({i \in DOMAIN writer[k].file : writer[k].file[i] # Marker}) <= MaxLogBytes
    /\ closed = "whole" => IsPrefix(Bounded(closing[k].output), writer[k].file)

(* A review bundle names its own size and, where it calls the run ended,    *)
(* has the artifacts the run ended with and, unless a warning tells         *)
(* otherwise, everything its logs held when it did.                         *)
BundleOfEndedRunIsFinal ==
  LET entries == BundleEntries(bundle) IN
  bundle.next > Len(Logs) + 1 =>
    /\ entries.diagnostics.size = CalculateEntryContentByteCount(entries)
    /\ entries.manifest \in Ended =>
         /\ entries.artifacts = artifacts
         /\ closed = "whole" =>
              \A k \in Kinds : /\ k \in DOMAIN entries.logs
                               /\ IsPrefix(Bounded(closing[k].output), entries.logs[k])

(* A run that succeeded lists, for each rule it had to satisfy, a file that *)
(* does, under this rule or one that outranks it.                           *)
SuccessShowsTheRequired ==
  row = "succeeded" =>
    \A r \in Required : \E a \in artifacts :
      a.file \in Pattern[r] /\ Priority[a.rule] >= Priority[r]

(* Whatever becomes of an upload, its temporary directory goes with it,     *)
(* unless the daemon dies or the removal fails.                             *)
UploadsLeaveNothing ==
  /\ "mine" \in temp => upload.pc # "idle"
  /\ "left" \in temp => faults > 0
=============================================================================
