------------------------------- MODULE Uploads -------------------------------
(***************************************************************************)
(* POST /api/workspaces/:workspaceId/files: one upload at a time, through  *)
(* its temporary directory into the workspace, and the pruning of what a   *)
(* daemon that died has left in uploads/tmp.  Nothing keeps an upload from *)
(* a workspace in which a run is under way, and what it brings may be      *)
(* what an artifact rule looks for.                                        *)
(***************************************************************************)
EXTENDS Naturals, Artifacts

CONSTANT MaxUploads   \* bound

VARIABLES
  upload,   \* [pc, error (an error will be answered), count]
  temp,     \* temporary directories: of this upload ("mine"), of earlier ones ("left")
  disk      \* files of the workspace

uploadVars == <<upload, temp, disk>>

UploadInit ==
  /\ upload = [pc |-> "idle", error |-> FALSE, count |-> 0]
  /\ temp = {}
  /\ disk = {}

\* multer makes the directory before the file arrives.
CreateUploadDirectory ==
  /\ upload.pc = "idle" /\ upload.count < MaxUploads
  /\ upload' = [pc |-> "receiving", error |-> FALSE, count |-> upload.count + 1]
  /\ temp' = temp \cup {"mine"}
  /\ UNCHANGED disk

\* Too large, more than one file, or the connection breaks.
ReceiveFails ==
  /\ upload.pc = "receiving"
  /\ upload' = [upload EXCEPT !.pc = "cleaning", !.error = TRUE]
  /\ UNCHANGED <<temp, disk>>

CopyFileIntoWorkspace(f) == disk' = disk \cup {f}

\* The fields, the workspace, the access and the target are refused, or the file is copied.
PrepareUploadedWorkspaceFile ==
  /\ upload.pc = "receiving"
  /\ \/ \E f \in Files : CopyFileIntoWorkspace(f) /\ upload' = [upload EXCEPT !.pc = "cleaning"]
     \/ upload' = [upload EXCEPT !.pc = "cleaning", !.error = TRUE] /\ UNCHANGED disk
  /\ UNCHANGED temp

\* Mutant: nothing is removed after an error.
RemoveAfterSuccess ==
  /\ upload.pc = "cleaning"
  /\ temp' = IF upload.error THEN temp ELSE temp \ {"mine"}
  /\ upload' = [upload EXCEPT !.pc = "idle"]
  /\ UNCHANGED disk

\* cleanupUploadPath, on every path.
CleanupUploadPath ==
  /\ upload.pc = "cleaning"
  /\ temp' = temp \ {"mine"}
  /\ upload' = [upload EXCEPT !.pc = "idle"]
  /\ UNCHANGED disk

\* The directory stays; what was copied is answered as an error.
CleanupFails ==
  /\ upload.pc = "cleaning"
  /\ temp' = {"left"}
  /\ upload' = [upload EXCEPT !.pc = "idle", !.error = TRUE]
  /\ UNCHANGED disk

\* The daemon dies and is started again: what is older than the retention is pruned.
RestartUploads ==
  /\ upload' = [upload EXCEPT !.pc = "idle", !.error = TRUE]
  /\ \/ temp' = {}
     \/ temp' = IF temp = {} THEN {} ELSE {"left"}
  /\ UNCHANGED disk
=============================================================================
