----------------------------- MODULE RpaWorkbench -----------------------------
(***************************************************************************)
(* The flow page of the RPA front end with the verification view it        *)
(* embeds (FlowAssetsWorkspace.tsx, RuntimeVerificationWorkspace.tsx), and *)
(* the server routes they call, for one flow: load, export, import,        *)
(* delete, verify and run.                                                 *)
(*                                                                         *)
(* A request is sent, served and answered in three steps, so that answers  *)
(* come in any order.  Inside the server an import, a deletion and the     *)
(* admission of an execution are one step here (RpaFlows interleaves       *)
(* them); an export reads each file on its own, between the steps of the   *)
(* others.  An instance of the view is named by the start that mounted it: *)
(* its refs outlive it, as the callbacks of late replies do.               *)
(***************************************************************************)
EXTENDS RpaPackages

CONSTANTS
  MaxStarts,   \* executions asked for
  Scenes       \* where a behaviour begins

\* The directory of the flow and its parameters, whether the page shows the flow; the
\* flow, of the same id, whose package the user has from elsewhere, and whether that was
\* put together by hand; and bounds: what the user and the network may do.
Budget == [loads : Nat, starts : 0..MaxStarts, downloads : Nat, edits : Nat,
           deletes : 0..1, reconnects : Nat, modes : SUBSET {"verify", "run"}]
NoFiles == [path \in {} |-> path]
Modes == {"none", "codegen", "nl", "imported"}
Tidy(dir) == DOMAIN dir \cap (Sensitive \cup ToolState \cup UnsafePath \cup Media \cup {Manifest}) = {}
IsScene(scene) ==
  /\ scene.budget \in Budget
  /\ scene.shown \in BOOLEAN
  /\ scene.crafted \in BOOLEAN
  /\ \A files \in {scene.dir, scene.held} :
       /\ "flow.dsl.json" \in DOMAIN files => files["flow.dsl.json"].params = scene.definitions
       /\ Metadata \in DOMAIN files =>
            files[Metadata] \in
              [source : {"generated", "imported"}, mode : Modes, requiresVerify : BOOLEAN]
  /\ Metadata \in DOMAIN scene.dir /\ scene.dir[Metadata].source = "imported" =>
       /\ Required \subseteq DOMAIN scene.dir /\ Tidy(scene.dir)
       /\ ValidateRpaDsl(scene.dir["flow.dsl.json"]) = {}
       /\ scene.dir[Metadata].requiresVerify
  /\ scene.held # NoFiles =>
       /\ Required \subseteq DOMAIN scene.held
       /\ ~scene.crafted => ExportError(scene.held, "f1") = "none"

ASSUME RpaWorkbenchAssumption ==
  /\ MaxStarts \in Nat \ {0}
  /\ \A scene \in Scenes : IsScene(scene)

VARIABLES
  dir,          \* the directory of the flow, without files when there is none
  definitions,  \* the parameters of the flow: no operation changes them
  zip,          \* the package in the hands of the user, and its history: whether it was
                \* edited, and whether the flow was deleted while it was made
  download,     \* the export that is under way: what it has read
  page,         \* the flow the page shows, and its busy flag
  user,         \* the Load, Import, Delete, and load after an import, under way
  reload,       \* the load that the report of a verification began
  view,         \* the mounted instance: flow loaded, busy, values of the form
  refs,         \* of each instance: current execution, seen sequences, subscription,
                \* and the latest load
  start,        \* the requests for executions
  exec,         \* the executions
  sub,          \* the event streams
  reported,     \* history: times a verification was reported to the page
  budget        \* bound: what the user and the network may still do

pageVars == <<dir, definitions, zip, download, page, user, reload, view, refs, start, exec,
              sub, reported, budget>>
Starts == 1..MaxStarts
File(text) == [text |-> text]
With(files, path, content) ==
  [p \in DOMAIN files \cup {path} |-> IF p = path THEN content ELSE files[p]]

NoZip == [there |-> FALSE, edited |-> FALSE, torn |-> FALSE, entries |-> NoFiles]
Package(entries, edited, torn) ==
  [there |-> TRUE, edited |-> edited, torn |-> torn, entries |-> entries]
NoDownload == [pc |-> "none", document |-> NoFiles, generator |-> "none",
               sums |-> NoFiles, contents |-> NoFiles, torn |-> FALSE]
Requests == {"load", "import", "imported", "delete"}
NoRefs == [current |-> 0, seen |-> {}, sub |-> 0, load |-> 0]
NoView == [on |-> 0, loaded |-> FALSE, busy |-> FALSE, values |-> NoParams(definitions)]
NoStart == [pc |-> "none", mode |-> "verify", values |-> NoParams(definitions),
            sent |-> NoParams(definitions), instance |-> 0, code |-> "none", alone |-> TRUE]
NoExec == [pc |-> "none", params |-> NoParams(definitions), outcome |-> "none", marked |-> FALSE,
           events |-> <<>>]
NoSub == [open |-> FALSE, pos |-> 0, high |-> 0]
Idle == [answer |-> "idle", shown |-> FALSE]

\* In the list, and to be had by its id: the DSL is there and valid.
Listed == "flow.dsl.json" \in DOMAIN dir /\ ValidateRpaDsl(dir["flow.dsl.json"]) = {}

GetFlow == IF ~Listed THEN "missing"
           ELSE IF ReadMetadata(dir).requiresVerify THEN "gated" ELSE "ready"

PageInit ==
  /\ \E scene \in Scenes :
       /\ dir = scene.dir /\ definitions = scene.definitions /\ budget = scene.budget
       /\ page = [flow |-> IF scene.shown THEN GetFlow ELSE "none", busy |-> FALSE]
       /\ zip = IF scene.held = NoFiles THEN NoZip
                 ELSE Package(Packaged(scene.held), scene.crafted, FALSE)
  /\ download = NoDownload
  /\ user = [op \in Requests |-> Idle] /\ reload = [s \in Starts |-> "idle"]
  /\ view = NoView /\ refs = [s \in Starts |-> NoRefs]
  /\ start = [s \in Starts |-> NoStart] /\ exec = [s \in Starts |-> NoExec]
  /\ sub = [s \in Starts |-> NoSub] /\ reported = [s \in Starts |-> 0]

-----------------------------------------------------------------------------
(* Routes of flows and packages *)

\* The link of a flow: exportRpaPackage reads the document first.
Export ==
  /\ download.pc = "none" /\ budget.downloads > 0
  /\ ExportError(dir, "f1") = "none"
  /\ download' = [NoDownload EXCEPT !.pc = "metadata", !.document = dir["flow.dsl.json"]]
  /\ budget' = [budget EXCEPT !.downloads = @ - 1]
  /\ UNCHANGED <<dir, definitions, zip, page, user, reload, view, refs, start, exec, sub,
                 reported>>

\* The files are read one after the other, all for their sums and then all again.
Before(path) == {RequiredOrder[i] : i \in {i \in 1..Len(RequiredOrder) :
                   \E j \in 1..Len(RequiredOrder) : i < j /\ RequiredOrder[j] = path}}
NextOf(files, path) == path \in Required \ DOMAIN files /\ Before(path) \subseteq DOMAIN files

\* A file that is gone ends the export.
ReadForExport ==
  /\ \/ /\ download.pc = "metadata"
        /\ download' = [download EXCEPT !.pc = "files", !.generator = Generator(ReadMetadata(dir))]
     \/ /\ download.pc = "files"
        /\ \E path \in Required :
             /\ NextOf(download.sums, path)
             /\ download' = IF path \notin DOMAIN dir THEN NoDownload
                            ELSE [download EXCEPT !.sums = With(@, path, dir[path])]
     \/ /\ download.pc = "files" /\ DOMAIN download.sums = Required
        /\ \E path \in Required :
             /\ NextOf(download.contents, path)
             /\ download' = IF path \notin DOMAIN dir THEN NoDownload
                            ELSE [download EXCEPT !.contents = With(@, path, dir[path])]
  /\ UNCHANGED <<dir, definitions, zip, page, user, reload, view, refs, start, exec, sub,
                 reported, budget>>

\* The other files come last.  The file that is being sent is not replaced meanwhile.
EndExport ==
  /\ download.pc = "files" /\ DOMAIN download.contents = Required
  /\ download' = NoDownload
  /\ IF dir = NoFiles THEN UNCHANGED zip
     ELSE /\ user["import"].answer # "sent"
          /\ zip' = Package(Zipped(BuildManifest(download.document, download.generator,
                                                 download.sums),
                                   download.contents, Collected(dir)), FALSE, download.torn)
  /\ UNCHANGED <<dir, definitions, page, user, reload, view, refs, start, exec, sub,
                 reported, budget>>

Altered(path, content) ==
  CASE path = Manifest        -> {[content EXCEPT !.schema = "rpa-package.v9"],
                                  [content EXCEPT !.name = ""], [content EXCEPT !.flowId = "f2"]}
    [] path = "flow.dsl.json" -> {[content EXCEPT !.title = "Other"]}
    [] OTHER                  -> {File("other")}

\* The file of the user is changed on its way: an entry is lost, altered or added.
\* Bound: not when the flow was replaced while it was made.
EditZip ==
  /\ zip.there /\ ~zip.torn /\ budget.edits > 0 /\ user["import"].answer # "sent"
  /\ \/ \E path \in DOMAIN zip.entries :
          \/ zip' = [zip EXCEPT !.edited = TRUE,
                                !.entries = Restrict(@, DOMAIN @ \ {path})]
          \/ \E content \in Altered(path, zip.entries[path]) :
               zip' = [zip EXCEPT !.edited = TRUE, !.entries[path] = content]
     \/ \E path \in (Others \cup Optional \cup {Metadata}) \ DOMAIN zip.entries :
          zip' = [zip EXCEPT !.edited = TRUE, !.entries = With(@, path, File("other"))]
  /\ budget' = [budget EXCEPT !.edits = @ - 1]
  /\ UNCHANGED <<dir, definitions, download, page, user, reload, view, refs, start, exec, sub,
                 reported>>

-----------------------------------------------------------------------------
(* The page *)

\* unsubscribeRef.current() of an instance
Unsubscribed(subs, i) ==
  IF i = 0 \/ refs[i].sub = 0 THEN subs ELSE [subs EXCEPT ![refs[i].sub].open = FALSE]

Unmounted == view' = NoView /\ sub' = Unsubscribed(sub, view.on)

\* Load, Import and Delete are disabled while the page is busy, which the load after a
\* report may end early.  Bound: one request of each at a time.
Press(op) ==
  /\ user[op].answer = "idle" /\ ~page.busy
  /\ op = "load" => budget.loads > 0 /\ Listed
  /\ op = "import" => zip.there
  /\ op = "delete" => budget.deletes > 0 /\ Listed
  /\ user' = [user EXCEPT ![op] = [answer |-> "sent", shown |-> page.flow # "none"]]
  /\ page' = [page EXCEPT !.busy = TRUE]
  /\ budget' = CASE op = "load"   -> [budget EXCEPT !.loads = @ - 1]
                [] op = "delete" -> [budget EXCEPT !.deletes = @ - 1]
                [] OTHER -> budget
  /\ UNCHANGED <<dir, definitions, zip, download, reload, view, refs, start, exec, sub, reported>>

\* The flow is another one from here on: an export that is under way is torn.
Torn == [download EXCEPT !.torn = @ \/ download.pc # "none"]

Serve(op) ==
  /\ user[op].answer = "sent"
  /\ \/ /\ op \in {"load", "imported"}
        /\ user' = [user EXCEPT ![op].answer = GetFlow] /\ UNCHANGED <<dir, download>>
     \/ /\ op = "import"
        /\ LET error == FirstError(zip.entries, dir # NoFiles)
           IN IF error = "none"
              THEN /\ dir' = ImportRpaPackage(zip.entries) /\ download' = Torn
                   /\ user' = [user EXCEPT ![op].answer = "ok"]
              ELSE UNCHANGED <<dir, download>> /\ user' = [user EXCEPT ![op].answer = error]
     \/ /\ op = "delete"
        /\ dir' = NoFiles /\ download' = Torn
        /\ user' = [user EXCEPT ![op].answer = IF dir = NoFiles THEN "missing" ELSE "ok"]
  /\ UNCHANGED <<definitions, zip, page, reload, view, refs, start, exec, sub, reported, budget>>

\* What loadFlow of the page does with an answer: the view is closed, by the
\* mode or with the flow.
Loaded(answer) ==
  /\ page' = [flow |-> IF answer = "missing" THEN "none" ELSE answer, busy |-> FALSE]
  /\ Unmounted

\* deleteFlow closes the flow that was shown when it was asked for.
Answer(op) ==
  /\ user[op].answer \notin {"idle", "sent"}
  /\ \/ /\ op \in {"load", "imported"}
        /\ Loaded(user[op].answer) /\ user' = [user EXCEPT ![op] = Idle]
     \/ /\ op = "import" /\ user[op].answer = "ok"
        /\ user' = [user EXCEPT ![op] = Idle, !["imported"].answer = "sent"]
        /\ page' = [page EXCEPT !.busy = TRUE]
        /\ UNCHANGED <<view, sub>>
     \/ /\ op = "delete" /\ user[op].answer = "ok" /\ user[op].shown
        /\ Loaded("missing") /\ user' = [user EXCEPT ![op] = Idle]
     \/ /\ \/ op = "import" /\ user[op].answer # "ok"
           \/ op = "delete" /\ (user[op].answer # "ok" \/ ~user[op].shown)
        /\ page' = [page EXCEPT !.busy = FALSE] /\ user' = [user EXCEPT ![op] = Idle]
        /\ UNCHANGED <<view, sub>>
  /\ UNCHANGED <<dir, definitions, zip, download, reload, refs, start, exec, reported, budget>>

\* The load after a report, which no button waits for.
Reload(s) ==
  /\ reload[s] # "idle"
  /\ \/ /\ reload[s] = "sent"
        /\ reload' = [reload EXCEPT ![s] = GetFlow]
        /\ UNCHANGED <<page, view, sub>>
     \/ /\ reload[s] # "sent"
        /\ Loaded(reload[s])
        /\ reload' = [reload EXCEPT ![s] = "idle"]
  /\ UNCHANGED <<dir, definitions, zip, download, user, refs, start, exec, reported, budget>>

-----------------------------------------------------------------------------
(* The verification view: startExecutionRequest *)

InFlight(t) == start[t].pc \in {"loading", "sent", "answered"}

\* A stream of an instance that its ref no longer names: nothing closes it before its end.
Leaks(i) == \E t \in Starts : start[t].instance = i /\ sub[t].open /\ refs[i].sub # t

\* What the client makes of the values: refused by the form, or sent.
Submitted(request) ==
  LET results == NormalizeRuntimeParams(definitions, request.values)
  IN IF Accepted(results)
     THEN [request EXCEPT !.pc = "sent", !.sent = Normalized(results)]
     ELSE [request EXCEPT !.pc = "done", !.code = "form"]

\* History: the requests in flight with this one.
Beside(i) == {t \in Starts : InFlight(t) /\ start[t].instance = i}

\* The request of instance i, whose refs are reset to old before anything is awaited.
Begin(s, i, mode, values, old) ==
  LET request == [NoStart EXCEPT !.pc = "loading", !.mode = mode, !.values = values,
                                 !.instance = i, !.alone = Beside(i) = {} /\ ~Leaks(i)]
      loads   == ~(view.on = i /\ view.loaded)
      result  == IF loads THEN request ELSE Submitted(request)
  IN /\ budget.starts > 0 /\ mode \in budget.modes
     /\ budget' = [budget EXCEPT !.starts = @ - 1]
     /\ start' = [t \in Starts |-> IF t = s THEN result
                                   ELSE IF t \in Beside(i) THEN [start[t] EXCEPT !.alone = FALSE]
                                   ELSE start[t]]
     /\ refs' = [refs EXCEPT ![i] = [old EXCEPT !.load = IF loads THEN s ELSE refs[i].load]]
     /\ sub' = Unsubscribed(sub, i)

\* Mutant: the numbers of the events seen are kept for the next execution.
StartExecutionRequestSeen(s, i, mode, values) ==
  Begin(s, i, mode, values, [NoRefs EXCEPT !.seen = refs[i].seen])

StartExecutionRequest(s, i, mode, values) == Begin(s, i, mode, values, NoRefs)

NextStart == MaxStarts - budget.starts + 1

\* Verify flow, Run flow: no busy flag is asked; the view is mounted, or gets
\* the request as it is.
StartFlowExecution(mode) ==
  /\ page.flow # "none" /\ (mode = "run" => page.flow = "ready")
  /\ LET s == NextStart
         i == IF view.on = 0 THEN s ELSE view.on
     IN /\ StartExecutionRequest(s, i, mode, NoParams(definitions))
        /\ view' = [view EXCEPT !.on = i, !.values = NoParams(definitions),
                                !.busy = start'[s].pc # "done"]
  /\ UNCHANGED <<dir, definitions, zip, download, page, user, reload, exec, reported>>

\* Start of the control bar, with the values of the form.
StartExecution(mode) ==
  /\ view.on # 0 /\ ~view.busy
  /\ StartExecutionRequest(NextStart, view.on, mode, view.values)
  /\ view' = [view EXCEPT !.busy = start'[NextStart].pc # "done"]
  /\ UNCHANGED <<dir, definitions, zip, download, page, user, reload, exec, reported>>

UpdateRuntimeParam(p) ==
  /\ view.on # 0 /\ view.loaded
  /\ \E value \in Control(definitions[p]) : view' = [view EXCEPT !.values[p] = value]
  /\ UNCHANGED <<dir, definitions, zip, download, page, user, reload, refs, start, exec, sub,
                 reported, budget>>

\* The instance that asked, when it is still mounted.
Shown(s) == view.on = start[s].instance

\* loadFlow of the view, whose latest reply alone sets the flow: the form shows the
\* defaults when one appears.
LoadFlow(s) ==
  /\ start[s].pc = "loading"
  /\ LET found  == GetFlow # "missing"
         latest == refs[start[s].instance].load = s
         result == IF found THEN Submitted(start[s])
                   ELSE [start[s] EXCEPT !.pc = "done", !.code = "missing"]
     IN /\ start' = [start EXCEPT ![s] = result]
        /\ view' = IF ~Shown(s) THEN view
                   ELSE [view EXCEPT !.loaded = IF latest THEN found ELSE @,
                                     !.busy = @ /\ result.pc # "done",
                                     !.values = IF latest /\ found
                                                THEN DefaultValues(definitions) ELSE @]
  /\ UNCHANGED <<dir, definitions, zip, download, page, user, reload, refs, exec, sub, reported, budget>>

\* The reply: the callbacks run in the instance that asked, mounted or not.
StartAnswered(s) ==
  /\ start[s].pc = "answered"
  /\ start' = [start EXCEPT ![s].pc = "done"]
  /\ IF start[s].code = "ok"
     THEN /\ refs' = [refs EXCEPT ![start[s].instance].current = s,
                                  ![start[s].instance].sub = s]
          /\ sub' = [sub EXCEPT ![s].open = TRUE]
     ELSE UNCHANGED <<refs, sub>>
  /\ view' = IF Shown(s) THEN [view EXCEPT !.busy = FALSE] ELSE view
  /\ UNCHANGED <<dir, definitions, zip, download, page, user, reload, exec, reported, budget>>

-----------------------------------------------------------------------------
(* The executor, seen from its routes *)

AdmissionCode(s) ==
  IF ~(Required \subseteq DOMAIN dir) THEN "FLOW_ARTIFACT_MISSING"
  ELSE IF ~Listed THEN "DSL_VALIDATION_FAILED"
  ELSE IF ~Accepted(NormalizeRuntimeParams(definitions, start[s].sent)) THEN "PARAMS_INVALID"
  ELSE IF start[s].mode = "run" /\ ReadMetadata(dir).requiresVerify THEN "FLOW_VERIFY_REQUIRED"
  ELSE "ok"

\* The checks of start, in their order, the record of the execution and the first
\* event of its task.
Admit(s) ==
  /\ start[s].pc = "sent"
  /\ start' = [start EXCEPT ![s].pc = "answered", ![s].code = AdmissionCode(s)]
  /\ exec' = IF AdmissionCode(s) # "ok" THEN exec
             ELSE [exec EXCEPT ![s].pc = "running", ![s].events = <<"run.started">>,
                    ![s].params = Normalized(NormalizeRuntimeParams(definitions, start[s].sent))]
  /\ UNCHANGED <<dir, definitions, zip, download, page, user, reload, view, refs, sub, reported, budget>>

\* Mutant: the flow is marked when the end of the execution is already told.
RunUnmarked(s) ==
  /\ \/ /\ exec[s].pc = "running"
        /\ exec' = [exec EXCEPT ![s].pc = "done", ![s].outcome = "succeeded", ![s].marked = TRUE,
                                ![s].events = Append(@, "run.completed")]
        /\ UNCHANGED dir
     \/ /\ exec[s].pc = "done" /\ Metadata \in DOMAIN dir
        /\ exec' = [exec EXCEPT ![s].pc = "marked"]
        /\ dir' = [dir EXCEPT ![Metadata].requiresVerify = FALSE]
  /\ UNCHANGED <<definitions, zip, download, page, user, reload, view, refs, start, sub, reported, budget>>

\* The end of the process: a verification that succeeded
\* clears the flow, or leaves a line in the log; then run.completed.
Run(s) ==
  /\ \/ /\ exec[s].pc = "running"
        /\ \E outcome \in {"succeeded", "failed"} :
             IF outcome = "succeeded" /\ start[s].mode = "verify"
             THEN \E marked \in BOOLEAN :
                    /\ exec' = [exec EXCEPT ![s].pc = "ending", ![s].outcome = outcome,
                                 ![s].marked = marked,
                                 ![s].events = IF marked THEN @ ELSE Append(@, "log")]
                    /\ dir' = IF ~marked THEN dir
                              ELSE With(dir, Metadata,
                                        [ReadMetadata(dir) EXCEPT !.requiresVerify = FALSE])
             ELSE /\ exec' = [exec EXCEPT ![s].pc = "ending", ![s].outcome = outcome]
                  /\ UNCHANGED dir
     \/ /\ exec[s].pc = "ending"
        /\ exec' = [exec EXCEPT ![s].pc = "done", ![s].events = Append(@, "run.completed")]
        /\ UNCHANGED dir
  /\ UNCHANGED <<definitions, zip, download, page, user, reload, view, refs, start, sub, reported, budget>>

-----------------------------------------------------------------------------
(* The event streams *)

\* A stream that broke is opened again and sends its history first.
Reconnect(s) ==
  /\ sub[s].open /\ sub[s].pos > 0 /\ budget.reconnects > 0
  /\ sub' = [sub EXCEPT ![s].pos = 0]
  /\ budget' = [budget EXCEPT !.reconnects = @ - 1]
  /\ UNCHANGED <<dir, definitions, zip, download, page, user, reload, view, refs, start, exec, reported>>

\* Whether run.completed of s is reported by instance i.
Reports(s, i) ==
  /\ exec[s].outcome = "succeeded"
  /\ refs[i].current = s /\ start[s].mode = "verify"

\* The event of position pos + 1 goes to the handler unless this stream or this
\* instance had one of that number.
Deliver(s) ==
  LET i     == start[s].instance
      seq   == sub[s].pos + 1
      event == exec[s].events[seq]
      fresh == seq > sub[s].high /\ seq \notin refs[i].seen
      report == fresh /\ event = "run.completed" /\ Reports(s, i)
      read  == [sub EXCEPT ![s].pos = seq, ![s].high = IF seq > @ THEN seq ELSE @,
                           ![s].open = event # "run.completed"]
  IN /\ sub[s].open /\ sub[s].pos < Len(exec[s].events)
     /\ refs' = IF seq > sub[s].high THEN [refs EXCEPT ![i].seen = @ \cup {seq}] ELSE refs
     \* onVerifySucceeded closes the view and loads the flow
     /\ IF report
        THEN /\ reported' = [reported EXCEPT ![s] = @ + 1]
             /\ reload' = [reload EXCEPT ![s] = "sent"]
             /\ page' = [page EXCEPT !.busy = TRUE]
             /\ view' = NoView /\ sub' = Unsubscribed(read, view.on)
        ELSE sub' = read /\ UNCHANGED <<reported, reload, page, view>>
     /\ UNCHANGED <<dir, definitions, zip, download, user, start, exec, budget>>

-----------------------------------------------------------------------------
Client ==
  \/ \E op \in Requests : Answer(op)
  \/ \E s \in Starts : Reload(s) \/ LoadFlow(s) \/ StartAnswered(s) \/ Deliver(s)
Server ==
  \/ \E op \in Requests : Serve(op)
  \/ ReadForExport \/ EndExport
  \/ \E s \in Starts : Admit(s) \/ Run(s)
User ==
  \/ Export \/ EditZip
  \/ \E op \in {"load", "import", "delete"} : Press(op)
  \/ \E mode \in {"verify", "run"} : StartFlowExecution(mode) \/ StartExecution(mode)
  \/ \E p \in DOMAIN definitions : UpdateRuntimeParam(p)
PageNext == Client \/ Server \/ User \/ \E s \in Starts : Reconnect(s)

\* The open streams deliver what there is; nothing else has to happen.
PageFairness == WF_pageVars(\E s \in Starts : Deliver(s))
PageSpec == PageInit /\ [][PageNext]_pageVars /\ PageFairness

-----------------------------------------------------------------------------
\* A package that was exported and not edited is accepted where there is no flow of its
\* id, whatever lay beside the flow, when the flow stayed while it was read and the route
\* takes its size; and whatever was imported, from any package, has a valid document and
\* every required file of one flow as it was there, also out of an export whose flow was
\* replaced halfway, nothing secret and nothing of a tool, and is cleared only by a
\* verification.
PackagesRoundTrip ==
  /\ zip.there /\ ~zip.edited /\ ~zip.torn /\ ~TooLarge(zip.entries) =>
       FirstError(zip.entries, FALSE) = "none"
  /\ ReadMetadata(dir).source = "imported" =>
       /\ Required \subseteq DOMAIN dir /\ Tidy(dir) /\ Listed
       /\ \E scene \in Scenes : \E files \in {scene.dir, scene.held} :
            /\ Required \subseteq DOMAIN files
            /\ \A path \in Required : dir[path] = files[path]
       /\ ReadMetadata(dir).requiresVerify \/ \E s \in Starts : exec[s].marked

\* The user emptied a field and its default does not pass: the form takes the empty
\* field for no value, the server takes the default for it.
EmptiedForBadDefault(s) ==
  \E p \in DOMAIN definitions :
    /\ start[s].values[p] = Str("")
    /\ ~NormalizeOneParam(definitions[p], definitions[p].default).ok

\* An execution runs with what each control showed when it was asked for.  A control
\* that showed nothing, be it a field without text or a box without its mark, stands for
\* the default, even one that it cannot show, unless the box holds false; and what the
\* form let through the server does not refuse for its parameters, but for a default that
\* is not acceptable itself.
RunsWhatTheFormShows ==
  \A s \in Starts :
    /\ start[s].code = "PARAMS_INVALID" => EmptiedForBadDefault(s)
    /\ exec[s].pc # "none" =>
         \A p \in DOMAIN definitions :
           LET shown == Shows(definitions[p], start[s].values[p])
           IN exec[s].params[p].text =
                IF shown # "" THEN shown
                ELSE IF start[s].values[p] = Bool("false") THEN "false"
                ELSE definitions[p].default.text

\* The execution of the mounted instance.
Current(s) == Shown(s) /\ view.on # 0 /\ refs[view.on].current = s
Succeeded(s) == exec[s].pc = "done" /\ exec[s].outcome = "succeeded" /\ start[s].mode = "verify"

\* The page is told of a verification once, only after it succeeded and with the
\* flow already cleared, unless that failed or the flow was deleted meanwhile:
\* not by a reconnection, which sends the end again, nor of another execution.
ReportsAreEarned ==
  \A s \in Starts :
    reported[s] # 0 =>
      /\ reported[s] = 1 /\ Succeeded(s)
      /\ exec[s].marked /\ budget.deletes > 0 => ~ReadMetadata(dir).requiresVerify

\* It is told of each that the view still shows, when no other request of that view was in
\* flight together with it and none had left a stream open, whose events take the numbers
\* of the next one's: reconnections hide none.
VerificationIsReported ==
  \A s \in Starts :
    Succeeded(s) /\ Current(s) /\ start[s].alone ~> reported[s] = 1 \/ ~Current(s)
=============================================================================
