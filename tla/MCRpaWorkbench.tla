--------------------------- MODULE MCRpaWorkbench ---------------------------
(* RpaWorkbench on samples of flows, packages and parameters. *)
EXTENDS RpaWorkbench

CONSTANTS MaxReconnects   \* times an event stream is opened again

Generated(mode) == [source |-> "generated", mode |-> mode, requiresVerify |-> FALSE]

Step(css) ==
  [id |-> "open", named |-> TRUE, action |-> "click", hasWrite |-> TRUE,
   manual |-> "none", target |-> [by |-> "css", css |-> css], assert |-> "absent"]
Document(flowId, params, css) ==
  [version |-> "rpa-dsl.v0.1", flow_id |-> flowId, title |-> "Flow", params |-> params,
   hasContext |-> TRUE, steps |-> <<Step(css)>>]

Flow(document, others) ==
  [path \in Required \cup others |->
     CASE path = "flow.dsl.json" -> document
       [] path = Metadata -> Generated("nl")
       [] OTHER -> File(path)]

NoDefinitions == [p \in {} |-> p]
Plain == Document("f1", NoDefinitions, <<"#", "a">>)
NumericId == Document("f1", NoDefinitions, <<"a", "#", "7">>)
QuotedId  == Document("f1", NoDefinitions, <<"[", "'", "#", "7", "'", "]">>)

Definition(type, required, default, options) ==
  [type |-> type, required |-> required, default |-> default, options |-> options,
   hasOptions |-> options # {}]
DefinitionSamples ==
  {Definition("string", FALSE, Str("red"), {}), Definition("secret", TRUE, Undefined, {}),
   Definition("number", TRUE, Num("7"), {}),    Definition("boolean", FALSE, Str("true"), {}),
   Definition("boolean", TRUE, Bool("false"), {}), Definition("boolean", FALSE, Bool("true"), {}),
   Definition("number", FALSE, Null, {}),       Definition("number", FALSE, Str("red"), {}),
   Definition("date", FALSE, Str("red"), {}),   Definition("date", TRUE, Str(Day), {}),
   Definition("select", TRUE, Undefined, {"red"}), Definition("select", FALSE, Undefined, {})}

Bulky(files, path) == [files EXCEPT ![path] = Big]
PackageSamples ==
  {Flow(Plain, {Metadata} \cup Optional \cup Scripts), Flow(QuotedId, {}),
   Flow(NumericId, {Metadata}), Flow(Document("f2", NoDefinitions, <<"a">>), {Metadata}),
   Flow(Plain, {Metadata, Manifest} \cup Sensitive \cup ToolState),
   Bulky(Flow(Plain, {Metadata} \cup Scripts), "helpers/dates.py"),
   Flow(Plain, {Metadata} \cup Media \cup UnsafePath),
   Restrict(Flow(Plain, {Metadata}), (Required \cup {Metadata}) \ {"hardening-report.md"})}

\* Another flow of the same id: two of its files are others.
Replacement ==
  [Flow(Plain, {Metadata}) EXCEPT !["flow.hardened.py"] = File("other"),
                                  !["hardening-report.md"] = File("other")]

\* Documents with one fault each.
BrokenStep(field, value) == [Plain EXCEPT !.steps[1][field] = value]
BrokenDocuments ==
  {[Plain EXCEPT !.version = "rpa-dsl.v9"], [Plain EXCEPT !.flow_id = "F 1"],
   [Plain EXCEPT !.title = ""], [Plain EXCEPT !.hasContext = FALSE], [Plain EXCEPT !.steps = <<>>],
   [Plain EXCEPT !.steps = @ \o @],
   [Plain EXCEPT !.params = [p \in {"p"} |-> Definition("url", FALSE, Undefined, {})]],
   [Plain EXCEPT !.params = [p \in {"p"} |-> Definition("select", FALSE, Undefined, {})]],
   NumericId}
    \cup {BrokenStep("id", id) : id \in {"", "Open"}}
    \cup {BrokenStep("named", FALSE), BrokenStep("action", "hover"), BrokenStep("hasWrite", FALSE),
          BrokenStep("assert", "unknown")}
    \cup {BrokenStep("manual", manual) : manual \in {"absent", "unknown", "silent"}}
    \cup {BrokenStep("target", [by |-> by, css |-> <<>>]) : by \in {"absent", "near"}}

Bounds(loads, starts, downloads, edits, deletes, reconnects) ==
  [loads |-> loads, starts |-> starts, downloads |-> downloads, edits |-> edits,
   deletes |-> deletes, reconnects |-> reconnects, modes |-> {"verify", "run"}]
Scene(files, params, shown, budget0) ==
  [dir |-> files, held |-> NoFiles, crafted |-> FALSE, definitions |-> params,
   shown |-> shown, budget |-> budget0]
Holding(scene, held, crafted) == [scene EXCEPT !.held = held, !.crafted = crafted]

\* Packages are edited in scenes of their own, or put together by hand around a broken
\* document; in one the flow is replaced by another while it is exported, and in one it is
\* verified meanwhile.
PackageScenes ==
  {Scene(package, NoDefinitions, FALSE, Bounds(0, 0, 1, 1, 1, 0)) : package \in PackageSamples}
    \cup {Holding(Scene(NoFiles, document.params, FALSE, Bounds(0, 0, 0, 0, 0, 0)),
                  Flow(document, {}), TRUE) : document \in BrokenDocuments}
    \cup {Holding(Scene(Flow(Plain, {Metadata}), NoDefinitions, FALSE, Bounds(0, 0, 1, 0, 1, 0)),
                  Replacement, FALSE),
          Scene(ImportRpaPackage(Flow(Plain, {})), NoDefinitions, TRUE, Bounds(0, 1, 1, 0, 0, 0))}

\* The page has loaded the flow: an imported one is verified and run, and loaded again or
\* deleted meanwhile; a parameter is run with; a flow is verified as often as may be.
Imported == ImportRpaPackage(Flow(Plain, {}))
VerifyScenes ==
  {Scene(Imported, NoDefinitions, TRUE, Bounds(loads, 2, 0, 0, 1 - loads, MaxReconnects)) :
     loads \in {0, 1}}
Pressing(mode, scene) == [scene EXCEPT !.budget.modes = {mode}]
FormScenes ==
  {Pressing("run", Scene(Flow(Document("f1", params, <<"a">>), {Metadata}), params, TRUE,
                         Bounds(0, 2, 0, 0, 0, 0))) : params \in [{"p"} -> DefinitionSamples]}
OverlapScene ==
  Pressing("verify", Scene(Flow(Plain, {Metadata}), NoDefinitions, TRUE,
                           Bounds(0, MaxStarts, 0, 0, 0, 0)))

MCScenes == PackageScenes \cup VerifyScenes \cup FormScenes \cup {OverlapScene}
=============================================================================
