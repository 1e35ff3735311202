---------------------------- MODULE RpaPackages ----------------------------
(***************************************************************************)
(* The documents and packages of RPA flows: validateRpaDsl, the export of  *)
(* a flow directory as a zip and the import of one into a directory        *)
(* (rpa-package.ts, manifest-schema.ts, uncompressed-zip.ts).              *)
(*                                                                         *)
(* A directory is a function from the paths of its files to contents; the  *)
(* content of flow.dsl.json is a document.  Contents are told apart, and   *)
(* a checksum is the content it is of.  Of a document each part that the   *)
(* validator looks at is kept, as a member of a small set.                 *)
(*                                                                         *)
(* An export reads the directory file by file: the operators here take     *)
(* what was read, and RpaWorkbench says when.                              *)
(***************************************************************************)
EXTENDS Integers, Sequences, SequencesExt, FiniteSetsExt, RuntimeParams

\* requiredGenerationArtifactNames, in the order in which they are read.
RequiredOrder == <<"flow.dsl.json", "flow.hardened.py", "config.example.json",
                   "parameterization-report.md", "hardening-report.md">>
Required == {"flow.dsl.json", "flow.hardened.py", "config.example.json",
             "parameterization-report.md", "hardening-report.md"}
Optional == {"flow.py"}
Manifest == "manifest.json"
Metadata == "flow.local.json"

\* Bound: one other path of each kind artifact-paths.ts and the package code tell apart.
Sensitive  == {"login.cookies.json"}
ToolState  == {".claude/settings.json"}
UnsafePath == {"notes..old.md"}
Scripts    == {"helpers/dates.py"}
Media      == {"trace.zip"}
Others     == Sensitive \cup ToolState \cup UnsafePath \cup Scripts \cup Media

-----------------------------------------------------------------------------
(* validateRpaDsl: the codes of the errors of a document *)

Issue(code, found) == IF found THEN {code} ELSE {}

ParamTypes == {"string", "number", "date", "boolean", "select", "secret"}
Actions    == {"navigate", "click", "input", "select", "submit", "assert", "wait", "manual"}
NeedTarget == {"click", "input", "select", "submit", "assert"}
TargetBy   == {"role", "label", "placeholder", "text", "testid", "id", "css", "xpath"}

ValidateParams(params) ==
  UNION {Issue("UNSUPPORTED_PARAM_TYPE", params[p].type \notin ParamTypes)
           \cup Issue("SELECT_REQUIRES_OPTIONS", params[p].type = "select" /\ ~params[p].hasOptions) :
           p \in DOMAIN params}

\* hasRawNumericIdShorthand: # and a digit outside of quotes and brackets.
ScanChar(state, char) ==
  CASE state.escaped -> [state EXCEPT !.escaped = FALSE]
    [] ~state.escaped /\ char = "\\" -> [state EXCEPT !.escaped = TRUE]
    [] ~state.escaped /\ char # "\\" /\ state.quote # "" ->
         [state EXCEPT !.quote = IF char = @ THEN "" ELSE @]
    [] ~state.escaped /\ char # "\\" /\ state.quote = "" ->
         [state EXCEPT !.quote = IF char = "'" THEN char ELSE "",
                       !.depth = CASE char = "[" -> @ + 1
                                   [] char = "]" -> Max({0, @ - 1})
                                   [] OTHER -> @]

HasRawNumericIdShorthand(css) ==
  LET start  == [escaped |-> FALSE, quote |-> "", depth |-> 0]
      before == [i \in DOMAIN css |-> FoldLeft(ScanChar, start, SubSeq(css, 1, i - 1))]
  IN \E i \in DOMAIN css : before[i] = start /\ css[i] = "#"
                             /\ i < Len(css) /\ css[i + 1] = "7"

ValidateTarget(target) ==
  IF target.by \notin TargetBy THEN {"UNSUPPORTED_TARGET_BY"}
  ELSE Issue("CSS_NUMERIC_ID_SHORTHAND",
             target.by = "css" /\ HasRawNumericIdShorthand(target.css))

\* An unknown action ends the look at a step.
ValidateStep(step, earlier) ==
  Issue("STEP_ID_REQUIRED", step.id = "")
    \cup Issue("DUPLICATE_STEP_ID", step.id # "" /\ step.id \in earlier)
    \cup Issue("INVALID_STEP_ID", step.id = "Open")
    \cup Issue("STEP_NAME_REQUIRED", ~step.named)
    \cup (IF step.action \notin Actions THEN {"UNSUPPORTED_ACTION"}
          ELSE Issue("STEP_WRITE_REQUIRED", ~step.hasWrite)
                 \cup Issue("STEP_MANUAL_REQUIRED", step.manual = "absent")
                 \cup Issue("STEP_TARGET_REQUIRED",
                            step.action \in NeedTarget /\ step.target.by = "absent")
                 \cup (IF step.target.by = "absent" THEN {} ELSE ValidateTarget(step.target))
                 \cup Issue("UNSUPPORTED_ASSERT_TYPE", step.assert = "unknown")
                 \cup Issue("UNSUPPORTED_MANUAL_TYPE", step.manual = "unknown")
                 \cup Issue("MANUAL_INSTRUCTION_REQUIRED", step.manual = "silent"))

ValidateRpaDsl(document) ==
  Issue("UNSUPPORTED_DSL_VERSION", document.version # "rpa-dsl.v0.1")
    \cup Issue("INVALID_FLOW_ID", document.flow_id = "F 1")
    \cup Issue("META_TITLE_REQUIRED", document.title = "")
    \cup ValidateParams(document.params)
    \cup Issue("CONTEXT_REQUIRED", ~document.hasContext)
    \cup Issue("STEPS_REQUIRED", document.steps = <<>>)
    \cup UNION {ValidateStep(document.steps[i], {document.steps[j].id : j \in 1..(i - 1)}) :
                  i \in DOMAIN document.steps}

-----------------------------------------------------------------------------
(* Export *)

\* isSupportingPackageArtifact
IsSupporting(path) ==
  /\ path \notin UnsafePath
  /\ path \notin Required \cup Optional
  /\ path \notin {Manifest, Metadata}
  /\ path \notin Sensitive \cup ToolState
  /\ path \notin Media

IsImportable(path) == path \in Required \cup Optional \/ IsSupporting(path)

\* readFlowLocalMetadata: a directory without the file is a generated flow.
ReadMetadata(dir) ==
  IF Metadata \in DOMAIN dir THEN dir[Metadata]
  ELSE [source |-> "generated", mode |-> "none", requiresVerify |-> FALSE]

Generator(metadata) ==
  IF metadata.mode # "none" THEN metadata.mode
  ELSE IF metadata.source = "imported" THEN "imported" ELSE "codegen"

\* readDslArtifact and the check of its id, before anything else is read.
ExportError(dir, flowId) ==
  IF "flow.dsl.json" \notin DOMAIN dir THEN "ENOENT"
  ELSE IF ValidateRpaDsl(dir["flow.dsl.json"]) # {} THEN "DSL_INVALID"
  ELSE IF dir["flow.dsl.json"].flow_id # flowId THEN "FLOW_ID_MISMATCH"
  ELSE "none"

BuildManifest(document, generator, sums) ==
  [schema |-> "rpa-package.v0.1", flowId |-> document.flow_id, name |-> document.title,
   generator |-> generator, checksums |-> sums]

\* collectExportablePackageArtifacts
Collected(dir) == [path \in {p \in DOMAIN dir \ Required : IsImportable(p)} |-> dir[path]]

\* The zip is a function too: reading one with two entries of a path fails.
Zipped(manifest, contents, others) ==
  [path \in {Manifest} \cup DOMAIN contents \cup DOMAIN others |->
     IF path = Manifest THEN manifest
     ELSE IF path \in DOMAIN contents THEN contents[path] ELSE others[path]]

\* The package of a directory that stays as it is while it is read.
Packaged(dir) ==
  LET files == [path \in Required |-> dir[path]]
  IN Zipped(BuildManifest(dir["flow.dsl.json"], Generator(ReadMetadata(dir)), files),
            files, Collected(dir))

-----------------------------------------------------------------------------
(* Import *)

ParseManifest(manifest) ==
  CASE manifest.schema # "rpa-package.v0.1" -> "PACKAGE_SCHEMA_UNSUPPORTED"
    [] manifest.schema = "rpa-package.v0.1" /\
         (manifest.name = "" \/ manifest.generator \notin {"codegen", "nl", "imported"}) ->
         "PACKAGE_MANIFEST_INVALID"
    [] OTHER -> "none"

\* express.raw takes 20mb.  Bound: one content is larger.
Big == [text |-> "big"]
TooLarge(entries) == \E path \in DOMAIN entries : entries[path] = Big

\* Mutant: the checksums are taken for granted.
FirstErrorUnsummed(entries, exists) ==
  CASE TooLarge(entries) -> "PAYLOAD_TOO_LARGE"
    [] DOMAIN entries \cap Sensitive # {} -> "PACKAGE_SENSITIVE_ENTRY"
    [] Manifest \notin DOMAIN entries -> "PACKAGE_MANIFEST_MISSING"
    [] ~(Required \subseteq DOMAIN entries) -> "PACKAGE_ARTIFACT_MISSING"
    [] ValidateRpaDsl(entries["flow.dsl.json"]) # {} -> "PACKAGE_DSL_INVALID"
    [] exists -> "FLOW_ALREADY_EXISTS"
    [] OTHER -> "none"

\* The route of the import, and importRpaPackage up to the first write, in the order of
\* their checks.
FirstError(entries, exists) ==
  IF TooLarge(entries) THEN "PAYLOAD_TOO_LARGE"
  ELSE IF DOMAIN entries \cap Sensitive # {} THEN "PACKAGE_SENSITIVE_ENTRY"
  ELSE IF Manifest \notin DOMAIN entries THEN "PACKAGE_MANIFEST_MISSING"
  ELSE LET manifest == entries[Manifest] IN
    IF ParseManifest(manifest) # "none" THEN ParseManifest(manifest)
    ELSE IF manifest.flowId = "F 1" THEN "INTERNAL_ERROR"   \* safeFlowId
    ELSE IF ~(Required \subseteq DOMAIN entries) THEN "PACKAGE_ARTIFACT_MISSING"
    ELSE IF \E path \in Required : entries[path] # manifest.checksums[path]
         THEN "PACKAGE_CHECKSUM_MISMATCH"
    ELSE IF ValidateRpaDsl(entries["flow.dsl.json"]) # {} THEN "PACKAGE_DSL_INVALID"
    ELSE IF entries["flow.dsl.json"].flow_id # manifest.flowId THEN "PACKAGE_FLOW_ID_MISMATCH"
    ELSE IF exists THEN "FLOW_ALREADY_EXISTS"
    ELSE "none"

\* The directory of an import: what is importable, and metadata that asks for a verification.
ImportRpaPackage(entries) ==
  [path \in {Metadata} \cup {p \in DOMAIN entries : IsImportable(p)} |->
     IF path = Metadata
     THEN [source |-> "imported", mode |-> "imported", requiresVerify |-> TRUE]
     ELSE entries[path]]
=============================================================================
