------------------------------ MODULE AgentLint -----------------------------
(***************************************************************************)
(* `agent-lint scan PATH` (lint/cli.py), from its argument to its exit     *)
(* code: the configuration is loaded, the repository scanned, the engine   *)
(* run over the fragments, the report printed.  Composes Scan and Engine.  *)
(***************************************************************************)
EXTENDS Scan, ConfigFile

CONSTANTS
  UnencodablePaths,  \* paths that are not UTF-8
  Invocations        \* the calls to try

\* denied: PATH cannot be resolved, or asked for its status.
Invocation == [target : {"directory", "file", "nothing", "denied"}, document : Document]

ASSUME InvocationAssumption ==
  Invocations \subseteq Invocation /\ UnencodablePaths \subseteq Paths

VARIABLES
  cpc,         \* where the command is
  invocation,  \* its PATH, and the configuration file there
  exit,        \* "running", then why it exited
  epc, frag, pos, occurrences, findings, diagnostics   \* run_scan's

Rules == INSTANCE Engine WITH FragmentLists <- {}

cliVars == <<cpc, invocation, exit>>
ruleVars == <<epc, frag, pos, occurrences, findings, diagnostics>>
outerVars == <<cliVars, ruleVars>>
allVars == <<allScanVars, outerVars>>

Outcomes == {"clean", "findings", "usage", "internal", "partial", "traceback"}

CliTypeOK ==
  /\ cpc \in {"args", "config", "scan", "rules", "report", "exited"}
  /\ invocation \in Invocations
  /\ exit \in {"running"} \cup Outcomes
  /\ cpc = "exited" <=> exit # "running"

CliInit ==
  /\ cpc = "args" /\ exit = "running"
  /\ invocation \in Invocations
  /\ Rules!EngineInit

Exit(why) == exit' = why /\ cpc' = "exited" /\ UNCHANGED invocation

Proceed(stage) == cpc' = stage /\ UNCHANGED <<exit, invocation>>

\* path.resolve, path.exists and path.is_dir; what they raise nothing catches.
CheckPath ==
  /\ cpc = "args"
  /\ \/ invocation.target = "directory" /\ Proceed("config")
     \/ invocation.target \in {"file", "nothing"} /\ Exit("usage")
     \/ invocation.target = "denied" /\ Exit("traceback")
  /\ UNCHANGED <<allScanVars, ruleVars>>

\* load_config_for_root: what it raises is an internal error to the caller.
LoadConfig ==
  /\ cpc = "config"
  /\ IF LoadRaises(invocation.document)
     THEN Exit("internal") /\ UNCHANGED config
     ELSE Proceed("scan") /\ config' = LoadConfigForRoot(invocation.document)
  /\ UNCHANGED <<workspaceVars, tree, gitignore, generatorVars, frontendVars, scanVars, ruleVars>>

ScanFiles ==
  /\ cpc = "scan" /\ ScanStep
  /\ CASE spc' = "scanned" -> Proceed("rules")
       [] spc' = "raised" -> Exit("internal")
       [] OTHER -> Proceed("scan")
  /\ UNCHANGED ruleVars

\* Mutant of EvaluateRules: what the engine raises is swallowed.
EvaluateRulesSwallowing ==
  /\ cpc = "rules" /\ Rules!EngineStep
  /\ Proceed(IF epc' \in {"returned", "raised"} THEN "report" ELSE "rules")
  /\ UNCHANGED allScanVars

EvaluateRules ==
  /\ cpc = "rules" /\ Rules!EngineStep
  /\ CASE epc' = "returned" -> Proceed("report")
       [] epc' = "raised" -> Exit("internal")
       [] OTHER -> Proceed("rules")
  /\ UNCHANGED allScanVars

\* render_text leaves INFO diagnostics out.
Printed == {findings[k].file : k \in DOMAIN findings}
           \cup {d.file : d \in {x \in diagnostics : x.level # "info"}}

LimitHit == \E d \in diagnostics : d.limit

\* Mutant of ExitCode: a partial scan takes precedence.
LimitFirst ==
  IF LimitHit THEN "partial" ELSE IF findings # <<>> THEN "findings" ELSE "clean"

\* Mutant of ExitCode: limits of single files are overlooked.
OnlyWholeScanLimits ==
  IF findings # <<>> THEN "findings"
  ELSE IF ScanLimit(SCAN_LEVEL_FILE) \in diagnostics THEN "partial" ELSE "clean"

ExitCode ==
  IF findings # <<>> THEN "findings" ELSE IF LimitHit THEN "partial" ELSE "clean"

\* Echoing a path that cannot be encoded raises, and nothing catches it here.
Report ==
  /\ cpc = "report"
  /\ Exit(IF Printed \cap UnencodablePaths # {} THEN "traceback" ELSE ExitCode)
  /\ UNCHANGED <<allScanVars, ruleVars>>

CliStep == CheckPath \/ LoadConfig \/ ScanFiles \/ EvaluateRules \/ Report

\* Edits and time outside the scan are seen by nobody.
Around ==
  /\ cpc = "scan" /\ Environment
  /\ UNCHANGED <<inputVars, generatorVars, frontendVars, scanVars, outerVars>>

Init == RepositoryInit /\ CliInit

Next == CliStep \/ Around \/ (cpc = "exited" /\ UNCHANGED allVars)

Spec == Init /\ [][Next]_allVars /\ WF_allVars(CliStep)

TypeOK == RepositoryTypeOK /\ Rules!TypeOK /\ CliTypeOK

Scannable(f) == f \in PythonFiles \ gone /\ Visible(f) /\ Reachable(f)

FlaggedText(c) == c # Absent /\ \E k \in DOMAIN c.agents : ~c.agents[k].bounded

\* Exit code 0 and what was printed together miss nothing that could be
\* reached: every Python file that stayed visible, below directories that can
\* all be listed, was read as a text without an unbounded agent, or the report
\* names it with an ordinary warning; no limit was hit (cli.py:6).  What lies
\* below a directory that cannot be listed is missed; see CleanMeansComplete.
CleanMeansClean ==
  exit = "clean" =>
    /\ ~LimitHit
    /\ \A f \in PythonFiles :
         /\ Scannable(f) => readAs[f] # Absent \/ Warning(f) \in diagnostics
         /\ ~FlaggedText(readAs[f]) \/ Warning(f) \in diagnostics

\* No unbounded agent of a text that was lowered is lost between the frontend
\* and the exit code, whether or not a limit was hit as well: the findings
\* name exactly the files lowered with such an agent (cli.py:12-14).
FindingsDecideExit ==
  exit \in {"clean", "partial", "findings"} =>
    /\ exit = "findings" <=> findings # <<>>
    /\ {findings[k].file : k \in DOMAIN findings} =
         {f \in PythonFiles : /\ FlaggedText(readAs[f])
                              /\ \E i \in FragmentsOf(f) : fragments[i].agents # <<>>}

\* Behind exit code 4 a limit was really passed (cli.py:10): the walk was cut
\* short and the wall clock is past its budget, or a file that the report says
\* hit a limit did pass one of its own.  The one false alarm is a text that
\* ast.parse refuses with a ValueError (ast_utils.py:47-55; see LimitIsReal).
PartialMeansLimit ==
  exit = "partial" =>
    \/ truncated /\ WallTimeOver
    \/ \E f \in PythonFiles :
         ScanLimit(f) \in diagnostics /\ (f \in passed \/ Malformed(readAs[f]))

\* A scan that nothing disturbed, and that says nothing but what it skipped as
\* a symlink, reports the tree as it is: the fingerprints are those of all
\* visible files, except below directories that cannot be listed.
UndisturbedScanIsExact ==
  exit \in {"clean", "findings"} /\ edits = 0 /\ (\A d \in diagnostics : d.level = "info") =>
    {Rules!Fingerprint(findings[k]) : k \in DOMAIN findings} =
      UNION {{<<f, h, n>> : n \in 0..(Cardinality(Rules!Unbounded(disk[f].agents, h)) - 1)} :
               f \in {g \in PythonFiles : Scannable(g)}, h \in Hashes}

\* Each part of the configuration file that is not of the form asked for is
\* answered by a warning of its own that reaches the end of the run, whatever
\* else is wrong, and no other part is ("it is not silently trusted",
\* config.py:77-86).  A well-formed list under "rules" is no fault here, though
\* nothing ever consults it (engine.py:42).
MisconfigurationIsReported ==
  exit \in {"clean", "partial", "findings"} =>
    {d.key : d \in {x \in diagnostics : x.key # ""}} =
      {k \in ConfigKeys : IsFault(k, invocation.document)}

\* The command exits, under weak fairness of its own steps.
CommandEnds == <>(exit # "running")

AnyAgentUnbounded(i) ==
  \E k \in DOMAIN fragments[i].agents : ~fragments[i].agents[k].bounded

Contract == INSTANCE ScanContract WITH
  decided  <- {f \in Files : FragmentsOf(f) # {}},
  flagged  <- {f \in Files : \E i \in FragmentsOf(f) : AnyAgentUnbounded(i)},
  limited  <- \E d \in Reported : d.limit,
  outcome  <- exit,
  reported <- IF exit = "findings" THEN {findings[k].file : k \in DOMAIN findings} ELSE {}

\* The command keeps the promise of its exit codes.
KeepsContract == Contract!Spec

\* "A hostile input tree must never produce an internal error (exit 3)",
\* tests/lint/test_cli.py:96.
NeverInternalError == exit # "internal"

\* cli.py:9: "never a raw traceback to the user".
NeverTraceback == exit # "traceback"

\* scan.py:42-43: "a partial scan is always reported honestly, never silently
\* presented as complete".
CleanMeansComplete ==
  exit = "clean" =>
    \A f \in PythonFiles \ gone :
      Visible(f) => FragmentsOf(f) # {} \/ \E d \in diagnostics : d.level = "warning"
=============================================================================
