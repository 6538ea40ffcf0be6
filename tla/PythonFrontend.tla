--------------------------- MODULE PythonFrontend ---------------------------
(***************************************************************************)
(* PythonFrontend.lower (lint/frontend/python_frontend.py): one file in,   *)
(* one fragment out.  Every system call and every clock reading is a step  *)
(* of its own, so that edits and time fall between them; the work between  *)
(* two of them is part of the step before.                                 *)
(***************************************************************************)
EXTENDS Workspace

CONSTANTS
  MaxFileSize, MaxAstNodes, PerFileBudget,  \* ScanLimits
  UnspannableFiles  \* paths SourceSpan refuses: a ":" in the first component, a "\"

ASSUME FrontendAssumption ==
  /\ MaxFileSize \in Nat /\ MaxAstNodes \in Nat /\ PerFileBudget \in Nat
  /\ UnspannableFiles \subseteq Files

VARIABLES
  fpc,        \* where lower() is
  path,       \* its argument
  startedAt,  \* its local start
  size,       \* what stat returned, 0 before
  source,     \* the text it read, Absent before
  fragment    \* the fragment it is building or has returned

frontendVars == <<fpc, path, startedAt, size, source, fragment>>

Stages == {"idle", "stat", "read", "parse", "parsed", "detect", "detected",
           "returned", "raised"}

FrontendTypeOK ==
  /\ fpc \in Stages
  /\ path \in Files
  /\ startedAt \in 0..MaxTime
  /\ size \in Nat
  /\ source \in Contents \cup {Absent}
  /\ fragment \in Fragment

EmptyFragment(f) == [file |-> f, agents |-> <<>>, diagnostics |-> {}]

FrontendInit ==
  /\ fpc = "idle"
  /\ path = CHOOSE f \in Files : TRUE
  /\ startedAt = 0 /\ size = 0 /\ source = Absent
  /\ fragment = EmptyFragment(path)

Goto(stage) == fpc' = stage /\ UNCHANGED fragment

\* Mutant of Skip: the diagnostic is forgotten.
SkipSilently(d) ==
  /\ fragment' = EmptyFragment(path)
  /\ fpc' = "returned"

\* The file is given up: its fragment is empty but for one diagnostic.
Skip(d) ==
  /\ fragment' = [EmptyFragment(path) EXCEPT !.diagnostics = {d}]
  /\ fpc' = "returned"

\* Mutant of OverBudget: "at least" for "more than".
AtBudget == now - startedAt >= PerFileBudget

OverBudget == now - startedAt > PerFileBudget

\* lower(f) is called; it notes the time.
Enter(f) ==
  /\ fpc \in {"idle", "returned", "raised"}
  /\ path' = f /\ startedAt' = now /\ size' = 0 /\ source' = Absent
  /\ fragment' = EmptyFragment(f)
  /\ fpc' = "stat"

\* Mutant of Stat: what _check_size returns is a diagnostic even when it is None.
StatUnguarded ==
  /\ fpc = "stat"
  /\ size' = IF disk[path] = Absent THEN size ELSE disk[path].size
  /\ Skip(IF disk[path] = Absent THEN Warning(path)
          ELSE IF size' > MaxFileSize THEN ScanLimit(path) ELSE Absent)
  /\ UNCHANGED <<path, startedAt, source>>

\* _check_size.
Stat ==
  /\ fpc = "stat"
  /\ \/ disk[path] = Absent /\ size' = size /\ Skip(Warning(path))
     \/ /\ disk[path] # Absent
        /\ size' = disk[path].size
        /\ IF size' > MaxFileSize THEN Skip(ScanLimit(path)) ELSE Goto("read")
  /\ UNCHANGED <<path, startedAt, source>>

\* path.read_text: opens the path again, whatever it is by now.
Read ==
  /\ fpc = "read"
  /\ IF disk[path] # Absent /\ disk[path].decodes
     THEN source' = disk[path] /\ Goto("parse")
     ELSE source' = source /\ Skip(Warning(path))
  /\ UNCHANGED <<path, startedAt, size>>

ExceedsNodeLimit(c) == c.nodes > MaxAstNodes

\* safe_parse and exceeds_node_limit.  A malformed text, which passed no limit,
\* gets the prefix of one.
Parse ==
  /\ fpc = "parse"
  /\ \/ source.parse = "syntax" /\ Skip(Warning(path))
     \/ source.parse \in {"exhausted", "malformed"} /\ Skip(ScanLimit(path))
     \/ source.parse = "tree" /\ ExceedsNodeLimit(source) /\ Skip(ScanLimit(path))
     \/ source.parse = "tree" /\ ~ExceedsNodeLimit(source) /\ Goto("parsed")
  /\ UNCHANGED <<path, startedAt, size, source>>

\* The first reading of the clock: a file that took too long is dropped.
CheckParseTime ==
  /\ fpc = "parsed"
  /\ IF OverBudget THEN Skip(ScanLimit(path)) ELSE Goto("detect")
  /\ UNCHANGED <<path, startedAt, size, source>>

\* structural_hash: ast.dump recurses, and spells every int in decimal.
HashRaises(c) == c.trips \cap {"RecursionError", "ValueError"} # {}

\* _extract_timeout: float of an int.
TimeoutRaises(c) == "OverflowError" \in c.trips

\* span_of: SourceSpan refuses the path.
SpanRaises(f) == f \in UnspannableFiles

\* Each may raise for some entity, and nothing around the three calls catches it.
DetectorsRaise(c, f) == c.spans /\ (HashRaises(c) \/ TimeoutRaises(c) \/ SpanRaises(f))

\* detect_agents, detect_tool_calls, detect_retry_policies.
Detect ==
  /\ fpc = "detect"
  /\ IF DetectorsRaise(source, path)
     THEN Goto("raised")
     ELSE /\ fragment' = [fragment EXCEPT !.agents = source.agents]
          /\ fpc' = "detected"
  /\ UNCHANGED <<path, startedAt, size, source>>

\* The second reading: late results are kept, and marked.
CheckLowerTime ==
  /\ fpc = "detected"
  /\ fragment' = [fragment EXCEPT !.diagnostics =
                    IF OverBudget THEN {ScanLimit(path)} ELSE {}]
  /\ fpc' = "returned"
  /\ UNCHANGED <<path, startedAt, size, source>>

LowerStep == Stat \/ Read \/ Parse \/ CheckParseTime \/ Detect \/ CheckLowerTime

(***************************************************************************)
(* The frontend by itself: a caller that lowers any file, again and again. *)
(***************************************************************************)
allFrontendVars == <<workspaceVars, frontendVars>>

LoweringInit == WorkspaceInit /\ FrontendInit

LoweringNext ==
  \/ (LowerStep \/ \E f \in Files : Enter(f)) /\ UNCHANGED workspaceVars
  \/ Environment /\ UNCHANGED frontendVars

LoweringSpec == LoweringInit /\ [][LoweringNext]_allFrontendVars

LoweringTypeOK == WorkspaceTypeOK /\ FrontendTypeOK

HasLimit(ds) == \E d \in ds : d.limit

\* A fragment without a diagnostic is the whole truth about one version of
\* the file: the text that was read parsed, within the node limit, and every
\* agent in it is in the fragment.  Each way of giving a file up, and the
\* late second clock reading, must leave a mark (python_frontend.py:39-123).
SilenceMeansWhole ==
  fpc = "returned" /\ fragment.diagnostics = {} =>
    /\ source # Absent
    /\ source.parse = "tree" /\ source.nodes <= MaxAstNodes
    /\ fragment.agents = source.agents

\* A limit of lower() that really was passed: by the size that stat returned,
\* in the parser, by the nodes of the tree or by the time since it began.
PassedLimit ==
  \/ size > MaxFileSize
  \/ /\ source # Absent
     /\ source.parse = "exhausted" \/ (source.parse = "tree" /\ source.nodes > MaxAstNodes)
  \/ now - startedAt > PerFileBudget

Malformed(c) == c # Absent /\ c.parse = "malformed"

\* A "scan-limit:" diagnostic, which turns the exit code to 4, has a limit
\* behind it that really was passed; a file exactly at a limit is not refused.
\* There is one exception: a text that ast.parse refuses with a ValueError gets
\* the prefix too (ast_utils.py:47-55), though it passed no limit and the
\* prefix is for "a resource limit being hit, as opposed to an ordinary parse
\* error" (limits.py:52-57).
LimitIsReal ==
  fpc = "returned" /\ HasLimit(fragment.diagnostics) => PassedLimit \/ Malformed(source)

\* limits.py:5-6: "Every limit here produces a Diagnostic and a graceful skip
\* -- never an unhandled exception".
NeverUnhandled == fpc # "raised"
=============================================================================
