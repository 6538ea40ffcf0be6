-------------------------------- MODULE Scan --------------------------------
(***************************************************************************)
(* scan_repository (lint/frontend/scan.py): it asks the generator of       *)
(* discover_files for one file after another, checks the wall clock, lowers *)
(* the files a frontend supports and collects the fragments.  One process, *)
(* composed of the generator and the frontend it drives.                   *)
(***************************************************************************)
EXTENDS PythonFrontend, Discovery

CONSTANTS
  PythonFiles,   \* the files a frontend supports: the suffix is .py
  WallBudget     \* ScanLimits.wall_clock_budget_seconds

ASSUME ScanAssumption == PythonFiles \subseteq Files /\ WallBudget \in Nat

VARIABLES
  spc,        \* where scan_repository is
  scanStart,  \* its local start
  truncated,  \* its local truncated
  fragments,  \* its local fragments
  readAs,     \* history: the text each collected fragment was lowered from
  passed,     \* history: the files that passed a limit of their own
  late        \* history: the files whose lowering ended past the wall budget

historyVars == <<readAs, passed, late>>
scanVars == <<spc, scanStart, truncated, fragments, historyVars>>

ScanTypeOK ==
  /\ spc \in {"begin", "asking", "budget", "entering", "lowering", "finishing",
              "scanned", "raised"}
  /\ scanStart \in 0..MaxTime
  /\ truncated \in BOOLEAN
  /\ fragments \in Seq(Fragment)
  /\ readAs \in [Files -> Contents \cup {Absent}]
  /\ passed \in SUBSET Files
  /\ late \in SUBSET Files

ScanInit ==
  /\ spc = "begin"
  /\ scanStart = 0 /\ truncated = FALSE /\ fragments = <<>>
  /\ readAs = [f \in Files |-> Absent]
  /\ passed = {} /\ late = {}

BeginScan ==
  /\ spc = "begin" /\ spc' = "asking"
  /\ scanStart' = now
  /\ UNCHANGED <<truncated, fragments, historyVars, generatorVars, frontendVars>>

\* next(discovered_files): the generator runs until it yields or ends; what it
\* raises ends scan_repository too.
Ask ==
  /\ spc = "asking" /\ gpc # "suspended"
  /\ GeneratorStep
  /\ spc' = CASE gpc' = "suspended" -> "budget"
              [] gpc' = "exhausted" -> "finishing"
              [] gpc' = "raised" -> "raised"
              [] OTHER -> "asking"
  /\ UNCHANGED <<scanStart, truncated, fragments, historyVars, frontendVars>>

WallTimeOver == now - scanStart > WallBudget

\* Mutant of Dispatch: every file is lowered, supported or not.
DispatchAnything ==
  /\ spc = "budget"
  /\ IF WallTimeOver THEN truncated' = TRUE /\ spc' = "finishing"
     ELSE spc' = "entering" /\ UNCHANGED truncated
  /\ UNCHANGED <<scanStart, fragments, historyVars, generatorVars, frontendVars>>

\* Mutant of Dispatch: the clock is never looked at.
DispatchUnchecked ==
  /\ spc = "budget"
  /\ IF current \in PythonFiles
     THEN spc' = "entering" /\ UNCHANGED generatorVars
     ELSE spc' = "asking" /\ Resume
  /\ UNCHANGED <<scanStart, truncated, fragments, historyVars, frontendVars>>

\* The file just yielded: first the clock, then the frontend.
Dispatch ==
  /\ spc = "budget"
  /\ \/ /\ WallTimeOver
        /\ truncated' = TRUE /\ spc' = "finishing"
        /\ UNCHANGED generatorVars
     \/ /\ ~WallTimeOver /\ current \notin PythonFiles
        /\ spc' = "asking" /\ Resume
        /\ UNCHANGED truncated
     \/ /\ ~WallTimeOver /\ current \in PythonFiles
        /\ spc' = "entering"
        /\ UNCHANGED <<truncated, generatorVars>>
  /\ UNCHANGED <<scanStart, fragments, historyVars, frontendVars>>

\* frontend.lower is called.
CallLower ==
  /\ spc = "entering" /\ spc' = "lowering"
  /\ Enter(current)
  /\ UNCHANGED <<scanStart, truncated, fragments, historyVars, generatorVars>>

\* It runs, and may raise as well.
Lower ==
  /\ spc = "lowering" /\ LowerStep
  /\ spc' = IF fpc' = "raised" THEN "raised" ELSE spc
  /\ UNCHANGED <<scanStart, truncated, fragments, historyVars, generatorVars>>

\* What is remembered of the lowering that has just ended.
Record ==
  /\ readAs' = [readAs EXCEPT ![path] = source]
  /\ passed' = IF PassedLimit THEN passed \cup {path} ELSE passed
  /\ late' = IF WallTimeOver THEN late \cup {path} ELSE late

\* Mutant of Collect: the clock is checked at the foot of the loop as well.
CollectThenCheckTime ==
  /\ spc = "lowering" /\ fpc = "returned"
  /\ fragments' = Append(fragments, fragment)
  /\ Record
  /\ IF WallTimeOver
     THEN truncated' = TRUE /\ spc' = "finishing" /\ UNCHANGED generatorVars
     ELSE Resume /\ spc' = "asking" /\ UNCHANGED truncated
  /\ UNCHANGED <<scanStart, frontendVars>>

\* Mutant of Collect: fragments without agents are not kept.
CollectOnlyAgents ==
  /\ spc = "lowering" /\ fpc = "returned" /\ spc' = "asking"
  /\ fragments' = IF fragment.agents # <<>> THEN Append(fragments, fragment) ELSE fragments
  /\ Record
  /\ Resume
  /\ UNCHANGED <<scanStart, truncated, frontendVars>>

\* It returned: its fragment is appended.
Collect ==
  /\ spc = "lowering" /\ fpc = "returned" /\ spc' = "asking"
  /\ fragments' = Append(fragments, fragment)
  /\ Record
  /\ Resume
  /\ UNCHANGED <<scanStart, truncated, frontendVars>>

ScanLevelDiagnostics ==
  scanDiags \cup config.diagnostics
            \cup IF truncated THEN {ScanLimit(SCAN_LEVEL_FILE)} ELSE {}

\* After the loop: one more fragment for what concerns no single file.
Finish ==
  /\ spc = "finishing" /\ spc' = "scanned"
  /\ fragments' = IF ScanLevelDiagnostics = {} THEN fragments
                  ELSE Append(fragments, [file |-> SCAN_LEVEL_FILE, agents |-> <<>>,
                                          diagnostics |-> ScanLevelDiagnostics])
  /\ UNCHANGED <<scanStart, truncated, historyVars, generatorVars, frontendVars>>

ScanStep ==
  /\ BeginScan \/ Ask \/ Dispatch \/ CallLower \/ Lower \/ Collect \/ Finish
  /\ UNCHANGED <<workspaceVars, inputVars>>

(***************************************************************************)
(* scan_repository by itself.                                              *)
(***************************************************************************)
allScanVars == <<workspaceVars, inputVars, generatorVars, frontendVars, scanVars>>

RepositoryInit == WorkspaceInit /\ DiscoveryInit /\ FrontendInit /\ ScanInit

RepositoryNext ==
  \/ ScanStep
  \/ Environment /\ UNCHANGED <<inputVars, generatorVars, frontendVars, scanVars>>
  \/ spc \in {"scanned", "raised"} /\ UNCHANGED allScanVars

RepositorySpec ==
  RepositoryInit /\ [][RepositoryNext]_allScanVars /\ WF_allScanVars(ScanStep)

RepositoryTypeOK ==
  WorkspaceTypeOK /\ DiscoveryTypeOK /\ FrontendTypeOK /\ ScanTypeOK

FragmentsOf(f) == {i \in DOMAIN fragments : fragments[i].file = f}

Reported == UNION {fragments[i].diagnostics : i \in DOMAIN fragments}

\* When the scan is over, every file that was to be scanned is accounted for:
\* its one fragment holds all agents of the text that was read, or carries a
\* warning; and if the walk did not get to it, the scan says it was truncated
\* ("a partial scan is always reported honestly, never silently presented as
\* complete", scan.py:41-43).
NothingDroppedSilently ==
  spc = "scanned" =>
    \A f \in PythonFiles \ gone :
      Visible(f) /\ Reachable(f) =>
        \/ /\ FragmentsOf(f) = {} /\ truncated
           /\ ScanLimit(SCAN_LEVEL_FILE) \in Reported
        \/ \E i \in FragmentsOf(f) :
             /\ FragmentsOf(f) = {i}
             /\ \/ \E d \in fragments[i].diagnostics : d.level = "warning"
                \/ readAs[f] # Absent /\ fragments[i].agents = readAs[f].agents

\* Each file has at most one fragment, lowered by a supporting frontend, and
\* the sentinel's fragment comes last: what the engine relies on when it tells
\* fragments apart by their file (engine.py:36-43).
OneFragmentPerFile ==
  /\ \A i, j \in DOMAIN fragments : fragments[i].file = fragments[j].file => i = j
  /\ \A i \in DOMAIN fragments : fragments[i].file \in PythonFiles \/ i = Len(fragments)

\* The file that is being lowered past the wall budget, if any.
LateNow == IF spc = "lowering" /\ WallTimeOver THEN {path} ELSE {}

\* The deadline overshoots by one file: the clock may pass it after the check,
\* before lower() is called or while it runs, but of the lowerings that ended
\* past it and the one still under way there is only one (scan.py:59-62).
OvershootAtMostOne == Cardinality(late \cup LateNow) <= 1

\* The scan says it was truncated only if the budget really passed, and then
\* some yielded file is still unlowered.
TruncationIsReal ==
  truncated => WallTimeOver /\ FragmentsOf(current) = {}

\* Where the program is between one name and the next.
Position == CASE spc = "asking" -> gpc [] spc = "lowering" -> fpc [] OTHER -> spc

Order ==
  [begin |-> 0, created |-> 1, budget |-> 2, entering |-> 3, stat |-> 4, read |-> 5, parse |-> 6,
   parsed |-> 7, detect |-> 8, detected |-> 9, returned |-> 10, walking |-> 11, finishing |-> 12,
   scanned |-> 13, raised |-> 13]

\* No edit can keep the scan busy: each of its steps takes something off what
\* is still to be met, or leaves that alone and moves on, and no step puts
\* anything back.  So there is a bound on their number (limits.py:5-6, "never
\* an unbounded hang").
ScanAdvances ==
  [][\/ Unmet' \subseteq Unmet /\ Unmet' # Unmet
     \/ Unmet' = Unmet /\ Order[Position'] > Order[Position]]_<<generatorVars, frontendVars, scanVars>>

\* The loop ends, whatever the tree, the texts and the clock do.
ScanEnds == <>(spc \in {"scanned", "raised"})
=============================================================================
