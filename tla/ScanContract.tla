---------------------------- MODULE ScanContract ----------------------------
(***************************************************************************)
(* What `agent-lint scan` promises through its exit code (cli.py:6-14),    *)
(* whatever the order of its work: files are decided one at a time, each   *)
(* at most once; the outcome is drawn from what was decided and reports    *)
(* exactly the flagged files; an outcome that gives up reports none.       *)
(***************************************************************************)
EXTENDS FiniteSets

CONSTANT Files

VARIABLES
  decided,   \* files whose text was analysed or given up with a diagnostic
  flagged,   \* those with an agent that has no bound
  limited,   \* a resource limit was hit
  outcome,   \* "running", then why the program exited
  reported   \* files named in the findings printed

vars == <<decided, flagged, limited, outcome, reported>>

Init ==
  /\ decided = {} /\ flagged = {} /\ reported = {}
  /\ limited = FALSE
  /\ outcome = "running"

Decide(f) ==
  /\ outcome = "running"
  /\ f \notin decided /\ decided' = decided \cup {f}
  /\ flagged' \in {flagged, flagged \cup {f}}
  /\ limited' \in {limited, TRUE}
  /\ UNCHANGED <<outcome, reported>>

Truncate ==
  /\ outcome = "running" /\ limited' = TRUE
  /\ UNCHANGED <<decided, flagged, outcome, reported>>

\* Findings take precedence over a partial scan.
Verdict == IF flagged # {} THEN "findings" ELSE IF limited THEN "partial" ELSE "clean"

Conclude ==
  /\ outcome = "running"
  /\ outcome' = Verdict /\ reported' = flagged
  /\ UNCHANGED <<decided, flagged, limited>>

\* A usage error is noticed before any file is looked at; an exception may
\* end the program at any time.
GiveUp ==
  /\ outcome = "running"
  /\ \/ outcome' = "usage" /\ decided = {}
     \/ outcome' \in {"internal", "traceback"}
  /\ UNCHANGED <<decided, flagged, limited, reported>>

Next == (\E f \in Files : Decide(f)) \/ Truncate \/ Conclude \/ GiveUp

Spec == Init /\ [][Next]_vars /\ WF_vars(Conclude)
=============================================================================
