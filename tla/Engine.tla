------------------------------- MODULE Engine -------------------------------
(***************************************************************************)
(* run_scan's loop over the fragments of a scan (lint/engine.py) and the   *)
(* one rule it evaluates, AR001 (lint/rules/ar001/rule.py): a finding, with *)
(* its fingerprint, for every agent without a visible step bound.          *)
(***************************************************************************)
EXTENDS IR

CONSTANTS
  UnencodablePaths, \* paths that are not UTF-8: compute_fingerprint raises
  FragmentLists     \* the results of scan_repository to try

\* What the scan guarantees: one fragment for each file, no agents in the
\* fragment that stands for no file.
WellFormed(list) ==
  /\ list \in Seq(Fragment)
  /\ \A i, j \in DOMAIN list : list[i].file = list[j].file => i = j
  /\ \A i \in DOMAIN list : list[i].file = SCAN_LEVEL_FILE => list[i].agents = <<>>

ASSUME EngineAssumption ==
  /\ UnencodablePaths \subseteq Paths
  /\ \A list \in FragmentLists : WellFormed(list)

VARIABLES
  fragments,    \* what the scan returned
  epc,          \* where run_scan is
  frag,         \* index of the loop over fragments
  pos,          \* index of the loop over the agents of fragments[frag]
  occurrences,  \* evaluate()'s occurrence_counts, 0 for a missing key
  findings, diagnostics

engineVars == <<epc, frag, pos, occurrences, findings, diagnostics>>

Finding == [file : Paths, hash : Hashes, occurrence : Nat, agent : Nat \ {0}]

\* compute_fingerprint: SHA-256 of the joined fields, taken to be injective.
\* Rule id and version are those of the one rule.
Fingerprint(finding) == <<finding.file, finding.hash, finding.occurrence>>

TypeOK ==
  /\ WellFormed(fragments)
  /\ epc \in {"fragments", "agents", "returned", "raised"}
  /\ frag \in 1..(Len(fragments) + 1)
  /\ pos \in Nat \ {0}
  /\ epc = "agents" => /\ frag \in DOMAIN fragments
                       /\ fragments[frag].file # SCAN_LEVEL_FILE
                       /\ pos <= Len(fragments[frag].agents) + 1
  /\ occurrences \in [Hashes -> Nat]
  /\ findings \in Seq(Finding)
  /\ diagnostics \in SUBSET Diagnostic

NoOccurrences == [h \in Hashes |-> 0]

EngineInit ==
  /\ epc = "fragments" /\ frag = 1 /\ pos = 1
  /\ occurrences = NoOccurrences
  /\ findings = <<>> /\ diagnostics = {}

\* Mutant of NextFragment: no `continue` for the scan-level fragment.
NextFragmentJudgingWhole ==
  /\ epc = "fragments" /\ frag <= Len(fragments)
  /\ diagnostics' = diagnostics \cup fragments[frag].diagnostics
  /\ epc' = "agents" /\ pos' = 1 /\ occurrences' = NoOccurrences
  /\ UNCHANGED <<frag, findings>>

\* Mutant of NextFragment: the scan-level fragment is skipped too early.
NextFragmentSkippingWhole ==
  /\ epc = "fragments" /\ frag <= Len(fragments)
  /\ IF fragments[frag].file = SCAN_LEVEL_FILE
     THEN frag' = frag + 1 /\ UNCHANGED <<epc, pos, occurrences, diagnostics>>
     ELSE /\ epc' = "agents" /\ pos' = 1 /\ UNCHANGED frag
          /\ occurrences' = NoOccurrences
          /\ diagnostics' = diagnostics \cup fragments[frag].diagnostics
  /\ UNCHANGED findings

\* Mutant of NextFragment: one count for the whole scan.
NextFragmentKeepingCounts ==
  /\ epc = "fragments" /\ frag <= Len(fragments)
  /\ diagnostics' = diagnostics \cup fragments[frag].diagnostics
  /\ IF fragments[frag].file = SCAN_LEVEL_FILE
     THEN frag' = frag + 1 /\ UNCHANGED <<epc, pos>>
     ELSE epc' = "agents" /\ pos' = 1 /\ UNCHANGED frag
  /\ UNCHANGED <<occurrences, findings>>

\* The next fragment: collect its diagnostics, then evaluate the rule on it,
\* which starts counting occurrences afresh.
NextFragment ==
  /\ epc = "fragments" /\ frag <= Len(fragments)
  /\ diagnostics' = diagnostics \cup fragments[frag].diagnostics
  /\ IF fragments[frag].file = SCAN_LEVEL_FILE
     THEN frag' = frag + 1 /\ UNCHANGED <<epc, pos, occurrences>>
     ELSE /\ epc' = "agents" /\ pos' = 1 /\ UNCHANGED frag
          /\ occurrences' = NoOccurrences
  /\ UNCHANGED findings

\* "if agent.has_step_bound: continue"
PassBounded ==
  /\ epc = "agents" /\ pos <= Len(fragments[frag].agents)
  /\ fragments[frag].agents[pos].bounded
  /\ pos' = pos + 1
  /\ UNCHANGED <<epc, frag, occurrences, findings, diagnostics>>

\* Mutant of Flag: every occurrence is number 0.
FlagUncounted ==
  /\ epc = "agents" /\ pos <= Len(fragments[frag].agents)
  /\ LET file == fragments[frag].file
         agent == fragments[frag].agents[pos]
     IN /\ ~agent.bounded /\ file \notin UnencodablePaths
        /\ findings' = Append(findings, [file |-> file, hash |-> agent.hash,
                                         occurrence |-> 0, agent |-> pos])
  /\ pos' = pos + 1
  /\ UNCHANGED <<epc, frag, occurrences, diagnostics>>

\* An agent without a bound: count it, fingerprint it, report it.
Flag ==
  /\ epc = "agents" /\ pos <= Len(fragments[frag].agents)
  /\ LET file == fragments[frag].file
         agent == fragments[frag].agents[pos]
     IN /\ ~agent.bounded /\ file \notin UnencodablePaths
        /\ occurrences' = [occurrences EXCEPT ![agent.hash] = @ + 1]
        /\ findings' = Append(findings, [file |-> file, hash |-> agent.hash,
                                         occurrence |-> occurrences[agent.hash],
                                         agent |-> pos])
  /\ pos' = pos + 1
  /\ UNCHANGED <<epc, frag, diagnostics>>

\* The path cannot be encoded for hashing: UnicodeEncodeError leaves run_scan.
RaiseOnFingerprint ==
  /\ epc = "agents" /\ pos <= Len(fragments[frag].agents)
  /\ ~fragments[frag].agents[pos].bounded
  /\ fragments[frag].file \in UnencodablePaths
  /\ epc' = "raised"
  /\ UNCHANGED <<frag, pos, occurrences, findings, diagnostics>>

EndFragment ==
  /\ epc = "agents" /\ pos > Len(fragments[frag].agents)
  /\ epc' = "fragments" /\ frag' = frag + 1
  /\ UNCHANGED <<pos, occurrences, findings, diagnostics>>

Return ==
  /\ epc = "fragments" /\ frag > Len(fragments)
  /\ epc' = "returned"
  /\ UNCHANGED <<frag, pos, occurrences, findings, diagnostics>>

EngineStep ==
  NextFragment \/ PassBounded \/ Flag \/ RaiseOnFingerprint \/ EndFragment \/ Return

(***************************************************************************)
(* The engine by itself, on any list of fragments a scan may return.       *)
(***************************************************************************)
vars == <<fragments, engineVars>>

Init == fragments \in FragmentLists /\ EngineInit

Run == EngineStep /\ UNCHANGED fragments

Next == Run \/ (epc \in {"returned", "raised"} /\ UNCHANGED vars)

Spec == Init /\ [][Next]_vars

\* No two findings of a scan share a fingerprint, so a baseline can tell apart
\* every copy of a repeated pattern ("occurrence_index: disambiguates multiple
\* structurally-identical matches in one file", fingerprint.py:43-44).
FingerprintsDistinct ==
  \A i, j \in DOMAIN findings :
    Fingerprint(findings[i]) = Fingerprint(findings[j]) => i = j

\* The agents of a list that have no bound and this hash.
Unbounded(agents, h) == {k \in DOMAIN agents : ~agents[k].bounded /\ agents[k].hash = h}

ExpectedFingerprints ==
  UNION {{<<fragments[i].file, h, n>> : n \in 0..(Cardinality(Unbounded(fragments[i].agents, h)) - 1)} :
           i \in DOMAIN fragments, h \in Hashes}

\* The fingerprints of a scan depend on nothing but how many unbounded agents
\* of each shape a file has: not on the order of files, nor on where in a file
\* the agents stand or which bounded ones stand between them.  Copying a
\* pattern once more adds a fingerprint and changes none (rule.py:71-106).
FingerprintsExact ==
  epc = "returned" =>
    {Fingerprint(findings[k]) : k \in DOMAIN findings} = ExpectedFingerprints

\* A scan's diagnostics all reach the caller, those of the scan as a whole and
\* those of files with findings included (engine.py:27-30).
DiagnosticsComplete ==
  epc = "returned" =>
    diagnostics = UNION {fragments[i].diagnostics : i \in DOMAIN fragments}
=============================================================================
