-------------------------- MODULE AgentLintProofs ---------------------------
(***************************************************************************)
(* Proofs about the whole command: the invariant of the scan and that of   *)
(* the engine, joined where one hands its fragments to the other.          *)
(***************************************************************************)
EXTENDS AgentLint, ScanProofs

\* The engine's theorems, for every list of fragments a scan may return.
E == INSTANCE EngineProofs WITH
       FragmentLists <- {list \in Seq(Fragment) : Rules!WellFormed(list)}

LEMMA SameDiagnostic == E!Diagnostic = Diagnostic /\ Rules!Diagnostic = Diagnostic
BY DEF E!Diagnostic, Rules!Diagnostic, Diagnostic, E!ConfigKeys, Rules!ConfigKeys, ConfigKeys,
       E!DiagnosticLevel, Rules!DiagnosticLevel, DiagnosticLevel, E!CONFIG_FILENAME,
       Rules!CONFIG_FILENAME, CONFIG_FILENAME

LEMMA SameFragments == E!Fragment = Fragment /\ Rules!Fragment = Fragment
BY SameDiagnostic DEF E!Fragment, Rules!Fragment, Fragment, E!Agent, Rules!Agent, Agent

LEMMA SameWellFormed == \A list : E!WellFormed(list) <=> Rules!WellFormed(list)
BY SameFragments DEF E!WellFormed, Rules!WellFormed

LEMMA EngineAssumed == E!SentinelIsNoPath /\ E!KeysAreNamed /\ E!EngineAssumption
BY SameWellFormed, SentinelIsNoPath, KeysAreNamed, InvocationAssumption
   DEF E!SentinelIsNoPath, E!KeysAreNamed, E!EngineAssumption

\* What each stage of the command may rely on.
InStage ==
  /\ cpc \in {"args", "config"} => spc = "begin"
  /\ cpc \in {"args", "config", "scan"} => Rules!EngineInit
  /\ cpc = "report" => epc = "returned"
  /\ exit \in {"clean", "partial", "findings"} => epc = "returned" /\ exit = ExitCode

CmdInv == ScanInv /\ CliTypeOK /\ InStage /\ E!Exact /\ E!Collected

-----------------------------------------------------------------------------
\* A scan hands the engine what it expects.
LEMMA ScanIsWellFormed == ScanInv => E!WellFormed(fragments)
<1> SUFFICES ASSUME ScanInv PROVE E!WellFormed(fragments)
  OBVIOUS
<1>1. fragments \in Seq(Fragment) /\ SCAN_LEVEL_FILE \notin PythonFiles
  BY ScanFacts
<1>2. \A i \in DOMAIN fragments :
        fragments[i].file = SCAN_LEVEL_FILE => fragments[i].agents = <<>>
  BY <1>1 DEF ScanInv, AgentsAsRead
<1>3. \A i, j \in DOMAIN fragments : fragments[i].file = fragments[j].file => i = j
  BY DEF ScanInv, OneFragmentPerFile
<1> QED
  BY <1>1, <1>2, <1>3, SameFragments DEF E!WellFormed

\* The engine starts in order.
LEMMA EngineStarts == ScanInv /\ Rules!EngineInit => E!Exact /\ E!Collected
<1> SUFFICES ASSUME ScanInv, Rules!EngineInit PROVE E!Exact /\ E!Collected
  OBVIOUS
<1>1. E!Init
  BY ScanIsWellFormed, SameWellFormed, ScanFacts
     DEF E!Init, E!EngineInit, Rules!EngineInit, E!NoOccurrences, Rules!NoOccurrences
<1> QED
  BY <1>1, EngineAssumed, E!InitExact, E!InitCollected

LEMMA EngineStepsAlike == Rules!EngineStep /\ UNCHANGED fragments => E!Run
BY DEF Rules!EngineStep, E!Run, E!EngineStep, Rules!NextFragment, E!NextFragment,
       Rules!PassBounded, E!PassBounded, Rules!Flag, E!Flag, Rules!RaiseOnFingerprint,
       E!RaiseOnFingerprint, Rules!EndFragment, E!EndFragment, Rules!Return, E!Return,
       Rules!NoOccurrences, E!NoOccurrences

LEMMA EngineKeeps ==
  E!Exact /\ E!Collected /\ Rules!EngineStep /\ UNCHANGED fragments
    => E!Exact' /\ E!Collected'
<1> SUFFICES ASSUME E!Exact, E!Collected, Rules!EngineStep, UNCHANGED fragments
             PROVE  E!Exact' /\ E!Collected'
  OBVIOUS
<1>1. [E!Next]_(E!vars)
  BY EngineStepsAlike DEF E!Next
<1>2. E!TypeOK
  BY DEF E!Exact
<1> QED
  BY <1>1, <1>2, EngineAssumed, E!NextExact, E!NextCollected

LEMMA EngineStutters ==
  E!Exact /\ E!Collected /\ UNCHANGED <<fragments, ruleVars>> => E!Exact' /\ E!Collected'
<1> SUFFICES ASSUME E!Exact, E!Collected, UNCHANGED <<fragments, ruleVars>>
             PROVE  E!Exact' /\ E!Collected'
  OBVIOUS
<1>1. [E!Next]_(E!vars)
  BY DEF ruleVars, E!vars, E!engineVars
<1>2. E!TypeOK
  BY DEF E!Exact
<1> QED
  BY <1>1, <1>2, EngineAssumed, E!NextExact, E!NextCollected

-----------------------------------------------------------------------------
\* A warning about the configuration bears the key it is about.
LEMMA WarnedKeys ==
  ASSUME NEW keys \in SUBSET ConfigKeys
  PROVE  /\ ConfigWarnings(keys) \subseteq Diagnostic
         /\ \A d \in ConfigWarnings(keys) : ~d.limit /\ d.key # ""
         /\ {d.key : d \in ConfigWarnings(keys)} = keys
<1> DEFINE warning(k) == [Warning(SCAN_LEVEL_FILE) EXCEPT !.key = k]
<1>1. ASSUME NEW k \in keys
      PROVE  warning(k).key = k /\ ~warning(k).limit /\ warning(k) \in Diagnostic
  <2>1. Warning(SCAN_LEVEL_FILE) \in Diagnostic /\ ~Warning(SCAN_LEVEL_FILE).limit
    BY DEF Warning, Diagnostic, DiagnosticLevel
  <2>2. warning(k) \in Diagnostic
    BY <2>1 DEF Diagnostic
  <2>3. warning(k).key = k
    BY <2>1 DEF Diagnostic
  <2>4. warning(k).limit = Warning(SCAN_LEVEL_FILE).limit
    BY <2>1 DEF Diagnostic
  <2> QED
    BY <2>1, <2>2, <2>3, <2>4
<1>2. "" \notin ConfigKeys
  BY KeysAreNamed DEF ConfigKeys, CONFIG_FILENAME
<1>3. ConfigWarnings(keys) = {warning(k) : k \in keys}
  BY DEF ConfigWarnings
<1> HIDE DEF warning
<1>4. \A k \in keys : warning(k).key = k /\ ~warning(k).limit /\ warning(k) \in Diagnostic
  BY <1>1
<1>5. \A d \in ConfigWarnings(keys) : ~d.limit /\ d.key # ""
  BY <1>2, <1>3, <1>4
<1>6. {d.key : d \in ConfigWarnings(keys)} = keys
  BY <1>3, <1>4
<1> QED
  BY <1>3, <1>4, <1>5, <1>6

LEMMA ComplaintsAreKeys ==
  /\ \A doc \in Document : doc.unknown \subseteq ConfigKeys /\ doc.rules.unknown \subseteq ConfigKeys
  /\ {CONFIG_FILENAME, "exclude", "rules", "rules.enable", "rules.disable"} \subseteq ConfigKeys
BY DEF Document, RulesValue, ConfigKeys

LEMMA LoadedConfigType == \A doc \in Document : LoadConfigForRoot(doc) \in Config \/ LoadRaises(doc)
<1> SUFFICES ASSUME NEW doc \in Document, ~LoadRaises(doc)
             PROVE  LoadConfigForRoot(doc) \in Config
  OBVIOUS
<1> DEFINE rules == ParseRules(doc.rules)
           own == doc.unknown \cup Complaint("exclude", doc.exclude)
<1>1. doc.exclude.items \subseteq SUBSET Entries /\ doc.rules \in RulesValue
      /\ doc.form \in {"missing", "null", "scalar", "mapping"}
  BY DEF Document, Value, LoadRaises
<1>2. DefaultConfig \in Config
  BY DEF DefaultConfig, Config
<1>3. [DefaultConfig EXCEPT !.diagnostics = ConfigWarnings({CONFIG_FILENAME})] \in Config
  <2>1. ConfigWarnings({CONFIG_FILENAME}) \subseteq Diagnostic
    BY ComplaintsAreKeys, WarnedKeys
  <2> QED
    BY <2>1 DEF DefaultConfig, Config
<1>4. doc.rules.enable.items \subseteq STRING /\ doc.rules.disable.items \subseteq STRING
  BY <1>1, RuleNamesAssumption DEF RulesValue, Value
<1>5. rules.enable \subseteq STRING /\ rules.disable \subseteq STRING
  BY <1>4 DEF ParseRules, AsStrTuple
<1>6. \E keys \in SUBSET ConfigKeys : rules.diagnostics = ConfigWarnings(keys)
  <2>1. CASE doc.rules.form = "mapping"
    <3> DEFINE keys == doc.rules.unknown \cup Complaint("rules.enable", doc.rules.enable)
                         \cup Complaint("rules.disable", doc.rules.disable)
    <3>1. keys \in SUBSET ConfigKeys
      BY ComplaintsAreKeys DEF Complaint
    <3>2. rules.diagnostics = ConfigWarnings(keys)
      BY <2>1 DEF ParseRules
    <3> QED
      BY <3>1, <3>2
  <2>2. CASE doc.rules.form # "mapping"
    <3>1. Complaint("rules", doc.rules) \in SUBSET ConfigKeys
      BY ComplaintsAreKeys DEF Complaint
    <3>2. rules.diagnostics = ConfigWarnings(Complaint("rules", doc.rules))
      BY <2>2 DEF ParseRules
    <3> QED
      BY <3>1, <3>2
  <2> QED
    BY <2>1, <2>2
<1>7. AsStrTuple(doc.exclude) \subseteq SUBSET Entries
  BY <1>1 DEF AsStrTuple
<1>8. ConfigWarnings(own) \cup rules.diagnostics \subseteq Diagnostic
  <2>1. own \in SUBSET ConfigKeys
    BY ComplaintsAreKeys DEF Complaint
  <2> HIDE DEF own, rules
  <2> QED
    BY <1>6, <2>1, WarnedKeys
<1>9. CASE doc.form = "mapping"
  <2>1. LoadConfigForRoot(doc) =
          [exclude |-> AsStrTuple(doc.exclude),
           enable |-> rules.enable, disable |-> rules.disable,
           diagnostics |-> ConfigWarnings(own) \cup rules.diagnostics]
    BY <1>9 DEF LoadConfigForRoot, ParseConfig
  <2> HIDE DEF rules, own
  <2> QED
    BY <2>1, <1>5, <1>7, <1>8 DEF Config
<1>10. CASE doc.form # "mapping"
  BY <1>1, <1>2, <1>3, <1>10 DEF LoadConfigForRoot, ParseConfig
<1> QED
  BY <1>9, <1>10

LEMMA InitCmdInv == Init => CmdInv
<1> SUFFICES ASSUME Init PROVE CmdInv
  OBVIOUS
<1>1. ScanInv /\ spc = "begin" /\ Rules!EngineInit
  BY InitScanInv DEF Init, CliInit, RepositoryInit, ScanInit
<1>2. E!Exact /\ E!Collected
  BY <1>1, EngineStarts
<1>3. CliTypeOK
  BY DEF Init, CliInit, CliTypeOK
<1> QED
  BY <1>1, <1>2, <1>3 DEF Init, CliInit, CmdInv, InStage

\* Before the scan the loaded configuration replaces the one it would have had.
LEMMA LoadConfigScanInv == CmdInv /\ LoadConfig => ScanInv'
<1> SUFFICES ASSUME CmdInv, LoadConfig PROVE ScanInv'
  OBVIOUS
<1>1. /\ ScanInv /\ spc = "begin" /\ gpc' = gpc /\ invocation \in Invocation
      /\ UNCHANGED <<workspaceVars, tree, gitignore, generatorVars, frontendVars, scanVars>>
  BY InvocationAssumption DEF CmdInv, InStage, CliTypeOK, LoadConfig, generatorVars
<1>2. config' \in Config
  <2>1. config \in Config /\ invocation.document \in Document
    BY <1>1 DEF ScanInv, WalkInv, DiscoveryTypeOK, Invocation
  <2>2. \/ config' = config
        \/ ~LoadRaises(invocation.document) /\ config' = LoadConfigForRoot(invocation.document)
    BY DEF LoadConfig
  <2> QED
    BY <2>1, <2>2, LoadedConfigType
<1>3. LoweringInv'
  BY <1>1, NextLoweringInv DEF ScanInv, allFrontendVars
<1>4. WalkInv'
  BY <1>1, <1>2 DEF generatorVars, ScanInv, WalkInv, DiscoveryTypeOK, YieldedFiles, NoFileTwice
<1>5. /\ UNCHANGED <<spc, scanStart, truncated, fragments, readAs, passed, late, now>>
      /\ UNCHANGED <<yielded, current, gpc, path, fragment, fpc, source>>
  BY <1>1 DEF scanVars, historyVars, generatorVars, frontendVars, workspaceVars
<1>6. /\ FragmentFiles' = FragmentFiles /\ YieldedFiles' = YieldedFiles
      /\ (WallTimeOver' <=> WallTimeOver)
  BY <1>5 DEF FragmentFiles, YieldedFiles, WallTimeOver
<1>7. AllTold'
  BY <1>1, <1>5, <1>6 DEF ScanInv, AllTold, Told, Pending, FragmentsOf
<1> QED
  BY <1>1, <1>3, <1>4, <1>5, <1>6, <1>7
     DEF ScanInv, ScanTypeOK, Labelled, Located, Timed, OneFragmentPerFile,
         AgentsAsRead, LimitsBorne, TruncationTold, Reported

\* While the engine has not begun, the scan may add to the fragments.
LEMMA EngineWaits ==
  ASSUME ScanInv', Rules!EngineInit, UNCHANGED ruleVars
  PROVE  Rules!EngineInit' /\ E!Exact' /\ E!Collected'
<1>1. Rules!EngineInit'
  BY DEF ruleVars, Rules!EngineInit, Rules!NoOccurrences
<1>2. (ScanInv /\ Rules!EngineInit)' => (E!Exact /\ E!Collected)'
  BY EngineStarts, PTL
<1> QED
  BY <1>1, <1>2

LEMMA NextCmdInv == CmdInv /\ [Next]_allVars => CmdInv'
<1> SUFFICES ASSUME CmdInv, [Next]_allVars PROVE CmdInv'
  OBVIOUS
<1>0. ScanInv /\ CliTypeOK /\ InStage /\ E!Exact /\ E!Collected
  BY DEF CmdInv
<1>1. CASE CheckPath
  <2>1. ScanInv' /\ E!Exact' /\ E!Collected'
    BY <1>0, <1>1, StutterScanInv, EngineStutters DEF CheckPath, allScanVars, scanVars
  <2>2. CliTypeOK' /\ InStage'
    <3>1. UNCHANGED <<spc, epc, frag, pos, occurrences, findings, diagnostics>>
      BY <1>1 DEF CheckPath, allScanVars, scanVars, ruleVars
    <3> QED
      BY <1>0, <1>1, <3>1
         DEF CheckPath, Exit, Proceed, CliTypeOK, Outcomes, InStage, Rules!EngineInit,
             Rules!NoOccurrences
  <2> QED
    BY <2>1, <2>2 DEF CmdInv
<1>2. CASE LoadConfig
  <2>1. ScanInv'
    BY <1>2, LoadConfigScanInv
  <2>2. Rules!EngineInit /\ UNCHANGED ruleVars /\ spc' = spc
    BY <1>0, <1>2 DEF LoadConfig, InStage, scanVars
  <2>3. Rules!EngineInit' /\ E!Exact' /\ E!Collected'
    BY <2>1, <2>2, EngineWaits
  <2>4. CliTypeOK' /\ InStage'
    BY <1>0, <1>2, <2>2, <2>3 DEF LoadConfig, Exit, Proceed, CliTypeOK, Outcomes, InStage
  <2> QED
    BY <2>1, <2>3, <2>4 DEF CmdInv
<1>3. CASE ScanFiles
  <2>1. ScanInv'
    BY <1>0, <1>3, ScanStepInv DEF ScanFiles
  <2>2. Rules!EngineInit' /\ E!Exact' /\ E!Collected'
    BY <1>0, <1>3, <2>1, EngineWaits DEF ScanFiles, InStage
  <2>3. \/ Proceed("rules") \/ Exit("internal") \/ Proceed("scan")
    BY <1>3 DEF ScanFiles
  <2>4. CliTypeOK' /\ InStage'
    BY <1>0, <1>3, <2>2, <2>3 DEF ScanFiles, Exit, Proceed, CliTypeOK, Outcomes, InStage
  <2> QED
    BY <2>1, <2>2, <2>4 DEF CmdInv
<1>4. CASE EvaluateRules
  <2>1. ScanInv' /\ fragments' = fragments
    BY <1>0, <1>4, StutterScanInv DEF EvaluateRules, allScanVars, scanVars
  <2>2. E!Exact' /\ E!Collected'
    BY <1>0, <1>4, <2>1, EngineKeeps DEF EvaluateRules
  <2>3. \/ Proceed("report") /\ epc' = "returned"
        \/ Exit("internal")
        \/ Proceed("rules")
    BY <1>4 DEF EvaluateRules
  <2>4. CliTypeOK' /\ InStage'
    BY <1>0, <1>4, <2>3 DEF EvaluateRules, Exit, Proceed, CliTypeOK, Outcomes, InStage
  <2> QED
    BY <2>1, <2>2, <2>4 DEF CmdInv
<1>5. CASE Report
  <2>1. ScanInv' /\ E!Exact' /\ E!Collected'
    BY <1>0, <1>5, StutterScanInv, EngineStutters DEF Report, allScanVars, scanVars
  <2>2. epc' = epc /\ findings' = findings /\ diagnostics' = diagnostics
    BY <1>5 DEF Report, ruleVars
  <2>3. ExitCode' = ExitCode /\ ExitCode \in Outcomes
    BY <2>2 DEF ExitCode, LimitHit, Outcomes
  <2>4. exit' = "traceback" \/ exit' = ExitCode
    BY <1>5 DEF Report, Exit
  <2>5. CliTypeOK' /\ InStage'
    BY <1>0, <1>5, <2>2, <2>3, <2>4 DEF Report, Exit, CliTypeOK, Outcomes, InStage
  <2> QED
    BY <2>1, <2>5 DEF CmdInv
<1>6. CASE Around
  <2>1. ScanInv' /\ E!Exact' /\ E!Collected'
    BY <1>0, <1>6, EnvironmentScanInv, EngineStutters DEF Around, outerVars, scanVars
  <2>2. UNCHANGED <<spc, cliVars, ruleVars>>
    BY <1>6 DEF Around, scanVars, outerVars
  <2>3. CliTypeOK' /\ InStage'
    BY <1>0, <2>2
       DEF cliVars, ruleVars, CliTypeOK, InStage, Rules!EngineInit, Rules!NoOccurrences,
           ExitCode, LimitHit
  <2> QED
    BY <2>1, <2>3 DEF CmdInv
<1>7. CASE UNCHANGED allVars
  <2>1. ScanInv' /\ E!Exact' /\ E!Collected'
    BY <1>0, <1>7, StutterScanInv, EngineStutters DEF allVars, allScanVars, outerVars, scanVars
  <2>2. UNCHANGED <<spc, cliVars, ruleVars>>
    BY <1>7 DEF allVars, allScanVars, scanVars, outerVars
  <2>3. CliTypeOK' /\ InStage'
    BY <1>0, <2>2
       DEF cliVars, ruleVars, CliTypeOK, InStage, Rules!EngineInit, Rules!NoOccurrences,
           ExitCode, LimitHit
  <2> QED
    BY <2>1, <2>3 DEF CmdInv
<1> QED
  BY <1>1, <1>2, <1>3, <1>4, <1>5, <1>6, <1>7 DEF Next, CliStep

\* The command and all it is composed of keep their variables well typed, for
\* any tree, configuration, budgets and edits (cli.py:44-84).
THEOREM CommandTypeCorrect == Spec => []TypeOK
<1>1. CmdInv => TypeOK
  <2>1. E!TypeOK => Rules!TypeOK
    BY SameWellFormed, SameDiagnostic
       DEF E!TypeOK, Rules!TypeOK, E!Finding, Rules!Finding
  <2> QED
    BY <2>1 DEF CmdInv, E!Exact, TypeOK, RepositoryTypeOK, ScanInv, LoweringInv,
                LoweringTypeOK, WalkInv
<1> QED
  BY InitCmdInv, NextCmdInv, <1>1, PTL DEF Spec

-----------------------------------------------------------------------------
FilesOfFindings == {findings[k].file : k \in DOMAIN findings}

\* What the contract calls decided and flagged.
DecidedFiles == {f \in Files : FragmentsOf(f) # {}}
FlaggedFiles == {f \in Files : \E i \in FragmentsOf(f) : AnyAgentUnbounded(i)}

\* When the engine returns, its findings name the files flagged in the scan.
LEMMA FindingsNameFlagged == CmdInv /\ epc = "returned" => FilesOfFindings = FlaggedFiles
<1> SUFFICES ASSUME CmdInv, epc = "returned" PROVE FilesOfFindings = FlaggedFiles
  OBVIOUS
<1>1. FilesOfFindings = {fragments[i].file : i \in {j \in DOMAIN fragments : AnyAgentUnbounded(j)}}
  BY E!FilesFound, EngineAssumed
     DEF CmdInv, FilesOfFindings, AnyAgentUnbounded, E!HasUnbounded
<1>2. \A i \in DOMAIN fragments : AnyAgentUnbounded(i) => fragments[i].file \in Files
  <2>1. \A i \in DOMAIN fragments : AnyAgentUnbounded(i) => fragments[i].agents # <<>>
    BY DEF AnyAgentUnbounded
  <2> QED
    BY <2>1, ScanFacts DEF CmdInv, ScanInv, AgentsAsRead
<1> QED
  BY <1>1, <1>2 DEF FlaggedFiles, FragmentsOf

LEMMA FindingsIffFlagged == CmdInv /\ epc = "returned" => (findings # <<>> <=> FlaggedFiles # {})
<1> SUFFICES ASSUME CmdInv, epc = "returned" PROVE findings # <<>> <=> FlaggedFiles # {}
  OBVIOUS
<1>1. findings \in Seq(E!Finding)
  BY DEF CmdInv, E!Exact, E!TypeOK
<1>2. findings # <<>> <=> DOMAIN findings # {}
  <2>1. Len(findings) \in Nat /\ DOMAIN findings = 1..Len(findings)
        /\ (findings = <<>> <=> Len(findings) = 0)
    BY <1>1
  <2>2. 1..0 = {} /\ \A n \in Nat : n # 0 => 1 \in 1..n
    OBVIOUS
  <2> QED
    BY <2>1, <2>2
<1> QED
  BY <1>2, FindingsNameFlagged DEF FilesOfFindings

\* The findings name exactly the files whose text, as it was read, has an
\* unbounded agent, unless it was lowered too late to say; and they decide the
\* exit code over a limit that was hit as well (cli.py:12-14).
THEOREM FindingsDecide == Spec => []FindingsDecideExit
<1>1. CmdInv => FindingsDecideExit
  <2> SUFFICES ASSUME CmdInv, exit \in {"clean", "partial", "findings"}
               PROVE  /\ exit = "findings" <=> findings # <<>>
                      /\ FilesOfFindings =
                           {f \in PythonFiles :
                              /\ FlaggedText(readAs[f])
                              /\ \E i \in FragmentsOf(f) : fragments[i].agents # <<>>}
    BY DEF FindingsDecideExit, FilesOfFindings
  <2>1. epc = "returned" /\ exit = ExitCode
    BY DEF CmdInv, InStage
  <2>2. exit = "findings" <=> findings # <<>>
    BY <2>1 DEF ExitCode
  <2>3. \A i \in DOMAIN fragments :
          fragments[i].agents # <<>> =>
            /\ fragments[i].file \in PythonFiles
            /\ FlaggedText(readAs[fragments[i].file]) <=> AnyAgentUnbounded(i)
    BY DEF CmdInv, ScanInv, AgentsAsRead, FlaggedText, AnyAgentUnbounded
  <2>4. \A i \in DOMAIN fragments : AnyAgentUnbounded(i) => fragments[i].agents # <<>>
    BY DEF AnyAgentUnbounded
  <2>5. PythonFiles \subseteq Files
    BY ScanAssumption
  <2>6. FlaggedFiles = {f \in PythonFiles :
                          /\ FlaggedText(readAs[f])
                          /\ \E i \in FragmentsOf(f) : fragments[i].agents # <<>>}
    BY <2>3, <2>4, <2>5 DEF FlaggedFiles, FragmentsOf
  <2> QED
    BY <2>1, <2>2, <2>6, FindingsNameFlagged
<1> QED
  BY InitCmdInv, NextCmdInv, <1>1, PTL DEF Spec

-----------------------------------------------------------------------------
\* The command refines the contract: the expressions the contract's variables
\* stand for, and what changes none of them.
ReportedFiles == IF exit = "findings" THEN FilesOfFindings ELSE {}
AnyLimit == \E d \in Reported : d.limit

ContractSafety == Contract!Init /\ [][Contract!Next]_(Contract!vars)

LEMMA SameFragmentsSameContract ==
  ASSUME fragments' = fragments
  PROVE  DecidedFiles' = DecidedFiles /\ FlaggedFiles' = FlaggedFiles /\ (AnyLimit' <=> AnyLimit)
BY DEF DecidedFiles, FlaggedFiles, AnyLimit, FragmentsOf, AnyAgentUnbounded, Reported

LEMMA NothingHappens ==
  ASSUME UNCHANGED <<fragments, exit, findings>>
  PROVE  UNCHANGED (Contract!vars)
BY SameFragmentsSameContract
   DEF ReportedFiles, FilesOfFindings, Contract!vars, DecidedFiles, FlaggedFiles, AnyLimit

\* Giving up, with an exit code that promises nothing.
LEMMA GivesUp ==
  ASSUME exit = "running", fragments' = fragments,
         \/ exit' \in {"internal", "traceback"}
         \/ exit' = "usage" /\ fragments = <<>>
  PROVE  Contract!GiveUp
<1>1. ReportedFiles = {} /\ ReportedFiles' = {}
  BY DEF ReportedFiles
<1>2. fragments = <<>> => DecidedFiles = {}
  BY DEF DecidedFiles, FragmentsOf
<1> QED
  BY <1>1, <1>2, SameFragmentsSameContract
     DEF Contract!GiveUp, DecidedFiles, FlaggedFiles, AnyLimit, ReportedFiles, FilesOfFindings

\* What a fragment of a new file changes for the contract.
LEMMA AppendToContract ==
  ASSUME fragments \in Seq(Fragment), NEW new \in Fragment,
         new.file \notin FragmentFiles, fragments' = Append(fragments, new)
  PROVE  /\ DecidedFiles' = DecidedFiles \cup ({new.file} \cap Files)
         /\ FlaggedFiles' \in {FlaggedFiles, FlaggedFiles \cup ({new.file} \cap Files)}
         /\ AnyLimit' \in {AnyLimit, TRUE}
<1>0. Len(fragments) \in Nat
  OBVIOUS
<1> PICK n \in Nat : n = Len(fragments) + 1
  BY <1>0
<1>1. /\ DOMAIN fragments' = DOMAIN fragments \cup {n} /\ n \notin DOMAIN fragments
      /\ \A i \in DOMAIN fragments : fragments'[i] = fragments[i]
      /\ fragments'[n] = new
  <2>1. /\ DOMAIN fragments = 1..Len(fragments) /\ DOMAIN fragments' = 1..n
        /\ Len(fragments) \in Nat
        /\ \A i \in DOMAIN fragments : fragments'[i] = fragments[i]
        /\ fragments'[n] = new
    BY AppendFragment
  <2> QED
    BY <2>1
<1>2. \A f : FragmentsOf(f)' = IF f = new.file THEN FragmentsOf(f) \cup {n} ELSE FragmentsOf(f)
  BY <1>1 DEF FragmentsOf
<1>3. DecidedFiles' = DecidedFiles \cup ({new.file} \cap Files)
  BY <1>2 DEF DecidedFiles
<1>4. \A i \in DOMAIN fragments : AnyAgentUnbounded(i)' <=> AnyAgentUnbounded(i)
  BY <1>1 DEF AnyAgentUnbounded
<1>5. FlaggedFiles' \in {FlaggedFiles, FlaggedFiles \cup ({new.file} \cap Files)}
  <2>1. \A f : FragmentsOf(f) \subseteq DOMAIN fragments
    BY DEF FragmentsOf
  <2>2. CASE AnyAgentUnbounded(n)'
    <3>1. FlaggedFiles' = FlaggedFiles \cup ({new.file} \cap Files)
      BY <1>2, <1>4, <2>1, <2>2 DEF FlaggedFiles
    <3> QED
      BY <3>1
  <2>3. CASE ~AnyAgentUnbounded(n)'
    <3>1. FlaggedFiles' = FlaggedFiles
      BY <1>2, <1>4, <2>1, <2>3 DEF FlaggedFiles
    <3> QED
      BY <3>1
  <2> QED
    BY <2>2, <2>3
<1>6. AnyLimit' \in {AnyLimit, TRUE}
  <2>1. Reported \subseteq Reported'
    BY <1>1 DEF Reported
  <2>2. AnyLimit => AnyLimit'
    BY <2>1 DEF AnyLimit
  <2>3. AnyLimit \in BOOLEAN /\ AnyLimit' \in BOOLEAN
    BY DEF AnyLimit
  <2> QED
    BY <2>2, <2>3
<1> QED
  BY <1>3, <1>5, <1>6

\* The steps of the scan: collecting a fragment decides its file, the last one
\* may tell of a limit, and what is raised gives up.
LEMMA ScanFilesRefines ==
  CmdInv /\ ScanFiles => [Contract!Next]_(Contract!vars)
<1> SUFFICES ASSUME CmdInv, ScanFiles PROVE [Contract!Next]_(Contract!vars)
  OBVIOUS
<1>0. /\ exit = "running" /\ findings' = findings
      /\ fragments \in Seq(Fragment) /\ ScanInv
      /\ \/ exit' = exit
         \/ spc' = "raised" /\ exit' = "internal"
  BY ScanFacts DEF CmdInv, CliTypeOK, ScanFiles, Exit, Proceed, ruleVars
<1>1. CASE fragments' = fragments
  <2>1. CASE exit' = exit
    BY <1>0, <1>1, <2>1, NothingHappens
  <2>2. CASE exit' = "internal"
    BY <1>0, <1>1, <2>2, GivesUp DEF Contract!Next
  <2> QED
    BY <1>0, <2>1, <2>2
<1>2. CASE Collect
  <2>1. /\ fragment \in Fragment /\ fragment.file = current /\ current \in Files
        /\ current \notin FragmentFiles /\ fragments' = Append(fragments, fragment)
        /\ exit' = exit
    BY <1>0, <1>2, ScanFacts DEF Collect, ScanInv, Located, Labelled
  <2>2. /\ DecidedFiles' = DecidedFiles \cup {current}
        /\ FlaggedFiles' \in {FlaggedFiles, FlaggedFiles \cup {current}}
        /\ AnyLimit' \in {AnyLimit, TRUE}
    <3>1. {current} \cap Files = {current}
      BY <2>1
    <3> QED
      BY <1>0, <2>1, <3>1, AppendToContract
  <2>3. current \notin DecidedFiles
    BY <2>1 DEF DecidedFiles, FragmentsOf, FragmentFiles
  <2>4. ReportedFiles = {} /\ ReportedFiles' = {}
    BY <1>0, <2>1 DEF ReportedFiles
  <2>5. PICK f \in Files : f = current
    BY <2>1
  <2>6. Contract!Decide(f)
    BY <1>0, <2>1, <2>2, <2>3, <2>4, <2>5
       DEF Contract!Decide, DecidedFiles, FlaggedFiles, AnyLimit, ReportedFiles,
           FilesOfFindings
  <2> QED
    BY <2>6 DEF Contract!Next
<1>3. CASE Finish /\ fragments' # fragments
  <2> DEFINE last == [file |-> SCAN_LEVEL_FILE, agents |-> <<>>,
                      diagnostics |-> ScanLevelDiagnostics]
  <2>1. fragments' = Append(fragments, last) /\ exit' = exit
    BY <1>0, <1>3 DEF Finish
  <2>2. last \in Fragment /\ last.file \notin FragmentFiles
    <3>1. scanDiags \in SUBSET Diagnostic /\ config.diagnostics \in SUBSET Diagnostic
      BY <1>0 DEF ScanInv, WalkInv, DiscoveryTypeOK, Config
    <3>2. ScanLimit(SCAN_LEVEL_FILE) \in Diagnostic
      BY DEF ScanLimit, Diagnostic, DiagnosticLevel
    <3>3. ScanLevelDiagnostics \in SUBSET Diagnostic
      BY <3>1, <3>2 DEF ScanLevelDiagnostics
    <3>4. FragmentFiles \subseteq PythonFiles /\ SCAN_LEVEL_FILE \notin PythonFiles
      BY <1>0, <1>3, ScanFacts DEF ScanInv, Located, Finish
    <3> QED
      BY <3>3, <3>4 DEF Fragment
  <2>3. {last.file} \cap Files = {}
    BY <1>0, ScanFacts
  <2> HIDE DEF last
  <2>4. DecidedFiles' = DecidedFiles /\ FlaggedFiles' = FlaggedFiles /\ AnyLimit' \in {AnyLimit, TRUE}
    BY <1>0, <2>1, <2>2, <2>3, AppendToContract
  <2>5. AnyLimit' = AnyLimit \/ AnyLimit' = TRUE
    BY <2>4
  <2>6. ReportedFiles' = ReportedFiles
    BY <1>0, <2>1 DEF ReportedFiles, FilesOfFindings
  <2>7. CASE AnyLimit' = AnyLimit
    BY <2>1, <2>4, <2>6, <2>7
       DEF Contract!vars, DecidedFiles, FlaggedFiles, AnyLimit, ReportedFiles, FilesOfFindings
  <2>8. CASE AnyLimit' = TRUE
    BY <1>0, <2>1, <2>4, <2>6, <2>8
       DEF Contract!Next, Contract!Truncate, DecidedFiles, FlaggedFiles, AnyLimit,
           ReportedFiles, FilesOfFindings
  <2> QED
    BY <2>5, <2>7, <2>8
<1> QED
  BY <1>1, <1>2, <1>3 DEF ScanFiles, ScanStep, BeginScan, Ask, Dispatch, CallLower, Lower

\* Reporting concludes with the verdict of the contract, or gives up.
LEMMA ReportRefines == CmdInv /\ Report => [Contract!Next]_(Contract!vars)
<1> SUFFICES ASSUME CmdInv, Report PROVE [Contract!Next]_(Contract!vars)
  OBVIOUS
<1>0. /\ exit = "running" /\ epc = "returned" /\ UNCHANGED <<fragments, findings>>
      /\ exit' = "traceback" \/ exit' = ExitCode
  BY DEF CmdInv, CliTypeOK, InStage, Report, Exit, allScanVars, scanVars, ruleVars
<1>1. CASE exit' = "traceback"
  BY <1>0, <1>1, GivesUp DEF Contract!Next
<1>2. CASE exit' = ExitCode
  <2>1. diagnostics = Reported
    <3>1. E!DiagnosticsComplete
      BY <1>0, E!AllCollected, EngineAssumed DEF CmdInv, E!Exact
    <3> QED
      BY <1>0, <3>1 DEF E!DiagnosticsComplete, Reported
  <2>2. LimitHit <=> AnyLimit
    BY <2>1 DEF LimitHit, AnyLimit
  <2>3. findings # <<>> <=> FlaggedFiles # {}
    BY <1>0, FindingsIffFlagged
  <2>4. FilesOfFindings = FlaggedFiles /\ FilesOfFindings' = FilesOfFindings
    BY <1>0, FindingsNameFlagged DEF FilesOfFindings
  <2>5. exit' = IF FlaggedFiles # {} THEN "findings" ELSE IF AnyLimit THEN "partial" ELSE "clean"
    BY <1>2, <2>2, <2>3 DEF ExitCode
  <2>6. ReportedFiles' = FlaggedFiles
    BY <2>4, <2>5 DEF ReportedFiles
  <2>7. Contract!Conclude
    BY <1>0, <2>5, <2>6, SameFragmentsSameContract
       DEF Contract!Conclude, Contract!Verdict, DecidedFiles, FlaggedFiles, AnyLimit,
           ReportedFiles, FilesOfFindings
  <2> QED
    BY <2>7 DEF Contract!Next
<1> QED
  BY <1>0, <1>1, <1>2

LEMMA NextRefines == CmdInv /\ [Next]_allVars => [Contract!Next]_(Contract!vars)
<1> SUFFICES ASSUME CmdInv, [Next]_allVars PROVE [Contract!Next]_(Contract!vars)
  OBVIOUS
<1>1. CASE CheckPath
  <2>1. /\ exit = "running" /\ UNCHANGED <<fragments, findings>> /\ fragments = <<>>
        /\ exit' \in {exit, "usage", "traceback"}
    BY <1>1 DEF CmdInv, CliTypeOK, InStage, ScanInv, Located, CheckPath, Exit, Proceed,
                allScanVars, scanVars, ruleVars
  <2> QED
    BY <2>1, NothingHappens, GivesUp DEF Contract!Next
<1>2. CASE LoadConfig
  <2>1. /\ exit = "running" /\ UNCHANGED <<fragments, findings>>
        /\ exit' = exit \/ exit' = "internal"
    BY <1>2 DEF CmdInv, CliTypeOK, LoadConfig, Exit, Proceed, scanVars, ruleVars
  <2> QED
    BY <2>1, NothingHappens, GivesUp DEF Contract!Next
<1>3. CASE ScanFiles
  BY <1>3, ScanFilesRefines
<1>4. CASE EvaluateRules
  <2>1. /\ exit = "running" /\ fragments' = fragments
        /\ exit' = exit \/ exit' = "internal"
    BY <1>4 DEF CmdInv, CliTypeOK, EvaluateRules, Exit, Proceed, allScanVars, scanVars
  <2>2. CASE exit' = exit
    <3>1. ReportedFiles = {} /\ ReportedFiles' = {}
      BY <2>1, <2>2 DEF ReportedFiles
    <3> QED
      BY <2>1, <2>2, <3>1, SameFragmentsSameContract
         DEF Contract!vars, DecidedFiles, FlaggedFiles, AnyLimit, ReportedFiles, FilesOfFindings
  <2>3. CASE exit' = "internal"
    BY <2>1, <2>3, GivesUp DEF Contract!Next
  <2> QED
    BY <2>1, <2>2, <2>3
<1>5. CASE Report
  BY <1>5, ReportRefines
<1>6. CASE Around
  BY <1>6, NothingHappens DEF Around, scanVars, outerVars, cliVars, ruleVars
<1>7. CASE UNCHANGED allVars
  BY <1>7, NothingHappens DEF allVars, allScanVars, scanVars, outerVars, cliVars, ruleVars
<1> QED
  BY <1>1, <1>2, <1>3, <1>4, <1>5, <1>6, <1>7 DEF Next, CliStep

LEMMA InitRefines == Init => Contract!Init
<1> SUFFICES ASSUME Init PROVE Contract!Init
  OBVIOUS
<1>1. fragments = <<>> /\ exit = "running"
  BY DEF Init, CliInit, RepositoryInit, ScanInit
<1>2. Reported = {} /\ \A f : FragmentsOf(f) = {}
  BY <1>1 DEF Reported, FragmentsOf
<1> QED
  BY <1>1, <1>2 DEF Contract!Init

\* Whatever the tree, the configuration, the edits and the clock, the command
\* does only what its exit codes promise: files are decided one at a time and
\* once, the outcome follows from them with findings before limits, and what
\* gives up reports nothing (cli.py:6-14).
THEOREM CommandKeepsContract == Spec => ContractSafety
<1> QED
  BY InitRefines, InitCmdInv, NextCmdInv, NextRefines, PTL DEF Spec, ContractSafety

-----------------------------------------------------------------------------
\* What the command's own properties rest on besides: when it concludes the
\* scan is over, under the configuration the document asked for.
Concluded == exit \in {"clean", "partial", "findings"}

FaultsOf(doc) == {k \in ConfigKeys : IsFault(k, doc)}

OutcomeInv ==
  /\ OriginInv
  /\ cpc \in {"rules", "report"} \/ Concluded => spc = "scanned"
  /\ cpc \in {"scan", "rules", "report"} \/ Concluded =>
       config.diagnostics = ConfigWarnings(FaultsOf(invocation.document))

\* The loader warns of each fault, and of nothing else.
LEMMA LoaderWarns ==
  ASSUME NEW doc \in Document, ~LoadRaises(doc)
  PROVE  LoadConfigForRoot(doc).diagnostics = ConfigWarnings(FaultsOf(doc))
<1>0. doc.form \in {"missing", "null", "scalar", "mapping"}
      /\ doc.rules.form \in {"null", "mapping", "other"}
  BY DEF Document, RulesValue, LoadRaises
<1>1. CASE doc.form \in {"missing", "null"}
  <2>1. FaultsOf(doc) = {}
    BY <1>1 DEF FaultsOf, IsFault
  <2> QED
    BY <1>1, <2>1 DEF LoadConfigForRoot, ParseConfig, DefaultConfig, ConfigWarnings
<1>2. CASE doc.form = "scalar"
  <2>1. FaultsOf(doc) = {CONFIG_FILENAME}
    BY <1>2, ComplaintsAreKeys DEF FaultsOf, IsFault
  <2>2. LoadConfigForRoot(doc) =
          [DefaultConfig EXCEPT !.diagnostics = ConfigWarnings({CONFIG_FILENAME})]
    BY <1>2 DEF LoadConfigForRoot, ParseConfig
  <2> QED
    BY <2>1, <2>2 DEF DefaultConfig
<1>3. CASE doc.form = "mapping"
  <2> DEFINE own == doc.unknown \cup Complaint("exclude", doc.exclude)
             inner == doc.rules.unknown \cup Complaint("rules.enable", doc.rules.enable)
                        \cup Complaint("rules.disable", doc.rules.disable)
             whole == Complaint("rules", doc.rules)
  <2>1. \A S, T : ConfigWarnings(S) \cup ConfigWarnings(T) = ConfigWarnings(S \cup T)
    BY DEF ConfigWarnings
  <2>2. LoadConfigForRoot(doc).diagnostics =
          ConfigWarnings(own) \cup ParseRules(doc.rules).diagnostics
    BY <1>3 DEF LoadConfigForRoot, ParseConfig
  <2>3. CASE doc.rules.form = "mapping"
    <3>1. ParseRules(doc.rules).diagnostics = ConfigWarnings(inner)
      BY <2>3 DEF ParseRules
    <3>2. FaultsOf(doc) = own \cup inner
      BY <1>3, <2>3, ComplaintsAreKeys DEF FaultsOf, IsFault, Complaint
    <3> HIDE DEF own, inner
    <3> QED
      BY <2>1, <2>2, <3>1, <3>2
  <2>4. CASE doc.rules.form # "mapping"
    <3>1. ParseRules(doc.rules).diagnostics = ConfigWarnings(whole)
      BY <2>4 DEF ParseRules
    <3>2. FaultsOf(doc) = own \cup whole
      BY <1>3, <2>4, ComplaintsAreKeys DEF FaultsOf, IsFault, Complaint
    <3> HIDE DEF own, whole
    <3> QED
      BY <2>1, <2>2, <3>1, <3>2
  <2> QED
    BY <2>3, <2>4
<1> QED
  BY <1>0, <1>1, <1>2, <1>3

LEMMA InitOutcomeInv == Init => OutcomeInv
BY InitOriginInv DEF Init, CliInit, OutcomeInv, Concluded

LEMMA LoadConfigOriginInv == CmdInv /\ OutcomeInv /\ LoadConfig => OriginInv'
<1> SUFFICES ASSUME CmdInv, OutcomeInv, LoadConfig PROVE OriginInv'
  OBVIOUS
<1>1. /\ spc = "begin" /\ gpc = "created" /\ OriginInv
      /\ UNCHANGED <<workspaceVars, gitignore, generatorVars, frontendVars, scanVars>>
  BY DEF CmdInv, InStage, OutcomeInv, OriginInv, LoadConfig
<1>2. /\ UNCHANGED <<fragments, readAs, scanDiags, gpc, spc, disk, edits, gone>>
      /\ UNCHANGED <<fragment, path, source>> /\ fragments = <<>>
      /\ FragmentFiles' = FragmentFiles
  BY <1>1 DEF scanVars, historyVars, generatorVars, workspaceVars, frontendVars, FragmentFiles, CmdInv,
              ScanInv, Located
<1>3. ScanInv'
  BY LoadConfigScanInv
<1>4. VisibilityInv'
  <2>1. (WalkInv /\ gpc = "created" /\ NoFileAt(disk) \subseteq gone)'
    BY <1>1, <1>2, <1>3 DEF ScanInv, OriginInv, VisibilityInv, NoFileAt
  <2> QED
    BY <2>1, CreatedVisibilityInv, PTL
<1>5. OwnDiagnostics'
  BY <1>1, <1>2 DEF OriginInv, OwnDiagnostics, WalkMarks
<1>6. OwnTexts'
  BY <1>1, <1>2 DEF OriginInv, OwnTexts, NoFileAt
<1> QED
  BY <1>1, <1>2, <1>4, <1>5, <1>6 DEF OriginInv

LEMMA NextOutcomeInv == CmdInv /\ OutcomeInv /\ [Next]_allVars => OutcomeInv'
<1> SUFFICES ASSUME CmdInv, OutcomeInv, [Next]_allVars PROVE OutcomeInv'
  OBVIOUS
<1>0. ScanInv /\ OriginInv /\ CliTypeOK
  BY DEF CmdInv, OutcomeInv
<1>1. CASE LoadConfig
  <2>1. OriginInv'
    BY <1>1, LoadConfigOriginInv
  <2>2. /\ spc' = spc /\ exit = "running" /\ invocation' = invocation
        /\ \/ cpc' = "exited" /\ exit' = "internal"
           \/ /\ cpc' = "scan" /\ exit' = exit
              /\ config' = LoadConfigForRoot(invocation.document)
              /\ ~LoadRaises(invocation.document)
    BY <1>0, <1>1 DEF LoadConfig, Exit, Proceed, CliTypeOK, scanVars
  <2>3. invocation.document \in Document
    BY <1>0, InvocationAssumption DEF CliTypeOK, Invocation
  <2> QED
    BY <2>1, <2>2, <2>3, LoaderWarns DEF OutcomeInv, Concluded
<1>2. CASE ScanFiles
  <2>1. OriginInv'
    BY <1>0, <1>2, ScanStepOriginInv DEF ScanFiles
  <2>2. /\ exit = "running" /\ cpc = "scan" /\ UNCHANGED <<config, invocation>>
        /\ \/ spc' = "scanned" /\ exit' = exit
           \/ cpc' = "exited" /\ exit' = "internal"
           \/ cpc' = "scan" /\ exit' = exit
    BY <1>0, <1>2 DEF ScanFiles, ScanStep, Exit, Proceed, CliTypeOK, inputVars
  <2> QED
    BY <2>1, <2>2 DEF OutcomeInv, Concluded
<1>3. CASE CheckPath \/ EvaluateRules \/ Report
  <2>1. UNCHANGED allScanVars
    BY <1>3 DEF CheckPath, EvaluateRules, Report
  <2>2. OriginInv' /\ UNCHANGED <<config, spc>>
    BY <1>0, <2>1, EnvironmentOriginInv DEF allScanVars, scanVars, inputVars
  <2>3. /\ exit = "running" /\ invocation' = invocation
        /\ cpc = "args" => exit' \in {"running", "usage", "traceback"} /\ cpc' \in {"config", "exited"}
        /\ cpc \in {"args", "rules", "report"}
        /\ cpc' \in {"config", "exited", "rules", "report"}
    BY <1>0, <1>3 DEF CheckPath, EvaluateRules, Report, Exit, Proceed, CliTypeOK
  <2> QED
    BY <2>2, <2>3 DEF OutcomeInv, Concluded
<1>4. CASE Around \/ UNCHANGED allVars
  <2>1. OriginInv' /\ UNCHANGED <<config, spc, cpc, exit, invocation>>
    BY <1>0, <1>4, EnvironmentOriginInv
       DEF Around, allVars, allScanVars, scanVars, inputVars, outerVars, cliVars
  <2> QED
    BY <2>1 DEF OutcomeInv, Concluded
<1> QED
  BY <1>1, <1>2, <1>3, <1>4 DEF Next, CliStep

-----------------------------------------------------------------------------
\* What holds when the command concludes.
LEMMA AtConclusion ==
  ASSUME CmdInv, OutcomeInv, Concluded
  PROVE  /\ spc = "scanned" /\ epc = "returned" /\ exit = ExitCode
         /\ diagnostics = Reported
         /\ config.diagnostics = ConfigWarnings(FaultsOf(invocation.document))
         /\ truncated => ScanLimit(SCAN_LEVEL_FILE) \in diagnostics
<1>1. spc = "scanned" /\ epc = "returned" /\ exit = ExitCode
  BY DEF CmdInv, InStage, OutcomeInv, Concluded
<1>2. diagnostics = Reported
  <2>1. E!DiagnosticsComplete
    BY E!AllCollected, EngineAssumed DEF CmdInv, E!Exact
  <2> QED
    BY <1>1, <2>1 DEF E!DiagnosticsComplete, Reported
<1> QED
  BY <1>1, <1>2 DEF CmdInv, ScanInv, TruncationTold, OutcomeInv

\* What is reported is about a Python file or about the scan as a whole.
LEMMA ReportedOrigin ==
  ASSUME CmdInv, OutcomeInv, spc = "scanned"
  PROVE  /\ \A d \in Reported : d \in ScanLevelDiagnostics \/ \E f \in PythonFiles : d \in Marks(f)
         /\ ScanLevelDiagnostics \subseteq Reported
<1>1. OwnDiagnostics
  BY DEF OutcomeInv, OriginInv
<1>2. \A d \in Reported : d \in ScanLevelDiagnostics \/ \E f \in PythonFiles : d \in Marks(f)
  BY <1>1 DEF OwnDiagnostics, Reported
<1>3. ASSUME NEW d \in ScanLevelDiagnostics PROVE d \in Reported
  <2>1. PICK i \in DOMAIN fragments : fragments[i].file = SCAN_LEVEL_FILE
    BY <1>1, <1>3 DEF OwnDiagnostics, FragmentFiles
  <2> QED
    BY <1>1, <1>3, <2>1 DEF OwnDiagnostics, Reported
<1> QED
  BY <1>2, <1>3

\* A scan that ran to its end tells of each Python file in it: a mark of the
\* file is among the diagnostics, or its fragment has the agents that were read.
LEMMA ToldAtConclusion ==
  ASSUME CmdInv, OutcomeInv, Concluded, NEW f \in PythonFiles,
         f \in FragmentFiles \/ (Scannable(f) /\ ~truncated)
  PROVE  \/ Warning(f) \in diagnostics \/ ScanLimit(f) \in diagnostics
         \/ /\ readAs[f] # Absent
            /\ \E i \in DOMAIN fragments : /\ fragments[i].file = f
                                           /\ fragments[i].agents = readAs[f].agents
<1>1. spc = "scanned" /\ diagnostics = Reported
  BY AtConclusion
<1>2. f \in Files /\ f # SCAN_LEVEL_FILE
  BY ScanFacts DEF CmdInv
<1>3. f \in YieldedFiles
  <2>1. CASE f \in FragmentFiles
    BY <1>2, <2>1 DEF CmdInv, ScanInv, Located
  <2>2. CASE Scannable(f) /\ ~truncated
    BY <1>1, <1>2, <2>2, ExhaustedIsComplete
       DEF CmdInv, ScanInv, Located, OutcomeInv, OriginInv, WalkIsComplete, Scannable, YieldedFiles
  <2> QED
    BY <2>1, <2>2
<1>4. Told(f)
  <2>1. Told(f) \/ (f = current /\ truncated)
    BY <1>1, <1>3 DEF CmdInv, ScanInv, AllTold, Pending
  <2> QED
    BY <2>1 DEF CmdInv, ScanInv, Timed
<1>5. PICK i \in FragmentsOf(f) :
        \/ fragments[i].diagnostics # {}
        \/ readAs[f] # Absent /\ fragments[i].agents = readAs[f].agents
  BY <1>4 DEF Told
<1>6. i \in DOMAIN fragments /\ fragments[i].file = f
  BY <1>5 DEF FragmentsOf
<1>7. fragments[i].diagnostics \subseteq Marks(f) /\ fragments[i].diagnostics \subseteq diagnostics
  BY <1>1, <1>2, <1>6 DEF OutcomeInv, OriginInv, OwnDiagnostics, Reported
<1> QED
  BY <1>5, <1>6, <1>7 DEF Marks

\* Exit code 0 misses nothing, for any tree, configuration, edits and budgets
\* (cli.py:6).
THEOREM CleanIsClean == Spec => []CleanMeansClean
<1>1. CmdInv /\ OutcomeInv => CleanMeansClean
  <2> SUFFICES ASSUME CmdInv, OutcomeInv, exit = "clean"
               PROVE  /\ ~LimitHit
                      /\ \A f \in PythonFiles :
                           /\ Scannable(f) => readAs[f] # Absent \/ Warning(f) \in diagnostics
                           /\ ~FlaggedText(readAs[f]) \/ Warning(f) \in diagnostics
    BY DEF CleanMeansClean
  <2>1. /\ Concluded /\ ~LimitHit /\ ~truncated /\ findings = <<>> /\ epc = "returned"
        /\ \A f : ScanLimit(f) \notin diagnostics
    BY AtConclusion DEF Concluded, ExitCode, LimitHit, ScanLimit
  <2>2. FlaggedFiles = {}
    BY <2>1, FindingsIffFlagged
  <2>3. ASSUME NEW f \in PythonFiles, Warning(f) \notin diagnostics
        PROVE  (Scannable(f) => readAs[f] # Absent) /\ ~FlaggedText(readAs[f])
    <3>1. ASSUME Scannable(f) PROVE readAs[f] # Absent
      BY <2>1, <2>3, <3>1, ToldAtConclusion
    <3>2. ASSUME FlaggedText(readAs[f]) PROVE FALSE
      <4>1. f \in Files /\ readAs[f] # Absent
        BY <3>2, ScanFacts DEF CmdInv, FlaggedText
      <4>2. f \in FragmentFiles
        BY <4>1 DEF OutcomeInv, OriginInv, OwnTexts
      <4>3. PICK i \in DOMAIN fragments : /\ fragments[i].file = f
                                          /\ fragments[i].agents = readAs[f].agents
        BY <2>1, <2>3, <4>2, ToldAtConclusion
      <4>4. f \in FlaggedFiles
        BY <3>2, <4>1, <4>3 DEF FlaggedText, FlaggedFiles, FragmentsOf, AnyAgentUnbounded
      <4> QED
        BY <2>2, <4>4
    <3> QED
      BY <3>1, <3>2
  <2> QED
    BY <2>1, <2>3
<1> QED
  BY InitCmdInv, NextCmdInv, InitOutcomeInv, NextOutcomeInv, <1>1, PTL DEF Spec

\* Behind exit code 4 a limit was really passed, by the walk or by a file that
\* is reported, unless a reported file is malformed (cli.py:10).
THEOREM PartialIsALimit == Spec => []PartialMeansLimit
<1>1. CmdInv /\ OutcomeInv => PartialMeansLimit
  <2> SUFFICES ASSUME CmdInv, OutcomeInv, exit = "partial", ~(truncated /\ WallTimeOver)
               PROVE  \E f \in PythonFiles :
                        ScanLimit(f) \in diagnostics /\ (f \in passed \/ Malformed(readAs[f]))
    BY DEF PartialMeansLimit
  <2>1. /\ diagnostics = Reported /\ exit = ExitCode
        /\ config.diagnostics = ConfigWarnings(FaultsOf(invocation.document))
    BY AtConclusion DEF Concluded
  <2>2. ~truncated
    BY DEF CmdInv, ScanInv, Timed
  <2>3. PICK i \in DOMAIN fragments : \E d \in fragments[i].diagnostics : d.limit
    BY <2>1 DEF ExitCode, LimitHit, Reported
  <2>4. PICK d \in fragments[i].diagnostics : d.limit
    BY <2>3
  <2>5. \A e : ~Warning(e).limit /\ ~Info(e).limit
    BY DEF Warning, Info
  <2>6. d \notin ScanLevelDiagnostics
    <3>1. \A c \in config.diagnostics : ~c.limit
      <4>1. FaultsOf(invocation.document) \in SUBSET ConfigKeys
        BY DEF FaultsOf
      <4>2. \A c \in ConfigWarnings(FaultsOf(invocation.document)) : ~c.limit
        BY <4>1, WarnedKeys
      <4> QED
        BY <2>1, <4>2
    <3>2. \A c \in scanDiags : ~c.limit
      BY <2>5 DEF OutcomeInv, OriginInv, OwnDiagnostics, WalkMarks
    <3> QED
      BY <2>2, <2>4, <3>1, <3>2 DEF ScanLevelDiagnostics
  <2>7. fragments[i].file \in PythonFiles /\ d \in Marks(fragments[i].file)
    BY <2>4, <2>6 DEF OutcomeInv, OriginInv, OwnDiagnostics
  <2>8. d = ScanLimit(fragments[i].file)
    BY <2>4, <2>5, <2>7 DEF Marks
  <2>9. d \in diagnostics
    BY <2>1, <2>4 DEF Reported
  <2>10. fragments[i].file \in passed \/ Malformed(readAs[fragments[i].file])
    BY <2>4, <2>7 DEF CmdInv, ScanInv, LimitsBorne, HasLimit
  <2> QED
    BY <2>7, <2>8, <2>9, <2>10
<1> QED
  BY InitCmdInv, NextCmdInv, InitOutcomeInv, NextOutcomeInv, <1>1, PTL DEF Spec

\* Each faulty part of the configuration is warned of, and no other, whatever
\* else is wrong and whatever the scan reports besides (config.py:77-86).
THEOREM MisconfigurationIsTold == Spec => []MisconfigurationIsReported
<1>1. CmdInv /\ OutcomeInv => MisconfigurationIsReported
  <2> DEFINE keyed == {d \in diagnostics : d.key # ""}
  <2> SUFFICES ASSUME CmdInv, OutcomeInv, Concluded
               PROVE  {d.key : d \in keyed} = FaultsOf(invocation.document)
    BY DEF MisconfigurationIsReported, Concluded, FaultsOf
  <2>1. diagnostics = Reported /\ spc = "scanned"
        /\ config.diagnostics = ConfigWarnings(FaultsOf(invocation.document))
    BY AtConclusion
  <2>2. \A e : Warning(e).key = "" /\ Info(e).key = "" /\ ScanLimit(e).key = ""
    BY DEF Warning, Info, ScanLimit
  <2>3. \A f : \A d \in Marks(f) : d.key = ""
    BY <2>2 DEF Marks
  <2>4. \A d \in scanDiags : d.key = ""
    BY <2>2 DEF OutcomeInv, OriginInv, OwnDiagnostics, WalkMarks
  <2>5. /\ \A d \in ConfigWarnings(FaultsOf(invocation.document)) : d.key # ""
        /\ {d.key : d \in ConfigWarnings(FaultsOf(invocation.document))}
             = FaultsOf(invocation.document)
    BY WarnedKeys DEF FaultsOf
  <2>6. \A d \in ScanLevelDiagnostics : d.key # "" <=> d \in config.diagnostics
    BY <2>1, <2>2, <2>4, <2>5 DEF ScanLevelDiagnostics
  <2>7. /\ \A d \in diagnostics : d \in ScanLevelDiagnostics \/ d.key = ""
        /\ ScanLevelDiagnostics \subseteq diagnostics
    BY <2>1, <2>3, ReportedOrigin
  <2>8. config.diagnostics \subseteq ScanLevelDiagnostics
    BY DEF ScanLevelDiagnostics
  <2>9. keyed = config.diagnostics
    BY <2>1, <2>5, <2>6, <2>7, <2>8
  <2> HIDE DEF keyed
  <2> QED
    BY <2>1, <2>5, <2>9
<1> QED
  BY InitCmdInv, NextCmdInv, InitOutcomeInv, NextOutcomeInv, <1>1, PTL DEF Spec

LEMMA SameCardinality == \A S : E!Cardinality(S) = Cardinality(S)
BY DEF E!Cardinality, Cardinality

\* The fingerprints that a list of agents gives to a file.
PrintsOf(f, agents, h) ==
  {<<f, h, n>> : n \in 0..(Cardinality(Rules!Unbounded(agents, h)) - 1)}

LEMMA NoAgentsNoPrints == \A f, h : PrintsOf(f, <<>>, h) = {}
<1>1. \A h : Rules!Unbounded(<<>>, h) = {}
  BY DEF Rules!Unbounded
<1>2. Cardinality({}) = 0 /\ 0..(0 - 1) = {}
  BY FS_EmptySet
<1> QED
  BY <1>1, <1>2 DEF PrintsOf

\* When the engine returns, the fingerprints are those its fragments call for.
LEMMA PrintsOfFragments ==
  ASSUME CmdInv, epc = "returned", NEW x
  PROVE  x \in {Rules!Fingerprint(findings[k]) : k \in DOMAIN findings} <=>
           \E i \in DOMAIN fragments, h \in Hashes :
             x \in PrintsOf(fragments[i].file, fragments[i].agents, h)
<1>1. {E!Fingerprint(findings[k]) : k \in DOMAIN findings} = E!ExpectedFingerprints
  BY E!ExactAtReturn, EngineAssumed DEF CmdInv, E!FingerprintsExact
<1>2. \A f : E!Fingerprint(f) = Rules!Fingerprint(f)
  BY DEF E!Fingerprint, Rules!Fingerprint
<1>3. \A agents, h : E!Cardinality(E!Unbounded(agents, h)) = Cardinality(Rules!Unbounded(agents, h))
  BY SameCardinality DEF E!Unbounded, Rules!Unbounded
<1>4. E!ExpectedFingerprints =
        UNION {E!Prints(fragments[i].file, h, E!Cardinality(E!Unbounded(fragments[i].agents, h))) :
                 i \in DOMAIN fragments, h \in Hashes}
  BY DEF E!ExpectedFingerprints, E!Prints
<1>5. \A f, agents, h :
        E!Prints(f, h, E!Cardinality(E!Unbounded(agents, h))) = PrintsOf(f, agents, h)
  BY <1>3 DEF E!Prints, PrintsOf
<1>6. x \in E!ExpectedFingerprints <=>
        \E i \in DOMAIN fragments, h \in Hashes :
          x \in PrintsOf(fragments[i].file, fragments[i].agents, h)
  BY <1>4, <1>5
<1> QED
  BY <1>1, <1>2, <1>6

\* A scan that nothing disturbed reports the tree as it is, however large the
\* tree and in whatever order it was walked (cli.py:44-84).
THEOREM UndisturbedIsExact == Spec => []UndisturbedScanIsExact
<1>1. CmdInv /\ OutcomeInv => UndisturbedScanIsExact
  <2> SUFFICES ASSUME CmdInv, OutcomeInv, Concluded, edits = 0,
                      \A d \in diagnostics : d.level = "info",
                      NEW x
               PROVE  x \in {Rules!Fingerprint(findings[k]) : k \in DOMAIN findings} <=>
                        \E f \in PythonFiles, h \in Hashes :
                          Scannable(f) /\ x \in PrintsOf(f, disk[f].agents, h)
    <3> DEFINE G == {g \in PythonFiles : Scannable(g)}
               R == UNION {PrintsOf(f, disk[f].agents, h) : f \in G, h \in Hashes}
    <3>1. UndisturbedScanIsExact <=>
            (exit \in {"clean", "findings"} /\ edits = 0 /\ (\A d \in diagnostics : d.level = "info")
               => {Rules!Fingerprint(findings[k]) : k \in DOMAIN findings} = R)
      BY DEF UndisturbedScanIsExact, PrintsOf
    <3>2. \A x : x \in R <=> \E f \in G, h \in Hashes : x \in PrintsOf(f, disk[f].agents, h)
      OBVIOUS
    <3> HIDE DEF R
    <3> QED
      BY <3>1, <3>2 DEF Concluded
  <2>1. /\ spc = "scanned" /\ epc = "returned" /\ diagnostics = Reported
        /\ truncated => ScanLimit(SCAN_LEVEL_FILE) \in diagnostics
    BY AtConclusion
  <2>2. \A f : Warning(f) \notin diagnostics /\ ScanLimit(f) \notin diagnostics
    BY DEF Warning, ScanLimit
  <2>3. ~truncated
    BY <2>1, <2>2
  <2>4. x \in {Rules!Fingerprint(findings[k]) : k \in DOMAIN findings} <=>
          \E i \in DOMAIN fragments, h \in Hashes :
            x \in PrintsOf(fragments[i].file, fragments[i].agents, h)
    BY <2>1, PrintsOfFragments
  <2>5. ASSUME NEW f \in PythonFiles, f \in FragmentFiles \/ Scannable(f)
        PROVE  /\ Scannable(f)
               /\ \E i \in DOMAIN fragments : /\ fragments[i].file = f
                                              /\ fragments[i].agents = disk[f].agents
    <3>1. /\ readAs[f] # Absent
          /\ \E i \in DOMAIN fragments : /\ fragments[i].file = f
                                         /\ fragments[i].agents = readAs[f].agents
      BY <2>2, <2>3, <2>5, ToldAtConclusion
    <3>2. f \in Files /\ f # SCAN_LEVEL_FILE
      BY ScanFacts DEF CmdInv
    <3>3. readAs[f] = disk[f] /\ f \notin gone
      BY <3>1, <3>2 DEF OutcomeInv, OriginInv, OwnTexts, NoFileAt
    <3>4. f \in YieldedFiles
      BY <2>1, <3>1, <3>2 DEF CmdInv, ScanInv, Located, FragmentFiles
    <3>5. Visible(f) /\ Reachable(f)
      BY <3>4 DEF OutcomeInv, OriginInv, VisibilityInv
    <3> QED
      BY <3>1, <3>3, <3>5 DEF Scannable
  <2>6. \A i \in DOMAIN fragments :
          \/ fragments[i].agents = <<>>
          \/ /\ fragments[i].file \in PythonFiles /\ Scannable(fragments[i].file)
             /\ fragments[i].agents = disk[fragments[i].file].agents
    <3> SUFFICES ASSUME NEW i \in DOMAIN fragments, fragments[i].agents # <<>>
                 PROVE  /\ fragments[i].file \in PythonFiles /\ Scannable(fragments[i].file)
                        /\ fragments[i].agents = disk[fragments[i].file].agents
      OBVIOUS
    <3>1. fragments[i].file \in PythonFiles
      BY DEF CmdInv, ScanInv, AgentsAsRead
    <3>2. fragments[i].file \in FragmentFiles
      BY DEF FragmentFiles
    <3>3. /\ Scannable(fragments[i].file)
          /\ \E j \in DOMAIN fragments :
               /\ fragments[j].file = fragments[i].file
               /\ fragments[j].agents = disk[fragments[i].file].agents
      BY <2>5, <3>1, <3>2
    <3> QED
      BY <3>1, <3>3 DEF CmdInv, ScanInv, OneFragmentPerFile
  <2>7. ASSUME NEW i \in DOMAIN fragments, NEW h \in Hashes,
               x \in PrintsOf(fragments[i].file, fragments[i].agents, h)
        PROVE  \E f \in PythonFiles : Scannable(f) /\ x \in PrintsOf(f, disk[f].agents, h)
    BY <2>6, <2>7, NoAgentsNoPrints
  <2>8. ASSUME NEW f \in PythonFiles, Scannable(f), NEW h \in Hashes,
               x \in PrintsOf(f, disk[f].agents, h)
        PROVE  \E i \in DOMAIN fragments :
                 x \in PrintsOf(fragments[i].file, fragments[i].agents, h)
    BY <2>5, <2>8
  <2> QED
    BY <2>4, <2>7, <2>8
<1> QED
  BY InitCmdInv, NextCmdInv, InitOutcomeInv, NextOutcomeInv, <1>1, PTL DEF Spec
=============================================================================
