------------------------ MODULE PythonFrontendProofs ------------------------
(***************************************************************************)
(* Proofs about lowering, for any files, texts, limits, edits and clock.   *)
(***************************************************************************)
EXTENDS PythonFrontend, WorkspaceProofs

LEMMA LimitInRange ==
  ASSUME NEW f \in Files
  PROVE  /\ Warning(f) \in Diagnostic /\ ~Warning(f).limit
         /\ ScanLimit(f) \in Diagnostic
         /\ EmptyFragment(f) \in Fragment
<1>1. f \in Paths
  BY WorkspaceAssumption
<1> QED
  BY <1>1 DEF Warning, ScanLimit, EmptyFragment, Diagnostic, DiagnosticLevel, Fragment

\* What each stage may rely on.
Staged ==
  /\ fpc \in {"parse", "parsed", "detect", "detected"} => source # Absent
  /\ fpc \in {"parsed", "detect", "detected"} =>
       source.parse = "tree" /\ source.nodes <= MaxAstNodes
  /\ fpc = "detected" => fragment.agents = source.agents
  /\ startedAt <= now

LEMMA InitLoweringTypeOK == LoweringInit => LoweringTypeOK
<1> SUFFICES ASSUME LoweringInit PROVE LoweringTypeOK
  OBVIOUS
<1>1. WorkspaceTypeOK
  BY WorkspaceInitTypeOK DEF LoweringInit
<1>2. path \in Files
  BY WorkspaceAssumption DEF LoweringInit, FrontendInit
<1>3. FrontendTypeOK
  BY <1>2, LimitInRange, WorkspaceAssumption
     DEF LoweringInit, FrontendInit, FrontendTypeOK, Stages
<1> QED
  BY <1>1, <1>3 DEF LoweringTypeOK

\* A file given up leaves a well-typed fragment.
LEMMA SkipTypeOK ==
  ASSUME NEW d \in Diagnostic, path \in Files, Skip(d)
  PROVE  fpc' = "returned" /\ fragment' \in Fragment /\ fragment'.diagnostics = {d}
<1>1. EmptyFragment(path) \in Fragment
  BY LimitInRange
<1> QED
  BY <1>1 DEF Skip, EmptyFragment, Fragment

LEMMA LowerStepTypeOK ==
  LoweringTypeOK /\ Staged /\ LowerStep => FrontendTypeOK'
<1> SUFFICES ASSUME LoweringTypeOK, Staged, LowerStep
             PROVE  FrontendTypeOK'
  OBVIOUS
<1>0. /\ path \in Files /\ startedAt \in 0..MaxTime /\ size \in Nat
      /\ source \in Contents \cup {Absent} /\ fragment \in Fragment
      /\ disk[path] \in Contents \cup {Absent}
      /\ Contents \subseteq Content
  BY WorkspaceAssumption DEF LoweringTypeOK, WorkspaceTypeOK, FrontendTypeOK
<1>1. Warning(path) \in Diagnostic /\ ScanLimit(path) \in Diagnostic
  BY <1>0, LimitInRange
<1>2. CASE Stat
  <2>1. disk[path] # Absent => disk[path].size \in Nat
    BY <1>0 DEF Content
  <2>2. size' \in Nat /\ path' = path /\ startedAt' = startedAt /\ source' = source
    BY <1>0, <1>2, <2>1 DEF Stat
  <2>3. \/ Skip(Warning(path)) \/ Skip(ScanLimit(path)) \/ Goto("read")
    BY <1>2 DEF Stat
  <2>4. fpc' \in Stages /\ fragment' \in Fragment
    BY <1>0, <1>1, <2>3, SkipTypeOK DEF Goto, Stages
  <2> QED
    BY <1>0, <2>2, <2>4 DEF FrontendTypeOK
<1>3. CASE Read
  <2>1. source' \in Contents \cup {Absent} /\ UNCHANGED <<path, startedAt, size>>
    BY <1>0, <1>3 DEF Read
  <2>2. Skip(Warning(path)) \/ Goto("parse")
    BY <1>3 DEF Read
  <2>3. fpc' \in Stages /\ fragment' \in Fragment
    BY <1>0, <1>1, <2>2, SkipTypeOK DEF Goto, Stages
  <2> QED
    BY <1>0, <2>1, <2>3 DEF FrontendTypeOK
<1>4. CASE Parse
  <2>1. UNCHANGED <<path, startedAt, size, source>>
    BY <1>4 DEF Parse
  <2>2. Skip(Warning(path)) \/ Skip(ScanLimit(path)) \/ Goto("parsed")
    BY <1>4 DEF Parse
  <2>3. fpc' \in Stages /\ fragment' \in Fragment
    BY <1>0, <1>1, <2>2, SkipTypeOK DEF Goto, Stages
  <2> QED
    BY <1>0, <2>1, <2>3 DEF FrontendTypeOK
<1>5. CASE CheckParseTime
  <2>1. UNCHANGED <<path, startedAt, size, source>>
    BY <1>5 DEF CheckParseTime
  <2>2. Skip(ScanLimit(path)) \/ Goto("detect")
    BY <1>5 DEF CheckParseTime
  <2>3. fpc' \in Stages /\ fragment' \in Fragment
    BY <1>0, <1>1, <2>2, SkipTypeOK DEF Goto, Stages
  <2> QED
    BY <1>0, <2>1, <2>3 DEF FrontendTypeOK
<1>6. CASE CheckLowerTime
  <2>1. fragment' = [fragment EXCEPT !.diagnostics = IF OverBudget THEN {ScanLimit(path)} ELSE {}]
        /\ fpc' = "returned" /\ UNCHANGED <<path, startedAt, size, source>>
    BY <1>6 DEF CheckLowerTime
  <2>2. fragment' \in Fragment
    BY <1>0, <1>1, <2>1 DEF Fragment
  <2> QED
    BY <1>0, <2>1, <2>2 DEF FrontendTypeOK, Stages
<1>7. CASE Detect
  <2>1. UNCHANGED <<path, startedAt, size, source>>
    BY <1>7 DEF Detect
  <2>2. CASE DetectorsRaise(source, path)
    BY <1>0, <1>7, <2>1, <2>2 DEF Detect, Goto, FrontendTypeOK, Stages
  <2>3. CASE ~DetectorsRaise(source, path)
    <3>1. source.agents \in Seq(Agent)
      BY <1>0, <1>7 DEF Detect, Staged, Content
    <3>2. fragment' = [fragment EXCEPT !.agents = source.agents] /\ fpc' = "detected"
      BY <1>7, <2>3 DEF Detect
    <3>3. fragment' \in Fragment
      BY <1>0, <3>1, <3>2 DEF Fragment
    <3> QED
      BY <1>0, <2>1, <3>2, <3>3 DEF FrontendTypeOK, Stages
  <2> QED
    BY <2>2, <2>3
<1> QED
  BY <1>2, <1>3, <1>4, <1>5, <1>6, <1>7 DEF LowerStep

LoweringInv == LoweringTypeOK /\ Staged /\ SilenceMeansWhole /\ LimitIsReal

LEMMA InitLoweringInv == LoweringInit => LoweringInv
<1> SUFFICES ASSUME LoweringInit PROVE LoweringInv
  OBVIOUS
<1>1. fpc = "idle" /\ startedAt = 0 /\ now = 0
  BY DEF LoweringInit, FrontendInit, WorkspaceInit
<1> QED
  BY <1>1, InitLoweringTypeOK DEF LoweringInv, Staged, SilenceMeansWhole, LimitIsReal

\* Edits and ticks are seen by no stage; a budget that is passed stays passed.
LEMMA EnvironmentLoweringInv == LoweringInv /\ Environment /\ UNCHANGED frontendVars => LoweringInv'
<1> SUFFICES ASSUME LoweringInv, Environment, UNCHANGED frontendVars PROVE LoweringInv'
  OBVIOUS
<1>1. LoweringTypeOK'
  BY EnvironmentTypeOK
     DEF LoweringInv, LoweringTypeOK, FrontendTypeOK, frontendVars
<1>2. now \in Nat /\ now' \in Nat /\ now <= now' /\ startedAt \in Nat
  <2>1. now \in Nat /\ startedAt \in Nat
    BY WorkspaceAssumption DEF LoweringInv, LoweringTypeOK, WorkspaceTypeOK, FrontendTypeOK
  <2>2. now' = now \/ now' = now + 1
    BY DEF Environment, Edit, Tick
  <2> QED
    BY <2>1, <2>2
<1>3. Staged'
  BY <1>2 DEF LoweringInv, Staged, frontendVars
<1>4. SilenceMeansWhole'
  BY DEF LoweringInv, SilenceMeansWhole, frontendVars
<1>5. LimitIsReal'
  <2>1. now - startedAt > PerFileBudget => now' - startedAt' > PerFileBudget
    <3>1. PerFileBudget \in Nat /\ startedAt' = startedAt
      BY FrontendAssumption DEF frontendVars
    <3>2. ASSUME NEW early \in Nat, NEW late \in Nat, NEW start \in Nat,
                 NEW budget \in Nat, early <= late, early - start > budget
          PROVE  late - start > budget
      BY <3>2
    <3> QED
      BY <1>2, <3>1, <3>2
  <2>2. UNCHANGED <<fpc, fragment, size, source>>
    BY DEF frontendVars
  <2> QED
    BY <2>1, <2>2 DEF LoweringInv, LimitIsReal, PassedLimit, Malformed, HasLimit
<1> QED
  BY <1>1, <1>3, <1>4, <1>5 DEF LoweringInv

\* Giving a file up breaks neither promise, if the limit it names was passed.
LEMMA SkipKeepsPromises ==
  ASSUME path \in Files, UNCHANGED <<path, startedAt, now>>, startedAt <= now,
         Skip(Warning(path)) \/ (Skip(ScanLimit(path)) /\ (PassedLimit' \/ Malformed(source')))
  PROVE  Staged' /\ SilenceMeansWhole' /\ LimitIsReal'
<1>1. fpc' = "returned"
  BY DEF Skip
<1>2. PICK d \in {Warning(path), ScanLimit(path)} : fragment'.diagnostics = {d} /\ Skip(d)
  BY LimitInRange, SkipTypeOK
<1>3. Staged'
  BY <1>1 DEF Staged
<1>4. SilenceMeansWhole'
  BY <1>2 DEF SilenceMeansWhole
<1>5. LimitIsReal'
  <2>1. CASE Skip(Warning(path))
    <3>1. fragment'.diagnostics = {Warning(path)} /\ ~Warning(path).limit
      BY <2>1, LimitInRange, SkipTypeOK
    <3> QED
      BY <3>1 DEF LimitIsReal, HasLimit
  <2>2. CASE ~Skip(Warning(path))
    BY <2>2 DEF LimitIsReal
  <2> QED
    BY <2>1, <2>2
<1> QED
  BY <1>3, <1>4, <1>5

LEMMA LowerStepLoweringInv == LoweringInv /\ LowerStep /\ UNCHANGED workspaceVars => LoweringInv'
<1> SUFFICES ASSUME LoweringInv, LowerStep, UNCHANGED workspaceVars PROVE LoweringInv'
  OBVIOUS
<1>0. /\ LoweringTypeOK /\ Staged /\ now' = now /\ path \in Files
      /\ startedAt <= now
  BY DEF LoweringInv, Staged, LoweringTypeOK, FrontendTypeOK, workspaceVars
<1>1. LoweringTypeOK'
  <2>1. WorkspaceTypeOK'
    BY DEF LoweringInv, LoweringTypeOK, WorkspaceTypeOK, workspaceVars
  <2> QED
    BY <1>0, <2>1, LowerStepTypeOK DEF LoweringTypeOK
<1>2. CASE Stat
  <2>1. UNCHANGED <<path, startedAt, source>>
    BY <1>2 DEF Stat
  <2>2. CASE Goto("read")
    BY <1>0, <1>1, <2>1, <2>2 DEF LoweringInv, Goto, Staged, SilenceMeansWhole, LimitIsReal
  <2>3. CASE ~Goto("read")
    <3>1. Skip(Warning(path)) \/ (Skip(ScanLimit(path)) /\ PassedLimit')
      BY <1>2, <2>3 DEF Stat, PassedLimit
    <3> QED
      BY <1>0, <1>1, <2>1, <3>1, SkipKeepsPromises DEF LoweringInv
  <2> QED
    BY <2>2, <2>3
<1>3. CASE Read
  <2>1. CASE disk[path] # Absent /\ disk[path].decodes
    BY <1>0, <1>1, <1>3, <2>1 DEF Read, LoweringInv, Goto, Staged, SilenceMeansWhole, LimitIsReal
  <2>2. CASE ~(disk[path] # Absent /\ disk[path].decodes)
    BY <1>0, <1>1, <1>3, <2>2, SkipKeepsPromises DEF Read, LoweringInv
  <2> QED
    BY <2>1, <2>2
<1>4. CASE Parse
  <2>1. source # Absent /\ UNCHANGED <<path, startedAt, source>>
    BY <1>0, <1>4 DEF Parse, Staged
  <2>2. CASE Goto("parsed") /\ source.parse = "tree" /\ source.nodes <= MaxAstNodes
    BY <1>0, <1>1, <2>1, <2>2 DEF LoweringInv, Goto, Staged, SilenceMeansWhole, LimitIsReal
  <2>3. CASE \/ Skip(Warning(path))
             \/ /\ Skip(ScanLimit(path))
                /\ \/ source.parse \in {"exhausted", "malformed"}
                   \/ source.parse = "tree" /\ source.nodes > MaxAstNodes
    <3>1. Skip(ScanLimit(path)) => Skip(Warning(path)) \/ PassedLimit' \/ Malformed(source')
      BY <2>1, <2>3 DEF PassedLimit, Malformed
    <3> QED
      BY <1>0, <1>1, <2>1, <2>3, <3>1, SkipKeepsPromises DEF LoweringInv
  <2>4. source.nodes \in Nat /\ MaxAstNodes \in Nat
    BY <1>0, <2>1, WorkspaceAssumption, FrontendAssumption
       DEF LoweringInv, LoweringTypeOK, FrontendTypeOK, Content
  <2> QED
    BY <1>4, <2>2, <2>3, <2>4 DEF Parse, ExceedsNodeLimit
<1>5. CASE CheckParseTime
  <2>1. UNCHANGED <<path, startedAt, source>>
    BY <1>5 DEF CheckParseTime
  <2>2. CASE OverBudget
    <3>1. Skip(ScanLimit(path)) /\ PassedLimit'
      BY <1>0, <1>5, <2>1, <2>2 DEF CheckParseTime, OverBudget, PassedLimit
    <3> QED
      BY <1>0, <1>1, <2>1, <3>1, SkipKeepsPromises DEF LoweringInv
  <2>3. CASE ~OverBudget
    BY <1>0, <1>1, <1>5, <2>1, <2>3
       DEF CheckParseTime, LoweringInv, Goto, Staged, SilenceMeansWhole, LimitIsReal
  <2> QED
    BY <2>2, <2>3
<1>6. CASE Detect
  <2>1. UNCHANGED <<path, startedAt, source>>
    BY <1>6 DEF Detect
  <2>2. CASE Goto("raised")
    BY <1>0, <1>1, <2>1, <2>2 DEF LoweringInv, Goto, Staged, SilenceMeansWhole, LimitIsReal
  <2>3. CASE fragment' = [fragment EXCEPT !.agents = source.agents] /\ fpc' = "detected"
    <3>1. fragment'.agents = source.agents
      BY <1>0, <2>3 DEF LoweringTypeOK, FrontendTypeOK, Fragment
    <3> QED
      BY <1>0, <1>1, <1>6, <2>1, <2>3, <3>1
         DEF Detect, LoweringInv, Staged, SilenceMeansWhole, LimitIsReal
  <2> QED
    BY <1>6, <2>2, <2>3 DEF Detect
<1>7. CASE CheckLowerTime
  <2>1. /\ UNCHANGED <<path, startedAt, size, source>> /\ fpc = "detected" /\ fpc' = "returned"
        /\ fragment' = [fragment EXCEPT !.diagnostics =
                          IF OverBudget THEN {ScanLimit(path)} ELSE {}]
    BY <1>7 DEF CheckLowerTime
  <2>2. /\ fragment'.agents = fragment.agents
        /\ fragment'.diagnostics = IF OverBudget THEN {ScanLimit(path)} ELSE {}
    BY <1>0, <2>1 DEF LoweringTypeOK, FrontendTypeOK, Fragment
  <2>3. Staged'
    BY <1>0, <2>1 DEF Staged
  <2>4. SilenceMeansWhole'
    BY <1>0, <2>1, <2>2 DEF Staged, SilenceMeansWhole
  <2>5. LimitIsReal'
    BY <1>0, <2>1, <2>2 DEF LimitIsReal, HasLimit, OverBudget, PassedLimit
  <2> QED
    BY <1>1, <2>3, <2>4, <2>5 DEF LoweringInv
<1> QED
  BY <1>2, <1>3, <1>4, <1>5, <1>6, <1>7 DEF LowerStep

LEMMA EnterLoweringInv ==
  ASSUME LoweringInv, NEW f \in Files, Enter(f), UNCHANGED workspaceVars
  PROVE  LoweringInv'
<1>1. /\ fpc' = "stat" /\ path' = f /\ startedAt' = now /\ size' = 0 /\ source' = Absent
      /\ fragment' = EmptyFragment(f) /\ now' = now
  BY DEF Enter, workspaceVars
<1>2. now \in 0..MaxTime /\ now \in Nat
  BY WorkspaceAssumption DEF LoweringInv, LoweringTypeOK, WorkspaceTypeOK
<1>3. FrontendTypeOK'
  BY <1>1, <1>2, LimitInRange DEF FrontendTypeOK, Stages
<1>4. WorkspaceTypeOK'
  BY DEF LoweringInv, LoweringTypeOK, WorkspaceTypeOK, workspaceVars
<1> QED
  BY <1>1, <1>2, <1>3, <1>4 DEF LoweringInv, LoweringTypeOK, Staged, SilenceMeansWhole, LimitIsReal

LEMMA NextLoweringInv == LoweringInv /\ [LoweringNext]_allFrontendVars => LoweringInv'
<1> SUFFICES ASSUME LoweringInv, [LoweringNext]_allFrontendVars PROVE LoweringInv'
  OBVIOUS
<1>1. CASE LowerStep /\ UNCHANGED workspaceVars
  BY <1>1, LowerStepLoweringInv
<1>2. CASE (\E f \in Files : Enter(f)) /\ UNCHANGED workspaceVars
  BY <1>2, EnterLoweringInv
<1>3. CASE Environment /\ UNCHANGED frontendVars
  BY <1>3, EnvironmentLoweringInv
<1>4. CASE UNCHANGED allFrontendVars
  <2>1. UNCHANGED <<disk, edits, now, gone>>
        /\ UNCHANGED <<fpc, path, startedAt, size, source, fragment>>
    BY <1>4 DEF allFrontendVars, workspaceVars, frontendVars
  <2> QED
    BY <2>1 DEF LoweringInv, LoweringTypeOK, WorkspaceTypeOK, FrontendTypeOK, Staged,
                SilenceMeansWhole, LimitIsReal, PassedLimit, Malformed, HasLimit
<1> QED
  BY <1>1, <1>2, <1>3, <1>4 DEF LoweringNext

LEMMA AlwaysIInv == LoweringSpec => []LoweringInv
<1> QED
  BY InitLoweringInv, NextLoweringInv, PTL DEF LoweringSpec

\* lower() keeps its records well typed, whatever the files do meanwhile.
THEOREM LoweringTypeCorrect == LoweringSpec => []LoweringTypeOK
<1>1. LoweringInv => LoweringTypeOK
  BY DEF LoweringInv
<1> QED
  BY AlwaysIInv, <1>1, PTL

\* A fragment without a diagnostic holds every agent of one version of the
\* file, for any number of edits at any time (python_frontend.py:39-123).
THEOREM SilenceIsHonest == LoweringSpec => []SilenceMeansWhole
<1>1. LoweringInv => SilenceMeansWhole
  BY DEF LoweringInv
<1> QED
  BY AlwaysIInv, <1>1, PTL

\* A reported limit was passed, for any limits, unless the text was malformed
\* (limits.py:52-57, ast_utils.py:47-55).
THEOREM LimitsAreReal == LoweringSpec => []LimitIsReal
<1>1. LoweringInv => LimitIsReal
  BY DEF LoweringInv
<1> QED
  BY AlwaysIInv, <1>1, PTL
=============================================================================
