----------------------------- MODULE ScanProofs ------------------------------
(***************************************************************************)
(* Proofs about scan_repository: the walk, the lowering of one file and    *)
(* the loop between them, each by its own invariant, composed.             *)
(***************************************************************************)
EXTENDS Scan, PythonFrontendProofs, VisibilityProofs

\* A fragment under construction bears its file's name, warnings only, and no
\* agents but those of the text that was read.
Labelled ==
  /\ fragment.file = path
  /\ \A d \in fragment.diagnostics : d.level = "warning"
  /\ fpc \notin {"detected", "returned"} => fragment.agents = <<>>
  /\ fragment.agents # <<>> => source # Absent /\ fragment.agents = source.agents

FragmentFiles == {fragments[i].file : i \in DOMAIN fragments}

\* What each stage of the loop may rely on.
Located ==
  /\ spc \in {"budget", "entering", "lowering"} =>
       gpc = "suspended" /\ current \notin FragmentFiles
  /\ spc \in {"entering", "lowering"} => current \in PythonFiles
  /\ spc = "lowering" => path = current
  /\ spc = "begin" => fragments = <<>> /\ late = {} /\ ~truncated
  /\ spc # "scanned" => FragmentFiles \subseteq PythonFiles \cap YieldedFiles
  /\ FragmentFiles \subseteq YieldedFiles \cup {SCAN_LEVEL_FILE}
  /\ spc \in {"finishing", "scanned"} => gpc = "exhausted" \/ truncated

\* What the clock has to do with it.
Timed ==
  /\ truncated => /\ spc \in {"finishing", "scanned"} /\ gpc = "suspended"
                  /\ WallTimeOver /\ current \notin FragmentFiles
  /\ late # {} => WallTimeOver
  /\ spc \in {"entering", "lowering"} => late = {}
  /\ late = {} \/ \E f \in Files : late = {f}

\* The fragment of f tells the whole of the text that was read, or warns.
Told(f) ==
  \E i \in FragmentsOf(f) :
    \/ \E d \in fragments[i].diagnostics : d.level = "warning"
    \/ readAs[f] # Absent /\ fragments[i].agents = readAs[f].agents

Pending(f) ==
  f = current /\ (spc \in {"budget", "entering", "lowering", "raised"} \/ truncated)

AllTold == \A f \in YieldedFiles \cap PythonFiles : Told(f) \/ Pending(f)

\* No fragment has agents that are not in the text that was read, least of all
\* the one that stands for no file.
AgentsAsRead ==
  \A i \in DOMAIN fragments :
    fragments[i].agents # <<>> =>
      /\ fragments[i].file \in PythonFiles
      /\ readAs[fragments[i].file] # Absent
      /\ fragments[i].agents = readAs[fragments[i].file].agents

\* A limit that a file's fragment reports has been passed, or its text is
\* malformed.
LimitsBorne ==
  \A i \in DOMAIN fragments :
    fragments[i].file \in PythonFiles /\ HasLimit(fragments[i].diagnostics) =>
      fragments[i].file \in passed \/ Malformed(readAs[fragments[i].file])

TruncationTold ==
  spc = "scanned" /\ truncated => ScanLimit(SCAN_LEVEL_FILE) \in Reported

ScanInv ==
  /\ LoweringInv /\ WalkInv /\ ScanTypeOK
  /\ Labelled /\ Located /\ Timed
  /\ OneFragmentPerFile /\ AgentsAsRead /\ LimitsBorne /\ AllTold /\ TruncationTold

-----------------------------------------------------------------------------
LEMMA SkipLabelled ==
  ASSUME path \in Files, UNCHANGED path, Skip(Warning(path)) \/ Skip(ScanLimit(path))
  PROVE  Labelled'
<1>1. PICK d \in {Warning(path), ScanLimit(path)} : Skip(d)
  OBVIOUS
<1>2. d.level = "warning"
  <2>1. Warning(path).level = "warning" /\ ScanLimit(path).level = "warning"
    BY DEF Warning, ScanLimit
  <2> QED
    BY <2>1
<1>3. fragment' = [EmptyFragment(path) EXCEPT !.diagnostics = {d}]
  BY <1>1 DEF Skip
<1>4. fragment'.file = path /\ fragment'.diagnostics = {d} /\ fragment'.agents = <<>>
  BY <1>3 DEF EmptyFragment
<1> QED
  BY <1>2, <1>4 DEF Labelled

LEMMA LowerStepLabelled ==
  LoweringInv /\ Labelled /\ LowerStep => Labelled' /\ path' = path
<1> SUFFICES ASSUME LoweringInv, Labelled, LowerStep PROVE Labelled' /\ path' = path
  OBVIOUS
<1>0. path \in Files /\ fragment \in Fragment
  BY DEF LoweringInv, LoweringTypeOK, FrontendTypeOK
<1>1. CASE Stat
  <2>1. path' = path /\ fpc = "stat"
    BY <1>1 DEF Stat
  <2>2. \/ Skip(Warning(path)) \/ Skip(ScanLimit(path)) \/ Goto("read")
    BY <1>1 DEF Stat
  <2> QED
    BY <1>0, <2>1, <2>2, SkipLabelled DEF Goto, Labelled
<1>2. CASE Read
  BY <1>0, <1>2, SkipLabelled DEF Read, Goto, Labelled
<1>3. CASE Parse
  BY <1>0, <1>3, SkipLabelled DEF Parse, Goto, Labelled
<1>4. CASE CheckParseTime
  BY <1>0, <1>4, SkipLabelled DEF CheckParseTime, Goto, Labelled
<1>5. CASE Detect
  <2>1. /\ path' = path /\ source' = source /\ source # Absent
        /\ fragment'.file = fragment.file /\ fragment'.diagnostics = fragment.diagnostics
    BY <1>0, <1>5 DEF Detect, Goto, Fragment, LoweringInv, Staged
  <2>2. \/ fpc' = "detected" /\ fragment'.agents = source.agents
        \/ fragment' = fragment /\ fragment.agents = <<>>
    BY <1>0, <1>5 DEF Detect, Goto, Fragment, Labelled
  <2> QED
    BY <2>1, <2>2 DEF Labelled
<1>6. CASE CheckLowerTime
  <2>1. /\ path' = path /\ source' = source /\ fpc' = "returned"
        /\ fragment'.file = fragment.file /\ fragment'.agents = fragment.agents
        /\ fragment'.diagnostics \subseteq {ScanLimit(path)}
    BY <1>0, <1>6 DEF CheckLowerTime, Fragment
  <2>2. ScanLimit(path).level = "warning"
    BY DEF ScanLimit
  <2> QED
    BY <2>1, <2>2 DEF Labelled
<1> QED
  BY <1>1, <1>2, <1>3, <1>4, <1>5, <1>6 DEF LowerStep

LEMMA InitScanInv == RepositoryInit => ScanInv
<1> SUFFICES ASSUME RepositoryInit PROVE ScanInv
  OBVIOUS
<1>1. LoweringInv /\ WalkInv
  BY InitLoweringInv, InitWalkInv DEF RepositoryInit, LoweringInit
<1>2. ScanTypeOK
  <2>1. 0 \in 0..MaxTime
    BY WorkspaceAssumption
  <2>2. readAs \in [Files -> Contents \cup {Absent}]
    BY DEF RepositoryInit, ScanInit
  <2>3. <<>> \in Seq(Fragment)
    OBVIOUS
  <2>4. /\ spc = "begin" /\ scanStart = 0 /\ truncated = FALSE
        /\ fragments = <<>> /\ passed = {} /\ late = {}
    BY DEF RepositoryInit, ScanInit
  <2> QED
    BY <2>1, <2>2, <2>3, <2>4 DEF ScanTypeOK
<1>3. Labelled
  BY DEF RepositoryInit, FrontendInit, Labelled, EmptyFragment
<1>4. FragmentFiles = {} /\ YieldedFiles = {} /\ fragments = <<>> /\ ~truncated /\ late = {}
      /\ spc = "begin"
  BY DEF RepositoryInit, ScanInit, DiscoveryInit, FragmentFiles, YieldedFiles
<1> QED
  BY <1>1, <1>2, <1>3, <1>4
     DEF ScanInv, Located, Timed, OneFragmentPerFile, AgentsAsRead, LimitsBorne, AllTold, TruncationTold
-----------------------------------------------------------------------------
\* The facts the steps below start from, in one place.
LEMMA ScanFacts ==
  ASSUME ScanInv
  PROVE  /\ current \in Files /\ path \in Files /\ fragment \in Fragment
         /\ fragments \in Seq(Fragment) /\ Len(fragments) \in Nat
         /\ DOMAIN fragments = 1..Len(fragments)
         /\ readAs \in [Files -> Contents \cup {Absent}]
         /\ now \in Nat /\ scanStart \in Nat /\ WallBudget \in Nat
         /\ PythonFiles \subseteq Files /\ SCAN_LEVEL_FILE \notin Files
BY ScanAssumption, WorkspaceAssumption, SentinelIsNoPath
   DEF ScanInv, LoweringInv, LoweringTypeOK, WorkspaceTypeOK, FrontendTypeOK,
       WalkInv, DiscoveryTypeOK, ScanTypeOK

\* Appending a fragment of a new file.
LEMMA AppendFragment ==
  ASSUME fragments \in Seq(Fragment), NEW new \in Fragment,
         new.file \notin FragmentFiles, fragments' = Append(fragments, new)
  PROVE  /\ fragments' \in Seq(Fragment)
         /\ Len(fragments') = Len(fragments) + 1
         /\ DOMAIN fragments = 1..Len(fragments) /\ DOMAIN fragments' = 1..Len(fragments')
         /\ \A i \in DOMAIN fragments : fragments'[i] = fragments[i] /\ i \in DOMAIN fragments'
         /\ fragments'[Len(fragments')] = new
         /\ FragmentFiles' = FragmentFiles \cup {new.file}
<1> DEFINE n == Len(fragments)
<1>1. /\ n \in Nat /\ DOMAIN fragments = 1..n /\ DOMAIN fragments' = 1..(n + 1)
      /\ Len(fragments') = n + 1 /\ fragments' \in Seq(Fragment)
      /\ \A i \in 1..n : fragments'[i] = fragments[i]
      /\ fragments'[n + 1] = new
  OBVIOUS
<1>2. 1..(n + 1) = 1..n \cup {n + 1}
  BY <1>1
<1> HIDE DEF n
<1>3. FragmentFiles' = FragmentFiles \cup {new.file}
  BY <1>1, <1>2 DEF FragmentFiles
<1> QED
  BY <1>1, <1>2, <1>3 DEF n

\* Steps that leave fragments, yielded and the rest of the loop's state alone.
LEMMA BeginInv ==
  ScanInv /\ BeginScan /\ UNCHANGED <<workspaceVars, inputVars>> => ScanInv'
<1> SUFFICES ASSUME ScanInv, BeginScan, UNCHANGED <<workspaceVars, inputVars>>
             PROVE  ScanInv'
  OBVIOUS
<1>1. LoweringInv'
  BY NextLoweringInv DEF ScanInv, BeginScan, allFrontendVars
<1>2. WalkInv'
  BY StutterWalkInv DEF ScanInv, BeginScan
<1>3. /\ spc = "begin" /\ spc' = "asking" /\ scanStart' = now
      /\ UNCHANGED <<truncated, fragments, readAs, passed, late, yielded, gpc, current>>
      /\ UNCHANGED <<fragment, path, fpc, source>>
  BY DEF BeginScan, historyVars, generatorVars, frontendVars
<1>4. fragments = <<>> /\ late = {} /\ ~truncated
  BY <1>3 DEF ScanInv, Located
<1>5. ScanTypeOK'
  BY <1>3 DEF ScanInv, ScanTypeOK, LoweringInv, LoweringTypeOK, WorkspaceTypeOK
<1>6. FragmentFiles' = FragmentFiles /\ YieldedFiles' = YieldedFiles
  BY <1>3 DEF FragmentFiles, YieldedFiles
<1>7. AllTold'
  BY <1>3, <1>4, <1>6 DEF ScanInv, AllTold, Told, Pending, FragmentsOf
<1> QED
  BY <1>1, <1>2, <1>3, <1>4, <1>5, <1>6, <1>7
     DEF ScanInv, Labelled, Located, Timed, OneFragmentPerFile, AgentsAsRead, LimitsBorne, TruncationTold

\* What one step of the generator does to the set of files it has yielded.
LEMMA GeneratorYields ==
  ASSUME WalkInv, GeneratorStep
  PROVE  \/ gpc' # "suspended" /\ current' = current /\ YieldedFiles' = YieldedFiles
         \/ /\ gpc' = "suspended" /\ current' \notin YieldedFiles
            /\ YieldedFiles' = YieldedFiles \cup {current'}
<1>1. ASSUME Open \/ Exhaust \/ Raise \/ \E d \in Dirs : ScanDir(d)
      PROVE  gpc' # "suspended" /\ current' = current /\ YieldedFiles' = YieldedFiles
  BY <1>1 DEF Open, Exhaust, Raise, ScanDir, YieldedFiles
<1>2. ASSUME NEW f \in Files, Examine(f), KeptFile(f)
      PROVE  /\ gpc' = "suspended" /\ current' \notin YieldedFiles
             /\ YieldedFiles' = YieldedFiles \cup {current'}
  <2> DEFINE n == Len(yielded)
  <2>1. gpc' = "suspended" /\ current' = f /\ yielded' = Append(yielded, f) /\ f \in names
    BY <1>2 DEF Examine
  <2>2. /\ n \in Nat /\ DOMAIN yielded = 1..n /\ DOMAIN yielded' = 1..(n + 1)
        /\ \A i \in 1..n : yielded'[i] = yielded[i]
        /\ yielded'[n + 1] = f
    BY <2>1 DEF WalkInv, DiscoveryTypeOK
  <2>3. 1..(n + 1) = 1..n \cup {n + 1}
    BY <2>2
  <2> HIDE DEF n
  <2>4. YieldedFiles' = YieldedFiles \cup {f}
    BY <2>2, <2>3 DEF YieldedFiles
  <2> QED
    BY <2>1, <2>4 DEF WalkInv
<1>3. ASSUME NEW f \in Files, Examine(f), ~KeptFile(f)
      PROVE  gpc' # "suspended" /\ current' = current /\ YieldedFiles' = YieldedFiles
  BY <1>3 DEF Examine, YieldedFiles
<1> QED
  BY <1>1, <1>2, <1>3 DEF GeneratorStep

LEMMA AskInv ==
  ScanInv /\ Ask /\ UNCHANGED <<workspaceVars, inputVars>> => ScanInv'
<1> SUFFICES ASSUME ScanInv, Ask, UNCHANGED <<workspaceVars, inputVars>>
             PROVE  ScanInv'
  OBVIOUS
<1>1. LoweringInv'
  BY NextLoweringInv DEF ScanInv, Ask, allFrontendVars
<1>2. WalkInv /\ WalkInv'
  BY GeneratorWalkInv DEF ScanInv, Ask
<1>3. /\ spc = "asking" /\ UNCHANGED <<scanStart, truncated, fragments, readAs, passed, late>>
      /\ UNCHANGED <<fragment, path, fpc, source, now>>
      /\ spc' = CASE gpc' = "suspended" -> "budget" [] gpc' = "exhausted" -> "finishing"
                  [] gpc' = "raised" -> "raised" [] OTHER -> "asking"
  BY DEF Ask, historyVars, frontendVars, workspaceVars
<1>4. /\ spc' \in {"budget", "finishing", "raised", "asking"}
      /\ spc' = "budget" <=> gpc' = "suspended"
      /\ spc' = "finishing" => gpc' = "exhausted"
  BY <1>3
<1>5. ~truncated
  BY <1>3 DEF ScanInv, Timed
<1>6. \/ /\ spc' # "budget" /\ current' = current /\ YieldedFiles' = YieldedFiles
      \/ /\ spc' = "budget" /\ current' \notin YieldedFiles
         /\ YieldedFiles' = YieldedFiles \cup {current'}
  BY <1>2, <1>4, GeneratorYields DEF Ask
<1>7. FragmentFiles' = FragmentFiles
  BY <1>3 DEF FragmentFiles
<1>8. ScanTypeOK'
  BY <1>3, <1>4 DEF ScanInv, ScanTypeOK
<1>9. Located'
  BY <1>3, <1>4, <1>6, <1>7 DEF ScanInv, Located
<1>10. Timed'
  BY <1>3, <1>4, <1>5 DEF ScanInv, Timed, WallTimeOver
<1>11. OneFragmentPerFile' /\ AgentsAsRead' /\ LimitsBorne'
  BY <1>3 DEF ScanInv, OneFragmentPerFile, AgentsAsRead, LimitsBorne
<1>12. AllTold'
  <2>1. \A f : Told(f)' = Told(f)
    BY <1>3 DEF Told, FragmentsOf
  <2>2. \A f \in YieldedFiles \cap PythonFiles : Told(f)
    BY <1>3, <1>5 DEF ScanInv, AllTold, Pending
  <2> QED
    BY <1>4, <1>6, <2>1, <2>2 DEF AllTold, Pending
<1> QED
  BY <1>1, <1>2, <1>3, <1>4, <1>8, <1>9, <1>10, <1>11, <1>12
     DEF ScanInv, Labelled, TruncationTold

LEMMA DispatchInv ==
  ScanInv /\ Dispatch /\ UNCHANGED <<workspaceVars, inputVars>> => ScanInv'
<1> SUFFICES ASSUME ScanInv, Dispatch, UNCHANGED <<workspaceVars, inputVars>>
             PROVE  ScanInv'
  OBVIOUS
<1>1. LoweringInv'
  BY NextLoweringInv DEF ScanInv, Dispatch, allFrontendVars
<1>2. WalkInv'
  BY GeneratorWalkInv, StutterWalkInv DEF ScanInv, Dispatch
<1>3. /\ spc = "budget" /\ UNCHANGED <<scanStart, fragments, readAs, passed, late, now>>
      /\ UNCHANGED <<fragment, path, fpc, source, yielded, current>>
      /\ ~truncated /\ gpc = "suspended"
  BY DEF Dispatch, ScanInv, Located, Timed, historyVars, generatorVars, frontendVars, workspaceVars, Resume
<1>4. \/ WallTimeOver /\ truncated' /\ spc' = "finishing" /\ gpc' = gpc
      \/ ~WallTimeOver /\ ~truncated' /\ spc' = "asking" /\ current \notin PythonFiles
      \/ ~WallTimeOver /\ ~truncated' /\ spc' = "entering" /\ current \in PythonFiles /\ gpc' = gpc
  BY <1>3 DEF Dispatch, generatorVars
<1>5. FragmentFiles' = FragmentFiles /\ YieldedFiles' = YieldedFiles
      /\ (WallTimeOver' <=> WallTimeOver)
  BY <1>3 DEF FragmentFiles, YieldedFiles, WallTimeOver
<1>6. ScanTypeOK'
  BY <1>3, <1>4 DEF ScanInv, ScanTypeOK, Dispatch
<1>7. Located'
  BY <1>3, <1>4, <1>5 DEF ScanInv, Located
<1>8. Timed'
  BY <1>3, <1>4, <1>5 DEF ScanInv, Located, Timed
<1>9. AllTold'
  <2>1. \A f : Told(f)' = Told(f)
    BY <1>3 DEF Told, FragmentsOf
  <2>2. \A f \in YieldedFiles \cap PythonFiles : Told(f) \/ f = current
    BY DEF ScanInv, AllTold, Pending
  <2> QED
    BY <1>3, <1>4, <1>5, <2>1, <2>2 DEF AllTold, Pending
<1> QED
  BY <1>1, <1>2, <1>3, <1>4, <1>6, <1>7, <1>8, <1>9
     DEF ScanInv, Labelled, OneFragmentPerFile, AgentsAsRead, LimitsBorne, TruncationTold

LEMMA CallLowerInv ==
  ScanInv /\ CallLower /\ UNCHANGED <<workspaceVars, inputVars>> => ScanInv'
<1> SUFFICES ASSUME ScanInv, CallLower, UNCHANGED <<workspaceVars, inputVars>>
             PROVE  ScanInv'
  OBVIOUS
<1>0. current \in Files
  BY ScanFacts
<1>1. LoweringInv'
  BY <1>0, EnterLoweringInv DEF ScanInv, CallLower
<1>2. WalkInv'
  BY StutterWalkInv DEF ScanInv, CallLower
<1>3. /\ spc = "entering" /\ spc' = "lowering" /\ path' = current
      /\ fragment' = EmptyFragment(current) /\ fpc' = "stat"
      /\ UNCHANGED <<scanStart, truncated, fragments, readAs, passed, late>>
      /\ UNCHANGED <<yielded, current, gpc, now>>
  BY DEF CallLower, Enter, historyVars, generatorVars, workspaceVars
<1>4. Labelled'
  BY <1>3 DEF Labelled, EmptyFragment
<1>5. FragmentFiles' = FragmentFiles /\ YieldedFiles' = YieldedFiles
      /\ (WallTimeOver' <=> WallTimeOver)
  BY <1>3 DEF FragmentFiles, YieldedFiles, WallTimeOver
<1>6. late = {} /\ ~truncated
  BY <1>3 DEF ScanInv, Timed
<1>7. ScanTypeOK'
  BY <1>0, <1>3, <1>6 DEF ScanInv, ScanTypeOK
<1>8. Timed'
  BY <1>0, <1>3, <1>5, <1>6 DEF Timed
<1>9. AllTold'
  <2>1. \A f : Told(f)' = Told(f)
    BY <1>3 DEF Told, FragmentsOf
  <2> QED
    BY <1>3, <1>5, <2>1 DEF ScanInv, AllTold, Pending
<1> QED
  BY <1>1, <1>2, <1>3, <1>4, <1>5, <1>7, <1>8, <1>9
     DEF ScanInv, Located, OneFragmentPerFile, AgentsAsRead, LimitsBorne, TruncationTold

LEMMA LowerInv ==
  ScanInv /\ Lower /\ UNCHANGED <<workspaceVars, inputVars>> => ScanInv'
<1> SUFFICES ASSUME ScanInv, Lower, UNCHANGED <<workspaceVars, inputVars>>
             PROVE  ScanInv'
  OBVIOUS
<1>1. LoweringInv'
  BY LowerStepLoweringInv DEF ScanInv, Lower
<1>2. WalkInv'
  BY StutterWalkInv DEF ScanInv, Lower
<1>3. Labelled' /\ path' = path
  BY LowerStepLabelled DEF ScanInv, Lower
<1>4. /\ spc = "lowering" /\ spc' \in {"lowering", "raised"}
      /\ UNCHANGED <<scanStart, truncated, fragments, readAs, passed, late, yielded, current, gpc, now>>
  BY DEF Lower, historyVars, generatorVars, workspaceVars
<1>5. FragmentFiles' = FragmentFiles /\ YieldedFiles' = YieldedFiles
      /\ (WallTimeOver' <=> WallTimeOver)
  BY <1>4 DEF FragmentFiles, YieldedFiles, WallTimeOver
<1>6. AllTold'
  <2>1. \A f : Told(f)' = Told(f)
    BY <1>4 DEF Told, FragmentsOf
  <2> QED
    BY <1>4, <1>5, <2>1 DEF ScanInv, AllTold, Pending
<1> QED
  BY <1>1, <1>2, <1>3, <1>4, <1>5, <1>6
     DEF ScanInv, ScanTypeOK, Located, Timed, OneFragmentPerFile, AgentsAsRead, LimitsBorne, TruncationTold
-----------------------------------------------------------------------------
LEMMA CollectInv ==
  ScanInv /\ Collect /\ UNCHANGED <<workspaceVars, inputVars>> => ScanInv'
<1> SUFFICES ASSUME ScanInv, Collect, UNCHANGED <<workspaceVars, inputVars>>
             PROVE  ScanInv'
  OBVIOUS
<1>1. LoweringInv'
  BY NextLoweringInv DEF ScanInv, Collect, allFrontendVars
<1>2. WalkInv'
  BY GeneratorWalkInv DEF ScanInv, Collect
<1>3. /\ spc = "lowering" /\ spc' = "asking" /\ fpc = "returned"
      /\ fragments' = Append(fragments, fragment)
      /\ readAs' = [readAs EXCEPT ![path] = source]
      /\ passed' = IF PassedLimit THEN passed \cup {path} ELSE passed
      /\ late' = IF WallTimeOver THEN late \cup {path} ELSE late
      /\ UNCHANGED <<scanStart, truncated, yielded, current, now>>
      /\ UNCHANGED <<path, fragment, fpc, source>>
  BY DEF Collect, Record, Resume, frontendVars, workspaceVars
<1>4. /\ path = current /\ current \in PythonFiles /\ current \notin FragmentFiles
      /\ fragment.file = current /\ fragment \in Fragment /\ ~truncated
      /\ fragments \in Seq(Fragment) /\ current \in Files /\ gpc = "suspended"
  BY <1>3, ScanFacts DEF ScanInv, Located, Labelled, Timed
<1> DEFINE n == Len(fragments')
<1>5. /\ fragments' \in Seq(Fragment) /\ fragments'[n] = fragment /\ n \in Nat
      /\ DOMAIN fragments = 1..Len(fragments) /\ Len(fragments) \in Nat
      /\ n = Len(fragments) + 1 /\ DOMAIN fragments' = 1..n
      /\ \A i \in DOMAIN fragments : fragments'[i] = fragments[i] /\ i \in DOMAIN fragments'
      /\ FragmentFiles' = FragmentFiles \cup {current}
  BY <1>3, <1>4, AppendFragment
<1>6. \A i \in DOMAIN fragments' : i \in DOMAIN fragments \/ i = n
  BY <1>5
<1>7. YieldedFiles' = YieldedFiles /\ (WallTimeOver' <=> WallTimeOver)
      /\ current \in YieldedFiles
  <2>1. yielded # <<>> /\ current = yielded[Len(yielded)] /\ yielded \in Seq(Files)
    BY <1>4 DEF ScanInv, WalkInv, DiscoveryTypeOK
  <2>2. Len(yielded) \in DOMAIN yielded
    BY <2>1
  <2> QED
    BY <1>3, <2>1, <2>2 DEF YieldedFiles, WallTimeOver
<1>8. source \in Contents \cup {Absent}
  BY DEF ScanInv, LoweringInv, LoweringTypeOK, FrontendTypeOK
<1> HIDE DEF n
<1>9. ScanTypeOK'
  BY <1>3, <1>4, <1>5, <1>8 DEF ScanInv, ScanTypeOK
<1>10. Located'
  BY <1>3, <1>4, <1>5, <1>7 DEF ScanInv, Located
<1>11. Timed'
  BY <1>3, <1>4, <1>7 DEF ScanInv, Timed
<1>12. OneFragmentPerFile'
  <2>1. \A i \in DOMAIN fragments : fragments[i].file \in FragmentFiles
    BY DEF FragmentFiles
  <2>2. \A i \in DOMAIN fragments' : fragments'[i].file \in PythonFiles
    BY <1>3, <1>4, <1>5, <1>6, <2>1 DEF ScanInv, Located
  <2>3. ASSUME NEW i \in DOMAIN fragments', NEW j \in DOMAIN fragments',
               fragments'[i].file = fragments'[j].file
        PROVE  i = j
    <3>1. CASE i = n /\ j = n
      BY <3>1
    <3>2. CASE i \in DOMAIN fragments /\ j \in DOMAIN fragments
      BY <1>5, <2>3, <3>2 DEF ScanInv, OneFragmentPerFile
    <3>3. CASE \/ i \in DOMAIN fragments /\ j = n
               \/ j \in DOMAIN fragments /\ i = n
      BY <1>4, <1>5, <2>1, <2>3, <3>3
    <3> QED
      BY <1>6, <3>1, <3>2, <3>3
  <2> QED
    BY <2>2, <2>3 DEF OneFragmentPerFile
<1>13. AllTold'
  <2>1. ASSUME NEW f \in PythonFiles, f # current, Told(f) PROVE Told(f)'
    <3>1. readAs'[f] = readAs[f]
      BY <1>3, <1>4, <2>1, ScanFacts
    <3>2. FragmentsOf(f) \subseteq FragmentsOf(f)'
      BY <1>5 DEF FragmentsOf
    <3>3. \A i \in FragmentsOf(f) : fragments'[i] = fragments[i]
      BY <1>5 DEF FragmentsOf
    <3> QED
      BY <2>1, <3>1, <3>2, <3>3 DEF Told
  <2>2. Told(current)'
    <3>1. n \in FragmentsOf(current)'
      BY <1>3, <1>4, <1>5 DEF FragmentsOf
    <3>2. readAs'[current] = source
      BY <1>3, <1>4, ScanFacts
    <3>3. CASE fragment.diagnostics = {}
      BY <1>3, <1>5, <3>1, <3>2, <3>3 DEF ScanInv, LoweringInv, SilenceMeansWhole, Told
    <3>4. CASE fragment.diagnostics # {}
      BY <1>3, <1>5, <3>1, <3>4 DEF ScanInv, Labelled, Told
    <3> QED
      BY <3>3, <3>4
  <2>3. \A f \in YieldedFiles \cap PythonFiles : Told(f) \/ f = current
    BY DEF ScanInv, AllTold, Pending
  <2> QED
    BY <1>3, <1>7, <2>1, <2>2, <2>3 DEF AllTold
<1>14. AgentsAsRead'
  <2> SUFFICES ASSUME NEW i \in DOMAIN fragments', fragments'[i].agents # <<>>
               PROVE  /\ fragments'[i].file \in PythonFiles
                      /\ readAs'[fragments'[i].file] # Absent
                      /\ fragments'[i].agents = readAs'[fragments'[i].file].agents
    BY DEF AgentsAsRead
  <2>1. CASE i = n
    <3>1. readAs'[current] = source
      BY <1>3, <1>4, ScanFacts
    <3> QED
      BY <1>4, <1>5, <2>1, <3>1 DEF ScanInv, Labelled
  <2>2. CASE i \in DOMAIN fragments
    <3>1. fragments'[i] = fragments[i] /\ fragments[i].file \in PythonFiles
      BY <1>5, <2>2 DEF ScanInv, AgentsAsRead
    <3>2. fragments[i].file # current
      BY <1>4, <2>2 DEF FragmentFiles
    <3>3. readAs'[fragments[i].file] = readAs[fragments[i].file]
      BY <1>3, <1>4, <3>1, <3>2, ScanFacts
    <3> QED
      BY <2>2, <3>1, <3>3 DEF ScanInv, AgentsAsRead
  <2> QED
    BY <1>6, <2>1, <2>2
<1>15. LimitsBorne'
  <2> SUFFICES ASSUME NEW i \in DOMAIN fragments', fragments'[i].file \in PythonFiles,
                      HasLimit(fragments'[i].diagnostics)
               PROVE  \/ fragments'[i].file \in passed'
                      \/ Malformed(readAs'[fragments'[i].file])
    BY DEF LimitsBorne, HasLimit, Malformed
  <2>1. CASE i = n
    <3>1. readAs'[current] = source
      BY <1>3, <1>4, ScanFacts
    <3>2. PassedLimit \/ Malformed(source)
      BY <1>3, <1>5, <2>1 DEF ScanInv, LoweringInv, LimitIsReal
    <3> QED
      BY <1>3, <1>4, <1>5, <2>1, <3>1, <3>2
  <2>2. CASE i \in DOMAIN fragments
    <3>1. fragments'[i] = fragments[i]
      BY <1>5, <2>2
    <3>2. fragments[i].file # current
      BY <1>4, <2>2 DEF FragmentFiles
    <3>3. readAs'[fragments[i].file] = readAs[fragments[i].file]
      BY <1>3, <1>4, <3>1, <3>2, ScanFacts
    <3> QED
      BY <1>3, <2>2, <3>1, <3>3 DEF ScanInv, LimitsBorne
  <2> QED
    BY <1>6, <2>1, <2>2
<1> QED
  BY <1>1, <1>2, <1>3, <1>4, <1>9, <1>10, <1>11, <1>12, <1>13, <1>14, <1>15
     DEF ScanInv, Labelled, TruncationTold

LEMMA FinishInv ==
  ScanInv /\ Finish /\ UNCHANGED <<workspaceVars, inputVars>> => ScanInv'
<1> SUFFICES ASSUME ScanInv, Finish, UNCHANGED <<workspaceVars, inputVars>>
             PROVE  ScanInv'
  OBVIOUS
<1>1. LoweringInv'
  BY NextLoweringInv DEF ScanInv, Finish, allFrontendVars
<1>2. WalkInv'
  BY StutterWalkInv DEF ScanInv, Finish
<1> DEFINE last == [file |-> SCAN_LEVEL_FILE, agents |-> <<>>,
                    diagnostics |-> ScanLevelDiagnostics]
<1>3. /\ spc = "finishing" /\ spc' = "scanned"
      /\ UNCHANGED <<scanStart, truncated, readAs, passed, late, yielded, current, gpc, now>>
      /\ UNCHANGED <<path, fragment, fpc, source>>
      /\ fragments' = IF ScanLevelDiagnostics = {} THEN fragments ELSE Append(fragments, last)
  BY DEF Finish, historyVars, generatorVars, frontendVars, workspaceVars
<1>4. FragmentFiles \subseteq PythonFiles /\ SCAN_LEVEL_FILE \notin FragmentFiles
      /\ FragmentFiles \subseteq YieldedFiles /\ current \in Files
      /\ fragments \in Seq(Fragment)
  BY <1>3, ScanFacts DEF ScanInv, Located
<1>5. last \in Fragment /\ last.file = SCAN_LEVEL_FILE /\ last.agents = <<>>
  <2>1. scanDiags \in SUBSET Diagnostic /\ config.diagnostics \in SUBSET Diagnostic
    BY DEF ScanInv, WalkInv, DiscoveryTypeOK, Config
  <2>2. ScanLimit(SCAN_LEVEL_FILE) \in Diagnostic
    BY DEF ScanLimit, Diagnostic, DiagnosticLevel
  <2>3. ScanLevelDiagnostics \in SUBSET Diagnostic
    BY <2>1, <2>2 DEF ScanLevelDiagnostics
  <2> QED
    BY <2>3 DEF Fragment
<1>6. YieldedFiles' = YieldedFiles /\ (WallTimeOver' <=> WallTimeOver)
  BY <1>3 DEF YieldedFiles, WallTimeOver
<1>7. \A i \in DOMAIN fragments : fragments[i].file \in FragmentFiles
  BY DEF FragmentFiles
<1>8. CASE ScanLevelDiagnostics = {}
  <2>1. UNCHANGED fragments /\ ~truncated
    BY <1>3, <1>8 DEF ScanLevelDiagnostics
  <2>2. AllTold'
    BY <1>3, <1>6, <2>1 DEF ScanInv, AllTold, Told, Pending, FragmentsOf
  <2> QED
    BY <1>1, <1>2, <1>3, <1>6, <2>1, <2>2
       DEF ScanInv, ScanTypeOK, Labelled, Located, Timed, OneFragmentPerFile,
           AgentsAsRead, LimitsBorne, TruncationTold, FragmentFiles
<1>9. CASE ScanLevelDiagnostics # {}
  <2> DEFINE n == Len(fragments')
  <2>1. fragments' = Append(fragments, last)
    BY <1>3, <1>9
  <2> HIDE DEF last
  <2>2. /\ fragments' \in Seq(Fragment) /\ fragments'[n] = last /\ n \in Nat
        /\ DOMAIN fragments = 1..Len(fragments) /\ Len(fragments) \in Nat
        /\ n = Len(fragments) + 1 /\ DOMAIN fragments' = 1..n
        /\ \A i \in DOMAIN fragments : fragments'[i] = fragments[i] /\ i \in DOMAIN fragments'
        /\ FragmentFiles' = FragmentFiles \cup {SCAN_LEVEL_FILE}
    BY <1>4, <1>5, <2>1, AppendFragment
  <2> HIDE DEF n
  <2>3. \A i \in DOMAIN fragments' : i \in DOMAIN fragments \/ i = n
    BY <2>2
  <2>4. ScanTypeOK'
    BY <1>3, <2>2 DEF ScanInv, ScanTypeOK
  <2>5. OneFragmentPerFile'
    <3>1. \A i \in DOMAIN fragments' : fragments'[i].file \in PythonFiles \/ i = n
      BY <1>4, <1>7, <2>2, <2>3
    <3>2. ASSUME NEW i \in DOMAIN fragments', NEW j \in DOMAIN fragments',
                 fragments'[i].file = fragments'[j].file
          PROVE  i = j
      <4>1. CASE i = n /\ j = n
        BY <4>1
      <4>2. CASE i \in DOMAIN fragments /\ j \in DOMAIN fragments
        BY <2>2, <3>2, <4>2 DEF ScanInv, OneFragmentPerFile
      <4>3. CASE \/ i \in DOMAIN fragments /\ j = n
                 \/ j \in DOMAIN fragments /\ i = n
        BY <1>4, <1>5, <1>7, <2>2, <3>2, <4>3
      <4> QED
        BY <2>3, <4>1, <4>2, <4>3
    <3> QED
      BY <3>1, <3>2 DEF OneFragmentPerFile, n
  <2>6. Located' /\ Timed'
    <3>1. current # SCAN_LEVEL_FILE
      BY ScanFacts
    <3> QED
      BY <1>3, <1>6, <2>2, <3>1 DEF ScanInv, Located, Timed
  <2>7. AllTold'
    <3>1. ASSUME NEW f \in PythonFiles, Told(f) PROVE Told(f)'
      BY <1>3, <2>2, <3>1 DEF Told, FragmentsOf
    <3> QED
      BY <1>3, <1>6, <3>1 DEF ScanInv, AllTold, Pending
  <2>8. TruncationTold'
    <3>1. truncated => ScanLimit(SCAN_LEVEL_FILE) \in last.diagnostics
      BY DEF last, ScanLevelDiagnostics
    <3>2. n \in DOMAIN fragments'
      BY <2>2
    <3> QED
      BY <1>3, <2>2, <3>1, <3>2 DEF TruncationTold, Reported
  <2>9. AgentsAsRead' /\ LimitsBorne'
    <3>1. last.file \notin PythonFiles
      BY <1>5, ScanFacts
    <3> QED
      BY <1>3, <1>5, <2>2, <2>3, <3>1 DEF ScanInv, AgentsAsRead, LimitsBorne, HasLimit, Malformed
  <2> QED
    BY <1>1, <1>2, <1>3, <2>4, <2>5, <2>6, <2>7, <2>8, <2>9 DEF ScanInv, Labelled
<1> QED
  BY <1>8, <1>9
-----------------------------------------------------------------------------
\* A budget that is passed stays passed; nothing else is touched.
LEMMA EnvironmentScanInv ==
  ASSUME ScanInv, Environment, UNCHANGED <<inputVars, generatorVars, frontendVars, scanVars>>
  PROVE  ScanInv'
<1>1. LoweringInv'
  BY EnvironmentLoweringInv DEF ScanInv
<1>2. WalkInv'
  BY StutterWalkInv DEF ScanInv
<1>3. /\ UNCHANGED <<spc, scanStart, truncated, fragments, readAs, passed, late>>
      /\ UNCHANGED <<yielded, current, gpc, path, fragment, fpc, source>>
  BY DEF scanVars, historyVars, generatorVars, frontendVars
<1>4. WallTimeOver => WallTimeOver'
  <2>1. now' = now \/ now' = now + 1
    BY DEF Environment, Edit, Tick
  <2>2. now \in Nat /\ scanStart \in Nat /\ WallBudget \in Nat
    BY ScanFacts
  <2> QED
    BY <1>3, <2>1, <2>2 DEF WallTimeOver
<1>5. FragmentFiles' = FragmentFiles /\ YieldedFiles' = YieldedFiles
  BY <1>3 DEF FragmentFiles, YieldedFiles
<1>6. AllTold'
  BY <1>3, <1>5 DEF ScanInv, AllTold, Told, Pending, FragmentsOf
<1> QED
  BY <1>1, <1>2, <1>3, <1>4, <1>5, <1>6
     DEF ScanInv, ScanTypeOK, Labelled, Located, Timed, OneFragmentPerFile,
         AgentsAsRead, LimitsBorne, TruncationTold, Reported

LEMMA StutterScanInv == ScanInv /\ UNCHANGED allScanVars => ScanInv'
<1> SUFFICES ASSUME ScanInv, UNCHANGED allScanVars PROVE ScanInv'
  OBVIOUS
<1>1. LoweringInv' /\ WalkInv'
  BY NextLoweringInv, StutterWalkInv DEF ScanInv, allScanVars, allFrontendVars
<1>2. /\ UNCHANGED <<spc, scanStart, truncated, fragments, readAs, passed, late, now>>
      /\ UNCHANGED <<yielded, current, gpc, path, fragment, fpc, source>>
  BY DEF allScanVars, scanVars, historyVars, generatorVars, frontendVars, workspaceVars
<1>3. /\ FragmentFiles' = FragmentFiles /\ YieldedFiles' = YieldedFiles
      /\ (WallTimeOver' <=> WallTimeOver)
  BY <1>2 DEF FragmentFiles, YieldedFiles, WallTimeOver
<1>4. AllTold'
  BY <1>2, <1>3 DEF ScanInv, AllTold, Told, Pending, FragmentsOf
<1> QED
  BY <1>1, <1>2, <1>3, <1>4
     DEF ScanInv, ScanTypeOK, Labelled, Located, Timed, OneFragmentPerFile,
         AgentsAsRead, LimitsBorne, TruncationTold, Reported

LEMMA ScanStepInv == ScanInv /\ ScanStep => ScanInv'
BY BeginInv, AskInv, DispatchInv, CallLowerInv, LowerInv, CollectInv, FinishInv DEF ScanStep

LEMMA NextScanInv == ScanInv /\ [RepositoryNext]_allScanVars => ScanInv'
BY ScanStepInv, EnvironmentScanInv, StutterScanInv DEF RepositoryNext

\* The loop, the generator and the frontend keep their variables well typed
\* (scan.py:45-93).
THEOREM RepositoryTypeCorrect == RepositorySpec => []RepositoryTypeOK
<1>1. ScanInv => RepositoryTypeOK
  BY DEF ScanInv, LoweringInv, LoweringTypeOK, WalkInv, RepositoryTypeOK
<1> QED
  BY InitScanInv, NextScanInv, <1>1, PTL DEF RepositorySpec

\* Each file has one fragment at most, and the sentinel's is the last, for any
\* tree, texts, edits and clock (scan.py:59-93).
THEOREM FragmentsAreDistinct == RepositorySpec => []OneFragmentPerFile
<1>1. ScanInv => OneFragmentPerFile
  BY DEF ScanInv
<1> QED
  BY InitScanInv, NextScanInv, <1>1, PTL DEF RepositorySpec

\* At most one lowering ends, or is still under way, past the deadline, whatever
\* the budget and however fast the clock (scan.py:59-62).
THEOREM DeadlineOvershootsByOne == RepositorySpec => []OvershootAtMostOne
<1>1. ScanInv => OvershootAtMostOne
  <2> DEFINE over == late \cup LateNow
  <2> SUFFICES ASSUME ScanInv PROVE Cardinality(over) <= 1
    BY DEF OvershootAtMostOne
  <2>1. over = {} \/ \E f \in Files : over = {f}
    BY ScanFacts DEF ScanInv, Timed, LateNow
  <2> HIDE DEF over
  <2>2. CASE over = {}
    <3>1. Cardinality(over) = 0
      BY <2>2, FS_EmptySet, Zenon
    <3> QED
      BY <3>1
  <2>3. ASSUME NEW f \in Files, over = {f} PROVE Cardinality(over) <= 1
    <3>1. Cardinality(over) = 1
      BY <2>3, FS_Singleton, Zenon
    <3> QED
      BY <3>1
  <2> QED
    BY <2>1, <2>2, <2>3, Zenon
<1> QED
  BY InitScanInv, NextScanInv, <1>1, PTL DEF RepositorySpec

\* The scan is called truncated only when the budget was passed with a file in
\* hand that stays unlowered (scan.py:60-62).
THEOREM TruncationIsJustified == RepositorySpec => []TruncationIsReal
<1>1. ScanInv => TruncationIsReal
  BY DEF ScanInv, Timed, TruncationIsReal, FragmentsOf, FragmentFiles
<1> QED
  BY InitScanInv, NextScanInv, <1>1, PTL DEF RepositorySpec

-----------------------------------------------------------------------------
\* The generator is not started before the scan is.
StartedLate == spc = "begin" => gpc = "created"

LEMMA InitStartedLate == RepositoryInit => StartedLate
BY DEF RepositoryInit, DiscoveryInit, StartedLate

LEMMA NextStartedLate == StartedLate /\ [RepositoryNext]_allScanVars => StartedLate'
<1> SUFFICES ASSUME StartedLate, [RepositoryNext]_allScanVars PROVE StartedLate'
  OBVIOUS
<1>1. CASE ScanStep
  BY <1>1 DEF ScanStep, BeginScan, Ask, Dispatch, CallLower, Lower, Collect, Finish, StartedLate
<1>2. CASE UNCHANGED <<generatorVars, scanVars>>
  BY <1>2 DEF generatorVars, scanVars, StartedLate
<1> QED
  BY <1>1, <1>2 DEF RepositoryNext, allScanVars

LEMMA LowerStepAdvances == LowerStep => Order[fpc'] > Order[fpc]
BY DEF LowerStep, Stat, Read, Parse, CheckParseTime, Detect, CheckLowerTime, Goto, Skip, Order

Moves ==
  \/ Unmet' \subseteq Unmet /\ Unmet' # Unmet
  \/ Unmet' = Unmet /\ Order[Position'] > Order[Position]

LEMMA ScanStepAdvances == ScanInv /\ ScanInv' /\ StartedLate /\ ScanStep => Moves
<1> SUFFICES ASSUME ScanInv, ScanInv', StartedLate, ScanStep PROVE Moves
  OBVIOUS
<1>1. ASSUME UNCHANGED generatorVars PROVE Unmet' = Unmet
  BY <1>1 DEF generatorVars, Unmet
<1>2. ASSUME Resume PROVE Unmet' = Unmet /\ gpc' = "walking"
  BY <1>2 DEF Resume, Unmet
<1>3. CASE BeginScan
  <2>1. Position = "begin" /\ Position' = "created"
    BY <1>3 DEF BeginScan, StartedLate, Position, generatorVars
  <2> QED
    BY <1>1, <1>3, <2>1 DEF BeginScan, Moves, Order
<1>4. CASE Ask
  <2>1. WalkInv /\ WalkInv' /\ GeneratorStep /\ spc = "asking" /\ Position = gpc
    BY <1>4 DEF Ask, ScanInv, Position
  <2>2. CASE Unmet' \subseteq Unmet /\ Unmet' # Unmet
    BY <2>2 DEF Moves
  <2>3. CASE Unmet' = Unmet /\ gpc = "created" /\ gpc' = "walking"
    <3>1. Position' = "walking"
      BY <1>4, <2>3 DEF Ask, Position
    <3> QED
      BY <2>1, <2>3, <3>1 DEF Moves, Order
  <2>4. CASE Unmet' = Unmet /\ gpc = "walking" /\ gpc' \in {"exhausted", "raised"}
    <3>1. Position' \in {"finishing", "raised"}
      BY <1>4, <2>4 DEF Ask, Position
    <3> QED
      BY <2>1, <2>4, <3>1 DEF Moves, Order
  <2> QED
    BY <2>1, <2>2, <2>3, <2>4, GeneratorAdvances
<1>5. CASE Dispatch
  <2>1. Position = "budget"
    BY <1>5 DEF Dispatch, Position
  <2>2. Unmet' = Unmet /\ Position' \in {"finishing", "walking", "entering"}
    BY <1>1, <1>2, <1>5 DEF Dispatch, Position
  <2> QED
    BY <2>1, <2>2 DEF Moves, Order
<1>6. CASE CallLower
  <2>1. Position = "entering" /\ Position' = "stat"
    BY <1>6 DEF CallLower, Enter, Position
  <2> QED
    BY <1>1, <1>6, <2>1 DEF CallLower, Moves, Order
<1>7. CASE Lower
  <2>1. LowerStep /\ Position = fpc /\ Position' = fpc'
    BY <1>7 DEF Lower, Position
  <2> QED
    BY <1>1, <1>7, <2>1, LowerStepAdvances DEF Lower, Moves
<1>8. CASE Collect
  <2>1. Position = "returned" /\ Position' = "walking" /\ Unmet' = Unmet
    BY <1>2, <1>8 DEF Collect, Position
  <2> QED
    BY <2>1 DEF Moves, Order
<1>9. CASE Finish
  <2>1. Position = "finishing" /\ Position' = "scanned"
    BY <1>9 DEF Finish, Position
  <2> QED
    BY <1>1, <1>9, <2>1 DEF Finish, Moves, Order
<1> QED
  BY <1>3, <1>4, <1>5, <1>6, <1>7, <1>8, <1>9 DEF ScanStep

\* Every step of a scan takes something off what is still to be met or moves on,
\* in a tree of any size and whatever is edited meanwhile: a scan cannot be kept
\* busy (limits.py:5-6).
THEOREM ScanMovesOn == RepositorySpec => ScanAdvances
<1>1. ScanInv /\ ScanInv' /\ StartedLate /\ [RepositoryNext]_allScanVars =>
        [Moves]_<<generatorVars, frontendVars, scanVars>>
  BY ScanStepAdvances DEF RepositoryNext, allScanVars
<1>2. [][Moves]_<<generatorVars, frontendVars, scanVars>> => ScanAdvances
  BY DEF Moves, ScanAdvances
<1> QED
  BY InitScanInv, NextScanInv, InitStartedLate, NextStartedLate, <1>1, <1>2, PTL DEF RepositorySpec

-----------------------------------------------------------------------------
\* Where what a scan reports comes from: each fragment's diagnostics are about
\* its file, the last one's are those of the walk, the configuration and the
\* budget; a text that was kept belongs to a fragment, and is the text on disk
\* while nobody has edited.
Marks(f) == {Warning(f), ScanLimit(f)}

WalkMarks ==
  {Info(e) : e \in Entries} \cup {Warning(e) : e \in Entries}
    \cup IF gitignore.reads THEN {} ELSE {Warning(SCAN_LEVEL_FILE)}

OwnDiagnostics ==
  /\ fragment.diagnostics \subseteq Marks(path)
  /\ \A i \in DOMAIN fragments :
       IF fragments[i].file = SCAN_LEVEL_FILE
       THEN fragments[i].diagnostics = ScanLevelDiagnostics
       ELSE /\ fragments[i].file \in PythonFiles
            /\ fragments[i].diagnostics \subseteq Marks(fragments[i].file)
  /\ spc = "scanned" /\ ScanLevelDiagnostics # {} => SCAN_LEVEL_FILE \in FragmentFiles
  /\ scanDiags \subseteq WalkMarks

OwnTexts ==
  /\ \A f \in Files : readAs[f] # Absent => f \in FragmentFiles
  /\ edits = 0 =>
       /\ gone = NoFileAt(disk)
       /\ source # Absent => source = disk[path]
       /\ \A f \in Files : readAs[f] # Absent => readAs[f] = disk[f]

OriginInv ==
  /\ VisibilityInv /\ OwnDiagnostics /\ OwnTexts
  /\ spc = "begin" => gpc = "created"

LEMMA InitOriginInv == RepositoryInit => OriginInv
<1> SUFFICES ASSUME RepositoryInit PROVE OriginInv
  OBVIOUS
<1>1. /\ WalkInv /\ gpc = "created" /\ NoFileAt(disk) = gone /\ scanDiags = {}
      /\ fragments = <<>> /\ spc = "begin" /\ source = Absent
      /\ fragment.diagnostics = {} /\ readAs = [f \in Files |-> Absent]
  BY InitWalkInv
     DEF RepositoryInit, WorkspaceInit, DiscoveryInit, FrontendInit, ScanInit, EmptyFragment
<1>2. VisibilityInv
  BY <1>1, CreatedVisibilityInv
<1> QED
  BY <1>1, <1>2 DEF OriginInv, OwnDiagnostics, OwnTexts

LEMMA SkipOwnDiagnostics ==
  ASSUME UNCHANGED path, Skip(Warning(path)) \/ Skip(ScanLimit(path))
  PROVE  fragment'.diagnostics \subseteq Marks(path')
<1>1. PICK d \in Marks(path) : Skip(d)
  BY DEF Marks
<1>2. fragment' = [EmptyFragment(path) EXCEPT !.diagnostics = {d}]
  BY <1>1 DEF Skip
<1>3. fragment'.diagnostics = {d}
  BY <1>2 DEF EmptyFragment
<1> QED
  BY <1>3 DEF Marks

LEMMA LowerStepOrigin ==
  ASSUME LoweringInv, fragment.diagnostics \subseteq Marks(path), LowerStep
  PROVE  /\ fragment'.diagnostics \subseteq Marks(path') /\ path' = path
         /\ source' = source \/ source' = disk[path]
<1>0. path \in Files /\ fragment \in Fragment
  BY DEF LoweringInv, LoweringTypeOK, FrontendTypeOK
<1>1. CASE Stat
  <2>1. path' = path /\ source' = source
    BY <1>1 DEF Stat
  <2>2. \/ Skip(Warning(path)) \/ Skip(ScanLimit(path)) \/ Goto("read")
    BY <1>1 DEF Stat
  <2> QED
    BY <2>1, <2>2, SkipOwnDiagnostics DEF Goto
<1>2. CASE Read
  BY <1>2, SkipOwnDiagnostics DEF Read, Goto
<1>3. CASE Parse
  BY <1>3, SkipOwnDiagnostics DEF Parse, Goto
<1>4. CASE CheckParseTime
  BY <1>4, SkipOwnDiagnostics DEF CheckParseTime, Goto
<1>5. CASE Detect
  <2>1. path' = path /\ source' = source /\ fragment'.diagnostics = fragment.diagnostics
    BY <1>0, <1>5 DEF Detect, Goto, Fragment
  <2> QED
    BY <2>1
<1>6. CASE CheckLowerTime
  <2>1. /\ path' = path /\ source' = source
        /\ fragment'.diagnostics \subseteq {ScanLimit(path)}
    BY <1>0, <1>6 DEF CheckLowerTime, Fragment
  <2> QED
    BY <2>1 DEF Marks
<1> QED
  BY <1>1, <1>2, <1>3, <1>4, <1>5, <1>6 DEF LowerStep

\* The walk speaks of the entries of the tree, and of a .gitignore it cannot
\* read.
LEMMA GeneratorMarks ==
  scanDiags \subseteq WalkMarks /\ GeneratorStep /\ UNCHANGED inputVars
    => (scanDiags \subseteq WalkMarks)'
<1> SUFFICES ASSUME scanDiags \subseteq WalkMarks, GeneratorStep, UNCHANGED inputVars
             PROVE  scanDiags' \subseteq WalkMarks
  BY DEF inputVars, WalkMarks
<1>1. CASE Open
  BY <1>1 DEF Open, WalkMarks
<1>2. ASSUME NEW d \in Dirs, ScanDir(d) PROVE scanDiags' \subseteq WalkMarks
  BY <1>2 DEF ScanDir, Subdirs, WalkMarks, Entries
<1>3. ASSUME NEW f \in Files, Examine(f) PROVE scanDiags' \subseteq WalkMarks
  <2>1. Refusal(f) \subseteq {Info(f), Warning(f)}
    BY DEF Refusal
  <2>2. f \in Entries
    BY DEF Entries
  <2>3. scanDiags' \subseteq scanDiags \cup Refusal(f)
    BY <1>3 DEF Examine
  <2> QED
    BY <2>1, <2>2, <2>3 DEF WalkMarks
<1>4. CASE Exhaust \/ Raise
  BY <1>4 DEF Exhaust, Raise
<1> QED
  BY <1>1, <1>2, <1>3, <1>4 DEF GeneratorStep

\* The steps that add no fragment and read no text, walking or not.
LEMMA WalkOriginInv ==
  ASSUME ScanInv, OriginInv,
         BeginScan \/ Ask \/ Dispatch, UNCHANGED <<workspaceVars, inputVars>>
  PROVE  OriginInv'
<1>1. VisibilityInv'
  BY GeneratorVisibilityInv, EnvironmentVisibilityInv
     DEF ScanInv, OriginInv, BeginScan, Ask, Dispatch
<1>2. /\ UNCHANGED <<fragments, readAs, fragment, path, source, disk, edits, gone, gitignore>>
      /\ spc \in {"begin", "asking", "budget"} /\ spc' # "begin"
      /\ FragmentFiles' = FragmentFiles
  BY DEF BeginScan, Ask, Dispatch, historyVars, frontendVars, workspaceVars, inputVars, FragmentFiles
<1>3. spc' # "scanned"
  BY DEF BeginScan, Ask, Dispatch
<1>4. \A i \in DOMAIN fragments : fragments[i].file # SCAN_LEVEL_FILE
  BY <1>2, ScanFacts DEF ScanInv, Located, FragmentFiles
<1>5. (scanDiags \subseteq WalkMarks)'
  <2>1. CASE Ask
    BY <2>1, GeneratorMarks DEF Ask, OriginInv, OwnDiagnostics
  <2>2. CASE BeginScan \/ Dispatch
    BY <2>2 DEF BeginScan, Dispatch, Resume, generatorVars, OriginInv, OwnDiagnostics,
                WalkMarks, inputVars
  <2> QED
    BY <2>1, <2>2
<1>6. OwnDiagnostics'
  BY <1>2, <1>3, <1>4, <1>5 DEF OriginInv, OwnDiagnostics
<1>7. OwnTexts'
  BY <1>2 DEF OriginInv, OwnTexts, NoFileAt
<1> QED
  BY <1>1, <1>2, <1>6, <1>7 DEF OriginInv

LEMMA LoweringOriginInv ==
  ASSUME ScanInv, OriginInv, CallLower \/ Lower, UNCHANGED <<workspaceVars, inputVars>>
  PROVE  OriginInv'
<1>1. VisibilityInv'
  BY EnvironmentVisibilityInv DEF OriginInv, CallLower, Lower
<1>2. /\ UNCHANGED <<fragments, readAs, scanDiags, gpc, disk, edits, gone, gitignore>>
      /\ spc \in {"entering", "lowering"} /\ spc' # "begin" /\ spc' # "scanned"
      /\ FragmentFiles' = FragmentFiles
  BY DEF CallLower, Lower, historyVars, generatorVars, workspaceVars, inputVars, FragmentFiles
<1>3. \A i \in DOMAIN fragments : fragments[i].file # SCAN_LEVEL_FILE
  BY <1>2, ScanFacts DEF ScanInv, Located, FragmentFiles
<1>4. /\ fragment'.diagnostics \subseteq Marks(path')
      /\ edits = 0 /\ source' # Absent => source' = disk[path']
  <2>1. CASE CallLower
    BY <2>1 DEF CallLower, Enter, EmptyFragment
  <2>2. CASE Lower
    <3>1. /\ fragment'.diagnostics \subseteq Marks(path') /\ path' = path
          /\ source' = source \/ source' = disk[path]
      BY <2>2, LowerStepOrigin DEF ScanInv, OriginInv, OwnDiagnostics, Lower
    <3> QED
      BY <3>1 DEF OriginInv, OwnTexts
  <2> QED
    BY <2>1, <2>2
<1>5. OwnDiagnostics'
  BY <1>2, <1>3, <1>4 DEF OriginInv, OwnDiagnostics, WalkMarks
<1>6. OwnTexts'
  BY <1>2, <1>4 DEF OriginInv, OwnTexts, NoFileAt
<1> QED
  BY <1>1, <1>2, <1>5, <1>6 DEF OriginInv

LEMMA CollectOriginInv ==
  ASSUME ScanInv, OriginInv, Collect, UNCHANGED <<workspaceVars, inputVars>>
  PROVE  OriginInv'
<1>1. VisibilityInv'
  BY GeneratorVisibilityInv DEF ScanInv, OriginInv, Collect
<1>2. /\ fragments' = Append(fragments, fragment)
      /\ readAs' = [readAs EXCEPT ![path] = source]
      /\ UNCHANGED <<scanDiags, disk, edits, gone, gitignore, fragment, path, source>>
      /\ spc = "lowering" /\ spc' = "asking"
  BY DEF Collect, Record, Resume, frontendVars, workspaceVars, inputVars
<1>3. /\ path = current /\ current \in PythonFiles /\ current \notin FragmentFiles
      /\ fragment.file = current /\ fragment \in Fragment /\ fragments \in Seq(Fragment)
      /\ current \in Files
  BY <1>2, ScanFacts DEF ScanInv, Located, Labelled
<1>4. \A i \in DOMAIN fragments : fragments[i].file # SCAN_LEVEL_FILE
  BY <1>2, ScanFacts DEF ScanInv, Located, FragmentFiles
<1> DEFINE n == Len(fragments')
<1>5. /\ fragments'[n] = fragment /\ DOMAIN fragments = 1..Len(fragments)
      /\ n = Len(fragments) + 1 /\ DOMAIN fragments' = 1..n /\ Len(fragments) \in Nat
      /\ \A i \in DOMAIN fragments : fragments'[i] = fragments[i]
      /\ FragmentFiles' = FragmentFiles \cup {current}
  BY <1>2, <1>3, AppendFragment
<1>6. \A i \in DOMAIN fragments' : i \in DOMAIN fragments \/ i = n
  BY <1>5
<1> HIDE DEF n
<1>7. \A i \in DOMAIN fragments' :
        /\ fragments'[i].file # SCAN_LEVEL_FILE /\ fragments'[i].file \in PythonFiles
        /\ fragments'[i].diagnostics \subseteq Marks(fragments'[i].file)
  <2>1. current # SCAN_LEVEL_FILE
    BY ScanFacts
  <2> QED
    BY <1>3, <1>4, <1>5, <1>6, <2>1 DEF OriginInv, OwnDiagnostics
<1>8. OwnDiagnostics'
  BY <1>2, <1>7 DEF OriginInv, OwnDiagnostics, WalkMarks
<1>9. \A f \in Files : readAs'[f] = IF f = current THEN source ELSE readAs[f]
  BY <1>2, <1>3, ScanFacts
<1>10. OwnTexts'
  BY <1>2, <1>3, <1>5, <1>9 DEF OriginInv, OwnTexts, NoFileAt
<1> QED
  BY <1>1, <1>2, <1>8, <1>10 DEF OriginInv

LEMMA FinishOriginInv ==
  ASSUME ScanInv, OriginInv, Finish, UNCHANGED <<workspaceVars, inputVars>>
  PROVE  OriginInv'
<1>1. VisibilityInv'
  BY EnvironmentVisibilityInv DEF OriginInv, Finish
<1> DEFINE last == [file |-> SCAN_LEVEL_FILE, agents |-> <<>>,
                    diagnostics |-> ScanLevelDiagnostics]
<1>2. /\ fragments' = IF ScanLevelDiagnostics = {} THEN fragments ELSE Append(fragments, last)
      /\ UNCHANGED <<readAs, scanDiags, config, truncated, disk, edits, gone, gitignore,
                     fragment, path, source>>
      /\ spc = "finishing" /\ spc' = "scanned"
  BY DEF Finish, historyVars, generatorVars, frontendVars, workspaceVars, inputVars
<1>3. ScanLevelDiagnostics' = ScanLevelDiagnostics
  BY <1>2 DEF ScanLevelDiagnostics
<1>4. \A i \in DOMAIN fragments : fragments[i].file # SCAN_LEVEL_FILE
  BY <1>2, ScanFacts DEF ScanInv, Located, FragmentFiles
<1>5. CASE ScanLevelDiagnostics = {}
  BY <1>1, <1>2, <1>3, <1>4, <1>5
     DEF OriginInv, OwnDiagnostics, OwnTexts, WalkMarks, FragmentFiles, NoFileAt
<1>6. CASE ScanLevelDiagnostics # {}
  <2>1. last \in Fragment /\ last.file \notin FragmentFiles /\ fragments \in Seq(Fragment)
    <3>1. scanDiags \in SUBSET Diagnostic /\ config.diagnostics \in SUBSET Diagnostic
      BY DEF ScanInv, WalkInv, DiscoveryTypeOK, Config
    <3>2. ScanLimit(SCAN_LEVEL_FILE) \in Diagnostic
      BY DEF ScanLimit, Diagnostic, DiagnosticLevel
    <3>3. ScanLevelDiagnostics \in SUBSET Diagnostic
      BY <3>1, <3>2 DEF ScanLevelDiagnostics
    <3>4. SCAN_LEVEL_FILE \notin FragmentFiles
      BY <1>4 DEF FragmentFiles
    <3> QED
      BY <3>3, <3>4, ScanFacts DEF Fragment
  <2>2. last.file = SCAN_LEVEL_FILE /\ last.diagnostics = ScanLevelDiagnostics
        /\ fragments' = Append(fragments, last)
    BY <1>2, <1>6
  <2> HIDE DEF last
  <2> DEFINE n == Len(fragments')
  <2>3. /\ fragments'[n] = last /\ DOMAIN fragments = 1..Len(fragments)
        /\ n = Len(fragments) + 1 /\ DOMAIN fragments' = 1..n /\ Len(fragments) \in Nat
        /\ \A i \in DOMAIN fragments : fragments'[i] = fragments[i]
        /\ FragmentFiles' = FragmentFiles \cup {SCAN_LEVEL_FILE}
    BY <2>1, <2>2, AppendFragment
  <2>4. \A i \in DOMAIN fragments' : i \in DOMAIN fragments \/ i = n
    BY <2>3
  <2> HIDE DEF n
  <2>5. OwnDiagnostics'
    BY <1>2, <1>3, <1>4, <2>2, <2>3, <2>4 DEF OriginInv, OwnDiagnostics, WalkMarks
  <2>6. OwnTexts'
    BY <1>2, <2>3 DEF OriginInv, OwnTexts, NoFileAt
  <2> QED
    BY <1>1, <1>2, <2>5, <2>6 DEF OriginInv
<1> QED
  BY <1>5, <1>6

LEMMA ScanStepOriginInv == ScanInv /\ OriginInv /\ ScanStep => OriginInv'
BY WalkOriginInv, LoweringOriginInv, CollectOriginInv, FinishOriginInv DEF ScanStep

\* The first edit voids what is said of a scan without one.
LEMMA EnvironmentOriginInv ==
  ASSUME ScanInv, OriginInv, Environment \/ UNCHANGED workspaceVars,
         UNCHANGED <<inputVars, generatorVars, frontendVars, scanVars>>
  PROVE  OriginInv'
<1>1. VisibilityInv'
  BY EnvironmentVisibilityInv DEF OriginInv
<1>2. /\ UNCHANGED <<spc, fragments, readAs, truncated, gpc, scanDiags, gitignore, config>>
      /\ UNCHANGED <<fragment, path, source>> /\ FragmentFiles' = FragmentFiles
      /\ ScanLevelDiagnostics' = ScanLevelDiagnostics
  BY DEF scanVars, historyVars, generatorVars, frontendVars, inputVars, FragmentFiles, ScanLevelDiagnostics
<1>3. OwnDiagnostics'
  BY <1>2 DEF OriginInv, OwnDiagnostics, WalkMarks
<1>4. edits' # 0 \/ UNCHANGED <<disk, edits, gone>>
  <2>1. edits \in Nat
    BY WorkspaceAssumption DEF ScanInv, LoweringInv, LoweringTypeOK, WorkspaceTypeOK
  <2> QED
    BY <2>1 DEF Environment, Tick, Edit, workspaceVars
<1>5. OwnTexts'
  BY <1>2, <1>4 DEF OriginInv, OwnTexts, NoFileAt
<1> QED
  BY <1>1, <1>2, <1>3, <1>5 DEF OriginInv

LEMMA NextOriginInv ==
  ScanInv /\ OriginInv /\ [RepositoryNext]_allScanVars => OriginInv'
BY ScanStepOriginInv, EnvironmentOriginInv DEF RepositoryNext, allScanVars

\* What the two invariants say when the scan is over.
LEMMA NothingDropped == ScanInv /\ VisibilityInv => NothingDroppedSilently
<1> SUFFICES ASSUME ScanInv, WalkIsComplete, spc = "scanned",
                    NEW f \in PythonFiles \ gone, Visible(f), Reachable(f)
             PROVE  \/ /\ FragmentsOf(f) = {} /\ truncated
                       /\ ScanLimit(SCAN_LEVEL_FILE) \in Reported
                    \/ \E i \in FragmentsOf(f) :
                         /\ FragmentsOf(f) = {i}
                         /\ \/ \E d \in fragments[i].diagnostics : d.level = "warning"
                            \/ readAs[f] # Absent /\ fragments[i].agents = readAs[f].agents
  BY ExhaustedIsComplete DEF NothingDroppedSilently
<1>1. f \in Files
  BY ScanFacts
<1>2. truncated => ScanLimit(SCAN_LEVEL_FILE) \in Reported
  BY DEF ScanInv, TruncationTold
<1>3. ~truncated => f \in YieldedFiles
  BY <1>1 DEF ScanInv, Located, WalkIsComplete, YieldedFiles
<1>4. \A i \in FragmentsOf(f) : FragmentsOf(f) = {i}
  BY DEF ScanInv, OneFragmentPerFile, FragmentsOf
<1>5. CASE f \in YieldedFiles
  <2>1. Told(f) \/ (f = current /\ truncated)
    BY <1>5 DEF ScanInv, AllTold, Pending
  <2>2. truncated /\ f = current => FragmentsOf(f) = {}
    BY DEF ScanInv, Timed, FragmentFiles, FragmentsOf
  <2>3. CASE Told(f)
    BY <1>4, <2>3 DEF Told
  <2> QED
    BY <1>2, <2>1, <2>2, <2>3
<1>6. CASE f \notin YieldedFiles
  <2>1. truncated
    BY <1>3, <1>6
  <2>2. FragmentsOf(f) = {}
    <3>1. f \notin FragmentFiles
      BY <1>1, <1>6, ScanFacts DEF ScanInv, Located
    <3> QED
      BY <3>1 DEF FragmentFiles, FragmentsOf
  <2> QED
    BY <1>2, <2>1, <2>2
<1> QED
  BY <1>5, <1>6

\* Whatever the tree, the patterns, the texts, the edits and the clock, a scan
\* that is over accounts for every file it should have scanned (scan.py:41-43).
THEOREM NothingIsDropped == RepositorySpec => []NothingDroppedSilently
<1>1. ScanInv /\ OriginInv => NothingDroppedSilently
  BY NothingDropped DEF OriginInv
<1> QED
  BY InitScanInv, NextScanInv, InitOriginInv, NextOriginInv, <1>1, PTL DEF RepositorySpec
=============================================================================
