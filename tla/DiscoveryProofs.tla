--------------------------- MODULE DiscoveryProofs ---------------------------
(***************************************************************************)
(* Proofs about the walk, for any tree, any patterns and globs, and any    *)
(* edits while it runs.                                                    *)
(***************************************************************************)
EXTENDS Discovery, WorkspaceProofs, FiniteSetTheorems

\* The entries below d: those in every set that holds the children of d and
\* the children of its members.
Children(d) == {e \in Entries : Parent[e] = d}
ClosedBelow(d, S) == \A e \in Entries : Parent[e] = d \/ Parent[e] \in S => e \in S
Below(d) == {e \in Entries : \A S \in SUBSET Entries : ClosedBelow(d, S) => e \in S}

LEMMA ChildrenAreBelow == \A d : Children(d) \subseteq Below(d)
BY DEF Children, Below, ClosedBelow

LEMMA BelowIsClosed == \A d : \A c \in Below(d) : Children(c) \subseteq Below(d)
BY DEF Children, Below, ClosedBelow

\* What is below a child is below its parent.
LEMMA BelowChild == \A d : \A c \in Children(d) : Below(c) \subseteq Below(d)
<1> SUFFICES ASSUME NEW d, NEW c \in Children(d), NEW e \in Below(c)
             PROVE  e \in Below(d)
  OBVIOUS
<1>1. Below(d) \in SUBSET Entries
  BY DEF Below
<1>2. ClosedBelow(c, Below(d))
  BY ChildrenAreBelow, BelowIsClosed DEF ClosedBelow, Children
<1> QED
  BY <1>1, <1>2 DEF Below

\* What is below a directory is its child or has its parent below it.
LEMMA ParentOfBelow == \A d : \A e \in Below(d) : Parent[e] = d \/ Parent[e] \in Below(d)
<1> SUFFICES ASSUME NEW d, NEW e \in Below(d)
             PROVE  Parent[e] = d \/ Parent[e] \in Below(d)
  OBVIOUS
<1> DEFINE S == {x \in Entries : Parent[x] = d \/ Parent[x] \in Below(d)}
<1>1. S \subseteq Below(d)
  BY ChildrenAreBelow, BelowIsClosed DEF Children, Below
<1>2. ClosedBelow(d, S)
  BY <1>1 DEF ClosedBelow
<1>3. S \in SUBSET Entries
  OBVIOUS
<1>4. e \in S
  <2> HIDE DEF S
  <2> QED
    BY <1>2, <1>3 DEF Below
<1> QED
  BY <1>4

\* Nothing is below one of its siblings, or below itself.
LEMMA SiblingNotBelow ==
  \A d \in Dirs : \A x, c \in Children(d) : x \notin Below(c)
<1> SUFFICES ASSUME NEW d \in Dirs, NEW x \in Children(d), NEW c \in Children(d)
             PROVE  x \notin Below(c)
  OBVIOUS
<1>1. PICK depth \in [Entries \cup {Root} -> 0..Cardinality(Dirs)] :
        \A e \in Entries : depth[e] = depth[Parent[e]] + 1
  BY TreeAssumption
<1>2. Cardinality(Dirs) \in Nat
  BY TreeAssumption, FS_CardinalityType
<1>3. \A e \in Entries : depth[e] \in Nat
  BY <1>1, <1>2
<1> DEFINE S == {e \in Entries : depth[e] > depth[c]}
<1>4. ClosedBelow(c, S)
  <2> SUFFICES ASSUME NEW e \in Entries, Parent[e] = c \/ Parent[e] \in S
               PROVE  e \in S
    BY DEF ClosedBelow
  <2>1. depth[e] = depth[Parent[e]] + 1 /\ depth[c] \in Nat /\ c \in Entries
    BY <1>1, <1>3 DEF Children
  <2>2. Parent[e] \in Entries /\ depth[Parent[e]] \in Nat
    BY <1>3, <2>1
  <2>3. depth[Parent[e]] >= depth[c]
    BY <2>1, <2>2
  <2> QED
    BY <2>1, <2>2, <2>3
<1>5. x \notin S
  <2>1. depth[x] = depth[c]
    BY <1>1 DEF Children
  <2>2. depth[x] \in Nat
    BY <1>3 DEF Children
  <2> QED
    BY <2>1, <2>2
<1> QED
  <2>1. S \in SUBSET Entries
    OBVIOUS
  <2> HIDE DEF S
  <2> QED
    BY <1>4, <1>5, <2>1 DEF Below

LEMMA RootNotBelow == \A d : Root \notin Below(d)
BY DiscoveryAssumption DEF Below, Entries

-----------------------------------------------------------------------------
LEMMA DiagnosticOf ==
  ASSUME NEW e \in Entries
  PROVE  Info(e) \in Diagnostic /\ Warning(e) \in Diagnostic
<1>1. e \in Paths
  BY DiscoveryAssumption, WorkspaceAssumption DEF Entries
<1> QED
  BY <1>1 DEF Info, Warning, Diagnostic, DiagnosticLevel

LEMMA RefusalType == \A f \in Files : Refusal(f) \subseteq Diagnostic
<1> SUFFICES ASSUME NEW f \in Files PROVE Refusal(f) \subseteq Diagnostic
  OBVIOUS
<1>1. Info(f) \in Diagnostic /\ Warning(f) \in Diagnostic
  BY DiagnosticOf DEF Entries
<1> QED
  BY <1>1 DEF Refusal

YieldedFiles == {yielded[i] : i \in DOMAIN yielded}

\* Nothing the walk has met is below a directory it has still to list, and no
\* name it has still to examine was yielded.
WalkInv ==
  /\ DiscoveryTypeOK
  /\ gpc = "created" => pending = {} /\ names = {} /\ yielded = <<>>
  /\ \A d \in pending : \A e \in pending \cup names \cup YieldedFiles : e \notin Below(d)
  /\ names \cap YieldedFiles = {}
  /\ NoFileTwice
  /\ gpc = "suspended" => yielded # <<>> /\ current = yielded[Len(yielded)]

LEMMA InitWalkInv == DiscoveryInit => WalkInv
<1> SUFFICES ASSUME DiscoveryInit PROVE WalkInv
  OBVIOUS
<1>1. current \in Files
  BY WorkspaceAssumption DEF DiscoveryInit
<1>2. config \in Config
  BY DiscoveryAssumption DEF DiscoveryInit
<1>3. DiscoveryTypeOK
  BY <1>1, <1>2 DEF DiscoveryInit, DiscoveryTypeOK
<1> QED
  BY <1>3 DEF DiscoveryInit, WalkInv, YieldedFiles, NoFileTwice

LEMMA OpenWalkInv == WalkInv /\ Open /\ UNCHANGED inputVars => WalkInv'
<1> SUFFICES ASSUME WalkInv, Open, UNCHANGED inputVars PROVE WalkInv'
  OBVIOUS
<1>1. gitignore.patterns \in Seq(Pattern)
  BY DiscoveryAssumption DEF WalkInv, DiscoveryTypeOK, Gitignore
<1>2. Warning(SCAN_LEVEL_FILE) \in Diagnostic
  BY DEF Warning, Diagnostic, DiagnosticLevel
<1>3. matcher' \in Seq(Pattern) /\ scanDiags' \in SUBSET Diagnostic
  BY <1>1, <1>2 DEF Open, WalkInv, DiscoveryTypeOK
<1>4. DiscoveryTypeOK'
  BY <1>3, DiscoveryAssumption DEF Open, inputVars, WalkInv, DiscoveryTypeOK
<1> QED
  BY <1>4, RootNotBelow DEF Open, WalkInv, YieldedFiles, NoFileTwice

LEMMA ScanDirWalkInv ==
  ASSUME WalkInv, NEW d \in Dirs, ScanDir(d), UNCHANGED inputVars PROVE WalkInv'
<1>0. DiscoveryTypeOK /\ gpc = "walking" /\ gpc' = gpc /\ names = {} /\ d \in pending
  BY DEF WalkInv, ScanDir
<1>1. UNCHANGED <<matcher, current, yielded>> /\ YieldedFiles' = YieldedFiles
  BY DEF ScanDir, YieldedFiles
<1>2. CASE Has("unreadable", d)
  <2>1. pending' = pending \ {d} /\ UNCHANGED <<names, scanDiags>>
    BY <1>2 DEF ScanDir
  <2> QED
    BY <1>0, <1>1, <2>1 DEF WalkInv, DiscoveryTypeOK, inputVars, NoFileTwice
<1>3. CASE ~Has("unreadable", d)
  <2> DEFINE kept == {c \in Subdirs(d) : KeptDir(c)}
             links == {l \in Subdirs(d) : ~NamedOut(l) /\ Has("link", l)}
  <2>1. /\ names' = {f \in Files : Parent[f] = d /\ disk[f] # Absent}
        /\ pending' = (pending \ {d}) \cup kept
        /\ scanDiags' = scanDiags \cup {Info(c) : c \in links}
    BY <1>3 DEF ScanDir
  <2>2. /\ names' \subseteq Files /\ names' \subseteq Children(d)
        /\ kept \subseteq Dirs /\ kept \subseteq Children(d) /\ links \subseteq Entries
    BY <2>1 DEF Subdirs, Children, Entries
  <2>3. scanDiags' \in SUBSET Diagnostic
    BY <1>0, <2>1, <2>2, DiagnosticOf DEF DiscoveryTypeOK
  <2>4. DiscoveryTypeOK'
    BY <1>0, <1>1, <2>1, <2>2, <2>3 DEF DiscoveryTypeOK, inputVars
  <2>5. \A e \in pending \cup YieldedFiles : e \notin Below(d)
    BY <1>0 DEF WalkInv
  <2>6. \A e \in Children(d) : e \notin YieldedFiles
    BY <2>5, ChildrenAreBelow
  <2>7. ASSUME NEW p \in pending', NEW e \in pending' \cup names' \cup YieldedFiles
        PROVE  e \notin Below(p)
    <3>1. p \in kept \/ (p \in pending /\ p # d)
      BY <2>1
    <3>2. e \in Children(d) \/ e \in pending \cup YieldedFiles
      BY <2>1, <2>2
    <3>3. CASE p \in kept /\ e \in Children(d)
      BY <2>2, <3>3, SiblingNotBelow
    <3>4. CASE p \in kept /\ e \in pending \cup YieldedFiles
      BY <2>2, <2>5, <3>4, BelowChild
    <3>5. CASE p \in pending /\ p # d /\ e \in Children(d)
      <4>1. d \notin Below(p)
        BY <1>0, <3>5 DEF WalkInv
      <4>2. Parent[e] = d
        BY <3>5 DEF Children
      <4> QED
        BY <3>5, <4>1, <4>2, ParentOfBelow
    <3>6. CASE p \in pending /\ e \in pending \cup YieldedFiles
      BY <3>6 DEF WalkInv
    <3> QED
      BY <3>1, <3>2, <3>3, <3>4, <3>5, <3>6
  <2>8. names' \cap YieldedFiles' = {} /\ NoFileTwice'
    BY <1>1, <2>2, <2>6 DEF WalkInv, NoFileTwice
  <2>9. \A p \in pending' : \A e \in pending' \cup names' \cup YieldedFiles' : e \notin Below(p)
    BY <1>1, <2>7
  <2> HIDE DEF kept, links
  <2> QED
    BY <1>0, <2>4, <2>8, <2>9 DEF WalkInv
<1> QED
  BY <1>2, <1>3

LEMMA ExamineWalkInv ==
  ASSUME WalkInv, NEW f \in Files, Examine(f), UNCHANGED inputVars PROVE WalkInv'
<1>0. /\ DiscoveryTypeOK /\ gpc = "walking" /\ f \in names /\ names' = names \ {f}
      /\ UNCHANGED <<matcher, pending>>
  BY DEF WalkInv, Examine
<1>1. CASE KeptFile(f)
  <2> DEFINE n == Len(yielded)
  <2>1. /\ gpc' = "suspended" /\ current' = f /\ yielded' = Append(yielded, f)
        /\ UNCHANGED scanDiags
    BY <1>1 DEF Examine
  <2>2. /\ n \in Nat /\ DOMAIN yielded = 1..n /\ DOMAIN yielded' = 1..(n + 1)
        /\ Len(yielded') = n + 1 /\ yielded' \in Seq(Files)
        /\ \A i \in 1..n : yielded'[i] = yielded[i]
        /\ yielded'[n + 1] = f
    BY <1>0, <2>1 DEF DiscoveryTypeOK
  <2>3. YieldedFiles' = YieldedFiles \cup {f}
    <3>1. 1..(n + 1) = 1..n \cup {n + 1}
      BY <2>2
    <3> HIDE DEF n
    <3> QED
      BY <2>2, <3>1 DEF YieldedFiles
  <2>4. f \notin YieldedFiles
    BY <1>0 DEF WalkInv
  <2>5. NoFileTwice'
    <3>1. \A i \in 1..n : yielded'[i] # f
      BY <2>2, <2>4 DEF YieldedFiles
    <3>2. \A i, j \in 1..n : yielded'[i] = yielded'[j] => i = j
      BY <2>2 DEF WalkInv, NoFileTwice
    <3>3. \A i \in 1..(n + 1) : i \in 1..n \/ i = n + 1
      BY <2>2
    <3> HIDE DEF n
    <3> QED
      BY <2>2, <3>1, <3>2, <3>3 DEF NoFileTwice
  <2>6. DiscoveryTypeOK'
    BY <1>0, <2>1, <2>2 DEF DiscoveryTypeOK, inputVars
  <2>7. \A d \in pending' : \A e \in pending' \cup names' \cup YieldedFiles' : e \notin Below(d)
    BY <1>0, <2>3 DEF WalkInv
  <2>8. names' \cap YieldedFiles' = {}
    BY <1>0, <2>3 DEF WalkInv
  <2>9. gpc' = "suspended" /\ yielded' # <<>> /\ current' = yielded'[Len(yielded')]
    BY <2>1, <2>2
  <2> HIDE DEF n
  <2> QED
    BY <2>5, <2>6, <2>7, <2>8, <2>9 DEF WalkInv
<1>2. CASE ~KeptFile(f)
  <2>1. scanDiags' = scanDiags \cup Refusal(f) /\ UNCHANGED <<gpc, current, yielded>>
    BY <1>2 DEF Examine
  <2>2. scanDiags' \in SUBSET Diagnostic
    BY <1>0, <2>1, RefusalType DEF DiscoveryTypeOK
  <2>3. DiscoveryTypeOK'
    BY <1>0, <2>1, <2>2 DEF DiscoveryTypeOK, inputVars
  <2> QED
    BY <1>0, <2>1, <2>3 DEF WalkInv, YieldedFiles, NoFileTwice
<1> QED
  BY <1>1, <1>2

\* Every step of the generator, whoever drives it.
LEMMA GeneratorWalkInv ==
  WalkInv /\ (GeneratorStep \/ Resume) /\ UNCHANGED inputVars => WalkInv'
<1> SUFFICES ASSUME WalkInv, GeneratorStep \/ Resume, UNCHANGED inputVars PROVE WalkInv'
  OBVIOUS
<1>1. CASE Exhaust \/ Resume \/ Raise
  BY <1>1 DEF Exhaust, Resume, Raise, WalkInv, DiscoveryTypeOK, inputVars, YieldedFiles, NoFileTwice
<1> QED
  BY <1>1, OpenWalkInv, ScanDirWalkInv, ExamineWalkInv DEF GeneratorStep

\* Nothing else touches the generator's variables.
LEMMA StutterWalkInv == WalkInv /\ UNCHANGED <<inputVars, generatorVars>> => WalkInv'
BY DEF inputVars, generatorVars, WalkInv, DiscoveryTypeOK, YieldedFiles, NoFileTwice

WalkIInv == WorkspaceTypeOK /\ WalkInv

LEMMA InitWalkIInv == WalkInit => WalkIInv
BY WorkspaceInitTypeOK, InitWalkInv DEF WalkInit, WalkIInv

LEMMA NextWalkIInv == WalkIInv /\ [WalkNext]_allDiscoveryVars => WalkIInv'
<1> SUFFICES ASSUME WalkIInv, [WalkNext]_allDiscoveryVars PROVE WalkIInv'
  OBVIOUS
<1>1. CASE Walk
  BY <1>1, GeneratorWalkInv DEF Walk, WalkIInv, workspaceVars, WorkspaceTypeOK
<1>2. CASE Environment /\ UNCHANGED <<inputVars, generatorVars>>
  BY <1>2, EnvironmentTypeOK, StutterWalkInv DEF WalkIInv
<1>3. CASE UNCHANGED allDiscoveryVars
  BY <1>3, StutterWalkInv DEF allDiscoveryVars, WalkIInv, workspaceVars, WorkspaceTypeOK
<1> QED
  BY <1>1, <1>2, <1>3 DEF WalkNext

\* The walk keeps its variables well typed (discovery.py:75-167).
THEOREM WalkTypeCorrect == WalkSpec => []WalkTypeOK
<1>1. WalkIInv => WalkTypeOK
  BY DEF WalkIInv, WalkInv, WalkTypeOK
<1> QED
  BY InitWalkIInv, NextWalkIInv, <1>1, PTL DEF WalkSpec

\* No file is yielded twice, in a tree of any shape and depth, whatever is
\* edited meanwhile (discovery.py:106-167).
THEOREM EachFileOnce == WalkSpec => []NoFileTwice
<1>1. WalkIInv => NoFileTwice
  BY DEF WalkIInv, WalkInv
<1> QED
  BY InitWalkIInv, NextWalkIInv, <1>1, PTL DEF WalkSpec
=============================================================================
