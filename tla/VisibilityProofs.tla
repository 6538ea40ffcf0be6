-------------------------- MODULE VisibilityProofs ---------------------------
(***************************************************************************)
(* Proofs that the walk yields every file it should and no other: what the *)
(* fold over the patterns and the recursion over the directories compute,  *)
(* and the invariant that follows a file from the root to the yield.       *)
(* Induction is by least counterexample: the finite sets of numbers are    *)
(* well-founded under inclusion.                                           *)
(***************************************************************************)
EXTENDS DiscoveryProofs

LEMMA MinimalSet ==
  ASSUME NEW D, NEW T \in SUBSET FiniteSubsetsOf(D), T # {}
  PROVE  \E x \in T : \A y \in T : y \subseteq x => y = x
<1>1. PICK x \in T : \A y \in T : ~ (<<y, x>> \in StrictSubsetOrdering(D))
  <2>1. IsWellFoundedOn(StrictSubsetOrdering(D), FiniteSubsetsOf(D))
    BY FS_StrictSubsetOrderingWellFounded
  <2>2. T \subseteq FiniteSubsetsOf(D)
    OBVIOUS
  <2>3. \E x \in T : \A y \in T : ~ (<<y, x>> \in StrictSubsetOrdering(D))
    BY <2>1, <2>2, WFMin
  <2> QED
    BY <2>3
<1>2. \A y \in T : y \in SUBSET D
  BY DEF FiniteSubsetsOf
<1> QED
  BY <1>1, <1>2 DEF StrictSubsetOrdering

LEMMA LeastNatural ==
  ASSUME NEW S \in SUBSET Nat, S # {}
  PROVE  \E m \in S : \A k \in S : m <= k
<1> DEFINE T == {1..n : n \in S}
<1>1. T \in SUBSET FiniteSubsetsOf(Nat) /\ T # {}
  <2>1. \A n \in Nat : 1..n \in SUBSET Nat /\ IsFiniteSet(1..n)
    BY FS_Interval
  <2> QED
    BY <2>1 DEF FiniteSubsetsOf
<1>2. PICK x \in T : \A y \in T : y \subseteq x => y = x
  <2> HIDE DEF T
  <2> QED
    BY <1>1, MinimalSet
<1>3. PICK m \in S : x = 1..m
  OBVIOUS
<1>4. ASSUME NEW k \in S, k < m PROVE FALSE
  <2>1. 1..k \subseteq 1..m /\ m \in 1..m /\ m \notin 1..k
    BY <1>4
  <2> QED
    BY <1>2, <1>3, <2>1
<1> QED
  BY <1>4

LEMMA MaxOfIndices ==
  ASSUME NEW n \in Nat, NEW s \in SUBSET (1..n), s # {}
  PROVE  Max(s) \in s /\ \A y \in s : Max(s) >= y
<1> DEFINE B == {b \in Nat : \A y \in s : y <= b}
<1>1. PICK b \in B : \A k \in B : b <= k
  <2>1. n \in B
    OBVIOUS
  <2>2. B \in SUBSET Nat
    OBVIOUS
  <2> HIDE DEF B
  <2> QED
    BY <2>1, <2>2, LeastNatural
<1>2. b \in s
  <2>1. SUFFICES ASSUME b \notin s PROVE FALSE
    OBVIOUS
  <2>2. \A y \in s : y <= b - 1
    BY <2>1
  <2>3. b - 1 \in Nat
    <3>1. PICK y \in s : y \in 1..n
      OBVIOUS
    <3>2. y <= b - 1 /\ y \in Nat /\ y >= 1 /\ b \in Nat
      BY <2>2, <3>1
    <3> QED
      BY <3>2
  <2>4. b - 1 \in B
    BY <2>2, <2>3
  <2> QED
    BY <1>1, <2>3, <2>4
<1>3. \A y \in s : b >= y
  OBVIOUS
<1> QED
  BY <1>2, <1>3 DEF Max

-----------------------------------------------------------------------------
\* What the fold of IsIgnored computes: the last pattern that speaks decides.
Speaks(j, e, isDir) == (matcher[j].dirOnly => isDir) /\ Matches(matcher[j], e)

LastWord(s, e, isDir) ==
  \E i \in s : /\ Speaks(i, e, isDir) /\ ~matcher[i].negation
               /\ \A j \in s : j > i => ~Speaks(j, e, isDir)

Folding(f, e, isDir) ==
  f = [s \in SUBSET DOMAIN matcher |->
         IF s = {} THEN FALSE
         ELSE LET x == Max(s)
              IN  IF Speaks(x, e, isDir) THEN ~matcher[x].negation ELSE f[s \ {x}]]

Iter(e, isDir) ==
  CHOOSE iter :
    iter = [s \in SUBSET DOMAIN matcher |->
              IF s = {} THEN FALSE
              ELSE LET x == Max(s)
                   IN  IF (matcher[x].dirOnly => isDir) /\ Matches(matcher[x], e)
                       THEN ~matcher[x].negation ELSE iter[s \ {x}]]

LEMMA IgnoredIsFolded ==
  \A e, isDir : IsIgnored(e, isDir) = (CHOOSE f : Folding(f, e, isDir))[DOMAIN matcher]
<1>1. \A e, isDir : IsIgnored(e, isDir) = Iter(e, isDir)[DOMAIN matcher]
  BY DEF IsIgnored, FoldLeft, MapThenFoldSet, Iter
<1>2. \A e, isDir : Iter(e, isDir) = CHOOSE f : Folding(f, e, isDir)
  BY DEF Iter, Folding, Speaks
<1> QED
  BY <1>1, <1>2

LEMMA LastWordFolds ==
  ASSUME matcher \in Seq(Pattern), NEW e, NEW isDir
  PROVE  Folding([s \in SUBSET DOMAIN matcher |-> LastWord(s, e, isDir)], e, isDir)
<1> DEFINE g == [s \in SUBSET DOMAIN matcher |-> LastWord(s, e, isDir)]
<1> SUFFICES ASSUME NEW s \in SUBSET DOMAIN matcher, s # {}
             PROVE  LastWord(s, e, isDir) =
                      IF Speaks(Max(s), e, isDir) THEN ~matcher[Max(s)].negation
                      ELSE LastWord(s \ {Max(s)}, e, isDir)
  <2>1. LastWord({}, e, isDir) = FALSE
    BY DEF LastWord
  <2>2. \A x : \A s \in SUBSET DOMAIN matcher : s \ {x} \in SUBSET DOMAIN matcher
    OBVIOUS
  <2> QED
    BY <2>1, <2>2 DEF Folding
<1>1. PICK x \in s : x = Max(s) /\ \A y \in s : x >= y
  <2>1. Len(matcher) \in Nat /\ DOMAIN matcher = 1..Len(matcher)
    OBVIOUS
  <2> QED
    BY <2>1, MaxOfIndices
<1>2. x \in Int /\ \A y \in s : y \in Int
  OBVIOUS
<1>3. CASE Speaks(x, e, isDir)
  <2>1. LastWord(s, e, isDir) <=> ~matcher[x].negation
    BY <1>1, <1>2, <1>3 DEF LastWord
  <2> QED
    BY <1>1, <1>3, <2>1 DEF LastWord
<1>4. CASE ~Speaks(x, e, isDir)
  <2>1. LastWord(s, e, isDir) <=> LastWord(s \ {x}, e, isDir)
    BY <1>1, <1>2, <1>4 DEF LastWord
  <2> QED
    BY <1>1, <1>4, <2>1 DEF LastWord
<1> QED
  BY <1>3, <1>4

LEMMA FoldingIsUnique ==
  ASSUME matcher \in Seq(Pattern), NEW e, NEW isDir,
         NEW f, Folding(f, e, isDir), NEW g, Folding(g, e, isDir)
  PROVE  f[DOMAIN matcher] = g[DOMAIN matcher]
<1> DEFINE D == DOMAIN matcher
           T == {s \in SUBSET D : f[s] # g[s]}
<1>1. Len(matcher) \in Nat /\ D = 1..Len(matcher) /\ IsFiniteSet(D)
  BY FS_Interval
<1>2. T \in SUBSET FiniteSubsetsOf(D)
  BY <1>1, FS_Subset DEF FiniteSubsetsOf
<1>3. SUFFICES ASSUME T # {} PROVE FALSE
  OBVIOUS
<1>4. PICK s \in T : \A y \in T : y \subseteq s => y = s
  <2> HIDE DEF T
  <2> QED
    BY <1>2, <1>3, MinimalSet
<1>5. s # {}
  BY DEF Folding
<1>6. PICK x \in s : x = Max(s)
  BY <1>1, <1>5, MaxOfIndices
<1>7. s \ {x} \in SUBSET D /\ f[s \ {x}] = g[s \ {x}]
  BY <1>4, <1>6
<1>8. f[s] = IF Speaks(x, e, isDir) THEN ~matcher[x].negation ELSE f[s \ {x}]
  BY <1>5, <1>6 DEF Folding
<1>9. g[s] = IF Speaks(x, e, isDir) THEN ~matcher[x].negation ELSE g[s \ {x}]
  BY <1>5, <1>6 DEF Folding
<1> QED
  BY <1>7, <1>8, <1>9

LEMMA IgnoredByLastWord ==
  ASSUME matcher \in Seq(Pattern)
  PROVE  \A e, isDir : IsIgnored(e, isDir) <=> LastWord(DOMAIN matcher, e, isDir)
<1> SUFFICES ASSUME NEW e, NEW isDir
             PROVE  IsIgnored(e, isDir) <=> LastWord(DOMAIN matcher, e, isDir)
  OBVIOUS
<1> DEFINE g == [s \in SUBSET DOMAIN matcher |-> LastWord(s, e, isDir)]
           f == CHOOSE h : Folding(h, e, isDir)
<1>1. Folding(g, e, isDir)
  BY LastWordFolds
<1>2. Folding(f, e, isDir)
  <2> HIDE DEF g
  <2> QED
    BY <1>1
<1>3. f[DOMAIN matcher] = g[DOMAIN matcher]
  <2> HIDE DEF f, g
  <2> QED
    BY <1>1, <1>2, FoldingIsUnique
<1>4. IsIgnored(e, isDir) = f[DOMAIN matcher]
  BY IgnoredIsFolded
<1>5. g[DOMAIN matcher] = LastWord(DOMAIN matcher, e, isDir)
  OBVIOUS
<1> QED
  <2> HIDE DEF f, g
  <2> QED
    BY <1>3, <1>4, <1>5
-----------------------------------------------------------------------------
LEMMA NoFileIsADirectory ==
  /\ Root \notin Entries /\ \A f \in Files : f \in Entries /\ f \notin Dirs
  /\ \A e \in Entries : Parent[e] \in Dirs /\ (Parent[e] = Root \/ Parent[e] \in Entries)
BY DiscoveryAssumption DEF Entries

\* A set of entries that holds an entry whenever it holds its parent, and holds
\* those of the root, holds them all: the one nearest to the root would fail.
LEMMA DownTheTree ==
  ASSUME NEW S, \A e \in Entries : Parent[e] = Root \/ Parent[e] \in S => e \in S
  PROVE  Entries \subseteq S
<1> SUFFICES ASSUME NEW z \in Entries, z \notin S PROVE FALSE
  OBVIOUS
<1>1. PICK depth \in [Entries \cup {Root} -> 0..Cardinality(Dirs)] :
        \A e \in Entries : depth[e] = depth[Parent[e]] + 1
  BY TreeAssumption
<1>2. Cardinality(Dirs) \in Nat
  BY TreeAssumption, FS_CardinalityType
<1>3. \A e \in Entries \cup {Root} : depth[e] \in Nat
  BY <1>1, <1>2
<1> DEFINE N == {depth[e] : e \in Entries \ S}
<1>4. N \in SUBSET Nat /\ N # {}
  BY <1>3
<1>5. PICK m \in N : \A k \in N : m <= k
  <2> HIDE DEF N
  <2> QED
    BY <1>4, LeastNatural
<1>6. PICK e \in Entries \ S : m = depth[e]
  OBVIOUS
<1>7. Parent[e] \in Entries \ S
  BY <1>6, NoFileIsADirectory
<1>8. depth[Parent[e]] \in N /\ depth[e] = depth[Parent[e]] + 1
  BY <1>1, <1>7
<1>9. m <= depth[Parent[e]]
  <2> HIDE DEF N
  <2> QED
    BY <1>5, <1>8
<1>10. depth[Parent[e]] \in Nat /\ m = depth[Parent[e]] + 1
  BY <1>3, <1>6, <1>7, <1>8
<1> HIDE DEF N
<1> QED
  BY <1>9, <1>10

LEMMA AllBelowRoot == Entries \subseteq Below(Root)
<1>1. \A e \in Entries : Parent[e] = Root \/ Parent[e] \in Below(Root) => e \in Below(Root)
  BY ChildrenAreBelow, BelowIsClosed DEF Children
<1> QED
  BY <1>1, DownTheTree

\* What is below a directory is one of its children or below one of them.
LEMMA BelowVia ==
  \A d : \A e \in Below(d) : \E c \in Children(d) : e = c \/ e \in Below(c)
<1> SUFFICES ASSUME NEW d, NEW e \in Below(d)
             PROVE  \E c \in Children(d) : e = c \/ e \in Below(c)
  OBVIOUS
<1> DEFINE S == {x \in Entries : \E c \in Children(d) : x = c \/ x \in Below(c)}
<1>1. ClosedBelow(d, S)
  <2> SUFFICES ASSUME NEW x \in Entries, Parent[x] = d \/ Parent[x] \in S
               PROVE  x \in S
    BY DEF ClosedBelow
  <2>1. CASE Parent[x] = d
    BY <2>1 DEF Children
  <2>2. CASE Parent[x] \in S
    <3>1. PICK c \in Children(d) : Parent[x] = c \/ Parent[x] \in Below(c)
      BY <2>2
    <3>2. x \in Below(c)
      BY <3>1, ChildrenAreBelow, BelowIsClosed DEF Children, Below
    <3> QED
      BY <3>1, <3>2
  <2> QED
    BY <2>1, <2>2
<1>2. S \in SUBSET Entries
  OBVIOUS
<1>3. e \in S
  <2> HIDE DEF S
  <2> QED
    BY <1>1, <1>2 DEF Below
<1> QED
  BY <1>3

LEMMA NothingBelowAFile == \A f : f \notin Dirs => Below(f) = {}
<1> SUFFICES ASSUME NEW f, f \notin Dirs PROVE Below(f) = {}
  OBVIOUS
<1>1. ClosedBelow(f, {})
  BY NoFileIsADirectory DEF ClosedBelow
<1> QED
  BY <1>1 DEF Below

\* What above computes: the entries that an entry is below of.
AboveEquation(f) ==
  f = [e \in Entries \cup {Root} |->
         IF e = Root \/ Parent[e] = Root THEN {} ELSE {Parent[e]} \cup f[Parent[e]]]

AllAbove == [e \in Entries \cup {Root} |-> {x \in Entries : e \in Below(x)}]

LEMMA AllAboveSolves == AboveEquation(AllAbove)
<1> SUFFICES ASSUME NEW e \in Entries \cup {Root}
             PROVE  AllAbove[e] = IF e = Root \/ Parent[e] = Root THEN {}
                                  ELSE {Parent[e]} \cup AllAbove[Parent[e]]
  BY DEF AboveEquation, AllAbove
<1>1. CASE e = Root
  BY <1>1, RootNotBelow DEF AllAbove
<1>2. CASE e # Root /\ Parent[e] = Root
  BY <1>2, RootNotBelow, ParentOfBelow, NoFileIsADirectory DEF AllAbove
<1>3. CASE e # Root /\ Parent[e] # Root
  <2>1. e \in Entries /\ Parent[e] \in Entries
    BY <1>3, NoFileIsADirectory
  <2>2. \A x \in Entries : e \in Below(x) <=> (x = Parent[e] \/ Parent[e] \in Below(x))
    BY <2>1, ParentOfBelow, ChildrenAreBelow, BelowIsClosed DEF Children
  <2> QED
    BY <1>3, <2>1, <2>2 DEF AllAbove
<1> QED
  BY <1>1, <1>2, <1>3

LEMMA AboveIsBelow == \A e \in Entries : above[e] = {x \in Entries : e \in Below(x)}
<1>1. AboveEquation(above)
  <2>1. above = CHOOSE f : AboveEquation(f)
    BY DEF above, AboveEquation
  <2> QED
    BY <2>1, AllAboveSolves
<1> DEFINE S == {e \in Entries : above[e] = AllAbove[e]}
<1>2. \A e \in Entries : Parent[e] = Root \/ Parent[e] \in S => e \in S
  <2> SUFFICES ASSUME NEW e \in Entries, Parent[e] = Root \/ Parent[e] \in S
               PROVE  above[e] = AllAbove[e]
    OBVIOUS
  <2>1. above[e] = IF Parent[e] = Root THEN {} ELSE {Parent[e]} \cup above[Parent[e]]
    BY <1>1, NoFileIsADirectory DEF AboveEquation
  <2>2. AllAbove[e] = IF Parent[e] = Root THEN {} ELSE {Parent[e]} \cup AllAbove[Parent[e]]
    BY AllAboveSolves, NoFileIsADirectory DEF AboveEquation
  <2> QED
    BY <2>1, <2>2
<1>3. Entries \subseteq S
  <2> HIDE DEF S
  <2> QED
    BY <1>2, DownTheTree
<1> QED
  BY <1>3 DEF AllAbove

-----------------------------------------------------------------------------
\* The walk's verdict on a name is the one a reader of .gitignore expects.
Loaded == matcher = IF gitignore.reads THEN gitignore.patterns ELSE <<>>

LEMMA KeptIsShown ==
  ASSUME DiscoveryTypeOK, Loaded
  PROVE  /\ \A c \in Dirs \ {Root} : KeptDir(c) <=> Shown(c)
         /\ \A f \in Files : KeptFile(f) <=> Shown(f)
<1>1. matcher \in Seq(Pattern)
  BY DEF DiscoveryTypeOK
<1>2. \A e : LastWordIgnores(e) <=> LastWord(DOMAIN matcher, e, e \in Dirs)
  <2>1. CASE gitignore.reads
    BY <2>1 DEF Loaded, LastWordIgnores, LastWord, Speaks
  <2>2. CASE ~gitignore.reads
    <3>1. DOMAIN matcher = {}
      BY <2>2 DEF Loaded
    <3> QED
      BY <2>2, <3>1 DEF LastWordIgnores, LastWord
  <2> QED
    BY <2>1, <2>2
<1>3. \A c \in Dirs \ {Root} : IsIgnored(c, TRUE) <=> LastWordIgnores(c)
  <2> SUFFICES ASSUME NEW c \in Dirs \ {Root}
               PROVE  IsIgnored(c, TRUE) <=> LastWordIgnores(c)
    OBVIOUS
  <2>1. (c \in Dirs) = TRUE
    OBVIOUS
  <2>2. LastWordIgnores(c) <=> LastWord(DOMAIN matcher, c, TRUE)
    BY <1>2, <2>1
  <2> QED
    BY <1>1, <2>2, IgnoredByLastWord
<1>4. \A f \in Files : IsIgnored(f, FALSE) <=> LastWordIgnores(f)
  <2> SUFFICES ASSUME NEW f \in Files
               PROVE  IsIgnored(f, FALSE) <=> LastWordIgnores(f)
    OBVIOUS
  <2>1. (f \in Dirs) = FALSE
    BY NoFileIsADirectory
  <2>2. LastWordIgnores(f) <=> LastWord(DOMAIN matcher, f, FALSE)
    BY <1>2, <2>1
  <2> QED
    BY <1>1, <2>2, IgnoredByLastWord
<1>5. \A c \in Dirs \ {Root} :
        tree[c] \cap Hiding(c) = {} <=> ~NamedOut(c) /\ ~Has("link", c)
  BY DEF Hiding, NamedOut, Has
<1>6. \A f \in Files : Hiding(f) = {"hidden", "link", "outside"}
  BY NoFileIsADirectory DEF Hiding
<1> QED
  BY <1>3, <1>4, <1>5, <1>6 DEF KeptDir, KeptFile, Shown

\* A file that has always been there and that nothing hides is in hand, was
\* yielded, or is below a directory still to be listed.
Covered(f) ==
  f \in names \cup YieldedFiles \/ \E d \in pending : f \in Below(d)

VisibilityInv ==
  /\ gpc \notin {"created", "raised"} => Loaded
  /\ NoFileAt(disk) \subseteq gone
  /\ gpc = "exhausted" => names = {} /\ pending = {}
  /\ \A d \in pending : d = Root \/ (d \in Entries /\ Visible(d) /\ Reachable(d))
  /\ \A f \in names : Reachable(f) /\ \A x \in above[f] : Shown(x)
  /\ \A f \in YieldedFiles : Visible(f) /\ Reachable(f)
  /\ gpc \notin {"created", "raised"} =>
       \A f \in Files \ gone : Visible(f) /\ Reachable(f) => Covered(f)

LEMMA SameInputsSameView ==
  UNCHANGED inputVars =>
    \A e : /\ Shown(e)' = Shown(e) /\ Visible(e)' = Visible(e)
           /\ Reachable(e)' = Reachable(e)
BY DEF inputVars, Shown, Visible, Reachable, LastWordIgnores, IsExcluded, Has

\* Before the walk begins there is nothing to tell.
LEMMA CreatedVisibilityInv ==
  WalkInv /\ gpc = "created" /\ NoFileAt(disk) \subseteq gone => VisibilityInv
BY DEF WalkInv, VisibilityInv, YieldedFiles

LEMMA OpenVisibilityInv ==
  WalkInv /\ VisibilityInv /\ Open /\ UNCHANGED <<workspaceVars, inputVars>> => VisibilityInv'
<1> SUFFICES ASSUME WalkInv, VisibilityInv, Open, UNCHANGED <<workspaceVars, inputVars>>
             PROVE  VisibilityInv'
  OBVIOUS
<1>1. /\ gpc = "created" /\ gpc' = "walking" /\ pending' = {Root} /\ Loaded'
      /\ names = {} /\ names' = {} /\ yielded = <<>> /\ YieldedFiles' = {}
      /\ UNCHANGED <<disk, gone>>
  BY DEF Open, WalkInv, Loaded, inputVars, workspaceVars, YieldedFiles
<1>2. \A f \in Files : f \in Below(Root)
  BY AllBelowRoot, NoFileIsADirectory
<1> QED
  BY <1>1, <1>2 DEF VisibilityInv, NoFileAt, Covered

LEMMA ScanDirVisibilityInv ==
  ASSUME WalkInv, VisibilityInv, UNCHANGED <<workspaceVars, inputVars>>,
         NEW d \in Dirs, ScanDir(d)
  PROVE  VisibilityInv'
<1>1. /\ DiscoveryTypeOK /\ gpc = "walking" /\ gpc' = gpc /\ names = {} /\ d \in pending
      /\ Loaded /\ Loaded' /\ YieldedFiles' = YieldedFiles /\ UNCHANGED <<disk, gone>>
  BY DEF WalkInv, VisibilityInv, ScanDir, Loaded, inputVars, workspaceVars, YieldedFiles
<1>2. \A e : Shown(e)' = Shown(e) /\ Visible(e)' = Visible(e) /\ Reachable(e)' = Reachable(e)
  BY SameInputsSameView
<1>3. CASE Has("unreadable", d)
  <2>1. pending' = pending \ {d} /\ names' = {}
    BY <1>1, <1>3 DEF ScanDir
  <2>2. ASSUME NEW f \in Files, f \in Below(d) PROVE ~Reachable(f)
    <3>1. d = Root \/ d \in above[f]
      BY <1>1, <2>2, AboveIsBelow, NoFileIsADirectory DEF VisibilityInv
    <3> QED
      BY <1>3, <3>1 DEF Reachable
  <2>3. \A f \in Files \ gone : Visible(f) /\ Reachable(f) => Covered(f)'
    BY <1>1, <2>1, <2>2 DEF VisibilityInv, Covered
  <2> QED
    BY <1>1, <1>2, <2>1, <2>3 DEF VisibilityInv, NoFileAt
<1>4. CASE ~Has("unreadable", d)
  <2> DEFINE kept == {c \in Subdirs(d) : KeptDir(c)}
  <2>1. /\ names' = {f \in Files : Parent[f] = d /\ disk[f] # Absent}
        /\ pending' = (pending \ {d}) \cup kept
    BY <1>4 DEF ScanDir
  <2>2. \A c \in kept : c \in Children(d) /\ c \in Entries /\ Shown(c)
    BY <1>1, KeptIsShown DEF Subdirs, Children, Entries
  <2>3. \A e \in Children(d) : \A x \in above[e] : Shown(x) /\ ~Has("unreadable", x)
    <3> SUFFICES ASSUME NEW e \in Children(d), NEW x \in above[e]
                 PROVE  Shown(x) /\ ~Has("unreadable", x)
      OBVIOUS
    <3>1. x \in Entries /\ e \in Below(x) /\ Parent[e] = d
      BY AboveIsBelow DEF Children
    <3>2. x = d \/ d \in Below(x)
      BY <3>1, ParentOfBelow
    <3>3. d # Root
      BY <3>1, <3>2, RootNotBelow, NoFileIsADirectory
    <3>4. d \in Entries /\ Visible(d) /\ Reachable(d)
      BY <1>1, <3>3 DEF VisibilityInv
    <3>5. x = d \/ x \in above[d]
      BY <3>1, <3>2, <3>4, AboveIsBelow
    <3> QED
      BY <1>4, <3>4, <3>5 DEF Visible, Reachable
  <2>4. \A e \in Children(d) : Reachable(e)
    <3>1. ~Has("unreadable", Root)
      BY <1>1, <1>4 DEF VisibilityInv, Reachable
    <3> QED
      BY <2>3, <3>1 DEF Reachable
  <2>5. \A c \in kept : c \in Entries /\ Visible(c) /\ Reachable(c)
    BY <2>2, <2>3, <2>4 DEF Visible
  <2>6. \A f \in names' : Reachable(f) /\ \A x \in above[f] : Shown(x)
    BY <2>1, <2>3, <2>4, NoFileIsADirectory DEF Children
  <2>7. ASSUME NEW f \in Files \ gone, Visible(f), f \in Below(d) PROVE Covered(f)'
    <3>1. PICK c \in Children(d) : f = c \/ f \in Below(c)
      BY <2>7, BelowVia
    <3>2. CASE f = c
      <4>1. Parent[f] = d /\ disk[f] # Absent
        BY <3>1, <3>2 DEF Children, VisibilityInv, NoFileAt
      <4> QED
        BY <2>1, <4>1 DEF Covered
    <3>3. CASE f \in Below(c)
      <4>1. c \in Dirs \ {Root} /\ Parent[c] = d /\ c \in Entries
        BY <3>3, NothingBelowAFile, NoFileIsADirectory DEF Children
      <4>2. c \in above[f]
        BY <3>3, <4>1, AboveIsBelow, NoFileIsADirectory
      <4>3. KeptDir(c)
        BY <1>1, <2>7, <4>1, <4>2, KeptIsShown DEF Visible
      <4>4. c \in pending'
        BY <2>1, <4>1, <4>3 DEF Subdirs
      <4> QED
        BY <3>3, <4>4 DEF Covered
    <3> QED
      BY <3>1, <3>2, <3>3
  <2>8. \A f \in Files \ gone : Visible(f) /\ Reachable(f) => Covered(f)'
    BY <1>1, <2>1, <2>7 DEF VisibilityInv, Covered
  <2> HIDE DEF kept
  <2> QED
    BY <1>1, <1>2, <2>1, <2>5, <2>6, <2>8 DEF VisibilityInv, NoFileAt
<1> QED
  BY <1>3, <1>4

LEMMA ExamineVisibilityInv ==
  ASSUME WalkInv, VisibilityInv, UNCHANGED <<workspaceVars, inputVars>>,
         NEW f \in Files, Examine(f)
  PROVE  VisibilityInv'
<1>1. /\ DiscoveryTypeOK /\ gpc = "walking" /\ gpc' \in {"walking", "suspended"} /\ f \in names
      /\ names' = names \ {f} /\ pending' = pending
      /\ Loaded /\ Loaded' /\ UNCHANGED <<disk, gone>>
  BY DEF WalkInv, VisibilityInv, Examine, Loaded, inputVars, workspaceVars
<1>2. \A e : Shown(e)' = Shown(e) /\ Visible(e)' = Visible(e) /\ Reachable(e)' = Reachable(e)
  BY SameInputsSameView
<1>3. KeptFile(f) <=> Visible(f)
  <2>1. KeptFile(f) <=> Shown(f)
    BY <1>1, KeptIsShown
  <2> QED
    BY <1>1, <2>1 DEF VisibilityInv, Visible
<1>4. YieldedFiles' = IF KeptFile(f) THEN YieldedFiles \cup {f} ELSE YieldedFiles
  <2>1. CASE ~KeptFile(f)
    BY <2>1 DEF Examine, YieldedFiles
  <2>2. CASE KeptFile(f)
    <3> DEFINE n == Len(yielded)
    <3>1. yielded' = Append(yielded, f) /\ yielded \in Seq(Files)
      BY <1>1, <2>2 DEF Examine, DiscoveryTypeOK
    <3>2. /\ n \in Nat /\ DOMAIN yielded = 1..n /\ DOMAIN yielded' = 1..(n + 1)
          /\ \A i \in 1..n : yielded'[i] = yielded[i]
          /\ yielded'[n + 1] = f /\ 1..(n + 1) = 1..n \cup {n + 1}
      BY <3>1
    <3> HIDE DEF n
    <3> QED
      BY <2>2, <3>2 DEF YieldedFiles
  <2> QED
    BY <2>1, <2>2
<1>5. \A g \in YieldedFiles' : Visible(g) /\ Reachable(g)
  BY <1>1, <1>3, <1>4 DEF VisibilityInv
<1>6. \A g \in Files \ gone : Visible(g) /\ Reachable(g) => Covered(g)'
  BY <1>1, <1>3, <1>4 DEF VisibilityInv, Covered
<1> QED
  BY <1>1, <1>2, <1>5, <1>6 DEF VisibilityInv, NoFileAt

\* Every step of the generator, whoever drives it.
LEMMA GeneratorVisibilityInv ==
  ASSUME WalkInv, VisibilityInv, GeneratorStep \/ Resume,
         UNCHANGED <<workspaceVars, inputVars>>
  PROVE  VisibilityInv'
<1>1. CASE Exhaust \/ Resume \/ Raise
  <2>1. /\ gpc' = "raised" \/ (gpc \notin {"created", "raised"} /\ gpc' # "created")
        /\ gpc' = "exhausted" => names' = {} /\ pending' = {}
        /\ UNCHANGED <<matcher, pending, names, yielded, disk, gone>>
        /\ UNCHANGED <<gitignore>> /\ YieldedFiles' = YieldedFiles
    BY <1>1 DEF Exhaust, Resume, Raise, workspaceVars, inputVars, YieldedFiles
  <2>2. \A e : Shown(e)' = Shown(e) /\ Visible(e)' = Visible(e) /\ Reachable(e)' = Reachable(e)
    BY SameInputsSameView
  <2> QED
    BY <2>1, <2>2 DEF VisibilityInv, Loaded, NoFileAt, Covered
<1> QED
  BY <1>1, OpenVisibilityInv, ScanDirVisibilityInv, ExamineVisibilityInv DEF GeneratorStep

\* Edits only add to the files that were once absent.
LEMMA EnvironmentVisibilityInv ==
  ASSUME VisibilityInv, Environment \/ UNCHANGED workspaceVars,
         UNCHANGED <<inputVars, generatorVars>>
  PROVE  VisibilityInv'
<1>1. gone \subseteq gone' /\ NoFileAt(disk)' \subseteq gone'
  BY DEF Environment, Tick, Edit, workspaceVars, VisibilityInv, NoFileAt
<1>2. \A e : Shown(e)' = Shown(e) /\ Visible(e)' = Visible(e) /\ Reachable(e)' = Reachable(e)
  BY SameInputsSameView
<1>3. /\ UNCHANGED <<gpc, matcher, pending, names, yielded, gitignore>>
      /\ YieldedFiles' = YieldedFiles
  BY DEF generatorVars, inputVars, YieldedFiles
<1> QED
  BY <1>1, <1>2, <1>3 DEF VisibilityInv, Loaded, Covered

-----------------------------------------------------------------------------
LEMMA InitVisibilityInv == WalkInit => WalkIInv /\ VisibilityInv
<1> SUFFICES ASSUME WalkInit PROVE VisibilityInv
  BY InitWalkIInv
<1>1. WalkInv /\ gpc = "created" /\ NoFileAt(disk) \subseteq gone
  BY InitWalkIInv DEF WalkIInv, WalkInit, DiscoveryInit, WorkspaceInit
<1> QED
  BY <1>1, CreatedVisibilityInv

LEMMA NextVisibilityInv ==
  WalkIInv /\ VisibilityInv /\ [WalkNext]_allDiscoveryVars => WalkIInv' /\ VisibilityInv'
<1> SUFFICES ASSUME WalkIInv, VisibilityInv, [WalkNext]_allDiscoveryVars PROVE VisibilityInv'
  BY NextWalkIInv
<1>1. CASE Walk
  BY <1>1, GeneratorVisibilityInv DEF Walk, WalkIInv
<1>2. CASE Environment /\ UNCHANGED <<inputVars, generatorVars>>
  BY <1>2, EnvironmentVisibilityInv
<1>3. CASE UNCHANGED allDiscoveryVars
  BY <1>3, EnvironmentVisibilityInv DEF allDiscoveryVars
<1> QED
  BY <1>1, <1>2, <1>3 DEF WalkNext

\* Nothing hidden is yielded, in a tree of any depth, under any list of
\* patterns with negations and any globs (discovery.py:81-88, gitignore.py:75-90).
THEOREM OnlyVisibleIsYielded == WalkSpec => []YieldsOnlyVisible
<1>1. WalkIInv /\ VisibilityInv => YieldsOnlyVisible
  BY DEF VisibilityInv, YieldedFiles, YieldsOnlyVisible
<1> QED
  BY InitVisibilityInv, NextVisibilityInv, <1>1, PTL DEF WalkSpec

\* What the invariant says at the end of the walk.
LEMMA ExhaustedIsComplete == VisibilityInv => WalkIsComplete
<1> SUFFICES ASSUME VisibilityInv, gpc = "exhausted",
                    NEW f \in Files \ gone, Visible(f), Reachable(f)
             PROVE  \E i \in DOMAIN yielded : yielded[i] = f
  BY DEF WalkIsComplete
<1>1. f \in YieldedFiles
  BY DEF VisibilityInv, Covered
<1> QED
  BY <1>1 DEF YieldedFiles

\* No file that was there all along is missed, in any tree, whatever is edited
\* meanwhile (discovery.py:106-167).
THEOREM NoFileIsMissed == WalkSpec => []WalkIsComplete
BY InitVisibilityInv, NextVisibilityInv, ExhaustedIsComplete, PTL DEF WalkSpec
-----------------------------------------------------------------------------
LEMMA UnmetIsBelow ==
  ASSUME NEW P \in SUBSET Dirs
  PROVE  {e \in Entries : Root \in P \/ above[e] \cap P # {}} = UNION {Below(d) : d \in P}
<1>1. \A e \in Entries, d \in P \ {Root} : d \in above[e] <=> e \in Below(d)
  BY AboveIsBelow DEF Entries
<1>2. \A e \in Entries : Root \notin above[e] /\ e \in Below(Root)
  BY AboveIsBelow, AllBelowRoot, DiscoveryAssumption DEF Entries
<1>3. \A d \in P : Below(d) \subseteq Entries
  BY DEF Below
<1>4. ASSUME NEW e \in Entries, Root \in P \/ above[e] \cap P # {}
      PROVE  \E d \in P : e \in Below(d)
  BY <1>1, <1>2, <1>4
<1>5. ASSUME NEW d \in P, NEW e \in Below(d)
      PROVE  e \in Entries /\ (Root \in P \/ above[e] \cap P # {})
  BY <1>1, <1>3
<1> QED
  BY <1>4, <1>5

\* Each step of the generator takes something off what is still to be met, or
\* is the first or the last one.
LEMMA GeneratorAdvances ==
  ASSUME WalkInv, WalkInv', GeneratorStep
  PROVE  \/ Unmet' \subseteq Unmet /\ Unmet' # Unmet
         \/ Unmet' = Unmet /\ gpc = "created" /\ gpc' = "walking"
         \/ Unmet' = Unmet /\ gpc = "walking" /\ gpc' \in {"exhausted", "raised"}
<1> DEFINE below(P) == UNION {Below(d) : d \in P}
<1>1. pending \subseteq Dirs /\ pending' \subseteq Dirs /\ names \subseteq Files
  BY DEF WalkInv, DiscoveryTypeOK
<1>2. gpc # "created" => Unmet = names \cup pending \cup below(pending)
  BY <1>1, UnmetIsBelow DEF Unmet
<1>3. gpc' # "created" => Unmet' = names' \cup pending' \cup below(pending')
  BY <1>1, UnmetIsBelow DEF Unmet
<1>4. CASE Open
  <2>1. gpc = "created" /\ gpc' = "walking" /\ names' = {} /\ pending' = {Root}
    BY <1>4 DEF Open, WalkInv
  <2>2. below({Root}) = Entries
    BY AllBelowRoot DEF Below
  <2>3. Unmet' = Entries \cup {Root} /\ Unmet = Entries \cup {Root}
    BY <1>3, <2>1, <2>2 DEF Unmet
  <2> QED
    BY <2>1, <2>3
<1>5. ASSUME NEW d \in Dirs, ScanDir(d) PROVE Unmet' \subseteq Unmet /\ Unmet' # Unmet
  <2>1. gpc = "walking" /\ gpc' = "walking" /\ names = {} /\ d \in pending
    BY <1>5 DEF ScanDir
  <2>2. /\ \A p \in pending : d \notin Below(p)
        /\ Children(d) \subseteq Below(d)
        /\ \A c \in Children(d) : Below(c) \subseteq Below(d)
    BY <2>1, ChildrenAreBelow, BelowChild DEF WalkInv
  <2>3. names' \subseteq Children(d) /\ pending' \subseteq (pending \ {d}) \cup Children(d)
    BY <1>5, <2>1 DEF ScanDir, Subdirs, Children, Entries
  <2>4. below(pending') \subseteq below(pending)
    BY <2>1, <2>2, <2>3
  <2>5. Children(d) \subseteq below(pending)
    BY <2>1, <2>2
  <2>6. names' \cup pending' \subseteq (pending \ {d}) \cup below(pending)
    BY <2>3, <2>5
  <2>7. d \notin below(pending)
    BY <2>2
  <2> HIDE DEF below
  <2> QED
    BY <1>2, <1>3, <2>1, <2>4, <2>6, <2>7
<1>6. ASSUME NEW f \in Files, Examine(f) PROVE Unmet' \subseteq Unmet /\ Unmet' # Unmet
  <2>1. /\ gpc = "walking" /\ gpc' # "created" /\ f \in names
        /\ names' = names \ {f} /\ pending' = pending
    BY <1>6 DEF Examine
  <2>2. f \notin pending /\ f \notin below(pending)
    BY <1>1, <2>1, DiscoveryAssumption DEF WalkInv
  <2> HIDE DEF below
  <2> QED
    BY <1>2, <1>3, <2>1, <2>2
<1>7. CASE Exhaust
  BY <1>7 DEF Exhaust, Unmet
<1>8. CASE Raise
  <2>1. gpc' = "raised" /\ UNCHANGED <<names, pending>>
    BY <1>8 DEF Raise
  <2>2. CASE gpc = "created"
    <3>1. names = {} /\ pending = {}
      BY <2>2 DEF WalkInv
    <3>2. Unmet' = {}
      BY <1>3, <2>1, <3>1
    <3>3. Root \in Unmet
      BY <2>2 DEF Unmet
    <3> QED
      BY <3>2, <3>3
  <2>3. CASE gpc = "walking"
    BY <2>1, <2>3 DEF Unmet
  <2> QED
    BY <1>8, <2>2, <2>3 DEF Raise
<1> QED
  BY <1>4, <1>5, <1>6, <1>7, <1>8 DEF GeneratorStep
=============================================================================
