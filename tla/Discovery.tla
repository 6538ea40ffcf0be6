----------------------------- MODULE Discovery ------------------------------
(***************************************************************************)
(* discover_files (lint/frontend/discovery.py): the generator that walks   *)
(* the tree and yields the files to scan, with the gitignore matcher it    *)
(* consults (gitignore.py).  A directory is listed when the walk reaches   *)
(* it, so its names may be stale by the time they are examined.  os.walk   *)
(* promises no order of names; here directories and names come in any.     *)
(***************************************************************************)
EXTENDS Workspace, SequencesExt

CONSTANTS
  Dirs, Root,   \* the directories, and the one that is scanned
  Parent,       \* Parent[e] is the directory that holds e
  Setups        \* the trees, .gitignore files and configurations to try

Entries == Files \cup (Dirs \ {Root})

\* hidden: the name starts with ".".  vendored: it is one of
\* DEFAULT_EXCLUDED_DIR_NAMES.  link: a symlink.  outside: it does not resolve
\* to a path under the root.  unreadable: os.scandir fails on it.  unsearchable:
\* a directory nothing in which can be asked for its status.
Traits == {"hidden", "vendored", "link", "outside", "unreadable", "unsearchable"}
Tree == [Entries \cup {Root} -> SUBSET Traits]

\* A compiled pattern, its regex given by the paths it matches by name and by
\* path.  A missing .gitignore is one that reads and has no patterns.
Pattern == [negation : BOOLEAN, dirOnly : BOOLEAN, anchored : BOOLEAN,
            byName : SUBSET Entries, byPath : SUBSET Entries]
Gitignore == [reads : BOOLEAN, patterns : Seq(Pattern)]

\* Config, each exclude glob given by the paths it matches.  The rules it
\* enables or disables are read by nobody.
Config == [exclude : SUBSET SUBSET Entries, enable : SUBSET STRING, disable : SUBSET STRING,
           diagnostics : SUBSET Diagnostic]

ASSUME DiscoveryAssumption ==
  /\ Root \in Dirs /\ Dirs \subseteq Paths /\ Dirs \cap Files = {}
  /\ Parent \in [Entries -> Dirs]
  /\ Setups \subseteq [tree : Tree, gitignore : Gitignore, config : Config]

\* The directories are those of a tree: each entry is one level below its parent.
ASSUME TreeAssumption ==
  /\ IsFiniteSet(Dirs)
  /\ \E depth \in [Entries \cup {Root} -> 0..Cardinality(Dirs)] :
       \A e \in Entries : depth[e] = depth[Parent[e]] + 1

VARIABLES
  tree, gitignore, config,  \* what the walk is given; it changes none of it
  gpc,          \* where the generator is
  matcher,      \* the patterns it loaded
  pending,      \* directories kept and not yet listed
  names,        \* names of the listed directory not yet examined
  current,      \* the file it yielded last
  scanDiags,    \* the list of diagnostics shared with scan_repository
  yielded       \* history: the files yielded, in order

inputVars == <<tree, gitignore, config>>
generatorVars == <<gpc, matcher, pending, names, current, scanDiags, yielded>>

DiscoveryTypeOK ==
  /\ \E s \in Setups : tree = s.tree /\ gitignore = s.gitignore
  /\ config \in Config
  /\ gpc \in {"created", "walking", "suspended", "exhausted", "raised"}
  /\ matcher \in Seq(Pattern)
  /\ pending \in SUBSET Dirs
  /\ names \in SUBSET Files
  /\ current \in Files
  /\ scanDiags \in SUBSET Diagnostic
  /\ yielded \in Seq(Files)

DiscoveryInit ==
  /\ \E s \in Setups : tree = s.tree /\ gitignore = s.gitignore /\ config = s.config
  /\ gpc = "created"
  /\ matcher = <<>> /\ pending = {} /\ names = {}
  /\ current = CHOOSE f \in Files : TRUE
  /\ scanDiags = {} /\ yielded = <<>>

Has(trait, e) == trait \in tree[e]

Matches(p, e) == e \in p.byPath \/ (~p.anchored /\ e \in p.byName)

\* Mutant of IsIgnored: "dir/" patterns apply to files as well.
IgnoredDirOnlyToo(e, isDir) ==
  FoldLeft(LAMBDA ignored, p : IF Matches(p, e) THEN ~p.negation ELSE ignored,
           FALSE, matcher)

\* GitignoreMatcher.is_ignored: every pattern that matches overrides the
\* verdict of those before it.
IsIgnored(e, isDir) ==
  FoldLeft(LAMBDA ignored, p :
             IF (p.dirOnly => isDir) /\ Matches(p, e) THEN ~p.negation ELSE ignored,
           FALSE, matcher)

\* _matches_exclude_globs.
IsExcluded(e) == \E glob \in config.exclude : e \in glob

NamedOut(e) == Has("hidden", e) \/ (e \in Dirs /\ Has("vendored", e))

\* Path.is_symlink, asked of every name that is not out by its name alone,
\* raises PermissionError there (on Python up to 3.13).
AskingRaises(e) == ~NamedOut(e) /\ Has("unsearchable", Parent[e])

\* Mutant of Open: the matcher stays unset when .gitignore cannot be read.
OpenWithoutFallback ==
  /\ gpc = "created" /\ gpc' = "walking" /\ ~Has("unsearchable", Root)
  /\ matcher' = IF gitignore.reads THEN gitignore.patterns ELSE Absent
  /\ scanDiags' = scanDiags \cup IF gitignore.reads THEN {} ELSE {Warning(SCAN_LEVEL_FILE)}
  /\ pending' = {Root}
  /\ UNCHANGED <<names, current, yielded>>

\* The generator's first step: load the matcher, start the walk at the root.
Open ==
  /\ gpc = "created" /\ gpc' = "walking" /\ ~Has("unsearchable", Root)
  /\ matcher' = IF gitignore.reads THEN gitignore.patterns ELSE <<>>
  /\ scanDiags' = scanDiags \cup IF gitignore.reads THEN {} ELSE {Warning(SCAN_LEVEL_FILE)}
  /\ pending' = {Root}
  /\ UNCHANGED <<names, current, yielded>>

Subdirs(d) == {c \in Dirs \ {Root} : Parent[c] = d}

CannotPrune(d) == ~Has("unreadable", d) /\ \E c \in Subdirs(d) : AskingRaises(c)

KeptDir(c) ==
  ~NamedOut(c) /\ ~Has("link", c) /\ ~IsIgnored(c, TRUE) /\ ~IsExcluded(c)

\* Mutant of ScanDir: a directory that cannot be listed is tried again.
ScanDirAgain(d) ==
  /\ gpc = "walking" /\ names = {} /\ d \in pending /\ ~CannotPrune(d)
  /\ IF Has("unreadable", d)
     THEN UNCHANGED <<pending, names, scanDiags>>
     ELSE /\ names' = {f \in Files : Parent[f] = d /\ disk[f] # Absent}
          /\ pending' = (pending \ {d}) \cup {c \in Subdirs(d) : KeptDir(c)}
          /\ UNCHANGED scanDiags
  /\ UNCHANGED <<gpc, matcher, current, yielded>>

\* Mutant of ScanDir: a listed directory is not taken off the list.
ScanDirTwice(d) ==
  /\ gpc = "walking" /\ names = {} /\ d \in pending /\ ~CannotPrune(d)
  /\ names' = {f \in Files : Parent[f] = d /\ disk[f] # Absent}
  /\ pending' = pending \cup {c \in Subdirs(d) : KeptDir(c)}
  /\ UNCHANGED <<gpc, matcher, current, scanDiags, yielded>>

\* Mutant of ScanDir: `dirnames = kept` instead of `dirnames[:] = kept`.
ScanDirUnpruned(d) ==
  /\ gpc = "walking" /\ names = {} /\ d \in pending /\ ~CannotPrune(d)
  /\ names' = {f \in Files : Parent[f] = d /\ disk[f] # Absent}
  /\ pending' = (pending \ {d}) \cup Subdirs(d)
  /\ UNCHANGED <<gpc, matcher, current, scanDiags, yielded>>

\* os.walk lists one more directory (or silently passes over it if it cannot)
\* and the loop prunes its subdirectories in place.
ScanDir(d) ==
  /\ gpc = "walking" /\ names = {} /\ d \in pending /\ ~CannotPrune(d)
  /\ IF Has("unreadable", d)
     THEN pending' = pending \ {d} /\ UNCHANGED <<names, scanDiags>>
     ELSE /\ names' = {f \in Files : Parent[f] = d /\ disk[f] # Absent}
          /\ pending' = (pending \ {d}) \cup {c \in Subdirs(d) : KeptDir(c)}
          /\ scanDiags' = scanDiags \cup
               {Info(c) : c \in {l \in Subdirs(d) : ~NamedOut(l) /\ Has("link", l)}}
  /\ UNCHANGED <<gpc, matcher, current, yielded>>

Refusal(f) ==
  CASE Has("hidden", f) -> {}
    [] ~Has("hidden", f) /\ Has("link", f) -> {Info(f)}
    [] ~Has("hidden", f) /\ ~Has("link", f) /\ Has("outside", f) -> {Warning(f)}
    [] OTHER -> {}

KeptFile(f) ==
  tree[f] \cap {"hidden", "link", "outside"} = {} /\ ~IsIgnored(f, FALSE) /\ ~IsExcluded(f)

\* The loop over filenames takes the next one, and yields it or drops it.
Examine(f) ==
  /\ gpc = "walking" /\ f \in names /\ ~AskingRaises(f)
  /\ names' = names \ {f}
  /\ IF KeptFile(f)
     THEN /\ gpc' = "suspended" /\ current' = f
          /\ yielded' = Append(yielded, f)
          /\ UNCHANGED scanDiags
     ELSE /\ scanDiags' = scanDiags \cup Refusal(f)
          /\ UNCHANGED <<gpc, current, yielded>>
  /\ UNCHANGED <<matcher, pending>>

Exhaust ==
  /\ gpc = "walking" /\ names = {} /\ pending = {}
  /\ gpc' = "exhausted"
  /\ UNCHANGED <<matcher, pending, names, current, scanDiags, yielded>>

\* Whatever stands outside a try raises: is_file on the root's .gitignore,
\* is_symlink on a subdirectory just listed or on the next name.
Raise ==
  /\ \/ gpc = "created" /\ Has("unsearchable", Root)
     \/ gpc = "walking" /\ names = {} /\ \E d \in pending : CannotPrune(d)
     \/ gpc = "walking" /\ \E f \in names : AskingRaises(f)
  /\ gpc' = "raised"
  /\ UNCHANGED <<matcher, pending, names, current, scanDiags, yielded>>

GeneratorStep ==
  \/ Open \/ Exhaust \/ Raise
  \/ \E d \in Dirs : ScanDir(d)
  \/ \E f \in Files : Examine(f)

\* The consumer asks for the next file.
Resume ==
  /\ gpc = "suspended" /\ gpc' = "walking"
  /\ UNCHANGED <<matcher, pending, names, current, scanDiags, yielded>>

(***************************************************************************)
(* The generator by itself, with a consumer that asks until it ends.       *)
(***************************************************************************)
allDiscoveryVars == <<workspaceVars, inputVars, generatorVars>>

WalkInit == WorkspaceInit /\ DiscoveryInit

Walk == (GeneratorStep \/ Resume) /\ UNCHANGED <<workspaceVars, inputVars>>

WalkNext ==
  \/ Walk
  \/ Environment /\ UNCHANGED <<inputVars, generatorVars>>
  \/ gpc \in {"exhausted", "raised"} /\ UNCHANGED allDiscoveryVars

WalkSpec == WalkInit /\ [][WalkNext]_allDiscoveryVars /\ WF_allDiscoveryVars(Walk)

WalkTypeOK == WorkspaceTypeOK /\ DiscoveryTypeOK

\* The directories between an entry and the root, the root left out.
above[e \in Entries \cup {Root}] ==
  IF e = Root \/ Parent[e] = Root THEN {} ELSE {Parent[e]} \cup above[Parent[e]]

\* What a reader of .gitignore expects: the last pattern that speaks of an
\* entry decides.
LastWordIgnores(e) ==
  \E i \in DOMAIN gitignore.patterns :
    /\ gitignore.reads
    /\ LET speaks(j) == /\ gitignore.patterns[j].dirOnly => e \in Dirs
                        /\ Matches(gitignore.patterns[j], e)
       IN /\ speaks(i) /\ ~gitignore.patterns[i].negation
          /\ \A j \in DOMAIN gitignore.patterns : j > i => ~speaks(j)

\* A name of a directory may be vendored, a file may resolve elsewhere.
Hiding(e) == {"hidden", "link"} \cup (IF e \in Dirs THEN {"vendored"} ELSE {"outside"})

\* What the walk has still to meet: the names of the directory it listed last,
\* the directories it has still to list, and all below them.
Unmet ==
  IF gpc = "created" THEN Entries \cup {Root}
  ELSE names \cup pending \cup {e \in Entries : Root \in pending \/ above[e] \cap pending # {}}

Shown(e) == tree[e] \cap Hiding(e) = {} /\ ~LastWordIgnores(e) /\ ~IsExcluded(e)

Visible(f) == \A e \in above[f] \cup {f} : Shown(e)

Reachable(f) == \A d \in above[f] \cup {Root} : ~Has("unreadable", d)

\* Nothing is yielded from below a directory that is hidden, vendored, a
\* symlink, ignored or excluded, at any depth and even when a later pattern
\* names the file itself (discovery.py:81-88, gitignore.py:75-90).
YieldsOnlyVisible == \A i \in DOMAIN yielded : Visible(yielded[i])

\* A file that was there all along and that nothing hides is never missed,
\* whatever is created, replaced or deleted around it during the walk, as long
\* as the directories above it can be listed (discovery.py:106-167).
WalkIsComplete ==
  gpc = "exhausted" =>
    \A f \in Files \ gone :
      Visible(f) /\ Reachable(f) => \E i \in DOMAIN yielded : yielded[i] = f

\* No file is yielded twice, so no two fragments of a scan carry one path and
\* their findings cannot collide (discovery.py:106-167).
NoFileTwice == \A i, j \in DOMAIN yielded : yielded[i] = yielded[j] => i = j

\* The walk ends, whatever changes in the tree meanwhile: it comes to an end of
\* its own unless it meets a directory that it can list but not search, and
\* then it raises (discovery.py:117,142).
WalkEnds ==
  <>(gpc = "exhausted" \/ (gpc = "raised" /\ \E d \in Dirs : Has("unsearchable", d)))
=============================================================================
