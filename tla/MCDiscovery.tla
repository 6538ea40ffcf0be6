---------------------------- MODULE MCDiscovery -----------------------------
(* A tree of three levels: top.py in the root, mid.py in pkg, low.py in     *)
(* pkg/sub; at most one path has a trait, or a directory and the file in it.*)
EXTENDS Discovery

LOCAL INSTANCE TLC

CONSTANTS root, pkg, sub, top, mid, low

MCFiles == {top, mid, low}
MCDirs == {root, pkg, sub}
MCPaths == MCFiles \cup MCDirs
MCParent == (top :> root) @@ (pkg :> root) @@ (mid :> pkg) @@ (sub :> pkg) @@ (low :> sub)

MCContents == {[size |-> 1, decodes |-> TRUE, parse |-> "tree", nodes |-> 1,
                agents |-> <<>>, spans |-> FALSE, trips |-> {}]}

MCTraitsOf(e) ==
  IF e \in MCFiles
  THEN {{}, {"hidden"}, {"link"}, {"outside"}, {"vendored"}, {"hidden", "link"}, {"link", "outside"}}
  ELSE {{}, {"hidden"}, {"vendored"}, {"link"}, {"unreadable"}, {"unsearchable"}, {"hidden", "link"},
        {"unreadable", "unsearchable"}}

MCPlain == [e \in MCPaths |-> {}]
MCTrees ==
  {[MCPlain EXCEPT ![d] = t, ![f] = u] :
     d \in {pkg, sub}, t \in MCTraitsOf(pkg), f \in {mid, low}, u \in {{}, {"link"}}}
  \cup UNION {{[MCPlain EXCEPT ![e] = t] : t \in MCTraitsOf(e)} : e \in MCPaths \ {root}}
  \cup {[MCPlain EXCEPT ![root] = {t}] : t \in {"unreadable", "unsearchable"}}
  \cup {[MCPlain EXCEPT ![pkg] = {"unsearchable"}, ![sub] = {"vendored"}, ![mid] = t] : t \in {{}, {"hidden"}}}

\* "*.py"-like, "pkg/"-like, "!low.py"-like, "/pkg/sub" and "low.py/" patterns.
MCPattern(neg, dirOnly, anchored, byName, byPath) ==
  [negation |-> neg, dirOnly |-> dirOnly, anchored |-> anchored,
   byName |-> byName, byPath |-> byPath]
MCPatterns ==
  { MCPattern(FALSE, FALSE, FALSE, MCFiles, MCFiles),
    MCPattern(FALSE, TRUE,  FALSE, {pkg}, {pkg}),
    MCPattern(TRUE,  FALSE, FALSE, {low}, {}),
    MCPattern(FALSE, FALSE, TRUE,  {}, {sub}),
    MCPattern(FALSE, TRUE,  FALSE, {low}, {}) }
MCLists == {<<>>} \cup {<<p>> : p \in MCPatterns} \cup {<<p, q>> : p, q \in MCPatterns}

MCConfigs == {[exclude |-> x, enable |-> {}, disable |-> {}, diagnostics |-> {}] : x \in {{}, {{sub}}, {{top}, {mid, low}}}}

\* Every tree meets the empty .gitignore; every .gitignore meets the plain tree.
MCSetup(t, r, l, c) == [tree |-> t, gitignore |-> [reads |-> r, patterns |-> l], config |-> c]
MCNone == [exclude |-> {}, enable |-> {}, disable |-> {}, diagnostics |-> {}]
MCSetups ==
  {MCSetup(t, TRUE, <<>>, MCNone) : t \in MCTrees}
  \cup {MCSetup(MCPlain, TRUE, l, MCNone) : l \in MCLists}
  \cup {MCSetup(MCPlain, FALSE, <<p>>, MCNone) : p \in MCPatterns}
  \cup {MCSetup(MCPlain, TRUE, <<p>>, c) : p \in MCPatterns, c \in MCConfigs}
=============================================================================
