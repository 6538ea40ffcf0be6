------------------------------- MODULE MCScan -------------------------------
(* The scan of a root with two Python files and a note, one Python file in  *)
(* a subdirectory; the clock may pass the wall budget at any step.          *)
EXTENDS Scan

LOCAL INSTANCE TLC

CONSTANTS root, pkg, one, two, note

MCFiles == {one, two, note}
MCPythonFiles == {one, two}
MCDirs == {root, pkg}
MCPaths == MCFiles \cup MCDirs
MCParent == (one :> root) @@ (note :> root) @@ (pkg :> root) @@ (two :> pkg)

MCLoop(h, b) == [hash |-> h, bounded |-> b]
MCHashes == {"h"}

MCQuiet == [size |-> 1, decodes |-> TRUE, parse |-> "tree", nodes |-> 1,
            agents |-> <<>>, spans |-> FALSE, trips |-> {}]
MCAgent == [MCQuiet EXCEPT !.agents = <<MCLoop("h", FALSE)>>, !.spans = TRUE]
MCContents == {MCAgent, [MCAgent EXCEPT !.trips = {"RecursionError"}], [MCQuiet EXCEPT !.size = 2]}

MCPlain == [e \in MCPaths |-> {}]
MCTrees == {MCPlain, [MCPlain EXCEPT ![two] = {"link"}], [MCPlain EXCEPT ![pkg] = {"unreadable"}],
            [MCPlain EXCEPT ![pkg] = {"unsearchable"}]}
MCSetups ==
  {[tree |-> t, gitignore |-> [reads |-> TRUE, patterns |-> <<>>],
    config |-> [exclude |-> {}, enable |-> {}, disable |-> {}, diagnostics |-> {}]] : t \in MCTrees}
MCNoPaths == {}
=============================================================================
