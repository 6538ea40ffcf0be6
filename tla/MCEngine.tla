------------------------------ MODULE MCEngine ------------------------------
(* Lists of up to two files and the scan-level fragment: one file with up   *)
(* to three agents, one with up to two, one that cannot be fingerprinted    *)
(* with at most one.                                                        *)
EXTENDS Engine

LOCAL INSTANCE SequencesExt

CONSTANTS a, b, c

MCPaths == {a, b, c}
MCUnencodable == {c}

\* The bound is part of the shape: h3 loops carry a counter check.
MCHashes == {"h1", "h2", "h3"}
MCAgents == {[hash |-> "h1", bounded |-> FALSE], [hash |-> "h2", bounded |-> FALSE],
             [hash |-> "h3", bounded |-> TRUE]}

MCOf(f, agents, ds) == [file |-> f, agents |-> agents, diagnostics |-> ds]
MCFirst  == {MCOf(a, s, {}) : s \in BoundedSeq(MCAgents, 3)}
MCSecond == {MCOf(b, s, {ScanLimit(b)}) : s \in BoundedSeq(MCAgents, 2)}
MCThird  == {MCOf(c, s, {}) : s \in BoundedSeq(MCAgents, 1)}
MCWhole  == MCOf(SCAN_LEVEL_FILE, <<>>, {Warning(SCAN_LEVEL_FILE)})
MCFragmentLists ==
  {<<f>> : f \in MCFirst} \cup {<<f, g>> : f \in MCFirst, g \in MCSecond}
    \cup {<<g, f, MCWhole>> : f \in MCFirst, g \in MCSecond}
    \cup {<<g, f>> : f \in MCThird, g \in MCSecond} \cup {<<MCWhole>>, <<>>}
=============================================================================
