-------------------------- MODULE MCPythonFrontend --------------------------
(* Lowering on a small instance: one text on each side of every limit.      *)
EXTENDS PythonFrontend

CONSTANTS a, b

MCText(sz, n) == [size |-> sz, decodes |-> TRUE, parse |-> "tree", nodes |-> n,
                  agents |-> <<>>, spans |-> FALSE, trips |-> {}]

MCLoop == [hash |-> "h", bounded |-> FALSE]

MCPlain == MCText(1, 2)
MCAgent == [MCText(2, 2) EXCEPT !.agents = <<MCLoop>>, !.spans = TRUE]
MCContents ==
  { MCPlain, MCAgent, MCText(3, 2), MCText(2, 3),
    [MCPlain EXCEPT !.decodes = FALSE],
    [MCPlain EXCEPT !.parse = "syntax"],
    [MCPlain EXCEPT !.parse = "exhausted"],
    [MCPlain EXCEPT !.parse = "malformed"],
    [MCAgent EXCEPT !.trips = {"OverflowError"}] }
MCDeepContents == {MCPlain, [MCAgent EXCEPT !.trips = {"RecursionError"}]}

MCFiles == {a, b}
MCUnspannable == {b}
MCNoPaths == {}
MCHashes == {"h"}
=============================================================================
