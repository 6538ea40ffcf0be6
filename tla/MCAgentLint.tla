----------------------------- MODULE MCAgentLint ----------------------------
(* The whole command on a root with one Python file and a package with      *)
(* another.                                                                 *)
EXTENDS AgentLint

LOCAL INSTANCE TLC

CONSTANTS root, pkg, one, two

MCFiles == {one, two}
MCDirs == {root, pkg}
MCPaths == MCFiles \cup MCDirs
MCParent == (one :> root) @@ (pkg :> root) @@ (two :> pkg)
MCHashes == {"h1", "h2"}

MCLoop(h, b) == [hash |-> h, bounded |-> b]
MCText(agents) == [size |-> 1, decodes |-> TRUE, parse |-> "tree", nodes |-> 1,
                   agents |-> agents, spans |-> agents # <<>>, trips |-> {}]

MCQuiet == MCText(<<>>)
MCTwice == MCText(<<MCLoop("h1", FALSE), MCLoop("h2", TRUE), MCLoop("h1", FALSE)>>)
MCSafe  == MCText(<<MCLoop("h2", TRUE)>>)
MCHuge  == [MCQuiet EXCEPT !.size = 2]
MCTypo  == [MCQuiet EXCEPT !.parse = "syntax"]
MCNull  == [MCQuiet EXCEPT !.parse = "malformed"]
MCDeep  == [MCTwice EXCEPT !.trips = {"RecursionError"}]

MCContents == {MCSafe, MCTwice, MCHuge, MCTypo, MCNull}
MCOrdinary == {MCSafe, MCTwice}
MCHostile  == {MCTwice, MCDeep, MCTypo}
MCTypos    == {MCQuiet, MCTypo}

MCPlain == [e \in MCPaths |-> {}]
MCSetup(t) == [tree |-> t, gitignore |-> [reads |-> TRUE, patterns |-> <<>>],
               config |-> DefaultConfig]
MCOneSetup == {MCSetup(MCPlain)}
MCSetups == MCOneSetup \cup {MCSetup([MCPlain EXCEPT ![pkg] = {"link"}]),
                             MCSetup([MCPlain EXCEPT ![pkg] = {"unreadable"}]),
                             MCSetup([MCPlain EXCEPT ![pkg] = {"unsearchable"}]),
                             MCSetup([MCPlain EXCEPT ![root] = {"unsearchable"}])}

MCNone == [form |-> "null", items |-> {}]
MCListed(items) == [form |-> "strings", items |-> items]
MCOther == [form |-> "other", items |-> {}]
MCRules(f, u, e, d) == [form |-> f, unknown |-> u, enable |-> e, disable |-> d]
MCNoRules == MCRules("null", {}, MCNone, MCNone)
MCDocument(f, u, x, r) == [form |-> f, unknown |-> u, exclude |-> x, rules |-> r]

MCMissing == MCDocument("missing", {}, MCNone, MCNoRules)
MCBroken == [MCMissing EXCEPT !.form = "broken"]
MCWellFormed ==
  MCDocument("mapping", {}, MCListed({{two}}), MCRules("mapping", {}, MCNone, MCListed({"AR001"})))

\* Every combination of faults in a mapping, and the other forms.
MCUnknownKeys == {"egress", "rules.warn"}
MCFaulty ==
  { [MCMissing EXCEPT !.form = "scalar"], [MCMissing EXCEPT !.form = "null"] }
  \cup {MCDocument("mapping", u, x, MCRules("other", {}, MCNone, MCNone)) :
          u \in {{}, {"egress"}}, x \in {MCListed({{two}}), MCOther}}
  \cup {MCDocument("mapping", {}, x, MCRules("mapping", u, e, d)) :
          x \in {MCNone, MCOther}, u \in {{}, {"rules.warn"}}, e, d \in {MCNone, MCOther}}

MCCall(t, d) == [target |-> t, document |-> d]
MCDirectory == {MCCall("directory", MCMissing)}
MCInvocations == MCDirectory \cup {MCCall("file", MCMissing), MCCall("nothing", MCMissing),
                              MCCall("denied", MCMissing)}
MCDocuments == {MCCall("directory", d) : d \in MCFaulty \cup {MCWellFormed, MCBroken}}
MCBadConfig == {MCCall("directory", MCBroken)}
MCHostileCalls == MCDirectory \cup MCDocuments
MCNoPaths == {}
MCRuleNames == {"AR001"}
MCUnencodable == {two}
=============================================================================
