---------------------------- MODULE MCDetectors -----------------------------
(* All short programs over several vocabularies, each for one thing to see. *)
EXTENDS Detectors

MCLine(kind, exprs) == [kind |-> kind, name |-> "", exprs |-> exprs]
MCPlain(kinds) == {MCLine(k, <<>>) : k \in kinds}
MCNamed(root) == CallOf(root, <<>>, <<>>, <<>>)
MCWhile(e) == MCLine("while", <<e>>)
MCFor(args) == MCLine("for", <<CallOf("range", <<>>, args, <<>>)>>)
MCDef(decorators) == [MCLine("def", decorators) EXCEPT !.name = "f"]
MCCall(e) == MCLine("call", <<e>>)

\* Loops and recursion, exits and comparisons.
MCLoops == [begin |-> <<>>, length |-> 5, parts |-> {"body", "orelse"},
  lines |-> MCPlain({"check", "block", "break", "return"}) \cup
            {MCWhile(Constant("true")), MCDef(<<>>), MCCall(MCNamed("f"))}]

\* Retries by hand, nested.
MCRetries == [begin |-> <<>>, length |-> 5, parts |-> {"body", "handlers", "orelse", "finalbody"},
  lines |-> MCPlain({"try", "handler", "break"}) \cup
            {MCWhile(Constant("true")), MCFor(<<Literal(3)>>), MCCall(MCNamed("f"))}]

\* An unbounded retry deep in a loop, and what may be added to it.
MCAt(line, parent, part) == [line |-> line, place |-> [parent |-> parent, part |-> part]]
MCTries == [length |-> 10, parts |-> {"body", "handlers"},
  begin |-> << MCAt(MCWhile(Literal(1)), 0, "body"), MCAt(MCLine("block", <<>>), 1, "body"),
               MCAt(MCLine("block", <<>>), 2, "body"), MCAt(MCLine("try", <<>>), 3, "body"),
               MCAt(MCLine("block", <<>>), 4, "body"), MCAt(MCLine("break", <<>>), 5, "body"),
               MCAt(MCLine("handler", <<>>), 4, "handlers") >>,
  lines |-> MCPlain({"block", "try", "handler", "break"}) \cup {MCCall(MCNamed("f"))}]

\* Tests and ranges of every form.
MCHeads ==
  LET tests == <<Literal(1), Float(1), Constant("true"), Variable>>
      ranges == <<<<>>, <<Literal(1)>>, <<Float(1)>>, <<Variable>>, <<Literal(1), Literal(3)>>>>
      heads == [i \in DOMAIN tests |-> MCWhile(tests[i])] \o [i \in DOMAIN ranges |-> MCFor(ranges[i])]
  IN [i \in DOMAIN heads |->
       [begin |-> <<MCAt(heads[i], 0, "body")>>, length |-> 5, parts |-> {"body", "handlers"},
        lines |-> MCPlain({"try", "handler", "break"}) \cup {MCCall(MCNamed("f"))}]]

\* One decorator, or two, with every pair of keywords.
MCStops == {CallOf("stop_after_attempt", <<>>, <<v>>, <<>>) : v \in {Literal(2), Constant("none"), Variable}}
           \cup {CallOf("stop_after_attempt", <<>>, <<>>, <<>>), CallOf("tenacity", <<"stop_never">>, <<>>, <<>>),
                 Constant("none"), Variable}
MCKeywords == {Keyword("stop", v) : v \in MCStops}
  \cup {Keyword("attempts", v) : v \in {Literal(3), Constant("true"), Constant("none"), Variable}}
  \cup {Keyword(k, Variable) : k \in {"wait", "reraise", "timeout", "on", "**"}}
  \cup {Keyword("timeout", Constant("none"))}
MCLists(keywords) == {<<>>} \cup {<<k>> : k \in keywords}
  \cup {<<p[1], p[2]>> : p \in {q \in keywords \X keywords : q[1].arg # q[2].arg}}
MCRetry(attrs, keywords) == CallOf(attrs[1], Tail(attrs), <<>>, keywords)
MCNames == {<<"retry">>, <<"tenacity", "retry">>, <<"stamina", "retry">>, <<"app", "retry">>}
MCDecorators == [begin |-> <<>>, length |-> 1, parts |-> {"body"},
  lines |-> {MCDef(<<MCRetry(n, k)>>) : n \in MCNames, k \in MCLists(MCKeywords)}
    \cup {MCDef(<<MCRetry(<<"retry">>, k), MCRetry(<<"retry">>, m)>>) :
            k, m \in {<<Keyword("wait", Variable)>>, <<Keyword("attempts", Literal(1))>>}}]

\* 1 and 2 are floats, 3 is rounded to 4, and 5 overflows.
MCFloatOf == [n \in 1..4 |-> IF n = 3 THEN 4 ELSE n]
MCNumbers == 1..3
MCValues == {Literal(1), Literal(3), Literal(5), Float(1), Constant("true"), Variable}

\* Calls with every pair of keywords, alone, as an argument, in an operator, or
\* as the receiver of another call.
MCCalls == [begin |-> <<>>, length |-> 1, parts |-> {"body"},
  lines |-> LET given == {Keyword("timeout", v) : v \in MCValues \cup {Constant("none")}}
                         \cup {Keyword(k, Variable) : k \in {"data", "**"}}
                calls == {CallOf(r, a, <<>>, k) : r \in {"client", ""}, a \in {<<>>, <<"get">>}, k \in MCLists(given)}
            IN {MCCall(c) : c \in calls} \cup {MCCall(CallOf("print", <<>>, <<c>>, <<>>)) : c \in calls}
               \cup {MCCall(CallOn(c, <<"json">>, <<>>, <<>>)) : c \in calls}
               \cup {MCCall(Compose({c, Compose({MCNamed("f"), c})})) : c \in calls}
               \cup {MCDef(<<MCRetry(<<"retry">>, <<Keyword("wait", c)>>)>>) : c \in calls}]

MCAgents == <<MCLoops>>
MCVocabularies == <<MCLoops, MCRetries, MCTries, MCDecorators, MCCalls>> \o MCHeads
=============================================================================
