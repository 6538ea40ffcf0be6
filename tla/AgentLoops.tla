----------------------------- MODULE AgentLoops -----------------------------
(***************************************************************************)
(* detect_agents (lint/frontend/loops.py): which loops and recursions of a *)
(* program it takes for agents, and which of them it takes to be bounded.  *)
(* Its order of visiting, which no rule depends on, is left out.           *)
(***************************************************************************)
EXTENDS Syntax

\* Mutant of IsUnconditionalWhile: "while 1" is overlooked.
IsWhileTrue(n) == Kind(n) = "while" /\ Exprs(n)[1] = Constant("true")

\* _is_unconditional_while; 1.0 == 1.
IsUnconditionalWhile(n) ==
  Kind(n) = "while" /\ Exprs(n)[1] \in {Constant("true"), Literal(1), Float(1)}

ContainsCall(body) == \E m \in body : CallsIn(m) # {}

\* Mutant of HasVisibleStepBound: the exit must be the last statement of the if.
BoundOnlyAtEnd(body) ==
  \E c \in body :
    /\ Kind(c) = "check"
    /\ \E x \in Walk(c) : Kind(x) \in {"break", "return"} /\ \A m \in Walk(c) : m <= x

\* Mutant of HasVisibleStepBound: break only.
BoundByBreak(body) ==
  \E c \in body : Kind(c) = "check" /\ \E x \in Walk(c) : Kind(x) = "break"

\* Mutant of HasVisibleStepBound: the comparison is not looked at.
BoundByAnyExit(body) == \E x \in body : Kind(x) \in {"break", "return"}

\* _has_visible_step_bound.
HasVisibleStepBound(body) ==
  \E c \in body : Kind(c) = "check" /\ \E x \in Walk(c) : Kind(x) \in {"break", "return"}

CallsItself(d) == \E m \in Walk(d) : \E c \in CallsIn(m) : DottedName(c) = <<Name(d)>>

IsAgent(n) ==
  \/ IsUnconditionalWhile(n) /\ ContainsCall(Body(n))
  \/ Kind(n) = "def" /\ CallsItself(n)

DetectAgents ==
  {[node |-> n, bounded |-> HasVisibleStepBound(Body(n))] : n \in {m \in Statements : IsAgent(m)}}

-----------------------------------------------------------------------------
Checks(n) == {c \in Body(n) : Kind(c) = "check"}

\* n has an exit of its own in the body of an "if" that compares.
GuardedExit(n) == \E c \in Checks(n) : \E x \in Body(c) : Leaves(x, n)

\* The same, its else included.
CheckedExit(n) == \E c \in Checks(n) : \E x \in Walk(c) : Leaves(x, n)

\* An agent that AR001 will report as unbounded has no exit of its own in the
\* body of a comparison, in whatever block or nested loop that may stand: the
\* rule never accuses the canonical shape (loops.py:22-26).
FlaggedHasNoGuardedExit ==
  \A agent \in DetectAgents : ~agent.bounded => ~GuardedExit(agent.node)

\* Writing on at the end of a program takes no agent away and no bound: code
\* after an exit does not hide it.
BoundsPersist ==
  [][\A agent \in DetectAgents :
       \E later \in DetectAgents' : later.node = agent.node /\ (agent.bounded => later.bounded)]_program

Exits(statements) == {x \in statements : Kind(x) \in {"break", "return"}}

\* Only two things lend an agent a bound that the documents do not grant it: a
\* loop or function inside it, whose exit is not the agent's, and an exit in
\* the else of a comparison, where loops.py:22-26 asks for one in the body.
\* Without them every recorded bound is the canonical shape (loops.py:59-72).
OnlyNestingOrElseInventsBounds ==
  \A agent \in DetectAgents :
    /\ agent.bounded
    /\ \A m \in Body(agent.node) : Kind(m) \notin {"while", "for", "def"}
    /\ \A c \in Checks(agent.node) : Exits(Walk(c)) \subseteq Body(c)
    => GuardedExit(agent.node)

\* loops.py:28-30: a missed bound "is the safer failure direction for a
\* reliability tool than inventing a bound that isn't really there".
NoInventedBound == \A agent \in DetectAgents : agent.bounded => CheckedExit(agent.node)
=============================================================================
