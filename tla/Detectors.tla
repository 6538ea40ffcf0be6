------------------------------ MODULE Detectors -----------------------------
(***************************************************************************)
(* The three detectors that lower() runs over one tree, with               *)
(* detect_tool_calls (lint/frontend/calls.py), and what is true of what    *)
(* they record: the library a decorator may come from, what the arguments  *)
(* of a call may turn out to be, and which loop a break leaves.            *)
(***************************************************************************)
EXTENDS AgentLoops, RetryPolicies

CONSTANTS
  FloatOf,    \* FloatOf[n] is float(n); beyond its domain that overflows
  ExactInts,  \* up to which float(n) is n itself
  Numbers     \* how many attempts a value that is not in the text may allow

ASSUME NumbersAssumption ==
  /\ DOMAIN FloatOf \subseteq Nat /\ ExactInts \in Nat
  /\ \A n \in DOMAIN FloatOf : n <= ExactInts => FloatOf[n] = n
  /\ Numbers \subseteq Nat /\ Numbers # {}

\* seconds is None, here no number, unless a literal was found.
TimeoutPolicy(present, seconds) == [present |-> present, seconds |-> seconds]

ToolCall(node, call, timeout) ==
  [node |-> node, call |-> call, callee |-> DottedName(call), timeout |-> timeout]

ToFloat(e) ==
  CASE e.form = "int" -> {FloatOf[e.value]}
    [] e.form = "float" -> {e.value}
    [] OTHER -> {}

\* Mutant of ExtractTimeout: the first keyword only.
TimeoutFirst(call) ==
  IF call.keywords # <<>> /\ call.keywords[1].arg = "timeout"
  THEN TimeoutPolicy(TRUE, ToFloat(call.keywords[1].value)) ELSE TimeoutPolicy(FALSE, {})

\* _extract_timeout.
ExtractTimeout(call) ==
  IF "timeout" \in KeywordNames(call)
  THEN TimeoutPolicy(TRUE, ToFloat(ValueOf(call, "timeout"))) ELSE TimeoutPolicy(FALSE, {})

\* Calls of an attribute of something with a name.
Candidates(n) == {e \in CallsIn(n) : e.attrs # <<>> /\ DottedName(e) # <<>>}

Overflows(call) ==
  /\ "timeout" \in KeywordNames(call)
  /\ LET timeout == ValueOf(call, "timeout")
     IN timeout.form = "int" /\ timeout.value \notin DOMAIN FloatOf

\* An OverflowError at one of them leaves detect_tool_calls and lower().
DetectionRaises == \E n \in Statements : \E call \in Candidates(n) : Overflows(call)

\* detect_tool_calls, when it returns.
DetectToolCalls ==
  UNION {{ToolCall(n, c, ExtractTimeout(c)) : c \in Candidates(n)} : n \in Statements}

-----------------------------------------------------------------------------
\* After how many attempts something gives up, at the latest.
ForEver == {}
AtMost(n) == {n}
AnyLimit == {ForEver} \cup {AtMost(n) : n \in Numbers}

\* What limit a number of attempts may turn out to set; None, True or 2.0 is
\* no number of attempts.
Possible(e) ==
  CASE e.form = "int" -> {AtMost(e.value)}
    [] e.form \in {"none", "true", "float"} -> {}
    [] OTHER -> AnyLimit

\* A value for the keyword may be hidden in **mapping.
Hidden(call) == "**" \in KeywordNames(call)

\* The libraries whose retry takes these keywords.
Libraries(call) ==
  {l \in {"tenacity", "stamina"} :
     /\ DottedName(call) \in {<<"retry">>, <<l, "retry">>}
     /\ KeywordNames(call) \subseteq
          (IF l = "tenacity" THEN {"stop", "wait", "reraise"} ELSE {"attempts", "timeout", "on"})
          \cup {"**"}}

IsNone(call, arg) == arg \in KeywordNames(call) /\ ValueOf(call, arg).form = "none"

\* tenacity retries for ever without a stop; what a stop does that is not said
\* in place is open.
TenacityLimits(call) ==
  LET stop == ValueOf(call, "stop")
  IN CASE "stop" \notin KeywordNames(call) \/ IsNone(call, "stop") -> {ForEver}
       [] "stop" \in KeywordNames(call) /\ IsStopAfterAttempt(stop) -> Possible(stop.args[1])
       [] OTHER -> AnyLimit

\* A timeout ends a limit earlier, or one day what would go on for ever.
Sooner(limit) ==
  {AtMost(n) : n \in IF limit = ForEver THEN Numbers ELSE UNION {1..m : m \in limit}}

\* stamina gives up after so many attempts or after a timeout, whichever comes
\* first; what it does by default depends on its version.
StaminaLimits(call) ==
  LET limits == CASE "attempts" \notin KeywordNames(call) -> AnyLimit
                  [] IsNone(call, "attempts") -> {ForEver}
                  [] OTHER -> Possible(ValueOf(call, "attempts"))
  IN limits \cup IF IsNone(call, "timeout") THEN {} ELSE UNION {Sooner(l) : l \in limits}

Limits(call, library) ==
  IF library = "tenacity" THEN TenacityLimits(call) ELSE StaminaLimits(call)

\* bounded: n attempts may be made, never more.  unbounded: there is no limit.
\* unknown: the text leaves it open.
TrueOf(limit, limits) ==
  CASE limit = Unbounded -> limits = {ForEver}
    [] limit = Unknown -> \A l \in limits : limits # {l}
    [] OTHER -> /\ limit.maxAttempts \in limits
                /\ \A l \in limits : \E n \in l : \A m \in limit.maxAttempts : n <= m

\* Where the code and its documents differ.  stop=None is UNBOUNDED in ir.py:29-30
\* and retries.py:8-9 and recorded as UNKNOWN; attempts=None is to "retry forever"
\* (retries.py:14) and is recorded so, though a timeout ends it all the same.
Disputed(call, library) ==
  IF library = "tenacity" THEN IsNone(call, "stop")
  ELSE IsNone(call, "attempts") /\ ~IsNone(call, "timeout")

\* What a decorator is recorded as is true of every library whose retry it may
\* be and of every value its arguments may have, and UNKNOWN is said only where
\* the arguments, no name in them followed, leave the limit open; keywords
\* hidden in **mapping, a literal 0, which each library reads in its own way,
\* and what Disputed names are excepted.  A range's bound is its length, unless
\* it has a start.  The keywords tell the libraries apart (retries.py:8-20,
\* 142-147).
RecordedBoundsAreTrue ==
  \A n \in Statements :
    /\ \A call \in Decorators(n), library \in {"tenacity", "stamina"} :
         library \in Libraries(call) /\ ~Hidden(call) /\ ~Disputed(call, library) =>
           \A policy \in DecoratorPolicies(n, call) :
             /\ policy.source = library
             /\ policy.limit = Bounded(0) \/ TrueOf(policy.limit, Limits(call, library))
    /\ \A policy \in ManualPolicies(n) :
         Kind(n) = "for" /\ Len(Exprs(n)[1].args) = 1 =>
           TrueOf(policy.limit, Possible(Exprs(n)[1].args[1]))

\* What is recorded of a call's timeout is true of the call, unless it hides
\* keywords: there is one if and only if it is said to be present, the seconds
\* are those of the literal, rounded only where a float must, and they are left
\* open only where the text does (calls.py:16-45).
TimeoutsAreTrue ==
  ~DetectionRaises =>
    \A found \in DetectToolCalls :
      LET given == {k.value : k \in {x \in Range(found.call.keywords) : x.arg = "timeout"}}
          seconds == found.timeout.seconds
      IN ~Hidden(found.call) =>
           /\ found.timeout.present <=> given # {}
           /\ \A e \in given :
                /\ e.form \in {"int", "float"} <=> seconds # {}
                /\ \A s \in seconds : s = e.value \/ (e.form = "int" /\ e.value > ExactInts)

\* "keep retrying until it succeeds" is seen whatever the success stands in: a
\* loop without end that a break leaves from inside its one try is recorded as
\* unbounded (retries.py:22-24).
UntilSuccessIsSeen ==
  \A n \in Statements :
    /\ IsUnconditionalWhile(n)
    /\ \E t \in Statements : /\ HandledTries(n) = {t}
                             /\ \E x \in Body(t) : Kind(x) = "break" /\ Leaves(x, n)
    => RetryPolicy(n, "manual-loop", Unbounded) \in DetectRetryPolicies

\* The detectors read the same loops: one that retries without a bound and
\* calls anything is an agent as well, so AR001 has seen it.
DetectorsAgree ==
  \A policy \in DetectRetryPolicies :
    policy.source = "manual-loop" /\ policy.limit = Unbounded /\ ContainsCall(Body(policy.node)) =>
      \E agent \in DetectAgents : agent.node = policy.node

AddsHandlerTo(n) == Kind(Len(program)) = "handler" /\ n \in Around(Len(program))

\* Writing on takes no retry away, but for one case: another except clause in
\* an unbounded loop, whose try may now be the first (retries.py:150-155).
RetriesPersist ==
  [][\A policy \in DetectRetryPolicies :
       \/ policy \in DetectRetryPolicies'
       \/ policy.limit = Unbounded /\ AddsHandlerTo(policy.node)']_program
=============================================================================
