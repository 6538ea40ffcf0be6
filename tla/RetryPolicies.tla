--------------------------- MODULE RetryPolicies ----------------------------
(***************************************************************************)
(* detect_retry_policies (lint/frontend/retries.py): the retries of a      *)
(* program, by decorator or by hand, and how often they retry.             *)
(***************************************************************************)
EXTENDS Syntax

\* RetryPolicy's bound and max_attempts; the latter is None, here no number,
\* unless the policy is bounded.
Bounded(attempts) == [bound |-> "bounded", maxAttempts |-> {attempts}]
Unbounded == [bound |-> "unbounded", maxAttempts |-> {}]
Unknown == [bound |-> "unknown", maxAttempts |-> {}]

RetryPolicy(node, source, limit) == [node |-> node, source |-> source, limit |-> limit]

\* _literal_int finds one.
IsLiteralInt(e) == e.form = "int"

KeywordNames(call) == {k.arg : k \in Range(call.keywords)}

\* The value of the keyword arg, if it is there; Python refuses it a second time.
ValueOf(call, arg) == (CHOOSE k \in Range(call.keywords) : k.arg = arg).value

IsStopAfterAttempt(e) ==
  e.form = "call" /\ DottedName(e) = <<"stop_after_attempt">> /\ e.args # <<>>

\* _tenacity_policy_from_call.
TenacityLimit(call) ==
  LET stop == ValueOf(call, "stop")
  IN CASE "stop" \notin KeywordNames(call) -> Unbounded
       [] /\ "stop" \in KeywordNames(call)
          /\ IsStopAfterAttempt(stop) /\ IsLiteralInt(stop.args[1]) -> Bounded(stop.args[1].value)
       [] OTHER -> Unknown

\* _stamina_policy_from_call.
StaminaLimit(call) ==
  LET attempts == ValueOf(call, "attempts")
      given == "attempts" \in KeywordNames(call)
  IN CASE given /\ attempts.form = "none" -> Unbounded
       [] given /\ IsLiteralInt(attempts) -> Bounded(attempts.value)
       [] OTHER -> Unknown

\* Mutant of IsTenacity: by name alone.
NamedTenacity(call) == DottedName(call) \in {<<"retry">>, <<"tenacity", "retry">>}

IsTenacity(call) ==
  /\ DottedName(call) \in {<<"retry">>, <<"tenacity", "retry">>}
  /\ KeywordNames(call) \cap {"stop", "wait", "reraise"} # {}

IsStamina(call) ==
  /\ DottedName(call) \in {<<"retry">>, <<"stamina", "retry">>}
  /\ KeywordNames(call) \cap {"attempts", "timeout"} # {}

\* _decorator_policies, one decorator: tenacity is tried first.
DecoratorPolicies(d, call) ==
  CASE IsTenacity(call) -> {RetryPolicy(d, "tenacity", TenacityLimit(call))}
    [] ~IsTenacity(call) /\ IsStamina(call) -> {RetryPolicy(d, "stamina", StaminaLimit(call))}
    [] OTHER -> {}

Decorators(d) == {e \in Range(Exprs(d)) : Kind(d) = "def" /\ e.form = "call"}

\* Mutant of HandledTries: a try with a finally is overlooked.
TriesWithoutFinally(n) ==
  {t \in Body(n) : Kind(t) = "try" /\ Block(t, "handlers") # {} /\ Block(t, "finalbody") = {}}

HandledTries(n) == {t \in Body(n) : Kind(t) = "try" /\ Block(t, "handlers") # {}}

\* _has_try_except: in the first statement of the body that holds one, the
\* first in ast.walk's order, which goes by depth and then by the text.
FirstTry(n) ==
  LET top(t) == CHOOSE c \in Block(n, "body") : t \in Walk(c)
      depth(t) == Cardinality(Around(t))
  IN CHOOSE t \in HandledTries(n) :
       \A u \in HandledTries(n) :
         \/ top(t) < top(u)
         \/ top(t) = top(u) /\ (depth(t) < depth(u) \/ (depth(t) = depth(u) /\ t <= u))

\* Mutant of TryBodyHasBreak: only the statements of the try itself.
TryBreaksAtOnce(t) == \E x \in Block(t, "body") : Kind(x) = "break"

TryBodyHasBreak(t) == \E x \in Body(t) : Kind(x) = "break"

\* The test of a while, here a second time beside loops.py's; 1.0 == 1.
TestIsConstant(n) == Exprs(n)[1] \in {Constant("true"), Literal(1), Float(1)}

IsRangeLoop(n) ==
  /\ Kind(n) = "for"
  /\ LET iter == Exprs(n)[1]
     IN /\ iter.form = "call" /\ DottedName(iter) = <<"range">>
        /\ iter.args # <<>> /\ IsLiteralInt(iter.args[1])

\* _manual_loop_policies, one loop.
ManualPolicies(n) ==
  CASE IsRangeLoop(n) /\ HandledTries(n) # {} ->
         {RetryPolicy(n, "manual-loop", Bounded(Exprs(n)[1].args[1].value))}
    [] /\ Kind(n) = "while" /\ TestIsConstant(n)
       /\ HandledTries(n) # {} /\ TryBodyHasBreak(FirstTry(n)) ->
         {RetryPolicy(n, "manual-loop", Unbounded)}
    [] OTHER -> {}

DetectRetryPolicies ==
  UNION {(UNION {DecoratorPolicies(n, call) : call \in Decorators(n)}) \cup ManualPolicies(n) :
           n \in Statements}
=============================================================================
