------------------------------- MODULE Syntax -------------------------------
(***************************************************************************)
(* Syntax trees as far as the detectors of lint/frontend tell them apart,  *)
(* and an author who goes on with a program line by line (Python's ast is  *)
(* no code of the repository).  Statement 0 is the module; the others are  *)
(* numbered in the order of the text, so a statement comes after those     *)
(* around it.  A block nothing was written in stands for "pass", and a try *)
(* without a handler ends in "finally: pass".                              *)
(***************************************************************************)
EXTENDS Naturals, Sequences, FiniteSets, Functions

\* For each author: the lines to begin with and their places, the lines the
\* author may add, the blocks they may go into, and the length of the whole.
CONSTANT Vocabularies

\* check: an "if" that compares with >=, > or ==.  block: any other statement
\* with a body.  handler: an except clause.
PartsOf == [while |-> {"body", "orelse"}, for |-> {"body", "orelse"}, check |-> {"body", "orelse"},
            block |-> {"body"}, def |-> {"body"}, handler |-> {"body"},
            try |-> {"body", "handlers", "orelse", "finalbody"}]
Compound == DOMAIN PartsOf
Simple == {"call", "break", "return"}

Rank == [body |-> 1, handlers |-> 2, orelse |-> 3, finalbody |-> 4]

\* Expressions; inner is all that an expression has inside it, at any depth.
Literal(n) == [form |-> "int", value |-> n, inner |-> {}]
Float(n) == [form |-> "float", value |-> n, inner |-> {}]
Constant(form) == [form |-> form, inner |-> {}]   \* "true" or "none"
Variable == [form |-> "variable", inner |-> {}]

\* ast.walk over some expressions.
Subexpressions(exprs) == exprs \cup UNION {e.inner : e \in exprs}

\* An operator, a comprehension, a lambda: anything with operands.
Compose(operands) == [form |-> "other", inner |-> Subexpressions(operands)]

Keyword(arg, value) == [arg |-> arg, value |-> value]   \* arg "**" for **value

Arguments(args, keywords) == Range(args) \cup {k.value : k \in Range(keywords)}

\* The call <root>.<attrs>(...), or <receiver>.<attrs>(...) of any expression.
CallOf(root, attrs, args, keywords) ==
  [form |-> "call", root |-> root, attrs |-> attrs, args |-> args, keywords |-> keywords,
   inner |-> Subexpressions(Arguments(args, keywords))]
CallOn(receiver, attrs, args, keywords) ==
  [CallOf("", attrs, args, keywords) EXCEPT !.inner = @ \cup Subexpressions({receiver})]

\* The calls anywhere in a sequence of expressions.
CallsOf(exprs) == {e \in Subexpressions(Range(exprs)) : e.form = "call"}

\* Every line an author may write.  exprs: the test of a while, the iterable of
\* a for, the decorators of a def, the call of a call.  name: of the function a
\* def defines.
Lines == UNION {v.lines \cup {given.line : given \in Range(v.begin)} : v \in Range(Vocabularies)}

ASSUME SyntaxAssumption ==
  /\ \A v \in Range(Vocabularies) :
       v.length \in Nat /\ v.parts \subseteq DOMAIN Rank /\ v.begin \in Seq(Range(v.begin))
  /\ \A l \in Lines :
       LET exprs == Subexpressions(Range(l.exprs))
       IN /\ l.kind \in Compound \cup Simple /\ l.name \in STRING
          /\ l.kind \in {"while", "for"} => 1 \in DOMAIN l.exprs
          /\ \A e \in exprs : e.form = "int" => e.value \in Nat
          /\ \A c \in CallsOf(l.exprs) :
               /\ c.attrs \in Seq(STRING) /\ c.args \in Seq(exprs)
               /\ \A k \in Range(c.keywords) : k.value \in exprs
               /\ \A j, k \in Range(c.keywords) : j.arg = k.arg => j = k \/ j.arg = "**"

VARIABLES
  author,       \* who writes
  program       \* a sequence of lines, each with its parent and block, and
                \* all the statements it is in

Statements == DOMAIN program

Kind(n) == program[n].line.kind
Name(n) == program[n].line.name
Exprs(n) == program[n].line.exprs
Around(n) == program[n].around

\* ast.walk(n): the statements at n and below it.
Walk(n) == {n} \cup {m \in Statements : n \in Around(m)}

Block(n, part) == {c \in Statements : program[c].parent = n /\ program[c].part = part}

\* All below the statements of n.body.
Body(n) == UNION {Walk(c) : c \in Block(n, "body")}

CallsIn(n) == CallsOf(Exprs(n))

\* ast_utils.dotted_name(call.func), as the sequence of its names.
DottedName(call) == IF call.root = "" THEN <<>> ELSE <<call.root>> \o call.attrs

FunctionsAround(x) == {d \in Around(x) \ {0} : Kind(d) = "def"}

\* The loops that hold x in their body; their else is no part of the loop.
LoopsAround(x) == {a \in Around(x) \ {0} : Kind(a) \in {"while", "for"} /\ x \in Body(a)}

\* Reaching x ends the loop or the call of the function n.  A number nearer to
\* x means further inside.
Leaves(x, n) ==
  \/ Kind(x) = "break" /\ n \in LoopsAround(x) /\ \A a \in LoopsAround(x) : a <= n
  \/ Kind(x) = "return" /\ x \in Body(n) /\ \A d \in FunctionsAround(x) : d <= n

\* A break has a loop around it, a return a function, an else of a try a handler.
Compiles ==
  \A x \in Statements :
    /\ Kind(x) = "break" => \E a \in LoopsAround(x) : \A d \in FunctionsAround(x) : d < a
    /\ Kind(x) = "return" => FunctionsAround(x) # {}
    /\ Kind(x) = "handler" <=> program[x].part = "handlers"
    /\ Kind(x) = "try" /\ Block(x, "orelse") # {} => Block(x, "handlers") # {}

\* The blocks the next line may go into: those that no later block follows.
Places ==
  LET last == Len(program)
      open == IF last = 0 THEN {}
              ELSE {n \in ({last} \cup Around(last)) \ {0} : Kind(n) \in Compound}
      ended(n, part) ==
        \E m \in Statements : program[m].parent = n /\ Rank[program[m].part] > Rank[part]
      parts(n) == {p \in PartsOf[Kind(n)] \cap Vocabularies[author].parts : ~ended(n, p)}
  IN {[parent |-> 0, part |-> "body"]}
     \cup UNION {{[parent |-> n, part |-> p] : p \in parts(n)} : n \in open}

Init == author \in DOMAIN Vocabularies /\ program = <<>>

\* Around a statement are its parent and what is around that.
Write(line, place) ==
  /\ Len(program) < Vocabularies[author].length
  /\ program' = Append(program,
       [line |-> line, parent |-> place.parent, part |-> place.part,
        around |-> IF place.parent = 0 THEN {0} ELSE {place.parent} \cup Around(place.parent)])
  /\ Compiles'
  /\ UNCHANGED author

\* The first lines are given, the others the author chooses.
Follow ==
  /\ Len(program) < Len(Vocabularies[author].begin)
  /\ LET given == Vocabularies[author].begin[Len(program) + 1]
     IN given.place \in Places /\ Write(given.line, given.place)

GoOn ==
  /\ Len(program) >= Len(Vocabularies[author].begin)
  /\ \E line \in Vocabularies[author].lines, place \in Places : Write(line, place)

Next == Follow \/ GoOn

Spec == Init /\ [][Next]_<<author, program>>
=============================================================================
