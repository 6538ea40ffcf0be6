--------------------------- MODULE DetectorProofs ---------------------------
(***************************************************************************)
(* Proofs about the detectors, for programs of any length over any lines:  *)
(* what they record is true, and writing on takes nothing of it away.      *)
(***************************************************************************)
EXTENDS Detectors, TLAPS

Statement == [line : Lines, parent : Nat, part : DOMAIN Rank, around : SUBSET Nat]

SyntaxTypeOK == author \in DOMAIN Vocabularies /\ program \in Seq(Statement)

\* The statements around a statement stand in each other, and come before it.
NestedAt(n) ==
  /\ program[n].parent \in 0..(n - 1)
  /\ Around(n) = {program[n].parent} \cup
                   (IF program[n].parent = 0 THEN {} ELSE Around(program[n].parent))
  /\ Around(n) \subseteq 0..(n - 1)
  /\ \A a \in Around(n) \ {0} : Around(a) \subseteq Around(n)
  /\ \A a, b \in Around(n) : a < b => a \in Around(b)

Nested == \A n \in Statements : NestedAt(n)

SyntaxInv == SyntaxTypeOK /\ Nested /\ Compiles

-----------------------------------------------------------------------------
LEMMA StatementsAreNumbers ==
  ASSUME SyntaxTypeOK
  PROVE  /\ Len(program) \in Nat
         /\ Statements = 1..Len(program)
         /\ \A n \in Statements : /\ program[n].line \in Lines
                                  /\ program[n].part \in DOMAIN Rank
                                  /\ program[n].parent \in Nat /\ Around(n) \subseteq Nat
<1>1. Len(program) \in Nat /\ Statements = 1..Len(program)
  BY DEF SyntaxTypeOK, Statements
<1>2. \A n \in Statements : program[n] \in Statement
  BY DEF SyntaxTypeOK, Statements
<1> QED
  BY <1>1, <1>2 DEF Statement, Around

LEMMA VocabularyOf ==
  ASSUME SyntaxTypeOK
  PROVE  LET v == Vocabularies[author]
         IN /\ v.length \in Nat /\ v.parts \subseteq DOMAIN Rank /\ v.lines \subseteq Lines
            /\ Len(v.begin) \in Nat
            /\ \A i \in 1..Len(v.begin) : v.begin[i].line \in Lines
<1> DEFINE v == Vocabularies[author]
<1>1. v \in Range(Vocabularies)
  BY DEF SyntaxTypeOK, Range
<1>2. v.length \in Nat /\ v.parts \subseteq DOMAIN Rank /\ v.begin \in Seq(Range(v.begin))
  BY <1>1, SyntaxAssumption
<1>3. v.lines \cup {given.line : given \in Range(v.begin)} \subseteq Lines
  BY <1>1 DEF Lines
<1>4. \A i \in 1..Len(v.begin) : v.begin[i] \in Range(v.begin)
  BY <1>2
<1> QED
  BY <1>2, <1>3, <1>4

\* Where the next line may stand.
LEMMA PlacesOfNext ==
  ASSUME SyntaxTypeOK, Nested, NEW place \in Places
  PROVE  place.parent \in 0..Len(program) /\ place.part \in DOMAIN Rank
<1>1. CASE place = [parent |-> 0, part |-> "body"]
  BY <1>1, StatementsAreNumbers DEF Rank
<1>2. CASE place # [parent |-> 0, part |-> "body"]
  <2>1. PICK n, p : /\ place = [parent |-> n, part |-> p]
                    /\ Len(program) # 0 /\ n \in {Len(program)} \cup Around(Len(program))
                    /\ p \in Vocabularies[author].parts
    BY <1>2 DEF Places
  <2>2. Len(program) \in Statements
    BY <2>1, StatementsAreNumbers
  <2>3. Around(Len(program)) \subseteq 0..(Len(program) - 1)
    BY <2>2 DEF Nested, NestedAt
  <2>4. n \in 0..Len(program)
    BY <2>1, <2>2, <2>3, StatementsAreNumbers
  <2> QED
    BY <2>1, <2>4, VocabularyOf
<1> QED
  BY <1>1, <1>2

\* A step adds one line to the end of the program, somewhere in what is there.
LEMMA NextAdds ==
  ASSUME SyntaxTypeOK, Nested, Next
  PROVE  \E new \in Statement :
           /\ program' = Append(program, new) /\ author' = author /\ Compiles'
           /\ new.parent \in 0..Len(program)
           /\ new.around = {new.parent} \cup (IF new.parent = 0 THEN {} ELSE Around(new.parent))
<1>1. PICK line \in Lines, place \in Places : Write(line, place)
  <2>1. CASE Follow
    <3>1. Len(program) + 1 \in 1..Len(Vocabularies[author].begin)
      BY <2>1, StatementsAreNumbers, VocabularyOf DEF Follow
    <3> QED
      BY <2>1, <3>1, VocabularyOf DEF Follow
  <2>2. CASE GoOn
    BY <2>2, VocabularyOf DEF GoOn
  <2> QED
    BY <2>1, <2>2 DEF Next
<1>2. place.parent \in 0..Len(program) /\ place.part \in DOMAIN Rank
  BY PlacesOfNext
<1> DEFINE around == {place.parent} \cup (IF place.parent = 0 THEN {} ELSE Around(place.parent))
           new == [line |-> line, parent |-> place.parent, part |-> place.part, around |-> around]
<1>3. around \subseteq Nat
  <2>1. place.parent # 0 => place.parent \in Statements
    BY <1>2, StatementsAreNumbers
  <2> QED
    BY <1>2, <2>1, StatementsAreNumbers
<1>4. new \in Statement
  <2> HIDE DEF around
  <2> QED
    BY <1>2, <1>3, StatementsAreNumbers DEF Statement
<1>5. around = IF place.parent = 0 THEN {0} ELSE {place.parent} \cup Around(place.parent)
  OBVIOUS
<1>6. program' = Append(program, new) /\ author' = author /\ Compiles'
  <2> HIDE DEF around
  <2> QED
    BY <1>1, <1>5 DEF Write
<1> QED
  BY <1>2, <1>4, <1>6

LEMMA InitSyntaxInv == Init => SyntaxInv
BY DEF Init, SyntaxInv, SyntaxTypeOK, Nested, Compiles, Statements

LEMMA NextSyntaxInv == SyntaxInv /\ [Next]_<<author, program>> => SyntaxInv'
<1>1. ASSUME SyntaxInv, UNCHANGED <<author, program>> PROVE SyntaxInv'
  <2>1. SyntaxTypeOK' /\ Nested'
    BY <1>1 DEF SyntaxInv, SyntaxTypeOK, Nested, NestedAt, Statements, Around
  <2>2. Compiles'
    BY <1>1 DEF SyntaxInv, Compiles, Statements, Around, Kind, Block, Body, Walk, LoopsAround,
                FunctionsAround
  <2> QED
    BY <2>1, <2>2 DEF SyntaxInv
<1>2. ASSUME SyntaxInv, Next PROVE SyntaxInv'
  <2>1. PICK new \in Statement :
          /\ program' = Append(program, new) /\ author' = author /\ Compiles'
          /\ new.parent \in 0..Len(program)
          /\ new.around = {new.parent} \cup (IF new.parent = 0 THEN {} ELSE Around(new.parent))
    BY <1>2, NextAdds DEF SyntaxInv
  <2>2. SyntaxTypeOK'
    BY <1>2, <2>1 DEF SyntaxInv, SyntaxTypeOK
  <2>3. PICK last \in Nat :
          /\ last = Len(program) + 1 /\ last \notin Statements
          /\ Statements' = Statements \cup {last}
          /\ \A n \in Statements : program'[n] = program[n] /\ n < last
          /\ program'[last] = new
    BY <1>2, <2>1, StatementsAreNumbers DEF SyntaxInv, SyntaxTypeOK, Statements
  <2>4. /\ \A n \in Statements : NestedAt(n) /\ (Around(n))' = Around(n)
        /\ (Around(last))' = new.around
    BY <1>2, <2>3 DEF SyntaxInv, Nested, Around
  <2>5. ASSUME NEW n \in Statements PROVE NestedAt(n)'
    <3>1. NestedAt(n) /\ program'[n] = program[n] /\ (Around(n))' = Around(n)
      BY <2>3, <2>4
    <3>2. \A a \in (Around(n) \cup {program[n].parent}) \ {0} : a \in Statements
      BY <1>2, <3>1, StatementsAreNumbers DEF SyntaxInv, NestedAt
    <3>3. \A a \in (Around(n) \cup {program[n].parent}) \ {0} : (Around(a))' = Around(a)
      BY <3>2, <2>4
    <3>4. \A a, b \in Around(n) : a < b => b # 0
      BY <1>2, <3>1, StatementsAreNumbers DEF SyntaxInv, NestedAt
    <3>5. /\ program'[n].parent \in 0..(n - 1)
          /\ (Around(n))' \subseteq 0..(n - 1)
          /\ (Around(n))' = {program'[n].parent} \cup
                              (IF program'[n].parent = 0 THEN {} ELSE (Around(program[n].parent))')
      <4>1. program[n].parent # 0 => (Around(program[n].parent))' = Around(program[n].parent)
        BY <3>1, <3>3 DEF Around
      <4> QED
        BY <3>1, <4>1 DEF NestedAt
    <3>6. \A a \in (Around(n))' \ {0} : (Around(a))' \subseteq (Around(n))'
      BY <3>1, <3>3 DEF NestedAt
    <3>7. \A a, b \in (Around(n))' : a < b => a \in (Around(b))'
      <4> SUFFICES ASSUME NEW a \in Around(n), NEW b \in Around(n), a < b
                   PROVE  a \in (Around(b))'
        BY <3>1
      <4>1. a \in Around(b)
        BY <3>1 DEF NestedAt
      <4>2. b # 0
        BY <3>4
      <4>3. (Around(b))' = Around(b)
        BY <3>3, <4>2
      <4> QED
        BY <4>1, <4>3
    <3> QED
      BY <3>5, <3>6, <3>7 DEF NestedAt
  <2>6. NestedAt(last)'
    <3> DEFINE p == new.parent
    <3>1. p \in Nat /\ p < last /\ (p # 0 => p \in Statements)
      BY <1>2, <2>1, <2>3, StatementsAreNumbers DEF SyntaxInv
    <3>2. CASE p = 0
      <4>1. (Around(last))' = {0}
        BY <2>1, <2>4, <3>2
      <4> QED
        BY <2>3, <3>1, <3>2, <4>1 DEF NestedAt
    <3>3. CASE p # 0
      <4>1. p \in Statements /\ NestedAt(p) /\ (Around(p))' = Around(p)
        BY <2>4, <3>1, <3>3
      <4>2. (Around(last))' = {p} \cup Around(p)
        BY <2>1, <2>4, <3>3
      <4>3. \A a \in Around(p) : a \in Nat /\ a < p /\ (a # 0 => a \in Statements)
        BY <1>2, <4>1, StatementsAreNumbers DEF SyntaxInv, NestedAt
      <4>4. \A a \in Around(p) \ {0} : (Around(a))' = Around(a) /\ Around(a) \subseteq Around(p)
        BY <4>1, <4>3, <2>4 DEF NestedAt
      <4>5. (Around(last))' \subseteq 0..(last - 1)
        BY <3>1, <4>2, <4>3
      <4>6. \A a \in (Around(last))' \ {0} : (Around(a))' \subseteq (Around(last))'
        BY <4>1, <4>2, <4>4
      <4>7. ASSUME NEW a \in (Around(last))', NEW b \in (Around(last))', a < b
            PROVE  a \in (Around(b))'
        <5>1. a \in Around(p)
          BY <4>2, <4>3, <4>7, <3>1
        <5>2. CASE b = p
          BY <4>1, <5>1, <5>2
        <5>3. CASE b \in Around(p)
          <6>1. a \in Around(b)
            BY <4>1, <5>1, <5>3, <4>7 DEF NestedAt
          <6>2. b # 0
            BY <4>3, <5>1, <4>7
          <6> QED
            BY <4>4, <5>3, <6>1, <6>2
        <5> QED
          BY <4>2, <5>2, <5>3
      <4> QED
        BY <2>3, <3>1, <3>3, <4>1, <4>2, <4>5, <4>6, <4>7 DEF NestedAt
    <3> QED
      BY <3>2, <3>3
  <2>7. Nested'
    BY <2>3, <2>5, <2>6 DEF Nested
  <2> QED
    BY <2>1, <2>2, <2>7 DEF SyntaxInv
<1> QED
  BY <1>1, <1>2

LEMMA AlwaysSyntaxInv == Spec => []SyntaxInv
BY InitSyntaxInv, NextSyntaxInv, PTL DEF Spec

-----------------------------------------------------------------------------
LEMMA BodyIsBelow ==
  ASSUME NEW n
  PROVE  Body(n) \subseteq Statements
BY DEF Body, Walk, Block

LEMMA BodyIsWalked ==
  ASSUME SyntaxInv, NEW n \in Statements
  PROVE  Body(n) \subseteq Walk(n)
<1> SUFFICES ASSUME NEW x \in Body(n) PROVE x \in Walk(n)
  OBVIOUS
<1>1. PICK b \in Statements : /\ program[b].parent = n
                             /\ x \in Statements /\ (x = b \/ b \in Around(x))
  BY DEF Body, Walk, Block
<1>2. \A m \in Statements : NestedAt(m) /\ m # 0
  BY StatementsAreNumbers DEF SyntaxInv, Nested
<1>3. n \in Around(b)
  BY <1>1, <1>2 DEF NestedAt
<1>4. n \in Around(x)
  BY <1>1, <1>2, <1>3 DEF NestedAt
<1> QED
  BY <1>1, <1>4 DEF Walk

\* Between a statement in the body of n and n itself there are only statements
\* in the body of n; all others around it come before n, or are n.
LEMMA InsideOrBefore ==
  ASSUME SyntaxInv, NEW n \in Statements, NEW x \in Body(n), NEW a \in Around(x)
  PROVE  a \in Body(n) \/ a <= n
<1>1. PICK c \in Statements : /\ program[c].parent = n /\ program[c].part = "body"
                             /\ x \in Statements /\ (x = c \/ c \in Around(x))
  BY DEF Body, Walk, Block
<1>2. \A m \in Statements : NestedAt(m) /\ m \in Nat /\ m # 0 /\ Around(m) \subseteq Nat
  BY StatementsAreNumbers DEF SyntaxInv, Nested
<1>3. Around(c) = {n} \cup Around(n) /\ Around(n) \subseteq 0..(n - 1)
  BY <1>1, <1>2 DEF NestedAt
<1>4. \A b \in Around(c) : b <= n
  BY <1>2, <1>3
<1>5. CASE x = c
  BY <1>4, <1>5
<1>6. CASE c \in Around(x)
  <2>1. a \in Nat /\ c \in Nat
    BY <1>1, <1>2
  <2>2. CASE a = c
    BY <1>1, <2>2 DEF Body, Walk, Block
  <2>3. CASE a < c
    <3>1. a \in Around(c)
      BY <1>1, <1>2, <1>6, <2>3 DEF NestedAt
    <3> QED
      BY <1>4, <3>1
  <2>4. CASE c < a
    <3>1. c \in Around(a)
      BY <1>1, <1>2, <1>6, <2>4 DEF NestedAt
    <3>2. a \in Statements
      <4>1. a \in 0..(x - 1)
        BY <1>1, <1>2 DEF NestedAt
      <4> QED
        BY <1>1, <1>2, <2>1, <2>4, <4>1, StatementsAreNumbers DEF SyntaxInv
    <3> QED
      BY <1>1, <3>1, <3>2 DEF Body, Walk, Block
  <2> QED
    BY <2>1, <2>2, <2>3, <2>4
<1> QED
  BY <1>1, <1>5, <1>6

\* What stands below a statement in the body of n is in the body of n, and n is
\* around it.
LEMMA BodyIsClosed ==
  ASSUME SyntaxInv, NEW n \in Statements, NEW c \in Body(n), NEW x \in Walk(c)
  PROVE  x \in Body(n) /\ n \in Around(x)
<1>1. PICK b \in Statements : /\ program[b].parent = n /\ program[b].part = "body"
                             /\ c \in Statements /\ (c = b \/ b \in Around(c))
  BY DEF Body, Walk, Block
<1>2. \A m \in Statements : NestedAt(m) /\ m # 0
  BY StatementsAreNumbers DEF SyntaxInv, Nested
<1>3. n \in Around(b)
  BY <1>1, <1>2 DEF NestedAt
<1>4. n \in Around(c)
  BY <1>1, <1>2, <1>3 DEF NestedAt
<1>5. x \in Statements /\ (x = c \/ c \in Around(x))
  BY <1>1 DEF Walk
<1>6. n \in Around(x) /\ (x = b \/ b \in Around(x))
  BY <1>1, <1>2, <1>4, <1>5 DEF NestedAt
<1> QED
  BY <1>1, <1>5, <1>6 DEF Body, Walk, Block

\* An agent that AR001 reports has no exit of its own in the body of a
\* comparison, whatever else the program holds (loops.py:22-26).
THEOREM CanonicalLoopsAreSpared == Spec => []FlaggedHasNoGuardedExit
<1>1. SyntaxInv => FlaggedHasNoGuardedExit
  <2> SUFFICES ASSUME SyntaxInv, NEW n \in Statements, GuardedExit(n)
               PROVE  HasVisibleStepBound(Body(n))
    BY DEF FlaggedHasNoGuardedExit, DetectAgents
  <2>1. PICK c \in Checks(n) : \E x \in Body(c) : Leaves(x, n)
    BY DEF GuardedExit
  <2>2. PICK x \in Body(c) : Leaves(x, n)
    BY <2>1
  <2>3. c \in Body(n) /\ Kind(c) = "check" /\ c \in Statements
    BY BodyIsBelow DEF Checks
  <2>4. Kind(x) \in {"break", "return"}
    BY <2>2 DEF Leaves
  <2>5. x \in Walk(c)
    BY <2>2, <2>3, BodyIsWalked
  <2> QED
    BY <2>3, <2>4, <2>5 DEF HasVisibleStepBound
<1> QED
  BY AlwaysSyntaxInv, <1>1, PTL

\* A bounded agent with no loop or function inside it, and no exit in the else
\* of a comparison, has a guarded exit: the search through all below the if
\* errs for nested code and for an else only (loops.py:59-72).
THEOREM FlatBoundsAreReal == Spec => []OnlyNestingOrElseInventsBounds
<1>1. SyntaxInv => OnlyNestingOrElseInventsBounds
  <2> SUFFICES ASSUME SyntaxInv, NEW n \in Statements, IsAgent(n), HasVisibleStepBound(Body(n)),
                      \A m \in Body(n) : Kind(m) \notin {"while", "for", "def"},
                      \A c \in Checks(n) : Exits(Walk(c)) \subseteq Body(c)
               PROVE  GuardedExit(n)
    BY DEF OnlyNestingOrElseInventsBounds, DetectAgents
  <2>1. PICK c \in Body(n) : /\ Kind(c) = "check"
                            /\ \E x \in Walk(c) : Kind(x) \in {"break", "return"}
    BY DEF HasVisibleStepBound
  <2>2. PICK x \in Walk(c) : Kind(x) \in {"break", "return"}
    BY <2>1
  <2>3. x \in Body(n) /\ n \in Around(x) /\ c \in Around(x) /\ x \in Statements
    BY <2>1, <2>2, BodyIsClosed, BodyIsBelow DEF Walk
  <2>4. n \in Nat /\ n # 0 /\ Around(x) \subseteq Nat
    BY <2>3, StatementsAreNumbers DEF SyntaxInv
  <2>5. \A a \in LoopsAround(x) \cup FunctionsAround(x) : a <= n
    BY <2>3, InsideOrBefore DEF LoopsAround, FunctionsAround
  <2>6. ASSUME Kind(x) = "return" PROVE Leaves(x, n)
    BY <2>3, <2>5, <2>6 DEF Leaves
  <2>7. ASSUME Kind(x) = "break" PROVE Leaves(x, n)
    <3>1. Kind(n) = "while"
      <4>1. Kind(n) # "def"
        <5> SUFFICES ASSUME Kind(n) = "def" PROVE FALSE
          OBVIOUS
        <5>1. n \in FunctionsAround(x)
          BY <2>3, <2>4 DEF FunctionsAround
        <5>2. PICK a \in LoopsAround(x) : n < a
          BY <2>3, <2>7, <5>1 DEF SyntaxInv, Compiles
        <5>3. a <= n /\ a \in Nat
          BY <2>4, <2>5, <5>2 DEF LoopsAround
        <5> QED
          BY <2>4, <5>2, <5>3
      <4> QED
        BY <4>1 DEF IsAgent, IsUnconditionalWhile
    <3>2. n \in LoopsAround(x)
      BY <2>3, <2>4, <3>1 DEF LoopsAround
    <3> QED
      BY <2>5, <2>7, <3>2 DEF Leaves
  <2>8. Leaves(x, n)
    BY <2>2, <2>6, <2>7
  <2>9. c \in Checks(n) /\ x \in Body(c)
    BY <2>1, <2>2 DEF Checks, Exits
  <2> QED
    BY <2>8, <2>9 DEF GuardedExit
<1> QED
  BY AlwaysSyntaxInv, <1>1, PTL
-----------------------------------------------------------------------------
\* What a line says is made of well-formed expressions.
LEMMA ExpressionsAreSound ==
  ASSUME SyntaxTypeOK, NEW n \in Statements
  PROVE  LET exprs == Subexpressions(Range(Exprs(n)))
         IN /\ Range(Exprs(n)) \subseteq exprs
            /\ \A e \in exprs : e.form = "int" => e.value \in Nat
            /\ \A c \in exprs :
                 c.form = "call" =>
                   /\ c.args \in Seq(exprs)
                   /\ \A k \in Range(c.keywords) : k.value \in exprs
                   /\ \A j, k \in Range(c.keywords) : j.arg = k.arg => j = k \/ j.arg = "**"
<1>1. program[n].line \in Lines
  BY StatementsAreNumbers
<1>2. Range(Exprs(n)) \subseteq Subexpressions(Range(Exprs(n)))
  BY DEF Subexpressions
<1>3. \A c \in Subexpressions(Range(Exprs(n))) : c.form = "call" => c \in CallsOf(Exprs(n))
  BY DEF CallsOf
<1> QED
  BY <1>1, <1>2, <1>3, SyntaxAssumption DEF Exprs

LEMMA KeywordValue ==
  ASSUME NEW call, NEW arg \in KeywordNames(call)
  PROVE  \E k \in Range(call.keywords) : k.arg = arg /\ ValueOf(call, arg) = k.value
BY DEF KeywordNames, ValueOf

LEMMA LiteralsAreNumbers ==
  ASSUME SyntaxTypeOK, NEW n \in Statements, NEW call \in Subexpressions(Range(Exprs(n))),
         call.form = "call", NEW arg \in KeywordNames(call)
  PROVE  LET e == ValueOf(call, arg)
         IN /\ e.form = "int" => e.value \in Nat
            /\ IsStopAfterAttempt(e) /\ e.args[1].form = "int" => e.args[1].value \in Nat
<1> DEFINE exprs == Subexpressions(Range(Exprs(n)))
           e == ValueOf(call, arg)
<1>1. e \in exprs
  BY KeywordValue, ExpressionsAreSound
<1>2. e.form = "int" => e.value \in Nat
  BY <1>1, ExpressionsAreSound
<1>3. ASSUME IsStopAfterAttempt(e), e.args[1].form = "int" PROVE e.args[1].value \in Nat
  <2>1. e.form = "call" /\ e.args # <<>>
    BY <1>3 DEF IsStopAfterAttempt
  <2>2. e.args \in Seq(exprs)
    BY <1>1, <2>1, ExpressionsAreSound
  <2>3. e.args[1] \in exprs
    <3> HIDE DEF e, exprs
    <3> QED
      BY <2>1, <2>2
  <2> QED
    BY <1>3, <2>3, ExpressionsAreSound
<1> QED
  BY <1>2, <1>3

LEMMA RangesAreNumbers ==
  ASSUME SyntaxTypeOK, NEW n \in Statements, Kind(n) = "for",
         Exprs(n)[1].form = "call", Exprs(n)[1].args # <<>>, Exprs(n)[1].args[1].form = "int"
  PROVE  Exprs(n)[1].args[1].value \in Nat
<1> DEFINE exprs == Subexpressions(Range(Exprs(n)))
           iter == Exprs(n)[1]
<1>1. iter \in exprs
  <2>1. program[n].line \in Lines
    BY StatementsAreNumbers
  <2>2. 1 \in DOMAIN Exprs(n)
    BY <2>1, SyntaxAssumption DEF Exprs, Kind
  <2>3. iter \in Range(Exprs(n))
    BY <2>2 DEF Range
  <2> QED
    BY <2>3, ExpressionsAreSound
<1>2. iter.args \in Seq(exprs)
  BY <1>1, ExpressionsAreSound
<1>3. iter.args[1] \in exprs
  <2> HIDE DEF iter, exprs
  <2> QED
    BY <1>2 DEF iter
<1> QED
  BY <1>3, ExpressionsAreSound

\* Where nothing is said, any limit may hold, and none has to.
LEMMA AnyLimitIsOpen == \A limits : AnyLimit \subseteq limits => TrueOf(Unknown, limits)
<1>1. PICK n : n \in Numbers
  BY NumbersAssumption
<1>2. ForEver \in AnyLimit /\ AtMost(n) \in AnyLimit /\ ForEver # AtMost(n)
  BY <1>1 DEF AnyLimit, ForEver, AtMost
<1>3. Unknown # Unbounded
  BY DEF Unknown, Unbounded
<1> QED
  BY <1>2, <1>3 DEF TrueOf

LEMMA UnboundedIsTrue == TrueOf(Unbounded, {ForEver})
BY DEF TrueOf, Unbounded, Unknown

LEMMA NoLimitIsOpen == TrueOf(Unknown, {})
BY DEF TrueOf, Unknown, Unbounded

\* An exact limit that other circumstances can only bring forward.
LEMMA BoundedIsTrue ==
  ASSUME NEW v \in Nat, NEW limits, AtMost(v) \in limits,
         \A l \in limits : \E m \in Nat : l = AtMost(m) /\ m <= v
  PROVE  TrueOf(Bounded(v), limits)
<1>1. Bounded(v).maxAttempts = AtMost(v) /\ Bounded(v) # Unbounded /\ Bounded(v) # Unknown
  BY DEF Bounded, Unbounded, Unknown, AtMost
<1>2. ASSUME NEW l \in limits PROVE \E n \in l : \A m \in AtMost(v) : n <= m
  <2>1. PICK m \in Nat : l = AtMost(m) /\ m <= v
    OBVIOUS
  <2> QED
    BY <2>1 DEF AtMost
<1> QED
  BY <1>1, <1>2 DEF TrueOf

LEMMA TenacityIsTrue ==
  ASSUME SyntaxTypeOK, NEW n \in Statements, NEW call \in Decorators(n), ~IsNone(call, "stop")
  PROVE  TrueOf(TenacityLimit(call), TenacityLimits(call))
<1> DEFINE stop == ValueOf(call, "stop")
           given == "stop" \in KeywordNames(call)
<1>1. call \in Subexpressions(Range(Exprs(n))) /\ call.form = "call"
  BY ExpressionsAreSound DEF Decorators
<1>2. CASE ~given
  <2>1. TenacityLimit(call) = Unbounded /\ TenacityLimits(call) = {ForEver}
    BY <1>2 DEF TenacityLimit, TenacityLimits
  <2> QED
    BY <2>1, UnboundedIsTrue
<1>3. CASE given /\ IsStopAfterAttempt(stop) /\ stop.args[1].form = "int"
  <2> DEFINE v == stop.args[1].value
  <2>1. v \in Nat
    BY <1>1, <1>3, LiteralsAreNumbers
  <2>2. TenacityLimit(call) = Bounded(v)
    BY <1>3 DEF TenacityLimit, IsLiteralInt
  <2>3. TenacityLimits(call) = Possible(stop.args[1])
    BY <1>3 DEF TenacityLimits
  <2>4. Possible(stop.args[1]) = {AtMost(v)}
    BY <1>3 DEF Possible
  <2> QED
    BY <2>1, <2>2, <2>3, <2>4, BoundedIsTrue
<1>4. CASE given /\ IsStopAfterAttempt(stop) /\ stop.args[1].form # "int"
  <2>1. TenacityLimit(call) = Unknown
    BY <1>4 DEF TenacityLimit, IsLiteralInt
  <2>2. TenacityLimits(call) = Possible(stop.args[1])
    BY <1>4 DEF TenacityLimits
  <2>3. Possible(stop.args[1]) \in {{}, AnyLimit}
    BY <1>4 DEF Possible
  <2> QED
    BY <2>1, <2>2, <2>3, NoLimitIsOpen, AnyLimitIsOpen
<1>5. CASE given /\ ~IsStopAfterAttempt(stop)
  <2>1. TenacityLimit(call) = Unknown
    BY <1>5 DEF TenacityLimit
  <2>2. TenacityLimits(call) = AnyLimit
    BY <1>5 DEF TenacityLimits
  <2> QED
    BY <2>1, <2>2, AnyLimitIsOpen
<1> QED
  BY <1>2, <1>3, <1>4, <1>5

LEMMA StaminaIsTrue ==
  ASSUME SyntaxTypeOK, NEW n \in Statements, NEW call \in Decorators(n),
         ~IsNone(call, "attempts") \/ IsNone(call, "timeout"), StaminaLimit(call) # Bounded(0)
  PROVE  TrueOf(StaminaLimit(call), StaminaLimits(call))
<1> DEFINE attempts == ValueOf(call, "attempts")
           given == "attempts" \in KeywordNames(call)
           timed == ~IsNone(call, "timeout")
<1>1. call \in Subexpressions(Range(Exprs(n))) /\ call.form = "call"
  BY ExpressionsAreSound DEF Decorators
<1>2. CASE given /\ attempts.form = "none"
  <2>1. StaminaLimit(call) = Unbounded
    <3>1. attempts.form # "int"
      BY <1>2
    <3> QED
      BY <1>2, <3>1 DEF StaminaLimit, IsLiteralInt
  <2>2. IsNone(call, "attempts") /\ IsNone(call, "timeout")
    BY <1>2 DEF IsNone
  <2>3. StaminaLimits(call) = {ForEver}
    BY <1>2, <2>2 DEF StaminaLimits
  <2> QED
    BY <2>1, <2>3, UnboundedIsTrue
<1>3. CASE given /\ attempts.form = "int"
  <2> DEFINE v == attempts.value
  <2>1. v \in Nat
    BY <1>1, <1>3, LiteralsAreNumbers
  <2>2. StaminaLimit(call) = Bounded(v) /\ ~IsNone(call, "attempts")
    BY <1>3 DEF StaminaLimit, IsLiteralInt, IsNone
  <2>3. Possible(attempts) = {AtMost(v)}
    BY <1>3 DEF Possible
  <2>4. StaminaLimits(call) = {AtMost(v)} \cup (IF timed THEN Sooner(AtMost(v)) ELSE {})
    BY <1>3, <2>2, <2>3 DEF StaminaLimits
  <2>5. AtMost(v) # ForEver /\ Sooner(AtMost(v)) = {AtMost(m) : m \in 1..v}
    BY DEF Sooner, AtMost, ForEver
  <2>6. \A l \in StaminaLimits(call) : \E m \in Nat : l = AtMost(m) /\ m <= v
    <3>1. \A l \in StaminaLimits(call) : l = AtMost(v) \/ \E m \in 1..v : l = AtMost(m)
      BY <2>4, <2>5
    <3>2. \A m \in 1..v : m \in Nat /\ m <= v
      BY <2>1
    <3> HIDE DEF v
    <3> QED
      BY <2>1, <3>1, <3>2
  <2> QED
    BY <2>1, <2>2, <2>4, <2>6, BoundedIsTrue
<1>4. CASE given /\ attempts.form \notin {"none", "int"}
  <2>1. StaminaLimit(call) = Unknown /\ ~IsNone(call, "attempts")
    BY <1>4 DEF StaminaLimit, IsLiteralInt, IsNone
  <2>2. Possible(attempts) \in {{}, AnyLimit}
    BY <1>4 DEF Possible
  <2>3. CASE Possible(attempts) = {}
    <3>1. StaminaLimits(call) = {}
      BY <1>4, <2>1, <2>3 DEF StaminaLimits
    <3> QED
      BY <2>1, <3>1, NoLimitIsOpen
  <2>4. CASE Possible(attempts) = AnyLimit
    <3>1. AnyLimit \subseteq StaminaLimits(call)
      BY <1>4, <2>1, <2>4 DEF StaminaLimits
    <3> QED
      BY <2>1, <3>1, AnyLimitIsOpen
  <2> QED
    BY <2>2, <2>3, <2>4
<1>5. CASE ~given
  <2>1. StaminaLimit(call) = Unknown
    BY <1>5 DEF StaminaLimit
  <2>2. AnyLimit \subseteq StaminaLimits(call)
    BY <1>5 DEF StaminaLimits, IsNone
  <2> QED
    BY <2>1, <2>2, AnyLimitIsOpen
<1> QED
  BY <1>2, <1>3, <1>4, <1>5

\* What a retry decorator is recorded as is true of the library its keywords
\* tell it to be from, whatever its arguments turn out to be, and unknown only
\* where they leave the limit open; and the bound of a range loop is its length
\* (retries.py:8-20).
THEOREM BoundsAreTrue == Spec => []RecordedBoundsAreTrue
<1>1. ASSUME SyntaxTypeOK, NEW n \in Statements, NEW call \in Decorators(n),
             NEW library \in {"tenacity", "stamina"}, library \in Libraries(call),
             ~Hidden(call), ~Disputed(call, library), NEW policy \in DecoratorPolicies(n, call)
      PROVE  /\ policy.source = library
             /\ policy.limit = Bounded(0) \/ TrueOf(policy.limit, Limits(call, library))
  <2> DEFINE names == KeywordNames(call)
  <2>1. names \subseteq IF library = "tenacity" THEN {"stop", "wait", "reraise"}
                                               ELSE {"attempts", "timeout", "on"}
    BY <1>1 DEF Libraries, Hidden
  <2>2. CASE IsTenacity(call)
    <3>1. library = "tenacity"
      BY <2>1, <2>2 DEF IsTenacity
    <3>2. policy = RetryPolicy(n, "tenacity", TenacityLimit(call))
      BY <2>2 DEF DecoratorPolicies
    <3>3. ~IsNone(call, "stop")
      BY <1>1, <3>1 DEF Disputed
    <3> QED
      BY <1>1, <3>1, <3>2, <3>3, TenacityIsTrue DEF RetryPolicy, Limits
  <2>3. CASE ~IsTenacity(call)
    <3>1. IsStamina(call) /\ policy = RetryPolicy(n, "stamina", StaminaLimit(call))
      BY <2>3 DEF DecoratorPolicies
    <3>2. library = "stamina"
      BY <2>1, <3>1 DEF IsStamina
    <3>3. ~IsNone(call, "attempts") \/ IsNone(call, "timeout")
      BY <1>1, <3>2 DEF Disputed
    <3> QED
      BY <1>1, <3>1, <3>2, <3>3, StaminaIsTrue DEF RetryPolicy, Limits
  <2> QED
    BY <2>2, <2>3
<1>2. ASSUME SyntaxTypeOK, NEW n \in Statements, NEW policy \in ManualPolicies(n),
             Kind(n) = "for"
      PROVE  TrueOf(policy.limit, Possible(Exprs(n)[1].args[1]))
  <2> DEFINE bound == Exprs(n)[1].args[1]
  <2>1. IsRangeLoop(n)
    BY <1>2 DEF ManualPolicies
  <2>2. policy = RetryPolicy(n, "manual-loop", Bounded(bound.value))
    BY <1>2, <2>1 DEF ManualPolicies
  <2>3. policy.limit = Bounded(bound.value)
    BY <2>2 DEF RetryPolicy
  <2>4. Possible(bound) = {AtMost(bound.value)}
    BY <2>1 DEF IsRangeLoop, IsLiteralInt, Possible
  <2>5. bound.value \in Nat
    BY <1>2, <2>1, RangesAreNumbers DEF IsRangeLoop, IsLiteralInt
  <2>6. TrueOf(Bounded(bound.value), Possible(bound))
    <3> HIDE DEF bound
    <3> QED
      BY <2>4, <2>5, BoundedIsTrue
  <2> QED
    BY <2>3, <2>6
<1>3. SyntaxTypeOK => RecordedBoundsAreTrue
  BY <1>1, <1>2 DEF RecordedBoundsAreTrue
<1> QED
  BY AlwaysSyntaxInv, <1>3, PTL DEF SyntaxInv

\* What is recorded of the timeout of a call is what the call says: present if
\* it is given, its seconds exact up to the precision of a float, and left open
\* only for what is no literal number (calls.py:16-45).
THEOREM TimeoutsAreExact == Spec => []TimeoutsAreTrue
<1>1. ASSUME SyntaxTypeOK, ~DetectionRaises, NEW n \in Statements, NEW call \in Candidates(n),
             ~Hidden(call)
      PROVE  LET given == {k.value : k \in {x \in Range(call.keywords) : x.arg = "timeout"}}
                 found == ExtractTimeout(call)
             IN /\ found.present <=> given # {}
                /\ \A e \in given :
                     /\ e.form \in {"int", "float"} <=> found.seconds # {}
                     /\ \A s \in found.seconds :
                          s = e.value \/ (e.form = "int" /\ e.value > ExactInts)
  <2> DEFINE given == {k.value : k \in {x \in Range(call.keywords) : x.arg = "timeout"}}
             timeout == ValueOf(call, "timeout")
  <2>1. call \in Subexpressions(Range(Exprs(n))) /\ call.form = "call"
    BY <1>1 DEF Candidates, CallsIn, CallsOf
  <2>2. CASE "timeout" \notin KeywordNames(call)
    <3>1. given = {}
      BY <2>2 DEF KeywordNames
    <3>2. ExtractTimeout(call).present = FALSE
      BY <2>2 DEF ExtractTimeout, TimeoutPolicy
    <3> QED
      BY <3>1, <3>2
  <2>3. CASE "timeout" \in KeywordNames(call)
    <3>1. given = {timeout}
      <4>1. PICK k \in Range(call.keywords) : k.arg = "timeout" /\ timeout = k.value
        BY <2>3, KeywordValue
      <4>2. \A x \in Range(call.keywords) : x.arg = "timeout" => x = k
        BY <1>1, <2>1, <4>1, ExpressionsAreSound
      <4> QED
        BY <4>1, <4>2
    <3>2. ExtractTimeout(call) = TimeoutPolicy(TRUE, ToFloat(timeout))
      BY <2>3 DEF ExtractTimeout
    <3>3. ExtractTimeout(call).present = TRUE /\ ExtractTimeout(call).seconds = ToFloat(timeout)
      BY <3>2 DEF TimeoutPolicy
    <3>4. timeout.form \in {"int", "float"} <=> ToFloat(timeout) # {}
      BY DEF ToFloat
    <3>5. ASSUME NEW s \in ToFloat(timeout)
          PROVE  s = timeout.value \/ (timeout.form = "int" /\ timeout.value > ExactInts)
      <4>1. CASE timeout.form = "int"
        <5>1. timeout.value \in Nat
          BY <1>1, <2>1, <2>3, <4>1, LiteralsAreNumbers
        <5>2. timeout.value \in DOMAIN FloatOf
          BY <1>1, <2>3, <4>1 DEF DetectionRaises, Overflows
        <5>3. s = FloatOf[timeout.value]
          BY <3>5, <4>1 DEF ToFloat
        <5> HIDE DEF timeout
        <5> QED
          BY <4>1, <5>1, <5>2, <5>3, NumbersAssumption
      <4>2. CASE timeout.form # "int"
        BY <3>5, <4>2 DEF ToFloat
      <4> QED
        BY <4>1, <4>2
    <3> HIDE DEF timeout, given
    <3> QED
      BY <3>1, <3>3, <3>4, <3>5 DEF given
  <2> QED
    BY <2>2, <2>3
<1>2. SyntaxTypeOK => TimeoutsAreTrue
  <2> SUFFICES ASSUME SyntaxTypeOK, ~DetectionRaises, NEW found \in DetectToolCalls,
                      ~Hidden(found.call)
               PROVE  LET given == {k.value : k \in {x \in Range(found.call.keywords) : x.arg = "timeout"}}
                          seconds == found.timeout.seconds
                      IN /\ found.timeout.present <=> given # {}
                         /\ \A e \in given :
                              /\ e.form \in {"int", "float"} <=> seconds # {}
                              /\ \A s \in seconds : s = e.value \/ (e.form = "int" /\ e.value > ExactInts)
    BY DEF TimeoutsAreTrue
  <2>1. PICK n \in Statements : \E c \in Candidates(n) : found = ToolCall(n, c, ExtractTimeout(c))
    BY DEF DetectToolCalls
  <2>2. PICK call \in Candidates(n) : found = ToolCall(n, call, ExtractTimeout(call))
    BY <2>1
  <2>3. found.call = call /\ found.timeout = ExtractTimeout(call)
    BY <2>2 DEF ToolCall
  <2> QED
    BY <1>1, <2>3
<1> QED
  BY AlwaysSyntaxInv, <1>2, PTL DEF SyntaxInv

\* A loop without end that a break leaves from inside its one try is recorded
\* as a retry without a bound, whatever the break stands in (retries.py:22-24).
THEOREM UntilSuccessSeen == Spec => []UntilSuccessIsSeen
<1>1. ASSUME SyntaxTypeOK, NEW n \in Statements, IsUnconditionalWhile(n), NEW t \in Statements,
             HandledTries(n) = {t}, NEW x \in Body(t), Kind(x) = "break"
      PROVE  RetryPolicy(n, "manual-loop", Unbounded) \in DetectRetryPolicies
  <2>1. t \in Nat
    BY <1>1, StatementsAreNumbers
  <2>2. FirstTry(n) = t
    <3> DEFINE top(s) == CHOOSE c \in Block(n, "body") : s \in Walk(c)
               depth(s) == Cardinality(Around(s))
               first(s) == \A u \in HandledTries(n) :
                             \/ top(s) < top(u)
                             \/ /\ top(s) = top(u)
                                /\ \/ depth(s) < depth(u)
                                   \/ depth(s) = depth(u) /\ s <= u
    <3>1. FirstTry(n) = CHOOSE s \in HandledTries(n) : first(s)
      BY Zenon DEF FirstTry
    <3>2. first(t)
      <4> HIDE DEF top, depth
      <4> QED
        BY <1>1, <2>1
    <3> HIDE DEF first
    <3> QED
      BY <1>1, <3>1, <3>2
  <2>3. TryBodyHasBreak(FirstTry(n)) /\ HandledTries(n) # {}
    BY <1>1, <2>2 DEF TryBodyHasBreak
  <2>4. ManualPolicies(n) = {RetryPolicy(n, "manual-loop", Unbounded)}
    BY <1>1, <2>3 DEF ManualPolicies, IsUnconditionalWhile, TestIsConstant, IsRangeLoop
  <2> QED
    BY <2>4 DEF DetectRetryPolicies
<1>2. SyntaxTypeOK => UntilSuccessIsSeen
  BY <1>1 DEF UntilSuccessIsSeen
<1> QED
  BY AlwaysSyntaxInv, <1>2, PTL DEF SyntaxInv

\* A loop that retries without a bound and calls anything is an agent as well:
\* loops.py and retries.py, each with its own test of "while True", read the
\* same loops.
THEOREM OneReading == Spec => []DetectorsAgree
<1>1. ASSUME NEW policy \in DetectRetryPolicies, policy.source = "manual-loop", policy.limit = Unbounded,
             ContainsCall(Body(policy.node))
      PROVE  \E agent \in DetectAgents : agent.node = policy.node
  <2>1. PICK n \in Statements :
          policy \in (UNION {DecoratorPolicies(n, call) : call \in Decorators(n)}) \cup ManualPolicies(n)
    BY DEF DetectRetryPolicies
  <2>2. policy \in ManualPolicies(n)
    <3> SUFFICES ASSUME NEW call, policy \in DecoratorPolicies(n, call) PROVE FALSE
      BY <2>1
    <3>1. policy.source \in {"tenacity", "stamina"}
      BY DEF DecoratorPolicies, RetryPolicy
    <3> QED
      BY <1>1, <3>1
  <2>3. policy = RetryPolicy(n, "manual-loop", Unbounded) /\ Kind(n) = "while" /\ TestIsConstant(n)
    <3>1. Bounded(Exprs(n)[1].args[1].value) # Unbounded
      BY DEF Bounded, Unbounded
    <3> QED
      BY <1>1, <2>2, <3>1 DEF ManualPolicies, RetryPolicy
  <2>4. policy.node = n
    BY <2>3 DEF RetryPolicy
  <2>5. IsAgent(n)
    BY <1>1, <2>3, <2>4 DEF IsAgent, IsUnconditionalWhile, TestIsConstant
  <2>6. [node |-> n, bounded |-> HasVisibleStepBound(Body(n))] \in DetectAgents
    BY <2>5 DEF DetectAgents
  <2> QED
    BY <2>4, <2>6
<1>2. DetectorsAgree
  BY <1>1 DEF DetectorsAgree
<1> QED
  BY <1>2, PTL

-----------------------------------------------------------------------------
\* The step that writes statement last.
Writes(last) ==
  /\ last = Len(program)' /\ last \in Nat
  /\ last \notin Statements /\ Statements' = Statements \cup {last}
  /\ \A n \in Statements : program'[n] = program[n] /\ n \in Nat /\ n # 0 /\ n < last

LEMMA NextWrites == SyntaxInv /\ Next => \E last : Writes(last)
<1> SUFFICES ASSUME SyntaxInv, Next PROVE \E last : Writes(last)
  OBVIOUS
<1>1. PICK new \in Statement : program' = Append(program, new)
  BY NextAdds DEF SyntaxInv
<1>2. Writes(Len(program) + 1)
  BY <1>1 DEF Writes, SyntaxInv, SyntaxTypeOK, Statements
<1> QED
  BY <1>2

\* What is written stays, and what is new is at most the last statement.
LEMMA WritingKeeps ==
  ASSUME SyntaxInv, NEW last, Writes(last), NEW n \in Statements
  PROVE  /\ n \in Statements' /\ last \in Statements'
         /\ Kind(n)' = Kind(n) /\ Name(n)' = Name(n) /\ Exprs(n)' = Exprs(n)
         /\ Around(n)' = Around(n) /\ last \notin Around(n)
<1>1. program'[n] = program[n] /\ n \in Statements' /\ last \in Statements'
  BY DEF Writes
<1>2. last \notin Around(n)
  <2>1. Around(n) \subseteq 0..(n - 1) /\ n \in Nat /\ last \in Nat /\ n < last
    BY DEF SyntaxInv, Nested, NestedAt, Writes
  <2> QED
    BY <2>1
<1> QED
  BY <1>1, <1>2 DEF Kind, Name, Exprs, Around

LEMMA WalkGrows ==
  ASSUME SyntaxInv, NEW last, Writes(last), NEW n \in Statements
  PROVE  Walk(n) \subseteq Walk(n)' /\ Walk(n)' \subseteq Walk(n) \cup {last}
<1>1. \A m \in Statements : Around(m)' = Around(m)
  BY WritingKeeps
<1> QED
  BY <1>1 DEF Walk, Writes

LEMMA BlockGrows ==
  ASSUME NEW last, Writes(last), NEW n, NEW part
  PROVE  Block(n, part) \subseteq Block(n, part)' /\ Block(n, part)' \subseteq Block(n, part) \cup {last}
BY DEF Block, Writes

LEMMA BodyGrows ==
  ASSUME SyntaxInv, NEW last, Writes(last), NEW n
  PROVE  Body(n) \subseteq Body(n)' /\ Body(n)' \subseteq Body(n) \cup {last}
<1>1. ASSUME NEW x \in Body(n) PROVE x \in Body(n)'
  <2>1. PICK c \in Block(n, "body") : x \in Walk(c)
    BY DEF Body
  <2>2. c \in Statements /\ c \in Block(n, "body")'
    BY BlockGrows DEF Block
  <2>3. x \in Walk(c)'
    BY <2>1, <2>2, WalkGrows
  <2> QED
    BY <2>2, <2>3 DEF Body
<1>2. ASSUME NEW x \in Body(n)', x # last PROVE x \in Body(n)
  <2>1. PICK c \in Block(n, "body")' : x \in Walk(c)'
    BY DEF Body
  <2>2. x \in Statements
    <3>1. x \in Statements'
      BY <2>1 DEF Walk, Block
    <3> QED
      BY <1>2, <3>1 DEF Writes
  <2>3. c \in Statements
    <3>1. c # last
      BY <1>2, <2>1, <2>2, WritingKeeps DEF Walk
    <3> QED
      BY <2>1, <3>1 DEF Block, Writes
  <2>4. c \in Block(n, "body")
    BY <2>1, <2>3, BlockGrows DEF Writes
  <2>5. x \in Walk(c)
    BY <2>1, <2>2, <2>3, WalkGrows DEF Writes
  <2> QED
    BY <2>4, <2>5 DEF Body
<1> QED
  BY <1>1, <1>2

LEMMA AgentsStay ==
  ASSUME SyntaxInv, NEW last, Writes(last), NEW n \in Statements, IsAgent(n)
  PROVE  /\ IsAgent(n)'
         /\ HasVisibleStepBound(Body(n)) => HasVisibleStepBound(Body(n))'
<1>1. \A m \in Statements : /\ m \in Statements'
                           /\ Kind(m)' = Kind(m) /\ Name(m)' = Name(m) /\ Exprs(m)' = Exprs(m)
  BY WritingKeeps
<1>2. \A m \in Statements : Walk(m) \subseteq Walk(m)'
  BY WalkGrows
<1>3. Body(n) \subseteq Body(n)' /\ Body(n) \subseteq Statements
  BY BodyGrows, BodyIsBelow
<1>4. \A m \in Statements : CallsIn(m)' = CallsIn(m)
  BY <1>1 DEF CallsIn
<1>5. IsAgent(n)'
  <2>1. CASE IsUnconditionalWhile(n) /\ ContainsCall(Body(n))
    <3>1. IsUnconditionalWhile(n)'
      BY <1>1, <2>1 DEF IsUnconditionalWhile
    <3>2. ContainsCall(Body(n))'
      BY <1>3, <1>4, <2>1 DEF ContainsCall
    <3> QED
      BY <3>1, <3>2 DEF IsAgent
  <2>2. CASE Kind(n) = "def" /\ CallsItself(n)
    <3>1. PICK m \in Walk(n) : \E c \in CallsIn(m) : DottedName(c) = <<Name(n)>>
      BY <2>2 DEF CallsItself
    <3>2. m \in Statements
      BY DEF Walk
    <3>3. CallsItself(n)'
      BY <1>1, <1>2, <1>4, <3>1, <3>2 DEF CallsItself
    <3> QED
      BY <1>1, <2>2, <3>3 DEF IsAgent
  <2> QED
    BY <2>1, <2>2 DEF IsAgent
<1>6. ASSUME HasVisibleStepBound(Body(n)) PROVE HasVisibleStepBound(Body(n))'
  <2>1. PICK c \in Body(n) : Kind(c) = "check" /\ \E x \in Walk(c) : Kind(x) \in {"break", "return"}
    BY <1>6 DEF HasVisibleStepBound
  <2>2. PICK x \in Walk(c) : Kind(x) \in {"break", "return"}
    BY <2>1
  <2>3. c \in Statements /\ x \in Statements
    BY <1>3 DEF Walk
  <2>4. c \in Body(n)' /\ Kind(c)' = "check" /\ x \in Walk(c)' /\ Kind(x)' \in {"break", "return"}
    BY <1>1, <1>2, <1>3, <2>1, <2>2, <2>3
  <2> QED
    BY <2>4 DEF HasVisibleStepBound
<1> QED
  BY <1>5, <1>6

\* Code after an exit, or anything else written at the end of a program, takes
\* no agent away and no bound.
THEOREM BoundsStay == Spec => BoundsPersist
<1> DEFINE Kept == \A agent \in DetectAgents :
                     \E later \in DetectAgents' :
                       later.node = agent.node /\ (agent.bounded => later.bounded)
<1>1. ASSUME SyntaxInv, Next PROVE Kept
  <2> SUFFICES ASSUME NEW n \in Statements, IsAgent(n)
               PROVE  \E later \in DetectAgents' :
                        later.node = n /\ (HasVisibleStepBound(Body(n)) => later.bounded)
    BY DEF DetectAgents
  <2>1. PICK last : Writes(last)
    BY <1>1, NextWrites
  <2>2. n \in Statements' /\ IsAgent(n)' /\ (HasVisibleStepBound(Body(n)) => HasVisibleStepBound(Body(n))')
    BY <1>1, <2>1, AgentsStay, WritingKeeps
  <2>3. [node |-> n, bounded |-> HasVisibleStepBound(Body(n))'] \in DetectAgents'
    BY <2>2 DEF DetectAgents
  <2> QED
    BY <2>2, <2>3
<1>2. SyntaxInv /\ [Next]_<<author, program>> => [Kept]_program
  BY <1>1
<1> QED
  BY AlwaysSyntaxInv, <1>2, PTL DEF Spec, BoundsPersist

-----------------------------------------------------------------------------
LEMMA TriesGrow ==
  ASSUME SyntaxInv, NEW last, Writes(last), NEW n \in Statements
  PROVE  HandledTries(n) \subseteq HandledTries(n)'
<1> SUFFICES ASSUME NEW t \in HandledTries(n) PROVE t \in HandledTries(n)'
  OBVIOUS
<1>1. t \in Body(n) /\ t \in Statements /\ Kind(t) = "try"
  BY BodyIsBelow DEF HandledTries
<1>2. t \in Body(n)' /\ Kind(t)' = "try"
  BY <1>1, BodyGrows, WritingKeeps
<1>3. Block(t, "handlers")' # {}
  BY BlockGrows DEF HandledTries
<1> QED
  BY <1>2, <1>3 DEF HandledTries

\* Only an except clause adds a try with handlers to a loop.
LEMMA TriesStay ==
  ASSUME SyntaxInv, SyntaxInv', NEW last, Writes(last), NEW n \in Statements, ~AddsHandlerTo(n)'
  PROVE  HandledTries(n)' = HandledTries(n)
<1> SUFFICES ASSUME NEW t \in HandledTries(n)' PROVE t \in HandledTries(n)
  BY TriesGrow
<1>1. PICK h : h \in Block(t, "handlers")'
  BY DEF HandledTries
<1>2. t \in Body(n)' /\ Kind(t)' = "try" /\ t \in Statements'
  BY DEF HandledTries, Body, Walk, Block
<1>3. h \in Statements' /\ program'[h].parent = t /\ program'[h].part = "handlers"
  BY <1>1 DEF Block
<1>4. Kind(h)' = "handler"
  BY <1>3 DEF SyntaxInv, Compiles
<1>5. t # last
  <2>1. program'[h].parent \in 0..(h - 1) /\ h \in 1..last
    BY <1>3, StatementsAreNumbers DEF SyntaxInv, Nested, NestedAt, Writes
  <2> QED
    BY <1>3, <2>1 DEF Writes
<1>6. t \in Statements /\ t \in Body(n) /\ Kind(t) = "try"
  <2>1. t \in Statements
    BY <1>2, <1>5 DEF Writes
  <2> QED
    BY <1>2, <1>5, <2>1, BodyGrows, WritingKeeps
<1>7. h # last
  <2> SUFFICES ASSUME h = last PROVE FALSE
    OBVIOUS
  <2>1. t \in Walk(t)
    BY DEF Walk
  <2>2. n \in Around(t)
    BY <1>6, <2>1, BodyIsClosed
  <2>3. n \in Around(t)'
    BY <1>6, <2>2, WritingKeeps
  <2>4. NestedAt(h)' /\ t # 0
    BY <1>3, <1>6 DEF SyntaxInv, Nested, Writes
  <2>5. t \in Around(h)'
    BY <1>3, <2>4 DEF NestedAt
  <2>6. n \in Around(last)'
    BY <2>3, <2>4, <2>5 DEF NestedAt
  <2> QED
    BY <1>4, <2>6 DEF AddsHandlerTo, Writes
<1>8. h \in Block(t, "handlers")
  BY <1>1, <1>7, BlockGrows
<1> QED
  BY <1>6, <1>8 DEF HandledTries

\* And then the first of them stays the first.
LEMMA FirstTryStays ==
  ASSUME SyntaxInv, SyntaxInv', NEW last, Writes(last), NEW n \in Statements, ~AddsHandlerTo(n)'
  PROVE  FirstTry(n)' = FirstTry(n)
<1> DEFINE above(t, c) == c \in Block(n, "body") /\ t \in Walk(c)
           top(t) == CHOOSE c \in Block(n, "body") : t \in Walk(c)
           depth(t) == Cardinality(Around(t))
           first(t) == \A u \in HandledTries(n) :
                         \/ top(t) < top(u)
                         \/ top(t) = top(u) /\ (depth(t) < depth(u) \/ (depth(t) = depth(u) /\ t <= u))
<1>1. HandledTries(n)' = HandledTries(n) /\ HandledTries(n) \subseteq Statements
  BY TriesStay, BodyIsBelow DEF HandledTries
<1>2. ASSUME NEW t \in HandledTries(n), NEW c PROVE above(t, c)' <=> above(t, c)
  <2>1. t \in Statements
    BY <1>1
  <2>2. c # last \/ ~above(t, c)'
    BY <2>1, WritingKeeps DEF Walk, Writes
  <2>3. c # last \/ ~above(t, c)
    BY DEF Block, Writes
  <2>4. c \in Block(n, "body")' /\ c # last <=> c \in Block(n, "body") /\ c # last
    BY BlockGrows
  <2>5. c \in Statements => (t \in Walk(c)' <=> t \in Walk(c))
    BY <2>1, WalkGrows DEF Writes
  <2>6. c \in Block(n, "body") => c \in Statements
    BY DEF Block
  <2> QED
    BY <2>2, <2>3, <2>4, <2>5, <2>6
<1>3. ASSUME NEW t \in HandledTries(n) PROVE top(t)' = top(t) /\ depth(t)' = depth(t)
  <2>1. top(t)' = top(t)
    <3>1. top(t) = CHOOSE c : above(t, c)
      BY Zenon
    <3>2. top(t)' = CHOOSE c : above(t, c)'
      BY Zenon
    <3> HIDE DEF above, top
    <3> QED
      BY <1>2, <3>1, <3>2, Zenon
  <2>2. Around(t)' = Around(t)
    BY <1>1, WritingKeeps
  <2> QED
    BY <2>1, <2>2, Zenon
<1>4. ASSUME NEW t \in HandledTries(n) PROVE first(t)' <=> first(t)
  <2> HIDE DEF top, depth
  <2> QED
    BY <1>1, <1>3
<1>5. FirstTry(n) = CHOOSE t \in HandledTries(n) : first(t)
  BY Zenon DEF FirstTry
<1>6. FirstTry(n)' = CHOOSE t \in HandledTries(n)' : first(t)'
  BY Zenon DEF FirstTry
<1> HIDE DEF first
<1> QED
  BY <1>1, <1>4, <1>5, <1>6, Zenon

LEMMA BreaksStay ==
  ASSUME SyntaxInv, NEW last, Writes(last), NEW t, TryBodyHasBreak(t)
  PROVE  TryBodyHasBreak(t)'
<1>1. PICK x \in Body(t) : Kind(x) = "break"
  BY DEF TryBodyHasBreak
<1>2. x \in Body(t)' /\ Kind(x)' = "break"
  BY <1>1, BodyGrows, BodyIsBelow, WritingKeeps
<1> QED
  BY <1>2 DEF TryBodyHasBreak

LEMMA ManualPoliciesStay ==
  ASSUME SyntaxInv, SyntaxInv', NEW last, Writes(last), NEW n \in Statements,
         NEW policy \in ManualPolicies(n)
  PROVE  /\ policy.node = n
         /\ policy \in ManualPolicies(n)' \/ (policy.limit = Unbounded /\ AddsHandlerTo(n)')
<1>1. Kind(n)' = Kind(n) /\ Exprs(n)' = Exprs(n)
  BY WritingKeeps
<1>2. CASE IsRangeLoop(n)
  <2>1. /\ HandledTries(n) # {}
        /\ policy = RetryPolicy(n, "manual-loop", Bounded(Exprs(n)[1].args[1].value))
    BY <1>2 DEF ManualPolicies, IsRangeLoop
  <2>2. IsRangeLoop(n)' /\ Kind(n)' # "while"
    BY <1>1, <1>2 DEF IsRangeLoop
  <2>3. HandledTries(n)' # {}
    BY <2>1, TriesGrow
  <2>4. policy \in ManualPolicies(n)'
    BY <1>1, <2>1, <2>2, <2>3 DEF ManualPolicies
  <2>5. policy.node = n
    BY <2>1 DEF RetryPolicy
  <2> QED
    BY <2>4, <2>5
<1>3. CASE ~IsRangeLoop(n)
  <2>1. /\ Kind(n) = "while" /\ TestIsConstant(n) /\ HandledTries(n) # {}
        /\ TryBodyHasBreak(FirstTry(n))
        /\ policy = RetryPolicy(n, "manual-loop", Unbounded)
    BY <1>3 DEF ManualPolicies
  <2>2. policy.node = n /\ policy.limit = Unbounded
    BY <2>1 DEF RetryPolicy
  <2>3. ASSUME ~AddsHandlerTo(n)' PROVE policy \in ManualPolicies(n)'
    <3>1. FirstTry(n)' = FirstTry(n) /\ HandledTries(n)' = HandledTries(n)
      BY <2>3, FirstTryStays, TriesStay
    <3>2. TryBodyHasBreak(FirstTry(n))'
      <4>1. PICK t : t = FirstTry(n)
        OBVIOUS
      <4>2. TryBodyHasBreak(t)'
        BY <2>1, <4>1, BreaksStay
      <4> QED
        BY <3>1, <4>1, <4>2
    <3>3. ~IsRangeLoop(n)' /\ TestIsConstant(n)' /\ Kind(n)' = "while"
      BY <1>1, <2>1 DEF IsRangeLoop, TestIsConstant
    <3> QED
      BY <2>1, <3>1, <3>2, <3>3 DEF ManualPolicies
  <2> QED
    BY <2>2, <2>3
<1> QED
  BY <1>2, <1>3

\* Writing on takes no retry away: but for an except clause added to an
\* unbounded loop, what retries.py has found it finds again in the longer
\* program (retries.py:150-155).
THEOREM RetriesStay == Spec => RetriesPersist
<1> DEFINE Kept == \A policy \in DetectRetryPolicies :
                     \/ policy \in DetectRetryPolicies'
                     \/ policy.limit = Unbounded /\ AddsHandlerTo(policy.node)'
<1>1. ASSUME SyntaxInv, SyntaxInv', Next PROVE Kept
  <2> SUFFICES ASSUME NEW policy \in DetectRetryPolicies
               PROVE  \/ policy \in DetectRetryPolicies'
                      \/ policy.limit = Unbounded /\ AddsHandlerTo(policy.node)'
    OBVIOUS
  <2>1. PICK last : Writes(last)
    BY <1>1, NextWrites
  <2>2. PICK n \in Statements :
          \/ \E call \in Decorators(n) : policy \in DecoratorPolicies(n, call)
          \/ policy \in ManualPolicies(n)
    BY DEF DetectRetryPolicies
  <2>3. n \in Statements' /\ Kind(n)' = Kind(n) /\ Exprs(n)' = Exprs(n)
    BY <1>1, <2>1, WritingKeeps
  <2>4. CASE \E call \in Decorators(n) : policy \in DecoratorPolicies(n, call)
    <3>1. Decorators(n)' = Decorators(n)
      BY <2>3 DEF Decorators
    <3>2. policy \in DetectRetryPolicies'
      BY <2>3, <2>4, <3>1 DEF DetectRetryPolicies
    <3> QED
      BY <3>2
  <2>5. CASE policy \in ManualPolicies(n)
    <3>1. /\ policy.node = n
          /\ policy \in ManualPolicies(n)' \/ (policy.limit = Unbounded /\ AddsHandlerTo(n)')
      BY <1>1, <2>1, <2>5, ManualPoliciesStay
    <3>2. ManualPolicies(n)' \subseteq DetectRetryPolicies'
      BY <2>3 DEF DetectRetryPolicies
    <3> QED
      BY <3>1, <3>2
  <2> QED
    BY <2>2, <2>4, <2>5
<1>2. SyntaxInv /\ SyntaxInv' /\ [Next]_<<author, program>> => [Kept]_program
  BY <1>1
<1> QED
  BY AlwaysSyntaxInv, <1>2, PTL DEF Spec, RetriesPersist
=============================================================================
