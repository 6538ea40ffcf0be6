---------------------------- MODULE EngineProofs ----------------------------
(***************************************************************************)
(* Proofs about the engine, for every list of fragments a scan may return. *)
(***************************************************************************)
EXTENDS Engine, FiniteSetTheorems, TLAPS

LEMMA InitTypeOK == Init => TypeOK
<1> SUFFICES ASSUME Init PROVE TypeOK
  OBVIOUS
<1>1. WellFormed(fragments) /\ Len(fragments) \in Nat
  BY EngineAssumption DEF Init, WellFormed
<1>2. NoOccurrences \in [Hashes -> Nat]
  BY DEF NoOccurrences
<1> QED
  BY <1>1, <1>2 DEF Init, EngineInit, TypeOK

\* An agent the loop is at is an agent, in a fragment of a real file.
LEMMA AgentAtPos ==
  ASSUME TypeOK, epc = "agents", pos <= Len(fragments[frag].agents)
  PROVE  /\ frag \in DOMAIN fragments
         /\ fragments[frag] \in Fragment
         /\ fragments[frag].file \in Paths
         /\ pos \in DOMAIN fragments[frag].agents
         /\ fragments[frag].agents[pos] \in Agent
         /\ fragments[frag].agents[pos].hash \in Hashes
<1>1. frag \in DOMAIN fragments /\ fragments[frag].file # SCAN_LEVEL_FILE
  BY DEF TypeOK
<1>2. fragments[frag] \in Fragment
  BY <1>1 DEF TypeOK, WellFormed
<1>3. fragments[frag].file \in Paths /\ fragments[frag].agents \in Seq(Agent)
  BY <1>1, <1>2 DEF Fragment
<1>4. pos \in DOMAIN fragments[frag].agents
  BY <1>3 DEF TypeOK
<1>5. fragments[frag].agents[pos] \in Agent
  BY <1>3, <1>4
<1> QED
  BY <1>1, <1>2, <1>3, <1>4, <1>5 DEF Agent

LEMMA NextTypeOK == TypeOK /\ [Next]_vars => TypeOK'
<1> SUFFICES ASSUME TypeOK, [Next]_vars PROVE TypeOK'
  OBVIOUS
<1> USE DEF TypeOK, WellFormed
<1>1. CASE NextFragment /\ UNCHANGED fragments
  <2>1. /\ frag \in DOMAIN fragments
        /\ fragments[frag] \in Fragment
    BY <1>1 DEF NextFragment
  <2>2. fragments[frag].diagnostics \in SUBSET Diagnostic
        /\ fragments[frag].agents \in Seq(Agent)
    BY <2>1 DEF Fragment
  <2>3. diagnostics' \in SUBSET Diagnostic
    BY <1>1, <2>2 DEF NextFragment
  <2> QED
    BY <1>1, <2>1, <2>2, <2>3 DEF NextFragment, NoOccurrences
<1>2. CASE PassBounded /\ UNCHANGED fragments
  BY <1>2, AgentAtPos DEF PassBounded
<1>3. CASE Flag /\ UNCHANGED fragments
  <2> DEFINE file == fragments[frag].file
             agent == fragments[frag].agents[pos]
             finding == [file |-> file, hash |-> agent.hash,
                         occurrence |-> occurrences[agent.hash], agent |-> pos]
  <2>1. file \in Paths /\ agent.hash \in Hashes
    BY <1>3, AgentAtPos DEF Flag
  <2>2. finding \in Finding /\ findings' = Append(findings, finding)
    BY <1>3, <2>1 DEF Flag, Finding
  <2>3. findings' \in Seq(Finding)
    BY <2>2
  <2>4. occurrences' \in [Hashes -> Nat]
    <3>1. ASSUME NEW h \in Hashes PROVE [occurrences EXCEPT ![h] = @ + 1] \in [Hashes -> Nat]
      <4>1. occurrences \in [Hashes -> Nat] /\ occurrences[h] \in Nat
        BY DEF TypeOK
      <4> HIDE DEF TypeOK, WellFormed
      <4> QED
        BY <4>1
    <3>2. occurrences' = [occurrences EXCEPT ![agent.hash] = @ + 1]
      BY <1>3 DEF Flag
    <3> HIDE DEF TypeOK, WellFormed, agent
    <3> QED
      BY <2>1, <3>1, <3>2
  <2> QED
    BY <1>3, <2>3, <2>4 DEF Flag
<1>4. CASE RaiseOnFingerprint /\ UNCHANGED fragments
  BY <1>4 DEF RaiseOnFingerprint
<1>5. CASE EndFragment /\ UNCHANGED fragments
  BY <1>5 DEF EndFragment
<1>6. CASE Return /\ UNCHANGED fragments
  BY <1>6 DEF Return
<1>7. CASE UNCHANGED vars
  BY <1>7 DEF vars, engineVars
<1> QED
  BY <1>1, <1>2, <1>3, <1>4, <1>5, <1>6, <1>7 DEF Next, Run, EngineStep

\* The engine's variables keep their types, and the loops stay within the
\* fragments and their agents (engine.py:36-43, rule.py:77-81).
THEOREM TypeCorrect == Spec => []TypeOK
<1> QED
  BY InitTypeOK, NextTypeOK, PTL DEF Spec

-----------------------------------------------------------------------------
\* A finding's file is that of a fragment whose evaluation has begun.
Begun == {i \in DOMAIN fragments : i < frag \/ (i = frag /\ epc \in {"agents", "raised"})}

FindingsFromBegun ==
  \A k \in DOMAIN findings : \E i \in Begun : findings[k].file = fragments[i].file

\* In the file under evaluation every occurrence index handed out so far is
\* below the count kept for its hash.
CountsAhead ==
  epc = "agents" =>
    \A k \in DOMAIN findings :
      findings[k].file = fragments[frag].file =>
        findings[k].occurrence < occurrences[findings[k].hash]

IInv == TypeOK /\ FindingsFromBegun /\ CountsAhead /\ FingerprintsDistinct

LEMMA InitIInv == Init => IInv
BY InitTypeOK
   DEF Init, EngineInit, IInv, FindingsFromBegun, CountsAhead, FingerprintsDistinct

LEMMA NextIInv == IInv /\ [Next]_vars => IInv'
<1> SUFFICES ASSUME IInv, [Next]_vars PROVE IInv'
  OBVIOUS
<1>0. TypeOK /\ TypeOK'
  BY NextTypeOK DEF IInv
<1>1. CASE NextFragment /\ UNCHANGED fragments
  <2>1. findings' = findings /\ Begun \subseteq Begun' /\ frag \notin Begun
    BY <1>1, <1>0 DEF NextFragment, Begun, TypeOK, WellFormed
  <2>2. FindingsFromBegun' /\ FingerprintsDistinct'
    BY <1>1, <2>1 DEF IInv, FindingsFromBegun, FingerprintsDistinct, Fingerprint
  <2>3. ASSUME NEW k \in DOMAIN findings
        PROVE  findings[k].file # fragments[frag].file
    <3>1. PICK i \in Begun : findings[k].file = fragments[i].file
      BY DEF IInv, FindingsFromBegun
    <3>2. i \in DOMAIN fragments /\ frag \in DOMAIN fragments /\ i # frag
      BY <1>1, <1>0, <2>1 DEF Begun, NextFragment, TypeOK, WellFormed
    <3> QED
      BY <1>0, <3>1, <3>2 DEF TypeOK, WellFormed
  <2>4. CountsAhead'
    BY <1>1, <2>1, <2>3 DEF NextFragment, CountsAhead
  <2> QED
    BY <1>0, <2>2, <2>4 DEF IInv
<1>2. CASE PassBounded /\ UNCHANGED fragments
  BY <1>2, <1>0
     DEF PassBounded, IInv, FindingsFromBegun, Begun, CountsAhead, FingerprintsDistinct,
         Fingerprint
<1>3. CASE Flag /\ UNCHANGED fragments
  <2> DEFINE file == fragments[frag].file
             hash == fragments[frag].agents[pos].hash
             new == [file |-> file, hash |-> hash,
                     occurrence |-> occurrences[hash], agent |-> pos]
             n == Len(findings)
  <2>1. /\ frag \in DOMAIN fragments
        /\ file \in Paths /\ hash \in Hashes
        /\ occurrences[hash] \in Nat
    BY <1>3, <1>0, AgentAtPos DEF Flag, TypeOK
  <2>2. /\ findings \in Seq(Finding) /\ n \in Nat
        /\ findings' = Append(findings, new)
        /\ DOMAIN findings = 1..n /\ DOMAIN findings' = 1..(n + 1)
        /\ \A k \in 1..n : findings'[k] = findings[k]
        /\ findings'[n + 1] = new
    BY <1>3, <1>0 DEF Flag, TypeOK
  <2>3. \A k \in 1..n : findings[k] \in Finding
    BY <2>2
  <2>4. /\ epc = "agents" /\ epc' = epc /\ frag' = frag /\ Begun' = Begun
        /\ occurrences' = [occurrences EXCEPT ![hash] = @ + 1]
    BY <1>3 DEF Flag, Begun
  <2>5. FindingsFromBegun'
    BY <1>3, <2>1, <2>2, <2>4 DEF IInv, FindingsFromBegun, Begun
  <2>6. ASSUME NEW k \in 1..n, findings[k].file = file
        PROVE  findings[k].occurrence < occurrences[findings[k].hash]
    BY <2>2, <2>4, <2>6 DEF IInv, CountsAhead
  <2>7. CountsAhead'
    <3> SUFFICES ASSUME NEW k \in 1..(n + 1), findings'[k].file = file
                 PROVE  findings'[k].occurrence < occurrences'[findings'[k].hash]
      BY <1>3, <2>2, <2>4 DEF CountsAhead
    <3>1. CASE k = n + 1
      BY <3>1, <1>0, <2>1, <2>2, <2>4 DEF TypeOK
    <3>2. CASE k \in 1..n
      <4>1. findings'[k] = findings[k] /\ findings[k].hash \in Hashes
            /\ findings[k].occurrence \in Nat
        BY <3>2, <2>2, <2>3 DEF Finding
      <4>2. findings[k].occurrence < occurrences[findings[k].hash]
        <5>1. findings[k].file = file
          BY <4>1
        <5> QED
          BY <3>2, <5>1, <2>6
      <4>3. /\ occurrences[findings[k].hash] \in Nat
            /\ occurrences'[findings[k].hash] >= occurrences[findings[k].hash]
        <5> DEFINE h == findings[k].hash
        <5>1. h \in Hashes /\ occurrences \in [Hashes -> Nat] /\ occurrences[h] \in Nat
          BY <4>1, <1>0 DEF TypeOK
        <5>2. occurrences'[h] = IF h = hash THEN occurrences[h] + 1 ELSE occurrences[h]
          BY <5>1, <2>4
        <5> QED
          BY <5>1, <5>2
      <4>4. occurrences'[findings[k].hash] \in Nat
        BY <4>1, <1>0 DEF TypeOK
      <4> QED
        BY <4>1, <4>2, <4>3, <4>4
    <3> QED
      BY <3>1, <3>2, <2>2
  <2>8. ASSUME NEW k \in 1..n
        PROVE  Fingerprint(findings[k]) # Fingerprint(new)
    <3> SUFFICES ASSUME findings[k].file = file, findings[k].hash = hash,
                        findings[k].occurrence = occurrences[hash]
                 PROVE  FALSE
      BY DEF Fingerprint
    <3> QED
      BY <2>6, <2>1
  <2>9. FingerprintsDistinct'
    <3> SUFFICES ASSUME NEW i \in 1..(n + 1), NEW j \in 1..(n + 1),
                        Fingerprint(findings'[i]) = Fingerprint(findings'[j])
                 PROVE  i = j
      BY <2>2 DEF FingerprintsDistinct, Fingerprint
    <3>1. CASE i \in 1..n /\ j \in 1..n
      BY <3>1, <2>2 DEF IInv, FingerprintsDistinct
    <3>2. CASE i = n + 1 /\ j \in 1..n
      BY <3>2, <2>2, <2>8
    <3>3. CASE j = n + 1 /\ i \in 1..n
      BY <3>3, <2>2, <2>8
    <3> QED
      BY <3>1, <3>2, <3>3, <2>2
  <2> QED
    BY <1>0, <2>5, <2>7, <2>9 DEF IInv
<1>4. CASE RaiseOnFingerprint /\ UNCHANGED fragments
  BY <1>4, <1>0
     DEF RaiseOnFingerprint, IInv, FindingsFromBegun, Begun, CountsAhead,
         FingerprintsDistinct, Fingerprint
<1>5. CASE EndFragment /\ UNCHANGED fragments
  <2>1. Begun \subseteq Begun' /\ findings' = findings
    BY <1>5, <1>0 DEF EndFragment, Begun, TypeOK, WellFormed
  <2> QED
    BY <1>5, <1>0, <2>1
       DEF EndFragment, IInv, FindingsFromBegun, CountsAhead, FingerprintsDistinct,
           Fingerprint
<1>6. CASE Return /\ UNCHANGED fragments
  <2>1. Begun \subseteq Begun' /\ findings' = findings
    BY <1>6, <1>0 DEF Return, Begun, TypeOK, WellFormed
  <2> QED
    BY <1>6, <1>0, <2>1
       DEF Return, IInv, FindingsFromBegun, CountsAhead, FingerprintsDistinct, Fingerprint
<1>7. CASE UNCHANGED vars
  BY <1>7, <1>0
     DEF vars, engineVars, IInv, FindingsFromBegun, Begun, CountsAhead,
         FingerprintsDistinct, Fingerprint
<1> QED
  BY <1>1, <1>2, <1>3, <1>4, <1>5, <1>6, <1>7 DEF Next, Run, EngineStep

\* No two findings share a fingerprint, for any number of files, agents and
\* repetitions of a shape (fingerprint.py:43-44, rule.py:72-90).
THEOREM DistinctFingerprints == Spec => []FingerprintsDistinct
<1>1. IInv => FingerprintsDistinct
  BY DEF IInv
<1> QED
  BY InitIInv, NextIInv, <1>1, PTL DEF Spec

-----------------------------------------------------------------------------
\* What was collected so far is what the fragments begun so far carry.
Collected ==
  /\ diagnostics = UNION {fragments[i].diagnostics : i \in Begun}
  /\ epc = "returned" => frag = Len(fragments) + 1

LEMMA InitCollected == Init => Collected
<1> SUFFICES ASSUME Init PROVE Collected
  OBVIOUS
<1>1. Begun = {}
  <2>1. WellFormed(fragments)
    BY EngineAssumption DEF Init
  <2> QED
    BY <2>1 DEF Init, EngineInit, Begun, WellFormed
<1> QED
  BY <1>1 DEF Init, EngineInit, Collected

LEMMA NextCollected == TypeOK /\ Collected /\ [Next]_vars => Collected'
<1> SUFFICES ASSUME TypeOK, Collected, [Next]_vars PROVE Collected'
  OBVIOUS
<1>0. /\ frag \in Nat /\ Len(fragments) \in Nat
      /\ 1 <= frag /\ frag <= Len(fragments) + 1
      /\ DOMAIN fragments = 1..Len(fragments)
  BY DEF TypeOK, WellFormed
<1>1. CASE NextFragment /\ UNCHANGED fragments
  <2>1. frag \in DOMAIN fragments
    BY <1>1, <1>0 DEF NextFragment
  <2>2. Begun' = Begun \cup {frag}
    <3>1. CASE fragments[frag].file = SCAN_LEVEL_FILE
      BY <1>1, <1>0, <2>1, <3>1 DEF NextFragment, Begun
    <3>2. CASE fragments[frag].file # SCAN_LEVEL_FILE
      BY <1>1, <1>0, <2>1, <3>2 DEF NextFragment, Begun
    <3> QED
      BY <3>1, <3>2
  <2>3. diagnostics' = diagnostics \cup fragments[frag].diagnostics /\ epc' # "returned"
    BY <1>1 DEF NextFragment
  <2> QED
    BY <1>1, <2>2, <2>3 DEF Collected
<1>2. CASE PassBounded /\ UNCHANGED fragments
  BY <1>2 DEF PassBounded, Collected, Begun
<1>3. CASE Flag /\ UNCHANGED fragments
  BY <1>3 DEF Flag, Collected, Begun
<1>4. CASE RaiseOnFingerprint /\ UNCHANGED fragments
  <2>1. Begun' = Begun
    BY <1>4 DEF RaiseOnFingerprint, Begun
  <2> QED
    BY <1>4, <2>1 DEF RaiseOnFingerprint, Collected
<1>5. CASE EndFragment /\ UNCHANGED fragments
  <2>1. Begun' = Begun
    BY <1>5, <1>0 DEF EndFragment, Begun
  <2> QED
    BY <1>5, <2>1 DEF EndFragment, Collected
<1>6. CASE Return /\ UNCHANGED fragments
  <2>1. Begun' = Begun /\ frag = Len(fragments) + 1
    BY <1>6, <1>0 DEF Return, Begun
  <2> QED
    BY <1>6, <2>1 DEF Return, Collected
<1>7. CASE UNCHANGED vars
  BY <1>7 DEF vars, engineVars, Collected, Begun
<1> QED
  BY <1>1, <1>2, <1>3, <1>4, <1>5, <1>6, <1>7 DEF Next, Run, EngineStep

LEMMA AllCollected == TypeOK /\ Collected => DiagnosticsComplete
<1> SUFFICES ASSUME TypeOK, Collected, epc = "returned"
             PROVE  diagnostics = UNION {fragments[i].diagnostics : i \in DOMAIN fragments}
  BY DEF DiagnosticsComplete
<1>1. Begun = DOMAIN fragments
  <2>1. Len(fragments) \in Nat /\ DOMAIN fragments = 1..Len(fragments)
    BY DEF TypeOK, WellFormed
  <2>2. frag = Len(fragments) + 1
    BY DEF Collected
  <2>3. \A i \in DOMAIN fragments : i < frag
    BY <2>1, <2>2
  <2> QED
    BY <2>3 DEF Begun
<1> QED
  BY <1>1 DEF Collected

\* A scan that returns hands over every diagnostic of every fragment, those of
\* the fragment that stands for no file included (engine.py:27-43).
THEOREM AllDiagnosticsCollected == Spec => []DiagnosticsComplete
<1> QED
  BY InitTypeOK, NextTypeOK, InitCollected, NextCollected, AllCollected, PTL DEF Spec

-----------------------------------------------------------------------------
(***************************************************************************)
(* Which fingerprints a scan yields, for every list of fragments: the      *)
(* running count of evaluate() is the number of unbounded agents of a      *)
(* shape that stand before the one under evaluation.                       *)
(***************************************************************************)
\* The fingerprints of c occurrences of a shape.
Prints(file, h, c) == {<<file, h, n>> : n \in 0..(c - 1)}

Quota(i, h) == Cardinality(Unbounded(fragments[i].agents, h))

\* Those of the fragments that were evaluated, and of the one that is.
Done == UNION {Prints(fragments[i].file, h, Quota(i, h)) :
                 i \in {j \in DOMAIN fragments : j < frag}, h \in Hashes}
Current == IF epc = "agents"
           THEN UNION {Prints(fragments[frag].file, h, occurrences[h]) : h \in Hashes}
           ELSE {}

\* The unbounded agents of a shape that the loop has passed.
Before(h) == {k \in 1..(pos - 1) : /\ ~fragments[frag].agents[k].bounded
                                   /\ fragments[frag].agents[k].hash = h}

CountsExact ==
  epc = "agents" =>
    \A h \in Hashes : IsFiniteSet(Before(h)) /\ occurrences[h] = Cardinality(Before(h))

Found == {Fingerprint(findings[k]) : k \in DOMAIN findings}

FoundExact ==
  /\ epc # "raised" => Found = Done \cup Current
  /\ epc = "returned" => frag = Len(fragments) + 1

Exact == TypeOK /\ CountsExact /\ FoundExact

-----------------------------------------------------------------------------
LEMMA OneMorePrint ==
  ASSUME NEW file, NEW h, NEW c \in Nat
  PROVE  Prints(file, h, c + 1) = Prints(file, h, c) \cup {<<file, h, c>>}
<1>1. 0..((c + 1) - 1) = 0..(c - 1) \cup {c}
  OBVIOUS
<1> QED
  BY <1>1 DEF Prints

LEMMA NoPrints == \A file, h : Prints(file, h, 0) = {}
<1>1. 0..(0 - 1) = {}
  OBVIOUS
<1> QED
  BY <1>1 DEF Prints

LEMMA LoopBounds ==
  ASSUME TypeOK
  PROVE  /\ Len(fragments) \in Nat /\ DOMAIN fragments = 1..Len(fragments)
         /\ frag \in Nat /\ 1 <= frag /\ frag <= Len(fragments) + 1
         /\ pos \in Nat /\ 1 <= pos
BY DEF TypeOK, WellFormed

LEMMA AgentsOf ==
  ASSUME TypeOK, frag \in DOMAIN fragments
  PROVE  /\ fragments[frag].agents \in Seq(Agent)
         /\ Len(fragments[frag].agents) \in Nat
         /\ DOMAIN fragments[frag].agents = 1..Len(fragments[frag].agents)
<1>1. fragments[frag] \in Fragment
  BY DEF TypeOK, WellFormed
<1>2. fragments[frag].agents \in Seq(Agent)
  BY <1>1 DEF Fragment
<1> QED
  BY <1>2

\* When frag moves on, one more fragment is done.
LEMMA OneMoreDone ==
  ASSUME TypeOK, frag \in DOMAIN fragments, frag' = frag + 1, UNCHANGED fragments
  PROVE  Done' = Done \cup UNION {Prints(fragments[frag].file, h, Quota(frag, h)) : h \in Hashes}
<1>1. {j \in DOMAIN fragments : j < frag + 1} = {j \in DOMAIN fragments : j < frag} \cup {frag}
  BY LoopBounds
<1>2. \A i, h : Quota(i, h)' = Quota(i, h)
  BY DEF Quota
<1>3. Done' = UNION {Prints(fragments[i].file, h, Quota(i, h)) :
                       i \in {j \in DOMAIN fragments : j < frag + 1}, h \in Hashes}
  BY <1>2 DEF Done
<1> QED
  BY <1>1, <1>3 DEF Done

LEMMA InitExact == Init => Exact
<1> SUFFICES ASSUME Init PROVE Exact
  OBVIOUS
<1>1. TypeOK
  BY InitTypeOK
<1>2. {j \in DOMAIN fragments : j < frag} = {}
  BY <1>1, LoopBounds DEF Init, EngineInit
<1>3. Found = {} /\ Done = {} /\ Current = {}
  BY <1>2 DEF Init, EngineInit, Found, Done, Current
<1> QED
  BY <1>1, <1>3 DEF Init, EngineInit, Exact, CountsExact, FoundExact

LEMMA NextExact == Exact /\ [Next]_vars => Exact'
<1> SUFFICES ASSUME Exact, [Next]_vars PROVE Exact'
  OBVIOUS
<1>0. TypeOK /\ TypeOK' /\ CountsExact /\ FoundExact
  BY NextTypeOK DEF Exact
<1>1. CASE NextFragment /\ UNCHANGED fragments
  <2>1. /\ epc = "fragments" /\ frag \in DOMAIN fragments
        /\ Found' = Found /\ Found = Done /\ epc' # "returned"
    BY <1>0, <1>1, LoopBounds DEF NextFragment, Found, Fingerprint, FoundExact, Current
  <2>2. CASE fragments[frag].file = SCAN_LEVEL_FILE
    <3>1. frag' = frag + 1 /\ epc' = epc
      BY <1>1, <2>2 DEF NextFragment
    <3>2. \A h \in Hashes : Unbounded(fragments[frag].agents, h) = {}
      <4>1. fragments[frag].agents = <<>>
        BY <1>0, <2>1, <2>2 DEF TypeOK, WellFormed
      <4> QED
        BY <4>1 DEF Unbounded
    <3>3. \A h \in Hashes : Prints(fragments[frag].file, h, Quota(frag, h)) = {}
      BY <3>2, NoPrints, FS_EmptySet DEF Quota
    <3>4. Done' = Done
      BY <1>0, <1>1, <2>1, <3>1, <3>3, OneMoreDone
    <3> QED
      BY <1>0, <2>1, <3>1, <3>4 DEF Exact, CountsExact, FoundExact, Current
  <2>3. CASE fragments[frag].file # SCAN_LEVEL_FILE
    <3>1. epc' = "agents" /\ pos' = 1 /\ frag' = frag /\ occurrences' = NoOccurrences
      BY <1>1, <2>3 DEF NextFragment
    <3>2. \A h \in Hashes : Before(h)' = {} /\ occurrences'[h] = 0
      <4>1. 1..(1 - 1) = {}
        OBVIOUS
      <4> QED
        BY <3>1, <4>1 DEF Before, NoOccurrences
    <3>3. CountsExact'
      BY <3>2, FS_EmptySet DEF CountsExact
    <3>4. Done' = Done
      BY <1>1, <3>1 DEF Done, Quota
    <3>5. Current' = {}
      BY <3>1, <3>2, NoPrints DEF Current
    <3> QED
      BY <1>0, <2>1, <3>3, <3>4, <3>5 DEF Exact, FoundExact
  <2> QED
    BY <2>2, <2>3
<1>2. CASE PassBounded /\ UNCHANGED fragments
  <2>1. /\ epc = "agents" /\ epc' = epc /\ frag' = frag /\ pos' = pos + 1
        /\ occurrences' = occurrences /\ findings' = findings
        /\ fragments[frag].agents[pos].bounded
    BY <1>2 DEF PassBounded
  <2>2. ASSUME NEW h \in Hashes PROVE Before(h)' = Before(h)
    <3>1. 1..((pos + 1) - 1) = 1..(pos - 1) \cup {pos}
      BY <1>0, LoopBounds
    <3> QED
      BY <1>2, <2>1, <3>1 DEF Before
  <2>3. Found' = Found /\ Done' = Done /\ Current' = Current
    BY <1>2, <2>1 DEF Found, Fingerprint, Done, Quota, Current
  <2> QED
    BY <1>0, <2>1, <2>2, <2>3 DEF Exact, CountsExact, FoundExact
<1>3. CASE Flag /\ UNCHANGED fragments
  <2> DEFINE file == fragments[frag].file
             hash == fragments[frag].agents[pos].hash
             new == [file |-> file, hash |-> hash,
                     occurrence |-> occurrences[hash], agent |-> pos]
             n == Len(findings)
  <2>1. /\ epc = "agents" /\ epc' = epc /\ frag' = frag /\ pos' = pos + 1
        /\ ~fragments[frag].agents[pos].bounded
        /\ occurrences' = [occurrences EXCEPT ![hash] = @ + 1]
        /\ findings' = Append(findings, new)
    BY <1>3 DEF Flag
  <2>2. hash \in Hashes /\ occurrences \in [Hashes -> Nat] /\ occurrences[hash] \in Nat
    BY <1>0, <1>3, AgentAtPos DEF Flag, TypeOK
  <2>3. 1..((pos + 1) - 1) = 1..(pos - 1) \cup {pos} /\ pos \notin 1..(pos - 1)
    BY <1>0, LoopBounds
  <2>4. ASSUME NEW h \in Hashes
        PROVE  Before(h)' = IF h = hash THEN Before(h) \cup {pos} ELSE Before(h)
    BY <1>3, <2>1, <2>3 DEF Before
  <2>5. ASSUME NEW h \in Hashes
        PROVE  occurrences'[h] = IF h = hash THEN occurrences[h] + 1 ELSE occurrences[h]
    BY <2>1, <2>2
  <2>6. CountsExact'
    <3> SUFFICES ASSUME NEW h \in Hashes
                 PROVE  IsFiniteSet(Before(h)') /\ occurrences'[h] = Cardinality(Before(h)')
      BY DEF CountsExact
    <3>1. IsFiniteSet(Before(h)) /\ occurrences[h] = Cardinality(Before(h))
      BY <1>0, <2>1 DEF CountsExact
    <3>2. CASE h = hash
      <4>1. pos \notin Before(h)
        BY <2>3 DEF Before
      <4>2. /\ IsFiniteSet(Before(h) \cup {pos})
            /\ Cardinality(Before(h) \cup {pos}) = Cardinality(Before(h)) + 1
        BY <3>1, <4>1, FS_AddElement
      <4> QED
        BY <2>4, <2>5, <3>1, <3>2, <4>2
    <3>3. CASE h # hash
      BY <2>4, <2>5, <3>1, <3>3
    <3> QED
      BY <3>2, <3>3
  <2>7. Found' = Found \cup {Fingerprint(new)}
    <3>1. /\ n \in Nat /\ DOMAIN findings = 1..n /\ DOMAIN findings' = 1..(n + 1)
          /\ \A k \in 1..n : findings'[k] = findings[k]
          /\ findings'[n + 1] = new
      BY <1>0, <2>1 DEF TypeOK
    <3>2. 1..(n + 1) = 1..n \cup {n + 1}
      BY <3>1
    <3> HIDE DEF n, new
    <3> QED
      BY <3>1, <3>2 DEF Found, Fingerprint
  <2>8. Current' = Current \cup {<<file, hash, occurrences[hash]>>}
    <3>1. Current = UNION {Prints(file, h, occurrences[h]) : h \in Hashes}
      BY <2>1 DEF Current
    <3>2. Current' = UNION {Prints(file, h, occurrences'[h]) : h \in Hashes}
      BY <1>3, <2>1 DEF Current
    <3>3. Prints(file, hash, occurrences'[hash]) =
            Prints(file, hash, occurrences[hash]) \cup {<<file, hash, occurrences[hash]>>}
      BY <2>2, <2>5, OneMorePrint
    <3>4. \A h \in Hashes \ {hash} : occurrences'[h] = occurrences[h]
      BY <2>5
    <3> HIDE DEF hash, file
    <3> QED
      BY <2>2, <3>1, <3>2, <3>3, <3>4
  <2>9. Done' = Done
    BY <1>3, <2>1 DEF Done, Quota
  <2>10. Fingerprint(new) = <<file, hash, occurrences[hash]>>
    BY DEF Fingerprint
  <2> QED
    BY <1>0, <2>1, <2>6, <2>7, <2>8, <2>9, <2>10 DEF Exact, FoundExact
<1>4. CASE RaiseOnFingerprint /\ UNCHANGED fragments
  BY <1>0, <1>4 DEF RaiseOnFingerprint, Exact, CountsExact, FoundExact
<1>5. CASE EndFragment /\ UNCHANGED fragments
  <2>1. /\ epc = "agents" /\ epc' = "fragments" /\ frag' = frag + 1
        /\ frag \in DOMAIN fragments
        /\ occurrences' = occurrences /\ findings' = findings
    BY <1>0, <1>5 DEF EndFragment, TypeOK
  <2>2. 1..(pos - 1) = DOMAIN fragments[frag].agents
    BY <1>0, <1>5, <2>1, AgentsOf, LoopBounds DEF EndFragment, TypeOK
  <2>3. \A h \in Hashes : Before(h) = Unbounded(fragments[frag].agents, h)
    BY <2>2 DEF Before, Unbounded
  <2>4. Current = UNION {Prints(fragments[frag].file, h, Quota(frag, h)) : h \in Hashes}
    BY <1>0, <2>1, <2>3 DEF Current, Quota, CountsExact
  <2>5. Done' = Done \cup Current
    BY <1>0, <1>5, <2>1, <2>4, OneMoreDone
  <2>6. Found' = Found /\ Current' = {}
    BY <2>1 DEF Found, Fingerprint, Current
  <2> QED
    BY <1>0, <2>1, <2>5, <2>6 DEF Exact, CountsExact, FoundExact
<1>6. CASE Return /\ UNCHANGED fragments
  <2>1. /\ epc = "fragments" /\ epc' = "returned" /\ frag' = frag
        /\ frag = Len(fragments) + 1
        /\ occurrences' = occurrences /\ findings' = findings
    BY <1>0, <1>6, LoopBounds DEF Return
  <2>2. Found' = Found /\ Done' = Done /\ Current' = Current
    BY <1>6, <2>1 DEF Found, Fingerprint, Done, Quota, Current
  <2> QED
    BY <1>0, <1>6, <2>1, <2>2 DEF Exact, CountsExact, FoundExact
<1>7. CASE UNCHANGED vars
  <2>1. /\ Found' = Found /\ Done' = Done /\ Current' = Current
        /\ \A h \in Hashes : Before(h)' = Before(h)
    BY <1>7 DEF vars, engineVars, Found, Fingerprint, Done, Quota, Current, Before
  <2> QED
    BY <1>0, <1>7, <2>1 DEF vars, engineVars, Exact, CountsExact, FoundExact
<1> QED
  BY <1>1, <1>2, <1>3, <1>4, <1>5, <1>6, <1>7 DEF Next, Run, EngineStep

LEMMA ExactAtReturn == Exact => FingerprintsExact
<1> SUFFICES ASSUME Exact, epc = "returned" PROVE Found = ExpectedFingerprints
  BY DEF FingerprintsExact, Found
<1>1. {j \in DOMAIN fragments : j < frag} = DOMAIN fragments
  BY LoopBounds DEF Exact, FoundExact
<1>2. Done = ExpectedFingerprints
  BY <1>1 DEF Done, ExpectedFingerprints, Prints, Quota
<1> QED
  BY <1>2 DEF Exact, FoundExact, Current

\* A scan that returns yields the fingerprints of its unbounded agents, counted
\* by file and shape, and no others: they depend neither on the order of files
\* nor on what stands between the agents (rule.py:71-106).
THEOREM ExactFingerprints == Spec => []FingerprintsExact
<1> QED
  BY InitExact, NextExact, ExactAtReturn, PTL DEF Spec

-----------------------------------------------------------------------------
HasUnbounded(i) == \E k \in DOMAIN fragments[i].agents : ~fragments[i].agents[k].bounded

\* A fragment has fingerprints of some shape just if it has an unbounded agent.
LEMMA QuotaOfUnbounded ==
  ASSUME TypeOK, NEW i \in DOMAIN fragments
  PROVE  /\ \A h \in Hashes : Quota(i, h) \in Nat
         /\ HasUnbounded(i) <=> \E h \in Hashes : Quota(i, h) # 0
<1> DEFINE agents == fragments[i].agents
<1>1. agents \in Seq(Agent)
  <2>1. fragments[i] \in Fragment
    BY DEF TypeOK, WellFormed
  <2> QED
    BY <2>1 DEF Fragment
<1>2. IsFiniteSet(DOMAIN agents)
  <2>1. Len(agents) \in Nat /\ DOMAIN agents = 1..Len(agents)
    BY <1>1
  <2>2. 1 \in Int /\ \A n \in Nat : n \in Int
    OBVIOUS
  <2>3. IsFiniteSet(1..Len(agents))
    <3> HIDE DEF agents
    <3> QED
      BY <2>1, <2>2, FS_Interval, Zenon
  <2> QED
    BY <2>1, <2>3, Zenon
<1>3. ASSUME NEW h PROVE IsFiniteSet(Unbounded(agents, h))
  BY <1>2, FS_Subset DEF Unbounded
<1>4. ASSUME NEW h
      PROVE  Quota(i, h) \in Nat /\ (Quota(i, h) = 0 <=> Unbounded(agents, h) = {})
  BY <1>3, FS_CardinalityType, FS_EmptySet DEF Quota
<1>5. \A k \in DOMAIN agents : agents[k].hash \in Hashes
  <2>1. \A k \in DOMAIN agents : agents[k] \in Agent
    <3> HIDE DEF agents
    <3> QED
      BY <1>1
  <2> QED
    BY <2>1 DEF Agent
<1>6. HasUnbounded(i) <=> \E h \in Hashes : Unbounded(agents, h) # {}
  BY <1>5 DEF HasUnbounded, Unbounded
<1> QED
  BY <1>4, <1>6

\* The files named in the findings are those with an unbounded agent.
LEMMA FilesFound ==
  Exact /\ epc = "returned" =>
    {findings[k].file : k \in DOMAIN findings} =
      {fragments[i].file : i \in {j \in DOMAIN fragments : HasUnbounded(j)}}
<1> SUFFICES ASSUME Exact, epc = "returned"
             PROVE  {findings[k].file : k \in DOMAIN findings} =
                      {fragments[i].file : i \in {j \in DOMAIN fragments : HasUnbounded(j)}}
  OBVIOUS
<1>1. \A file : (\E k \in DOMAIN findings : findings[k].file = file)
                  <=> \E h, n : <<file, h, n>> \in Found
  BY DEF Found, Fingerprint
<1>2. Found = ExpectedFingerprints
  BY ExactAtReturn DEF FingerprintsExact, Found
<1>3. \A file, h, n : <<file, h, n>> \in ExpectedFingerprints
        <=> \E i \in DOMAIN fragments :
              fragments[i].file = file /\ h \in Hashes /\ n \in 0..(Quota(i, h) - 1)
  <2>1. ExpectedFingerprints =
          UNION {Prints(fragments[i].file, h, Quota(i, h)) : i \in DOMAIN fragments, h \in Hashes}
    BY DEF ExpectedFingerprints, Prints, Quota
  <2>2. \A i, h, x : x \in Prints(fragments[i].file, h, Quota(i, h))
          <=> \E n \in 0..(Quota(i, h) - 1) : x = <<fragments[i].file, h, n>>
    BY DEF Prints
  <2>3. \A x : x \in ExpectedFingerprints
          <=> \E i \in DOMAIN fragments, h \in Hashes : x \in Prints(fragments[i].file, h, Quota(i, h))
    BY <2>1
  <2> QED
    BY <2>2, <2>3
<1>4. \A i \in DOMAIN fragments :
        HasUnbounded(i) <=> \E h \in Hashes : \E n : n \in 0..(Quota(i, h) - 1)
  <2>1. \A c \in Nat : c # 0 <=> \E n : n \in 0..(c - 1)
    <3>1. \A c \in Nat : c # 0 => 0 \in 0..(c - 1)
      OBVIOUS
    <3>2. 0..(0 - 1) = {}
      OBVIOUS
    <3> QED
      BY <3>1, <3>2
  <2> QED
    BY <2>1, QuotaOfUnbounded DEF Exact
<1>5. \A file : (\E h, n : <<file, h, n>> \in Found)
                  <=> \E i \in DOMAIN fragments : fragments[i].file = file /\ HasUnbounded(i)
  BY <1>2, <1>3, <1>4
<1> QED
  BY <1>1, <1>5
=============================================================================
