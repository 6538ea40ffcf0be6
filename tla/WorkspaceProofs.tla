--------------------------- MODULE WorkspaceProofs ---------------------------
(* What edits and time keep, for the proofs about the parts that meet them. *)
EXTENDS Workspace, TLAPS

LEMMA WorkspaceInitTypeOK == WorkspaceInit => WorkspaceTypeOK
BY WorkspaceAssumption DEF WorkspaceInit, WorkspaceTypeOK, NoFileAt

LEMMA EnvironmentTypeOK == WorkspaceTypeOK /\ Environment => WorkspaceTypeOK'
<1> SUFFICES ASSUME WorkspaceTypeOK, Environment PROVE WorkspaceTypeOK'
  OBVIOUS
<1>1. CASE Tick
  BY <1>1, WorkspaceAssumption DEF Tick, WorkspaceTypeOK
<1>2. ASSUME NEW f \in Files, Edit(f) PROVE WorkspaceTypeOK'
  BY <1>2, WorkspaceAssumption DEF Edit, WorkspaceTypeOK, NoFileAt
<1> QED
  BY <1>1, <1>2 DEF Environment
=============================================================================
