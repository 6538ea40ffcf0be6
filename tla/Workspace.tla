----------------------------- MODULE Workspace ------------------------------
(***************************************************************************)
(* What surrounds one run of agent-lint and moves while it runs: the files *)
(* under the scan root, which an editor or a build may replace, create or  *)
(* delete between any two system calls of the scan, and the monotonic      *)
(* clock.  None of it is code of the repository.  A file's text is a       *)
(* record of what the scan can tell about it.                              *)
(***************************************************************************)
EXTENDS IR

CONSTANTS
  Files,      \* the paths under the root that are not directories
  Contents,   \* the texts a file may hold
  Absent,     \* what disk holds for a path where there is no file
  MaxEdits,   \* bound on the edits made during one scan
  MaxTime     \* bound on the clock

\* What ast.parse makes of a text: a tree, an ordinary syntax error, the
\* exhaustion of a parser resource (nesting, recursion, memory), or, for null
\* bytes on Python 3.10 and 3.11, a ValueError.
ParseOutcomes == {"tree", "syntax", "exhausted", "malformed"}

\* What the detectors may raise over a text: for nesting too deep for ast.dump,
\* for an int too long for the repr in it, for an int too large for a float.
Trips == {"RecursionError", "ValueError", "OverflowError"}

\* decodes: the file can be opened and is UTF-8.  spans: the detectors find
\* at least one agent, tool call or retry construct.  trips: what one of them
\* makes them raise.
Content == [size : Nat, decodes : BOOLEAN, parse : ParseOutcomes, nodes : Nat,
            agents : Seq(Agent), spans : BOOLEAN, trips : SUBSET Trips]

ASSUME WorkspaceAssumption ==
  /\ Files # {} /\ Files \subseteq Paths
  /\ Contents \subseteq Content
  /\ Absent \notin Content
  /\ \A c \in Contents : c.agents # <<>> \/ c.trips # {} => c.spans
  /\ MaxEdits \in Nat /\ MaxTime \in Nat

VARIABLES
  disk,       \* disk[f] is the text of f, or Absent
  edits,      \* edits made since the scan began
  now,        \* time.monotonic()
  gone        \* history: the files that were absent at some time so far

workspaceVars == <<disk, edits, now, gone>>

NoFileAt(d) == {f \in Files : d[f] = Absent}

WorkspaceTypeOK ==
  /\ disk \in [Files -> Contents \cup {Absent}]
  /\ edits \in 0..MaxEdits
  /\ now \in 0..MaxTime
  /\ gone \in SUBSET Files

WorkspaceInit ==
  /\ disk \in [Files -> Contents \cup {Absent}]
  /\ edits = 0
  /\ now = 0
  /\ gone = NoFileAt(disk)

Edit(f) ==
  /\ edits < MaxEdits
  /\ edits' = edits + 1
  /\ \E c \in (Contents \cup {Absent}) \ {disk[f]} : disk' = [disk EXCEPT ![f] = c]
  /\ gone' = gone \cup NoFileAt(disk')
  /\ UNCHANGED now

Tick ==
  /\ now < MaxTime
  /\ now' = now + 1
  /\ UNCHANGED <<disk, edits, gone>>

Environment == Tick \/ \E f \in Files : Edit(f)
=============================================================================
