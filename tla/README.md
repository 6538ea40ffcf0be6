# agent-lint in TLA+

`agent-lint scan PATH` walks a repository, lowers every Python file into a small
intermediate representation, evaluates its rules on it and tells the caller, by
its exit code, what it found and whether it saw everything. The program is
sequential; what makes it hard is what it works on: a tree that other programs
change during the scan, a clock that may pass a budget at any step, files of any
content, and a verdict that must stay honest through all of it. These modules
model that program, TLC checks them on small instances, and TLAPS proves what is
said of every instance.

## The system

All paths are under `src/packages/agent-lint/src/agent_reliability/`.

| component | state | operations | hard behaviour | what makes it correct |
|---|---|---|---|---|
| command line, `lint/cli.py` | stage, exit code | check the argument, load the configuration, run the scan and the rules, print, exit | exceptions at every stage; findings, limits and warnings meet in one code | the code tells the truth about the scan; findings win over a partial scan; a verdict is never drawn from half a run |
| engine, `lint/engine.py`, and rule AR001, `lint/rules/ar001/rule.py` | loop indices, occurrence counts, findings, diagnostics | take a fragment, evaluate the rule agent by agent | a running count per shape, started anew for each file; a fragment that stands for no file | fingerprints are distinct and depend on nothing but the number of loops of each shape; no diagnostic is lost |
| scan, `lint/frontend/scan.py` | start time, `truncated`, fragments | ask for a file, check the clock, look up a frontend, lower, append | drives a generator and a frontend by turns; deadline; diagnostics that concern no file | every file is accounted for; truncation is real, reported and one file late at most |
| Python frontend, `lint/frontend/python_frontend.py` with `limits.py`, `ast_utils.py` | the fragment, the start time, the text | stat, read, parse, count nodes, two clock checks, detectors | the file changes between stat and read; each early return must leave a mark; detectors outside any `try` | silence means the whole truth about one version of the file; a limit that is reported was passed, one documented confusion apart |
| discovery, `lint/frontend/discovery.py`, with `gitignore.py` | generator: pending directories, names, matcher, shared list of diagnostics | list a directory and prune, examine a name, yield | names are stale when examined; later patterns override earlier ones; pruned directories hide whole subtrees; metadata that cannot be asked for raises | exactly the visible files are yielded, each once, and the walk ends |
| configuration, `core/model/config.py` | none | parse a document | untrusted input; may raise; several faults at once | each fault has a warning of its own, and nothing else has |
| agent loops `loops.py`, retries `retries.py`, tool calls `calls.py` | none (functions of a syntax tree) | breadth-first searches | heuristics that search too wide or stop too early; one keyword for two libraries; the same test written twice | what is recorded is true of every run of the code, or `UNKNOWN`; the detectors agree on what they read |
| findings, fingerprints, IR, `core/model/*` | none | constructors that validate | `SourceSpan` refuses some legal POSIX names; hashing refuses names that are not UTF-8 | fingerprints survive reformatting |
| text report, terminal sanitizing | none | render, escape | runs outside the `try` of the command | — |

Interaction is by call and return, in one thread: the command calls the engine,
the engine calls the scan, the scan resumes the generator of `discover_files`
and calls `lower()` for what it yields; the list `scan_level_diagnostics` is
shared between the scan and the suspended generator. The only concurrency is with the
outside: the file system and the clock.

## Modules

Each variable and action has the name of the variable or function it stands for;
`PROJECT.json` gives the lines. A step is what happens between two looks
at the outside world (a system call or a clock reading), so an edit or a tick of
the clock can fall between any two of them and nowhere else matters.

- `IR`: agents, diagnostics, fragments. Two things are kept of the message of a
  diagnostic: whether it begins with `scan-limit:`, which the program asks, and which
  part of the configuration file it is about (`key`). `ERROR` is a level of the
  enumeration that nothing in the code uses.
- `Workspace` (external): the disk, an editor that replaces, creates or
  deletes files, and the monotonic clock. A text is a record of what
  the scan can tell about it (its size, whether it decodes, what `ast.parse`
  makes of it, its node count, its agents, what the detectors raise over it).
  `gone` is a history variable: the files that were absent at some time.
- `PythonFrontend`: `lower()` as a step machine: `Enter`, `Stat`, `Read`,
  `Parse`, `CheckParseTime`, `Detect`, `CheckLowerTime`.
- `Discovery`: the generator: `Open`, `ScanDir`, `Examine`, `Exhaust`, and
  `Resume` for the consumer, and `Raise` for what stands outside a `try`. A path has traits (hidden, vendored, link, outside,
  unreadable, and unsearchable: a directory whose names can be listed while nothing can be asked about them); a pattern or glob is the set of paths it matches; the order in
  which patterns override each other is modelled, regular expressions are not.
  `os.walk` promises no order of names, and here directories and names come in
  any order.
- `Scan`: `scan_repository`, composed of the two modules above.
- `Engine`: `run_scan`'s loop and AR001.
- `ScanContract`: the abstract specification of the command: files are decided
  one at a time and at most once, the outcome follows from what was decided,
  findings before partial before clean, and only an outcome that concludes
  reports files.
- `AgentLint`: the command, composed of `Scan` and of `Engine` (an instance,
  `Rules`). Its `Contract` instance maps the fragments collected so far to
  the files decided; `KeepsContract` is the refinement.
- `ConfigFile`: `load_config_for_root` and `parse_config` on abstract documents
  (missing, broken, not a mapping, or a mapping whose values are missing, lists of strings, or something else;
  `UnknownKeys` are the keys the loader does not know).
- `Syntax` (external): programs that an author writes statement by statement, with
  what the language says of them: which loop a `break` leaves, which
  function a `return` ends, which programs compile. Each statement is stored with all the
  statements around it, so that what is below one needs no recursion. An expression
  is a literal, a constant, a variable, a call of a named object or of an attribute of any other
  expression, or anything composed of expressions; each carries all that is inside it.
- `AgentLoops`: `detect_agents`. The agents of a text in `Workspace` are what it computes.
- `RetryPolicies`: `detect_retry_policies`, from decorators and from loops; the
  first `try` of a loop is the first of `ast.walk`, which goes by depth.
- `Detectors`: `detect_tool_calls`, and what is true of the results of all three: the
  libraries a decorator may come from, when each of them gives up (stamina's timeout included), and the values an
  argument may have when the program runs. `FloatOf` and `ExactInts` say what `float()` makes of an integer: the
  number itself up to a point, a rounded one beyond, and an `OverflowError` outside `FloatOf`'s domain.
- `WorkspaceProofs`, `PythonFrontendProofs`, `DiscoveryProofs`, `VisibilityProofs`,
  `ScanProofs`, `EngineProofs`, `AgentLintProofs`, `DetectorProofs`: the theorems, see below.
- `MC*`: small instances. A `.cfg` gives constants their values.

Names that end a definition's comment with "Mutant of" are small programming
errors: replacing the definition by its mutant breaks the property the mutant
is listed with, which shows that the property watches that code.

## Runs

| run | instance | shows |
|---|---|---|
| `lowering` | 2 files, 9 texts, one on each side of every limit, 2 edits, clock 0..3, budget 1, one file name `SourceSpan` refuses, one text a detector raises over | `SilenceMeansWhole`, `LimitIsReal` |
| `discovery` | 3 levels, 3 files, every trait on every path, pairs of a directory's and a file's traits, all lists of up to 2 of 5 patterns, 3 exclude lists, 1 edit | `YieldsOnlyVisible`, `WalkIsComplete`, `NoFileTwice`, `WalkEnds` |
| `repository` | 2 Python files and another, one in a subdirectory; 3 texts, 4 trees, 1 edit, clock 0..2, both budgets 1 | `NothingDroppedSilently`, `OneFragmentPerFile`, `OvershootAtMostOne`, `TruncationIsReal`, `ScanEnds`, `ScanAdvances` |
| `rules` | lists of up to two files, in either order, and the scan-level fragment: one file with up to 3 agents of 3 shapes, one with up to 2, and one that cannot be fingerprinted, with at most 1 | `FingerprintsDistinct`, `FingerprintsExact`, `DiagnosticsComplete` |
| `command` | 2 files, 5 texts, 5 trees, 1 edit, clock 0..2, 4 invocations | `CleanMeansClean`, `FindingsDecideExit`, `PartialMeansLimit`, `UndisturbedScanIsExact`, `CommandEnds`, `KeepsContract` |
| `command_hostile` | lowering, hashing and echoing may raise; a missing configuration file, a broken and a sound one, and every combination of faults | an exception ends the command without a verdict: `FindingsDecideExit`, `KeepsContract`; each fault of the file is reported by a warning of its own, and nothing else is: `MisconfigurationIsReported` |
| `loops` | every program of each of 14 vocabularies (see Bounds) | `FlaggedHasNoGuardedExit`, `OnlyNestingOrElseInventsBounds`, `RecordedBoundsAreTrue`, `TimeoutsAreTrue`, `UntilSuccessIsSeen`, `DetectorsAgree`, `BoundsPersist`, `RetriesPersist` |

`lowering`, `discovery`, `repository`, `rules` and `command` check the type invariant
of their module as well. The largest have 400,000 to 550,000 states; each is done in about a minute. What some of the
properties say, or except:

- `LimitIsReal`: behind a `scan-limit:` diagnostic there is a limit that was passed, in size, nodes, time or in the
  parser. A text that `ast.parse` refuses with a `ValueError` is excepted by name: the code gives it the prefix
  without any limit (see the disagreements below). `PartialMeansLimit` says the same of exit code 4, with the
  history variable `passed` for the files that passed a limit of their own.
- `OvershootAtMostOne` counts the lowerings that *ended* past the deadline and the one that is under way past it,
  so one that began before it and ended after is counted.
- `ScanAdvances` says why a scan ends: each of its steps takes something off
  what the walk has still to meet, or leaves that alone and comes nearer to the end of the work on a name;
  an edit puts nothing back.
- `WalkEnds`: the walk ends of its own, unless the tree has a directory that can be listed and not searched; then
  it may raise instead.
- `CleanMeansClean`, `UndisturbedScanIsExact`: of files below directories that can all be listed (`Reachable`). The run
  `unreadable_dir` shows what is missed below the others.
- `MisconfigurationIsReported`: the warnings name exactly the parts of the file that are not of the form the loader
  asks for, each by its key. A well-formed list under `rules` is no fault in this sense, though it acts nowhere (`engine.py:42`).
- `FlaggedHasNoGuardedExit`: AR001 never accuses a loop that has the canonical exit, in the body of the `if`.
- `OnlyNestingOrElseInventsBounds`: a bound that the documents do not grant an agent can only be lent to it by
  a loop or a function inside it (`invented_bound`, below), or by an exit in the `else` of a comparison. Without these,
  every recorded bound is a guarded exit of the agent.
- `RecordedBoundsAreTrue`: a recorded bound, its absence or `UNKNOWN` is true of every
  library the decorator may come from and of every value its arguments may take: bounded by `n` means that `n`
  attempts may be made and never more, unbounded that nothing ends them, unknown that the text leaves it open. Excepted
  are keywords hidden in `**mapping`, a literal 0, and `None` where the code and its documents differ (`Disputed`).
- `TimeoutsAreTrue`: what is recorded of a call's timeout is so, its seconds those of the literal unless a float has to
  round it, as long as the detector does not raise.
- `UntilSuccessIsSeen`: a loop without end that a `break` leaves from inside its one
  `try` is an unbounded retry, whatever the `break` stands in.
- `DetectorsAgree`: such a loop, if it calls anything, is an agent too. `loops.py:42` and
  `retries.py:187` each have their own test for `while True`.
- `BoundsPersist`, `RetriesPersist`: writing on at the end of a program takes nothing away that
  was recorded. The one exception, and `RetriesPersist` names it: a further `except` clause
  in an unbounded loop can make another `try` the first one, which has no `break`.

Runs that are expected to find a violation, each against a sentence of the
repository:

| run | sentence | what happens |
|---|---|---|
| `nested_text` | `limits.py:5`: a limit is "never an unhandled exception" | an expression nested some 1000 to 2900 levels deep is accepted by `ast.parse`, and `ast.dump` in `structural_hash` raises `RecursionError`; nothing catches it before the command, and the whole scan ends with code 3 |
| `bad_config` | `tests/lint/test_cli.py:96`: a hostile tree "must never produce an internal error (exit 3)" | a configuration file that is not YAML or not UTF-8 does |
| `traceback` | `cli.py:9`: "never a raw traceback to the user" | a diagnostic about a file whose name is not UTF-8 is echoed outside the `try` |
| `invented_bound` | `loops.py:28-30`: a missed bound is safer "than inventing a bound that isn't really there" | `while True: while True: if n >= 3: f(); break` gives two bounded agents, and the outer loop never ends |
| `unreadable_dir` | `scan.py:41`: a partial scan is "never silently presented as complete" | `os.walk` passes over a directory it cannot list, and the exit code is 0 |

More disagreements were met that need no model checker:

- A text with a null byte, or one that `ast.parse` refuses with another `ValueError`, gets the `scan-limit:` prefix
  (`ast_utils.py:47-55`; null bytes are a `ValueError` on Python 3.10 and 3.11, which `requires-python` admits), though
  the prefix is for "a resource limit being hit, as opposed to an ordinary parse error" (`limits.py:52-57`). Such a file turns
  the exit code to 4.
- `Path.is_symlink` (`discovery.py:117,142`) and `is_file` (`discovery.py:95`, `config.py:137`) raise `PermissionError` where a
  directory can be listed and not searched: the scan ends with exit code 3, against `tests/lint/test_cli.py:96`.
- `float()` of an integer literal beyond the range of a double (`calls.py:38`) raises `OverflowError`, and `ast.dump` of a
  hexadecimal literal of more than some 4300 decimal digits a `ValueError`; both end the scan with exit code 3.
- `path.resolve()`, `exists()` and `is_dir()` (`cli.py:60-65`) stand outside the `try`, so what they raise is the "raw traceback" that
  `cli.py:9` excludes.
- An exit in the `else` of a comparison counts as a bound (`loops.py:69`), where `loops.py:22-26`,
  `docs/architecture/what-the-analyzer-sees.md:34-39` and the rule's `docs.md:28-29` want it in the `if`'s body.
- `stop=None` is recorded as `UNKNOWN` (`retries.py:80-85`), though `ir.py:29-30` and `retries.py:8-9` name it as an example of
  `UNBOUNDED`.
- stamina's `attempts=None` is recorded as `UNBOUNDED` (`retries.py:14`), "provably no upper bound", also beside a `timeout=`, which ends
  the attempts all the same.
- `SourceSpan` refuses a backslash, or a colon in the first component, so such a
  name ends the scan of a tree that holds it as soon as the file has an entity
  (`SpanRaises` models it).
- `README.md:27-40` and `docs/quickstart.md:26` scan a single file, which `cli.py:65` refuses.
- `for _ in range(1, 6)` with a `try` is recorded as bounded by 1 (`retries.py:172`
  reads the first argument), though `BOUNDED` is a "literal, finite upper bound"
  (`ir.py:32-33`). `RecordedBoundsAreTrue` speaks of ranges with one argument.
- `@retry(wait=w, **options)` is recorded as `UNBOUNDED`, "provably" without a bound
  (`ir.py:29-30`), though `options` may hold the `stop=`; likewise a `timeout=` in `**options`
  is recorded as absent. The properties leave calls with `**` out.
- A bare `@retry()` or `@tenacity.retry()` retries for ever, as `retries.py:7-10` says of an omitted
  `stop=`, and is not recorded: without a keyword of tenacity's it is not
  taken for tenacity's.
- Only the first `try` with a handler of a loop is searched for the `break` (`retries.py:150`).
- One loop can be recorded as an agent with a step bound and as a retry without
  a bound: the comparison that proves the one is not looked for by the other.

### Bounds

One edit is enough to separate any two system calls of a scan; `lowering` has two so
that a file can change before `stat` and again before `read_text`. The clock needs
one value on each side of "more than the budget" and one at it. Two files are
enough for what relates two files (order, a first one that raises or is late, a
second one that is lost); three levels of directories are enough for a pruned
ancestor that is not a parent; two patterns are enough for an override, since the
matcher's verdict depends on the last pattern that matches only. Three agents allow two of
one shape with another one between. 

The programs of `loops` come in vocabularies, each with its own size, and nothing is left
out of the smaller programs of a vocabulary:

- `MCLoops`, up to 5 statements of loops, functions, comparisons, blocks, calls and exits: an
  agent loop with a nested loop or function, a comparison in it, a call and an exit.
- `MCRetries`, up to 5 statements of `while`, `for`, `try` with all its blocks, calls and
  `break`: a retry in a retry, in each block.
- `MCTries`, an unbounded retry whose `break` is deep in a loop, and up to three more
  statements after it: a `try`, its handler and what makes it the first in breadth-first order.
- `MCHeads`, nine of them: a loop with each form of test (`1`, `1.0`, `True`, a variable) or of
  range (none, an integer, a float, a variable, two), and up to four more statements.
- `MCDecorators`: each name of a decorator with each pair of keywords, and two decorators.
- `MCCalls`: each kind of callee with each pair of keywords, alone, as an argument, in an operator, as the receiver of
  another call and in a decorator; literals on each side of what a float can hold.

### Fairness

Weak fairness is assumed of the program's own steps only: it is one thread that
is never blocked once it runs, since every modelled system call returns.
Nothing is assumed of the editor or the clock. The `WF` of each specification
is over the whole sequence of steps (`Walk`, `ScanStep`, `CliStep`), of
which at most one kind is enabled at a time, or any choice makes
progress. `lower()` and the engine by themselves have no fairness and no liveness property: the one is straight-line
code, the other two loops over finite tuples.

### Assumptions about the outside

SHA-256 is injective on what it is given. The clock is monotonic. A file is read
atomically (`read_text` returns one version of it). Only regular files change during a
scan; what a path resolves to does not. Standard output is UTF-8 and strict, so
echoing a name with surrogates raises. One `ast.parse` may take any time, and no
budget interrupts it, as `limits.py:8-13` says. Two things the program relies on
are assumptions of the model as well: the directories form a tree (`TreeAssumption`: there is a
depth that grows by one from parent to child) and a configuration file names rules by
strings (`RuleNamesAssumption`). Of programs, `SyntaxAssumption` says that integers are natural numbers and that no
keyword is given twice, as Python has it. `NumbersAssumption` says that `float()` is exact up to `ExactInts`, and that there is
a number of attempts a value outside the text may allow.

## Proofs

Every invariant and every action property that the passing runs check is proved for every value of the
constants, and so is the safety part of the refinement. The assumptions are those the modules
name, and every one is evaluated by a run.

| module | theorem | property |
|---|---|---|
| `PythonFrontendProofs` | `LoweringTypeCorrect` | `LoweringTypeOK` |
| | `SilenceIsHonest` | `SilenceMeansWhole` |
| | `LimitsAreReal` | `LimitIsReal` |
| `DiscoveryProofs` | `WalkTypeCorrect` | `WalkTypeOK` |
| | `EachFileOnce` | `NoFileTwice` |
| `VisibilityProofs` | `OnlyVisibleIsYielded` | `YieldsOnlyVisible` |
| | `NoFileIsMissed` | `WalkIsComplete` |
| `ScanProofs` | `RepositoryTypeCorrect` | `RepositoryTypeOK` |
| | `FragmentsAreDistinct` | `OneFragmentPerFile` |
| | `DeadlineOvershootsByOne` | `OvershootAtMostOne` |
| | `TruncationIsJustified` | `TruncationIsReal` |
| | `NothingIsDropped` | `NothingDroppedSilently` |
| | `ScanMovesOn` | `ScanAdvances` |
| `EngineProofs` | `TypeCorrect` | `TypeOK` |
| | `DistinctFingerprints` | `FingerprintsDistinct` |
| | `AllDiagnosticsCollected` | `DiagnosticsComplete` |
| | `ExactFingerprints` | `FingerprintsExact` |
| `AgentLintProofs` | `CommandTypeCorrect` | `TypeOK` |
| | `FindingsDecide` | `FindingsDecideExit` |
| | `CleanIsClean` | `CleanMeansClean` |
| | `PartialIsALimit` | `PartialMeansLimit` |
| | `MisconfigurationIsTold` | `MisconfigurationIsReported` |
| | `UndisturbedIsExact` | `UndisturbedScanIsExact` |
| | `CommandKeepsContract` | `ContractSafety`: each step is a step of `ScanContract` or a stutter |
| `DetectorProofs` | `CanonicalLoopsAreSpared` | `FlaggedHasNoGuardedExit` |
| | `FlatBoundsAreReal` | `OnlyNestingOrElseInventsBounds` |
| | `BoundsAreTrue` | `RecordedBoundsAreTrue` |
| | `TimeoutsAreExact` | `TimeoutsAreTrue` |
| | `UntilSuccessSeen` | `UntilSuccessIsSeen` |
| | `OneReading` | `DetectorsAgree` |
| | `BoundsStay` | `BoundsPersist` |
| | `RetriesStay` | `RetriesPersist` |

None of the safety properties is inductive. Along which invariants they are proved:

**Lowering.** `Staged` says what each stage of `lower()` may rely on: from `parse` on there
is a text, from `parsed` on it is a tree within the node limit, and after the detectors
the fragment holds its agents. Even the type invariant needs it, for `Detect` copies the agents
of a text that must exist. Every way of giving a file up goes through `SkipKeepsPromises`;
edits and ticks through `EnvironmentLoweringInv`, whose only content is that a budget that
is passed stays passed.

**Walk.** A file is yielded once because it is in one place at a time: below a
pending directory, among the names being examined, or yielded. `Below(d)` is the least set
closed under children, a definition without recursion, and `SiblingNotBelow` shows that no child
of a directory is below another child, or below itself; `WalkInv` says that nothing met so far is below a
directory still to be listed, and that no name to be examined was yielded.

**Visibility.** The matcher is a fold over the patterns, the property is "the last pattern that
speaks decides"; the directories above a file are a recursive function. Both meet by
least counterexample: `MinimalSet` and `LeastNatural` derive it from the well-foundedness of finite sets, since
the induction theorems of the library take an operator, which the provers cannot instantiate.
`IgnoredByLastWord` is the result about the fold, `AboveIsBelow` that about the tree. `VisibilityInv` then follows
a file from the root to the yield: what is pending, among the names or yielded has nothing
hidden above it, and a visible file that stayed there is `Covered`: yielded, among the
names, or below a pending directory.

**Scan.** The generator's and the frontend's invariants are kept by the composition
(one writes what the other leaves alone), and `ScanInv` adds what relates them: the files of the fragments
are yielded ones and the current file is not among them while it is being lowered (`Located`);
what the clock has to do with it (`Timed`: a lowering that has not begun has overshot nothing, one that is past the deadline is the first; `LimitsBorne`: a file whose fragment says it hit a limit is among those that passed one); every yielded Python file is told of or pending (`AllTold`). `OriginInv` traces
diagnostics and texts back: a fragment's diagnostics are about its own file, or come from the walk or the
configuration; what was read was the file's text at some time and, without edits, is on disk.
`NothingIsDropped` is `AllTold` together with `WalkIsComplete`.

**Progress.** What the walk has still to meet, `Unmet`, is the names of the directory listed last, the
pending directories and all that is below those. A directory that is listed leaves it for good, because it is not below
another pending one (`UnmetIsBelow` ties the recursive function `above` to `Below`, then `SiblingNotBelow` applies);
a name that is examined leaves it because it is among neither. This is `GeneratorAdvances`. All other steps of a
scan leave `Unmet` alone and go up in `Order` (`ScanStepAdvances`), where `walking` is the last place before the end: only
a yield leads back from it to the first, and a yield has examined a name. It bounds the number of steps: `ScanMovesOn` is the safety half of
`ScanEnds`, and what fairness has to add is that a step is taken.

**Engine.** That a new finding's fingerprint is new depends on the count being larger than every
index given out for the same shape in the same file (`CountsAhead`), and on findings belonging to fragments
the loop has begun (`FindingsFromBegun`). `Begun` also carries `DiagnosticsComplete`. `EngineAssumption`, that no
two fragments carry one path, is what the scan guarantees: `ScanIsWellFormed` proves it for the composition.
`ExactFingerprints` ties each count to the number of unbounded agents of a shape that
stand before the one under evaluation (`CountsExact`), so that the fingerprints found are exactly those of the fragments
done and of the part of the current one that is (`FoundExact`).

**Command.** `CmdInv` is `ScanInv`, the engine's invariants on the fragments of the scan, and
`InStage`, which of the two may be under way. `OutcomeInv` adds what a conclusion was drawn from: `OriginInv`, and the
configuration as `LoadConfigForRoot` gave it, whose warning travels from the loader through the last
fragment and the engine to the report: `LoaderWarns` says which keys the loader complains of, and a diagnostic of a key has no other origin. For the refinement (`NextRefines`) the steps of
the program fall into those that change nothing the contract sees (`NothingHappens`), those that give up (`GivesUp`), those that append a fragment
(`AppendToContract`), and `Report`, which must conclude what the contract's verdict says.

**Detectors.** The programs are of any length and depth, over any vocabularies. `SyntaxInv` says that statements are
well typed, that what is around a statement comes before it and is nested (`Nested`: of two statements around a third
the later one is inside the earlier one), and that the program compiles. Of
a body the proofs need two facts: a statement around one in the body is in the body itself or
comes before it (`InsideOrBefore`), and what is below a statement of the body is in the body (`BodyIsClosed`).
`FlatBoundsAreReal` follows from the first: without an exit in an `else`, the exit found is in the body of the comparison, and without a nested loop or function, nothing stands between the exit under the comparison
and the agent that the exit could leave instead. `BoundsAreTrue` speaks
of every library a decorator may come from and every value an argument may have, by cases on what was
read (`TenacityIsTrue`, `StaminaIsTrue`): each of the three answers is true of a set of limits of one form (`BoundedIsTrue`,
`UnboundedIsTrue`, `AnyLimitIsOpen`). `TimeoutsAreExact` rests on `ExpressionsAreSound`, that a keyword is given once and literals are numbers. The two action properties compare a program with itself one statement
later. `NextWrites` names that statement, `WritingKeeps` and `BodyGrows` say that all older ones stay what they
were and that a body gains at most the new one, so agents, bounds and `break`s stay. Retries are harder, as they depend on which `try` is
the *first* one: without a new `except` clause no `try` gains its handlers (`TriesStay`, which needs that the longer program compiles:
a `try` only counts with a handler, and `handlers` holds nothing else), so the set the choice is made from is the
same, and so is the choice (`FirstTryStays`).

Left to the model checker: the liveness properties (`WalkEnds`, `ScanEnds`,
`CommandEnds`) and the fairness part of the refinement, since they need `ENABLED`, which this prover does not reach.

## Not modelled

Wording, order and layout of messages and of the report, spans and evidence of findings;
severity and serialization (enumerations and field-by-field conversions; `serialize.py` has no caller in the
command); terminal sanitizing (one regular expression over the report's characters, and texts have no
characters here); the fixture harness `tools/art_rule_test.py`, a developer's tool; build, CI,
documents, fixtures. `rules.enable` and `rules.disable` are in the model's configuration, where, as in the
code, nothing reads them.

## Plan

All modules of the plan are written, in this order: `IR`, `Workspace`, `PythonFrontend`, `Discovery`,
`Scan`, `Engine`, `ScanContract`, `AgentLint`, `ConfigFile`, `Syntax`, `AgentLoops`, `RetryPolicies`,
`Detectors`, and the proofs of each. What could be added:

1. Edits that replace directory entries during the walk, for `is_symlink` and the containment
   check against the later open. Today what a path resolves to is fixed, and `Visible` means one thing
   throughout; with such edits it must be stated of the moment of the check.
2. `rules.enable` and `rules.disable`, once the engine consults them.
3. The severities, once a second rule makes the order of the report matter.
