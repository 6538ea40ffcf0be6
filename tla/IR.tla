--------------------------------- MODULE IR ---------------------------------
(***************************************************************************)
(* The records that travel between the parts of agent-lint: the agents a   *)
(* frontend finds, the diagnostics every part may add, the fragment that   *)
(* lowering one file produces (core/model/ir.py).  Spans, names and        *)
(* messages are left out.  Of a message two things are kept: whether it    *)
(* has the "scan-limit:" prefix (limit), and the part of the configuration *)
(* file it complains about (key, "" if none).  Retry policies and tool     *)
(* calls, which no rule reads yet, are in RetryPolicies and Detectors.     *)
(***************************************************************************)
EXTENDS Naturals, Sequences, FiniteSets

CONSTANTS
  Paths,            \* repo-relative paths of files and directories
  Hashes,           \* structural hashes
  UnknownKeys,      \* keys of a configuration file that its loader does not know,
                    \* one under "rules" spelled "rules.<key>"
  SCAN_LEVEL_FILE   \* the file "" of a fragment that stands for no file

ASSUME SentinelIsNoPath == SCAN_LEVEL_FILE \notin Paths
ASSUME KeysAreNamed == "" \notin UnknownKeys

Agent == [hash : Hashes, bounded : BOOLEAN]

\* Nothing in the code makes a diagnostic of the level ERROR.
DiagnosticLevel == {"info", "warning", "error"}

CONFIG_FILENAME == ".agent-reliability.yaml"

\* What a warning about the configuration may be about.
ConfigKeys == UnknownKeys \cup
              {CONFIG_FILENAME, "exclude", "rules", "rules.enable", "rules.disable"}

Diagnostic == [level : DiagnosticLevel, limit : BOOLEAN, key : {""} \cup ConfigKeys,
               file : Paths \cup {SCAN_LEVEL_FILE}]

Fragment == [file : Paths \cup {SCAN_LEVEL_FILE}, agents : Seq(Agent),
             diagnostics : SUBSET Diagnostic]

Info(f)      == [level |-> "info",    limit |-> FALSE, key |-> "", file |-> f]
Warning(f)   == [level |-> "warning", limit |-> FALSE, key |-> "", file |-> f]
ScanLimit(f) == [level |-> "warning", limit |-> TRUE,  key |-> "", file |-> f]
=============================================================================
