----------------------------- MODULE ConfigFile -----------------------------
(***************************************************************************)
(* The configuration file of the scanned tree, .agent-reliability.yaml     *)
(* (core/model/config.py): what load_config_for_root makes of it.  The     *)
(* file belongs to the tree, so it may hold anything.                      *)
(***************************************************************************)
EXTENDS Discovery

CONSTANT RuleNames   \* names that may stand under rules.enable, rules.disable

ASSUME RuleNamesAssumption == RuleNames \subseteq STRING

\* The value of a key: missing or null, a list of strings, anything else.
Value(items) == [form : {"null", "strings", "other"}, items : SUBSET items]

\* What the file holds.  broken: it is not UTF-8 or not YAML.
RulesValue == [form : {"null", "mapping", "other"}, unknown : SUBSET UnknownKeys,
               enable : Value(RuleNames), disable : Value(RuleNames)]
Document == [form : {"missing", "broken", "null", "scalar", "mapping"},
             unknown : SUBSET UnknownKeys,
             exclude : Value(SUBSET Entries), rules : RulesValue]

\* One warning for each of these keys.
ConfigWarnings(keys) == {[Warning(SCAN_LEVEL_FILE) EXCEPT !.key = k] : k \in keys}

\* _as_str_tuple: the strings of a value, and its complaint about any other.
AsStrTuple(value) == IF value.form = "strings" THEN value.items ELSE {}
Complaint(key, value) == IF value.form = "other" THEN {key} ELSE {}

DefaultConfig == [exclude |-> {}, enable |-> {}, disable |-> {}, diagnostics |-> {}]

\* Mutant of ParseRules: only the first complaint is made.
ParseRulesOnce(rules) ==
  IF rules.form = "mapping"
  THEN [enable |-> AsStrTuple(rules.enable), disable |-> AsStrTuple(rules.disable),
        diagnostics |-> ConfigWarnings(
          IF rules.unknown # {} THEN rules.unknown
          ELSE IF rules.enable.form = "other" THEN {"rules.enable"}
          ELSE Complaint("rules.disable", rules.disable))]
  ELSE [enable |-> {}, disable |-> {}, diagnostics |-> ConfigWarnings(Complaint("rules", rules))]

ParseRules(rules) ==
  IF rules.form = "mapping"
  THEN [enable |-> AsStrTuple(rules.enable), disable |-> AsStrTuple(rules.disable),
        diagnostics |-> ConfigWarnings(rules.unknown
                          \cup Complaint("rules.enable", rules.enable)
                          \cup Complaint("rules.disable", rules.disable))]
  ELSE [enable |-> {}, disable |-> {}, diagnostics |-> ConfigWarnings(Complaint("rules", rules))]

\* parse_config of a document that safe_load accepts.
ParseConfig(doc) ==
  CASE doc.form = "null"    -> DefaultConfig
    [] doc.form = "scalar"  ->
         [DefaultConfig EXCEPT !.diagnostics = ConfigWarnings({CONFIG_FILENAME})]
    [] doc.form = "mapping" ->
         LET rules == ParseRules(doc.rules)
         IN [exclude |-> AsStrTuple(doc.exclude),
             enable |-> rules.enable, disable |-> rules.disable,
             diagnostics |-> ConfigWarnings(doc.unknown \cup Complaint("exclude", doc.exclude))
                             \cup rules.diagnostics]

\* load_config_for_root raises what is_file, read_text and safe_load raise.
LoadRaises(doc) == Has("unsearchable", Root) \/ doc.form = "broken"

LoadConfigForRoot(doc) ==
  IF doc.form = "missing" THEN DefaultConfig ELSE ParseConfig(doc)

\* k names a part of the document that is not of the form the loader asks for.
IsFault(k, doc) ==
  \/ doc.form = "scalar" /\ k = CONFIG_FILENAME
  \/ /\ doc.form = "mapping"
     /\ \/ k \in doc.unknown
        \/ k = "exclude" /\ doc.exclude.form = "other"
        \/ k = "rules" /\ doc.rules.form = "other"
        \/ /\ doc.rules.form = "mapping"
           /\ \/ k \in doc.rules.unknown
              \/ k = "rules.enable" /\ doc.rules.enable.form = "other"
              \/ k = "rules.disable" /\ doc.rules.disable.form = "other"
=============================================================================
