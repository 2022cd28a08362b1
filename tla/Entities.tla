------------------------------ MODULE Entities ------------------------------
(***************************************************************************)
(* The three stored entities as the generated code handles them: their     *)
(* columns, constructors, builders, patches, request and response forms,   *)
(* the rules their rows are checked against, and the pages they are listed *)
(* in.  Pure definitions; RecordStore reads and writes its tables by them. *)
(*                                                                         *)
(* A row's data is a function from its columns to values.  A request body  *)
(* is a function from some names to values: Null is a JSON null, Garbled a *)
(* value of the wrong type.  A text is its size in bytes, its size in      *)
(* characters and the spaces around it.                                    *)
(***************************************************************************)
EXTENDS Integers, FiniteSets

CONSTANTS
    Null,       \* None, a JSON null, an SQL NULL
    Garbled,    \* a JSON value no typed column can hold
    U           \* a u32 has the values 0..(U - 1)

Text == {t \in [bytes : Nat, chars : Nat, pad : Nat] : t.pad <= t.chars /\ t.chars <= t.bytes}
Trim(t) == [bytes |-> t.bytes - t.pad, chars |-> t.chars - t.pad, pad |-> 0]
Blank(t) == t.chars = t.pad

-----------------------------------------------------------------------------
(* What the generated code does for every entity. *)

\* A null empties any column.
MutantNullAnywhere(v, nullable, json) == json \/ v # Garbled

\* serde reads a value into a column: a JSON column takes anything.
Decodes(v, nullable, json) == json \/ (v # Garbled /\ (v = Null => nullable))

\* apply_patch: an unknown name or a value that does not decode is passed over.
Patched(data, patch, optional, json) ==
    [c \in DOMAIN data |->
        IF c \in DOMAIN patch /\ Decodes(patch[c], c \in optional, c \in json)
        THEN patch[c] ELSE data[c]]

\* A request form: every name that is not optional is there, and decodes.
Reads(names, body, optional, json) ==
    \A c \in names :
        IF c \in DOMAIN body THEN Decodes(body[c], c \in optional, c \in json)
                             ELSE c \in optional

Given(body, c) == IF c \in DOMAIN body THEN body[c] ELSE Null

\* A builder: what was set, else the default, else nothing.
Built(fields, defaults, given) ==
    [c \in fields |-> IF c \in DOMAIN given THEN given[c]
                      ELSE IF c \in DOMAIN defaults THEN defaults[c] ELSE Null]

\* The setters of what may be left out, on an entity made by `new`.
Setting(data, given, optional) ==
    [c \in DOMAIN data |-> IF c \in DOMAIN given \cap optional THEN given[c] ELSE data[c]]

\* The rules a row breaks, by column and name.  NULL breaks no bound.
Broken(data, longest, mandatory) ==
    {<<c, "max_length">> : c \in {d \in DOMAIN longest :
                                     data[d] # Null /\ data[d].chars > longest[d]}}
    \cup {<<c, "required">> : c \in {d \in mandatory : data[d] = Null \/ Blank(data[d])}}

\* Those a write is answerable for.  `before` holds the row as it was, and
\* nothing on a create: all of them there, on an update the ones about columns
\* it changes.
MutantJudgesAll(before, after, broken) == broken
Judged(before, after, broken) ==
    {b \in broken : \A row \in before : row[b[1]] # after[b[1]]}

-----------------------------------------------------------------------------
(* AutomationRule *)

RuleFields == {"name", "description", "model", "trigger_kind", "trigger_pattern",
               "time_field", "delay_minutes", "actions", "active", "created_by_source"}
RuleOptional == {"description", "trigger_pattern", "time_field", "delay_minutes",
                 "created_by_source"}
RuleJson == {"actions"}
RuleNew(given) == [c \in RuleFields |-> IF c \in RuleOptional THEN Null ELSE given[c]]
RuleWith(data, given) == Setting(data, given, RuleOptional)

RuleDefaults == [trigger_kind |-> "on_event", active |-> TRUE]
RuleBuilds(given) == {"name", "model", "actions"} \subseteq DOMAIN given
RuleBuilt(given) == Built(RuleFields, RuleDefaults, given)

RulePatched(data, patch) == Patched(data, patch, RuleOptional, RuleJson)
RuleProtected == {"trigger_kind"}

\* The create form has no trigger kind: what it makes is an on_event rule.
RuleCreateReads(body) == Reads(RuleFields \ {"trigger_kind"}, body, RuleOptional, RuleJson)
RuleCreated(body) ==
    [c \in RuleFields |-> IF c = "trigger_kind" THEN "on_event" ELSE Given(body, c)]
RuleUpdateReads(body) == Reads(RuleFields, body, RuleOptional, RuleJson)
RuleUpdated(data, body) == [c \in DOMAIN data |-> Given(body, c)]

RuleResponse(data) == [c \in RuleFields |-> data[c]]

RuleLongest == [name |-> 120, description |-> 500, model |-> 120, trigger_pattern |-> 160,
                time_field |-> 63, created_by_source |-> 120]
RuleBroken(data) == Broken(data, RuleLongest, {"name", "model"})

-----------------------------------------------------------------------------
(* AutomationRun *)

RunFields == {"automation_id", "trigger", "status", "envelope_id", "source_event_type",
              "aggregate_id", "parent_run_id", "depth", "actions_applied",
              "effect_event_ids", "detail", "occurred_at"}
RunOptional == {"source_event_type", "aggregate_id", "parent_run_id", "detail"}
RunJson == {"actions_applied", "effect_event_ids"}
RunNew(given) == [c \in RunFields |-> IF c \in RunOptional THEN Null ELSE given[c]]
RunWith(data, given) == Setting(data, given, RunOptional)

RunDefaults == [status |-> "fired", depth |-> 0]
RunBuilds(given) == {"automation_id", "trigger", "envelope_id", "actions_applied",
                     "effect_event_ids", "occurred_at"} \subseteq DOMAIN given
RunBuilt(given) == Built(RunFields, RunDefaults, given)

RunPatched(data, patch) == Patched(data, patch, RunOptional, RunJson)
RunProtected == {"status"}

\* The create form has no status: what it makes has fired.
RunCreateReads(body) == Reads(RunFields \ {"status"}, body, RunOptional, RunJson)
RunCreated(body) ==
    [c \in RunFields |-> IF c = "status" THEN "fired" ELSE Given(body, c)]
RunUpdateReads(body) == Reads(RunFields, body, RunOptional, RunJson)
RunUpdated(data, body) == [c \in DOMAIN data |-> Given(body, c)]
RunResponse(data) == [c \in RunFields |-> data[c]]

\* A uuid is never blank, so automation_id breaks nothing.
RunLongest == [envelope_id |-> 64, source_event_type |-> 160, aggregate_id |-> 160,
               detail |-> 500]
RunBroken(data) == Broken(data, RunLongest, {"envelope_id"})

-----------------------------------------------------------------------------
(* SchedulerPosture *)

PostureFields == {"singleton", "posture", "time_rule_count", "min_delay_minutes",
                  "interval_minutes", "last_evaluated_at", "last_fired_count",
                  "last_deviation_note"}
PostureOptional == {"min_delay_minutes", "interval_minutes", "last_evaluated_at",
                    "last_deviation_note"}
PostureNew(given) == [c \in PostureFields |-> IF c \in PostureOptional THEN Null ELSE given[c]]
PostureWith(data, given) == Setting(data, given, PostureOptional)

PostureDefaults == [singleton |-> TRUE, posture |-> "inactive", time_rule_count |-> 0,
                    last_fired_count |-> 0]
PostureBuilt(given) == Built(PostureFields, PostureDefaults, given)

PosturePatched(data, patch) == Patched(data, patch, PostureOptional, {})
PostureProtected == {"posture"}

\* The create form has no posture: what it makes is inactive.
PostureCreateReads(body) == Reads(PostureFields \ {"posture"}, body, PostureOptional, {})
PostureCreated(body) ==
    [c \in PostureFields |-> IF c = "posture" THEN "inactive" ELSE Given(body, c)]
PostureUpdateReads(body) == Reads(PostureFields, body, PostureOptional, {})
PostureUpdated(data, body) == [c \in DOMAIN data |-> Given(body, c)]
PostureResponse(data) == [c \in PostureFields |-> data[c]]

PostureLongest == [last_deviation_note |-> 300]
PostureBroken(data) == Broken(data, PostureLongest, {})

-----------------------------------------------------------------------------
(* Lists are cut into pages, in u32 arithmetic: a product wraps where the  *)
(* build does not check it, and a cast from f64 stops at U - 1.            *)

Ceiling(n, d) == (n + d - 1) \div d
TotalPages(total, per_page) ==
    IF per_page = 0 THEN 0
    ELSE IF Ceiling(total, per_page) < U THEN Ceiling(total, per_page) ELSE U - 1
HasNext(total, page, per_page) == page < TotalPages(total, per_page)

\* The first page is number 0.
MutantOffsetFromZero(page, per_page) == (page * per_page) % U
Offset(page, per_page) == ((IF page = 0 THEN 0 ELSE page - 1) * per_page) % U

=============================================================================
