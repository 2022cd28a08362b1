--------------------------- MODULE MCRecordStore ---------------------------
(***************************************************************************)
(* Instances of RecordStore for TLC.  Rule g is written by the guarded     *)
(* service only; rule h, the run and one of the two posture rows also by   *)
(* hosts that go past it.  Among what they write are texts over the CHECKs *)
(* of the table and under the bounds of the service, bodies and patterns   *)
(* the service must refuse, values that do not decode, and rows stored     *)
(* before the CHECKs and the keys are added.                               *)
(***************************************************************************)
EXTENDS RecordStore, TLC

CONSTANTS g, h, x, p1, p2, T0

GuardedAndGeneric == {g, h}
OneRun == {x}
TwoPostures == {p1, p2}
PastTheService == {h, x, p1}

-----------------------------------------------------------------------------
(* Texts, bodies, patterns. *)

Chars(n) == [bytes |-> n, chars |-> n, pad |-> 0]
Padded == [bytes |-> 11, chars |-> 9, pad |-> 2]
Spaces == [bytes |-> 2, chars |-> 2, pad |-> 2]
Accented(n) == [bytes |-> 2 * n, chars |-> n, pad |-> 0]

Entry == [kind |-> "notify", wellFormed |-> TRUE, scalars |-> TRUE, keys |-> {},
          head |-> 10, to |-> 0, recipients |-> {20}]
Mail == <<Entry>>
SetField == <<[Entry EXCEPT !.kind = "set_fields", !.keys = {8}, !.recipients = {}]>>
Eleven == [i \in 1..11 |-> Entry]

Segment == [sapiens |-> {"sapiens"}, user |-> {"user"}, users |-> {"users", "user"},
            order |-> {"order"}, sapiensx |-> {"sapiensx", "sapiens"}]
Types == {<<"sapiens">>, <<"sapiens", "user">>, <<"sapiens", "users">>, <<"sapiens", "order">>,
          <<"sapiens", "user", "user">>, <<"sapiensx", "user">>, <<"order">>}

Watch(form, path) == [form |-> form, path |-> path, bytes |-> 16, chars |-> 16, pad |-> 0]

-----------------------------------------------------------------------------
(* Rules. *)

Draft == [name |-> Chars(12), description |-> Null, model |-> Chars(8),
          trigger_kind |-> "on_event", trigger_pattern |-> Watch("any", <<>>),
          time_field |-> Null, delay_minutes |-> Null, actions |-> SetField,
          created_by_source |-> Null]
Timed == [Draft EXCEPT !.name = Padded, !.trigger_kind = "on_time", !.trigger_pattern = Null,
                       !.time_field = Chars(6), !.delay_minutes = 30]
Described == [Draft EXCEPT !.description = Chars(1200), !.created_by_source = Chars(20),
                           !.trigger_pattern = Watch("prefix", <<"sapiens", "user">>)]
OfDeleted == [Draft EXCEPT !.trigger_kind = "on_deleted", !.actions = Mail,
                           !.trigger_pattern = Watch("prefix", <<"sapiens">>)]
Refused == {[Draft EXCEPT !.name = Spaces], [Draft EXCEPT !.name = Accented(61)],
            [Draft EXCEPT !.trigger_pattern = Watch("stray", <<"user">>)],
            [Draft EXCEPT !.trigger_pattern = Null], [Draft EXCEPT !.actions = Eleven],
            [Draft EXCEPT !.actions[1].keys = {64}],
            [Timed EXCEPT !.delay_minutes = -1], [OfDeleted EXCEPT !.actions = SetField]}

HostDrafts == g :> ({Timed, Described, OfDeleted} \cup Refused) @@ h :> {}

Legacy == [name |-> Chars(200), model |-> Chars(8), trigger_kind |-> "on_event",
           actions |-> Mail, active |-> TRUE]
RuleForm == [name |-> Accented(120), model |-> Chars(8), actions |-> Garbled, active |-> TRUE]
RulePut == RuleForm @@ [trigger_kind |-> "on_event"]

-----------------------------------------------------------------------------
(* Runs and postures. *)

Row(rule, type) ==
    [automation_id |-> rule, trigger |-> "on_event", status |-> "fired",
     envelope_id |-> Chars(36), source_event_type |-> type, aggregate_id |-> Chars(36),
     parent_run_id |-> Null, depth |-> 0, actions_applied |-> Mail,
     effect_event_ids |-> <<>>, detail |-> Null, occurred_at |-> T0]
EngineRows == g :> {} @@ h :> {Row(h, Chars(161))}

RunGiven(rule) == [automation_id |-> rule, trigger |-> "on_time", envelope_id |-> Chars(36),
                   actions_applied |-> Mail, effect_event_ids |-> <<>>, occurred_at |-> T0]
RunForm(rule) == [RunGiven(rule) EXCEPT !.envelope_id = Spaces] @@ [depth |-> 0]

Observed == [posture |-> "active", time_rule_count |-> 1, min_delay_minutes |-> 30,
             interval_minutes |-> 3, last_evaluated_at |-> T0, last_fired_count |-> 0,
             last_deviation_note |-> Chars(40)]
OneObservation == {Observed}
PostureForm(single) == [singleton |-> single, time_rule_count |-> 7, last_fired_count |-> 7]

-----------------------------------------------------------------------------
(* What hosts send past the guarded service. *)

HostSettings == [rules |-> {Legacy}, runs |-> {RunGiven(h)}, postures |-> {<<>>}]
HostPosts == [rules |-> {RuleForm, [RuleForm EXCEPT !.name = Garbled]},
              runs |-> {RunForm(h)}, postures |-> {PostureForm(FALSE)}]
HostPuts == [rules |-> {RulePut, RulePut @@ [description |-> Chars(501)]}, runs |-> {},
             postures |-> {PostureForm(TRUE)}]
HostPatches == [rules |-> {[active |-> FALSE, trigger_kind |-> "on_time", name |-> Garbled]},
                runs |-> {[status |-> "refused", depth |-> Null], [detail |-> Chars(501)]},
                postures |-> {[singleton |-> Null, unknown |-> Garbled]}]

=============================================================================
