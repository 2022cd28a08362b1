--------------------------- MODULE MCAutomations ---------------------------
(* Small instances of Automations for TLC. *)
EXTENDS Automations, MCReactionEngine

\* rt fires by the clock and writes what ra watches; ra writes what rt watches
\* once the host has moved it to on_event, while a tick may still have it as it
\* was.
Watching == D("on_event", {"updated"}, "person", <<"set_fields">>)
ByTheClock == D("on_time", {}, "person", <<"transition">>)
ClockRules == [r \in RuleIds |-> ActiveRow(IF r = "ra" THEN Watching ELSE ByTheClock)]
ClockDrafts == [r \in RuleIds |-> IF r = "rt" THEN {Watching} ELSE {}]

OneDue == {[rule |-> "rt", id |-> [src |-> "due", n |-> 1, k |-> 0]]}

\* A hand empties its body.
Emptied == {<<>>}

\* An envelope of another module, which no row has room for, and one of a
\* module whose name is too long to be quoted beside a rule's pattern.
WideUpdate == {Organ(2, "updated")}
FarUpdate == [Organ(3, "updated") EXCEPT !.source = "faraway"]
Unrecordable == WideUpdate \cup {FarUpdate}
FarAway == {<<{"updated"}, "faraway">>}

=============================================================================
