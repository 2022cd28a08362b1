------------------------- MODULE MCReactionEngine -------------------------
(* Small instances of ReactionEngine for TLC: the rules, envelopes and     *)
(* adapters of each scenario.                                              *)
EXTENDS ReactionEngine, TLC

\* Deliveries are told apart by nothing but what they do.
WorkerSymmetry == Permutations(Workers)

\* A domain module's two events and this module's own.
MCTypes == {"created", "updated", "fired"}
MCModels == {"person", "foundation_ext", "faraway"}

\* Writing fields or moving a state stages an "updated" event; a notification
\* stages nothing.  "lengthy" is no action: an entry with a very long name.
MCStagedType == [k \in Vocabulary \cup {"lengthy"} |->
                    IF k \in {"set_fields", "transition"} THEN "updated" ELSE "none"]

MCRunIds == 1..20

Organ(n, type) ==
    [id |-> [src |-> "organic", n |-> n, k |-> 0], type |-> type,
     source |-> "person", cause |-> NoRun]
Opaque(n, type) == [Organ(n, type) EXCEPT !.id.src = "opaque"]

D(kind, pattern, model, body) ==
    [kind |-> kind, pattern |-> pattern, model |-> model, body |-> body]
ActiveRow(d) == Row(d, TRUE)

NoDrafts == [r \in RuleIds |-> {}]
OneCreated == {Organ(1, "created")}

\* admin: ra and rc stand, rc's module refuses; rb is created, replaced,
\* corrupted and retired meanwhile.
AdminRules ==
    [r \in RuleIds |->
        CASE r = "ra" -> ActiveRow(D("on_event", {"created"}, "person", <<"notify">>))
          [] r = "rb" -> NoRule
          [] r = "rc" -> ActiveRow(D("on_event", {"updated"}, "person", <<"notify">>))]
AdminDrafts ==
    [r \in RuleIds |->
        IF r # "rb" THEN {}
        ELSE {D("on_deleted", {"created", "updated"}, "person", <<"notify">>),
              D("on_deleted", {"updated"}, "person", <<"notify", "set_fields">>)}]
\* What a hand leaves in rb: a body past the cap, and one whose refusal is too
\* long to be recorded.
LegalKindsOnly == [i \in 1..(MaxActionsPerRule + 1) |-> "notify"]
AdminCorruptions == {LegalKindsOnly, <<"notify", "lengthy">>}
OneOfEach == {Organ(1, "created"), Organ(2, "updated")}

\* retype: one rule, moved between the two event kinds by replace_rule.
OnEventDraft == D("on_event", {"created"}, "person", <<"notify">>)
OnDeletedDraft == D("on_deleted", {"created"}, "person", <<"notify">>)
RetypeFromEvent == [r \in RuleIds |-> ActiveRow(OnEventDraft)]
RetypeDrafts == [r \in RuleIds |-> {OnEventDraft, OnDeletedDraft}]

\* lone: one rule that matches what it writes itself.
Lone == [r \in RuleIds |->
            ActiveRow(D("on_event", {"created", "updated"}, "person", <<"set_fields">>))]

\* ledger: a rule that writes, and one that watches both its writes and its
\* fired events, so envelopes of every origin are handled.  Both are created
\* while envelopes come in already.
CreatedAndOpaque == OneCreated \cup {Opaque(2, "created")}
NoneYet == [r \in RuleIds |-> NoRule]
Pair == [r \in RuleIds |->
            IF r = "ra"
            THEN {D("on_event", {"created"}, "person", <<"set_fields">>)}
            ELSE {D("on_deleted", {"updated", "fired"}, "foundation_ext", <<"notify">>)}]
=============================================================================
