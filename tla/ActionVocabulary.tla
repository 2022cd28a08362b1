-------------------------- MODULE ActionVocabulary --------------------------
(***************************************************************************)
(* action_spec.rs: what a rule body and a trigger pattern may be.  Pure    *)
(* definitions; RecordStore stores rules by them.                          *)
(*                                                                         *)
(* A body is a sequence of entries.  An entry is reduced to what the       *)
(* checks read: whether serde takes its fields for its kind, the byte      *)
(* lengths of its keys and of its texts, whether its values are scalars.   *)
(* A pattern is reduced to its length, its form and its dotted path; how   *)
(* one path segment begins with another is the constant Begins.            *)
(***************************************************************************)
EXTENDS Integers, Sequences

CONSTANT Begins     \* Begins[a]: the segments that a starts with, a among them

Segments == DOMAIN Begins
EventTypes == Seq(Segments)

ASSUME BeginsAssumption == \A a \in Segments : a \in Begins[a]

-----------------------------------------------------------------------------
(* Bodies. *)

Vocabulary == {"set_fields", "transition", "notify"}
MaxActionsPerRule == 10
MaxFieldName == 63
MaxTemplate == 120
MaxAddress == 320

\* wellFormed: serde takes the entry's fields for its kind, none missing and
\* none unknown.  head: the state field of a transition, the template of a
\* notify.  keys: the fields of set_fields, the context of a notify.
ActionSpec == [kind : Vocabulary \cup {"other"}, wellFormed : BOOLEAN, scalars : BOOLEAN,
               keys : SUBSET Nat, head : Nat, to : Nat, recipients : SUBSET Nat]

ValidateAction(a) ==
    \/ /\ a.kind = "set_fields"
       /\ a.keys # {} /\ a.keys \subseteq 1..MaxFieldName
       /\ a.scalars
    \/ /\ a.kind = "transition"
       /\ a.head \in 1..MaxFieldName
       /\ a.to > 0
    \/ /\ a.kind = "notify"
       /\ a.head \in 1..MaxTemplate
       /\ a.recipients # {} /\ a.recipients \subseteq 1..MaxAddress
       /\ a.keys \subseteq 0..MaxFieldName
       /\ a.scalars

ParseBody(body) ==
    /\ Len(body) \in 1..MaxActionsPerRule
    /\ \A i \in DOMAIN body : body[i].wellFormed /\ ValidateAction(body[i])

TargetsRecord(a) == a.kind \in {"set_fields", "transition"}

ValidateBodyForTrigger(deleted, body) ==
    deleted => \A i \in DOMAIN body : ~TargetsRecord(body[i])

-----------------------------------------------------------------------------
(* Patterns.  Form "any" is `*`, "prefix" is `path.*`, "exact" has no star  *)
(* and "stray" has one anywhere else.                                      *)

MaxPattern == 160

Pattern == {p \in [form : {"any", "prefix", "exact", "stray"}, path : EventTypes,
                    bytes : Nat, chars : Nat, pad : Nat] : p.chars <= p.bytes}

ValidatePattern(p) ==
    /\ p.bytes \in 1..MaxPattern
    /\ \/ p.form = "any"
       \/ p.form = "prefix" /\ p.path # <<>>
       \/ p.form = "exact"

\* `starts_with`: text against text, the last segment may go on.
StartsWith(type, path) ==
    /\ Len(path) \in 1..Len(type)
    /\ \A i \in 1..(Len(path) - 1) : type[i] = path[i]
    /\ path[Len(path)] \in Begins[type[Len(path)]]

\* Everything beside the path is taken, too.
MutantTakesSiblings(p, type) ==
    \/ p.form = "any"
    \/ /\ p.form = "prefix"
       /\ Len(p.path) \in 1..Len(type)
       /\ \A i \in 1..(Len(p.path) - 1) : type[i] = p.path[i]
    \/ p.form = "exact" /\ type = p.path

\* The suffix `.*` goes with its dot, so the comparison does not stop at a
\* segment: `sapiens.*` matches `sapiensx.y`.
PatternMatches(p, type) ==
    \/ p.form = "any"
    \/ p.form = "prefix" /\ StartsWith(type, p.path)
    \/ p.form = "exact" /\ type = p.path

\* The reading by segments, what a rule's author means by `path.*`: the path
\* itself and what is below it.
Under(type, path) ==
    /\ Len(path) <= Len(type)
    /\ \A i \in DOMAIN path : type[i] = path[i]

\* Under a path that differs in its last segment only, by a longer word that
\* begins with the one meant.
Strays(type, path) ==
    \E word \in Segments :
        /\ word # path[Len(path)] /\ path[Len(path)] \in Begins[word]
        /\ Under(type, [path EXCEPT ![Len(path)] = word])

=============================================================================
