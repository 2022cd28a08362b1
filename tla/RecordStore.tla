---------------------------- MODULE RecordStore ----------------------------
(***************************************************************************)
(* The module's three tables and everybody who writes them: the guarded    *)
(* rule service (rule_service.rs), the engines' inserts and the            *)
(* scheduler's upsert, the generated services with their row rules, the    *)
(* repositories, the seeders' rollback, and the migrations that add        *)
(* foreign keys and CHECKs to tables that already hold rows.               *)
(*                                                                         *)
(* Every statement is one step; concurrent callers are their               *)
(* interleavings.  A call that is refused changes nothing and is no        *)
(* action.  The generated services are the framework's: Post, Put, Patch   *)
(* and the trash actions say what they do with this module's entities,     *)
(* request forms and row rules.  The module itself mounts their read       *)
(* routes only; a host that serves the write routes, or saves through a    *)
(* repository, does it for the ids in Generic.                             *)
(***************************************************************************)
EXTENDS Entities, ActionVocabulary

CONSTANTS
    RuleIds, RunIds, PostureIds,
    Generic,        \* the ids written past the guarded service, any table's
    Drafts,         \* Drafts[r]: what hosts may ask the rule service to store
    Settings,       \* Settings[t]: what a host sets on a new entity of table t
    Posts, Puts,    \* Posts[t], Puts[t], Patches[t]: the request bodies sent
    Patches,
    RunData,        \* RunData[r]: the rows an engine writes for rule r
    Observations,   \* what a tick records of the scheduler
    Arriving,       \* the event types that rules are matched against
    MaxFiring       \* a bound: rules loaded at the same time

Tables == {"rules", "runs", "postures"}
Ids == [rules |-> RuleIds, runs |-> RunIds, postures |-> PostureIds]

VARIABLES
    db,         \* db[t]: the rows of table t by id, the soft-deleted among them
    checks,     \* the CHECKs in force, by table, column and name
    keyed,      \* are the foreign keys of the runs table in force
    firing      \* the rules that open deliveries and ticks have loaded

vars == <<db, checks, keyed, firing>>

-----------------------------------------------------------------------------
(* The entities of the three tables, each by its own definitions. *)

Fields(t) == CASE t = "rules" -> RuleFields [] t = "runs" -> RunFields
               [] t = "postures" -> PostureFields
Optional(t) == CASE t = "rules" -> RuleOptional [] t = "runs" -> RunOptional
                 [] t = "postures" -> PostureOptional
Protected(t) == CASE t = "rules" -> RuleProtected [] t = "runs" -> RunProtected
                  [] t = "postures" -> PostureProtected

CreateReads(t, body) ==
    CASE t = "rules" -> RuleCreateReads(body) [] t = "runs" -> RunCreateReads(body)
      [] t = "postures" -> PostureCreateReads(body)
Created(t, body) ==
    CASE t = "rules" -> RuleCreated(body) [] t = "runs" -> RunCreated(body)
      [] t = "postures" -> PostureCreated(body)
UpdateReads(t, body) ==
    CASE t = "rules" -> RuleUpdateReads(body) [] t = "runs" -> RunUpdateReads(body)
      [] t = "postures" -> PostureUpdateReads(body)
Updated(t, data, body) ==
    CASE t = "rules" -> RuleUpdated(data, body) [] t = "runs" -> RunUpdated(data, body)
      [] t = "postures" -> PostureUpdated(data, body)
EntityPatched(t, data, patch) ==
    CASE t = "rules" -> RulePatched(data, patch) [] t = "runs" -> RunPatched(data, patch)
      [] t = "postures" -> PosturePatched(data, patch)
Response(t, data) ==
    CASE t = "rules" -> RuleResponse(data) [] t = "runs" -> RunResponse(data)
      [] t = "postures" -> PostureResponse(data)
BrokenIn(t, data) ==
    CASE t = "rules" -> RuleBroken(data) [] t = "runs" -> RunBroken(data)
      [] t = "postures" -> PostureBroken(data)

\* A column holds what its type allows.
Typed(t, data) ==
    /\ data = [c \in Fields(t) |-> data[c]]
    /\ \A c \in Fields(t) \ (RuleJson \cup RunJson) :
          data[c] # Garbled /\ (c \notin Optional(t) => data[c] # Null)

\* The entities a host can make of what it sets, by builder or constructor.
NewEntities(t, given) ==
    CASE t = "rules" ->
           (IF RuleBuilds(given) THEN {RuleBuilt(given)} ELSE {})
               \cup (IF RuleFields \ RuleOptional \subseteq DOMAIN given
                     THEN {RuleWith(RuleNew(given), given)} ELSE {})
      [] t = "runs" ->
           (IF RunBuilds(given) THEN {RunBuilt(given)} ELSE {})
               \cup (IF RunFields \ RunOptional \subseteq DOMAIN given
                     THEN {RunWith(RunNew(given), given)} ELSE {})
      [] t = "postures" ->
           {PostureBuilt(given)}
               \cup (IF PostureFields \ PostureOptional \subseteq DOMAIN given
                     THEN {PostureWith(PostureNew(given), given)} ELSE {})

-----------------------------------------------------------------------------
(* What the database refuses. *)

Stored(t, id) == id \in DOMAIN db[t]
Live(t, id) == Stored(t, id) /\ ~db[t][id].deleted

Fits(t, data) == \A b \in BrokenIn(t, data) : <<t, b[1], b[2]>> \notin checks

\* The unique index on `singleton`, over deleted rows too.
Unique(t, id, data) ==
    t = "postures" =>
        \A p \in PostureIds \ {id} :
            Stored(t, p) => db[t][p].data.singleton # data.singleton

\* A column of `id` that did not change is not looked up again.
KeyHolds(id, column, data, found) ==
    \/ data[column] = Null \/ found
    \/ Stored("runs", id) /\ db.runs[id].data[column] = data[column]
Referenced(t, id, data) ==
    t = "runs" /\ keyed =>
        /\ KeyHolds(id, "automation_id", data, Stored("rules", data.automation_id))
        /\ KeyHolds(id, "parent_run_id", data, Stored("runs", data.parent_run_id))

Storable(t, id, data) == Fits(t, data) /\ Unique(t, id, data) /\ Referenced(t, id, data)

Refers(x, t, id) ==
    /\ Stored("runs", x)
    /\ \/ t = "rules" /\ db.runs[x].data.automation_id = id
       \/ t = "runs" /\ x # id /\ db.runs[x].data.parent_run_id = id
\* The foreign keys are not in force for a deletion.
MutantRemovable(t, id) == TRUE
Removable(t, id) == keyed => \A x \in RunIds : ~Refers(x, t, id)

\* A table with a row put in, or with only some of its rows.
With(rows, id, row) ==
    [i \in DOMAIN rows \cup {id} |-> IF i = id THEN row ELSE rows[i]]
Only(rows, ids) == [i \in ids |-> rows[i]]

Write(t, id, row) ==
    /\ db' = [db EXCEPT ![t] = With(@, id, row)]
    /\ UNCHANGED <<checks, keyed, firing>>

Init ==
    /\ db = [t \in Tables |-> <<>>]
    /\ checks = {}
    /\ keyed = FALSE
    /\ firing = {}

-----------------------------------------------------------------------------
(* RuleService, the guarded writer. *)

MaxName == 120
MaxDescription == 2000
MaxModel == 63
MaxTimeField == 63

\* Spaces will do.
MutantSpacesWithin(text, longest) == text.bytes <= longest
Within(text, longest) == ~Blank(text) /\ text.bytes <= longest

\* The entries are read and held against the trigger, not against the bounds.
MutantNoBounds(d) ==
    /\ Within(d.name, MaxName) /\ Within(d.model, MaxModel)
    /\ d.trigger_pattern # Null => ValidatePattern(d.trigger_pattern)
    /\ (d.trigger_kind = "on_time") = (d.trigger_pattern = Null)
    /\ d.actions \notin {Null, Garbled} /\ \A i \in DOMAIN d.actions : d.actions[i].wellFormed
    /\ ValidateBodyForTrigger(d.trigger_kind = "on_deleted", d.actions)

Validate(d) ==
    /\ Within(d.name, MaxName)
    /\ d.description # Null => d.description.bytes <= MaxDescription
    /\ Within(d.model, MaxModel)
    /\ d.created_by_source # Null => d.created_by_source.bytes <= MaxModel
    /\ d.delay_minutes # Null => d.delay_minutes >= 0
    /\ d.trigger_pattern # Null => ValidatePattern(d.trigger_pattern)
    /\ d.time_field # Null => Within(d.time_field, MaxTimeField)
    /\ IF d.trigger_kind = "on_time"
       THEN d.time_field # Null /\ d.trigger_pattern = Null
       ELSE d.time_field = Null /\ d.trigger_pattern # Null
    /\ d.actions \notin {Null, Garbled} /\ ParseBody(d.actions)
    /\ ValidateBodyForTrigger(d.trigger_kind = "on_deleted", d.actions)

\* The row of a draft: name and model are trimmed, the rest is stored as it is.
RuleData(d, active) ==
    [c \in RuleFields |-> CASE c \in {"name", "model"} -> Trim(d[c])
                            [] c = "active" -> active
                            [] OTHER -> d[c]]

CreateRule(r, d) ==
    /\ ~Stored("rules", r)
    /\ Validate(d)
    /\ Storable("rules", r, RuleData(d, TRUE))
    /\ Write("rules", r, [data |-> RuleData(d, TRUE), deleted |-> FALSE])

\* A column the draft leaves out keeps its value; a deleted rule comes back.
MutantReplaceCoalesces(r, d) ==
    LET data == [c \in RuleFields |->
                    IF RuleData(d, db.rules[r].data.active)[c] = Null
                    THEN db.rules[r].data[c]
                    ELSE RuleData(d, db.rules[r].data.active)[c]]
    IN /\ Live("rules", r)
       /\ Validate(d)
       /\ Storable("rules", r, data)
       /\ Write("rules", r, [db.rules[r] EXCEPT !.data = data])
MutantReplaceRevives(r, d) ==
    /\ Stored("rules", r)
    /\ Validate(d)
    /\ Storable("rules", r, RuleData(d, db.rules[r].data.active))
    /\ Write("rules", r, [data |-> RuleData(d, db.rules[r].data.active), deleted |-> FALSE])

ReplaceRule(r, d) ==
    LET data == RuleData(d, db.rules[r].data.active)
    IN /\ Live("rules", r)
       /\ Validate(d)
       /\ Storable("rules", r, data)
       /\ Write("rules", r, [db.rules[r] EXCEPT !.data = data])

SetActive(r, active) ==
    /\ Live("rules", r)
    /\ Write("rules", r, [db.rules[r] EXCEPT !.data.active = active])

DeleteRule(r) ==
    /\ Live("rules", r)
    /\ Write("rules", r, [db.rules[r] EXCEPT !.deleted = TRUE])

-----------------------------------------------------------------------------
(* The engines: a delivery or a tick loads the rules and later inserts a    *)
(* row for each; the scheduler upserts its posture.                        *)

LoadRule(r) ==
    /\ Live("rules", r) /\ db.rules[r].data.active
    /\ Cardinality(firing) < MaxFiring
    /\ firing' = firing \cup {r}
    /\ UNCHANGED <<db, checks, keyed>>

RecordRun(x, r, data) ==
    /\ r \in firing
    /\ ~Stored("runs", x)
    /\ Storable("runs", x, data)
    /\ db' = [db EXCEPT !.runs = With(@, x, [data |-> data, deleted |-> FALSE])]
    /\ firing' = firing \ {r}
    /\ UNCHANGED <<checks, keyed>>

\* The transaction ends without a row, or the row is refused.
DropFire(r) ==
    /\ r \in firing
    /\ firing' = firing \ {r}
    /\ UNCHANGED <<db, checks, keyed>>

\* Any row will do.
MutantReadsAnyRow(postures) == DOMAIN postures

\* The rows stored_posture may answer with, `WHERE singleton`.
PostureRows(postures) == {p \in DOMAIN postures : postures[p].data.singleton = TRUE}

PostureData(o) == [c \in PostureFields |-> IF c = "singleton" THEN TRUE ELSE o[c]]

\* record_posture: INSERT, ON CONFLICT (singleton) DO UPDATE.
Conflicts(p, data) ==
    Stored("postures", p) /\ db.postures[p].data.singleton = data.singleton

RecordPosture(o) ==
    /\ Fits("postures", PostureData(o))
    /\ \/ \E p \in PostureIds :
             /\ Conflicts(p, PostureData(o))
             /\ Write("postures", p, [db.postures[p] EXCEPT !.data = PostureData(o)])
       \/ /\ \A p \in PostureIds : ~Conflicts(p, PostureData(o))
          /\ \E p \in PostureIds :
                /\ ~Stored("postures", p)
                /\ Write("postures", p, [data |-> PostureData(o), deleted |-> FALSE])

-----------------------------------------------------------------------------
(* Hosts that write past the guarded service. *)

\* A repository saves an entity as it is: no row rules.
SaveNew(t, id, given) ==
    /\ ~Stored(t, id)
    /\ \E data \in NewEntities(t, given) :
          /\ Storable(t, id, data)
          /\ Write(t, id, [data |-> data, deleted |-> FALSE])

\* The generated service, held to the row rules.
Post(t, id, body) ==
    /\ ~Stored(t, id)
    /\ CreateReads(t, body)
    /\ Judged({}, Created(t, body), BrokenIn(t, Created(t, body))) = {}
    /\ Storable(t, id, Created(t, body))
    /\ Write(t, id, [data |-> Created(t, body), deleted |-> FALSE])

Update(t, id, data) ==
    /\ Live(t, id)
    /\ Judged({db[t][id].data}, data, BrokenIn(t, data)) = {}
    /\ Storable(t, id, data)
    /\ Write(t, id, [db[t][id] EXCEPT !.data = data])

Put(t, id, body) ==
    /\ Live(t, id)
    /\ UpdateReads(t, body)
    /\ Update(t, id, Updated(t, db[t][id].data, body))

\* The fields the entity protects are taken out of the patch.
Unprotected(t, patch) == [c \in DOMAIN patch \ Protected(t) |-> patch[c]]

Patch(t, id, patch) ==
    /\ Live(t, id)
    /\ Update(t, id, EntityPatched(t, db[t][id].data, Unprotected(t, patch)))

SoftDelete(t, id) ==
    /\ Live(t, id)
    /\ Write(t, id, [db[t][id] EXCEPT !.deleted = TRUE])

Restore(t, id) ==
    /\ Stored(t, id) /\ db[t][id].deleted
    /\ Write(t, id, [db[t][id] EXCEPT !.deleted = FALSE])

\* Deleted from the trash, for good.
Purge(t, id) ==
    /\ Stored(t, id) /\ db[t][id].deleted
    /\ Removable(t, id)
    /\ db' = [db EXCEPT ![t] = Only(@, DOMAIN @ \ {id})]
    /\ UNCHANGED <<checks, keyed, firing>>

\* A seeder's rollback empties its table in one statement; the runs that
\* refer to each other go together.
Rollback(t) ==
    /\ t = "rules" => \A r \in DOMAIN db[t] : Removable(t, r)
    /\ db' = [db EXCEPT ![t] = Only(@, {})]
    /\ UNCHANGED <<checks, keyed, firing>>

-----------------------------------------------------------------------------
(* Migrations, of a database that other instances are using. *)

\* Rows that break a key keep it from being validated, not from being in force.
AddForeignKeys ==
    /\ ~keyed
    /\ keyed' = TRUE
    /\ UNCHANGED <<db, checks, firing>>

Breaks(check) ==
    \E id \in DOMAIN db[check[1]] :
        <<check[2], check[3]>> \in BrokenIn(check[1], db[check[1]][id].data)
Declared ==
    {<<"rules", c, "max_length">> : c \in DOMAIN RuleLongest}
        \cup {<<"rules", c, "required">> : c \in {"name", "model"}}
        \cup {<<"runs", c, "max_length">> : c \in DOMAIN RunLongest}
        \cup {<<"runs", "envelope_id", "required">>}
        \cup {<<"postures", c, "max_length">> : c \in DOMAIN PostureLongest}

\* The checks are added NOT VALID, whatever is stored.
MutantChecksNotValid ==
    /\ keyed
    /\ checks' = Declared
    /\ UNCHANGED <<db, keyed, firing>>

\* A check that a stored row breaks is left out, until the next time.
AddChecks ==
    /\ keyed
    /\ checks' = checks \cup {check \in Declared : ~Breaks(check)}
    /\ UNCHANGED <<db, keyed, firing>>

-----------------------------------------------------------------------------
(* What hosts and engines build is typed; what is sent may be anything. *)

ASSUME NullAssumption ==
    /\ Null \notin {"on_event", "fired", "inactive", TRUE, FALSE}
    /\ Garbled \notin {"on_event", "fired", "inactive", TRUE, FALSE}
    /\ Garbled # Null
ASSUME TypedAssumption ==
    /\ \A r \in RuleIds :
          /\ \A d \in Drafts[r], active \in BOOLEAN : Typed("rules", RuleData(d, active))
          /\ \A data \in RunData[r] : Typed("runs", data)
    /\ \A o \in Observations : Typed("postures", PostureData(o))
    /\ \A t \in Tables : \A given \in Settings[t] :
          \A data \in NewEntities(t, given) : Typed(t, data)
ASSUME PatternAssumption ==
    \A r \in RuleIds : \A d \in Drafts[r] : d.trigger_pattern \in Pattern \cup {Null}
ASSUME TextAssumption ==
    \A r \in RuleIds : \A d \in Drafts[r] :
        /\ {d.name, d.model} \subseteq Text
        /\ {d.description, d.time_field, d.created_by_source} \subseteq Text \cup {Null}
ASSUME BoundAssumption == U \in Nat \ {0, 1} /\ Arriving \subseteq EventTypes

-----------------------------------------------------------------------------
Administer(r) ==
    \/ \E d \in Drafts[r] : CreateRule(r, d) \/ ReplaceRule(r, d)
    \/ \E active \in BOOLEAN : SetActive(r, active)
    \/ DeleteRule(r)

Engine(r) ==
    \/ LoadRule(r)
    \/ \E x \in RunIds, data \in RunData[r] : RecordRun(x, r, data)
    \/ DropFire(r)

Bypass(t, id) ==
    \/ \E given \in Settings[t] : SaveNew(t, id, given)
    \/ \E body \in Posts[t] : Post(t, id, body)
    \/ \E body \in Puts[t] : Put(t, id, body)
    \/ \E patch \in Patches[t] : Patch(t, id, patch)
    \/ SoftDelete(t, id) \/ Restore(t, id) \/ Purge(t, id)

Next ==
    \/ \E r \in RuleIds : Administer(r) \/ Engine(r)
    \/ \E o \in Observations : RecordPosture(o)
    \/ \E t \in Tables : Rollback(t) \/ \E id \in Ids[t] \cap Generic : Bypass(t, id)
    \/ AddForeignKeys
    \/ AddChecks

Spec == Init /\ [][Next]_vars

-----------------------------------------------------------------------------
(* Properties. *)

\* The shape of the state: every row has its table's columns, a typed column
\* never holds a value that did not decode, nor a mandatory one none.
TypeOK ==
    /\ DOMAIN db = Tables
    /\ \A t \in Tables :
          /\ DOMAIN db[t] \subseteq Ids[t]
          /\ \A id \in DOMAIN db[t] :
                /\ db[t][id] = [data |-> db[t][id].data, deleted |-> db[t][id].deleted]
                /\ Typed(t, db[t][id].data)
                /\ db[t][id].deleted \in BOOLEAN
    /\ checks \subseteq Declared
    /\ keyed \in BOOLEAN
    /\ firing \subseteq RuleIds

\* A rule only the guarded service writes is, in every column, one draft that
\* was accepted, never parts of two, however creates, replacements,
\* activations and deletions of several hosts interleave.
RulesAreWhole ==
    \A r \in RuleIds \ Generic : Stored("rules", r) =>
        \E d \in Drafts[r] :
            /\ Validate(d)
            /\ db.rules[r].data = RuleData(d, db.rules[r].data.active)

\* What the guarded service stored, the engines can work with: they load it
\* with the trigger they need, and what they do again at fire time, parse_body
\* with all its bounds and validate_body_for_trigger, never refuses it.
BeltNeverNeeded ==
    \A r \in RuleIds \ Generic : Stored("rules", r) =>
        LET data == db.rules[r].data
        IN /\ IF data.trigger_kind = "on_time"
              THEN data.time_field # Null ELSE data.trigger_pattern # Null
           /\ data.actions \notin {Null, Garbled} /\ ParseBody(data.actions)
           /\ ValidateBodyForTrigger(data.trigger_kind = "on_deleted", data.actions)

\* How far a stored pattern reaches, segment by segment: `path.*` matches the
\* path and everything below it, and beyond that exactly what is under a path
\* whose last segment is a longer word, never a sibling that begins otherwise;
\* an exact pattern matches itself.
PatternsWatch ==
    \A r \in RuleIds \ Generic, type \in Arriving :
        Stored("rules", r) /\ db.rules[r].data.trigger_pattern # Null =>
            LET p == db.rules[r].data.trigger_pattern
            IN IF p.form = "prefix"
               THEN PatternMatches(p, type) <=> Under(type, p.path) \/ Strays(type, p.path)
               ELSE PatternMatches(p, type) <=> p.form = "any" \/ p.path = type

\* SPEC.md calls `sapiens.*` a one-level prefix, action_spec.rs a suffix wildcard:
\* what such a pattern matches has the path's segments.
WildcardsKeepToThePath ==
    \A r \in RuleIds \ Generic, type \in Arriving :
        Stored("rules", r) /\ db.rules[r].data.trigger_pattern # Null =>
            LET p == db.rules[r].data.trigger_pattern
            IN p.form = "prefix" /\ PatternMatches(p, type) => Under(type, p.path)

\* The row rules say all the database says: a request that the generated
\* service accepts is never refused by a CHECK, nor is a change of a stored
\* row that leaves its columns alone, whatever was stored before the CHECKs.
RowRulesSuffice ==
    \A t \in Tables :
        /\ \A body \in Posts[t] :
              CreateReads(t, body) /\ BrokenIn(t, Created(t, body)) = {}
                  => Fits(t, Created(t, body))
        /\ \A id \in Ids[t] : Live(t, id) =>
              LET before == db[t][id].data
                  after == {Updated(t, before, body) : body \in {b \in Puts[t] : UpdateReads(t, b)}}
                              \cup {EntityPatched(t, before, Unprotected(t, patch)) : patch \in Patches[t]}
              IN /\ Fits(t, before)
                 /\ \A data \in after :
                       Judged({before}, data, BrokenIn(t, data)) = {} => Fits(t, data)

\* What a GET answers can be PUT back and changes nothing, whatever was
\* stored before there were row rules, CHECKs and keys: no form loses a
\* column, and nothing is asked again of a column that does not change.
ResponsesRoundTrip ==
    \A t \in Tables : \A id \in Ids[t] : Live(t, id) =>
        LET data == db[t][id].data
            again == Updated(t, data, Response(t, data))
        IN /\ UpdateReads(t, Response(t, data))
           /\ Judged({data}, again, BrokenIn(t, again)) = {}
           /\ Storable(t, id, again)
           /\ again = data

\* The live rows of a table, with `more` others and fewer than U in all, are
\* each on exactly one of the pages a list announces, and walking the pages
\* by has_next ends with the last of them.
PagesPartition ==
    \A t \in Tables, more \in 0..(U - 1), per_page \in 1..(U - 1) :
        LET total == more + Cardinality({id \in Ids[t] : Live(t, id)})
        IN total < U => \A page \in 1..TotalPages(total, per_page) :
              /\ Offset(page, per_page) = (page - 1) * per_page
              /\ Offset(page, per_page) < total
              /\ HasNext(total, page, per_page) <=> page * per_page < total

\* A rule with a run history is retired, never removed out from under its
\* ledger: once the keys are in force no run loses the rule it refers to, and
\* none is written that refers to no rule.
NoNewOrphans ==
    [][keyed =>
        \A x \in DOMAIN db'.runs :
            LET rule == db'.runs[x].data.automation_id
            IN \/ rule \in DOMAIN db'.rules
               \/ /\ x \in DOMAIN db.runs /\ db.runs[x].data.automation_id = rule
                  /\ rule \notin DOMAIN db.rules
      ]_vars

\* What a host retired stays as it was: a replacement or an activation that
\* another host sends in the meantime finds no rule.
RetiredStaysRetired ==
    [][\A r \in RuleIds \ Generic :
          Stored("rules", r) /\ db.rules[r].deleted /\ r \in DOMAIN db'.rules
              => db'.rules[r] = db.rules[r]]_vars

\* The scheduler reads back the posture it recorded, whatever other rows the
\* generated service has put beside it.
ReadsBack ==
    [][\A o \in Observations :
          RecordPosture(o) =>
              /\ PostureRows(db'.postures) # {}
              /\ \A p \in PostureRows(db'.postures) :
                    \A c \in PostureFields \ {"singleton"} : db'.postures[p].data[c] = o[c]]_vars

\* A validated draft is ready to store, though the service counts bytes and
\* the database characters, each with bounds of its own, and names are trimmed
\* in between: of the CHECKs in force none ever refuses it but the one that
\* keeps descriptions to 500, where the service takes 2000.
AcceptedFits ==
    \A r \in RuleIds : \A d \in Drafts[r] :
        Validate(d) =>
            \A b \in BrokenIn("rules", RuleData(d, TRUE)) :
                <<"rules", b[1], b[2]>> \in checks =>
                    /\ b = <<"description", "max_length">>
                    /\ d.description # Null /\ d.description.chars > 500

=============================================================================
