--------------------------- MODULE ReactionEngine ---------------------------
(***************************************************************************)
(* The reaction engine (reaction_engine.rs) with everything it runs        *)
(* between: the integration bus that redelivers, the rule table the host   *)
(* administers while deliveries are in flight, the gateway slot, the inbox *)
(* claims, the run ledger and the outbox.                                  *)
(*                                                                         *)
(* One worker is one `handle` call and its database transaction, cut at    *)
(* the awaits where another transaction can be seen: the two rule loads,   *)
(* the inbox claim, the parent lookup, each rule's disposition, the        *)
(* commit.  Statements see what has been committed when they run (READ     *)
(* COMMITTED, the default of the pool the host passes in), so the rules a  *)
(* delivery works with may be stale by the time it fires.                  *)
(*                                                                         *)
(* Abstractions.                                                           *)
(*  - A trigger pattern is the set of event types it matches.              *)
(*  - Model keys are equal when the code's case-insensitive comparison     *)
(*    says so.                                                             *)
(*  - A body is the sequence of its actions' kinds; a kind outside         *)
(*    Vocabulary stands for any entry parse_body refuses.                  *)
(*  - An envelope id names what staged it; a run id is a number that no    *)
(*    row of the ledger or of an open transaction has, as a fresh uuid is. *)
(*  - Published outbox rows stay on the bus for ever: any of them may be   *)
(*    delivered again at any time, in any order, to several workers.       *)
(*                                                                         *)
(* A definition named Mutant... is one above it with a bug in it; no       *)
(* definition of the model uses it.                                        *)
(***************************************************************************)
EXTENDS Integers, Sequences, FiniteSets

CONSTANTS
    Workers,        \* the deliveries the host may have in flight at once
    RuleIds,        \* the rules there can be
    InitialRules,   \* the rule table at the start: RuleIds -> RuleRow or NoRule
    Drafts,         \* Drafts[r]: what the host may store for rule r, see Draft
    Retirable,      \* the rules the host may deactivate, reactivate or delete
    Corruptible,    \* the rules somebody may corrupt in the table by hand
    Corruptions,    \* the bodies that hand may leave there
    Overlong,       \* the kinds whose refusal is too long to be recorded
    Organic,        \* the envelopes other modules stage on their own
    Oversized,      \* those whose type or aggregate id no row has room for
    Unquotable,     \* <<pattern, source>>: too long for a row to quote them both
    Types,          \* event types, FiredType among them
    Models,         \* model keys and source contexts, Self among them
    FiredType,      \* "foundation_ext.automation.fired"
    Self,           \* the source context of this module's own events
    StagedType,     \* StagedType[k]: the event an action of kind k stages
    NoEvent,        \* StagedType[k] when the action stages none
    Accounting,     \* how adapters account for staged events, see EffectIds
    Refusing,       \* the rules whose actions the watched module refuses, or
                    \* answers with a summary that cannot be cut to fit
    CausalDepthCap, \* the configured cap
    RunIds,         \* the supply of run ids, never to run out in a check
    MaxFaults,      \* bound on the failures and crashes of a behaviour
    NoRule,         \* no row in the rule table
    NoEnvelope      \* a worker with nothing to do

Vocabulary == {"set_fields", "transition", "notify"}
MaxActionsPerRule == 10
EventKinds == {"on_event", "on_deleted"}
TriggerKinds == EventKinds \cup {"on_time"}
Statuses == {"fired", "suppressed_self_trigger", "depth_capped",
             "skipped_model_mismatch", "refused_body"}

\* No parent.
NoRun == 0

EnvelopeIds == [src : {"organic", "opaque", "effect", "fired", "due"}, n : Nat, k : Nat]
Envelopes == [id : EnvelopeIds, type : Types, source : Models, cause : Nat]

Bodies == Seq(DOMAIN StagedType)
Draft == [kind : TriggerKinds, pattern : SUBSET Types, model : Models, body : Bodies]
RuleRow == [kind : TriggerKinds, pattern : SUBSET Types, model : Models,
            body : Bodies, active : BOOLEAN, deleted : BOOLEAN]
LoadedRule == [id : RuleIds, kind : TriggerKinds, pattern : SUBSET Types,
               model : Models, body : Bodies]
Run == [id : RunIds, rule : RuleIds, trigger : TriggerKinds, status : Statuses,
        env : EnvelopeIds, parent : Nat, depth : Nat, body : Bodies,
        effects : SUBSET EnvelopeIds]

ASSUME CapAssumption == CausalDepthCap \in Int
ASSUME RunIdAssumption == RunIds \subseteq Nat \ {NoRun}
ASSUME FaultAssumption == MaxFaults \in Nat
ASSUME EventAssumption == FiredType \in Types /\ Self \in Models
ASSUME StagedAssumption ==
    /\ Vocabulary \subseteq DOMAIN StagedType
    /\ \A k \in DOMAIN StagedType : StagedType[k] \in Types \cup {NoEvent}
ASSUME AccountingAssumption == Accounting \subseteq {"reported", "token"}
ASSUME RuleAssumption ==
    /\ InitialRules \in [RuleIds -> RuleRow \cup {NoRule}]
    /\ Drafts \in [RuleIds -> SUBSET Draft]
    /\ NoRule \notin RuleRow
    /\ Retirable \subseteq RuleIds /\ Corruptible \subseteq RuleIds
    /\ Corruptions \subseteq Bodies
    /\ Overlong \subseteq DOMAIN StagedType \ Vocabulary
ASSUME OrganicAssumption ==
    /\ Organic \subseteq Envelopes /\ Oversized \subseteq Organic
    /\ NoEnvelope \notin Envelopes
    /\ Unquotable \subseteq (SUBSET Types) \X Models
    /\ \A e \in Organic : e.id.src \in {"organic", "opaque"} /\ e.cause = NoRun
\* An event's id is the primary key of its producer's outbox.
ASSUME EnvelopeIdAssumption == \A e, f \in Organic : e.id = f.id => e = f

VARIABLES
    rules,    \* foundation_automation_rules
    wired,    \* AutomationGatewaySlot: is an adapter installed
    bus,      \* the envelopes published so far
    acked,    \* the ids whose handler returned Ok: the relay is done with them
    inbox,    \* the committed claims of consumer foundation_ext.reaction
    runs,     \* the committed rows of foundation_automation_runs
    tx,       \* tx[w]: the handle call of worker w and its open transaction
    faults    \* failures and crashes so far

vars == <<rules, wired, bus, acked, inbox, runs, tx, faults>>
environment == <<rules, wired, bus, acked, faults>>
ledger == <<inbox, runs>>

-----------------------------------------------------------------------------
(* What the engine computes. *)

\* `new` clamps the configured cap.
Cap == IF CausalDepthCap < 1 THEN 1 ELSE CausalDepthCap

\* The cap on a body's actions is forgotten.
MutantAnyLength(body) == body # <<>> /\ \A i \in DOMAIN body : body[i] \in Vocabulary

ParseBody(body) ==
    /\ body # <<>>
    /\ Len(body) <= MaxActionsPerRule
    /\ \A i \in DOMAIN body : body[i] \in Vocabulary

TargetsRecord(action) == action \in {"set_fields", "transition"}

BodyLegalForTrigger(kind, body) ==
    kind = "on_deleted" => \A i \in DOMAIN body : ~TargetsRecord(body[i])

BodyAccepted(kind, body) == ParseBody(body) /\ BodyLegalForTrigger(kind, body)

\* parse_body's reason names the first entry it refuses, in full, and the
\* column it is recorded in takes 500 characters.
ReasonTooLong(body) ==
    /\ Len(body) <= MaxActionsPerRule
    /\ \E i \in DOMAIN body : /\ body[i] \in Overlong
                              /\ \A j \in 1..(i - 1) : body[j] \in Vocabulary

Stored(r) == rules[r] # NoRule
Live(r) == Stored(r) /\ ~rules[r].deleted

LoadRules(kind) ==
    {[id |-> r, kind |-> kind, pattern |-> rules[r].pattern,
      model |-> rules[r].model, body |-> rules[r].body] :
        r \in {s \in RuleIds : Live(s) /\ rules[s].active /\ rules[s].kind = kind}}

Matching(loaded, type) == {l \in loaded : type \in l.pattern}

\* The runs whose registry holds the envelope, else the run its token names.
ViaRegistry(e) == {x \in runs : e.id \in x.effects}
ViaToken(e) == {x \in runs : x.id = e.cause}
MutantRegistryOnly(e) == ViaRegistry(e)

ResolveParent(e) == IF ViaRegistry(e) # {} THEN ViaRegistry(e) ELSE ViaToken(e)

RuleProducedEvent(r, e) == \E x \in runs : x.rule = r /\ e.id \in x.effects

\* The cap leg forgotten; one hop too late; and a status the column's
\* enumeration does not have.
MutantNoCap(l, e, depth) ==
    IF e.source # l.model THEN "skipped_model_mismatch"
    ELSE IF RuleProducedEvent(l.id, e) THEN "suppressed_self_trigger"
    ELSE "fired"
MutantLateCap(l, e, depth) ==
    IF MutantNoCap(l, e, depth) = "fired" /\ depth > Cap + 1
    THEN "depth_capped" ELSE MutantNoCap(l, e, depth)
MutantUnknownStatus(l, e, depth) ==
    IF MutantNoCap(l, e, depth) = "fired" /\ depth > Cap
    THEN "capped" ELSE MutantNoCap(l, e, depth)

\* The legs of one rule's disposition, in the order the loop takes them.
Disposition(l, e, depth) ==
    IF e.source # l.model THEN "skipped_model_mismatch"
    ELSE IF RuleProducedEvent(l.id, e) THEN "suppressed_self_trigger"
    ELSE IF depth > Cap THEN "depth_capped"
    ELSE IF ~BodyAccepted(l.kind, l.body) THEN "refused_body"
    ELSE "fired"

-----------------------------------------------------------------------------
(* What a fire stages: the events of the watched modules' writes, and the  *)
(* module's own event, whose id is the run's.                              *)

FiredId(run) == [src |-> "fired", n |-> run, k |-> 0]
EffectId(run, i) == [src |-> "effect", n |-> run, k |-> i]

StagingActions(body) == {i \in DOMAIN body : StagedType[body[i]] # NoEvent}

\* The run's own event is not registered.
MutantOwnEventUnregistered(run, body, how) ==
    {EffectId(run, i) : i \in {j \in StagingActions(body) : how[j] = "reported"}}

\* The registry of a fire: what the adapter reported, and the run's own event.
\* how[i] = "token" is an adapter that could not report the id of action i's
\* event, whose module stamps the run's causation token on it instead.
EffectIds(run, body, how) ==
    {EffectId(run, i) : i \in {j \in StagingActions(body) : how[j] = "reported"}}
        \cup {FiredId(run)}

StagedEvents(run, l, how) ==
    {[id |-> EffectId(run, i), type |-> StagedType[l.body[i]], source |-> l.model,
      cause |-> IF how[i] = "token" THEN run ELSE NoRun] : i \in StagingActions(l.body)}

FiredEvent(run) ==
    [id |-> FiredId(run), type |-> FiredType, source |-> Self, cause |-> run]

-----------------------------------------------------------------------------
(* Transactions. *)

Idle == [pc |-> "idle", env |-> NoEnvelope, loaded |-> {}, todo |-> {},
         parent |-> NoRun, depth |-> 0, rows |-> {}, staged |-> {}]

Phases == {"idle", "loading", "loaded", "claimed", "firing", "done"}
InTransaction(w) == tx[w].pc \in {"loading", "loaded", "claimed", "firing"}
\* The claim row is inserted and not yet committed.
HoldsClaim(w) == tx[w].pc \in {"claimed", "firing"}

\* Uuid::new_v4: an id no row has.
UsedRuns == {x.id : x \in runs} \cup UNION {{x.id : x \in tx[w].rows} : w \in Workers}
FreshRun == CHOOSE i \in RunIds : i \notin UsedRuns
CanMint == ~(RunIds \subseteq UsedRuns)

\* The transaction is over and Ok is on its way.
Done(w) == [Idle EXCEPT !.pc = "done", !.env = tx[w].env]

\* Dropping the transaction gives back everything it did.
RollBack(w) == tx' = [tx EXCEPT ![w] = Idle]

Init ==
    /\ rules = InitialRules
    /\ wired = FALSE
    /\ bus = {}
    /\ acked = {}
    /\ inbox = {}
    /\ runs = {}
    /\ tx = [w \in Workers |-> Idle]
    /\ faults = 0

-----------------------------------------------------------------------------
(* The handler. *)

\* An id that is no uuid cannot be claimed: warn and return Ok.
SkipOpaque(w, e) ==
    /\ tx[w].pc = "idle"
    /\ e \in bus
    /\ e.id.src = "opaque"
    /\ acked' = acked \cup {e.id}
    /\ UNCHANGED <<rules, wired, bus, inbox, runs, tx, faults>>

\* A delivery or a redelivery: begin, and load the on_event rules.
Begin(w, e) ==
    /\ tx[w].pc = "idle"
    /\ e \in bus
    /\ e.id.src # "opaque"
    /\ tx' = [tx EXCEPT ![w] = [Idle EXCEPT !.pc = "loading", !.env = e,
                                            !.loaded = LoadRules("on_event")]]
    /\ UNCHANGED <<environment, ledger>>

\* The second pass of the load loop, a statement of its own.
LoadDeletedRules(w) ==
    /\ tx[w].pc = "loading"
    /\ tx' = [tx EXCEPT ![w].pc = "loaded",
                        ![w].loaded = @ \cup LoadRules("on_deleted")]
    /\ UNCHANGED <<environment, ledger>>

\* No live rule: commit without a claim.
NoRules(w) ==
    /\ tx[w].pc = "loaded"
    /\ tx[w].loaded = {}
    /\ tx' = [tx EXCEPT ![w] = Done(w)]
    /\ UNCHANGED <<environment, ledger>>

\* A redelivery is answered with Err.
MutantRedeliveryErr(w) ==
    /\ tx[w].pc = "loaded"
    /\ tx[w].loaded # {}
    /\ tx[w].env.id \in inbox
    /\ RollBack(w)
    /\ UNCHANGED <<environment, ledger>>

\* inbox::once finds a committed claim: a redelivery, a no-op.
AlreadyClaimed(w) ==
    /\ tx[w].pc = "loaded"
    /\ tx[w].loaded # {}
    /\ tx[w].env.id \in inbox
    /\ tx' = [tx EXCEPT ![w] = Done(w)]
    /\ UNCHANGED <<environment, ledger>>

\* The claim does not wait for another's; is not looked up; is not in the
\* transaction.
MutantClaimRaces(w) ==
    /\ tx[w].pc = "loaded"
    /\ tx[w].loaded # {}
    /\ tx[w].env.id \notin inbox
    /\ tx' = [tx EXCEPT ![w].pc = "claimed"]
    /\ UNCHANGED <<environment, ledger>>
MutantClaimAgain(w) ==
    /\ tx[w].pc = "loaded"
    /\ tx[w].loaded # {}
    /\ \A v \in Workers : HoldsClaim(v) => tx[v].env.id # tx[w].env.id
    /\ tx' = [tx EXCEPT ![w].pc = "claimed"]
    /\ UNCHANGED <<environment, ledger>>
MutantClaimOutside(w) ==
    /\ tx[w].pc = "loaded"
    /\ tx[w].loaded # {}
    /\ tx[w].env.id \notin inbox
    /\ tx' = [tx EXCEPT ![w].pc = "claimed"]
    /\ inbox' = inbox \cup {tx[w].env.id}
    /\ UNCHANGED <<environment, runs>>

\* inbox::once inserts the claim.  It waits while another open transaction
\* holds the same claim, until that one commits or rolls back.
Claim(w) ==
    /\ tx[w].pc = "loaded"
    /\ tx[w].loaded # {}
    /\ tx[w].env.id \notin inbox
    /\ \A v \in Workers : HoldsClaim(v) => tx[v].env.id # tx[w].env.id
    /\ tx' = [tx EXCEPT ![w].pc = "claimed"]
    /\ UNCHANGED <<environment, ledger>>

\* No pattern matches: the claim is committed and no row is written.
NoMatch(w) ==
    /\ tx[w].pc = "claimed"
    /\ Matching(tx[w].loaded, tx[w].env.type) = {}
    /\ inbox' = inbox \cup {tx[w].env.id}
    /\ tx' = [tx EXCEPT ![w] = Done(w)]
    /\ UNCHANGED <<environment, runs>>

\* resolve_parent, then the gateway is taken from its slot.
Resolve(w) ==
    /\ tx[w].pc = "claimed"
    /\ Matching(tx[w].loaded, tx[w].env.type) # {}
    /\ wired
    /\ \/ /\ ResolveParent(tx[w].env) = {}
          /\ tx' = [tx EXCEPT ![w].pc = "firing",
                              ![w].todo = Matching(tx[w].loaded, tx[w].env.type)]
       \/ \E p \in ResolveParent(tx[w].env) :
             tx' = [tx EXCEPT ![w].pc = "firing",
                              ![w].todo = Matching(tx[w].loaded, tx[w].env.type),
                              ![w].parent = p.id,
                              ![w].depth = p.depth + 1]
    /\ UNCHANGED <<environment, ledger>>

\* The slot is empty: Err, and the claim goes with the transaction.
NotComposed(w) ==
    /\ tx[w].pc = "claimed"
    /\ Matching(tx[w].loaded, tx[w].env.type) # {}
    /\ ~wired
    /\ RollBack(w)
    /\ UNCHANGED <<environment, ledger>>

\* The rule whose turn it may be: the order within one kind is the
\* database's, and all on_event rules come before the on_deleted ones.
Turn(w, l) ==
    /\ tx[w].pc = "firing"
    /\ l \in tx[w].todo
    /\ l.kind = "on_deleted" => \A m \in tx[w].todo : m.kind = "on_deleted"

RunRow(w, run, l, status, effects) ==
    [id |-> run, rule |-> l.id, trigger |-> l.kind, status |-> status,
     env |-> tx[w].env.id, parent |-> tx[w].parent, depth |-> tx[w].depth,
     body |-> l.body, effects |-> effects]

\* A CHECK of the run table refuses the row of rule l for envelope e.
RowRefused(l, e, status) ==
    \/ e \in Oversized
    \/ status = "refused_body" /\ ReasonTooLong(l.body)
    \/ status = "skipped_model_mismatch" /\ <<l.pattern, e.source>> \in Unquotable

\* Every leg but the last: a row that says why, and on to the next rule.
Dispose(w, l) ==
    LET status == Disposition(l, tx[w].env, tx[w].depth)
    IN /\ Turn(w, l)
       /\ status # "fired"
       /\ ~RowRefused(l, tx[w].env, status)
       /\ CanMint
       /\ tx' = [tx EXCEPT ![w].todo = @ \ {l},
                           ![w].rows = @ \cup {RunRow(w, FreshRun, l, status, {})}]
       /\ UNCHANGED <<environment, ledger>>

\* Every action is applied, the row is written and the fired event staged.
Fire(w, l) ==
    LET run == FreshRun
    IN /\ Turn(w, l)
       /\ Disposition(l, tx[w].env, tx[w].depth) = "fired"
       /\ l.id \notin Refusing
       /\ ~RowRefused(l, tx[w].env, "fired")
       /\ CanMint
       /\ \E how \in [StagingActions(l.body) -> Accounting] :
             tx' = [tx EXCEPT
                ![w].todo = @ \ {l},
                ![w].rows = @ \cup {RunRow(w, run, l, "fired", EffectIds(run, l.body, how))},
                ![w].staged = @ \cup StagedEvents(run, l, how) \cup {FiredEvent(run)}]
       /\ UNCHANGED <<environment, ledger>>

\* The first rule's disposition ends the loop; the outbox is not in the
\* transaction that commits.
MutantCommitEarly(w) ==
    /\ tx[w].pc = "firing"
    /\ tx[w].rows # {}
    /\ inbox' = inbox \cup {tx[w].env.id}
    /\ runs' = runs \cup tx[w].rows
    /\ bus' = bus \cup tx[w].staged
    /\ tx' = [tx EXCEPT ![w] = Done(w)]
    /\ UNCHANGED <<rules, wired, acked, faults>>
MutantOutboxLost(w) ==
    /\ tx[w].pc = "firing"
    /\ tx[w].todo = {}
    /\ inbox' = inbox \cup {tx[w].env.id}
    /\ runs' = runs \cup tx[w].rows
    /\ tx' = [tx EXCEPT ![w] = Done(w)]
    /\ UNCHANGED environment

Commit(w) ==
    /\ tx[w].pc = "firing"
    /\ tx[w].todo = {}
    /\ inbox' = inbox \cup {tx[w].env.id}
    /\ runs' = runs \cup tx[w].rows
    /\ bus' = bus \cup tx[w].staged
    /\ tx' = [tx EXCEPT ![w] = Done(w)]
    /\ UNCHANGED <<rules, wired, acked, faults>>

\* Ok reaches the bus, which stops driving the envelope.
Return(w) ==
    /\ tx[w].pc = "done"
    /\ acked' = acked \cup {tx[w].env.id}
    /\ tx' = [tx EXCEPT ![w] = Idle]
    /\ UNCHANGED <<rules, wired, bus, ledger, faults>>

\* A refusal skips the rule.
MutantRefusalSkips(w, l) ==
    /\ Turn(w, l)
    /\ Disposition(l, tx[w].env, tx[w].depth) = "fired"
    /\ l.id \in Refusing
    /\ tx' = [tx EXCEPT ![w].todo = @ \ {l}]
    /\ UNCHANGED <<environment, ledger>>

\* The watched module refuses an action of this rule: Err for the envelope.
GatewayRefused(w, l) ==
    /\ Turn(w, l)
    /\ Disposition(l, tx[w].env, tx[w].depth) = "fired"
    /\ l.id \in Refusing
    /\ RollBack(w)
    /\ UNCHANGED <<environment, ledger>>

\* What was staged outlives the transaction.
MutantStagedSurvives(w) ==
    /\ faults < MaxFaults
    /\ tx[w].pc # "idle"
    /\ RollBack(w)
    /\ faults' = faults + 1
    /\ bus' = bus \cup tx[w].staged
    /\ UNCHANGED <<rules, wired, acked, ledger>>

\* The insert that is refused is passed over; it takes the rule with it.
MutantInsertSwallowed(w, l) ==
    /\ Turn(w, l)
    /\ RowRefused(l, tx[w].env, Disposition(l, tx[w].env, tx[w].depth))
    /\ tx' = [tx EXCEPT ![w].todo = @ \ {l}]
    /\ UNCHANGED <<environment, ledger>>

\* record_run fails: Err, and the envelope comes again, to fail again.
LedgerRefused(w, l) ==
    /\ Turn(w, l)
    /\ RowRefused(l, tx[w].env, Disposition(l, tx[w].env, tx[w].depth))
    /\ RollBack(w)
    /\ UNCHANGED <<environment, ledger>>

\* Any other `?` of the handler, or a crash: the transaction is dropped.  After
\* the commit only the answer to the bus is lost.
Fail(w) ==
    /\ faults < MaxFaults
    /\ tx[w].pc # "idle"
    /\ RollBack(w)
    /\ faults' = faults + 1
    /\ UNCHANGED <<rules, wired, bus, acked, ledger>>
-----------------------------------------------------------------------------
(* The host and the rest of the system. *)

\* Another module's relay publishes an envelope of its own.
Publish(e) ==
    /\ e \in Organic \ bus
    /\ bus' = bus \cup {e}
    /\ UNCHANGED <<rules, wired, acked, ledger, tx, faults>>

\* install_gateway, once at compose time.
Install ==
    /\ ~wired
    /\ wired' = TRUE
    /\ UNCHANGED <<rules, bus, acked, ledger, tx, faults>>

\* RuleDraft::validate, as far as the engine can tell.
ValidDraft(d) ==
    /\ BodyAccepted(d.kind, d.body)
    /\ d.kind \in EventKinds => d.pattern # {}

Row(d, active) ==
    [kind |-> d.kind, pattern |-> d.pattern, model |-> d.model, body |-> d.body,
     active |-> active, deleted |-> FALSE]

ChangeRule(r, row) ==
    /\ rules' = [rules EXCEPT ![r] = row]
    /\ UNCHANGED <<wired, bus, acked, ledger, tx, faults>>

CreateRule(r, d) ==
    /\ ~Stored(r)
    /\ ValidDraft(d)
    /\ ChangeRule(r, Row(d, TRUE))

ReplaceRule(r, d) ==
    /\ Live(r)
    /\ ValidDraft(d)
    /\ ChangeRule(r, Row(d, rules[r].active))

SetActive(r, active) ==
    /\ Live(r)
    /\ ChangeRule(r, [rules[r] EXCEPT !.active = active])

DeleteRule(r) ==
    /\ Live(r)
    /\ ChangeRule(r, [rules[r] EXCEPT !.deleted = TRUE])

\* Somebody overwrites the stored body by hand, past the service.
CorruptRule(r, body) ==
    /\ Stored(r)
    /\ ChangeRule(r, [rules[r] EXCEPT !.body = body])

-----------------------------------------------------------------------------
Step(w) ==
    \/ LoadDeletedRules(w)
    \/ NoRules(w)
    \/ AlreadyClaimed(w)
    \/ Claim(w)
    \/ NoMatch(w)
    \/ Resolve(w)
    \/ NotComposed(w)
    \/ \E l \in tx[w].todo : \/ Dispose(w, l) \/ Fire(w, l)
                             \/ GatewayRefused(w, l) \/ LedgerRefused(w, l)
    \/ Commit(w)
    \/ Return(w)

Deliver(w, e) == SkipOpaque(w, e) \/ Begin(w, e)

Administer ==
    \/ \E r \in RuleIds : \E d \in Drafts[r] : CreateRule(r, d) \/ ReplaceRule(r, d)
    \/ \E r \in Retirable : DeleteRule(r) \/ \E active \in BOOLEAN : SetActive(r, active)
    \/ \E r \in Corruptible, body \in Corruptions : CorruptRule(r, body)

Next ==
    \/ \E w \in Workers : Step(w) \/ Fail(w) \/ \E e \in bus : Deliver(w, e)
    \/ \E e \in Organic : Publish(e)
    \/ Install
    \/ Administer

Spec == Init /\ [][Next]_vars

\* The relay's part: an envelope it has no Ok for is driven again.
Drive == \E w \in Workers, e \in bus : e.id \notin acked /\ Deliver(w, e)

\* Handlers run once started, the relay drives what is not acknowledged, and
\* the host composes the gateway in the end.  Nothing is assumed of producers,
\* of rule administration or of failures.
Fairness ==
    /\ \A w \in Workers : WF_vars(Step(w))
    /\ SF_vars(Drive)
    /\ WF_vars(Install)

FairSpec == Spec /\ Fairness

-----------------------------------------------------------------------------
(* Properties. *)

TxRecord == [pc : Phases, env : Envelopes \cup {NoEnvelope},
             loaded : SUBSET LoadedRule, todo : SUBSET LoadedRule,
             parent : Nat, depth : Nat, rows : SUBSET Run, staged : SUBSET Envelopes]

\* The shape of the state.
TypeOK ==
    /\ rules \in [RuleIds -> RuleRow \cup {NoRule}]
    /\ wired \in BOOLEAN
    /\ bus \subseteq Envelopes
    /\ acked \subseteq EnvelopeIds
    /\ inbox \subseteq EnvelopeIds
    /\ runs \subseteq Run
    /\ tx \in [Workers -> TxRecord]
    /\ faults \in 0..MaxFaults

\* At-least-once in, exactly-once effect: however often an envelope is
\* delivered, to however many workers at a time, and whatever fails, a rule
\* loaded under a trigger kind has at most one row for it in the ledger.
AtMostOnceDisposed ==
    \A x, y \in runs :
        x.env = y.env /\ x.rule = y.rule /\ x.trigger = y.trigger => x = y

\* The same, said of the rule alone, as the documents say it.  The two rule
\* loads are two statements, so this needs rules that keep their event kind.
AtMostOncePerRule ==
    \A x, y \in runs : x.env = y.env /\ x.rule = y.rule => x = y

KeepsKind(r) ==
    \A d \in Drafts[r] : /\ d.kind \in EventKinds
                         /\ \A c \in Drafts[r] : c.kind = d.kind
                         /\ InitialRules[r] # NoRule => d.kind = InitialRules[r].kind

\* Every row counts one hop more than the run that staged its envelope, which
\* fired before it; only the rows of envelopes other modules staged are at
\* depth 0.  So no chain of automations forgets how long it is.
CausalDepth ==
    \A x \in runs :
        IF x.env.src \in {"effect", "fired"}
        THEN \E p \in runs : /\ p.id = x.parent
                             /\ p.id = x.env.n
                             /\ p.status = "fired"
                             /\ x.depth = p.depth + 1
        ELSE x.parent = NoRun /\ x.depth = 0

\* The causal depth cap: nothing fires beyond it, a capped row is the first
\* beyond it, and nothing lies deeper.
DepthBounded ==
    \A x \in runs : /\ x.status = "fired" => x.depth <= Cap
                    /\ x.status = "depth_capped" => x.depth = Cap + 1
                    /\ x.depth <= Cap + 1

\* Self-exclusion: no rule fires on an envelope one of its own fires staged.
NoSelfTrigger ==
    \A x, y \in runs :
        x.status = "fired" /\ x.env.src \in {"effect", "fired"} /\ x.env.n = y.id
            => x.rule # y.rule

\* No phantom fires: an automation's envelopes are on the bus exactly when the
\* ledger says the run fired, and every row stands for a committed claim.
NoPhantomFires ==
    /\ \A e \in bus : e.id.src \in {"effect", "fired"} =>
            \E x \in runs : x.id = e.id.n /\ x.status = "fired"
    /\ \A x \in runs : /\ x.env \in inbox
                       /\ x.status = "fired" <=> FiredEvent(x.id) \in bus
                       /\ \A i \in x.effects : \E e \in bus : e.id = i

\* The belt: whatever is done to the table while deliveries are in flight, a
\* body outside the vocabulary, past the cap, or one that writes to a deleted
\* record, does not fire.
FiredBodiesAreLegal ==
    \A x \in runs :
        x.status = "fired" =>
            /\ Len(x.body) \in 1..MaxActionsPerRule
            /\ \A i \in DOMAIN x.body :
                  x.body[i] \in IF x.trigger = "on_deleted" THEN {"notify"} ELSE Vocabulary

\* A rule that is stored and active all along.
Standing(r) == r \notin Retirable /\ InitialRules[r] # NoRule /\ InitialRules[r].active
                 /\ ~InitialRules[r].deleted

\* The patterns a rule may ever have all match the type.
AlwaysMatches(r, type) ==
    type \in InitialRules[r].pattern /\ \A d \in Drafts[r] : type \in d.pattern

\* No silent miss: when the relay has its Ok for an envelope, every rule that
\* watched for it all along has its row, whichever delivery wrote it.
AnsweredMeansDisposed ==
    \A e \in bus, r \in RuleIds :
        /\ e.id \in acked /\ e.id.src # "opaque"
        /\ Standing(r) /\ AlwaysMatches(r, e.type)
        => \E x \in runs : x.rule = r /\ x.env = e.id

\* What must go wrong with an envelope another module staged, when it meets a
\* rule nobody touches: the gateway refuses, or no row can say what happened.
Doomed(e, r) ==
    LET l == InitialRules[r]
    IN \/ e \in Oversized
       \/ e.source # l.model /\ <<l.pattern, e.source>> \in Unquotable
       \/ /\ e.source = l.model
          /\ IF BodyAccepted(l.kind, l.body) THEN r \in Refusing ELSE ReasonTooLong(l.body)

\* A failure takes everything back: an envelope on which a standing rule fails
\* is never claimed, answered or recorded, for any rule and after any number of
\* deliveries.
RefusalRollsBackAll ==
    \A e \in bus, r \in RuleIds :
        /\ Standing(r) /\ r \notin Corruptible /\ Drafts[r] = {}
        /\ InitialRules[r].kind \in EventKinds
        /\ e.id.src = "organic" /\ e.type \in InitialRules[r].pattern
        /\ Doomed(e, r)
        => /\ e.id \notin inbox \cup acked
           /\ \A x \in runs : x.env # e.id

\* One transaction for one envelope: the step that commits a claim commits, in
\* the same step, one row for every rule the delivery matched, and no other.
CommitIsWhole ==
    [][\A w \in Workers :
          HoldsClaim(w) /\ tx[w].env.id \in inbox' \ inbox =>
              LET new == runs' \ runs
              IN /\ \A x \in new : x.env = tx[w].env.id
                 /\ \A l \in Matching(tx[w].loaded, tx[w].env.type) :
                       \E x \in new : x.rule = l.id /\ x.trigger = l.kind
                 /\ \A x \in new : \E l \in Matching(tx[w].loaded, tx[w].env.type) :
                       x.rule = l.id /\ x.trigger = l.kind
      ]_vars

\* Every cascade dies: in the end the relay has an Ok for everything ever
\* published, the automations' own envelopes included.
CascadeQuiesces == <>[](\A e \in bus : e.id \in acked)

\* The engine, its workers, failures and redeliveries hidden, is a ledger that
\* handles each envelope at most once and in one step.
Ledger == INSTANCE AutomationLedger
          WITH Organic <- Organic, Cap <- Cap, NoRun <- NoRun,
               bus <- bus, inbox <- inbox, runs <- runs
Implements == Ledger!Spec

=============================================================================
