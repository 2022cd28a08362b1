------------------------ MODULE ReactionEngineProofs ------------------------
EXTENDS ReactionEngine, TLAPS

USE DEF EventKinds, TriggerKinds, NoRun

\* A worker that is not idle works on a published envelope.
BusyOnPublished == \A w \in Workers : tx[w].pc # "idle" => tx[w].env \in bus

TypeInv == TypeOK /\ BusyOnPublished

LEMMA LoadRulesType ==
    ASSUME TypeOK, NEW kind \in TriggerKinds
    PROVE  LoadRules(kind) \subseteq LoadedRule
<1> SUFFICES ASSUME NEW r \in RuleIds, rules[r] # NoRule
             PROVE  [id |-> r, kind |-> kind, pattern |-> rules[r].pattern,
                     model |-> rules[r].model, body |-> rules[r].body] \in LoadedRule
    BY DEF LoadRules, Live, Stored
<1>1. rules[r] \in RuleRow
    BY DEF TypeOK
<1> QED
    BY <1>1 DEF RuleRow, LoadedRule

LEMMA IdleType == Idle \in TxRecord
BY DEF Idle, TxRecord, Phases

LEMMA InitType == Init => TypeInv
<1> SUFFICES ASSUME Init PROVE TypeInv
    OBVIOUS
<1>1. TypeOK
    <2>1. rules \in [RuleIds -> RuleRow \cup {NoRule}]
        BY RuleAssumption DEF Init
    <2>2. wired \in BOOLEAN
        BY DEF Init
    <2>3. tx \in [Workers -> TxRecord]
        BY IdleType DEF Init
    <2>4. faults \in 0..MaxFaults
        BY FaultAssumption DEF Init
    <2> QED
        BY <2>1, <2>2, <2>3, <2>4 DEF Init, TypeOK
<1>2. BusyOnPublished
    BY DEF Init, BusyOnPublished, Idle
<1> QED
    BY <1>1, <1>2 DEF TypeInv

\* A step of one worker that leaves everything but its transaction alone.
LEMMA WorkerStepType ==
    ASSUME TypeInv, NEW w \in Workers, NEW t \in TxRecord,
           tx' = [tx EXCEPT ![w] = t],
           t.pc # "idle" => t.env \in bus,
           UNCHANGED <<environment, ledger>>
    PROVE  TypeInv'
<1>1. TypeOK'
    BY DEF TypeInv, TypeOK, environment, ledger
<1>2. BusyOnPublished'
    BY DEF TypeInv, TypeOK, BusyOnPublished, environment
<1> QED
    BY <1>1, <1>2 DEF TypeInv

LEMMA EnvelopeIdType ==
    ASSUME TypeInv, NEW w \in Workers, tx[w].pc # "idle"
    PROVE  /\ tx[w] \in TxRecord
           /\ tx[w].env \in bus
           /\ tx[w].env \in Envelopes
           /\ tx[w].env.id \in EnvelopeIds
BY DEF TypeInv, TypeOK, BusyOnPublished, Envelopes

LEMMA BeginType ==
    ASSUME TypeInv, NEW w \in Workers, NEW e \in bus, Begin(w, e)
    PROVE  TypeInv'
<1> DEFINE t == [Idle EXCEPT !.pc = "loading", !.env = e, !.loaded = LoadRules("on_event")]
<1>1. LoadRules("on_event") \subseteq LoadedRule
    BY LoadRulesType DEF TypeInv
<1>2. t \in TxRecord
    BY <1>1 DEF Idle, TxRecord, Phases, TypeInv, TypeOK
<1>3. t.env \in bus
    BY DEF Idle
<1> QED
    BY <1>2, <1>3, WorkerStepType DEF Begin

LEMMA LoadDeletedRulesType ==
    ASSUME TypeInv, NEW w \in Workers, LoadDeletedRules(w)
    PROVE  TypeInv'
<1> DEFINE t == [tx[w] EXCEPT !.pc = "loaded", !.loaded = @ \cup LoadRules("on_deleted")]
<1>1. LoadRules("on_deleted") \subseteq LoadedRule
    BY LoadRulesType DEF TypeInv
<1>2. tx[w] \in TxRecord /\ tx[w].env \in bus
    BY EnvelopeIdType DEF LoadDeletedRules
<1>3. t \in TxRecord
    BY <1>1, <1>2 DEF TxRecord, Phases
<1>4. t.env \in bus
    BY <1>2 DEF TxRecord
<1>5. tx' = [tx EXCEPT ![w] = t]
    BY DEF LoadDeletedRules, TypeInv, TypeOK
<1> QED
    BY <1>3, <1>4, <1>5, WorkerStepType DEF LoadDeletedRules

LEMMA DoneType ==
    ASSUME TypeInv, NEW w \in Workers, tx[w].pc # "idle"
    PROVE  Done(w) \in TxRecord /\ Done(w).env \in bus /\ Done(w).env = tx[w].env
<1>1. tx[w].env \in bus /\ tx[w].env \in Envelopes
    BY EnvelopeIdType
<1> QED
    BY <1>1 DEF Done, Idle, TxRecord, Phases

LEMMA QuietStepType ==
    ASSUME TypeInv, NEW w \in Workers,
           NoRules(w) \/ AlreadyClaimed(w) \/ Claim(w) \/ NotComposed(w)
             \/ \E l \in tx[w].todo : GatewayRefused(w, l) \/ LedgerRefused(w, l)
    PROVE  TypeInv'
<1>1. CASE NoRules(w) \/ AlreadyClaimed(w)
    BY <1>1, DoneType, WorkerStepType DEF NoRules, AlreadyClaimed, Done
<1>2. CASE Claim(w)
    <2> DEFINE t == [tx[w] EXCEPT !.pc = "claimed"]
    <2>1. tx[w] \in TxRecord /\ tx[w].env \in bus
        BY <1>2, EnvelopeIdType DEF Claim
    <2>2. t \in TxRecord /\ t.env \in bus
        BY <2>1 DEF TxRecord, Phases
    <2>3. tx' = [tx EXCEPT ![w] = t]
        BY <1>2 DEF Claim, TypeInv, TypeOK
    <2> QED
        BY <1>2, <2>2, <2>3, WorkerStepType DEF Claim
<1>3. CASE NotComposed(w) \/ \E l \in tx[w].todo : GatewayRefused(w, l) \/ LedgerRefused(w, l)
    <2>1. Idle.pc = "idle"
        BY DEF Idle
    <2> QED
        BY <1>3, <2>1, IdleType, WorkerStepType DEF NotComposed, GatewayRefused, LedgerRefused, RollBack
<1> QED
    BY <1>1, <1>2, <1>3

LEMMA ResolveType ==
    ASSUME TypeInv, NEW w \in Workers, Resolve(w)
    PROVE  TypeInv'
<1> DEFINE matched == Matching(tx[w].loaded, tx[w].env.type)
<1> DEFINE organic == [tx[w] EXCEPT !.pc = "firing", !.todo = matched]
<1> DEFINE caused(p) == [tx[w] EXCEPT !.pc = "firing", !.todo = matched,
                                      !.parent = p.id, !.depth = p.depth + 1]
<1>1. tx[w] \in TxRecord /\ tx[w].env \in bus
    BY EnvelopeIdType DEF Resolve
<1>2. matched \subseteq LoadedRule
    BY <1>1 DEF Matching, TxRecord
<1>3. CASE tx' = [tx EXCEPT ![w].pc = "firing", ![w].todo = matched]
    <2>1. organic \in TxRecord /\ organic.env \in bus
        BY <1>1, <1>2 DEF TxRecord, Phases
    <2>2. tx' = [tx EXCEPT ![w] = organic]
        BY <1>3 DEF TypeInv, TypeOK
    <2> QED
        BY <2>1, <2>2, WorkerStepType DEF Resolve
<1>4. CASE \E p \in ResolveParent(tx[w].env) :
             tx' = [tx EXCEPT ![w].pc = "firing", ![w].todo = matched,
                              ![w].parent = p.id, ![w].depth = p.depth + 1]
    <2>1. PICK p \in ResolveParent(tx[w].env) :
             tx' = [tx EXCEPT ![w].pc = "firing", ![w].todo = matched,
                              ![w].parent = p.id, ![w].depth = p.depth + 1]
        BY <1>4
    <2>2. p \in Run
        BY DEF ResolveParent, ViaRegistry, ViaToken, TypeInv, TypeOK
    <2>3. p.id \in Nat /\ p.depth + 1 \in Nat
        <3>1. p.id \in RunIds /\ p.depth \in Nat
            BY <2>2 DEF Run
        <3>2. p.id \in Nat
            BY <3>1, RunIdAssumption
        <3>3. p.depth + 1 \in Nat
            BY <3>1
        <3> QED
            BY <3>2, <3>3
    <2>4. caused(p) \in TxRecord /\ caused(p).env \in bus
        BY <1>1, <1>2, <2>3 DEF TxRecord, Phases
    <2>5. tx' = [tx EXCEPT ![w] = caused(p)]
        BY <2>1 DEF TypeInv, TypeOK
    <2> QED
        BY <2>4, <2>5, WorkerStepType DEF Resolve
<1> QED
    BY <1>3, <1>4 DEF Resolve

LEMMA TurnType ==
    ASSUME TypeInv, NEW w \in Workers, NEW l, Turn(w, l)
    PROVE  /\ tx[w] \in TxRecord
           /\ tx[w].env \in bus /\ tx[w].env.id \in EnvelopeIds
           /\ l \in LoadedRule /\ l \in tx[w].todo
           /\ tx[w].pc = "firing"
<1>1. tx[w].pc = "firing" /\ l \in tx[w].todo
    BY DEF Turn
<1>2. tx[w] \in TxRecord /\ tx[w].env \in bus /\ tx[w].env.id \in EnvelopeIds
    BY <1>1, EnvelopeIdType
<1>3. l \in LoadedRule
    BY <1>1, <1>2 DEF TxRecord
<1> QED
    BY <1>1, <1>2, <1>3

LEMMA FreshRunIsFresh ==
    ASSUME CanMint
    PROVE  FreshRun \in RunIds /\ FreshRun \notin UsedRuns
BY DEF CanMint, FreshRun

LEMMA RunRowType ==
    ASSUME TypeInv, NEW w \in Workers, NEW l, Turn(w, l), NEW run \in RunIds,
           NEW status \in Statuses, NEW effects \in SUBSET EnvelopeIds
    PROVE  RunRow(w, run, l, status, effects) \in Run
<1>1. tx[w] \in TxRecord /\ tx[w].env.id \in EnvelopeIds /\ l \in LoadedRule
    BY TurnType
<1>2. /\ l.id \in RuleIds /\ l.kind \in TriggerKinds /\ l.body \in Bodies
      /\ tx[w].parent \in Nat /\ tx[w].depth \in Nat
    BY <1>1 DEF LoadedRule, TxRecord
<1> QED
    BY <1>1, <1>2 DEF RunRow, Run

LEMMA DisposeType ==
    ASSUME TypeInv, NEW w \in Workers, NEW l, Dispose(w, l)
    PROVE  TypeInv'
<1> DEFINE status == Disposition(l, tx[w].env, tx[w].depth)
<1> DEFINE row == RunRow(w, FreshRun, l, status, {})
<1> DEFINE t == [tx[w] EXCEPT !.todo = @ \ {l}, !.rows = @ \cup {row}]
<1>1. tx[w] \in TxRecord /\ tx[w].env \in bus /\ Turn(w, l)
    BY TurnType DEF Dispose
<1>2. status \in Statuses
    BY DEF Disposition, Statuses
<1>3. row \in Run
    BY <1>1, <1>2, FreshRunIsFresh, RunRowType DEF Dispose
<1>4. t \in TxRecord /\ t.env \in bus
    <2> HIDE DEF row
    <2> QED
        BY <1>1, <1>3 DEF TxRecord
<1>5. tx' = [tx EXCEPT ![w] = t]
    <2>1. tx' = [tx EXCEPT ![w].todo = @ \ {l}, ![w].rows = @ \cup {row}]
        BY DEF Dispose
    <2> HIDE DEF row
    <2> QED
        BY <2>1 DEF TypeInv, TypeOK
<1> QED
    BY <1>4, <1>5, WorkerStepType DEF Dispose

LEMMA StagedType_ ==
    ASSUME NEW l \in LoadedRule, NEW run \in RunIds, NEW how
    PROVE  /\ EffectIds(run, l.body, how) \subseteq EnvelopeIds
           /\ StagedEvents(run, l, how) \subseteq Envelopes
           /\ FiredEvent(run) \in Envelopes
<1>1. run \in Nat
    BY RunIdAssumption
<1>2. l.body \in Bodies /\ l.model \in Models
    BY DEF LoadedRule
<1>3. \A i \in DOMAIN l.body : i \in Nat /\ l.body[i] \in DOMAIN StagedType
    BY <1>2 DEF Bodies
<1>4. \A i \in StagingActions(l.body) :
          i \in Nat /\ EffectId(run, i) \in EnvelopeIds /\ StagedType[l.body[i]] \in Types
    BY <1>1, <1>3, StagedAssumption DEF StagingActions, EffectId, EnvelopeIds
<1>5. FiredId(run) \in EnvelopeIds
    BY <1>1 DEF FiredId, EnvelopeIds
<1>6. EffectIds(run, l.body, how) \subseteq EnvelopeIds
    BY <1>4, <1>5 DEF EffectIds
<1>7. StagedEvents(run, l, how) \subseteq Envelopes
    BY <1>1, <1>2, <1>4 DEF StagedEvents, Envelopes
<1>8. FiredEvent(run) \in Envelopes
    BY <1>1, <1>5, EventAssumption DEF FiredEvent, Envelopes
<1> QED
    BY <1>6, <1>7, <1>8

LEMMA FireType ==
    ASSUME TypeInv, NEW w \in Workers, NEW l, Fire(w, l)
    PROVE  TypeInv'
<1> DEFINE run == FreshRun
<1>1. /\ tx[w] \in TxRecord /\ tx[w].env \in bus
      /\ Turn(w, l) /\ l \in LoadedRule /\ run \in RunIds
    BY TurnType, FreshRunIsFresh DEF Fire
<1>2. PICK how \in [StagingActions(l.body) -> Accounting] :
          tx' = [tx EXCEPT
                ![w].todo = @ \ {l},
                ![w].rows = @ \cup {RunRow(w, run, l, "fired", EffectIds(run, l.body, how))},
                ![w].staged = @ \cup StagedEvents(run, l, how) \cup {FiredEvent(run)}]
    BY DEF Fire
<1> DEFINE row == RunRow(w, run, l, "fired", EffectIds(run, l.body, how))
<1> DEFINE events == StagedEvents(run, l, how) \cup {FiredEvent(run)}
<1> DEFINE t == [tx[w] EXCEPT !.todo = @ \ {l}, !.rows = @ \cup {row},
                              !.staged = @ \cup events]
<1> HIDE DEF run
<1>3. row \in Run /\ events \subseteq Envelopes
    BY <1>1, StagedType_, RunRowType DEF Statuses
<1>4. tx' = [tx EXCEPT ![w].todo = @ \ {l}, ![w].rows = @ \cup {row},
                       ![w].staged = @ \cup events]
    BY <1>2
<1> HIDE DEF row, events
<1>5. t \in TxRecord /\ t.env \in bus
    BY <1>1, <1>3 DEF TxRecord
<1>6. tx' = [tx EXCEPT ![w] = t]
    BY <1>4 DEF TypeInv, TypeOK
<1> QED
    BY <1>5, <1>6, WorkerStepType DEF Fire

\* The steps that end a transaction or its call.
LEMMA EndStepType ==
    ASSUME TypeInv, NEW w \in Workers, NoMatch(w) \/ Commit(w) \/ Return(w) \/ Fail(w)
    PROVE  TypeInv'
<1>1. CASE NoMatch(w)
    <2>1. Done(w) \in TxRecord /\ Done(w).env \in bus /\ tx[w].env.id \in EnvelopeIds
        BY <1>1, DoneType, EnvelopeIdType DEF NoMatch
    <2>2. tx' = [tx EXCEPT ![w] = Done(w)]
        BY <1>1 DEF NoMatch, Done
    <2>3. TypeOK'
        BY <1>1, <2>1, <2>2 DEF NoMatch, TypeInv, TypeOK, environment
    <2>4. BusyOnPublished'
        BY <1>1, <2>1, <2>2 DEF NoMatch, TypeInv, TypeOK, BusyOnPublished, environment
    <2> QED
        BY <2>3, <2>4 DEF TypeInv
<1>2. CASE Commit(w)
    <2>1. /\ Done(w) \in TxRecord /\ Done(w).env \in bus
          /\ tx[w] \in TxRecord /\ tx[w].env.id \in EnvelopeIds
        BY <1>2, DoneType, EnvelopeIdType DEF Commit
    <2>2. tx[w].rows \subseteq Run /\ tx[w].staged \subseteq Envelopes
        BY <2>1 DEF TxRecord
    <2>3. tx' = [tx EXCEPT ![w] = Done(w)]
        BY <1>2 DEF Commit, Done
    <2>4. TypeOK'
        BY <1>2, <2>1, <2>2, <2>3 DEF Commit, TypeInv, TypeOK
    <2>5. BusyOnPublished'
        BY <1>2, <2>1, <2>3 DEF Commit, TypeInv, TypeOK, BusyOnPublished
    <2> QED
        BY <2>4, <2>5 DEF TypeInv
<1>3. CASE Return(w)
    <2>1. tx[w].env.id \in EnvelopeIds
        BY <1>3, EnvelopeIdType DEF Return
    <2>2. TypeOK'
        BY <1>3, <2>1, IdleType DEF Return, TypeInv, TypeOK, ledger
    <2>3. BusyOnPublished'
        BY <1>3 DEF Return, TypeInv, TypeOK, BusyOnPublished, Idle
    <2> QED
        BY <2>2, <2>3 DEF TypeInv
<1>4. CASE Fail(w)
    <2>1. faults' \in 0..MaxFaults
        BY <1>4, FaultAssumption DEF Fail, TypeInv, TypeOK
    <2>2. TypeOK'
        BY <1>4, <2>1, IdleType DEF Fail, RollBack, TypeInv, TypeOK, ledger
    <2>3. BusyOnPublished'
        BY <1>4 DEF Fail, RollBack, TypeInv, TypeOK, BusyOnPublished, Idle
    <2> QED
        BY <2>2, <2>3 DEF TypeInv
<1> QED
    BY <1>1, <1>2, <1>3, <1>4

LEMMA RowType ==
    ASSUME NEW d \in Draft, NEW active \in BOOLEAN
    PROVE  Row(d, active) \in RuleRow
BY DEF Row, Draft, RuleRow

LEMMA ChangeRuleType ==
    ASSUME TypeInv, NEW r \in RuleIds, NEW row \in RuleRow, ChangeRule(r, row)
    PROVE  TypeInv'
<1>1. TypeOK'
    BY DEF ChangeRule, TypeInv, TypeOK, ledger
<1>2. BusyOnPublished'
    BY DEF ChangeRule, TypeInv, BusyOnPublished
<1> QED
    BY <1>1, <1>2 DEF TypeInv

LEMMA AdministerType ==
    ASSUME TypeInv, Administer
    PROVE  TypeInv'
<1> USE RuleAssumption
<1>1. ASSUME NEW r \in RuleIds, rules[r] # NoRule
      PROVE  rules[r] \in RuleRow
    BY <1>1 DEF TypeInv, TypeOK
<1>2. ASSUME NEW r \in RuleIds, NEW d \in Drafts[r], CreateRule(r, d) \/ ReplaceRule(r, d)
      PROVE  TypeInv'
    <2>1. d \in Draft
        OBVIOUS
    <2>2. CASE CreateRule(r, d)
        BY <2>1, <2>2, RowType, ChangeRuleType DEF CreateRule
    <2>3. CASE ReplaceRule(r, d)
        <3>1. rules[r].active \in BOOLEAN
            BY <2>3, <1>1 DEF ReplaceRule, Live, Stored, RuleRow
        <3> QED
            BY <2>1, <2>3, <3>1, RowType, ChangeRuleType DEF ReplaceRule
    <2> QED
        BY <1>2, <2>2, <2>3
<1>3. ASSUME NEW r \in Retirable, DeleteRule(r) PROVE TypeInv'
    <2>1. [rules[r] EXCEPT !.deleted = TRUE] \in RuleRow
        BY <1>1, <1>3 DEF DeleteRule, Live, Stored, RuleRow
    <2> QED
        BY <1>3, <2>1, ChangeRuleType DEF DeleteRule
<1>4. ASSUME NEW r \in Retirable, NEW active \in BOOLEAN, SetActive(r, active) PROVE TypeInv'
    <2>1. [rules[r] EXCEPT !.active = active] \in RuleRow
        BY <1>1, <1>4 DEF SetActive, Live, Stored, RuleRow
    <2> QED
        BY <1>4, <2>1, ChangeRuleType DEF SetActive
<1>5. ASSUME NEW r \in Corruptible, NEW body \in Corruptions, CorruptRule(r, body)
      PROVE  TypeInv'
    <2>1. body \in Bodies
        BY RuleAssumption
    <2>2. [rules[r] EXCEPT !.body = body] \in RuleRow
        BY <1>1, <1>5, <2>1 DEF CorruptRule, Stored, RuleRow
    <2> QED
        BY <1>5, <2>2, ChangeRuleType DEF CorruptRule
<1> QED
    BY <1>2, <1>3, <1>4, <1>5 DEF Administer

LEMMA EnvironmentType ==
    ASSUME TypeInv,
           \/ \E e \in Organic : Publish(e)
           \/ Install
           \/ \E w \in Workers, e \in bus : SkipOpaque(w, e)
    PROVE  TypeInv'
<1>1. ASSUME NEW e \in Organic, Publish(e) PROVE TypeInv'
    <2>1. TypeOK'
        BY <1>1, OrganicAssumption DEF Publish, TypeInv, TypeOK, ledger
    <2>2. BusyOnPublished'
        BY <1>1 DEF Publish, TypeInv, BusyOnPublished
    <2> QED
        BY <2>1, <2>2 DEF TypeInv
<1>2. CASE Install
    <2>1. wired' \in BOOLEAN
        BY <1>2 DEF Install
    <2>2. TypeOK'
        BY <1>2, <2>1 DEF Install, TypeInv, TypeOK, ledger
    <2>3. BusyOnPublished'
        BY <1>2 DEF Install, TypeInv, BusyOnPublished
    <2> QED
        BY <2>2, <2>3 DEF TypeInv
<1>3. ASSUME NEW w \in Workers, NEW e \in bus, SkipOpaque(w, e) PROVE TypeInv'
    <2>1. e.id \in EnvelopeIds
        BY DEF TypeInv, TypeOK, Envelopes
    <2>2. TypeOK'
        BY <1>3, <2>1 DEF SkipOpaque, TypeInv, TypeOK
    <2>3. BusyOnPublished'
        BY <1>3 DEF SkipOpaque, TypeInv, BusyOnPublished
    <2> QED
        BY <2>2, <2>3 DEF TypeInv
<1> QED
    BY <1>1, <1>2, <1>3

LEMMA NextType == TypeInv /\ [Next]_vars => TypeInv'
<1> SUFFICES ASSUME TypeInv, [Next]_vars PROVE TypeInv'
    OBVIOUS
<1>1. ASSUME NEW w \in Workers, Step(w) PROVE TypeInv'
    BY <1>1, LoadDeletedRulesType, QuietStepType, ResolveType, DisposeType, FireType,
       EndStepType DEF Step
<1>2. ASSUME NEW w \in Workers, Fail(w) PROVE TypeInv'
    BY <1>2, EndStepType
<1>3. ASSUME NEW w \in Workers, NEW e \in bus, Deliver(w, e) PROVE TypeInv'
    BY <1>3, BeginType, EnvironmentType DEF Deliver
<1>4. CASE Administer
    BY <1>4, AdministerType
<1>5. CASE (\E e \in Organic : Publish(e)) \/ Install
    BY <1>5, EnvironmentType
<1>6. CASE UNCHANGED vars
    BY <1>6 DEF vars, TypeInv, TypeOK, BusyOnPublished
<1> QED
    BY <1>1, <1>2, <1>3, <1>4, <1>5, <1>6 DEF Next

\* Type correctness: whatever rules, workers, adapters and failures there are,
\* the engine's state keeps the shape of the tables and of the handler's locals.
THEOREM TypeCorrect == Spec => []TypeOK
<1>1. Spec => []TypeInv
    BY InitType, NextType, PTL DEF Spec
<1>2. TypeInv => TypeOK
    BY DEF TypeInv
<1> QED
    BY <1>1, <1>2, PTL

-----------------------------------------------------------------------------
(* Exactly-once effect.                                                    *)
(*                                                                         *)
(* AtMostOnceDisposed is not inductive: the rows a worker is about to      *)
(* commit are not yet in the ledger.  What makes it so is said of the      *)
(* claims (a row stands for a committed claim, an open claim is of an      *)
(* envelope nobody has committed, and of no other worker's) and of each    *)
(* open transaction (its rows are of its own envelope, one for a rule and  *)
(* kind, and of no rule still to come).                                    *)

ClaimInv ==
    /\ \A x \in runs : x.env \in inbox
    /\ \A w \in Workers : HoldsClaim(w) => tx[w].env.id \notin inbox
    /\ \A v, w \in Workers :
          HoldsClaim(v) /\ HoldsClaim(w) /\ tx[v].env.id = tx[w].env.id => v = w

TxOnce(t) ==
    /\ t.pc # "firing" => t.rows = {}
    /\ t.pc = "loading" => \A l \in t.loaded : l.kind = "on_event"
    /\ \A l, m \in t.loaded : l.id = m.id /\ l.kind = m.kind => l = m
    /\ t.todo \subseteq t.loaded
    /\ \A x \in t.rows : x.env = t.env.id
    /\ \A x \in t.rows, l \in t.todo : ~(x.rule = l.id /\ x.trigger = l.kind)
    /\ \A x, y \in t.rows : x.rule = y.rule /\ x.trigger = y.trigger => x = y

UniqueInv == ClaimInv /\ (\A w \in Workers : TxOnce(tx[w])) /\ AtMostOnceDisposed

OnceInv == TypeInv /\ UniqueInv

LEMMA IdleOnce == TxOnce(Idle) /\ Idle.pc = "idle"
BY DEF TxOnce, Idle

\* A step of one worker that commits nothing: it may only take a free claim.
LEMMA WorkerStepOnce ==
    ASSUME OnceInv, NEW w \in Workers, NEW t \in TxRecord,
           tx' = [tx EXCEPT ![w] = t],
           TxOnce(t),
           t.pc \in {"claimed", "firing"} =>
               /\ t.env.id \notin inbox
               /\ \A v \in Workers \ {w} : HoldsClaim(v) => tx[v].env.id # t.env.id,
           inbox' = inbox, runs' = runs
    PROVE  UniqueInv'
<1>1. /\ tx'[w] = t
      /\ \A v \in Workers \ {w} : tx'[v] = tx[v]
    BY DEF OnceInv, TypeInv, TypeOK
<1>2. ClaimInv'
    <2>1. \A v \in Workers \ {w} : HoldsClaim(v)' <=> HoldsClaim(v)
        BY <1>1 DEF HoldsClaim
    <2>2. HoldsClaim(w)' <=> t.pc \in {"claimed", "firing"}
        BY <1>1 DEF HoldsClaim
    <2> QED
        BY <1>1, <2>1, <2>2 DEF OnceInv, UniqueInv, ClaimInv
<1>3. \A v \in Workers : TxOnce(tx[v])'
    BY <1>1 DEF OnceInv, UniqueInv, TxOnce
<1>4. AtMostOnceDisposed'
    BY DEF OnceInv, UniqueInv, AtMostOnceDisposed
<1> QED
    BY <1>2, <1>3, <1>4 DEF UniqueInv

LEMMA LoadRulesOnce ==
    ASSUME NEW kind
    PROVE  /\ \A l \in LoadRules(kind) : l.kind = kind
           /\ \A l, m \in LoadRules(kind) : l.id = m.id => l = m
BY DEF LoadRules

LEMMA LoadOnce ==
    ASSUME OnceInv, NEW w \in Workers,
           LoadDeletedRules(w) \/ \E e \in bus : Begin(w, e)
    PROVE  UniqueInv'
<1>1. ASSUME NEW e \in bus, Begin(w, e) PROVE UniqueInv'
    <2> DEFINE t == [Idle EXCEPT !.pc = "loading", !.env = e,
                                 !.loaded = LoadRules("on_event")]
    <2>1. LoadRules("on_event") \subseteq LoadedRule
        BY LoadRulesType DEF OnceInv, TypeInv
    <2>2. t \in TxRecord
        BY <2>1 DEF Idle, TxRecord, Phases, OnceInv, TypeInv, TypeOK
    <2>3. TxOnce(t) /\ t.pc = "loading"
        BY LoadRulesOnce DEF TxOnce, Idle
    <2> QED
        BY <1>1, <2>2, <2>3, WorkerStepOnce DEF Begin, ledger
<1>2. CASE LoadDeletedRules(w)
    <2> DEFINE deleted == LoadRules("on_deleted")
    <2> DEFINE t == [tx[w] EXCEPT !.pc = "loaded", !.loaded = @ \cup deleted]
    <2>1. deleted \subseteq LoadedRule
        BY LoadRulesType DEF OnceInv, TypeInv
    <2>2. tx[w] \in TxRecord /\ TxOnce(tx[w]) /\ tx[w].pc = "loading"
        BY <1>2, EnvelopeIdType DEF LoadDeletedRules, OnceInv, UniqueInv
    <2>3. /\ \A l \in deleted : l.kind = "on_deleted"
          /\ \A l, m \in deleted : l.id = m.id => l = m
        BY LoadRulesOnce
    <2> HIDE DEF deleted
    <2>4. t \in TxRecord /\ t.pc = "loaded"
        BY <2>1, <2>2 DEF TxRecord, Phases
    <2>5. TxOnce(t)
        BY <2>2, <2>3 DEF TxOnce, TxRecord
    <2>6. tx' = [tx EXCEPT ![w] = t]
        BY <1>2 DEF LoadDeletedRules, deleted, OnceInv, TypeInv, TypeOK
    <2> QED
        BY <1>2, <2>4, <2>5, <2>6, WorkerStepOnce DEF LoadDeletedRules, ledger
<1> QED
    BY <1>1, <1>2

\* A worker that lets go of its claim, or holds none, and commits nothing.
LEMMA ReleaseOnce ==
    ASSUME OnceInv, NEW w \in Workers,
           \/ NoRules(w) \/ AlreadyClaimed(w) \/ NotComposed(w)
           \/ \E l \in tx[w].todo : GatewayRefused(w, l) \/ LedgerRefused(w, l)
           \/ Return(w) \/ Fail(w)
    PROVE  UniqueInv'
<1>1. CASE NoRules(w) \/ AlreadyClaimed(w)
    <2>1. Done(w) \in TxRecord
        BY <1>1, DoneType DEF NoRules, AlreadyClaimed, OnceInv
    <2>2. TxOnce(Done(w)) /\ Done(w).pc = "done"
        BY DEF Done, Idle, TxOnce
    <2> QED
        BY <1>1, <2>1, <2>2, WorkerStepOnce DEF NoRules, AlreadyClaimed, Done, ledger
<1>2. CASE \/ NotComposed(w) \/ \E l \in tx[w].todo : GatewayRefused(w, l) \/ LedgerRefused(w, l)
           \/ Return(w) \/ Fail(w)
    <2>1. tx' = [tx EXCEPT ![w] = Idle] /\ inbox' = inbox /\ runs' = runs
        BY <1>2 DEF NotComposed, GatewayRefused, LedgerRefused, Return, Fail, RollBack, ledger
    <2> QED
        BY <2>1, IdleType, IdleOnce, WorkerStepOnce
<1> QED
    BY <1>1, <1>2

LEMMA ClaimOnce ==
    ASSUME OnceInv, NEW w \in Workers, Claim(w) \/ Resolve(w)
    PROVE  UniqueInv'
<1>1. tx[w] \in TxRecord /\ TxOnce(tx[w])
    BY EnvelopeIdType DEF Claim, Resolve, OnceInv, UniqueInv
<1>2. CASE Claim(w)
    <2> DEFINE t == [tx[w] EXCEPT !.pc = "claimed"]
    <2>1. t \in TxRecord /\ t.env = tx[w].env
        BY <1>1 DEF TxRecord, Phases
    <2>2. TxOnce(t)
        BY <1>1, <1>2 DEF TxOnce, TxRecord, Claim
    <2>3. tx' = [tx EXCEPT ![w] = t]
        BY <1>2 DEF Claim, OnceInv, TypeInv, TypeOK
    <2>4. /\ t.env.id \notin inbox
          /\ \A v \in Workers \ {w} : HoldsClaim(v) => tx[v].env.id # t.env.id
        BY <1>2, <2>1 DEF Claim
    <2> QED
        BY <1>2, <2>1, <2>2, <2>3, <2>4, WorkerStepOnce DEF Claim, ledger
<1>3. CASE Resolve(w)
    <2> DEFINE matched == Matching(tx[w].loaded, tx[w].env.type)
    <2>1. matched \subseteq tx[w].loaded
        BY DEF Matching
    <2> HIDE DEF matched
    <2>2. \E parent \in Nat, depth \in Nat :
             tx' = [tx EXCEPT ![w] = [tx[w] EXCEPT !.pc = "firing", !.todo = matched,
                                                   !.parent = parent, !.depth = depth]]
        <3>1. CASE tx' = [tx EXCEPT ![w].pc = "firing", ![w].todo = matched]
            <4>1. tx' = [tx EXCEPT ![w] = [tx[w] EXCEPT !.pc = "firing", !.todo = matched,
                             !.parent = tx[w].parent, !.depth = tx[w].depth]]
                BY <1>1, <3>1 DEF OnceInv, TypeInv, TypeOK, TxRecord
            <4>2. tx[w].parent \in Nat /\ tx[w].depth \in Nat
                BY <1>1 DEF TxRecord
            <4> QED
                BY <4>1, <4>2
        <3>2. ASSUME NEW p \in ResolveParent(tx[w].env),
                     tx' = [tx EXCEPT ![w].pc = "firing", ![w].todo = matched,
                                      ![w].parent = p.id, ![w].depth = p.depth + 1]
              PROVE  \E parent \in Nat, depth \in Nat :
                        tx' = [tx EXCEPT ![w] = [tx[w] EXCEPT !.pc = "firing",
                                 !.todo = matched, !.parent = parent, !.depth = depth]]
            <4>1. p \in Run
                BY DEF ResolveParent, ViaRegistry, ViaToken, OnceInv, TypeInv, TypeOK
            <4>2. p.id \in RunIds /\ p.depth \in Nat
                BY <4>1 DEF Run
            <4>3. p.id \in Nat
                BY <4>2, RunIdAssumption
            <4>4. p.depth + 1 \in Nat
                BY <4>2
            <4>5. tx' = [tx EXCEPT ![w] = [tx[w] EXCEPT !.pc = "firing", !.todo = matched,
                                      !.parent = p.id, !.depth = p.depth + 1]]
                BY <1>1, <3>2 DEF OnceInv, TypeInv, TypeOK, TxRecord
            <4> QED
                BY <4>3, <4>4, <4>5
        <3> QED
            BY <1>3, <3>1, <3>2 DEF Resolve, matched
    <2>3. PICK parent \in Nat, depth \in Nat :
             tx' = [tx EXCEPT ![w] = [tx[w] EXCEPT !.pc = "firing", !.todo = matched,
                                                   !.parent = parent, !.depth = depth]]
        BY <2>2
    <2> DEFINE t == [tx[w] EXCEPT !.pc = "firing", !.todo = matched,
                                  !.parent = parent, !.depth = depth]
    <2>4. t \in TxRecord /\ t.env = tx[w].env
        BY <1>1, <2>1 DEF TxRecord, Phases
    <2>5. TxOnce(t)
        BY <1>1, <1>3, <2>1 DEF TxOnce, TxRecord, Resolve
    <2>6. /\ t.env.id \notin inbox
          /\ \A v \in Workers \ {w} : HoldsClaim(v) => tx[v].env.id # t.env.id
        BY <1>3, <2>4 DEF Resolve, HoldsClaim, OnceInv, UniqueInv, ClaimInv
    <2> QED
        BY <1>3, <2>3, <2>4, <2>5, <2>6, WorkerStepOnce DEF Resolve, ledger
<1> QED
    BY <1>2, <1>3

\* One rule's turn: its row joins the transaction's and the rule is done with.
LEMMA TurnOnce ==
    ASSUME OnceInv, NEW w \in Workers, NEW l, Turn(w, l),
           NEW row \in Run, row.env = tx[w].env.id, row.rule = l.id, row.trigger = l.kind,
           NEW staged \in SUBSET Envelopes,
           tx' = [tx EXCEPT ![w] = [tx[w] EXCEPT !.todo = @ \ {l}, !.rows = @ \cup {row},
                                                 !.staged = staged]],
           inbox' = inbox, runs' = runs
    PROVE  UniqueInv'
<1> DEFINE t == [tx[w] EXCEPT !.todo = @ \ {l}, !.rows = @ \cup {row}, !.staged = staged]
<1>1. /\ tx[w] \in TxRecord /\ TxOnce(tx[w]) /\ HoldsClaim(w)
      /\ l \in LoadedRule /\ l \in tx[w].todo /\ tx[w].pc = "firing"
    BY TurnType DEF OnceInv, UniqueInv, HoldsClaim
<1>2. t \in TxRecord /\ t.env = tx[w].env /\ t.pc = "firing"
    BY <1>1 DEF TxRecord
<1>3. TxOnce(t)
    <2>1. /\ t.rows = tx[w].rows \cup {row} /\ t.todo = tx[w].todo \ {l}
          /\ t.loaded = tx[w].loaded
        BY <1>1 DEF TxRecord
    <2>2. \A x, y \in t.rows : x.rule = y.rule /\ x.trigger = y.trigger => x = y
        BY <1>1, <2>1 DEF TxOnce
    <2>3. \A x \in t.rows, m \in t.todo : ~(x.rule = m.id /\ x.trigger = m.kind)
        BY <1>1, <2>1 DEF TxOnce
    <2>4. \A x \in t.rows : x.env = t.env.id
        BY <1>1, <1>2, <2>1 DEF TxOnce
    <2> HIDE DEF t
    <2> QED
        BY <1>1, <1>2, <2>1, <2>2, <2>3, <2>4 DEF TxOnce
<1>4. /\ t.env.id \notin inbox
      /\ \A v \in Workers \ {w} : HoldsClaim(v) => tx[v].env.id # t.env.id
    BY <1>1, <1>2 DEF OnceInv, UniqueInv, ClaimInv
<1> QED
    BY <1>2, <1>3, <1>4, WorkerStepOnce

LEMMA DisposeOnce ==
    ASSUME OnceInv, NEW w \in Workers, NEW l, Dispose(w, l)
    PROVE  UniqueInv'
<1> DEFINE status == Disposition(l, tx[w].env, tx[w].depth)
<1> DEFINE row == RunRow(w, FreshRun, l, status, {})
<1>1. Turn(w, l) /\ tx[w] \in TxRecord
    BY TurnType DEF Dispose, OnceInv
<1>2. row \in Run
    BY <1>1, FreshRunIsFresh, RunRowType DEF Dispose, Disposition, Statuses, OnceInv
<1>3. row.env = tx[w].env.id /\ row.rule = l.id /\ row.trigger = l.kind
    BY DEF RunRow
<1>4. tx' = [tx EXCEPT ![w].todo = @ \ {l}, ![w].rows = @ \cup {row}]
    BY DEF Dispose
<1>5. inbox' = inbox /\ runs' = runs
    BY DEF Dispose, ledger
<1> HIDE DEF row
<1>6. /\ tx[w].staged \in SUBSET Envelopes
      /\ tx' = [tx EXCEPT ![w] = [tx[w] EXCEPT !.todo = @ \ {l}, !.rows = @ \cup {row},
                                                !.staged = tx[w].staged]]
    BY <1>1, <1>4 DEF OnceInv, TypeInv, TypeOK, TxRecord
<1> QED
    BY <1>1, <1>2, <1>3, <1>5, <1>6, TurnOnce

LEMMA FireOnce ==
    ASSUME OnceInv, NEW w \in Workers, NEW l, Fire(w, l)
    PROVE  UniqueInv'
<1> DEFINE run == FreshRun
<1>1. Turn(w, l) /\ tx[w] \in TxRecord /\ l \in LoadedRule /\ run \in RunIds
    BY TurnType, FreshRunIsFresh DEF Fire, OnceInv
<1>2. PICK how \in [StagingActions(l.body) -> Accounting] :
          tx' = [tx EXCEPT
                ![w].todo = @ \ {l},
                ![w].rows = @ \cup {RunRow(w, run, l, "fired", EffectIds(run, l.body, how))},
                ![w].staged = @ \cup StagedEvents(run, l, how) \cup {FiredEvent(run)}]
    BY DEF Fire
<1> DEFINE row == RunRow(w, run, l, "fired", EffectIds(run, l.body, how))
<1> DEFINE staged == tx[w].staged \cup StagedEvents(run, l, how) \cup {FiredEvent(run)}
<1> HIDE DEF run
<1>3. row \in Run
    BY <1>1, StagedType_, RunRowType DEF Statuses, OnceInv
<1>4. row.env = tx[w].env.id /\ row.rule = l.id /\ row.trigger = l.kind
    BY DEF RunRow
<1>5. staged \in SUBSET Envelopes
    BY <1>1, StagedType_ DEF TxRecord
<1>6. inbox' = inbox /\ runs' = runs
    BY DEF Fire, ledger
<1>7. tx' = [tx EXCEPT ![w].todo = @ \ {l}, ![w].rows = @ \cup {row}, ![w].staged = staged]
    BY <1>2 DEF OnceInv, TypeInv, TypeOK
<1> HIDE DEF row, staged
<1>8. tx' = [tx EXCEPT ![w] = [tx[w] EXCEPT !.todo = @ \ {l}, !.rows = @ \cup {row},
                                            !.staged = staged]]
    BY <1>7 DEF OnceInv, TypeInv, TypeOK
<1> QED
    BY <1>1, <1>3, <1>4, <1>5, <1>6, <1>8, TurnOnce

\* The commits: the claim becomes the inbox's, the rows the ledger's.
LEMMA CommitOnce ==
    ASSUME OnceInv, NEW w \in Workers, NoMatch(w) \/ Commit(w)
    PROVE  UniqueInv'
<1> DEFINE id == tx[w].env.id
<1>1. tx[w] \in TxRecord /\ TxOnce(tx[w]) /\ HoldsClaim(w)
    BY EnvelopeIdType DEF NoMatch, Commit, HoldsClaim, OnceInv, UniqueInv
<1>2. tx' = [tx EXCEPT ![w] = Done(w)] /\ inbox' = inbox \cup {id}
    BY DEF NoMatch, Commit, Done
<1>3. runs' = runs \cup tx[w].rows
    BY <1>1 DEF NoMatch, Commit, TxOnce
<1>4. TxOnce(Done(w)) /\ Done(w).pc = "done"
    BY DEF TxOnce, Done, Idle
<1>5. /\ tx'[w] = Done(w)
      /\ \A v \in Workers \ {w} : tx'[v] = tx[v]
    BY <1>2 DEF OnceInv, TypeInv, TypeOK
<1>6. ClaimInv'
    <2>1. \A x \in tx[w].rows : x.env = id
        BY <1>1 DEF TxOnce
    <2>2. \A v \in Workers : HoldsClaim(v)' => v # w /\ HoldsClaim(v) /\ tx'[v] = tx[v]
        BY <1>4, <1>5 DEF HoldsClaim
    <2>3. \A v \in Workers \ {w} : HoldsClaim(v) => tx[v].env.id # id
        BY <1>1 DEF OnceInv, UniqueInv, ClaimInv
    <2> QED
        BY <1>2, <1>3, <2>1, <2>2, <2>3 DEF OnceInv, UniqueInv, ClaimInv
<1>7. \A v \in Workers : TxOnce(tx[v])'
    BY <1>4, <1>5 DEF OnceInv, UniqueInv, TxOnce
<1>8. AtMostOnceDisposed'
    <2>1. id \notin inbox
        BY <1>1 DEF OnceInv, UniqueInv, ClaimInv
    <2>2. /\ \A x \in runs : x.env # id
          /\ \A x \in tx[w].rows : x.env = id
        BY <1>1, <2>1 DEF OnceInv, UniqueInv, ClaimInv, TxOnce
    <2> QED
        BY <1>1, <1>3, <2>2 DEF OnceInv, UniqueInv, AtMostOnceDisposed, TxOnce
<1> QED
    BY <1>6, <1>7, <1>8 DEF UniqueInv

LEMMA NextOnce == OnceInv /\ [Next]_vars => OnceInv'
<1> SUFFICES ASSUME OnceInv, [Next]_vars PROVE UniqueInv'
    BY NextType DEF OnceInv
<1>1. ASSUME NEW w \in Workers, Step(w) PROVE UniqueInv'
    BY <1>1, LoadOnce, ReleaseOnce, ClaimOnce, DisposeOnce, FireOnce, CommitOnce DEF Step
<1>2. ASSUME NEW w \in Workers, Fail(w) PROVE UniqueInv'
    BY <1>2, ReleaseOnce
<1>3. ASSUME NEW w \in Workers, NEW e \in bus, Begin(w, e) PROVE UniqueInv'
    BY <1>3, LoadOnce
<1>4. ASSUME UNCHANGED <<tx, inbox, runs>> PROVE UniqueInv'
    BY <1>4 DEF OnceInv, UniqueInv, ClaimInv, HoldsClaim, TxOnce, AtMostOnceDisposed
<1>5. ASSUME NEW w \in Workers, NEW e \in bus, SkipOpaque(w, e)
      PROVE  UNCHANGED <<tx, inbox, runs>>
    BY <1>5 DEF SkipOpaque
<1>6. ASSUME (\E e \in Organic : Publish(e)) \/ Install
      PROVE  UNCHANGED <<tx, inbox, runs>>
    BY <1>6 DEF Publish, Install, ledger
<1>7. ASSUME Administer PROVE UNCHANGED <<tx, inbox, runs>>
    BY <1>7 DEF Administer, CreateRule, ReplaceRule, SetActive, DeleteRule, CorruptRule,
                ChangeRule, ledger
<1>8. ASSUME UNCHANGED vars PROVE UNCHANGED <<tx, inbox, runs>>
    BY <1>8 DEF vars
<1> QED
    BY <1>1, <1>2, <1>3, <1>4, <1>5, <1>6, <1>7, <1>8 DEF Next, Deliver

\* Exactly-once effect (reaction_engine.rs, the contract): for any number of
\* deliveries, workers, rules, crashes and changes to the rule table, no rule
\* has two rows for one envelope under one trigger kind.
THEOREM ExactlyOnce == Spec => []AtMostOnceDisposed
<1>1. Init => OnceInv
    <2> SUFFICES ASSUME Init PROVE UniqueInv
        BY InitType DEF OnceInv
    <2> QED
        BY IdleOnce DEF Init, UniqueInv, ClaimInv, HoldsClaim, AtMostOnceDisposed
<1>2. OnceInv => AtMostOnceDisposed
    BY DEF OnceInv, UniqueInv
<1> QED
    BY <1>1, <1>2, NextOnce, PTL DEF Spec

-----------------------------------------------------------------------------
(* The rule alone.  If replace_rule never moves a rule between the event   *)
(* kinds, every row of a rule has the kind the rule is stored under, and   *)
(* the trigger kind in AtMostOnceDisposed says nothing more.               *)

StoredAs(r, kind) == r \in RuleIds /\ Stored(r) /\ rules[r].kind = kind

KindInv ==
    /\ \A r \in RuleIds : Stored(r) =>
          \/ InitialRules[r] # NoRule /\ rules[r].kind = InitialRules[r].kind
          \/ \E d \in Drafts[r] : d.kind = rules[r].kind
    /\ \A w \in Workers : /\ \A l \in tx[w].loaded : StoredAs(l.id, l.kind)
                          /\ \A x \in tx[w].rows : StoredAs(x.rule, x.trigger)
    /\ \A x \in runs : StoredAs(x.rule, x.trigger)

LEMMA ChangeRuleKind ==
    ASSUME TypeInv, KindInv, NEW r \in RuleIds, NEW row \in RuleRow, ChangeRule(r, row),
           \/ Stored(r) /\ row.kind = rules[r].kind
           \/ ~Stored(r) /\ \E d \in Drafts[r] : d.kind = row.kind
    PROVE  KindInv'
<1>1. /\ rules' = [rules EXCEPT ![r] = row] /\ tx' = tx /\ runs' = runs
      /\ rules \in [RuleIds -> RuleRow \cup {NoRule}]
    BY DEF ChangeRule, ledger, TypeInv, TypeOK
<1>2. row # NoRule
    BY RuleAssumption
<1>3. \A s, kind : StoredAs(s, kind) => StoredAs(s, kind)'
    BY <1>1, <1>2 DEF StoredAs, Stored
<1>4. \A s \in RuleIds : Stored(s)' =>
          \/ InitialRules[s] # NoRule /\ rules'[s].kind = InitialRules[s].kind
          \/ \E d \in Drafts[s] : d.kind = rules'[s].kind
    BY <1>1, <1>2 DEF Stored, KindInv
<1> QED
    BY <1>1, <1>3, <1>4 DEF KindInv

LEMMA AdministerKind ==
    ASSUME TypeInv, KindInv, Administer, \A r \in RuleIds : KeepsKind(r)
    PROVE  KindInv'
<1> USE RuleAssumption
<1>1. ASSUME NEW r \in RuleIds, Stored(r) PROVE rules[r] \in RuleRow
    BY <1>1 DEF Stored, TypeInv, TypeOK
<1>2. ASSUME NEW r \in RuleIds, NEW d \in Drafts[r], CreateRule(r, d) \/ ReplaceRule(r, d)
      PROVE  KindInv'
    <2>1. d \in Draft /\ \A active : Row(d, active).kind = d.kind
        BY DEF Row
    <2>2. CASE CreateRule(r, d)
        BY <2>1, <2>2, RowType, ChangeRuleKind DEF CreateRule
    <2>3. CASE ReplaceRule(r, d)
        <3>1. Stored(r) /\ rules[r].active \in BOOLEAN
            BY <2>3, <1>1 DEF ReplaceRule, Live, RuleRow
        <3>2. d.kind = rules[r].kind
            BY <3>1 DEF KeepsKind, KindInv
        <3> QED
            BY <2>1, <2>3, <3>1, <3>2, RowType, ChangeRuleKind DEF ReplaceRule
    <2> QED
        BY <1>2, <2>2, <2>3
<1>3. ASSUME NEW r \in Retirable, DeleteRule(r) PROVE KindInv'
    <2> DEFINE row == [rules[r] EXCEPT !.deleted = TRUE]
    <2>1. Stored(r) /\ row \in RuleRow /\ row.kind = rules[r].kind
        BY <1>1, <1>3 DEF DeleteRule, Live, RuleRow
    <2> QED
        BY <1>3, <2>1, ChangeRuleKind DEF DeleteRule
<1>4. ASSUME NEW r \in Retirable, NEW active \in BOOLEAN, SetActive(r, active) PROVE KindInv'
    <2> DEFINE row == [rules[r] EXCEPT !.active = active]
    <2>1. Stored(r) /\ row \in RuleRow /\ row.kind = rules[r].kind
        BY <1>1, <1>4 DEF SetActive, Live, RuleRow
    <2> QED
        BY <1>4, <2>1, ChangeRuleKind DEF SetActive
<1>5. ASSUME NEW r \in Corruptible, NEW body \in Corruptions, CorruptRule(r, body)
      PROVE  KindInv'
    <2> DEFINE row == [rules[r] EXCEPT !.body = body]
    <2>1. Stored(r) /\ body \in Bodies
        BY <1>5, RuleAssumption DEF CorruptRule
    <2>2. row \in RuleRow /\ row.kind = rules[r].kind
        BY <1>1, <2>1 DEF RuleRow
    <2> QED
        BY <1>5, <2>1, <2>2, ChangeRuleKind DEF CorruptRule
<1> QED
    BY <1>2, <1>3, <1>4, <1>5 DEF Administer

\* A step of one worker: what it has loaded, and the rows it has, are of rules
\* stored under those kinds.
LEMMA WorkerStepKind ==
    ASSUME TypeInv, KindInv, NEW w \in Workers,
           rules' = rules,
           \A v \in Workers \ {w} : tx'[v] = tx[v],
           \A l \in tx'[w].loaded : l \in tx[w].loaded \/ StoredAs(l.id, l.kind),
           \A x \in tx'[w].rows : x \in tx[w].rows \/ StoredAs(x.rule, x.trigger),
           runs' \subseteq runs \cup tx[w].rows
    PROVE  KindInv'
<1>1. \A r, kind : StoredAs(r, kind)' <=> StoredAs(r, kind)
    BY DEF StoredAs, Stored
<1> QED
    BY <1>1 DEF KindInv, Stored

LEMMA StepKind ==
    ASSUME OnceInv, KindInv, NEW w \in Workers,
           Step(w) \/ Fail(w) \/ \E e \in bus : Begin(w, e)
    PROVE  KindInv'
<1>1. ASSUME NEW kind PROVE \A l \in LoadRules(kind) : StoredAs(l.id, l.kind)
    BY DEF LoadRules, StoredAs, Live
<1>2. tx \in [Workers -> TxRecord]
    BY DEF OnceInv, TypeInv, TypeOK
<1>3. Idle.loaded = {} /\ Idle.rows = {} /\ Done(w).loaded = {} /\ Done(w).rows = {}
    BY DEF Idle, Done
<1>4. ASSUME NEW e \in bus, Begin(w, e) PROVE KindInv'
    <2> DEFINE t == [Idle EXCEPT !.pc = "loading", !.env = e, !.loaded = LoadRules("on_event")]
    <2>1. t.loaded = LoadRules("on_event") /\ t.rows = {}
        BY DEF Idle
    <2>2. tx' = [tx EXCEPT ![w] = t] /\ rules' = rules /\ runs' = runs
        BY <1>4 DEF Begin, environment, ledger
    <2> HIDE DEF t
    <2> QED
        BY <1>1, <1>2, <2>1, <2>2, WorkerStepKind DEF OnceInv
<1>5. CASE LoadDeletedRules(w)
    <2>1. /\ tx'[w].loaded = tx[w].loaded \cup LoadRules("on_deleted")
          /\ tx'[w].rows = tx[w].rows
          /\ \A v \in Workers \ {w} : tx'[v] = tx[v]
        BY <1>2, <1>5 DEF LoadDeletedRules, TxRecord
    <2> QED
        BY <1>1, <1>5, <2>1, WorkerStepKind DEF LoadDeletedRules, environment, ledger, OnceInv
<1>6. CASE NoRules(w) \/ AlreadyClaimed(w) \/ NoMatch(w) \/ Commit(w)
    <2>1. tx' = [tx EXCEPT ![w] = Done(w)] /\ rules' = rules
        BY <1>6 DEF NoRules, AlreadyClaimed, NoMatch, Commit, Done, environment
    <2>2. runs' \subseteq runs \cup tx[w].rows
        BY <1>6 DEF NoRules, AlreadyClaimed, NoMatch, Commit, ledger
    <2> QED
        BY <1>2, <1>3, <2>1, <2>2, WorkerStepKind DEF OnceInv
<1>7. CASE \/ NotComposed(w) \/ Return(w) \/ Fail(w)
           \/ \E l \in tx[w].todo : GatewayRefused(w, l) \/ LedgerRefused(w, l)
    <2>1. tx' = [tx EXCEPT ![w] = Idle] /\ rules' = rules /\ runs' = runs
        BY <1>7 DEF NotComposed, Return, Fail, GatewayRefused, LedgerRefused, RollBack, environment, ledger
    <2> QED
        BY <1>2, <1>3, <2>1, WorkerStepKind DEF OnceInv
<1>8. CASE Claim(w) \/ Resolve(w)
    <2> DEFINE kept == /\ tx'[w].loaded = tx[w].loaded /\ tx'[w].rows = tx[w].rows
                       /\ \A v \in Workers \ {w} : tx'[v] = tx[v]
    <2> DEFINE matched == Matching(tx[w].loaded, tx[w].env.type)
    <2>1. kept
        <3>1. CASE Claim(w)
            BY <1>2, <3>1 DEF Claim, TxRecord
        <3> HIDE DEF matched
        <3>2. CASE tx' = [tx EXCEPT ![w].pc = "firing", ![w].todo = matched]
            BY <1>2, <3>2 DEF TxRecord
        <3>3. ASSUME NEW p \in ResolveParent(tx[w].env),
                     tx' = [tx EXCEPT ![w].pc = "firing", ![w].todo = matched,
                                      ![w].parent = p.id, ![w].depth = p.depth + 1]
              PROVE  kept
            BY <1>2, <3>3 DEF TxRecord
        <3> QED
            BY <1>8, <3>1, <3>2, <3>3 DEF Resolve, matched
    <2>2. rules' = rules /\ runs' = runs
        BY <1>8 DEF Claim, Resolve, environment, ledger
    <2> QED
        BY <2>1, <2>2, WorkerStepKind DEF OnceInv
<1>9. ASSUME NEW l \in tx[w].todo, Dispose(w, l) \/ Fire(w, l) PROVE KindInv'
    <2>1. StoredAs(l.id, l.kind)
        BY DEF OnceInv, UniqueInv, TxOnce, KindInv
    <2>2. PICK status, effects, run :
             /\ tx'[w].loaded = tx[w].loaded
             /\ tx'[w].rows = tx[w].rows \cup {RunRow(w, run, l, status, effects)}
             /\ \A v \in Workers \ {w} : tx'[v] = tx[v]
        <3>1. CASE Dispose(w, l)
            <4> DEFINE status == Disposition(l, tx[w].env, tx[w].depth)
            <4> DEFINE row == RunRow(w, FreshRun, l, status, {})
            <4>1. tx' = [tx EXCEPT ![w].todo = @ \ {l}, ![w].rows = @ \cup {row}]
                BY <3>1 DEF Dispose
            <4>2. \E s, f, run : row = RunRow(w, run, l, s, f)
                OBVIOUS
            <4> HIDE DEF row
            <4> QED
                BY <1>2, <4>1, <4>2 DEF TxRecord
        <3>2. CASE Fire(w, l)
            <4>1. PICK how \in [StagingActions(l.body) -> Accounting] :
                     tx' = [tx EXCEPT
                        ![w].todo = @ \ {l},
                        ![w].rows = @ \cup {RunRow(w, FreshRun, l, "fired",
                                                  EffectIds(FreshRun, l.body, how))},
                        ![w].staged = @ \cup StagedEvents(FreshRun, l, how)
                                        \cup {FiredEvent(FreshRun)}]
                BY <3>2 DEF Fire
            <4> DEFINE row == RunRow(w, FreshRun, l, "fired",
                                     EffectIds(FreshRun, l.body, how))
            <4> DEFINE staged == StagedEvents(FreshRun, l, how)
            <4> DEFINE own == FiredEvent(FreshRun)
            <4>2. tx' = [tx EXCEPT ![w].todo = @ \ {l}, ![w].rows = @ \cup {row},
                                   ![w].staged = @ \cup staged \cup {own}]
                BY <4>1
            <4>3. \E s, f, run : row = RunRow(w, run, l, s, f)
                OBVIOUS
            <4> HIDE DEF row, staged, own
            <4> QED
                BY <1>2, <4>2, <4>3 DEF TxRecord
        <3> QED
            BY <1>9, <3>1, <3>2
    <2>3. rules' = rules /\ runs' = runs
        BY <1>9 DEF Dispose, Fire, environment, ledger
    <2>4. \A x \in tx'[w].rows : x \in tx[w].rows \/ StoredAs(x.rule, x.trigger)
        BY <2>1, <2>2 DEF RunRow
    <2> QED
        BY <2>2, <2>3, <2>4, WorkerStepKind DEF OnceInv
<1> QED
    BY <1>4, <1>5, <1>6, <1>7, <1>8, <1>9 DEF Step

\* Exactly-once effect of a rule, as the documents say it, when no draft moves a
\* rule between the event kinds (RE_retype_twice shows that it may not).
THEOREM ExactlyOncePerRule ==
    ASSUME \A r \in RuleIds : KeepsKind(r)
    PROVE  Spec => []AtMostOncePerRule
<1>1. Init => OnceInv /\ KindInv
    <2> SUFFICES ASSUME Init PROVE OnceInv /\ KindInv
        OBVIOUS
    <2>1. UniqueInv
        BY IdleOnce DEF Init, UniqueInv, ClaimInv, HoldsClaim, AtMostOnceDisposed
    <2>2. KindInv
        BY DEF Init, KindInv, Stored, Idle
    <2> QED
        BY <2>1, <2>2, InitType DEF OnceInv
<1>2. OnceInv /\ KindInv /\ [Next]_vars => OnceInv' /\ KindInv'
    <2> SUFFICES ASSUME OnceInv, KindInv, [Next]_vars PROVE KindInv'
        BY NextOnce
    <2>1. ASSUME NEW w \in Workers, Step(w) \/ Fail(w) PROVE KindInv'
        BY <2>1, StepKind
    <2>2. ASSUME NEW w \in Workers, NEW e \in bus, Begin(w, e) PROVE KindInv'
        BY <2>2, StepKind
    <2>3. CASE Administer
        BY <2>3, AdministerKind DEF OnceInv
    <2>4. ASSUME UNCHANGED <<rules, tx, runs>> PROVE KindInv'
        BY <2>4 DEF KindInv, Stored, StoredAs
    <2>5. ASSUME NEW w \in Workers, NEW e \in bus, SkipOpaque(w, e)
          PROVE  UNCHANGED <<rules, tx, runs>>
        BY <2>5 DEF SkipOpaque
    <2>6. ASSUME (\E e \in Organic : Publish(e)) \/ Install \/ UNCHANGED vars
          PROVE  UNCHANGED <<rules, tx, runs>>
        BY <2>6 DEF Publish, Install, vars, ledger
    <2> QED
        BY <2>1, <2>2, <2>3, <2>4, <2>5, <2>6 DEF Next, Deliver
<1>3. OnceInv /\ KindInv => AtMostOncePerRule
    BY DEF OnceInv, UniqueInv, AtMostOnceDisposed, KindInv, StoredAs, AtMostOncePerRule
<1> QED
    BY <1>1, <1>2, <1>3, PTL DEF Spec

=============================================================================
