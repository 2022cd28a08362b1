--------------------------- MODULE StandingProofs ---------------------------
(***************************************************************************)
(* What a rule nobody takes away can rely on, proved: it misses no         *)
(* envelope the relay has an Ok for (AnsweredMeansDisposed), and an        *)
(* envelope on which it must fail is taken back whole, for ever            *)
(* (RefusalRollsBackAll).                                                  *)
(*                                                                         *)
(* Both are told of an envelope by its id, long after the delivery that    *)
(* read the envelope, so they need an id to name one envelope (IdentInv);  *)
(* and they need what every delivery has loaded to have the rule in it,    *)
(* in some state the rule may be in, whatever is done to the table between *)
(* the two loads and the commit (Sees).                                    *)
(***************************************************************************)
EXTENDS DeliveryProofs

-----------------------------------------------------------------------------
(* An id names one envelope.                                               *)

Named(events) == \A e, f \in events : e.id = f.id => e = f

\* What is claimed or answered was published.  (The ids of due records are no
\* envelopes'.)
IdentInv ==
    /\ Named(bus)
    /\ \A w \in Workers : Named(tx[w].staged)
    /\ \A i \in inbox \cup acked : i.src # "due" => \E e \in bus : e.id = i

-----------------------------------------------------------------------------
(* A rule that stands, and what a delivery sees of it. *)

Watcher(r) ==
    r \in RuleIds /\ Standing(r) /\ KeepsKind(r) /\ InitialRules[r].kind \in EventKinds

\* Nobody changes it at all.
Firm(r) == Watcher(r) /\ r \notin Corruptible /\ Drafts[r] = {}

\* The patterns the rule may have.
MayWatch(r, pattern) ==
    pattern = InitialRules[r].pattern \/ \E d \in Drafts[r] : pattern = d.pattern

\* The rule as it was at the start, loaded.
AsStored(r) ==
    [id |-> r, kind |-> InitialRules[r].kind, pattern |-> InitialRules[r].pattern,
     model |-> InitialRules[r].model, body |-> InitialRules[r].body]

\* The rule's row.
Stands(r, row) ==
    /\ row # NoRule /\ row.active /\ ~row.deleted
    /\ row.kind = InitialRules[r].kind
    /\ MayWatch(r, row.pattern)
    /\ Firm(r) => row = InitialRules[r]

\* l is the rule as a delivery loaded it.
Sight(r, l) ==
    /\ l.id = r
    /\ MayWatch(r, l.pattern)
    /\ Firm(r) => l = AsStored(r)

\* The envelope on which a firm rule must fail.
Dooms(e, r) ==
    Firm(r) /\ e.id.src = "organic" /\ e.type \in InitialRules[r].pattern /\ Doomed(e, r)

\* A delivery has the rule among those it loaded, and a rule that dooms the
\* envelope is never done with.
Sees(t, r) ==
    /\ \/ t.pc = "loading" /\ InitialRules[r].kind = "on_event"
       \/ t.pc \in {"loaded", "claimed", "firing"}
       => \E l \in t.loaded : Sight(r, l)
    /\ t.pc = "firing" /\ Dooms(t.env, r) => AsStored(r) \in t.todo

StandInv ==
    \A r \in RuleIds : Watcher(r) =>
        /\ Stands(r, rules[r])
        /\ \A w \in Workers : Sees(tx[w], r)

\* Where there is such a rule, nothing is answered that is not claimed, and
\* nothing is claimed but with the rule's row, or when the rule dooms it.
AnswerInv ==
    \A r \in RuleIds : Watcher(r) =>
        /\ \A w \in Workers : tx[w].pc = "done" => tx[w].env.id \in inbox
        /\ \A i \in acked : i.src # "opaque" => i \in inbox
        /\ \A e \in bus : e.id \in inbox =>
              /\ AlwaysMatches(r, e.type) => \E x \in runs : x.rule = r /\ x.env = e.id
              /\ ~Dooms(e, r)

-----------------------------------------------------------------------------
(* The shape of a worker's step: what it leaves of its transaction.        *)

\* The transaction has gone on with the envelope and rules it has.
Same(w) == tx'[w].env = tx[w].env /\ tx'[w].loaded = tx[w].loaded

Ends(w) == tx'[w] = Idle \/ tx'[w] = Done(w)

Begins(w) ==
    /\ tx'[w].pc = "loading" /\ tx'[w].loaded = LoadRules("on_event")
    /\ tx'[w].env.id.src # "opaque" /\ tx'[w].staged = {}

Loads(w) ==
    /\ tx[w].pc = "loading" /\ tx'[w].pc = "loaded"
    /\ tx'[w].loaded = tx[w].loaded \cup LoadRules("on_deleted")
    /\ tx'[w].env = tx[w].env /\ tx'[w].staged = tx[w].staged

Claimed(w) ==
    /\ tx[w].pc = "loaded" /\ tx'[w].pc = "claimed"
    /\ Same(w) /\ tx'[w].staged = tx[w].staged

Resolves(w) ==
    /\ tx[w].pc = "claimed" /\ tx'[w].pc = "firing"
    /\ Same(w) /\ tx'[w].todo = Matching(tx[w].loaded, tx[w].env.type)
    /\ tx'[w].staged = tx[w].staged

Turns(w, l) ==
    /\ tx[w].pc = "firing" /\ tx'[w].pc = "firing"
    /\ Same(w) /\ tx'[w].todo = tx[w].todo \ {l}
    /\ Dispose(w, l) \/ Fire(w, l)
    /\ \/ tx'[w].staged = tx[w].staged
       \/ /\ CanMint
          /\ \E how : tx'[w].staged = tx[w].staged \cup StagedEvents(FreshRun, l, how)
                                        \cup {FiredEvent(FreshRun)}

LEMMA TurnShape ==
    ASSUME TypeInv, NEW w \in Workers, NEW l \in tx[w].todo, Dispose(w, l) \/ Fire(w, l)
    PROVE  Turns(w, l) /\ \A v \in Workers \ {w} : tx'[v] = tx[v]
<1>1. tx[w] \in TxRecord /\ tx[w].pc = "firing"
    BY TurnType DEF Dispose, Fire
<1>2. CASE Dispose(w, l)
    <2> DEFINE row == RunRow(w, FreshRun, l, Disposition(l, tx[w].env, tx[w].depth), {})
    <2>1. tx' = [tx EXCEPT ![w].todo = @ \ {l}, ![w].rows = @ \cup {row}]
        BY <1>2 DEF Dispose
    <2> HIDE DEF row
    <2>2. /\ tx'[w].pc = "firing" /\ Same(w) /\ tx'[w].todo = tx[w].todo \ {l}
          /\ tx'[w].staged = tx[w].staged
          /\ \A v \in Workers \ {w} : tx'[v] = tx[v]
        BY <1>1, <2>1 DEF TypeInv, TypeOK, TxRecord, Same
    <2> QED
        BY <1>1, <1>2, <2>2 DEF Turns
<1>3. CASE Fire(w, l)
    <2>1. PICK how \in [StagingActions(l.body) -> Accounting] :
             tx' = [tx EXCEPT
                ![w].todo = @ \ {l},
                ![w].rows = @ \cup {RunRow(w, FreshRun, l, "fired",
                                          EffectIds(FreshRun, l.body, how))},
                ![w].staged = @ \cup StagedEvents(FreshRun, l, how)
                                \cup {FiredEvent(FreshRun)}]
        BY <1>3 DEF Fire
    <2> DEFINE row == RunRow(w, FreshRun, l, "fired", EffectIds(FreshRun, l.body, how))
    <2> DEFINE effects == StagedEvents(FreshRun, l, how)
    <2> DEFINE own == FiredEvent(FreshRun)
    <2>2. tx' = [tx EXCEPT ![w].todo = @ \ {l}, ![w].rows = @ \cup {row},
                           ![w].staged = @ \cup effects \cup {own}]
        BY <2>1
    <2> HIDE DEF row, effects, own
    <2>3. /\ tx'[w].pc = "firing" /\ Same(w) /\ tx'[w].todo = tx[w].todo \ {l}
          /\ tx'[w].staged = tx[w].staged \cup effects \cup {own}
          /\ \A v \in Workers \ {w} : tx'[v] = tx[v]
        BY <1>1, <2>2 DEF TypeInv, TypeOK, TxRecord, Same
    <2>4. CanMint
        BY <1>3 DEF Fire
    <2> QED
        BY <1>1, <1>3, <2>3, <2>4 DEF Turns, effects, own
<1> QED
    BY <1>2, <1>3

LEMMA ResolveShape ==
    ASSUME TypeInv, NEW w \in Workers, Resolve(w)
    PROVE  Resolves(w) /\ \A v \in Workers \ {w} : tx'[v] = tx[v]
<1> DEFINE matched == Matching(tx[w].loaded, tx[w].env.type)
<1>1. tx[w] \in TxRecord /\ tx[w].pc = "claimed"
    BY EnvelopeIdType DEF Resolve
<1> HIDE DEF matched
<1>2. ASSUME tx' = [tx EXCEPT ![w].pc = "firing", ![w].todo = matched]
      PROVE  /\ tx'[w].pc = "firing" /\ Same(w) /\ tx'[w].todo = matched
             /\ tx'[w].staged = tx[w].staged
             /\ \A v \in Workers \ {w} : tx'[v] = tx[v]
    BY <1>1, <1>2 DEF TypeInv, TypeOK, TxRecord, Same
<1>3. ASSUME NEW p, tx' = [tx EXCEPT ![w].pc = "firing", ![w].todo = matched,
                                     ![w].parent = p.id, ![w].depth = p.depth + 1]
      PROVE  /\ tx'[w].pc = "firing" /\ Same(w) /\ tx'[w].todo = matched
             /\ tx'[w].staged = tx[w].staged
             /\ \A v \in Workers \ {w} : tx'[v] = tx[v]
    BY <1>1, <1>3 DEF TypeInv, TypeOK, TxRecord, Same
<1>4. /\ tx'[w].pc = "firing" /\ Same(w) /\ tx'[w].todo = matched
      /\ tx'[w].staged = tx[w].staged
      /\ \A v \in Workers \ {w} : tx'[v] = tx[v]
    BY <1>2, <1>3 DEF Resolve, matched
<1> QED
    BY <1>1, <1>4 DEF Resolves, matched

LEMMA StepShape ==
    ASSUME TypeInv, NEW w \in Workers, Step(w) \/ Fail(w) \/ \E e \in bus : Begin(w, e)
    PROVE  /\ \A v \in Workers \ {w} : tx'[v] = tx[v]
           /\ \/ Ends(w) \/ Begins(w) \/ Loads(w) \/ Claimed(w) \/ Resolves(w)
              \/ \E l \in tx[w].todo : Turns(w, l)
<1> USE DEF TypeInv, TypeOK
<1>1. CASE \/ NotComposed(w) \/ Return(w) \/ Fail(w)
           \/ \E l \in tx[w].todo : GatewayRefused(w, l) \/ LedgerRefused(w, l)
    BY <1>1 DEF NotComposed, Return, Fail, GatewayRefused, LedgerRefused, RollBack, Ends
<1>2. CASE NoRules(w) \/ AlreadyClaimed(w) \/ NoMatch(w) \/ Commit(w)
    BY <1>2 DEF NoRules, AlreadyClaimed, NoMatch, Commit, Ends
<1>3. ASSUME NEW e \in bus, Begin(w, e)
      PROVE  Begins(w) /\ \A v \in Workers \ {w} : tx'[v] = tx[v]
    <2> DEFINE t == [Idle EXCEPT !.pc = "loading", !.env = e,
                                 !.loaded = LoadRules("on_event")]
    <2>1. /\ t.pc = "loading" /\ t.loaded = LoadRules("on_event") /\ t.staged = {}
          /\ t.env = e
        BY DEF Idle
    <2> HIDE DEF t
    <2> QED
        BY <1>3, <2>1 DEF Begin, Begins, t
<1>4. CASE LoadDeletedRules(w)
    <2> DEFINE deleted == LoadRules("on_deleted")
    <2> HIDE DEF deleted
    <2>1. /\ tx' = [tx EXCEPT ![w].pc = "loaded", ![w].loaded = @ \cup deleted]
          /\ tx[w].pc = "loading"
        BY <1>4 DEF LoadDeletedRules, deleted
    <2> QED
        BY <2>1 DEF Loads, deleted, TxRecord
<1>5. CASE Claim(w)
    BY <1>5 DEF Claim, Claimed, Same, TxRecord
<1> QED
    BY <1>1, <1>2, <1>3, <1>4, <1>5, TurnShape, ResolveShape DEF Step

-----------------------------------------------------------------------------
(* An id names one envelope: the steps.                                    *)

LEMMA EventsNamed ==
    ASSUME NEW run, NEW l, NEW how
    PROVE  /\ Named(StagedEvents(run, l, how) \cup {FiredEvent(run)})
           /\ \A e \in StagedEvents(run, l, how) \cup {FiredEvent(run)} : e.id.n = run
<1> DEFINE event(i) == [id |-> EffectId(run, i), type |-> StagedType[l.body[i]],
                        source |-> l.model,
                        cause |-> IF how[i] = "token" THEN run ELSE NoRun]
<1>1. \A e \in StagedEvents(run, l, how) : \E i : e = event(i)
    BY DEF StagedEvents
<1>2. \A i : event(i).id.src = "effect" /\ event(i).id.n = run /\ event(i).id.k = i
    BY DEF EffectId
<1>3. FiredEvent(run).id.src = "fired" /\ FiredEvent(run).id.n = run
    BY DEF FiredEvent, FiredId
<1> HIDE DEF event
<1> QED
    BY <1>1, <1>2, <1>3 DEF Named

\* What a transaction stages is on nobody's bus yet.
LEMMA StagedIsNew ==
    ASSUME ProvInv, NEW w \in Workers, NEW e \in tx[w].staged, NEW f \in bus
    PROVE  e.id # f.id
<1> SUFFICES ASSUME e.id = f.id PROVE FALSE
    OBVIOUS
<1>1. Automated(e.id) /\ \E x \in tx[w].rows : x.id = e.id.n
    BY DEF ProvInv, TxProv, Traces, FiredRun
<1>2. \E y \in runs : y.id = e.id.n
    BY <1>1 DEF ProvInv, BusInv, Traces, FiredRun
<1> QED
    BY <1>1, <1>2 DEF ProvInv, IdInv

LEMMA StepStagedNamed ==
    ASSUME TypeInv, ProvInv, IdentInv, NEW w \in Workers,
           Step(w) \/ Fail(w) \/ \E e \in bus : Begin(w, e)
    PROVE  \A v \in Workers : Named(tx'[v].staged)
<1>1. Named(tx'[w].staged)
    <2>1. CASE tx'[w].staged = tx[w].staged \/ tx'[w].staged = {}
        BY <2>1 DEF IdentInv, Named
    <2>2. ASSUME NEW l, NEW how, CanMint,
                 tx'[w].staged = tx[w].staged \cup StagedEvents(FreshRun, l, how)
                                    \cup {FiredEvent(FreshRun)}
          PROVE  Named(tx'[w].staged)
        <3> DEFINE events == StagedEvents(FreshRun, l, how) \cup {FiredEvent(FreshRun)}
        <3>1. Named(events) /\ \A e \in events : e.id.n = FreshRun
            BY EventsNamed
        <3>2. \A e \in tx[w].staged : e.id.n # FreshRun
            BY <2>2, FreshRunIsFresh DEF ProvInv, TxProv, Traces, FiredRun, UsedRuns
        <3>3. tx'[w].staged = tx[w].staged \cup events
            BY <2>2
        <3> HIDE DEF events
        <3> QED
            BY <3>1, <3>2, <3>3 DEF IdentInv, Named
    <2>3. Idle.staged = {} /\ Done(w).staged = {}
        BY DEF Idle, Done
    <2> QED
        BY <2>1, <2>2, <2>3, StepShape DEF Ends, Begins, Loads, Claimed, Resolves, Turns
<1> QED
    BY <1>1, StepShape DEF IdentInv

\* What a step of a worker publishes, claims and answers.
LEMMA StepOutcome ==
    ASSUME TypeInv, ProvInv, NEW w \in Workers,
           Step(w) \/ Fail(w) \/ \E e \in bus : Begin(w, e)
    PROVE  /\ bus' = bus \/ bus' = bus \cup tx[w].staged
           /\ \A i \in (inbox' \cup acked') \ (inbox \cup acked) :
                 tx[w].env \in bus /\ i = tx[w].env.id
<1>1. CASE NoMatch(w) \/ Commit(w) \/ Return(w)
    <2>1. tx[w].env \in bus
        BY <1>1, EnvelopeIdType DEF NoMatch, Commit, Return
    <2> QED
        BY <1>1, <2>1 DEF NoMatch, Commit, Return, environment, ledger
<1>2. ASSUME \/ NotComposed(w) \/ Fail(w) \/ NoRules(w) \/ AlreadyClaimed(w)
             \/ LoadDeletedRules(w) \/ Claim(w) \/ Resolve(w)
             \/ \E l \in tx[w].todo : \/ Dispose(w, l) \/ Fire(w, l)
                                      \/ GatewayRefused(w, l) \/ LedgerRefused(w, l)
             \/ \E e \in bus : Begin(w, e)
      PROVE  bus' = bus /\ inbox' = inbox /\ acked' = acked
    BY <1>2 DEF NotComposed, Fail, NoRules, AlreadyClaimed, LoadDeletedRules, Claim, Resolve,
                Dispose, Fire, GatewayRefused, LedgerRefused, Begin, environment, ledger
<1> QED
    BY <1>1, <1>2 DEF Step

LEMMA StepIdent ==
    ASSUME TypeInv, ProvInv, IdentInv, NEW w \in Workers,
           Step(w) \/ Fail(w) \/ \E e \in bus : Begin(w, e)
    PROVE  IdentInv'
<1>1. Named(bus')
    BY StepOutcome, StagedIsNew DEF IdentInv, Named
<1>2. \A v \in Workers : Named(tx'[v].staged)
    BY StepStagedNamed
<1>3. \A i \in inbox' \cup acked' : i.src # "due" => \E e \in bus' : e.id = i
    BY StepOutcome DEF IdentInv
<1> QED
    BY <1>1, <1>2, <1>3 DEF IdentInv, Named

LEMMA NextIdent == TypeInv /\ ProvInv /\ IdentInv /\ [Next]_vars => IdentInv'
<1> SUFFICES ASSUME TypeInv, ProvInv, IdentInv, [Next]_vars PROVE IdentInv'
    OBVIOUS
<1>1. ASSUME NEW e \in Organic, Publish(e) PROVE IdentInv'
    <2>1. bus' = bus \cup {e} /\ UNCHANGED <<tx, inbox, acked>>
        BY <1>1 DEF Publish, ledger
    <2>2. \A f \in bus : f.id = e.id => f = e
        BY OrganicAssumption, EnvelopeIdAssumption DEF ProvInv, BusInv, Automated
    <2> QED
        BY <2>1, <2>2 DEF IdentInv, Named
<1>2. ASSUME NEW w \in Workers, NEW e \in bus, SkipOpaque(w, e) PROVE IdentInv'
    BY <1>2 DEF SkipOpaque, IdentInv, Named
<1>3. ASSUME UNCHANGED <<bus, tx, inbox, acked>> PROVE IdentInv'
    BY <1>3 DEF IdentInv, Named
<1>4. ASSUME Administer \/ Install \/ UNCHANGED vars PROVE UNCHANGED <<bus, tx, inbox, acked>>
    BY <1>4 DEF Administer, CreateRule, ReplaceRule, SetActive, DeleteRule, CorruptRule,
                ChangeRule, Install, vars, ledger
<1> QED
    BY <1>1, <1>2, <1>3, <1>4, StepIdent DEF Next, Deliver

-----------------------------------------------------------------------------
(* A standing rule: the table, and what the deliveries see of it.          *)

\* One row is changed, and the rule still stands.
LEMMA ChangeStands ==
    ASSUME TypeInv, StandInv, NEW r \in RuleIds, NEW row, ChangeRule(r, row),
           Watcher(r) => Stands(r, row)
    PROVE  StandInv'
<1>1. /\ rules' = [rules EXCEPT ![r] = row] /\ tx' = tx
      /\ rules \in [RuleIds -> RuleRow \cup {NoRule}]
    BY DEF ChangeRule, TypeInv, TypeOK
<1>2. \A s \in RuleIds : Watcher(s) => Stands(s, rules'[s])
    BY <1>1 DEF StandInv
<1>3. \A s \in RuleIds, w \in Workers : Watcher(s) => Sees(tx'[w], s)
    BY <1>1 DEF StandInv
<1> QED
    BY <1>2, <1>3 DEF StandInv, Sees

LEMMA AdministerStands ==
    ASSUME TypeInv, StandInv, Administer
    PROVE  StandInv'
<1>1. ASSUME NEW r \in RuleIds, Watcher(r)
      PROVE  Stands(r, rules[r]) /\ rules[r] \in RuleRow
    BY <1>1 DEF StandInv, Stands, TypeInv, TypeOK
<1>2. ASSUME NEW r \in RuleIds, NEW d \in Drafts[r], CreateRule(r, d) \/ ReplaceRule(r, d)
      PROVE  StandInv'
    <2> DEFINE row(active) == Row(d, active)
    <2>1. \A active : /\ row(active).kind = d.kind /\ row(active).pattern = d.pattern
                      /\ row(active).active = active /\ ~row(active).deleted
        BY DEF Row
    <2>2. row(TRUE) # NoRule /\ (rules[r].active \in BOOLEAN => row(rules[r].active) # NoRule)
        BY RowType, RuleAssumption
    <2>3. CASE CreateRule(r, d)
        BY <1>1, <2>3, ChangeStands DEF CreateRule, Stored, Stands
    <2>4. CASE ReplaceRule(r, d)
        <3>1. ASSUME Watcher(r) PROVE Stands(r, row(rules[r].active))
            <4>1. Stands(r, rules[r]) /\ rules[r].active = TRUE
                BY <1>1, <3>1 DEF Stands, RuleRow
            <4>2. d.kind = InitialRules[r].kind /\ MayWatch(r, d.pattern) /\ ~Firm(r)
                BY <1>2, <3>1 DEF Watcher, KeepsKind, Standing, MayWatch, Firm
            <4> HIDE DEF row
            <4> QED
                BY <2>1, <2>2, <4>1, <4>2 DEF Stands
        <3> QED
            BY <2>4, <3>1, ChangeStands DEF ReplaceRule
    <2> QED
        BY <1>2, <2>3, <2>4
<1>3. ASSUME NEW r \in Retirable, NEW row, ChangeRule(r, row) PROVE StandInv'
    BY <1>3, RuleAssumption, ChangeStands DEF Watcher, Standing
<1>4. ASSUME NEW r \in Corruptible, NEW body \in Corruptions, CorruptRule(r, body)
      PROVE  StandInv'
    <2> DEFINE row == [rules[r] EXCEPT !.body = body]
    <2>1. r \in RuleIds
        BY RuleAssumption
    <2>2. ASSUME Watcher(r) PROVE Stands(r, row)
        <3>1. Stands(r, rules[r]) /\ rules[r] \in RuleRow
            BY <1>1, <2>1, <2>2
        <3>2. /\ row.kind = rules[r].kind /\ row.pattern = rules[r].pattern
              /\ row.active = rules[r].active /\ row.deleted = rules[r].deleted
            BY <3>1 DEF RuleRow
        <3>3. ~Firm(r)
            BY DEF Firm
        <3>4. row # NoRule
            BY <3>1, RuleAssumption DEF RuleRow
        <3> HIDE DEF row
        <3> QED
            BY <3>1, <3>2, <3>3, <3>4 DEF Stands
    <2> QED
        BY <1>4, <2>1, <2>2, ChangeStands DEF CorruptRule
<1> QED
    BY <1>2, <1>3, <1>4 DEF Administer, DeleteRule, SetActive

\* The load of its kind has it.
LEMMA LoadSees ==
    ASSUME NEW r \in RuleIds, Watcher(r), Stands(r, rules[r])
    PROVE  \E l \in LoadRules(InitialRules[r].kind) : Sight(r, l)
<1> DEFINE l == [id |-> r, kind |-> InitialRules[r].kind, pattern |-> rules[r].pattern,
                 model |-> rules[r].model, body |-> rules[r].body]
<1>1. l \in LoadRules(InitialRules[r].kind)
    BY DEF LoadRules, Live, Stored, Stands
<1>2. Sight(r, l)
    BY DEF Sight, Stands, AsStored
<1> QED
    BY <1>1, <1>2

\* The rule's turn never passes on an envelope it dooms.
LEMMA DoomedStays ==
    ASSUME TypeInv, ProvInv, NEW w \in Workers, NEW r \in RuleIds,
           Dooms(tx[w].env, r),
           NEW l, Dispose(w, l) \/ Fire(w, l)
    PROVE  l # AsStored(r)
<1> SUFFICES ASSUME l = AsStored(r) PROVE FALSE
    OBVIOUS
<1> DEFINE e == tx[w].env
<1>1. /\ l.id = r /\ l.kind = InitialRules[r].kind /\ l.pattern = InitialRules[r].pattern
      /\ l.model = InitialRules[r].model /\ l.body = InitialRules[r].body
    BY DEF AsStored
<1>2. ~Automated(e.id) /\ Doomed(e, r)
    BY DEF Dooms, Automated
<1>3. tx[w].pc = "firing" /\ TxProv(tx[w])
    BY DEF Dispose, Fire, Turn, ProvInv
<1>4. tx[w].depth = 0
    BY <1>2, <1>3 DEF TxProv, Causes
<1>5. ~(tx[w].depth > Cap)
    BY <1>4, CapAssumption DEF Cap
<1>6. ~RuleProducedEvent(r, e)
    BY <1>2 DEF RuleProducedEvent, ProvInv, RowInv
<1>7. CASE e \in Oversized
    BY <1>7 DEF Dispose, Fire, RowRefused
<1>8. CASE /\ e.source = l.model
           /\ BodyAccepted(l.kind, l.body) /\ r \in Refusing
    <2>1. Disposition(l, e, tx[w].depth) = "fired"
        BY <1>1, <1>5, <1>6, <1>8 DEF Disposition
    <2> QED
        BY <1>1, <1>8, <2>1 DEF Dispose, Fire
<1>9. CASE /\ e.source = l.model
           /\ ~BodyAccepted(l.kind, l.body) /\ ReasonTooLong(l.body)
    <2>1. Disposition(l, e, tx[w].depth) = "refused_body"
        BY <1>1, <1>5, <1>6, <1>9 DEF Disposition
    <2> QED
        BY <1>9, <2>1 DEF Dispose, Fire, RowRefused
<1>10. CASE e.source # l.model /\ <<l.pattern, e.source>> \in Unquotable
    <2>1. Disposition(l, e, tx[w].depth) = "skipped_model_mismatch"
        BY <1>10 DEF Disposition
    <2> QED
        BY <1>10, <2>1 DEF Dispose, Fire, RowRefused
<1> QED
    BY <1>1, <1>2, <1>7, <1>8, <1>9, <1>10 DEF Doomed

LEMMA StepSees ==
    ASSUME TypeInv, ProvInv, StandInv, NEW w \in Workers,
           Step(w) \/ Fail(w) \/ \E e \in bus : Begin(w, e),
           NEW r \in RuleIds, Watcher(r)
    PROVE  Sees(tx'[w], r)
<1>1. Sees(tx[w], r) /\ \E l \in LoadRules(InitialRules[r].kind) : Sight(r, l)
    BY LoadSees DEF StandInv
<1>2. InitialRules[r].kind \in {"on_event", "on_deleted"}
    BY DEF Watcher, EventKinds
<1>3. CASE Ends(w)
    <2>1. Idle.pc = "idle" /\ Done(w).pc = "done"
        BY DEF Idle, Done
    <2> QED
        BY <1>3, <2>1 DEF Ends, Sees
<1>4. CASE Begins(w)
    BY <1>1, <1>4 DEF Begins, Sees
<1>5. CASE Loads(w)
    BY <1>1, <1>2, <1>5 DEF Loads, Sees
<1>6. CASE Claimed(w)
    BY <1>1, <1>6 DEF Claimed, Same, Sees
<1>7. CASE Resolves(w)
    <2>1. PICK l \in tx[w].loaded : Sight(r, l)
        BY <1>1, <1>7 DEF Resolves, Sees
    <2>2. ASSUME Dooms(tx[w].env, r) PROVE AsStored(r) \in Matching(tx[w].loaded, tx[w].env.type)
        <3>1. l = AsStored(r) /\ tx[w].env.type \in InitialRules[r].pattern
            BY <2>1, <2>2 DEF Dooms, Sight
        <3>2. l.pattern = InitialRules[r].pattern
            BY <3>1 DEF AsStored
        <3> QED
            BY <3>1, <3>2 DEF Matching
    <2> QED
        BY <1>7, <2>1, <2>2 DEF Resolves, Same, Sees
<1>8. ASSUME NEW l \in tx[w].todo, Turns(w, l) PROVE Sees(tx'[w], r)
    <2>1. Dooms(tx[w].env, r) => l # AsStored(r)
        BY <1>8, DoomedStays DEF Turns
    <2> QED
        BY <1>1, <1>8, <2>1 DEF Turns, Same, Sees
<1> QED
    BY <1>3, <1>4, <1>5, <1>6, <1>7, <1>8, StepShape

LEMMA NextStands == TypeInv /\ ProvInv /\ StandInv /\ [Next]_vars => StandInv'
<1> SUFFICES ASSUME TypeInv, ProvInv, StandInv, [Next]_vars PROVE StandInv'
    OBVIOUS
<1>1. ASSUME NEW w \in Workers, Step(w) \/ Fail(w) \/ \E e \in bus : Begin(w, e)
      PROVE  StandInv'
    <2>1. rules' = rules
        BY <1>1 DEF Step, LoadDeletedRules, NoRules, AlreadyClaimed, Claim, NoMatch, Resolve,
                    NotComposed, Dispose, Fire, GatewayRefused, LedgerRefused, Commit, Return,
                    Fail, Begin, environment
    <2>2. \A r \in RuleIds, v \in Workers : Watcher(r) => Sees(tx'[v], r)
        <3>1. ASSUME NEW r \in RuleIds, NEW v \in Workers \ {w}, Watcher(r)
              PROVE  Sees(tx'[v], r)
            <4>1. tx'[v] = tx[v]
                BY <1>1, StepShape
            <4> QED
                BY <3>1, <4>1 DEF StandInv
        <3> QED
            BY <1>1, <3>1, StepSees
    <2> QED
        BY <2>1, <2>2 DEF StandInv, Sees
<1>2. ASSUME UNCHANGED <<rules, tx>> PROVE StandInv'
    BY <1>2 DEF StandInv, Sees
<1>3. ASSUME \/ \E e \in Organic : Publish(e)
             \/ \E w \in Workers, e \in bus : SkipOpaque(w, e)
             \/ Install \/ UNCHANGED vars
      PROVE  UNCHANGED <<rules, tx>>
    BY <1>3 DEF Publish, SkipOpaque, Install, vars
<1> QED
    BY <1>1, <1>2, <1>3, AdministerStands DEF Next, Deliver

-----------------------------------------------------------------------------
(* Answers: nothing claimed without the rule's row, nothing answered       *)
(* without a claim.                                                        *)

\* The envelopes a claim is about are those on the bus before the step.
LEMMA ClaimedIsOld ==
    ASSUME IdentInv', bus \subseteq bus', NEW e \in bus', e.id.src # "due",
           \A i \in inbox' : i.src # "due" => \E f \in bus : f.id = i,
           e.id \in inbox'
    PROVE  e \in bus
BY DEF IdentInv, Named

\* A commit, of an envelope that no rule dooms, leaves the row of every rule
\* that had to match.
LEMMA CommitAnswers ==
    ASSUME OnceInv, ProvInv, WholeInv, StandInv, NEW w \in Workers, NoMatch(w) \/ Commit(w),
           NEW r \in RuleIds, Watcher(r)
    PROVE  /\ ~Dooms(tx[w].env, r)
           /\ AlwaysMatches(r, tx[w].env.type) =>
                 \E x \in runs' : x.rule = r /\ x.env = tx[w].env.id
<1> DEFINE matched == Matching(tx[w].loaded, tx[w].env.type)
<1>1. TxOnce(tx[w]) /\ TxWhole(tx[w]) /\ Sees(tx[w], r)
    BY DEF OnceInv, UniqueInv, WholeInv, StandInv
<1>2. PICK l \in tx[w].loaded : Sight(r, l)
    BY <1>1 DEF NoMatch, Commit, Sees
<1>3. ASSUME Dooms(tx[w].env, r) PROVE FALSE
    <2>1. CASE Commit(w)
        BY <1>1, <1>3, <2>1 DEF Commit, Sees
    <2>2. CASE NoMatch(w)
        <3>1. l = AsStored(r) /\ tx[w].env.type \in InitialRules[r].pattern
            BY <1>2, <1>3 DEF Dooms, Sight
        <3>2. l \in matched
            BY <3>1 DEF AsStored, Matching
        <3> QED
            BY <2>2, <3>2 DEF NoMatch
    <2> QED
        BY <2>1, <2>2
<1>4. ASSUME AlwaysMatches(r, tx[w].env.type)
      PROVE  \E x \in runs' : x.rule = r /\ x.env = tx[w].env.id
    <2>1. l \in matched /\ l.id = r
        BY <1>2, <1>4 DEF Sight, MayWatch, AlwaysMatches, Matching
    <2>2. Commit(w)
        BY <2>1 DEF NoMatch
    <2>3. PICK x \in tx[w].rows : Of(x, l)
        BY <1>1, <2>1, <2>2 DEF TxWhole, Commit
    <2>4. x \in runs' /\ x.rule = r /\ x.env = tx[w].env.id
        BY <1>1, <2>1, <2>2, <2>3 DEF Commit, Of, TxOnce
    <2> QED
        BY <2>4
<1> QED
    BY <1>3, <1>4

\* What was published after an envelope was claimed has another id.
LEMMA NextOld ==
    ASSUME OnceInv, ProvInv, IdentInv, IdentInv', [Next]_vars
    PROVE  \A e \in bus' : e.id \in inbox' => e \in bus
<1>1. \A e \in bus' : e.id.src # "due"
    <2>1. ASSUME NEW e \in bus PROVE e.id.src # "due"
        BY OrganicAssumption DEF ProvInv, BusInv, Automated
    <2>2. ASSUME NEW w \in Workers, NEW e \in tx[w].staged PROVE e.id.src # "due"
        BY DEF ProvInv, TxProv, Automated
    <2>3. ASSUME NEW w \in Workers, NoMatch(w) \/ Commit(w)
          PROVE  bus' = bus \/ bus' = bus \cup tx[w].staged
        BY <2>3 DEF NoMatch, Commit, environment
    <2>4. ASSUME NEW e \in Organic, Publish(e) PROVE \A f \in bus' : f.id.src # "due"
        BY <2>1, <2>4, OrganicAssumption DEF Publish
    <2> QED
        BY <2>1, <2>2, <2>3, <2>4, StutterOrCommit
<1>2. /\ bus \subseteq bus'
      /\ \A i \in inbox' : i.src # "due" => \E f \in bus : f.id = i
    <2>1. ASSUME NEW w \in Workers, NoMatch(w) \/ Commit(w)
          PROVE  /\ bus \subseteq bus' /\ inbox' = inbox \cup {tx[w].env.id}
                 /\ tx[w].env \in bus
        BY <2>1, EnvelopeIdType DEF NoMatch, Commit, environment, OnceInv
    <2>2. ASSUME NEW e \in Organic, Publish(e) PROVE bus \subseteq bus' /\ inbox' = inbox
        BY <2>2 DEF Publish, ledger
    <2> QED
        BY <2>1, <2>2, StutterOrCommit DEF IdentInv
<1> QED
    BY <1>1, <1>2, ClaimedIsOld

LEMMA NextAnswers ==
    OnceInv /\ ProvInv /\ WholeInv /\ IdentInv /\ StandInv /\ AnswerInv /\ [Next]_vars
        => AnswerInv'
<1> SUFFICES ASSUME OnceInv, ProvInv, WholeInv, IdentInv, StandInv, AnswerInv, [Next]_vars,
                    NEW r \in RuleIds, Watcher(r)
             PROVE  /\ \A w \in Workers : tx'[w].pc = "done" => tx'[w].env.id \in inbox'
                    /\ \A i \in acked' : i.src # "opaque" => i \in inbox'
                    /\ \A e \in bus' : e.id \in inbox' =>
                          /\ AlwaysMatches(r, e.type) =>
                                \E x \in runs' : x.rule = r /\ x.env = e.id
                          /\ ~Dooms(e, r)
    BY DEF AnswerInv
<1>1. IdentInv' /\ \A e \in bus' : e.id \in inbox' => e \in bus
    BY NextIdent, NextOld DEF OnceInv
<1>2. ASSUME NEW e \in bus', e.id \in inbox'
      PROVE  /\ AlwaysMatches(r, e.type) => \E x \in runs' : x.rule = r /\ x.env = e.id
             /\ ~Dooms(e, r)
    <2>1. e \in bus
        BY <1>1, <1>2
    <2>2. CASE e.id \in inbox
        <3>1. runs \subseteq runs'
            BY StutterOrCommit DEF NoMatch, Commit, Publish, ledger
        <3> QED
            BY <2>1, <2>2, <3>1 DEF AnswerInv
    <2>3. CASE e.id \notin inbox
        <3>1. PICK w \in Workers : (NoMatch(w) \/ Commit(w)) /\ e.id = tx[w].env.id
            BY <1>2, <2>3, StutterOrCommit DEF NoMatch, Commit, Publish, ledger
        <3>2. e = tx[w].env
            BY <2>1, <3>1, EnvelopeIdType DEF NoMatch, Commit, IdentInv, Named, OnceInv
        <3> QED
            BY <3>1, <3>2, CommitAnswers
    <2> QED
        BY <2>2, <2>3
<1>3. /\ \A w \in Workers : tx'[w].pc = "done" => tx'[w].env.id \in inbox'
      /\ \A i \in acked' : i.src # "opaque" => i \in inbox'
    <2>1. ASSUME NEW w \in Workers, Step(w) \/ Fail(w) \/ \E e \in bus : Begin(w, e)
          PROVE  /\ tx'[w].pc = "done" => tx'[w].env.id \in inbox'
                 /\ \A i \in acked' : i \in acked \/ i \in inbox'
        <3>1. Done(w).env = tx[w].env /\ Idle.pc = "idle"
            BY DEF Done, Idle
        <3>2. CASE NoMatch(w) \/ Commit(w) \/ AlreadyClaimed(w)
            BY <3>1, <3>2 DEF NoMatch, Commit, AlreadyClaimed, environment, ledger,
                              OnceInv, TypeInv, TypeOK
        <3>3. CASE Return(w)
            BY <3>1, <3>3 DEF Return, ledger, AnswerInv, OnceInv, TypeInv, TypeOK
        <3>4. CASE NoRules(w)
            BY <3>4 DEF NoRules, StandInv, Sees
        <3>5. CASE \/ NotComposed(w) \/ Fail(w)
                   \/ \E l \in tx[w].todo : GatewayRefused(w, l) \/ LedgerRefused(w, l)
            BY <3>1, <3>5 DEF NotComposed, Fail, GatewayRefused, LedgerRefused, RollBack,
                              environment, ledger, OnceInv, TypeInv, TypeOK
        <3>6. CASE \/ LoadDeletedRules(w) \/ Claim(w) \/ Resolve(w)
                   \/ \E l \in tx[w].todo : Dispose(w, l) \/ Fire(w, l)
                   \/ \E e \in bus : Begin(w, e)
            <4>1. tx'[w].pc # "done"
                <5>1. CASE LoadDeletedRules(w) \/ Claim(w)
                    BY <5>1 DEF LoadDeletedRules, Claim, OnceInv, TypeInv, TypeOK, TxRecord
                <5>2. CASE Resolve(w) \/ \E l \in tx[w].todo : Dispose(w, l) \/ Fire(w, l)
                    BY <5>2, ResolveShape, TurnShape DEF Resolves, Turns, OnceInv
                <5>3. ASSUME NEW e \in bus, Begin(w, e) PROVE tx'[w].pc # "done"
                    BY <5>3 DEF Begin, Idle, OnceInv, TypeInv, TypeOK
                <5> QED
                    BY <3>6, <5>1, <5>2, <5>3
            <4>2. acked' = acked
                BY <3>6 DEF LoadDeletedRules, Claim, Resolve, Dispose, Fire, Begin, environment
            <4> QED
                BY <4>1, <4>2
        <3> QED
            BY <2>1, <3>2, <3>3, <3>4, <3>5, <3>6 DEF Step
    <2>2. inbox \subseteq inbox'
        BY StutterOrCommit DEF NoMatch, Commit, Publish, ledger
    <2>3. ASSUME NEW w \in Workers, Step(w) \/ Fail(w) \/ \E e \in bus : Begin(w, e)
          PROVE  \A v \in Workers \ {w} : tx'[v] = tx[v]
        BY <2>3, StepShape DEF OnceInv
    <2>4. CASE \E w \in Workers : Step(w) \/ Fail(w) \/ \E e \in bus : Begin(w, e)
        BY <2>1, <2>2, <2>3, <2>4 DEF AnswerInv
    <2>5. ASSUME NEW w \in Workers, NEW e \in bus, SkipOpaque(w, e)
          PROVE  tx' = tx /\ acked' = acked \cup {e.id} /\ e.id.src = "opaque"
        BY <2>5 DEF SkipOpaque
    <2>6. ASSUME (\E e \in Organic : Publish(e)) \/ Install \/ Administer \/ UNCHANGED vars
          PROVE  tx' = tx /\ acked' = acked
        BY <2>6 DEF Administer, CreateRule, ReplaceRule, SetActive, DeleteRule, CorruptRule,
                    ChangeRule, Install, Publish, vars
    <2> QED
        BY <2>2, <2>4, <2>5, <2>6 DEF Next, Deliver, AnswerInv
<1> QED
    BY <1>2, <1>3

LEMMA InitStands == Init => IdentInv /\ StandInv /\ AnswerInv
<1> SUFFICES ASSUME Init PROVE IdentInv /\ StandInv /\ AnswerInv
    OBVIOUS
<1>1. \A w \in Workers : tx[w] = Idle
    BY DEF Init
<1>2. Idle.pc = "idle" /\ Idle.staged = {}
    BY DEF Idle
<1>3. IdentInv
    BY <1>1, <1>2 DEF Init, IdentInv, Named
<1>4. StandInv
    BY <1>1, <1>2 DEF Init, StandInv, Watcher, Standing, Stands, MayWatch, Sees
<1>5. AnswerInv
    BY <1>1, <1>2 DEF Init, AnswerInv
<1> QED
    BY <1>3, <1>4, <1>5

LEMMA Standings ==
    Spec => [](OnceInv /\ ProvInv /\ IdentInv /\ StandInv /\ AnswerInv)
<1>1. OnceInv /\ ProvInv /\ WholeInv /\ IdentInv /\ StandInv /\ AnswerInv /\ [Next]_vars
          => IdentInv' /\ StandInv' /\ AnswerInv'
    BY NextIdent, NextStands, NextAnswers DEF OnceInv
<1> QED
    BY <1>1, InitStands, Whole, PTL DEF Spec

-----------------------------------------------------------------------------
(* What follows for the rule.                                              *)

LEMMA Disposed ==
    ASSUME \A r \in RuleIds :
              Standing(r) /\ InitialRules[r].pattern # {}
                  => KeepsKind(r) /\ InitialRules[r].kind \in EventKinds
    PROVE  AnswerInv => AnsweredMeansDisposed
<1> SUFFICES ASSUME AnswerInv, NEW e \in bus, NEW r \in RuleIds,
                    e.id \in acked, e.id.src # "opaque",
                    Standing(r), AlwaysMatches(r, e.type)
             PROVE  \E x \in runs : x.rule = r /\ x.env = e.id
    BY DEF AnsweredMeansDisposed
<1>1. Watcher(r)
    BY DEF Watcher, AlwaysMatches
<1> QED
    BY <1>1 DEF AnswerInv

\* No silent miss (handle, once_async, the two rule loads): if the rules that
\* stand and have a pattern are rules of events, and no draft changes the kind of
\* one, then whatever else is done to the table, and however often deliveries
\* fail or come again, the relay has its Ok for an envelope only when every rule
\* that watched for it all along has its row.  A rule moved between the two loads
\* of one delivery is loaded by neither, so the hypothesis cannot be dropped.
THEOREM NoSilentMiss ==
    ASSUME \A r \in RuleIds :
              Standing(r) /\ InitialRules[r].pattern # {}
                  => KeepsKind(r) /\ InitialRules[r].kind \in EventKinds
    PROVE  Spec => []AnsweredMeansDisposed
BY Disposed, Standings, PTL

LEMMA AllBack == OnceInv /\ AnswerInv => RefusalRollsBackAll
<1> SUFFICES ASSUME OnceInv, AnswerInv, NEW e \in bus, NEW r \in RuleIds,
                    Standing(r), r \notin Corruptible, Drafts[r] = {},
                    InitialRules[r].kind \in EventKinds,
                    e.id.src = "organic", e.type \in InitialRules[r].pattern,
                    Doomed(e, r)
             PROVE  /\ e.id \notin inbox \cup acked
                    /\ \A x \in runs : x.env # e.id
    BY DEF RefusalRollsBackAll
<1>1. Watcher(r) /\ Dooms(e, r)
    BY DEF Watcher, KeepsKind, Firm, Dooms
<1>2. e.id \notin inbox /\ e.id \notin acked
    BY <1>1 DEF AnswerInv
<1> QED
    BY <1>2 DEF OnceInv, UniqueInv, ClaimInv

\* A failure takes everything back (handle's `?`, record_run, the gateway's Err):
\* an envelope another module staged, on which a rule nobody touches must fail,
\* is never claimed, answered or recorded, whatever other rules, workers and
\* redeliveries there are.
THEOREM FailureTakesAllBack == Spec => []RefusalRollsBackAll
BY AllBack, Standings, PTL

=============================================================================
