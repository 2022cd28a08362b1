------------------------- MODULE AutomationsProofs -------------------------
(***************************************************************************)
(* The two engines together, proved: what ReactionEngine keeps of the      *)
(* ledger, the bus and the inbox, it keeps with a scheduler that writes to *)
(* all three between any two of its steps.                                 *)
(*                                                                         *)
(* The invariants are those of the reaction engine alone.  They survive a  *)
(* transaction of the clock for two reasons: what it claims is no          *)
(* envelope's id, so no delivery waits for it or mistakes it for its own;  *)
(* and its row, a root with a fresh id, is whole when it is committed.     *)
(***************************************************************************)
EXTENDS StandingProofs, Automations

\* What open ticks have loaded.
TickInv == ticks \subseteq LoadedRule /\ \A l \in ticks : l.kind = "on_time"

EngineInv == OnceInv /\ ProvInv /\ WholeInv /\ IdentInv /\ StandInv /\ AnswerInv

\* A transaction of the clock, fired or refused: one row and what it staged.
DueCommits(l, d, row, events) ==
    /\ inbox' = inbox \cup {d.id}
    /\ runs' = runs \cup {row}
    /\ bus' = bus \cup events
    /\ UNCHANGED <<rules, wired, acked, tx, faults, ticks>>
    /\ row \in Run /\ events \subseteq Envelopes
    /\ row.env = d.id /\ row.trigger = "on_time" /\ row.id \notin UsedRuns
    /\ RowInv(row) /\ Announced({row}, events) /\ Named(events)
    /\ \A e \in events : Automated(e.id) /\ Traces(row, e)

LEMMA DueShape ==
    ASSUME EngineInv, TickInv, NEW l \in ticks, NEW d \in Dues,
           RefuseDue(l, d) \/ FireDue(l, d)
    PROVE  \E row, events : DueCommits(l, d, row, events)
<1>1. /\ l \in LoadedRule /\ l.kind = "on_time" /\ d.id \in EnvelopeIds
      /\ d.id.src = "due" /\ FreshRun \in RunIds /\ FreshRun \notin UsedRuns
    BY DueAssumption, FreshRunIsFresh DEF TickInv, RefuseDue, FireDue, DueIds, EnvelopeIds
<1>2. ~Automated(d.id) /\ NoRun \in Nat
    BY <1>1 DEF Automated, NoRun
<1> DEFINE run == FreshRun
<1> HIDE DEF run
<1>3. /\ l.id \in RuleIds /\ l.kind \in TriggerKinds /\ l.body \in Bodies
      /\ run \in RunIds
    BY <1>1 DEF LoadedRule, run
<1>4. ASSUME NEW status \in Statuses, NEW effects \in SUBSET EnvelopeIds,
             NEW row, row = DueRow(run, l, d, status, effects)
      PROVE  /\ row \in Run /\ Causes(row.env, row.parent, row.depth)
             /\ row.id = run /\ row.status = status /\ row.effects = effects
             /\ row.env = d.id /\ row.trigger = "on_time" /\ row.body = l.body
             /\ row.depth = 0
    <2>1. /\ row.id = run /\ row.status = status /\ row.effects = effects
          /\ row.env = d.id /\ row.trigger = "on_time" /\ row.body = l.body
          /\ row.depth = 0 /\ row.parent = NoRun
        BY <1>1, <1>4 DEF DueRow
    <2>2. row \in Run
        BY <1>1, <1>2, <1>3, <1>4 DEF DueRow, Run
    <2> QED
        BY <1>2, <2>1, <2>2 DEF Causes
<1>5. CASE RefuseDue(l, d)
    <2>1. PICK row : row = DueRow(run, l, d, "refused_body", {})
        OBVIOUS
    <2>2. /\ row \in Run /\ Causes(row.env, row.parent, row.depth)
          /\ row.id = run /\ row.status = "refused_body" /\ row.effects = {}
          /\ row.env = d.id /\ row.trigger = "on_time"
        BY <1>4, <2>1 DEF Statuses
    <2>3. RowInv(row) /\ Announced({row}, {})
        BY <2>2 DEF RowInv, Announced
    <2>4. bus' = bus \cup {} /\ runs' = runs \cup {row} /\ inbox' = inbox \cup {d.id}
          /\ UNCHANGED <<rules, wired, acked, tx, faults, ticks>>
        BY <1>5, <2>1 DEF RefuseDue, run
    <2>5. DueCommits(l, d, row, {})
        BY <1>1, <2>2, <2>3, <2>4 DEF DueCommits, Named, run
    <2> QED
        BY <2>5
<1>6. CASE FireDue(l, d)
    <2>1. PICK how \in [StagingActions(l.body) -> Accounting] :
             /\ runs' = runs \cup {DueRow(run, l, d, "fired", EffectIds(run, l.body, how))}
             /\ bus' = bus \cup StagedEvents(run, l, how) \cup {FiredEvent(run)}
        BY <1>6 DEF FireDue, run
    <2> DEFINE events == StagedEvents(run, l, how) \cup {FiredEvent(run)}
    <2>2. PICK row : row = DueRow(run, l, d, "fired", EffectIds(run, l.body, how))
        OBVIOUS
    <2>3. EffectIds(run, l.body, how) \subseteq EnvelopeIds /\ events \subseteq Envelopes
        BY <1>1, <1>3, StagedType_
    <2>4. /\ row \in Run /\ Causes(row.env, row.parent, row.depth)
          /\ row.id = run /\ row.status = "fired" /\ row.effects = EffectIds(run, l.body, how)
          /\ row.env = d.id /\ row.trigger = "on_time" /\ row.body = l.body
          /\ row.depth = 0
        BY <1>4, <2>2, <2>3 DEF Statuses
    <2>5. /\ FiredId(run) \in row.effects
          /\ \A i \in row.effects : Automated(i) /\ i.n = run
          /\ Announced({row}, events)
          /\ \A e \in events : Automated(e.id) /\ Traces(row, e)
        BY <2>4, StagedTraces
    <2>6. Named(events)
        BY EventsNamed
    <2>7. RowInv(row)
        <3>1. 0 <= Cap
            BY CapAssumption DEF Cap
        <3>2. BodyAccepted("on_time", l.body)
            BY <1>6 DEF FireDue, BodyAccepted, BodyLegalForTrigger
        <3>3. \A p \in runs : d.id \notin p.effects
            BY <1>2 DEF EngineInv, ProvInv, RowInv
        <3> QED
            BY <1>2, <2>4, <2>5, <3>1, <3>2, <3>3 DEF RowInv
    <2>8. /\ bus' = bus \cup events /\ runs' = runs \cup {row} /\ inbox' = inbox \cup {d.id}
          /\ UNCHANGED <<rules, wired, acked, tx, faults, ticks>>
        BY <1>6, <2>1, <2>2 DEF FireDue
    <2> HIDE DEF events
    <2>9. DueCommits(l, d, row, events)
        BY <1>1, <2>3, <2>4, <2>5, <2>6, <2>7, <2>8 DEF DueCommits, run
    <2> QED
        BY <2>9
<1> QED
    BY <1>5, <1>6

\* The claim of a due record is nobody else's.
LEMMA DueIsNoEnvelopes ==
    ASSUME EngineInv, NEW d \in Dues
    PROVE  /\ \A e \in bus : e.id # d.id
           /\ \A w \in Workers : tx[w].pc # "idle" => tx[w].env.id # d.id
<1>1. d.id.src = "due"
    BY DueAssumption DEF DueIds
<1>2. \A e \in bus : e.id # d.id
    BY <1>1, OrganicAssumption DEF EngineInv, ProvInv, BusInv, Automated
<1> QED
    BY <1>2 DEF EngineInv, OnceInv, TypeInv, BusyOnPublished

LEMMA DueOnce ==
    ASSUME EngineInv, NEW l, NEW d \in Dues, NEW row, NEW events, d.id \notin inbox,
           DueCommits(l, d, row, events)
    PROVE  OnceInv'
<1>1. TypeInv'
    <2>1. d.id \in EnvelopeIds
        BY DueAssumption DEF DueIds, EnvelopeIds
    <2>2. TypeOK'
        BY <2>1 DEF DueCommits, EngineInv, OnceInv, TypeInv, TypeOK
    <2>3. BusyOnPublished'
        BY DEF DueCommits, EngineInv, OnceInv, TypeInv, BusyOnPublished
    <2> QED
        BY <2>2, <2>3 DEF TypeInv
<1>2. ClaimInv'
    BY DueIsNoEnvelopes DEF DueCommits, EngineInv, OnceInv, UniqueInv, ClaimInv, HoldsClaim
<1>3. \A w \in Workers : TxOnce(tx[w])'
    BY DEF DueCommits, EngineInv, OnceInv, UniqueInv, TxOnce
<1>4. AtMostOnceDisposed'
    BY DEF DueCommits, EngineInv, OnceInv, UniqueInv, ClaimInv, AtMostOnceDisposed
<1> QED
    BY <1>1, <1>2, <1>3, <1>4 DEF OnceInv, UniqueInv

LEMMA DueProv ==
    ASSUME EngineInv, NEW l, NEW d \in Dues, NEW row, NEW events,
           DueCommits(l, d, row, events)
    PROVE  ProvInv'
<1>1. runs' = runs \cup {row} /\ bus' = bus \cup events /\ tx' = tx
    BY DEF DueCommits
<1>2. Joins(row) /\ \A w \in Workers : \A x \in tx[w].rows : x.id # row.id
    BY DEF DueCommits, Joins, UsedRuns
<1>3. \A x : RowInv(x) => RowInv(x)'
    BY <1>1, <1>2, RowGrows
<1>4. IdInv'
    BY <1>1, <1>2 DEF EngineInv, ProvInv, IdInv, Joins
<1>5. \A w \in Workers : TxProv(tx[w])'
    <2>1. \A t : TxProv(t) => TxProv(t)'
        BY <1>1, <1>2, TxGrows
    <2>2. ASSUME NEW w \in Workers PROVE TxProv(tx[w])'
        <3>1. PICK t : t = tx[w]
            OBVIOUS
        <3>2. TxProv(t)'
            BY <2>1, <3>1 DEF EngineInv, ProvInv
        <3> QED
            BY <1>1, <3>1, <3>2, TxPrimed
    <2> QED
        BY <2>2
<1>6. \A x \in runs' : RowInv(x)'
    BY <1>1, <1>2, <1>3 DEF Joins, EngineInv, ProvInv
<1>7. Announced(runs, bus)'
    BY <1>1 DEF DueCommits, EngineInv, ProvInv, Announced
<1>8. BusInv'
    BY <1>1 DEF DueCommits, EngineInv, ProvInv, BusInv, Traces, FiredRun
<1> QED
    BY <1>4, <1>5, <1>6, <1>7, <1>8 DEF ProvInv

LEMMA DueIdent ==
    ASSUME EngineInv, NEW l, NEW d \in Dues, NEW row, NEW events,
           DueCommits(l, d, row, events)
    PROVE  IdentInv'
<1>1. \A e \in events, f \in bus : e.id # f.id
    <2> SUFFICES ASSUME NEW e \in events, NEW f \in bus, e.id = f.id PROVE FALSE
        OBVIOUS
    <2>1. Automated(e.id) /\ row.id = e.id.n
        BY DEF DueCommits, Traces, FiredRun
    <2>2. \E x \in runs : x.id = e.id.n
        BY <2>1 DEF EngineInv, ProvInv, BusInv, Traces, FiredRun
    <2> QED
        BY <2>1, <2>2 DEF DueCommits, UsedRuns
<1>2. Named(bus')
    BY <1>1 DEF DueCommits, EngineInv, IdentInv, Named
<1>3. \A i \in inbox' \cup acked' : i.src # "due" => \E e \in bus' : e.id = i
    BY DueAssumption DEF DueIds, DueCommits, EngineInv, IdentInv
<1> QED
    BY <1>2, <1>3 DEF IdentInv, DueCommits, EngineInv, Named

LEMMA DueAnswers ==
    ASSUME EngineInv, IdentInv', NEW l, NEW d \in Dues, NEW row, NEW events,
           DueCommits(l, d, row, events)
    PROVE  AnswerInv'
<1>1. \A e \in bus' : e.id.src # "due"
    BY OrganicAssumption DEF DueCommits, EngineInv, ProvInv, BusInv, Automated
<1>2. \A i \in inbox' : i \in inbox \/ i.src = "due"
    BY DueAssumption DEF DueIds, DueCommits
<1>3. \A e \in bus' : e.id \in inbox' => e \in bus /\ e.id \in inbox
    <2>1. /\ bus \subseteq bus'
          /\ \A i \in inbox' : i.src # "due" => \E f \in bus : f.id = i
        BY <1>2 DEF DueCommits, EngineInv, IdentInv
    <2> QED
        BY <1>1, <1>2, <2>1, ClaimedIsOld
<1>4. runs \subseteq runs' /\ inbox \subseteq inbox' /\ tx' = tx /\ acked' = acked
    BY DEF DueCommits
<1> QED
    BY <1>3, <1>4 DEF EngineInv, AnswerInv

LEMMA ClockEngine ==
    EngineInv /\ TickInv /\ [ClockNext]_allVars => EngineInv' /\ TickInv'
<1> SUFFICES ASSUME EngineInv, TickInv, [ClockNext]_allVars PROVE EngineInv' /\ TickInv'
    OBVIOUS
<1>1. ASSUME [Next]_vars PROVE EngineInv'
    BY <1>1, NextOnce, NextProv, NextWhole, NextIdent, NextStands, NextAnswers
       DEF EngineInv, OnceInv
<1>2. ASSUME NEW l \in ticks, NEW d \in Dues, RefuseDue(l, d) \/ FireDue(l, d)
      PROVE  EngineInv' /\ TickInv'
    <2>1. PICK row, events : DueCommits(l, d, row, events)
        BY <1>2, DueShape
    <2>2. d.id \notin inbox
        BY <1>2 DEF RefuseDue, FireDue, Claims
    <2>3. OnceInv' /\ ProvInv' /\ IdentInv' /\ AnswerInv'
        BY <2>1, <2>2, DueOnce, DueProv, DueIdent, DueAnswers
    <2>4. WholeInv'
        BY <2>1 DEF DueCommits, EngineInv, WholeInv, TxWhole, Matching
    <2>5. StandInv'
        BY <2>1 DEF DueCommits, EngineInv, StandInv, Sees
    <2>6. TickInv'
        BY <2>1 DEF DueCommits, TickInv
    <2> QED
        BY <2>3, <2>4, <2>5, <2>6 DEF EngineInv
<1>3. CASE Next /\ UNCHANGED ticks
    BY <1>1, <1>3 DEF TickInv
<1>4. CASE StartTick
    <2>1. LoadRules("on_time") \subseteq LoadedRule
        BY LoadRulesType DEF EngineInv, OnceInv, TypeInv, TriggerKinds
    <2>2. \A l \in LoadRules("on_time") : l.kind = "on_time"
        BY LoadRulesOnce
    <2> QED
        BY <1>1, <1>4, <2>1, <2>2 DEF StartTick, TickInv
<1>5. CASE EndTicks \/ UNCHANGED allVars
    BY <1>1, <1>5 DEF EndTicks, allVars, TickInv
<1> QED
    BY <1>2, <1>3, <1>4, <1>5 DEF ClockNext, Clock

LEMMA InitEngines == ClockInit => EngineInv /\ TickInv
<1> SUFFICES ASSUME Init, ticks = {} PROVE EngineInv /\ TickInv
    BY DEF ClockInit
<1>1. OnceInv
    BY InitType, IdleOnce DEF Init, OnceInv, UniqueInv, ClaimInv, HoldsClaim,
                              AtMostOnceDisposed
<1>2. WholeInv
    BY DEF Init, WholeInv, TxWhole, Idle
<1> QED
    BY <1>1, <1>2, InitProv, InitStands DEF EngineInv, TickInv

LEMMA ClockEngineInv == ClockSpec => []EngineInv
BY InitEngines, ClockEngine, PTL DEF ClockSpec

-----------------------------------------------------------------------------
\* What the reaction engine keeps of the ledger and the bus, it keeps with the
\* scheduler beside it (scheduler_service.rs and reaction_engine.rs on one rule
\* table): exactly-once effect, whole chains, the cap, no phantom fires, the belt
\* and the rollback of all that an envelope's failure touched, whichever engine
\* fired, and however a rule is moved between the clock and events meanwhile.
THEOREM BothEngines ==
    ClockSpec => [](/\ TypeOK
                    /\ AtMostOnceDisposed
                    /\ CausalDepth
                    /\ DepthBounded
                    /\ NoPhantomFires
                    /\ FiredBodiesAreLegal
                    /\ RefusalRollsBackAll)
<1>1. EngineInv => /\ TypeOK
                   /\ AtMostOnceDisposed
                   /\ CausalDepth
                   /\ DepthBounded
                   /\ NoPhantomFires
                   /\ FiredBodiesAreLegal
                   /\ RefusalRollsBackAll
    BY WholeChains, Capped, RealFires, LegalBodies, AllBack
       DEF EngineInv, OnceInv, TypeInv, UniqueInv
<1> QED
    BY <1>1, ClockEngineInv, PTL

\* Self-exclusion holds across the engines: where adapters report what they
\* stage, a rule that fires by the clock and is moved to on_event does not hear
\* what it did by the clock.
THEOREM BothEnginesExclude ==
    ASSUME "token" \notin Accounting
    PROVE  ClockSpec => []NoSelfTrigger
<1>1. EngineInv => NoSelfTrigger
    BY Excluded DEF EngineInv
<1> QED
    BY <1>1, ClockEngineInv, PTL

\* A scheduler that writes to the same inbox claims nothing a delivery waits for:
\* no rule of events that stands misses an envelope the relay has an Ok for.
THEOREM NoMissBesideTheClock ==
    ASSUME \A r \in RuleIds :
              Standing(r) /\ InitialRules[r].pattern # {}
                  => KeepsKind(r) /\ InitialRules[r].kind \in EventKinds
    PROVE  ClockSpec => []AnsweredMeansDisposed
<1>1. EngineInv => AnsweredMeansDisposed
    BY Disposed DEF EngineInv
<1> QED
    BY <1>1, ClockEngineInv, PTL

=============================================================================
