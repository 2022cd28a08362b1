-------------------------- MODULE SchedulerProofs --------------------------
(***************************************************************************)
(* The scheduler, proved: types, the ladder, once per generation, the      *)
(* claim and its row, the notes of a single ticker, and that all its       *)
(* ticks together are a DueLedger.                                         *)
(***************************************************************************)
EXTENDS Scheduler, Functions, FiniteSetTheorems, WellFoundedInduction, TLAPS

\* A ticker that holds a claim holds the key of a due record.
ClaimsAKey == \A t \in Tickers : tick[t].pc = "claimed" => tick[t].key \in Key

TypeInv == TypeOK /\ IsFiniteSet(runs) /\ ClaimsAKey

-----------------------------------------------------------------------------
(* The ladder. *)

LEMMA ClampBounds ==
    ASSUME NEW x \in Int, NEW low \in Int, NEW high \in Int, low <= high
    PROVE  /\ Clamp(x, low, high) \in Int
           /\ low <= Clamp(x, low, high) /\ Clamp(x, low, high) <= high
BY DEF Clamp, Least, Greatest

LEMMA DivisionType ==
    ASSUME NEW a \in Int, NEW d \in Int, d >= 1
    PROVE  a \div d \in Int
OBVIOUS

LEMMA DivisionMonotone ==
    ASSUME NEW a \in Int, NEW b \in Int, NEW d \in Int, d >= 1, a <= b
    PROVE  a \div d <= b \div d
<1> DEFINE p == a \div d
           q == b \div d
<1>1. p \in Int /\ q \in Int
    BY DivisionType
<1>2. d * p <= a /\ b < d * q + d
    OBVIOUS
<1> HIDE DEF p, q
<1>3. ASSUME p > q PROVE FALSE
    <2>1. d * p >= d * (q + 1)
        BY <1>1, <1>3
    <2> QED
        BY <1>1, <1>2, <2>1
<1> QED
    BY <1>1, <1>3 DEF p, q

\* LadderConfig::interval_minutes answers within the ladder for every delay and
\* every configuration: a negative floor counts as zero, and a ceiling under the
\* floor gives way to it.
THEOREM IntervalWithinLadder ==
    ASSUME NEW min \in Int
    PROVE  /\ Interval(min) \in Int
           /\ Greatest(Floor, 0) <= Interval(min)
           /\ Interval(min) <= Greatest(Ceiling, Greatest(Floor, 0))
<1> DEFINE a == Greatest(min, 0)
           d == Greatest(Divisor, 1)
           low == Greatest(Floor, 0)
           high == Greatest(Ceiling, low)
<1>1. /\ a \in Int /\ d \in Int /\ d >= 1
      /\ low \in Int /\ high \in Int /\ low <= high
    BY LadderAssumption DEF Greatest
<1>2. a \div d \in Int
    BY <1>1, DivisionType
<1>3. Interval(min) = Clamp(a \div d, low, high)
    BY DEF Interval
<1> HIDE DEF a, d, low, high
<1>4. Interval(min) \in Int /\ low <= Interval(min) /\ Interval(min) <= high
    BY <1>1, <1>2, <1>3, ClampBounds
<1> QED
    BY <1>4 DEF low, high

-----------------------------------------------------------------------------
(* Types. *)

LEMMA TimeRulesType ==
    ASSUME TypeOK
    PROVE  TimeRules \subseteq Loaded /\ Cardinality(TimeRules) \in Nat
<1> DEFINE ids == {s \in RuleIds : Live(s) /\ rules[s].active /\ rules[s].kind = "on_time"}
           load(r) == [id |-> r, watches |-> rules[r].watches, delay |-> rules[r].delay,
                       body |-> rules[r].body]
<1>1. \A r \in ids : load(r) \in Loaded
    <2> SUFFICES ASSUME NEW r \in ids PROVE load(r) \in Loaded
        OBVIOUS
    <2>1. rules[r] \in Row
        BY DEF TypeOK, Live, Stored
    <2> QED
        BY <2>1 DEF Row, Loaded
<1>2. TimeRules = {load(r) : r \in ids}
    BY DEF TimeRules
<1>3. IsFiniteSet(ids)
    BY TableAssumption, FS_Subset
<1>4. IsFiniteSet({load(r) : r \in ids})
    <2> DEFINE f == [r \in ids |-> load(r)]
               T == {load(r) : r \in ids}
    <2> HIDE DEF ids
    <2>1. f \in Surjection(ids, T)
        BY DEF Surjection
    <2> HIDE DEF f, T
    <2>2. IsFiniteSet(T)
        BY <1>3, <2>1, FS_Surjection
    <2> QED
        BY <2>2 DEF T
<1> QED
    BY <1>1, <1>2, <1>4, FS_CardinalityType

LEMMA MinDelayType ==
    ASSUME NEW loaded \in SUBSET Loaded
    PROVE  /\ MinDelay(loaded) \in Nat \cup {None}
           /\ MinDelay(loaded) = None <=> loaded = {}
           /\ loaded # {} => /\ MinDelay(loaded) \in {DelayOf(l) : l \in loaded}
                             /\ \A l \in loaded : MinDelay(loaded) <= DelayOf(l)
<1> DEFINE D == {DelayOf(l) : l \in loaded}
<1>1. \A l \in loaded : DelayOf(l) \in Nat
    BY DEF DelayOf, Loaded
<1>2. CASE loaded = {}
    BY <1>2 DEF MinDelay
<1>3. CASE loaded # {}
    <2>1. D # {} /\ D \subseteq Nat
        BY <1>1, <1>3
    <2>2. \E d \in D : \A e \in D : ~(<<e, d>> \in OpToRel(<, Nat))
        <3> HIDE DEF D
        <3> QED
            BY <2>1, NatLessThanWellFounded, WFMin
    <2>3. PICK d \in D : \A e \in D : ~(<<e, d>> \in OpToRel(<, Nat))
        BY <2>2
    <2>4. \A l \in loaded : d <= DelayOf(l)
        <3> SUFFICES ASSUME NEW l \in loaded PROVE d <= DelayOf(l)
            OBVIOUS
        <3>1. DelayOf(l) \in D
            OBVIOUS
        <3> DEFINE e == DelayOf(l)
        <3> HIDE DEF D, e
        <3>2. e \in Nat /\ d \in Nat /\ <<e, d>> \in Nat \X Nat
            BY <2>1, <3>1 DEF e
        <3>3. ~(<<e, d>> \in OpToRel(<, Nat))
            BY <2>3, <3>1 DEF e
        <3>4. ~(e < d)
            BY <3>2, <3>3 DEF OpToRel
        <3>5. d <= e
            BY <3>2, <3>4
        <3> QED
            BY <3>5 DEF e
    <2>5. MinDelay(loaded) \in D /\ \A l \in loaded : MinDelay(loaded) <= DelayOf(l)
        BY <1>3, <2>4 DEF MinDelay
    <2> QED
        BY <1>3, <2>1, <2>5, BoundAssumption
<1> QED
    BY <1>2, <1>3

LEMMA IntervalMonotone ==
    ASSUME NEW a \in Int, NEW b \in Int, a <= b
    PROVE  Interval(a) <= Interval(b)
<1> DEFINE d == Greatest(Divisor, 1)
           low == Greatest(Floor, 0)
           high == Greatest(Ceiling, low)
           p == Greatest(a, 0)
           q == Greatest(b, 0)
<1>1. /\ p \in Int /\ q \in Int /\ p <= q
      /\ d \in Int /\ d >= 1 /\ low \in Int /\ high \in Int
    BY LadderAssumption DEF Greatest
<1>2. Interval(a) = Clamp(p \div d, low, high) /\ Interval(b) = Clamp(q \div d, low, high)
    BY DEF Interval
<1> HIDE DEF p, q, d, low, high
<1>3. p \div d \in Int /\ q \div d \in Int /\ p \div d <= q \div d
    BY <1>1, DivisionType, DivisionMonotone
<1> DEFINE x == p \div d
           y == q \div d
<1> HIDE DEF x, y
<1>4. x \in Int /\ y \in Int /\ x <= y
    BY <1>3 DEF x, y
<1>5. Clamp(x, low, high) <= Clamp(y, low, high)
    BY <1>1, <1>4 DEF Clamp, Least, Greatest
<1> QED
    BY <1>2, <1>5 DEF x, y

\* The ladder and the rules: a rule more never makes the loop poll more slowly, and
\* a rule less never faster, for every ladder the host may configure.
THEOREM RulesOnlyHasten ==
    ASSUME NEW few \in SUBSET Loaded, NEW many \in SUBSET Loaded, few \subseteq many,
           few # {}
    PROVE  /\ IntervalOf(MinDelay(few)) \in Int /\ IntervalOf(MinDelay(many)) \in Int
           /\ IntervalOf(MinDelay(many)) <= IntervalOf(MinDelay(few))
<1> DEFINE a == MinDelay(many)
           b == MinDelay(few)
<1>1. a \in Nat \cup {None} /\ b \in Nat \cup {None} /\ a # None /\ b # None
    BY MinDelayType
<1>2. PICK l \in few : b = DelayOf(l)
    BY MinDelayType
<1>3. a <= b
    BY <1>2, MinDelayType
<1> HIDE DEF a, b
<1>4. /\ IntervalOf(a) = Interval(a) /\ IntervalOf(b) = Interval(b)
      /\ Interval(a) \in Int /\ Interval(b) \in Int /\ Interval(a) <= Interval(b)
    BY <1>1, <1>3, IntervalMonotone, IntervalWithinLadder DEF IntervalOf
<1> QED
    BY <1>4 DEF a, b

LEMMA IdleType == Idle \in Tick
BY DEF Idle, Tick, Phases, NoLoaded, NoKey, PostureKinds, Intervals

LEMMA InitType == Init => TypeInv
<1> SUFFICES ASSUME Init PROVE TypeInv
    OBVIOUS
<1>1. TypeOK
    <2>1. rules \in [RuleIds -> Row \cup {NoRule}]
        BY TableAssumption DEF Init
    <2>2. field \in [Records -> Moments]
        BY RecordAssumption DEF Init
    <2>3. tick \in [Tickers -> Tick]
        BY IdleType DEF Init
    <2>4. faults \in 0..MaxFaults
        BY BoundAssumption DEF Init
    <2> QED
        BY <2>1, <2>2, <2>3, <2>4 DEF Init, TypeOK
<1>2. IsFiniteSet(runs)
    BY FS_EmptySet DEF Init
<1>3. ClaimsAKey
    BY DEF Init, ClaimsAKey, Idle
<1> QED
    BY <1>1, <1>2, <1>3 DEF TypeInv

\* A step of one tick that leaves all the rest alone.
LEMMA TickStepType ==
    ASSUME TypeInv, NEW t \in Tickers, NEW s \in Tick,
           s.pc = "claimed" => s.key \in Key,
           tick' = [tick EXCEPT ![t] = s],
           UNCHANGED <<world, ledger, posture>>
    PROVE  TypeInv'
<1>1. TypeOK'
    BY DEF TypeInv, TypeOK, world, ledger
<1>2. ClaimsAKey'
    BY DEF TypeInv, TypeOK, ClaimsAKey
<1> QED
    BY <1>1, <1>2 DEF TypeInv, ledger

LEMMA StartType ==
    ASSUME TypeInv, NEW t \in Tickers, Start(t)
    PROVE  TypeInv'
<1> DEFINE s == [Idle EXCEPT !.pc = IF TimeRules = {} THEN "posture" ELSE "rules",
                             !.todo = TimeRules,
                             !.count = Cardinality(TimeRules),
                             !.min = MinDelay(TimeRules)]
<1>1. TimeRules \in SUBSET Loaded /\ Cardinality(TimeRules) \in Nat
    BY TimeRulesType DEF TypeInv
<1>2. MinDelay(TimeRules) \in Nat \cup {None}
    BY <1>1, MinDelayType
<1>3. s \in Tick /\ s.pc # "claimed"
    BY <1>1, <1>2, IdleType DEF Idle, Tick, Phases
<1>4. tick' = [tick EXCEPT ![t] = s] /\ UNCHANGED <<world, ledger, posture>>
    BY DEF Start
<1> QED
    BY <1>3, <1>4, TickStepType

LEMMA TickFacts ==
    ASSUME TypeInv, NEW t \in Tickers
    PROVE  /\ tick[t] \in Tick
           /\ tick[t].pc = "claimed" => tick[t].key \in Key
           /\ tick = [u \in Tickers |-> tick[u]]
BY DEF TypeInv, TypeOK, ClaimsAKey

LEMMA ReadingType ==
    ASSUME NEW r \in Tick, NEW was \in PostureKinds, NEW had \in Intervals
    PROVE  LET s == [r EXCEPT !.pc = "writing", !.was = was, !.had = had]
           IN s \in Tick /\ s.pc # "claimed"
BY DEF Tick, Phases

LEMMA DuplicateType ==
    ASSUME NEW r \in Tick, NEW k
    PROVE  [r EXCEPT !.queue = @ \ {k}] \in Tick
<1> DEFINE queue == r.queue \ {k}
<1>1. queue \in SUBSET Key
    BY DEF Tick
<1> HIDE DEF queue
<1>2. [r EXCEPT !.queue = queue] \in Tick
    BY <1>1 DEF Tick
<1> QED
    BY <1>2 DEF queue

LEMMA KeyOfType ==
    ASSUME TypeInv, NEW r \in RuleIds
    PROVE  \A found \in DueRecords(r) : found \subseteq Key
BY DEF TypeInv, TypeOK, DueRecords, KeyOf, Key

\* The steps of a tick that write nothing but the tick itself.
LEMMA QuietStepType ==
    ASSUME TypeInv, NEW t \in Tickers,
           \/ \E l \in tick[t].todo : SkipRule(t, l) \/ TakeRule(t, l)
           \/ \E k \in tick[t].queue : Duplicate(t, k) \/ Claim(t, k)
           \/ GatewayRefused(t) \/ LedgerRefused(t) \/ RuleDone(t) \/ RulesDone(t) \/ ReadPosture(t)
    PROVE  TypeInv'
<1> USE DEF Phases
<1>0. tick[t] \in Tick /\ tick = [u \in Tickers |-> tick[u]]
    BY TickFacts
<1>1. ASSUME NEW l \in tick[t].todo, SkipRule(t, l)
      PROVE  TypeInv'
    <2> DEFINE s == [tick[t] EXCEPT !.todo = @ \ {l}]
    <2>1. s \in Tick /\ s.pc # "claimed" /\ tick' = [tick EXCEPT ![t] = s]
        BY <1>0, <1>1 DEF SkipRule, NextRule, Tick
    <2> QED
        BY <1>1, <2>1, TickStepType DEF SkipRule
<1>2. ASSUME NEW l \in tick[t].todo, TakeRule(t, l)
      PROVE  TypeInv'
    <2>1. l \in Loaded /\ l.id \in RuleIds
        BY <1>0 DEF Tick, Loaded
    <2>2. PICK found \in DueRecords(l.id) :
              tick' = [tick EXCEPT ![t].pc = "records", ![t].rule = l,
                                   ![t].todo = @ \ {l}, ![t].queue = found]
        BY <1>2 DEF TakeRule
    <2>3. found \subseteq Key
        BY <2>1, KeyOfType
    <2> DEFINE s == [tick[t] EXCEPT !.pc = "records", !.rule = l,
                                    !.todo = @ \ {l}, !.queue = found]
    <2>4. s \in Tick /\ s.pc # "claimed"
        BY <1>0, <2>1, <2>3 DEF Tick
    <2>5. tick' = [tick EXCEPT ![t] = s]
        BY <1>0, <2>2 DEF Tick
    <2> QED
        BY <1>2, <2>4, <2>5, TickStepType DEF TakeRule
<1>3. ASSUME NEW k \in tick[t].queue, Duplicate(t, k)
      PROVE  TypeInv'
    <2> DEFINE s == [tick[t] EXCEPT !.queue = @ \ {k}]
    <2>1. s \in Tick
        BY <1>0, DuplicateType
    <2>2. s.pc # "claimed" /\ tick' = [tick EXCEPT ![t] = s]
        BY <1>0, <1>3 DEF Duplicate, Tick
    <2> QED
        BY <1>3, <2>1, <2>2, TickStepType DEF Duplicate
<1>4. ASSUME NEW k \in tick[t].queue, Claim(t, k)
      PROVE  TypeInv'
    <2> DEFINE s == [tick[t] EXCEPT !.pc = "claimed", !.queue = @ \ {k}, !.key = k]
    <2>1. s \in Tick /\ s.key \in Key /\ tick' = [tick EXCEPT ![t] = s]
        BY <1>0, <1>4 DEF Claim, Tick
    <2> QED
        BY <1>4, <2>1, TickStepType DEF Claim
<1>5. CASE GatewayRefused(t) \/ LedgerRefused(t)
    BY <1>5, IdleType, TickStepType DEF GatewayRefused, LedgerRefused, Idle
<1>6. CASE RuleDone(t)
    <2> DEFINE s == [tick[t] EXCEPT !.pc = "rules", !.rule = NoLoaded]
    <2>1. s \in Tick /\ s.pc # "claimed" /\ tick' = [tick EXCEPT ![t] = s]
        BY <1>0, <1>6 DEF RuleDone, Tick
    <2> QED
        BY <1>6, <2>1, TickStepType DEF RuleDone
<1>7. CASE RulesDone(t)
    <2> DEFINE s == [tick[t] EXCEPT !.pc = "posture"]
    <2>1. s \in Tick /\ s.pc # "claimed" /\ tick' = [tick EXCEPT ![t] = s]
        BY <1>0, <1>7 DEF RulesDone, Tick
    <2> QED
        BY <1>7, <2>1, TickStepType DEF RulesDone
<1>8. CASE ReadPosture(t)
    <2> DEFINE was == IF posture = None THEN "inactive" ELSE posture.posture
               had == IF posture = None THEN None ELSE posture.interval
               s == [tick[t] EXCEPT !.pc = "writing", !.was = was, !.had = had]
    <2>1. was \in PostureKinds /\ had \in Intervals
        BY DEF TypeInv, TypeOK, Posture, PostureKinds, Intervals
    <2>2. tick' = [tick EXCEPT ![t] = s]
        BY <1>0, <1>8 DEF ReadPosture, Tick
    <2> HIDE DEF was, had
    <2>3. s \in Tick /\ s.pc # "claimed"
        BY <1>0, <2>1, ReadingType
    <2> QED
        BY <1>8, <2>2, <2>3, TickStepType DEF ReadPosture
<1> QED
    BY <1>1, <1>2, <1>3, <1>4, <1>5, <1>6, <1>7, <1>8

LEMMA RunIdType ==
    ASSUME TypeInv
    PROVE  RunId \in Nat \ {0}
<1>1. Cardinality(runs) \in Nat
    BY FS_CardinalityType DEF TypeInv
<1> QED
    BY <1>1 DEF RunId

LEMMA CommitType ==
    ASSUME TypeInv, NEW t \in Tickers, NEW status \in {"fired", "refused_body"},
           tick[t].pc = "claimed", Commit(t, status)
    PROVE  inbox' \subseteq Key /\ runs' \subseteq Run /\ IsFiniteSet(runs')
<1>1. tick[t].key \in Key
    BY TickFacts
<1>2. [id |-> RunId, key |-> tick[t].key, status |-> status] \in Run
    BY <1>1, RunIdType DEF Run
<1>3. inbox' \subseteq Key /\ runs' \subseteq Run
    BY <1>1, <1>2 DEF Commit, TypeInv, TypeOK
<1>4. IsFiniteSet(runs')
    BY FS_AddElement DEF Commit, TypeInv
<1> QED
    BY <1>3, <1>4

LEMMA CounterType ==
    ASSUME NEW r \in Tick
    PROVE  /\ [r EXCEPT !.pc = "records", !.key = NoKey, !.fired = @ + 1] \in Tick
           /\ [r EXCEPT !.pc = "records", !.key = NoKey] \in Tick
<1> DEFINE fired == r.fired + 1
<1>1. fired \in Nat
    BY DEF Tick
<1> HIDE DEF fired
<1>2. /\ [r EXCEPT !.pc = "records", !.key = NoKey, !.fired = fired] \in Tick
      /\ [r EXCEPT !.pc = "records", !.key = NoKey] \in Tick
    BY <1>1 DEF Tick, Phases
<1> QED
    BY <1>2 DEF fired

LEMMA CommittingStepType ==
    ASSUME TypeInv, NEW t \in Tickers, RefuseBody(t) \/ Fire(t)
    PROVE  TypeInv'
<1>0. tick[t] \in Tick /\ tick = [u \in Tickers |-> tick[u]]
    BY TickFacts
<1>1. CASE RefuseBody(t)
    <2> DEFINE s == [tick[t] EXCEPT !.pc = "records", !.key = NoKey]
    <2>1. s \in Tick
        BY <1>0, CounterType
    <2>2. s.pc # "claimed" /\ tick' = [tick EXCEPT ![t] = s]
        BY <1>0, <1>1 DEF RefuseBody, Tick
    <2>3. inbox' \subseteq Key /\ runs' \subseteq Run /\ IsFiniteSet(runs')
        BY <1>1, CommitType DEF RefuseBody
    <2> HIDE DEF s
    <2>4. TypeOK'
        BY <1>1, <2>1, <2>2, <2>3 DEF RefuseBody, TypeInv, TypeOK, world
    <2>5. ClaimsAKey'
        BY <2>2 DEF TypeInv, TypeOK, ClaimsAKey
    <2> QED
        BY <2>3, <2>4, <2>5 DEF TypeInv
<1>2. CASE Fire(t)
    <2> DEFINE s == [tick[t] EXCEPT !.pc = "records", !.key = NoKey, !.fired = @ + 1]
    <2>1. s \in Tick
        BY <1>0, CounterType
    <2>2. s.pc # "claimed" /\ tick' = [tick EXCEPT ![t] = s]
        BY <1>0, <1>2 DEF Fire, Tick
    <2>3. inbox' \subseteq Key /\ runs' \subseteq Run /\ IsFiniteSet(runs')
        BY <1>2, CommitType DEF Fire
    <2>4. outbox' \subseteq Nat
        BY <1>2, RunIdType DEF Fire, TypeInv, TypeOK
    <2> HIDE DEF s
    <2>5. TypeOK'
        BY <1>2, <2>1, <2>2, <2>3, <2>4 DEF Fire, TypeInv, TypeOK, world
    <2>6. ClaimsAKey'
        BY <2>2 DEF TypeInv, TypeOK, ClaimsAKey
    <2> QED
        BY <2>3, <2>5, <2>6 DEF TypeInv
<1> QED
    BY <1>1, <1>2

LEMMA PostureType ==
    ASSUME TypeInv, NEW t \in Tickers, WritePosture(t)
    PROVE  posture' \in Posture
<1> DEFINE now == PostureOf(tick[t].count)
           interval == IntervalOf(tick[t].min)
<1>1. tick[t] \in Tick
    BY TickFacts
<1>2. now \in PostureKinds
    BY DEF PostureOf, PostureKinds
<1>3. interval \in Intervals
    BY <1>1, IntervalWithinLadder DEF Tick, IntervalOf, Intervals
<1>4. tick[t].count \in Nat /\ tick[t].min \in Nat \cup {None} /\ tick[t].fired \in Nat
      /\ tick[t].was \in PostureKinds /\ tick[t].had \in Intervals
    BY <1>1 DEF Tick
<1>5. posture' = [posture |-> now, count |-> tick[t].count, min |-> tick[t].min,
                  interval |-> interval, fired |-> tick[t].fired,
                  note |-> NoteOf(t, now, interval)]
    BY DEF WritePosture
<1> HIDE DEF now, interval
<1>6. NoteOf(t, now, interval) \in Note
    <2>1. {<<was, now>> : was \in {tick[t].was} \ {now}} \in SUBSET (PostureKinds \X PostureKinds)
        BY <1>2, <1>4
    <2>2. {<<had, interval>> : had \in {tick[t].had} \ {interval}}
              \in SUBSET (Intervals \X Intervals)
        BY <1>3, <1>4
    <2> QED
        BY <2>1, <2>2 DEF NoteOf, Note
<1> QED
    BY <1>2, <1>3, <1>4, <1>5, <1>6 DEF Posture

LEMMA EndedTickType ==
    ASSUME TypeInv, NEW t \in Tickers, tick' = [tick EXCEPT ![t] = Idle]
    PROVE  tick' \in [Tickers -> Tick] /\ ClaimsAKey'
<1>1. tick' \in [Tickers -> Tick]
    BY IdleType DEF TypeInv, TypeOK
<1>2. ClaimsAKey'
    BY DEF TypeInv, TypeOK, ClaimsAKey, Idle
<1> QED
    BY <1>1, <1>2

LEMMA HostStepType ==
    ASSUME TypeInv,
           \/ Administer
           \/ Install
           \/ \E x \in Records : Pass(x) \/ \E m \in Moments : Move(x, m)
    PROVE  TypeInv'
<1>1. ASSUME UNCHANGED <<ledger, posture, tick, faults>>,
             rules' \in [RuleIds -> Row \cup {NoRule}], wired' \in BOOLEAN,
             field' \in [Records -> Moments], due' \subseteq Records
      PROVE  TypeInv'
    BY <1>1 DEF TypeInv, TypeOK, ClaimsAKey, ledger
<1>2. ASSUME NEW r \in RuleIds, NEW row \in Row, ChangeRule(r, row)
      PROVE  TypeInv'
    <2>1. rules' \in [RuleIds -> Row \cup {NoRule}]
        BY <1>2 DEF ChangeRule, TypeInv, TypeOK
    <2> QED
        BY <1>1, <1>2, <2>1 DEF ChangeRule, TypeInv, TypeOK
<1>3. CASE Administer
    <2>1. \A r \in RuleIds : Stored(r) => rules[r] \in Row
        BY DEF Stored, TypeInv, TypeOK
    <2>2. ASSUME NEW r \in RuleIds, NEW d \in Drafts[r],
                 CreateRule(r, d) \/ ReplaceRule(r, d)
          PROVE  TypeInv'
        <3>1. d \in Row
            BY TableAssumption
        <3>2. [d EXCEPT !.active = TRUE, !.deleted = FALSE] \in Row
            BY <3>1 DEF Row
        <3>3. Stored(r) => [d EXCEPT !.active = rules[r].active, !.deleted = FALSE] \in Row
            BY <2>1, <3>1 DEF Row
        <3> QED
            BY <1>2, <2>2, <3>2, <3>3 DEF CreateRule, ReplaceRule, Live
    <2>3. ASSUME NEW r \in RuleIds, DeleteRule(r) \/ \E active \in BOOLEAN : SetActive(r, active)
          PROVE  TypeInv'
        <3>1. Stored(r)
            BY <2>3 DEF DeleteRule, SetActive, Live
        <3>2. /\ [rules[r] EXCEPT !.deleted = TRUE] \in Row
              /\ \A active \in BOOLEAN : [rules[r] EXCEPT !.active = active] \in Row
            BY <2>1, <3>1 DEF Row
        <3> QED
            BY <1>2, <2>3, <3>2 DEF DeleteRule, SetActive
    <2>4. ASSUME NEW r \in RuleIds, NEW c \in Corruptions, CorruptRule(r, c)
          PROVE  TypeInv'
        <3>1. [rules[r] EXCEPT !.body = c.body, !.watches = c.watches] \in Row
            BY <2>1, <2>4, TableAssumption DEF Row, CorruptRule
        <3> QED
            BY <1>2, <2>4, <3>1 DEF CorruptRule
    <2> QED
        BY <1>3, <2>2, <2>3, <2>4, TableAssumption DEF Administer
<1>4. CASE Install
    BY <1>1, <1>4 DEF Install, TypeInv, TypeOK
<1>5. ASSUME NEW x \in Records, Pass(x)
      PROVE  TypeInv'
    BY <1>1, <1>5 DEF Pass, TypeInv, TypeOK
<1>6. ASSUME NEW x \in Records, NEW m \in Moments, Move(x, m)
      PROVE  TypeInv'
    BY <1>1, <1>6 DEF Move, TypeInv, TypeOK
<1> QED
    BY <1>3, <1>4, <1>5, <1>6

LEMMA TypeStep == TypeInv /\ [Next]_vars => TypeInv'
<1> SUFFICES ASSUME TypeInv, [Next]_vars PROVE TypeInv'
    OBVIOUS
<1>1. CASE UNCHANGED vars
    BY <1>1 DEF vars, TypeInv, TypeOK, ClaimsAKey
<1>2. ASSUME NEW t \in Tickers, Evaluate(t)
      PROVE  TypeInv'
    <2>1. CASE Start(t)
        BY <2>1, StartType
    <2>2. CASE RefuseBody(t) \/ Fire(t)
        BY <2>2, CommittingStepType
    <2>3. CASE WritePosture(t)
        <3>1. posture' \in Posture
            BY <2>3, PostureType
        <3>2. tick' = [tick EXCEPT ![t] = Idle] /\ UNCHANGED <<world, ledger>>
            BY <2>3 DEF WritePosture
        <3>3. tick' \in [Tickers -> Tick] /\ ClaimsAKey'
            BY <3>2, EndedTickType
        <3> QED
            BY <3>1, <3>2, <3>3 DEF TypeInv, TypeOK, world, ledger
    <2> QED
        BY <1>2, <2>1, <2>2, <2>3, QuietStepType DEF Evaluate
<1>3. ASSUME NEW t \in Tickers, NotComposed(t)
      PROVE  TypeInv'
    BY <1>1, <1>3 DEF NotComposed
<1>4. ASSUME NEW t \in Tickers, Fail(t)
      PROVE  TypeInv'
    <2>1. tick' \in [Tickers -> Tick] /\ ClaimsAKey'
        BY <1>4, EndedTickType DEF Fail
    <2>2. faults' \in 0..MaxFaults
        BY <1>4, BoundAssumption DEF Fail, TypeInv, TypeOK
    <2> QED
        BY <1>4, <2>1, <2>2 DEF Fail, TypeInv, TypeOK, ledger
<1> QED
    BY <1>1, <1>2, <1>3, <1>4, HostStepType DEF Next

LEMMA TypeInvariance == Spec => []TypeInv
<1>1. Init => TypeInv
    BY InitType
<1>2. TypeInv /\ [Next]_vars => TypeInv'
    BY TypeStep
<1> QED
    BY <1>1, <1>2, PTL DEF Spec

\* The state of the scheduler keeps its shape: in particular every claim an open
\* transaction holds, and every row committed, is about a rule, a record and a
\* moment there are, and every interval written is a number.
THEOREM SchedulerTypeCorrect == Spec => []TypeOK
<1>1. TypeInv => TypeOK
    BY DEF TypeInv
<1> QED
    BY <1>1, TypeInvariance, PTL

-----------------------------------------------------------------------------
(* The claim. *)

\* Nothing open is committed yet, and no two open transactions hold one claim.
OpenClaims ==
    /\ \A t \in Tickers : tick[t].pc = "claimed" => tick[t].key \notin inbox
    /\ \A t, u \in Tickers :
          tick[t].pc = "claimed" /\ tick[u].pc = "claimed" /\ tick[t].key = tick[u].key => t = u

LedgerInv == ClaimIsTheLedger /\ FiresOncePerGeneration /\ OpenClaims

LEMMA InitLedger == Init => LedgerInv
BY DEF Init, LedgerInv, ClaimIsTheLedger, FiresOncePerGeneration, OpenClaims, Idle

\* A step that commits nothing and takes no claim.
LEMMA QuietLedger ==
    ASSUME TypeInv, LedgerInv, UNCHANGED ledger,
           \A t \in Tickers : tick'[t].pc = "claimed" =>
                                  tick[t].pc = "claimed" /\ tick'[t].key = tick[t].key
    PROVE  LedgerInv'
<1>1. ClaimIsTheLedger' /\ FiresOncePerGeneration'
    BY DEF LedgerInv, ClaimIsTheLedger, FiresOncePerGeneration, ledger
<1>2. OpenClaims'
    BY DEF LedgerInv, OpenClaims, ledger
<1> QED
    BY <1>1, <1>2 DEF LedgerInv

\* The claim of ticker t is committed with its row.
LEMMA CommitLedger ==
    ASSUME TypeInv, LedgerInv, NEW t \in Tickers, NEW status \in {"fired", "refused_body"},
           tick[t].pc = "claimed", Commit(t, status),
           outbox' = IF status = "fired" THEN outbox \cup {RunId} ELSE outbox,
           tick'[t].pc # "claimed",
           \A u \in Tickers \ {t} : tick'[u] = tick[u]
    PROVE  LedgerInv'
<1> DEFINE new == [id |-> RunId, key |-> tick[t].key, status |-> status]
<1>1. inbox' = inbox \cup {new.key} /\ runs' = runs \cup {new}
    BY DEF Commit
<1>2. \A x \in runs : x.key # new.key
    BY DEF LedgerInv, ClaimIsTheLedger, OpenClaims
<1>3. ClaimIsTheLedger'
    <2>1. inbox = {x.key : x \in runs}
          /\ outbox = {x.id : x \in {y \in runs : y.status = "fired"}}
        BY DEF LedgerInv, ClaimIsTheLedger
    <2>2. new.key = tick[t].key /\ new.id = RunId /\ new.status = status
        OBVIOUS
    <2> HIDE DEF new
    <2>3. inbox' = {x.key : x \in runs'}
        BY <1>1, <2>1
    <2>4. outbox' = {x.id : x \in {y \in runs' : y.status = "fired"}}
        <3>1. CASE status = "fired"
            BY <1>1, <2>1, <2>2, <3>1
        <3>2. CASE status # "fired"
            BY <1>1, <2>1, <2>2, <3>2
        <3> QED
            BY <3>1, <3>2
    <2> QED
        BY <2>3, <2>4 DEF ClaimIsTheLedger
<1>4. FiresOncePerGeneration'
    BY <1>1, <1>2 DEF LedgerInv, FiresOncePerGeneration
<1>5. OpenClaims'
    <2>1. \A u \in Tickers : tick'[u].pc = "claimed" =>
              u # t /\ tick[u].pc = "claimed" /\ tick'[u].key = tick[u].key
        OBVIOUS
    <2> QED
        BY <1>1, <2>1 DEF LedgerInv, OpenClaims
<1> QED
    BY <1>3, <1>4, <1>5 DEF LedgerInv

LEMMA RuleStepFrame ==
    ASSUME TypeInv, NEW t \in Tickers, NEW l \in tick[t].todo,
           SkipRule(t, l) \/ TakeRule(t, l)
    PROVE  /\ tick'[t].pc \notin {"claimed", "writing"}
           /\ \A u \in Tickers \ {t} : tick'[u] = tick[u]
           /\ UNCHANGED <<ledger, posture>>
<1>0. tick[t] \in Tick /\ tick = [u \in Tickers |-> tick[u]]
    BY TickFacts
<1>1. CASE SkipRule(t, l)
    BY <1>0, <1>1 DEF SkipRule, NextRule, Tick
<1>2. CASE TakeRule(t, l)
    <2>1. PICK found \in DueRecords(l.id) :
              tick' = [tick EXCEPT ![t].pc = "records", ![t].rule = l,
                                   ![t].todo = @ \ {l}, ![t].queue = found]
        BY <1>2 DEF TakeRule
    <2>2. UNCHANGED <<ledger, posture>>
        BY <1>2 DEF TakeRule
    <2> QED
        BY <1>0, <2>1, <2>2 DEF Tick
<1> QED
    BY <1>1, <1>2

LEMMA EvaluateLedger ==
    ASSUME TypeInv, LedgerInv, NEW t \in Tickers, Evaluate(t)
    PROVE  LedgerInv'
<1>0. tick[t] \in Tick /\ tick = [u \in Tickers |-> tick[u]]
    BY TickFacts
<1>1. CASE Start(t)
    <2>1. tick'[t].pc # "claimed"
        BY <1>0, <1>1 DEF Start, Idle
    <2>2. UNCHANGED ledger /\ \A u \in Tickers \ {t} : tick'[u] = tick[u]
        BY <1>0, <1>1 DEF Start
    <2> QED
        BY <2>1, <2>2, QuietLedger
<1>2. ASSUME NEW l \in tick[t].todo, SkipRule(t, l) \/ TakeRule(t, l)
      PROVE  LedgerInv'
    BY <1>2, RuleStepFrame, QuietLedger
<1>3. ASSUME NEW k \in tick[t].queue, Duplicate(t, k)
      PROVE  LedgerInv'
    BY <1>0, <1>3, QuietLedger DEF Duplicate, Tick
<1>4. ASSUME NEW k \in tick[t].queue, Claim(t, k)
      PROVE  LedgerInv'
    <2>1. /\ tick'[t].key = k
          /\ \A u \in Tickers \ {t} : tick'[u] = tick[u]
          /\ UNCHANGED ledger
        BY <1>0, <1>4 DEF Claim, Tick
    <2>2. /\ k \notin inbox
          /\ \A u \in Tickers : tick[u].pc = "claimed" => tick[u].key # k
        BY <1>4 DEF Claim
    <2>3. ClaimIsTheLedger' /\ FiresOncePerGeneration'
        BY <2>1 DEF LedgerInv, ClaimIsTheLedger, FiresOncePerGeneration, ledger
    <2>4. OpenClaims'
        <3>1. \A u \in Tickers : tick'[u].pc = "claimed" => tick'[u].key \notin inbox'
            BY <2>1, <2>2 DEF LedgerInv, OpenClaims, ledger
        <3>2. ASSUME NEW u \in Tickers, NEW v \in Tickers, tick'[u].pc = "claimed",
                     tick'[v].pc = "claimed", tick'[u].key = tick'[v].key
              PROVE  u = v
            BY <2>1, <2>2, <3>2 DEF LedgerInv, OpenClaims
        <3> QED
            BY <3>1, <3>2 DEF OpenClaims
    <2> QED
        BY <2>3, <2>4 DEF LedgerInv
<1>5. CASE RefuseBody(t)
    BY <1>0, <1>5, CommitLedger DEF RefuseBody, Tick
<1>6. CASE Fire(t)
    BY <1>0, <1>6, CommitLedger DEF Fire, Tick
<1>7. CASE GatewayRefused(t) \/ LedgerRefused(t)
    BY <1>0, <1>7, QuietLedger DEF GatewayRefused, LedgerRefused, Idle
<1>8. CASE RuleDone(t) \/ RulesDone(t)
    BY <1>0, <1>8, QuietLedger DEF RuleDone, RulesDone, Tick
<1>9. CASE ReadPosture(t)
    BY <1>0, <1>9, QuietLedger DEF ReadPosture, Tick
<1>10. CASE WritePosture(t)
    BY <1>0, <1>10, QuietLedger DEF WritePosture, Idle
<1> QED
    BY <1>1, <1>2, <1>3, <1>4, <1>5, <1>6, <1>7, <1>8, <1>9, <1>10 DEF Evaluate

\* What the host and the records do leaves the ticks and the ledger alone.
LEMMA HostStepFrame ==
    ASSUME \/ Administer
           \/ Install
           \/ \E x \in Records : Pass(x) \/ \E m \in Moments : Move(x, m)
    PROVE  UNCHANGED <<ledger, posture, tick, faults>>
<1>1. CASE Administer
    BY <1>1 DEF Administer, CreateRule, ReplaceRule, SetActive, DeleteRule, CorruptRule,
                ChangeRule
<1>2. CASE Install
    BY <1>2 DEF Install
<1>3. CASE \E x \in Records : Pass(x) \/ \E m \in Moments : Move(x, m)
    BY <1>3 DEF Pass, Move
<1> QED
    BY <1>1, <1>2, <1>3

LEMMA LedgerStep == TypeInv /\ LedgerInv /\ [Next]_vars => LedgerInv'
<1> SUFFICES ASSUME TypeInv, LedgerInv, [Next]_vars PROVE LedgerInv'
    OBVIOUS
<1>1. CASE UNCHANGED vars
    BY <1>1, QuietLedger DEF vars, ledger
<1>2. ASSUME NEW t \in Tickers, NotComposed(t)
      PROVE  LedgerInv'
    BY <1>1, <1>2 DEF NotComposed
<1>3. ASSUME NEW t \in Tickers, Fail(t)
      PROVE  LedgerInv'
    <2>1. tick = [u \in Tickers |-> tick[u]]
        BY TickFacts
    <2> QED
        BY <1>3, <2>1, QuietLedger DEF Fail, Idle
<1>4. CASE \/ Administer
           \/ Install
           \/ \E x \in Records : Pass(x) \/ \E m \in Moments : Move(x, m)
    BY <1>4, HostStepFrame, QuietLedger
<1> QED
    BY <1>1, <1>2, <1>3, <1>4, EvaluateLedger DEF Next

LEMMA LedgerInvariance == Spec => []LedgerInv
<1>1. TypeInv /\ LedgerInv /\ [Next]_vars => LedgerInv'
    BY LedgerStep
<1> QED
    BY <1>1, InitLedger, TypeInvariance, PTL DEF Spec

\* However many loops call evaluate_tick, overlap and die, a rule has at most one
\* row for one generation of a record.
THEOREM OncePerGeneration == Spec => []FiresOncePerGeneration
<1>1. LedgerInv => FiresOncePerGeneration
    BY DEF LedgerInv
<1> QED
    BY <1>1, LedgerInvariance, PTL

\* A due fire is claimed exactly when a row says what became of it, and announced
\* exactly when it fired: neither a crash nor a refusal leaves one without the other.
THEOREM ClaimLedger == Spec => []ClaimIsTheLedger
<1>1. LedgerInv => ClaimIsTheLedger
    BY DEF LedgerInv
<1> QED
    BY <1>1, LedgerInvariance, PTL

-----------------------------------------------------------------------------
(* The posture row. *)

\* What a tick read of the posture row, between its two statements, still stands.
ReadStands ==
    \A t \in Tickers : tick[t].pc = "writing" =>
        /\ tick[t].was = IF posture = None THEN "inactive" ELSE posture.posture
        /\ tick[t].had = IF posture = None THEN None ELSE posture.interval

\* A step that leaves the posture row alone and reads nothing of it.
LEMMA QuietRead ==
    ASSUME ReadStands, UNCHANGED posture,
           \A t \in Tickers : tick'[t].pc = "writing" => tick'[t] = tick[t]
    PROVE  ReadStands'
BY DEF ReadStands

\* A single ticker.
Alone == \A t, u \in Tickers : t = u

LEMMA EvaluateRead ==
    ASSUME Alone, TypeInv, ReadStands, NEW t \in Tickers, Evaluate(t)
    PROVE  ReadStands'
<1>0. tick[t] \in Tick /\ tick = [u \in Tickers |-> tick[u]]
    BY TickFacts
<1>1. CASE Start(t)
    <2>1. tick'[t].pc # "writing"
        BY <1>0, <1>1 DEF Start, Idle
    <2>2. UNCHANGED posture /\ \A u \in Tickers \ {t} : tick'[u] = tick[u]
        BY <1>0, <1>1 DEF Start
    <2> QED
        BY <2>1, <2>2, QuietRead
<1>2. ASSUME NEW l \in tick[t].todo, SkipRule(t, l) \/ TakeRule(t, l)
      PROVE  ReadStands'
    BY <1>2, RuleStepFrame, QuietRead
<1>3. ASSUME NEW k \in tick[t].queue, Duplicate(t, k) \/ Claim(t, k)
      PROVE  ReadStands'
    BY <1>0, <1>3, QuietRead DEF Duplicate, Claim, Tick
<1>4. CASE RefuseBody(t) \/ Fire(t)
    BY <1>0, <1>4, QuietRead DEF RefuseBody, Fire, Tick
<1>5. CASE GatewayRefused(t) \/ LedgerRefused(t)
    BY <1>0, <1>5, QuietRead DEF GatewayRefused, LedgerRefused, Idle
<1>6. CASE RuleDone(t) \/ RulesDone(t)
    BY <1>0, <1>6, QuietRead DEF RuleDone, RulesDone, Tick
<1>7. CASE ReadPosture(t)
    <2>1. /\ tick'[t].was = IF posture = None THEN "inactive" ELSE posture.posture
          /\ tick'[t].had = IF posture = None THEN None ELSE posture.interval
          /\ posture' = posture
        BY <1>0, <1>7 DEF ReadPosture, Tick
    <2> QED
        BY <2>1 DEF ReadStands, Alone
<1>8. CASE WritePosture(t)
    <2>1. tick'[t].pc # "writing"
        BY <1>0, <1>8 DEF WritePosture, Idle
    <2> QED
        BY <2>1 DEF ReadStands, Alone
<1> QED
    BY <1>1, <1>2, <1>3, <1>4, <1>5, <1>6, <1>7, <1>8 DEF Evaluate

LEMMA ReadStep == Alone /\ TypeInv /\ ReadStands /\ [Next]_vars => ReadStands'
<1> SUFFICES ASSUME Alone, TypeInv, ReadStands, [Next]_vars PROVE ReadStands'
    OBVIOUS
<1>1. CASE UNCHANGED vars
    BY <1>1, QuietRead DEF vars
<1>2. ASSUME NEW t \in Tickers, NotComposed(t)
      PROVE  ReadStands'
    BY <1>1, <1>2 DEF NotComposed
<1>3. ASSUME NEW t \in Tickers, Fail(t)
      PROVE  ReadStands'
    <2>1. tick = [u \in Tickers |-> tick[u]]
        BY TickFacts
    <2> QED
        BY <1>3, <2>1, QuietRead DEF Fail, Idle
<1>4. CASE \/ Administer
           \/ Install
           \/ \E x \in Records : Pass(x) \/ \E m \in Moments : Move(x, m)
    BY <1>4, HostStepFrame, QuietRead
<1> QED
    BY <1>1, <1>2, <1>3, <1>4, EvaluateRead DEF Next

\* The step that changes the posture row notes exactly what it changes.
Declares ==
    posture' # posture =>
        LET was == IF posture = None THEN "inactive" ELSE posture.posture
            had == IF posture = None THEN None ELSE posture.interval
        IN /\ posture'.posture # was => <<was, posture'.posture>> \in posture'.note.posture
           /\ posture'.interval # had => <<had, posture'.interval>> \in posture'.note.interval

LEMMA WriteDeclares ==
    ASSUME ReadStands, NEW t \in Tickers, WritePosture(t)
    PROVE  Declares
<1> DEFINE now == PostureOf(tick[t].count)
           interval == IntervalOf(tick[t].min)
           was == IF posture = None THEN "inactive" ELSE posture.posture
           had == IF posture = None THEN None ELSE posture.interval
<1>1. posture' = [posture |-> now, count |-> tick[t].count, min |-> tick[t].min,
                  interval |-> interval, fired |-> tick[t].fired,
                  note |-> NoteOf(t, now, interval)]
    BY DEF WritePosture
<1>2. tick[t].was = was /\ tick[t].had = had
    BY DEF ReadStands, WritePosture
<1> HIDE DEF now, interval, was, had
<1>3. /\ now # was => <<was, now>> \in NoteOf(t, now, interval).posture
      /\ interval # had => <<had, interval>> \in NoteOf(t, now, interval).interval
    BY <1>2 DEF NoteOf
<1>4. /\ posture'.posture = now /\ posture'.interval = interval
      /\ posture'.note = NoteOf(t, now, interval)
    BY <1>1
<1> QED
    BY <1>3, <1>4 DEF Declares, was, had

LEMMA StepDeclares == ReadStands /\ [Next]_vars => [Declares]_vars
<1> SUFFICES ASSUME ReadStands, Next PROVE Declares
    OBVIOUS
<1>1. ASSUME NEW t \in Tickers, Evaluate(t)
      PROVE  Declares
    <2>1. CASE WritePosture(t)
        BY <2>1, WriteDeclares
    <2>2. CASE ~WritePosture(t)
        <3>1. posture' = posture
            BY <1>1, <2>2 DEF Evaluate, Start, SkipRule, TakeRule, Duplicate, Claim,
                   RefuseBody, Fire, GatewayRefused, LedgerRefused, RuleDone, RulesDone, ReadPosture
        <3> QED
            BY <3>1 DEF Declares
    <2> QED
        BY <2>1, <2>2
<1>2. ASSUME NEW t \in Tickers, NotComposed(t) \/ Fail(t)
      PROVE  Declares
    BY <1>2 DEF NotComposed, Fail, vars, Declares
<1>3. CASE \/ Administer
           \/ Install
           \/ \E x \in Records : Pass(x) \/ \E m \in Moments : Move(x, m)
    BY <1>3, HostStepFrame DEF Declares
<1> QED
    BY <1>1, <1>2, <1>3 DEF Next

\* With one loop calling evaluate_tick, no change of the posture or the interval
\* is silent.  With two it may be: that one loop is the assumption it takes.
THEOREM DeclaredAlone ==
    ASSUME Alone
    PROVE  Spec => DeviationsDeclared
<1>1. Init => ReadStands
    BY DEF Init, ReadStands, Idle
<1>2. TypeInv /\ ReadStands /\ [Next]_vars => ReadStands'
    BY Alone, ReadStep
<1>3. ReadStands /\ [Next]_vars => [Declares]_vars
    BY StepDeclares
<1>4. Spec => [][Declares]_vars
    BY <1>1, <1>2, <1>3, TypeInvariance, PTL DEF Spec
<1> QED
    BY <1>4 DEF DeviationsDeclared, Declares

-----------------------------------------------------------------------------
(* The abstract ledger. *)

\* A row's id is no greater than the number of rows, so the next one is fresh.
Numbered == \A x \in runs : x.id <= Cardinality(runs)

\* What a tick fires is of the rule it is at; an idle ticker has nothing to do.
HoldsOwn ==
    \A t \in Tickers :
        /\ tick[t].pc = "idle" => tick[t].todo = {}
        /\ Firing(t) => \A k \in tick[t].queue : k.rule = tick[t].rule.id
        /\ tick[t].pc = "claimed" => tick[t].key.rule = tick[t].rule.id

DuesInv == Numbered /\ HoldsOwn

LEMMA InitDues == Init => DuesInv
BY FS_EmptySet DEF Init, DuesInv, Numbered, HoldsOwn, Firing, Idle

\* One tick steps, and the run ledger is as it was or has one row more.
LEMMA DuesFrame ==
    ASSUME TypeInv, DuesInv, NEW t \in Tickers,
           \A u \in Tickers \ {t} : tick'[u] = tick[u],
           tick'[t].pc = "idle" => tick'[t].todo = {},
           Firing(t)' => \A k \in tick'[t].queue : k.rule = tick'[t].rule.id,
           tick'[t].pc = "claimed" => tick'[t].key.rule = tick'[t].rule.id,
           \/ UNCHANGED runs
           \/ \E x : x.id = RunId /\ runs' = runs \cup {x}
    PROVE  DuesInv'
<1>1. HoldsOwn'
    BY DEF DuesInv, HoldsOwn, Firing
<1>2. Numbered'
    <2>1. CASE UNCHANGED runs
        BY <2>1 DEF DuesInv, Numbered
    <2>2. ASSUME NEW x, x.id = RunId, runs' = runs \cup {x}
          PROVE  Numbered'
        <3>1. IsFiniteSet(runs) /\ Cardinality(runs) \in Nat
            BY FS_CardinalityType DEF TypeInv
        <3>2. \A y \in runs : y.id \in Nat /\ y.id <= Cardinality(runs)
            BY DEF DuesInv, Numbered, TypeInv, TypeOK, Run
        <3>3. x \notin runs
            BY <2>2, <3>1, <3>2 DEF RunId
        <3>4. Cardinality(runs') = Cardinality(runs) + 1
            BY <2>2, <3>1, <3>3, FS_AddElement
        <3>5. x.id = Cardinality(runs) + 1
            BY <2>2 DEF RunId
        <3> QED
            BY <2>2, <3>1, <3>2, <3>4, <3>5 DEF Numbered
    <2> QED
        BY <2>1, <2>2
<1> QED
    BY <1>1, <1>2 DEF DuesInv

LEMMA EvaluateDues ==
    ASSUME TypeInv, DuesInv, NEW t \in Tickers, Evaluate(t)
    PROVE  DuesInv'
<1>0. tick[t] \in Tick /\ tick = [u \in Tickers |-> tick[u]]
    BY TickFacts
<1> USE DEF Firing
<1>h. /\ tick[t].pc = "idle" => tick[t].todo = {}
      /\ Firing(t) => \A k \in tick[t].queue : k.rule = tick[t].rule.id
      /\ tick[t].pc = "claimed" => tick[t].key.rule = tick[t].rule.id
    BY DEF DuesInv, HoldsOwn
<1>1. CASE Start(t)
    <2>1. tick'[t].pc \in {"posture", "rules"} /\ UNCHANGED runs
        BY <1>0, <1>1 DEF Start, Idle, ledger
    <2>2. \A u \in Tickers \ {t} : tick'[u] = tick[u]
        BY <1>0, <1>1 DEF Start
    <2> QED
        BY <2>1, <2>2, DuesFrame
<1>2. ASSUME NEW l \in tick[t].todo, SkipRule(t, l)
      PROVE  DuesInv'
    BY <1>0, <1>2, DuesFrame DEF SkipRule, NextRule, Tick, ledger
<1>3. ASSUME NEW l \in tick[t].todo, TakeRule(t, l)
      PROVE  DuesInv'
    <2>1. PICK found \in DueRecords(l.id) :
              tick' = [tick EXCEPT ![t].pc = "records", ![t].rule = l,
                                   ![t].todo = @ \ {l}, ![t].queue = found]
        BY <1>3 DEF TakeRule
    <2>2. \A k \in found : k.rule = l.id
        BY DEF DueRecords, KeyOf
    <2>3. /\ tick'[t].pc = "records" /\ tick'[t].rule = l /\ tick'[t].queue = found
          /\ \A u \in Tickers \ {t} : tick'[u] = tick[u]
        BY <1>0, <2>1 DEF Tick
    <2>4. UNCHANGED runs
        BY <1>3 DEF TakeRule, ledger
    <2> QED
        BY <2>2, <2>3, <2>4, DuesFrame
<1>4. ASSUME NEW k \in tick[t].queue, Duplicate(t, k)
      PROVE  DuesInv'
    BY <1>0, <1>h, <1>4, DuesFrame DEF Duplicate, Tick, ledger
<1>5. ASSUME NEW k \in tick[t].queue, Claim(t, k)
      PROVE  DuesInv'
    <2>1. /\ tick'[t].pc = "claimed" /\ tick'[t].key = k /\ tick'[t].rule = tick[t].rule
          /\ tick'[t].queue = tick[t].queue \ {k} /\ tick[t].pc = "records"
          /\ \A u \in Tickers \ {t} : tick'[u] = tick[u]
          /\ UNCHANGED runs
        BY <1>0, <1>5 DEF Claim, Tick, ledger
    <2> QED
        BY <1>h, <2>1, DuesFrame
<1>6. CASE RefuseBody(t) \/ Fire(t)
    <2>1. /\ tick'[t].pc = "records" /\ tick'[t].rule = tick[t].rule
          /\ tick'[t].queue = tick[t].queue /\ tick[t].pc = "claimed"
          /\ \A u \in Tickers \ {t} : tick'[u] = tick[u]
        BY <1>0, <1>6 DEF RefuseBody, Fire, Tick
    <2>2. \E x : x.id = RunId /\ runs' = runs \cup {x}
        BY <1>6 DEF RefuseBody, Fire, Commit
    <2> QED
        BY <1>h, <2>1, <2>2, DuesFrame
<1>7. CASE GatewayRefused(t) \/ LedgerRefused(t)
    BY <1>0, <1>7, DuesFrame DEF GatewayRefused, LedgerRefused, Idle, ledger
<1>8. CASE RuleDone(t) \/ RulesDone(t) \/ ReadPosture(t)
    <2>1. /\ tick'[t].pc \in {"rules", "posture", "writing"}
          /\ \A u \in Tickers \ {t} : tick'[u] = tick[u]
          /\ UNCHANGED runs
        BY <1>0, <1>8 DEF RuleDone, RulesDone, ReadPosture, Tick, ledger
    <2> QED
        BY <2>1, DuesFrame
<1>9. CASE WritePosture(t)
    BY <1>0, <1>9, DuesFrame DEF WritePosture, Idle, ledger
<1> QED
    BY <1>1, <1>2, <1>3, <1>4, <1>5, <1>6, <1>7, <1>8, <1>9 DEF Evaluate

LEMMA DuesStep == TypeInv /\ DuesInv /\ [Next]_vars => DuesInv'
<1> SUFFICES ASSUME TypeInv, DuesInv, [Next]_vars PROVE DuesInv'
    OBVIOUS
<1>1. ASSUME UNCHANGED <<runs, tick>>
      PROVE  DuesInv'
    BY <1>1 DEF DuesInv, Numbered, HoldsOwn, Firing
<1>2. ASSUME NEW t \in Tickers, Fail(t)
      PROVE  DuesInv'
    <2>1. tick = [u \in Tickers |-> tick[u]]
        BY TickFacts
    <2> QED
        BY <1>2, <2>1, DuesFrame DEF Fail, Idle, Firing, ledger
<1>3. ASSUME NEW t \in Tickers, NotComposed(t)
      PROVE  DuesInv'
    BY <1>1, <1>3 DEF NotComposed, vars
<1>4. CASE \/ Administer
           \/ Install
           \/ \E x \in Records : Pass(x) \/ \E m \in Moments : Move(x, m)
    BY <1>1, <1>4, HostStepFrame DEF ledger
<1>5. CASE UNCHANGED vars
    BY <1>1, <1>5 DEF vars
<1> QED
    BY <1>2, <1>3, <1>4, <1>5, EvaluateDues DEF Next

LEMMA DuesInvariance == Spec => []DuesInv
<1>1. TypeInv /\ DuesInv /\ [Next]_vars => DuesInv'
    BY DuesStep
<1> QED
    BY <1>1, InitDues, TypeInvariance, PTL DEF Spec

\* What one tick adds to or leaves of all that is loaded and found.
LEMMA UnionsShrink ==
    ASSUME NEW t \in Tickers, \A u \in Tickers \ {t} : tick'[u] = tick[u],
           LoadedBy(t)' \subseteq LoadedBy(t), FoundBy(t)' \subseteq FoundBy(t)
    PROVE  AllLoaded' \subseteq AllLoaded /\ AllFound' \subseteq AllFound
<1>1. \A u \in Tickers \ {t} : LoadedBy(u)' = LoadedBy(u) /\ FoundBy(u)' = FoundBy(u)
    BY DEF LoadedBy, FoundBy, Firing
<1> QED
    BY <1>1 DEF AllLoaded, AllFound

\* A tick that leaves the ledger and the world alone, and at most gives up some
\* of what it has loaded or found.
LEMMA ForgetStep ==
    ASSUME NEW t \in Tickers, \A u \in Tickers \ {t} : tick'[u] = tick[u],
           LoadedBy(t)' \subseteq LoadedBy(t), FoundBy(t)' \subseteq FoundBy(t),
           UNCHANGED <<rules, field, due, ledger>>
    PROVE  Dues!Next
BY UnionsShrink DEF Dues!Next, Dues!Forget, Dues!world, Dues!ledger, ledger

\* A tick that writes nothing is one of the ledger's unrecorded steps.
LEMMA StartImplements ==
    ASSUME TypeInv, DuesInv, NEW t \in Tickers, Start(t)
    PROVE  Dues!Next
<1>0. tick[t] \in Tick /\ tick = [u \in Tickers |-> tick[u]]
    BY TickFacts
<1>1. /\ tick[t].pc = "idle" /\ tick[t].todo = {}
      /\ tick'[t].pc \in {"posture", "rules"} /\ tick'[t].todo = TimeRules
      /\ \A u \in Tickers \ {t} : tick'[u] = tick[u]
      /\ UNCHANGED <<rules, field, due, ledger>>
    BY <1>0 DEF Start, Idle, DuesInv, HoldsOwn, world, ledger
<1>2. /\ LoadedBy(t) = {} /\ FoundBy(t) = {}
      /\ LoadedBy(t)' = TimeRules /\ FoundBy(t)' = {}
    BY <1>1 DEF LoadedBy, FoundBy, Firing
<1>3. \A u \in Tickers \ {t} : LoadedBy(u)' = LoadedBy(u) /\ FoundBy(u)' = FoundBy(u)
    BY <1>1 DEF LoadedBy, FoundBy, Firing
<1>4. AllLoaded' = AllLoaded \cup TimeRules /\ AllFound' = AllFound
    BY <1>2, <1>3 DEF AllLoaded, AllFound
<1>5. \A l \in TimeRules : Dues!Scheduled(l)
    <2> SUFFICES ASSUME NEW r \in RuleIds, Live(r), rules[r].active, rules[r].kind = "on_time",
                        NEW l, l = [id |-> r, watches |-> rules[r].watches,
                                    delay |-> rules[r].delay, body |-> rules[r].body]
                 PROVE  Dues!Scheduled(l)
        BY DEF TimeRules
    <2>1. l.id = r
        OBVIOUS
    <2>2. rules[r] # NoRule /\ ~rules[r].deleted
        BY DEF Live, Stored
    <2> QED
        BY <2>1, <2>2 DEF Dues!Scheduled
<1>6. Dues!Load
    BY <1>1, <1>4, <1>5 DEF Dues!Load, Dues!world, Dues!ledger, ledger
<1> QED
    BY <1>6 DEF Dues!Next

LEMMA TakeImplements ==
    ASSUME TypeInv, DuesInv, NEW t \in Tickers, NEW l \in tick[t].todo, TakeRule(t, l)
    PROVE  Dues!Next
<1>0. tick[t] \in Tick /\ tick = [u \in Tickers |-> tick[u]]
    BY TickFacts
<1>1. PICK asked \in DueRecords(l.id) :
          tick' = [tick EXCEPT ![t].pc = "records", ![t].rule = l,
                               ![t].todo = @ \ {l}, ![t].queue = asked]
    BY DEF TakeRule
<1>2. /\ tick[t].pc = "rules" /\ l.watches
      /\ tick'[t].pc = "records" /\ tick'[t].rule = l
      /\ tick'[t].todo = tick[t].todo \ {l} /\ tick'[t].queue = asked
      /\ \A u \in Tickers \ {t} : tick'[u] = tick[u]
      /\ UNCHANGED <<rules, field, due, ledger>>
    BY <1>0, <1>1 DEF TakeRule, NextRule, Tick, world, ledger
<1>3. /\ LoadedBy(t)' = LoadedBy(t) /\ l \in LoadedBy(t)
      /\ FoundBy(t) = {} /\ FoundBy(t)' = {<<l, k>> : k \in asked}
    BY <1>2 DEF LoadedBy, FoundBy, Firing
<1>4. \A u \in Tickers \ {t} : LoadedBy(u)' = LoadedBy(u) /\ FoundBy(u)' = FoundBy(u)
    BY <1>2 DEF LoadedBy, FoundBy, Firing
<1>5. /\ AllLoaded' = AllLoaded /\ l \in AllLoaded
      /\ AllFound' = AllFound \cup {<<l, k>> : k \in asked}
    BY <1>3, <1>4 DEF AllLoaded, AllFound
<1>6. \A k \in asked : Dues!DueFor(l, k)
    <2> SUFFICES ASSUME NEW x \in due, NEW k, k = KeyOf(l.id, x)
                 PROVE  Dues!DueFor(l, k)
        BY DEF DueRecords
    <2>1. k.rec = x
        BY DEF KeyOf
    <2> QED
        BY <2>1 DEF KeyOf, Dues!DueFor
<1>7. Dues!Find
    BY <1>2, <1>5, <1>6 DEF Dues!Find, Dues!world, Dues!ledger, ledger
<1> QED
    BY <1>7 DEF Dues!Next

\* The two steps that commit.
LEMMA CommitImplements ==
    ASSUME TypeInv, LedgerInv, DuesInv, NEW t \in Tickers, RefuseBody(t) \/ Fire(t)
    PROVE  Dues!Next
<1>0. tick[t] \in Tick /\ tick = [u \in Tickers |-> tick[u]]
    BY TickFacts
<1> DEFINE l == tick[t].rule
           k == tick[t].key
           status == IF RefuseBody(t) THEN "refused_body" ELSE "fired"
           x == [id |-> RunId, key |-> k, status |-> status]
<1>1. /\ tick[t].pc = "claimed" /\ k \notin inbox /\ k.rule = l.id
      /\ tick'[t].pc = "records" /\ tick'[t].rule = l
      /\ tick'[t].todo = tick[t].todo /\ tick'[t].queue = tick[t].queue
      /\ \A u \in Tickers \ {t} : tick'[u] = tick[u]
      /\ UNCHANGED <<rules, field, due>>
    BY <1>0 DEF RefuseBody, Fire, LedgerInv, OpenClaims, DuesInv, HoldsOwn, Tick, world
<1>2. /\ LoadedBy(t)' \subseteq LoadedBy(t) /\ FoundBy(t)' \subseteq FoundBy(t)
      /\ l \in LoadedBy(t) /\ <<l, k>> \in FoundBy(t)
    BY <1>1 DEF LoadedBy, FoundBy, Firing
<1>3. AllLoaded' \subseteq AllLoaded /\ AllFound' \subseteq AllFound
    BY <1>1, <1>2, UnionsShrink
<1>4. l \in AllLoaded /\ <<l, k>> \in AllFound
    BY <1>2 DEF AllLoaded, AllFound
<1>5. \A y \in runs : y.id # RunId
    <2>1. Cardinality(runs) \in Nat
        BY FS_CardinalityType DEF TypeInv
    <2> QED
        BY <2>1 DEF DuesInv, Numbered, RunId, TypeInv, TypeOK, Run
<1>6. /\ inbox' = inbox \cup {k} /\ runs' = runs \cup {x}
      /\ outbox' = IF status = "fired" THEN outbox \cup {RunId} ELSE outbox
    BY DEF RefuseBody, Fire, Commit
<1>7. \/ status = "fired" /\ l.body = "legal" /\ <<l.id, k.rec>> \notin Refusing
      \/ status = "refused_body" /\ l.body = "refused"
    BY <1>1 DEF RefuseBody, Fire, Refused
<1>8. x.id = RunId /\ x.key = k /\ x.status = status
    OBVIOUS
<1> HIDE DEF l, k, status, x
<1>9. outbox' = outbox \cup {y.id : y \in {z \in {x} : z.status = "fired"}}
    BY <1>6, <1>8
<1>10. Dues!Dispose(l, x)
    BY <1>1, <1>3, <1>4, <1>5, <1>6, <1>7, <1>8, <1>9
       DEF Dues!Dispose, Dues!Forget, Dues!world
<1>11. x \in runs' \ runs
    BY <1>5, <1>6, <1>8
<1> QED
    BY <1>4, <1>10, <1>11 DEF Dues!Next

LEMMA EvaluateImplements ==
    ASSUME TypeInv, LedgerInv, DuesInv, NEW t \in Tickers, Evaluate(t)
    PROVE  Dues!Next
<1>0. tick[t] \in Tick /\ tick = [u \in Tickers |-> tick[u]]
    BY TickFacts
<1> USE DEF LoadedBy, FoundBy, Firing, world
<1>1. ASSUME NEW l \in tick[t].todo, SkipRule(t, l)
      PROVE  Dues!Next
    BY <1>0, <1>1, ForgetStep DEF SkipRule, NextRule, Tick
<1>2. ASSUME NEW k \in tick[t].queue, Duplicate(t, k) \/ Claim(t, k)
      PROVE  Dues!Next
    <2>1. /\ \A u \in Tickers \ {t} : tick'[u] = tick[u]
          /\ UNCHANGED <<rules, field, due, ledger>>
        BY <1>0, <1>2 DEF Duplicate, Claim
    <2>2. /\ tick'[t].todo = tick[t].todo /\ tick'[t].rule = tick[t].rule
          /\ tick'[t].queue = tick[t].queue \ {k} /\ tick[t].pc = "records"
          /\ tick'[t].pc = "records" \/ (tick'[t].pc = "claimed" /\ tick'[t].key = k)
        <3>1. CASE Duplicate(t, k)
            BY <1>0, <3>1 DEF Duplicate, Tick
        <3>2. CASE Claim(t, k)
            BY <1>0, <3>2 DEF Claim, Tick
        <3> QED
            BY <1>2, <3>1, <3>2
    <2>3. LoadedBy(t)' \subseteq LoadedBy(t) /\ FoundBy(t)' \subseteq FoundBy(t)
        BY <1>2, <2>2
    <2> QED
        BY <2>1, <2>3, ForgetStep
<1>3. CASE GatewayRefused(t) \/ LedgerRefused(t) \/ WritePosture(t)
    BY <1>0, <1>3, ForgetStep DEF GatewayRefused, LedgerRefused, WritePosture, Idle
<1>4. CASE RuleDone(t) \/ RulesDone(t) \/ ReadPosture(t)
    BY <1>0, <1>4, ForgetStep DEF RuleDone, RulesDone, ReadPosture, Tick
<1> QED
    BY <1>1, <1>2, <1>3, <1>4, StartImplements, TakeImplements, CommitImplements DEF Evaluate

LEMMA NextImplements ==
    TypeInv /\ LedgerInv /\ DuesInv /\ [Next]_vars => [Dues!Next]_(Dues!vars)
<1> SUFFICES ASSUME TypeInv, LedgerInv, DuesInv, [Next]_vars
             PROVE  [Dues!Next]_(Dues!vars)
    OBVIOUS
<1>1. ASSUME UNCHANGED <<tick, ledger>>
      PROVE  Dues!Next
    <2>1. AllLoaded' = AllLoaded /\ AllFound' = AllFound
        BY <1>1 DEF AllLoaded, AllFound, LoadedBy, FoundBy, Firing
    <2> QED
        BY <1>1, <2>1 DEF Dues!Next, Dues!Elsewhere, Dues!ledger, ledger
<1>2. ASSUME NEW t \in Tickers, Fail(t)
      PROVE  Dues!Next
    <2>1. tick = [u \in Tickers |-> tick[u]]
        BY TickFacts
    <2> QED
        BY <1>2, <2>1, ForgetStep DEF Fail, Idle, LoadedBy, FoundBy, Firing
<1>3. ASSUME NEW t \in Tickers, NotComposed(t)
      PROVE  Dues!Next
    BY <1>1, <1>3 DEF NotComposed, vars, ledger
<1>4. CASE \/ Administer
           \/ Install
           \/ \E x \in Records : Pass(x) \/ \E m \in Moments : Move(x, m)
    BY <1>1, <1>4, HostStepFrame
<1>5. CASE UNCHANGED vars
    BY <1>1, <1>5 DEF vars, ledger
<1> QED
    BY <1>2, <1>3, <1>4, <1>5, EvaluateImplements DEF Next

\* The scheduler with its loops, cuts, crashes, moving records and changing rules
\* implements DueLedger: what it commits about a generation of a record it commits
\* once and in one step, for a rule that was live and scheduled when loaded and a
\* moment that was due when found.
THEOREM SchedulerImplementsDues == Spec => ImplementsDues
<1>1. Init => Dues!Init
    BY DEF Init, Idle, Dues!Init, AllLoaded, AllFound, LoadedBy, FoundBy, Firing
<1>2. Spec => [](TypeInv /\ LedgerInv /\ DuesInv)
    BY TypeInvariance, LedgerInvariance, DuesInvariance, PTL
<1>3. Spec => Dues!Spec
    BY <1>1, <1>2, NextImplements, PTL DEF Spec, Dues!Spec
<1> QED
    BY <1>3 DEF ImplementsDues

=============================================================================
