----------------------------- MODULE Scheduler -----------------------------
(***************************************************************************)
(* The scheduler of the on_time rules (scheduler_service.rs): the host's   *)
(* timer loops call evaluate_tick, which loads the live time rules, asks   *)
(* the gateway for the due records of each, fires every one of them in a   *)
(* transaction of its own and records the posture.                         *)
(*                                                                         *)
(* One ticker is one loop that calls evaluate_tick, cut at its awaits.     *)
(* Nothing in the code keeps two of them (two replicas of the host) from   *)
(* running at the same time, nor the host from administering rules, the    *)
(* watched records from moving or the process from dying under a tick.     *)
(*                                                                         *)
(* Abstractions.                                                           *)
(*  - The generation of a due record is the value of the watched field;    *)
(*    the uuid v5 over rule, record and generation is the triple itself.   *)
(*  - Every rule watches every record, by one field.                       *)
(*  - A body is legal, or parse_body refuses it, for a reason short enough *)
(*    to be recorded or not; the timestamps of rows and the tick's report  *)
(*    are left out.                                                        *)
(*                                                                         *)
(* A definition named Mutant... is the one below it with a bug in it; no   *)
(* definition of the model uses it.                                        *)
(***************************************************************************)
EXTENDS Integers, FiniteSets

CONSTANTS
    Tickers,        \* the host loops that call evaluate_tick
    RuleIds,        \* the rules there can be
    Rank,           \* Rank[r]: the place of rule r in the order of names
    InitialRules,   \* the rule table at the start: RuleIds -> Row or NoRule
    Drafts,         \* Drafts[r]: what the host may store for rule r
    Retirable,      \* the rules the host may deactivate, reactivate or delete
    Corruptible,    \* the rules somebody may corrupt in the table by hand
    Corruptions,    \* what that hand may leave of a body and a time field
    Records,        \* the watched records
    Moments,        \* the values of their watched field
    FirstMoment,    \* its value at the start
    Refusing,       \* <<rule, record>>: the watched module refuses the action
    Divisor, Floor, Ceiling,    \* LadderConfig
    MaxFaults,      \* bound on the failures and crashes of a behaviour
    NoRule,         \* no row in the rule table
    None            \* a NULL column

\* What parse_body makes of a body.  The reason of a refusal names the entry in
\* full, and the column it is recorded in takes 500 characters.
Verdicts == {"legal", "refused", "unrecordable"}

\* A row of the rule table: `watches` is time_field IS NOT NULL.
Row == [kind : {"on_time", "on_event"}, watches : BOOLEAN, delay : Nat \cup {None},
        body : Verdicts, active : BOOLEAN, deleted : BOOLEAN]
Loaded == [id : RuleIds, watches : BOOLEAN, delay : Nat \cup {None}, body : Verdicts]

\* The event id of a due fire, its claim and its row of the run ledger.
Key == [rule : RuleIds, rec : Records, gen : Moments]
Run == [id : Nat \ {0}, key : Key, status : {"fired", "refused_body"}]

\* The deviation note says which postures and which intervals, <<from, to>>.
PostureKinds == {"inactive", "active"}
Intervals == Int \cup {None}
Note == [posture : SUBSET (PostureKinds \X PostureKinds),
         interval : SUBSET (Intervals \X Intervals)]
Posture == [posture : PostureKinds, count : Nat, min : Nat \cup {None},
            interval : Intervals, fired : Nat, note : Note]

\* i32 columns: the ladder is configured within them.
ASSUME LadderAssumption == Divisor \in Int /\ Floor \in Int /\ Ceiling \in Int
                             /\ Floor <= 2147483647 /\ Ceiling <= 2147483647
ASSUME RankAssumption ==
    /\ Rank \in [RuleIds -> Nat]
    /\ \A r, s \in RuleIds : Rank[r] = Rank[s] => r = s
ASSUME TableAssumption ==
    /\ IsFiniteSet(RuleIds)
    /\ InitialRules \in [RuleIds -> Row \cup {NoRule}]
    /\ Drafts \in [RuleIds -> SUBSET Row]
    /\ NoRule \notin Row
    /\ Retirable \subseteq RuleIds /\ Corruptible \subseteq RuleIds
    /\ Corruptions \subseteq [body : Verdicts, watches : BOOLEAN]
ASSUME RecordAssumption == FirstMoment \in Moments /\ Refusing \subseteq RuleIds \X Records
ASSUME BoundAssumption == MaxFaults \in Nat /\ None \notin Int

VARIABLES
    rules,      \* foundation_automation_rules
    wired,      \* AutomationGatewaySlot: is an adapter installed
    field,      \* field[x]: the watched field of record x
    due,        \* the records whose time has passed
    inbox,      \* the committed claims of consumer foundation_ext.scheduler
    runs,       \* the committed rows of foundation_automation_runs
    outbox,     \* the run ids of the fired events staged
    posture,    \* foundation_scheduler_posture: its row, or None
    tick,       \* tick[t]: the evaluate_tick call of ticker t
    faults      \* failures and crashes so far

vars == <<rules, wired, field, due, inbox, runs, outbox, posture, tick, faults>>
world == <<rules, wired, field, due, faults>>
ledger == <<inbox, runs, outbox>>

-----------------------------------------------------------------------------
(* The delay ladder. *)

Least(a, b) == IF a <= b THEN a ELSE b
Greatest(a, b) == IF a >= b THEN a ELSE b
Clamp(x, low, high) == Greatest(low, Least(x, high))

\* LadderConfig::interval_minutes.
Interval(min) ==
    LET low == Greatest(Floor, 0)
    IN Clamp(Greatest(min, 0) \div Greatest(Divisor, 1), low, Greatest(Ceiling, low))

-----------------------------------------------------------------------------
(* What a tick reads. *)

Stored(r) == rules[r] # NoRule
Live(r) == Stored(r) /\ ~rules[r].deleted

\* Inactive rules are loaded too.
MutantTimeRulesInactive ==
    {[id |-> r, watches |-> rules[r].watches, delay |-> rules[r].delay,
      body |-> rules[r].body] :
        r \in {s \in RuleIds : Live(s) /\ rules[s].kind = "on_time"}}

TimeRules ==
    {[id |-> r, watches |-> rules[r].watches, delay |-> rules[r].delay,
      body |-> rules[r].body] :
        r \in {s \in RuleIds : Live(s) /\ rules[s].active /\ rules[s].kind = "on_time"}}

DelayOf(l) == IF l.delay = None THEN 0 ELSE l.delay

\* The smallest declared delay, None when there is no rule.
MinDelay(loaded) ==
    IF loaded = {} THEN None
    ELSE CHOOSE d \in {DelayOf(l) : l \in loaded} : \A l \in loaded : d <= DelayOf(l)

KeyOf(r, x) == [rule |-> r, rec |-> x, gen |-> field[x]]

\* due_records: what has come due, but that the adapter may leave out what has
\* been acted on.
DueRecords(r) ==
    {found \in SUBSET {KeyOf(r, x) : x \in due} :
        \A x \in due : KeyOf(r, x) \in found \cup inbox}

-----------------------------------------------------------------------------
(* Ticks. *)

NoKey == [rule |-> None, rec |-> None, gen |-> None]
NoLoaded == [id |-> None, watches |-> FALSE, delay |-> None, body |-> "refused"]

Idle == [pc |-> "idle", todo |-> {}, rule |-> NoLoaded, queue |-> {}, key |-> NoKey,
         count |-> 0, min |-> None, fired |-> 0,
         was |-> "inactive", had |-> None]

Phases == {"idle", "rules", "records", "claimed", "posture", "writing"}

Init ==
    /\ rules = InitialRules
    /\ wired = FALSE
    /\ field = [x \in Records |-> FirstMoment]
    /\ due = {}
    /\ inbox = {}
    /\ runs = {}
    /\ outbox = {}
    /\ posture = None
    /\ tick = [t \in Tickers |-> Idle]
    /\ faults = 0

\* evaluate_tick: load the time rules and, if there are any, the gateway.
Start(t) ==
    /\ tick[t].pc = "idle"
    /\ TimeRules # {} => wired
    /\ tick' = [tick EXCEPT ![t] =
                   [Idle EXCEPT !.pc = IF TimeRules = {} THEN "posture" ELSE "rules",
                                !.todo = TimeRules,
                                !.count = Cardinality(TimeRules),
                                !.min = MinDelay(TimeRules)]]
    /\ UNCHANGED <<world, ledger, posture>>

\* Time rules and no gateway: Err, and nothing is recorded.
NotComposed(t) ==
    /\ tick[t].pc = "idle"
    /\ TimeRules # {}
    /\ ~wired
    /\ UNCHANGED vars

\* The next rule by name.
NextRule(t, l) ==
    /\ tick[t].pc = "rules"
    /\ l \in tick[t].todo
    /\ \A m \in tick[t].todo : Rank[l.id] <= Rank[m.id]

\* A corrupted row without its time field is skipped.
SkipRule(t, l) ==
    /\ NextRule(t, l)
    /\ ~l.watches
    /\ tick' = [tick EXCEPT ![t].todo = @ \ {l}]
    /\ UNCHANGED <<world, ledger, posture>>

TakeRule(t, l) ==
    /\ NextRule(t, l)
    /\ l.watches
    /\ \E found \in DueRecords(l.id) :
          tick' = [tick EXCEPT ![t].pc = "records", ![t].rule = l,
                               ![t].todo = @ \ {l}, ![t].queue = found]
    /\ UNCHANGED <<world, ledger, posture>>

\* fire_due: the claim is refused, and the transaction commits empty.
Duplicate(t, k) ==
    /\ tick[t].pc = "records"
    /\ k \in tick[t].queue
    /\ k \in inbox
    /\ tick' = [tick EXCEPT ![t].queue = @ \ {k}]
    /\ UNCHANGED <<world, ledger, posture>>

\* The claim does not wait for another's.
MutantClaimRaces(t, k) ==
    /\ tick[t].pc = "records"
    /\ k \in tick[t].queue
    /\ k \notin inbox
    /\ tick' = [tick EXCEPT ![t].pc = "claimed", ![t].queue = @ \ {k}, ![t].key = k]
    /\ UNCHANGED <<world, ledger, posture>>

\* inbox::once inserts the claim, once no other open transaction holds it.
Claim(t, k) ==
    /\ tick[t].pc = "records"
    /\ k \in tick[t].queue
    /\ k \notin inbox
    /\ \A u \in Tickers : tick[u].pc = "claimed" => tick[u].key # k
    /\ tick' = [tick EXCEPT ![t].pc = "claimed", ![t].queue = @ \ {k}, ![t].key = k]
    /\ UNCHANGED <<world, ledger, posture>>

\* Uuid::new_v4.
RunId == Cardinality(runs) + 1

\* The claim and the row are committed together.
Commit(t, status) ==
    /\ inbox' = inbox \cup {tick[t].key}
    /\ runs' = runs \cup {[id |-> RunId, key |-> tick[t].key, status |-> status]}

\* The refusal commits the claim and leaves no row.
MutantRefusalSilent(t) ==
    /\ tick[t].pc = "claimed"
    /\ tick[t].rule.body = "refused"
    /\ inbox' = inbox \cup {tick[t].key}
    /\ tick' = [tick EXCEPT ![t].pc = "records", ![t].key = NoKey]
    /\ UNCHANGED <<world, runs, outbox, posture>>

\* A body that parse_body refuses: the row says so, and the generation is spent.
RefuseBody(t) ==
    /\ tick[t].pc = "claimed"
    /\ tick[t].rule.body = "refused"
    /\ Commit(t, "refused_body")
    /\ tick' = [tick EXCEPT ![t].pc = "records", ![t].key = NoKey]
    /\ UNCHANGED <<world, outbox, posture>>

Refused(t) == <<tick[t].key.rule, tick[t].key.rec>> \in Refusing

\* The row is of the moment the record has when it fires.
MutantFireMintsLate(t) ==
    LET key == KeyOf(tick[t].key.rule, tick[t].key.rec)
    IN /\ tick[t].pc = "claimed"
       /\ tick[t].rule.body = "legal"
       /\ ~Refused(t)
       /\ inbox' = inbox \cup {key}
       /\ runs' = runs \cup {[id |-> RunId, key |-> key, status |-> "fired"]}
       /\ outbox' = outbox \cup {RunId}
       /\ tick' = [tick EXCEPT ![t].pc = "records", ![t].key = NoKey, ![t].fired = @ + 1]
       /\ UNCHANGED <<world, posture>>

\* Every action is applied, the row written and the fired event staged.
Fire(t) ==
    /\ tick[t].pc = "claimed"
    /\ tick[t].rule.body = "legal"
    /\ ~Refused(t)
    /\ Commit(t, "fired")
    /\ outbox' = outbox \cup {RunId}
    /\ tick' = [tick EXCEPT ![t].pc = "records", ![t].key = NoKey, ![t].fired = @ + 1]
    /\ UNCHANGED <<world, posture>>

\* A refusal rolls the fire back and ends the tick with Err: what is left in the
\* queue, the rules after this one and the posture row wait for another tick.
GatewayRefused(t) ==
    /\ tick[t].pc = "claimed"
    /\ tick[t].rule.body = "legal"
    /\ Refused(t)
    /\ tick' = [tick EXCEPT ![t] = Idle]
    /\ UNCHANGED <<world, ledger, posture>>

\* A CHECK of the run table refuses the row of the refusal: Err, with all that
\* a refusing gateway's takes with it.
LedgerRefused(t) ==
    /\ tick[t].pc = "claimed"
    /\ tick[t].rule.body = "unrecordable"
    /\ tick' = [tick EXCEPT ![t] = Idle]
    /\ UNCHANGED <<world, ledger, posture>>

RuleDone(t) ==
    /\ tick[t].pc = "records"
    /\ tick[t].queue = {}
    /\ tick' = [tick EXCEPT ![t].pc = "rules", ![t].rule = NoLoaded]
    /\ UNCHANGED <<world, ledger, posture>>

RulesDone(t) ==
    /\ tick[t].pc = "rules"
    /\ tick[t].todo = {}
    /\ tick' = [tick EXCEPT ![t].pc = "posture"]
    /\ UNCHANGED <<world, ledger, posture>>

\* No row yet is not read as inactive.
MutantReadNull(t) ==
    /\ tick[t].pc = "posture"
    /\ tick' = [tick EXCEPT ![t].pc = "writing",
                            ![t].was = IF posture = None THEN None ELSE posture.posture,
                            ![t].had = IF posture = None THEN None ELSE posture.interval]
    /\ UNCHANGED <<world, ledger, posture>>

\* record_posture reads the row it is about to overwrite ...
ReadPosture(t) ==
    /\ tick[t].pc = "posture"
    /\ tick' = [tick EXCEPT ![t].pc = "writing",
                            ![t].was = IF posture = None THEN "inactive" ELSE posture.posture,
                            ![t].had = IF posture = None THEN None ELSE posture.interval]
    /\ UNCHANGED <<world, ledger, posture>>

\* ... and writes it, with a note of what differs from what was read.
NoteOf(t, now, interval) ==
    [posture |-> {<<was, now>> : was \in {tick[t].was} \ {now}},
     interval |-> {<<had, interval>> : had \in {tick[t].had} \ {interval}}]

\* The posture and the interval the loaded rules call for.
PostureOf(count) == IF count = 0 THEN "inactive" ELSE "active"
IntervalOf(min) == IF min = None THEN None ELSE Interval(min)

\* Only a flip is noted; the interval only ever shrinks.
MutantOnlyFlipsNoted(t) ==
    LET now == PostureOf(tick[t].count)
        interval == IntervalOf(tick[t].min)
    IN /\ tick[t].pc = "writing"
       /\ posture' = [posture |-> now, count |-> tick[t].count, min |-> tick[t].min,
                      interval |-> interval, fired |-> tick[t].fired,
                      note |-> [NoteOf(t, now, interval) EXCEPT !.interval = {}]]
       /\ tick' = [tick EXCEPT ![t] = Idle]
       /\ UNCHANGED <<world, ledger>>
MutantOnlyShrinks(t) ==
    LET now == PostureOf(tick[t].count)
        recomputed == IntervalOf(tick[t].min)
        interval == IF recomputed = None \/ tick[t].had = None THEN recomputed
                    ELSE Least(recomputed, tick[t].had)
    IN /\ tick[t].pc = "writing"
       /\ posture' = [posture |-> now, count |-> tick[t].count, min |-> tick[t].min,
                      interval |-> interval, fired |-> tick[t].fired,
                      note |-> NoteOf(t, now, interval)]
       /\ tick' = [tick EXCEPT ![t] = Idle]
       /\ UNCHANGED <<world, ledger>>

WritePosture(t) ==
    LET now == PostureOf(tick[t].count)
        interval == IntervalOf(tick[t].min)
    IN /\ tick[t].pc = "writing"
       /\ posture' = [posture |-> now, count |-> tick[t].count, min |-> tick[t].min,
                      interval |-> interval, fired |-> tick[t].fired,
                      note |-> NoteOf(t, now, interval)]
       /\ tick' = [tick EXCEPT ![t] = Idle]
       /\ UNCHANGED <<world, ledger>>

\* A crash leaves the claim behind.
MutantClaimSurvives(t) ==
    /\ faults < MaxFaults
    /\ tick[t].pc # "idle"
    /\ inbox' = IF tick[t].pc = "claimed" THEN inbox \cup {tick[t].key} ELSE inbox
    /\ tick' = [tick EXCEPT ![t] = Idle]
    /\ faults' = faults + 1
    /\ UNCHANGED <<rules, wired, field, due, runs, outbox, posture>>

\* Any other `?` of the tick, or a crash: the open transaction is dropped.
Fail(t) ==
    /\ faults < MaxFaults
    /\ tick[t].pc # "idle"
    /\ tick' = [tick EXCEPT ![t] = Idle]
    /\ faults' = faults + 1
    /\ UNCHANGED <<rules, wired, field, due, ledger, posture>>

-----------------------------------------------------------------------------
(* The host and the watched records. *)

Pass(x) ==
    /\ x \in Records \ due
    /\ due' = due \cup {x}
    /\ UNCHANGED <<rules, wired, field, ledger, posture, tick, faults>>

\* The watched field is set to another moment, still to come.
Move(x, m) ==
    /\ m # field[x]
    /\ field' = [field EXCEPT ![x] = m]
    /\ due' = due \ {x}
    /\ UNCHANGED <<rules, wired, ledger, posture, tick, faults>>

Install ==
    /\ ~wired
    /\ wired' = TRUE
    /\ UNCHANGED <<rules, field, due, ledger, posture, tick, faults>>

\* RuleDraft::validate, as far as a tick can tell.
ValidDraft(d) == d.body = "legal" /\ (d.kind = "on_time" <=> d.watches)

ChangeRule(r, row) ==
    /\ rules' = [rules EXCEPT ![r] = row]
    /\ UNCHANGED <<wired, field, due, ledger, posture, tick, faults>>

CreateRule(r, d) ==
    /\ ~Stored(r)
    /\ ValidDraft(d)
    /\ ChangeRule(r, [d EXCEPT !.active = TRUE, !.deleted = FALSE])

ReplaceRule(r, d) ==
    /\ Live(r)
    /\ ValidDraft(d)
    /\ ChangeRule(r, [d EXCEPT !.active = rules[r].active, !.deleted = FALSE])

SetActive(r, active) ==
    /\ Live(r)
    /\ ChangeRule(r, [rules[r] EXCEPT !.active = active])

DeleteRule(r) ==
    /\ Live(r)
    /\ ChangeRule(r, [rules[r] EXCEPT !.deleted = TRUE])

\* Somebody spoils the body, or clears the time field, past the service.
CorruptRule(r, c) ==
    /\ Stored(r)
    /\ ChangeRule(r, [rules[r] EXCEPT !.body = c.body, !.watches = c.watches])

-----------------------------------------------------------------------------
Evaluate(t) ==
    \/ Start(t)
    \/ \E l \in tick[t].todo : SkipRule(t, l) \/ TakeRule(t, l)
    \/ \E k \in tick[t].queue : Duplicate(t, k) \/ Claim(t, k)
    \/ RefuseBody(t)
    \/ Fire(t)
    \/ GatewayRefused(t) \/ LedgerRefused(t)
    \/ RuleDone(t)
    \/ RulesDone(t)
    \/ ReadPosture(t)
    \/ WritePosture(t)

Administer ==
    \/ \E r \in RuleIds : \E d \in Drafts[r] : CreateRule(r, d) \/ ReplaceRule(r, d)
    \/ \E r \in Retirable : DeleteRule(r) \/ \E active \in BOOLEAN : SetActive(r, active)
    \/ \E r \in Corruptible, c \in Corruptions : CorruptRule(r, c)

Next ==
    \/ \E t \in Tickers : Evaluate(t) \/ NotComposed(t) \/ Fail(t)
    \/ \E x \in Records : Pass(x) \/ \E m \in Moments : Move(x, m)
    \/ Install
    \/ Administer

Spec == Init /\ [][Next]_vars

\* The host's loops go on calling evaluate_tick, a call runs once it started,
\* and the host composes the gateway in the end.  Nothing is assumed of the
\* records, of rule administration or of failures.
Fairness == WF_vars(Install) /\ \A t \in Tickers : WF_vars(Evaluate(t))

FairSpec == Spec /\ Fairness

-----------------------------------------------------------------------------
(* Properties. *)

Tick == [pc : Phases, todo : SUBSET Loaded, rule : Loaded \cup {NoLoaded},
         queue : SUBSET Key, key : Key \cup {NoKey},
         count : Nat, min : Nat \cup {None}, fired : Nat,
         was : PostureKinds, had : Intervals]

\* The shape of the state.
TypeOK ==
    /\ rules \in [RuleIds -> Row \cup {NoRule}]
    /\ wired \in BOOLEAN
    /\ field \in [Records -> Moments]
    /\ due \subseteq Records
    /\ inbox \subseteq Key
    /\ runs \subseteq Run
    /\ outbox \subseteq Nat
    /\ posture \in Posture \cup {None}
    /\ tick \in [Tickers -> Tick]
    /\ faults \in 0..MaxFaults

\* Dedup by construction: whatever ticks overlap, die and come again, a rule
\* has at most one row for one generation of a record.
FiresOncePerGeneration == \A x, y \in runs : x.key = y.key => x = y

\* "The claim is the ledger": a due fire is claimed exactly when a row says what
\* became of it, and announced exactly when it fired.  A claim that outlived its
\* fire would make every later tick pass the record over in silence.
ClaimIsTheLedger ==
    /\ inbox = {x.key : x \in runs}
    /\ outbox = {x.id : x \in {y \in runs : y.status = "fired"}}

\* No change of the posture row is silent: the step that changes the posture or
\* the interval leaves a note of exactly that change.
DeviationsDeclared ==
    [][posture' # posture =>
          LET was == IF posture = None THEN "inactive" ELSE posture.posture
              had == IF posture = None THEN None ELSE posture.interval
          IN /\ posture'.posture # was => <<was, posture'.posture>> \in posture'.note.posture
             /\ posture'.interval # had => <<had, posture'.interval>> \in posture'.note.interval
      ]_vars

\* What open ticks have loaded and not yet left, and what they have found due
\* and not yet disposed of.
Firing(t) == tick[t].pc \in {"records", "claimed"}
LoadedBy(t) == tick[t].todo \cup {l \in {tick[t].rule} : Firing(t)}
FoundBy(t) ==
    {<<tick[t].rule, k>> : k \in {q \in tick[t].queue : Firing(t)} \cup
                               {q \in {tick[t].key} : tick[t].pc = "claimed"}}
AllLoaded == UNION {LoadedBy(t) : t \in Tickers}
AllFound == UNION {FoundBy(t) : t \in Tickers}

\* The scheduler, its loops, the cuts of their ticks and their crashes hidden, is
\* a ledger in which a due record is disposed of at most once and in one step,
\* for a rule scheduled when it was loaded and a moment due when it was found,
\* whatever became of the rule and of the record between.
Dues == INSTANCE DueLedger
        WITH NoRule <- NoRule, Refusing <- Refusing, rules <- rules, field <- field,
             due <- due, loaded <- AllLoaded, found <- AllFound,
             inbox <- inbox, runs <- runs, outbox <- outbox
ImplementsDues == Dues!Spec

Standing(r) ==
    /\ InitialRules[r] # NoRule /\ InitialRules[r].active /\ ~InitialRules[r].deleted
    /\ InitialRules[r].kind = "on_time" /\ InitialRules[r].watches
    /\ r \notin Retirable \cup Corruptible
    /\ \A d \in Drafts[r] : d.kind = "on_time"

Handled(r, x, m) == \E run \in runs : run.key = [rule |-> r, rec |-> x, gen |-> m]

\* Every due record is fired: if a record is due for a rule that stands, and its
\* own module accepts the action, its row comes, unless the field moves first.
EveryDueFires ==
    \A r \in RuleIds, x \in Records, m \in Moments :
        Standing(r) /\ <<r, x>> \notin Refusing =>
            (x \in due /\ field[x] = m ~> Handled(r, x, m) \/ field[x] # m)

\* What the live rules call for, and what the posture row says.
CalledFor == <<PostureOf(Cardinality(TimeRules)), IntervalOf(MinDelay(TimeRules))>>
Recorded == IF posture = None THEN <<None, None>> ELSE <<posture.posture, posture.interval>>

Postures ==
    {<<PostureOf(Cardinality(s)), IntervalOf(MinDelay(s))>> :
        s \in SUBSET {[id |-> r, watches |-> d.watches, delay |-> d.delay, body |-> d.body] :
                         r \in RuleIds,
                         d \in UNION {Drafts[q] : q \in RuleIds} \cup
                               ({InitialRules[q] : q \in RuleIds} \ {NoRule})}}

\* The posture is recomputed from the live rules, in either direction: once the
\* rules call for one posture and interval for good, the row says it for good.
PostureFollowsRules ==
    \A p \in Postures : <>[](CalledFor = p) => <>[](Recorded = p)

=============================================================================
