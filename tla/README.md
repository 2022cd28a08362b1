# A TLA+ development of backbone-foundation-ext

This directory models the automation module `backbone-foundation-ext`
(`src/`), model-checks it with TLC and proves the properties that matter most
with TLAPS.  File names below are relative to the repository; `x.rs` without a
directory is `src/application/service/x.rs`.

## 1. The system and its parts

The module runs *automation rules* over the records of other modules.  A rule
has a trigger (`on_event`, `on_deleted`, `on_time`), a target model and a body of
actions from a closed vocabulary.  Events come in over the host's integration
bus, time comes in as ticks of a host loop, and every effect goes out through a
gateway the host installs.  All state that survives is in PostgreSQL.

| Part | State | Operations | Talks to |
|---|---|---|---|
| Reaction engine, `reaction_engine.rs` | inbox claims of consumer `foundation_ext.reaction`, run ledger `foundation_automation_runs`, outbox rows | `handle` one envelope (at-least-once) | bus, rule table, gateway, inbox, outbox |
| Scheduler, `scheduler_service.rs` | inbox claims of consumer `foundation_ext.scheduler`, the same run ledger and outbox, the posture row | `evaluate_tick`, `record_posture`, `LadderConfig::interval_minutes` | host loop, rule table, gateway, inbox, outbox |
| Rule administration, `rule_service.rs` | rule table `foundation_automation_rules` | `create_rule`, `replace_rule`, `set_active`, `delete_rule`, readers | host; read by both engines |
| Vocabulary and patterns, `action_spec.rs` | none (pure) | `parse_body`, `validate_body_for_trigger`, `validate_event_pattern`, matching | rule administration at write time, both engines at fire time |
| Gateway port and slot, `gateway_port.rs` | a mutex around an optional adapter | `install`, `take`; behind it `apply_action`, `due_records` | installed by the host, taken by both engines |
| Composition, `src/lib.rs`, `src/lib.ext.rs` | the Arcs above | `build`, `install_gateway`, service constructors | host |
| Inbox and outbox (library `backbone_outbox`, two tables of this module) | claims, staged events | `once`, `stage` | both engines |
| Generated services, `automation_rule_service.rs` and two more | none of their own: the three tables | create, update, patch, delete, restore, purge, each held to the entity's row rules | mounted read-only by `lib.rs`; a host may serve the write routes |
| Entities, request and response forms, repositories | none of their own | constructors, builders, `apply_patch`, conversions, pages | the generated services and hosts |
| Seeders and migrations | none of their own | empty a table; add foreign keys and CHECKs to tables in use | operators |
| HTTP handlers, exports, domain events | none | generated routes, re-exports, event shapes nothing emits | host |

How the parts interact, and what makes them hard:

* One `handle` call is one database transaction; the host may run several at
  once, for the same envelope too.  Its claim (`inbox::once`) is an insert under
  a unique key, so a second claimer *waits* for the first.  Between its awaits
  other transactions commit: the rules it loaded may have been replaced,
  corrupted or deleted by the time they fire.
* What a rule does comes back as events.  The engine finds the run that caused
  an event by the *registry* (the ids the adapter reported) or by the
  *causation token* on the envelope; depth, the self-trigger guard and the
  recursion cap all rest on that.
* Any `?` and any crash drops the transaction; the bus drives the envelope
  again.  A commit whose `Ok` is lost is driven again as well.
* The two engines share the ledger and the bus: what the clock fires comes back
  as an event, to rules that may have been on_time when it fired.
* A tick is not one transaction: it loads rules, asks for due records, fires
  each due record in a transaction of its own and then reads and writes the
  posture row in two statements.  Nothing keeps two ticks apart.

### What makes each part correct

* Engine: each rule disposes of an envelope at most once, whatever is
  redelivered or fails; nothing answered was missed; nothing half committed;
  depth never lost, so every chain ends; no rule fires on its own effects; no
  body outside the vocabulary ever fires.
* Scheduler: one fire per rule, record and generation; a claim exactly where a
  row says what became of it; every due record fired in the end; no change of
  posture or interval without its note; the posture follows the live rules.
* Rule administration and vocabulary: whatever the guarded service stored is one
  draft it accepted, never parts of two, that the table's CHECKs take; it passes
  `parse_body` again at fire time; a pattern reaches what it says; what was deleted
  stays deleted.
* The three tables: several writers with different rules share them (the guarded
  service, the engines, generated services, repositories, seeders), and keys and
  CHECKs arrive after the rows.  No value of a wrong type, no run that loses its
  rule, no old row that can no longer be changed, no posture row but the
  scheduler's read back by the scheduler.

The list of hazards with their lines is in `PROJECT.json`.

## 2. Modules

| Module | What it is |
|---|---|
| `ReactionEngine` | `handle` cut at its awaits, the bus that redelivers, rule administration, the slot, the ledger; properties and their mutants |
| `AutomationLedger` | the abstract promise: an envelope is handled at most once and in one step |
| `MCReactionEngine` | small instances for TLC |
| `ReactionEngineProofs` | `ReactionEngine`: types, and each rule once per envelope |
| `ProvenanceProofs` | `ReactionEngine`: where rows and envelopes come from |
| `DeliveryProofs` | `ReactionEngine`: what one delivery commits, and the refinement of `AutomationLedger` |
| `StandingProofs` | `ReactionEngine`: what a rule nobody takes away can rely on |
| `Scheduler` | `evaluate_tick` and `fire_due` cut at their awaits, the ladder, the posture row, rule administration, moving records |
| `MCScheduler` | small instances for TLC |
| `DueLedger` | the scheduler's abstract promise: a due record is disposed of at most once and in one step |
| `SchedulerProofs` | theorems about `Scheduler` |
| `Automations` | both engines over one rule table, ledger and bus: `ReactionEngine` and the scheduler's transaction of one due record |
| `MCAutomations` | small instances for TLC |
| `AutomationsProofs` | the theorems about `ReactionEngine` with the scheduler beside it |
| `LineageProofs` | the causal chains of both engines, by induction over the hops |
| `ActionVocabulary` | `action_spec.rs`: what a body and a pattern may be, how a pattern matches; pure |
| `Entities` | the three entities as generated: columns, constructors, builders, patches, forms, row rules, pages; pure |
| `RecordStore` | the three tables and everybody who writes them |
| `MCRecordStore` | small instances for TLC |
| `RecordStoreProofs` | theorems about `RecordStore` |

`Automations` extends `ReactionEngine`; `RecordStore` extends `Entities` and
`ActionVocabulary`.  The engines' models keep of a rule what an engine can tell
apart; `RecordStore` has the whole row.  Its `BeltNeverNeeded` says that what the
guarded service stored passes, at fire time, `parse_body` with every bound it has and
`validate_body_for_trigger`, so that an accepted draft of the engines' models is one
their fire-time check takes.

### ReactionEngine and the code

`tx[w]` is the `handle` call of worker `w` and its open transaction; `pc` names the
await it stands at.

| pc | next step | code (`reaction_engine.rs`) |
|---|---|---|
| `idle` | `SkipOpaque`: id is no uuid, warn and `Ok`; `Begin`: load the `on_event` rules | 269-303 |
| `loading` | `LoadDeletedRules`: second SELECT | 291-304 |
| `loaded` | `NoRules`, `AlreadyClaimed`, `Claim` | 306-326 |
| `claimed` | `NoMatch`; `NotComposed`; `Resolve`: parent, depth, gateway | 328-364 |
| `firing` | `Dispose` (skipped, suppressed, capped, refused), `Fire`, `GatewayRefused`, one rule at a time; `Commit` | 366-550 |
| `done` | `Return`: the bus has its `Ok` | 550-573 |

`Fail` is every other error return and a crash, at any point; after the commit it
loses only the answer.  `CreateRule`, `ReplaceRule`, `SetActive`, `DeleteRule` are the four
statements of `rule_service.rs`; `CorruptRule` is a hand on the table, the thing the
code's fire-time check is there for.  `Publish` is another module's relay.  What an
adapter stages, and whether it reports the ids (`"reported"`) or the watched
module stamps the token (`"token"`), is a choice of `Fire`.

`LedgerRefused` is `record_run` failing every time: an envelope whose type or
aggregate id is longer than its column (`Oversized`), a body whose refusal
quotes an entry too long for `detail` (`Overlong`), or a model mismatch whose
pattern and source context, both quoted, are too long for it (`Unquotable`).  A gateway whose summary cannot be
cut at byte 500 panics on every delivery and is in `Refusing`, as one that refuses is.

Abstractions: a pattern is the set of types it matches; a body is the sequence
of its actions' kinds, a kind outside the vocabulary standing for any entry
`parse_body` refuses (`ActionVocabulary` has the bounds); details, payloads and
timestamps are left out; an envelope id names what staged it.

### Scheduler and the code

`tick[t]` is the `evaluate_tick` call of loop `t`.

| pc | next step | code (`scheduler_service.rs`) |
|---|---|---|
| `idle` | `Start`; `NotComposed`: time rules and no gateway, `Err` | 267-305 |
| `rules` | rules in the order of names: `SkipRule` (no time field), `TakeRule` (ask for due records); `RulesDone` | 306-330 |
| `records` | `Duplicate`, `Claim`; `RuleDone` | 331-358, 392-401 |
| `claimed` | `RefuseBody`, `Fire`; `GatewayRefused` ends the tick | 403-513 |
| `posture` | `ReadPosture` | 194-218 |
| `writing` | `WritePosture` | 219-265 |

The generation of a due record is the value of the watched field; the uuid v5
over rule, record and generation is modelled as the triple.  `Move` sets the
watched field, to a value it had before too; `Pass` lets its time come.
`DueRecords` may leave out what was acted on already, as the port allows, and may
not leave out anything else.

A rule's body is the verdict `parse_body` gives it: legal, refused, or refused with a
reason the ledger cannot record (`LedgerRefused`, which ends the tick).

### Automations and the code

One due record is one step (`FireDue`, `RefuseDue`): its transaction is whole or not
at all.  That is what `Scheduler`, which takes apart everything between the claim and
the commit, is shown to implement (`ImplementsDues`): `Dispose` of `DueLedger` is
`FireDue` and `RefuseDue` with the guards `Claims` has, for a rule among those open
ticks have loaded.  `StartTick` keeps the rules a tick has loaded, so a due may fire a rule
that has been replaced, corrupted or moved to on_event meanwhile.  Rows of the clock
have no parent and depth 0; their effects and their fired events go to the bus
`ReactionEngine` reads.

### RecordStore, Entities, ActionVocabulary and the code

A row is a function from columns to values with a deleted mark.  A text is its
bytes, its characters and the spaces around it, because the service measures
bytes and the database characters; a request body may hold a null or a value of
the wrong type (`Garbled`) for any name.

| Actions | Code |
|---|---|
| `CreateRule`, `ReplaceRule`, `SetActive`, `DeleteRule` | `rule_service.rs:192-287`, with every check of `RuleDraft::validate` |
| `LoadRule`, `RecordRun`, `DropFire` | an engine between loading a rule and writing its row |
| `RecordPosture` | the upsert of `scheduler_service.rs:206-265`; `PostureRows` is its read |
| `SaveNew` | a repository saves what a builder or constructor made |
| `Post`, `Put`, `Patch`, `SoftDelete`, `Restore`, `Purge` | the generic service with this module's forms, protected fields and row rules |
| `Rollback` | `DELETE FROM` of a seeder |
| `AddForeignKeys`, `AddChecks` | migrations 20260901000010 and ...11, run while others write |

Each statement is a step, and a statement the database refuses is none.  A key
added NOT VALID is in force for what is written from then on; a CHECK that a stored
row breaks is left out until the migration runs again.

A definition named `Mutant...` is one beside it with a plausible bug; no
definition of the models uses it, it is there to show that a property can fail.

## 3. Runs

Every passing run has at least one interleaving, failure or administration
that its property is about.

| Run | Instance | Shows |
|---|---|---|
| `RE_ledger` | a rule that writes and one that watches its writes and announcements, both created while envelopes come in, one of them with an id that is no uuid; two workers, one fault, cap 2; adapters that leave ids out | `AtMostOnceDisposed`, `CausalDepth` by registry or token, `NoSelfTrigger`, `Implements`: refinement of `AutomationLedger`, `CascadeQuiesces` (fairness below) |
| `RE_admin` | two standing rules, the module of one refusing, and a third created, replaced, retired and corrupted: past the cap on actions, or with a refusal too long to record | `AtMostOncePerRule`, `FiredBodiesAreLegal`, `AnsweredMeansDisposed`, `RefusalRollsBackAll`, `CommitIsWhole` |
| `A_clock` | both engines; a scheduled rule and one that answers it, the first moved to answer back or corrupted; an envelope no row has room for, and one of a source too long to be quoted; one fault, cap 1 | `TypeOK`, `DepthBounded`, `NoPhantomFires`, `RefusalRollsBackAll`, `NoSelfTrigger`, `OneRootEach` |
| `S_due` | two tickers, one fault, a moving record, a refusal by the last rule | `TypeOK`, `FiresOncePerGeneration`, `ClaimIsTheLedger`, `ImplementsDues`: refinement of `DueLedger`, `EveryDueFires` (fairness below) |
| `S_posture` | one ticker, rules coming, changing, going and corrupted | `DeviationsDeclared`, `ClaimIsTheLedger`, `ImplementsDues` |
| `S_follow` | two tickers, a rule that comes and goes with a shorter delay | `PostureFollowsRules` (fairness below) |
| `RS_store` | a rule of the guarded service, a rule, a run and a posture row also written past it; rows older than keys and CHECKs | `TypeOK`, `RulesAreWhole`, `BeltNeverNeeded`, `PatternsWatch`, `AcceptedFits`, `RowRulesSuffice`, `ResponsesRoundTrip`, `PagesPartition`, `NoNewOrphans`, `RetiredStaysRetired`, `ReadsBack` |

The runs that expect a violation check one sentence of the documents each,
against what the code does; section 6 lists them.

### Bounds

* Two workers and two tickers: every property is about one rule and envelope, or
  one rule and record, and any race on a claim is between two holders; a third
  waits exactly as the second does.  The proofs need no such bound.
* Two rules: enough for a chain (ra answers rb answers ra), for an order
  (on_event before on_deleted, name before name) and for one rule's failure to
  reach another.
* `RE_admin` identifies behaviours that differ in the names of the workers
  (`WorkerSymmetry`): no definition names one, and the run checks no liveness.
* One worker in `A_clock`: what is asked there is what passes between the engines,
  and the due transaction interleaves with every step of a delivery.
* One guarded rule and one rule, one run and two posture rows of anybody in
  `RS_store`: each property is about one row and the writers that meet on it, or
  about two rows of which one refers to the other.  Each text, body or pattern is
  there because it is over one bound and under another: 200 characters, 61 two-byte
  ones, eleven actions, a key of 64 bytes, a description of 1200, a star inside a
  pattern.  The patterns are `sapiens.*` and `sapiens.user.*`; the types that arrive are
  the path itself, one below, a sibling, and words that begin with `sapiens` and with
  `user`.  `U = 6` stands for 2^32: pages wrap
  or they do not, whatever the modulus.
  `BrokenIn` stands for the row rules and for the CHECKs of migration ...11 alike: the
  two lists were compared column by column and state the same bounds, so
  `RowRulesSuffice` asks which columns are judged and when, not by how much.
* Cap 1, or 2 in `RE_ledger`, and envelopes two hops deep: the guard compares with the cap in one
  place, and the instances pass it, meet it and go one beyond it.
* One fault: each property is about what a failure leaves behind; the retry
  after it runs without one.  `MCRunIds == 1..20` is more than any behaviour of the
  instances uses, and `CanMint` never stops one.
* One record with two moments: enough to move, to move back, and for a tick to
  hold a stale generation.

### Fairness

* `WF(Step(w))`: a handler the host polls goes on; tokio does not drop it.
* `SF(Drive)`: the relay keeps an envelope it has no `Ok` for and drives it again
  (`should_retry`, `reaction_engine.rs:566`).  Strong, because workers that are
  busy with others disable a drive time and again.
* `WF(Install)`: the host installs a gateway when it composes (`lib.ext.rs`).
* `WF(Evaluate(t))`: the host's loop calls `evaluate_tick` on and on, as its
  documentation asks.

Nothing is assumed of producers, of administration, of records or of failures;
failures are bounded by `MaxFaults`, without which a module that always fails would
refute every liveness property.

## 4. What is proved

Every invariant, every action property and both refinements that a passing run
checks are also theorems, for every value of the constants that satisfies the
named assumptions.  These say only what the constants are: finitely many rules,
rows that are rows, ranks that order them, a cap and a ladder that are integers;
and that an event's id is the primary key of its producer's outbox
(`EnvelopeIdAssumption`).  What a theorem assumes beyond that is in its statement
and named below.

### The reaction engine

* `ReactionEngineProofs!TypeCorrect`: `Spec => []TypeOK`.  The invariant adds that a
  worker that is not idle works on a published envelope.
* `ReactionEngineProofs!ExactlyOnce`: `Spec => []AtMostOnceDisposed`.
  `AtMostOnceDisposed` is not inductive: a commit might add a second row.  The
  invariant (`OnceInv`) adds that every row's envelope is claimed, that a worker
  holding a claim holds one that is not committed and that no other worker
  holds, and that the rows of an open transaction are of its envelope, at most one
  for each rule and kind, and for no rule still to do.
* `ReactionEngineProofs!ExactlyOncePerRule`: the same for the rule alone, when every
  rule keeps its trigger kind (`KeepsKind`); the run `RE_retype_twice` shows the
  assumption is needed.  The invariant adds that stored and loaded rules are of
  their first kind.
* `ProvenanceProofs`: `ChainsAreWhole` (`CausalDepth`), `CapHolds` (`DepthBounded`),
  `FiresAreReal` (`NoPhantomFires`), `BeltHolds` (`FiredBodiesAreLegal`), and
  `SelfExclusion` (`NoSelfTrigger`), all from one invariant, `ProvInv`.  None is
  inductive alone: a row is one hop below its parent because the transaction
  that wrote it had looked the parent up among committed runs, by the registry or by a
  token, and both could be trusted because the run that staged the envelope
  was whole when it committed.  So `ProvInv` says that a run id names one row,
  committed or not; that every automated envelope on the bus, or staged in an open
  transaction, is traced to its fired run; that what a fired row registers is on
  the bus; and that every row, open ones too, has the depth its envelope gives it, a
  legal body and, if it fired, no run of its own rule that registered its envelope.
  `SelfExclusion` assumes that adapters report what they stage (`"token"` is not in
  `Accounting`); the run `RE_self_token` shows the assumption is needed.
* `DeliveryProofs!CommitsWhole` (`CommitIsWhole`), from `WholeInv`: while a delivery
  fires, the rules it matched are those it has rows for and those still to do.
  `DeliveryProofs!EngineImplementsLedger` (`Implements`): a commit and an empty claim map to `Handle`,
  every other step to a stutter or `Publish`; the rows' fresh ids, depths and
  announcements come from `ProvInv`, their number from `OnceInv`.
* `StandingProofs!NoSilentMiss` (`AnsweredMeansDisposed`) and `FailureTakesAllBack`
  (`RefusalRollsBackAll`).  The first says that what is answered was not missed, long
  after the delivery that read the rules is gone, so its invariant has three parts:
  `IdentInv`, an id names one envelope; `StandInv`, a rule that stands is in what every
  delivery has loaded, in one of the forms it may have, from the load of its kind to
  the commit; `AnswerInv`, what is claimed has the rule's row, and no envelope is
  claimed on which a rule nobody touches must fail.
  `NoSilentMiss` assumes that no draft moves a standing rule to another trigger
  kind: a rule that moves against the order of the two loads is loaded by neither
  (section 6).

### The two engines together

* `AutomationsProofs!BothEngines`, `BothEnginesExclude`, `NoMissBesideTheClock`: all of the
  above of `ClockSpec`.  The invariants (`EngineInv`) are those of the reaction engine
  alone.  They survive a transaction of the clock because what it claims is no envelope's
  id, so no delivery waits for it or takes it for its own, and because its row, a
  root with a fresh id, is whole when it is committed.
* `LineageProofs!RootedChains` (`OneRootEach`): every row has one root and as many rows
  above it as its depth says, and the root is the clock's exactly if it is for a due
  record.  Chains are as long as the configured cap allows, so this is an induction over the
  hops.  The library's induction theorems cannot be used here (section 5); it is
  made with sets instead, from the well-foundedness of `<` on `Nat`: a set of
  naturals with a member has a least one.  By the same means the recursive
  function `Ancestry` is first shown to have the value its definition asks for.
  `SideInv` adds which engine wrote a row.

### The scheduler

* `SchedulerProofs!SchedulerTypeCorrect`: `Spec => []TypeOK`; the run ledger stays
  finite, so a fresh run id is a number.  The smallest delay is a number because
  `<` is well-founded on `Nat`.
* `SchedulerProofs!OncePerGeneration` and `ClaimLedger`: `[]FiresOncePerGeneration` and
  `[]ClaimIsTheLedger`, from one invariant: both, and `OpenClaims`, that no open
  transaction holds a committed claim and no two hold the same one.
* `SchedulerProofs!DeclaredAlone`: `DeviationsDeclared` for one ticker, from the
  invariant that what it read of the posture row still stands when it writes; the
  run `S_silent` shows that two tickers break it.
* `SchedulerProofs!IntervalWithinLadder`: the polling interval is within the ladder
  for every delay and every configuration, crossed bounds and a zero or negative
  divisor included.  `SchedulerProofs!RulesOnlyHasten`: a rule more never makes the loop
  poll more slowly and a rule less never faster, because the smallest delay, the
  division and the clamp are monotone.
* `SchedulerProofs!SchedulerImplementsDues` (`ImplementsDues`): what open ticks have loaded
  and found maps to two sets of `DueLedger`; `RefuseBody` and `Fire` map to its `Dispose`,
  a crash or an error to forgetting.  The invariant (`DuesInv`) adds that rows are
  numbered up to their number, so that a new id is fresh, and that what a tick holds
  is of the rule it is at.  `Dispose` is what `Automations` has for a whole due
  transaction.

### The three tables

* `RecordStoreProofs`: all of the properties of `RS_store`, for any tables,
  drafts, requests and bounds.  `StepShape` says that every step saves one row that is
  typed and storable, removes rows that may be removed, or leaves the rows alone;
  the invariant `IInv` is `TypeOK`, `RulesAreWhole`, that every CHECK in force holds of
  every row (`ChecksHold`: the migration looks before it adds, every write is checked
  after), and that at most one posture row is a singleton (`OneSingleton`).  From it:
  `TypeCorrect`, `RulesAreDrafts`, `BeltIsSpare`, `RowRulesAreEnough`, `RoundTrips` (a row
  that stays as it is breaks no rule it is answerable for, no CHECK, no key),
  `KeysKeep`, `RetiredStays`, `PostureReadsBack`.  `BeltIsSpare` is `ParseBody`, with the
  length of the body and the bounds of every entry, and `ValidateBodyForTrigger` of the
  stored row.  `PatternsReach` is about every pattern a
  rule may store and every type that may arrive, of any length: a wildcard matches
  what is under its path segment by segment (`Under`), what is under the same path
  with a longer word for its last segment (`Strays`), and nothing else.
  `AcceptedIsStorable` (`AcceptedFits`) compares the bounds of the service, in bytes, with
  the CHECKs, in characters after trimming: only the one on descriptions is
  narrower; it takes texts with no more characters than bytes (`TextAssumption`).  `PagesArePartition` is for every
  size of a table below 2^w and every page size; it takes tables with finitely many
  keys, so that their rows can be counted.  Assumed: what hosts and engines build
  has the columns' types (`TypedAssumption`, Rust's own guarantee), and a null is no
  value (`NullAssumption`).

## 5. What is only checked, and what is not modelled

Only model-checked:

* `CascadeQuiesces`, `EveryDueFires`, `PostureFollowsRules`: liveness under fairness needs
  `ENABLED`, which is out of the prover's reach;
* that the assumptions of `ExactlyOncePerRule`, `SelfExclusion` and `DeclaredAlone` are
  needed, and the other disagreements of section 6: counterexamples, which TLC finds.

Induction over data is out of the prover's reach where a theorem of the library
would have to be applied to an operator.  `LineageProofs` does without, for its one
recursive function; the rest of the definitions use none.

Not modelled:

* a tick cut at its awaits beside the reaction engine cut at its own: `Automations`
  takes a due transaction as one step, which `ImplementsDues` justifies;
* bulk create and upsert of the generic service (of another repository), filters and
  orderings of lists, the summaries among the forms, audit timestamps;
* a time rule whose own action moves its watched field, and so makes the record
  due again;
* clashes of the uuid v5 over a string with separators;
* HTTP paths, status codes and the authentication layer; exports; domain events
  nothing emits; what the seed files insert;
* the database beyond single statements, READ COMMITTED visibility, unique keys and
  rollback.

## 6. Where code and documents differ

| Run | Property | What happens |
|---|---|---|
| `RE_retype_twice` | `AtMostOncePerRule` | a rule moved from on_event to on_deleted between the two loads is in both, and fires twice on one envelope; moved the other way it is in neither, and misses an envelope for good |
| `RE_self_token` | `NoSelfTrigger` | with an adapter that reports no ids a rule fires on its own write until the cap |
| `S_silent` | `DeviationsDeclared` | of two overlapping ticks the later writes a change its note does not tell |
| `RS_reach` | `WildcardsKeepToThePath` | `sapiens.user.*` takes the events of `sapiens.users`, and `sapiens.*` those of `sapiensx` |
| `S_starve` | `EveryDueFires` | one refused record keeps every record after it from ever firing |

Smaller differences, read while modelling and modelled as the code has them, with
no run of their own: an envelope that matches nothing is claimed
(`reaction_engine.rs:337` and `SPEC.md:53`, against `README.md:24`); a rule still fires at depth equal
to the cap (`reaction_engine.rs:406`, against `README.md:38`); without a gateway nothing is recorded
even where nothing would be applied (`reaction_engine.rs:358`, against `SPEC.md:54-58`); a body refused
at fire time is counted as a duplicate (`scheduler_service.rs:425`, against :141 and :382); a watched
field that moves away and back does not fire again (`scheduler_service.rs:333`, against :27-28);
`all_crud_routes` is documented to mount all twelve endpoints (`lib.rs:104`) and mounts the read
routes; patterns are said to be re-validated at fire time (`SPEC.md:18-19`), and only bodies are
(`reaction_engine.rs:425`); a description of more than 500 characters passes `validate`, which
takes 2000 bytes (`rule_service.rs:39`, :51), and the CHECK of migration 20260901000011 refuses
the row: `AcceptedFits` and its theorem say that this is the only one that does.

## 7. Plan

Done: the modules of section 2 and the theorems of section 4.  What is left would
be new ground:

1. The posture row: that between two overlapping ticks a change is at worst noted
   once too often or once too little, never with an interval outside the ladder.
2. `DueLedger` and `Automations` joined: the rules and the ledger of the two
   identified, so that `FireDue` is the image of a step of `Scheduler` by a theorem,
   and not by reading `Dispose` beside it.
3. Liveness stays with TLC.
