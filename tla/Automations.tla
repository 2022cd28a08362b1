---------------------------- MODULE Automations ----------------------------
(***************************************************************************)
(* The two engines over one rule table, one run ledger and one bus: what   *)
(* the scheduler fires by the clock, the reaction engine hears.            *)
(*                                                                         *)
(* The reaction engine is the one of ReactionEngine, with its workers and  *)
(* redeliveries.  Of the scheduler, whose ticks Scheduler takes apart, the *)
(* rest of the system sees one thing: the transaction of one due record,   *)
(* whole or not at all.  That is one step here, some time after its tick   *)
(* loaded the rules.  A record that is refused changes nothing and is no   *)
(* step.                                                                   *)
(***************************************************************************)
EXTENDS ReactionEngine

CONSTANT Dues       \* [rule, id]: the due records gateways may find, by rule

DueIds == [src : {"due"}, n : Nat, k : Nat]

ASSUME DueAssumption == Dues \subseteq [rule : RuleIds, id : DueIds]

VARIABLE ticks      \* the on_time rules that open ticks have loaded

allVars == <<vars, ticks>>

-----------------------------------------------------------------------------
\* evaluate_tick: the gateway is there, the rules are loaded once.
StartTick ==
    /\ wired
    /\ ticks' = ticks \cup LoadRules("on_time")
    /\ UNCHANGED vars

EndTicks ==
    /\ ticks # {}
    /\ ticks' = {}
    /\ UNCHANGED vars

\* A due record of a loaded rule that was not claimed before.
Claims(l, d) == l \in ticks /\ d \in Dues /\ d.rule = l.id /\ d.id \notin inbox

\* A row of the clock: it has no parent, and its depth is 0.
DueRow(run, l, d, status, effects) ==
    [id |-> run, rule |-> l.id, trigger |-> l.kind, status |-> status, env |-> d.id,
     parent |-> NoRun, depth |-> 0, body |-> l.body, effects |-> effects]

\* The belt refuses the body: a row that says so.
RefuseDue(l, d) ==
    /\ Claims(l, d)
    /\ ~ParseBody(l.body) /\ ~ReasonTooLong(l.body)
    /\ CanMint
    /\ inbox' = inbox \cup {d.id}
    /\ runs' = runs \cup {DueRow(FreshRun, l, d, "refused_body", {})}
    /\ UNCHANGED <<rules, wired, bus, acked, tx, faults, ticks>>

\* Only the run's own event is registered.
MutantDueUnregistered(l, d) ==
    LET run == FreshRun
    IN /\ Claims(l, d)
       /\ ParseBody(l.body) /\ l.id \notin Refusing
       /\ CanMint
       /\ inbox' = inbox \cup {d.id}
       /\ \E how \in [StagingActions(l.body) -> Accounting] :
             /\ runs' = runs \cup {DueRow(run, l, d, "fired", {FiredId(run)})}
             /\ bus' = bus \cup StagedEvents(run, l, how) \cup {FiredEvent(run)}
       /\ UNCHANGED <<rules, wired, acked, tx, faults, ticks>>

\* fire_due: every action applied, the row written, the fired event staged.
FireDue(l, d) ==
    LET run == FreshRun
    IN /\ Claims(l, d)
       /\ ParseBody(l.body) /\ l.id \notin Refusing
       /\ CanMint
       /\ inbox' = inbox \cup {d.id}
       /\ \E how \in [StagingActions(l.body) -> Accounting] :
             /\ runs' = runs \cup {DueRow(run, l, d, "fired", EffectIds(run, l.body, how))}
             /\ bus' = bus \cup StagedEvents(run, l, how) \cup {FiredEvent(run)}
       /\ UNCHANGED <<rules, wired, acked, tx, faults, ticks>>

Clock ==
    \/ StartTick
    \/ EndTicks
    \/ \E l \in ticks, d \in Dues : RefuseDue(l, d) \/ FireDue(l, d)

ClockInit == Init /\ ticks = {}

ClockNext == (Next /\ UNCHANGED ticks) \/ Clock

ClockSpec == ClockInit /\ [][ClockNext]_allVars

-----------------------------------------------------------------------------
(* Properties.  Those of ReactionEngine are about the ledger and the bus,  *)
(* whoever writes them, and are checked of both engines together.          *)

\* Every row has one root, as many hops above it as its depth says, and the
\* root is a row of the clock exactly when it is for a due record: however a
\* rule is moved between triggers meanwhile, and whoever fires it, no chain
\* closes on itself, forks upwards or loses a hop between the two engines.
Above(x) == {p \in runs : p.id = x.parent}
Upward(x, lines) ==
    IF x.parent = NoRun THEN {x} ELSE {x} \cup UNION {lines[p] : p \in Above(x)}
Ancestry[n \in 0..(Cap + 2)] ==
    [x \in runs |-> IF n = 0 THEN {x} ELSE Upward(x, Ancestry[n - 1])]
OneRootEach ==
    \A x \in runs :
        LET line == Ancestry[Cap + 2][x]
            roots == {y \in line : y.parent = NoRun}
        IN /\ Cardinality(roots) = 1
           /\ Cardinality(line) = x.depth + 1
           /\ \A y \in roots :
                 /\ y.env.src \in {"organic", "due"}
                 /\ (y.trigger = "on_time") = (y.env.src = "due")

=============================================================================
