-------------------------- MODULE ProvenanceProofs --------------------------
(***************************************************************************)
(* Where the engine's rows and envelopes come from, proved: every row is   *)
(* one hop below the fired run that staged its envelope, and every         *)
(* envelope of an automation has its fired run in the ledger, whatever     *)
(* workers fail and whatever is redelivered.                               *)
(*                                                                         *)
(* None of the properties is inductive alone: a row that is one hop below  *)
(* its parent was written by a transaction that had looked the parent up   *)
(* among the committed runs, by the registry or by the token of an         *)
(* envelope, and both can be trusted because the run that staged it was    *)
(* whole when it was committed.  ProvInv says all of it, of the bus, of    *)
(* the committed rows and of the rows and events of open transactions.     *)
(***************************************************************************)
EXTENDS ReactionEngineProofs

\* An envelope an automation staged.
Automated(id) == id.src \in {"effect", "fired"}

\* A committed run that fired and has this id.
FiredRun(p, id) == p.id = id /\ p.status = "fired"

\* The two ways from an envelope to the run x that staged it.
Traces(x, e) ==
    /\ FiredRun(x, e.id.n)
    /\ e.id \in x.effects \/ (e.cause = x.id /\ "token" \in Accounting)

\* parent and depth are those of whatever is done about the envelope.
Causes(env, parent, depth) ==
    IF Automated(env)
    THEN \E p \in runs : FiredRun(p, env.n) /\ parent = p.id /\ depth = p.depth + 1
    ELSE parent = NoRun /\ depth = 0

\* A row, committed or not yet: where it is from, what it may have fired with,
\* and what it registers.
RowInv(x) ==
    /\ Causes(x.env, x.parent, x.depth)
    /\ IF x.status = "fired"
       THEN /\ x.depth <= Cap
            /\ BodyAccepted(x.trigger, x.body)
            /\ FiredId(x.id) \in x.effects
            /\ \A i \in x.effects : Automated(i) /\ i.n = x.id
            /\ \A p \in runs : x.env \in p.effects => p.rule # x.rule
            /\ Automated(x.env) => \/ \E p \in runs : x.env \in p.effects
                                   \/ "token" \in Accounting
       ELSE x.effects = {}
    /\ x.status = "depth_capped" => x.depth > Cap

\* What a set of rows staged.
Announced(rows, staged) ==
    \A x \in rows : x.status = "fired" =>
        /\ FiredEvent(x.id) \in staged
        /\ \A i \in x.effects : \E e \in staged : e.id = i

\* An open transaction.
TxProv(t) ==
    /\ t.pc # "firing" => t.parent = NoRun /\ t.depth = 0 /\ t.rows = {} /\ t.staged = {}
    /\ t.pc = "firing" => Causes(t.env.id, t.parent, t.depth)
    /\ \A x \in t.rows : RowInv(x)
    /\ Announced(t.rows, t.staged)
    /\ \A e \in t.staged : Automated(e.id) /\ \E x \in t.rows : Traces(x, e)

\* A run id names one row, committed or not.
IdInv ==
    /\ \A x, y \in runs : x.id = y.id => x = y
    /\ \A w \in Workers : \A x \in tx[w].rows, y \in runs : x.id # y.id
    /\ \A v, w \in Workers : \A x \in tx[v].rows, y \in tx[w].rows :
          x.id = y.id => v = w /\ x = y

BusInv ==
    \A e \in bus : IF Automated(e.id) THEN \E x \in runs : Traces(x, e) ELSE e \in Organic

ProvInv ==
    /\ BusInv
    /\ IdInv
    /\ \A x \in runs : RowInv(x)
    /\ Announced(runs, bus)
    /\ \A w \in Workers : TxProv(tx[w])

-----------------------------------------------------------------------------
(* What is said of a row or a transaction stays true when runs are added.  *)

\* A row that may join the ledger.
Joins(p) == RowInv(p) /\ \A y \in runs : y.id # p.id

LEMMA CausesGrows ==
    ASSUME NEW env, NEW parent, NEW depth, Causes(env, parent, depth), runs \subseteq runs'
    PROVE  Causes(env, parent, depth)'
BY DEF Causes, FiredRun

LEMMA RowGrows ==
    ASSUME NEW x, RowInv(x), runs \subseteq runs', \A p \in runs' \ runs : Joins(p)
    PROVE  RowInv(x)'
<1>1. Causes(x.env, x.parent, x.depth)'
    BY CausesGrows DEF RowInv
<1>2. ASSUME NEW p \in runs' \ runs PROVE x.env \notin p.effects
    <2> SUFFICES ASSUME x.env \in p.effects PROVE FALSE
        OBVIOUS
    <2>1. Automated(x.env) /\ x.env.n = p.id
        BY <1>2 DEF Joins, RowInv
    <2>2. PICK y \in runs : y.id = p.id
        BY <2>1 DEF RowInv, Causes, FiredRun
    <2> QED
        BY <1>2, <2>2 DEF Joins
<1> QED
    BY <1>1, <1>2 DEF RowInv

LEMMA TxGrows ==
    ASSUME NEW t, TxProv(t), runs \subseteq runs', \A p \in runs' \ runs : Joins(p)
    PROVE  TxProv(t)'
<1>1. \A x \in t.rows : RowInv(x)'
    BY RowGrows DEF TxProv
<1>2. t.pc = "firing" => Causes(t.env.id, t.parent, t.depth)'
    BY CausesGrows DEF TxProv
<1> QED
    BY <1>1, <1>2 DEF TxProv, Announced, Traces, FiredRun

LEMMA TxPrimed ==
    ASSUME NEW t, NEW w, tx'[w] = t, TxProv(t)'
    PROVE  TxProv(tx[w])'
BY DEF TxProv, Causes, FiredRun, Announced, Traces

\* A step of one worker that commits nothing: its rows are what they were, or
\* have fresh ids.
LEMMA WorkerStepProv ==
    ASSUME TypeInv, ProvInv, NEW w \in Workers, NEW t,
           tx' = [tx EXCEPT ![w] = t],
           TxProv(t),
           \A x \in t.rows : x \in tx[w].rows \/ x.id \notin UsedRuns,
           \A x, y \in t.rows : x.id = y.id => x = y,
           bus' = bus, runs' = runs
    PROVE  ProvInv'
<1>1. /\ tx'[w] = t
      /\ \A v \in Workers \ {w} : tx'[v] = tx[v]
    BY DEF TypeInv, TypeOK
<1>2. IdInv'
    <2>1. \A x \in t.rows, y \in runs : x.id # y.id
        BY DEF UsedRuns, ProvInv, IdInv
    <2>2. ASSUME NEW v \in Workers \ {w}
          PROVE  \A x \in t.rows, y \in tx[v].rows : x.id # y.id
        BY DEF UsedRuns, ProvInv, IdInv
    <2> QED
        BY <1>1, <2>1, <2>2 DEF ProvInv, IdInv
<1>3. \A x : RowInv(x) => RowInv(x)'
    BY RowGrows
<1>4. \A v \in Workers : TxProv(tx[v])'
    <2>1. \A u : TxProv(u) => TxProv(u)'
        BY TxGrows
    <2>2. TxProv(tx[w])'
        BY <1>1, <2>1, TxPrimed
    <2>3. ASSUME NEW v \in Workers \ {w} PROVE TxProv(tx[v])'
        <3>1. TxProv(tx[v])
            BY DEF ProvInv
        <3>2. PICK u : u = tx[v]
            OBVIOUS
        <3>3. TxProv(u)'
            BY <2>1, <3>1, <3>2
        <3> QED
            BY <1>1, <3>2, <3>3, TxPrimed
    <2> QED
        BY <2>2, <2>3
<1> QED
    BY <1>2, <1>3, <1>4 DEF ProvInv, BusInv, Announced, Traces, FiredRun

-----------------------------------------------------------------------------
(* The steps.                                                              *)

LEMMA IdleProv == TxProv(Idle)
BY DEF TxProv, Idle, Announced

LEMMA DoneProv == ASSUME NEW w PROVE TxProv(Done(w)) /\ Done(w).rows = {}
BY DEF TxProv, Done, Idle, Announced

\* Steps that end a transaction and commit nothing, or only begin one.
LEMMA QuietProv ==
    ASSUME TypeInv, ProvInv, NEW w \in Workers,
           \/ NoRules(w) \/ AlreadyClaimed(w) \/ NotComposed(w) \/ Return(w) \/ Fail(w)
           \/ \E l \in tx[w].todo : GatewayRefused(w, l) \/ LedgerRefused(w, l)
           \/ \E e \in bus : Begin(w, e)
    PROVE  ProvInv'
<1> DEFINE begun(e) == [Idle EXCEPT !.pc = "loading", !.env = e,
                                    !.loaded = LoadRules("on_event")]
<1>1. PICK t : /\ tx' = [tx EXCEPT ![w] = t] /\ bus' = bus /\ runs' = runs
               /\ t = Idle \/ t = Done(w) \/ \E e \in bus : t = begun(e)
    <2>1. CASE NoRules(w) \/ AlreadyClaimed(w)
        BY <2>1 DEF NoRules, AlreadyClaimed, environment, ledger
    <2>2. CASE \/ NotComposed(w) \/ Return(w) \/ Fail(w)
               \/ \E l \in tx[w].todo : GatewayRefused(w, l) \/ LedgerRefused(w, l)
        BY <2>2 DEF NotComposed, Return, Fail, GatewayRefused, LedgerRefused, RollBack,
                    environment, ledger
    <2>3. CASE \E e \in bus : Begin(w, e)
        BY <2>3 DEF Begin, environment, ledger
    <2> QED
        BY <2>1, <2>2, <2>3
<1>2. \A e : TxProv(begun(e)) /\ begun(e).rows = {}
    BY DEF TxProv, Idle, Announced
<1>3. Idle.rows = {}
    BY DEF Idle
<1>4. TxProv(t) /\ t.rows = {}
    BY <1>1, <1>2, <1>3, IdleProv, DoneProv
<1> QED
    BY <1>1, <1>4, WorkerStepProv

\* Steps that only move the transaction on.
LEMMA LoadClaimProv ==
    ASSUME TypeInv, ProvInv, NEW w \in Workers, LoadDeletedRules(w) \/ Claim(w)
    PROVE  ProvInv'
<1> DEFINE t == [tx[w] EXCEPT !.pc = "loaded", !.loaded = @ \cup LoadRules("on_deleted")]
<1> DEFINE u == [tx[w] EXCEPT !.pc = "claimed"]
<1>1. tx[w] \in TxRecord /\ TxProv(tx[w]) /\ tx[w].pc # "firing"
    BY EnvelopeIdType DEF LoadDeletedRules, Claim, ProvInv
<1>2. TxProv(t) /\ t.rows = tx[w].rows
    BY <1>1 DEF TxProv, TxRecord, Announced
<1>3. TxProv(u) /\ u.rows = tx[w].rows
    BY <1>1 DEF TxProv, TxRecord, Announced
<1>4. bus' = bus /\ runs' = runs /\ (tx' = [tx EXCEPT ![w] = t] \/ tx' = [tx EXCEPT ![w] = u])
    BY DEF LoadDeletedRules, Claim, TypeInv, TypeOK, environment, ledger
<1>5. \A x, y \in tx[w].rows : x.id = y.id => x = y
    BY DEF ProvInv, IdInv
<1> HIDE DEF t, u
<1> QED
    BY <1>2, <1>3, <1>4, <1>5, WorkerStepProv

\* resolve_parent: registry or token, it is the run that staged the envelope;
\* and an envelope of another module has no parent.
LEMMA ParentIsCause ==
    ASSUME TypeInv, ProvInv, NEW e \in bus
    PROVE  /\ ResolveParent(e) = {} => ~Automated(e.id)
           /\ \A p \in ResolveParent(e) : /\ Automated(e.id)
                                          /\ p \in runs /\ FiredRun(p, e.id.n)
<1>1. CASE Automated(e.id)
    <2>1. PICK x \in runs : Traces(x, e)
        BY <1>1 DEF ProvInv, BusInv
    <2>2. \A p \in ViaRegistry(e) : p \in runs /\ FiredRun(p, e.id.n)
        BY DEF ViaRegistry, ProvInv, RowInv, FiredRun
    <2>3. CASE ViaRegistry(e) # {}
        BY <1>1, <2>2, <2>3 DEF ResolveParent
    <2>4. CASE ViaRegistry(e) = {}
        <3>1. e.cause = x.id
            BY <2>1, <2>4 DEF ViaRegistry, Traces
        <3>2. ViaToken(e) = {x}
            BY <3>1 DEF ViaToken, ProvInv, IdInv
        <3> QED
            BY <1>1, <2>1, <2>4, <3>2 DEF ResolveParent, Traces
    <2> QED
        BY <2>3, <2>4
<1>2. CASE ~Automated(e.id)
    <2>1. ViaRegistry(e) = {}
        BY <1>2 DEF ViaRegistry, ProvInv, RowInv
    <2>2. e.cause = NoRun
        BY <1>2, OrganicAssumption DEF ProvInv, BusInv
    <2>3. \A x \in runs : x.id # NoRun
        BY RunIdAssumption DEF TypeInv, TypeOK, Run
    <2>4. ResolveParent(e) = {}
        BY <2>1, <2>2, <2>3 DEF ResolveParent, ViaToken
    <2> QED
        BY <1>2, <2>4
<1> QED
    BY <1>1, <1>2

LEMMA ResolveProv ==
    ASSUME TypeInv, ProvInv, NEW w \in Workers, Resolve(w)
    PROVE  ProvInv'
<1> DEFINE matched == Matching(tx[w].loaded, tx[w].env.type)
<1>1. /\ tx[w] \in TxRecord /\ TxProv(tx[w]) /\ tx[w].env \in bus
      /\ tx[w].pc = "claimed" /\ bus' = bus /\ runs' = runs
    BY EnvelopeIdType DEF Resolve, ProvInv, environment, ledger
<1>2. tx[w].parent = NoRun /\ tx[w].depth = 0 /\ tx[w].rows = {} /\ tx[w].staged = {}
    BY <1>1 DEF TxProv
<1>3. PICK parent, depth :
          /\ tx' = [tx EXCEPT ![w] = [tx[w] EXCEPT !.pc = "firing", !.todo = matched,
                                                   !.parent = parent, !.depth = depth]]
          /\ Causes(tx[w].env.id, parent, depth)
    <2> HIDE DEF matched
    <2>1. CASE /\ ResolveParent(tx[w].env) = {}
               /\ tx' = [tx EXCEPT ![w].pc = "firing", ![w].todo = matched]
        <3>1. Causes(tx[w].env.id, tx[w].parent, tx[w].depth)
            BY <1>1, <1>2, <2>1, ParentIsCause DEF Causes
        <3>2. tx' = [tx EXCEPT ![w] = [tx[w] EXCEPT !.pc = "firing", !.todo = matched,
                          !.parent = tx[w].parent, !.depth = tx[w].depth]]
            BY <1>1, <2>1 DEF TypeInv, TypeOK, TxRecord
        <3> QED
            BY <3>1, <3>2
    <2>2. ASSUME NEW p \in ResolveParent(tx[w].env),
                 tx' = [tx EXCEPT ![w].pc = "firing", ![w].todo = matched,
                                  ![w].parent = p.id, ![w].depth = p.depth + 1]
          PROVE  /\ tx' = [tx EXCEPT ![w] = [tx[w] EXCEPT !.pc = "firing", !.todo = matched,
                                              !.parent = p.id, !.depth = p.depth + 1]]
                 /\ Causes(tx[w].env.id, p.id, p.depth + 1)
        <3>1. Causes(tx[w].env.id, p.id, p.depth + 1)
            BY <1>1, ParentIsCause DEF Causes
        <3> QED
            BY <1>1, <2>2, <3>1 DEF TypeInv, TypeOK, TxRecord
    <2> QED
        BY <2>1, <2>2 DEF Resolve, matched
<1> DEFINE t == [tx[w] EXCEPT !.pc = "firing", !.todo = matched,
                              !.parent = parent, !.depth = depth]
<1> HIDE DEF matched
<1>4. TxProv(t) /\ t.rows = {}
    BY <1>1, <1>2, <1>3 DEF TxProv, TxRecord, Announced
<1> HIDE DEF t
<1> QED
    BY <1>1, <1>3, <1>4, WorkerStepProv DEF t

\* One rule's turn: a row with a fresh id joins the transaction's, with what it
\* staged.
LEMMA TurnProv ==
    ASSUME TypeInv, ProvInv, NEW w \in Workers, NEW l, Turn(w, l),
           NEW row, RowInv(row), row.id \notin UsedRuns,
           NEW events, Announced({row}, events),
           \A e \in events : Automated(e.id) /\ Traces(row, e),
           tx' = [tx EXCEPT ![w] = [tx[w] EXCEPT !.todo = @ \ {l}, !.rows = @ \cup {row},
                                                 !.staged = @ \cup events]],
           bus' = bus, runs' = runs
    PROVE  ProvInv'
<1> DEFINE t == [tx[w] EXCEPT !.todo = @ \ {l}, !.rows = @ \cup {row},
                              !.staged = @ \cup events]
<1>1. tx[w] \in TxRecord /\ TxProv(tx[w]) /\ tx[w].pc = "firing"
    BY TurnType DEF ProvInv
<1>2. /\ t.pc = "firing" /\ t.env = tx[w].env
      /\ t.parent = tx[w].parent /\ t.depth = tx[w].depth
      /\ t.rows = tx[w].rows \cup {row} /\ t.staged = tx[w].staged \cup events
    BY <1>1 DEF TxRecord
<1>3. TxProv(t)
    <2> HIDE DEF t
    <2>1. Announced(t.rows, t.staged)
        BY <1>1, <1>2 DEF TxProv, Announced
    <2>2. \A e \in t.staged : Automated(e.id) /\ \E x \in t.rows : Traces(x, e)
        BY <1>1, <1>2 DEF TxProv
    <2> QED
        BY <1>1, <1>2, <2>1, <2>2 DEF TxProv
<1>4. \A x, y \in t.rows : x.id = y.id => x = y
    <2>1. \A x \in tx[w].rows : x.id # row.id
        BY DEF UsedRuns
    <2> QED
        BY <1>2, <2>1 DEF ProvInv, IdInv
<1>5. \A x \in t.rows : x \in tx[w].rows \/ x.id \notin UsedRuns
    BY <1>2
<1> HIDE DEF t
<1> QED
    BY <1>3, <1>4, <1>5, WorkerStepProv DEF t

LEMMA DisposeProv ==
    ASSUME TypeInv, ProvInv, NEW w \in Workers, NEW l, Dispose(w, l)
    PROVE  ProvInv'
<1> DEFINE status == Disposition(l, tx[w].env, tx[w].depth)
<1> DEFINE row == RunRow(w, FreshRun, l, status, {})
<1>1. /\ Turn(w, l) /\ tx[w] \in TxRecord /\ tx[w].pc = "firing" /\ TxProv(tx[w])
      /\ status # "fired" /\ FreshRun \notin UsedRuns
    BY TurnType, FreshRunIsFresh DEF Dispose, ProvInv
<1>2. /\ row.id = FreshRun /\ row.status = status /\ row.effects = {}
      /\ row.env = tx[w].env.id /\ row.parent = tx[w].parent /\ row.depth = tx[w].depth
    BY DEF RunRow
<1>3. status = "depth_capped" => tx[w].depth > Cap
    BY DEF Disposition
<1>4. tx' = [tx EXCEPT ![w].todo = @ \ {l}, ![w].rows = @ \cup {row}]
    BY DEF Dispose
<1>5. bus' = bus /\ runs' = runs
    BY DEF Dispose, environment, ledger
<1> HIDE DEF row, status
<1>6. RowInv(row)
    BY <1>1, <1>2, <1>3 DEF RowInv, TxProv
<1>7. Announced({row}, {})
    BY <1>1, <1>2 DEF Announced
<1>8. tx' = [tx EXCEPT ![w] = [tx[w] EXCEPT !.todo = @ \ {l}, !.rows = @ \cup {row},
                                            !.staged = @ \cup {}]]
    BY <1>1, <1>4 DEF TypeInv, TypeOK, TxRecord
<1> QED
    BY <1>1, <1>2, <1>5, <1>6, <1>7, <1>8, TurnProv

\* What a fire stages and registers: every event of the run is in its registry
\* or carries its token, and every event in the registry was staged.
LEMMA StagedTraces ==
    ASSUME NEW run, NEW l, NEW how \in [StagingActions(l.body) -> Accounting], NEW x,
           x.id = run, x.status = "fired", x.effects = EffectIds(run, l.body, how)
    PROVE  /\ FiredId(run) \in x.effects
           /\ \A i \in x.effects : Automated(i) /\ i.n = run
           /\ Announced({x}, StagedEvents(run, l, how) \cup {FiredEvent(run)})
           /\ \A e \in StagedEvents(run, l, how) \cup {FiredEvent(run)} :
                 Automated(e.id) /\ Traces(x, e)
<1>1. \A i \in StagingActions(l.body) : how[i] \in Accounting /\ how[i] \in {"reported", "token"}
    BY AccountingAssumption
<1>2. \A i : /\ EffectId(run, i).src = "effect" /\ EffectId(run, i).n = run
             /\ Automated(EffectId(run, i))
    BY DEF EffectId, Automated
<1>3. FiredId(run).n = run /\ Automated(FiredId(run))
    BY DEF FiredId, Automated
<1>4. FiredEvent(run).id = FiredId(run)
    BY DEF FiredEvent
<1>5. \A e \in StagedEvents(run, l, how) : \E i \in StagingActions(l.body) :
          /\ e.id = EffectId(run, i)
          /\ e.cause = IF how[i] = "token" THEN run ELSE NoRun
    BY DEF StagedEvents
<1>6. \A i \in StagingActions(l.body) :
          \E e \in StagedEvents(run, l, how) : e.id = EffectId(run, i)
    <2> SUFFICES ASSUME NEW i \in StagingActions(l.body)
                 PROVE  \E e \in StagedEvents(run, l, how) : e.id = EffectId(run, i)
        OBVIOUS
    <2> DEFINE e == [id |-> EffectId(run, i), type |-> StagedType[l.body[i]], source |-> l.model,
                     cause |-> IF how[i] = "token" THEN run ELSE NoRun]
    <2>1. e \in StagedEvents(run, l, how) /\ e.id = EffectId(run, i)
        BY DEF StagedEvents
    <2> QED
        BY <2>1
<1>7. ASSUME NEW e \in StagedEvents(run, l, how) PROVE Automated(e.id) /\ Traces(x, e)
    <2>1. PICK i \in StagingActions(l.body) :
              /\ e.id = EffectId(run, i)
              /\ e.cause = IF how[i] = "token" THEN run ELSE NoRun
        BY <1>5
    <2>2. CASE how[i] = "token"
        BY <1>1, <1>2, <2>1, <2>2 DEF Traces, FiredRun
    <2>3. CASE how[i] = "reported"
        BY <1>2, <2>1, <2>3 DEF Traces, FiredRun, EffectIds
    <2> QED
        BY <1>1, <2>2, <2>3
<1>8. Automated(FiredEvent(run).id) /\ Traces(x, FiredEvent(run))
    BY <1>3, <1>4 DEF Traces, FiredRun, EffectIds
<1>9. FiredId(run) \in x.effects /\ \A i \in x.effects : Automated(i) /\ i.n = run
    BY <1>2, <1>3 DEF EffectIds
<1>10. Announced({x}, StagedEvents(run, l, how) \cup {FiredEvent(run)})
    BY <1>4, <1>6 DEF Announced, EffectIds
<1> QED
    BY <1>7, <1>8, <1>9, <1>10

LEMMA FireProv ==
    ASSUME TypeInv, ProvInv, NEW w \in Workers, NEW l, Fire(w, l)
    PROVE  ProvInv'
<1> DEFINE run == FreshRun
<1>1. /\ Turn(w, l) /\ tx[w] \in TxRecord /\ tx[w].pc = "firing" /\ TxProv(tx[w])
      /\ run \notin UsedRuns
      /\ Disposition(l, tx[w].env, tx[w].depth) = "fired"
    BY TurnType, FreshRunIsFresh DEF Fire, ProvInv
<1>2. PICK how \in [StagingActions(l.body) -> Accounting] :
          tx' = [tx EXCEPT
                ![w].todo = @ \ {l},
                ![w].rows = @ \cup {RunRow(w, run, l, "fired", EffectIds(run, l.body, how))},
                ![w].staged = @ \cup StagedEvents(run, l, how) \cup {FiredEvent(run)}]
    BY DEF Fire
<1> DEFINE row == RunRow(w, run, l, "fired", EffectIds(run, l.body, how))
<1> DEFINE events == StagedEvents(run, l, how) \cup {FiredEvent(run)}
<1>3. bus' = bus /\ runs' = runs
    BY DEF Fire, environment, ledger
<1> HIDE DEF run
<1>4. /\ row.id = run /\ row.status = "fired" /\ row.effects = EffectIds(run, l.body, how)
      /\ row.env = tx[w].env.id /\ row.parent = tx[w].parent /\ row.depth = tx[w].depth
      /\ row.rule = l.id /\ row.trigger = l.kind /\ row.body = l.body
    BY DEF RunRow
<1>5. tx' = [tx EXCEPT ![w].todo = @ \ {l}, ![w].rows = @ \cup {row},
                       ![w].staged = @ \cup events]
    BY <1>2
<1>6. tx[w].depth <= Cap
    BY <1>1, CapAssumption DEF Disposition, TxRecord, Cap
<1>7. BodyAccepted(l.kind, l.body) /\ ~RuleProducedEvent(l.id, tx[w].env)
    BY <1>1 DEF Disposition
<1>8. /\ FiredId(run) \in row.effects
      /\ \A i \in row.effects : Automated(i) /\ i.n = run
      /\ Announced({row}, events)
      /\ \A e \in events : Automated(e.id) /\ Traces(row, e)
    <2> PICK x : x = row
        OBVIOUS
    <2> HIDE DEF row
    <2>1. x.id = run /\ x.status = "fired" /\ x.effects = EffectIds(run, l.body, how)
        BY <1>4
    <2> HIDE DEF events
    <2>2. /\ FiredId(run) \in x.effects
          /\ \A i \in x.effects : Automated(i) /\ i.n = run
          /\ Announced({x}, events)
          /\ \A e \in events : Automated(e.id) /\ Traces(x, e)
        BY <2>1, StagedTraces DEF events
    <2> QED
        BY <2>2
<1> HIDE DEF row, events
<1>9. RowInv(row)
    <2>1. \A p \in runs : row.env \in p.effects => p.rule # row.rule
        BY <1>4, <1>7 DEF RuleProducedEvent
    <2>2. tx[w].env \in bus
        BY <1>1, EnvelopeIdType
    <2>3. Automated(row.env) => (\E p \in runs : row.env \in p.effects) \/ "token" \in Accounting
        BY <1>4, <2>2 DEF ProvInv, BusInv, Traces
    <2> QED
        BY <1>1, <1>4, <1>6, <1>7, <1>8, <2>1, <2>3 DEF RowInv, TxProv
<1>10. tx' = [tx EXCEPT ![w] = [tx[w] EXCEPT !.todo = @ \ {l}, !.rows = @ \cup {row},
                                             !.staged = @ \cup events]]
    BY <1>1, <1>5 DEF TypeInv, TypeOK, TxRecord
<1> QED
    BY <1>1, <1>3, <1>4, <1>8, <1>9, <1>10, TurnProv

LEMMA CommitProv ==
    ASSUME TypeInv, ProvInv, NEW w \in Workers, NoMatch(w) \/ Commit(w)
    PROVE  ProvInv'
<1>1. /\ tx' = [tx EXCEPT ![w] = Done(w)]
      /\ runs' = runs \cup tx[w].rows /\ bus' = bus \cup tx[w].staged
    <2>1. CASE NoMatch(w)
        <3>1. tx[w].rows = {} /\ tx[w].staged = {}
            BY <2>1 DEF NoMatch, ProvInv, TxProv
        <3> QED
            BY <2>1, <3>1 DEF NoMatch, environment
    <2>2. CASE Commit(w)
        BY <2>2 DEF Commit
    <2> QED
        BY <2>1, <2>2
<1>2. \A p \in tx[w].rows : Joins(p)
    BY DEF Joins, ProvInv, TxProv, IdInv
<1>3. \A x : RowInv(x) => RowInv(x)'
    BY <1>1, <1>2, RowGrows
<1>4. /\ tx'[w] = Done(w)
      /\ \A v \in Workers \ {w} : tx'[v] = tx[v]
    BY <1>1 DEF TypeInv, TypeOK
<1>5. IdInv'
    BY <1>1, <1>4, DoneProv DEF ProvInv, IdInv
<1>6. \A v \in Workers : TxProv(tx[v])'
    <2>1. \A u : TxProv(u) => TxProv(u)'
        BY <1>1, <1>2, TxGrows
    <2>2. PICK done : done = Done(w)
        OBVIOUS
    <2>3. TxProv(done)'
        BY <2>1, <2>2, DoneProv
    <2>4. TxProv(tx[w])'
        BY <1>4, <2>2, <2>3, TxPrimed
    <2>5. ASSUME NEW v \in Workers \ {w} PROVE TxProv(tx[v])'
        <3>1. TxProv(tx[v])
            BY DEF ProvInv
        <3>2. PICK u : u = tx[v]
            OBVIOUS
        <3>3. TxProv(u)'
            BY <2>1, <3>1, <3>2
        <3> QED
            BY <1>4, <3>2, <3>3, TxPrimed
    <2> QED
        BY <2>4, <2>5
<1>7. Announced(runs, bus)'
    BY <1>1 DEF ProvInv, TxProv, Announced
<1>8. BusInv'
    BY <1>1 DEF ProvInv, BusInv, TxProv, Traces, FiredRun
<1>9. \A x \in runs' : RowInv(x)'
    BY <1>1, <1>2, <1>3 DEF Joins, ProvInv
<1> QED
    BY <1>5, <1>6, <1>7, <1>8, <1>9 DEF ProvInv

LEMMA PublishProv ==
    ASSUME ProvInv, NEW e \in Organic, Publish(e)
    PROVE  ProvInv'
<1>1. bus' = bus \cup {e} /\ runs' = runs /\ tx' = tx /\ ~Automated(e.id)
    BY OrganicAssumption DEF Publish, ledger, Automated
<1> QED
    BY <1>1 DEF ProvInv, BusInv, IdInv, RowInv, TxProv, Announced, Causes, Traces, FiredRun

LEMMA NextProv == TypeInv /\ ProvInv /\ [Next]_vars => ProvInv'
<1> SUFFICES ASSUME TypeInv, ProvInv, [Next]_vars PROVE ProvInv'
    OBVIOUS
<1>1. ASSUME NEW w \in Workers, Step(w) PROVE ProvInv'
    BY <1>1, LoadClaimProv, QuietProv, CommitProv, ResolveProv, DisposeProv, FireProv DEF Step
<1>2. ASSUME NEW w \in Workers, Fail(w) PROVE ProvInv'
    BY <1>2, QuietProv
<1>3. ASSUME NEW w \in Workers, NEW e \in bus, Begin(w, e) PROVE ProvInv'
    BY <1>3, QuietProv
<1>4. ASSUME NEW e \in Organic, Publish(e) PROVE ProvInv'
    BY <1>4, PublishProv
<1>5. ASSUME UNCHANGED <<tx, bus, runs>> PROVE ProvInv'
    BY <1>5 DEF ProvInv, BusInv, IdInv, RowInv, TxProv, Announced, Causes, Traces, FiredRun
<1>6. ASSUME NEW w \in Workers, NEW e \in bus, SkipOpaque(w, e)
      PROVE  UNCHANGED <<tx, bus, runs>>
    BY <1>6 DEF SkipOpaque
<1>7. ASSUME Administer \/ Install \/ UNCHANGED vars PROVE UNCHANGED <<tx, bus, runs>>
    BY <1>7 DEF Administer, CreateRule, ReplaceRule, SetActive, DeleteRule, CorruptRule,
                ChangeRule, Install, vars, ledger
<1> QED
    BY <1>1, <1>2, <1>3, <1>4, <1>5, <1>6, <1>7 DEF Next, Deliver

LEMMA InitProv == Init => ProvInv
<1> SUFFICES ASSUME Init PROVE ProvInv
    OBVIOUS
<1>1. \A w \in Workers : tx[w] = Idle
    BY DEF Init
<1>2. \A w \in Workers : TxProv(tx[w]) /\ tx[w].rows = {}
    BY <1>1 DEF TxProv, Idle, Announced
<1> QED
    BY <1>2 DEF Init, ProvInv, BusInv, IdInv, Announced

LEMMA Provenance == Spec => [](OnceInv /\ ProvInv)
<1>1. Init => OnceInv
    <2> SUFFICES ASSUME Init PROVE UniqueInv
        BY InitType DEF OnceInv
    <2> QED
        BY IdleOnce DEF Init, UniqueInv, ClaimInv, HoldsClaim, AtMostOnceDisposed
<1>2. OnceInv /\ ProvInv /\ [Next]_vars => OnceInv' /\ ProvInv'
    BY NextOnce, NextProv DEF OnceInv
<1> QED
    BY <1>1, <1>2, InitProv, PTL DEF Spec

-----------------------------------------------------------------------------
(* What follows for the ledger and the bus. *)

LEMMA RowDepthBounded ==
    ASSUME TypeInv, ProvInv, NEW x \in runs
    PROVE  x.depth <= Cap + 1
<1>1. RowInv(x) /\ Cap \in Int /\ Cap >= 1
    BY CapAssumption DEF ProvInv, Cap
<1>2. CASE Automated(x.env)
    <2>1. PICK p \in runs : FiredRun(p, x.env.n) /\ x.depth = p.depth + 1
        BY <1>1, <1>2 DEF RowInv, Causes
    <2>2. p.depth <= Cap /\ p.depth \in Nat
        BY <2>1 DEF ProvInv, RowInv, FiredRun, TypeInv, TypeOK, Run
    <2> QED
        BY <1>1, <2>1, <2>2
<1>3. CASE ~Automated(x.env)
    BY <1>1, <1>3 DEF RowInv, Causes
<1> QED
    BY <1>2, <1>3

LEMMA WholeChains == ProvInv => CausalDepth
<1> SUFFICES ASSUME ProvInv, NEW x \in runs
             PROVE  IF x.env.src \in {"effect", "fired"}
                    THEN \E p \in runs : /\ p.id = x.parent
                                         /\ p.id = x.env.n
                                         /\ p.status = "fired"
                                         /\ x.depth = p.depth + 1
                    ELSE x.parent = NoRun /\ x.depth = 0
    BY DEF CausalDepth
<1> QED
    BY DEF ProvInv, RowInv, Causes, FiredRun, Automated

\* The causal chain (record_run, resolve_parent): for any adapters, reporting or
\* stamping tokens, any failures and redeliveries, a row for an automation's
\* envelope is one hop below the fired run that staged it, and every other row
\* is a root.
THEOREM ChainsAreWhole == Spec => []CausalDepth
BY WholeChains, Provenance, PTL

LEMMA Capped == OnceInv /\ ProvInv => DepthBounded
<1> SUFFICES ASSUME OnceInv, ProvInv, NEW x \in runs
             PROVE  /\ x.status = "fired" => x.depth <= Cap
                    /\ x.status = "depth_capped" => x.depth = Cap + 1
                    /\ x.depth <= Cap + 1
    BY DEF DepthBounded
<1>1. x.depth <= Cap + 1 /\ RowInv(x)
    BY RowDepthBounded DEF OnceInv, ProvInv
<1>2. x.depth \in Nat /\ Cap \in Int
    BY CapAssumption DEF Cap, OnceInv, TypeInv, TypeOK, Run
<1> QED
    BY <1>1, <1>2 DEF RowInv

\* The causal depth cap: no run fires beyond it, a capped row is the first one
\* beyond it and nothing lies deeper, for every configured cap.
THEOREM CapHolds == Spec => []DepthBounded
BY Capped, Provenance, PTL

LEMMA RealFires == OnceInv /\ ProvInv => NoPhantomFires
<1> SUFFICES ASSUME OnceInv, ProvInv PROVE NoPhantomFires
    OBVIOUS
<1>1. ASSUME NEW e \in bus, e.id.src \in {"effect", "fired"}
      PROVE  \E x \in runs : x.id = e.id.n /\ x.status = "fired"
    BY <1>1 DEF ProvInv, BusInv, Automated, Traces, FiredRun
<1>2. ASSUME NEW x \in runs
      PROVE  /\ x.env \in inbox
             /\ x.status = "fired" <=> FiredEvent(x.id) \in bus
             /\ \A i \in x.effects : \E e \in bus : e.id = i
    <2>1. x.env \in inbox
        BY DEF OnceInv, UniqueInv, ClaimInv
    <2>2. x.status = "fired" => FiredEvent(x.id) \in bus
        BY DEF ProvInv, Announced
    <2>3. ASSUME FiredEvent(x.id) \in bus PROVE x.status = "fired"
        <3>1. FiredEvent(x.id).id.src = "fired" /\ FiredEvent(x.id).id.n = x.id
            BY DEF FiredEvent, FiredId
        <3>2. PICK y \in runs : y.id = x.id /\ y.status = "fired"
            BY <1>1, <2>3, <3>1
        <3> QED
            BY <3>2 DEF ProvInv, IdInv
    <2>4. \A i \in x.effects : \E e \in bus : e.id = i
        BY DEF ProvInv, Announced, RowInv
    <2> QED
        BY <2>1, <2>2, <2>3, <2>4
<1> QED
    BY <1>1, <1>2 DEF NoPhantomFires

\* No phantom fires: whatever is delivered again, rolled back or crashed, an
\* automation's envelope is on the bus exactly when its run fired.
THEOREM FiresAreReal == Spec => []NoPhantomFires
BY RealFires, Provenance, PTL

LEMMA Excluded ==
    ASSUME "token" \notin Accounting
    PROVE  OnceInv /\ ProvInv => NoSelfTrigger
<1> SUFFICES ASSUME OnceInv, ProvInv, NEW x \in runs, NEW y \in runs,
                    x.status = "fired", Automated(x.env), x.env.n = y.id,
                    x.rule = y.rule
             PROVE  FALSE
    BY DEF NoSelfTrigger, Automated
<1>1. RowInv(x)
    BY DEF ProvInv
<1>2. PICK p \in runs : x.env \in p.effects
    BY <1>1 DEF RowInv
<1>3. p.id = y.id
    BY <1>2 DEF ProvInv, RowInv
<1>4. p = y
    BY <1>3 DEF ProvInv, IdInv
<1> QED
    BY <1>1, <1>2, <1>4 DEF RowInv

\* Self-exclusion (rule_produced_event), for adapters that report what they
\* stage: no rule fires on an envelope one of its own fires staged.  With an
\* adapter that only stamps tokens it may (RE_self_token).
THEOREM SelfExclusion ==
    ASSUME "token" \notin Accounting
    PROVE  Spec => []NoSelfTrigger
BY Excluded, Provenance, PTL

LEMMA LegalBodies == OnceInv /\ ProvInv => FiredBodiesAreLegal
<1> SUFFICES ASSUME OnceInv, ProvInv, NEW x \in runs, x.status = "fired"
             PROVE  /\ Len(x.body) \in 1..MaxActionsPerRule
                    /\ \A i \in DOMAIN x.body :
                          x.body[i] \in IF x.trigger = "on_deleted"
                                        THEN {"notify"} ELSE Vocabulary
    BY DEF FiredBodiesAreLegal
<1>1. x.body \in Seq(DOMAIN StagedType)
    BY DEF OnceInv, TypeInv, TypeOK, Run, Bodies
<1>2. BodyAccepted(x.trigger, x.body)
    BY DEF ProvInv, RowInv
<1>3. Len(x.body) \in 1..MaxActionsPerRule
    <2>1. x.body # <<>> /\ Len(x.body) <= MaxActionsPerRule
        BY <1>2 DEF BodyAccepted, ParseBody
    <2>2. Len(x.body) \in Nat /\ Len(x.body) # 0
        BY <1>1, <2>1
    <2>3. MaxActionsPerRule \in Int
        BY DEF MaxActionsPerRule
    <2> QED
        BY <2>1, <2>2, <2>3
<1>4. ASSUME NEW i \in DOMAIN x.body
      PROVE  x.body[i] \in IF x.trigger = "on_deleted" THEN {"notify"} ELSE Vocabulary
    BY <1>2 DEF BodyAccepted, ParseBody, BodyLegalForTrigger, TargetsRecord, Vocabulary
<1> QED
    BY <1>3, <1>4

\* The belt (parse_body at fire time): whatever is written to the rule table, by
\* the service or past it, while deliveries are in flight, only a body of the
\* vocabulary, within the cap on actions and legal for its trigger, fires.
THEOREM BeltHolds == Spec => []FiredBodiesAreLegal
BY LegalBodies, Provenance, PTL

=============================================================================
