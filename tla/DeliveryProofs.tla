--------------------------- MODULE DeliveryProofs ---------------------------
(***************************************************************************)
(* What one delivery does, proved: it commits a row for every rule it      *)
(* matched, in one step with its claim and its events (CommitIsWhole),     *)
(* which makes the engine an implementation of AutomationLedger.           *)
(***************************************************************************)
EXTENDS ProvenanceProofs

-----------------------------------------------------------------------------
(* One transaction, one envelope, all its rules.                           *)

Of(x, l) == x.rule = l.id /\ x.trigger = l.kind

\* While a delivery fires, what it matched is what it has rows for and what it
\* has still to do.
TxWhole(t) ==
    LET matched == Matching(t.loaded, t.env.type)
    IN t.pc = "firing" =>
          /\ t.todo \subseteq matched
          /\ \A l \in matched : l \in t.todo \/ \E x \in t.rows : Of(x, l)
          /\ \A x \in t.rows : \E l \in matched : Of(x, l)

WholeInv == \A w \in Workers : TxWhole(tx[w])

\* Every step of a worker leaves it a transaction of one of these kinds.
LEMMA TurnWhole ==
    ASSUME TypeInv, NEW w \in Workers, TxWhole(tx[w]), NEW l, Dispose(w, l) \/ Fire(w, l)
    PROVE  \E t : tx' = [tx EXCEPT ![w] = t] /\ TxWhole(t)
<1>1. tx[w] \in TxRecord /\ Turn(w, l) /\ l \in tx[w].todo /\ tx[w].pc = "firing"
    BY TurnType DEF Dispose, Fire
<1>2. PICK row, staged :
          /\ tx' = [tx EXCEPT ![w] = [tx[w] EXCEPT !.todo = @ \ {l}, !.rows = @ \cup {row},
                                                   !.staged = staged]]
          /\ Of(row, l)
    <2>1. CASE Dispose(w, l)
        <3> DEFINE row == RunRow(w, FreshRun, l, Disposition(l, tx[w].env, tx[w].depth), {})
        <3>1. tx' = [tx EXCEPT ![w].todo = @ \ {l}, ![w].rows = @ \cup {row}]
            BY <2>1 DEF Dispose
        <3>2. Of(row, l)
            BY DEF RunRow, Of
        <3> HIDE DEF row
        <3>3. tx' = [tx EXCEPT ![w] = [tx[w] EXCEPT !.todo = @ \ {l}, !.rows = @ \cup {row},
                                                    !.staged = tx[w].staged]]
            BY <1>1, <3>1 DEF TypeInv, TypeOK, TxRecord
        <3> QED
            BY <3>2, <3>3
    <2>2. CASE Fire(w, l)
        <3>1. PICK how \in [StagingActions(l.body) -> Accounting] :
                 tx' = [tx EXCEPT
                    ![w].todo = @ \ {l},
                    ![w].rows = @ \cup {RunRow(w, FreshRun, l, "fired",
                                              EffectIds(FreshRun, l.body, how))},
                    ![w].staged = @ \cup StagedEvents(FreshRun, l, how)
                                    \cup {FiredEvent(FreshRun)}]
            BY <2>2 DEF Fire
        <3> DEFINE row == RunRow(w, FreshRun, l, "fired", EffectIds(FreshRun, l.body, how))
        <3> DEFINE effects == StagedEvents(FreshRun, l, how)
        <3> DEFINE own == FiredEvent(FreshRun)
        <3>2. tx' = [tx EXCEPT ![w].todo = @ \ {l}, ![w].rows = @ \cup {row},
                               ![w].staged = @ \cup effects \cup {own}]
            BY <3>1
        <3>3. Of(row, l)
            BY DEF RunRow, Of
        <3> HIDE DEF row, effects, own
        <3>4. tx' = [tx EXCEPT ![w] = [tx[w] EXCEPT !.todo = @ \ {l}, !.rows = @ \cup {row},
                          !.staged = tx[w].staged \cup effects \cup {own}]]
            BY <1>1, <3>2 DEF TypeInv, TypeOK, TxRecord
        <3> QED
            BY <3>3, <3>4
    <2> QED
        BY <2>1, <2>2
<1> DEFINE t == [tx[w] EXCEPT !.todo = @ \ {l}, !.rows = @ \cup {row}, !.staged = staged]
<1>3. /\ t.pc = "firing" /\ t.env = tx[w].env /\ t.loaded = tx[w].loaded
      /\ t.todo = tx[w].todo \ {l} /\ t.rows = tx[w].rows \cup {row}
    BY <1>1 DEF TxRecord
<1>4. TxWhole(t)
    <2> HIDE DEF t
    <2> QED
        BY <1>1, <1>2, <1>3 DEF TxWhole
<1> QED
    BY <1>2, <1>4

LEMMA ResolveWhole ==
    ASSUME TypeInv, ProvInv, NEW w \in Workers, Resolve(w)
    PROVE  \E t : tx' = [tx EXCEPT ![w] = t] /\ TxWhole(t)
<1> DEFINE matched == Matching(tx[w].loaded, tx[w].env.type)
<1>1. tx[w] \in TxRecord /\ tx[w].rows = {}
    BY EnvelopeIdType DEF Resolve, ProvInv, TxProv
<1> SUFFICES ASSUME NEW parent, NEW depth,
                    tx' = [tx EXCEPT ![w] = [tx[w] EXCEPT !.pc = "firing", !.todo = matched,
                                                !.parent = parent, !.depth = depth]]
             PROVE  \E t : tx' = [tx EXCEPT ![w] = t] /\ TxWhole(t)
    <2> HIDE DEF matched
    <2>1. CASE tx' = [tx EXCEPT ![w].pc = "firing", ![w].todo = matched]
        <3>1. tx' = [tx EXCEPT ![w] = [tx[w] EXCEPT !.pc = "firing", !.todo = matched,
                          !.parent = tx[w].parent, !.depth = tx[w].depth]]
            BY <1>1, <2>1 DEF TypeInv, TypeOK, TxRecord
        <3> QED
            BY <3>1
    <2>2. ASSUME NEW p, tx' = [tx EXCEPT ![w].pc = "firing", ![w].todo = matched,
                                         ![w].parent = p.id, ![w].depth = p.depth + 1]
          PROVE  tx' = [tx EXCEPT ![w] = [tx[w] EXCEPT !.pc = "firing", !.todo = matched,
                                             !.parent = p.id, !.depth = p.depth + 1]]
        BY <1>1, <2>2 DEF TypeInv, TypeOK, TxRecord
    <2> QED
        BY <2>1, <2>2 DEF Resolve, matched
<1> DEFINE t == [tx[w] EXCEPT !.pc = "firing", !.todo = matched,
                              !.parent = parent, !.depth = depth]
<1>2. t.todo = Matching(t.loaded, t.env.type) /\ t.rows = {}
    BY <1>1 DEF TxRecord
<1>3. TxWhole(t)
    <2> HIDE DEF t
    <2> QED
        BY <1>2 DEF TxWhole
<1> QED
    BY <1>3

LEMMA OtherStepWhole ==
    ASSUME TypeInv, NEW w \in Workers,
           \/ NoRules(w) \/ AlreadyClaimed(w) \/ NotComposed(w) \/ Return(w) \/ Fail(w)
           \/ \E l \in tx[w].todo : GatewayRefused(w, l) \/ LedgerRefused(w, l)
           \/ \E e \in bus : Begin(w, e)
           \/ LoadDeletedRules(w) \/ Claim(w) \/ NoMatch(w) \/ Commit(w)
    PROVE  \E t : tx' = [tx EXCEPT ![w] = t] /\ TxWhole(t)
<1> SUFFICES \E t : tx' = [tx EXCEPT ![w] = t] /\ t.pc # "firing"
    BY DEF TxWhole
<1>1. Idle.pc # "firing" /\ Done(w).pc # "firing"
    BY DEF Idle, Done
<1>2. CASE \/ NotComposed(w) \/ Return(w) \/ Fail(w)
           \/ \E l \in tx[w].todo : GatewayRefused(w, l) \/ LedgerRefused(w, l)
    BY <1>1, <1>2 DEF NotComposed, Return, Fail, GatewayRefused, LedgerRefused, RollBack
<1>3. CASE NoRules(w) \/ AlreadyClaimed(w) \/ NoMatch(w) \/ Commit(w)
    BY <1>1, <1>3 DEF NoRules, AlreadyClaimed, NoMatch, Commit
<1>4. ASSUME NEW e \in bus, Begin(w, e)
      PROVE  \E t : tx' = [tx EXCEPT ![w] = t] /\ t.pc # "firing"
    <2> DEFINE t == [Idle EXCEPT !.pc = "loading", !.env = e,
                                 !.loaded = LoadRules("on_event")]
    <2>1. t.pc # "firing"
        BY DEF Idle
    <2> HIDE DEF t
    <2> QED
        BY <1>4, <2>1 DEF Begin, t
<1>5. CASE LoadDeletedRules(w) \/ Claim(w)
    <2> DEFINE deleted == LoadRules("on_deleted")
    <2>1. tx[w] \in TxRecord
        BY DEF TypeInv, TypeOK
    <2>2. \/ tx' = [tx EXCEPT ![w] = [tx[w] EXCEPT !.pc = "loaded", !.loaded = @ \cup deleted]]
          \/ tx' = [tx EXCEPT ![w] = [tx[w] EXCEPT !.pc = "claimed"]]
        BY <1>5 DEF LoadDeletedRules, Claim, TypeInv, TypeOK
    <2> HIDE DEF deleted
    <2>3. /\ [tx[w] EXCEPT !.pc = "loaded", !.loaded = @ \cup deleted].pc = "loaded"
          /\ [tx[w] EXCEPT !.pc = "claimed"].pc = "claimed"
        BY <2>1 DEF TxRecord
    <2> QED
        BY <2>2, <2>3
<1> QED
    BY <1>2, <1>3, <1>4, <1>5

\* Nobody but a worker changes a transaction, and no other's than its own.
LEMMA QuietNext ==
    ASSUME Administer \/ Install \/ (\E e \in Organic : Publish(e))
             \/ (\E w \in Workers, e \in bus : SkipOpaque(w, e)) \/ UNCHANGED vars
    PROVE  UNCHANGED <<tx, inbox, runs>>
BY DEF Administer, CreateRule, ReplaceRule, SetActive, DeleteRule, CorruptRule, ChangeRule,
       Install, Publish, SkipOpaque, vars, ledger

LEMMA NextWhole == TypeInv /\ ProvInv /\ WholeInv /\ [Next]_vars => WholeInv'
<1> SUFFICES ASSUME TypeInv, ProvInv, WholeInv, [Next]_vars PROVE WholeInv'
    OBVIOUS
<1>1. ASSUME NEW w \in Workers, NEW t, tx' = [tx EXCEPT ![w] = t], TxWhole(t)
      PROVE  WholeInv'
    <2>1. tx'[w] = t /\ \A v \in Workers \ {w} : tx'[v] = tx[v]
        BY <1>1 DEF TypeInv, TypeOK
    <2> QED
        BY <1>1, <2>1 DEF WholeInv, TxWhole, Matching
<1>2. ASSUME NEW w \in Workers, Step(w) \/ Fail(w) \/ \E e \in bus : Begin(w, e)
      PROVE  WholeInv'
    <2>1. TxWhole(tx[w])
        BY DEF WholeInv
    <2>2. \E t : tx' = [tx EXCEPT ![w] = t] /\ TxWhole(t)
        BY <1>2, <2>1, TurnWhole, ResolveWhole, OtherStepWhole DEF Step
    <2> QED
        BY <1>1, <2>2
<1>3. ASSUME UNCHANGED tx PROVE WholeInv'
    BY <1>3 DEF WholeInv, TxWhole, Matching
<1> QED
    BY <1>2, <1>3, QuietNext DEF Next, Deliver

LEMMA Whole == Spec => [](OnceInv /\ ProvInv /\ WholeInv)
<1>1. Init => WholeInv
    BY DEF Init, WholeInv, TxWhole, Idle
<1> QED
    BY <1>1, NextWhole, Provenance, PTL DEF Spec, OnceInv

\* The worker whose claim a step commits is the one that takes it, and its rows
\* are the ones the step adds.
LEMMA Committer ==
    ASSUME OnceInv, ProvInv, [Next]_vars, NEW w \in Workers, HoldsClaim(w),
           tx[w].env.id \in inbox' \ inbox
    PROVE  /\ NoMatch(w) \/ Commit(w)
           /\ runs' \ runs = tx[w].rows
<1>1. PICK v \in Workers : NoMatch(v) \/ Commit(v)
    <2>1. ASSUME NEW v \in Workers, Step(v) PROVE NoMatch(v) \/ Commit(v) \/ inbox' = inbox
        BY <2>1 DEF Step, LoadDeletedRules, NoRules, AlreadyClaimed, Claim, Resolve, NotComposed,
                    Dispose, Fire, GatewayRefused, LedgerRefused, Return, ledger
    <2>2. ASSUME NEW v \in Workers, Fail(v) \/ \E e \in bus : Begin(v, e)
          PROVE  inbox' = inbox
        BY <2>2 DEF Fail, Begin, ledger
    <2> QED
        BY <2>1, <2>2, QuietNext DEF Next, Deliver
<1>2. tx[v].env.id = tx[w].env.id /\ HoldsClaim(v)
    BY <1>1 DEF NoMatch, Commit, HoldsClaim
<1>3. v = w
    BY <1>2 DEF OnceInv, UniqueInv, ClaimInv
<1>4. runs' = runs \cup tx[w].rows
    BY <1>1, <1>3 DEF NoMatch, Commit, OnceInv, UniqueInv, TxOnce
<1>5. tx[w].rows \cap runs = {}
    BY DEF ProvInv, IdInv
<1> QED
    BY <1>1, <1>3, <1>4, <1>5

\* One transaction for one envelope (handle): the step that commits a claim
\* commits one row for each rule the delivery matched, and no other row.
THEOREM CommitsWhole == Spec => CommitIsWhole
<1>1. ASSUME OnceInv, ProvInv, WholeInv, [Next]_vars, NEW w \in Workers, HoldsClaim(w),
             tx[w].env.id \in inbox' \ inbox
      PROVE  LET new == runs' \ runs
             IN /\ \A x \in new : x.env = tx[w].env.id
                /\ \A l \in Matching(tx[w].loaded, tx[w].env.type) :
                      \E x \in new : x.rule = l.id /\ x.trigger = l.kind
                /\ \A x \in new : \E l \in Matching(tx[w].loaded, tx[w].env.type) :
                      x.rule = l.id /\ x.trigger = l.kind
    <2>1. /\ NoMatch(w) \/ Commit(w)
          /\ runs' \ runs = tx[w].rows
        BY <1>1, Committer
    <2>2. TxOnce(tx[w]) /\ TxWhole(tx[w])
        BY <1>1 DEF OnceInv, UniqueInv, WholeInv
    <2>3. \A x \in tx[w].rows : x.env = tx[w].env.id
        BY <2>2 DEF TxOnce
    <2>4. CASE NoMatch(w)
        BY <2>1, <2>2, <2>3, <2>4 DEF NoMatch, TxOnce
    <2>5. CASE Commit(w)
        BY <2>1, <2>2, <2>3, <2>5 DEF Commit, TxWhole, Of
    <2> QED
        BY <2>1, <2>4, <2>5
<1>2. OnceInv /\ ProvInv /\ WholeInv /\ [Next]_vars =>
          [\A w \in Workers :
              HoldsClaim(w) /\ tx[w].env.id \in inbox' \ inbox =>
                  LET new == runs' \ runs
                  IN /\ \A x \in new : x.env = tx[w].env.id
                     /\ \A l \in Matching(tx[w].loaded, tx[w].env.type) :
                           \E x \in new : x.rule = l.id /\ x.trigger = l.kind
                     /\ \A x \in new : \E l \in Matching(tx[w].loaded, tx[w].env.type) :
                           x.rule = l.id /\ x.trigger = l.kind
          ]_vars
    BY <1>1
<1> QED
    BY <1>2, Whole, PTL DEF Spec, CommitIsWhole

-----------------------------------------------------------------------------
(* The engine implements AutomationLedger.                                 *)

\* A step that neither commits nor publishes is none of the ledger's.
LEMMA StutterOrCommit ==
    ASSUME [Next]_vars
    PROVE  \/ \E w \in Workers : NoMatch(w) \/ Commit(w)
           \/ \E e \in Organic : Publish(e)
           \/ UNCHANGED <<bus, inbox, runs>>
<1>1. ASSUME NEW w \in Workers, Step(w)
      PROVE  NoMatch(w) \/ Commit(w) \/ UNCHANGED <<bus, inbox, runs>>
    BY <1>1 DEF Step, LoadDeletedRules, NoRules, AlreadyClaimed, Claim, Resolve, NotComposed,
                Dispose, Fire, GatewayRefused, LedgerRefused, Return, environment, ledger
<1>2. ASSUME NEW w \in Workers, Fail(w) \/ \E e \in bus : Deliver(w, e)
      PROVE  UNCHANGED <<bus, inbox, runs>>
    BY <1>2 DEF Fail, Deliver, Begin, SkipOpaque, environment, ledger
<1>3. ASSUME Administer \/ Install \/ UNCHANGED vars
      PROVE  UNCHANGED <<bus, inbox, runs>>
    BY <1>3 DEF Administer, CreateRule, ReplaceRule, SetActive, DeleteRule, CorruptRule,
                ChangeRule, Install, vars, ledger
<1> QED
    BY <1>1, <1>2, <1>3 DEF Next

\* A commit is the ledger's one step for the envelope.
LEMMA CommitHandles ==
    ASSUME OnceInv, ProvInv, NEW w \in Workers, NoMatch(w) \/ Commit(w)
    PROVE  Ledger!Handle(tx[w].env)
<1> DEFINE e == tx[w].env
<1> DEFINE t == tx[w]
<1>1. e \in bus /\ TxOnce(t) /\ TxProv(t) /\ e.id \notin inbox
    BY EnvelopeIdType DEF NoMatch, Commit, HoldsClaim, OnceInv, UniqueInv, ClaimInv, ProvInv
<1>2. /\ inbox' = inbox \cup {e.id}
      /\ runs' = runs \cup t.rows /\ bus' = bus \cup t.staged
    BY <1>1 DEF NoMatch, Commit, TxProv, environment
<1>3. runs' \ runs = t.rows
    BY <1>2 DEF ProvInv, IdInv
<1>4. Ledger!Rows(e, t.rows)
    <2>1. ASSUME NEW x \in t.rows
          PROVE  /\ x.env = e.id
                 /\ Ledger!Causes(e, x)
                 /\ x.status = "fired" => x.depth <= Cap
                 /\ \A y \in runs : y.id # x.id
        <3>1. x.env = e.id /\ RowInv(x) /\ \A y \in runs : y.id # x.id
            BY <1>1 DEF TxOnce, TxProv, ProvInv, IdInv
        <3>2. Ledger!Causes(e, x)
            BY <3>1 DEF RowInv, Causes, Automated, FiredRun, Ledger!Causes, Ledger!Automated
        <3> QED
            BY <3>1, <3>2 DEF RowInv
    <2>2. \A x, y \in t.rows : x.id = y.id => x = y
        BY DEF ProvInv, IdInv
    <2>3. \A x, y \in t.rows : x.rule = y.rule /\ x.trigger = y.trigger => x = y
        BY <1>1 DEF TxOnce
    <2> QED
        BY <2>1, <2>2, <2>3 DEF Ledger!Rows
<1>5. Ledger!Announces(t.rows, bus' \ bus)
    <2>1. ASSUME NEW x \in t.rows, x.status = "fired"
          PROVE  \E f \in bus' \ bus : f.id.src = "fired" /\ f.id.n = x.id
        <3>1. FiredEvent(x.id) \in bus' /\ FiredEvent(x.id).id = FiredId(x.id)
            BY <1>1, <1>2, <2>1 DEF TxProv, Announced, FiredEvent
        <3>2. FiredId(x.id).src = "fired" /\ FiredId(x.id).n = x.id /\ Automated(FiredId(x.id))
            BY DEF FiredId, Automated
        <3>3. FiredEvent(x.id) \notin bus
            BY <3>1, <3>2 DEF ProvInv, BusInv, IdInv, Traces, FiredRun
        <3> QED
            BY <3>1, <3>2, <3>3
    <2>2. ASSUME NEW f \in bus' \ bus
          PROVE  Automated(f.id) /\ \E x \in t.rows : x.status = "fired" /\ x.id = f.id.n
        BY <1>1, <1>2 DEF TxProv, Traces, FiredRun
    <2>3. ASSUME NEW x \in t.rows, NEW f \in bus' \ bus, f.id.n = x.id
          PROVE  x.status = "fired"
        BY <2>2, <2>3 DEF ProvInv, IdInv
    <2> QED
        BY <2>1, <2>2, <2>3 DEF Ledger!Announces, Ledger!Automated, Automated
<1> QED
    BY <1>1, <1>2, <1>3, <1>4, <1>5 DEF Ledger!Handle

\* The engine implements the ledger it promises: workers, transactions, rule
\* changes, redeliveries and failures hidden, each of its steps handles one
\* envelope whole, publishes one, or is no step at all.
THEOREM EngineImplementsLedger == Spec => Implements
<1>1. Init => Ledger!Init
    BY DEF Init, Ledger!Init
<1>2. OnceInv /\ ProvInv /\ [Next]_vars => [Ledger!Next]_(Ledger!vars)
    <2> SUFFICES ASSUME OnceInv, ProvInv, [Next]_vars PROVE [Ledger!Next]_(Ledger!vars)
        OBVIOUS
    <2>1. ASSUME NEW w \in Workers, NoMatch(w) \/ Commit(w) PROVE Ledger!Next
        <3>1. tx[w].env \in bus
            BY <2>1, EnvelopeIdType DEF NoMatch, Commit, OnceInv
        <3> QED
            BY <2>1, <3>1, CommitHandles DEF Ledger!Next
    <2>2. ASSUME NEW e \in Organic, Publish(e) PROVE Ledger!Next
        BY <2>2 DEF Publish, ledger, Ledger!Publish, Ledger!Next
    <2>3. CASE UNCHANGED <<bus, inbox, runs>>
        BY <2>3 DEF Ledger!vars
    <2> QED
        BY <2>1, <2>2, <2>3, StutterOrCommit
<1> QED
    BY <1>1, <1>2, Provenance, PTL DEF Spec, Implements, Ledger!Spec

=============================================================================
