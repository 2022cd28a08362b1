--------------------------- MODULE LineageProofs ---------------------------
(***************************************************************************)
(* The causal chains of the two engines, proved: every row has one root,   *)
(* as many hops above it as its depth says, and the root is a row of the   *)
(* engine its envelope or record says (OneRootEach).                       *)
(*                                                                         *)
(* The chains are of any length up to the configured cap, so this is an    *)
(* induction over the hops.  It is made with sets: a set of naturals that  *)
(* has a member has a least one, by which Climb follows.  Ancestry, the    *)
(* recursive function OneRootEach walks the chains with, is first shown to *)
(* have the value its definition asks for.                                 *)
(***************************************************************************)
EXTENDS AutomationsProofs, FiniteSetTheorems, WellFoundedInduction

-----------------------------------------------------------------------------
(* Induction. *)

LEMMA Least ==
    ASSUME NEW S \in SUBSET Nat, S # {}
    PROVE  \E n \in S : \A m \in S : n <= m
<1> DEFINE less == OpToRel(<, Nat)
<1>1. IsWellFoundedOn(less, Nat)
    BY NatLessThanWellFounded, Zenon
<1>2. ASSUME NEW m \in S, NEW n \in S, <<m, n>> \notin less
      PROVE  n <= m
    BY <1>2 DEF OpToRel
<1> HIDE DEF less
<1>3. PICK n \in S : \A m \in S : <<m, n>> \notin less
    BY <1>1, WFMin
<1>4. ASSUME NEW m \in S PROVE n <= m
    BY <1>2, <1>3
<1> QED
    BY <1>4

LEMMA Climb ==
    ASSUME NEW S, 0 \in S, \A n \in Nat : n \in S => n + 1 \in S
    PROVE  Nat \subseteq S
<1> SUFFICES ASSUME Nat \ S # {} PROVE FALSE
    OBVIOUS
<1>1. PICK n \in Nat \ S : \A m \in Nat \ S : n <= m
    BY Least
<1>2. n # 0 /\ n - 1 \in Nat /\ n - 1 \in S
    BY <1>1
<1> QED
    BY <1>1, <1>2

-----------------------------------------------------------------------------
(* The function that walks the chains. *)

\* Its value for n hops, from that for n - 1.
Level(n, f) == [x \in runs |-> IF n = 0 THEN {x} ELSE Upward(x, f[n - 1])]

Levels(k, f) == f = [n \in 0..k |-> Level(n, f)]

LEMMA LevelsExist ==
    ASSUME NEW k \in Nat
    PROVE  \E f : Levels(k, f)
<1> DEFINE S == {n \in Nat : \E f : Levels(n, f)}
<1>1. 0 \in S
    <2> DEFINE f == [n \in 0..0 |-> [x \in runs |-> {x}]]
    <2>1. ASSUME NEW n \in 0..0 PROVE Level(n, f) = [x \in runs |-> {x}]
        BY DEF Level
    <2>2. Levels(0, f)
        BY <2>1 DEF Levels
    <2> QED
        BY <2>2
<1>2. ASSUME NEW n \in Nat, n \in S PROVE n + 1 \in S
    <2>1. PICK f : Levels(n, f)
        BY <1>2
    <2> DEFINE g == [m \in 0..(n + 1) |-> IF m <= n THEN f[m] ELSE Level(m, f)]
    <2>2. ASSUME NEW m \in 0..(n + 1) PROVE g[m] = Level(m, f)
        BY <2>1 DEF Levels
    <2>3. ASSUME NEW m \in 0..(n + 1) PROVE Level(m, g) = Level(m, f)
        <3>1. CASE m = 0
            BY <3>1 DEF Level
        <3>2. CASE m # 0
            <4>1. m - 1 \in 0..n /\ m - 1 \in 0..(n + 1) /\ m - 1 <= n
                BY <3>2
            <4>2. g[m - 1] = f[m - 1]
                BY <4>1
            <4> HIDE DEF g
            <4> QED
                BY <3>2, <4>2 DEF Level
        <3> QED
            BY <3>1, <3>2
    <2>4. g = [m \in 0..(n + 1) |-> g[m]]
        OBVIOUS
    <2> HIDE DEF g
    <2>5. Levels(n + 1, g)
        BY <2>2, <2>3, <2>4 DEF Levels
    <2> QED
        BY <2>5
<1> HIDE DEF S
<1>3. Nat \subseteq S
    BY <1>1, <1>2, Climb
<1> QED
    BY <1>3 DEF S

LEMMA AncestryUnfolds ==
    ASSUME NEW n \in 0..(Cap + 2), NEW x \in runs
    PROVE  Ancestry[n][x] = IF n = 0 THEN {x} ELSE Upward(x, Ancestry[n - 1])
<1>1. Cap + 2 \in Nat
    BY CapAssumption DEF Cap
<1>2. \E f : f = [m \in 0..(Cap + 2) |->
                     [y \in runs |-> IF m = 0 THEN {y} ELSE Upward(y, f[m - 1])]]
    BY <1>1, LevelsExist DEF Levels, Level
<1>3. Ancestry = [m \in 0..(Cap + 2) |->
                     [y \in runs |-> IF m = 0 THEN {y} ELSE Upward(y, Ancestry[m - 1])]]
    BY <1>2 DEF Ancestry
<1>4. Ancestry = [m \in 0..(Cap + 2) |-> Level(m, Ancestry)]
    BY <1>3 DEF Level
<1>5. Ancestry[n] = Level(n, Ancestry)
    BY <1>4
<1> QED
    BY <1>5 DEF Level

-----------------------------------------------------------------------------
(* What it finds. *)

\* A row has the committed run above it that its depth counts, or is a root.
LEMMA OneAbove ==
    ASSUME OnceInv, ProvInv, NEW x \in runs
    PROVE  /\ x.depth \in Nat
           /\ \/ x.parent = NoRun /\ x.depth = 0 /\ ~Automated(x.env)
              \/ /\ x.parent # NoRun
                 /\ \E p \in runs : Above(x) = {p} /\ x.depth = p.depth + 1
<1>1. RowInv(x) /\ x \in Run
    BY DEF OnceInv, TypeInv, TypeOK, ProvInv
<1>2. CASE Automated(x.env)
    <2>1. PICK p \in runs : p.id = x.parent /\ x.depth = p.depth + 1
        BY <1>1, <1>2 DEF RowInv, Causes, FiredRun
    <2>2. Above(x) = {p}
        BY <2>1 DEF Above, ProvInv, IdInv
    <2>3. p.id # NoRun
        BY RunIdAssumption DEF OnceInv, TypeInv, TypeOK, Run
    <2> QED
        BY <1>1, <2>1, <2>2, <2>3 DEF Run
<1>3. CASE ~Automated(x.env)
    BY <1>1, <1>3 DEF RowInv, Causes, Run
<1> QED
    BY <1>2, <1>3

\* A line of rows that ends in x: its length is x's depth, and one is a root.
Line(x, line) ==
    /\ line \subseteq runs /\ x \in line
    /\ \A y \in line : y.depth <= x.depth
    /\ IsFiniteSet(line) /\ Cardinality(line) = x.depth + 1
    /\ \E root \in runs : /\ {y \in line : y.parent = NoRun} = {root}
                          /\ ~Automated(root.env)

\* A root is a line.
LEMMA RootLine ==
    ASSUME OnceInv, ProvInv, NEW x \in runs, x.parent = NoRun
    PROVE  Line(x, {x})
<1>1. x.depth = 0 /\ ~Automated(x.env)
    BY OneAbove
<1>2. IsFiniteSet({x}) /\ Cardinality({x}) = 1
    BY FS_Singleton
<1>3. {y \in {x} : y.parent = NoRun} = {x}
    OBVIOUS
<1> QED
    BY <1>1, <1>2, <1>3 DEF Line

\* One hop more.
LEMMA LongerLine ==
    ASSUME OnceInv, ProvInv, NEW x \in runs, NEW p \in runs, NEW line, Line(p, line),
           x.parent # NoRun, x.depth = p.depth + 1
    PROVE  Line(x, {x} \cup line)
<1>1. x.depth \in Nat /\ \A y \in line : y.depth \in Nat /\ y.depth < x.depth
    BY OneAbove DEF Line
<1>2. x \notin line
    BY <1>1
<1>3. IsFiniteSet(line \cup {x}) /\ Cardinality(line \cup {x}) = Cardinality(line) + 1
    BY <1>2, FS_AddElement DEF Line
<1>4. {x} \cup line = line \cup {x}
    OBVIOUS
<1>5. {y \in {x} \cup line : y.parent = NoRun} = {y \in line : y.parent = NoRun}
    OBVIOUS
<1> QED
    BY <1>1, <1>3, <1>4, <1>5 DEF Line

\* As many hops as the depth of a row are enough to walk its line.
LEMMA AncestryIsLine ==
    ASSUME OnceInv, ProvInv, NEW x \in runs
    PROVE  Line(x, Ancestry[Cap + 2][x])
<1> DEFINE Walked(n) == \A y \in runs : y.depth <= n => Line(y, Ancestry[n][y])
<1> DEFINE S == {n \in Nat : n <= Cap + 2 => Walked(n)}
<1>1. Cap + 2 \in Nat
    BY CapAssumption DEF Cap
<1>2. Walked(0)
    <2> SUFFICES ASSUME NEW y \in runs, y.depth <= 0 PROVE Line(y, Ancestry[0][y])
        OBVIOUS
    <2>1. y.parent = NoRun
        BY OneAbove
    <2>2. 0 \in 0..(Cap + 2)
        BY <1>1
    <2>3. Ancestry[0][y] = {y}
        BY <2>2, AncestryUnfolds
    <2> QED
        BY <2>1, <2>3, RootLine
<1>3. ASSUME NEW n \in Nat, n + 1 <= Cap + 2, Walked(n) PROVE Walked(n + 1)
    <2> SUFFICES ASSUME NEW y \in runs, y.depth <= n + 1 PROVE Line(y, Ancestry[n + 1][y])
        OBVIOUS
    <2>1. Ancestry[n + 1][y] = Upward(y, Ancestry[n])
        <3>1. PICK m \in 0..(Cap + 2) : m = n + 1
            BY <1>1, <1>3
        <3>2. Ancestry[m][y] = IF m = 0 THEN {y} ELSE Upward(y, Ancestry[m - 1])
            BY AncestryUnfolds
        <3>3. m # 0 /\ m - 1 = n
            BY <3>1
        <3> QED
            BY <3>1, <3>2, <3>3
    <2>2. CASE y.parent = NoRun
        BY <2>1, <2>2, RootLine DEF Upward
    <2>3. CASE y.parent # NoRun
        <3>1. PICK p \in runs : Above(y) = {p} /\ y.depth = p.depth + 1
            BY <2>3, OneAbove
        <3>2. p.depth \in Nat /\ p.depth <= n
            BY <3>1, OneAbove
        <3>3. Line(p, Ancestry[n][p])
            BY <1>3, <3>2
        <3>4. Upward(y, Ancestry[n]) = {y} \cup Ancestry[n][p]
            BY <2>3, <3>1 DEF Upward
        <3> QED
            BY <2>1, <2>3, <3>1, <3>3, <3>4, LongerLine
    <2> QED
        BY <2>2, <2>3
<1> HIDE DEF Walked
<1>4. 0 \in S /\ \A n \in Nat : n \in S => n + 1 \in S
    BY <1>1, <1>2, <1>3
<1> HIDE DEF S
<1>5. Cap + 2 \in S
    BY <1>1, <1>4, Climb
<1>6. Walked(Cap + 2)
    BY <1>1, <1>5 DEF S
<1>7. x.depth <= Cap + 2
    <2>1. x.depth <= Cap + 1 /\ x.depth \in Nat /\ Cap \in Int
        BY CapAssumption, RowDepthBounded, OneAbove DEF OnceInv, Cap
    <2> QED
        BY <2>1
<1> QED
    BY <1>6, <1>7 DEF Walked

-----------------------------------------------------------------------------
(* Which engine a row is of.                                               *)

\* A row of the clock is one for a due record, a delivery is of an envelope
\* that can be claimed and has loaded no rule of the clock.
SideInv ==
    /\ \A x \in runs : x.env.src # "opaque" /\ (x.trigger = "on_time" <=> x.env.src = "due")
    /\ \A w \in Workers : /\ tx[w].pc # "idle" => tx[w].env.id.src # "opaque"
                          /\ \A l \in tx[w].loaded : l.kind # "on_time"

\* What a delivery commits is no row of the clock.
LEMMA CommitSides ==
    ASSUME EngineInv, SideInv, NEW w \in Workers, Commit(w), NEW x \in tx[w].rows
    PROVE  x.env.src # "opaque" /\ x.trigger # "on_time" /\ x.env.src # "due"
<1>1. /\ tx[w].pc = "firing" /\ tx[w].env \in bus /\ x.env = tx[w].env.id
    BY EnvelopeIdType DEF Commit, EngineInv, OnceInv, UniqueInv, TxOnce
<1>2. tx[w].env.id.src # "due"
    BY <1>1, OrganicAssumption DEF EngineInv, ProvInv, BusInv, Automated
<1>3. \E l \in tx[w].loaded : x.trigger = l.kind
    BY <1>1 DEF EngineInv, WholeInv, TxWhole, Matching, Of
<1> QED
    BY <1>1, <1>2, <1>3 DEF SideInv

\* Only a delivery under way is done.
LEMMA StepEnds ==
    ASSUME TypeInv, NEW w \in Workers, Step(w) \/ Fail(w) \/ \E e \in bus : Begin(w, e),
           tx[w].pc = "idle"
    PROVE  tx'[w].pc # "done"
<1>1. ~Step(w) /\ ~Fail(w)
    BY DEF Step, LoadDeletedRules, NoRules, AlreadyClaimed, Claim, NoMatch, Resolve,
           NotComposed, Dispose, Fire, Turn, GatewayRefused, LedgerRefused, Commit,
           Return, Fail
<1>2. PICK e \in bus : Begin(w, e)
    BY <1>1
<1>3. tx' = [tx EXCEPT ![w] = [Idle EXCEPT !.pc = "loading", !.env = e,
                                           !.loaded = LoadRules("on_event")]]
    BY <1>2 DEF Begin
<1> DEFINE t == [Idle EXCEPT !.pc = "loading", !.env = e, !.loaded = LoadRules("on_event")]
<1>4. t.pc = "loading"
    BY DEF Idle
<1> HIDE DEF t
<1> QED
    BY <1>3, <1>4 DEF t, TypeInv, TypeOK

LEMMA StepSides ==
    ASSUME EngineInv, SideInv, NEW w \in Workers,
           Step(w) \/ Fail(w) \/ \E e \in bus : Begin(w, e)
    PROVE  \A v \in Workers : /\ tx'[v].pc # "idle" => tx'[v].env.id.src # "opaque"
                              /\ \A l \in tx'[v].loaded : l.kind # "on_time"
<1> DEFINE Aside(t) == /\ t.pc # "idle" => t.env.id.src # "opaque"
                       /\ \A l \in t.loaded : l.kind # "on_time"
<1>1. Aside(tx[w]) /\ TypeInv
    BY DEF SideInv, EngineInv, OnceInv
<1>2. ASSUME Ends(w) PROVE Aside(tx'[w])
    <2>1. CASE tx'[w] = Idle
        BY <2>1 DEF Idle
    <2>2. CASE tx'[w] = Done(w)
        <3>1. Done(w).env = tx[w].env /\ Done(w).loaded = {} /\ Done(w).pc = "done"
            BY DEF Done, Idle
        <3>2. tx[w].pc = "idle" => tx'[w].pc # "done"
            BY <1>1, StepEnds
        <3> QED
            BY <1>1, <2>2, <3>1, <3>2
    <2> QED
        BY <1>2, <2>1, <2>2 DEF Ends
<1>3. ASSUME Begins(w) PROVE Aside(tx'[w])
    BY <1>3, LoadRulesOnce DEF Begins
<1>4. ASSUME Loads(w) PROVE Aside(tx'[w])
    BY <1>1, <1>4, LoadRulesOnce DEF Loads
<1>5. ASSUME Claimed(w) \/ Resolves(w) \/ \E l \in tx[w].todo : Turns(w, l) PROVE Aside(tx'[w])
    BY <1>1, <1>5 DEF Claimed, Resolves, Turns, Same
<1>6. Aside(tx'[w]) /\ \A v \in Workers \ {w} : tx'[v] = tx[v]
    BY <1>1, <1>2, <1>3, <1>4, <1>5, StepShape
<1> QED
    BY <1>6 DEF SideInv

LEMMA NextSides == EngineInv /\ SideInv /\ [Next]_vars => SideInv'
<1> SUFFICES ASSUME EngineInv, SideInv, [Next]_vars PROVE SideInv'
    OBVIOUS
<1>1. \A x \in runs' :
         x.env.src # "opaque" /\ (x.trigger = "on_time" <=> x.env.src = "due")
    <2>1. ASSUME NEW w \in Workers, NoMatch(w) \/ Commit(w)
          PROVE  runs' = runs \/ (Commit(w) /\ runs' = runs \cup tx[w].rows)
        BY <2>1 DEF NoMatch, Commit
    <2>2. ASSUME NEW e \in Organic, Publish(e) PROVE runs' = runs
        BY <2>2 DEF Publish, ledger
    <2> QED
        BY <2>1, <2>2, StutterOrCommit, CommitSides DEF SideInv
<1>2. \A w \in Workers : /\ tx'[w].pc # "idle" => tx'[w].env.id.src # "opaque"
                         /\ \A l \in tx'[w].loaded : l.kind # "on_time"
    <2>1. CASE UNCHANGED tx
        BY <2>1 DEF SideInv
    <2> QED
        BY <2>1, StepSides, QuietNext DEF Next, Deliver
<1> QED
    BY <1>1, <1>2 DEF SideInv

LEMMA ClockSides ==
    EngineInv /\ TickInv /\ SideInv /\ [ClockNext]_allVars => SideInv'
<1> SUFFICES ASSUME EngineInv, TickInv, SideInv, [ClockNext]_allVars PROVE SideInv'
    OBVIOUS
<1>1. ASSUME [Next]_vars PROVE SideInv'
    BY <1>1, NextSides
<1>2. ASSUME NEW l \in ticks, NEW d \in Dues, RefuseDue(l, d) \/ FireDue(l, d)
      PROVE  SideInv'
    <2>1. PICK row, events : DueCommits(l, d, row, events)
        BY <1>2, DueShape
    <2>2. d.id.src = "due"
        BY DueAssumption DEF DueIds
    <2> QED
        BY <2>1, <2>2 DEF DueCommits, SideInv
<1>3. CASE StartTick \/ EndTicks \/ UNCHANGED allVars
    BY <1>1, <1>3 DEF StartTick, EndTicks, allVars
<1> QED
    BY <1>1, <1>2, <1>3 DEF ClockNext, Clock

LEMMA RootsHaveSides ==
    ASSUME EngineInv, SideInv, NEW x \in runs, ~Automated(x.env)
    PROVE  /\ x.env.src \in {"organic", "due"}
           /\ (x.trigger = "on_time") = (x.env.src = "due")
<1>1. x.env \in EnvelopeIds
    BY DEF EngineInv, OnceInv, TypeInv, TypeOK, Run
<1> QED
    BY <1>1 DEF SideInv, EnvelopeIds, Automated

LEMMA RootsAreOne == EngineInv /\ SideInv => OneRootEach
<1> SUFFICES ASSUME EngineInv, SideInv, NEW x \in runs
             PROVE  LET line == Ancestry[Cap + 2][x]
                        roots == {y \in line : y.parent = NoRun}
                    IN /\ Cardinality(roots) = 1
                       /\ Cardinality(line) = x.depth + 1
                       /\ \A y \in roots :
                             /\ y.env.src \in {"organic", "due"}
                             /\ (y.trigger = "on_time") = (y.env.src = "due")
    BY DEF OneRootEach
<1> DEFINE line == Ancestry[Cap + 2][x]
<1>1. Line(x, line)
    BY AncestryIsLine DEF EngineInv
<1> HIDE DEF line
<1>2. PICK root \in runs : /\ {y \in line : y.parent = NoRun} = {root}
                           /\ ~Automated(root.env)
    BY <1>1 DEF Line
<1>3. Cardinality({root}) = 1
    BY FS_Singleton
<1>4. /\ root.env.src \in {"organic", "due"}
      /\ (root.trigger = "on_time") = (root.env.src = "due")
    BY <1>2, RootsHaveSides
<1> QED
    BY <1>1, <1>2, <1>3, <1>4 DEF Line, line

\* The causal tree of the two engines (record_run of reaction_engine.rs and of
\* scheduler_service.rs): whatever fires, fails and is redelivered, however
\* often a rule is moved between the clock and events, and for every cap, the
\* walk up from a row passes as many rows as its depth says, ends in one root,
\* and the root is the scheduler's exactly when it is for a due record.
THEOREM RootedChains == ClockSpec => []OneRootEach
<1>1. ClockInit => SideInv
    BY DEF ClockInit, Init, SideInv, Idle
<1>2. ClockInit => EngineInv /\ TickInv
    BY InitEngines
<1> QED
    BY <1>1, <1>2, ClockEngine, ClockSides, RootsAreOne, PTL DEF ClockSpec

=============================================================================
