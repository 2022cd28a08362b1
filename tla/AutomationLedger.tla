-------------------------- MODULE AutomationLedger --------------------------
(***************************************************************************)
(* What the reaction engine promises, with no worker, no transaction, no   *)
(* redelivery and no failure in sight: an envelope is handled at most      *)
(* once, in one step, and that step writes the rows of all the rules it    *)
(* disposes of and publishes what they staged.  ReactionEngine implements  *)
(* this module (Implements, there), so whoever reads the ledger or         *)
(* subscribes to the bus may think in these steps.                         *)
(***************************************************************************)
EXTENDS Naturals

CONSTANTS
    Organic,        \* the envelopes other modules stage on their own
    Cap,            \* the causal depth cap
    NoRun           \* a row with no parent

VARIABLES
    bus,            \* the envelopes published
    inbox,          \* the ids of the envelopes handled
    runs            \* the run ledger

vars == <<bus, inbox, runs>>

Automated(id) == id.src \in {"effect", "fired"}

\* The parent and the depth an envelope gives to every row written for it.
Causes(e, x) ==
    IF Automated(e.id)
    THEN \E p \in runs : /\ p.id = e.id.n
                         /\ p.status = "fired"
                         /\ x.parent = p.id
                         /\ x.depth = p.depth + 1
    ELSE x.parent = NoRun /\ x.depth = 0

\* The rows one handled envelope adds: one for a rule, with ids of their own,
\* and none of them fired beyond the cap.
Rows(e, new) ==
    /\ \A x \in new : /\ x.env = e.id
                      /\ Causes(e, x)
                      /\ x.status = "fired" => x.depth <= Cap
                      /\ \A y \in runs : y.id # x.id
    /\ \A x, y \in new : x.id = y.id => x = y
    /\ \A x, y \in new : x.rule = y.rule /\ x.trigger = y.trigger => x = y

\* Every fired row announces itself, and nothing is staged but by a fired row.
Announces(new, staged) ==
    /\ \A x \in new : x.status = "fired" <=>
            \E e \in staged : e.id.src = "fired" /\ e.id.n = x.id
    /\ \A e \in staged : /\ Automated(e.id)
                         /\ \E x \in new : x.status = "fired" /\ x.id = e.id.n

Init == bus = {} /\ inbox = {} /\ runs = {}

Publish(e) ==
    /\ e \in Organic \ bus
    /\ bus' = bus \cup {e}
    /\ UNCHANGED <<inbox, runs>>

Handle(e) ==
    /\ e \in bus
    /\ e.id \notin inbox
    /\ inbox' = inbox \cup {e.id}
    /\ runs \subseteq runs' /\ Rows(e, runs' \ runs)
    /\ bus \subseteq bus' /\ Announces(runs' \ runs, bus' \ bus)

Next == (\E e \in Organic : Publish(e)) \/ (\E e \in bus : Handle(e))

Spec == Init /\ [][Next]_vars
=============================================================================
