----------------------------- MODULE DueLedger -----------------------------
(***************************************************************************)
(* What the scheduler promises, with no ticker, no cut at an await and no  *)
(* crash in sight: a generation of a record is disposed of at most once,   *)
(* in one step that claims it, writes its row and announces it, for a rule *)
(* that was live and scheduled when a tick loaded it, with the body it had *)
(* then, and for a record that was due at that moment when the gateway was *)
(* asked.  Scheduler implements this module (ImplementsDues, there);       *)
(* Automations takes its Dispose for the whole of a due transaction.       *)
(***************************************************************************)
CONSTANTS
    NoRule,         \* no row in the rule table
    Refusing        \* <<rule, record>>: the watched module refuses the action

VARIABLES
    rules,          \* the rule table
    field, due,     \* the watched fields, and the records whose time has passed
    loaded,         \* the rules that open ticks have loaded
    found,          \* <<rule, key>>: what they found due, and have not fired
    inbox,          \* the keys disposed of
    runs,           \* the run ledger
    outbox          \* the runs announced

world == <<rules, field, due>>
ledger == <<inbox, runs, outbox>>
vars == <<world, loaded, found, ledger>>

\* A loaded rule is what the table has of a live, active on_time rule.
Scheduled(l) ==
    LET row == rules[l.id]
    IN /\ row # NoRule /\ ~row.deleted /\ row.active /\ row.kind = "on_time"
       /\ l = [id |-> l.id, watches |-> row.watches, delay |-> row.delay, body |-> row.body]

DueFor(l, k) == k.rec \in due /\ k = [rule |-> l.id, rec |-> k.rec, gen |-> field[k.rec]]

Init == loaded = {} /\ found = {} /\ inbox = {} /\ runs = {} /\ outbox = {}

\* The host, the records, and whoever else writes what ticks read.
Elsewhere == UNCHANGED <<loaded, found, ledger>>

Load ==
    /\ loaded \subseteq loaded'
    /\ \A l \in loaded' \ loaded : Scheduled(l)
    /\ UNCHANGED <<world, found, ledger>>

Find ==
    /\ found \subseteq found'
    /\ \A p \in found' \ found : p[1] \in loaded /\ p[1].watches /\ DueFor(p[1], p[2])
    /\ UNCHANGED <<world, loaded, ledger>>

Forget == loaded' \subseteq loaded /\ found' \subseteq found

Dispose(l, x) ==
    /\ l \in loaded /\ <<l, x.key>> \in found
    /\ x.key \notin inbox
    /\ \A y \in runs : y.id # x.id
    /\ \/ x.status = "fired" /\ l.body = "legal" /\ <<l.id, x.key.rec>> \notin Refusing
       \/ x.status = "refused_body" /\ l.body = "refused"
    /\ inbox' = inbox \cup {x.key}
    /\ runs' = runs \cup {x}
    /\ outbox' = outbox \cup {y.id : y \in {z \in {x} : z.status = "fired"}}
    /\ Forget
    /\ UNCHANGED world

Next ==
    \/ Elsewhere
    \/ Load
    \/ Find
    \/ Forget /\ UNCHANGED <<world, ledger>>
    \/ \E l \in loaded, x \in runs' \ runs : Dispose(l, x)

Spec == Init /\ [][Next]_vars
=============================================================================
