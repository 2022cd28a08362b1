---------------------------- MODULE MCScheduler ----------------------------
(* Small instances of Scheduler for TLC. *)
EXTENDS Scheduler

MCRank == [r \in RuleIds |-> IF r = "ra" THEN 1 ELSE 2]

OnTime(delay) == [kind |-> "on_time", watches |-> TRUE, delay |-> delay,
                  body |-> "legal", active |-> TRUE, deleted |-> FALSE]
OnEvent == [OnTime(None) EXCEPT !.kind = "on_event", !.watches = FALSE]

\* Both rules stand: one polls at the floor, the other slower.
TwoTimeRules == [r \in RuleIds |-> IF r = "ra" THEN OnTime(None) ELSE OnTime(50)]
\* What a hand may leave: a body that is refused, or one whose refusal cannot
\* be recorded, or no time field.
NoTimeField == [body : {"legal"}, watches : {FALSE}]
Spoils == NoTimeField \cup [body : {"refused", "unrecordable"}, watches : {TRUE}]

NoDrafts == [r \in RuleIds |-> {}]

\* One rule there from the start, moved between two delays and the event side;
\* the other is created meanwhile, with a delay beyond the ceiling.
SlowRule == [r \in RuleIds |-> IF r = "ra" THEN OnTime(50) ELSE NoRule]
SlowDrafts == [r \in RuleIds |-> IF r = "ra" THEN {OnTime(5), OnEvent} ELSE {OnTime(9000)}]

\* The other rule comes and goes with the shorter delay.
FastDrafts == [r \in RuleIds |-> IF r = "ra" THEN {} ELSE {OnTime(5)}]

\* The watched module refuses what one rule asks of any record.
Refuses_ra == {"ra"} \X Records
Refuses_rb == {"rb"} \X Records
=============================================================================
