---------------------------- MODULE MCDispatcher -----------------------------
(* Small instances of Dispatcher for TLC. *)
EXTENDS DispatcherProperties, TLC

CONSTANTS t1, t2,     \* two tasks
          tui, chat   \* two clients

\* The WIP limits of WipLimits::default; u32::MAX is more than any model holds.
DefaultLimit == [c \in Column |-> IF c \in {Prioritized, Done} THEN 99 ELSE 1]

\* A task file in stage c as the pipeline leaves it: past Prioritized it has
\* a branch.
Stored(c) == [Blank EXCEPT !.stage = c, !.branch = c # Prioritized]

OnDisk(f) == [t \in Task |-> IF f[t] = Absent THEN Blank ELSE Stored(f[t])]

\* A budget with the given number of each named operation, the others 0.
Only(b) == [op \in Op |-> IF op \in DOMAIN b THEN b[op] ELSE 0]

\* A run may start from several points with operations of its own each: what
\* is spent of the budget at the start when only those of b are to happen.
Sparing(budget, b) == [op \in Op |-> budget[op] - Only(b)[op]]

-----------------------------------------------------------------------------
(* serial: two tasks near the end of the pipeline and two clients whose    *)
(* requests about a task are made in turn.                                 *)

NearEnd == {Auditing, Deploying}

BothNearEnd == {OnDisk([t \in Task |-> IF t = t1 THEN Auditing ELSE c]) : c \in NearEnd}

SerialBudget == Only([approve |-> 8, rework |-> 1, fail |-> 1, verify |-> 1,
                      misanswer |-> 1, lag |-> 1])

-----------------------------------------------------------------------------
(* racing: two clients whose requests overlap each other and the agents,   *)
(* from three points of the pipeline, each with operations of its own.     *)

AllAuditing  == {OnDisk([t \in Task |-> Auditing])}
OneDeploying == {OnDisk([t \in Task |-> IF t = t1 THEN Deploying ELSE Absent])}

RacingBudget == Only([approve |-> 2, rework |-> 1, prioritize |-> 1, create |-> 1,
                      block |-> 1, fail |-> 1, verify |-> 1, question |-> 1,
                      update |-> 1, lag |-> 1, crash |-> 1])

Verdicts == Sparing(RacingBudget, [approve |-> 2, rework |-> 1])
Requests == Sparing(RacingBudget, [approve |-> 2, rework |-> 1, prioritize |-> 1])
Tools    == Sparing(RacingBudget, [prioritize |-> 1, create |-> 1, block |-> 1])
Failing  == Sparing(RacingBudget, [create |-> 1, block |-> 1, fail |-> 1])
Crashing == Sparing(RacingBudget, [approve |-> 1, verify |-> 1, lag |-> 1, crash |-> 1])
Editing  == Sparing(RacingBudget, [approve |-> 1, question |-> 1, update |-> 1])

RacingInit ==
    \/ \E d \in BothNearEnd  : Start(d, Verdicts)
    \/ \E d \in AllAuditing  : \E spent \in {Requests, Crashing, Editing} : Start(d, spent)
    \/ \E d \in OneDeploying : Start(d, Tools) \/ Start(d, Failing)

RacingSpec == RacingInit /\ [][Next]_poolVars

-----------------------------------------------------------------------------
(* delivered (MCNotices): one task on its way from Coding to Done with a   *)
(* failed verification, a lag and a restart, and one in Auditing with a    *)
(* rework, an edit, a question and a restart.                              *)

InCoding == {OnDisk([t \in Task |-> Coding])}

DeliveryBudget == Only([approve |-> 8, rework |-> 1, verify |-> 1, update |-> 1,
                        question |-> 1, lag |-> 1, crash |-> 1])

Undisturbed == Sparing(DeliveryBudget, [approve |-> 8, verify |-> 1, lag |-> 1, crash |-> 1])
Disturbed   == Sparing(DeliveryBudget, [approve |-> 1, rework |-> 1, update |-> 1,
                                        question |-> 1, crash |-> 1])

DeliveryInit ==
    \/ \E d \in InCoding    : Start(d, Undisturbed)
    \/ \E d \in AllAuditing : Start(d, Disturbed)

-----------------------------------------------------------------------------
(* waiter: two tasks in a row and approvals.                              *)

InARow == {OnDisk([t \in Task |-> IF t = t1 THEN Auditing ELSE Reviewing])}

WaiterBudget == Only([approve |-> 3])
=============================================================================
