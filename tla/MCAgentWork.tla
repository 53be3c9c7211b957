------------------------------ MODULE MCAgentWork ------------------------------
(* Two tasks on one repository, or a single one that is long at work.        *)
EXTENDS AgentWork

CONSTANTS t1, t2

AllStrategies == {"ff-only", "gitzi-branch", "merge-commit", "pull-request", "push-to-remote"}

\* Two tasks and a user, with few tool calls, where merges meet in a branch; one
\* task for two runs and a restart; a long run.
Both == [t \in Task |-> 1]
Once(n) == [t \in Task |-> IF t = t1 THEN n ELSE 0]
ScenarioInit ==
    \/ Opening(Both, 2, 0, 1, FALSE)
          /\ ~Exists(Gitzi) /\ strategy \in {"ff-only", "merge-commit"}
    \/ Opening(Once(2), 2, 1, 1, FALSE)
    \/ Opening(Once(1), 3, 0, 0, TRUE)
ScenarioSpec == ScenarioInit /\ [][Next]_workVars /\ Fairness

FfSpec == Init /\ [][Next]_workVars

OnlyFf == {"ff-only"}
==============================================================================
