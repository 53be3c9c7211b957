------------------------------- MODULE AgentWork -------------------------------
(***************************************************************************)
(* Agents at work on a repository: the tool loop of CodingLoop running in  *)
(* the checkout GitRepo gives it.  The pipeline between two runs, with its *)
(* reviews, is Dispatcher's; here it ends in Done for a task whose last    *)
(* run succeeded.                                                          *)
(***************************************************************************)
EXTENDS GitRepo, CodingLoop

CONSTANTS
    MaxRuns,      \* bounds the runs of a task's agents
    MaxAnswers,   \* bounds the answers with tool calls, of all runs
    MaxRestarts,  \* bounds the restarts of the daemon
    MaxUser       \* bounds what the user does to the repository

ASSUME WorkAssumption ==
    /\ Session = Task
    /\ {MaxRuns, MaxAnswers, MaxRestarts, MaxUser} \subseteq Nat

VARIABLES
    runs, answers, restarts, user,   \* what is left of each bound
    outages                          \* may the model server be down?

workVars == <<repoVars, loop, runs, answers, restarts, user, outages>>
bounds == <<runs, answers, restarts, user, outages>>

\* agent_loop, for a task that was signalled: its checkout, then its run.
StartRun(t) ==
    /\ ~Running(t) /\ t \notin done
    /\ runs[t] > 0 /\ runs' = [runs EXCEPT ![t] = @ - 1]
    /\ SetupWorktree(t)
    /\ BeginRun(t)
    /\ UNCHANGED <<head, tree, conflict, remote, strategy, done, reached, result, merge, landed,
                   made, answers, restarts, user, outages>>

\* The model, and the server it runs on.
Converse(t) ==
    /\ \/ /\ AnswersText(t) \/ Refuses(t) \/ ServerAwaited(t) \/ (outages /\ Unreachable(t))
          /\ UNCHANGED answers
       \/ /\ answers > 0 /\ answers' = answers - 1
          /\ AnswersCalls(t)
    /\ UNCHANGED <<repoVars, runs, restarts, user, outages>>

\* execute_tool: a command may commit what the agent has done, ...
ToolCommits(t) ==
    /\ At(t, "tools")
    /\ AgentCommits(t)
    /\ Reply(t)
    /\ UNCHANGED <<head, conflict, remote, strategy, place, done, reached, result, merge,
                   landed, bounds>>

\* ... and all other calls leave the repository alone.
ToolCall(t) ==
    /\ At(t, "tools")
    /\ Reply(t)
    /\ UNCHANGED <<repoVars, bounds>>

\* The last run has been approved into Done.
Finish(t) ==
    /\ At(t, "done") /\ t \notin done
    /\ done' = done \cup {t} /\ reached' = reached \cup {t}
    /\ UNCHANGED <<branch, head, tree, conflict, remote, strategy, place, result, merge, landed,
                   made, loop, bounds>>

Merges == MergeStep /\ UNCHANGED <<loop, bounds>>

User ==
    /\ user > 0 /\ user' = user - 1
    /\ \/ UserCommits /\ UNCHANGED <<head, conflict>>
       \/ UserSwitches /\ UNCHANGED <<branch, conflict, made>>
       \/ UserAborts /\ UNCHANGED <<branch, head, made>>
    /\ UNCHANGED <<remote, strategy, place, done, reached, result, merge, landed, loop, runs,
                   answers, restarts, outages>>

\* The daemon is killed: runs and the merge in progress end.  Worktrees stay.
\* That a task is Done is on no file, so it is back before its last run.
Restart ==
    /\ restarts > 0 /\ restarts' = restarts - 1
    /\ loop' = [t \in Task |-> Idle]
    /\ merge' = NoMerge
    /\ done' = {}
    /\ result' = [t \in Task |-> "open"]
    /\ UNCHANGED <<branch, head, tree, conflict, remote, strategy, place, reached, landed, made,
                   runs, answers, user, outages>>

AgentStep(t) == Converse(t) \/ ToolCommits(t) \/ ToolCall(t)

Next ==
    \/ \E t \in Task : StartRun(t) \/ AgentStep(t) \/ Finish(t)
    \/ Merges \/ User \/ Restart

\* So much of each bound is left at the start.
Opening(r, a, n, u, o) ==
    /\ RepoInit
    /\ loop = [t \in Task |-> Idle]
    /\ runs = r /\ answers = a /\ restarts = n /\ user = u /\ outages = o

Init == Opening([t \in Task |-> MaxRuns], MaxAnswers, MaxRestarts, MaxUser, TRUE)

\* Requests are answered or time out, and commands end.
Fairness == \A t \in Task : WF_workVars(AgentStep(t))

Spec == Init /\ [][Next]_workVars /\ Fairness

-----------------------------------------------------------------------------
(* Properties                                                              *)

WorkTypeOK ==
    /\ RepoTypeOK /\ LoopTypeOK
    /\ runs \in [Task -> 0 .. MaxRuns] /\ answers \in 0 .. MaxAnswers
    /\ restarts \in 0 .. MaxRestarts /\ user \in 0 .. MaxUser
    /\ outages \in BOOLEAN

\* A run ends, in an answer or an error: whatever the model answers and however
\* often the server is gone, rounds and retries are used up (run, post_with_retry).
RunsEnd == \A t \in Task : Running(t) ~> ~Running(t)
================================================================================
