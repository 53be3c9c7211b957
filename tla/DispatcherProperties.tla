------------------------ MODULE DispatcherProperties -------------------------
(***************************************************************************)
(* What the dispatcher must and must not do.  Which of these hold, under   *)
(* which operations, is what the runs of MCDispatcher and MCNotices settle *)
(* (Notices says what a human learns of).                                  *)
(***************************************************************************)
EXTENDS Dispatcher

\* Every variable has the shape the code gives it.  (What is in the queue is
\* what ApprovalReachable and BlockedAnswerable of Notices are about.)
TypeOK ==
    /\ board \in Board
    /\ disk \in [Task -> TaskState]
    /\ reviews \in Seq(ReviewFile)
    /\ permit \in [Role -> BOOLEAN]
    /\ blocked \in [Role -> BOOLEAN]
    /\ unblocking \in [Role -> Nat]
    /\ agent \in [Role -> AgentState]
    /\ waiting \subseteq Column
    /\ bus \in Seq(Event)
    /\ subscribed \in BOOLEAN
    /\ calls \in [Caller -> Call]
    /\ used \in [Op -> Nat]

-----------------------------------------------------------------------------
(* Requests in turn: any number of clients, but while a request about a    *)
(* task is in progress nobody else asks for anything about that task.  The *)
(* code does not see to it; for a single client it is so.                  *)

Separate ==
    \A c, d \in Caller :
        calls[c].step # "none" /\ calls[d].step # "none" /\ calls[c].task = calls[d].task
            => c = d

AnswersSeparate ==
    \A c, d \in Caller : \A i \in DOMAIN queue :
        Answer(c, i) /\ calls[d].step # "none" => calls[d].task # queue[i].what.task

InTurnNext == Next /\ Separate' /\ AnswersSeparate

InTurnSpec == Init /\ [][InTurnNext]_poolVars

-----------------------------------------------------------------------------
(* Safety                                                                  *)

\* A buffer never holds more tasks than its WIP limit, although try_advance
\* counts under one lock and moves under another, and approvals, reworks,
\* blocks and late results move tasks meanwhile.
BufferWithinLimit == \A c \in Buffer : Count(board, c) <= Limit[c]

\* No two agents hold the same task: the worktree is made per task, so two
\* agents on one task would write to one checkout.
ExclusiveTask ==
    \A r, s \in Role : r # s /\ agent[r].task = agent[s].task => agent[r].task = NoTask

InFlight(t) == \E c \in Caller : calls[c].task = t

ApprovalQueued(t) ==
    \E i \in DOMAIN queue : queue[i].what.kind = "approval" /\ queue[i].what.task = t

\* The stage on disk is never to the right of the task's column (unless a
\* verdict on it is still being written): a restart may repeat work but
\* carries no task past a buffer nobody approved it out of.
DiskNotAhead ==
    \A t \in Task : ~InFlight(t) => disk[t].stage <= board.column[t]

\* The tasks of a column stand in one order, by priority, so that the first
\* ready one is the most urgent: the lists are sorted where a task enters or
\* is given a priority, and agents, reworks and blocks change both.
ColumnsSorted ==
    \A t, u \in Task : t # u /\ board.column[t] = board.column[u] /\ board.column[t] # Absent =>
        /\ <<t, u>> \in board.ahead <=> <<u, t>> \notin board.ahead
        /\ <<t, u>> \in board.ahead => board.tasks[t].priority <= board.tasks[u].priority

\* A task leaves a buffer, while the daemon runs, only in the step of a
\* request a human made about it.
HumanGate ==
    [][\A t \in Task :
          /\ board.column[t] \in Buffer
          /\ board'.column[t] # board.column[t]
          => \E c \in Caller : calls[c].task = t /\ calls[c].step \in {"approve", "rework"}]_poolVars

-----------------------------------------------------------------------------
(* Refinement: the board's columns behave as Pipeline says.                *)

Abstract == INSTANCE Pipeline WITH column <- board.column

FollowsPipeline == Abstract!Spec

-----------------------------------------------------------------------------
(* Liveness                                                                *)

\* Tokio runs every task that can run; nothing obliges a human to act.
SystemFairness ==
    /\ \A r \in Role : WF_poolVars(AgentStep(r)) /\ WF_poolVars(Unblock(r))
    /\ WF_poolVars(Subscribe)
    /\ WF_poolVars(RunLoop)
    /\ \A c \in Caller : WF_poolVars(CallStep(c))

\* A human who deals with what the queue shows: approves what waits for
\* approval, answers what is asked.
ApproveShown == \E c \in Caller, t \in Task : ApprovalQueued(t) /\ Approve(c, t)
AnswerShown  == \E c \in Caller : \E i \in DOMAIN queue : Answer(c, i)

HumanFairness == WF_poolVars(ApproveShown) /\ WF_poolVars(AnswerShown)

FairSpec == Spec /\ SystemFairness

\* An agent recorded as waiting for a full column is taken off the list once
\* the column has room.
WaiterResumes ==
    \A c \in Column : c \in waiting /\ Count(board, c) < Limit[c] ~> c \notin waiting
                                                        \/ Count(board, c) >= Limit[c]
=============================================================================
