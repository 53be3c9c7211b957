------------------------------ MODULE AgentPool ------------------------------
(***************************************************************************)
(* The six agent loops of src/dispatcher/agent_pool.rs, and the state they *)
(* share with the dispatcher (module Dispatcher).                          *)
(*                                                                         *)
(* A step of this module is what a loop does between two points where      *)
(* another tokio task can run and notice: one lock taken, one await.       *)
(***************************************************************************)
EXTENDS ReviewQueue

CONSTANTS
    Caller,      \* clients whose requests run concurrently: TUI sockets, chat turns, MCP
    Limit,       \* WipLimits: [Column -> Nat]
    Budget,      \* how often each operation of Op may happen (bounds the model)
    NoTask       \* what an agent at rest works on

\* The operations that could go on for ever, which Budget bounds.
Op == {"approve", "rework", "misanswer", "update", "prioritize", "create",
       "question", "block", "fail", "verify", "lag", "crash"}

ASSUME PoolAssumption ==
    /\ Limit \in [Column -> Nat]
    /\ Budget \in [Op -> Nat]
    /\ NoTask \notin Task

VARIABLES
    board,       \* Dispatcher.board, the in-memory projection
    disk,        \* the task files, by task
    reviews,     \* the review item files
    queue,       \* Dispatcher.review_queue
    permit,      \* AgentHandle.notify: one permit per role, signals coalesce
    blocked,     \* AgentHandle.blocked
    unblocking,  \* spawned AgentPool::unblock tasks that have not run yet
    agent,       \* where each agent loop is
    waiting,     \* wip_waiting: full columns some agent wants to advance into
    bus,         \* events run() has not received yet
    subscribed,  \* run() has called event_bus.subscribe()
    calls,       \* the request each Caller is in the middle of
    used         \* how much of Budget is spent

poolVars == <<board, disk, reviews, queue, permit, blocked, unblocking, agent,
              waiting, bus, subscribed, calls, used>>

-----------------------------------------------------------------------------

\* Where a loop can be.  "running" is the one place where its MCP token is in
\* the active set: issued in Prepare, revoked in Finish.
Pc == {"asleep", "picked", "running", "reporting", "judging", "retrying",
       "passing", "moving", "stalling", "escalating", "flagging"}

AgentState == [pc : Pc, task : Task \cup {NoTask}, copy : TaskState]

Asleep == [pc |-> "asleep", task |-> NoTask, copy |-> Blank]

\* The agent of role r goes on to step p with the task it has.
Goto(r, p) == agent' = [agent EXCEPT ![r].pc = p, ![r].copy = Blank]
Sleep(r)   == agent' = [agent EXCEPT ![r] = Asleep]

Event == [type : {"created"}, task : Task]
    \cup [type : {"stage"}, task : Task, from : Column, to : Column]
    \cup [type : {"blocked"}, task : Task]

\* event_bus.emit: a broadcast before anyone has subscribed reaches no one.
\* Only the events run() acts on are kept.
Emit(e) == bus' = IF subscribed THEN Append(bus, e) ELSE bus

\* AgentPool::signal (notify_one): a permit already there absorbs the signal.
Signal(roles) == permit' = [r \in Role |-> permit[r] \/ r \in roles]

Spend(op) == /\ used[op] < Budget[op]
             /\ used' = [used EXCEPT ![op] = @ + 1]

-----------------------------------------------------------------------------
(* agent_loop                                                              *)

\* notified() returns, and there is work: clone the first unblocked task.
Wake(r) ==
    /\ agent[r].pc = "asleep"
    /\ permit[r]
    /\ ~blocked[r]
    /\ permit' = [permit EXCEPT ![r] = FALSE]
    /\ \E t \in NextUnblocked(board, r) :
          agent' = [agent EXCEPT ![r] =
                       [pc |-> "picked", task |-> t, copy |-> board.tasks[t]]]
    /\ UNCHANGED <<board, disk, reviews, queue, blocked, unblocking, waiting,
                   bus, subscribed, calls, used>>

\* notified() returns while the agent is blocked, or nothing is ready: the
\* permit is gone and the loop sleeps again.
WakeInVain(r) ==
    /\ agent[r].pc = "asleep"
    /\ permit[r]
    /\ blocked[r] \/ NextUnblocked(board, r) = {}
    /\ permit' = [permit EXCEPT ![r] = FALSE]
    /\ UNCHANGED <<board, disk, reviews, queue, blocked, unblocking, agent,
                   waiting, bus, subscribed, calls, used>>

\* Name the branch on the first pick-up: on the board's copy, and on disk by
\* writing the clone taken in Wake.  Worktree, token, context; then the run.
Prepare(r) ==
    LET t == agent[r].task
        c == agent[r].copy
    IN  /\ agent[r].pc = "picked"
        /\ IF c.branch
           THEN UNCHANGED <<board, disk>>
           ELSE /\ board' = [board EXCEPT !.tasks[t].branch = TRUE]
                /\ disk'  = [disk EXCEPT ![t] = [c EXCEPT !.branch = TRUE]]
        /\ Goto(r, "running")
        /\ UNCHANGED <<reviews, queue, permit, blocked, unblocking, waiting,
                       bus, subscribed, calls, used>>

\* backend.run returned Success; the token is revoked.
Finish(r) ==
    /\ agent[r].pc = "running"
    /\ Goto(r, "reporting")
    /\ UNCHANGED <<board, disk, reviews, queue, permit, blocked, unblocking,
                   waiting, bus, subscribed, calls, used>>

\* backend.run returned Failure or an error: the task stays where it is and
\* the agent sleeps until somebody signals it.
Fail(r) ==
    /\ agent[r].pc = "running"
    /\ Spend("fail")
    /\ Sleep(r)
    /\ UNCHANGED <<board, disk, reviews, queue, permit, blocked, unblocking,
                   waiting, bus, subscribed, calls>>

-----------------------------------------------------------------------------
(* handle_agent_result                                                     *)

\* Mutant: the task is saved as if it had already advanced.
ReportAdvanced(r) ==
    /\ agent[r].pc = "reporting"
    /\ disk' = [disk EXCEPT ![agent[r].task] =
                   [board.tasks[agent[r].task] EXCEPT !.stage = NextColumn(r)]]
    /\ Goto(r, "judging")
    /\ UNCHANGED <<board, reviews, queue, permit, blocked, unblocking, waiting,
                   bus, subscribed, calls, used>>

\* Attach the output to the board's copy of the task and write that to disk.
Report(r) ==
    /\ agent[r].pc = "reporting"
    /\ disk' = [disk EXCEPT ![agent[r].task] = board.tasks[agent[r].task]]
    /\ Goto(r, "judging")
    /\ UNCHANGED <<board, reviews, queue, permit, blocked, unblocking, waiting,
                   bus, subscribed, calls, used>>

\* The verifier passes the first attempt or the one retry.
Pass(r) ==
    /\ agent[r].pc \in {"judging", "retrying"}
    /\ Goto(r, "passing")
    /\ UNCHANGED <<board, disk, reviews, queue, permit, blocked, unblocking,
                   waiting, bus, subscribed, calls, used>>

\* The verifier rejects the first attempt: run once more.
Retry(r) ==
    /\ agent[r].pc = "judging"
    /\ Spend("verify")
    /\ Goto(r, "retrying")
    /\ UNCHANGED <<board, disk, reviews, queue, permit, blocked, unblocking,
                   waiting, bus, subscribed, calls>>

\* The retry failed, or was rejected too.
GiveUp(r) ==
    /\ agent[r].pc = "retrying"
    /\ Goto(r, "escalating")
    /\ UNCHANGED <<board, disk, reviews, queue, permit, blocked, unblocking,
                   waiting, bus, subscribed, calls, used>>

\* escalate_verification_failure: a question on disk, then AgentBlocked ...
Escalate(r) ==
    /\ agent[r].pc = "escalating"
    /\ reviews' = Append(reviews, OpenFile(Question(agent[r].task)))
    /\ Emit([type |-> "blocked", task |-> agent[r].task])
    /\ Goto(r, "flagging")
    /\ UNCHANGED <<board, disk, queue, permit, blocked, unblocking, waiting,
                   subscribed, calls, used>>

\* Mutant: the queue item is left to the handler of AgentBlocked.
FlagOnly(r) ==
    /\ agent[r].pc = "flagging"
    /\ blocked' = [blocked EXCEPT ![r] = TRUE]
    /\ Sleep(r)
    /\ UNCHANGED <<board, disk, reviews, queue, permit, unblocking, waiting, bus,
                   subscribed, calls, used>>

\* ... and only then the flag, and a queue item with an id of its own.
Flag(r) ==
    /\ agent[r].pc = "flagging"
    /\ blocked' = [blocked EXCEPT ![r] = TRUE]
    /\ queue' = Enqueue(queue, [id |-> Fresh, what |-> Question(agent[r].task)])
    /\ Sleep(r)
    /\ UNCHANGED <<board, disk, reviews, permit, unblocking, waiting, bus,
                   subscribed, calls, used>>

-----------------------------------------------------------------------------
(* try_advance                                                             *)

\* Mutant: the limit is inclusive.
CheckWipInclusive(r) ==
    /\ agent[r].pc = "passing"
    /\ Goto(r, IF Count(board, NextColumn(r)) <= Limit[NextColumn(r)]
               THEN "moving" ELSE "stalling")
    /\ UNCHANGED <<board, disk, reviews, queue, permit, blocked, unblocking,
                   waiting, bus, subscribed, calls, used>>

\* Count the next column under the read lock and compare with the limit.
CheckWip(r) ==
    /\ agent[r].pc = "passing"
    /\ Goto(r, IF Count(board, NextColumn(r)) < Limit[NextColumn(r)]
               THEN "moving" ELSE "stalling")
    /\ UNCHANGED <<board, disk, reviews, queue, permit, blocked, unblocking,
                   waiting, bus, subscribed, calls, used>>

\* The column was full: record the agent in wip_waiting and sleep.  Column c
\* is entered by one role only, so the set of columns is the whole map.
Stall(r) ==
    /\ agent[r].pc = "stalling"
    /\ waiting' = waiting \cup {NextColumn(r)}
    /\ Sleep(r)
    /\ UNCHANGED <<board, disk, reviews, queue, permit, blocked, unblocking,
                   bus, subscribed, calls, used>>

\* Mutant: on from the column the task is in, for as long as there is room.
MoveOn(r) ==
    LET t == agent[r].task
        c == board.column[t]
    IN  /\ agent[r].pc = "moving"
        /\ c # Done
        /\ board' = Advance(board, t, NextColumn(c))
        /\ Emit([type |-> "stage", task |-> t, from |-> c, to |-> NextColumn(c)])
        /\ UNCHANGED <<disk, reviews, queue, permit, blocked, unblocking, agent,
                       waiting, subscribed, calls, used>>

\* Move the task to the next column, wherever it is by now, and announce it.
\* The stage on disk stays as it was.
Move(r) ==
    LET t == agent[r].task
    IN  /\ agent[r].pc = "moving"
        /\ board' = Advance(board, t, NextColumn(r))
        /\ Emit([type |-> "stage", task |-> t, from |-> r, to |-> NextColumn(r)])
        /\ Sleep(r)
        /\ UNCHANGED <<disk, reviews, queue, permit, blocked, unblocking,
                       waiting, subscribed, calls, used>>

-----------------------------------------------------------------------------
(* What a running agent may do to its own task over MCP                    *)

\* gitzi_block_task: back to the top of Prioritized until the blockers are
\* Done.  The run itself goes on.
BlockTask(r, blockers) ==
    LET t == agent[r].task
    IN  /\ agent[r].pc = "running"
        /\ board.column[t] # Absent
        /\ Spend("block")
        /\ board' = [SetPriority(Advance(board, t, Prioritized), t, ReworkPriority)
                        EXCEPT !.tasks[t].blockedBy = blockers]
        /\ disk' = [disk EXCEPT ![t] = board'.tasks[t]]
        /\ Emit([type |-> "stage", task |-> t, from |-> board.column[t],
                 to |-> Prioritized])
        /\ Signal({Prioritized})
        /\ UNCHANGED <<reviews, queue, blocked, unblocking, agent, waiting,
                       subscribed, calls>>

\* gitzi_create_review_item: a question that does not stop the agent; the
\* file and the queue item share their id.
AskHuman(r) ==
    LET what == Question(agent[r].task)
    IN  /\ agent[r].pc = "running"
        /\ Spend("question")
        /\ reviews' = Append(reviews, OpenFile(what))
        /\ queue' = Enqueue(queue, [id |-> Len(reviews) + 1, what |-> what])
        /\ UNCHANGED <<board, disk, permit, blocked, unblocking, agent, waiting,
                       bus, subscribed, calls>>

-----------------------------------------------------------------------------

\* Mutant: unblock without an answer.
UnblockUnasked(r) ==
    /\ unblocking' = [unblocking EXCEPT ![r] = @ - 1]
    /\ blocked' = [blocked EXCEPT ![r] = FALSE]
    /\ Signal({r})
    /\ UNCHANGED <<board, disk, reviews, queue, agent, waiting, bus, subscribed,
                   calls, used>>

\* Mutant: the flag is cleared and nobody is woken.
UnblockSilently(r) ==
    /\ unblocking[r] > 0
    /\ unblocking' = [unblocking EXCEPT ![r] = @ - 1]
    /\ blocked' = [blocked EXCEPT ![r] = FALSE]
    /\ UNCHANGED <<board, disk, reviews, queue, permit, agent, waiting, bus,
                   subscribed, calls, used>>

\* The task AgentPool::unblock spawned: clear the flag, wake the agent.
Unblock(r) ==
    /\ unblocking[r] > 0
    /\ unblocking' = [unblocking EXCEPT ![r] = @ - 1]
    /\ blocked' = [blocked EXCEPT ![r] = FALSE]
    /\ Signal({r})
    /\ UNCHANGED <<board, disk, reviews, queue, agent, waiting, bus, subscribed,
                   calls, used>>

\* A loop going about its work on its own.
AgentStep(r) ==
    \/ Wake(r)     \/ WakeInVain(r) \/ Prepare(r)  \/ Finish(r)  \/ Fail(r)
    \/ Report(r)   \/ Pass(r)       \/ Retry(r)    \/ GiveUp(r)
    \/ Escalate(r) \/ Flag(r)       \/ CheckWip(r) \/ Stall(r)   \/ Move(r)
=============================================================================
