----------------------------- MODULE Dispatcher ------------------------------
(***************************************************************************)
(* The dispatcher of src/dispatcher/mod.rs composed with the agent pool:   *)
(* the requests of its clients, the event loop run(), boot and restart.    *)
(*                                                                         *)
(* A request that takes the board lock more than once is a request in      *)
(* progress (variable calls) between two of its steps, so that agents, the *)
(* event loop and other requests run in between.                           *)
(***************************************************************************)
EXTENDS AgentPool

CONSTANTS
    InitDisks,   \* the contents of the task directory the daemon may boot from
    ReworkTo,    \* work columns a human sends tasks back to
    Priorities   \* priorities a human assigns

ASSUME DispatcherAssumption ==
    /\ InitDisks \subseteq [Task -> TaskState]
    /\ ReworkTo \subseteq Role
    /\ Priorities \subseteq Nat

\* A request in progress: "approve" and "rework" have checked the column and
\* not yet moved the task, "approved" and "rejected" have moved it, "update"
\* and "prioritize" have written the disk and not yet the board.
Step == {"none", "approve", "rework", "approved", "rejected", "update", "prioritize"}

Call == [step : Step, task : Task \cup {NoTask}, to : Column \cup {Absent},
         copy : TaskState]

NoCall == [step |-> "none", task |-> NoTask, to |-> Absent, copy |-> Blank]

Begin(c, step, t, to, copy) ==
    /\ calls[c] = NoCall
    /\ calls' = [calls EXCEPT ![c] =
                    [step |-> step, task |-> t, to |-> to, copy |-> copy]]

End(c) == calls' = [calls EXCEPT ![c] = NoCall]

-----------------------------------------------------------------------------
(* Boot: Dispatcher::start.  Everything in memory is derived from disk.    *)

BootPermits(b) == [r \in Role |-> TasksIn(b, r) # {}]

\* A daemon that boots from the task directory d, with part of the budget spent.
Start(d, spent) ==
    /\ disk = d
    /\ reviews = <<>>
    /\ \E load \in LoadOrder : board = FromTasks(disk, load)
    /\ queue = Reload(reviews)
    /\ permit = BootPermits(board)
    /\ blocked = [r \in Role |-> FALSE]
    /\ unblocking = [r \in Role |-> 0]
    /\ agent = [r \in Role |-> Asleep]
    /\ waiting = {}
    /\ bus = <<>>
    /\ subscribed = FALSE
    /\ calls = [c \in Caller |-> NoCall]
    /\ used = spent

Init == \E d \in InitDisks : Start(d, [op \in Op |-> 0])

\* The process dies or re-executes itself, and boots from what is on disk.
Crash ==
    /\ Spend("crash")
    /\ \E load \in LoadOrder : board' = FromTasks(disk, load)
    /\ queue' = Reload(reviews)
    /\ permit' = BootPermits(board')
    /\ blocked' = [r \in Role |-> FALSE]
    /\ unblocking' = [r \in Role |-> 0]
    /\ agent' = [r \in Role |-> Asleep]
    /\ waiting' = {}
    /\ bus' = <<>>
    /\ subscribed' = FALSE
    /\ calls' = [c \in Caller |-> NoCall]
    /\ UNCHANGED <<disk, reviews>>

\* start() returned (after the opening chat turn) and main calls run().
Subscribe ==
    /\ ~subscribed
    /\ subscribed' = TRUE
    /\ UNCHANGED <<board, disk, reviews, queue, permit, blocked, unblocking,
                   agent, waiting, bus, calls, used>>

-----------------------------------------------------------------------------
(* approve and reject_to                                                   *)

\* Mutant: approve goes one column too far.
ApproveTwice(c, t) ==
    /\ board.column[t] \in Buffer
    /\ Spend("approve")
    /\ Begin(c, "approve", t, NextColumn(NextColumn(board.column[t])), Blank)
    /\ UNCHANGED <<board, disk, reviews, queue, permit, blocked, unblocking,
                   agent, waiting, bus, subscribed>>

\* approve: under the read lock, the task is in a buffer.
Approve(c, t) ==
    /\ board.column[t] \in Buffer
    /\ Spend("approve")
    /\ Begin(c, "approve", t, NextColumn(board.column[t]), Blank)
    /\ UNCHANGED <<board, disk, reviews, queue, permit, blocked, unblocking,
                   agent, waiting, bus, subscribed>>

\* Mutant: rework is accepted for a task in any column.
ReworkAnywhere(c, t, to) ==
    /\ board.column[t] # Absent
    /\ to \in ReworkTo
    /\ Spend("rework")
    /\ Begin(c, "rework", t, to, Blank)
    /\ UNCHANGED <<board, disk, reviews, queue, permit, blocked, unblocking,
                   agent, waiting, bus, subscribed>>

\* reject, reject_to: likewise; any work column may be the target, reject
\* takes the one before the buffer.
Rework(c, t, to) ==
    /\ board.column[t] \in Buffer
    /\ to \in ReworkTo
    /\ Spend("rework")
    /\ Begin(c, "rework", t, to, Blank)
    /\ UNCHANGED <<board, disk, reviews, queue, permit, blocked, unblocking,
                   agent, waiting, bus, subscribed>>

\* approve, under the write lock: move the task.  The column is not checked
\* again, and no WIP limit is.
MoveApproved(c) ==
    /\ calls[c].step = "approve"
    /\ board' = Advance(board, calls[c].task, calls[c].to)
    /\ calls' = [calls EXCEPT ![c].step = "approved"]
    /\ UNCHANGED <<disk, reviews, queue, permit, blocked, unblocking, agent,
                   waiting, bus, subscribed, used>>

\* reject_to, under the write lock: move, highest priority, attach feedback.
MoveRejected(c) ==
    LET t == calls[c].task
    IN  /\ calls[c].step = "rework"
        /\ board' = [SetPriority(Advance(board, t, calls[c].to), t, ReworkPriority)
                        EXCEPT !.tasks[t].feedback = TRUE]
        /\ calls' = [calls EXCEPT ![c].step = "rejected"]
        /\ UNCHANGED <<disk, reviews, queue, permit, blocked, unblocking, agent,
                       waiting, bus, subscribed, used>>

\* Record the verdict on the first unresolved file of the task, whatever its
\* kind.
Resolve(t, verdict) ==
    IF Unresolved(reviews, t) = {}
    THEN UNCHANGED reviews
    ELSE \E i \in Unresolved(reviews, t) :
            reviews' = [reviews EXCEPT ![i].status = verdict]

\* The rest of both: write the task, resolve its review item, drop it from
\* the queue, signal the agent.  The event emitted is one run() ignores.
Settle(c) ==
    LET t == calls[c].task
    IN  /\ calls[c].step \in {"approved", "rejected"}
        /\ disk' = [disk EXCEPT ![t] = board.tasks[t]]
        /\ Resolve(t, calls[c].step)
        /\ queue' = DequeueByTask(queue, t)
        /\ Signal({calls[c].to})
        /\ End(c)
        /\ UNCHANGED <<board, blocked, unblocking, agent, waiting, bus,
                       subscribed, used>>

-----------------------------------------------------------------------------
(* answer_question                                                         *)

\* The item is dequeued before its kind is looked at: answering an approval
\* item is an error that loses the item.
AnswerApproval(c, i) ==
    /\ calls[c] = NoCall
    /\ queue[i].what.kind = "approval"
    /\ Spend("misanswer")
    /\ queue' = RemoveItem(queue, i)
    /\ UNCHANGED <<board, disk, reviews, permit, blocked, unblocking, agent,
                   waiting, bus, subscribed, calls>>

\* A question: record the answer on the file of that id if there is one, and
\* unblock the role of the column the task is in, if it has a role.
Answer(c, i) ==
    LET item  == queue[i]
        stage == board.tasks[item.what.task].stage
    IN  /\ calls[c] = NoCall
        /\ item.what.kind = "question"
        /\ queue' = RemoveItem(queue, i)
        /\ reviews' = IF item.id = Fresh THEN reviews
                      ELSE [reviews EXCEPT ![item.id].status = "answered"]
        /\ unblocking' = IF stage \in Role
                         THEN [unblocking EXCEPT ![stage] = @ + 1]
                         ELSE unblocking
        /\ UNCHANGED <<board, disk, permit, blocked, agent, waiting, bus,
                       subscribed, calls, used>>

-----------------------------------------------------------------------------
(* The gitzi_ task tools                                                   *)

\* gitzi_create_task: the file, the board, then the event.
Create(t, p) ==
    /\ disk[t].stage = Absent
    /\ Spend("create")
    /\ disk' = [disk EXCEPT ![t] = NewTask(p)]
    /\ board' = AddTask(board, t, NewTask(p))
    /\ Emit([type |-> "created", task |-> t])
    /\ UNCHANGED <<reviews, queue, permit, blocked, unblocking, agent, waiting,
                   subscribed, calls>>

\* gitzi_update_task: edit the file ...
UpdateFile(c, t) ==
    LET edited == [disk[t] EXCEPT !.text = @ + 1]
    IN  /\ disk[t].stage # Absent
        /\ Spend("update")
        /\ disk' = [disk EXCEPT ![t] = edited]
        /\ Begin(c, "update", t, Absent, edited)
        /\ UNCHANGED <<board, reviews, queue, permit, blocked, unblocking, agent,
                       waiting, bus, subscribed>>

\* ... and overwrite the board's copy of the task with what the file held.
UpdateBoard(c) ==
    /\ calls[c].step = "update"
    /\ board' = [board EXCEPT !.tasks[calls[c].task] = calls[c].copy]
    /\ End(c)
    /\ UNCHANGED <<disk, reviews, queue, permit, blocked, unblocking, agent,
                   waiting, bus, subscribed, used>>

\* gitzi_prioritize_task: the file first ...
PrioritizeFile(c, t, p) ==
    LET edited == [disk[t] EXCEPT !.priority = p]
    IN  /\ disk[t].stage # Absent
        /\ Spend("prioritize")
        /\ disk' = [disk EXCEPT ![t] = edited]
        /\ Begin(c, "prioritize", t, Absent, edited)
        /\ UNCHANGED <<board, reviews, queue, permit, blocked, unblocking, agent,
                       waiting, bus, subscribed>>

\* ... then only the priority on the board.
PrioritizeBoard(c) ==
    /\ calls[c].step = "prioritize"
    /\ board' = SetPriority(board, calls[c].task, calls[c].copy.priority)
    /\ End(c)
    /\ UNCHANGED <<disk, reviews, queue, permit, blocked, unblocking, agent,
                   waiting, bus, subscribed, used>>

-----------------------------------------------------------------------------
(* run(): one event at a time                                              *)

Receive(type) ==
    /\ subscribed
    /\ bus # <<>>
    /\ Head(bus).type = type
    /\ bus' = Tail(bus)

OnTaskCreated ==
    /\ Receive("created")
    /\ Signal({Prioritized})
    /\ UNCHANGED <<board, disk, reviews, queue, blocked, unblocking, agent,
                   waiting, subscribed, calls, used>>

\* The agent waiting for a place in the column the task left.
WaiterFor(from) == IF from \in waiting THEN {PrevColumn(from)} ELSE {}

\* A work column: wake its agent, and the one waiting for the freed place.
OnTaskEntersWork ==
    LET e == Head(bus)
    IN  /\ Receive("stage")
        /\ e.to \in Role
        /\ waiting' = waiting \ {e.from}
        /\ Signal(WaiterFor(e.from) \cup {e.to})
        /\ UNCHANGED <<board, disk, reviews, queue, blocked, unblocking, agent,
                       subscribed, calls, used>>

\* Mutant: the item is written to disk only.
OnTaskEntersBufferUnqueued ==
    LET e    == Head(bus)
        what == Approval(e.task, e.to, board.tasks[e.task].priority)
    IN  /\ Receive("stage")
        /\ e.to \in Buffer
        /\ waiting' = waiting \ {e.from}
        /\ Signal(WaiterFor(e.from))
        /\ reviews' = Append(reviews, OpenFile(what))
        /\ UNCHANGED <<board, disk, queue, blocked, unblocking, agent, subscribed,
                       calls, used>>

\* A buffer: an approval item on disk and, under another id, in the queue.
OnTaskEntersBuffer ==
    LET e    == Head(bus)
        what == Approval(e.task, e.to, board.tasks[e.task].priority)
    IN  /\ Receive("stage")
        /\ e.to \in Buffer
        /\ waiting' = waiting \ {e.from}
        /\ Signal(WaiterFor(e.from))
        /\ reviews' = Append(reviews, OpenFile(what))
        /\ queue' = Enqueue(queue, [id |-> Fresh, what |-> what])
        /\ UNCHANGED <<board, disk, blocked, unblocking, agent, subscribed,
                       calls, used>>

\* Done: attempt_merge.  A branch that cannot be fast-forwarded becomes a
\* question that exists in memory only.
OnTaskDone ==
    LET e == Head(bus)
    IN  /\ Receive("stage")
        /\ e.to = Done
        /\ waiting' = waiting \ {e.from}
        /\ Signal(WaiterFor(e.from))
        /\ \/ UNCHANGED queue
           \/ /\ disk[e.task].branch
              /\ queue' = Enqueue(queue, [id |-> Fresh, what |-> Question(e.task)])
        /\ UNCHANGED <<board, disk, reviews, blocked, unblocking, agent,
                       subscribed, calls, used>>

\* AgentBlocked: one more queue item for a question the agent queues itself.
OnAgentBlocked ==
    /\ Receive("blocked")
    /\ queue' = Enqueue(queue, [id |-> Fresh, what |-> Question(Head(bus).task)])
    /\ UNCHANGED <<board, disk, reviews, permit, blocked, unblocking, agent,
                   waiting, subscribed, calls, used>>

\* RecvError::Lagged: other traffic (tokens, log entries) filled the channel
\* and pushed out the oldest events not yet received.
Lag ==
    /\ subscribed
    /\ Spend("lag")
    /\ \E n \in 1 .. Len(bus) : bus' = SubSeq(bus, n + 1, Len(bus))
    /\ UNCHANGED <<board, disk, reviews, queue, permit, blocked, unblocking,
                   agent, waiting, subscribed, calls>>

RunLoop == OnTaskCreated \/ OnTaskEntersWork \/ OnTaskEntersBuffer
              \/ OnTaskDone \/ OnAgentBlocked

-----------------------------------------------------------------------------

\* What a request in progress does next.
CallStep(c) == MoveApproved(c) \/ MoveRejected(c) \/ Settle(c)
                  \/ UpdateBoard(c) \/ PrioritizeBoard(c)

\* What a client may ask for.
Request(c) ==
    \/ \E t \in Task : \/ Approve(c, t)
                       \/ \E to \in Role : Rework(c, t, to)
                       \/ UpdateFile(c, t)
                       \/ \E p \in Priorities : PrioritizeFile(c, t, p)
    \/ \E i \in DOMAIN queue : Answer(c, i) \/ AnswerApproval(c, i)

AgentTool(r) ==
    \/ AskHuman(r)
    \/ \E blockers \in SUBSET Task : BlockTask(r, blockers)

Next ==
    \/ \E r \in Role : AgentStep(r) \/ AgentTool(r) \/ Unblock(r)
    \/ \E c \in Caller : Request(c) \/ CallStep(c)
    \/ \E t \in Task, p \in Priorities \cup {DefaultPriority} : Create(t, p)
    \/ Subscribe \/ RunLoop \/ Lag \/ Crash

Spec == Init /\ [][Next]_poolVars
=============================================================================
