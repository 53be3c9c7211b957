------------------------------- MODULE Notices -------------------------------
(***************************************************************************)
(* Does the human learn of what waits?  An approval or a question begins   *)
(* as an event and becomes a queue item once run() receives it.  The code  *)
(* can lose either on the way: an agent may be done before run() has       *)
(* subscribed, the bus may lag, a wrong answer takes the item, a restart   *)
(* finds no item file.                                                     *)
(*                                                                         *)
(* The history variable lost records these losses and nothing else, so     *)
(* that the properties below can say that there is no other way.           *)
(***************************************************************************)
EXTENDS DispatcherProperties

VARIABLE lost   \* by kind, the tasks whose present notice was lost

noticeVars == <<poolVars, lost>>

Kind == {"approval", "question"}

\* A verdict has moved the task and will take an item of it off the queue.
Settling(t) ==
    \E c \in Caller : calls[c].step \in {"approved", "rejected"} /\ calls[c].task = t

\* The event that run() will make an item of this kind for t of.
Notifies(e, kind, t) ==
    /\ e.task = t
    /\ \/ kind = "approval" /\ e.type = "stage" /\ e.to \in Buffer
       \/ kind = "question" /\ e.type = "blocked"

\* Somebody counts on a notice of t: the task waits for a verdict, its agent
\* waits or is about to wait for an answer, or a verdict is about to take one.
Claimed(kind, t) ==
    \/ Settling(t)
    \/ kind = "approval" /\ board.column[t] \in Buffer
    \/ /\ kind = "question"
       /\ \E r \in Role : board.column[t] = r /\ (blocked[r] \/ agent[r].pc = "flagging")

\* The agent's event is emitted before run() has subscribed: nobody gets it.
Unheard(kind, t) ==
    /\ ~subscribed
    /\ \E r \in Role : /\ agent[r].task = t
                       /\ \/ kind = "approval" /\ Move(r)
                          \/ kind = "question" /\ Escalate(r)

\* The event is among the oldest, which the full channel pushed out.
Dropped(kind, t) ==
    Lag /\ \E i \in 1 .. Len(bus) - Len(bus') : Notifies(bus[i], kind, t)

\* An approval item is dequeued by an answer that is then refused.
Misanswered(kind, t) ==
    /\ kind = "approval"
    /\ \E c \in Caller : \E i \in DOMAIN queue :
          AnswerApproval(c, i) /\ queue[i].what.task = t

\* The restarted daemon finds no open item file for the approval.
Unfiled(kind, t) == kind = "approval" /\ Crash /\ ~ApprovalQueued(t)'

Loses(kind, t) ==
    Unheard(kind, t) \/ Dropped(kind, t) \/ Misanswered(kind, t) \/ Unfiled(kind, t)

\* A loss counts for as long as somebody counts on the notice; a restart
\* begins anew.
Record ==
    lost' = [kind \in Kind |->
                {t \in Task : /\ Claimed(kind, t)'
                              /\ Loses(kind, t) \/ (t \in lost[kind] /\ ~Crash)}]

\* A daemon that boots with tasks in buffers and no item files for them.
NoneLost ==
    lost = [kind \in Kind |->
               {t \in Task : kind = "approval" /\ board.column[t] \in Buffer /\ ~ApprovalQueued(t)}]

NoticedInit == Init /\ NoneLost

NoticedSpec == NoticedInit /\ [][InTurnNext /\ Record]_noticeVars

-----------------------------------------------------------------------------

\* A task in a buffer can be found by a human: an approval item for it is in
\* the queue, or the event that makes one is on its way, or a human's
\* request on the task is being carried out -- unless its notice was lost
\* in one of the four ways above.
ApprovalReachable ==
    \A t \in Task : board.column[t] \in Buffer =>
        \/ ApprovalQueued(t)
        \/ \E i \in DOMAIN bus : bus[i].type = "stage" /\ bus[i].task = t
                                   /\ bus[i].to = board.column[t]
        \/ InFlight(t)
        \/ t \in lost["approval"]

\* An agent whose blocked flag is set can be released: its answer is on its
\* way, or a question an answer to which would release it is in the queue
\* or about to be put there -- unless the event of its question was lost.
BlockedAnswerable ==
    \A r \in Role : blocked[r] =>
        \/ unblocking[r] > 0
        \/ \E i \in DOMAIN queue : /\ queue[i].what.kind = "question"
                                   /\ board.tasks[queue[i].what.task].stage = r
        \/ \E i \in DOMAIN bus : bus[i].type = "blocked" /\ board.tasks[bus[i].task].stage = r
        \/ \E t \in lost["question"] : board.column[t] = r

\* With a human attending to the queue, a task that has come to Coding is
\* delivered, across a restart, lost events, retries and questions, unless the
\* notice of its arrival in a buffer is lost: then it waits there until a
\* human comes upon it.  (A run that fails outright leaves the task where it
\* is until somebody signals the agent, and a task sent back is not covered
\* either: Budget and ReworkTo exclude both.)
Delivered ==
    \A t \in Task : board.column[t] = Coding ~>
        board.column[t] = Done \/ t \in lost["approval"]
=============================================================================
