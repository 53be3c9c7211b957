--------------------------- MODULE DispatcherProofs --------------------------
(***************************************************************************)
(* Theorems about the dispatcher for any number of tasks, clients and      *)
(* operations, any WIP limits and any initial contents of the disk; and,   *)
(* in the second half, what holds besides if the requests about a task are *)
(* made in turn and agents block nothing, with the refinement to Pipeline. *)
(***************************************************************************)
EXTENDS DispatcherProperties, BoardProofs, SequenceTheorems

-----------------------------------------------------------------------------
(* The inductive invariant behind TypeOK: whoever is at work on a task has *)
(* one, and a verdict in progress leads to a column that is no buffer.     *)

AgentsEngaged == \A r \in Role : agent[r].pc # "asleep" => agent[r].task \in Task

Verdict == {"approve", "rework", "approved", "rejected"}

CallsEngaged ==
    \A c \in Caller :
        /\ calls[c].step # "none" => calls[c].task \in Task
        /\ calls[c].step \in Verdict => calls[c].to \in Column \ Buffer

TypeInv == TypeOK /\ AgentsEngaged /\ CallsEngaged

\* What the small steps that actions share preserve.
LEMMA GotoType ==
    ASSUME TypeInv, NEW r \in Role, NEW p \in Pc, agent[r].pc # "asleep", Goto(r, p)
    PROVE  agent' \in [Role -> AgentState] /\ AgentsEngaged'
<1>1. [agent[r] EXCEPT !.pc = p, !.copy = Blank] \in AgentState
  BY TaskFacts DEF TypeInv, TypeOK, AgentState
<1> QED BY <1>1 DEF TypeInv, TypeOK, AgentsEngaged, AgentState, Goto

LEMMA SleepType ==
    ASSUME TypeInv, NEW r \in Role, Sleep(r)
    PROVE  agent' \in [Role -> AgentState] /\ AgentsEngaged'
<1>1. Asleep \in AgentState /\ Asleep.pc = "asleep"
  BY TaskFacts DEF Asleep, AgentState, Pc
<1> QED BY <1>1 DEF TypeInv, TypeOK, AgentsEngaged, AgentState, Sleep

LEMMA EmitType ==
    ASSUME TypeInv, NEW e \in Event, Emit(e)
    PROVE  bus' \in Seq(Event)
BY DEF TypeInv, TypeOK, Emit

LEMMA SignalType ==
    ASSUME TypeInv, NEW roles, Signal(roles)
    PROVE  permit' \in [Role -> BOOLEAN]
BY DEF Signal

LEMMA SpendType ==
    ASSUME TypeInv, NEW op \in Op, Spend(op)
    PROVE  used' \in [Op -> Nat]
BY DEF TypeInv, TypeOK, Spend

LEMMA BeginType ==
    ASSUME TypeInv, NEW c \in Caller, NEW step \in Step, NEW t \in Task,
           NEW to \in Column \cup {Absent}, NEW copy \in TaskState,
           step \in Verdict => to \in Column \ Buffer, Begin(c, step, t, to, copy)
    PROVE  calls' \in [Caller -> Call] /\ CallsEngaged'
<1>1. [step |-> step, task |-> t, to |-> to, copy |-> copy] \in Call
  BY DEF Call
<1> QED BY <1>1 DEF TypeInv, TypeOK, CallsEngaged, Begin

LEMMA EndType ==
    ASSUME TypeInv, NEW c \in Caller, End(c)
    PROVE  calls' \in [Caller -> Call] /\ CallsEngaged'
<1>1. NoCall \in Call /\ NoCall.step = "none"
  BY TaskFacts DEF NoCall, Call, Step
<1> QED BY <1>1 DEF TypeInv, TypeOK, CallsEngaged, End, Verdict

\* A request goes on to its next step with the task and target it has.
LEMMA ProceedType ==
    ASSUME TypeInv, NEW c \in Caller, NEW step \in Step,
           calls[c].step \in Verdict, calls' = [calls EXCEPT ![c].step = step]
    PROVE  calls' \in [Caller -> Call] /\ CallsEngaged'
<1>1. [calls[c] EXCEPT !.step = step] \in Call
  BY DEF TypeInv, TypeOK, Call
<1> QED BY <1>1 DEF TypeInv, TypeOK, CallsEngaged, Call, Verdict

\* Resolving an item changes its file's status and nothing else.
LEMMA StampFacts ==
    ASSUME NEW files \in Seq(ReviewFile), NEW i,
           NEW s \in {"open", "approved", "rejected", "answered"}
    PROVE  [files EXCEPT ![i].status = s] \in Seq(ReviewFile)
<1> DEFINE stamped == [files EXCEPT ![i].status = s]
<1>1. \A f \in ReviewFile : [f EXCEPT !.status = s] \in ReviewFile
  BY DEF ReviewFile
<1>2. files \in [1 .. Len(files) -> ReviewFile] /\ Len(files) \in Nat
  OBVIOUS
<1>3. stamped = [n \in 1 .. Len(files) |->
                   IF n = i THEN [files[n] EXCEPT !.status = s] ELSE files[n]]
  BY <1>2
<1>4. stamped \in [1 .. Len(files) -> ReviewFile]
  BY <1>1, <1>2, <1>3
<1> QED BY <1>2, <1>4, SeqDef

LEMMA FileTypes ==
    /\ \A t \in Task : OpenFile(Question(t)) \in ReviewFile
    /\ \A t \in Task, c \in Column, p \in Nat : OpenFile(Approval(t, c, p)) \in ReviewFile
BY DEF OpenFile, Question, Approval, ReviewFile, Subject, ReworkPriority

\* Every step of an agent loop on its own keeps the types.
LEMMA AgentStepType ==
    ASSUME TypeInv, NEW r \in Role, AgentStep(r)
    PROVE  TypeInv'
<1> USE DEF TypeInv
<1>1. CASE Wake(r)
  <2>1. PICK t \in NextUnblocked(board, r) :
           agent' = [agent EXCEPT ![r] =
                        [pc |-> "picked", task |-> t, copy |-> board.tasks[t]]]
    BY <1>1 DEF Wake
  <2>2. t \in Task
    BY DEF NextUnblocked, TasksIn
  <2>3. [pc |-> "picked", task |-> t, copy |-> board.tasks[t]] \in AgentState
    BY <2>2 DEF TypeOK, Board, AgentState, Pc
  <2>4. agent' \in [Role -> AgentState] /\ AgentsEngaged'
    BY <2>1, <2>2, <2>3 DEF TypeOK, AgentsEngaged
  <2>5. permit' \in [Role -> BOOLEAN]
    BY <1>1 DEF Wake, TypeOK
  <2> QED BY <1>1, <2>4, <2>5 DEF Wake, TypeOK, CallsEngaged
<1>2. CASE WakeInVain(r)
  BY <1>2 DEF WakeInVain, TypeOK, AgentsEngaged, CallsEngaged
<1>3. CASE Prepare(r)
  <2>1. agent[r].task \in Task /\ agent[r].copy \in TaskState
    BY <1>3 DEF Prepare, AgentsEngaged, TypeOK, AgentState
  <2>2. agent' \in [Role -> AgentState] /\ AgentsEngaged'
    BY <1>3, GotoType DEF Prepare, Pc
  <2>3. [board.tasks[agent[r].task] EXCEPT !.branch = TRUE] \in TaskState
    BY <2>1 DEF TypeOK, Board, TaskState
  <2>4. board' \in Board
    <3>1. [board EXCEPT !.tasks[agent[r].task].branch = TRUE]
             = [board EXCEPT !.tasks[agent[r].task] =
                   [board.tasks[agent[r].task] EXCEPT !.branch = TRUE]]
      OBVIOUS
    <3>2. [board EXCEPT !.tasks[agent[r].task].branch = TRUE] \in Board
      BY <2>1, <2>3, <3>1, OverwriteFacts DEF TypeOK
    <3> QED BY <1>3, <3>2 DEF Prepare, TypeOK
  <2>5. [agent[r].copy EXCEPT !.branch = TRUE] \in TaskState
    BY <2>1 DEF TaskState
  <2>6. disk' \in [Task -> TaskState]
    BY <1>3, <2>1, <2>5 DEF Prepare, TypeOK
  <2> QED BY <1>3, <2>2, <2>4, <2>6 DEF Prepare, TypeOK, CallsEngaged
<1>4. CASE Finish(r)
  <2>1. agent' \in [Role -> AgentState] /\ AgentsEngaged'
    BY <1>4, GotoType DEF Finish, Pc
  <2> QED BY <1>4, <2>1 DEF Finish, TypeOK, CallsEngaged
<1>5. CASE Fail(r)
  <2>1. used' \in [Op -> Nat]
    BY <1>5, SpendType DEF Fail, Op
  <2> QED BY <1>5, <2>1, SleepType DEF Fail, TypeOK, CallsEngaged
<1>6. CASE Report(r)
  <2>1. agent[r].task \in Task
    BY <1>6 DEF Report, AgentsEngaged
  <2>2. agent' \in [Role -> AgentState] /\ AgentsEngaged'
    BY <1>6, GotoType DEF Report, Pc
  <2>3. disk' \in [Task -> TaskState]
    BY <1>6, <2>1 DEF Report, TypeOK, Board
  <2> QED BY <1>6, <2>2, <2>3 DEF Report, TypeOK, CallsEngaged
<1>7. CASE Pass(r)
  <2>1. agent' \in [Role -> AgentState] /\ AgentsEngaged'
    BY <1>7, GotoType DEF Pass, Pc
  <2> QED BY <1>7, <2>1 DEF Pass, TypeOK, CallsEngaged
<1>8. CASE Retry(r)
  <2>1. agent' \in [Role -> AgentState] /\ AgentsEngaged'
    BY <1>8, GotoType DEF Retry, Pc
  <2>2. used' \in [Op -> Nat]
    BY <1>8, SpendType DEF Retry, Op
  <2> QED BY <1>8, <2>1, <2>2 DEF Retry, TypeOK, CallsEngaged
<1>9. CASE GiveUp(r)
  <2>1. agent' \in [Role -> AgentState] /\ AgentsEngaged'
    BY <1>9, GotoType DEF GiveUp, Pc
  <2> QED BY <1>9, <2>1 DEF GiveUp, TypeOK, CallsEngaged
<1>10. CASE Escalate(r)
  <2>1. agent[r].task \in Task
    BY <1>10 DEF Escalate, AgentsEngaged
  <2>2. agent' \in [Role -> AgentState] /\ AgentsEngaged'
    BY <1>10, GotoType DEF Escalate, Pc
  <2>3. [type |-> "blocked", task |-> agent[r].task] \in Event
    BY <2>1 DEF Event
  <2>4. bus' \in Seq(Event)
    BY <1>10, <2>3, EmitType DEF Escalate
  <2>5. reviews' \in Seq(ReviewFile)
    BY <1>10, <2>1, FileTypes DEF Escalate, TypeOK
  <2> QED BY <1>10, <2>2, <2>4, <2>5 DEF Escalate, TypeOK, CallsEngaged
<1>11. CASE Flag(r)
  <2>1. blocked' \in [Role -> BOOLEAN]
    BY <1>11 DEF Flag, TypeOK
  <2> QED BY <1>11, <2>1, SleepType DEF Flag, TypeOK, CallsEngaged
<1>12. CASE CheckWip(r)
  <2>1. agent' \in [Role -> AgentState] /\ AgentsEngaged'
    BY <1>12, GotoType DEF CheckWip, Pc
  <2> QED BY <1>12, <2>1 DEF CheckWip, TypeOK, CallsEngaged
<1>13. CASE Stall(r)
  <2>1. waiting' \subseteq Column
    BY <1>13, ColumnFacts DEF Stall, TypeOK
  <2> QED BY <1>13, <2>1, SleepType DEF Stall, TypeOK, CallsEngaged
<1>14. CASE Move(r)
  <2>1. agent[r].task \in Task /\ NextColumn(r) \in Column /\ r \in Column
    BY <1>14, ColumnFacts DEF Move, AgentsEngaged
  <2>2. board' \in Board
    BY <1>14, <2>1, AdvanceFacts DEF Move, TypeOK
  <2>3. [type |-> "stage", task |-> agent[r].task, from |-> r, to |-> NextColumn(r)] \in Event
    BY <2>1 DEF Event
  <2>4. bus' \in Seq(Event)
    BY <1>14, <2>3, EmitType DEF Move
  <2> QED BY <1>14, <2>2, <2>4, SleepType DEF Move, TypeOK, CallsEngaged
<1> QED BY <1>1, <1>2, <1>3, <1>4, <1>5, <1>6, <1>7, <1>8, <1>9, <1>10, <1>11,
           <1>12, <1>13, <1>14 DEF AgentStep

\* What a running agent does over MCP keeps the types.
LEMMA AgentToolType ==
    ASSUME TypeInv, NEW r \in Role, AgentTool(r)
    PROVE  TypeInv'
<1> USE DEF TypeInv
<1>1. CASE AskHuman(r)
  <2>1. agent[r].task \in Task
    BY <1>1 DEF AskHuman, AgentsEngaged
  <2>2. reviews' \in Seq(ReviewFile)
    BY <1>1, <2>1, FileTypes DEF AskHuman, TypeOK
  <2>3. used' \in [Op -> Nat]
    BY <1>1, SpendType DEF AskHuman, Op
  <2> QED BY <1>1, <2>2, <2>3 DEF AskHuman, TypeOK, AgentsEngaged, CallsEngaged
<1>2. ASSUME NEW blockers \in SUBSET Task, BlockTask(r, blockers)
      PROVE  TypeInv'
  <2> DEFINE t     == agent[r].task
             moved == SetPriority(Advance(board, t, Prioritized), t, ReworkPriority)
  <2>1. t \in Task
    BY <1>2 DEF BlockTask, AgentsEngaged
  <2>2. Advance(board, t, Prioritized) \in Board
    BY <2>1, AdvanceFacts, ColumnFacts DEF TypeOK
  <2>3. moved \in Board
    BY <2>1, <2>2, SetPriorityFacts DEF ReworkPriority
  <2>4. board' = [moved EXCEPT !.tasks[t].blockedBy = blockers]
    BY <1>2 DEF BlockTask
  <2> HIDE DEF moved
  <2>5. [moved.tasks[t] EXCEPT !.blockedBy = blockers] \in TaskState
    BY <2>1, <2>3 DEF Board, TaskState
  <2>6. board' = [moved EXCEPT !.tasks[t] = [moved.tasks[t] EXCEPT !.blockedBy = blockers]]
    BY <2>4
  <2>7. board' \in Board
    BY <2>1, <2>3, <2>5, <2>6, OverwriteFacts
  <2>8. disk' \in [Task -> TaskState]
    BY <1>2, <2>1, <2>7 DEF BlockTask, TypeOK, Board
  <2>9. bus' \in Seq(Event)
    <3> DEFINE e == [type |-> "stage", task |-> t, from |-> board.column[t], to |-> Prioritized]
    <3>1. board.column[t] \in Column
      BY <1>2, <2>1 DEF BlockTask, TypeOK, Board
    <3>2. e \in Event
      BY <2>1, <3>1, ColumnFacts DEF Event
    <3> QED BY <1>2, <3>2, EmitType DEF BlockTask
  <2>10. permit' \in [Role -> BOOLEAN]
    BY <1>2, SignalType DEF BlockTask
  <2>11. used' \in [Op -> Nat]
    BY <1>2, SpendType DEF BlockTask, Op
  <2> QED BY <1>2, <2>7, <2>8, <2>9, <2>10, <2>11
          DEF BlockTask, TypeOK, AgentsEngaged, CallsEngaged
<1> QED BY <1>1, <1>2 DEF AgentTool

\* So do the steps of the pool, of run() and of the boot.
LEMMA UnblockType ==
    ASSUME TypeInv, NEW r \in Role, Unblock(r)
    PROVE  TypeInv'
<1>1. unblocking' \in [Role -> Nat] /\ blocked' \in [Role -> BOOLEAN]
  BY DEF Unblock, TypeInv, TypeOK
<1>2. permit' \in [Role -> BOOLEAN]
  BY SignalType DEF Unblock
<1> QED BY <1>1, <1>2 DEF Unblock, TypeInv, TypeOK, AgentsEngaged, CallsEngaged

LEMMA RunLoopType ==
    ASSUME TypeInv, RunLoop
    PROVE  TypeInv'
<1> USE DEF TypeInv
<1>1. ASSUME NEW type, Receive(type)
      PROVE  bus' \in Seq(Event) /\ Head(bus) \in Event /\ Head(bus).type = type
  BY <1>1 DEF Receive, TypeOK
<1>2. CASE OnTaskCreated
  <2>1. permit' \in [Role -> BOOLEAN]
    BY <1>2, SignalType DEF OnTaskCreated
  <2> QED BY <1>1, <1>2, <2>1 DEF OnTaskCreated, TypeOK, AgentsEngaged, CallsEngaged
<1>3. CASE OnTaskEntersWork
  <2>1. permit' \in [Role -> BOOLEAN]
    BY <1>3, SignalType DEF OnTaskEntersWork
  <2> QED BY <1>1, <1>3, <2>1 DEF OnTaskEntersWork, TypeOK, AgentsEngaged, CallsEngaged
<1>4. CASE OnTaskEntersBuffer
  <2> DEFINE e == Head(bus)
  <2>1. permit' \in [Role -> BOOLEAN]
    BY <1>4, SignalType DEF OnTaskEntersBuffer
  <2>2. e \in Event /\ e.type = "stage" /\ bus' \in Seq(Event)
    BY <1>1, <1>4 DEF OnTaskEntersBuffer
  <2>3. e.task \in Task /\ e.to \in Column
    BY <2>2 DEF Event
  <2>4. board.tasks[e.task].priority \in Nat
    BY <2>3 DEF TypeOK, Board, TaskState
  <2>5. reviews' \in Seq(ReviewFile)
    BY <1>4, <2>3, <2>4, FileTypes DEF OnTaskEntersBuffer, TypeOK
  <2> QED BY <1>4, <2>1, <2>2, <2>5
          DEF OnTaskEntersBuffer, TypeOK, AgentsEngaged, CallsEngaged
<1>5. CASE OnTaskDone
  <2>1. permit' \in [Role -> BOOLEAN]
    BY <1>5, SignalType DEF OnTaskDone
  <2> QED BY <1>1, <1>5, <2>1 DEF OnTaskDone, TypeOK, AgentsEngaged, CallsEngaged
<1>6. CASE OnAgentBlocked
  BY <1>1, <1>6 DEF OnAgentBlocked, TypeOK, AgentsEngaged, CallsEngaged
<1> QED BY <1>2, <1>3, <1>4, <1>5, <1>6 DEF RunLoop

LEMMA LagType ==
    ASSUME TypeInv, Lag
    PROVE  TypeInv'
<1>1. bus' \in Seq(Event)
  <2>1. PICK n \in 1 .. Len(bus) : bus' = SubSeq(bus, n + 1, Len(bus))
    BY DEF Lag
  <2> QED BY <2>1 DEF TypeInv, TypeOK
<1>2. used' \in [Op -> Nat]
  BY SpendType DEF Lag, Op
<1> QED BY <1>1, <1>2 DEF Lag, TypeInv, TypeOK, AgentsEngaged, CallsEngaged

\* Whatever is loaded from a typed disk is typed.
LEMMA BootType ==
    ASSUME NEW b \in Board
    PROVE  BootPermits(b) \in [Role -> BOOLEAN]
BY DEF BootPermits

LEMMA CrashType ==
    ASSUME TypeInv, Crash
    PROVE  TypeInv'
<1>1. board' \in Board
  BY FromTasksFacts DEF Crash, TypeInv, TypeOK
<1>2. permit' \in [Role -> BOOLEAN]
  BY <1>1, BootType DEF Crash
<1>3. used' \in [Op -> Nat]
  BY SpendType DEF Crash, Op
<1>4. Asleep \in AgentState /\ Asleep.pc = "asleep"
  BY TaskFacts DEF Asleep, AgentState, Pc
<1>5. agent' \in [Role -> AgentState] /\ AgentsEngaged'
  BY <1>4 DEF Crash, AgentsEngaged
<1>6. NoCall \in Call /\ NoCall.step = "none"
  BY TaskFacts DEF NoCall, Call, Step
<1>7. calls' \in [Caller -> Call] /\ CallsEngaged'
  BY <1>6 DEF Crash, CallsEngaged, Verdict
<1>8. unblocking' \in [Role -> Nat] /\ blocked' \in [Role -> BOOLEAN]
  BY DEF Crash
<1>9. waiting' \subseteq Column /\ subscribed' \in BOOLEAN
  BY DEF Crash
<1>10. bus' \in Seq(Event)
  BY DEF Crash
<1> QED BY <1>9, <1>10, <1>1, <1>2, <1>3, <1>5, <1>7, <1>8 DEF Crash, TypeInv, TypeOK

LEMMA InitType == Init => TypeInv
<1> SUFFICES ASSUME Init PROVE TypeInv
  OBVIOUS
<1>0. disk \in [Task -> TaskState]
  BY DispatcherAssumption DEF Init, Start
<1>1. board \in Board
  BY <1>0, FromTasksFacts DEF Init, Start
<1>2. permit \in [Role -> BOOLEAN]
  BY <1>1, BootType DEF Init, Start
<1>3. Asleep \in AgentState /\ Asleep.pc = "asleep"
  BY TaskFacts DEF Asleep, AgentState, Pc
<1>4. NoCall \in Call /\ NoCall.step = "none"
  BY TaskFacts DEF NoCall, Call, Step
<1>5. agent \in [Role -> AgentState] /\ AgentsEngaged
  BY <1>3 DEF Init, Start, AgentsEngaged
<1>6. calls \in [Caller -> Call] /\ CallsEngaged
  BY <1>4 DEF Init, Start, CallsEngaged, Verdict
<1>7. unblocking \in [Role -> Nat] /\ blocked \in [Role -> BOOLEAN] /\ used \in [Op -> Nat]
  BY DEF Init, Start
<1>8. waiting \subseteq Column /\ subscribed \in BOOLEAN
  BY DEF Init, Start
<1>9. bus \in Seq(Event) /\ reviews \in Seq(ReviewFile)
  BY DEF Init, Start
<1> QED BY <1>0, <1>1, <1>2, <1>5, <1>6, <1>7, <1>8, <1>9
        DEF TypeInv, TypeOK

\* So do the requests, where they begin ...
LEMMA RequestType ==
    ASSUME TypeInv, NEW c \in Caller, Request(c)
    PROVE  TypeInv'
<1> USE DEF TypeInv
<1>1. ASSUME NEW t \in Task, Approve(c, t)
      PROVE  TypeInv'
  <2>1. NextColumn(board.column[t]) \in Column \ Buffer
    BY <1>1, ColumnFacts DEF Approve
  <2>2. calls' \in [Caller -> Call] /\ CallsEngaged'
    BY <1>1, <2>1, BeginType, TaskFacts DEF Approve, Step, Verdict
  <2>3. used' \in [Op -> Nat]
    BY <1>1, SpendType DEF Approve, Op
  <2> QED BY <1>1, <2>2, <2>3 DEF Approve, TypeOK, AgentsEngaged
<1>2. ASSUME NEW t \in Task, NEW to \in Role, Rework(c, t, to)
      PROVE  TypeInv'
  <2>1. to \in Column \ Buffer
    BY ColumnFacts
  <2>2. calls' \in [Caller -> Call] /\ CallsEngaged'
    BY <1>2, <2>1, BeginType, TaskFacts DEF Rework, Step, Verdict
  <2>3. used' \in [Op -> Nat]
    BY <1>2, SpendType DEF Rework, Op
  <2> QED BY <1>2, <2>2, <2>3 DEF Rework, TypeOK, AgentsEngaged
<1>3. ASSUME NEW t \in Task, UpdateFile(c, t)
      PROVE  TypeInv'
  <2>1. [disk[t] EXCEPT !.text = @ + 1] \in TaskState
    <3>1. disk[t] \in TaskState
      BY DEF TypeOK
    <3> QED BY <3>1 DEF TaskState
  <2>2. calls' \in [Caller -> Call] /\ CallsEngaged'
    BY <1>3, <2>1, BeginType DEF UpdateFile, Step, Verdict
  <2>3. disk' \in [Task -> TaskState]
    BY <1>3, <2>1 DEF UpdateFile, TypeOK
  <2>4. used' \in [Op -> Nat]
    BY <1>3, SpendType DEF UpdateFile, Op
  <2> QED BY <1>3, <2>2, <2>3, <2>4 DEF UpdateFile, TypeOK, AgentsEngaged
<1>4. ASSUME NEW t \in Task, NEW p \in Priorities, PrioritizeFile(c, t, p)
      PROVE  TypeInv'
  <2>1. [disk[t] EXCEPT !.priority = p] \in TaskState
    <3>1. disk[t] \in TaskState /\ p \in Nat
      BY DispatcherAssumption DEF TypeOK
    <3> QED BY <3>1 DEF TaskState
  <2>2. calls' \in [Caller -> Call] /\ CallsEngaged'
    BY <1>4, <2>1, BeginType DEF PrioritizeFile, Step, Verdict
  <2>3. disk' \in [Task -> TaskState]
    BY <1>4, <2>1 DEF PrioritizeFile, TypeOK
  <2>4. used' \in [Op -> Nat]
    BY <1>4, SpendType DEF PrioritizeFile, Op
  <2> QED BY <1>4, <2>2, <2>3, <2>4 DEF PrioritizeFile, TypeOK, AgentsEngaged
<1>5. ASSUME NEW i \in DOMAIN queue, Answer(c, i)
      PROVE  TypeInv'
  <2>1. reviews' \in Seq(ReviewFile)
    <3>1. CASE queue[i].id = Fresh
      BY <1>5, <3>1 DEF Answer, TypeOK
    <3>2. CASE queue[i].id # Fresh
      <4>1. reviews' = [reviews EXCEPT ![queue[i].id].status = "answered"]
        BY <1>5, <3>2 DEF Answer
      <4> QED BY <4>1, StampFacts DEF TypeOK
    <3> QED BY <3>1, <3>2
  <2>2. unblocking' \in [Role -> Nat]
    BY <1>5, SMTT(30) DEF Answer, TypeOK
  <2> QED BY <1>5, <2>1, <2>2 DEF Answer, TypeOK, AgentsEngaged, CallsEngaged
<1>6. ASSUME NEW i \in DOMAIN queue, AnswerApproval(c, i)
      PROVE  TypeInv'
  <2>1. used' \in [Op -> Nat]
    BY <1>6, SpendType DEF AnswerApproval, Op
  <2> QED BY <1>6, <2>1 DEF AnswerApproval, TypeOK, AgentsEngaged, CallsEngaged
<1> QED BY <1>1, <1>2, <1>3, <1>4, <1>5, <1>6 DEF Request

\* ... and where they go on.
LEMMA CallStepType ==
    ASSUME TypeInv, NEW c \in Caller, CallStep(c)
    PROVE  TypeInv'
<1> USE DEF TypeInv
<1> DEFINE t == calls[c].task
<1>1. CASE MoveApproved(c)
  <2>1. t \in Task /\ calls[c].to \in Column
    BY <1>1 DEF MoveApproved, CallsEngaged, Verdict
  <2>2. board' \in Board
    BY <1>1, <2>1, AdvanceFacts DEF MoveApproved, TypeOK
  <2>3. calls' \in [Caller -> Call] /\ CallsEngaged'
    BY <1>1, ProceedType DEF MoveApproved, Step, Verdict
  <2> QED BY <1>1, <2>2, <2>3 DEF MoveApproved, TypeOK, AgentsEngaged
<1>2. CASE MoveRejected(c)
  <2> DEFINE moved == SetPriority(Advance(board, t, calls[c].to), t, ReworkPriority)
  <2>1. t \in Task /\ calls[c].to \in Column
    BY <1>2 DEF MoveRejected, CallsEngaged, Verdict
  <2>2. Advance(board, t, calls[c].to) \in Board
    BY <2>1, AdvanceFacts DEF TypeOK
  <2>3. moved \in Board
    BY <2>1, <2>2, SetPriorityFacts DEF ReworkPriority
  <2>4. board' = [moved EXCEPT !.tasks[t].feedback = TRUE]
    BY <1>2 DEF MoveRejected
  <2> HIDE DEF moved
  <2>5. [moved.tasks[t] EXCEPT !.feedback = TRUE] \in TaskState
    <3>1. moved.tasks[t] \in TaskState
      BY <2>1, <2>3 DEF Board
    <3> QED BY <3>1 DEF TaskState
  <2>6. board' = [moved EXCEPT !.tasks[t] = [moved.tasks[t] EXCEPT !.feedback = TRUE]]
    BY <2>4
  <2>7. board' \in Board
    BY <2>1, <2>3, <2>5, <2>6, OverwriteFacts
  <2>8. calls' \in [Caller -> Call] /\ CallsEngaged'
    BY <1>2, ProceedType DEF MoveRejected, Step, Verdict
  <2> QED BY <1>2, <2>7, <2>8 DEF MoveRejected, TypeOK, AgentsEngaged
<1>3. CASE Settle(c)
  <2>1. t \in Task
    BY <1>3 DEF Settle, CallsEngaged
  <2>2. disk' \in [Task -> TaskState]
    BY <1>3, <2>1 DEF Settle, TypeOK, Board
  <2>3. reviews' \in Seq(ReviewFile)
    <3>1. CASE UNCHANGED reviews
      BY <3>1 DEF TypeOK
    <3>2. CASE \E i \in Unresolved(reviews, t) :
                  reviews' = [reviews EXCEPT ![i].status = calls[c].step]
      <4>1. reviews \in Seq(ReviewFile) /\ calls[c].step \in {"open", "approved", "rejected", "answered"}
        BY <1>3 DEF Settle, TypeOK
      <4> DEFINE verdict == calls[c].step
      <4> HIDE DEF verdict
      <4>2. \A i : [reviews EXCEPT ![i].status = verdict] \in Seq(ReviewFile)
        BY <4>1, StampFacts DEF verdict
      <4> QED BY <3>2, <4>2 DEF verdict
    <3> QED BY <1>3, <3>1, <3>2 DEF Settle, Resolve
  <2>4. calls' \in [Caller -> Call] /\ CallsEngaged'
    BY <1>3, EndType DEF Settle
  <2>5. permit' \in [Role -> BOOLEAN]
    BY <1>3, SignalType DEF Settle
  <2> QED BY <1>3, <2>2, <2>3, <2>4, <2>5 DEF Settle, TypeOK, AgentsEngaged
<1>4. CASE UpdateBoard(c)
  <2>1. t \in Task /\ calls[c].copy \in TaskState
    BY <1>4 DEF UpdateBoard, CallsEngaged, TypeOK, Call
  <2>2. board' \in Board
    BY <1>4, <2>1, OverwriteFacts DEF UpdateBoard, TypeOK
  <2>3. calls' \in [Caller -> Call] /\ CallsEngaged'
    BY <1>4, EndType DEF UpdateBoard
  <2> QED BY <1>4, <2>2, <2>3 DEF UpdateBoard, TypeOK, AgentsEngaged
<1>5. CASE PrioritizeBoard(c)
  <2>1. t \in Task /\ calls[c].copy.priority \in Nat
    BY <1>5 DEF PrioritizeBoard, CallsEngaged, TypeOK, Call, TaskState
  <2>2. board' \in Board
    BY <1>5, <2>1, SetPriorityFacts DEF PrioritizeBoard, TypeOK
  <2>3. calls' \in [Caller -> Call] /\ CallsEngaged'
    BY <1>5, EndType DEF PrioritizeBoard
  <2> QED BY <1>5, <2>2, <2>3 DEF PrioritizeBoard, TypeOK, AgentsEngaged
<1> QED BY <1>1, <1>2, <1>3, <1>4, <1>5 DEF CallStep

LEMMA CreateType ==
    ASSUME TypeInv, NEW t \in Task, NEW p \in Nat, Create(t, p)
    PROVE  TypeInv'
<1>1. board' \in Board
  BY TaskFacts, AddTaskFacts DEF Create, TypeInv, TypeOK
<1>2. disk' \in [Task -> TaskState]
  BY TaskFacts DEF Create, TypeInv, TypeOK
<1>3. [type |-> "created", task |-> t] \in Event
  BY DEF Event
<1>4. bus' \in Seq(Event)
  BY <1>3, EmitType DEF Create
<1>5. used' \in [Op -> Nat]
  BY SpendType DEF Create, Op
<1> QED BY <1>1, <1>2, <1>4, <1>5 DEF Create, TypeInv, TypeOK, AgentsEngaged, CallsEngaged

LEMMA TypeStep == TypeInv /\ [Next]_poolVars => TypeInv'
<1> SUFFICES ASSUME TypeInv, [Next]_poolVars PROVE TypeInv'
  OBVIOUS
<1>1. CASE \E r \in Role : AgentStep(r) \/ AgentTool(r) \/ Unblock(r)
  BY <1>1, AgentStepType, AgentToolType, UnblockType
<1>2. CASE \E c \in Caller : Request(c) \/ CallStep(c)
  BY <1>2, RequestType, CallStepType
<1>3. CASE \E t \in Task, p \in Priorities \cup {DefaultPriority} : Create(t, p)
  BY <1>3, CreateType, DispatcherAssumption, TaskFacts
<1>4. CASE Subscribe
  BY <1>4 DEF Subscribe, TypeInv, TypeOK, AgentsEngaged, CallsEngaged
<1>5. CASE RunLoop \/ Lag \/ Crash
  BY <1>5, RunLoopType, LagType, CrashType
<1>6. CASE UNCHANGED poolVars
  BY <1>6 DEF poolVars, TypeInv, TypeOK, AgentsEngaged, CallsEngaged
<1> QED BY <1>1, <1>2, <1>3, <1>4, <1>5, <1>6 DEF Next

LEMMA TypeInvariant == Spec => []TypeInv
BY InitType, TypeStep, PTL DEF Spec

\* Whatever clients, agents and restarts do, every variable keeps its shape:
\* no event, call or file ever names a task or a column that does not exist.
THEOREM TypeCorrect == Spec => []TypeOK
<1>1. TypeInv => TypeOK
  BY DEF TypeInv
<1> QED BY <1>1, TypeInvariant, PTL

-----------------------------------------------------------------------------
(* Buffers stay within their limits.                                       *)
(*                                                                         *)
(* What makes try_advance safe, although it counts under one lock and      *)
(* moves under another, is that a buffer is entered by one agent only:     *)
(* between its count and its move a buffer can only lose tasks.  RoomKept  *)
(* says so, and is what BufferWithinLimit lacks to be inductive.  A reload *)
(* counts nothing, so the limits are claimed up to the first restart.      *)

RoomKept ==
    \A r \in Role : agent[r].pc = "moving" /\ NextColumn(r) \in Buffer =>
        Count(board, NextColumn(r)) < Limit[NextColumn(r)]

LimitInv == TypeInv /\ RoomKept /\ (used["crash"] = 0 => BufferWithinLimit)

-----------------------------------------------------------------------------
(* Every step is of one of these kinds.                                    *)

\* Nothing moves, and no agent gets past its WIP check.
StandsStill ==
    /\ board'.column = board.column
    /\ \A r \in Role : agent'[r].pc = "moving" => agent[r].pc = "moving"

\* A client, or an agent's tool, moves one task to a column that is no buffer.
AvoidsBuffers ==
    /\ agent' = agent
    /\ \E t \in Task, c \in Column \ Buffer : board'.column = [board.column EXCEPT ![t] = c]

LEMMA GotoElsewhere ==
    ASSUME TypeInv, NEW r \in Role, NEW p \in Pc \ {"moving"}, Goto(r, p)
    PROVE  \A q \in Role : agent'[q].pc = "moving" => agent[q].pc = "moving"
BY DEF TypeInv, TypeOK, AgentState, Goto

LEMMA SleepElsewhere ==
    ASSUME TypeInv, NEW r \in Role, Sleep(r)
    PROVE  \A q \in Role : agent'[q].pc = "moving" => agent[q].pc = "moving"
BY DEF TypeInv, TypeOK, AgentState, Sleep, Asleep

LEMMA AgentStepKind ==
    ASSUME TypeInv, NEW r \in Role, AgentStep(r)
    PROVE  StandsStill \/ CheckWip(r) \/ Move(r)
<1>1. CASE Wake(r)
  BY <1>1 DEF Wake, StandsStill, TypeInv, TypeOK
<1>2. CASE WakeInVain(r)
  BY <1>2 DEF WakeInVain, StandsStill
<1>3. CASE Prepare(r)
  <2>1. board'.column = board.column
    BY <1>3 DEF Prepare, TypeInv, TypeOK, Board
  <2> QED BY <1>3, <2>1, GotoElsewhere DEF Prepare, StandsStill, Pc
<1>4. CASE Finish(r) \/ Report(r) \/ Pass(r) \/ Retry(r) \/ GiveUp(r) \/ Escalate(r)
  BY <1>4, GotoElsewhere
     DEF Finish, Report, Pass, Retry, GiveUp, Escalate, StandsStill, Pc
<1>5. CASE Fail(r) \/ Flag(r) \/ Stall(r)
  BY <1>5, SleepElsewhere DEF Fail, Flag, Stall, StandsStill
<1> QED BY <1>1, <1>2, <1>3, <1>4, <1>5 DEF AgentStep

LEMMA AgentToolKind ==
    ASSUME TypeInv, NEW r \in Role, AgentTool(r)
    PROVE  StandsStill \/ AvoidsBuffers
<1>1. CASE AskHuman(r)
  BY <1>1 DEF AskHuman, StandsStill
<1>2. ASSUME NEW blockers \in SUBSET Task, BlockTask(r, blockers)
      PROVE  AvoidsBuffers
  <2> DEFINE t     == agent[r].task
             moved == SetPriority(Advance(board, t, Prioritized), t, ReworkPriority)
  <2>1. t \in Task /\ Prioritized \in Column \ Buffer
    BY <1>2, ColumnFacts DEF BlockTask, TypeInv, AgentsEngaged
  <2>2. /\ Advance(board, t, Prioritized) \in Board
        /\ Advance(board, t, Prioritized).column = [board.column EXCEPT ![t] = Prioritized]
    BY <2>1, AdvanceFacts DEF TypeInv, TypeOK
  <2>3. moved \in Board /\ moved.column = [board.column EXCEPT ![t] = Prioritized]
    BY <2>1, <2>2, SetPriorityFacts DEF ReworkPriority
  <2>4. board' = [moved EXCEPT !.tasks[t].blockedBy = blockers]
    BY <1>2 DEF BlockTask
  <2> HIDE DEF moved
  <2>5. board'.column = moved.column
    BY <2>3, <2>4 DEF Board
  <2>6. agent' = agent
    BY <1>2 DEF BlockTask
  <2> QED BY <2>1, <2>3, <2>5, <2>6 DEF AvoidsBuffers
<1> QED BY <1>1, <1>2 DEF AgentTool

LEMMA RequestKind ==
    ASSUME TypeInv, NEW c \in Caller, Request(c)
    PROVE  StandsStill
BY DEF Request, Approve, Rework, UpdateFile, PrioritizeFile, Answer, AnswerApproval,
       StandsStill

LEMMA CallStepKind ==
    ASSUME TypeInv, NEW c \in Caller, CallStep(c)
    PROVE  StandsStill \/ AvoidsBuffers
<1> DEFINE t == calls[c].task
<1>1. CASE MoveApproved(c)
  <2>1. t \in Task /\ calls[c].to \in Column \ Buffer
    BY <1>1 DEF MoveApproved, TypeInv, CallsEngaged, Verdict
  <2>2. board'.column = [board.column EXCEPT ![t] = calls[c].to] /\ agent' = agent
    BY <1>1, <2>1, AdvanceFacts DEF MoveApproved, TypeInv, TypeOK
  <2> QED BY <2>1, <2>2 DEF AvoidsBuffers
<1>2. CASE MoveRejected(c)
  <2> DEFINE moved == SetPriority(Advance(board, t, calls[c].to), t, ReworkPriority)
  <2>1. t \in Task /\ calls[c].to \in Column \ Buffer
    BY <1>2 DEF MoveRejected, TypeInv, CallsEngaged, Verdict
  <2>2. /\ Advance(board, t, calls[c].to) \in Board
        /\ Advance(board, t, calls[c].to).column = [board.column EXCEPT ![t] = calls[c].to]
    BY <2>1, AdvanceFacts DEF TypeInv, TypeOK
  <2>3. moved \in Board /\ moved.column = [board.column EXCEPT ![t] = calls[c].to]
    BY <2>1, <2>2, SetPriorityFacts DEF ReworkPriority
  <2>4. board' = [moved EXCEPT !.tasks[t].feedback = TRUE] /\ agent' = agent
    BY <1>2 DEF MoveRejected
  <2> HIDE DEF moved
  <2>5. board'.column = moved.column
    BY <2>3, <2>4 DEF Board
  <2> QED BY <2>1, <2>3, <2>4, <2>5 DEF AvoidsBuffers
<1>3. CASE Settle(c)
  BY <1>3 DEF Settle, StandsStill
<1>4. CASE UpdateBoard(c)
  BY <1>4 DEF UpdateBoard, StandsStill, TypeInv, TypeOK, Board
<1>5. CASE PrioritizeBoard(c)
  <2>1. t \in Task /\ calls[c].copy.priority \in Nat
    BY <1>5 DEF PrioritizeBoard, TypeInv, CallsEngaged, TypeOK, Call, TaskState
  <2> QED BY <1>5, <2>1, SetPriorityFacts DEF PrioritizeBoard, StandsStill, TypeInv, TypeOK
<1> QED BY <1>1, <1>2, <1>3, <1>4, <1>5 DEF CallStep

LEMMA CreateKind ==
    ASSUME TypeInv, NEW t \in Task, NEW p \in Nat, Create(t, p)
    PROVE  AvoidsBuffers
<1>1. Prioritized \in Column \ Buffer
  BY ColumnFacts
<1>2. board'.column = [board.column EXCEPT ![t] = Prioritized]
  <2>1. NewTask(p) \in TaskState /\ NewTask(p).stage = Prioritized
    BY TaskFacts
  <2>2. AddTask(board, t, NewTask(p)).column = [board.column EXCEPT ![t] = Prioritized]
    BY <2>1, AddTaskFacts DEF TypeInv, TypeOK
  <2> QED BY <2>2 DEF Create
<1> QED BY <1>1, <1>2 DEF AvoidsBuffers, Create

LEMMA StepKind ==
    ASSUME TypeInv, [Next]_poolVars
    PROVE  \/ StandsStill \/ AvoidsBuffers \/ Crash
           \/ \E r \in Role : CheckWip(r) \/ Move(r)
<1>1. CASE \E r \in Role : AgentStep(r) \/ AgentTool(r) \/ Unblock(r)
  <2>1. ASSUME NEW r \in Role, Unblock(r)
        PROVE  StandsStill
    BY <2>1 DEF Unblock, StandsStill
  <2> QED BY <1>1, <2>1, AgentStepKind, AgentToolKind
<1>2. CASE \E c \in Caller : Request(c) \/ CallStep(c)
  BY <1>2, RequestKind, CallStepKind
<1>3. CASE \E t \in Task, p \in Priorities \cup {DefaultPriority} : Create(t, p)
  BY <1>3, CreateKind, DispatcherAssumption, TaskFacts
<1>4. CASE Subscribe \/ RunLoop \/ Lag
  BY <1>4 DEF Subscribe, RunLoop, Lag, OnTaskCreated, OnTaskEntersWork,
              OnTaskEntersBuffer, OnTaskDone, OnAgentBlocked, StandsStill
<1>5. CASE UNCHANGED poolVars
  BY <1>5 DEF poolVars, StandsStill
<1> QED BY <1>1, <1>2, <1>3, <1>4, <1>5 DEF Next

\* The number of restarts so far only grows; a restart makes it positive.
LEMMA RestartsGrow ==
    ASSUME TypeInv, [Next]_poolVars, used'["crash"] = 0
    PROVE  used["crash"] = 0 /\ ~Crash
<1>1. \A op \in Op : used[op] \in Nat
  BY DEF TypeInv, TypeOK
<1>2. "crash" \in Op
  BY DEF Op
<1>3. ~Crash
  BY <1>1, <1>2 DEF Crash, Spend, TypeInv, TypeOK
<1>4. used' = used \/ \E op \in Op : Spend(op)
  <2>1. ASSUME NEW r \in Role, AgentStep(r) \/ AgentTool(r) \/ Unblock(r)
        PROVE  used' = used \/ \E op \in Op : Spend(op)
    BY <2>1 DEF Op, AgentStep, Wake, WakeInVain, Prepare, Finish, Fail, Report, Pass,
                Retry, GiveUp, Escalate, Flag, CheckWip, Stall, Move, AgentTool,
                AskHuman, BlockTask, Unblock
  <2>2. ASSUME NEW c \in Caller, Request(c) \/ CallStep(c)
        PROVE  used' = used \/ \E op \in Op : Spend(op)
    BY <2>2 DEF Op, Request, Approve, Rework, UpdateFile, PrioritizeFile, Answer,
                AnswerApproval, CallStep, MoveApproved, MoveRejected, Settle,
                UpdateBoard, PrioritizeBoard
  <2>3. ASSUME \/ \E t \in Task, p \in Priorities \cup {DefaultPriority} : Create(t, p)
               \/ Subscribe \/ RunLoop \/ Lag \/ UNCHANGED poolVars
        PROVE  used' = used \/ \E op \in Op : Spend(op)
    BY <2>3 DEF Op, Create, Subscribe, RunLoop, OnTaskCreated, OnTaskEntersWork,
                OnTaskEntersBuffer, OnTaskDone, OnAgentBlocked, Lag, poolVars
  <2> QED BY <1>3, <2>1, <2>2, <2>3 DEF Next
<1>5. used["crash"] <= used'["crash"]
  <2>1. ASSUME NEW op \in Op, Spend(op)
        PROVE  used'["crash"] = used["crash"] \/ used'["crash"] = used["crash"] + 1
    BY <1>2, <2>1 DEF Spend, TypeInv, TypeOK
  <2> QED BY <1>1, <1>2, <1>4, <2>1
<1> QED BY <1>1, <1>2, <1>3, <1>5

\* No step takes the place an agent has checked for; and none but a restart
\* fills a buffer beyond its limit.
LEMMA RoomStep ==
    ASSUME TypeInv, RoomKept, [Next]_poolVars
    PROVE  RoomKept' /\ (BufferWithinLimit /\ ~Crash => BufferWithinLimit')
<1>1. TypeInv'
  BY TypeStep
<1>2. board \in Board /\ board' \in Board
  BY <1>1 DEF TypeInv, TypeOK
<1>3. \A c : Count(board, c) \in Nat /\ Count(board', c) \in Nat
  BY CountType
<1>4. \A c \in Buffer : Limit[c] \in Nat
  BY PoolAssumption, ColumnFacts
<1>5. CASE StandsStill
  <2>1. \A c : Count(board', c) = Count(board, c)
    BY <1>2, <1>5, CountSame DEF StandsStill
  <2> QED BY <1>5, <2>1 DEF StandsStill, BufferWithinLimit, RoomKept
<1>6. CASE AvoidsBuffers
  <2>1. PICK t \in Task, d \in Column \ Buffer : board'.column = [board.column EXCEPT ![t] = d]
    BY <1>6 DEF AvoidsBuffers
  <2>2. \A c \in Buffer : Count(board', c) <= Count(board, c)
    BY <1>2, <2>1, CountAfterMove
  <2> QED BY <1>3, <1>4, <1>6, <2>2 DEF AvoidsBuffers, BufferWithinLimit, RoomKept
<1>7. ASSUME NEW r \in Role, CheckWip(r)
      PROVE  RoomKept' /\ (BufferWithinLimit => BufferWithinLimit')
  <2>1. board' = board /\ (agent'[r].pc = "moving" =>
                               Count(board, NextColumn(r)) < Limit[NextColumn(r)])
    BY <1>7 DEF CheckWip, Goto, TypeInv, TypeOK, AgentState
  <2>2. \A q \in Role : q # r => agent'[q] = agent[q]
    BY <1>7 DEF CheckWip, Goto, TypeInv, TypeOK
  <2> QED BY <2>1, <2>2 DEF BufferWithinLimit, RoomKept
<1>8. ASSUME NEW r \in Role, Move(r)
      PROVE  RoomKept' /\ (BufferWithinLimit => BufferWithinLimit')
  <2> DEFINE n == NextColumn(r)
  <2>1. agent[r].task \in Task /\ n \in Column
    BY <1>8, ColumnFacts DEF Move, TypeInv, AgentsEngaged
  <2>2. board'.column = [board.column EXCEPT ![agent[r].task] = n]
    BY <1>2, <1>8, <2>1, AdvanceFacts DEF Move
  <2>3. Count(board', n) <= Count(board, n) + 1 /\ \A c : c # n => Count(board', c) <= Count(board, c)
    BY <1>2, <2>1, <2>2, CountAfterMove
  <2>4. n \in Buffer => Count(board, n) < Limit[n]
    BY <1>8 DEF Move, RoomKept
  <2>5. agent'[r].pc # "moving" /\ \A q \in Role : q # r => agent'[q] = agent[q]
    BY <1>8 DEF Move, Sleep, Asleep, TypeInv, TypeOK
  <2>6. \A q \in Role : q # r => NextColumn(q) # n
    BY OneEntrant
  <2> HIDE DEF n
  <2>7. BufferWithinLimit => BufferWithinLimit'
    BY <1>3, <1>4, <2>3, <2>4 DEF BufferWithinLimit
  <2>8. RoomKept'
    BY <1>3, <1>4, <2>3, <2>5, <2>6 DEF RoomKept
  <2> QED BY <2>7, <2>8
<1>9. CASE Crash
  <2>1. \A r \in Role : agent'[r].pc = "asleep"
    BY <1>9 DEF Crash, Asleep
  <2> QED BY <1>9, <2>1 DEF RoomKept
<1> QED BY <1>5, <1>6, <1>7, <1>8, <1>9, StepKind

LEMMA LimitStep == LimitInv /\ [Next]_poolVars => LimitInv'
<1> SUFFICES ASSUME LimitInv, [Next]_poolVars PROVE LimitInv'
  OBVIOUS
<1>1. TypeInv' /\ RoomKept' /\ (BufferWithinLimit /\ ~Crash => BufferWithinLimit')
  BY TypeStep, RoomStep DEF LimitInv
<1>2. used'["crash"] = 0 => BufferWithinLimit /\ ~Crash
  BY RestartsGrow DEF LimitInv
<1> QED BY <1>1, <1>2 DEF LimitInv

\* While an agent is past its WIP check its target keeps a free place,
\* whatever the disk held at the start.
LEMMA RoomIsKept == Spec => [](TypeInv /\ RoomKept)
<1>1. Init => TypeInv /\ RoomKept
  <2> SUFFICES ASSUME Init PROVE RoomKept
    BY InitType
  <2>1. \A r \in Role : agent[r].pc = "asleep"
    BY DEF Init, Start, Asleep
  <2> QED BY <2>1 DEF RoomKept
<1>2. TypeInv /\ RoomKept /\ [Next]_poolVars => (TypeInv /\ RoomKept)'
  BY TypeStep, RoomStep
<1> QED BY <1>1, <1>2, PTL DEF Spec

\* If the stored tasks fit, no buffer ever holds more tasks than its limit
\* until the daemon restarts: for any number of clients approving, reworking,
\* blocking and editing tasks while the six agents advance them.
THEOREM BuffersKeepLimits ==
    ASSUME \A d \in InitDisks : \A c \in Buffer :
              Cardinality({t \in Task : d[t].stage = c}) <= Limit[c]
    PROVE  Spec => [](used["crash"] = 0 => BufferWithinLimit)
<1>1. Init => LimitInv
  <2> SUFFICES ASSUME Init PROVE BufferWithinLimit /\ RoomKept
    BY InitType DEF LimitInv
  <2>1. disk \in InitDisks /\ disk \in [Task -> TaskState]
    BY DispatcherAssumption DEF Init, Start
  <2>2. board.column = [t \in Task |-> disk[t].stage]
    BY <2>1, FromTasksFacts DEF Init, Start
  <2>3. \A c : Count(board, c) = Cardinality({t \in Task : disk[t].stage = c})
    BY <2>2 DEF Count, TasksIn
  <2>4. BufferWithinLimit
    BY <2>1, <2>3 DEF BufferWithinLimit
  <2>5. \A r \in Role : agent[r].pc = "asleep"
    BY DEF Init, Start, Asleep
  <2> QED BY <2>4, <2>5 DEF RoomKept
<1>2. LimitInv => (used["crash"] = 0 => BufferWithinLimit)
  BY DEF LimitInv
<1> QED BY <1>1, <1>2, LimitStep, PTL DEF Spec

-----------------------------------------------------------------------------
(* Columns stay sorted.                                                    *)
(*                                                                         *)
(* gitzi_update_task overwrites the board's copy of a task, priority       *)
(* included, and sorts nothing; without it every change of a priority or a *)
(* column is followed by a sort of the column concerned.  That add_task    *)
(* never meets a task that is on the board already is what OnBoard says:   *)
(* nothing that is written makes a file of a task that exists look absent. *)

NoUpdates == Budget["update"] = 0

OnBoard ==
    /\ \A t \in Task : disk[t].stage = Absent <=> board.column[t] = Absent
    /\ \A r \in Role : agent[r].pc # "asleep" => board.column[agent[r].task] # Absent
    /\ \A r \in Role : agent[r].pc = "picked" => agent[r].copy.stage # Absent
    /\ \A c \in Caller : calls[c].step # "none" => board.column[calls[c].task] # Absent
    /\ \A c \in Caller : calls[c].step # "update"

OrderInv == TypeInv /\ InOrder(board) /\ OnBoard

\* Steps that begin nothing: whoever is at work on a task was so before.
Continues ==
    /\ \A t \in Task : board'.column[t] = Absent <=> board.column[t] = Absent
    /\ \A t \in Task : disk'[t].stage = Absent <=> disk[t].stage = Absent
    /\ \A r \in Role : agent'[r].pc # "asleep" =>
          /\ agent[r].pc # "asleep" /\ agent'[r].task = agent[r].task
          /\ agent'[r].pc = "picked" => agent'[r] = agent[r]
    /\ \A c \in Caller : calls'[c].step # "none" =>
          /\ calls[c].step # "none" /\ calls'[c].task = calls[c].task
          /\ calls'[c].step # "update" \/ calls'[c] = calls[c]

LEMMA ContinuesOnBoard ==
    ASSUME TypeInv, OnBoard, Continues
    PROVE  OnBoard'
<1>1. /\ \A r \in Role : agent[r].pc # "asleep" => agent[r].task \in Task
      /\ \A c \in Caller : calls[c].step # "none" => calls[c].task \in Task
  BY DEF TypeInv, AgentsEngaged, CallsEngaged
<1> QED BY <1>1 DEF OnBoard, Continues

LEMMA GotoContinues ==
    ASSUME TypeInv, NEW r \in Role, NEW p \in Pc \ {"picked"}, agent[r].pc # "asleep", Goto(r, p)
    PROVE  \A q \in Role : agent'[q].pc # "asleep" =>
              /\ agent[q].pc # "asleep" /\ agent'[q].task = agent[q].task
              /\ agent'[q].pc = "picked" => agent'[q] = agent[q]
BY DEF Goto, TypeInv, TypeOK, AgentState

LEMMA SleepContinues ==
    ASSUME TypeInv, NEW r \in Role, Sleep(r)
    PROVE  \A q \in Role : agent'[q].pc # "asleep" => agent[q].pc # "asleep" /\ agent'[q] = agent[q]
BY DEF Sleep, Asleep, TypeInv, TypeOK

\* A move from column to column takes no task off the board.
LEMMA MovedOnBoard ==
    ASSUME NEW b \in Board, NEW t \in Task, b.column[t] # Absent, NEW c \in Column,
           NEW a, a.column = [b.column EXCEPT ![t] = c]
    PROVE  \A u \in Task : a.column[u] = Absent <=> b.column[u] = Absent
BY ColumnFacts DEF Board

\* Sending a task somewhere at the highest priority, and then changing one more
\* field of it, is what gitzi_block_task and reject_to do.
LEMMA SentInOrder ==
    ASSUME NEW b \in Board, InOrder(b), NEW t \in Task, NEW c \in Column, NEW a,
           a.column = SetPriority(Advance(b, t, c), t, ReworkPriority).column,
           a.ahead = SetPriority(Advance(b, t, c), t, ReworkPriority).ahead,
           \A u \in Task :
              LET s == SetPriority(Advance(b, t, c), t, ReworkPriority).tasks[u]
              IN  a.tasks[u].stage = s.stage /\ a.tasks[u].priority = s.priority
    PROVE  InOrder(a) /\ a.column = [b.column EXCEPT ![t] = c]
<1> DEFINE moved == Advance(b, t, c)
           sent  == SetPriority(moved, t, ReworkPriority)
<1>1. moved \in Board /\ InOrder(moved) /\ moved.column = [b.column EXCEPT ![t] = c]
  BY AdvanceFacts, AdvanceSorts
<1>2. moved.column[t] # Absent
  BY <1>1, ColumnFacts DEF Board
<1> HIDE DEF moved
<1>3. sent \in Board /\ InOrder(sent) /\ sent.column = moved.column
  BY <1>1, <1>2, SetPriorityFacts, SetPrioritySorts DEF ReworkPriority
<1>4. /\ a.column = sent.column /\ a.ahead = sent.ahead
      /\ \A u \in Task : /\ a.tasks[u].stage = sent.tasks[u].stage
                         /\ a.tasks[u].priority = sent.tasks[u].priority
  BY DEF moved
<1> HIDE DEF sent
<1> QED BY <1>1, <1>3, <1>4, LikewiseInOrder

LEMMA AgentStepOrder ==
    ASSUME OrderInv, NEW r \in Role, AgentStep(r)
    PROVE  InOrder(board)' /\ OnBoard'
<1> DEFINE t == agent[r].task
<1> USE DEF OrderInv
<1>a. board \in Board /\ disk \in [Task -> TaskState]
  BY DEF TypeInv, TypeOK
<1>1. CASE Wake(r)
  <2>1. PICK u \in NextUnblocked(board, r) :
           agent' = [agent EXCEPT ![r] =
                        [pc |-> "picked", task |-> u, copy |-> board.tasks[u]]]
    BY <1>1 DEF Wake
  <2>2. u \in Task /\ board.column[u] = r /\ board.tasks[u].stage = r /\ r # Absent
    BY ColumnFacts DEF NextUnblocked, TasksIn, InOrder
  <2>3. UNCHANGED <<board, disk, calls>>
    BY <1>1 DEF Wake
  <2> QED BY <2>1, <2>2, <2>3 DEF OnBoard, TypeInv, TypeOK
<1>2. CASE Prepare(r)
  <2>1. t \in Task /\ agent[r].copy \in TaskState /\ agent[r].copy.stage # Absent
        /\ board.column[t] # Absent
    BY <1>2 DEF Prepare, TypeInv, AgentsEngaged, TypeOK, AgentState, OnBoard
  <2>2. CASE agent[r].copy.branch
    <3>1. board' = board /\ disk' = disk
      BY <1>2, <2>2 DEF Prepare
    <3> QED BY <1>2, <3>1, GotoContinues, ContinuesOnBoard DEF Prepare, Continues, Pc
  <2>3. CASE ~agent[r].copy.branch
    <3>1. /\ board' = [board EXCEPT !.tasks[t].branch = TRUE]
          /\ disk' = [disk EXCEPT ![t] = [agent[r].copy EXCEPT !.branch = TRUE]]
      BY <1>2, <2>3 DEF Prepare
    <3>2. /\ board'.column = board.column /\ board'.ahead = board.ahead
          /\ \A u \in Task : /\ board'.tasks[u].stage = board.tasks[u].stage
                             /\ board'.tasks[u].priority = board.tasks[u].priority
      BY <1>a, <2>1, <3>1 DEF Board, TaskState
    <3>3. [agent[r].copy EXCEPT !.branch = TRUE].stage = agent[r].copy.stage
      BY <2>1 DEF TaskState
    <3>4. \A u \in Task : disk'[u].stage = Absent <=> disk[u].stage = Absent
      BY <1>a, <2>1, <3>1, <3>3 DEF OnBoard
    <3>5. OnBoard'
      BY <1>2, <3>2, <3>4, GotoContinues, ContinuesOnBoard DEF Prepare, Continues, Pc
    <3>6. InOrder(board')
      BY <1>a, <3>2, LikewiseInOrder
    <3> QED BY <3>5, <3>6
  <2> QED BY <2>2, <2>3
<1>3. CASE Report(r)
  <2>1. t \in Task /\ board.column[t] # Absent
    BY <1>3 DEF Report, TypeInv, AgentsEngaged, OnBoard
  <2>2. \A u \in Task : disk'[u].stage = Absent <=> disk[u].stage = Absent
    BY <1>3, <1>a, <2>1 DEF Report, InOrder, OnBoard
  <2>3. OnBoard'
    BY <1>3, <2>2, GotoContinues, ContinuesOnBoard DEF Report, Continues, Pc
  <2> QED BY <1>3, <2>3 DEF Report
<1>4. CASE Move(r)
  <2>1. t \in Task /\ NextColumn(r) \in Column /\ board.column[t] # Absent
    BY <1>4, ColumnFacts DEF Move, TypeInv, AgentsEngaged, OnBoard
  <2>2. /\ board' = Advance(board, t, NextColumn(r))
        /\ InOrder(board') /\ board'.column = [board.column EXCEPT ![t] = NextColumn(r)]
    BY <1>4, <1>a, <2>1, AdvanceFacts, AdvanceSorts DEF Move
  <2>3. OnBoard'
    BY <1>4, <1>a, <2>1, <2>2, MovedOnBoard, SleepContinues, ContinuesOnBoard
       DEF Move, Continues
  <2> QED BY <2>2, <2>3
<1>5. CASE Finish(r) \/ Pass(r) \/ Retry(r) \/ GiveUp(r) \/ Escalate(r) \/ CheckWip(r)
  <2>1. Continues /\ board' = board
    BY <1>5, GotoContinues
       DEF Finish, Pass, Retry, GiveUp, Escalate, CheckWip, Continues, Pc
  <2> QED BY <2>1, ContinuesOnBoard
<1>6. CASE Fail(r) \/ Flag(r) \/ Stall(r)
  <2>1. Continues /\ board' = board
    BY <1>6, SleepContinues DEF Fail, Flag, Stall, Continues
  <2> QED BY <2>1, ContinuesOnBoard
<1>7. CASE WakeInVain(r)
  BY <1>7, ContinuesOnBoard DEF WakeInVain, Continues
<1> QED BY <1>1, <1>2, <1>3, <1>4, <1>5, <1>6, <1>7 DEF AgentStep

LEMMA AgentToolOrder ==
    ASSUME OrderInv, NEW r \in Role, AgentTool(r) \/ Unblock(r)
    PROVE  InOrder(board)' /\ OnBoard'
<1> DEFINE t == agent[r].task
<1> USE DEF OrderInv
<1>1. CASE AskHuman(r) \/ Unblock(r)
  <2>1. Continues /\ board' = board
    BY <1>1 DEF AskHuman, Unblock, Continues
  <2> QED BY <2>1, ContinuesOnBoard
<1>2. ASSUME NEW blockers \in SUBSET Task, BlockTask(r, blockers)
      PROVE  InOrder(board)' /\ OnBoard'
  <2> DEFINE moved == SetPriority(Advance(board, t, Prioritized), t, ReworkPriority)
  <2>1. t \in Task /\ board.column[t] # Absent /\ board \in Board
    BY <1>2 DEF BlockTask, TypeInv, TypeOK, AgentsEngaged
  <2>2. Prioritized \in Column
    BY ColumnFacts
  <2>3. moved \in Board
    BY <2>1, <2>2, AdvanceFacts, SetPriorityFacts DEF ReworkPriority
  <2>4. board' = [moved EXCEPT !.tasks[t].blockedBy = blockers]
    BY <1>2 DEF BlockTask
  <2>5. /\ board'.column = moved.column /\ board'.ahead = moved.ahead
        /\ \A u \in Task : /\ board'.tasks[u].stage = moved.tasks[u].stage
                           /\ board'.tasks[u].priority = moved.tasks[u].priority
    <3> HIDE DEF moved
    <3> QED BY <2>1, <2>3, <2>4 DEF Board, TaskState
  <2>6. InOrder(board') /\ board'.column = [board.column EXCEPT ![t] = Prioritized]
    BY <2>1, <2>2, <2>5, SentInOrder
  <2> HIDE DEF moved
  <2>7. \A u \in Task : board'.column[u] = Absent <=> board.column[u] = Absent
    BY <2>1, <2>2, <2>6, MovedOnBoard
  <2>8. board'.tasks[t].stage # Absent
    BY <2>1, <2>2, <2>6, ColumnFacts DEF InOrder, Board
  <2>9. disk' = [disk EXCEPT ![t] = board'.tasks[t]] /\ disk \in [Task -> TaskState]
    BY <1>2 DEF BlockTask, TypeInv, TypeOK
  <2>10. \A u \in Task : disk'[u].stage = Absent <=> disk[u].stage = Absent
    BY <2>1, <2>8, <2>9 DEF OnBoard
  <2>11. Continues
    BY <1>2, <2>7, <2>10 DEF BlockTask, Continues
  <2> QED BY <2>6, <2>11, ContinuesOnBoard
<1> QED BY <1>1, <1>2 DEF AgentTool

LEMMA RequestOrder ==
    ASSUME OrderInv, NoUpdates, NEW c \in Caller, Request(c)
    PROVE  InOrder(board)' /\ OnBoard'
<1> USE DEF OrderInv
<1>a. disk \in [Task -> TaskState] /\ calls \in [Caller -> Call] /\ used["update"] \in Nat
  BY DEF TypeInv, TypeOK, Op
<1>1. ASSUME NEW t \in Task, NEW step \in Step \ {"update"}, NEW to, NEW copy,
             Begin(c, step, t, to, copy), UNCHANGED <<board, agent>>,
             \A u \in Task : disk'[u].stage = disk[u].stage, board.column[t] # Absent
      PROVE  InOrder(board)' /\ OnBoard'
  <2>1. calls' = [calls EXCEPT ![c] = [step |-> step, task |-> t, to |-> to, copy |-> copy]]
    BY <1>1 DEF Begin
  <2> QED BY <1>1, <1>a, <2>1 DEF OnBoard
<1>2. ASSUME NEW t \in Task, Approve(c, t) \/ \E to \in Role : Rework(c, t, to)
      PROVE  InOrder(board)' /\ OnBoard'
  <2>1. board.column[t] # Absent
    BY <1>2, ColumnFacts DEF Approve, Rework
  <2> QED BY <1>1, <1>2, <2>1 DEF Approve, Rework, Step
<1>3. ASSUME NEW t \in Task, UpdateFile(c, t)
      PROVE  FALSE
  BY <1>3, <1>a DEF UpdateFile, Spend, NoUpdates
<1>4. ASSUME NEW t \in Task, NEW p \in Priorities, PrioritizeFile(c, t, p)
      PROVE  InOrder(board)' /\ OnBoard'
  <2> DEFINE edited == [disk[t] EXCEPT !.priority = p]
  <2>1. edited.stage = disk[t].stage
    BY <1>a DEF TaskState
  <2>2. disk' = [disk EXCEPT ![t] = edited] /\ Begin(c, "prioritize", t, Absent, edited)
    BY <1>4 DEF PrioritizeFile
  <2> HIDE DEF edited
  <2>3. \A u \in Task : disk'[u].stage = disk[u].stage
    BY <1>a, <2>1, <2>2
  <2>4. board.column[t] # Absent
    BY <1>4 DEF PrioritizeFile, OnBoard
  <2> QED BY <1>1, <1>4, <2>2, <2>3, <2>4 DEF PrioritizeFile, Step
<1>5. ASSUME NEW i \in DOMAIN queue, Answer(c, i) \/ AnswerApproval(c, i)
      PROVE  InOrder(board)' /\ OnBoard'
  <2>1. Continues /\ board' = board
    BY <1>5 DEF Answer, AnswerApproval, Continues
  <2> QED BY <2>1, ContinuesOnBoard
<1> QED BY <1>2, <1>3, <1>4, <1>5 DEF Request

LEMMA CallStepOrder ==
    ASSUME OrderInv, NEW c \in Caller, CallStep(c)
    PROVE  InOrder(board)' /\ OnBoard'
<1> DEFINE t == calls[c].task
<1> USE DEF OrderInv
<1>a. board \in Board /\ disk \in [Task -> TaskState] /\ calls \in [Caller -> Call]
  BY DEF TypeInv, TypeOK
<1>b. t \in Task /\ board.column[t] # Absent
  BY DEF CallStep, MoveApproved, MoveRejected, Settle, UpdateBoard, PrioritizeBoard,
         TypeInv, CallsEngaged, OnBoard
<1>c. ASSUME NEW step \in Step \ {"update"}, calls[c].step # "none", calls' = [calls EXCEPT ![c].step = step],
             UNCHANGED <<disk, agent>>,
             \A u \in Task : board'.column[u] = Absent <=> board.column[u] = Absent
      PROVE  OnBoard'
  <2>1. Continues
    BY <1>a, <1>c DEF Continues, Call
  <2> QED BY <2>1, ContinuesOnBoard
<1>d. ASSUME End(c), UNCHANGED agent, board'.column = board.column,
             \A u \in Task : disk'[u].stage = Absent <=> disk[u].stage = Absent
      PROVE  OnBoard'
  <2>1. Continues
    BY <1>a, <1>d DEF Continues, End, NoCall
  <2> QED BY <2>1, ContinuesOnBoard
<1>1. CASE MoveApproved(c)
  <2>1. calls[c].to \in Column
    BY <1>1 DEF MoveApproved, TypeInv, CallsEngaged, Verdict
  <2>2. InOrder(board') /\ board'.column = [board.column EXCEPT ![t] = calls[c].to]
    BY <1>1, <1>a, <1>b, <2>1, AdvanceFacts, AdvanceSorts DEF MoveApproved
  <2>3. \A u \in Task : board'.column[u] = Absent <=> board.column[u] = Absent
    BY <1>a, <1>b, <2>1, <2>2, MovedOnBoard
  <2> QED BY <1>1, <1>c, <2>2, <2>3 DEF MoveApproved, Step
<1>2. CASE MoveRejected(c)
  <2> DEFINE moved == SetPriority(Advance(board, t, calls[c].to), t, ReworkPriority)
  <2>1. calls[c].to \in Column
    BY <1>2 DEF MoveRejected, TypeInv, CallsEngaged, Verdict
  <2>2. moved \in Board
    BY <1>a, <1>b, <2>1, AdvanceFacts, SetPriorityFacts DEF ReworkPriority
  <2>3. board' = [moved EXCEPT !.tasks[t].feedback = TRUE]
    BY <1>2 DEF MoveRejected
  <2>4. /\ board'.column = moved.column /\ board'.ahead = moved.ahead
        /\ \A u \in Task : /\ board'.tasks[u].stage = moved.tasks[u].stage
                           /\ board'.tasks[u].priority = moved.tasks[u].priority
    <3> HIDE DEF moved
    <3> QED BY <1>b, <2>2, <2>3 DEF Board, TaskState
  <2>5. InOrder(board') /\ board'.column = [board.column EXCEPT ![t] = calls[c].to]
    BY <1>a, <1>b, <2>1, <2>4, SentInOrder
  <2> HIDE DEF moved
  <2>6. \A u \in Task : board'.column[u] = Absent <=> board.column[u] = Absent
    BY <1>a, <1>b, <2>1, <2>5, MovedOnBoard
  <2> QED BY <1>2, <1>c, <2>5, <2>6 DEF MoveRejected, Step
<1>3. CASE Settle(c)
  <2>1. \A u \in Task : disk'[u].stage = Absent <=> disk[u].stage = Absent
    BY <1>3, <1>a, <1>b DEF Settle, InOrder, OnBoard
  <2> QED BY <1>3, <1>d, <2>1 DEF Settle
<1>4. CASE UpdateBoard(c)
  BY <1>4 DEF UpdateBoard, OnBoard
<1>5. CASE PrioritizeBoard(c)
  <2>1. calls[c].copy.priority \in Nat
    BY <1>a DEF Call, TaskState
  <2>2. InOrder(board') /\ board'.column = board.column
    BY <1>5, <1>a, <1>b, <2>1, SetPriorityFacts, SetPrioritySorts DEF PrioritizeBoard
  <2> QED BY <1>5, <1>d, <2>2 DEF PrioritizeBoard
<1> QED BY <1>1, <1>2, <1>3, <1>4, <1>5 DEF CallStep

LEMMA CreateOrder ==
    ASSUME OrderInv, NEW t \in Task, NEW p \in Nat, Create(t, p)
    PROVE  InOrder(board)' /\ OnBoard'
<1> USE DEF OrderInv
<1>1. NewTask(p) \in TaskState /\ NewTask(p).stage = Prioritized /\ Prioritized \in Column
      /\ Prioritized # Absent
  BY TaskFacts, ColumnFacts
<1>2. board \in Board /\ disk \in [Task -> TaskState] /\ board.column[t] = Absent
  BY DEF Create, TypeInv, TypeOK, OnBoard
<1>3. board' = AddTask(board, t, NewTask(p)) /\ disk' = [disk EXCEPT ![t] = NewTask(p)]
      /\ UNCHANGED <<agent, calls>>
  BY DEF Create
<1>4. InOrder(board') /\ board'.column = [board.column EXCEPT ![t] = Prioritized]
  BY <1>1, <1>2, <1>3, AddTaskFacts, AddTaskSorts
<1>5. /\ \A r \in Role : agent[r].pc # "asleep" => agent[r].task \in Task
      /\ \A c \in Caller : calls[c].step # "none" => calls[c].task \in Task
  BY DEF TypeInv, AgentsEngaged, CallsEngaged
<1>6. OnBoard'
  BY <1>1, <1>2, <1>3, <1>4, <1>5 DEF OnBoard, Board
<1> QED BY <1>4, <1>6

LEMMA BootOrder ==
    ASSUME NEW load \in LoadOrder, disk \in [Task -> TaskState],
           board = FromTasks(disk, load), agent = [r \in Role |-> Asleep],
           calls = [c \in Caller |-> NoCall]
    PROVE  InOrder(board) /\ OnBoard
<1>1. InOrder(board) /\ board.column = [t \in Task |-> disk[t].stage]
  BY FromTasksFacts, FromTasksSorts
<1> QED BY <1>1 DEF OnBoard, Asleep, NoCall

LEMMA CrashOrder ==
    ASSUME OrderInv, Crash
    PROVE  InOrder(board)' /\ OnBoard'
<1>1. PICK load \in LoadOrder : board' = FromTasks(disk, load)
  BY DEF Crash
<1>2. disk \in [Task -> TaskState] /\ disk' = disk
  BY DEF Crash, OrderInv, TypeInv, TypeOK
<1>3. InOrder(board') /\ board'.column = [t \in Task |-> disk[t].stage]
  BY <1>1, <1>2, FromTasksFacts, FromTasksSorts
<1> QED BY <1>2, <1>3 DEF Crash, OnBoard, Asleep, NoCall

LEMMA OrderStep ==
    ASSUME NoUpdates, OrderInv, [Next]_poolVars
    PROVE  OrderInv'
<1>1. TypeInv'
  BY TypeStep DEF OrderInv
<1>2. CASE \E r \in Role : AgentStep(r) \/ AgentTool(r) \/ Unblock(r)
  BY <1>1, <1>2, AgentStepOrder, AgentToolOrder DEF OrderInv
<1>3. CASE \E c \in Caller : Request(c) \/ CallStep(c)
  BY <1>1, <1>3, RequestOrder, CallStepOrder DEF OrderInv
<1>4. CASE \E t \in Task, p \in Priorities \cup {DefaultPriority} : Create(t, p)
  BY <1>1, <1>4, CreateOrder, DispatcherAssumption, TaskFacts DEF OrderInv
<1>5. CASE Subscribe \/ RunLoop \/ Lag \/ UNCHANGED poolVars
  <2>1. Continues /\ board' = board
    BY <1>5 DEF Subscribe, RunLoop, Lag, OnTaskCreated, OnTaskEntersWork,
                OnTaskEntersBuffer, OnTaskDone, OnAgentBlocked, poolVars, Continues
  <2> QED BY <1>1, <2>1, ContinuesOnBoard DEF OrderInv
<1>6. CASE Crash
  BY <1>1, <1>6, CrashOrder DEF OrderInv
<1> QED BY <1>2, <1>3, <1>4, <1>5, <1>6 DEF Next

LEMMA OrderInvariant ==
    ASSUME NoUpdates
    PROVE  Spec => []OrderInv
<1>1. Init => OrderInv
  <2> SUFFICES ASSUME Init PROVE OrderInv
    OBVIOUS
  <2>1. TypeInv /\ disk \in [Task -> TaskState]
    BY InitType DEF TypeInv, TypeOK
  <2> QED BY <2>1, BootOrder DEF Init, Start, OrderInv
<1>2. OrderInv /\ [Next]_poolVars => OrderInv'
  BY OrderStep
<1> QED BY <1>1, <1>2, PTL DEF Spec

\* As long as nobody edits a task over MCP, every column of the board stands
\* in one order, by priority, so that an agent takes the most urgent task:
\* for any number of clients, with blocks, reworks, new tasks and restarts.
THEOREM ColumnsStaySorted ==
    ASSUME NoUpdates
    PROVE  Spec => []ColumnsSorted
<1>1. OrderInv => ColumnsSorted
  <2> SUFFICES ASSUME OrderInv, NEW t \in Task, NEW u \in Task, t # u,
                      board.column[t] = board.column[u], board.column[t] # Absent
               PROVE  /\ <<t, u>> \in board.ahead <=> <<u, t>> \notin board.ahead
                      /\ <<t, u>> \in board.ahead =>
                            board.tasks[t].priority <= board.tasks[u].priority
    BY DEF ColumnsSorted
  <2>1. board.column[t] \in Column
    BY DEF OrderInv, TypeInv, TypeOK, Board
  <2>2. t \in TasksIn(board, board.column[t]) /\ u \in TasksIn(board, board.column[t])
    BY DEF TasksIn
  <2> QED BY <2>1, <2>2 DEF OrderInv, InOrder, Ordered, ByPriority
<1> QED BY <1>1, OrderInvariant, PTL
-----------------------------------------------------------------------------
(***************************************************************************)
(* What the dispatcher guarantees as long as requests about the same task  *)
(* do not overlap (InTurnSpec) and no running agent sends its own task     *)
(* back to Prioritized.  Without either of the two conditions these        *)
(* properties fail.                                                        *)
(***************************************************************************)

NoBlocking == Budget["block"] = 0

\* Requests in turn are requests, and stay so.
LEMMA InTurnKind ==
    ASSUME Separate, [InTurnNext]_poolVars
    PROVE  [Next]_poolVars /\ Separate'
<1>1. CASE InTurnNext
  BY <1>1 DEF InTurnNext
<1>2. CASE UNCHANGED poolVars
  BY <1>2 DEF poolVars, Separate
<1> QED BY <1>1, <1>2

LEMMA InTurnInvariant == InTurnSpec => Spec /\ []Separate
<1>1. Init => Separate
  BY DEF Init, Start, NoCall, Separate
<1>2. Separate /\ [InTurnNext]_poolVars => Separate' /\ [Next]_poolVars
  BY InTurnKind
<1> QED BY <1>1, <1>2, PTL DEF InTurnSpec, Spec

\* A single client asks in turn: what is proved about requests in turn holds of
\* every behaviour of the dispatcher that has no other.
THEOREM SingleClientInTurn ==
    ASSUME \A c, d \in Caller : c = d
    PROVE  Spec => InTurnSpec
<1>1. Separate /\ Separate'
  BY DEF Separate
<1>2. AnswersSeparate
  BY DEF AnswersSeparate, Answer, NoCall
<1>3. [Next]_poolVars => [InTurnNext]_poolVars
  BY <1>1, <1>2 DEF InTurnNext
<1> QED BY <1>3, PTL DEF Spec, InTurnSpec

\* An operation that may not happen at all does not.
LEMMA Unspent ==
    ASSUME TypeInv, NEW op \in Op, Budget[op] = 0
    PROVE  ~Spend(op)
<1>1. used[op] \in Nat
  BY DEF TypeInv, TypeOK
<1> QED BY <1>1 DEF Spend

-----------------------------------------------------------------------------
(* The inductive invariant.                                                *)

\* A task is on the board exactly if it has a file.
Present ==
    \A t \in Task : /\ board.column[t] = Absent <=> disk[t].stage = Absent
                    /\ board.column[t] = Absent <=> board.tasks[t].stage = Absent

\* An agent at work has its task in its own column.
AtHome == \A r \in Role : agent[r].pc # "asleep" => board.column[agent[r].task] = r

\* Neither the copy an agent will write to disk, nor the board's copy, nor the
\* file is to the right of the task -- the file only while the verdict that
\* sent the task back is being written.
CopiesBehind ==
    \A r \in Role : agent[r].pc = "picked" =>
        agent[r].copy.stage # Absent /\ agent[r].copy.stage <= r

TasksBehind == \A t \in Task : board.tasks[t].stage <= board.column[t]

SentBack(t) == \E c \in Caller : calls[c].step = "rejected" /\ calls[c].task = t

DiskBehind == \A t \in Task : disk[t].stage <= board.column[t] \/ SentBack(t)

\* A verdict that has been checked is still about a task in a buffer, and what
\* an edit will write to the board is not to the right of the task.
CallsHome ==
    \A c \in Caller : calls[c].step # "none" =>
        LET t == calls[c].task
        IN  /\ board.column[t] # Absent
            /\ calls[c].step \in {"approve", "rework"} => board.column[t] \in Buffer
            /\ calls[c].step = "approve" => calls[c].to = NextColumn(board.column[t])
            /\ calls[c].step = "rework" => calls[c].to \in Role
            /\ calls[c].step = "update" =>
                  calls[c].copy.stage # Absent /\ calls[c].copy.stage <= board.column[t]

HomeInv == TypeInv /\ Present /\ AtHome /\ CopiesBehind /\ TasksBehind
              /\ DiskBehind /\ CallsHome

\* Steps that move no task, write no stage and pick no task up.
Idle ==
    /\ SamePlaces(board', board)
    /\ \A t \in Task : disk'[t].stage = disk[t].stage
    /\ calls' = calls
    /\ \A r \in Role : agent'[r].pc # "asleep" =>
          /\ agent[r].pc # "asleep"
          /\ agent'[r].task = agent[r].task
          /\ agent'[r].pc = "picked" => agent'[r] = agent[r]

LEMMA GotoIdle ==
    ASSUME TypeInv, NEW r \in Role, NEW p \in Pc \ {"picked"}, agent[r].pc # "asleep",
           Goto(r, p), board' = board, \A t \in Task : disk'[t].stage = disk[t].stage,
           calls' = calls
    PROVE  Idle
BY DEF Idle, SamePlaces, Goto, TypeInv, TypeOK, AgentState

LEMMA SleepIdle ==
    ASSUME TypeInv, NEW r \in Role, Sleep(r), board' = board, disk' = disk, calls' = calls
    PROVE  Idle
BY DEF Idle, SamePlaces, Sleep, Asleep, TypeInv, TypeOK, AgentState

LEMMA IdleStep ==
    ASSUME HomeInv, TypeInv', Idle
    PROVE  HomeInv'
<1> USE DEF HomeInv, Idle, SamePlaces
<1>1. Present'
  BY DEF Present
<1>2. AtHome' /\ CopiesBehind'
  <2>1. \A r \in Role : agent[r].pc # "asleep" => agent[r].task \in Task
    BY DEF TypeInv, AgentsEngaged
  <2> QED BY <2>1 DEF AtHome, CopiesBehind
<1>3. TasksBehind' /\ DiskBehind'
  BY DEF TasksBehind, DiskBehind, SentBack
<1>4. CallsHome'
  <2>1. \A c \in Caller : calls[c].step # "none" => calls[c].task \in Task
    BY DEF TypeInv, CallsEngaged
  <2> QED BY <2>1 DEF CallsHome
<1> QED BY <1>1, <1>2, <1>3, <1>4

\* An agent that goes on stays with its task.
LEMMA GotoHome ==
    ASSUME HomeInv, NEW r \in Role, NEW p \in Pc \ {"picked"}, agent[r].pc # "asleep",
           Goto(r, p), \A u \in Task : board'.column[u] = board.column[u]
    PROVE  AtHome' /\ CopiesBehind'
<1>1. \A q \in Role : agent[q].pc # "asleep" => agent[q].task \in Task
  BY DEF HomeInv, TypeInv, AgentsEngaged
<1>2. \A q \in Role : agent'[q].pc # "asleep" =>
         /\ agent[q].pc # "asleep" /\ agent'[q].task = agent[q].task
         /\ agent'[q].pc = "picked" => agent'[q] = agent[q]
  BY DEF Goto, HomeInv, TypeInv, TypeOK, AgentState
<1> QED BY <1>1, <1>2 DEF HomeInv, AtHome, CopiesBehind

\* An agent on its own: Wake picks a task of its column, Prepare and Report
\* write what is not to the right of it, Move takes it along.
LEMMA AgentHome ==
    ASSUME HomeInv, TypeInv', NEW r \in Role, AgentStep(r)
    PROVE  HomeInv'
<1> DEFINE t == agent[r].task
<1>1. CASE Wake(r)
  <2>1. PICK u \in NextUnblocked(board, r) :
           agent' = [agent EXCEPT ![r] =
                        [pc |-> "picked", task |-> u, copy |-> board.tasks[u]]]
    BY <1>1 DEF Wake
  <2>2. u \in Task /\ board.column[u] = r
    BY DEF NextUnblocked, TasksIn
  <2>3. board.tasks[u].stage # Absent /\ board.tasks[u].stage <= r
    BY <2>2, ColumnFacts DEF HomeInv, Present, TasksBehind
  <2>4. UNCHANGED <<board, disk, calls>>
    BY <1>1 DEF Wake
  <2>5. AtHome' /\ CopiesBehind'
    BY <2>1, <2>2, <2>3, <2>4 DEF HomeInv, AtHome, CopiesBehind, TypeInv, TypeOK
  <2> QED BY <2>4, <2>5
          DEF HomeInv, Present, TasksBehind, DiskBehind, SentBack, CallsHome
<1>2. CASE Prepare(r)
  <2>1. t \in Task /\ board.column[t] = r /\ agent[r].copy \in TaskState
    BY <1>2 DEF Prepare, HomeInv, AtHome, TypeInv, AgentsEngaged, TypeOK, AgentState
  <2>2. agent[r].copy.stage # Absent /\ agent[r].copy.stage <= r
    BY <1>2 DEF Prepare, HomeInv, CopiesBehind
  <2>3. SamePlaces(board', board)
    <3>1. CASE agent[r].copy.branch
      BY <1>2, <3>1 DEF Prepare, SamePlaces
    <3>2. CASE ~agent[r].copy.branch
      <4>1. board' = [board EXCEPT !.tasks[t].branch = TRUE] /\ board \in Board
        BY <1>2, <3>2 DEF Prepare, HomeInv, TypeInv, TypeOK
      <4> QED BY <2>1, <4>1 DEF SamePlaces, Board, TaskState
    <3> QED BY <3>1, <3>2
  <2>4. \A u \in Task : \/ disk'[u].stage = disk[u].stage
                        \/ u = t /\ disk'[u].stage = agent[r].copy.stage
    <3>1. CASE agent[r].copy.branch
      BY <1>2, <3>1 DEF Prepare
    <3>2. CASE ~agent[r].copy.branch
      <4>1. disk' = [disk EXCEPT ![t] = [agent[r].copy EXCEPT !.branch = TRUE]]
        BY <1>2, <3>2 DEF Prepare
      <4>2. [agent[r].copy EXCEPT !.branch = TRUE].stage = agent[r].copy.stage
        BY <2>1 DEF TaskState
      <4> QED BY <2>1, <4>1, <4>2 DEF HomeInv, TypeInv, TypeOK
    <3> QED BY <3>1, <3>2
  <2>5. Present' /\ TasksBehind' /\ DiskBehind'
    <3>1. r # Absent /\ calls' = calls
      BY <1>2, ColumnFacts DEF Prepare
    <3>2. Present'
      BY <2>1, <2>2, <2>3, <2>4, <3>1 DEF SamePlaces, HomeInv, Present
    <3>3. TasksBehind' /\ DiskBehind'
      BY <2>1, <2>2, <2>3, <2>4, <3>1
         DEF SamePlaces, HomeInv, TasksBehind, DiskBehind, SentBack
    <3> QED BY <3>2, <3>3
  <2>6. AtHome' /\ CopiesBehind'
    BY <1>2, <2>3, GotoHome DEF Prepare, Pc, SamePlaces
  <2>7. CallsHome'
    BY <1>2, <2>3 DEF Prepare, SamePlaces, HomeInv, CallsHome, TypeInv, CallsEngaged
  <2> QED BY <2>5, <2>6, <2>7 DEF HomeInv
<1>3. CASE Report(r)
  <2>1. t \in Task /\ board.column[t] = r
    BY <1>3 DEF Report, HomeInv, AtHome, TypeInv, AgentsEngaged
  <2>2. \A u \in Task : \/ disk'[u].stage = disk[u].stage
                        \/ u = t /\ disk'[u].stage = board.tasks[u].stage
    BY <1>3, <2>1 DEF Report, HomeInv, TypeInv, TypeOK
  <2>3. Present' /\ TasksBehind' /\ DiskBehind'
    <3>1. board' = board /\ calls' = calls
      BY <1>3 DEF Report
    <3>2. Present'
      BY <2>2, <3>1 DEF HomeInv, Present
    <3>3. TasksBehind' /\ DiskBehind'
      BY <2>2, <3>1 DEF HomeInv, TasksBehind, DiskBehind, SentBack
    <3> QED BY <3>2, <3>3
  <2>4. AtHome' /\ CopiesBehind'
    BY <1>3, <2>1, GotoHome DEF Report, Pc
  <2>5. CallsHome'
    BY <1>3 DEF Report, HomeInv, CallsHome
  <2> QED BY <2>3, <2>4, <2>5 DEF HomeInv
<1>4. CASE Move(r)
  <2> DEFINE n == NextColumn(r)
  <2>1. t \in Task /\ board.column[t] = r /\ n \in Column
    BY <1>4, ColumnFacts DEF Move, HomeInv, AtHome, TypeInv, AgentsEngaged
  <2>2. MovedTo(board', board, t, n)
    BY <1>4, <2>1, AdvancePlaces DEF Move, HomeInv, TypeInv, TypeOK
  <2>3. UNCHANGED <<disk, calls>>
    BY <1>4 DEF Move
  <2>4. r \in Nat /\ r > 0 /\ n = r + 1 /\ Absent = 0 /\ r \notin Buffer
    BY ColumnFacts, ColumnOrder
  <2>5. \A q \in Role : agent'[q].pc # "asleep" =>
           agent'[q] = agent[q] /\ agent[q].task \in Task /\ agent[q].task # t
    BY <1>4, <2>1 DEF Move, Sleep, Asleep, HomeInv, AtHome, TypeInv, TypeOK, AgentsEngaged
  <2> HIDE DEF n
  <2>6. Present'
    BY <2>1, <2>2, <2>3, <2>4 DEF HomeInv, Present, MovedTo
  <2>7. AtHome' /\ CopiesBehind'
    BY <2>2, <2>5 DEF HomeInv, AtHome, CopiesBehind, MovedTo
  <2>8. TasksBehind'
    BY <2>2, <2>4 DEF HomeInv, TasksBehind, MovedTo
  <2>9. DiskBehind'
    <3>1. \A u \in Task : disk[u].stage \in Nat
      BY ColumnOrder DEF HomeInv, TypeInv, TypeOK, TaskState
    <3> QED BY <2>1, <2>2, <2>3, <2>4, <3>1 DEF HomeInv, DiskBehind, SentBack, MovedTo
  <2>10. CallsHome'
    <3> SUFFICES ASSUME NEW c \in Caller, calls[c].step # "none"
                 PROVE  LET u == calls[c].task
                        IN  /\ board'.column[u] # Absent
                            /\ calls[c].step \in {"approve", "rework"} => board'.column[u] \in Buffer
                            /\ calls[c].step = "approve" => calls[c].to = NextColumn(board'.column[u])
                            /\ calls[c].step = "rework" => calls[c].to \in Role
                            /\ calls[c].step = "update" =>
                                  calls[c].copy.stage # Absent /\ calls[c].copy.stage <= board'.column[u]
      BY <2>3 DEF CallsHome
    <3>1. calls[c].task \in Task /\ calls[c].copy.stage \in Nat
      BY ColumnOrder, SMTT(30) DEF HomeInv, TypeInv, CallsEngaged, TypeOK, Call, TaskState
    <3>2. CASE calls[c].task # t
      BY <2>2, <3>1, <3>2 DEF HomeInv, CallsHome, MovedTo
    <3>3. CASE calls[c].task = t
      BY <2>1, <2>2, <2>4, <3>1, <3>3 DEF HomeInv, CallsHome, MovedTo
    <3> QED BY <3>2, <3>3
  <2> QED BY <2>6, <2>7, <2>8, <2>9, <2>10 DEF HomeInv
<1>5. CASE WakeInVain(r)
  BY <1>5, IdleStep DEF WakeInVain, Idle, SamePlaces
<1>6. CASE Finish(r) \/ Pass(r) \/ Retry(r) \/ GiveUp(r) \/ Escalate(r) \/ CheckWip(r)
  <2>1. Idle
    BY <1>6, GotoIdle DEF HomeInv, Finish, Pass, Retry, GiveUp, Escalate, CheckWip, Pc
  <2> QED BY <2>1, IdleStep
<1>7. CASE Fail(r) \/ Flag(r) \/ Stall(r)
  <2>1. Idle
    BY <1>7, SleepIdle DEF HomeInv, Fail, Flag, Stall
  <2> QED BY <2>1, IdleStep
<1> QED BY <1>1, <1>2, <1>3, <1>4, <1>5, <1>6, <1>7 DEF AgentStep

\* A request that begins: a verdict about a task in a buffer, an edit with what
\* the file holds, which is not to the right of the task.
LEMMA RequestHome ==
    ASSUME HomeInv, TypeInv', Separate', NEW c \in Caller, Request(c)
    PROVE  HomeInv'
<1>1. ASSUME NEW t \in Task, NEW step \in Step, NEW to, NEW copy,
             Begin(c, step, t, to, copy), UNCHANGED <<board, agent>>,
             \A u \in Task : disk'[u].stage = disk[u].stage,
             board.column[t] # Absent,
             step \in {"approve", "rework"} => board.column[t] \in Buffer,
             step = "approve" => to = NextColumn(board.column[t]),
             step = "rework" => to \in Role,
             step = "update" => copy.stage # Absent /\ copy.stage <= board.column[t]
      PROVE  HomeInv'
  <2>1. calls' = [calls EXCEPT ![c] = [step |-> step, task |-> t, to |-> to, copy |-> copy]]
        /\ calls[c].step = "none"
    BY <1>1 DEF Begin, NoCall
  <2>2. CallsHome'
    BY <1>1, <2>1 DEF CallsHome, HomeInv, TypeInv, TypeOK
  <2>3. DiskBehind'
    <3>1. ASSUME NEW u \in Task, SentBack(u)
          PROVE  SentBack(u)'
      <4>1. PICK d \in Caller : calls[d].step = "rejected" /\ calls[d].task = u
        BY <3>1 DEF SentBack
      <4>2. calls'[d] = calls[d]
        BY <2>1, <4>1 DEF HomeInv, TypeInv, TypeOK
      <4> QED BY <4>1, <4>2 DEF SentBack
    <3> QED BY <1>1, <3>1 DEF HomeInv, DiskBehind
  <2> QED BY <1>1, <2>2, <2>3 DEF HomeInv, Present, AtHome, CopiesBehind, TasksBehind
<1>2. ASSUME NEW t \in Task, Approve(c, t) \/ \E to \in Role : Rework(c, t, to)
      PROVE  HomeInv'
  <2>1. board.column[t] # Absent
    BY <1>2, ColumnFacts DEF Approve, Rework
  <2> QED BY <1>1, <1>2, <2>1 DEF Approve, Rework, Step
<1>3. ASSUME NEW t \in Task, NEW step \in Step \ {"none"}, NEW to, NEW copy,
             Begin(c, step, t, to, copy), disk[t].stage # Absent
      PROVE  board.column[t] # Absent /\ disk[t].stage <= board.column[t]
  <2>1. calls' = [calls EXCEPT ![c] = [step |-> step, task |-> t, to |-> to, copy |-> copy]]
        /\ calls[c].step = "none" /\ calls \in [Caller -> Call]
    BY <1>3 DEF Begin, NoCall, HomeInv, TypeInv, TypeOK
  <2>2. ~SentBack(t)
    <3> SUFFICES ASSUME NEW d \in Caller, calls[d].step = "rejected", calls[d].task = t
                 PROVE  FALSE
      BY DEF SentBack
    <3>1. d # c /\ calls'[d] = calls[d]
      BY <2>1
    <3>2. calls'[c].step # "none" /\ calls'[c].task = t
      BY <2>1
    <3> QED BY <3>1, <3>2 DEF Separate
  <2> QED BY <1>3, <2>2 DEF HomeInv, Present, DiskBehind
<1>4. ASSUME NEW t \in Task, UpdateFile(c, t)
      PROVE  HomeInv'
  <2> DEFINE edited == [disk[t] EXCEPT !.text = @ + 1]
  <2>1. edited.stage = disk[t].stage
    BY DEF HomeInv, TypeInv, TypeOK, TaskState
  <2>2. disk' = [disk EXCEPT ![t] = edited] /\ Begin(c, "update", t, Absent, edited)
    BY <1>4 DEF UpdateFile
  <2> HIDE DEF edited
  <2>3. \A u \in Task : disk'[u].stage = disk[u].stage
    BY <2>1, <2>2 DEF HomeInv, TypeInv, TypeOK
  <2>4. board.column[t] # Absent /\ disk[t].stage # Absent /\ disk[t].stage <= board.column[t]
    BY <1>3, <1>4, <2>2 DEF UpdateFile, Step
  <2> QED BY <1>1, <1>4, <2>1, <2>2, <2>3, <2>4 DEF UpdateFile, Step
<1>5. ASSUME NEW t \in Task, NEW p \in Priorities, PrioritizeFile(c, t, p)
      PROVE  HomeInv'
  <2> DEFINE edited == [disk[t] EXCEPT !.priority = p]
  <2>1. edited.stage = disk[t].stage
    BY DEF HomeInv, TypeInv, TypeOK, TaskState
  <2>2. disk' = [disk EXCEPT ![t] = edited] /\ Begin(c, "prioritize", t, Absent, edited)
    BY <1>5 DEF PrioritizeFile
  <2> HIDE DEF edited
  <2>3. \A u \in Task : disk'[u].stage = disk[u].stage
    BY <2>1, <2>2 DEF HomeInv, TypeInv, TypeOK
  <2>4. board.column[t] # Absent
    BY <1>3, <1>5, <2>2 DEF PrioritizeFile, Step
  <2> QED BY <1>1, <1>5, <2>2, <2>3, <2>4 DEF PrioritizeFile, Step
<1>6. ASSUME NEW i \in DOMAIN queue, Answer(c, i) \/ AnswerApproval(c, i)
      PROVE  HomeInv'
  BY <1>6, IdleStep DEF Answer, AnswerApproval, Idle, SamePlaces
<1> QED BY <1>2, <1>4, <1>5, <1>6 DEF Request

\* A request that goes on: it moves its task out of the buffer, where no agent
\* has it, and writes the board's copy, which is not to the right of the task.
LEMMA CallStepHome ==
    ASSUME HomeInv, TypeInv', Separate, NEW c \in Caller, CallStep(c)
    PROVE  HomeInv'
<1> DEFINE t == calls[c].task
<1>0. \A d \in Caller : d # c /\ calls[d].step # "none" => calls[d].task # t
  <2>1. calls[c].step # "none"
    BY DEF CallStep, MoveApproved, MoveRejected, Settle, UpdateBoard, PrioritizeBoard
  <2> QED BY <2>1 DEF Separate
<1>a. board \in Board /\ disk \in [Task -> TaskState] /\ calls \in [Caller -> Call]
  BY DEF HomeInv, TypeInv, TypeOK
<1>1. ASSUME NEW to \in Role, MovedTo(board', board, t, to), UNCHANGED <<disk, agent>>,
             t \in Task, board.column[t] \in Buffer,
             \/ calls[c].step = "approve" /\ calls' = [calls EXCEPT ![c].step = "approved"]
                /\ to = NextColumn(board.column[t])
             \/ calls[c].step = "rework" /\ calls' = [calls EXCEPT ![c].step = "rejected"]
      PROVE  HomeInv'
  <2>1. to # Absent /\ board.column[t] # Absent /\ board.column[t] \notin Role /\ to \in Column
    BY <1>1, ColumnFacts
  <2>2. Present'
    BY <1>1, <2>1 DEF HomeInv, Present, MovedTo
  <2>3. AtHome' /\ CopiesBehind'
    <3>1. \A r \in Role : agent[r].pc # "asleep" =>
              agent[r].task \in Task /\ agent[r].task # t
      BY <2>1 DEF HomeInv, AtHome, TypeInv, AgentsEngaged
    <3> QED BY <1>1, <3>1 DEF HomeInv, AtHome, CopiesBehind, MovedTo
  <2>4. TasksBehind'
    BY <1>1, <2>1, ColumnOrder DEF HomeInv, TasksBehind, MovedTo
  <2>5. calls'[c].task = t /\ calls'[c].step \in {"approved", "rejected"}
        /\ (calls[c].step = "rework" => calls'[c].step = "rejected")
    BY <1>1, <1>a DEF Call
  <2>6. DiskBehind'
    <3> SUFFICES ASSUME NEW u \in Task
                 PROVE  disk[u].stage <= board'.column[u] \/ SentBack(u)'
      BY <1>1 DEF DiskBehind
    <3>0. SentBack(u) => u # t /\ SentBack(u)'
      <4> SUFFICES ASSUME NEW d \in Caller, calls[d].step = "rejected", calls[d].task = u
                   PROVE  u # t /\ SentBack(u)'
        BY DEF SentBack
      <4>1. d # c /\ calls'[d] = calls[d]
        BY <1>1, <1>a
      <4> QED BY <1>0, <4>1 DEF SentBack
    <3>1. disk[u].stage <= board.column[u] \/ SentBack(u)
      BY DEF HomeInv, DiskBehind
    <3>2. CASE u # t
      BY <1>1, <3>0, <3>1, <3>2 DEF MovedTo
    <3>3. CASE u = t /\ calls[c].step = "rework"
      BY <2>5, <3>3 DEF SentBack
    <3>4. CASE u = t /\ calls[c].step = "approve"
      <4>1. disk[t].stage \in Nat /\ board.column[t] \in Nat /\ to = board.column[t] + 1
        BY <1>1, <1>a, <2>1, <3>4, ColumnFacts, ColumnOrder DEF TaskState
      <4> QED BY <1>1, <3>0, <3>1, <3>4, <4>1 DEF MovedTo
    <3> QED BY <1>1, <3>2, <3>3, <3>4
  <2>7. CallsHome'
    <3>1. \A d \in Caller : d # c => calls'[d] = calls[d]
      BY <1>1, <1>a
    <3>2. \A d \in Caller : d # c /\ calls[d].step # "none" =>
             calls[d].task \in Task /\ board'.column[calls[d].task] = board.column[calls[d].task]
      BY <1>0, <1>1 DEF MovedTo, HomeInv, TypeInv, CallsEngaged
    <3>3. board'.column[t] # Absent
      BY <1>1, <2>1 DEF MovedTo
    <3> QED BY <2>5, <3>1, <3>2, <3>3 DEF HomeInv, CallsHome
  <2> QED BY <2>2, <2>3, <2>4, <2>6, <2>7 DEF HomeInv
<1>2. CASE MoveApproved(c)
  <2>1. t \in Task /\ board.column[t] \in Buffer /\ calls[c].to = NextColumn(board.column[t])
    BY <1>2 DEF MoveApproved, HomeInv, CallsHome, TypeInv, CallsEngaged
  <2>2. calls[c].to \in Role
    BY <2>1, ColumnFacts
  <2>3. MovedTo(board', board, t, calls[c].to)
    BY <1>2, <1>a, <2>1, <2>2, AdvancePlaces, ColumnFacts DEF MoveApproved
  <2> QED BY <1>1, <1>2, <2>1, <2>2, <2>3 DEF MoveApproved
<1>3. CASE MoveRejected(c)
  <2>1. t \in Task /\ board.column[t] \in Buffer /\ calls[c].to \in Role
    BY <1>3 DEF MoveRejected, HomeInv, CallsHome, TypeInv, CallsEngaged
  <2>2. MovedTo(board', board, t, calls[c].to)
    BY <1>3, <1>a, <2>1, RejectPlaces, ColumnFacts DEF MoveRejected
  <2> QED BY <1>1, <1>3, <2>1, <2>2 DEF MoveRejected
<1>4. ASSUME SamePlaces(board', board), UNCHANGED agent, End(c), t \in Task,
             \A u \in Task : \/ disk'[u].stage = disk[u].stage
                             \/ u = t /\ disk'[u].stage = board.tasks[u].stage,
             calls[c].step = "rejected" => disk'[t].stage = board.tasks[t].stage
      PROVE  HomeInv'
  <2>1. Present'
    BY <1>4 DEF HomeInv, Present, SamePlaces
  <2>2. AtHome' /\ CopiesBehind'
    BY <1>4 DEF HomeInv, AtHome, CopiesBehind, SamePlaces, TypeInv, AgentsEngaged
  <2>3. TasksBehind'
    BY <1>4 DEF HomeInv, TasksBehind, SamePlaces
  <2>4. DiskBehind'
    <3>1. ASSUME NEW u \in Task, SentBack(u)
          PROVE  SentBack(u)' \/ (u = t /\ calls[c].step = "rejected")
      <4>1. PICK d \in Caller : calls[d].step = "rejected" /\ calls[d].task = u
        BY <3>1 DEF SentBack
      <4>2. CASE d # c
        BY <1>4, <1>a, <4>1, <4>2 DEF SentBack, End
      <4> QED BY <4>1, <4>2
    <3> QED BY <1>4, <3>1 DEF HomeInv, DiskBehind, TasksBehind, SamePlaces
  <2>5. CallsHome'
    BY <1>4, <1>a DEF HomeInv, CallsHome, End, NoCall, SamePlaces, TypeInv, CallsEngaged
  <2> QED BY <2>1, <2>2, <2>3, <2>4, <2>5 DEF HomeInv
<1>5. CASE Settle(c)
  <2>1. t \in Task /\ SamePlaces(board', board)
    BY <1>5 DEF Settle, SamePlaces, HomeInv, TypeInv, CallsEngaged
  <2>2. \A u \in Task : IF u = t THEN disk'[u].stage = board.tasks[u].stage
                                ELSE disk'[u].stage = disk[u].stage
    BY <1>5, <1>a, <2>1 DEF Settle
  <2> QED BY <1>4, <1>5, <2>1, <2>2 DEF Settle
<1>6. CASE UpdateBoard(c)
  <2>1. t \in Task /\ calls[c].copy.stage # Absent /\ calls[c].copy.stage <= board.column[t]
        /\ board.column[t] # Absent
    BY <1>6 DEF UpdateBoard, HomeInv, CallsHome, TypeInv, CallsEngaged
  <2>2. \A u \in Task : /\ board'.column[u] = board.column[u]
                        /\ u # t => board'.tasks[u].stage = board.tasks[u].stage
                        /\ u = t => board'.tasks[u].stage = calls[c].copy.stage
    BY <1>6, <1>a, <2>1 DEF UpdateBoard, Board
  <2>3. UNCHANGED <<agent, disk>> /\ End(c) /\ calls[c].step = "update"
    BY <1>6 DEF UpdateBoard
  <2>4. Present'
    BY <2>1, <2>2, <2>3 DEF HomeInv, Present
  <2>5. AtHome' /\ CopiesBehind'
    BY <2>2, <2>3 DEF HomeInv, AtHome, CopiesBehind, TypeInv, AgentsEngaged
  <2>6. TasksBehind'
    BY <2>1, <2>2 DEF HomeInv, TasksBehind
  <2>7. DiskBehind'
    <3>1. ASSUME NEW u \in Task, SentBack(u)
          PROVE  SentBack(u)'
      BY <1>a, <2>3, <3>1 DEF SentBack, End
    <3> QED BY <2>2, <2>3, <3>1 DEF HomeInv, DiskBehind
  <2>8. CallsHome'
    BY <1>a, <2>2, <2>3 DEF HomeInv, CallsHome, End, NoCall, TypeInv, CallsEngaged
  <2> QED BY <2>4, <2>5, <2>6, <2>7, <2>8 DEF HomeInv
<1>7. CASE PrioritizeBoard(c)
  <2>1. t \in Task /\ calls[c].copy.priority \in Nat
    BY <1>7, <1>a DEF PrioritizeBoard, HomeInv, TypeInv, CallsEngaged, Call, TaskState
  <2>2. SamePlaces(board', board)
    BY <1>7, <1>a, <2>1, SetPriorityPlaces DEF PrioritizeBoard
  <2> QED BY <1>4, <1>7, <2>1, <2>2 DEF PrioritizeBoard
<1> QED BY <1>2, <1>3, <1>5, <1>6, <1>7 DEF CallStep

\* A new task is on nobody's mind.
LEMMA CreateHome ==
    ASSUME HomeInv, TypeInv', NEW t \in Task, NEW p \in Nat, Create(t, p)
    PROVE  HomeInv'
<1>1. NewTask(p) \in TaskState /\ NewTask(p).stage = Prioritized /\ Prioritized \in Column
  BY TaskFacts, ColumnFacts
<1>2. MovedTo(board', board, t, Prioritized)
  BY <1>1, AddTaskPlaces DEF Create, HomeInv, TypeInv, TypeOK
<1>3. \A u \in Task : disk'[u].stage = IF u = t THEN Prioritized ELSE disk[u].stage
  BY <1>1 DEF Create, HomeInv, TypeInv, TypeOK
<1>4. UNCHANGED <<agent, calls>> /\ board.column[t] = Absent
  BY DEF Create, HomeInv, Present
<1>5. Prioritized # Absent /\ Prioritized \in Nat /\ Absent = 0 /\ Absent \notin Role
      /\ Absent \notin Buffer
  BY <1>1, ColumnOrder, ColumnFacts
<1>6. Present'
  BY <1>2, <1>3, <1>5 DEF HomeInv, Present, MovedTo
<1>7. AtHome' /\ CopiesBehind'
  <2>1. \A r \in Role : agent[r].pc # "asleep" => agent[r].task \in Task /\ agent[r].task # t
    BY <1>4, <1>5 DEF HomeInv, AtHome, TypeInv, AgentsEngaged
  <2> QED BY <1>2, <1>4, <2>1 DEF HomeInv, AtHome, CopiesBehind, MovedTo
<1>8. TasksBehind' /\ DiskBehind'
  BY <1>2, <1>3, <1>4, <1>5 DEF HomeInv, TasksBehind, DiskBehind, SentBack, MovedTo
<1>9. CallsHome'
  <2>1. \A c \in Caller : calls[c].step # "none" => calls[c].task \in Task /\ calls[c].task # t
    BY <1>4 DEF HomeInv, CallsHome, TypeInv, CallsEngaged
  <2> QED BY <1>2, <1>4, <2>1 DEF HomeInv, CallsHome, MovedTo
<1> QED BY <1>6, <1>7, <1>8, <1>9 DEF HomeInv

\* Whatever a boot finds on disk is where the board puts it, and nobody is at
\* work yet.
LEMMA BootHome ==
    ASSUME TypeInv, NEW load, board = FromTasks(disk, load),
           agent = [r \in Role |-> Asleep], calls = [c \in Caller |-> NoCall]
    PROVE  HomeInv
<1>1. \A t \in Task : /\ board.column[t] = disk[t].stage /\ board.tasks[t].stage = disk[t].stage
                      /\ disk[t].stage \in Nat
  <2>1. disk \in [Task -> TaskState]
    BY DEF TypeInv, TypeOK
  <2>2. \A t \in Task : board.column[t] = disk[t].stage /\ board.tasks[t].stage = disk[t].stage
    BY <2>1, FromTasksPlaces
  <2> QED BY <2>1, <2>2, StageNat
<1>2. /\ \A r \in Role : agent[r].pc = "asleep"
      /\ \A c \in Caller : calls[c].step = "none"
  BY DEF Asleep, NoCall
<1> QED BY <1>1, <1>2 DEF HomeInv, Present, AtHome, CopiesBehind, TasksBehind,
                          DiskBehind, CallsHome

\* The same after a restart.
LEMMA CrashHome ==
    ASSUME HomeInv, TypeInv', Crash
    PROVE  HomeInv'
<1>1. PICK load \in LoadOrder : board' = FromTasks(disk, load)
  BY DEF Crash
<1>2. \A t \in Task : /\ board'.column[t] = disk[t].stage /\ board'.tasks[t].stage = disk[t].stage
                      /\ disk[t].stage \in Nat /\ disk' = disk
  <2>1. disk \in [Task -> TaskState] /\ disk' = disk
    BY DEF Crash, HomeInv, TypeInv, TypeOK
  <2>2. \A t \in Task : board'.column[t] = disk[t].stage /\ board'.tasks[t].stage = disk[t].stage
    BY <1>1, <2>1, FromTasksPlaces
  <2> QED BY <2>1, <2>2, StageNat
<1>3. /\ \A r \in Role : agent'[r].pc = "asleep"
      /\ \A c \in Caller : calls'[c].step = "none"
  BY DEF Crash, Asleep, NoCall
<1> QED BY <1>2, <1>3 DEF HomeInv, Present, AtHome, CopiesBehind, TasksBehind,
                          DiskBehind, CallsHome

LEMMA HomeStep ==
    ASSUME HomeInv, Separate, NoBlocking, [InTurnNext]_poolVars
    PROVE  HomeInv'
<1>0. [Next]_poolVars /\ Separate'
  BY InTurnKind
<1>1. TypeInv'
  BY <1>0, TypeStep DEF HomeInv
<1>2. ASSUME NEW r \in Role, AgentStep(r) \/ AgentTool(r) \/ Unblock(r)
      PROVE  HomeInv'
  <2>1. CASE AgentStep(r)
    BY <1>1, <2>1, AgentHome
  <2>2. ASSUME NEW blockers \in SUBSET Task, BlockTask(r, blockers)
        PROVE  FALSE
    BY <2>2, Unspent DEF BlockTask, NoBlocking, Op, HomeInv
  <2>3. CASE AskHuman(r) \/ Unblock(r)
    BY <1>1, <2>3, IdleStep DEF AskHuman, Unblock, Idle, SamePlaces
  <2> QED BY <1>2, <2>1, <2>2, <2>3 DEF AgentTool
<1>3. CASE \E c \in Caller : Request(c) \/ CallStep(c)
  BY <1>0, <1>1, <1>3, RequestHome, CallStepHome
<1>4. CASE \E t \in Task, p \in Priorities \cup {DefaultPriority} : Create(t, p)
  BY <1>1, <1>4, CreateHome, DispatcherAssumption, TaskFacts
<1>5. CASE Subscribe \/ RunLoop \/ Lag \/ UNCHANGED poolVars
  <2>1. Idle
    BY <1>5 DEF Subscribe, RunLoop, Lag, OnTaskCreated, OnTaskEntersWork,
                OnTaskEntersBuffer, OnTaskDone, OnAgentBlocked, poolVars, Idle, SamePlaces
  <2> QED BY <1>1, <2>1, IdleStep
<1>6. CASE Crash
  BY <1>1, <1>6, CrashHome
<1> QED BY <1>0, <1>2, <1>3, <1>4, <1>5, <1>6 DEF Next

LEMMA HomeInvariant ==
    ASSUME NoBlocking
    PROVE  InTurnSpec => []HomeInv
<1>1. Init => HomeInv
  BY InitType, BootHome DEF Init, Start
<1>2. HomeInv /\ Separate /\ [InTurnNext]_poolVars => HomeInv'
  BY HomeStep
<1> QED BY <1>1, <1>2, InTurnInvariant, PTL DEF InTurnSpec

-----------------------------------------------------------------------------
(* The theorems.                                                           *)

\* An agent at rest has no task.
AtRest == \A r \in Role : agent[r].pc = "asleep" => agent[r].task = NoTask

LEMMA RestStep ==
    ASSUME TypeInv, AtRest, [Next]_poolVars
    PROVE  AtRest'
<1>1. ASSUME NEW r \in Role, NEW p \in Pc \ {"asleep"}, Goto(r, p)
      PROVE  AtRest'
  BY <1>1 DEF Goto, AtRest, TypeInv, TypeOK, AgentState
<1>2. ASSUME NEW r \in Role, Sleep(r)
      PROVE  AtRest'
  BY <1>2 DEF Sleep, Asleep, AtRest, TypeInv, TypeOK
<1>3. ASSUME UNCHANGED agent
      PROVE  AtRest'
  BY <1>3 DEF AtRest
<1>4. ASSUME NEW r \in Role, AgentStep(r)
      PROVE  AtRest'
  <2>1. CASE Wake(r)
    <3>1. \A q \in Role : agent'[q] = agent[q] \/ agent'[q].pc = "picked"
      BY <2>1 DEF Wake, TypeInv, TypeOK
    <3> QED BY <3>1 DEF AtRest
  <2>2. CASE Prepare(r) \/ Finish(r) \/ Report(r) \/ Pass(r) \/ Retry(r) \/ GiveUp(r)
                \/ Escalate(r) \/ CheckWip(r)
    BY <1>1, <2>2 DEF Prepare, Finish, Report, Pass, Retry, GiveUp, Escalate, CheckWip, Pc
  <2>3. CASE Fail(r) \/ Flag(r) \/ Stall(r) \/ Move(r)
    BY <1>2, <2>3 DEF Fail, Flag, Stall, Move
  <2>4. CASE WakeInVain(r)
    BY <1>3, <2>4 DEF WakeInVain
  <2> QED BY <1>4, <2>1, <2>2, <2>3, <2>4 DEF AgentStep
<1>5. ASSUME NEW r \in Role, AgentTool(r) \/ Unblock(r)
      PROVE  UNCHANGED agent
  BY <1>5 DEF AgentTool, AskHuman, BlockTask, Unblock
<1>6. ASSUME NEW c \in Caller, Request(c) \/ CallStep(c)
      PROVE  UNCHANGED agent
  BY <1>6 DEF Request, Approve, Rework, UpdateFile, PrioritizeFile, Answer, AnswerApproval,
              CallStep, MoveApproved, MoveRejected, Settle, UpdateBoard, PrioritizeBoard
<1>7. ASSUME \/ \E t \in Task, p \in Priorities \cup {DefaultPriority} : Create(t, p)
             \/ Subscribe \/ RunLoop \/ Lag \/ UNCHANGED poolVars
      PROVE  UNCHANGED agent
  BY <1>7 DEF Create, Subscribe, RunLoop, OnTaskCreated, OnTaskEntersWork,
              OnTaskEntersBuffer, OnTaskDone, OnAgentBlocked, Lag, poolVars
<1>8. CASE Crash
  BY <1>8 DEF Crash, Asleep, AtRest
<1> QED BY <1>3, <1>4, <1>5, <1>6, <1>7, <1>8 DEF Next

\* With requests about a task made in turn, and no agent that sends its own task
\* away, no two agents ever hold the same task -- through restarts, reworks,
\* edits and retries, whatever other clients do about other tasks.
THEOREM AgentsExclusive ==
    ASSUME NoBlocking
    PROVE  InTurnSpec => []ExclusiveTask
<1>1. Init => TypeInv /\ AtRest
  BY InitType DEF Init, Start, Asleep, AtRest
<1>2. TypeInv /\ AtRest /\ [Next]_poolVars => (TypeInv /\ AtRest)'
  BY TypeStep, RestStep
<1>3. HomeInv /\ AtRest => ExclusiveTask
  BY DEF HomeInv, AtHome, AtRest, ExclusiveTask
<1> QED BY <1>1, <1>2, <1>3, HomeInvariant, InTurnInvariant, PTL DEF Spec

\* Under the same conditions the stage on disk is never to the right of the
\* task's column while no request on it is going on, so that a restart carries
\* no task past a buffer.
THEOREM DiskStaysBehind ==
    ASSUME NoBlocking
    PROVE  InTurnSpec => []DiskNotAhead
<1>1. HomeInv => DiskNotAhead
  BY DEF HomeInv, DiskBehind, SentBack, DiskNotAhead, InFlight
<1> QED BY <1>1, HomeInvariant, PTL

-----------------------------------------------------------------------------
(* The columns move as Pipeline says.                                      *)

NoRestart == Budget["crash"] = 0

\* The kinds of step, as what they do to the columns.
Entering ==
    \E t \in Task : /\ board.column[t] = Absent
                    /\ board'.column = [board.column EXCEPT ![t] = Prioritized]

Working ==
    \E t \in Task, r \in Role :
        /\ board.column[t] = r
        /\ NextColumn(r) \in Buffer => Count(board, NextColumn(r)) < Limit[NextColumn(r)]
        /\ board'.column = [board.column EXCEPT ![t] = NextColumn(r)]

Approving ==
    \E t \in Task, c \in Caller :
        /\ calls[c].step = "approve" /\ calls[c].task = t
        /\ board.column[t] \in Buffer
        /\ board'.column = [board.column EXCEPT ![t] = NextColumn(board.column[t])]

Reworking ==
    \E t \in Task, c \in Caller, to \in Role :
        /\ calls[c].step = "rework" /\ calls[c].task = t
        /\ board.column[t] \in Buffer
        /\ board'.column = [board.column EXCEPT ![t] = to]

\* A verdict takes its task from the buffer it was given in to a work column,
\* approval to the next one.
LEMMA VerdictMoves ==
    ASSUME HomeInv, NEW c \in Caller, MoveApproved(c) \/ MoveRejected(c)
    PROVE  /\ calls[c].task \in Task /\ board.column[calls[c].task] \in Buffer
           /\ \E to \in Role : board'.column = [board.column EXCEPT ![calls[c].task] = to]
           /\ calls[c].step = "approve" =>
                 board'.column = [board.column EXCEPT ![calls[c].task]
                                     = NextColumn(board.column[calls[c].task])]
<1> DEFINE t == calls[c].task
<1>a. board \in Board /\ calls \in [Caller -> Call]
  BY DEF HomeInv, TypeInv, TypeOK
<1>1. CASE MoveApproved(c)
  <2>1. t \in Task /\ board.column[t] \in Buffer /\ calls[c].to = NextColumn(board.column[t])
    BY <1>1 DEF MoveApproved, HomeInv, CallsHome, TypeInv, CallsEngaged
  <2>2. calls[c].to \in Column /\ calls[c].to \in Role
    BY <2>1, ColumnFacts
  <2>3. board'.column = [board.column EXCEPT ![t] = calls[c].to]
    BY <1>a, <1>1, <2>1, <2>2, AdvanceFacts DEF MoveApproved
  <2> QED BY <2>1, <2>2, <2>3
<1>2. CASE MoveRejected(c)
  <2> DEFINE moved == SetPriority(Advance(board, t, calls[c].to), t, ReworkPriority)
  <2>1. t \in Task /\ board.column[t] \in Buffer /\ calls[c].to \in Role
    BY <1>2 DEF MoveRejected, HomeInv, CallsHome, TypeInv, CallsEngaged
  <2>2. /\ Advance(board, t, calls[c].to) \in Board
        /\ Advance(board, t, calls[c].to).column = [board.column EXCEPT ![t] = calls[c].to]
    BY <1>a, <2>1, AdvanceFacts, ColumnFacts
  <2>3. moved \in Board /\ moved.column = [board.column EXCEPT ![t] = calls[c].to]
    BY <2>1, <2>2, SetPriorityFacts DEF ReworkPriority
  <2>4. board' = [moved EXCEPT !.tasks[t].feedback = TRUE]
    BY <1>2 DEF MoveRejected
  <2> HIDE DEF moved
  <2>5. board'.column = moved.column
    BY <2>3, <2>4 DEF Board
  <2>6. calls[c].step # "approve"
    BY <1>2 DEF MoveRejected
  <2> QED BY <2>1, <2>3, <2>5, <2>6
<1> QED BY <1>1, <1>2

\* The other steps of a request move nothing.
LEMMA CallStays ==
    ASSUME HomeInv, NEW c \in Caller, Settle(c) \/ UpdateBoard(c) \/ PrioritizeBoard(c)
    PROVE  board'.column = board.column
<1>a. board \in Board /\ calls \in [Caller -> Call]
  BY DEF HomeInv, TypeInv, TypeOK
<1>1. CASE Settle(c) \/ UpdateBoard(c)
  BY <1>a, <1>1 DEF Settle, UpdateBoard, Board
<1>2. CASE PrioritizeBoard(c)
  <2>1. calls[c].task \in Task /\ calls[c].copy.priority \in Nat
    BY <1>a, <1>2 DEF PrioritizeBoard, HomeInv, TypeInv, CallsEngaged, Call, TaskState
  <2> QED BY <1>a, <1>2, <2>1, SetPriorityFacts DEF PrioritizeBoard
<1> QED BY <1>1, <1>2

\* A new task enters at the left; it was not on the board.
LEMMA CreateMoves ==
    ASSUME HomeInv, NEW t \in Task, NEW p \in Nat, Create(t, p)
    PROVE  /\ board.column[t] = Absent
           /\ board'.column = [board.column EXCEPT ![t] = Prioritized]
<1>1. NewTask(p) \in TaskState /\ NewTask(p).stage = Prioritized
  BY TaskFacts
<1>2. AddTask(board, t, NewTask(p)).column = [board.column EXCEPT ![t] = Prioritized]
  BY <1>1, AddTaskFacts DEF HomeInv, TypeInv, TypeOK
<1> QED BY <1>2 DEF Create, HomeInv, Present

\* An agent that advances its task finds it in its own column.
LEMMA MoveMoves ==
    ASSUME HomeInv, NEW r \in Role, Move(r)
    PROVE  /\ agent[r].task \in Task /\ board.column[agent[r].task] = r
           /\ board'.column = [board.column EXCEPT ![agent[r].task] = NextColumn(r)]
<1>1. agent[r].task \in Task /\ NextColumn(r) \in Column /\ board.column[agent[r].task] = r
  BY ColumnFacts DEF Move, HomeInv, AtHome, TypeInv, AgentsEngaged
<1>2. board'.column = [board.column EXCEPT ![agent[r].task] = NextColumn(r)]
  BY <1>1, AdvanceFacts DEF Move, HomeInv, TypeInv, TypeOK
<1> QED BY <1>1, <1>2

LEMMA MoveKind ==
    ASSUME HomeInv, RoomKept, NoBlocking, NoRestart, [Next]_poolVars
    PROVE  \/ board'.column = board.column
           \/ Entering \/ Working \/ Approving \/ Reworking
<1>a. board \in Board /\ calls \in [Caller -> Call]
  BY DEF HomeInv, TypeInv, TypeOK
<1>1. ASSUME NEW r \in Role, AgentStep(r)
      PROVE  board'.column = board.column \/ Working
  <2>1. StandsStill \/ CheckWip(r) \/ Move(r)
    BY <1>1, AgentStepKind DEF HomeInv
  <2>2. CASE Move(r)
    <3>1. NextColumn(r) \in Buffer => Count(board, NextColumn(r)) < Limit[NextColumn(r)]
      BY <2>2 DEF Move, RoomKept
    <3>2. /\ agent[r].task \in Task /\ board.column[agent[r].task] = r
          /\ board'.column = [board.column EXCEPT ![agent[r].task] = NextColumn(r)]
      BY <2>2, MoveMoves
    <3> QED BY <3>1, <3>2 DEF Working
  <2> QED BY <2>1, <2>2 DEF StandsStill, CheckWip
<1>2. ASSUME NEW r \in Role, AgentTool(r) \/ Unblock(r)
      PROVE  board'.column = board.column
  <2>1. ASSUME NEW blockers, BlockTask(r, blockers)
        PROVE  FALSE
    BY <2>1, Unspent DEF BlockTask, NoBlocking, Op, HomeInv
  <2> QED BY <1>2, <2>1 DEF AgentTool, AskHuman, Unblock
<1>3. ASSUME NEW c \in Caller, Request(c)
      PROVE  board'.column = board.column
  BY <1>3, RequestKind DEF HomeInv, StandsStill
<1>4. ASSUME NEW c \in Caller, CallStep(c)
      PROVE  board'.column = board.column \/ Approving \/ Reworking
  <2>1. CASE MoveApproved(c)
    <3>1. /\ calls[c].task \in Task /\ board.column[calls[c].task] \in Buffer
          /\ board'.column = [board.column EXCEPT ![calls[c].task]
                                  = NextColumn(board.column[calls[c].task])]
      BY <2>1, VerdictMoves DEF MoveApproved
    <3> QED BY <2>1, <3>1 DEF MoveApproved, Approving
  <2>2. CASE MoveRejected(c)
    <3>1. /\ calls[c].task \in Task /\ board.column[calls[c].task] \in Buffer
          /\ \E to \in Role : board'.column = [board.column EXCEPT ![calls[c].task] = to]
      BY <2>2, VerdictMoves
    <3> QED BY <2>2, <3>1 DEF MoveRejected, Reworking
  <2>3. CASE Settle(c) \/ UpdateBoard(c) \/ PrioritizeBoard(c)
    BY <2>3, CallStays
  <2> QED BY <1>4, <2>1, <2>2, <2>3 DEF CallStep
<1>5. ASSUME NEW t \in Task, NEW p \in Nat, Create(t, p)
      PROVE  Entering
  BY <1>5, CreateMoves DEF Entering
<1>6. ~Crash
  BY Unspent DEF Crash, NoRestart, Op, HomeInv
<1>7. CASE Subscribe \/ RunLoop \/ Lag \/ UNCHANGED poolVars
  BY <1>7 DEF Subscribe, RunLoop, Lag, OnTaskCreated, OnTaskEntersWork,
              OnTaskEntersBuffer, OnTaskDone, OnAgentBlocked, poolVars
<1>8. \A p \in Priorities \cup {DefaultPriority} : p \in Nat
  BY DispatcherAssumption, TaskFacts
<1> QED BY <1>1, <1>2, <1>3, <1>4, <1>5, <1>6, <1>7, <1>8 DEF Next

\* Under the conditions above, and while the daemon runs, a task leaves a
\* buffer only in the step of a verdict on that task: no agent's late result,
\* no event and no edit moves it.
THEOREM BuffersAreGated ==
    ASSUME NoBlocking, NoRestart
    PROVE  InTurnSpec => HumanGate
<1> DEFINE Gate == \A t \in Task :
                       /\ board.column[t] \in Buffer
                       /\ board'.column[t] # board.column[t]
                       => \E c \in Caller : calls[c].task = t
                                            /\ calls[c].step \in {"approve", "rework"}
<1>1. ASSUME HomeInv, RoomKept, [Next]_poolVars
      PROVE  Gate
  <2>a. board.column \in [Task -> Column \cup {Absent}]
    BY <1>1 DEF HomeInv, TypeInv, TypeOK, Board
  <2>b. Absent \notin Buffer /\ \A r \in Role : r \notin Buffer
    BY ColumnFacts
  <2>1. CASE board'.column = board.column
    BY <2>1
  <2>2. CASE Entering
    BY <2>2, <2>a, <2>b DEF Entering
  <2>3. CASE Working
    BY <2>3, <2>a, <2>b DEF Working
  <2>4. CASE Approving \/ Reworking
    BY <2>4, <2>a DEF Approving, Reworking
  <2> QED BY <1>1, <2>1, <2>2, <2>3, <2>4, MoveKind
<1>2. HomeInv /\ RoomKept /\ [Next]_poolVars => [Gate]_poolVars
  BY <1>1
<1>3. HumanGate <=> [][Gate]_poolVars
  BY DEF HumanGate
<1> HIDE DEF Gate
<1> QED BY <1>2, <1>3, HomeInvariant, RoomIsKept, InTurnInvariant, PTL DEF Spec

\* The instance's columns and counts are those of the board.
LEMMA SameColumns ==
    /\ Abstract!Column = Column /\ Abstract!Absent = Absent /\ Abstract!Buffer = Buffer
    /\ Abstract!Role = Role /\ Abstract!Prioritized = Prioritized
    /\ \A c : Abstract!NextColumn(c) = NextColumn(c)
BY DEF Abstract!Column, Abstract!Absent, Abstract!Buffer, Abstract!Role, Abstract!Prioritized,
       Abstract!NextColumn, Abstract!Designing, Abstract!CodingBuffer, Abstract!Coding,
       Abstract!ReviewBuffer, Abstract!Reviewing, Abstract!SecurityAuditBuffer,
       Abstract!Auditing, Abstract!DeploymentBuffer, Abstract!Deploying, Abstract!Done,
       Column, Absent, Buffer, Role, Prioritized, NextColumn, Designing, CodingBuffer,
       Coding, ReviewBuffer, Reviewing, SecurityAuditBuffer, Auditing, DeploymentBuffer,
       Deploying, Done

LEMMA SameCount == \A c : Abstract!Occupied(c) = Count(board, c)
<1>1. \A S : Abstract!Cardinality(S) = Cardinality(S)
  BY DEF Abstract!Cardinality, Cardinality
<1> QED BY <1>1 DEF Abstract!Occupied, Count, TasksIn

\* Under the same conditions the dispatcher implements Pipeline: tasks enter at
\* the left, agents take them to the next column and into a buffer only while
\* it has room -- although the room is counted in an earlier step than the
\* move -- and out of a buffer they go by a verdict alone.
THEOREM PipelineIsFollowed ==
    ASSUME NoBlocking, NoRestart
    PROVE  InTurnSpec => FollowsPipeline
<1>1. Init => Abstract!Init
  <2>1. TypeInv => board.column \in [Task -> Column \cup {Absent}]
    BY DEF TypeInv, TypeOK, Board
  <2> QED BY <2>1, InitType, SameColumns DEF Abstract!Init
<1>2. ASSUME HomeInv, RoomKept, [Next]_poolVars
      PROVE  [Abstract!Next]_(board.column)
  <2>1. CASE board'.column = board.column
    BY <2>1
  <2>2. CASE Entering
    BY <2>2, SameColumns DEF Entering, Abstract!Next, Abstract!Enter, Abstract!Put
  <2>3. CASE Working
    BY <2>3, SameColumns, SameCount DEF Working, Abstract!Next, Abstract!Work, Abstract!Put
  <2>4. CASE Approving
    BY <2>4, SameColumns DEF Approving, Abstract!Next, Abstract!Approve, Abstract!Put
  <2>5. CASE Reworking
    BY <2>5, SameColumns DEF Reworking, Abstract!Next, Abstract!Rework, Abstract!Put
  <2> QED BY <1>2, <2>1, <2>2, <2>3, <2>4, <2>5, MoveKind
<1> QED BY <1>1, <1>2, HomeInvariant, RoomIsKept, InTurnInvariant, PTL
        DEF Spec, FollowsPipeline, Abstract!Spec
=============================================================================
