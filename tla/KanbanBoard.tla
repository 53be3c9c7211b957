----------------------------- MODULE KanbanBoard -----------------------------
(***************************************************************************)
(* The board of src/dispatcher/board.rs as values and operators: where     *)
(* every task is, in which order the tasks of a column stand, and the      *)
(* board's own copy of every task.                                         *)
(*                                                                         *)
(* Columns are numbered from left to right, so that the column after c is  *)
(* c + 1.  An agent role is named by the one column it works               *)
(* (AgentRole::column is injective).  The order of a column is the         *)
(* relation "ahead": <<t, u>> says that t stands before u in the column    *)
(* both are in.  The sequences the code keeps are in BoardLists, which     *)
(* shows that they implement this relation.                                *)
(***************************************************************************)
EXTENDS Integers, FiniteSets

CONSTANT Task        \* task ids, on the board or still to be created

ASSUME TaskAssumption == IsFiniteSet(Task)

-----------------------------------------------------------------------------
(* Columns and roles: enum Column, ALL_COLUMNS, enum AgentRole.            *)

Prioritized         == 1
Designing           == 2
CodingBuffer        == 3
Coding              == 4
ReviewBuffer        == 5
Reviewing           == 6
SecurityAuditBuffer == 7
Auditing            == 8
DeploymentBuffer    == 9
Deploying           == 10
Done                == 11

Column == Prioritized .. Done

\* The place of a task that is not on the board, and the stage of a task
\* that has no file on disk.
Absent == 0

\* Column::is_buffer: the columns a task leaves only with a human's approval.
Buffer == {CodingBuffer, ReviewBuffer, SecurityAuditBuffer, DeploymentBuffer}

\* Column::agent_role is Some(_) exactly in these columns.
Role == {Prioritized, Designing, Coding, Reviewing, Auditing, Deploying}

\* Column::next and Column::prev, inside the pipeline.
NextColumn(c) == c + 1
PrevColumn(c) == c - 1

-----------------------------------------------------------------------------
(* Tasks.  Of a task's fields the model keeps those that steer it; "text"  *)
(* is the version of its title and description.                            *)

ReworkPriority  == 0
DefaultPriority == 100

TaskState == [stage     : Column \cup {Absent},
              priority  : Nat,
              blockedBy : SUBSET Task,
              branch    : BOOLEAN,       \* a git branch has been named
              feedback  : BOOLEAN,       \* a human's rework feedback is attached
              text      : Nat]

\* A task that was never created.
Blank == [stage |-> Absent, priority |-> DefaultPriority, blockedBy |-> {},
          branch |-> FALSE, feedback |-> FALSE, text |-> 0]

\* Task::new, with the priority asked for: Stage::Backlog, which to_column
\* maps to Prioritized.
NewTask(p) == [Blank EXCEPT !.stage = Prioritized, !.priority = p]

-----------------------------------------------------------------------------
(* The board.                                                              *)

Board == [column : [Task -> Column \cup {Absent}],
          ahead  : SUBSET (Task \X Task),
          tasks  : [Task -> TaskState]]

TasksIn(b, c) == {t \in Task : b.column[t] = c}

Count(b, c) == Cardinality(TasksIn(b, c))

\* sort_column is stable: of two tasks with the same priority the one that
\* stood first stays first.
Precedes(b, t, u) ==
    \/ b.tasks[t].priority < b.tasks[u].priority
    \/ b.tasks[t].priority = b.tasks[u].priority /\ <<t, u>> \in b.ahead

SortColumn(b, c) ==
    [b EXCEPT !.ahead =
        {p \in @ : p[1] \notin TasksIn(b, c)}
            \cup {p \in TasksIn(b, c) \X TasksIn(b, c) :
                     p[1] # p[2] /\ Precedes(b, p[1], p[2])}]

\* Take t out of its column's list.
Retain(b, t) == {p \in b.ahead : t # p[1] /\ t # p[2]}

\* Move t to the end of column c, set its stage, sort c.
Advance(b, t, c) ==
    SortColumn([b EXCEPT !.column[t] = c,
                         !.tasks[t].stage = c,
                         !.ahead = Retain(b, t) \cup ((TasksIn(b, c) \ {t}) \X {t})],
               c)

\* Put a task that is not on the board in the column of its stage.
AddTask(b, t, s) ==
    SortColumn([b EXCEPT !.column[t] = s.stage,
                         !.tasks[t] = s,
                         !.ahead = @ \cup (TasksIn(b, s.stage) \X {t})],
               s.stage)

\* Mutant: set_priority forgets to sort.
SetPriorityUnsorted(b, t, p) == [b EXCEPT !.tasks[t].priority = p]

\* set_priority sorts the column of the task's stage, whatever list holds it.
SetPriority(b, t, p) ==
    SortColumn([b EXCEPT !.tasks[t].priority = p], b.tasks[t].stage)

\* All blockers are on the board and Done: an unknown one fails closed.
Ready(b, t) ==
    \A u \in b.tasks[t].blockedBy : b.column[u] # Absent /\ b.tasks[u].stage = Done

\* next_unblocked(c): the first ready task of the column (at most one).
NextUnblocked(b, c) ==
    {t \in TasksIn(b, c) :
        /\ Ready(b, t)
        /\ \A u \in TasksIn(b, c) : <<u, t>> \in b.ahead => ~Ready(b, u)}

\* The order in which load_all_tasks finds the files: read_dir promises none.
LoadOrder == {f \in [Task -> 1 .. Cardinality(Task)] :
                 \A t, u \in Task : f[t] = f[u] => t = u}

\* from_tasks: every stored task in the column of its stage, each column
\* sorted by priority, equal priorities in the order they were loaded.
FromTasks(disk, load) ==
    [column |-> [t \in Task |-> disk[t].stage],
     tasks  |-> disk,
     ahead  |-> {p \in Task \X Task :
                    /\ disk[p[1]].stage = disk[p[2]].stage
                    /\ disk[p[1]].stage # Absent
                    /\ \/ disk[p[1]].priority < disk[p[2]].priority
                       \/ /\ disk[p[1]].priority = disk[p[2]].priority
                          /\ load[p[1]] < load[p[2]]}]
=============================================================================
