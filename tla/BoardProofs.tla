------------------------------ MODULE BoardProofs -----------------------------
(***************************************************************************)
(* What the operators of the board and of the review queue do, for any     *)
(* number of tasks and items: the lemmas on which the theorems about the   *)
(* dispatcher and the terminal rest.                                       *)
(***************************************************************************)
EXTENDS ReviewQueue, FiniteSetTheorems, SequenceTheorems, WellFoundedInduction, TLAPS

-----------------------------------------------------------------------------
(* The board's operators: what they do to the columns, and their types.    *)

\* The buffers, the columns with an agent, and the two ends are all columns;
\* what follows a work column is a column, what follows a buffer has an agent.
LEMMA ColumnFacts ==
    /\ Role \subseteq Column /\ Buffer \subseteq Column /\ Role \cap Buffer = {}
    /\ \A r \in Role : NextColumn(r) \in Column
    /\ \A c \in Buffer : NextColumn(c) \in Role
    /\ Prioritized \in Role /\ Done \in Column /\ Absent \notin Column
BY SMT DEF Role, Buffer, Column, NextColumn, Prioritized, Designing, CodingBuffer,
           Coding, ReviewBuffer, Reviewing, SecurityAuditBuffer, Auditing,
           DeploymentBuffer, Deploying, Done, Absent

\* sort_column reorders one column and moves nothing.
LEMMA SortColumnFacts ==
    ASSUME NEW b \in Board, NEW c
    PROVE  /\ SortColumn(b, c) \in Board
           /\ SortColumn(b, c).column = b.column
           /\ SortColumn(b, c).tasks = b.tasks
BY DEF SortColumn, Board, TasksIn

\* A new task is a task.
LEMMA TaskFacts ==
    /\ Blank \in TaskState /\ DefaultPriority \in Nat
    /\ \A p \in Nat : NewTask(p) \in TaskState /\ NewTask(p).stage = Prioritized
BY ColumnFacts DEF Blank, NewTask, TaskState, DefaultPriority, Role

\* advance moves the one task, to the given column.
LEMMA AdvanceFacts ==
    ASSUME NEW b \in Board, NEW t \in Task, NEW c \in Column
    PROVE  /\ Advance(b, t, c) \in Board
           /\ Advance(b, t, c).column = [b.column EXCEPT ![t] = c]
<1> DEFINE moved == [b EXCEPT !.column[t] = c,
                              !.tasks[t].stage = c,
                              !.ahead = Retain(b, t) \cup ((TasksIn(b, c) \ {t}) \X {t})]
<1>1. [b.tasks[t] EXCEPT !.stage = c] \in TaskState
  BY DEF Board, TaskState
<1>2. moved \in Board /\ moved.column = [b.column EXCEPT ![t] = c]
  BY <1>1 DEF Board, Retain, TasksIn
<1>3. Advance(b, t, c) = SortColumn(moved, c)
  BY DEF Advance
<1> HIDE DEF moved
<1> QED BY <1>2, <1>3, SortColumnFacts

\* add_task puts the one task into the column of its stage.
LEMMA AddTaskFacts ==
    ASSUME NEW b \in Board, NEW t \in Task, NEW s \in TaskState
    PROVE  /\ AddTask(b, t, s) \in Board
           /\ AddTask(b, t, s).column = [b.column EXCEPT ![t] = s.stage]
<1> DEFINE added == [b EXCEPT !.column[t] = s.stage,
                              !.tasks[t] = s,
                              !.ahead = @ \cup (TasksIn(b, s.stage) \X {t})]
<1>1. added \in Board /\ added.column = [b.column EXCEPT ![t] = s.stage]
  BY DEF Board, TasksIn, TaskState
<1>2. AddTask(b, t, s) = SortColumn(added, s.stage)
  BY DEF AddTask
<1> HIDE DEF added
<1> QED BY <1>1, <1>2, SortColumnFacts

\* set_priority moves nothing.
LEMMA SetPriorityFacts ==
    ASSUME NEW b \in Board, NEW t \in Task, NEW p \in Nat
    PROVE  /\ SetPriority(b, t, p) \in Board
           /\ SetPriority(b, t, p).column = b.column
<1> DEFINE ranked == [b EXCEPT !.tasks[t].priority = p]
<1>1. [b.tasks[t] EXCEPT !.priority = p] \in TaskState
  BY DEF Board, TaskState
<1>2. ranked \in Board /\ ranked.column = b.column
  BY <1>1 DEF Board
<1>3. SetPriority(b, t, p) = SortColumn(ranked, b.tasks[t].stage)
  BY DEF SetPriority
<1> HIDE DEF ranked
<1> QED BY <1>2, <1>3, SortColumnFacts

\* Writing to the task map moves nothing.
LEMMA OverwriteFacts ==
    ASSUME NEW b \in Board, NEW t \in Task, NEW s \in TaskState
    PROVE  /\ [b EXCEPT !.tasks[t] = s] \in Board
           /\ [b EXCEPT !.tasks[t] = s].column = b.column
BY DEF Board

\* A reload puts every stored task in the column of its stage.
LEMMA FromTasksFacts ==
    ASSUME NEW d \in [Task -> TaskState], NEW load
    PROVE  /\ FromTasks(d, load) \in Board
           /\ FromTasks(d, load).column = [t \in Task |-> d[t].stage]
BY DEF FromTasks, Board, TaskState

-----------------------------------------------------------------------------
(* The board's operators: what they do to the stages of the tasks.         *)

\* Columns are counted from 1, Absent is left of them all, and the column
\* after a column is the next number.
LEMMA ColumnOrder ==
    /\ Absent = 0
    /\ \A c \in Column : c \in Nat /\ c > 0
    /\ \A c : NextColumn(c) = c + 1
BY SMT DEF Column, Absent, NextColumn, Prioritized, Done

LEMMA StageNat == \A s \in TaskState : s.stage \in Nat
BY ColumnOrder DEF TaskState

\* Column and stage of every task of board a are those of board b, except that
\* t has been put into column c.
MovedTo(a, b, t, c) ==
    \A u \in Task :
        /\ a.column[u] = IF u = t THEN c ELSE b.column[u]
        /\ a.tasks[u].stage = IF u = t THEN c ELSE b.tasks[u].stage

\* Both boards have every task in the same column with the same stage.
SamePlaces(a, b) ==
    \A u \in Task : a.column[u] = b.column[u] /\ a.tasks[u].stage = b.tasks[u].stage

\* advance sets column and stage of the one task.
LEMMA AdvancePlaces ==
    ASSUME NEW b \in Board, NEW t \in Task, NEW c \in Column
    PROVE  MovedTo(Advance(b, t, c), b, t, c)
<1> DEFINE moved == [b EXCEPT !.column[t] = c,
                              !.tasks[t].stage = c,
                              !.ahead = Retain(b, t) \cup ((TasksIn(b, c) \ {t}) \X {t})]
<1>1. [b.tasks[t] EXCEPT !.stage = c] \in TaskState
  BY DEF Board, TaskState
<1>2. moved \in Board
  BY <1>1 DEF Board, Retain, TasksIn
<1>3. MovedTo(moved, b, t, c)
  BY DEF MovedTo, Board, TaskState
<1>4. Advance(b, t, c) = SortColumn(moved, c)
  BY DEF Advance
<1> HIDE DEF moved
<1> QED BY <1>2, <1>3, <1>4, SortColumnFacts DEF MovedTo

\* add_task puts the task where its stage says.
LEMMA AddTaskPlaces ==
    ASSUME NEW b \in Board, NEW t \in Task, NEW s \in TaskState
    PROVE  MovedTo(AddTask(b, t, s), b, t, s.stage)
<1> DEFINE added == [b EXCEPT !.column[t] = s.stage,
                              !.tasks[t] = s,
                              !.ahead = @ \cup (TasksIn(b, s.stage) \X {t})]
<1>1. added \in Board
  BY DEF Board, TasksIn, TaskState
<1>2. MovedTo(added, b, t, s.stage)
  BY DEF MovedTo, Board
<1>3. AddTask(b, t, s) = SortColumn(added, s.stage)
  BY DEF AddTask
<1> HIDE DEF added
<1> QED BY <1>1, <1>2, <1>3, SortColumnFacts DEF MovedTo

\* set_priority changes no column and no stage.
LEMMA SetPriorityPlaces ==
    ASSUME NEW b \in Board, NEW t \in Task, NEW p \in Nat
    PROVE  SamePlaces(SetPriority(b, t, p), b)
<1> DEFINE ranked == [b EXCEPT !.tasks[t].priority = p]
<1>1. [b.tasks[t] EXCEPT !.priority = p] \in TaskState
  BY DEF Board, TaskState
<1>2. ranked \in Board
  BY <1>1 DEF Board
<1>3. SamePlaces(ranked, b)
  BY DEF SamePlaces, Board, TaskState
<1>4. SetPriority(b, t, p) = SortColumn(ranked, b.tasks[t].stage)
  BY DEF SetPriority
<1> HIDE DEF ranked
<1> QED BY <1>2, <1>3, <1>4, SortColumnFacts DEF SamePlaces

\* The board change of reject_to: the task goes where the human sends it.
LEMMA RejectPlaces ==
    ASSUME NEW b \in Board, NEW t \in Task, NEW c \in Column
    PROVE  MovedTo([SetPriority(Advance(b, t, c), t, ReworkPriority)
                      EXCEPT !.tasks[t].feedback = TRUE], b, t, c)
<1> DEFINE moved == Advance(b, t, c)
           risen == SetPriority(moved, t, ReworkPriority)
<1>1. moved \in Board /\ MovedTo(moved, b, t, c)
  BY AdvanceFacts, AdvancePlaces
<1> HIDE DEF moved
<1>2. risen \in Board /\ SamePlaces(risen, moved)
  BY <1>1, SetPriorityFacts, SetPriorityPlaces DEF ReworkPriority
<1> HIDE DEF risen
<1>3. SamePlaces([risen EXCEPT !.tasks[t].feedback = TRUE], risen)
  BY <1>2 DEF SamePlaces, Board, TaskState
<1> QED BY <1>1, <1>2, <1>3 DEF MovedTo, SamePlaces, moved, risen

\* A reload takes column and stage from the disk.
LEMMA FromTasksPlaces ==
    ASSUME NEW d \in [Task -> TaskState], NEW load
    PROVE  \A u \in Task : /\ FromTasks(d, load).column[u] = d[u].stage
                           /\ FromTasks(d, load).tasks[u].stage = d[u].stage
BY DEF FromTasks

-----------------------------------------------------------------------------
(* Counting a column.                                                      *)

\* A column's tasks can be counted.
LEMMA CountType ==
    ASSUME NEW b, NEW c
    PROVE  IsFiniteSet(TasksIn(b, c)) /\ Count(b, c) \in Nat
<1>1. TasksIn(b, c) \subseteq Task
  BY DEF TasksIn
<1>2. IsFiniteSet(TasksIn(b, c))
  BY <1>1, TaskAssumption, FS_Subset
<1> QED BY <1>2, FS_CardinalityType DEF Count

\* Moving one task adds at most one to the column it goes to, and none to any
\* other.
LEMMA CountAfterMove ==
    ASSUME NEW b \in Board, NEW a \in Board, NEW t \in Task, NEW c,
           a.column = [b.column EXCEPT ![t] = c]
    PROVE  /\ Count(a, c) <= Count(b, c) + 1
           /\ \A d : d # c => Count(a, d) <= Count(b, d)
<1>1. ASSUME NEW d, d # c
      PROVE  Count(a, d) <= Count(b, d)
  <2>1. TasksIn(a, d) \subseteq TasksIn(b, d)
    BY <1>1 DEF TasksIn, Board
  <2> QED BY <2>1, CountType, FS_Subset DEF Count
<1>2. Count(a, c) <= Count(b, c) + 1
  <2>1. TasksIn(a, c) \subseteq TasksIn(b, c) \cup {t}
    BY DEF TasksIn, Board
  <2>2. /\ IsFiniteSet(TasksIn(b, c) \cup {t})
        /\ Cardinality(TasksIn(b, c) \cup {t}) <= Cardinality(TasksIn(b, c)) + 1
    <3>1. /\ IsFiniteSet(TasksIn(b, c) \cup {t})
          /\ Cardinality(TasksIn(b, c) \cup {t}) =
                IF t \in TasksIn(b, c) THEN Cardinality(TasksIn(b, c))
                ELSE Cardinality(TasksIn(b, c)) + 1
      BY CountType, FS_AddElement
    <3>2. Cardinality(TasksIn(b, c)) \in Nat
      BY CountType, FS_CardinalityType
    <3> QED BY <3>1, <3>2
  <2>3. Cardinality(TasksIn(a, c)) <= Cardinality(TasksIn(b, c) \cup {t})
    BY <2>1, <2>2, FS_Subset
  <2>4. Cardinality(TasksIn(a, c)) \in Nat /\ Cardinality(TasksIn(b, c)) \in Nat
        /\ Cardinality(TasksIn(b, c) \cup {t}) \in Nat
    BY <2>2, CountType, FS_CardinalityType
  <2> QED BY <2>2, <2>3, <2>4 DEF Count
<1> QED BY <1>1, <1>2

\* The counts depend on the columns only.
LEMMA CountSame ==
    ASSUME NEW b \in Board, NEW a \in Board, a.column = b.column
    PROVE  \A c : Count(a, c) = Count(b, c)
BY DEF Count, TasksIn

\* Two agents never advance into the same column.
LEMMA OneEntrant == \A r, s \in Role : NextColumn(r) = NextColumn(s) => r = s
BY SMT DEF Role, NextColumn, Prioritized, Designing, Coding, Reviewing, Auditing, Deploying

-----------------------------------------------------------------------------
(* The order of a column.                                                  *)

\* The tasks of column c stand in one order ...
Ordered(b, c) ==
    \A t, u \in TasksIn(b, c) : t # u => (<<t, u>> \in b.ahead <=> <<u, t>> \notin b.ahead)

\* ... and by priority.
ByPriority(b, c) ==
    \A t, u \in TasksIn(b, c) : t # u /\ <<t, u>> \in b.ahead =>
        b.tasks[t].priority <= b.tasks[u].priority

\* A board in order: every column is sorted, the board's copy of a task knows
\* its column, and only tasks on the board stand before one another.
InOrder(b) ==
    /\ \A c \in Column : Ordered(b, c) /\ ByPriority(b, c)
    /\ \A t \in Task : b.tasks[t].stage = b.column[t]
    /\ \A p \in b.ahead : b.column[p[1]] # Absent /\ b.column[p[2]] # Absent

\* sort_column sorts the one column, if it has an order at all, and leaves the
\* others as they are.
LEMMA SortColumnSorts ==
    ASSUME NEW b \in Board, NEW c \in Column,
           \A d \in Column : Ordered(b, d),
           \A d \in Column : d # c => ByPriority(b, d),
           \A t \in Task : b.tasks[t].stage = b.column[t],
           \A p \in b.ahead : b.column[p[1]] # Absent /\ b.column[p[2]] # Absent
    PROVE  InOrder(SortColumn(b, c))
<1> DEFINE a == SortColumn(b, c)
<1>1. a.column = b.column /\ a.tasks = b.tasks
  BY SortColumnFacts
<1>2. a.ahead = {p \in b.ahead : p[1] \notin TasksIn(b, c)}
                    \cup {p \in TasksIn(b, c) \X TasksIn(b, c) :
                             p[1] # p[2] /\ Precedes(b, p[1], p[2])}
  BY DEF SortColumn, Board
<1>3. \A t, u \in TasksIn(b, c) : <<t, u>> \in a.ahead <=> t # u /\ Precedes(b, t, u)
  BY <1>2
<1>4. \A t, u : t \notin TasksIn(b, c) => (<<t, u>> \in a.ahead <=> <<t, u>> \in b.ahead)
  BY <1>2
<1>5. \A t \in Task : b.tasks[t].priority \in Nat
  BY DEF Board, TaskState
<1>6. \A d : TasksIn(a, d) = TasksIn(b, d) /\ TasksIn(b, d) \subseteq Task
  BY <1>1 DEF TasksIn
<1>7. \A p \in a.ahead : b.column[p[1]] # Absent /\ b.column[p[2]] # Absent
  <2>1. \A t \in TasksIn(b, c) : b.column[t] # Absent
    BY ColumnFacts DEF TasksIn
  <2> QED BY <1>2, <2>1
<1> HIDE DEF a
<1>8. Ordered(a, c) /\ ByPriority(a, c)
  <2>1. Ordered(b, c)
    OBVIOUS
  <2>2. \A t, u \in TasksIn(b, c) : t # u => (Precedes(b, t, u) <=> ~Precedes(b, u, t))
    BY <1>5, <1>6, <2>1 DEF Ordered, Precedes
  <2>3. \A t, u \in TasksIn(b, c) : Precedes(b, t, u) => b.tasks[t].priority <= b.tasks[u].priority
    BY <1>5, <1>6 DEF Precedes
  <2> QED BY <1>1, <1>3, <1>6, <2>2, <2>3 DEF Ordered, ByPriority
<1>9. ASSUME NEW d \in Column, d # c
      PROVE  Ordered(a, d) /\ ByPriority(a, d)
  <2>1. \A t \in TasksIn(b, d) : t \notin TasksIn(b, c)
    BY <1>9 DEF TasksIn
  <2>2. Ordered(b, d) /\ ByPriority(b, d)
    BY <1>9
  <2> QED BY <1>1, <1>4, <1>6, <2>1, <2>2 DEF Ordered, ByPriority
<1> QED BY <1>1, <1>7, <1>8, <1>9 DEF InOrder, a

\* advance keeps a board in order.
LEMMA AdvanceSorts ==
    ASSUME NEW b \in Board, InOrder(b), NEW t \in Task, NEW c \in Column
    PROVE  InOrder(Advance(b, t, c))
<1> DEFINE moved == [b EXCEPT !.column[t] = c,
                              !.tasks[t].stage = c,
                              !.ahead = Retain(b, t) \cup ((TasksIn(b, c) \ {t}) \X {t})]
<1>1. [b.tasks[t] EXCEPT !.stage = c] \in TaskState
  BY DEF Board, TaskState
<1>2. moved \in Board
  BY <1>1 DEF Board, Retain, TasksIn
<1>3. /\ moved.column = [b.column EXCEPT ![t] = c]
      /\ moved.ahead = Retain(b, t) \cup ((TasksIn(b, c) \ {t}) \X {t})
      /\ \A u \in Task : /\ moved.tasks[u].priority = b.tasks[u].priority
                         /\ moved.tasks[u].stage = IF u = t THEN c ELSE b.tasks[u].stage
  BY DEF Board, TaskState
<1>4. Advance(b, t, c) = SortColumn(moved, c)
  BY DEF Advance
<1> HIDE DEF moved
<1>5. \A u, w : u # t /\ w # t => (<<u, w>> \in moved.ahead <=> <<u, w>> \in b.ahead)
  BY <1>3 DEF Retain
<1>6. \A u \in TasksIn(b, c) : u # t => <<u, t>> \in moved.ahead
  BY <1>3
<1>7. \A u : <<t, u>> \notin moved.ahead
  BY <1>3 DEF Retain
<1>8. \A d, u : u \in TasksIn(moved, d) => (u = t /\ d = c) \/ (u # t /\ u \in TasksIn(b, d))
  BY <1>3 DEF TasksIn, Board
<1>9. ASSUME NEW d \in Column, NEW u \in TasksIn(moved, d), NEW w \in TasksIn(moved, d), u # w
      PROVE  <<u, w>> \in moved.ahead <=> <<w, u>> \notin moved.ahead
  <2>1. CASE u # t /\ w # t
    <3>1. u \in TasksIn(b, d) /\ w \in TasksIn(b, d)
      BY <1>8, <2>1
    <3>2. <<u, w>> \in b.ahead <=> <<w, u>> \notin b.ahead
      BY <1>9, <3>1 DEF InOrder, Ordered
    <3> QED BY <1>5, <2>1, <3>2
  <2>2. CASE u = t
    BY <1>6, <1>7, <1>8, <1>9, <2>2
  <2>3. CASE w = t
    BY <1>6, <1>7, <1>8, <1>9, <2>3
  <2> QED BY <2>1, <2>2, <2>3
<1>10. \A d \in Column : d # c => ByPriority(moved, d)
  <2>1. \A d, u : u \in TasksIn(moved, d) => u \in Task
    BY DEF TasksIn
  <2> QED BY <1>3, <1>5, <1>8, <2>1 DEF InOrder, ByPriority
<1>11. \A u \in Task : moved.tasks[u].stage = moved.column[u]
  BY <1>3 DEF InOrder, Board
<1>12. \A p \in moved.ahead : moved.column[p[1]] # Absent /\ moved.column[p[2]] # Absent
  <2>1. b.ahead \subseteq Task \X Task /\ b.column \in [Task -> Column \cup {Absent}] /\ c # Absent
    BY ColumnFacts DEF Board
  <2>2. \A p \in Retain(b, t) : moved.column[p[1]] # Absent /\ moved.column[p[2]] # Absent
    BY <1>3, <2>1 DEF InOrder, Retain
  <2>3. \A u \in TasksIn(b, c) : moved.column[u] # Absent
    BY <1>3, <2>1 DEF TasksIn
  <2> QED BY <1>3, <2>1, <2>2, <2>3
<1>13. \A d \in Column : Ordered(moved, d)
  BY <1>9 DEF Ordered
<1> QED BY <1>2, <1>4, <1>10, <1>11, <1>12, <1>13, SortColumnSorts

\* add_task keeps a board in order, if the task was not on it.
LEMMA AddTaskSorts ==
    ASSUME NEW b \in Board, InOrder(b), NEW t \in Task, b.column[t] = Absent,
           NEW s \in TaskState, s.stage \in Column
    PROVE  InOrder(AddTask(b, t, s))
<1> DEFINE c == s.stage
           added == [b EXCEPT !.column[t] = s.stage,
                              !.tasks[t] = s,
                              !.ahead = @ \cup (TasksIn(b, s.stage) \X {t})]
<1>1. added \in Board
  BY DEF Board, TasksIn, TaskState
<1>2. /\ added.column = [b.column EXCEPT ![t] = c]
      /\ added.ahead = b.ahead \cup (TasksIn(b, c) \X {t})
      /\ added.tasks = [b.tasks EXCEPT ![t] = s]
  BY DEF Board
<1>3. AddTask(b, t, s) = SortColumn(added, c)
  BY DEF AddTask
<1> HIDE DEF added
<1>4. \A u, w : u # t /\ w # t => (<<u, w>> \in added.ahead <=> <<u, w>> \in b.ahead)
  BY <1>2
<1>5. \A u \in TasksIn(b, c) : <<u, t>> \in added.ahead
  BY <1>2
<1>6. t \notin TasksIn(b, c)
  BY ColumnFacts DEF TasksIn
<1>7. \A u : u # t => <<t, u>> \notin added.ahead
  BY <1>2 DEF InOrder
<1>8. \A d, u : u \in TasksIn(added, d) => (u = t /\ d = c) \/ (u # t /\ u \in TasksIn(b, d))
  BY <1>2 DEF TasksIn, Board
<1>9. ASSUME NEW d \in Column, NEW u \in TasksIn(added, d), NEW w \in TasksIn(added, d), u # w
      PROVE  <<u, w>> \in added.ahead <=> <<w, u>> \notin added.ahead
  <2>1. CASE u # t /\ w # t
    <3>1. u \in TasksIn(b, d) /\ w \in TasksIn(b, d)
      BY <1>8, <2>1
    <3>2. <<u, w>> \in b.ahead <=> <<w, u>> \notin b.ahead
      BY <1>9, <3>1 DEF InOrder, Ordered
    <3> QED BY <1>4, <2>1, <3>2
  <2>2. CASE u = t
    BY <1>5, <1>7, <1>8, <1>9, <2>2
  <2>3. CASE w = t
    BY <1>5, <1>7, <1>8, <1>9, <2>3
  <2> QED BY <2>1, <2>2, <2>3
<1>10. \A d \in Column : d # c => ByPriority(added, d)
  <2>1. \A d, u : u \in TasksIn(added, d) => u \in Task
    BY DEF TasksIn
  <2>2. \A u \in Task : u # t => added.tasks[u] = b.tasks[u]
    BY <1>2 DEF Board
  <2> QED BY <1>4, <1>8, <2>1, <2>2 DEF InOrder, ByPriority
<1>11. \A u \in Task : added.tasks[u].stage = added.column[u]
  BY <1>2 DEF InOrder, Board
<1>12. \A p \in added.ahead : added.column[p[1]] # Absent /\ added.column[p[2]] # Absent
  <2>1. b.ahead \subseteq Task \X Task /\ b.column \in [Task -> Column \cup {Absent}] /\ c # Absent
    BY ColumnFacts DEF Board
  <2>2. \A p \in b.ahead : added.column[p[1]] # Absent /\ added.column[p[2]] # Absent
    BY <1>2, <2>1 DEF InOrder
  <2>3. \A u \in TasksIn(b, c) : added.column[u] # Absent
    BY <1>2, <2>1 DEF TasksIn
  <2>4. added.column[t] # Absent
    BY <1>2, <2>1
  <2> QED BY <1>2, <2>1, <2>2, <2>3, <2>4
<1>13. \A d \in Column : Ordered(added, d)
  BY <1>9 DEF Ordered
<1> QED BY <1>1, <1>3, <1>10, <1>11, <1>12, <1>13, SortColumnSorts

\* set_priority keeps a board in order, if the task is on it.
LEMMA SetPrioritySorts ==
    ASSUME NEW b \in Board, InOrder(b), NEW t \in Task, b.column[t] # Absent, NEW p \in Nat
    PROVE  InOrder(SetPriority(b, t, p))
<1> DEFINE ranked == [b EXCEPT !.tasks[t].priority = p]
<1>1. [b.tasks[t] EXCEPT !.priority = p] \in TaskState
  BY DEF Board, TaskState
<1>2. ranked \in Board
  BY <1>1 DEF Board
<1>3. /\ ranked.column = b.column /\ ranked.ahead = b.ahead
      /\ \A u \in Task : /\ ranked.tasks[u].stage = b.tasks[u].stage
                         /\ u # t => ranked.tasks[u] = b.tasks[u]
  BY DEF Board, TaskState
<1>4. SetPriority(b, t, p) = SortColumn(ranked, b.tasks[t].stage)
  BY DEF SetPriority
<1>5. b.tasks[t].stage = b.column[t] /\ b.column[t] \in Column
  BY DEF InOrder, Board
<1> HIDE DEF ranked
<1>6. \A d \in Column : Ordered(ranked, d)
  BY <1>3 DEF InOrder, Ordered, TasksIn
<1>7. \A d \in Column : d # b.column[t] => ByPriority(ranked, d)
  BY <1>3 DEF InOrder, ByPriority, TasksIn
<1>8. /\ \A u \in Task : ranked.tasks[u].stage = ranked.column[u]
      /\ \A q \in ranked.ahead : ranked.column[q[1]] # Absent /\ ranked.column[q[2]] # Absent
  BY <1>3 DEF InOrder
<1> QED BY <1>2, <1>4, <1>5, <1>6, <1>7, <1>8, SortColumnSorts

\* So does everything that changes neither columns nor order nor, of any task,
\* stage and priority.
LEMMA LikewiseInOrder ==
    ASSUME NEW b \in Board, InOrder(b), NEW a, a.column = b.column, a.ahead = b.ahead,
           \A u \in Task : /\ a.tasks[u].stage = b.tasks[u].stage
                           /\ a.tasks[u].priority = b.tasks[u].priority
    PROVE  InOrder(a)
<1>1. \A c : TasksIn(a, c) = TasksIn(b, c) /\ TasksIn(b, c) \subseteq Task
  BY DEF TasksIn
<1> QED BY <1>1 DEF InOrder, Ordered, ByPriority

\* A reload brings the stored tasks into order, whatever order it finds the
\* files in: no two files are found at the same time.
LEMMA FromTasksSorts ==
    ASSUME NEW d \in [Task -> TaskState], NEW load \in LoadOrder
    PROVE  InOrder(FromTasks(d, load))
<1> DEFINE b == FromTasks(d, load)
<1>1. /\ \A t \in Task : b.column[t] = d[t].stage /\ b.tasks[t] = d[t]
      /\ \A p \in b.ahead : p \in Task \X Task /\ d[p[1]].stage # Absent
                            /\ d[p[1]].stage = d[p[2]].stage
  BY DEF FromTasks
<1>2. \A t, u \in Task : d[t].stage = d[u].stage /\ d[t].stage # Absent =>
          (<<t, u>> \in b.ahead <=>
              (d[t].priority < d[u].priority) \/
              (d[t].priority = d[u].priority /\ load[t] < load[u]))
  <2>1. b.ahead = {p \in Task \X Task :
                      /\ d[p[1]].stage = d[p[2]].stage
                      /\ d[p[1]].stage # Absent
                      /\ \/ d[p[1]].priority < d[p[2]].priority
                         \/ /\ d[p[1]].priority = d[p[2]].priority
                            /\ load[p[1]] < load[p[2]]}
    BY DEF FromTasks
  <2> HIDE DEF b
  <2> QED BY <2>1
<1>3. \A t, u \in Task : /\ d[t].priority \in Nat /\ load[t] \in Nat
                         /\ t # u => load[t] # load[u]
  <2>1. Cardinality(Task) \in Nat
    BY FS_CardinalityType, TaskAssumption
  <2>2. load \in [Task -> 1 .. Cardinality(Task)] /\ \A t, u \in Task : load[t] = load[u] => t = u
    BY DEF LoadOrder
  <2>3. \A t \in Task : load[t] \in 1 .. Cardinality(Task)
    BY <2>2
  <2>4. \A t \in Task : d[t].priority \in Nat
    BY DEF TaskState
  <2> QED BY <2>1, <2>2, <2>3, <2>4
<1>4. \A c \in Column : \A t \in TasksIn(b, c) : t \in Task /\ d[t].stage = c /\ c # Absent
  BY <1>1, ColumnFacts DEF TasksIn
<1> HIDE DEF b
<1>5. \A c \in Column : Ordered(b, c)
  BY <1>2, <1>3, <1>4 DEF Ordered
<1>6. \A c \in Column : ByPriority(b, c)
  BY <1>1, <1>2, <1>3, <1>4 DEF ByPriority
<1> QED BY <1>1, <1>5, <1>6 DEF InOrder, b

-----------------------------------------------------------------------------
(* The review queue.                                                       *)

\* A set of numbers that is not empty has a least element: the order of Nat is
\* well founded.
LEMMA NatBefore ==
    \E R : IsWellFoundedOn(R, Nat) /\ \A m, n \in Nat : m < n => <<m, n>> \in R
<1>1. IsWellFoundedOn(OpToRel(<, Nat), Nat)
  BY NatLessThanWellFounded
<1>2. \A m, n \in Nat : m < n => <<m, n>> \in OpToRel(<, Nat)
  BY DEF OpToRel
<1> QED BY <1>1, <1>2, Zenon

LEMMA Least ==
    ASSUME NEW T, T \subseteq Nat, T # {}
    PROVE  \E n \in T : \A m \in T : n <= m
<1>1. PICK R : IsWellFoundedOn(R, Nat) /\ \A m, n \in Nat : m < n => <<m, n>> \in R
  BY NatBefore
<1>2. \E n \in T : \A m \in T : ~ (<<m, n>> \in R)
  <2>1. ASSUME NEW S, IsWellFoundedOn(R, S), T \subseteq S
        PROVE  \E n \in T : \A m \in T : ~ (<<m, n>> \in R)
    BY <2>1, WFMin
  <2> DEFINE N == Nat
  <2>2. IsWellFoundedOn(R, N) /\ T \subseteq N
    BY <1>1
  <2> HIDE DEF N
  <2> QED BY <2>1, <2>2
<1>3. PICK n \in T : \A m \in T : ~ (<<m, n>> \in R)
  BY <1>2
<1>4. \A m \in T : m \in Nat /\ n \in Nat /\ ~(m < n)
  BY <1>1, <1>3
<1>5. \A m \in T : n <= m
  BY <1>4
<1> QED BY <1>5

LEMMA Greatest ==
    ASSUME NEW n \in Nat, NEW T, T \subseteq 0 .. n, T # {}
    PROVE  \E k \in T : \A m \in T : m <= k
<1> DEFINE S == {n - m : m \in T}
<1>1. S \subseteq Nat /\ S # {}
  <2>1. \A m \in T : n - m \in Nat
    OBVIOUS
  <2> QED BY <2>1
<1>2. PICK d \in S : \A e \in S : d <= e
  BY <1>1, Least
<1>3. PICK k \in T : d = n - k
  BY <1>2
<1>4. \A m \in T : m \in Nat /\ k \in Nat /\ n - k <= n - m
  BY <1>2, <1>3
<1> QED BY <1>4

\* The queue e is q with x put in at place p.
Inserted(e, q, x, p) ==
    /\ Len(e) = Len(q) + 1
    /\ \A i \in 1 .. Len(q) + 1 :
          e[i] = IF i < p THEN q[i] ELSE IF i = p THEN x ELSE q[i - 1]

\* enqueue puts one item in at some place and keeps the others in their order.
LEMMA EnqueueFacts ==
    ASSUME NEW S, NEW q \in Seq(S), NEW x \in S
    PROVE  /\ Enqueue(q, x) \in Seq(S)
           /\ \E p \in 1 .. Len(q) + 1 : Inserted(Enqueue(q, x), q, x, p)
<1> DEFINE Rest == {i \in DOMAIN q : SortsAfter(q[i].what, x.what)}
           pos  == CHOOSE i \in Rest : \A j \in Rest : i <= j
<1>1. CASE Rest = {}
  <2>1. Enqueue(q, x) = Append(q, x)
    BY <1>1 DEF Enqueue
  <2>2. /\ Append(q, x) \in Seq(S) /\ Len(Append(q, x)) = Len(q) + 1
        /\ \A i \in 1 .. Len(q) + 1 : Append(q, x)[i] = IF i < Len(q) + 1 THEN q[i] ELSE x
    OBVIOUS
  <2>3. Len(q) + 1 \in 1 .. Len(q) + 1 /\ \A i \in 1 .. Len(q) + 1 :
           ~(i < Len(q) + 1) => i = Len(q) + 1
    OBVIOUS
  <2> HIDE DEF Rest
  <2>4. Inserted(Append(q, x), q, x, Len(q) + 1)
    BY <2>2, <2>3 DEF Inserted
  <2> QED BY <2>1, <2>2, <2>3, <2>4
<1>2. CASE Rest # {}
  <2>1. Rest \subseteq Nat /\ Rest \subseteq 1 .. Len(q)
    OBVIOUS
  <2>2. \E i \in Rest : \A j \in Rest : i <= j
    BY <1>2, <2>1, Least
  <2>3. pos \in 1 .. Len(q)
    BY <2>1, <2>2
  <2>4. Enqueue(q, x) = SubSeq(q, 1, pos - 1) \o <<x>> \o SubSeq(q, pos, Len(q))
    BY <1>2 DEF Enqueue
  <2> HIDE DEF pos, Rest
  <2> DEFINE a == SubSeq(q, 1, pos - 1)
             b == SubSeq(q, pos, Len(q))
  <2>5. a \in Seq(S) /\ Len(a) = pos - 1 /\ \A i \in 1 .. pos - 1 : a[i] = q[i]
    BY <2>3
  <2>6. b \in Seq(S) /\ Len(b) = Len(q) - pos + 1
        /\ \A i \in 1 .. Len(q) - pos + 1 : b[i] = q[i + pos - 1]
    BY <2>3
  <2> HIDE DEF a, b
  <2>7. (a \o <<x>>) \o b \in Seq(S) /\ Len((a \o <<x>>) \o b) = Len(q) + 1
        /\ \A i \in 1 .. Len(q) + 1 : ((a \o <<x>>) \o b)[i] =
               IF i < pos THEN q[i] ELSE IF i = pos THEN x ELSE q[i - 1]
    <3>1. a \o <<x>> = Append(a, x)
      BY <2>5, AppendIsConcat
    <3>2. a \o <<x>> \in Seq(S) /\ Len(a \o <<x>>) = pos
      BY <2>3, <2>5, <3>1
    <3>3. \A i \in 1 .. pos : (a \o <<x>>)[i] = IF i < pos THEN q[i] ELSE x
      BY <2>3, <2>5, <3>1
    <3> DEFINE ax == a \o <<x>>
    <3> HIDE DEF ax
    <3>4. /\ ax \o b \in Seq(S) /\ Len(ax \o b) = Len(ax) + Len(b)
          /\ \A i \in 1 .. Len(ax) + Len(b) : (ax \o b)[i] =
                 IF i <= Len(ax) THEN ax[i] ELSE b[i - Len(ax)]
      BY <2>6, <3>2, ConcatProperties DEF ax
    <3>5. ax \in Seq(S) /\ Len(ax) = pos
      BY <3>2, Zenon DEF ax
    <3>6. \A i \in 1 .. pos : ax[i] = IF i < pos THEN q[i] ELSE x
      BY <3>3, Zenon DEF ax
    <3>7. Len(ax) + Len(b) = Len(q) + 1
      BY <2>3, <2>6, <3>5
    <3>8. ASSUME NEW i \in 1 .. Len(q) + 1
          PROVE  (ax \o b)[i] = IF i < pos THEN q[i] ELSE IF i = pos THEN x ELSE q[i - 1]
      <4>1. CASE i <= pos
        BY <2>3, <3>4, <3>5, <3>6, <3>7, <4>1
      <4>2. CASE ~(i <= pos)
        <5>1. i - pos \in 1 .. Len(q) - pos + 1 /\ (i - pos) + pos - 1 = i - 1
          BY <2>3, <4>2
        <5>2. b[i - pos] = q[i - 1]
          BY <2>6, <5>1
        <5> QED BY <2>3, <3>4, <3>5, <3>7, <4>2, <5>2
      <4> QED BY <4>1, <4>2
    <3>9. /\ ax \o b \in Seq(S) /\ Len(ax \o b) = Len(q) + 1
          /\ \A i \in 1 .. Len(q) + 1 : (ax \o b)[i] =
                 IF i < pos THEN q[i] ELSE IF i = pos THEN x ELSE q[i - 1]
      BY <3>4, <3>7, <3>8
    <3> QED BY <3>9, Zenon DEF ax
  <2>8. Enqueue(q, x) = (a \o <<x>>) \o b
    BY <2>4, Zenon DEF a, b
  <2> DEFINE e == (a \o <<x>>) \o b
  <2>9. /\ e \in Seq(S) /\ Len(e) = Len(q) + 1 /\ Enqueue(q, x) = e
        /\ \A i \in 1 .. Len(q) + 1 : e[i] =
               IF i < pos THEN q[i] ELSE IF i = pos THEN x ELSE q[i - 1]
    BY <2>7, <2>8, Zenon
  <2> HIDE DEF e
  <2>10. pos \in 1 .. Len(q) + 1 /\ Inserted(e, q, x, pos)
    BY <2>3, <2>9 DEF Inserted
  <2> QED BY <2>9, <2>10
<1> QED BY <1>1, <1>2

\* Taking an item out keeps the others in their order.
LEMMA RemoveFacts ==
    ASSUME NEW S, NEW q \in Seq(S), NEW k \in 1 .. Len(q)
    PROVE  /\ RemoveItem(q, k) \in Seq(S)
           /\ Len(RemoveItem(q, k)) = Len(q) - 1
           /\ \A i \in 1 .. Len(q) - 1 :
                 RemoveItem(q, k)[i] = IF i < k THEN q[i] ELSE q[i + 1]
<1> DEFINE a == SubSeq(q, 1, k - 1)
           b == SubSeq(q, k + 1, Len(q))
<1>1. a \in Seq(S) /\ Len(a) = k - 1 /\ \A i \in 1 .. k - 1 : a[i] = q[i]
  OBVIOUS
<1>2. b \in Seq(S) /\ Len(b) = Len(q) - k /\ \A i \in 1 .. Len(q) - k : b[i] = q[i + k]
  <2>1. k + 1 \in Int /\ Len(q) \in Int /\ \A i \in k + 1 .. Len(q) : q[i] \in S
    OBVIOUS
  <2>2. /\ SubSeq(q, k + 1, Len(q)) \in Seq(S)
        /\ Len(SubSeq(q, k + 1, Len(q)))
             = IF k + 1 <= Len(q) THEN Len(q) - (k + 1) + 1 ELSE 0
        /\ \A i \in 1 .. Len(q) - (k + 1) + 1 :
              SubSeq(q, k + 1, Len(q))[i] = q[k + 1 + i - 1]
    BY <2>1, SubSeqProperties
  <2> QED BY <2>2
<1> HIDE DEF a, b
<1>3. a \o b \in Seq(S) /\ Len(a \o b) = Len(q) - 1
      /\ \A i \in 1 .. Len(q) - 1 : (a \o b)[i] = IF i < k THEN q[i] ELSE q[i + 1]
  <2>1. /\ a \o b \in Seq(S) /\ Len(a \o b) = Len(a) + Len(b)
        /\ \A i \in 1 .. Len(a) + Len(b) : (a \o b)[i] =
               IF i <= Len(a) THEN a[i] ELSE b[i - Len(a)]
    BY <1>1, <1>2, ConcatProperties
  <2>2. ASSUME NEW i \in 1 .. Len(q) - 1
        PROVE  (a \o b)[i] = IF i < k THEN q[i] ELSE q[i + 1]
    <3>1. CASE i < k
      BY <1>1, <1>2, <2>1, <3>1
    <3>2. CASE ~(i < k)
      <4>1. i - (k - 1) \in 1 .. Len(q) - k /\ (i - (k - 1)) + k = i + 1
        BY <3>2
      <4>2. b[i - (k - 1)] = q[i + 1]
        BY <1>2, <4>1
      <4> QED BY <1>1, <1>2, <2>1, <3>2, <4>2
    <3> QED BY <3>1, <3>2
  <2> QED BY <1>1, <1>2, <2>1, <2>2
<1> QED BY <1>3 DEF RemoveItem, a, b

\* dequeue_by_task_id takes one item of the task, if there is any.
LEMMA DequeueFacts ==
    ASSUME NEW S, NEW q \in Seq(S), NEW t
    PROVE  \/ DequeueByTask(q, t) = q
           \/ \E k \in 1 .. Len(q) :
                 q[k].what.task = t /\ DequeueByTask(q, t) = RemoveItem(q, k)
<1> DEFINE Mine == {i \in DOMAIN q : q[i].what.task = t}
           k    == CHOOSE i \in Mine : \A j \in Mine : i <= j
<1>1. CASE Mine = {}
  BY <1>1 DEF DequeueByTask
<1>2. CASE Mine # {}
  <2>1. Mine \subseteq Nat /\ Mine \subseteq 1 .. Len(q)
    OBVIOUS
  <2>2. k \in Mine
    BY <1>2, <2>1, Least
  <2>3. DequeueByTask(q, t) = RemoveItem(q, k)
    BY <1>2 DEF DequeueByTask
  <2> HIDE DEF k
  <2> QED BY <2>1, <2>2, <2>3
<1> QED BY <1>1, <1>2
=============================================================================
