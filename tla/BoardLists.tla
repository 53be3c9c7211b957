----------------------------- MODULE BoardLists ------------------------------
(***************************************************************************)
(* KanbanBoard of src/dispatcher/board.rs as it is stored: a list of task  *)
(* ids per column and a map from ids to tasks.  Module KanbanBoard keeps   *)
(* the same board with the lists replaced by the relation "ahead"; here    *)
(* every method of the code is written on the lists, and OperationsAgree   *)
(* says that it does what the operator of that name does on the relation.  *)
(***************************************************************************)
EXTENDS KanbanBoard, SequencesExt

CONSTANTS Targets,      \* columns the tasks are moved to
          Levels        \* priorities they are given

ASSUME ListsAssumption == Targets \subseteq Column /\ Levels \subseteq Nat

VARIABLE lists,         \* KanbanBoard.columns
         tasks          \* KanbanBoard.tasks

listVars == <<lists, tasks>>

-----------------------------------------------------------------------------
(* The methods, on a pair of lists l and a task map m.                     *)

\* The places in the finite set I by the order R on them: at k stands the one
\* with k - 1 before it.
Enumerated(I, R) ==
    [k \in 1 .. Cardinality(I) |->
        CHOOSE i \in I : Cardinality({j \in I : <<j, i>> \in R}) = k - 1]

\* What the list s has at the places in I, in the order R.
Arranged(s, I, R) == [k \in 1 .. Cardinality(I) |-> s[Enumerated(I, R)[k]]]

LeftToRight(I) == {p \in I \X I : p[1] < p[2]}

\* retain: the ids in T, in the order they stood in.
Retained(s, T) ==
    LET I == {i \in DOMAIN s : s[i] \in T}
    IN  Arranged(s, I, LeftToRight(I))

\* Of two places in s the one whose task is of the lower priority value.
Lower(s, m) ==
    {p \in (DOMAIN s) \X (DOMAIN s) : m[s[p[1]]].priority < m[s[p[2]]].priority}

Level(s, m) ==
    {p \in (DOMAIN s) \X (DOMAIN s) : m[s[p[1]]].priority = m[s[p[2]]].priority}

\* Mutant: an unstable sort.
SortListUnstable(s, m) ==
    Arranged(s, DOMAIN s,
             Lower(s, m) \cup {p \in Level(s, m) : p[2] < p[1]})

\* sort_by_key orders by priority and is stable: it is the library's promise
\* that is stated here, not how it sorts.
SortList(s, m) ==
    Arranged(s, DOMAIN s,
             Lower(s, m) \cup (Level(s, m) \cap LeftToRight(DOMAIN s)))

\* find_column.
ListOf(l, t) == {c \in Column : Contains(l[c], t)}

\* Mutant: from_tasks does not sort.
ListsFromTasksUnsorted(order, m) ==
    [c \in Column |-> Retained(order, {t \in Task : m[t].stage = c})]

ListsFromTasks(order, m) ==
    [c \in Column |-> SortList(Retained(order, {t \in Task : m[t].stage = c}), m)]

\* sort_column.
SortedAt(l, m, c) == [l EXCEPT ![c] = SortList(@, m)]

Pushed(l, c, t) == [l EXCEPT ![c] = Append(@, t)]

Without(l, t) ==
    [c \in Column |-> IF c \in ListOf(l, t) THEN Retained(l[c], Task \ {t}) ELSE l[c]]

AdvancedTask(m, t, c) == [m EXCEPT ![t].stage = c]

\* Mutant: the column to take the id from is looked up in the task map.
AdvancedListsByStage(l, m, t, c) ==
    LET left == [l EXCEPT ![m[t].stage] = Retained(@, Task \ {t})]
    IN  SortedAt(Pushed(left, c, t), AdvancedTask(m, t, c), c)

AdvancedLists(l, m, t, c) ==
    SortedAt(Pushed(Without(l, t), c, t), AdvancedTask(m, t, c), c)

AddedTask(m, t, s) == [m EXCEPT ![t] = s]

AddedLists(l, m, t, s) ==
    SortedAt(Pushed(l, s.stage, t), AddedTask(m, t, s), s.stage)

RankedTask(m, t, p) == [m EXCEPT ![t].priority = p]

RankedLists(l, m, t, p) ==
    SortedAt(l, RankedTask(m, t, p), m[t].stage)

\* next_unblocked: the first id in the list whose blockers are all Done.  The
\* code looks a blocker up in the map; a Blank task stands for an unknown id.
FirstReady(l, m, c) ==
    LET ready == {i \in DOMAIN l[c] :
                     \A u \in m[l[c][i]].blockedBy : m[u].stage = Done}
    IN  {l[c][i] : i \in {j \in ready : \A k \in ready : j <= k}}

-----------------------------------------------------------------------------
(* Every board the methods can make.                                       *)

OnBoard(t) == ListOf(lists, t) # {}

TaskFor(c, p) == [Blank EXCEPT !.stage = c, !.priority = p]

NewTasks == {TaskFor(c, p) : c \in Targets, p \in Levels}

\* The orders in which load_all_tasks may return the tasks.
Orders == {s \in [1 .. Cardinality(Task) -> Task] : IsInjective(s)}

Init ==
    /\ tasks \in [Task -> NewTasks \cup {Blank}]
    /\ \E order \in Orders : lists = ListsFromTasks(order, tasks)

\* advance
Move(t, c) ==
    /\ OnBoard(t)
    /\ lists' = AdvancedLists(lists, tasks, t, c)
    /\ tasks' = AdvancedTask(tasks, t, c)

\* add_task
Add(t, s) ==
    /\ ~OnBoard(t)
    /\ lists' = AddedLists(lists, tasks, t, s)
    /\ tasks' = AddedTask(tasks, t, s)

\* set_priority
Rank(t, p) ==
    /\ OnBoard(t)
    /\ lists' = RankedLists(lists, tasks, t, p)
    /\ tasks' = RankedTask(tasks, t, p)

\* task_mut: gitzi_update_task and gitzi_block_task write to the map what may
\* be an older stage, another priority or other blockers; no list is touched.
Overwrite(t, stage, p, blockers) ==
    /\ OnBoard(t)
    /\ tasks' = [tasks EXCEPT ![t].stage = stage, ![t].priority = p,
                              ![t].blockedBy = blockers]
    /\ UNCHANGED lists

Next ==
    \E t \in Task :
        \/ \E c \in Targets : Move(t, c)
        \/ \E s \in NewTasks : Add(t, s)
        \/ \E p \in Levels : Rank(t, p)
        \/ \E c \in Targets, p \in Levels, u \in Task :
              Overwrite(t, c, p, {u} \ {t})

ListsSpec == Init /\ [][Next]_listVars

-----------------------------------------------------------------------------

\* The board of module KanbanBoard that a pair of lists and map stands for.
Before(s) == {<<s[p[1]], s[p[2]]>> : p \in LeftToRight(DOMAIN s)}

Position(s, t) == CHOOSE i \in DOMAIN s : s[i] = t

AsBoard(l, m) ==
    [column |-> [t \in Task |->
                    IF ListOf(l, t) = {} THEN Absent
                    ELSE CHOOSE c \in Column : c \in ListOf(l, t)],
     tasks  |-> m,
     ahead  |-> UNION {Before(l[c]) : c \in Column}]

\* No id is in two lists, or twice in one: a task whose id was left behind in
\* a list would be counted against a WIP limit and worked on from there.
ListedOnce ==
    \A t \in Task :
        /\ Cardinality(ListOf(lists, t)) <= 1
        /\ \A c \in Column : Cardinality({i \in DOMAIN lists[c] : lists[c][i] = t}) <= 1

\* On every board, even one whose map disagrees with its lists after an
\* overwrite, each method changes the lists as its operator in KanbanBoard
\* changes the relation, and next_unblocked picks the same task.
OperationsAgree ==
    LET b == AsBoard(lists, tasks)
    IN  /\ \A t \in Task :
              IF OnBoard(t)
              THEN /\ \A c \in Targets :
                         AsBoard(AdvancedLists(lists, tasks, t, c), AdvancedTask(tasks, t, c))
                            = Advance(b, t, c)
                   /\ \A p \in Levels :
                         AsBoard(RankedLists(lists, tasks, t, p), RankedTask(tasks, t, p))
                            = SetPriority(b, t, p)
              ELSE \A s \in NewTasks :
                      AsBoard(AddedLists(lists, tasks, t, s), AddedTask(tasks, t, s))
                         = AddTask(b, t, s)
        /\ \A c \in Targets : FirstReady(lists, tasks, c) = NextUnblocked(b, c)

\* A reload from disk puts every task into the list of its stage in an order
\* FromTasks allows.
ReloadAgrees ==
    \A order \in Orders :
        AsBoard(ListsFromTasks(order, tasks), tasks)
            = FromTasks(tasks, [t \in Task |-> Position(order, t)])
=============================================================================
