------------------------------- MODULE Pipeline -------------------------------
(***************************************************************************)
(* What the dispatcher promises about the board, without agents, events,   *)
(* queues or disk: a task enters at the left, an agent takes it from a     *)
(* work column to the next column, into a buffer only while there is room  *)
(* for it, and out of a buffer it goes by a human's verdict alone -- one   *)
(* column on, or back to a work column.                                    *)
(***************************************************************************)
EXTENDS KanbanBoard

CONSTANT Limit      \* how many tasks a column may hold

VARIABLE column     \* where every task is

Occupied(c) == Cardinality({t \in Task : column[t] = c})

Init == column \in [Task -> Column \cup {Absent}]

Put(t, c) == column' = [column EXCEPT ![t] = c]

Enter(t) == /\ column[t] = Absent
            /\ Put(t, Prioritized)

Work(t) == /\ column[t] \in Role
           /\ NextColumn(column[t]) \in Buffer =>
                 Occupied(NextColumn(column[t])) < Limit[NextColumn(column[t])]
           /\ Put(t, NextColumn(column[t]))

Approve(t) == /\ column[t] \in Buffer
              /\ Put(t, NextColumn(column[t]))

Rework(t) == /\ column[t] \in Buffer
             /\ \E c \in Role : Put(t, c)

Next == \E t \in Task : Enter(t) \/ Work(t) \/ Approve(t) \/ Rework(t)

Spec == Init /\ [][Next]_column
=============================================================================
