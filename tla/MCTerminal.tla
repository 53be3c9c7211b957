------------------------------ MODULE MCTerminal ------------------------------
(* One task under review, one at work before it or yet to be created.        *)
EXTENDS Terminal

CONSTANTS t1, t2

One  == [EmptyView.board EXCEPT ![ReviewBuffer] = <<t1>>]
Both == [One EXCEPT ![Coding] = <<t2>>]
BothOrOne == {One, Both}

\* Scenarios that leave part of the bounds out: two changes and nothing else;
\* a change with a fork and a key; a change with a connection that is lost; a
\* fork the human closes, with a connection that is lost; a creation with a key.
Left(changes, forked, connects, keys) ==
    Opening([changes |-> MaxChanges - changes, forks |-> MaxForks - forked,
             connects |-> MaxConnects - connects, keys |-> MaxKeys - keys])

ScenarioInit ==
    \/ /\ board = Both
       /\ Left(2, 0, 1, 0) \/ Left(1, 1, 1, 1) \/ Left(1, 0, 2, 0) \/ Left(0, 1, 2, 1)
    \/ board = One /\ Left(1, 0, 1, 1)
ScenarioSpec == ScenarioInit /\ [][Next]_termVars
==============================================================================
