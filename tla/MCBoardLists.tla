---------------------------- MODULE MCBoardLists -----------------------------
(* Three tasks in two columns with two priorities. *)
EXTENDS BoardLists, TLC

CONSTANTS t1, t2, t3

TwoColumns == {Prioritized, Done}
Renaming   == Permutations(Task)
TwoLevels  == {ReworkPriority, DefaultPriority}
=============================================================================
