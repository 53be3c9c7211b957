-------------------------------- MODULE RwLock --------------------------------
(***************************************************************************)
(* tokio::sync::RwLock: a fair lock.  It is the queue of those who want    *)
(* it or have it, first come first served: readers at its head share it, a *)
(* writer has it when nobody is before him, and whoever comes after a      *)
(* waiting writer waits, readers too.                                      *)
(***************************************************************************)
EXTENDS Naturals, Sequences

\* read().await and write().await join the queue, ...
Reading(who) == [who |-> who, mode |-> "read"]
Writing(who) == [who |-> who, mode |-> "write"]

\* ... return when it is who's turn, ...
Granted(queue, who) ==
    \E i \in DOMAIN queue :
        /\ queue[i].who = who
        /\ i = 1 \/ \A j \in 1 .. i : queue[j].mode = "read"

\* ... and dropping the guard, or the future that waits for it, leaves it: who
\* is in there at most once.
Left(queue, who) ==
    LET places == {i \in DOMAIN queue : queue[i].who = who}
        i == CHOOSE j \in places : TRUE
    IN  IF places = {} THEN queue
        ELSE SubSeq(queue, 1, i - 1) \o SubSeq(queue, i + 1, Len(queue))
===============================================================================
