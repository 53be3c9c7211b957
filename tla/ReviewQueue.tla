----------------------------- MODULE ReviewQueue -----------------------------
(***************************************************************************)
(* The human's review items: the in-memory priority queue of               *)
(* src/dispatcher/review_queue.rs and the item files of                    *)
(* src/state/review.rs.                                                    *)
(*                                                                         *)
(* Item files are the elements of a sequence in the order they were        *)
(* written; a file's position is its id.  A queued item carries the id of  *)
(* its file, or Fresh when HumanReviewItem::new gave it a UUID of its own, *)
(* which names no file.                                                    *)
(***************************************************************************)
EXTENDS KanbanBoard, Sequences

Fresh == 0

\* enum ReviewItemKind / PersistedReviewKind: a question has no column.
Question(t)       == [kind |-> "question", task |-> t, column |-> Absent,
                      priority |-> ReworkPriority]
Approval(t, c, p) == [kind |-> "approval", task |-> t, column |-> c,
                      priority |-> p]

Subject == [kind : {"question", "approval"}, task : Task,
            column : Column \cup {Absent}, priority : Nat]

QueueItem == [id : Nat, what : Subject]

-----------------------------------------------------------------------------
(* The queue.                                                              *)

\* sort_key of x is greater than sort_key of y, for an x created before y:
\* questions, then approvals from the rightmost column, then by priority.
SortsAfter(x, y) ==
    \/ x.kind = "approval" /\ y.kind = "question"
    \/ /\ x.kind = "approval" /\ y.kind = "approval"
       /\ \/ x.column < y.column
          \/ x.column = y.column /\ x.priority > y.priority

\* enqueue: before the first item whose key is greater, else at the end.
Enqueue(q, item) ==
    LET Rest == {i \in DOMAIN q : SortsAfter(q[i].what, item.what)}
        pos  == CHOOSE i \in Rest : \A j \in Rest : i <= j
    IN  IF Rest = {} THEN Append(q, item)
        ELSE SubSeq(q, 1, pos - 1) \o <<item>> \o SubSeq(q, pos, Len(q))

RemoveItem(q, i) == SubSeq(q, 1, i - 1) \o SubSeq(q, i + 1, Len(q))

\* dequeue_by_task_id: the first item of the task, of either kind.
DequeueByTask(q, t) ==
    LET Mine == {i \in DOMAIN q : q[i].what.task = t}
    IN  IF Mine = {} THEN q
        ELSE RemoveItem(q, CHOOSE i \in Mine : \A j \in Mine : i <= j)

-----------------------------------------------------------------------------
(* The item files.                                                         *)

ReviewFile == [what : Subject,
               status : {"open", "approved", "rejected", "answered"}]

\* PersistedReviewItem with an empty actions list.
OpenFile(what) == [what |-> what, status |-> "open"]

\* is_unresolved, for one task: what find_unresolved_for_task may return, in
\* whatever order read_dir lists the directory.
Unresolved(files, t) ==
    {i \in DOMAIN files : files[i].what.task = t /\ files[i].status = "open"}

\* Dispatcher::start: every unresolved file is queued under its own id.
\* created_at orders the files as they were written.
Reload(files) ==
    LET Load[n \in 0 .. Len(files)] ==
            IF n = 0 THEN <<>>
            ELSE IF files[n].status = "open"
                 THEN Enqueue(Load[n - 1], [id |-> n, what |-> files[n].what])
                 ELSE Load[n - 1]
    IN  Load[Len(files)]
=============================================================================
