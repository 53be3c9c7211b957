------------------------------ MODULE BoardView ------------------------------
(***************************************************************************)
(* The board as the terminal shows it and the cursor on it                 *)
(* (src/tui/app.rs).  A work column is shown together with the buffer      *)
(* behind it, the buffer's tasks first; the cursor is a column and a       *)
(* position among the tasks shown for it (counted from 1).                 *)
(***************************************************************************)
EXTENDS KanbanBoard, SequencesExt

CONSTANT NoTask      \* no task selected, no review item shown

ASSUME ViewAssumption == NoTask \notin Task

Panels == <<"status", "epic", "board", "task", "logs", "settings">>
Panel == {Panels[i] : i \in DOMAIN Panels}

View == [board  : [Column -> Seq(Task)],
         col    : Column,
         pos    : Nat \ {0},
         panel  : Panel,
         review : Task \cup {NoTask}]      \* the task active_review is about

EmptyView == [board |-> [c \in Column |-> <<>>], col |-> Prioritized, pos |-> 1,
              panel |-> "status", review |-> NoTask]

Visible == Column \ (Buffer \cup {Done})

\* board_col_visible: a buffer is shown with the column before it; Done is shown
\* nowhere and falls back to the first column.
VisibleColumn(c) ==
    IF c \in Buffer THEN PrevColumn(c) ELSE IF c \in Visible THEN c ELSE Prioritized

\* Mutant: a column's own tasks come first.
TasksBehind(board, c) ==
    board[c] \o (IF NextColumn(c) \in Buffer THEN board[NextColumn(c)] ELSE <<>>)

\* tasks_in_visible_column.
TasksShown(board, c) ==
    (IF NextColumn(c) \in Buffer THEN board[NextColumn(c)] ELSE <<>>) \o board[c]

TasksAtCursor(v) == TasksShown(v.board, VisibleColumn(v.col))

\* selected_board_task.
Selected(v) ==
    IF v.pos \in DOMAIN TasksAtCursor(v) THEN TasksAtCursor(v)[v.pos] ELSE NoTask

-----------------------------------------------------------------------------
(* The keys                                                                *)

\* move_up and move_down: to the next visible column that way, if there is one.
MoveUp(v) ==
    LET above == {c \in Visible : c < VisibleColumn(v.col)}
    IN  IF above = {} THEN v ELSE [v EXCEPT !.col = Max(above), !.pos = 1]

MoveDown(v) ==
    LET below == {c \in Visible : c > VisibleColumn(v.col)}
    IN  IF below = {} THEN v ELSE [v EXCEPT !.col = Min(below), !.pos = 1]

MoveLeft(v) == IF v.pos > 1 THEN [v EXCEPT !.pos = @ - 1] ELSE v

MoveRight(v) ==
    IF v.pos < Len(TasksAtCursor(v)) THEN [v EXCEPT !.pos = @ + 1] ELSE v

\* prev_panel and next_panel, round the six panels.
PanelAt(v) == CHOOSE i \in DOMAIN Panels : Panels[i] = v.panel

NextPanel(v) == [v EXCEPT !.panel = Panels[(PanelAt(v) % Len(Panels)) + 1]]

PrevPanel(v) == [v EXCEPT !.panel = Panels[((PanelAt(v) - 2) % Len(Panels)) + 1]]

\* Enter on the board opens the task under the cursor.
Open(v) ==
    IF v.panel = "board" /\ Selected(v) # NoTask THEN [v EXCEPT !.panel = "task"] ELSE v

-----------------------------------------------------------------------------
(* What the daemon sends                                                   *)

\* Mutant: the last position of an empty column is 0.
ClampToLast(v) ==
    LET n == Len(TasksAtCursor(v)) IN [v EXCEPT !.pos = IF @ > n THEN n ELSE @]

\* clamp_board_nav: the cursor keeps its position, as far as there are tasks.
Clamp(v) ==
    LET n == Len(TasksAtCursor(v))
    IN  [v EXCEPT !.pos = IF n = 0 THEN 1 ELSE IF @ > n THEN n ELSE @]

\* apply_board_snapshot.
ApplySnapshot(v, board) == Clamp([v EXCEPT !.board = board])

\* apply_review: the cursor goes to the column the task is listed in, at its
\* position in the list of that column; a review that is over leads back.
ApplyReview(v, t) ==
    LET listed == {c \in Column : Contains(v.board[c], t)}
        shown == [v EXCEPT !.review = t, !.panel = "task"]
    IN  IF t = NoTask
        THEN [v EXCEPT !.review = NoTask,
                       !.panel = IF v.review = NoTask THEN @ ELSE "status"]
        ELSE IF listed = {} THEN shown
        ELSE [shown EXCEPT !.col = Min(listed),
                           !.pos = CHOOSE i \in DOMAIN v.board[Min(listed)] :
                                       v.board[Min(listed)][i] = t]
=============================================================================
