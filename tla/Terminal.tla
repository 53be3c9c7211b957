------------------------------ MODULE Terminal -------------------------------
(***************************************************************************)
(* The terminal on the board of a live daemon: the connection handlers of  *)
(* src/daemon/mod.rs, the client task of src/tui/daemon_client.rs and the  *)
(* App of src/tui/app.rs that its messages reach.                          *)
(*                                                                         *)
(* The client has two connections.  On the first it writes a request and   *)
(* reads one line back; `sent` and `line` are the two directions of it.    *)
(* The second carries the event stream.  What the dispatcher does to the   *)
(* board and to the review queue is here only as far as its order matters: *)
(* the change, then the event that announces it, then what run() does when *)
(* it receives that event.                                                 *)
(***************************************************************************)
EXTENDS BoardView, ReviewQueue

CONSTANTS
    Boards,         \* boards the daemon may start with
    NoEpics,        \* is the list of epics empty?
    Switches,       \* panels the main agent shows
    Backlog,        \* capacity of a subscriber's part of the event bus
    MaxChanges,     \* bounds the changes the dispatcher makes
    MaxForks,       \* bounds the forks that are opened
    MaxConnects,    \* bounds the connections of the client
    MaxKeys         \* bounds the keys the user presses

\* Every task is in one place of the board.
Listed(b) ==
    \A c, d \in Column : \A i \in DOMAIN b[c] : \A j \in DOMAIN b[d] :
        b[c][i] = b[d][j] => c = d /\ i = j

ASSUME TerminalAssumption ==
    /\ Boards \subseteq {b \in [Column -> Seq(Task)] : Listed(b)}
    /\ NoEpics \in BOOLEAN
    /\ Switches \subseteq Panel
    /\ Backlog \in Nat \ {0}
    /\ {MaxChanges, MaxForks, MaxConnects, MaxKeys} \subseteq Nat

VARIABLES
    board,       \* the dispatcher's board
    queue,       \* its review queue
    forks,       \* the forks on its chat stack
    announcing,  \* changes of the board whose event is still to be emitted
    arriving,    \* review items run() adds when it receives their event
    hears,       \* the client: down, not yet subscribed, asked to be, subscribed
    stream,      \* events on their way to the client
    sent,        \* requests the daemon has not read
    line,        \* replies the client has not read
    todo,        \* what the client requests before its loop
    asked,       \* the request whose reply it waits for, or "none"
    cmds,        \* DaemonCommands of the App
    msgs,        \* DaemonMessages for it
    view,        \* App: the board and the cursor
    stack,       \* App: fork_stack
    questions,   \* App: question_count
    fresh,       \* history: has the client been told of the last change?
    aimed,       \* history: has no key moved the cursor since a review came?
    used         \* history: what has been spent of each bound

daemonVars == <<board, queue, forks, announcing, arriving>>
lineVars   == <<hears, stream, sent, line, todo, asked>>
appVars    == <<cmds, view, stack, questions, aimed>>
termVars   == <<daemonVars, lineVars, appVars, msgs, fresh, used>>

-----------------------------------------------------------------------------
(* The dispatcher                                                          *)

Spend(what, max) == used[what] < max /\ used' = [used EXCEPT ![what] = @ + 1]

Where(t) == CHOOSE c \in Column : Contains(board[c], t)
OnBoard(t) == \E c \in Column : Contains(board[c], t)

\* retain: a task is listed once, so that there is one entry to take out.
Taken(t) == [c \in Column |-> RemoveFirst(board[c], t)]

\* KanbanBoard::advance: behind the tasks of its priority, or before them with
\* the priority a rework gives it.
Placed(t, c) == [Taken(t) EXCEPT ![c] = Append(@, t)]
PlacedFirst(t, c) == [Taken(t) EXCEPT ![c] = <<t>> \o @]

\* EventBus::emit: a subscriber that lags loses what is oldest, which may be
\* the only announcement of a change.
Emit(e) ==
    LET full == hears = "yes" /\ Len(stream) = Backlog
    IN  /\ stream' = IF hears # "yes" THEN stream
                     ELSE Append(IF full THEN Tail(stream) ELSE stream, e)
        /\ fresh' = IF e.type = "changed" THEN fresh \/ hears = "yes"
                    ELSE fresh /\ ~(full /\ Head(stream).type = "changed")

Changed == [type |-> "changed", fork |-> 0, panel |-> "status"]

\* An agent or a human moves a task; nobody has been told yet.
Change(t, what) ==
    /\ Spend("changes", MaxChanges)
    /\ fresh' = FALSE
    /\ announcing' = announcing \cup {[task |-> t, what |-> what]}
    /\ UNCHANGED <<queue, forks, arriving, lineVars, appVars, msgs>>

\* advance_task.
AdvanceTask(t) ==
    /\ OnBoard(t)
    /\ Where(t) \in Role
    /\ board' = Placed(t, NextColumn(Where(t)))
    /\ Change(t, "advanced")

\* approve and reject, up to the board.
Approve(t) ==
    /\ OnBoard(t)
    /\ Where(t) \in Buffer
    /\ board' = Placed(t, NextColumn(Where(t)))
    /\ Change(t, "decided")

Reject(t) ==
    /\ OnBoard(t)
    /\ Where(t) \in Buffer
    /\ board' = PlacedFirst(t, PrevColumn(Where(t)))
    /\ Change(t, "decided")

\* create_task.
Create(t) ==
    /\ ~OnBoard(t)
    /\ board' = [board EXCEPT ![Prioritized] = Append(@, t)]
    /\ Change(t, "created")

\* prioritize: the order changes and no event says so.
Prioritize(t) ==
    /\ OnBoard(t)
    /\ board' = PlacedFirst(t, Where(t))
    /\ fresh' = FALSE
    /\ Spend("changes", MaxChanges)
    /\ UNCHANGED <<queue, forks, announcing, arriving, lineVars, appVars, msgs>>

\* The rest of a change: a human's decision removes the review item, then the
\* event goes out.  On the arrival in a buffer run() is to add an item for it.
Announce(call) ==
    /\ announcing' = announcing \ {call}
    /\ Emit(Changed)
    /\ queue' = IF call.what = "decided" THEN DequeueByTask(queue, call.task) ELSE queue
    /\ arriving' =
          IF call.what = "advanced" /\ Where(call.task) \in Buffer
          THEN arriving \cup {Approval(call.task, Where(call.task), DefaultPriority)}
          ELSE arriving
    /\ UNCHANGED <<board, forks, hears, sent, line, todo, asked, appVars, msgs, used>>

\* An agent is blocked: the event, upon which run() adds its question.
AskHuman(t) ==
    /\ OnBoard(t)
    /\ Spend("changes", MaxChanges)
    /\ Emit(Changed)
    /\ arriving' = arriving \cup {Question(t)}
    /\ UNCHANGED <<board, queue, forks, announcing, hears, sent, line, todo,
                   asked, appVars, msgs>>

\* run() receives the event and adds the item.
Arrive(what) ==
    /\ arriving' = arriving \ {what}
    /\ queue' = Enqueue(queue, [id |-> Fresh, what |-> what])
    /\ UNCHANGED <<board, forks, announcing, lineVars, appVars, msgs, fresh, used>>

\* answer_question: no event either.
Answer(i) ==
    /\ queue[i].what.kind = "question"
    /\ queue' = RemoveItem(queue, i)
    /\ UNCHANGED <<board, forks, announcing, arriving, lineVars, appVars, msgs, fresh, used>>

\* The main agent shows a panel.
SwitchPanel(p) ==
    /\ Spend("changes", MaxChanges)
    /\ Emit([Changed EXCEPT !.type = "panel", !.panel = p])
    /\ UNCHANGED <<daemonVars, hears, sent, line, todo, asked, appVars, msgs>>

\* A message that arrives during a turn opens a fork.
OpenFork ==
    /\ Spend("forks", MaxForks)
    /\ forks' = Append(forks, used.forks + 1)
    /\ Emit([Changed EXCEPT !.type = "forked", !.fork = used.forks + 1])
    /\ UNCHANGED <<board, queue, announcing, arriving, hears, sent, line, todo,
                   asked, appVars, msgs>>

DispatcherStep ==
    \/ \E t \in Task : \/ AdvanceTask(t) \/ Approve(t) \/ Reject(t)
                       \/ Create(t) \/ Prioritize(t) \/ AskHuman(t)
    \/ \E call \in announcing : Announce(call)
    \/ \E what \in arriving : Arrive(what)
    \/ \E i \in DOMAIN queue : Answer(i)
    \/ \E p \in Switches : SwitchPanel(p)
    \/ OpenFork

-----------------------------------------------------------------------------
(* The handlers of the two connections                                     *)

Refreshes == <<"board", "review", "epics", "count">>

QuestionCount == Cardinality({i \in DOMAIN queue : queue[i].what.kind = "question"})

\* What each request is answered with; peek_review answers with the head.
Reply(kind) ==
    [kind   |-> kind,
     board  |-> IF kind = "board" THEN board ELSE EmptyView.board,
     review |-> IF kind = "review" /\ queue # <<>> THEN Head(queue).what.task ELSE NoTask,
     count  |-> IF kind = "count" THEN QuestionCount ELSE 0]

\* handle_client, with the requests that change nothing.
Serve ==
    /\ sent # <<>>
    /\ Head(sent) # "close"
    /\ sent' = Tail(sent)
    /\ line' = Append(line, Reply(Head(sent)))
    /\ fresh' = (fresh \/ Head(sent) = "board")
    /\ UNCHANGED <<daemonVars, hears, stream, todo, asked, appVars, msgs, used>>

\* handle_close_fork.
ServeClose ==
    /\ sent # <<>>
    /\ Head(sent) = "close"
    /\ sent' = Tail(sent)
    /\ line' = Append(line, Reply("close"))
    /\ IF forks = <<>> THEN UNCHANGED <<forks, stream, fresh>>
       ELSE /\ forks' = Front(forks)
            /\ Emit([Changed EXCEPT !.type = "closed", !.fork = Last(forks)])
    /\ UNCHANGED <<board, queue, announcing, arriving, hears, todo, asked,
                   appVars, msgs, used>>

\* handle_subscribe, whenever it gets to run: only then is there a receiver.
Subscribe ==
    /\ hears = "asked"
    /\ hears' = "yes"
    /\ UNCHANGED <<daemonVars, stream, sent, line, todo, asked, appVars, msgs, fresh, used>>

-----------------------------------------------------------------------------
(* The client task                                                         *)

Tell(m) == msgs' = Append(msgs, m)

\* run_client: a probe that finds the live server, and run_board_phase.
Connect ==
    /\ hears = "down"
    /\ Spend("connects", MaxConnects)
    /\ hears' = "no"
    /\ todo' = <<"board", "subscribe", "review", "epics", "count", "history">>
    /\ UNCHANGED <<daemonVars, stream, sent, line, asked, appVars, msgs, fresh>>

Request(kind) == asked' = kind /\ sent' = Append(sent, kind)

\* The requests before the loop, one by one.
Begin ==
    /\ asked = "none"
    /\ todo # <<>>
    /\ todo' = Tail(todo)
    /\ IF Head(todo) = "subscribe"
       THEN hears' = "asked" /\ UNCHANGED <<asked, sent>>
       ELSE Request(Head(todo)) /\ UNCHANGED hears
    /\ UNCHANGED <<daemonVars, stream, line, appVars, msgs, fresh, used>>

InLoop == hears \in {"asked", "yes"} /\ todo = <<>> /\ asked = "none"

\* A command of the App: all but close_fork wait for their line.
Command ==
    /\ InLoop
    /\ cmds # <<>>
    /\ cmds' = Tail(cmds)
    /\ IF Head(cmds) = "close"
       THEN sent' = Append(sent, "close") /\ UNCHANGED asked
       ELSE Request(Head(cmds))
    /\ UNCHANGED <<daemonVars, hears, stream, line, todo, view, stack, questions,
                   aimed, msgs, fresh, used>>

\* The next line is taken for the reply, whatever it is the reply to: a list
\* without epics reads as a board without columns, and all that is no review
\* item as no review.
Read ==
    /\ asked # "none"
    /\ line # <<>>
    /\ LET r == Head(line) IN
       CASE asked = "board" /\ r.kind = "board" -> Tell(r)
         [] asked = "board" /\ r.kind = "epics" /\ NoEpics -> Tell([r EXCEPT !.kind = "board"])
         [] asked = "review" -> Tell([r EXCEPT !.kind = "review"])
         [] asked = "count" /\ r.kind = "count" -> Tell(r)
         [] OTHER -> UNCHANGED msgs
    /\ line' = Tail(line)
    /\ asked' = "none"
    /\ UNCHANGED <<daemonVars, hears, stream, sent, todo, appVars, fresh, used>>

\* An event of the stream, passed on as it is.
Hear ==
    /\ InLoop
    /\ stream # <<>>
    /\ stream' = Tail(stream)
    /\ Tell([kind |-> "event", event |-> Head(stream)])
    /\ UNCHANGED <<daemonVars, hears, sent, line, todo, asked, appVars, fresh, used>>

\* The daemon restarts, or one of its handlers dies: both connections go, the
\* forks of a new daemon with them.
Disconnect ==
    /\ hears # "down"
    /\ used.connects < MaxConnects
    /\ announcing = {} /\ arriving = {}
    /\ hears' = "down"
    /\ todo' = <<>> /\ asked' = "none"
    /\ sent' = <<>> /\ line' = <<>> /\ stream' = <<>>
    /\ fresh' = FALSE
    /\ forks' \in {forks, <<>>}
    /\ UNCHANGED <<board, queue, announcing, arriving, appVars, msgs, used>>

ClientStep == Connect \/ Begin \/ Command \/ Read \/ Hear \/ Disconnect

-----------------------------------------------------------------------------
(* The App                                                                 *)

\* Mutant: an event that finds a refresh under way asks for nothing.
HandleEventOnce(e) ==
    cmds' = IF e.type = "changed" /\ cmds = <<>> THEN Refreshes ELSE cmds

\* handle_event.
HandleEvent(e) == cmds' = IF e.type = "changed" THEN cmds \o Refreshes ELSE cmds

\* The loop of src/tui/mod.rs on one message.
Apply ==
    /\ msgs # <<>>
    /\ msgs' = Tail(msgs)
    /\ LET m == Head(msgs) IN
       CASE m.kind = "board" ->
                /\ view' = ApplySnapshot(view, m.board)
                /\ UNCHANGED <<cmds, stack, questions, aimed>>
         [] m.kind = "review" ->
                /\ view' = ApplyReview(view, m.review)
                /\ aimed' = TRUE
                /\ UNCHANGED <<cmds, stack, questions>>
         [] m.kind = "count" ->
                /\ questions' = m.count
                /\ UNCHANGED <<cmds, view, stack, aimed>>
         [] m.kind = "event" ->
                /\ HandleEvent(m.event)
                /\ view' = IF m.event.type = "panel" THEN [view EXCEPT !.panel = m.event.panel]
                           ELSE view
                /\ stack' = CASE m.event.type = "forked" -> Append(stack, m.event.fork)
                              [] m.event.type = "closed" -> RemoveFirst(stack, m.event.fork)
                              [] OTHER -> stack
                /\ UNCHANGED <<questions, aimed>>
    /\ UNCHANGED <<daemonVars, lineVars, fresh, used>>

\* A key that moves the cursor or changes the panel.
Key ==
    /\ Spend("keys", MaxKeys)
    /\ view' \in {MoveUp(view), MoveDown(view), MoveLeft(view), MoveRight(view),
                  PrevPanel(view), NextPanel(view), Open(view)}
    /\ aimed' = (aimed /\ view'.col = view.col /\ view'.pos = view.pos)
    /\ UNCHANGED <<daemonVars, lineVars, cmds, stack, questions, msgs, fresh>>

\* Esc in the chat: close_current_fork.
Esc ==
    /\ stack # <<>>
    /\ Spend("keys", MaxKeys)
    /\ cmds' = Append(cmds, "close")
    /\ UNCHANGED <<daemonVars, lineVars, view, stack, questions, aimed, msgs, fresh>>

AppStep == Apply \/ Key \/ Esc

-----------------------------------------------------------------------------

\* A daemon that has just started, with that much of each bound already spent.
Opening(spent) ==
    /\ board \in Boards
    /\ queue = <<>> /\ forks = <<>> /\ announcing = {}
    /\ arriving = {a \in {Approval(t, c, DefaultPriority) : t \in Task, c \in Buffer} :
                      Contains(board[a.column], a.task)}
    /\ hears = "down" /\ stream = <<>> /\ sent = <<>> /\ line = <<>>
    /\ todo = <<>> /\ asked = "none"
    /\ cmds = <<>> /\ msgs = <<>>
    /\ view = EmptyView /\ stack = <<>> /\ questions = 0
    /\ fresh = FALSE /\ aimed = FALSE
    /\ used = spent

Init == Opening([changes |-> 0, forks |-> 0, connects |-> 0, keys |-> 0])

Next == DispatcherStep \/ Serve \/ ServeClose \/ Subscribe \/ ClientStep \/ AppStep

TerminalSpec == Init /\ [][Next]_termVars

-----------------------------------------------------------------------------
(* Properties                                                              *)

RequestKind == {"board", "review", "epics", "count", "history"}
Event == [type : {"changed", "panel", "forked", "closed"}, fork : Nat, panel : Panel]

\* Every variable has its type; the cursor's position is one to index with.
TerminalTypeOK ==
    /\ board \in [Column -> Seq(Task)]
    /\ queue \in Seq(QueueItem)
    /\ forks \in Seq(1 .. MaxForks) /\ stack \in Seq(1 .. MaxForks)
    /\ announcing \subseteq [task : Task, what : {"advanced", "decided", "created"}]
    /\ arriving \subseteq Subject
    /\ hears \in {"down", "no", "asked", "yes"}
    /\ \A i \in DOMAIN stream : stream[i] \in Event
    /\ Len(stream) <= Backlog
    /\ sent \in Seq(RequestKind \cup {"close"})
    /\ asked \in RequestKind \cup {"none"}
    /\ cmds \in Seq(RequestKind \cup {"close"})
    /\ view \in View
    /\ questions \in Nat

\* Nothing is on its way between the dispatcher and the terminal.
AtRest ==
    /\ InLoop
    /\ announcing = {} /\ arriving = {}
    /\ stream = <<>> /\ sent = <<>> /\ line = <<>> /\ cmds = <<>> /\ msgs = <<>>

\* When all is quiet and the last change of the board was either announced to
\* this subscription or in a reply, the terminal shows the board as it is: the
\* refreshes that overtake one another, a change between two of them and an
\* event lost to lag leave no older board behind (handle_event,
\* apply_board_snapshot, handle_board, EventBus::emit).
BoardShown == AtRest /\ fresh => view.board = board

\* The tasks of column c come first among those shown with it: c is a buffer, or
\* nothing waits in the buffer behind c.
Leads(b, c) ==
    \/ c \in Buffer
    \/ c \in Visible /\ (NextColumn(c) \in Buffer => b[NextColumn(c)] = <<>>)

\* When all is quiet, the task under review, be it for an approval or for a
\* question, has the cursor on it until the human moves it, if the tasks of its
\* column are shown first: what the Task panel shows and what is sent along with a
\* chat message is that task.  (apply_review counts the position in the column,
\* tasks_in_visible_column shows the buffer's tasks before it: the task of a
\* question in a work column with a buffer in use is not the one selected.)
ReviewSelected ==
    (AtRest /\ aimed /\ \E c \in Column : Leads(view.board, c) /\ Contains(view.board[c], view.review))
        => Selected(view) = view.review
=============================================================================
