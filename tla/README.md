# Verification of gitzi

TLA+ specifications of gitzi, the TLC runs that check them and the TLAPS proofs
about them. Sources are named relative to `src/` of the crate
(`dispatcher/mod.rs` is `src/dispatcher/mod.rs`).

## The system

gitzi is a daemon that moves tasks across a Kanban board. Six LLM agents each
work one column; four buffer columns hold a task until a human lets it go on.
The human sits at a terminal that is a client of the daemon, and talks to a
main agent there. Everything in memory is rebuilt from files at boot.

| Part | State it keeps | Operations | Talks to |
|---|---|---|---|
| Kanban board (`dispatcher/board.rs`) | a list of task ids per column, a map of tasks | `from_tasks`, `advance`, `add_task`, `set_priority`, `next_unblocked`, `count` | shared by everybody below under one `RwLock` |
| Review queue (`dispatcher/review_queue.rs`) and item files (`state/review.rs`) | ordered items in memory; one file per item with the actions taken | `enqueue`, `dequeue`, `dequeue_by_task_id`; write, find unresolved, load unresolved | dispatcher, agents, terminal |
| Agent pool (`dispatcher/agent_pool.rs`, `verifier.rs`) | per role a permit, a blocked flag, where its loop is; `wip_waiting` | wake, run, verify, retry once, escalate, advance or wait; `signal`, `unblock` | board, queue, store, bus |
| Dispatcher (`dispatcher/mod.rs`) | owns all of the above | `approve`, `reject`, `reject_to`, `answer_question`, the `gitzi_*` task tools, `run`, `start`, `attempt_merge` | clients over the socket, MCP, chat |
| Event bus (`dispatcher/event_bus.rs`) | a broadcast channel of 256 events | `emit`, `subscribe`; a slow receiver loses the oldest | agents and requests to `run` and the terminal |
| Task store (`state/store.rs`, `reader.rs`, `writer.rs`) | one TOML file per task and epic | load, atomic write | everybody, without a lock across read and write |
| Chat turns and forks (`daemon/mod.rs`, `dispatcher/mod.rs`, `agent/classifier.rs`) | the fork stack, histories, summaries | interrupt (amend, queue, fork), start and finish a turn, close a fork | main agent, terminal |
| Main agent (`dispatcher/mod.rs`, `agent/main_agent.rs`, `agent/bedrock_main.rs`) | one turn: its messages, the locks it holds | gather the context, loop over tool calls, hand over to the fallback agent once | LLM services, configuration, board |
| Setup gate and providers (`daemon/mod.rs`, `setup.rs`, `bootstrap.rs`, `aws_sso.rs`, `secrets.rs`) | the setup session: configuration under construction, published state | scan, select, log in, auto-activate, hand over to the live server | terminal, configuration file, keyring |
| Live configuration (`config.rs`, `dispatcher/mod.rs`) | configuration, WIP limits and agents in memory | watch and reload, switch the provider, rescan, the tools that edit `config.toml` | main agent, terminal, the user's editor |
| Coding agents (`agent/coding_agent.rs`, `coding_tools.rs`, `llm_client.rs` and others) | one run: its messages and rounds | ask the model, execute tools, retry once, start a local server | agent pool, checkouts |
| Git (`git/ops.rs`) | branches, worktrees, the user's checkout | set up a worktree, merge by one of five strategies | agent pool, dispatcher |
| MCP server (`mcp/*`) | the set of active token ids | issue, validate, revoke, tool calls scoped to a task | agents, dispatcher |
| Terminal (`tui/*`) | a copy of the board, cursor, panels, the review under discussion | connect, reconnect, refresh on events, keys, approve and reject | daemon |
| Command line, service, identifiers, knowledge base, repository cache | files | edit task files, install, look up | files |

What is hard here is that all of it is shared: every agent loop, the event
loop and every client request is a tokio task of its own, a request takes the
board lock more than once, the board and the files are written by different
steps, wake-ups are permits that coalesce, events may be lost or arrive before
anybody listens, locks are held across logins and model calls, and agents, the
user and the merge work in the same repository. What makes the parts correct:

* board: the lists partition the tasks and are sorted; a reload rebuilds them;
* buffers: never above their limit, left on a human's verdict only, and every
  task in one can be found by the human who must decide;
* agents: one per task, and one that waits (for an answer, for room) is woken;
* files: a restart may repeat work but never skips an approval;
* chat: an entry of the stack stands for a turn somebody waits for, a queued
  message gets its turn, a cancelled one lives on in its replacement, and file,
  history and summaries agree;
* setup: a terminal learns that the setup is over, what was activated is on
  file, and no screen is a dead end;
* configuration: the agents that run are those of the configuration, a turn
  keeps the ones it began with, the limits follow the file, nobody waits for
  ever;
* terminal: once everything has arrived it shows the dispatcher's board, with
  the task under review selected;
* repository: no branch loses a commit, what is merged stays merged, and an
  agent's work reaches the user's branches through Done only; every run ends;
* overall: with an attentive human a task gets to Done.

`PROJECT.json` lists the places where these could go wrong, each at its line.

## Modules

| Module | Models | State |
|---|---|---|
| `KanbanBoard` | board as values and operators: `column`, the order inside columns as a relation `ahead`, the board's copies of the tasks | none (operators) |
| `BoardLists` | the same board as it is stored, lists and map, and that each method does what the operator of `KanbanBoard` says | `lists`, `tasks` |
| `ReviewQueue` | queue with its sort key, item files | none (operators) |
| `AgentPool` | the agent loops, step by step | the shared state, `agent`, `permit`, `blocked`, `unblocking`, `waiting` |
| `Dispatcher` | boot, restart, requests, task tools, event loop, composed with `AgentPool` | `calls`, `bus`, `subscribed` and the rest |
| `Pipeline` | what the board promises, abstractly | `column` |
| `DispatcherProperties` | the properties, the refinement to `Pipeline`, the fairness | |
| `Notices` | what the human learns of: which steps lose an approval or a question, and the properties that nothing else does | `lost` (history) |
| `BoardProofs` | lemmas about the operators of `KanbanBoard` and `ReviewQueue` that the others rest on | |
| `BoardListsProofs` | the theorems that the stored lists implement the board | |
| `DispatcherProofs` | theorems about the dispatcher, whatever runs beside what; and for requests made in turn and agents that block nothing, with the refinement to `Pipeline` | |
| `ReviewProofs` | theorems about what the human is to find in the review queue | |
| `ChatStack` | messages that interrupt each other: handlers, turns, the fork stack | `handler`, `draft`, `turn`, `aborted`, `stack`, `summary`, `stored`, `remembered` |
| `ChatStackProofs` | the theorems about it | |
| `ProviderConfig` | the configuration of providers: merge, activation, what `config.toml` keeps of it, the agents built from it | none (operators) |
| `SetupGate` | start and restart, the setup session with its scans and selections, the terminals on it, the hand-over | `phase`, `file`, `config`, `state`, `lock`, `task`, `ready`, `token`, `mem`, `front` |
| `RwLock` | tokio's fair read-write lock, a queue | none (operators) |
| `MainTurn` | turns of the main agent and the locks they hold | `agents`, `turn`, `configLock`, `mainLock`, `fallbackLock` |
| `LiveConfig` | provider switch, rescan, file tools, the watcher and the user's editor, composed with `SetupGate` and `MainTurn` | `switch`, `tool`, `limits`, `watch`, `read`, `changed`; `unwatched`, `overtook` (history) |
| `LiveConfigProofs` | the theorems about `LiveConfig` and the two it is composed of | |
| `BoardView` | the terminal's copy of the board, cursor and panels | none (operators) |
| `Terminal` | a terminal on a live daemon: two connections, the client task, the App | `board`, `queue`, `sent`, `line`, `stream`, `view` and the rest |
| `TerminalProofs` | the theorems about the terminal | |
| `CodingLoop` | the tool loop of a coding agent: rounds, window, retry | `loop` |
| `GitRepo` | branches, the user's checkout, worktrees, five merge strategies | `branch`, `head`, `tree`, `conflict`, `remote`, `place`, `result`, `merge` |
| `AgentWork` | agents, the user and a restart on one repository, composed of `CodingLoop` and `GitRepo` | bounds only |
| `AgentWorkProofs` | the theorems about agents and repository | |
| `MC...` | small instances for TLC | |

### The board, the agents and the dispatcher

`board` is `Dispatcher.board`, `disk` the task files (`stage` Absent: no file),
`reviews` the item files in the order they were written, `queue` the review
queue, `permit[r]` the one permit of the role's `Notify`, `waiting` the keys of
`wip_waiting` (a column is entered by one role only, so the key determines the
value), `bus` the events `run` has not received. A task keeps the fields that
steer it: stage, priority, blockers, whether it has a branch or feedback, and a
version of its text. A role is named by its column.

One action is what a tokio task does between two points where another one can
notice: an agent's way through one task is

    Wake -> Prepare -> Finish -> Report -> Pass -> CheckWip -> Move
                                        \-> Retry -> Pass | GiveUp -> Escalate -> Flag
                                                        CheckWip -> Stall

and a request is its check (`Approve`, `Rework`, `UpdateFile`,
`PrioritizeFile`), its move (`MoveApproved`, `MoveRejected`, `UpdateBoard`,
`PrioritizeBoard`) and, for verdicts, `Settle`. Between two of them everything
else may happen. Steps the model takes at once although the code awaits inside
them, because nothing else both reads and writes what they touch in a way the
properties tell apart: saving a task and resolving its item in `Settle`; the
save after the board change in `Report` and `BlockTask`; the handlers of `run`;
the answer and the spawn in `Answer`.

Boot is three steps: `Start` and `Crash` load the files and signal the agents,
`Subscribe` begins `run`, which in the code comes a whole opening turn later, and
the agents do not wait for it. Whatever one of them emits before it reaches
nobody. (Requests are possible from boot on; in the code the server begins together
with `run`, so the model has a few behaviours more.)

`Notices` keeps account of that and of the other losses: an approval or a
question of `t` is in `lost` from the step that lost it (`Unheard`, `Dropped`,
`Misanswered`, `Unfiled`) for as long as somebody counts on it (`Claimed`). The
variable is written beside every step (`Record`), restrains none, and is read by
properties only.

The bounds are `Budget`: how often each of the operations that could go on for
ever may happen (`Op`). Everything else is unbounded, and every run says which
operations its budget allows.

### The chat

In `ChatStack` every message is handled by a task of its own that starts one
turn, so the message is the name of the handler, of the turn and of the fork if
there is one. A handler goes

    Send -> Amend | Queue -> Dequeue | Fork -> Spawn -> Capture -> Push -> Complete | Vanish

(`Send` goes straight to `Spawn` on an empty stack) and the turn it spawns

    Reply -> Save -> Save -> Remember        FailTurn        Cancel

with `CheckFork` and `PopFork` when the model closes a fork, and `CloseFork`
when the user does. `draft[m].pending` is what the handler read before it asked
the classifier, `draft[m].parent` the summary it read before it took the stack's
lock; both may be stale when used. An abort takes effect at one of the turn's
awaits, so a turn can finish although it was aborted. The classifier and the
model answer anything they can. `turn_active` and `fork_history` are left out:
they are written and never read. No bound is needed but `Msg`: a message starts
one turn, and only `PopFork` makes a turn go back, on a stack that got shorter.

### Setup and configuration

`phase` is the daemon: `setup` while `run_setup` accepts, `closed` between the
two listeners, `live`, or `down`. A scan or a selection is `task[o]`, and its
`pc` the place where it waits or takes the session's lock:

    publish -> send -> copy -> scan -> publish ...                      (spawn_scan)
                                    \-> publish -> send -> activate     (auto-activation)
    activate -> [login ->] choose | save -> publish -> send -> notify   (setup_activate)

`set_state` is two steps (`Publish`, `SendState`), and so is a terminal's
subscription (`Subscribe`, `SendCurrent`). `lock` is the mutex of the session's
configuration where a task holds it across an await (`choose` and `login`);
steps that take and drop it at once need it free. `front[f]` is a terminal:
probing, connecting, on the setup screen, on the board, or `astray` behind a
socket that answers another protocol.

A configuration is the set of its providers, the one bound to the main agent,
the fallback, which Bedrock entries carry an account, and the limits.
`Written(c)` is what `write_config_with_comments` followed by `load` makes of
it, which is not `c`.

A switch of connection `s` goes `activate -> rebuild -> built -> main -> swapped
-> fallback`: it holds the write lock of the configuration across activation and
login, its read lock while it builds the agents and saves the file, and then one
write lock of an agent after the other; at `built` and `swapped` it holds nothing
and waits for nothing. `switch_provider` has no lock for the whole, and the
switches of several connections (`Switcher`) go side by side. A turn goes
`context -> main -> fallback -> asks <-> tools`, with `repos` where a tool reads
the configuration and `activates` where one logs in, and holds both agents' read
locks to its end. The locks are queues, so a writer that waits stops the readers
behind it. `gitzi_activate_provider` keeps a copy of the file from before its login
(`tool`) and writes it after.

A start takes agents and limits from the configuration loaded at its beginning
(`Boots`), then awaits the opening turn, which any of the turns of the model may
be, and only then do the server and the watcher begin (`WatchBegins`, `Serves`).
Until then nobody switches, rescans, aborts or begins another turn, and the file
may be edited without an event. The watcher then goes
`recv -> debounce -> load -> swap`. Two history variables, read by properties only,
name what the code does not make good: `unwatched`, that the file was last written
before the watcher of this start was there; and `overtook`, that the last
activation came when another switch had built its agents and not put both in
place.

### The terminal

The client writes a request and reads one line (`sent`, `line`), and gets events
on a connection of its own (`stream`, at most `Backlog` of them, the oldest is
lost). `cmds` and `msgs` are the channels to and from the App; `view` is the
App's copy of the board with cursor, panel and review. Of the dispatcher only
the order is kept in which a change (`board`), its event (`announcing`) and what
`run` does about it (`arriving`) come. `fresh` remembers whether the client has
been told of the last change in any way, `aimed` whether the user has left the
cursor where a review put it.

### Agents in a repository

A run is `loop[t]`: `ask`, `tools`, and `start` and `again` for the one retry;
`messages` has the role of each message and the call it answers. `MaxRounds` and
`MaxExchanges` stand for `MAX_ROUNDS` and `MAX_CONTEXT_EXCHANGES` of the code
(50 and 10 there): the loop and the window are defined by them and do nothing
else with their size, so values just large enough for the window to cut and the
rounds to run out show what the larger ones would.

In `GitRepo` a branch is a tip: `past` are the commits reachable from it and
`files` those whose changes its files hold, which is how work is in a branch's
history and yet taken back. `tree` is the same for index and files of the
user's checkout. A fast-forward is checked in one step and written, by force, in
another. `CreateWorktree` may fail, and then `SetupWorktree` puts the agent into
the user's checkout, as `setup_task_worktree` does. A merge commit goes into
whatever branch is checked out. `reached`, `landed`, `made` and `merge.seen`
only remember.

## Runs

| Run | Instance | Shows |
|---|---|---|
| `serial` | 2 tasks, Auditing with Auditing or Deploying; 2 clients whose requests about one task are made in turn; 8 approvals, 1 rework, 1 failed run, 1 rejected verification, 1 wrong answer, 1 lag | `TypeOK`, `ExclusiveTask`, `ApprovalReachable`, `BlockedAnswerable`, `HumanGate`, `FollowsPipeline` |
| `racing` | 2 clients; from Auditing with Auditing or Deploying 2 approvals, 1 rework, and from Auditing twice 1 priority change too, or 1 approval with a failed verification, a lag and a restart, or with a question and an edit; or from Deploying a running agent that creates and blocks, and prioritises or may fail | `ColumnsSorted`, `BufferWithinLimit` when requests overlap |
| `delivered` | 1 task from Coding with 8 approvals, 1 rejected verification, 1 lag, 1 restart; or from Auditing with 1 each of approval, rework, edit, question, restart; fair scheduling and an attentive human | `DiskNotAhead`, `ApprovalReachable`, `Delivered` |
| `lists` | 3 tasks, 2 columns, 2 priorities, symmetric in the tasks | `ListedOnce`, `OperationsAgree`, `ReloadAgrees` |
| `chat` | 2 messages, fair scheduling | `TypeOK`, `StackCovered`, `HistoryMirrorsFile`, `SummaryOfMain`, `QueuedStarts` |
| `setup` | a local and a Bedrock provider, of which a scan finds none or both; 2 connections that switch; from no file, or one that lists Bedrock alone, with 3 tasks of the session; or from a generated file: a restart, an edit and a switch or rescan; or a turn of 1 tool call beside an edit, or beside 2 switches or rescans; or 3 switches or rescans | `ConfigTypeOK`, `ReadyNotMissed`, `SavedAtRest`, `SplashEnds`, `AgentsFollow`, `AgentsHeld`, `LimitsFollowFile`, `WaitsEnd` |
| `terminal` | 2 tasks, one in Coding and one in its buffer; 2 changes, or 1 with a fork and a key, or 1 with a reconnect, or a fork with a reconnect and a key; or one of them still to be created; room for 1 event | `TerminalTypeOK`, `BoardShown`, `ReviewSelected` |
| `work` | 2 tasks, 3 commits after the first, 3 rounds of up to 2 calls, a window of 1 exchange; both tasks with a user; or one task with two runs, a restart and a user; or one long run with outages; all five strategies | `WorkTypeOK`, `WindowPaired`, `Landed`, `OnlyDoneWork`, `HistoryKept`, `RunsEnd` |
| `waiter`, `merged`, `kept`, `safe` | two tasks in a row; 3 messages; a fresh machine and a restart; one task and a user | four disagreements, below |

A run with several starting points is one with scenarios: its `Init` spends part
of the bounds beforehand, so that each scenario has operations of its own and
their product, which no property needs, is left out. Deadlock is not checked in
these runs: the bounds are used up, or every message is answered, and the system
is at rest, which it may be.

Why the bounds are enough. Two tasks compete for every place of limit 1, and the
last two stages (Auditing to Done) have all kinds of columns: work before a
buffer, buffer, work before Done; the default limits of the code are used. Two
messages suffice for one to wait for another, and three are the fewest with
which a third handler can act on an entry that two others have changed since it
looked (the proofs are for any number). Three tasks of a setup session are a
scan, a selection and a scan that overlaps both. Two switches, or a switch and a
rescan, queue behind each other and before a turn, which with its one call can
ask for the configuration while it is written; two switches are the fewest of
which one overtakes the other, and a third is one that activates afterwards. One
event of room makes every second one a loss. Three commits let the user, one
task and a merge each add one.

### What holds depends on what runs together

The runs are cut to say so. `ExclusiveTask` and `HumanGate` fail when two clients
ask for a verdict about the same task at a time: both check the column before
either moves the task. They hold when such requests are made in turn, whatever
the clients ask about other tasks meanwhile (`InTurnSpec`), and in particular
with one client. `BlockedAnswerable` fails besides when a question is answered
while a verdict about its task is still being settled: an agent that has
escalated and not yet set its flag is released too early, and the verdict takes
the question it then queues. `InTurnSpec` therefore counts answers among the
requests. The code does not see to any of this.
`HumanGate` and `DiskNotAhead` fail when an agent may block its task, because
its late result moves the task on from Prioritized.

That every task in a buffer can be found, and every blocked agent released, is
not so in the code: an event emitted before `run` has subscribed reaches nobody,
a lag drops the oldest events, an approval item that is answered as if it were a
question is gone, and a restart finds only the items that have files. All four
happen in the runs. `ApprovalReachable` and `BlockedAnswerable` say that there is
no fifth: the task, or the agent's question, is in `lost` or in reach. Their
mutants show what else would break them. `Delivered` likewise says that a task
gets to Done or is left waiting in a buffer by a recorded loss; a restart before
the task has been announced again, or an agent that is done before anybody
listens, are such losses.

`Delivered` fails with a rework and a restart while runs go on: a request still
being settled can resolve the item of the task's next visit to the buffer. The
second scenario of `delivered`, which has both, starts past Coding: it is there
for `DiskNotAhead` and `ApprovalReachable`, and `Delivered` says nothing of it.

`StackCovered` and `QueuedStarts` hold as long as nobody forks. A fork's entry
stays on the stack after its turn, the queue waits until the whole stack is
empty (`daemon/mod.rs` 757-766, although the comment there speaks of the top
turn), and a main turn that completes below an open fork does not pop its own
entry. Closing a fork restores the summary read when it was opened, so a newer
one of a main turn that finished meanwhile is lost; `SummaryOfMain` says only
that what is restored is the main conversation's.

`WaitsEnd` holds because a switch lets go of the configuration before it asks
for an agent; with the read lock kept (a mutant) a turn that lists repositories
and the switch wait for each other. It also holds only since logins have a
deadline: until then a login under the configuration's write lock holds up every
new turn, and `attempt_merge` with it, which is called from the event loop
(`dispatcher/mod.rs` 547).

`AgentsFollow` holds for switches that overlap as long as one that activates finds
none that has left the configuration with agents in hand. If it does, the slower
one may put its older agents in place last, or one of each, and the daemon runs
with them although configuration and file name the other provider, until
somebody switches again. The run contains these behaviours and the property
leaves them out (`overtook`).

`LimitsFollowFile` holds for what is written while the watcher is there. The
configuration is loaded before the opening turn and watched after it: an edit in
between is not noticed until the file is written again (`unwatched`).

`ReviewSelected` holds for a task whose column comes first among those the
terminal shows together: a buffer, or a column with nothing in the buffer behind
it. `apply_review` takes the position of the task in its own column, and
`tasks_in_visible_column` counts the buffer's tasks before it, so for a question
about a task of a work column whose buffer is in use another task is selected
(`tui/app.rs` 641-648 and 765-774).

`BoardShown` says nothing after `prioritize`, which emits no event: the terminal
shows the old order until the next change.

`HistoryKept` allows main, and only main, to lose what came to it between the
check of a fast-forward and its forced write.

### Disagreements with the documents

* `waiter`: `WaiterResumes` is requirement 5.5 of
  `.kiro/specs/dispatcher-audit-fixes/requirements.md` (line 76). An approval
  frees the buffer, but only `TaskStageChanged` wakes the waiting agent, and
  approvals do not emit it.
* `merged`: `AbortedIsMerged` is the comment on `InterruptAction::Amend`
  (`src/agent/classifier.rs` line 12): "Cancel the in-flight request, merge
  messages, retry as one turn". What is cancelled is what is on top after the
  classifier answered, what is merged was on top before: another turn, pushed
  in between, is aborted and its message lost.
* `kept`: `FallbackSurvives` is `docs/ADR/002-bootstrap-setup-or-use-gate.md`
  line 75. The provider activated at bootstrap is set as the fallback in memory,
  and the writer of `config.toml` has no line for it (`bootstrap.rs` 591).
* `safe`: `FfSafe` is the comment at `src/git/ops.rs` line 244. main moves while
  the user has it checked out; index and files are those from before, and the
  user's next commit takes the merged work back.

Others the modules show, or that reading them against the documents brought up,
without a run of their own:

* `gitzi_block_task` tells the agent that the task is parked
  (`src/mcp/protocol.rs` 219-220), but the run goes on and its result moves the
  task out of Prioritized.
* The question of an escalation is queued under ids that name no file, so the
  answer is recorded nowhere (requirement 6.2, line 85 of the same document).
* The strategy `gitzi-branch` cannot succeed: `refs/heads/gitzi` and
  `refs/heads/gitzi/<id>-<slug>` exclude each other (`MergeIntoGitzi`,
  `Creatable`), and the failure is a warning.
* A merge commit goes into HEAD, whatever `main_branch` says.
* That a task is Done is on no file, so after a restart its last run is repeated
  and its merge tried again; `ff-only` then asks the human about a branch that
  is already merged.
* A terminal selects a provider without an account, so a machine with Bedrock
  alone asks for accounts and never leaves the setup screen (`Choose`).
* `gitzi_activate_provider` writes the file and the daemon keeps its own
  configuration, which its next save puts in place of the tool's; a switch or a
  rescan likewise writes the limits from boot time over an edit by hand.
* An agent whose worktree fails works in the user's checkout, and several such
  agents share it (`agent_pool.rs` 594, against the comment at 246).
* A coding agent's delegated tools are answered "dispatched" and go nowhere
  (`coding_agent.rs` 107).
* The terminal: `CloseFork` is sent without a wait for its reply, so every reply
  after it is taken for the one before (`daemon_client.rs` 424); its answer to
  `epics` is an empty list, which parses as a board; `fork_stack` survives a
  reconnect.

## Fairness

`SystemFairness`: weak fairness of each agent loop, of the spawned unblocks, of
`run` and its subscription, and of every request that has begun. Tokio runs
every task that can run, and none of these waits for something that may be
disabled again and again. Nothing obliges a human to ask for anything, so
requests are fair only under `HumanFairness`, a human who approves and answers
what the queue shows; `waiter` uses `FairSpec` without that human. A backend is
assumed to return: `CodingLoop` shows why the coding agent does.

`ChatSpec`: weak fairness of every handler once its message is there and of
every turn (a backend answers or fails). Whether a message is sent, a fork is
closed or `gitzi_close_fork` called is up to the user and the model, and no
fairness is assumed of it.

`LiveFair`: weak fairness of what the daemon does by itself (`OwnStep`): the
opening turn's end and the watcher, a switch, a rescan that was asked for, a turn.
Requests and logins end
in an answer or at a deadline. That a model stops calling tools is assumed, as
the bound `MaxCalls` of a turn. One condition on the disjunction is enough,
since each of them takes finitely many steps: while any can go on, one does, and
in the end all have. What it demands is weaker than fairness of each. Users,
turns that begin and kills are not assumed.

`Fairness` of `AgentWork`: weak fairness of each run. Requests have timeouts of
120 and 300 seconds; that a command ends is assumed, as the bash tool has no
timeout.

## Proofs

Every theorem is for all values of the constants: any tasks, clients, messages,
providers, terminals, bounds and sizes. What it supposes of them is the
constants' named assumptions (`TaskAssumption`, `PoolAssumption`,
`DispatcherAssumption`, `ListsAssumption`, `ChatAssumption`, `ViewAssumption`,
`TerminalAssumption`, `ProviderAssumption`, `FileAssumption`,
`CallsAssumption`, `GateAssumption`, `LiveAssumption`, `RepoAssumption`,
`LoopAssumption`, `WorkAssumption`), which TLC evaluates in every run, and the
hypotheses the theorem itself states after ASSUME. Such a hypothesis is there
because the property fails without it, and the run that checks the property
meets it.

Almost no property is inductive as it stands. The invariants that are, and why
they take the form they do:

### The board and its queue (`BoardProofs`)

What each operator of the board does to the places of the tasks, to the type and
to the order of the columns: `SortColumn` is a stable sort (`SortColumnSorts`),
so each move leaves the column it touches sorted and the others alone; one role
enters each column (`OneEntrant`); what `Enqueue` and `RemoveItem` keep of the
queue.

### The board as it is stored (`BoardListsProofs`)

`BoardLists` writes the methods on the lists, `KanbanBoard` on a relation, and
everything else is proved of the relation. That the lists implement it is
`ListsImplementBoard`, for `advance`, `add_task`, `set_priority` and
`next_unblocked`, and `ReloadsAgree`, for `from_tasks`.

What `retain` and `sort_by_key` return is stated as the library promises it: the
places that are kept, or all, in an order (`Enumerated`: at k stands the place
with k - 1 before it), from left to right for the one and by priority, then from
left to right, for the other. A fold over a list would do the same, but what a
fold computes for every list takes an induction over data. From the enumeration
it follows by counting: of two places the one with more before it comes later,
none shares its number, and as many numbers as places leave none out
(`EnumeratedFacts`). So two ids stand in the result as the order says
(`ArrangedFacts`), which is what the relation `ahead` records.

The invariant is `ListsInv`: no id is in two lists or twice in one (`Once`), which
is also `IdsListedOnce`, and a task is listed exactly if its stage in the map is a
column. It does not say which column: after an overwrite by `task_mut` the map may
disagree with the lists, and `advance` must then take the id from where it is
listed (`Without`), not from where the map has it. `advance` and `add_task` are
then a list with the task at its end, sorted (`PushedFacts`, `SortedListFacts`):
stability is why it comes behind its equals, as `SortColumn` says.

### The dispatcher (`DispatcherProofs`)

* `TypeCorrect`. `TypeInv` adds to `TypeOK` that an agent that has picked
  something has a task (`AgentsEngaged`), and that a request in progress has a
  task and, if it moves one, a target (`CallsEngaged`).
* `BuffersKeepLimits`: if the stored tasks fit the buffers, no buffer exceeds
  its limit before the first restart. `LimitInv` adds `RoomKept`: an agent past
  its WIP check still finds room in its target. It holds because a buffer is
  entered by one role only, so the agent that checked is the only one that could
  take the place, and everything else only leaves buffers. Restarts are excluded
  because a reload puts tasks by the stage on disk and counts nothing.
* `ColumnsStaySorted`, if no task is edited over MCP (`NoUpdates`), which changes
  a priority and sorts nothing. `OrderInv` adds that a task is on the board
  exactly if it has a file (`OnBoard`), so that `add_task` never meets one that
  is there already.

### Requests in turn (`DispatcherProofs`)

With requests about a task made in turn (`InTurnSpec`) and no agent that sends its
own task back to Prioritized (`NoBlocking`): without the one, two clients may both
check a task before either moves it; without the other, a blocked task's late
result moves it on from where it is. The number of clients does not matter, nor
what they ask about other tasks. `SingleClientInTurn` says that for a single
client `InTurnSpec` is no restriction of `Spec`, so that every theorem about it is
one about all behaviours of such a dispatcher.

* `AgentsExclusive` and `DiskStaysBehind`, restarts included. `HomeInv` says
  where everything is that will be written: an agent at work has its task in its
  own column (`AtHome`); its copy, the board's copy and the file are never to the
  right of the task, the file only while the verdict that sent it back is being
  written (`CopiesBehind`, `TasksBehind`, `DiskBehind`); a verdict that has been
  checked is still about a task in that buffer (`CallsHome`).
* `BuffersAreGated` and `PipelineIsFollowed`, until a restart (`NoRestart`, after
  which the columns are those on disk). The refinement is step by step: each step
  of the dispatcher is an entry, a piece of work, an approval or a rework of
  `Pipeline`, or changes no column, and `RoomKept` is why the step that moves a
  task finds the room an earlier step counted.

### What waits for the human (`ReviewProofs`)

A request that settles takes the first item of its task off the queue, whatever
visit to a buffer, or question, that item is of. So it is not enough that there
is an item; the argument counts. A token is an event on the bus or the item `run`
makes of it; `One` and `Two` say that there are that many, at different places.

* `ApprovalsAreReachable`, restarts included. A task in a buffer has a claim on a
  token and so has a request that is still to take one, hence `Awaits`: one for
  each, two for both. `Announced` says that the last announcement is of the task's
  present buffer. Both are said of the tasks whose notice is not in `lost`, and
  each step shows that it either keeps the tokens of a task or is one of the four
  that `Loses` names. Besides requests in turn it supposes that no agent blocks
  its own task (`NoBlocking`). A verdict that settles is the only request about
  its task (`SettleEnds`), so it takes no token that another counts on.
* `BlockedAgentsAnswerable`, restarts included. `Askable`: for a set flag there is
  an answer on its way, or a question about a task in the role's column that
  survives the request still settling; `Spared` is the same for an agent that is
  about to be flagged, and what fails for it if an answer and a verdict about the
  same task overlap. A question whose event nobody received is in `lost`. Supposes
  `NoUpdates` besides: an edit by MCP writes a
  stale stage, and the answer goes to the role of the column.

An index that takes part in such a count moves when the queue does. That there
is a least one, which a stable insertion needs, is proved by the least
counterexample (`Least`, `Greatest`, from the well-foundedness of `<`), since
induction over a predicate cannot be cited.

### The chat (`ChatStackProofs`)

* `ChatTypeCorrect` and `StackIsCovered`. The inductive invariant `IInv` adds
  to them that an entry on the stack, and an aborted turn, belong to a handler
  that has pushed (`EntriesPushed`, `AbortedPushed`), that an entry carries the
  fork of its draft, and that only an abort cancels (`CancelledAborted`). Then
  every pop pays for the one turn that stops being live: `Complete` for its
  own, `Amend` for the one it aborts, and `Vanish` for none, since an aborted
  turn was not counted. `NoForkOnTop` is why `Complete` always pops.
* `HistoryMirrored`, from `StoredByTurn`: the place a turn has reached tells
  what it has stored and remembered. `NotSpawned` is needed so that no handler
  starts a turn twice or changes the fork of a running one.
* `SummaryIsOfMain`, from `ParentsOfMain`: not only the summary but every
  summary a handler or an entry keeps to restore later is of a main turn.

### Setup and configuration (`LiveConfigProofs`)

* `ConfigTypeCorrect`, from `Shape`, which adds what a step has read before it
  is taken: the provider a task logs in to, the tool a turn is at.
* `ReadyIsHeard` and `SplashIsLeft`, from `GateInv`: a task that is about to
  send sends the state it published or a later one (`Honest`); while the state is
  the splash's some scan is still to publish; and where the state is Ready, every
  terminal has it, or it is in its channel, or somebody is still to send it
  (`Told`). The last needs that a terminal subscribes before it reads.
* `RestIsSaved`, from `SavedInv`: in setup the file is as the session's
  configuration would be written, or there is none, or a task is at its save. It
  supposes that the file the first start finds was written by the program
  (`OwnFiles`): an untouched session leaves any other as it is.
* `AgentsAreFollowing`, from `FollowInv`, for any number of connections that
  switch: unless the last activation overtook somebody, what every switch has in
  hand (`InHand`) is what the configuration asks for, and an agent that is not has
  a switch that has still to put its own in place (`BeforeMain`,
  `BeforeFallback`). An activation that overtakes nobody finds only switches that
  still wait for the configuration, which will build from the new one: that is
  where the condition is needed. It supposes that a fallback named by the initial
  file has an entry in it (`FallbacksListed`): the loader validates the main
  provider only, so that otherwise a rescan can find that entry and make a
  fallback agent of it that no switch built.
* `AgentsAreHeld`, from `HoldInv`: the place a turn is at tells which locks it has
  been granted, and a queue never grants a writer beside anybody
  (`RwLock`'s `Granted`).

### The terminal (`TerminalProofs`)

* `TerminalTypeCorrect`. `Shape` adds that no task is listed twice on the board or
  on any board under way (the boards the daemon starts with are `Listed`), that
  the position is one to index with after every key, snapshot and review, and that
  an event that opens a fork names one.
* `BoardIsShown`. `ShownInv` has two cases. The connection is `InStep`: what is
  under way on it is the reply the client waits for. Then, if the client was told
  of the last change, the board is `Due`: an announcement is under way (`Awake`:
  in the stream, in a message, as a request), or the board is being asked for, or
  the last board in the channel to the App is the present one (`Shows`). Or it is
  `Behind`: somebody closed a fork, and a reply more is under way than is waited
  for, for good. Then the system is never at rest before the connection is lost,
  and a connection that is lost takes `fresh` with it.
* `ReviewIsSelected`, from `SelectedInv`: every board the App asks for, or the
  client asks for as it connects, is followed by a review in the same list
  (`Followed`). So while a board is under way a review is to come behind it
  (`ReviewDue`), and once there is neither, the cursor is where the last review
  put it (`Aligned`). A key that moves it ends `aimed`. It is about the tasks the
  property is about (`Leads`), and no more.

### Agents in a repository (`AgentWorkProofs`)

`WorkInv` is `RepoInv`, `LoopInv` and the bounds.

* `MergedStaysMerged`, `DoneWorkOnly` and `HistoryIsKept`, from `RepoInv`: a commit
  made in a worktree by a task that has not been in Done is in that task's branch
  only (`OwnWork`), also not in what a fast-forward under way moves main to; and
  what was reported as merged into main was there when that fast-forward was
  checked, so that its forced write does not lose it (`Ahead`). What the write may
  lose is what `HistoryKept` says.
* `WindowsArePaired`: `Told` describes a conversation by its answers, each with its
  replies behind it in order, `AllAnswered` and `Replying` say where in it a run
  is. That the window begins at an answer and cuts no exchange is then counting:
  the last `MaxExchanges` answers are found by their number among the answers, and
  each is of a later round than the one before.
* `WorkTypeCorrect`.

### What is only model-checked

* Liveness under fairness: `Delivered`, `QueuedStarts`, `LimitsFollowFile`,
  `WaitsEnd` and `RunsEnd`, and the four disagreements. It is out of the prover's
  reach.

Every invariant and every action property that a passing run checks is stated by
a theorem.

## Not modelled

* Rendering, the entity editor and the chat input of the terminal; the
  command line's edits of task files, which the daemon does not read again; the
  installation as a service.
* The MCP handshake and protocol, and the expiry of tokens: no backend that is
  constructed in production is given a token.
* Streaming, wire formats and prompts of the LLM clients; the other coding
  backends, which run a process or call a service and whose outcomes are
  choices in `AgentPool`.
* Failing writes, whose effect on what a restart finds is that of a crash before
  the write; histories and epics; `gitzi_park_task`, a note; text that only
  feeds a model.
* In the chat, the opening turn's exchange, which runs before a client can connect, what a
  restart reloads, the comments a turn leaves on a review item, and which summary
  a turn shows its model.
* Nested repositories in the configuration, the keyring migration, removal of
  worktrees and diff summaries: nothing modelled depends on them.
* Identifiers, knowledge base and repository cache: text and lookup.

## Plan

1. Item files beside task files: they are written by different steps, and what
   would have to be written together for `Unfiled` to be no loss.
2. The store beside the edits of the command line and the terminal, and the
   comments of a chat turn on the review item under discussion.
