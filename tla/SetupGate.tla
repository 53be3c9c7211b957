------------------------------ MODULE SetupGate ------------------------------
(***************************************************************************)
(* The bootstrap gate: the daemon that starts without a usable provider    *)
(* serves a setup session on its socket, scans the machine, activates the  *)
(* provider a terminal picks (or the only one there is), and then hands    *)
(* the socket over to the live server (src/daemon/mod.rs, src/main.rs,     *)
(* src/setup.rs, src/aws_sso.rs, src/tui/daemon_client.rs).                *)
(* Scans and selections are tasks of their own: `task[o]` is one of them,  *)
(* a step per place where it waits or takes a lock.                        *)
(***************************************************************************)
EXTENDS ProviderConfig, Sequences

CONSTANTS
    LastTask,     \* bounds the scans and selections: their ids are 0..LastTask
    Front,        \* terminals
    Finds,        \* sets of installed providers a scan may come back with
    InitFiles,    \* contents of config.toml before the first start
    MaxStarts     \* bounds the starts of the daemon

ASSUME GateAssumption ==
    /\ LastTask \in Nat
    /\ MaxStarts \in Nat
    /\ Finds \subseteq SUBSET Provider
    /\ InitFiles \subseteq Config \cup {NoFile, Broken}

VARIABLES
    phase,   \* of the daemon: setup, closed (listener dropped), live, down
    file,    \* config.toml
    config,  \* SetupSession.config
    state,   \* SetupSession.state: the published SetupState
    lock,    \* the task that holds the lock of config across an await, or None
    task,    \* scans and selections
    ready,   \* SetupSession.ready: a permit of the Notify
    token,   \* Bedrock providers with a valid SSO token in the keyring
    mem,     \* the configuration of the live dispatcher
    front,   \* terminals: where they are and what they have been sent
    starts   \* starts of the daemon so far

session == <<config, state, lock, task, ready>>
gateVars == <<phase, file, session, token, mem, front, starts>>

Task == 0..LastTask

Loading == [kind |-> "loading", offer |-> {}]
Ready == [kind |-> "ready", offer |-> {}]
Failed == [kind |-> "error", offer |-> {}]
Needs(found) == [kind |-> "needs", offer |-> found]
SetupState == {Loading, Ready, Failed} \cup {Needs(found) : found \in SUBSET Provider}

Unused == [pc |-> "unused", kind |-> "scan", name |-> None, found |-> {},
           copy |-> DefaultConfig, out |-> Loading, then |-> "end"]
Over == [Unused EXCEPT !.pc = "end"]
ScanTask == [Unused EXCEPT !.pc = "publish", !.then = "copy"]

NotAsked == LastTask + 1
Out == [at |-> "out", rx |-> <<>>, seen |-> Loading, asked |-> NotAsked]

-----------------------------------------------------------------------------
(* Starting the daemon                                                     *)

\* cmd_daemon on a given config.toml: down when it does not load, live when
\* the gate is already satisfied, else a setup session with its first scan.
Started(f) ==
    LET opens == Loads(f) /\ ~GateReady(Load(f))
        c == IF Loads(f) THEN Load(f) ELSE DefaultConfig
    IN  /\ phase' = IF opens THEN "setup" ELSE IF Loads(f) THEN "live" ELSE "down"
        /\ config' = c
        /\ mem' = c
        /\ state' = Loading
        /\ lock' = None
        /\ task' = [o \in Task |-> IF o = 0 /\ opens THEN ScanTask ELSE Unused]
        /\ ready' = FALSE

\* Before the first start the daemon is down.  n starts of the budget are spent.
GateOpening(n) ==
    /\ phase = "down"
    /\ file \in InitFiles
    /\ config = DefaultConfig /\ mem = DefaultConfig
    /\ state = Loading
    /\ lock = None
    /\ task = [o \in Task |-> Unused]
    /\ ready = FALSE
    /\ token = {}
    /\ front = [f \in Front |-> Out]
    /\ starts = n

GateInit == GateOpening(0)

\* A start, or a restart after the daemon was killed: connections are gone.
Restart ==
    /\ starts < MaxStarts
    /\ starts' = starts + 1
    /\ Started(file)
    /\ front' = [f \in Front |-> Out]
    /\ UNCHANGED <<file, token>>

-----------------------------------------------------------------------------
(* A task: its steps                                                       *)

\* The task goes on to publish a state, then to another step.
Publishing(o, out, then) ==
    task' = [task EXCEPT ![o].pc = "publish", ![o].out = out, ![o].then = then,
                         ![o].copy = DefaultConfig]

\* What a task that is over held is gone.
Goes(o, pc) == task' = [task EXCEPT ![o] = IF pc = "end" THEN Over ELSE [@ EXCEPT !.pc = pc]]

Fail(o) == Publishing(o, Failed, "end")

At(o, pc) == task[o].pc = pc
Locked == lock # None
Save(c) == file' = Written(c)

\* set_state: the state is stored, and then sent to the subscribers there are.
Publish(o) ==
    /\ At(o, "publish")
    /\ state' = task[o].out
    /\ Goes(o, "send")
    /\ UNCHANGED <<phase, file, config, lock, ready, token, mem, front, starts>>

Subscribed(f) == front[f].at \in {"subscribed", "setup"}

SendState(o) ==
    /\ At(o, "send")
    /\ front' = [f \in Front |->
                    IF Subscribed(f) THEN [front[f] EXCEPT !.rx = Append(@, task[o].out)]
                    ELSE front[f]]
    /\ Goes(o, task[o].then)
    /\ UNCHANGED <<phase, file, config, state, lock, ready, token, mem, starts>>

\* spawn_scan copies the configuration, scans in a blocking task, and writes
\* its copy, merged with what it found, back.
Copy(o) ==
    /\ At(o, "copy") /\ ~Locked
    /\ task' = [task EXCEPT ![o].pc = "scan", ![o].copy = config]
    /\ UNCHANGED <<phase, file, config, state, lock, ready, token, mem, front, starts>>

\* Mutant: the blocking task's panic is not reported.
ScanDies(o) ==
    /\ At(o, "scan")
    /\ Goes(o, "end")
    /\ UNCHANGED <<phase, file, config, state, lock, ready, token, mem, front, starts>>

ScanPanics(o) ==
    /\ At(o, "scan")
    /\ Fail(o)
    /\ UNCHANGED <<phase, file, config, state, lock, ready, token, mem, front, starts>>

\* What was found is merged into the copy; the obvious candidate is activated
\* without asking.
ScanReturns(o) ==
    /\ At(o, "scan") /\ ~Locked
    /\ \E found \in Finds :
          /\ config' = Merge(task[o].copy, found)
          /\ Save(config')
          /\ IF found = {} THEN Fail(o)
             ELSE IF Obvious(found) = {} THEN Publishing(o, Needs(found), "end")
             ELSE \E p \in Obvious(found) :
                    task' = [task EXCEPT ![o] = [Unused EXCEPT !.pc = "publish", !.name = p,
                                                    !.then = "activate", !.found = found]]
    /\ UNCHANGED <<phase, state, lock, ready, token, mem, front, starts>>

\* activate: a local server at once; for Bedrock the lock of the configuration
\* stays held through the login.
Activate(o) ==
    LET p == task[o].name
    IN  /\ At(o, "activate") /\ ~Locked
        /\ \/ /\ p \notin config.providers
              /\ Fail(o)
              /\ UNCHANGED <<config, lock>>
           \/ /\ p \in config.providers \cap Local
              /\ config' = Activated(config, p)
              /\ Goes(o, "save")
              /\ UNCHANGED lock
           \/ /\ p \in config.providers \ Local
              /\ lock' = o
              /\ Goes(o, IF p \in token THEN "choose" ELSE "login")
              /\ UNCHANGED config
        /\ UNCHANGED <<phase, file, state, ready, token, mem, front, starts>>

\* start_device_login and poll_for_token: the user approves the device in the
\* browser, or the code expires; also the errors of either call.
Login(o) ==
    /\ At(o, "login")
    /\ \/ /\ token' = token \cup {task[o].name}
          /\ Goes(o, "choose")
          /\ UNCHANGED lock
       \/ /\ Fail(o)
          /\ lock' = None
          /\ UNCHANGED token
    /\ UNCHANGED <<phase, file, config, state, ready, mem, front, starts>>

\* The terminal never sends an account, so what activate returns is the list of
\* accounts as a request for more input; a scan puts its candidates up instead.
Choose(o) ==
    /\ At(o, "choose")
    /\ lock' = None
    /\ \/ Fail(o)
       \/ /\ task[o].kind = "scan"
          /\ Publishing(o, Needs(task[o].found), "end")
       \/ /\ task[o].kind = "select"
          /\ Goes(o, "end")
    /\ UNCHANGED <<phase, file, config, state, ready, token, mem, front, starts>>

\* Mutant: an activation is kept in memory only.
PersistInMemory(o) ==
    /\ At(o, "save") /\ ~Locked
    /\ IF GateReady(config) THEN Publishing(o, Ready, "notify")
       ELSE IF task[o].kind = "scan" THEN Publishing(o, Needs(task[o].found), "end")
       ELSE Goes(o, "end")
    /\ UNCHANGED <<phase, file, config, state, lock, ready, token, mem, front, starts>>

\* After an activation: the configuration is written and the gate looked at.
Persist(o) ==
    /\ At(o, "save") /\ ~Locked
    /\ Save(config)
    /\ IF GateReady(config) THEN Publishing(o, Ready, "notify")
       ELSE IF task[o].kind = "scan" THEN Publishing(o, Needs(task[o].found), "end")
       ELSE Goes(o, "end")
    /\ UNCHANGED <<phase, config, state, lock, ready, token, mem, front, starts>>

WakeAccept(o) ==
    /\ At(o, "notify")
    /\ ready' = TRUE
    /\ Goes(o, "end")
    /\ UNCHANGED <<phase, file, config, state, lock, token, mem, front, starts>>

TaskStep(o) ==
    \/ Publish(o) \/ SendState(o) \/ Copy(o) \/ ScanPanics(o) \/ ScanReturns(o)
    \/ Activate(o) \/ Login(o) \/ Choose(o) \/ Persist(o) \/ WakeAccept(o)

-----------------------------------------------------------------------------
(* The hand-over                                                           *)

\* run_setup leaves its accept loop and drops the listener; connections that
\* were accepted are served on.
CloseSetup ==
    /\ phase = "setup" /\ ready
    /\ phase' = "closed"
    /\ ready' = FALSE
    /\ UNCHANGED <<file, config, state, lock, task, token, mem, front, starts>>

\* run_setup returns the session's configuration and the dispatcher is built.
GoLive ==
    /\ phase = "closed" /\ ~Locked
    /\ phase' = "live"
    /\ mem' = config
    /\ UNCHANGED <<file, session, token, front, starts>>

-----------------------------------------------------------------------------
(* A terminal                                                              *)

Moves(f, at) == front' = [front EXCEPT ![f].at = at]

\* probe_phase: Ready, and any answer that is not a SetupState, mean the board.
Probe(f) ==
    /\ front[f].at = "out"
    /\ \/ /\ phase = "setup"
          /\ Moves(f, IF state = Ready THEN "board" ELSE "probed")
       \/ /\ phase = "live"
          /\ Moves(f, "board")
    /\ UNCHANGED <<phase, file, session, token, mem, starts>>

\* run_setup_phase connects twice; by then the listener may be gone, or the
\* live server may be behind the socket: its event stream holds no SetupState.
Connect(f) ==
    /\ front[f].at = "probed"
    /\ Moves(f, CASE phase = "setup" -> "accepted"
                  [] phase = "live" -> "astray"
                  [] OTHER -> "out")
    /\ UNCHANGED <<phase, file, session, token, mem, starts>>

\* run_board_phase on the socket the probe saw: a setup session that was about
\* to close answers the requests of the board with {"setup":true}.
EnterBoard(f) ==
    /\ front[f].at = "board"
    /\ Moves(f, CASE phase = "live" -> "live" [] phase = "setup" -> "astray" [] OTHER -> "out")
    /\ UNCHANGED <<phase, file, session, token, mem, starts>>

\* stream_setup_state subscribes to the channel ...
Subscribe(f) ==
    /\ front[f].at = "accepted"
    /\ front' = [front EXCEPT ![f].at = "subscribed", ![f].rx = <<>>]
    /\ UNCHANGED <<phase, file, session, token, mem, starts>>

\* The terminal takes up a state it was sent; at Ready it leaves the screen.
Shown(f, s, rest) ==
    front' = [front EXCEPT ![f] = IF s = Ready THEN Out
                                  ELSE [@ EXCEPT !.at = "setup", !.seen = s, !.rx = rest]]

\* Mutant: a subscriber gets what is published from then on.
SkipCurrent(f) ==
    /\ front[f].at = "subscribed"
    /\ front' = [front EXCEPT ![f].at = "setup"]
    /\ UNCHANGED <<phase, file, session, token, mem, starts>>

\* ... and then sends the current state first.
SendCurrent(f) ==
    /\ front[f].at = "subscribed"
    /\ Shown(f, state, front[f].rx)
    /\ UNCHANGED <<phase, file, session, token, mem, starts>>

\* While an answer is outstanding the terminal reads no state.
Idle(f) == front[f].at = "setup" /\ front[f].asked = NotAsked

Receive(f) ==
    /\ Idle(f)
    /\ front[f].rx # <<>>
    /\ Shown(f, Head(front[f].rx), Tail(front[f].rx))
    /\ UNCHANGED <<phase, file, session, token, mem, starts>>

Unspent(o) == At(o, "unused") /\ \A n \in Task : n < o => ~At(n, "unused")

\* Enter on a candidate.  The task is the connection's own handler.
Select(f) ==
    /\ Idle(f)
    /\ \E o \in Task, p \in front[f].seen.offer :
          /\ Unspent(o)
          /\ task' = [task EXCEPT ![o].pc = "activate", ![o].kind = "select", ![o].name = p]
          /\ front' = [front EXCEPT ![f].asked = o]
    /\ UNCHANGED <<phase, file, config, state, lock, ready, token, mem, starts>>

ReadAnswer(f) ==
    /\ front[f].asked # NotAsked
    /\ At(front[f].asked, "end")
    /\ front' = [front EXCEPT ![f].asked = NotAsked]
    /\ UNCHANGED <<phase, file, session, token, mem, starts>>

\* The key r, on any screen of the setup.
Rescan(f) ==
    /\ Idle(f)
    /\ \E o \in Task : Unspent(o) /\ task' = [task EXCEPT ![o] = ScanTask]
    /\ UNCHANGED <<phase, file, config, state, lock, ready, token, mem, front, starts>>

\* The setup screen is closed, whatever it waits for: the task goes on.  The
\* bound on tasks bounds this, too.
Quit(f) ==
    /\ front[f].at = "setup"
    /\ \E o \in Task : At(o, "unused")
    /\ front' = [front EXCEPT ![f] = Out]
    /\ UNCHANGED <<phase, file, session, token, mem, starts>>

FrontStep(f) ==
    \/ Probe(f) \/ Connect(f) \/ EnterBoard(f) \/ Subscribe(f) \/ SendCurrent(f)
    \/ Receive(f) \/ ReadAnswer(f)
UserStep(f) == Select(f) \/ Rescan(f) \/ Quit(f)

GateStep ==
    \/ CloseSetup
    \/ \E o \in Task : TaskStep(o)
    \/ \E f \in Front : FrontStep(f) \/ UserStep(f)

GateNext == Restart \/ GoLive \/ GateStep

GateSpec == GateInit /\ [][GateNext]_gateVars

-----------------------------------------------------------------------------
(* Properties                                                              *)

\* The states of the session, the tasks and the terminals have their types.
GateTypeOK ==
    /\ phase \in {"setup", "closed", "live", "down"}
    /\ file \in Config \cup {NoFile, Broken}
    /\ config \in Config /\ mem \in Config
    /\ state \in SetupState
    /\ lock \in Task \cup {None}
    /\ \A o \in Task :
          /\ task[o].pc \in {"unused", "publish", "send", "copy", "scan", "activate", "login", "choose", "save", "notify", "end"}
          /\ task[o].copy \in Config
          /\ task[o].out \in SetupState /\ task[o].found \in SUBSET Provider
    /\ ready \in BOOLEAN
    /\ token \subseteq Bedrock
    /\ \A f \in Front :
          /\ front[f].at \in {"out", "probed", "accepted", "subscribed", "setup", "board",
                              "live", "astray"}
          /\ front[f].rx \in Seq(SetupState)
          /\ front[f].asked \in Task \cup {NotAsked}

\* A terminal on the setup screen that does not show the Ready the session
\* holds has it on its way: the step from "publish the state" to "send it" and
\* the step from "subscribe" to "read the state" leave no gap between them
\* (stream_setup_state, set_state), whatever other tasks publish meanwhile.
ReadyNotMissed ==
    \A f \in Front :
        state = Ready /\ front[f].at = "setup" =>
            \/ \E i \in DOMAIN front[f].rx : front[f].rx[i] = Ready
            \/ \E o \in Task : At(o, "send") /\ task[o].out = Ready

\* When every scan and every selection of the session is over, config.toml is
\* what the session's configuration is written as, so that the daemon which is
\* killed now starts from it (spawn_scan, handle_setup_select).
SavedAtRest ==
    phase = "setup" /\ (\A o \in Task : task[o].pc \in {"unused", "end"})
      => file \in {NoFile, Written(config)}

\* The splash is never the last thing a user sees: whatever a scan runs into,
\* and however many overlap, a session in the Loading state has a scan under way
\* that will publish another one (spawn_scan).
SplashEnds ==
    phase = "setup" /\ state = Loading =>
        \E o \in Task : task[o].kind = "scan" /\ task[o].pc \notin {"unused", "end"}
=============================================================================
