------------------------------ MODULE LiveConfig ------------------------------
(***************************************************************************)
(* Configuration while the dispatcher runs: the settings panel switches    *)
(* the provider of the running agents, the main agent's tools edit         *)
(* config.toml behind the daemon's back, the user edits its WIP limits,    *)
(* and a watcher takes up the limits of the file                           *)
(* (src/dispatcher/mod.rs, src/daemon/mod.rs).  Extends the setup session, *)
(* whose tasks may still run when the dispatcher is live.                  *)
(***************************************************************************)
EXTENDS SetupGate, MainTurn

CONSTANTS
    Switcher,     \* connections whose settings panel switches the provider
    MaxEdits,     \* bounds the edits of the limits by the user, in a behaviour
    MaxSwitches   \* bounds switches and rescans, in a behaviour

\* Those who ask for the locks have names of their own.
ASSUME LiveAssumption == Switcher \cap Chat = {} /\ "rescan" \notin Switcher \cup Chat

VARIABLES
    switch,   \* per connection: the settings_select in progress
    tool,     \* per turn: the activation in progress on a configuration of its own
    limits,   \* Dispatcher.wip_limits
    watch,    \* the step watch_config is at
    read,     \* the limits it has read
    changed,  \* file events nobody has taken up
    edits, switches,
    \* History, read by properties only:
    unwatched,  \* the file was last written before the watcher of this start was there
    overtook    \* the last activation came when agents built before it were not yet in place

history == <<unwatched, overtook>>
live == <<turnVars, switch, tool, limits, watch, read, changed, edits, switches, history>>
vars == <<gateVars, live>>

Idling == [pc |-> "idle", name |-> None, built |-> NoAgents]
NoTool == [name |-> None, copy |-> DefaultConfig]

Built(c) == [main |-> MainAgent(c), fallback |-> FallbackAgent(c)]

\* So many starts, edits and switches of the budgets are spent beforehand, and
\* all turns but some.
Opening(n, e, w, turns) ==
    /\ GateOpening(n)
    /\ TurnInit /\ turn = [c \in Chat |-> IF c \in turns THEN Unbegun ELSE Ended]
    /\ switch = [s \in Switcher |-> Idling] /\ tool = [c \in Chat |-> NoTool]
    /\ limits = BuiltIn /\ read = BuiltIn
    /\ watch = "off"
    /\ changed = FALSE
    /\ edits = e /\ switches = w
    /\ unwatched = FALSE /\ overtook = FALSE

LiveInit == Opening(0, 0, 0, Chat)

\* Every write to config.toml while the daemon watches its directory is an event.
FileWritten ==
    /\ changed' = (watch # "off")
    /\ unwatched' = (watch = "off")

FileKept == UNCHANGED <<file, changed, unwatched>>

\* Dispatcher::start: agents and limits from the configuration at hand.  The
\* watcher comes later.
Boots ==
    /\ agents' = Built(mem')
    /\ limits' = mem'.limits
    /\ watch' = "off"
    /\ unwatched' = FALSE /\ overtook' = FALSE

\* The steps of the gate: those that may write the file, and the two that may
\* bring the dispatcher up.
Beside(A) ==
    /\ A
    /\ IF file' = file THEN UNCHANGED <<changed, unwatched>> ELSE FileWritten
    /\ UNCHANGED <<turnVars, switch, tool, limits, watch, read, edits, switches, overtook>>

Killed ==
    /\ Restart
    /\ switch' = [s \in Switcher |-> Idling] /\ tool' = [c \in Chat |-> NoTool]
    /\ changed' = FALSE
    /\ turn' = [c \in Chat |-> IF TurnAt(c, "unbegun") THEN Unbegun ELSE Ended]
    /\ configLock' = <<>> /\ mainLock' = <<>> /\ fallbackLock' = <<>>
    /\ UNCHANGED <<read, edits, switches>>
    /\ IF phase' = "live" THEN Boots
       ELSE /\ agents' = NoAgents /\ limits' = BuiltIn /\ watch' = "off"
            /\ unwatched' = FALSE /\ overtook' = FALSE

Boot == /\ GoLive /\ Boots
        /\ UNCHANGED <<turn, locks, switch, tool, read, changed, edits, switches>>

Runs == phase = "live"

\* start awaits the turn of opening_status; only then do the server, and with it
\* every request of a user, and the watcher begin.
Serves == Runs /\ watch # "off"

TurnEnded(c) == turn[c].at \in {"unbegun", "ended"}

WatchBegins ==
    /\ Runs
    /\ watch = "off" /\ watch' = "recv"
    /\ \A c \in Chat : TurnEnded(c)
    /\ UNCHANGED <<gateVars, turnVars, switch, tool, limits, read, changed, edits, switches,
                   history>>

onlyFile == <<phase, session, token, mem, front, starts>>
Spend == switches < MaxSwitches /\ switches' = switches + 1

-----------------------------------------------------------------------------
(* switch_provider: one per connection, side by side                       *)

SwitchAt(s, pc) == switch[s].pc = pc
SwitchGoes(s, pc) == switch' = [switch EXCEPT ![s].pc = pc]

\* What the steps on agents and locks leave alone.
besideSwitch == <<gateVars, turn, tool, limits, watch, read, changed, edits, history>>

\* A provider of the settings panel is one of the configuration's.  The write
\* lock on that is asked for.
SwitchBegins(s) ==
    /\ Serves /\ Spend
    /\ SwitchAt(s, "idle")
    /\ \E p \in mem.providers : switch' = [switch EXCEPT ![s].pc = "activate", ![s].name = p]
    /\ configLock' = Append(configLock, Writing(s))
    /\ UNCHANGED <<besideSwitch, agents, mainLock, fallbackLock>>

\* Another switch has built its agents and has not put both in place.
Overtakes(s) ==
    \E r \in Switcher \ {s} : switch[r].pc \in {"built", "main", "swapped", "fallback"}

\* activate, under that lock: with account and role supplied, Bedrock activates
\* too, after a login if need be; it may fail, or ask for more, and the
\* configuration is what it was.
SwitchActivates(s) ==
    /\ SwitchAt(s, "activate") /\ Granted(configLock, s)
    /\ \/ /\ mem' = Activated(mem, switch[s].name)
          /\ SwitchGoes(s, "rebuild")
          /\ token' = token \cup ({switch[s].name} \ Local)
          /\ configLock' = Append(Left(configLock, s), Reading(s))
          /\ overtook' = Overtakes(s)
       \/ /\ switch[s].name \notin Local
          /\ switch' = [switch EXCEPT ![s] = Idling]
          /\ token' \in {token, token \cup {switch[s].name}}
          /\ configLock' = Left(configLock, s)
          /\ UNCHANGED <<mem, overtook>>
    /\ UNCHANGED <<phase, file, session, front, starts, agents, turn, mainLock, fallbackLock, tool,
                   limits, watch, read, changed, edits, switches, unwatched>>

\* Mutant: the read lock is kept until the agents are swapped.
SwitchRebuildsKeeping(s) ==
    /\ SwitchAt(s, "rebuild") /\ Granted(configLock, s)
    /\ switch' = [switch EXCEPT ![s].pc = "built", ![s].built = Built(mem)]
    /\ Save(mem)
    /\ FileWritten
    /\ UNCHANGED <<onlyFile, turnVars, tool, limits, watch, read, edits, switches, overtook>>

\* Under the read lock: both agents are built and the file is written.
SwitchRebuilds(s) ==
    /\ SwitchAt(s, "rebuild") /\ Granted(configLock, s)
    /\ switch' = [switch EXCEPT ![s].pc = "built", ![s].built = Built(mem)]
    /\ Save(mem)
    /\ FileWritten
    /\ configLock' = Left(configLock, s)
    /\ UNCHANGED <<onlyFile, agents, turn, mainLock, fallbackLock, tool, limits, watch, read, edits,
                   switches, overtook>>

\* Nothing is held when main_agent.write() joins its queue.
SwitchAsksMain(s) ==
    /\ SwitchAt(s, "built")
    /\ SwitchGoes(s, "main")
    /\ mainLock' = Append(mainLock, Writing(s))
    /\ UNCHANGED <<besideSwitch, switches, agents, configLock, fallbackLock>>

\* Mutant: the agent is swapped under the turns that talk to it.
SwitchSwapsAtOnce(s) ==
    /\ SwitchAt(s, "main")
    /\ agents' = [agents EXCEPT !.main = switch[s].built.main]
    /\ SwitchGoes(s, "swapped")
    /\ mainLock' = Left(mainLock, s)
    /\ UNCHANGED <<besideSwitch, switches, configLock, fallbackLock>>

\* When no turn has the agent ...
SwitchSwapsMain(s) ==
    /\ SwitchAt(s, "main") /\ Granted(mainLock, s)
    /\ agents' = [agents EXCEPT !.main = switch[s].built.main]
    /\ SwitchGoes(s, "swapped")
    /\ mainLock' = Left(mainLock, s)
    /\ UNCHANGED <<besideSwitch, switches, configLock, fallbackLock>>

SwitchAsksFallback(s) ==
    /\ SwitchAt(s, "swapped")
    /\ SwitchGoes(s, "fallback")
    /\ fallbackLock' = Append(fallbackLock, Writing(s))
    /\ UNCHANGED <<besideSwitch, switches, agents, configLock, mainLock>>

\* Mutant: the fallback agent stays the one built at the start.
SwitchKeepsFallback(s) ==
    /\ SwitchAt(s, "fallback") /\ Granted(fallbackLock, s)
    /\ switch' = [switch EXCEPT ![s] = Idling]
    /\ fallbackLock' = Left(fallbackLock, s)
    /\ UNCHANGED <<besideSwitch, switches, agents, configLock, mainLock>>

\* ... nor the other one.
SwitchSwapsFallback(s) ==
    /\ SwitchAt(s, "fallback") /\ Granted(fallbackLock, s)
    /\ agents' = [agents EXCEPT !.fallback = switch[s].built.fallback]
    /\ switch' = [switch EXCEPT ![s] = Idling]
    /\ fallbackLock' = Left(fallbackLock, s)
    /\ UNCHANGED <<besideSwitch, switches, configLock, mainLock>>

\* settings_rescan asks for the write lock, one at a time; ...
RescanAsked ==
    /\ Serves /\ Spend
    /\ ~\E i \in DOMAIN configLock : configLock[i].who = "rescan"
    /\ configLock' = Append(configLock, Writing("rescan"))
    /\ UNCHANGED <<besideSwitch, agents, mainLock, fallbackLock, switch>>

\* ... a scan that found nothing writes the file too.
SettingsRescan ==
    /\ Granted(configLock, "rescan")
    /\ configLock' = Left(configLock, "rescan")
    /\ \E found \in Finds : mem' = Merge(mem, found) /\ Save(mem')
    /\ FileWritten
    /\ UNCHANGED <<phase, session, token, front, starts, agents, turn, mainLock, fallbackLock, switch,
                   tool, limits, watch, read, edits, switches, overtook>>

-----------------------------------------------------------------------------
(* Turns of the main agent, and the tools that edit the file               *)

\* All the steps of turns that have nothing to do with the file.  Before the
\* server is there the only turn is that of opening_status, and nobody to abort it.
Turns ==
    /\ Runs
    /\ \E c \in Chat :
          \/ TurnBegins(c) /\ (Serves \/ \A d \in Chat : TurnEnded(d))
          \/ TurnStep(c)
          \/ TurnAborted(c) /\ Serves
    /\ UNCHANGED <<gateVars, switch, tool, limits, watch, read, changed, edits, switches, history>>

\* gitzi_rediscover_providers: the file is written only when something is new.
Rediscover(c) ==
    /\ Runs /\ TurnAt(c, "tools") /\ Called(c)
    /\ Loads(file)
    /\ \E found \in Finds :
          IF found \subseteq Load(file).providers THEN FileKept
          ELSE Save(Merge(Load(file), found)) /\ FileWritten
    /\ UNCHANGED <<onlyFile, agents, locks, switch, tool, limits, watch, read, edits, switches,
                   overtook>>

\* gitzi_activate_provider: the file is read, ...
ToolReads(c) ==
    /\ Runs /\ TurnAt(c, "tools") /\ TurnGoes(c, "activates")
    /\ Loads(file)
    /\ \E p \in Load(file).providers :
          tool' = [tool EXCEPT ![c] = [name |-> p, copy |-> Load(file)]]
    /\ UNCHANGED <<gateVars, agents, locks, switch, limits, watch, read, changed, edits, switches,
                   history>>

\* ... and, a login later, written; the running daemon keeps its own.
ToolWrites(c) ==
    /\ TurnAt(c, "activates") /\ Called(c)
    /\ tool' = [tool EXCEPT ![c] = NoTool]
    /\ \/ Save(Activated(tool[c].copy, tool[c].name)) /\ FileWritten
       \/ tool[c].name \notin Local /\ FileKept
    /\ UNCHANGED <<onlyFile, agents, locks, switch, limits, watch, read, edits, switches, overtook>>

-----------------------------------------------------------------------------
(* The user's editor and the watcher                                       *)

EditLimits ==
    /\ Runs
    /\ edits < MaxEdits /\ edits' = edits + 1
    /\ Loads(file)
    /\ \E n \in Limits : file' = [Load(file) EXCEPT !.limits = n]
    /\ FileWritten
    /\ UNCHANGED <<onlyFile, turnVars, switch, tool, limits, watch, read, switches, overtook>>

WatchStep(from, to) ==
    /\ watch = from /\ watch' = to
    /\ UNCHANGED <<gateVars, turnVars, switch, tool, edits, switches, history>>

\* An event is received; the debounce sleeps.
Noticed == /\ changed /\ changed' = FALSE
           /\ WatchStep("recv", "debounce")
           /\ UNCHANGED <<limits, read>>

\* What arrived meanwhile is drained, ...
Drained == /\ changed' = FALSE
           /\ WatchStep("debounce", "load")
           /\ UNCHANGED <<limits, read>>

\* ... and the file is read: one that does not load changes nothing.
Reread == /\ IF Loads(file) THEN read' = Load(file).limits /\ WatchStep("load", "swap")
             ELSE UNCHANGED read /\ WatchStep("load", "recv")
          /\ UNCHANGED <<limits, changed>>

\* Mutant: the events of the debounce are drained last.
SwappedThenDrained == /\ WatchStep("swap", "recv")
                      /\ limits' = read
                      /\ changed' = FALSE /\ UNCHANGED read

\* The limits are swapped once their lock is free.
Swapped == /\ WatchStep("swap", "recv")
           /\ limits' = read
           /\ UNCHANGED <<changed, read>>

SwitchStep(s) ==
    \/ SwitchActivates(s) \/ SwitchRebuilds(s)
    \/ SwitchAsksMain(s) \/ SwitchSwapsMain(s)
    \/ SwitchAsksFallback(s) \/ SwitchSwapsFallback(s)

LiveNext ==
    \/ Killed \/ Boot \/ Beside(GateStep)
    \/ WatchBegins
    \/ \E s \in Switcher : SwitchBegins(s) \/ SwitchStep(s)
    \/ RescanAsked \/ SettingsRescan
    \/ Turns \/ \E c \in Chat : Rediscover(c) \/ ToolReads(c) \/ ToolWrites(c)
    \/ EditLimits
    \/ Noticed \/ Drained \/ Reread \/ Swapped

\* What the daemon does by itself, next to the setup session.
OwnStep ==
    \/ WatchBegins \/ Noticed \/ Drained \/ Reread \/ Swapped
    \/ SettingsRescan
    \/ \E s \in Switcher : SwitchStep(s)
    \/ \E c \in Chat :
          \/ ToolWrites(c)
          \/ /\ TurnStep(c)
             /\ UNCHANGED <<gateVars, switch, tool, limits, watch, read, changed, edits, switches,
                            history>>

\* The watcher runs on, requests and logins end in an answer or at a deadline,
\* and a model stops calling tools; users and kills are not assumed.  As all of
\* that is bounded, it is enough that one of them goes on while any can.
LiveFair == WF_vars(OwnStep)

LiveSpec == LiveInit /\ [][LiveNext]_vars /\ LiveFair

-----------------------------------------------------------------------------
(* Properties                                                              *)

\* The live variables have their types, next to those of the gate.
ConfigTypeOK ==
    /\ GateTypeOK
    /\ TurnTypeOK
    /\ \A s \in Switcher :
          switch[s].pc \in {"idle", "activate", "rebuild", "built", "main", "swapped", "fallback"}
    /\ \A c \in Chat : tool[c].copy \in Config
    /\ limits \in Limits
    /\ watch \in {"off", "recv", "debounce", "load", "swap"} /\ read \in Limits
    /\ changed \in BOOLEAN /\ unwatched \in BOOLEAN /\ overtook \in BOOLEAN

\* When no switch is in progress the running agents, main and fallback, are those
\* a start from the configuration in memory would build, although rescans change
\* that configuration, tools the file, and switches of other connections both:
\* one that activates while another waits for the configuration does no harm.
\* One that activates when another has left the configuration's lock with agents
\* it has yet to put in place may be undone by it: switch_provider has no lock
\* for the whole.  Until the next activation nothing is said.
AgentsFollow ==
    Runs /\ ~overtook /\ (\A s \in Switcher : SwitchAt(s, "idle")) => agents = Built(mem)

\* The last edit of config.toml counts, once there is a watcher: whoever wrote it,
\* and however writes and reloads interleave, limits in force that are not those
\* of the file come to be, unless it stops loading or the daemon is restarted
\* (watch_config).  What is written before, while the opening turn runs, and by
\* nobody later, is not noticed.
LimitsFollowFile ==
    (Runs /\ ~unwatched /\ Loads(file) /\ Load(file).limits # limits)
        ~> (~Runs \/ ~Loads(file) \/ Load(file).limits = limits)

\* Every turn and every switch ends, once users begin no more of them: turns,
\* tools, switches and rescans that wait for each other's locks do so in no circle, and
\* a turn whose agents fail fails for good (run_main_agent_turn, switch_provider).
WaitsEnd ==
    LET Waits == (\E s \in Switcher : ~SwitchAt(s, "idle")) \/ \E c \in Chat : ~TurnEnded(c)
    IN  Waits ~> ~Waits

\* The provider activated at bootstrap is persisted as the distinguished
\* fallback: the live daemon that is killed and started again still has it.
FallbackSurvives ==
    [][Killed /\ phase = "live" /\ phase' = "live" => mem'.fallback = mem.fallback]_vars
=============================================================================
