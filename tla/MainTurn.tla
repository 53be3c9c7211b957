------------------------------- MODULE MainTurn -------------------------------
(***************************************************************************)
(* A turn of the main agent (run_main_agent_turn, src/dispatcher/mod.rs):  *)
(* it gathers its context, takes the main and the fallback agent under     *)
(* their read locks for as long as it lasts, and loops over the model's    *)
(* tool calls, with one hand-over to the fallback agent when the main      *)
(* agent's provider is down.  What a turn does to the chat is ChatStack's. *)
(***************************************************************************)
EXTENDS ProviderConfig, RwLock

CONSTANTS
    Chat,      \* turns, each begun once
    MaxCalls   \* bounds the tool calls of a turn

ASSUME CallsAssumption == MaxCalls \in Nat

VARIABLES
    agents,                              \* the running main and fallback agents
    turn,                                \* the turns
    configLock, mainLock, fallbackLock   \* Dispatcher.config, .main_agent, .fallback_agent

locks == <<configLock, mainLock, fallbackLock>>
turnVars == <<agents, turn, locks>>

NoAgents == [main |-> None, fallback |-> None]
Unbegun == [at |-> "unbegun", agents |-> NoAgents, recovered |-> FALSE, calls |-> MaxCalls]
Ended == [Unbegun EXCEPT !.at = "ended"]

TurnInit ==
    /\ agents = NoAgents
    /\ turn \in [Chat -> {Unbegun, Ended}]
    /\ configLock = <<>> /\ mainLock = <<>> /\ fallbackLock = <<>>

TurnAt(c, where) == turn[c].at = where
TurnGoes(c, where) == turn' = [turn EXCEPT ![c].at = where]

\* The review item on top is looked at; the repositories are in the configuration.
TurnBegins(c) ==
    /\ TurnAt(c, "unbegun")
    /\ TurnGoes(c, "context")
    /\ configLock' = Append(configLock, Reading(c))
    /\ UNCHANGED <<agents, mainLock, fallbackLock>>

\* With board, summary, history and tools at hand, main_agent.read() ...
TurnGathers(c) ==
    /\ TurnAt(c, "context") /\ Granted(configLock, c)
    /\ configLock' = Left(configLock, c)
    /\ TurnGoes(c, "main")
    /\ mainLock' = Append(mainLock, Reading(c))
    /\ UNCHANGED <<agents, fallbackLock>>

\* ... and fallback_agent.read(), both kept to the end.
TurnTakesMain(c) ==
    /\ TurnAt(c, "main") /\ Granted(mainLock, c)
    /\ turn' = [turn EXCEPT ![c].at = "fallback", ![c].agents.main = agents.main]
    /\ fallbackLock' = Append(fallbackLock, Reading(c))
    /\ UNCHANGED <<agents, configLock, mainLock>>

TurnTakesFallback(c) ==
    /\ TurnAt(c, "fallback") /\ Granted(fallbackLock, c)
    /\ turn' = [turn EXCEPT ![c].at = "asks", ![c].agents.fallback = agents.fallback]
    /\ UNCHANGED <<agents, locks>>

\* The turn is over, or aborted: its guards are dropped, and its waiting ends.
Leaves(c) ==
    /\ turn' = [turn EXCEPT ![c] = Ended]
    /\ configLock' = Left(configLock, c)
    /\ mainLock' = Left(mainLock, c)
    /\ fallbackLock' = Left(fallbackLock, c)
    /\ UNCHANGED agents

\* turn_streaming returns a text, ...
ModelReplies(c) == TurnAt(c, "asks") /\ Leaves(c)

\* ... or tool calls, ...
ModelCalls(c) ==
    /\ TurnAt(c, "asks") /\ turn[c].calls > 0
    /\ TurnGoes(c, "tools")
    /\ UNCHANGED <<agents, locks>>

\* ... or an error: the first is handed to the fallback agent, if there is one.
ModelFails(c) ==
    /\ TurnAt(c, "asks")
    /\ IF turn[c].agents.fallback # None /\ ~turn[c].recovered
       THEN turn' = [turn EXCEPT ![c].recovered = TRUE] /\ UNCHANGED <<agents, locks>>
       ELSE Leaves(c)

\* execute_main_agent_tool is done with a call: the next one, or the model.
Called(c) ==
    \E next \in {"tools", "asks"} :
        /\ next = "tools" => turn[c].calls > 1
        /\ turn' = [turn EXCEPT ![c].at = next, ![c].calls = @ - 1]

\* A tool that leaves configuration and agents alone.
OtherTool(c) == TurnAt(c, "tools") /\ Called(c) /\ UNCHANGED <<agents, locks>>

\* gitzi_list_repos reads the configuration, ...
ListRepos(c) ==
    /\ TurnAt(c, "tools")
    /\ TurnGoes(c, "repos")
    /\ configLock' = Append(configLock, Reading(c))
    /\ UNCHANGED <<agents, mainLock, fallbackLock>>

\* ... when it is not being written.
ReposListed(c) ==
    /\ TurnAt(c, "repos") /\ Granted(configLock, c)
    /\ configLock' = Left(configLock, c)
    /\ Called(c)
    /\ UNCHANGED <<agents, mainLock, fallbackLock>>

\* An interrupting message aborts the turn wherever it waits.
TurnAborted(c) == turn[c].at \notin {"unbegun", "ended"} /\ Leaves(c)

\* The steps a turn takes by itself.
TurnStep(c) ==
    \/ TurnGathers(c) \/ TurnTakesMain(c) \/ TurnTakesFallback(c)
    \/ ModelReplies(c) \/ ModelCalls(c) \/ ModelFails(c)
    \/ OtherTool(c) \/ ListRepos(c) \/ ReposListed(c)

-----------------------------------------------------------------------------
(* Properties                                                              *)

TurnTypeOK ==
    /\ agents.main \in Provider \cup {None} /\ agents.fallback \in Provider \cup {None}
    /\ \A c \in Chat :
          /\ turn[c].at \in {"unbegun", "context", "main", "fallback", "asks", "tools", "repos",
                             "activates", "ended"}
          /\ turn[c].recovered \in BOOLEAN /\ turn[c].calls \in 0 .. MaxCalls

\* A turn goes on with the agents it began with, and they are the running ones
\* until it ends: a switch of the provider does not take an agent away under a
\* turn that talks to it, nor may talk to it after a hand-over (run_main_agent_turn,
\* switch_provider).
AgentsHeld ==
    \A c \in Chat :
        /\ turn[c].at \in {"fallback", "asks", "tools", "repos", "activates"}
              => turn[c].agents.main = agents.main
        /\ turn[c].at \in {"asks", "tools", "repos", "activates"}
              => turn[c].agents.fallback = agents.fallback
===============================================================================
