---------------------------- MODULE ProviderConfig ----------------------------
(***************************************************************************)
(* The configuration as far as language-model providers are concerned:     *)
(* what a scan adds to it, what an activation writes into it, what becomes *)
(* of it on its way through config.toml, and which agents are built from   *)
(* it (src/config.rs, src/setup.rs, src/bootstrap.rs, src/agent/mod.rs).   *)
(***************************************************************************)
EXTENDS Naturals, FiniteSets

CONSTANTS
    Provider,   \* names of [providers.<name>] entries
    Local,      \* those of kind openai-compatible; the others are bedrock
    Stock,      \* "lmstudio", the entry of default_providers
    None,       \* no provider
    NoFile,     \* config.toml does not exist
    Broken,     \* config.toml does not parse
    Limits,     \* WIP limit overrides that occur
    BuiltIn     \* the overrides of a default configuration

ASSUME ProviderAssumption ==
    /\ Local \subseteq Provider
    /\ Stock \in Local
    /\ None \notin Provider
    /\ BuiltIn \in Limits

Bedrock == Provider \ Local

\* main: the provider the agent entry of role "main" names.  chosen: the
\* Bedrock entries that carry an account and a role.
Config == [providers : SUBSET Provider, main : Provider \cup {None},
           fallback : Provider \cup {None}, chosen : SUBSET Bedrock, limits : Limits]

ASSUME FileAssumption == NoFile \notin Config /\ Broken \notin Config

DefaultConfig == [providers |-> {Stock}, main |-> None, fallback |-> None,
                  chosen |-> {}, limits |-> BuiltIn]

-----------------------------------------------------------------------------
(* config.toml                                                             *)

\* The file write_config_with_comments produces, as load reads it back: it has
\* no line for the fallback provider, nor for the account and role of an entry.
\* The keys that follow the tables (repo_paths, ..., onboarding_complete) are
\* read as keys of the last table, which ignores them unless it is [wip_limits],
\* whose values must be numbers.  Without a [providers] table the default holds.
Written(c) ==
    IF c.providers = {} /\ c.main = None THEN Broken
    ELSE [c EXCEPT !.fallback = None,
                   !.chosen = {},
                   !.providers = IF @ = {} THEN {Stock} ELSE @]

\* validate: an agent names a provider there is.
Valid(c) == c.main \in c.providers \cup {None}

Loads(file) == file = NoFile \/ (file # Broken /\ Valid(file))

\* Config::load of a file that loads.
Load(file) == IF file = NoFile THEN DefaultConfig ELSE file

-----------------------------------------------------------------------------
(* The gate and the agents built from a configuration                      *)

GateReady(c) == c.main \in c.providers \/ c.fallback \in c.providers

\* build_main_agent: the provider it talks to, or the built-in local server.
MainAgent(c) == IF c.main \in c.providers THEN c.main ELSE Stock

\* build_fallback_agent: set, enabled, and not the main agent's own provider.
FallbackAgent(c) ==
    IF c.fallback \in c.providers /\ c.fallback # c.main THEN c.fallback ELSE None

-----------------------------------------------------------------------------
(* Discovery and activation                                                *)

\* merge_discovered: new entries only.
Merge(c, found) == [c EXCEPT !.providers = @ \cup found]

\* wire_main_agent: main is bound, the first provider ever also as fallback.
Wire(c, p) == [c EXCEPT !.main = p, !.fallback = IF @ = None THEN p ELSE @]

\* Mutant: a local server is given an account, too.
ActivatedAlike(c, p) == Wire([c EXCEPT !.chosen = @ \cup {p}], p)

\* activate, once it has what it needs.
Activated(c, p) ==
    IF p \in Local THEN Wire(c, p)
    ELSE Wire([c EXCEPT !.chosen = @ \cup {p}], p)

\* The candidate the setup phase activates by itself: the only one, or the
\* first when all are Bedrock (their order is by name: any may be first).
Obvious(found) ==
    IF Cardinality(found) = 1 \/ found \subseteq Bedrock THEN found ELSE {}

\* bootstrap::run: a configuration from what a scan found, with the first
\* server that has a model loaded wired to the main agent.
Generated(found, loaded) ==
    LET c == [DefaultConfig EXCEPT !.providers = found]
    IN  IF loaded = None THEN c ELSE Wire(c, loaded)
=============================================================================
