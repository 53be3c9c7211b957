----------------------------- MODULE MCLiveConfig -----------------------------
(* A machine with LM Studio and one SSO session, or neither, or one of them. *)
EXTENDS LiveConfig

CONSTANTS lmstudio, bedrock, l1, l2, c1

MachineFinds == {{}, {lmstudio, bedrock}}
FindsLocal == {{lmstudio}}

\* What generate-config leaves behind on a machine where it finds these.
Bare    == Written(Generated({}, None))
SsoOnly == Written(Generated({bedrock}, None))
Wired   == Written(Generated({lmstudio, bedrock}, lmstudio))

FreshOrGenerated == {NoFile, Bare, SsoOnly, Wired}

\* To be set up: several tasks of the setup session, then hardly anything.
\* Wired: a live dispatcher with an edit, a switch and a restart, or
\* with a turn of the main agent beside an edit or beside two switches, or with
\* three switches and nothing else.
ScenarioInit ==
    \/ Opening(MaxStarts - 1, MaxEdits, MaxSwitches, {}) /\ file # Wired
    \/ Opening(0, 0, MaxSwitches - 1, {}) /\ file = Wired
    \/ Opening(MaxStarts - 1, 0, MaxSwitches, Chat) /\ file = Wired
    \/ Opening(MaxStarts - 1, MaxEdits, MaxSwitches - 2, Chat) /\ file = Wired
    \/ Opening(MaxStarts - 1, MaxEdits, MaxSwitches - 3, {}) /\ file = Wired
ScenarioSpec == ScenarioInit /\ [][LiveNext]_vars /\ LiveFair

\* A fresh machine, and a dispatcher that is left alone.
FreshInit == Opening(0, MaxEdits, MaxSwitches, {}) /\ file = NoFile
FreshSpec == FreshInit /\ [][LiveNext]_vars
==============================================================================
