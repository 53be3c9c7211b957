--------------------------- MODULE LiveConfigProofs ---------------------------
(***************************************************************************)
(* What holds of the setup session and of the configuration of a running   *)
(* dispatcher for every set of providers, terminals and turns, and however *)
(* many scans, selections, switches, edits and restarts there are.         *)
(***************************************************************************)
EXTENDS LiveConfig, SequenceTheorems, TLAPS

-----------------------------------------------------------------------------
(* The queue of a lock.                                                    *)

Entry == [who : Chat \cup Switcher \cup {"rescan"}, mode : {"read", "write"}]

\* Who leaves takes nobody with him and lets nobody in, and whoever has the
\* lock keeps it.
LEMMA LeftFacts ==
    ASSUME NEW q \in Seq(Entry), NEW who
    PROVE  /\ Left(q, who) \in Seq(Entry)
           /\ \A i \in DOMAIN Left(q, who) : \E j \in DOMAIN q : Left(q, who)[i] = q[j]
           /\ \A c : c # who /\ Granted(q, c) => Granted(Left(q, who), c)
<1> DEFINE places == {i \in DOMAIN q : q[i].who = who}
           k == CHOOSE j \in places : TRUE
<1>1. CASE places = {}
  <2>1. Left(q, who) = q
    BY <1>1 DEF Left
  <2> QED BY <2>1
<1>2. CASE places # {}
  <2> DEFINE a == SubSeq(q, 1, k - 1)
             b == SubSeq(q, k + 1, Len(q))
  <2>1. k \in DOMAIN q /\ q[k].who = who
    BY <1>2
  <2>2. Left(q, who) = a \o b
    BY <1>2 DEF Left
  <2> HIDE DEF k, places
  <2>3. k \in 1 .. Len(q) /\ Len(q) \in Nat
    BY <2>1
  <2>4. /\ a \in Seq(Entry) /\ Len(a) = k - 1
        /\ \A i \in 1 .. k - 1 : a[i] = q[i]
    BY <2>3
  <2>5. /\ b \in Seq(Entry) /\ Len(b) = Len(q) - k
        /\ \A i \in 1 .. Len(q) - k : b[i] = q[i + k]
    BY <2>3
  <2> HIDE DEF a, b
  <2> DEFINE r == a \o b
  <2>6. /\ r \in Seq(Entry) /\ Len(r) = Len(q) - 1
        /\ \A i \in 1 .. k - 1 : r[i] = q[i]
        /\ \A i \in k .. Len(q) - 1 : r[i] = q[i + 1]
    <3>1. /\ r \in Seq(Entry) /\ Len(r) = Len(a) + Len(b)
          /\ \A i \in 1 .. Len(a) + Len(b) : r[i] = IF i <= Len(a) THEN a[i] ELSE b[i - Len(a)]
      BY <2>4, <2>5, ConcatProperties, Zenon
    <3> HIDE DEF r
    <3>2. Len(r) = Len(q) - 1
      BY <3>1, <2>3, <2>4, <2>5
    <3>3. ASSUME NEW i \in 1 .. k - 1 PROVE r[i] = q[i]
      <4>1. i \in 1 .. Len(a) + Len(b) /\ i <= Len(a)
        BY <3>3, <2>3, <2>4, <2>5
      <4>2. r[i] = a[i]
        BY <3>1, <4>1
      <4> QED BY <4>2, <3>3, <2>4
    <3>4. ASSUME NEW i \in k .. Len(q) - 1 PROVE r[i] = q[i + 1]
      <4>1. i \in 1 .. Len(a) + Len(b) /\ ~(i <= Len(a))
        BY <3>4, <2>3, <2>4, <2>5
      <4>2. r[i] = b[i - Len(a)]
        BY <3>1, <4>1
      <4>3. PICK j \in 1 .. Len(q) - k : j = i - Len(a) /\ j + k = i + 1
        BY <3>4, <2>3, <2>4
      <4>4. b[j] = q[j + k]
        BY <4>3, <2>5
      <4> QED BY <4>2, <4>3, <4>4
    <3> QED BY <3>1, <3>2, <3>3, <3>4
  <2> HIDE DEF r
  <2>7. \A i \in DOMAIN r : \E j \in DOMAIN q : r[i] = q[j]
    <3> SUFFICES ASSUME NEW i \in DOMAIN r PROVE \E j \in DOMAIN q : r[i] = q[j]
      OBVIOUS
    <3>1. i \in 1 .. Len(q) - 1
      BY <2>6
    <3>2. i \in DOMAIN q /\ i + 1 \in DOMAIN q
      BY <3>1, <2>3
    <3>3. r[i] = q[i] \/ r[i] = q[i + 1]
      BY <3>1, <2>3, <2>6
    <3> QED BY <3>2, <3>3
  <2>8. ASSUME NEW c, c # who, Granted(q, c) PROVE Granted(r, c)
    <3>1. PICK i \in DOMAIN q : /\ q[i].who = c
                                /\ i = 1 \/ \A j \in 1 .. i : q[j].mode = "read"
      BY <2>8 DEF Granted
    <3>2. CASE i < k
      <4>1. i \in DOMAIN r /\ \A j \in 1 .. i : r[j] = q[j]
        BY <3>1, <3>2, <2>3, <2>6
      <4> QED BY <3>1, <4>1 DEF Granted
    <3>3. CASE i > k
      <4>1. i - 1 \in DOMAIN r /\ r[i - 1] = q[i]
        BY <3>1, <3>3, <2>3, <2>6
      <4>2. \A j \in 1 .. i - 1 : r[j].mode = "read"
        <5> SUFFICES ASSUME NEW j \in 1 .. i - 1 PROVE r[j].mode = "read"
          OBVIOUS
        <5>1. \A m \in 1 .. i : q[m].mode = "read"
          BY <3>1, <3>3, <2>3
        <5>2. r[j] = q[j] \/ r[j] = q[j + 1]
          BY <3>1, <3>3, <2>3, <2>6
        <5> QED BY <5>1, <5>2, <3>1
      <4> QED BY <3>1, <4>1, <4>2 DEF Granted
    <3>4. i # k
      BY <2>1, <2>8, <3>1
    <3> QED BY <3>1, <3>2, <3>3, <3>4, <2>3
  <2> QED BY <2>2, <2>6, <2>7, <2>8 DEF r
<1> QED BY <1>1, <1>2

\* Who joins the queue takes the lock from nobody.
LEMMA JoinFacts ==
    ASSUME NEW q \in Seq(Entry), NEW e \in Entry
    PROVE  /\ Append(q, e) \in Seq(Entry)
           /\ \A i \in DOMAIN Append(q, e) :
                 Append(q, e)[i] = e \/ \E j \in DOMAIN q : Append(q, e)[i] = q[j]
           /\ \A c : Granted(q, c) => Granted(Append(q, e), c)
<1>1. /\ Append(q, e) \in Seq(Entry) /\ Len(Append(q, e)) = Len(q) + 1 /\ Len(q) \in Nat
      /\ \A i \in 1 .. Len(q) : Append(q, e)[i] = q[i]
      /\ Append(q, e)[Len(q) + 1] = e
  OBVIOUS
<1>2. \A i \in DOMAIN Append(q, e) : i \in DOMAIN q \/ i = Len(q) + 1
  BY <1>1
<1>3. ASSUME NEW c, Granted(q, c) PROVE Granted(Append(q, e), c)
  <2>1. PICK i \in DOMAIN q : /\ q[i].who = c
                              /\ i = 1 \/ \A j \in 1 .. i : q[j].mode = "read"
    BY <1>3 DEF Granted
  <2>2. i \in DOMAIN Append(q, e) /\ \A j \in 1 .. i : Append(q, e)[j] = q[j]
    BY <1>1, <2>1
  <2> QED BY <2>1, <2>2 DEF Granted
<1> QED BY <1>1, <1>2, <1>3

\* A switch asks for the lock of an agent to write only.
Writes(q) == \A i \in DOMAIN q : q[i].who \in Switcher => q[i].mode = "write"

\* While one has the lock, no turn has.
LEMMA WriterAlone ==
    ASSUME NEW q \in Seq(Entry), Writes(q), NEW s \in Switcher, Granted(q, s), NEW c \in Chat
    PROVE  ~Granted(q, c)
<1>1. c # s
  BY LiveAssumption
<1>2. q[1].who = s /\ q[1].mode = "write" /\ 1 \in DOMAIN q
  <2>1. PICK i \in DOMAIN q : /\ q[i].who = s
                              /\ i = 1 \/ \A j \in 1 .. i : q[j].mode = "read"
    BY DEF Granted
  <2>2. i \in 1 .. i
    BY <2>1
  <2>3. q[i].mode = "write"
    BY <2>1 DEF Writes
  <2>4. i = 1
    BY <2>1, <2>2, <2>3
  <2> QED BY <2>1, <2>3, <2>4
<1> SUFFICES ASSUME Granted(q, c) PROVE FALSE
  OBVIOUS
<1>3. PICK i \in DOMAIN q : /\ q[i].who = c
                            /\ i = 1 \/ \A j \in 1 .. i : q[j].mode = "read"
  BY DEF Granted
<1>4. 1 \in 1 .. i
  BY <1>3
<1> QED BY <1>1, <1>2, <1>3, <1>4

-----------------------------------------------------------------------------
(* Types.                                                                  *)

\* What becomes of a configuration, in memory or on its way through the file,
\* is one.
LEMMA ConfigFacts ==
    /\ DefaultConfig \in Config
    /\ \A f \in Config \cup {NoFile, Broken} : Loads(f) => Load(f) \in Config
    /\ \A c \in Config :
          /\ Written(c) \in Config \cup {Broken}
          /\ \A found \in SUBSET Provider : Merge(c, found) \in Config
          /\ \A p \in Provider : Activated(c, p) \in Config
          /\ \A l \in Limits : [c EXCEPT !.limits = l] \in Config
<1>1. DefaultConfig \in Config
  BY ProviderAssumption DEF DefaultConfig, Config, Bedrock
<1>2. \A f \in Config \cup {NoFile, Broken} : Loads(f) => Load(f) \in Config
  BY <1>1 DEF Loads, Load
<1> SUFFICES ASSUME NEW c \in Config
             PROVE  /\ Written(c) \in Config \cup {Broken}
                    /\ \A found \in SUBSET Provider : Merge(c, found) \in Config
                    /\ \A p \in Provider : Activated(c, p) \in Config
                    /\ \A l \in Limits : [c EXCEPT !.limits = l] \in Config
  BY <1>1, <1>2
<1>3. Written(c) \in Config \cup {Broken}
  BY ProviderAssumption DEF Written, Config, Bedrock
<1>4. \A found \in SUBSET Provider : Merge(c, found) \in Config
  BY DEF Merge, Config
<1>5. \A p \in Provider : Activated(c, p) \in Config
  BY DEF Activated, Wire, Config, Bedrock
<1>6. \A l \in Limits : [c EXCEPT !.limits = l] \in Config
  BY DEF Config
<1> QED BY <1>3, <1>4, <1>5, <1>6

Steps == {"unused", "publish", "send", "copy", "scan", "activate", "login", "choose", "save",
          "notify", "end"}
Tasks == [pc : Steps, kind : {"scan", "select"}, name : Provider \cup {None},
          found : SUBSET Provider, copy : Config, out : SetupState,
          then : {"end", "copy", "activate", "notify"}]
Fronts == [at : {"out", "probed", "accepted", "subscribed", "setup", "board", "live", "astray"},
           rx : Seq(SetupState), seen : SetupState, asked : Task \cup {NotAsked}]
Agents == [main : Provider \cup {None}, fallback : Provider \cup {None}]
Turning == [at : {"unbegun", "context", "main", "fallback", "asks", "tools", "repos",
                  "activates", "ended"},
            agents : Agents, recovered : BOOLEAN, calls : 0 .. MaxCalls]
Places == {"idle", "activate", "rebuild", "built", "main", "swapped", "fallback"}
Switching == [pc : Places,
              name : Provider \cup {None}, built : Agents]

\* The types in full, and: only Bedrock is logged in to.
GateShape ==
    /\ phase \in {"setup", "closed", "live", "down"}
    /\ file \in Config \cup {NoFile, Broken}
    /\ config \in Config /\ mem \in Config
    /\ state \in SetupState
    /\ lock \in Task \cup {None}
    /\ task \in [Task -> Tasks]
    /\ ready \in BOOLEAN
    /\ token \subseteq Bedrock
    /\ front \in [Front -> Fronts]
    /\ \A o \in Task : task[o].pc \in {"login", "choose"} => task[o].name \in Bedrock

\* A turn amid a tool call has that call left.
TurnShape ==
    /\ agents \in Agents
    /\ turn \in [Chat -> Turning]
    /\ \A c \in Chat : turn[c].at \in {"tools", "repos", "activates"} => turn[c].calls > 0

\* What is being activated is a provider.
LiveShape ==
    /\ switch \in [Switcher -> Switching]
    /\ tool \in [Chat -> [name : Provider \cup {None}, copy : Config]]
    /\ limits \in Limits
    /\ watch \in {"off", "recv", "debounce", "load", "swap"} /\ read \in Limits
    /\ changed \in BOOLEAN /\ unwatched \in BOOLEAN /\ overtook \in BOOLEAN
    /\ \A s \in Switcher : SwitchAt(s, "activate") => switch[s].name \in Provider
    /\ \A c \in Chat : turn[c].at = "activates" => tool[c].name \in Provider

Shape == GateShape /\ TurnShape /\ LiveShape

LEMMA StateFacts ==
    /\ Loading \in SetupState /\ Ready \in SetupState /\ Failed \in SetupState
    /\ \A found \in SUBSET Provider : Needs(found) \in SetupState
    /\ \A s \in SetupState : s.offer \subseteq Provider
    /\ Unused \in Tasks /\ Over \in Tasks /\ ScanTask \in Tasks /\ Out \in Fronts
<1>1. /\ Loading \in SetupState /\ Ready \in SetupState /\ Failed \in SetupState
      /\ \A found \in SUBSET Provider : Needs(found) \in SetupState
  BY DEF SetupState
<1>2. \A s \in SetupState : s.offer \subseteq Provider
  BY DEF SetupState, Loading, Ready, Failed, Needs
<1> HIDE DEF Loading, Ready, Failed
<1>3. Unused \in Tasks
  BY <1>1, ConfigFacts DEF Unused, Tasks, Steps
<1>4. Over \in Tasks /\ ScanTask \in Tasks
  BY <1>3 DEF Over, ScanTask, Tasks, Steps
<1>5. <<>> \in Seq(SetupState)
  OBVIOUS
<1>6. Out \in Fronts
  BY <1>1, <1>5 DEF Out, Fronts
<1> QED BY <1>1, <1>2, <1>3, <1>4, <1>6


Others(o) == \A n \in Task : n # o => task'[n] = task[n]

\* A task goes on to another step, and otherwise stays what it is.
LEMMA GoesFacts ==
    ASSUME task \in [Task -> Tasks], NEW o \in Task, NEW pc \in Steps, Goes(o, pc)
    PROVE  /\ task' \in [Task -> Tasks] /\ Others(o) /\ task'[o].pc = pc
           /\ pc # "end" => /\ task'[o].kind = task[o].kind /\ task'[o].name = task[o].name
                            /\ task'[o].copy = task[o].copy /\ task'[o].out = task[o].out
                            /\ task'[o].then = task[o].then
           /\ pc = "end" => task'[o] = Over
<1>1. CASE pc = "end"
  <2>1. task' = [task EXCEPT ![o] = Over]
    BY <1>1 DEF Goes
  <2> QED BY <1>1, <2>1, StateFacts DEF Others, Over, Unused
<1>2. CASE pc # "end"
  <2> DEFINE x == [task[o] EXCEPT !.pc = pc]
  <2>1. task' = [task EXCEPT ![o] = x]
    BY <1>2 DEF Goes
  <2>2. task[o] \in Tasks
    OBVIOUS
  <2>3. /\ x \in Tasks /\ x.pc = pc /\ x.kind = task[o].kind /\ x.name = task[o].name
        /\ x.copy = task[o].copy /\ x.out = task[o].out /\ x.then = task[o].then
    BY <2>2 DEF Tasks
  <2> HIDE DEF x
  <2> QED BY <1>2, <2>1, <2>3 DEF Others
<1> QED BY <1>1, <1>2

\* A task goes on to publish a state.
LEMMA PublishingFacts ==
    ASSUME task \in [Task -> Tasks], NEW o \in Task, NEW out \in SetupState,
           NEW then \in {"end", "copy", "activate", "notify"}, Publishing(o, out, then)
    PROVE  /\ task' \in [Task -> Tasks] /\ Others(o) /\ task'[o].pc = "publish"
           /\ task'[o].kind = task[o].kind /\ task'[o].out = out /\ task'[o].then = then
           /\ task'[o].copy = DefaultConfig
<1> DEFINE x == [task[o] EXCEPT !.pc = "publish", !.out = out, !.then = then,
                                !.copy = DefaultConfig]
<1>1. task' = [task EXCEPT ![o] = x]
  BY DEF Publishing
<1>2. task[o] \in Tasks
  OBVIOUS
<1>3. /\ x \in Tasks /\ x.pc = "publish" /\ x.kind = task[o].kind
      /\ x.out = out /\ x.then = then /\ x.copy = DefaultConfig
  BY <1>2, ConfigFacts DEF Tasks, Steps
<1> HIDE DEF x
<1> QED BY <1>1, <1>3 DEF Others

Obvious1(o, found) ==
    \E p \in Obvious(found) :
        task' = [task EXCEPT ![o] = [Unused EXCEPT !.pc = "publish", !.name = p,
                                        !.then = "activate", !.found = found]]

\* A scan that found the obvious provider publishes that it loads and activates it.
LEMMA ObviousFacts ==
    ASSUME task \in [Task -> Tasks], NEW o \in Task, NEW found \in SUBSET Provider,
           Obvious1(o, found)
    PROVE  /\ task' \in [Task -> Tasks] /\ Others(o) /\ task'[o].pc = "publish"
           /\ task'[o].kind = "scan" /\ task'[o].out = Loading /\ task'[o].then = "activate"
           /\ task'[o].copy = DefaultConfig
<1>1. PICK p \in Obvious(found) :
        task' = [task EXCEPT ![o] = [Unused EXCEPT !.pc = "publish", !.name = p,
                                        !.then = "activate", !.found = found]]
  BY DEF Obvious1
<1> DEFINE x == [Unused EXCEPT !.pc = "publish", !.name = p, !.then = "activate",
                               !.found = found]
<1>2. p \in Provider
  BY <1>1 DEF Obvious
<1>3. /\ x \in Tasks /\ x.pc = "publish" /\ x.kind = "scan"
      /\ x.out = Loading /\ x.then = "activate" /\ x.copy = DefaultConfig
  <2>1. Loading \in SetupState /\ DefaultConfig \in Config
    BY StateFacts, ConfigFacts
  <2> QED BY <1>2, <2>1 DEF Unused, Tasks, Steps
<1>4. task' = [task EXCEPT ![o] = x]
  BY <1>1
<1> HIDE DEF x
<1> QED BY <1>3, <1>4 DEF Others

Logging == \A o \in Task : task[o].pc \in {"login", "choose"} => task[o].name \in Bedrock

\* One step of a task of the setup session.
LEMMA TaskTyped ==
    ASSUME GateShape, NEW o \in Task, TaskStep(o)
    PROVE  GateShape'
<1> USE StateFacts
<1>0. /\ task \in [Task -> Tasks] /\ Logging
      /\ task[o].out \in SetupState /\ task[o].copy \in Config /\ task[o].found \in SUBSET Provider
      /\ task[o].then \in {"end", "copy", "activate", "notify"}
  BY DEF GateShape, Tasks, Logging
<1>1. CASE Publish(o)
  <2>1. task' \in [Task -> Tasks] /\ Others(o) /\ task'[o].pc = "send"
    BY <1>0, <1>1, GoesFacts DEF Publish, Steps
  <2>2. Logging'
    BY <1>0, <2>1 DEF Logging, Others
  <2> QED BY <1>0, <1>1, <2>1, <2>2 DEF GateShape, Publish, Logging
<1>2. CASE SendState(o)
  <2>1. task' \in [Task -> Tasks] /\ Others(o) /\ task'[o].pc = task[o].then
    <3>1. task[o].then \in Steps
      BY <1>0 DEF Steps
    <3> QED BY <1>0, <1>2, <3>1, GoesFacts DEF SendState
  <2>2. Logging'
    BY <1>0, <2>1 DEF Logging, Others
  <2>3. front' \in [Front -> Fronts]
    <3> DEFINE sent(f) == [front[f] EXCEPT !.rx = Append(@, task[o].out)]
    <3>1. \A f \in Front : sent(f) \in Fronts /\ front[f] \in Fronts
      <4> SUFFICES ASSUME NEW f \in Front PROVE sent(f) \in Fronts /\ front[f] \in Fronts
        OBVIOUS
      <4>1. front[f] \in Fronts
        BY DEF GateShape
      <4> DEFINE y == Append(front[f].rx, task[o].out)
      <4>2. y \in Seq(SetupState)
        BY <1>0, <4>1 DEF Fronts
      <4>3. sent(f) = [front[f] EXCEPT !.rx = y]
        OBVIOUS
      <4> HIDE DEF y
      <4> QED BY <4>1, <4>2, <4>3 DEF Fronts
    <3>2. front' = [f \in Front |-> IF Subscribed(f) THEN sent(f) ELSE front[f]]
      BY <1>2 DEF SendState
    <3> HIDE DEF sent
    <3> QED BY <3>1, <3>2
  <2> QED BY <1>2, <2>1, <2>2, <2>3 DEF GateShape, SendState, Logging
<1>3. CASE Copy(o)
  <2> DEFINE x == [task[o] EXCEPT !.pc = "scan", !.copy = config]
  <2>1. x \in Tasks /\ x.pc = "scan"
    BY <1>0 DEF Tasks, Steps, GateShape
  <2>2. task' = [task EXCEPT ![o] = x]
    BY <1>3 DEF Copy
  <2> HIDE DEF x
  <2>3. task' \in [Task -> Tasks] /\ Logging'
    BY <1>0, <2>1, <2>2 DEF Logging
  <2> QED BY <1>3, <2>3 DEF GateShape, Copy, Logging
<1>4. CASE ScanPanics(o)
  <2>1. task' \in [Task -> Tasks] /\ Others(o) /\ task'[o].pc = "publish"
    BY <1>0, <1>4, PublishingFacts DEF ScanPanics, Fail
  <2>2. Logging'
    BY <1>0, <2>1 DEF Logging, Others
  <2> QED BY <1>4, <2>1, <2>2 DEF GateShape, ScanPanics, Logging
<1>5. CASE ScanReturns(o)
  <2>1. PICK found \in Finds :
          /\ config' = Merge(task[o].copy, found)
          /\ Save(config')
          /\ IF found = {} THEN Fail(o)
             ELSE IF Obvious(found) = {} THEN Publishing(o, Needs(found), "end")
             ELSE Obvious1(o, found)
    BY <1>5 DEF ScanReturns, Obvious1
  <2>2. found \in SUBSET Provider
    BY GateAssumption
  <2>3. task' \in [Task -> Tasks] /\ Others(o) /\ task'[o].pc = "publish"
    BY <1>0, <2>1, <2>2, PublishingFacts, ObviousFacts DEF Fail
  <2>4. Logging'
    BY <1>0, <2>3 DEF Logging, Others
  <2>5. config' \in Config /\ file' \in Config \cup {NoFile, Broken}
    BY <1>0, <2>1, <2>2, ConfigFacts DEF Save
  <2> QED BY <1>5, <2>3, <2>4, <2>5 DEF GateShape, ScanReturns, Logging
<1>6. CASE Activate(o)
  <2> DEFINE p == task[o].name
  <2>1. config \in Config /\ p \in Provider \cup {None} /\ config.providers \subseteq Provider
    BY <1>0 DEF GateShape, Config, Tasks
  <2>2. \/ p \notin config.providers /\ Fail(o) /\ UNCHANGED <<config, lock>>
        \/ /\ p \in config.providers \cap Local /\ config' = Activated(config, p)
           /\ Goes(o, "save") /\ UNCHANGED lock
        \/ /\ p \in config.providers \ Local /\ lock' = o /\ UNCHANGED config
           /\ Goes(o, "choose") \/ Goes(o, "login")
    BY <1>6 DEF Activate
  <2>3. /\ task' \in [Task -> Tasks] /\ Others(o)
        /\ task'[o].pc \in {"login", "choose"} => task'[o].name \in Bedrock
    BY <1>0, <2>1, <2>2, PublishingFacts, GoesFacts DEF Fail, Steps, Bedrock
  <2>4. Logging'
    BY <1>0, <2>3 DEF Logging, Others
  <2>5. config' \in Config /\ lock' \in Task \cup {None}
    BY <2>1, <2>2, ConfigFacts DEF GateShape
  <2> QED BY <1>6, <2>3, <2>4, <2>5 DEF GateShape, Activate, Logging
<1>7. CASE Login(o)
  <2>1. task[o].name \in Bedrock
    BY <1>0, <1>7 DEF Logging, Login, At
  <2>2. /\ task' \in [Task -> Tasks] /\ Others(o)
        /\ task'[o].pc = "publish" \/ task'[o].name = task[o].name
    BY <1>0, <1>7, PublishingFacts, GoesFacts DEF Login, Fail, Steps
  <2>3. Logging'
    BY <1>0, <2>1, <2>2 DEF Logging, Others
  <2>4. token' \subseteq Bedrock /\ lock' \in Task \cup {None}
    BY <1>7, <2>1 DEF Login, GateShape
  <2> QED BY <1>7, <2>2, <2>3, <2>4 DEF GateShape, Login, Logging
<1>8. CASE Choose(o)
  <2>1. task' \in [Task -> Tasks] /\ Others(o) /\ task'[o].pc \in {"publish", "end"}
    BY <1>0, <1>8, PublishingFacts, GoesFacts DEF Choose, Fail, Steps
  <2>2. Logging'
    BY <1>0, <2>1 DEF Logging, Others
  <2> QED BY <1>8, <2>1, <2>2 DEF GateShape, Choose, Logging
<1>9. CASE Persist(o)
  <2>1. task' \in [Task -> Tasks] /\ Others(o) /\ task'[o].pc \in {"publish", "end"}
    BY <1>0, <1>9, PublishingFacts, GoesFacts DEF Persist, Fail, Steps
  <2>2. Logging'
    BY <1>0, <2>1 DEF Logging, Others
  <2>3. file' \in Config \cup {NoFile, Broken}
    BY <1>9, ConfigFacts DEF Persist, Save, GateShape
  <2> QED BY <1>9, <2>1, <2>2, <2>3 DEF GateShape, Persist, Logging
<1>10. CASE WakeAccept(o)
  <2>1. task' \in [Task -> Tasks] /\ Others(o) /\ task'[o].pc = "end"
    BY <1>0, <1>10, GoesFacts DEF WakeAccept, Steps
  <2>2. Logging'
    BY <1>0, <2>1 DEF Logging, Others
  <2> QED BY <1>10, <2>1, <2>2 DEF GateShape, WakeAccept, Logging
<1> QED BY <1>1, <1>2, <1>3, <1>4, <1>5, <1>6, <1>7, <1>8, <1>9, <1>10 DEF TaskStep

\* What a terminal may do with what it was sent.
LEMMA ShownTyped ==
    ASSUME front \in [Front -> Fronts], NEW f \in Front, NEW s \in SetupState,
           NEW rest \in Seq(SetupState), Shown(f, s, rest)
    PROVE  front' \in [Front -> Fronts]
<1>1. front[f] \in Fronts
  OBVIOUS
<1> DEFINE x == IF s = Ready THEN Out
                ELSE [front[f] EXCEPT !.at = "setup", !.seen = s, !.rx = rest]
<1>2. x \in Fronts
  <2>1. [front[f] EXCEPT !.at = "setup", !.seen = s, !.rx = rest] \in Fronts
    BY <1>1 DEF Fronts
  <2> QED BY <2>1, StateFacts
<1>3. front' = [front EXCEPT ![f] = x]
  BY DEF Shown
<1> HIDE DEF x
<1> QED BY <1>2, <1>3

\* A step of a terminal or of its user.
LEMMA FrontTyped ==
    ASSUME GateShape, NEW f \in Front, FrontStep(f) \/ UserStep(f)
    PROVE  GateShape'
<1>0. /\ front \in [Front -> Fronts] /\ task \in [Task -> Tasks] /\ Logging /\ state \in SetupState
      /\ front[f] \in Fronts
  BY DEF GateShape, Logging
<1> DEFINE Frame == UNCHANGED <<phase, file, session, token, mem, starts>>
<1>1. ASSUME Frame, front' \in [Front -> Fronts] PROVE GateShape'
  BY <1>1 DEF GateShape, session
<1>2. ASSUME NEW at \in {"out", "probed", "accepted", "subscribed", "setup", "board", "live",
                         "astray"}, Moves(f, at)
      PROVE  front' \in [Front -> Fronts]
  BY <1>0, <1>2 DEF Moves, Fronts
<1>3. CASE Probe(f)
  <2>1. Frame /\ (Moves(f, "board") \/ Moves(f, "probed"))
    BY <1>3 DEF Probe
  <2> QED BY <1>1, <1>2, <2>1
<1>4. CASE Connect(f)
  <2>1. Frame /\ (Moves(f, "accepted") \/ Moves(f, "astray") \/ Moves(f, "out"))
    BY <1>4 DEF Connect
  <2> QED BY <1>1, <1>2, <2>1
<1>5. CASE EnterBoard(f)
  <2>1. Frame /\ (Moves(f, "live") \/ Moves(f, "astray") \/ Moves(f, "out"))
    BY <1>5 DEF EnterBoard
  <2> QED BY <1>1, <1>2, <2>1
<1>6. CASE Subscribe(f)
  <2> DEFINE x == [front[f] EXCEPT !.at = "subscribed", !.rx = <<>>]
  <2>0. <<>> \in Seq(SetupState)
    OBVIOUS
  <2>1. x \in Fronts
    BY <1>0, <2>0 DEF Fronts
  <2>2. Frame /\ front' = [front EXCEPT ![f] = x]
    BY <1>6 DEF Subscribe
  <2> HIDE DEF x
  <2> QED BY <1>0, <1>1, <2>1, <2>2
<1>7. CASE SendCurrent(f)
  <2>1. Frame /\ Shown(f, state, front[f].rx) /\ front[f].rx \in Seq(SetupState)
    BY <1>0, <1>7 DEF SendCurrent, Fronts
  <2> QED BY <1>0, <1>1, <2>1, ShownTyped
<1>8. CASE Receive(f)
  <2>1. /\ Frame /\ Shown(f, Head(front[f].rx), Tail(front[f].rx))
        /\ front[f].rx \in Seq(SetupState) /\ front[f].rx # <<>>
    BY <1>0, <1>8 DEF Receive, Fronts
  <2>2. Head(front[f].rx) \in SetupState /\ Tail(front[f].rx) \in Seq(SetupState)
    BY <2>1, HeadTailProperties
  <2> QED BY <1>0, <1>1, <2>1, <2>2, ShownTyped
<1>9. CASE ReadAnswer(f)
  BY <1>0, <1>1, <1>9 DEF ReadAnswer, Fronts
<1>10. CASE Select(f)
  <2>1. PICK o \in Task, p \in front[f].seen.offer :
          /\ task' = [task EXCEPT ![o].pc = "activate", ![o].kind = "select", ![o].name = p]
          /\ front' = [front EXCEPT ![f].asked = o]
    BY <1>10 DEF Select
  <2>2. p \in Provider
    BY <1>0, StateFacts DEF Fronts
  <2> DEFINE x == [task[o] EXCEPT !.pc = "activate", !.kind = "select", !.name = p]
  <2>3. x \in Tasks /\ x.pc = "activate" /\ task' = [task EXCEPT ![o] = x]
    BY <1>0, <2>1, <2>2 DEF Tasks, Steps
  <2> HIDE DEF x
  <2>4. task' \in [Task -> Tasks] /\ Logging'
    BY <1>0, <2>3 DEF Logging
  <2>5. front' \in [Front -> Fronts]
    BY <1>0, <2>1 DEF Fronts
  <2> QED BY <1>10, <2>4, <2>5 DEF Select, GateShape, Logging
<1>11. CASE Rescan(f)
  <2>1. PICK o \in Task : task' = [task EXCEPT ![o] = ScanTask]
    BY <1>11 DEF Rescan
  <2>2. ScanTask \in Tasks /\ ScanTask.pc = "publish"
    BY StateFacts DEF ScanTask, Unused
  <2>3. task' \in [Task -> Tasks] /\ Logging'
    BY <1>0, <2>1, <2>2 DEF Logging
  <2> QED BY <1>11, <2>3 DEF Rescan, GateShape, Logging
<1>12. CASE Quit(f)
  BY <1>0, <1>1, <1>12, StateFacts DEF Quit
<1> QED BY <1>3, <1>4, <1>5, <1>6, <1>7, <1>8, <1>9, <1>10, <1>11, <1>12 DEF FrontStep, UserStep

\* A step of the session.
LEMMA GateTyped ==
    ASSUME GateShape, GateStep
    PROVE  GateShape'
<1>1. CASE CloseSetup
  BY <1>1 DEF CloseSetup, GateShape
<1>2. CASE \E o \in Task : TaskStep(o)
  BY <1>2, TaskTyped
<1>3. CASE \E f \in Front : FrontStep(f) \/ UserStep(f)
  BY <1>3, FrontTyped
<1> QED BY <1>1, <1>2, <1>3 DEF GateStep

\* A start of the daemon, and the hand-over.
LEMMA StartTyped ==
    ASSUME GateShape, Restart \/ GoLive
    PROVE  GateShape'
<1>1. CASE Restart
  <2>1. Started(file) /\ front' = [f \in Front |-> Out] /\ UNCHANGED <<file, token>>
    BY <1>1 DEF Restart
  <2>2. config' \in Config /\ mem' \in Config
    BY <2>1, ConfigFacts DEF Started, GateShape
  <2>3. phase' \in {"setup", "closed", "live", "down"} /\ state' = Loading /\ lock' = None
        /\ ready' = FALSE
    BY <2>1 DEF Started
  <2>4. /\ task' = [o \in Task |-> task'[o]]
        /\ \A o \in Task : task'[o] \in {ScanTask, Unused}
    BY <2>1 DEF Started
  <2>5. task' \in [Task -> Tasks]
    BY <2>4, StateFacts
  <2>6. \A o \in Task : task'[o].pc \in {"publish", "unused"}
    <3>1. ScanTask.pc = "publish" /\ Unused.pc = "unused"
      BY DEF ScanTask, Unused
    <3> HIDE DEF ScanTask, Unused
    <3> QED BY <2>4, <3>1
  <2>7. front' \in [Front -> Fronts]
    BY <2>1, StateFacts
  <2> QED BY <2>1, <2>2, <2>3, <2>5, <2>6, <2>7, StateFacts DEF GateShape
<1>2. CASE GoLive
  BY <1>2 DEF GoLive, GateShape, session
<1> QED BY <1>1, <1>2

-----------------------------------------------------------------------------
(* Types: turns, switch and watcher.                                       *)

Wheres == {"unbegun", "context", "main", "fallback", "asks", "tools", "repos", "activates",
           "ended"}
OtherTurns(c) == \A d \in Chat : d # c => turn'[d] = turn[d]

LEMMA TurnGoesFacts ==
    ASSUME turn \in [Chat -> Turning], NEW c \in Chat, NEW where \in Wheres, TurnGoes(c, where)
    PROVE  /\ turn' \in [Chat -> Turning] /\ OtherTurns(c) /\ turn'[c].at = where
           /\ turn'[c].agents = turn[c].agents /\ turn'[c].calls = turn[c].calls
<1> DEFINE x == [turn[c] EXCEPT !.at = where]
<1>1. x \in Turning /\ x.at = where /\ x.agents = turn[c].agents /\ x.calls = turn[c].calls
  BY DEF Turning, Wheres
<1>2. turn' = [turn EXCEPT ![c] = x]
  BY DEF TurnGoes
<1> HIDE DEF x
<1> QED BY <1>1, <1>2 DEF OtherTurns

LEMMA EndedFacts == Ended \in Turning /\ Unbegun \in Turning /\ Ended.at = "ended" /\ Unbegun.at = "unbegun"
<1>1. NoAgents \in Agents
  BY DEF NoAgents, Agents
<1>2. Unbegun \in Turning /\ Unbegun.at = "unbegun"
  BY <1>1, CallsAssumption DEF Unbegun, Turning
<1>3. Ended \in Turning /\ Ended.at = "ended"
  BY <1>2 DEF Ended, Turning
<1> QED BY <1>2, <1>3

LEMMA LeavesFacts ==
    ASSUME turn \in [Chat -> Turning], NEW c \in Chat, Leaves(c)
    PROVE  /\ turn' \in [Chat -> Turning] /\ OtherTurns(c) /\ turn'[c].at = "ended"
BY EndedFacts DEF Leaves, OtherTurns

LEMMA CalledFacts ==
    ASSUME turn \in [Chat -> Turning], NEW c \in Chat, turn[c].calls > 0, Called(c)
    PROVE  /\ turn' \in [Chat -> Turning] /\ OtherTurns(c)
           /\ turn'[c].at \in {"tools", "asks"} /\ turn'[c].agents = turn[c].agents
           /\ turn'[c].at = "tools" => turn'[c].calls > 0
<1>1. PICK next \in {"tools", "asks"} :
        /\ next = "tools" => turn[c].calls > 1
        /\ turn' = [turn EXCEPT ![c].at = next, ![c].calls = @ - 1]
  BY DEF Called
<1> DEFINE x == [turn[c] EXCEPT !.at = next, !.calls = @ - 1]
<1>2. turn[c].calls - 1 \in 0 .. MaxCalls /\ (next = "tools" => turn[c].calls - 1 > 0)
  BY <1>1, CallsAssumption DEF Turning
<1>3. /\ x \in Turning /\ x.at = next /\ x.agents = turn[c].agents
      /\ x.calls = turn[c].calls - 1
  BY <1>2 DEF Turning
<1>4. turn' = [turn EXCEPT ![c] = x]
  BY <1>1
<1> HIDE DEF x
<1> QED BY <1>1, <1>2, <1>3, <1>4 DEF OtherTurns

Activating == \A c \in Chat : turn[c].at \in {"tools", "repos", "activates"} => turn[c].calls > 0
Turned(c) == TurnBegins(c) \/ TurnStep(c) \/ TurnAborted(c)

\* A step of a turn; none of them begins to activate a provider.
LEMMA TurnTyped ==
    ASSUME TurnShape, NEW c \in Chat, Turned(c)
    PROVE  TurnShape' /\ OtherTurns(c) /\ turn'[c].at # "activates"
<1>0. turn \in [Chat -> Turning] /\ agents \in Agents /\ Activating
  BY DEF TurnShape, Activating
<1> SUFFICES /\ turn' \in [Chat -> Turning] /\ OtherTurns(c) /\ agents' \in Agents
             /\ turn'[c].at # "activates"
             /\ turn'[c].at \in {"tools", "repos", "activates"} => turn'[c].calls > 0
  BY <1>0 DEF TurnShape, Activating, OtherTurns
<1>1. CASE TurnBegins(c)
  BY <1>0, <1>1, TurnGoesFacts DEF TurnBegins, Wheres
<1>2. CASE TurnGathers(c)
  BY <1>0, <1>2, TurnGoesFacts DEF TurnGathers, Wheres
<1>3. CASE TurnTakesMain(c)
  <2> DEFINE x == [turn[c] EXCEPT !.at = "fallback", !.agents.main = agents.main]
  <2>1. x \in Turning /\ x.at = "fallback"
    BY <1>0 DEF Turning, Agents
  <2>2. turn' = [turn EXCEPT ![c] = x] /\ UNCHANGED agents
    BY <1>3 DEF TurnTakesMain
  <2> HIDE DEF x
  <2> QED BY <1>0, <2>1, <2>2 DEF OtherTurns
<1>4. CASE TurnTakesFallback(c)
  <2> DEFINE x == [turn[c] EXCEPT !.at = "asks", !.agents.fallback = agents.fallback]
  <2>1. x \in Turning /\ x.at = "asks"
    BY <1>0 DEF Turning, Agents
  <2>2. turn' = [turn EXCEPT ![c] = x] /\ UNCHANGED agents
    BY <1>4 DEF TurnTakesFallback
  <2> HIDE DEF x
  <2> QED BY <1>0, <2>1, <2>2 DEF OtherTurns
<1>5. CASE Leaves(c)
  BY <1>0, <1>5, LeavesFacts DEF Leaves
<1>6. CASE ModelCalls(c)
  BY <1>0, <1>6, TurnGoesFacts DEF ModelCalls, Wheres
<1>7. CASE /\ turn[c].at = "asks"
           /\ turn' = [turn EXCEPT ![c].recovered = TRUE] /\ UNCHANGED <<agents, locks>>
  <2> DEFINE x == [turn[c] EXCEPT !.recovered = TRUE]
  <2>1. x \in Turning /\ x.at = "asks"
    BY <1>0, <1>7 DEF Turning
  <2>2. turn' = [turn EXCEPT ![c] = x]
    BY <1>7
  <2> HIDE DEF x
  <2> QED BY <1>0, <1>7, <2>1, <2>2 DEF OtherTurns
<1>8. CASE OtherTool(c)
  BY <1>0, <1>8, CalledFacts DEF OtherTool, TurnAt, Activating
<1>9. CASE ListRepos(c)
  BY <1>0, <1>9, TurnGoesFacts DEF ListRepos, Wheres, TurnAt, Activating
<1>10. CASE ReposListed(c)
  BY <1>0, <1>10, CalledFacts DEF ReposListed, TurnAt, Activating
<1> QED BY <1>1, <1>2, <1>3, <1>4, <1>5, <1>6, <1>7, <1>8, <1>9, <1>10
        DEF Turned, TurnStep, ModelReplies, ModelFails, TurnAborted, TurnAt

LEMMA BuiltFacts ==
    ASSUME NEW c \in Config
    PROVE  Built(c) \in Agents /\ c.limits \in Limits
BY ProviderAssumption DEF Built, MainAgent, FallbackAgent, Agents, Config

LEMMA NoneActive == NoAgents \in Agents /\ Idling \in Switching /\ Idling.pc = "idle"
BY DEF NoAgents, Agents, Idling, Switching, Places

\* Mem and file after an edit of either.
LEMMA FileTyped ==
    ASSUME GateShape, UNCHANGED <<phase, session, front, starts>>,
           mem' \in Config, file' \in Config \cup {NoFile, Broken}, token' \subseteq Bedrock
    PROVE  GateShape'
BY DEF GateShape, session

TooledUp == \A c \in Chat : turn[c].at = "activates" => tool[c].name \in Provider

Switched(s) == SwitchBegins(s) \/ SwitchStep(s)
OtherSwitches(s) == \A r \in Switcher : r # s => switch'[r] = switch[r]
Named == \A s \in Switcher : SwitchAt(s, "activate") => switch[s].name \in Provider

\* A switch goes on to another step, with the agents it has built.
LEMMA SwitchGoesFacts ==
    ASSUME switch \in [Switcher -> Switching], NEW s \in Switcher, NEW pc \in Places,
           SwitchGoes(s, pc)
    PROVE  /\ switch' \in [Switcher -> Switching] /\ OtherSwitches(s)
           /\ switch'[s].pc = pc /\ switch'[s].built = switch[s].built
<1> DEFINE x == [switch[s] EXCEPT !.pc = pc]
<1>1. x \in Switching /\ x.pc = pc /\ x.built = switch[s].built
  BY DEF Switching
<1>2. switch' = [switch EXCEPT ![s] = x]
  BY DEF SwitchGoes
<1> HIDE DEF x
<1> QED BY <1>1, <1>2 DEF OtherSwitches

\* What each step of a switch makes of it.
LEMMA SwitchFacts ==
    ASSUME switch \in [Switcher -> Switching], mem \in Config, NEW s \in Switcher, Switched(s)
    PROVE  /\ switch' \in [Switcher -> Switching] /\ OtherSwitches(s)
           /\ SwitchBegins(s) => /\ switch'[s].pc = "activate"
                                 /\ switch'[s].name \in mem.providers
           /\ SwitchActivates(s) =>
                 \/ switch'[s].pc = "rebuild" /\ mem' = Activated(mem, switch[s].name)
                    /\ overtook' = Overtakes(s)
                 \/ switch'[s].pc = "idle" /\ UNCHANGED <<mem, overtook>>
           /\ SwitchRebuilds(s) => switch'[s].pc = "built" /\ switch'[s].built = Built(mem)
           /\ SwitchAsksMain(s) => switch'[s].pc = "main" /\ switch'[s].built = switch[s].built
           /\ SwitchSwapsMain(s) =>
                 switch'[s].pc = "swapped" /\ switch'[s].built = switch[s].built
           /\ SwitchAsksFallback(s) =>
                 switch'[s].pc = "fallback" /\ switch'[s].built = switch[s].built
           /\ SwitchSwapsFallback(s) => switch'[s].pc = "idle"
<1> DEFINE Rests == switch' = [switch EXCEPT ![s] = Idling]
<1>1. Rests => /\ switch' \in [Switcher -> Switching] /\ OtherSwitches(s)
               /\ switch'[s].pc = "idle"
  BY NoneActive DEF OtherSwitches
<1> HIDE DEF Rests
<1>2. ASSUME SwitchBegins(s)
      PROVE  /\ switch' \in [Switcher -> Switching] /\ OtherSwitches(s)
             /\ switch'[s].pc = "activate" /\ switch'[s].name \in mem.providers
  <2>1. PICK p \in mem.providers :
          switch' = [switch EXCEPT ![s].pc = "activate", ![s].name = p]
    BY <1>2 DEF SwitchBegins
  <2> DEFINE x == [switch[s] EXCEPT !.pc = "activate", !.name = p]
  <2>2. p \in Provider
    BY DEF Config
  <2>3. x \in Switching /\ x.pc = "activate" /\ x.name = p
    BY <2>2 DEF Switching, Places
  <2>4. switch' = [switch EXCEPT ![s] = x]
    BY <2>1
  <2> HIDE DEF x
  <2> QED BY <2>3, <2>4 DEF OtherSwitches
<1>3. ASSUME SwitchActivates(s)
      PROVE  /\ switch' \in [Switcher -> Switching] /\ OtherSwitches(s)
             /\ \/ switch'[s].pc = "rebuild" /\ mem' = Activated(mem, switch[s].name)
                   /\ overtook' = Overtakes(s)
                \/ switch'[s].pc = "idle" /\ UNCHANGED <<mem, overtook>>
  <2>1. CASE SwitchGoes(s, "rebuild") /\ mem' = Activated(mem, switch[s].name)
             /\ overtook' = Overtakes(s)
    BY <2>1, SwitchGoesFacts DEF Places
  <2>2. CASE Rests /\ UNCHANGED <<mem, overtook>>
    BY <1>1, <2>2
  <2> QED BY <1>3, <2>1, <2>2 DEF SwitchActivates, Rests
<1>4. ASSUME SwitchRebuilds(s)
      PROVE  /\ switch' \in [Switcher -> Switching] /\ OtherSwitches(s)
             /\ switch'[s].pc = "built" /\ switch'[s].built = Built(mem)
  <2> DEFINE b == Built(mem)
             x == [switch[s] EXCEPT !.pc = "built", !.built = b]
  <2>1. b \in Agents
    BY BuiltFacts
  <2>2. switch' = [switch EXCEPT ![s] = x]
    BY <1>4 DEF SwitchRebuilds
  <2> HIDE DEF b
  <2>3. x \in Switching /\ x.pc = "built" /\ x.built = b
    BY <2>1 DEF Switching, Places
  <2> HIDE DEF x
  <2> QED BY <2>2, <2>3 DEF OtherSwitches, b
<1>5. ASSUME NEW pc \in Places, SwitchGoes(s, pc)
      PROVE  /\ switch' \in [Switcher -> Switching] /\ OtherSwitches(s)
             /\ switch'[s].pc = pc /\ switch'[s].built = switch[s].built
  BY <1>5, SwitchGoesFacts
<1>6. /\ SwitchActivates(s) => SwitchAt(s, "activate")
      /\ SwitchRebuilds(s) => SwitchAt(s, "rebuild")
      /\ SwitchAsksMain(s) => SwitchAt(s, "built") /\ SwitchGoes(s, "main")
      /\ SwitchSwapsMain(s) => SwitchAt(s, "main") /\ SwitchGoes(s, "swapped")
      /\ SwitchAsksFallback(s) => SwitchAt(s, "swapped") /\ SwitchGoes(s, "fallback")
      /\ SwitchSwapsFallback(s) => SwitchAt(s, "fallback") /\ Rests
  BY DEF SwitchBegins, SwitchStep, SwitchActivates, SwitchRebuilds, SwitchAsksMain,
         SwitchSwapsMain, SwitchAsksFallback, SwitchSwapsFallback, SwitchAt, Rests
<1>7. {"main", "swapped", "fallback"} \subseteq Places
  BY DEF Places
<1>8. switch' \in [Switcher -> Switching] /\ OtherSwitches(s)
  BY <1>1, <1>2, <1>3, <1>4, <1>5, <1>6, <1>7 DEF Switched, SwitchStep
<1> QED BY <1>1, <1>2, <1>3, <1>4, <1>5, <1>6, <1>7, <1>8

\* A step of a provider switch.
LEMMA SwitchTyped ==
    ASSUME Shape, NEW s \in Switcher, Switched(s)
    PROVE  Shape'
<1>0. /\ mem \in Config /\ mem.providers \subseteq Provider
      /\ switch \in [Switcher -> Switching] /\ Named
      /\ file \in Config \cup {NoFile, Broken} /\ token \subseteq Bedrock
      /\ agents \in Agents /\ switch[s].built \in Agents
      /\ changed \in BOOLEAN /\ unwatched \in BOOLEAN /\ overtook \in BOOLEAN
  BY DEF Shape, GateShape, LiveShape, TurnShape, Config, Switching, Named
<1>1. switch' \in [Switcher -> Switching] /\ OtherSwitches(s)
  BY <1>0, SwitchFacts
<1>2. Named'
  <2>1. switch'[s].pc = "activate" => switch'[s].name \in Provider
    BY <1>0, SwitchFacts DEF Switched, SwitchStep
  <2> QED BY <1>0, <1>1, <2>1 DEF Named, SwitchAt, OtherSwitches
<1>3. UNCHANGED <<turn, tool, limits, watch, read>>
  BY DEF Switched, SwitchStep, SwitchBegins, SwitchActivates, SwitchRebuilds, SwitchAsksMain,
         SwitchSwapsMain, SwitchAsksFallback, SwitchSwapsFallback, besideSwitch
<1>4. ASSUME agents' \in Agents, changed' \in BOOLEAN, unwatched' \in BOOLEAN,
             overtook' \in BOOLEAN
      PROVE  TurnShape' /\ LiveShape'
  BY <1>1, <1>2, <1>3, <1>4 DEF Shape, TurnShape, LiveShape, Named
<1>5. UNCHANGED gateVars => GateShape'
  BY DEF Shape, GateShape, gateVars, session
<1>6. CASE SwitchActivates(s)
  <2>1. switch[s].name \in Provider
    BY <1>0, <1>6 DEF SwitchActivates, Named
  <2>2. mem' \in Config
    BY <1>0, <1>6, <2>1, ConfigFacts DEF SwitchActivates
  <2>3. token' \subseteq Bedrock
    BY <1>0, <1>6, <2>1 DEF SwitchActivates, Bedrock
  <2>4. GateShape'
    BY <1>0, <1>6, <2>2, <2>3, FileTyped DEF SwitchActivates, Shape
  <2>5. overtook' \in BOOLEAN
    BY <1>0, <1>6 DEF SwitchActivates, Overtakes
  <2> QED BY <1>0, <1>4, <1>6, <2>4, <2>5 DEF SwitchActivates, Shape
<1>7. CASE SwitchRebuilds(s)
  <2>1. /\ UNCHANGED <<phase, session, front, starts, mem, token>>
        /\ file' \in Config \cup {NoFile, Broken}
    BY <1>0, <1>7, ConfigFacts DEF SwitchRebuilds, onlyFile, Save
  <2>2. GateShape'
    BY <1>0, <2>1, FileTyped DEF Shape
  <2> QED BY <1>0, <1>4, <1>7, <2>2 DEF SwitchRebuilds, Shape, FileWritten
<1>8. CASE SwitchSwapsMain(s) \/ SwitchSwapsFallback(s)
  <2>1. agents' \in Agents
    BY <1>0, <1>8 DEF SwitchSwapsMain, SwitchSwapsFallback, Agents
  <2> QED BY <1>0, <1>4, <1>5, <1>8, <2>1
          DEF SwitchSwapsMain, SwitchSwapsFallback, besideSwitch, history, Shape
<1>9. CASE SwitchBegins(s) \/ SwitchAsksMain(s) \/ SwitchAsksFallback(s)
  BY <1>0, <1>4, <1>5, <1>9
     DEF SwitchBegins, SwitchAsksMain, SwitchAsksFallback, besideSwitch, history, Shape
<1> QED BY <1>6, <1>7, <1>8, <1>9 DEF Switched, SwitchStep

\* A rescan of the settings panel.
LEMMA RescanTyped ==
    ASSUME Shape, RescanAsked \/ SettingsRescan
    PROVE  Shape'
<1>0. /\ mem \in Config /\ agents \in Agents
      /\ file \in Config \cup {NoFile, Broken} /\ token \subseteq Bedrock
  BY DEF Shape, GateShape, TurnShape
<1>1. CASE RescanAsked
  BY <1>1 DEF RescanAsked, besideSwitch, history, gateVars, session, Shape, GateShape, TurnShape,
              LiveShape, SwitchAt
<1>2. CASE SettingsRescan
  <2>1. PICK found \in Finds : mem' = Merge(mem, found) /\ Save(mem')
    BY <1>2 DEF SettingsRescan
  <2>2. found \in SUBSET Provider
    BY GateAssumption
  <2>3. mem' \in Config
    BY <1>0, <2>1, <2>2, ConfigFacts
  <2>4. file' \in Config \cup {NoFile, Broken}
    BY <2>1, <2>3, ConfigFacts DEF Save
  <2>5. GateShape'
    BY <1>0, <1>2, <2>3, <2>4, FileTyped DEF SettingsRescan, Shape
  <2> QED BY <1>2, <2>5 DEF SettingsRescan, FileWritten, Shape, TurnShape, LiveShape, SwitchAt
<1> QED BY <1>1, <1>2

\* A tool of a turn, an edit of the user, or a step of the watcher.
LEMMA EditTyped ==
    ASSUME Shape,
           \/ \E c \in Chat : Rediscover(c) \/ ToolReads(c) \/ ToolWrites(c)
           \/ EditLimits \/ WatchBegins \/ Noticed \/ Drained \/ Reread \/ Swapped
    PROVE  Shape'
<1>0. /\ mem \in Config /\ turn \in [Chat -> Turning] /\ Activating /\ TooledUp
      /\ file \in Config \cup {NoFile, Broken} /\ token \subseteq Bedrock
      /\ agents \in Agents
      /\ tool \in [Chat -> [name : Provider \cup {None}, copy : Config]]
  BY DEF Shape, GateShape, LiveShape, TurnShape, Activating, TooledUp
<1>1. ASSUME UNCHANGED <<switch, limits, watch, read, overtook>>, agents' = agents,
             changed' \in BOOLEAN, unwatched' \in BOOLEAN,
             turn' \in [Chat -> Turning],
             tool' \in [Chat -> [name : Provider \cup {None}, copy : Config]],
             Activating', TooledUp'
      PROVE  TurnShape' /\ LiveShape'
  BY <1>1 DEF Shape, TurnShape, LiveShape, Activating, TooledUp, SwitchAt
<1>2. UNCHANGED gateVars => GateShape'
  BY DEF Shape, GateShape, gateVars, session
<1>3. ASSUME UNCHANGED onlyFile, file' \in Config \cup {NoFile, Broken} PROVE GateShape'
  BY <1>0, <1>3, FileTyped DEF onlyFile, Shape
<1>4. /\ changed \in BOOLEAN /\ unwatched \in BOOLEAN
      /\ FileWritten \/ FileKept => changed' \in BOOLEAN /\ unwatched' \in BOOLEAN
  BY DEF Shape, LiveShape, FileWritten, FileKept
<1>5. ASSUME NEW c \in Chat, Rediscover(c) PROVE Shape'
  <2>1. turn[c].calls > 0
    BY <1>0, <1>5 DEF Rediscover, TurnAt, Activating
  <2>2. /\ turn' \in [Chat -> Turning] /\ OtherTurns(c)
        /\ turn'[c].at \in {"tools", "asks"}
        /\ turn'[c].at = "tools" => turn'[c].calls > 0
    BY <1>0, <1>5, <2>1, CalledFacts DEF Rediscover
  <2>3. UNCHANGED <<onlyFile, agents, locks, switch, tool, limits, watch, read, overtook>>
    BY <1>5 DEF Rediscover
  <2>4. Activating' /\ TooledUp'
    BY <1>0, <2>2, <2>3 DEF Activating, TooledUp, OtherTurns
  <2>5. file' \in Config \cup {NoFile, Broken} /\ changed' \in BOOLEAN /\ unwatched' \in BOOLEAN
    <3>1. PICK found \in Finds :
            IF found \subseteq Load(file).providers THEN FileKept
            ELSE Save(Merge(Load(file), found)) /\ FileWritten
      BY <1>5 DEF Rediscover
    <3>2. found \in SUBSET Provider /\ Load(file) \in Config
      BY <1>0, <1>5, GateAssumption, ConfigFacts DEF Rediscover
    <3>3. Merge(Load(file), found) \in Config
      BY <3>2, ConfigFacts
    <3> QED BY <1>0, <1>4, <3>1, <3>3, ConfigFacts DEF Save, FileKept
  <2> QED BY <1>0, <1>1, <1>3, <2>2, <2>3, <2>4, <2>5 DEF Shape
<1>6. ASSUME NEW c \in Chat, ToolReads(c) PROVE Shape'
  <2>1. /\ turn' \in [Chat -> Turning] /\ OtherTurns(c)
        /\ turn'[c].at = "activates" /\ turn'[c].calls = turn[c].calls
    BY <1>0, <1>6, TurnGoesFacts DEF ToolReads, Wheres
  <2>2. PICK p \in Load(file).providers :
          tool' = [tool EXCEPT ![c] = [name |-> p, copy |-> Load(file)]]
    BY <1>6 DEF ToolReads
  <2>3. Load(file) \in Config /\ p \in Provider
    BY <1>0, <1>6, <2>2, ConfigFacts DEF ToolReads, Config
  <2>4. /\ tool' \in [Chat -> [name : Provider \cup {None}, copy : Config]]
        /\ tool'[c].name \in Provider /\ \A d \in Chat : d # c => tool'[d] = tool[d]
    <3> DEFINE x == [name |-> p, copy |-> Load(file)]
    <3>1. x \in [name : Provider \cup {None}, copy : Config] /\ x.name \in Provider
      BY <2>3
    <3>2. tool' = [tool EXCEPT ![c] = x]
      BY <2>2
    <3> HIDE DEF x
    <3> QED BY <1>0, <3>1, <3>2
  <2>5. Activating' /\ TooledUp'
    BY <1>0, <1>6, <2>1, <2>4 DEF ToolReads, TurnAt, Activating, TooledUp, OtherTurns
  <2> QED BY <1>0, <1>1, <1>2, <1>4, <1>6, <2>1, <2>4, <2>5 DEF ToolReads, history, Shape
<1>7. ASSUME NEW c \in Chat, ToolWrites(c) PROVE Shape'
  <2>1. turn[c].calls > 0 /\ tool[c].name \in Provider /\ tool[c].copy \in Config
    BY <1>0, <1>7 DEF ToolWrites, TurnAt, Activating, TooledUp
  <2>2. /\ turn' \in [Chat -> Turning] /\ OtherTurns(c)
        /\ turn'[c].at \in {"tools", "asks"}
        /\ turn'[c].at = "tools" => turn'[c].calls > 0
    BY <1>0, <1>7, <2>1, CalledFacts DEF ToolWrites
  <2>3. /\ tool' \in [Chat -> [name : Provider \cup {None}, copy : Config]]
        /\ \A d \in Chat : d # c => tool'[d] = tool[d]
    <3>1. NoTool \in [name : Provider \cup {None}, copy : Config]
      BY ConfigFacts DEF NoTool
    <3> HIDE DEF NoTool
    <3> QED BY <1>0, <1>7, <3>1 DEF ToolWrites
  <2>4. Activating' /\ TooledUp'
    BY <1>0, <2>2, <2>3 DEF Activating, TooledUp, OtherTurns
  <2>5. file' \in Config \cup {NoFile, Broken} /\ changed' \in BOOLEAN /\ unwatched' \in BOOLEAN
    BY <1>0, <1>4, <1>7, <2>1, ConfigFacts DEF ToolWrites, Save, FileKept
  <2> QED BY <1>0, <1>1, <1>3, <1>7, <2>2, <2>3, <2>4, <2>5 DEF ToolWrites, Shape
<1>8. CASE EditLimits
  <2>1. PICK n \in Limits : file' = [Load(file) EXCEPT !.limits = n]
    BY <1>8 DEF EditLimits
  <2>2. file' \in Config
    BY <1>0, <1>8, <2>1, ConfigFacts DEF EditLimits
  <2>3. UNCHANGED <<switch, limits, watch, read, agents, turn, tool, overtook>>
        /\ UNCHANGED onlyFile
    BY <1>8 DEF EditLimits, turnVars
  <2>4. Activating' /\ TooledUp'
    BY <1>0, <2>3 DEF Activating, TooledUp
  <2> QED BY <1>0, <1>1, <1>3, <1>4, <1>8, <2>2, <2>3, <2>4 DEF EditLimits, Shape
<1>9. CASE WatchBegins \/ Noticed \/ Drained \/ Reread \/ Swapped
  <2>1. UNCHANGED gateVars /\ UNCHANGED <<agents, turn, switch, tool, unwatched, overtook>>
    BY <1>9 DEF WatchBegins, Noticed, Drained, Reread, Swapped, WatchStep, turnVars, history
  <2>2. watch' \in {"off", "recv", "debounce", "load", "swap"} /\ changed' \in BOOLEAN
    BY <1>4, <1>9 DEF WatchBegins, Noticed, Drained, Reread, Swapped, WatchStep
  <2>3. read' \in Limits /\ limits' \in Limits
    <3>1. read \in Limits /\ limits \in Limits
      BY DEF Shape, LiveShape
    <3>2. Loads(file) => Load(file).limits \in Limits
      BY <1>0, ConfigFacts DEF Config
    <3> QED BY <1>9, <3>1, <3>2 DEF WatchBegins, Noticed, Drained, Reread, Swapped
  <2> QED BY <1>2, <2>1, <2>2, <2>3 DEF Shape, TurnShape, LiveShape, SwitchAt
<1> QED BY <1>5, <1>6, <1>7, <1>8, <1>9

LEMMA FirstTyped ==
    ASSUME LiveInit
    PROVE  Shape
<1> USE StateFacts, ConfigFacts
<1>1. GateShape
  <2>1. file \in Config \cup {NoFile, Broken}
    BY GateAssumption DEF LiveInit, Opening, GateOpening
  <2>2. /\ \A o \in Task : task[o] = Unused
        /\ task \in [Task -> Tasks] /\ front \in [Front -> Fronts]
    BY DEF LiveInit, Opening, GateOpening
  <2>3. Unused.pc = "unused"
    BY DEF Unused
  <2> QED BY <2>1, <2>2, <2>3 DEF LiveInit, Opening, GateOpening, GateShape
<1>2. TurnShape
  <2>1. agents = NoAgents /\ turn = [c \in Chat |-> Unbegun]
    BY DEF LiveInit, Opening, TurnInit
  <2> QED BY <2>1, NoneActive, EndedFacts DEF TurnShape
<1>3. LiveShape
  <2>1. NoTool \in [name : Provider \cup {None}, copy : Config]
    BY DEF NoTool
  <2>2. \A c \in Chat : turn[c].at = "unbegun"
    BY EndedFacts DEF LiveInit, Opening, TurnInit
  <2> HIDE DEF NoTool
  <2> QED BY <2>1, <2>2, NoneActive, ProviderAssumption DEF LiveInit, Opening, LiveShape, SwitchAt
<1> QED BY <1>1, <1>2, <1>3 DEF Shape

\* A start or the hand-over leaves types as they are.
LEMMA BootTyped ==
    ASSUME Shape, Killed \/ Boot
    PROVE  Shape'
<1>1. GateShape' /\ mem' \in Config
  <2>1. GateShape'
    BY StartTyped DEF Shape, Killed, Boot
  <2> QED BY <2>1 DEF GateShape
<1>2. Boots => /\ agents' \in Agents /\ limits' \in Limits /\ watch' = "off"
               /\ unwatched' = FALSE /\ overtook' = FALSE
  BY <1>1, BuiltFacts DEF Boots
<1>3. CASE Killed
  <2>1. /\ agents' \in Agents /\ limits' \in Limits /\ watch' = "off"
        /\ unwatched' = FALSE /\ overtook' = FALSE
    BY <1>2, <1>3, NoneActive, ProviderAssumption DEF Killed
  <2>2. turn' \in [Chat -> Turning] /\ \A c \in Chat : turn'[c].at \in {"unbegun", "ended"}
    BY <1>3, EndedFacts DEF Killed
  <2>3. tool' \in [Chat -> [name : Provider \cup {None}, copy : Config]]
    <3>1. NoTool \in [name : Provider \cup {None}, copy : Config]
      BY ConfigFacts DEF NoTool
    <3> HIDE DEF NoTool
    <3> QED BY <1>3, <3>1 DEF Killed
  <2> QED BY <1>1, <1>3, <2>1, <2>2, <2>3, NoneActive
          DEF Killed, Shape, TurnShape, LiveShape, SwitchAt
<1>4. CASE Boot
  BY <1>1, <1>2, <1>4 DEF Boot, Shape, TurnShape, LiveShape, SwitchAt
<1> QED BY <1>3, <1>4

LEMMA ShapeStep ==
    ASSUME Shape, [LiveNext]_vars
    PROVE  Shape'
<1>1. CASE Killed \/ Boot
  BY <1>1, BootTyped
<1>2. CASE Beside(GateStep)
  <2>1. GateShape'
    BY <1>2, GateTyped DEF Beside, Shape
  <2> QED BY <1>2, <2>1 DEF Beside, Shape, TurnShape, LiveShape, FileWritten, turnVars, SwitchAt
<1>3. CASE \/ \E s \in Switcher : Switched(s)
           \/ RescanAsked \/ SettingsRescan
  BY <1>3, SwitchTyped, RescanTyped
<1>4. CASE Turns
  <2>1. PICK c \in Chat : Turned(c)
    BY <1>4 DEF Turns, Turned
  <2>2. TurnShape' /\ OtherTurns(c) /\ turn'[c].at # "activates"
    BY <2>1, TurnTyped DEF Shape
  <2>3. UNCHANGED <<gateVars, switch, tool, limits, watch, read, changed, unwatched, overtook>>
    BY <1>4 DEF Turns, history
  <2> QED BY <2>2, <2>3 DEF Shape, GateShape, LiveShape, OtherTurns, gateVars, session, SwitchAt
<1>5. CASE \/ \E c \in Chat : Rediscover(c) \/ ToolReads(c) \/ ToolWrites(c)
           \/ EditLimits \/ WatchBegins \/ Noticed \/ Drained \/ Reread \/ Swapped
  BY <1>5, EditTyped
<1>6. CASE UNCHANGED vars
  BY <1>6 DEF Shape, GateShape, TurnShape, LiveShape, vars, live, gateVars, session, turnVars,
              history, SwitchAt
<1> QED BY <1>1, <1>2, <1>3, <1>4, <1>5, <1>6 DEF LiveNext, Switched

LEMMA ShapeAlways == LiveSpec => []Shape
<1>1. LiveInit => Shape
  BY FirstTyped
<1>2. Shape /\ [LiveNext]_vars => Shape'
  BY ShapeStep
<1> QED BY <1>1, <1>2, PTL DEF LiveSpec

\* The setup session, the live configuration and the turns are what their
\* types say, whatever providers, files and numbers of tasks there are.
THEOREM ConfigTypeCorrect == LiveSpec => []ConfigTypeOK
<1>1. Shape => ConfigTypeOK
  BY DEF Shape, GateShape, TurnShape, LiveShape, ConfigTypeOK, GateTypeOK, TurnTypeOK,
         Tasks, Steps, Fronts, Turning, Agents, Switching, Places
<1> QED BY <1>1, ShapeAlways, PTL

-----------------------------------------------------------------------------
(* What a step of a scan or a selection does to what is published and to   *)
(* what is saved.                                                          *)

LEMMA Distinct ==
    /\ Failed # Loading /\ Ready # Loading
    /\ \A found : Needs(found) # Loading
BY DEF Failed, Ready, Loading, Needs

\* The scan will publish another state than Loading.
Pending(o) ==
    /\ task[o].kind = "scan"
    /\ \/ task[o].pc \in {"publish", "copy", "scan", "activate", "login", "choose", "save"}
       \/ task[o].pc = "send" /\ task[o].out = Loading

\* Only a scan publishes Loading, and goes on.
Honest(o) ==
    task[o].pc \in {"publish", "send"} /\ task[o].out = Loading =>
        task[o].kind = "scan" /\ task[o].then \in {"copy", "activate"}

SendingReady(o) == At(o, "send") /\ task[o].out = Ready

\* Who sends a state sends it to every subscriber.
Announced(o) == \A f \in Front : front[f].at \in {"subscribed", "setup"} =>
                    front'[f].rx = Append(front[f].rx, task[o].out)
SameAt == \A f \in Front : front'[f].at = front[f].at

LEMMA TaskEffect ==
    ASSUME GateShape, NEW o \in Task, TaskStep(o), Honest(o)
    PROVE  /\ Others(o) /\ phase' = phase /\ Honest(o)'
           /\ Pending(o) => Pending(o)' \/ state' # Loading
           /\ \/ state' = state
              \/ /\ At(o, "publish") /\ state' = task[o].out
                 /\ At(o, "send")' /\ task'[o].out = task[o].out /\ task'[o].kind = task[o].kind
           /\ file' = file \/ file' = Written(config')
           /\ \/ UNCHANGED <<file, config>>
              \/ At(o, "save")'
              \/ file' = Written(config')
           /\ At(o, "save") => file' = Written(config')
           /\ \/ front' = front /\ ~At(o, "send")
              \/ At(o, "send") /\ state' = state /\ SameAt /\ Announced(o)
<1> USE StateFacts, Distinct
<1>0. /\ task \in [Task -> Tasks]
      /\ task[o].out \in SetupState /\ task[o].copy \in Config /\ task[o].found \in SUBSET Provider
      /\ task[o].then \in {"end", "copy", "activate", "notify"} /\ task[o].kind \in {"scan", "select"}
  BY DEF GateShape, Tasks
<1> HIDE DEF Loading, Ready, Failed, Needs
<1>1. CASE Publish(o)
  <2>1. /\ Others(o) /\ task'[o].pc = "send" /\ task'[o].kind = task[o].kind
        /\ task'[o].out = task[o].out /\ task'[o].then = task[o].then
    BY <1>0, <1>1, GoesFacts DEF Publish, Steps
  <2> QED BY <1>1, <2>1 DEF Publish, At, Honest, Pending
<1>2. CASE SendState(o)
  <2>1. /\ Others(o) /\ task'[o].pc = task[o].then
        /\ task[o].then # "end" => task'[o].kind = task[o].kind
    <3>1. task[o].then \in Steps
      BY <1>0 DEF Steps
    <3> QED BY <1>0, <1>2, <3>1, GoesFacts DEF SendState
  <2>2. Announced(o) /\ SameAt
    BY <1>2 DEF SendState, Subscribed, Announced, SameAt, GateShape, Fronts
  <2> QED BY <1>0, <1>2, <2>1, <2>2 DEF SendState, At, Honest, Pending
<1>3. CASE Copy(o)
  <2> DEFINE x == [task[o] EXCEPT !.pc = "scan", !.copy = config]
  <2>1. x.pc = "scan" /\ x.kind = task[o].kind
    BY <1>0 DEF Tasks
  <2>2. task' = [task EXCEPT ![o] = x]
    BY <1>3 DEF Copy
  <2> HIDE DEF x
  <2>3. Others(o) /\ task'[o].pc = "scan" /\ task'[o].kind = task[o].kind
    BY <1>0, <2>1, <2>2 DEF Others
  <2> QED BY <1>3, <2>3 DEF Copy, At, Honest, Pending
<1>4. CASE ScanPanics(o)
  <2>1. /\ Others(o) /\ task'[o].pc = "publish" /\ task'[o].kind = task[o].kind
        /\ task'[o].out = Failed
    BY <1>0, <1>4, PublishingFacts DEF ScanPanics, Fail
  <2> QED BY <1>4, <2>1 DEF ScanPanics, At, Honest, Pending
<1>5. CASE ScanReturns(o)
  <2>1. PICK found \in Finds :
          /\ config' = Merge(task[o].copy, found)
          /\ Save(config')
          /\ IF found = {} THEN Fail(o)
             ELSE IF Obvious(found) = {} THEN Publishing(o, Needs(found), "end")
             ELSE Obvious1(o, found)
    BY <1>5 DEF ScanReturns, Obvious1
  <2>2. found \in SUBSET Provider
    BY GateAssumption
  <2>3. /\ Others(o) /\ task'[o].pc = "publish"
        /\ \/ task'[o].kind = task[o].kind /\ task'[o].out # Loading
           \/ task'[o].kind = "scan" /\ task'[o].then = "activate"
    BY <1>0, <2>1, <2>2, PublishingFacts, ObviousFacts DEF Fail
  <2> QED BY <1>5, <2>1, <2>3 DEF ScanReturns, Save, At, Honest, Pending
<1>6. CASE Activate(o)
  <2>2. \/ Fail(o) /\ UNCHANGED <<config, lock>>
        \/ Goes(o, "save")
        \/ UNCHANGED config /\ (Goes(o, "choose") \/ Goes(o, "login"))
    BY <1>6 DEF Activate
  <2>3. /\ Others(o)
        /\ task'[o].kind = task[o].kind
        /\ \/ task'[o].pc = "publish" /\ task'[o].out = Failed /\ UNCHANGED config
           \/ task'[o].pc = "save"
           \/ task'[o].pc \in {"choose", "login"} /\ UNCHANGED config
    BY <1>0, <2>2, PublishingFacts, GoesFacts DEF Fail, Steps
  <2> QED BY <1>6, <2>3 DEF Activate, At, Honest, Pending
<1>7. CASE Login(o)
  <2>1. /\ Others(o) /\ task'[o].kind = task[o].kind
        /\ \/ task'[o].pc = "publish" /\ task'[o].out = Failed
           \/ task'[o].pc = "choose"
    BY <1>0, <1>7, PublishingFacts, GoesFacts DEF Login, Fail, Steps
  <2> QED BY <1>7, <2>1 DEF Login, At, Honest, Pending
<1>8. CASE Choose(o)
  <2>1. /\ Others(o)
        /\ \/ /\ task'[o].pc = "publish" /\ task'[o].out # Loading
              /\ task'[o].kind = task[o].kind
           \/ task'[o].pc = "end" /\ task[o].kind # "scan"
    BY <1>0, <1>8, PublishingFacts, GoesFacts DEF Choose, Fail, Steps
  <2> QED BY <1>8, <2>1 DEF Choose, At, Honest, Pending
<1>9. CASE Persist(o)
  <2>1. /\ Others(o)
        /\ \/ /\ task'[o].pc = "publish" /\ task'[o].out # Loading
              /\ task'[o].kind = task[o].kind
           \/ task'[o].pc = "end" /\ task[o].kind # "scan"
    BY <1>0, <1>9, PublishingFacts, GoesFacts DEF Persist, Steps
  <2> QED BY <1>9, <2>1 DEF Persist, Save, At, Honest, Pending
<1>10. CASE WakeAccept(o)
  <2>1. Others(o) /\ task'[o].pc = "end"
    BY <1>0, <1>10, GoesFacts DEF WakeAccept, Steps
  <2> QED BY <1>10, <2>1 DEF WakeAccept, At, Honest, Pending
<1> QED BY <1>1, <1>2, <1>3, <1>4, <1>5, <1>6, <1>7, <1>8, <1>9, <1>10 DEF TaskStep

\* Ready is among what a terminal has been sent.
HasReady(f) == \E i \in DOMAIN front[f].rx : front[f].rx[i] = Ready
Informed(f) == front[f].at = "setup" => HasReady(f)

\* A terminal on the setup screen knows or will be told, if state is Ready.
LEMMA FrontEffect ==
    ASSUME GateShape, NEW f \in Front, FrontStep(f) \/ UserStep(f)
    PROVE  /\ UNCHANGED <<phase, state, file, config>>
           /\ \A o \in Task : task'[o] = task[o] \/ (task[o].pc = "unused" /\ Honest(o)')
           /\ \A g \in Front : g # f => front'[g] = front[g]
           /\ state = Ready /\ Informed(f) => Informed(f)'
<1>0. /\ front \in [Front -> Fronts] /\ task \in [Task -> Tasks] /\ state \in SetupState
      /\ front[f] \in Fronts /\ Out.at = "out"
  BY DEF GateShape, Out
<1> DEFINE Frame == UNCHANGED <<phase, file, session, token, mem, starts>>
           Apart == \A g \in Front : g # f => front'[g] = front[g]
<1>1. ASSUME Frame, Apart, state = Ready /\ Informed(f) => Informed(f)'
      PROVE  /\ UNCHANGED <<phase, state, file, config>>
             /\ \A o \in Task : task'[o] = task[o] \/ (task[o].pc = "unused" /\ Honest(o)')
             /\ \A g \in Front : g # f => front'[g] = front[g]
             /\ state = Ready /\ Informed(f) => Informed(f)'
  BY <1>1 DEF session
<1>2. ASSUME NEW at \in {"out", "probed", "accepted", "subscribed", "board", "live", "astray"},
             Moves(f, at)
      PROVE  Apart /\ Informed(f)'
  <2>1. Apart /\ front'[f].at = at
    BY <1>0, <1>2 DEF Moves, Fronts
  <2> QED BY <2>1 DEF Informed
<1>3. ASSUME NEW s \in SetupState, NEW rest, Shown(f, s, rest)
      PROVE  /\ Apart
             /\ s = Ready => front'[f].at = "out"
             /\ s # Ready => front'[f].rx = rest
  BY <1>0, <1>3 DEF Shown, Fronts
<1>4. CASE Probe(f)
  <2>1. Frame /\ (Moves(f, "board") \/ Moves(f, "probed"))
    BY <1>4 DEF Probe
  <2> QED BY <1>1, <1>2, <2>1
<1>5. CASE Connect(f)
  <2>1. Frame /\ (Moves(f, "accepted") \/ Moves(f, "astray") \/ Moves(f, "out"))
    BY <1>5 DEF Connect
  <2> QED BY <1>1, <1>2, <2>1
<1>6. CASE EnterBoard(f)
  <2>1. Frame /\ (Moves(f, "live") \/ Moves(f, "astray") \/ Moves(f, "out"))
    BY <1>6 DEF EnterBoard
  <2> QED BY <1>1, <1>2, <2>1
<1>7. CASE Subscribe(f)
  <2>1. Frame /\ Apart /\ front'[f].at = "subscribed"
    BY <1>0, <1>7 DEF Subscribe, Fronts
  <2> QED BY <1>1, <2>1 DEF Informed
<1>8. CASE SendCurrent(f)
  <2>1. Frame /\ Shown(f, state, front[f].rx)
    BY <1>8 DEF SendCurrent
  <2> QED BY <1>0, <1>1, <1>3, <2>1 DEF Informed
<1>9. CASE Receive(f)
  <2>1. /\ Frame /\ Shown(f, Head(front[f].rx), Tail(front[f].rx))
        /\ front[f].rx \in Seq(SetupState) /\ front[f].rx # <<>> /\ front[f].at = "setup"
    BY <1>0, <1>9 DEF Receive, Idle, Fronts
  <2>2. /\ Head(front[f].rx) \in SetupState /\ Head(front[f].rx) = front[f].rx[1]
        /\ Tail(front[f].rx) \in Seq(SetupState)
        /\ Len(Tail(front[f].rx)) = Len(front[f].rx) - 1
        /\ \A i \in 1 .. Len(Tail(front[f].rx)) : Tail(front[f].rx)[i] = front[f].rx[i + 1]
    BY <2>1, HeadTailProperties
  <2>3. CASE Head(front[f].rx) = Ready
    BY <1>1, <1>3, <2>1, <2>2, <2>3 DEF Informed
  <2>4. CASE Head(front[f].rx) # Ready
    <3>1. Apart /\ front'[f].rx = Tail(front[f].rx)
      BY <1>3, <2>1, <2>2, <2>4
    <3>2. ASSUME HasReady(f) PROVE HasReady(f)'
      <4>1. PICK i \in DOMAIN front[f].rx : front[f].rx[i] = Ready
        BY <3>2 DEF HasReady
      <4>2. i \in 1 .. Len(front[f].rx) /\ i # 1 /\ Len(front[f].rx) \in Nat
        BY <2>1, <2>2, <2>4, <4>1
      <4> DEFINE n == Len(front[f].rx)
                 m == Len(Tail(front[f].rx))
      <4>3. PICK j \in 1 .. m : j + 1 = i
        <5>1. n \in Nat /\ i \in 1 .. n /\ i # 1 /\ m = n - 1
          BY <2>2, <4>2
        <5> HIDE DEF n, m
        <5>2. i - 1 \in 1 .. m /\ (i - 1) + 1 = i
          BY <5>1
        <5> QED BY <5>2
      <4>4. j \in DOMAIN front'[f].rx /\ front'[f].rx[j] = Ready
        BY <2>2, <3>1, <4>1, <4>3
      <4> QED BY <4>4 DEF HasReady
    <3> QED BY <1>1, <2>1, <3>1, <3>2 DEF Informed
  <2> QED BY <2>3, <2>4
<1>10. CASE ReadAnswer(f)
  <2>1. /\ Frame /\ Apart /\ front'[f].at = front[f].at /\ front'[f].rx = front[f].rx
    BY <1>0, <1>10 DEF ReadAnswer, Fronts
  <2> QED BY <1>1, <2>1 DEF Informed, HasReady
<1>11. CASE Select(f)
  <2>1. PICK o \in Task, p \in front[f].seen.offer :
          /\ Unspent(o)
          /\ task' = [task EXCEPT ![o].pc = "activate", ![o].kind = "select", ![o].name = p]
          /\ front' = [front EXCEPT ![f].asked = o]
    BY <1>11 DEF Select
  <2>2. task[o].pc = "unused" /\ task[o] \in Tasks
    BY <1>0, <2>1 DEF Unspent, At
  <2> DEFINE x == [task[o] EXCEPT !.pc = "activate", !.kind = "select", !.name = p]
  <2>3. x.pc = "activate" /\ task' = [task EXCEPT ![o] = x]
    BY <2>1, <2>2 DEF Tasks
  <2> HIDE DEF x
  <2>4. Others(o) /\ task'[o].pc = "activate"
    BY <1>0, <2>3 DEF Others
  <2>5. Apart /\ front'[f].at = front[f].at /\ front'[f].rx = front[f].rx
    BY <1>0, <2>1 DEF Fronts
  <2> QED BY <1>11, <2>2, <2>4, <2>5 DEF Select, Others, Honest, Informed, HasReady
<1>12. CASE Rescan(f)
  <2>1. PICK o \in Task : Unspent(o) /\ task' = [task EXCEPT ![o] = ScanTask]
    BY <1>12 DEF Rescan
  <2>2. /\ task[o].pc = "unused" /\ Others(o) /\ task'[o].kind = "scan"
        /\ task'[o].then = "copy"
    BY <1>0, <2>1 DEF Unspent, At, Others, ScanTask, Unused
  <2> QED BY <1>12, <2>2 DEF Rescan, Others, Honest, Informed, HasReady
<1>13. CASE Quit(f)
  <2>1. Frame /\ Apart /\ front'[f].at = "out"
    BY <1>0, <1>13 DEF Quit
  <2> QED BY <1>1, <2>1 DEF Informed
<1> QED BY <1>4, <1>5, <1>6, <1>7, <1>8, <1>9, <1>10, <1>11, <1>12, <1>13
        DEF FrontStep, UserStep

-----------------------------------------------------------------------------
(* Nobody misses the end of the setup, and nothing ends at the splash.     *)

Told == \A f \in Front : state = Ready => Informed(f) \/ \E o \in Task : SendingReady(o)

GateInv ==
    /\ \A o \in Task : Honest(o)
    /\ phase = "setup" /\ state = Loading => \E o \in Task : Pending(o)
    /\ Told

LEMMA GateInvStep ==
    ASSUME GateShape, GateInv, GateStep
    PROVE  GateInv'
<1>1. CASE CloseSetup
  BY <1>1 DEF CloseSetup, GateInv, Honest, Told, Informed, HasReady, SendingReady, At
<1>2. ASSUME NEW o \in Task, TaskStep(o) PROVE GateInv'
  <2>1. /\ Others(o) /\ phase' = phase /\ Honest(o)'
        /\ Pending(o) => Pending(o)' \/ state' # Loading
        /\ \/ state' = state
           \/ /\ At(o, "publish") /\ state' = task[o].out
              /\ At(o, "send")' /\ task'[o].out = task[o].out /\ task'[o].kind = task[o].kind
        /\ \/ front' = front /\ ~At(o, "send")
           \/ At(o, "send") /\ state' = state /\ SameAt /\ Announced(o)
        /\ Honest(o)
    BY <1>2, TaskEffect DEF GateInv
  <2>2. \A n \in Task : Honest(n)'
    BY <2>1 DEF GateInv, Others, Honest
  <2>3. ASSUME phase' = "setup", state' = Loading PROVE \E n \in Task : Pending(n)'
    <3>1. CASE state' = state
      <4>1. PICK n \in Task : Pending(n)
        BY <2>1, <2>3, <3>1 DEF GateInv
      <4> QED BY <2>1, <2>3, <4>1 DEF Others, Pending
    <3>2. CASE state' # state
      <4>1. Pending(o)'
        BY <2>1, <2>3, <3>2 DEF Honest, Pending, At
      <4> QED BY <4>1
    <3> QED BY <3>1, <3>2
  <2>4. ASSUME NEW f \in Front, state' = Ready
        PROVE  Informed(f)' \/ \E n \in Task : SendingReady(n)'
    <3>1. CASE state' # state
      <4>1. SendingReady(o)'
        BY <2>1, <2>4, <3>1 DEF SendingReady, At
      <4> QED BY <4>1
    <3>2. CASE state' = state /\ front' = front /\ ~At(o, "send")
      <4>1. ASSUME NEW n \in Task, SendingReady(n) PROVE SendingReady(n)'
        BY <2>1, <3>2, <4>1 DEF SendingReady, At, Others
      <4>2. Informed(f) => Informed(f)'
        BY <3>2 DEF Informed, HasReady
      <4> QED BY <2>4, <3>2, <4>1, <4>2 DEF GateInv, Told
    <3>3. CASE state' = state /\ SameAt /\ Announced(o)
      <4>1. CASE front[f].at # "setup"
        BY <3>3, <4>1 DEF SameAt, Informed
      <4>2. CASE front[f].at = "setup"
        <5>1. /\ front'[f].rx = Append(front[f].rx, task[o].out)
              /\ front[f].rx \in Seq(SetupState) /\ task[o].out \in SetupState
          BY <3>3, <4>2 DEF Announced, GateShape, Fronts, Tasks
        <5>2. /\ Len(front'[f].rx) = Len(front[f].rx) + 1 /\ Len(front[f].rx) \in Nat
              /\ front'[f].rx \in Seq(SetupState)
              /\ \A i \in 1 .. Len(front[f].rx) : front'[f].rx[i] = front[f].rx[i]
              /\ front'[f].rx[Len(front[f].rx) + 1] = task[o].out
          BY <5>1
        <5>3. CASE Informed(f)
          <6>1. PICK i \in DOMAIN front[f].rx : front[f].rx[i] = Ready
            BY <4>2, <5>3 DEF Informed, HasReady
          <6>2. i \in DOMAIN front'[f].rx /\ front'[f].rx[i] = Ready
            BY <5>1, <5>2, <6>1
          <6> QED BY <6>2 DEF Informed, HasReady
        <5>4. CASE SendingReady(o)
          <6>1. Len(front[f].rx) + 1 \in DOMAIN front'[f].rx
            BY <5>2
          <6>2. front'[f].rx[Len(front[f].rx) + 1] = Ready
            BY <5>2, <5>4 DEF SendingReady
          <6> QED BY <6>1, <6>2 DEF Informed, HasReady
        <5>5. CASE \E n \in Task : n # o /\ SendingReady(n)
          BY <2>1, <5>5 DEF SendingReady, At, Others
        <5> QED BY <2>4, <3>3, <5>3, <5>4, <5>5 DEF GateInv, Told
      <4> QED BY <4>1, <4>2
    <3> QED BY <2>1, <3>1, <3>2, <3>3
  <2> QED BY <2>2, <2>3, <2>4 DEF GateInv, Told
<1>3. ASSUME NEW f \in Front, FrontStep(f) \/ UserStep(f) PROVE GateInv'
  <2>1. /\ UNCHANGED <<phase, state>>
        /\ \A o \in Task : task'[o] = task[o] \/ (task[o].pc = "unused" /\ Honest(o)')
        /\ \A g \in Front : g # f => front'[g] = front[g]
        /\ state = Ready /\ Informed(f) => Informed(f)'
    BY <1>3, FrontEffect
  <2>2. \A o \in Task : Pending(o) => Pending(o)'
    BY <2>1 DEF Pending
  <2>3. \A o \in Task : SendingReady(o) => SendingReady(o)'
    BY <2>1 DEF SendingReady, At
  <2>4. \A o \in Task : Honest(o)'
    BY <2>1 DEF GateInv, Honest
  <2>5. ASSUME NEW g \in Front, state = Ready, Informed(g) PROVE Informed(g)'
    BY <2>1, <2>5 DEF Informed, HasReady
  <2> QED BY <2>1, <2>2, <2>3, <2>4, <2>5 DEF GateInv, Told
<1> QED BY <1>1, <1>2, <1>3 DEF GateStep

\* The steps of a dispatcher that runs.
Beyond ==
    \/ \E s \in Switcher : Switched(s)
    \/ RescanAsked \/ SettingsRescan
    \/ Turns \/ \E c \in Chat : Rediscover(c) \/ ToolReads(c) \/ ToolWrites(c)
    \/ EditLimits \/ WatchBegins \/ Noticed \/ Drained \/ Reread \/ Swapped

LEMMA NextCases == LiveNext <=> Killed \/ Boot \/ Beside(GateStep) \/ Beyond
BY DEF LiveNext, Beyond, Switched

LEMMA BeyondKeeps == Beyond => UNCHANGED <<phase, session, front>>
<1>1. ASSUME NEW s \in Switcher, Switched(s) PROVE UNCHANGED <<phase, session, front>>
  BY <1>1 DEF Switched, SwitchStep, SwitchBegins, SwitchActivates, SwitchRebuilds,
       SwitchAsksMain, SwitchSwapsMain, SwitchAsksFallback, SwitchSwapsFallback, besideSwitch,
       gateVars, onlyFile
<1>2. ASSUME NEW c \in Chat, Rediscover(c) \/ ToolReads(c) \/ ToolWrites(c)
      PROVE  UNCHANGED <<phase, session, front>>
  BY <1>2 DEF Rediscover, ToolReads, ToolWrites, gateVars, onlyFile
<1>3. CASE RescanAsked \/ SettingsRescan \/ Turns \/ EditLimits
  BY <1>3 DEF RescanAsked, SettingsRescan, Turns, EditLimits, besideSwitch, gateVars, onlyFile
<1>4. CASE WatchBegins \/ Noticed \/ Drained \/ Reread \/ Swapped
  BY <1>4 DEF WatchBegins, Noticed, Drained, Reread, Swapped, WatchStep, gateVars
<1> QED BY <1>1, <1>2, <1>3, <1>4 DEF Beyond

\* A start: one scan, or none when there is no session.
LEMMA StartEffect ==
    ASSUME Restart
    PROVE  /\ state' = Loading /\ config' \in {Load(file), DefaultConfig} /\ mem' = config'
           /\ Loads(file) => config' = Load(file)
           /\ UNCHANGED file
           /\ \A o \in Task : task'[o] \in {ScanTask, Unused}
           /\ phase' = "setup" => task'[0] = ScanTask /\ Loads(file)
           /\ phase' = "live" => Loads(file)
<1>1. Started(file) /\ UNCHANGED file /\ 0 \in Task
  BY GateAssumption DEF Restart, Task
<1> QED BY <1>1 DEF Started

LEMMA GateInvAlways == LiveSpec => []GateInv
<1>0. Ready # Loading /\ Unused.pc = "unused" /\ Unused.kind = "scan"
  BY DEF Ready, Loading, Unused
<1>1. LiveInit => GateInv
  <2> SUFFICES ASSUME LiveInit PROVE GateInv
    OBVIOUS
  <2>1. state = Loading /\ phase = "down" /\ \A o \in Task : task[o] = Unused
    BY DEF LiveInit, Opening, GateOpening
  <2> QED BY <1>0, <2>1 DEF GateInv, Honest, Told
<1>2. GateInv /\ Shape /\ [LiveNext]_vars => GateInv'
  <2> SUFFICES ASSUME GateInv, Shape, [LiveNext]_vars PROVE GateInv'
    OBVIOUS
  <2>1. ASSUME UNCHANGED <<phase, session, front>> PROVE GateInv'
    BY <2>1 DEF GateInv, Honest, Pending, Told, Informed, HasReady, SendingReady, At, session
  <2>2. CASE Killed
    <3>1. /\ state' = Loading /\ \A o \in Task : task'[o] \in {ScanTask, Unused}
          /\ phase' = "setup" => task'[0] = ScanTask
      BY <2>2, StartEffect DEF Killed
    <3>2. /\ ScanTask.pc = "publish" /\ ScanTask.kind = "scan" /\ ScanTask.then = "copy"
          /\ 0 \in Task
      BY GateAssumption DEF ScanTask, Unused, Task
    <3> HIDE DEF ScanTask, Unused
    <3>3. \A o \in Task : Honest(o)'
      BY <1>0, <3>1, <3>2 DEF Honest
    <3>4. phase' = "setup" => Pending(0)'
      BY <3>1, <3>2 DEF Pending
    <3> QED BY <1>0, <3>1, <3>2, <3>3, <3>4 DEF GateInv, Told
  <2>3. CASE Boot
    BY <2>3 DEF Boot, GoLive, GateInv, Honest, Told, Informed, HasReady, SendingReady, At, session
  <2>4. CASE Beside(GateStep)
    BY <2>4, GateInvStep DEF Beside, Shape
  <2>5. CASE Beyond
    BY <2>1, <2>5, BeyondKeeps
  <2>6. CASE UNCHANGED vars
    BY <2>1, <2>6 DEF vars, gateVars
  <2> QED BY <2>2, <2>3, <2>4, <2>5, <2>6, NextCases
<1> QED BY <1>1, <1>2, ShapeAlways, PTL DEF LiveSpec

\* No terminal that watches the setup misses its end, however many scans and
\* selections publish beside each other and whenever it subscribes.
THEOREM ReadyIsHeard == LiveSpec => []ReadyNotMissed
<1>1. GateInv => ReadyNotMissed
  BY DEF GateInv, Told, Informed, HasReady, SendingReady, ReadyNotMissed
<1> QED BY <1>1, GateInvAlways, PTL

\* A session that shows the splash has a scan that will show something else.
THEOREM SplashIsLeft == LiveSpec => []SplashEnds
<1>1. GateInv => SplashEnds
  BY DEF GateInv, Pending, SplashEnds
<1> QED BY <1>1, GateInvAlways, PTL

-----------------------------------------------------------------------------
(* What is activated is saved.                                             *)

\* Without a running dispatcher there is no turn, no switch and no rescan.
Away ==
    phase # "live" =>
        /\ configLock = <<>> /\ \A s \in Switcher : SwitchAt(s, "idle")
        /\ \A c \in Chat : turn[c].at \in {"unbegun", "ended"}

\* All it does is watch the file.
LEMMA AwayQuiet ==
    ASSUME Away, phase # "live", Beyond
    PROVE  Noticed \/ Drained \/ Reread \/ Swapped
<1>1. ASSUME NEW s \in Switcher PROVE ~Switched(s)
  BY DEF Away, Switched, SwitchStep, SwitchBegins, SwitchActivates, SwitchRebuilds,
         SwitchAsksMain, SwitchSwapsMain, SwitchAsksFallback, SwitchSwapsFallback, Serves, Runs,
         SwitchAt
<1>2. ASSUME NEW c \in Chat PROVE ~Rediscover(c) /\ ~ToolReads(c) /\ ~ToolWrites(c)
  BY DEF Away, Rediscover, ToolReads, ToolWrites, Runs, TurnAt
<1>3. ~RescanAsked /\ ~SettingsRescan /\ ~Turns /\ ~EditLimits /\ ~WatchBegins
  BY DEF Away, RescanAsked, SettingsRescan, Turns, EditLimits, WatchBegins, Serves, Runs, Granted
<1> QED BY <1>1, <1>2, <1>3 DEF Beyond

LEMMA AwayAlways == LiveSpec => []Away
<1>1. LiveInit => Away
  BY EndedFacts DEF LiveInit, Opening, TurnInit, Away, Idling, SwitchAt
<1>2. Away /\ Shape /\ [LiveNext]_vars => Away'
  <2> SUFFICES ASSUME Away, Shape, [LiveNext]_vars, phase' # "live"
               PROVE  /\ configLock' = <<>> /\ \A s \in Switcher : SwitchAt(s, "idle")'
                      /\ \A c \in Chat : turn'[c].at \in {"unbegun", "ended"}
    BY DEF Away
  <2>1. CASE Killed
    BY <2>1, EndedFacts, NoneActive DEF Killed, SwitchAt
  <2>2. CASE Boot
    BY <2>2 DEF Boot, GoLive
  <2>3. CASE Beside(GateStep)
    <3>1. phase # "live"
      <4>1. CASE CloseSetup
        BY <4>1 DEF CloseSetup
      <4>2. CASE \E o \in Task : TaskStep(o)
        BY <4>2 DEF TaskStep, Publish, SendState, Copy, ScanPanics, ScanReturns, Activate, Login,
                    Choose, Persist, WakeAccept
      <4>3. CASE \E f \in Front : FrontStep(f) \/ UserStep(f)
        BY <4>3, FrontEffect DEF Shape
      <4> QED BY <2>3, <4>1, <4>2, <4>3 DEF Beside, GateStep
    <3> QED BY <2>3, <3>1 DEF Beside, Away, turnVars, locks, SwitchAt
  <2>4. CASE Beyond
    <3>1. phase # "live"
      BY <2>4, BeyondKeeps
    <3>2. CASE Noticed \/ Drained \/ Reread \/ Swapped
      BY <3>1, <3>2 DEF Away, Noticed, Drained, Reread, Swapped, WatchStep, turnVars, locks, SwitchAt
    <3> QED BY <2>4, <3>1, <3>2, AwayQuiet
  <2>5. CASE UNCHANGED vars
    BY <2>5 DEF vars, gateVars, live, turnVars, locks, Away, SwitchAt
  <2> QED BY <2>1, <2>2, <2>3, <2>4, <2>5, NextCases
<1> QED BY <1>1, <1>2, ShapeAlways, PTL DEF LiveSpec

\* config.toml is what some configuration is written as, or has its limits edited.
LEMMA FileChanges ==
    ASSUME Shape, Shape', GateInv, [LiveNext]_vars
    PROVE  \/ file' = file
           \/ \E c \in Config : file' = Written(c)
           \/ Loads(file) /\ \E n \in Limits : file' = [Load(file) EXCEPT !.limits = n]
<1>0. /\ config' \in Config /\ mem' \in Config /\ mem \in Config
      /\ file \in Config \cup {NoFile, Broken}
  BY DEF Shape, GateShape
<1>1. CASE Killed
  BY <1>1 DEF Killed, Restart
<1>2. CASE Boot
  BY <1>2 DEF Boot, GoLive
<1>3. CASE Beside(GateStep)
  <2>1. CASE CloseSetup
    BY <2>1 DEF CloseSetup
  <2>2. ASSUME NEW o \in Task, TaskStep(o)
        PROVE  file' = file \/ file' = Written(config')
    BY <2>2, TaskEffect DEF Shape, GateInv
  <2>3. CASE \E f \in Front : FrontStep(f) \/ UserStep(f)
    BY <2>3, FrontEffect DEF Shape
  <2> QED BY <1>0, <1>3, <2>1, <2>2, <2>3 DEF Beside, GateStep
<1>4. CASE \/ \E s \in Switcher : Switched(s)
           \/ RescanAsked \/ SettingsRescan
  <2>1. file' = file \/ file' = Written(mem) \/ file' = Written(mem')
    <3>1. ASSUME NEW s \in Switcher, Switched(s) PROVE file' = file \/ file' = Written(mem)
      BY <3>1 DEF Switched, SwitchStep, SwitchBegins, SwitchActivates, SwitchRebuilds,
           SwitchAsksMain, SwitchSwapsMain, SwitchAsksFallback, SwitchSwapsFallback,
           besideSwitch, gateVars, Save
    <3>2. CASE RescanAsked \/ SettingsRescan
      BY <3>2 DEF RescanAsked, SettingsRescan, Save, besideSwitch, gateVars
    <3> QED BY <1>4, <3>1, <3>2
  <2> QED BY <1>0, <2>1
<1>5. CASE Turns
  BY <1>5 DEF Turns, gateVars
<1>6. ASSUME NEW c \in Chat, Rediscover(c)
      PROVE  file' = file \/ \E d \in Config : file' = Written(d)
  <2>1. PICK found \in Finds :
          IF found \subseteq Load(file).providers THEN FileKept
          ELSE Save(Merge(Load(file), found)) /\ FileWritten
    BY <1>6 DEF Rediscover
  <2>2. Merge(Load(file), found) \in Config
    BY <1>0, <1>6, GateAssumption, ConfigFacts DEF Rediscover
  <2> QED BY <2>1, <2>2 DEF Save, FileKept
<1>7. ASSUME NEW c \in Chat, ToolReads(c) PROVE file' = file
  BY <1>7 DEF ToolReads, gateVars
<1>8. ASSUME NEW c \in Chat, ToolWrites(c)
      PROVE  file' = file \/ \E d \in Config : file' = Written(d)
  <2>1. tool[c].name \in Provider /\ tool[c].copy \in Config
    BY <1>8 DEF ToolWrites, TurnAt, Shape, LiveShape
  <2>2. Activated(tool[c].copy, tool[c].name) \in Config
    BY <2>1, ConfigFacts
  <2> QED BY <1>8, <2>2 DEF ToolWrites, Save, FileKept
<1>9. CASE EditLimits
  BY <1>9 DEF EditLimits
<1>10. CASE WatchBegins \/ Noticed \/ Drained \/ Reread \/ Swapped
  BY <1>10 DEF WatchBegins, Noticed, Drained, Reread, Swapped, WatchStep, gateVars
<1>11. CASE UNCHANGED vars
  BY <1>11 DEF vars, gateVars
<1> QED BY <1>1, <1>2, <1>3, <1>4, <1>5, <1>6, <1>7, <1>8, <1>9, <1>10, <1>11, NextCases DEF Beyond

\* The file the first start finds was written by the program.
OwnFiles == \A f \in InitFiles : f \in {NoFile, Broken} \/ \E c \in Config : f = Written(c)

AsWritten(f) == f \in {NoFile, Broken} \/ f = Written(f)

\* Writing what was read writes the same.
LEMMA WrittenTwice ==
    ASSUME NEW c \in Config
    PROVE  /\ AsWritten(Written(c))
           /\ AsWritten(c) => \A n \in Limits : AsWritten([c EXCEPT !.limits = n])
<1>1. AsWritten(Written(c))
  <2>1. CASE Written(c) = Broken
    BY <2>1 DEF AsWritten
  <2>2. CASE Written(c) # Broken
    <3> DEFINE w == [c EXCEPT !.fallback = None, !.chosen = {},
                              !.providers = IF @ = {} THEN {Stock} ELSE @]
    <3>1. Written(c) = w
      BY <2>2 DEF Written
    <3>2. /\ w \in Config /\ w.fallback = None /\ w.chosen = {} /\ w.providers # {}
      BY ProviderAssumption DEF Config, Bedrock
    <3> HIDE DEF w
    <3>3. [w EXCEPT !.fallback = None, !.chosen = {},
                    !.providers = IF @ = {} THEN {Stock} ELSE @] = w
      BY <3>2 DEF Config
    <3>4. Written(w) = w
      BY <3>2, <3>3 DEF Written
    <3> QED BY <3>1, <3>4 DEF AsWritten
  <2> QED BY <2>1, <2>2
<1>2. ASSUME AsWritten(c), c \notin {NoFile, Broken}, NEW n \in Limits
      PROVE  AsWritten([c EXCEPT !.limits = n])
  <2>1. Written(c) = c /\ c # Broken
    BY <1>2 DEF AsWritten
  <2>2. c.fallback = None /\ c.chosen = {} /\ c.providers # {}
    BY <2>1, ProviderAssumption DEF Written, Config
  <2> DEFINE w == [c EXCEPT !.limits = n]
  <2>3. w \in Config /\ w.fallback = None /\ w.chosen = {} /\ w.providers # {}
    BY <2>2 DEF Config
  <2> HIDE DEF w
  <2>4. [w EXCEPT !.fallback = None, !.chosen = {},
                  !.providers = IF @ = {} THEN {Stock} ELSE @] = w
    BY <2>3 DEF Config
  <2>5. Written(w) = w
    BY <2>3, <2>4 DEF Written
  <2> QED BY <2>5 DEF AsWritten, w
<1> QED BY <1>1, <1>2, FileAssumption

SavedInv ==
    /\ AsWritten(file)
    /\ phase = "setup" => file \in {NoFile, Written(config)} \/ \E o \in Task : At(o, "save")

LEMMA SavedStep ==
    ASSUME SavedInv, Shape, Shape', GateInv, Away, [LiveNext]_vars
    PROVE  SavedInv'
<1>0. /\ file \in Config \cup {NoFile, Broken} /\ config \in Config
  BY DEF Shape, GateShape
<1>1. Loads(file) => Load(file) \in Config /\ AsWritten(Load(file)) /\ (file = NoFile \/ Load(file) = file)
  <2>1. AsWritten(DefaultConfig)
    BY WrittenTwice, ProviderAssumption DEF AsWritten, DefaultConfig, Written
  <2> QED BY <1>0, <2>1, ConfigFacts DEF SavedInv, Loads, Load
<1>2. AsWritten(file')
  BY <1>0, <1>1, WrittenTwice, FileChanges DEF SavedInv
<1> SUFFICES ASSUME phase' = "setup"
             PROVE  file' \in {NoFile, Written(config')} \/ \E o \in Task : At(o, "save")'
  BY <1>2 DEF SavedInv
<1>3. CASE Killed
  <2>1. Loads(file) /\ config' = Load(file) /\ file' = file
    BY <1>3, StartEffect DEF Killed
  <2>2. file # NoFile => file = Written(Load(file))
    BY <1>0, <1>1, <2>1, FileAssumption DEF AsWritten, Loads, SavedInv
  <2> QED BY <2>1, <2>2
<1>4. CASE Boot
  BY <1>4 DEF Boot, GoLive
<1>5. CASE Beside(GateStep)
  <2>1. CASE CloseSetup
    BY <2>1 DEF CloseSetup
  <2>2. ASSUME NEW o \in Task, TaskStep(o)
        PROVE  file' \in {NoFile, Written(config')} \/ \E n \in Task : At(n, "save")'
    <3>1. /\ Others(o) /\ phase' = phase
          /\ \/ UNCHANGED <<file, config>>
             \/ At(o, "save")'
             \/ file' = Written(config')
          /\ At(o, "save") => file' = Written(config')
      BY <2>2, TaskEffect DEF Shape, GateInv
    <3> QED BY <3>1 DEF SavedInv, Others, At
  <2>3. ASSUME NEW f \in Front, FrontStep(f) \/ UserStep(f)
        PROVE  file' \in {NoFile, Written(config')} \/ \E n \in Task : At(n, "save")'
    <3>1. /\ UNCHANGED <<phase, file, config>>
          /\ \A n \in Task : At(n, "save") => At(n, "save")'
      BY <2>3, FrontEffect DEF Shape, At
    <3> QED BY <3>1 DEF SavedInv
  <2> QED BY <1>5, <2>1, <2>2, <2>3 DEF Beside, GateStep
<1>6. CASE Beyond
  <2>1. UNCHANGED <<phase, session, front>> /\ phase = "setup"
    BY <1>6, BeyondKeeps
  <2>2. Noticed \/ Drained \/ Reread \/ Swapped
    BY <1>6, <2>1, AwayQuiet
  <2>3. UNCHANGED file
    BY <2>2 DEF Noticed, Drained, Reread, Swapped, WatchStep, gateVars
  <2> QED BY <2>1, <2>3 DEF SavedInv, At, session
<1>7. CASE UNCHANGED vars
  BY <1>7 DEF SavedInv, At, vars, gateVars, session
<1> QED BY <1>3, <1>4, <1>5, <1>6, <1>7, NextCases

\* Whatever the scans and selections of a session do beside each other, in the
\* end the file holds what the session does -- given a file the program wrote:
\* a scan that panics leaves another one as it is.
THEOREM RestIsSaved ==
    ASSUME OwnFiles
    PROVE  LiveSpec => []SavedAtRest
<1>1. LiveInit => SavedInv
  <2> SUFFICES ASSUME LiveInit PROVE SavedInv
    OBVIOUS
  <2>1. file \in InitFiles /\ phase = "down"
    BY DEF LiveInit, Opening, GateOpening
  <2>2. AsWritten(file)
    BY <2>1, WrittenTwice DEF OwnFiles, AsWritten
  <2> QED BY <2>1, <2>2 DEF SavedInv
<1>2. SavedInv /\ Shape /\ Shape' /\ GateInv /\ Away /\ [LiveNext]_vars => SavedInv'
  BY SavedStep
<1>3. SavedInv => SavedAtRest
  BY DEF SavedInv, SavedAtRest, At
<1> QED BY <1>1, <1>2, <1>3, ShapeAlways, GateInvAlways, AwayAlways, PTL DEF LiveSpec

-----------------------------------------------------------------------------
(* The running agents are those of the configuration.                      *)

\* The providers a configuration names are among its entries.
Sound(c) == c.main \in c.providers \cup {None} /\ c.fallback \in c.providers \cup {None}

\* The loader checks the main provider only: a fallback without an entry goes
\* unnoticed until a rescan finds that entry.
Listed(f) == f \in Config => f.fallback \in f.providers \cup {None}
FallbacksListed == \A f \in InitFiles : Listed(f)

LEMMA SoundFacts ==
    ASSUME NEW c \in Config
    PROVE  /\ Sound(DefaultConfig)
           /\ Loads(c) /\ Listed(c) => Sound(Load(c))
           /\ \A found \in SUBSET Provider :
                 Sound(c) => Sound(Merge(c, found)) /\ Built(Merge(c, found)) = Built(c)
           /\ \A p \in c.providers : Sound(c) => Sound(Activated(c, p))
           /\ \A p \in Provider : Activated(c, p).providers = c.providers
           /\ Listed(Written(c))
           /\ Listed(c) => \A n \in Limits : Listed([c EXCEPT !.limits = n])
<1>1. Sound(DefaultConfig)
  BY DEF Sound, DefaultConfig
<1>2. Loads(c) /\ Listed(c) => Sound(Load(c))
  BY <1>1, FileAssumption DEF Loads, Load, Listed, Sound, Valid
<1>3. ASSUME NEW found \in SUBSET Provider, Sound(c)
      PROVE  Sound(Merge(c, found)) /\ Built(Merge(c, found)) = Built(c)
  <2> DEFINE m == Merge(c, found)
  <2>1. m.main = c.main /\ m.fallback = c.fallback /\ m.providers = c.providers \cup found
    BY DEF Merge, Config
  <2>2. None \notin c.providers /\ None \notin m.providers
    BY <2>1, ProviderAssumption DEF Config
  <2> HIDE DEF m
  <2>3. MainAgent(m) = MainAgent(c) /\ FallbackAgent(m) = FallbackAgent(c)
    BY <1>3, <2>1, <2>2 DEF MainAgent, FallbackAgent, Sound
  <2>4. Sound(m) /\ Built(m) = Built(c)
    BY <1>3, <2>1, <2>3 DEF Sound, Built
  <2> QED BY <2>4 DEF m
<1>4. \A p \in c.providers : Sound(c) => Sound(Activated(c, p))
  BY DEF Sound, Activated, Wire, Config
<1>5. \A p \in Provider : Activated(c, p).providers = c.providers
  BY DEF Activated, Wire, Config
<1>6. Listed(Written(c))
  BY FileAssumption DEF Listed, Written, Config
<1>7. Listed(c) => \A n \in Limits : Listed([c EXCEPT !.limits = n])
  BY DEF Listed, Config
<1> QED BY <1>1, <1>2, <1>3, <1>4, <1>6, <1>7, <1>5

\* Every copy of the configuration is sound: the file's, the session's, that of
\* each scan, and the dispatcher's.
SoundInv ==
    /\ Listed(file) /\ Sound(config) /\ Sound(mem)
    /\ \A o \in Task : Sound(task[o].copy)
    /\ \A s \in Switcher : SwitchAt(s, "activate") => switch[s].name \in mem.providers

LEMMA TaskSound ==
    ASSUME GateShape, SoundInv, NEW o \in Task, TaskStep(o)
    PROVE  Sound(config') /\ (\A n \in Task : Sound(task'[n].copy)) /\ UNCHANGED mem
<1>0. /\ task \in [Task -> Tasks] /\ config \in Config
      /\ task[o].out \in SetupState /\ task[o].copy \in Config /\ task[o].found \in SUBSET Provider
      /\ task[o].then \in {"end", "copy", "activate", "notify"}
      /\ Sound(config) /\ \A n \in Task : Sound(task[n].copy)
  BY DEF GateShape, Tasks, SoundInv
<1>1. Sound(DefaultConfig)
  BY <1>0, SoundFacts
<1>2. ASSUME Others(o), Sound(task'[o].copy) PROVE \A n \in Task : Sound(task'[n].copy)
  BY <1>0, <1>2 DEF Others
<1>3. Over.copy = DefaultConfig
  BY DEF Over, Unused
<1>4. ASSUME NEW pc \in Steps, Goes(o, pc) PROVE \A n \in Task : Sound(task'[n].copy)
  <2>1. Others(o) /\ task'[o].copy \in {task[o].copy, DefaultConfig}
    BY <1>0, <1>3, <1>4, GoesFacts
  <2> QED BY <1>0, <1>1, <1>2, <2>1
<1>5. ASSUME NEW out \in SetupState, NEW then \in {"end", "copy", "activate", "notify"},
             Publishing(o, out, then)
      PROVE  \A n \in Task : Sound(task'[n].copy)
  <2>1. Others(o) /\ task'[o].copy = DefaultConfig
    BY <1>0, <1>5, PublishingFacts
  <2> QED BY <1>1, <1>2, <2>1
<1>6. CASE Publish(o) \/ SendState(o) \/ Login(o) \/ Choose(o) \/ Persist(o) \/ WakeAccept(o) \/ ScanPanics(o)
  <2>1. UNCHANGED <<config, mem>>
    BY <1>6 DEF Publish, SendState, Login, Choose, Persist, WakeAccept, ScanPanics
  <2>2. \/ \E pc \in Steps : Goes(o, pc)
        \/ \E out \in SetupState : Publishing(o, out, "end") \/ Publishing(o, out, "notify")
    BY <1>0, <1>6, StateFacts DEF Publish, SendState, Login, Choose, Persist, WakeAccept,
                                  ScanPanics, Fail, Steps
  <2> QED BY <1>0, <1>4, <1>5, <2>1, <2>2
<1>7. CASE Copy(o)
  <2> DEFINE x == [task[o] EXCEPT !.pc = "scan", !.copy = config]
  <2>1. x.copy = config
    BY <1>0 DEF Tasks
  <2>2. task' = [task EXCEPT ![o] = x] /\ UNCHANGED <<config, mem>>
    BY <1>7 DEF Copy
  <2> HIDE DEF x
  <2>3. Others(o) /\ task'[o].copy = config
    BY <1>0, <2>1, <2>2 DEF Others
  <2> QED BY <1>0, <1>2, <2>2, <2>3
<1>8. CASE ScanReturns(o)
  <2>1. PICK found \in Finds :
          /\ config' = Merge(task[o].copy, found)
          /\ IF found = {} THEN Fail(o)
             ELSE IF Obvious(found) = {} THEN Publishing(o, Needs(found), "end")
             ELSE Obvious1(o, found)
    BY <1>8 DEF ScanReturns, Obvious1
  <2>2. found \in SUBSET Provider
    BY GateAssumption
  <2>3. Sound(config')
    BY <1>0, <2>1, <2>2, SoundFacts
  <2>4. \A n \in Task : Sound(task'[n].copy)
    <3>1. CASE Obvious1(o, found)
      <4>1. Others(o) /\ task'[o].copy = DefaultConfig
        BY <1>0, <2>2, <3>1, ObviousFacts
      <4> QED BY <1>1, <1>2, <4>1
    <3>2. CASE \E out \in SetupState : Publishing(o, out, "end")
      BY <1>5, <3>2
    <3> QED BY <2>1, <2>2, <3>1, <3>2, StateFacts DEF Fail
  <2> QED BY <1>8, <2>3, <2>4 DEF ScanReturns
<1>9. CASE Activate(o)
  <2>1. \/ Fail(o) /\ UNCHANGED config
        \/ /\ task[o].name \in config.providers /\ config' = Activated(config, task[o].name)
           /\ Goes(o, "save")
        \/ UNCHANGED config /\ (Goes(o, "choose") \/ Goes(o, "login"))
    BY <1>9 DEF Activate
  <2>2. \A n \in Task : Sound(task'[n].copy)
    BY <1>4, <1>5, <2>1, StateFacts DEF Fail, Steps
  <2>3. Sound(config')
    BY <1>0, <2>1, SoundFacts
  <2> QED BY <1>9, <2>2, <2>3 DEF Activate
<1> QED BY <1>6, <1>7, <1>8, <1>9 DEF TaskStep

LEMMA GateSound ==
    ASSUME GateShape, SoundInv, GateStep
    PROVE  Sound(config') /\ (\A n \in Task : Sound(task'[n].copy)) /\ UNCHANGED mem
<1>0. /\ task \in [Task -> Tasks] /\ config \in Config
      /\ Sound(config) /\ \A n \in Task : Sound(task[n].copy)
  BY DEF GateShape, SoundInv
<1>1. CASE CloseSetup
  BY <1>0, <1>1 DEF CloseSetup
<1>2. CASE \E o \in Task : TaskStep(o)
  BY <1>2, TaskSound
<1>3. ASSUME NEW f \in Front, FrontStep(f) \/ UserStep(f)
      PROVE  Sound(config') /\ (\A n \in Task : Sound(task'[n].copy)) /\ UNCHANGED mem
  <2>1. CASE Select(f)
    <3>1. PICK o \in Task, p \in front[f].seen.offer :
            task' = [task EXCEPT ![o].pc = "activate", ![o].kind = "select", ![o].name = p]
      BY <2>1 DEF Select
    <3> DEFINE x == [task[o] EXCEPT !.pc = "activate", !.kind = "select", !.name = p]
    <3>2. x.copy = task[o].copy /\ task' = [task EXCEPT ![o] = x]
      BY <1>0, <3>1 DEF Tasks
    <3> HIDE DEF x
    <3> QED BY <1>0, <2>1, <3>2 DEF Select
  <2>2. CASE Rescan(f)
    <3>1. ScanTask.copy = DefaultConfig
      BY DEF ScanTask, Unused
    <3> HIDE DEF ScanTask
    <3> QED BY <1>0, <2>2, <3>1, SoundFacts DEF Rescan
  <2>3. CASE FrontStep(f) \/ Quit(f)
    BY <1>0, <2>3 DEF FrontStep, Probe, Connect, EnterBoard, Subscribe, SendCurrent, Receive,
                      ReadAnswer, Quit, session
  <2> QED BY <1>3, <2>1, <2>2, <2>3 DEF UserStep
<1> QED BY <1>1, <1>2, <1>3 DEF GateStep

\* Unless it was overtaken, what a switch is about to swap is what the
\* configuration asks for, and an agent that is not has a switch under way that
\* will replace it.
BeforeMain(s) == switch[s].pc \in {"rebuild", "built", "main"}
BeforeFallback(s) == switch[s].pc \in {"rebuild", "built", "main", "swapped", "fallback"}
InHand(s) == switch[s].pc \in {"built", "main", "swapped", "fallback"}
Following ==
    phase = "live" /\ ~overtook =>
        /\ \A s \in Switcher : InHand(s) => switch[s].built = Built(mem)
        /\ agents.main = Built(mem).main \/ \E s \in Switcher : BeforeMain(s)
        /\ agents.fallback = Built(mem).fallback \/ \E s \in Switcher : BeforeFallback(s)

FollowInv == SoundInv /\ Following

\* The steps of a switch.
LEMMA SwitchFollows ==
    ASSUME FollowInv, Shape, Listed(file'), NEW s \in Switcher, Switched(s)
    PROVE  FollowInv'
<1>0. /\ mem \in Config /\ mem.providers \subseteq Provider /\ agents \in Agents
      /\ switch \in [Switcher -> Switching]
      /\ Sound(config) /\ Sound(mem) /\ \A o \in Task : Sound(task[o].copy)
      /\ \A r \in Switcher : SwitchAt(r, "activate") => switch[r].name \in mem.providers
  BY DEF Shape, GateShape, TurnShape, LiveShape, FollowInv, SoundInv, Config
<1>1. OtherSwitches(s) /\ switch' \in [Switcher -> Switching]
  BY <1>0, SwitchFacts
<1>2. UNCHANGED <<phase, session>>
  BY DEF Switched, SwitchStep, SwitchBegins, SwitchActivates, SwitchRebuilds, SwitchAsksMain,
         SwitchSwapsMain, SwitchAsksFallback, SwitchSwapsFallback, besideSwitch, gateVars, onlyFile
<1>3. ASSUME Sound(mem'), mem.providers \subseteq mem'.providers,
             switch'[s].pc = "activate" => switch'[s].name \in mem'.providers
      PROVE  SoundInv'
  <2>1. \A r \in Switcher : SwitchAt(r, "activate")' => switch'[r].name \in mem'.providers
    BY <1>0, <1>1, <1>3 DEF SwitchAt, OtherSwitches
  <2> QED BY <1>0, <1>2, <1>3, <2>1 DEF SoundInv, session
\* A step that keeps the configuration: the other switches are as good as before.
<1>4. ASSUME UNCHANGED <<mem, overtook>>, SoundInv',
             InHand(s)' /\ phase = "live" /\ ~overtook => switch'[s].built = Built(mem),
             phase = "live" /\ ~overtook =>
                \/ agents'.main = Built(mem).main
                \/ agents'.main = agents.main /\ (BeforeMain(s) => BeforeMain(s)'),
             phase = "live" /\ ~overtook =>
                \/ agents'.fallback = Built(mem).fallback
                \/ agents'.fallback = agents.fallback /\ (BeforeFallback(s) => BeforeFallback(s)')
      PROVE  FollowInv'
  <2>1. \A r \in Switcher : r # s =>
            /\ InHand(r)' <=> InHand(r)
            /\ BeforeMain(r)' <=> BeforeMain(r)
            /\ BeforeFallback(r)' <=> BeforeFallback(r)
            /\ switch'[r].built = switch[r].built
    BY <1>1 DEF OtherSwitches, InHand, BeforeMain, BeforeFallback
  <2>2. SUFFICES ASSUME phase = "live", ~overtook
                 PROVE  /\ \A r \in Switcher : InHand(r)' => switch'[r].built = Built(mem)
                        /\ agents'.main = Built(mem).main \/ \E r \in Switcher : BeforeMain(r)'
                        /\ \/ agents'.fallback = Built(mem).fallback
                           \/ \E r \in Switcher : BeforeFallback(r)'
    BY <1>2, <1>4 DEF FollowInv, Following
  <2>3. /\ \A r \in Switcher : InHand(r) => switch[r].built = Built(mem)
        /\ agents.main = Built(mem).main \/ \E r \in Switcher : BeforeMain(r)
        /\ agents.fallback = Built(mem).fallback \/ \E r \in Switcher : BeforeFallback(r)
    BY <2>2 DEF FollowInv, Following
  <2> QED BY <1>4, <2>1, <2>2, <2>3
<1>5. CASE SwitchBegins(s)
  <2>1. /\ switch'[s].pc = "activate" /\ switch'[s].name \in mem.providers
        /\ SwitchAt(s, "idle") /\ UNCHANGED <<mem, agents, overtook>>
    BY <1>0, <1>5, SwitchFacts DEF SwitchBegins, besideSwitch, gateVars, history
  <2>2. SoundInv'
    BY <1>0, <1>3, <2>1
  <2> QED BY <1>4, <2>1, <2>2 DEF SwitchAt, InHand, BeforeMain, BeforeFallback
<1>6. CASE SwitchActivates(s)
  <2>1. UNCHANGED agents /\ SwitchAt(s, "activate") /\ switch[s].name \in mem.providers
    BY <1>0, <1>6 DEF SwitchActivates
  <2>2. CASE switch'[s].pc = "idle" /\ UNCHANGED <<mem, overtook>>
    <3>1. SoundInv'
      BY <1>0, <1>3, <2>2
    <3> QED BY <1>4, <2>1, <2>2, <3>1 DEF SwitchAt, InHand, BeforeMain, BeforeFallback
  <2>3. CASE /\ switch'[s].pc = "rebuild" /\ mem' = Activated(mem, switch[s].name)
             /\ overtook' = Overtakes(s)
    <3>1. Sound(mem') /\ mem'.providers = mem.providers
      BY <1>0, <2>1, <2>3, SoundFacts
    <3>2. SoundInv'
      BY <1>3, <2>3, <3>1
    <3>3. BeforeMain(s)' /\ BeforeFallback(s)' /\ ~InHand(s)'
      BY <2>3 DEF BeforeMain, BeforeFallback, InHand
    <3>4. ~overtook' => \A r \in Switcher : r # s => ~InHand(r)'
      BY <1>1, <2>3 DEF Overtakes, OtherSwitches, InHand
    <3> QED BY <3>2, <3>3, <3>4 DEF FollowInv, Following
  <2> QED BY <1>0, <1>6, <2>2, <2>3, SwitchFacts
<1>7. CASE SwitchRebuilds(s)
  <2>1. /\ switch'[s].pc = "built" /\ switch'[s].built = Built(mem)
        /\ UNCHANGED <<mem, agents, overtook>>
    BY <1>0, <1>7, SwitchFacts DEF SwitchRebuilds, onlyFile
  <2>2. SoundInv'
    BY <1>0, <1>3, <2>1
  <2> QED BY <1>4, <2>1, <2>2 DEF BeforeMain, BeforeFallback
<1>8. CASE SwitchAsksMain(s)
  <2>1. /\ SwitchAt(s, "built") /\ switch'[s].pc = "main" /\ switch'[s].built = switch[s].built
        /\ UNCHANGED <<mem, agents, overtook>>
    BY <1>0, <1>8, SwitchFacts DEF SwitchAsksMain, besideSwitch, gateVars, history
  <2>2. SoundInv'
    BY <1>0, <1>3, <2>1
  <2>3. phase = "live" /\ ~overtook => switch'[s].built = Built(mem)
    BY <2>1 DEF FollowInv, Following, InHand, SwitchAt
  <2> QED BY <1>4, <2>1, <2>2, <2>3 DEF BeforeMain, BeforeFallback
<1>9. CASE SwitchSwapsMain(s)
  <2>1. /\ SwitchAt(s, "main") /\ switch'[s].pc = "swapped" /\ switch'[s].built = switch[s].built
        /\ agents'.main = switch[s].built.main /\ agents'.fallback = agents.fallback
        /\ UNCHANGED <<mem, overtook>>
    BY <1>0, <1>9, SwitchFacts DEF SwitchSwapsMain, Agents, besideSwitch, gateVars, history
  <2>2. SoundInv'
    BY <1>0, <1>3, <2>1
  <2>3. phase = "live" /\ ~overtook => switch[s].built = Built(mem)
    BY <2>1 DEF FollowInv, Following, InHand, SwitchAt
  <2> QED BY <1>4, <2>1, <2>2, <2>3 DEF BeforeFallback
<1>10. CASE SwitchAsksFallback(s)
  <2>1. /\ SwitchAt(s, "swapped") /\ switch'[s].pc = "fallback"
        /\ switch'[s].built = switch[s].built /\ UNCHANGED <<mem, agents, overtook>>
    BY <1>0, <1>10, SwitchFacts DEF SwitchAsksFallback, besideSwitch, gateVars, history
  <2>2. SoundInv'
    BY <1>0, <1>3, <2>1
  <2>3. phase = "live" /\ ~overtook => switch'[s].built = Built(mem)
    BY <2>1 DEF FollowInv, Following, InHand, SwitchAt
  <2> QED BY <1>4, <2>1, <2>2, <2>3 DEF BeforeMain, BeforeFallback, SwitchAt
<1>11. CASE SwitchSwapsFallback(s)
  <2>1. /\ SwitchAt(s, "fallback") /\ switch'[s].pc = "idle"
        /\ agents'.fallback = switch[s].built.fallback /\ agents'.main = agents.main
        /\ UNCHANGED <<mem, overtook>>
    BY <1>0, <1>11, SwitchFacts DEF SwitchSwapsFallback, Agents, besideSwitch, gateVars, history
  <2>2. SoundInv'
    BY <1>0, <1>3, <2>1
  <2>3. phase = "live" /\ ~overtook => switch[s].built = Built(mem)
    BY <2>1 DEF FollowInv, Following, InHand, SwitchAt
  <2> QED BY <1>4, <2>1, <2>2, <2>3 DEF InHand, BeforeMain, SwitchAt
<1> QED BY <1>5, <1>6, <1>7, <1>8, <1>9, <1>10, <1>11 DEF Switched, SwitchStep

\* A rescan changes no agent that has been or will be built.
LEMMA FollowStep ==
    ASSUME FollowInv, Shape, Shape', GateInv, Away, [LiveNext]_vars
    PROVE  FollowInv'
<1>0. /\ file \in Config \cup {NoFile, Broken} /\ config \in Config /\ mem \in Config
      /\ agents \in Agents /\ switch \in [Switcher -> Switching]
      /\ SoundInv /\ Listed(file) /\ Sound(config) /\ Sound(mem)
      /\ \A o \in Task : Sound(task[o].copy)
  BY DEF Shape, GateShape, TurnShape, LiveShape, FollowInv, SoundInv
<1>1. Listed(file')
  <2>1. CASE Loads(file) /\ \E n \in Limits : file' = [Load(file) EXCEPT !.limits = n]
    <3>1. Load(file) \in Config /\ Listed(Load(file))
      <4>1. Listed(DefaultConfig)
        BY DEF Listed, DefaultConfig
      <4> QED BY <1>0, <2>1, <4>1, ConfigFacts DEF Load
    <3> QED BY <2>1, <3>1, SoundFacts
  <2> QED BY <1>0, <2>1, SoundFacts, FileChanges
<1>2. ASSUME UNCHANGED <<phase, session, mem, switch, agents, overtook>> PROVE FollowInv'
  BY <1>0, <1>1, <1>2 DEF FollowInv, SoundInv, Following, InHand, BeforeMain, BeforeFallback,
                          SwitchAt, session
<1>3. CASE \E s \in Switcher : Switched(s)
  BY <1>1, <1>3, SwitchFollows
<1>4. CASE Killed \/ Boot
  <2>1. \A s \in Switcher : switch'[s].pc = "idle"
    BY <1>4, NoneActive DEF Killed, Boot, GoLive, Away, SwitchAt
  <2>2. phase' = "live" => agents' = Built(mem')
    BY <1>4 DEF Killed, Boot, Boots
  <2>3. Sound(config') /\ Sound(mem') /\ \A o \in Task : Sound(task'[o].copy)
    <3>1. CASE Killed
      <4>1. config' = mem' /\ config' \in {Load(file), DefaultConfig}
            /\ (Loads(file) => config' = Load(file))
            /\ \A o \in Task : task'[o] \in {ScanTask, Unused}
        BY <3>1, StartEffect DEF Killed
      <4>2. Sound(config')
        <5>1. Sound(DefaultConfig)
          BY <1>0, SoundFacts
        <5>2. CASE Loads(file)
          <6>1. file = NoFile \/ file \in Config
            BY <1>0, <5>2, FileAssumption DEF Loads
          <6> QED BY <1>0, <4>1, <5>1, <5>2, <6>1, SoundFacts DEF Load
        <5>3. CASE ~Loads(file)
          <6>1. config' = DefaultConfig
            BY <3>1, <5>3 DEF Killed, Restart, Started
          <6> QED BY <5>1, <6>1
        <5> QED BY <5>2, <5>3
      <4>3. ScanTask.copy = DefaultConfig /\ Unused.copy = DefaultConfig
        BY DEF ScanTask, Unused
      <4> HIDE DEF ScanTask, Unused
      <4> QED BY <1>0, <4>1, <4>2, <4>3, SoundFacts
    <3>2. CASE Boot
      BY <1>0, <3>2 DEF Boot, GoLive, session
    <3> QED BY <1>4, <3>1, <3>2
  <2> QED BY <1>1, <2>1, <2>2, <2>3 DEF FollowInv, SoundInv, Following, InHand, SwitchAt
<1>5. CASE Beside(GateStep)
  <2>1. Sound(config') /\ (\A n \in Task : Sound(task'[n].copy)) /\ UNCHANGED mem
    BY <1>0, <1>5, GateSound DEF Beside, Shape
  <2>2. phase' = "live" => phase = "live"
    <3>1. CASE CloseSetup
      BY <3>1 DEF CloseSetup
    <3>2. ASSUME NEW o \in Task, TaskStep(o) PROVE phase' = phase
      BY <3>2, TaskEffect DEF Shape, GateInv
    <3>3. ASSUME NEW f \in Front, FrontStep(f) \/ UserStep(f) PROVE phase' = phase
      BY <3>3, FrontEffect DEF Shape
    <3> QED BY <1>5, <3>1, <3>2, <3>3 DEF Beside, GateStep
  <2>3. UNCHANGED <<switch, agents, overtook>>
    BY <1>5 DEF Beside, turnVars
  <2> QED BY <1>0, <1>1, <2>1, <2>2, <2>3
          DEF FollowInv, SoundInv, Following, InHand, BeforeMain, BeforeFallback, SwitchAt
<1>6. CASE SettingsRescan
  <2>1. PICK found \in Finds : mem' = Merge(mem, found)
    BY <1>6 DEF SettingsRescan
  <2>2. found \in SUBSET Provider
    BY GateAssumption
  <2>3. Sound(mem') /\ Built(mem') = Built(mem) /\ mem.providers \subseteq mem'.providers
    <3>1. mem.providers \subseteq Merge(mem, found).providers
      BY <1>0 DEF Merge, Config
    <3> QED BY <1>0, <2>1, <2>2, <3>1, SoundFacts
  <2>4. UNCHANGED <<phase, session, switch, agents, overtook>>
    BY <1>6 DEF SettingsRescan
  <2>5. SoundInv'
    BY <1>0, <1>1, <2>3, <2>4 DEF SoundInv, session, SwitchAt
  <2> QED BY <2>3, <2>4, <2>5
          DEF FollowInv, Following, InHand, BeforeMain, BeforeFallback
<1>7. CASE RescanAsked \/ EditLimits \/ WatchBegins \/ Noticed \/ Drained \/ Reread \/ Swapped
  <2>1. UNCHANGED <<phase, session, mem, switch, agents, overtook>>
    BY <1>7 DEF RescanAsked, EditLimits, WatchBegins, Noticed, Drained, Reread, Swapped, WatchStep,
                gateVars, onlyFile, turnVars, history, besideSwitch
  <2> QED BY <1>2, <2>1
<1>8. CASE Turns
  <2>1. UNCHANGED <<phase, session, mem, switch, overtook>>
    BY <1>8 DEF Turns, gateVars, history
  <2>2. UNCHANGED agents
    BY <1>8 DEF Turns, TurnBegins, TurnStep, TurnAborted, TurnGathers, TurnTakesMain,
                TurnTakesFallback, ModelReplies, ModelCalls, ModelFails, OtherTool, ListRepos,
                ReposListed, Leaves
  <2> QED BY <1>2, <2>1, <2>2
<1>9. CASE \E c \in Chat : Rediscover(c) \/ ToolReads(c) \/ ToolWrites(c)
  <2>1. UNCHANGED <<phase, session, mem, switch, agents, overtook>>
    BY <1>9 DEF Rediscover, ToolReads, ToolWrites, gateVars, onlyFile, history
  <2> QED BY <1>2, <2>1
<1>10. CASE UNCHANGED vars
  <2>1. UNCHANGED <<phase, session, mem, switch, agents, overtook>>
    BY <1>10 DEF vars, gateVars, live, turnVars, history
  <2> QED BY <1>2, <2>1
<1> QED BY <1>3, <1>4, <1>5, <1>6, <1>7, <1>8, <1>9, <1>10 DEF LiveNext, Switched

\* With any number of connections that switch the provider beside each other:
\* when none is at it, the agents that run are those a start from the
\* dispatcher's configuration would build, except after an activation that
\* overtook a switch with agents in hand, until the next one -- given a file
\* whose fallback provider, if it names one, has an entry.
THEOREM AgentsAreFollowing ==
    ASSUME FallbacksListed
    PROVE  LiveSpec => []AgentsFollow
<1>1. LiveInit => FollowInv
  <2> SUFFICES ASSUME LiveInit PROVE FollowInv
    OBVIOUS
  <2>1. /\ file \in InitFiles /\ phase = "down" /\ config = DefaultConfig /\ mem = DefaultConfig
        /\ \A o \in Task : task[o] = Unused
        /\ \A s \in Switcher : switch[s].pc = "idle"
    BY NoneActive DEF LiveInit, Opening, GateOpening
  <2>2. Sound(DefaultConfig) /\ Unused.copy = DefaultConfig
    BY SoundFacts, ConfigFacts DEF Unused
  <2> QED BY <2>1, <2>2 DEF FallbacksListed, FollowInv, SoundInv, Following, SwitchAt
<1>2. FollowInv /\ Shape /\ Shape' /\ GateInv /\ Away /\ [LiveNext]_vars => FollowInv'
  BY FollowStep
<1>3. FollowInv /\ Shape => AgentsFollow
  <2> SUFFICES ASSUME FollowInv, Shape, phase = "live", ~overtook,
                      \A s \in Switcher : SwitchAt(s, "idle")
               PROVE  agents = Built(mem)
    BY DEF AgentsFollow, Runs
  <2>1. agents.main = Built(mem).main /\ agents.fallback = Built(mem).fallback
    BY DEF FollowInv, Following, BeforeMain, BeforeFallback, SwitchAt
  <2> QED BY <2>1 DEF Shape, TurnShape, Agents, Built
<1> QED BY <1>1, <1>2, <1>3, ShapeAlways, GateInvAlways, AwayAlways, PTL DEF LiveSpec

-----------------------------------------------------------------------------
(* A turn keeps the agents it began with.                                  *)

HasMain == {"fallback", "asks", "tools", "repos", "activates"}
HasFallback == {"asks", "tools", "repos", "activates"}

\* A turn that holds an agent has its lock, and the agent is the running one.
Holds(c) ==
    /\ turn[c].at \in HasMain => Granted(mainLock, c) /\ turn[c].agents.main = agents.main
    /\ turn[c].at \in HasFallback =>
          Granted(fallbackLock, c) /\ turn[c].agents.fallback = agents.fallback

Queues ==
    /\ mainLock \in Seq(Entry) /\ fallbackLock \in Seq(Entry)
    /\ Writes(mainLock) /\ Writes(fallbackLock)

HoldInv == Queues /\ \A c \in Chat : Holds(c)

\* Joining with a proper request and leaving keep a queue proper.
LEMMA QueueFacts ==
    ASSUME NEW q \in Seq(Entry), Writes(q)
    PROVE  /\ \A who : Left(q, who) \in Seq(Entry) /\ Writes(Left(q, who))
           /\ \A s \in Switcher : Append(q, Writing(s)) \in Seq(Entry) /\ Writes(Append(q, Writing(s)))
           /\ \A c \in Chat : Append(q, Reading(c)) \in Seq(Entry) /\ Writes(Append(q, Reading(c)))
<1>1. \A s \in Switcher : Writing(s) \in Entry /\ Writing(s).mode = "write"
  BY DEF Writing, Entry
<1>2. \A c \in Chat : Reading(c) \in Entry /\ Reading(c).who \notin Switcher
  BY LiveAssumption DEF Reading, Entry
<1>3. ASSUME NEW who PROVE Left(q, who) \in Seq(Entry) /\ Writes(Left(q, who))
  BY LeftFacts DEF Writes
<1> HIDE DEF Writing, Reading
<1>4. ASSUME NEW e \in Entry, e.who \in Switcher => e.mode = "write"
      PROVE  Append(q, e) \in Seq(Entry) /\ Writes(Append(q, e))
  BY <1>4, JoinFacts DEF Writes
<1> QED BY <1>1, <1>2, <1>3, <1>4

\* A step of a turn that ends outside, or that keeps what it holds.
LEMMA TurnHolds ==
    ASSUME Shape, HoldInv, NEW c \in Chat, Turned(c)
    PROVE  HoldInv'
<1>0. /\ turn \in [Chat -> Turning] /\ mainLock \in Seq(Entry) /\ fallbackLock \in Seq(Entry)
      /\ Writes(mainLock) /\ Writes(fallbackLock) /\ Holds(c) /\ Activating
  BY DEF Shape, TurnShape, HoldInv, Queues, Activating
<1>1. TurnShape' /\ OtherTurns(c)
  BY TurnTyped DEF Shape
<1>2. ASSUME NEW d \in Chat, d # c, UNCHANGED agents,
             Granted(mainLock, d) => Granted(mainLock', d),
             Granted(fallbackLock, d) => Granted(fallbackLock', d)
      PROVE  Holds(d)'
  BY <1>1, <1>2 DEF HoldInv, Holds, OtherTurns
<1>3. ASSUME UNCHANGED <<agents, mainLock, fallbackLock>>,
             turn'[c].agents = turn[c].agents,
             turn'[c].at \in HasMain => turn[c].at \in HasMain,
             turn'[c].at \in HasFallback => turn[c].at \in HasFallback
      PROVE  HoldInv'
  <2>1. Holds(c)'
    BY <1>0, <1>3 DEF Holds
  <2>2. \A d \in Chat : d # c => Holds(d)'
    BY <1>2, <1>3
  <2> QED BY <1>0, <1>3, <2>1, <2>2 DEF HoldInv, Queues
<1>4. CASE TurnBegins(c)
  <2>1. turn'[c].at = "context" /\ UNCHANGED <<agents, mainLock, fallbackLock>>
        /\ turn'[c].agents = turn[c].agents
    BY <1>0, <1>4, TurnGoesFacts DEF TurnBegins, Wheres
  <2> QED BY <1>3, <2>1 DEF HasMain, HasFallback
<1>5. CASE TurnGathers(c)
  <2>1. /\ turn'[c].at = "main" /\ UNCHANGED <<agents, fallbackLock>>
        /\ mainLock' = Append(mainLock, Reading(c))
    BY <1>0, <1>5, TurnGoesFacts DEF TurnGathers, Wheres
  <2>2. Reading(c) \in Entry
    BY DEF Reading, Entry
  <2>3. Queues'
    BY <1>0, <2>1, QueueFacts DEF Queues
  <2>4. \A d \in Chat : Granted(mainLock, d) => Granted(mainLock', d)
    BY <1>0, <2>1, <2>2, JoinFacts
  <2>5. Holds(c)'
    BY <2>1 DEF Holds, HasMain, HasFallback
  <2> QED BY <1>2, <2>1, <2>3, <2>4, <2>5 DEF HoldInv
<1>6. CASE TurnTakesMain(c)
  <2> DEFINE x == [turn[c] EXCEPT !.at = "fallback", !.agents.main = agents.main]
  <2>1. x.at = "fallback" /\ x.agents.main = agents.main
    BY <1>0 DEF Turning, Agents
  <2>2. /\ turn' = [turn EXCEPT ![c] = x] /\ UNCHANGED <<agents, mainLock>>
        /\ fallbackLock' = Append(fallbackLock, Reading(c)) /\ Granted(mainLock, c)
    BY <1>6 DEF TurnTakesMain, locks
  <2> HIDE DEF x
  <2>3. Reading(c) \in Entry
    BY DEF Reading, Entry
  <2>4. Queues'
    BY <1>0, <2>2, QueueFacts DEF Queues
  <2>5. \A d \in Chat : Granted(fallbackLock, d) => Granted(fallbackLock', d)
    BY <1>0, <2>2, <2>3, JoinFacts
  <2>6. Holds(c)'
    BY <1>0, <2>1, <2>2 DEF Holds, HasFallback
  <2> QED BY <1>2, <2>2, <2>4, <2>5, <2>6 DEF HoldInv
<1>7. CASE TurnTakesFallback(c)
  <2> DEFINE x == [turn[c] EXCEPT !.at = "asks", !.agents.fallback = agents.fallback]
  <2>1. /\ x.at = "asks" /\ x.agents.fallback = agents.fallback
        /\ x.agents.main = turn[c].agents.main
    BY <1>0 DEF Turning, Agents
  <2>2. /\ turn' = [turn EXCEPT ![c] = x] /\ UNCHANGED <<agents, mainLock, fallbackLock>>
        /\ Granted(fallbackLock, c) /\ turn[c].at = "fallback"
    BY <1>7 DEF TurnTakesFallback, TurnAt, locks
  <2> HIDE DEF x
  <2>3. Holds(c)'
    BY <1>0, <2>1, <2>2 DEF Holds, HasMain
  <2> QED BY <1>0, <1>2, <2>2, <2>3 DEF HoldInv, Queues
<1>8. CASE Leaves(c)
  <2>1. /\ turn'[c].at = "ended" /\ UNCHANGED agents
        /\ mainLock' = Left(mainLock, c) /\ fallbackLock' = Left(fallbackLock, c)
    BY <1>0, <1>8, LeavesFacts DEF Leaves
  <2>2. Queues'
    BY <1>0, <2>1, QueueFacts DEF Queues
  <2>3. \A d \in Chat : d # c => /\ Granted(mainLock, d) => Granted(mainLock', d)
                                 /\ Granted(fallbackLock, d) => Granted(fallbackLock', d)
    BY <1>0, <2>1, LeftFacts
  <2>4. Holds(c)'
    BY <2>1 DEF Holds, HasMain, HasFallback
  <2> QED BY <1>2, <2>1, <2>2, <2>3, <2>4 DEF HoldInv
<1>9. CASE ModelCalls(c)
  <2>1. /\ UNCHANGED <<agents, mainLock, fallbackLock>> /\ turn'[c].agents = turn[c].agents
        /\ turn[c].at = "asks"
    BY <1>0, <1>9, TurnGoesFacts DEF ModelCalls, Wheres, TurnAt, locks
  <2> QED BY <1>3, <2>1 DEF HasMain, HasFallback
<1>10. CASE /\ turn[c].at = "asks"
            /\ turn' = [turn EXCEPT ![c].recovered = TRUE] /\ UNCHANGED <<agents, locks>>
  <2> DEFINE x == [turn[c] EXCEPT !.recovered = TRUE]
  <2>1. x.agents = turn[c].agents
    BY <1>0 DEF Turning
  <2>2. turn' = [turn EXCEPT ![c] = x]
    BY <1>10
  <2> HIDE DEF x
  <2> QED BY <1>0, <1>3, <1>10, <2>1, <2>2 DEF HasMain, HasFallback, locks
<1>11. CASE OtherTool(c)
  <2>1. turn[c].at = "tools" /\ UNCHANGED <<agents, mainLock, fallbackLock>>
        /\ turn'[c].agents = turn[c].agents
    BY <1>0, <1>11, CalledFacts DEF OtherTool, TurnAt, Activating, locks
  <2> QED BY <1>3, <2>1 DEF HasMain, HasFallback
<1>12. CASE ListRepos(c)
  <2>1. turn[c].at = "tools" /\ UNCHANGED <<agents, mainLock, fallbackLock>>
        /\ turn'[c].agents = turn[c].agents
    BY <1>0, <1>12, TurnGoesFacts DEF ListRepos, TurnAt, Wheres
  <2> QED BY <1>3, <2>1 DEF HasMain, HasFallback
<1>13. CASE ReposListed(c)
  <2>1. turn[c].at = "repos" /\ UNCHANGED <<agents, mainLock, fallbackLock>>
        /\ turn'[c].agents = turn[c].agents
    BY <1>0, <1>13, CalledFacts DEF ReposListed, TurnAt, Activating
  <2> QED BY <1>3, <2>1 DEF HasMain, HasFallback
<1> QED BY <1>4, <1>5, <1>6, <1>7, <1>8, <1>9, <1>10, <1>11, <1>12, <1>13
        DEF Turned, TurnStep, ModelReplies, ModelFails, TurnAborted, TurnAt

\* A step of a tool leaves a turn where it holds what it held.
LEMMA ToolHolds ==
    ASSUME Shape, HoldInv, NEW c \in Chat, Rediscover(c) \/ ToolReads(c) \/ ToolWrites(c)
    PROVE  HoldInv'
<1>0. turn \in [Chat -> Turning] /\ Activating
  BY DEF Shape, TurnShape, Activating
<1>1. UNCHANGED <<agents, mainLock, fallbackLock>> /\ turn[c].at \in {"tools", "activates"}
  BY DEF Rediscover, ToolReads, ToolWrites, TurnAt, locks
<1>2. OtherTurns(c) /\ turn'[c].agents = turn[c].agents
  <2>1. CASE Called(c)
    BY <1>0, <1>1, <2>1, CalledFacts DEF Activating
  <2>2. CASE TurnGoes(c, "activates")
    BY <1>0, <2>2, TurnGoesFacts DEF Wheres
  <2> QED BY <2>1, <2>2 DEF Rediscover, ToolReads, ToolWrites
<1>3. Holds(c)'
  BY <1>1, <1>2 DEF HoldInv, Holds, HasMain, HasFallback
<1>4. \A d \in Chat : d # c => Holds(d)'
  BY <1>1, <1>2 DEF HoldInv, Holds, OtherTurns
<1> QED BY <1>1, <1>3, <1>4 DEF HoldInv, Queues

\* An agent is swapped when no turn has it.
LEMMA SwitchHolds ==
    ASSUME Shape, HoldInv, NEW s \in Switcher, Switched(s)
    PROVE  HoldInv'
<1>0. /\ mainLock \in Seq(Entry) /\ fallbackLock \in Seq(Entry)
      /\ Writes(mainLock) /\ Writes(fallbackLock) /\ agents \in Agents
      /\ \A c \in Chat : c # s
      /\ Writing(s) \in Entry
  BY LiveAssumption DEF HoldInv, Queues, Shape, TurnShape, Writing, Entry
<1> HIDE DEF Writing
<1>1. CASE SwitchBegins(s) \/ SwitchActivates(s) \/ SwitchRebuilds(s)
  <2>1. UNCHANGED <<turn, agents, mainLock, fallbackLock>>
    BY <1>1 DEF SwitchBegins, SwitchActivates, SwitchRebuilds, besideSwitch
  <2> QED BY <2>1 DEF HoldInv, Queues, Holds
<1>2. CASE SwitchAsksMain(s)
  <2>1. UNCHANGED <<turn, agents, fallbackLock>> /\ mainLock' = Append(mainLock, Writing(s))
    BY <1>2 DEF SwitchAsksMain, besideSwitch
  <2>2. Queues'
    BY <1>0, <2>1, QueueFacts DEF Queues
  <2>3. \A c \in Chat : Granted(mainLock, c) => Granted(mainLock', c)
    BY <1>0, <2>1, JoinFacts
  <2> QED BY <2>1, <2>2, <2>3 DEF HoldInv, Holds
<1>3. CASE SwitchSwapsMain(s)
  <2>1. /\ UNCHANGED <<turn, fallbackLock>> /\ agents' = [agents EXCEPT !.main = switch[s].built.main]
        /\ mainLock' = Left(mainLock, s) /\ Granted(mainLock, s)
    BY <1>3 DEF SwitchSwapsMain, besideSwitch
  <2>2. Queues'
    BY <1>0, <2>1, QueueFacts DEF Queues
  <2>3. \A c \in Chat : turn[c].at \notin HasMain
    BY <1>0, <2>1, WriterAlone DEF HoldInv, Holds
  <2>4. \A c \in Chat : Holds(c)'
    BY <2>1, <2>3 DEF Holds, HasMain, HasFallback
  <2> QED BY <2>2, <2>4 DEF HoldInv
<1>4. CASE SwitchAsksFallback(s)
  <2>1. UNCHANGED <<turn, agents, mainLock>> /\ fallbackLock' = Append(fallbackLock, Writing(s))
    BY <1>4 DEF SwitchAsksFallback, besideSwitch
  <2>2. Queues'
    BY <1>0, <2>1, QueueFacts DEF Queues
  <2>3. \A c \in Chat : Granted(fallbackLock, c) => Granted(fallbackLock', c)
    BY <1>0, <2>1, JoinFacts
  <2> QED BY <2>1, <2>2, <2>3 DEF HoldInv, Holds
<1>5. CASE SwitchSwapsFallback(s)
  <2>1. /\ UNCHANGED <<turn, mainLock>>
        /\ agents' = [agents EXCEPT !.fallback = switch[s].built.fallback]
        /\ fallbackLock' = Left(fallbackLock, s) /\ Granted(fallbackLock, s)
    BY <1>5 DEF SwitchSwapsFallback, besideSwitch
  <2>2. Queues'
    BY <1>0, <2>1, QueueFacts DEF Queues
  <2>3. \A c \in Chat : turn[c].at \notin HasFallback
    BY <1>0, <2>1, WriterAlone DEF HoldInv, Holds
  <2>4. agents'.main = agents.main
    BY <1>0, <2>1 DEF Agents
  <2>5. \A c \in Chat : Holds(c)'
    BY <2>1, <2>3, <2>4 DEF HoldInv, Holds
  <2> QED BY <2>2, <2>5 DEF HoldInv
<1> QED BY <1>1, <1>2, <1>3, <1>4, <1>5 DEF Switched, SwitchStep

LEMMA HoldStep ==
    ASSUME HoldInv, Shape, Shape', Away, [LiveNext]_vars
    PROVE  HoldInv'
<1>1. ASSUME UNCHANGED <<turn, agents, mainLock, fallbackLock>> PROVE HoldInv'
  BY <1>1 DEF HoldInv, Queues, Holds
<1>2. CASE Killed
  <2>1. \A c \in Chat : turn'[c].at \in {"unbegun", "ended"}
    BY <1>2, EndedFacts DEF Killed
  <2>2. mainLock' = <<>> /\ fallbackLock' = <<>>
    BY <1>2 DEF Killed
  <2> QED BY <2>1, <2>2 DEF HoldInv, Queues, Writes, Holds, HasMain, HasFallback
<1>3. CASE Boot
  <2>1. \A c \in Chat : turn'[c].at \in {"unbegun", "ended"}
    BY <1>3 DEF Boot, GoLive, Away
  <2>2. UNCHANGED <<mainLock, fallbackLock>>
    BY <1>3 DEF Boot, locks
  <2> QED BY <2>1, <2>2 DEF HoldInv, Queues, Writes, Holds, HasMain, HasFallback
<1>4. CASE Beside(GateStep)
  BY <1>1, <1>4 DEF Beside, turnVars, locks
<1>5. CASE \E s \in Switcher : Switched(s)
  BY <1>5, SwitchHolds
<1>6. CASE RescanAsked \/ SettingsRescan
  <2>1. UNCHANGED <<turn, agents, mainLock, fallbackLock>>
    BY <1>6 DEF RescanAsked, SettingsRescan, besideSwitch
  <2> QED BY <1>1, <2>1
<1>7. CASE Turns
  BY <1>7, TurnHolds DEF Turns, Turned
<1>8. CASE \E c \in Chat : Rediscover(c) \/ ToolReads(c) \/ ToolWrites(c)
  BY <1>8, ToolHolds
<1>9. CASE EditLimits \/ WatchBegins \/ Noticed \/ Drained \/ Reread \/ Swapped
  BY <1>1, <1>9 DEF EditLimits, WatchBegins, Noticed, Drained, Reread, Swapped, WatchStep, turnVars, locks
<1>10. CASE UNCHANGED vars
  BY <1>1, <1>10 DEF vars, live, turnVars, locks
<1> QED BY <1>2, <1>3, <1>4, <1>5, <1>6, <1>7, <1>8, <1>9, <1>10
        DEF LiveNext, Switched

\* Neither a switch of the provider nor another turn takes an agent away from
\* a turn that talks to it: the fair locks keep the two apart.
THEOREM AgentsAreHeld == LiveSpec => []AgentsHeld
<1>1. LiveInit => HoldInv
  <2> SUFFICES ASSUME LiveInit PROVE HoldInv
    OBVIOUS
  <2>1. /\ mainLock = <<>> /\ fallbackLock = <<>>
        /\ \A c \in Chat : turn[c].at = "unbegun"
    BY EndedFacts DEF LiveInit, Opening, TurnInit
  <2> QED BY <2>1 DEF HoldInv, Queues, Writes, Holds, HasMain, HasFallback
<1>2. HoldInv /\ Shape /\ Shape' /\ Away /\ [LiveNext]_vars => HoldInv'
  BY HoldStep
<1>3. HoldInv => AgentsHeld
  BY DEF HoldInv, Holds, HasMain, HasFallback, AgentsHeld
<1> QED BY <1>1, <1>2, <1>3, ShapeAlways, AwayAlways, PTL DEF LiveSpec
===============================================================================
