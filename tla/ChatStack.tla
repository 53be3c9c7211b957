------------------------------ MODULE ChatStack ------------------------------
(***************************************************************************)
(* Chat messages that interrupt each other: handle_chat_with_interrupt,    *)
(* start_chat_turn and close_fork of src/daemon/mod.rs, and the turns they *)
(* spawn (Dispatcher::chat, src/dispatcher/mod.rs).                        *)
(*                                                                         *)
(* Every message a client sends is handled by a tokio task of its own,     *)
(* which starts exactly one turn, so a message names its handler, its turn *)
(* and, if it is given one, its fork.                                      *)
(***************************************************************************)
EXTENDS Naturals, Sequences, FiniteSets

CONSTANTS Msg,        \* messages clients send
          Main,       \* the id of entries that are not forks
          NoSummary   \* no summary has been written

ASSUME ChatAssumption == /\ IsFiniteSet(Msg)
                         /\ Main \notin Msg
                         /\ NoSummary \notin Msg

VARIABLES
    handler,     \* where the handler of each message is
    draft,       \* what the handler has gathered for its turn
    turn,        \* where each spawned turn is
    aborted,     \* turns whose abort handle has been used
    stack,       \* Dispatcher.chat_stack
    summary,     \* Dispatcher.chat_summary, by the turn that wrote it
    stored,      \* what has been appended to the turn's chat file
    remembered   \* main turns pushed on Dispatcher.chat_history

chatVars == <<handler, draft, turn, aborted, stack, summary, stored, remembered>>

HandlerPc == {"unsent", "classifying", "queued", "starting",
              "capturing", "pushing", "awaiting", "done"}

TurnPc == {"none", "thinking", "closing", "replied", "saving", "saved", "done",
           "failed", "cancelled"}

\* The messages merged into the turn, those that were pending when the stack
\* was looked at, the fork the turn is to run in, and the summary read for it.
Draft == [text : SUBSET Msg, pending : SUBSET Msg, fork : Msg \cup {Main},
          parent : Msg \cup {NoSummary}]

\* ForkEntry: its pending_message is the text of its turn's draft.
\* turn_active and fork_history are written and never read.
Entry == [turn : Msg, fork : Msg \cup {Main}, summary : Msg \cup {NoSummary},
          parent : Msg \cup {NoSummary}]

Top == stack[Len(stack)]
Pop == SubSeq(stack, 1, Len(stack) - 1)

InFork == stack # <<>> /\ Top.fork # Main

Init ==
    /\ handler = [m \in Msg |-> "unsent"]
    /\ draft = [m \in Msg |-> [text |-> {m}, pending |-> {}, fork |-> Main,
                               parent |-> NoSummary]]
    /\ turn = [m \in Msg |-> "none"]
    /\ aborted = {}
    /\ stack = <<>>
    /\ summary = NoSummary
    /\ stored = {}
    /\ remembered = {}

HandlerTo(m, pc) == handler' = [handler EXCEPT ![m] = pc]
TurnTo(m, pc)    == turn' = [turn EXCEPT ![m] = pc]

-----------------------------------------------------------------------------
(* handle_chat_with_interrupt                                              *)

\* The client's line is answered with "queued" and handled on its own.  An
\* empty stack: start a turn.  Else remember what is pending on top, and ask
\* the classifier.
Send(m) ==
    /\ handler[m] = "unsent"
    /\ IF stack = <<>>
       THEN HandlerTo(m, "starting") /\ UNCHANGED draft
       ELSE /\ HandlerTo(m, "classifying")
            /\ draft' = [draft EXCEPT ![m].pending = draft[Top.turn].text]
    /\ UNCHANGED <<turn, aborted, stack, summary, stored, remembered>>

\* Mutant: the request is cancelled and its entry left on the stack.
AmendInPlace(m) ==
    /\ handler[m] = "classifying"
    /\ aborted' = IF stack = <<>> THEN aborted ELSE aborted \cup {Top.turn}
    /\ draft' = [draft EXCEPT ![m].text = {m} \cup draft[m].pending]
    /\ HandlerTo(m, "starting")
    /\ UNCHANGED <<turn, stack, summary, stored, remembered>>

\* amend: pop whatever is on top by now and abort its turn; merge with what
\* was pending when the stack was looked at; start again as a main turn.
Amend(m) ==
    /\ handler[m] = "classifying"
    /\ IF stack = <<>>
       THEN UNCHANGED <<stack, aborted>>
       ELSE stack' = Pop /\ aborted' = aborted \cup {Top.turn}
    /\ draft' = [draft EXCEPT ![m].text = {m} \cup draft[m].pending]
    /\ HandlerTo(m, "starting")
    /\ UNCHANGED <<turn, summary, stored, remembered>>

\* queue (also when the classifier cannot be reached).
Queue(m) ==
    /\ handler[m] = "classifying"
    /\ HandlerTo(m, "queued")
    /\ UNCHANGED <<draft, turn, aborted, stack, summary, stored, remembered>>

\* The poll that ends the wait of a queued message.
Dequeue(m) ==
    /\ handler[m] = "queued"
    /\ stack = <<>>
    /\ HandlerTo(m, "starting")
    /\ UNCHANGED <<draft, turn, aborted, stack, summary, stored, remembered>>

\* fork: the turn will run under an id of its own.
Fork(m) ==
    /\ handler[m] = "classifying"
    /\ draft' = [draft EXCEPT ![m].fork = m]
    /\ HandlerTo(m, "starting")
    /\ UNCHANGED <<turn, aborted, stack, summary, stored, remembered>>

-----------------------------------------------------------------------------
(* start_chat_turn                                                         *)

\* The turn runs from here on, before it is on the stack.
Spawn(m) ==
    /\ handler[m] = "starting"
    /\ TurnTo(m, "thinking")
    /\ HandlerTo(m, "capturing")
    /\ UNCHANGED <<draft, aborted, stack, summary, stored, remembered>>

\* The summary its entry will restore, read under a lock of its own.
Capture(m) ==
    /\ handler[m] = "capturing"
    /\ draft' = [draft EXCEPT ![m].parent = summary]
    /\ HandlerTo(m, "pushing")
    /\ UNCHANGED <<turn, aborted, stack, summary, stored, remembered>>

\* Mutant: the push is repeated.
PushAgain(m) ==
    /\ handler[m] = "pushing"
    /\ stack' = Append(stack, [turn |-> m, fork |-> draft[m].fork,
                               summary |-> draft[m].parent, parent |-> draft[m].parent])
    /\ UNCHANGED <<handler, draft, turn, aborted, summary, stored, remembered>>

Push(m) ==
    /\ handler[m] = "pushing"
    /\ stack' = Append(stack, [turn |-> m, fork |-> draft[m].fork,
                               summary |-> draft[m].parent, parent |-> draft[m].parent])
    /\ HandlerTo(m, "awaiting")
    /\ UNCHANGED <<draft, turn, aborted, summary, stored, remembered>>

\* Mutant: a main entry stays like a fork's.
CompleteKeeping(m) ==
    /\ handler[m] = "awaiting"
    /\ turn[m] \in {"done", "failed"}
    /\ HandlerTo(m, "done")
    /\ UNCHANGED <<draft, turn, aborted, stack, summary, stored, remembered>>

\* The turn is over: pop the top if it is a main entry, whosever it is, and
\* send the response.
Complete(m) ==
    /\ handler[m] = "awaiting"
    /\ turn[m] \in {"done", "failed"}
    /\ stack' = IF stack = <<>> \/ InFork THEN stack ELSE Pop
    /\ HandlerTo(m, "done")
    /\ UNCHANGED <<draft, turn, aborted, summary, stored, remembered>>

\* The turn was aborted: the handler returns without a word.
Vanish(m) ==
    /\ handler[m] = "awaiting"
    /\ turn[m] = "cancelled"
    /\ HandlerTo(m, "done")
    /\ UNCHANGED <<draft, turn, aborted, stack, summary, stored, remembered>>

\* handle_close_fork (Esc in the TUI): pop the top if it is a fork, abort it.
CloseFork ==
    /\ InFork
    /\ stack' = Pop
    /\ aborted' = aborted \cup {Top.turn}
    /\ UNCHANGED <<handler, draft, turn, summary, stored, remembered>>

-----------------------------------------------------------------------------
(* Dispatcher::chat                                                        *)

\* gitzi_close_fork, called by the model: the top is a fork ...
CheckFork(m) ==
    /\ turn[m] = "thinking"
    /\ InFork
    /\ TurnTo(m, "closing")
    /\ UNCHANGED <<handler, draft, aborted, stack, summary, stored, remembered>>

\* Mutant: the fork's summary replaces the parent's.
PopForkIntoParent(m) ==
    /\ turn[m] = "closing"
    /\ IF stack = <<>>
       THEN UNCHANGED <<stack, summary>>
       ELSE stack' = Pop /\ summary' = Top.summary
    /\ TurnTo(m, "thinking")
    /\ UNCHANGED <<handler, draft, aborted, stored, remembered>>

\* ... and under another lock the top is popped, and the summary it was
\* opened with restored.
PopFork(m) ==
    /\ turn[m] = "closing"
    /\ IF stack = <<>>
       THEN UNCHANGED <<stack, summary>>
       ELSE stack' = Pop /\ summary' = Top.parent
    /\ TurnTo(m, "thinking")
    /\ UNCHANGED <<handler, draft, aborted, stored, remembered>>

\* The model answers, with a new summary or without.  A fork's turn writes
\* its summary to the entry on top, a main turn to chat_summary.
Reply(m) ==
    /\ turn[m] = "thinking"
    /\ \/ UNCHANGED <<stack, summary>>
       \/ /\ draft[m].fork = Main
          /\ summary' = m
          /\ UNCHANGED stack
       \/ /\ draft[m].fork # Main
          /\ stack # <<>>
          /\ stack' = [stack EXCEPT ![Len(stack)].summary = m]
          /\ UNCHANGED summary
    /\ TurnTo(m, "replied")
    /\ UNCHANGED <<handler, draft, aborted, stored, remembered>>

\* No backend answered.
FailTurn(m) ==
    /\ turn[m] = "thinking"
    /\ TurnTo(m, "failed")
    /\ UNCHANGED <<handler, draft, aborted, stack, summary, stored, remembered>>

\* Append the user's message and then the answer to the chat file ...
Save(m) ==
    /\ \/ turn[m] = "replied" /\ stored' = stored \cup {<<m, "user">>}  /\ TurnTo(m, "saving")
       \/ turn[m] = "saving"  /\ stored' = stored \cup {<<m, "agent">>} /\ TurnTo(m, "saved")
    /\ UNCHANGED <<handler, draft, aborted, stack, summary, remembered>>

\* Mutant: the history in memory is updated first.
RememberFirst(m) ==
    /\ turn[m] = "replied"
    /\ remembered' = IF draft[m].fork = Main THEN remembered \cup {m} ELSE remembered
    /\ TurnTo(m, "done")
    /\ UNCHANGED <<handler, draft, aborted, stack, summary, stored>>

\* ... and under the history's lock both to memory.  (A fork's turn adds them
\* to its entry instead.)
Remember(m) ==
    /\ turn[m] = "saved"
    /\ remembered' = IF draft[m].fork = Main THEN remembered \cup {m} ELSE remembered
    /\ TurnTo(m, "done")
    /\ UNCHANGED <<handler, draft, aborted, stack, summary, stored>>

\* An abort takes effect where the turn awaits something; until then it goes
\* on.  (The last await of PopFork is between its pop and its restore.)
Cancel(m) ==
    /\ m \in aborted
    /\ \/ turn[m] \in {"thinking", "closing", "saved"} /\ UNCHANGED stack
       \/ turn[m] = "closing" /\ stack # <<>> /\ stack' = Pop
    /\ TurnTo(m, "cancelled")
    /\ UNCHANGED <<handler, draft, aborted, summary, stored, remembered>>

-----------------------------------------------------------------------------

HandlerStep(m) ==
    \/ Amend(m) \/ Queue(m) \/ Dequeue(m)  \/ Fork(m)
    \/ Spawn(m) \/ Capture(m) \/ Push(m) \/ Complete(m) \/ Vanish(m)

TurnStep(m) == PopFork(m) \/ Reply(m) \/ FailTurn(m) \/ Save(m) \/ Remember(m) \/ Cancel(m)

Next ==
    \/ \E m \in Msg : Send(m) \/ HandlerStep(m) \/ TurnStep(m) \/ CheckFork(m)
    \/ CloseFork

Spec == Init /\ [][Next]_chatVars

\* Tokio runs every handler and turn; a backend answers or fails.
ChatSpec == /\ Spec
            /\ \A m \in Msg : WF_chatVars(HandlerStep(m)) /\ WF_chatVars(TurnStep(m))

-----------------------------------------------------------------------------
(* Properties                                                              *)

Forked == \E m \in Msg : draft[m].fork # Main

\* Turns somebody is waiting for and nobody has aborted.
Live == {m \in Msg : handler[m] = "awaiting" /\ m \notin aborted}

\* The shape of the state; a message is on the stack at most once.
TypeOK ==
    /\ handler \in [Msg -> HandlerPc]
    /\ draft \in [Msg -> Draft]
    /\ turn \in [Msg -> TurnPc]
    /\ aborted \subseteq Msg
    /\ stack \in Seq(Entry)
    /\ \A i, j \in DOMAIN stack : stack[i].turn = stack[j].turn => i = j
    /\ summary \in Msg \cup {NoSummary}
    /\ stored \subseteq Msg \X {"user", "agent"}
    /\ remembered \subseteq Msg

\* As long as nobody has forked, the stack holds no more entries than turns
\* that are live: completions and amends pop entries that need not be their
\* own, yet none is left behind to keep queued messages waiting.
StackCovered == ~Forked => Len(stack) <= Cardinality(Live)

\* The history in memory mirrors the chat file: what is remembered has been
\* stored, and what is stored is remembered unless its turn is still at it
\* or was aborted.
HistoryMirrorsFile ==
    \A m \in Msg :
        /\ m \in remembered => {<<m, "user">>, <<m, "agent">>} \subseteq stored
        /\ draft[m].fork = Main /\ <<m, "user">> \in stored /\ m \notin remembered
              => turn[m] \in {"saving", "saved"} \/ m \in aborted

\* The main conversation's summary was written by a turn of the main
\* conversation, whatever forks were opened and closed meanwhile.
SummaryOfMain == summary # NoSummary => draft[summary].fork = Main

\* A queued message is started sooner or later, unless somebody forks (the
\* fork's entry stays until it is closed, and the queue waits for it).
QueuedStarts == \A m \in Msg : handler[m] = "queued" ~> handler[m] # "queued" \/ Forked

\* The message of a main turn that is aborted goes on in the turn that
\* replaces it: "cancel the in-flight request, merge messages, retry as one
\* turn".
AbortedIsMerged ==
    [][\A t \in aborted' \ aborted :
          draft[t].fork = Main =>
              \E m \in Msg : /\ handler[m] = "classifying"
                             /\ handler'[m] = "starting"
                             /\ draft[t].text \subseteq draft'[m].text]_chatVars
=============================================================================
