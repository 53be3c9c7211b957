------------------------------ MODULE CodingLoop ------------------------------
(***************************************************************************)
(* The tool loop of a coding agent (src/agent/coding_agent.rs) and the     *)
(* request it makes each round, with its one retry                         *)
(* (src/agent/llm_client.rs).  What a tool does to the checkout it runs in *)
(* is a matter of AgentWork; here is the conversation.                     *)
(***************************************************************************)
EXTENDS Naturals, SequencesExt

CONSTANTS
    Session,        \* coding agents, each named for the task it works on
    MaxRounds,      \* MAX_ROUNDS
    MaxExchanges,   \* MAX_CONTEXT_EXCHANGES
    MaxCalls        \* bounds the tool calls of one answer

ASSUME LoopAssumption ==
    /\ {MaxRounds, MaxExchanges, MaxCalls} \subseteq Nat \ {0}

VARIABLE loop   \* the run of each task's agent

\* n: of an assistant message the number of its tool calls, of a tool message
\* which call of its round it answers.
Message == [role : {"system", "user", "assistant", "tool"}, round : 0 .. MaxRounds - 1, n : Nat]

Preamble == <<[role |-> "system", round |-> 0, n |-> 0], [role |-> "user", round |-> 0, n |-> 0]>>

\* next: the tool call to execute.
Idle == [pc |-> "idle", round |-> 0, messages |-> <<>>, next |-> 1]

Starts(messages) == {i \in DOMAIN messages : messages[i].role = "assistant"}

\* Mutant: the last messages are kept, wherever an exchange starts.
WindowOfMessages(messages) ==
    IF Len(messages) <= 2 * MaxExchanges THEN messages
    ELSE Preamble \o SubSeq(messages, Len(messages) - 2 * MaxExchanges + 1, Len(messages))

\* window_messages: the preamble and the last exchanges, each from its
\* assistant message on.
Window(messages) ==
    IF Cardinality(Starts(messages)) <= MaxExchanges THEN messages
    ELSE LET from == CHOOSE i \in Starts(messages) :
                        Cardinality({j \in Starts(messages) : j >= i}) = MaxExchanges
         IN  Preamble \o SubSeq(messages, from, Len(messages))

-----------------------------------------------------------------------------
(* The steps of a run                                                      *)

At(t, pc) == loop[t].pc = pc
Goes(t, pc) == loop' = [loop EXCEPT ![t].pc = pc]

\* run returns, and its conversation is gone.
Returns(t, how) == loop' = [loop EXCEPT ![t] = [Idle EXCEPT !.pc = how]]

Running(t) == loop[t].pc \notin {"idle", "done", "failed"}

\* run, up to the first request.
BeginRun(t) == loop' = [loop EXCEPT ![t] = [Idle EXCEPT !.pc = "ask", !.messages = Preamble]]

\* The model answers with text, and the run is over, ...
AnswersText(t) ==
    /\ At(t, "ask") \/ At(t, "again")
    /\ Returns(t, "done")

\* ... or with tool calls.
AnswersCalls(t) ==
    /\ At(t, "ask") \/ At(t, "again")
    /\ \E n \in 1 .. MaxCalls :
          loop' = [loop EXCEPT ![t].pc = "tools", ![t].next = 1,
                               ![t].messages = Append(@, [role |-> "assistant",
                                                          round |-> loop[t].round, n |-> n])]

\* An error status, a body that does not parse, no choices: the run fails.
Refuses(t) ==
    /\ At(t, "ask") \/ At(t, "again")
    /\ Returns(t, "failed")

\* Mutant: the retry is a retry of the whole call.
UnreachableStill(t) ==
    /\ At(t, "ask") \/ At(t, "again")
    /\ Goes(t, "start")

\* No connection, or none in time: LM Studio is started once.
Unreachable(t) ==
    \/ At(t, "ask") /\ Goes(t, "start")
    \/ At(t, "again") /\ Returns(t, "failed")

\* wait_for_server.
ServerAwaited(t) ==
    /\ At(t, "start")
    /\ Goes(t, "again") \/ Returns(t, "failed")

Calls(t) == loop[t].messages[Max(Starts(loop[t].messages))].n

\* Mutant: one round too many.
ReplyOnceMore(t) ==
    LET over == loop[t].next = Calls(t)
    IN  IF over /\ loop[t].round = MaxRounds THEN Returns(t, "failed")
        ELSE loop' = [loop EXCEPT
                ![t].messages = Append(@, [role |-> "tool", round |-> loop[t].round,
                                           n |-> loop[t].next]),
                ![t].next = IF over THEN 1 ELSE @ + 1,
                ![t].round = IF over THEN @ + 1 ELSE @,
                ![t].pc = IF over THEN "ask" ELSE @]

\* A tool call has been executed, or only acknowledged: its reply is added.
\* After the last one comes the next round, if there is one.
Reply(t) ==
    LET over == loop[t].next = Calls(t)
    IN  IF over /\ loop[t].round + 1 = MaxRounds THEN Returns(t, "failed")
        ELSE loop' = [loop EXCEPT
                ![t].messages = Append(@, [role |-> "tool", round |-> loop[t].round,
                                           n |-> loop[t].next]),
                ![t].next = IF over THEN 1 ELSE @ + 1,
                ![t].round = IF over THEN @ + 1 ELSE @,
                ![t].pc = IF over THEN "ask" ELSE @]

-----------------------------------------------------------------------------
(* Properties                                                              *)

LoopTypeOK ==
    \A t \in Session :
        /\ loop[t].pc \in {"idle", "ask", "start", "again", "tools", "done", "failed"}
        /\ loop[t].round \in 0 .. MaxRounds - 1
        /\ loop[t].messages \in Seq(Message)
        /\ loop[t].next \in 1 .. MaxCalls

\* A conversation a model accepts: every reply follows the call it answers and
\* every call is answered before the next request.
Paired(messages) ==
    /\ \A i \in DOMAIN messages : messages[i].role = "tool" =>
          \E j \in Starts(messages) : /\ j < i /\ messages[j].round = messages[i].round
                                      /\ messages[i].n \in 1 .. messages[j].n
    /\ \A j \in Starts(messages), n \in 1 .. MaxCalls : n <= messages[j].n =>
          Cardinality({i \in DOMAIN messages : messages[i] =
                          [role |-> "tool", round |-> messages[j].round, n |-> n]}) = 1

\* What is sent to the model each round is a conversation it accepts, still
\* begins with the task, ends with the latest exchange and is bounded, however
\* many calls the answers had (window_messages).
WindowPaired ==
    \A t \in Session : At(t, "ask") =>
        LET sent == Window(loop[t].messages)
        IN  /\ Paired(sent)
            /\ IsPrefix(Preamble, sent)
            /\ Last(sent) = Last(loop[t].messages)
            /\ Len(sent) <= 2 + MaxExchanges * (1 + MaxCalls)
===============================================================================
