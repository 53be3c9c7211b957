--------------------------- MODULE ChatStackProofs ---------------------------
(***************************************************************************)
(* For any number of messages: the stack of chat turns is well formed and, *)
(* without forks, never outgrows the turns that are live; the history in   *)
(* memory mirrors the chat file; and the summary is the main               *)
(* conversation's.                                                         *)
(***************************************************************************)
EXTENDS ChatStack, FiniteSetTheorems, SequenceTheorems, TLAPS

-----------------------------------------------------------------------------
(* The inductive invariant.                                                *)

\* What is on the stack, or has been taken off it by an abort, has been
\* pushed by its handler, which is past that point.
Pushed(m) == handler[m] \in {"awaiting", "done"}

EntriesPushed == \A i \in DOMAIN stack : /\ Pushed(stack[i].turn)
                                         /\ stack[i].fork = draft[stack[i].turn].fork

AbortedPushed == \A m \in aborted : Pushed(m)

\* Only an abort cancels a turn.
CancelledAborted == \A m \in Msg : turn[m] = "cancelled" => m \in aborted

IInv == TypeOK /\ EntriesPushed /\ AbortedPushed /\ CancelledAborted /\ StackCovered

-----------------------------------------------------------------------------
(* Lemmas.                                                                 *)

\* What pop leaves of the stack, and what it removes.
LEMMA PopFacts ==
    ASSUME stack \in Seq(Entry), stack # <<>>
    PROVE  /\ Pop \in Seq(Entry) /\ Len(Pop) = Len(stack) - 1
           /\ \A i \in DOMAIN Pop : i \in DOMAIN stack /\ Pop[i] = stack[i]
           /\ Len(stack) \in DOMAIN stack /\ Top \in Entry
<1>1. Len(stack) \in Nat /\ Len(stack) # 0 /\ DOMAIN stack = 1..Len(stack)
  OBVIOUS
<1>2. Len(stack) \in DOMAIN stack /\ Top \in Entry
  BY <1>1 DEF Top
<1>3. Pop = [i \in 1..Len(stack) - 1 |-> stack[i]]
  BY <1>1 DEF Pop
<1>4. Pop \in Seq(Entry) /\ Len(Pop) = Len(stack) - 1
  BY <1>1, SubSeqProperties DEF Pop
<1> QED BY <1>1, <1>2, <1>3, <1>4

\* Live turns can be counted, before and after a step.
LEMMA LiveFacts ==
    /\ IsFiniteSet(Live) /\ Cardinality(Live) \in Nat
    /\ IsFiniteSet(Live') /\ Cardinality(Live') \in Nat
<1>1. Live \in SUBSET Msg /\ Live' \in SUBSET Msg
  BY DEF Live
<1> QED BY <1>1, ChatAssumption, FS_Subset, FS_CardinalityType

\* A set that grows counts no less.
LEMMA CardGrows ==
    ASSUME NEW S, NEW T, IsFiniteSet(T), S \subseteq T
    PROVE  Cardinality(S) <= Cardinality(T)
BY FS_Subset

\* A set that loses at most one element counts at most one less.
LEMMA CardLosesOne ==
    ASSUME NEW S, NEW T, NEW e, IsFiniteSet(S), IsFiniteSet(T), S \subseteq T \cup {e}
    PROVE  Cardinality(S) - 1 <= Cardinality(T)
<1>0. Cardinality(T) \in Nat
  BY FS_CardinalityType
<1>1. IsFiniteSet(T \cup {e}) /\ Cardinality(T \cup {e}) <= Cardinality(T) + 1
  <2>1. /\ IsFiniteSet(T \cup {e})
        /\ Cardinality(T \cup {e}) = IF e \in T THEN Cardinality(T) ELSE Cardinality(T) + 1
    BY FS_AddElement
  <2> QED BY <1>0, <2>1
<1>2. Cardinality(S) <= Cardinality(T \cup {e})
  BY <1>1, CardGrows
<1>3. /\ Cardinality(S) \in Nat /\ Cardinality(T) \in Nat
      /\ Cardinality(T \cup {e}) \in Nat
  BY <1>1, FS_CardinalityType
<1> QED BY <1>1, <1>2, <1>3

\* Nobody's fork is ever taken back.
LEMMA ForkedStays ==
    ASSUME TypeOK, [Next]_chatVars, Forked
    PROVE  Forked'
<1>1. PICK m \in Msg : draft[m].fork # Main
  BY DEF Forked
<1>2. \A n \in Msg : Fork(n) => draft'[m].fork # Main
  BY <1>1, ChatAssumption DEF Fork, TypeOK, Draft
<1>3. \A n \in Msg : Send(n) \/ Amend(n) \/ Capture(n) => draft'[m].fork # Main
  BY <1>1 DEF Send, Amend, Capture, TypeOK, Draft
<1>4. UNCHANGED draft => draft'[m].fork # Main
  BY <1>1
<1>5. draft'[m].fork # Main
  BY <1>2, <1>3, <1>4 DEF Next, HandlerStep, TurnStep, chatVars, Queue, Dequeue, Spawn, Push,
     Complete, Vanish, CloseFork, CheckFork, PopFork, Reply, FailTurn, Save, Remember, Cancel
<1> QED BY <1>5 DEF Forked

\* Without forks the top of the stack is a main turn.
LEMMA NoForkOnTop ==
    ASSUME TypeOK, EntriesPushed, ~Forked
    PROVE  ~InFork
BY PopFacts DEF TypeOK, EntriesPushed, Forked, InFork, Top, Entry

-----------------------------------------------------------------------------
(* The invariant is inductive.                                             *)

LEMMA InitInv == Init => IInv
<1> SUFFICES ASSUME Init PROVE IInv
  OBVIOUS
<1>1. TypeOK
  BY ChatAssumption DEF Init, TypeOK, HandlerPc, TurnPc, Draft
<1>2. EntriesPushed /\ AbortedPushed /\ CancelledAborted
  BY DEF Init, EntriesPushed, AbortedPushed, CancelledAborted
<1>3. Len(stack) = 0
  BY DEF Init
<1> QED BY <1>1, <1>2, <1>3, LiveFacts DEF IInv, StackCovered

\* A step that takes an entry off the stack, or leaves the stack alone,
\* leaves pushed entries.
LEMMA PopKeepsEntries ==
    ASSUME IInv, [Next]_chatVars,
           stack' = stack \/ (stack # <<>> /\ stack' = Pop)
    PROVE  /\ stack' \in Seq(Entry)
           /\ \A i, j \in DOMAIN stack' : stack'[i].turn = stack'[j].turn => i = j
           /\ \A i \in DOMAIN stack' : i \in DOMAIN stack /\ stack'[i] = stack[i]
           /\ Len(stack') <= Len(stack)
BY PopFacts DEF IInv, TypeOK

\* The turn of an entry is that of a message.
LEMMA EntryTurn ==
    ASSUME stack \in Seq(Entry), NEW i \in DOMAIN stack
    PROVE  stack[i].turn \in Msg
<1>1. stack[i] \in Entry
  OBVIOUS
<1> QED BY <1>1 DEF Entry

\* Writing a summary to the top leaves the stack as it was otherwise.
LEMMA SummaryEntry ==
    ASSUME stack \in Seq(Entry), NEW m \in Msg, stack # <<>>,
           stack' = [stack EXCEPT ![Len(stack)].summary = m]
    PROVE  /\ stack' \in Seq(Entry) /\ Len(stack') = Len(stack) /\ DOMAIN stack' = DOMAIN stack
           /\ \A i \in DOMAIN stack : /\ stack'[i].turn = stack[i].turn
                                      /\ stack'[i].fork = stack[i].fork
                                      /\ stack'[i].parent = stack[i].parent
<1> DEFINE e == [Top EXCEPT !.summary = m]
<1>1. Len(stack) \in DOMAIN stack /\ Top \in Entry
  BY PopFacts
<1>2. e \in Entry /\ e.turn = Top.turn /\ e.fork = Top.fork /\ e.parent = Top.parent
  BY <1>1 DEF Entry
<1>3. stack' = [stack EXCEPT ![Len(stack)] = e]
  BY DEF Top
<1> HIDE DEF e
<1>4. stack' \in Seq(Entry) /\ Len(stack') = Len(stack)
  BY <1>1, <1>2, <1>3, ExceptSeq
<1> QED BY <1>1, <1>2, <1>3, <1>4 DEF Top

\* A handler that has pushed stays past that point, in the same fork.
LEMMA PushedStays ==
    ASSUME TypeOK, [Next]_chatVars, NEW n \in Msg, Pushed(n)
    PROVE  Pushed(n)' /\ draft'[n].fork = draft[n].fork
<1>1. ASSUME NEW m \in Msg, HandlerStep(m) \/ Send(m)
      PROVE  Pushed(n)' /\ draft'[n].fork = draft[n].fork
  BY <1>1 DEF Pushed, TypeOK, Draft, HandlerStep, HandlerTo, Send, Amend, Queue, Dequeue, Fork,
     Spawn, Capture, Push, Complete, Vanish
<1>2. ASSUME UNCHANGED <<handler, draft>>
      PROVE  Pushed(n)' /\ draft'[n].fork = draft[n].fork
  BY <1>2 DEF Pushed
<1> QED BY <1>1, <1>2 DEF Next, TurnStep, chatVars, CloseFork, CheckFork, PopFork, Reply,
        FailTurn, Save, Remember, Cancel

\* Every step keeps the types and the entries of the stack apart.
LEMMA TypeStep == ASSUME IInv, [Next]_chatVars PROVE TypeOK'
<1> USE DEF IInv, TypeOK, HandlerPc, TurnPc
<1>1. ASSUME NEW m \in Msg, Send(m) PROVE TypeOK'
  <2>1. stack # <<>> => draft[Top.turn].text \in SUBSET Msg
    BY PopFacts DEF Entry, Draft
  <2> QED BY <1>1, <2>1 DEF Send, HandlerTo, Draft
<1>2. ASSUME NEW m \in Msg, Amend(m) PROVE TypeOK'
  <2>1. aborted' \subseteq Msg
    BY <1>2, PopFacts DEF Amend, Entry
  <2>2. stack' = stack \/ (stack # <<>> /\ stack' = Pop)
    BY <1>2 DEF Amend
  <2> QED BY <1>2, <2>1, <2>2, PopKeepsEntries DEF Amend, HandlerTo, Draft
<1>3. ASSUME NEW m \in Msg, Queue(m) \/ Dequeue(m) \/ Fork(m) \/ Spawn(m) \/ Capture(m) \/ Vanish(m)
      PROVE  TypeOK'
  <2>1. handler' \in [Msg -> HandlerPc] /\ turn' \in [Msg -> TurnPc]
    BY <1>3 DEF Queue, Dequeue, Fork, Spawn, Capture, Vanish, HandlerTo, TurnTo
  <2>2. draft' \in [Msg -> Draft]
    BY <1>3 DEF Queue, Dequeue, Fork, Spawn, Capture, Vanish, Draft
  <2> QED BY <1>3, <2>1, <2>2 DEF Queue, Dequeue, Fork, Spawn, Capture, Vanish
<1>4. ASSUME NEW m \in Msg, Push(m) PROVE TypeOK'
  <2> DEFINE e == [turn |-> m, fork |-> draft[m].fork,
                   summary |-> draft[m].parent, parent |-> draft[m].parent]
  <2>1. e \in Entry /\ stack' = Append(stack, e)
    BY <1>4 DEF Push, Entry, Draft
  <2>2. ~Pushed(m)
    BY <1>4 DEF Push, Pushed
  <2>3. \A i \in DOMAIN stack : stack[i].turn # m
    BY <2>2 DEF EntriesPushed
  <2>4. /\ stack' \in Seq(Entry)
        /\ \A i, j \in DOMAIN stack' : stack'[i].turn = stack'[j].turn => i = j
    <3>1. e.turn = m
      OBVIOUS
    <3> HIDE DEF e
    <3> QED BY <2>1, <2>3, <3>1
  <2> QED BY <1>4, <2>4 DEF Push, HandlerTo
<1>5. ASSUME NEW m \in Msg, Complete(m) \/ PopFork(m) \/ Cancel(m) PROVE TypeOK'
  <2>1. stack' = stack \/ (stack # <<>> /\ stack' = Pop)
    BY <1>5 DEF Complete, PopFork, Cancel
  <2>2. summary' \in Msg \cup {NoSummary}
    BY <1>5, PopFacts DEF Complete, PopFork, Cancel, Entry
  <2> QED BY <1>5, <2>1, <2>2, PopKeepsEntries DEF Complete, PopFork, Cancel, HandlerTo, TurnTo
<1>6. CASE CloseFork
  <2>1. stack # <<>> /\ stack' = Pop /\ aborted' \subseteq Msg
    BY <1>6, PopFacts DEF CloseFork, InFork, Entry
  <2> QED BY <1>6, <2>1, PopKeepsEntries DEF CloseFork
<1>7. ASSUME NEW m \in Msg, CheckFork(m) \/ FailTurn(m) \/ Save(m) \/ Remember(m)
      PROVE  TypeOK'
  BY <1>7 DEF CheckFork, FailTurn, Save, Remember, TurnTo
<1>8. ASSUME NEW m \in Msg, Reply(m) PROVE TypeOK'
  <2>1. /\ stack' \in Seq(Entry) /\ DOMAIN stack' = DOMAIN stack
        /\ \A i \in DOMAIN stack : stack'[i].turn = stack[i].turn
    BY <1>8, SummaryEntry DEF Reply
  <2> QED BY <1>8, <2>1 DEF Reply, TurnTo
<1>9. CASE UNCHANGED chatVars
  BY <1>9 DEF chatVars
<1> QED BY <1>1, <1>2, <1>3, <1>4, <1>5, <1>6, <1>7, <1>8, <1>9 DEF Next, HandlerStep, TurnStep

\* Every step leaves on the stack what has been pushed, in the fork it was
\* pushed for.
LEMMA EntriesStep == ASSUME IInv, [Next]_chatVars PROVE EntriesPushed'
<1> USE DEF IInv
<1>1. ASSUME NEW m \in Msg, Push(m) PROVE EntriesPushed'
  <2> DEFINE e == [turn |-> m, fork |-> draft[m].fork,
                   summary |-> draft[m].parent, parent |-> draft[m].parent]
  <2>1. stack' = Append(stack, e) /\ Pushed(m)' /\ draft' = draft
    BY <1>1 DEF Push, Pushed, HandlerTo, TypeOK
  <2>2. e.turn = m /\ e.fork = draft[m].fork
    OBVIOUS
  <2> HIDE DEF e
  <2>3. stack \in Seq(Entry)
    BY DEF TypeOK
  <2>4. ASSUME NEW i \in DOMAIN stack'
        PROVE  /\ handler'[stack'[i].turn] \in {"awaiting", "done"}
               /\ stack'[i].fork = draft'[stack'[i].turn].fork
    <3>1. CASE i = Len(stack) + 1
      BY <2>1, <2>2, <2>3, <3>1 DEF Pushed
    <3>2. CASE i # Len(stack) + 1
      <4>1. i \in DOMAIN stack /\ stack'[i] = stack[i]
        BY <2>1, <2>3, <3>2
      <4>2. stack[i].turn \in Msg
        BY <4>1, EntryTurn DEF TypeOK
      <4> QED BY <4>1, <4>2, PushedStays DEF EntriesPushed, Pushed
    <3> QED BY <3>1, <3>2
  <2> QED BY <2>4 DEF EntriesPushed, Pushed
<1>2. ASSUME stack' \in Seq(Entry),
             \A i \in DOMAIN stack' : /\ i \in DOMAIN stack
                                       /\ stack'[i].turn = stack[i].turn
                                       /\ stack'[i].fork = stack[i].fork
      PROVE  EntriesPushed'
  <2>1. \A i \in DOMAIN stack : stack[i].turn \in Msg
    BY EntryTurn DEF TypeOK
  <2> QED BY <1>2, <2>1, PushedStays DEF EntriesPushed, Pushed
<1>3. ASSUME stack' = stack \/ (stack # <<>> /\ stack' = Pop) PROVE EntriesPushed'
  BY <1>2, <1>3, PopKeepsEntries
<1>4. ASSUME NEW m \in Msg, Reply(m) PROVE EntriesPushed'
  BY <1>2, <1>3, <1>4, SummaryEntry DEF Reply, TypeOK
<1>5. ASSUME NEW m \in Msg, HandlerStep(m) \/ Send(m), ~Push(m)
      PROVE  stack' = stack \/ (stack # <<>> /\ stack' = Pop)
  BY <1>5 DEF HandlerStep, Send, Amend, Queue, Dequeue, Fork, Spawn, Capture, Complete, Vanish
<1>6. ASSUME NEW m \in Msg, TurnStep(m) \/ CheckFork(m), ~Reply(m)
      PROVE  stack' = stack \/ (stack # <<>> /\ stack' = Pop)
  BY <1>6 DEF TurnStep, CheckFork, PopFork, FailTurn, Save, Remember, Cancel
<1>7. CloseFork \/ UNCHANGED chatVars => stack' = stack \/ (stack # <<>> /\ stack' = Pop)
  BY DEF CloseFork, InFork, chatVars
<1> QED BY <1>1, <1>3, <1>4, <1>5, <1>6, <1>7 DEF Next

\* Every step aborts turns on the stack only, and cancels aborted turns only.
LEMMA AbortStep == ASSUME IInv, [Next]_chatVars PROVE AbortedPushed' /\ CancelledAborted'
<1> USE DEF IInv
<1>1. \A n \in aborted' \ aborted : stack # <<>> /\ n = Top.turn
  BY DEF Next, HandlerStep, TurnStep, chatVars, Send, Amend, Queue, Dequeue, Fork, Spawn, Capture,
     Push, Complete, Vanish, CloseFork, InFork, CheckFork, PopFork, Reply, FailTurn, Save,
     Remember, Cancel
<1>2. \A n \in aborted' : n \in Msg /\ Pushed(n)
  BY <1>1, PopFacts DEF AbortedPushed, EntriesPushed, TypeOK, Entry, Top
<1>3. AbortedPushed'
  BY <1>2, PushedStays DEF AbortedPushed
<1>4. aborted \subseteq aborted'
  BY DEF Next, HandlerStep, TurnStep, chatVars, Send, Amend, Queue, Dequeue, Fork, Spawn, Capture,
     Push, Complete, Vanish, CloseFork, CheckFork, PopFork, Reply, FailTurn, Save, Remember, Cancel
<1>5. \A n \in Msg : turn'[n] = "cancelled" => turn[n] = "cancelled" \/ n \in aborted
  BY DEF Next, HandlerStep, TurnStep, chatVars, Send, Amend, Queue, Dequeue, Fork, Spawn, Capture,
     Push, Complete, Vanish, CloseFork, CheckFork, PopFork, Reply, FailTurn, Save, Remember, Cancel,
     TurnTo, TypeOK
<1> QED BY <1>3, <1>4, <1>5 DEF CancelledAborted

\* Without forks, a step that shortens the stack by an entry ends or aborts
\* one live turn at most, and one that lengthens it starts one.
LEMMA CoveredStep == ASSUME IInv, [Next]_chatVars PROVE StackCovered'
<1> SUFFICES ASSUME ~Forked' PROVE Len(stack)' <= Cardinality(Live)'
  BY DEF StackCovered
<1> USE DEF IInv
<1>0. ~Forked /\ ~InFork
  BY ForkedStays, NoForkOnTop
<1>1. Len(stack) \in Nat /\ Len(stack) <= Cardinality(Live)
  BY <1>0 DEF StackCovered, TypeOK
<1>2. ASSUME Live \subseteq Live', stack' = stack \/ (stack # <<>> /\ stack' = Pop)
      PROVE  Len(stack)' <= Cardinality(Live)'
  <2>1. Cardinality(Live) <= Cardinality(Live')
    BY <1>2, LiveFacts, CardGrows
  <2>2. Len(stack') <= Len(stack) /\ Len(stack') \in Nat
    BY <1>2, PopFacts DEF TypeOK
  <2> QED BY <1>1, <2>1, <2>2, LiveFacts
<1>3. ASSUME NEW e, Live \subseteq Live' \cup {e},
             IF stack = <<>> THEN stack' = stack ELSE stack' = Pop
      PROVE  Len(stack)' <= Cardinality(Live)'
  <2>1. Cardinality(Live) - 1 <= Cardinality(Live')
    BY <1>3, LiveFacts, CardLosesOne
  <2>2. CASE stack = <<>>
    BY <1>3, <2>2, LiveFacts
  <2>3. CASE stack # <<>>
    <3>1. Len(stack') = Len(stack) - 1
      BY <1>3, <2>3, PopFacts DEF TypeOK
    <3> QED BY <1>1, <2>1, <3>1, LiveFacts
  <2> QED BY <2>2, <2>3
<1>4. ASSUME NEW m \in Msg, Push(m) PROVE Len(stack)' <= Cardinality(Live)'
  <2>1. Live' = Live \cup {m} /\ m \notin Live
    BY <1>4 DEF Push, HandlerTo, Live, TypeOK, AbortedPushed, Pushed
  <2>2. Cardinality(Live') = Cardinality(Live) + 1
    BY <2>1, LiveFacts, FS_AddElement
  <2>3. Len(stack') = Len(stack) + 1
    BY <1>4 DEF Push, TypeOK
  <2> QED BY <1>1, <2>2, <2>3, LiveFacts
<1>5. ASSUME NEW m \in Msg, Amend(m) PROVE Len(stack)' <= Cardinality(Live)'
  <2>1. Live \subseteq Live' \cup {Top.turn}
    BY <1>5 DEF Amend, HandlerTo, Live, TypeOK
  <2> QED BY <1>3, <1>5, <2>1 DEF Amend
<1>6. ASSUME NEW m \in Msg, Complete(m) PROVE Len(stack)' <= Cardinality(Live)'
  <2>1. Live \subseteq Live' \cup {m}
    BY <1>6 DEF Complete, HandlerTo, Live, TypeOK
  <2>2. IF stack = <<>> THEN stack' = stack ELSE stack' = Pop
    BY <1>0, <1>6 DEF Complete
  <2> QED BY <1>3, <2>1, <2>2
<1>7. ASSUME NEW m \in Msg, Vanish(m) PROVE Len(stack)' <= Cardinality(Live)'
  <2>1. Live \subseteq Live'
    BY <1>7 DEF Vanish, HandlerTo, Live, TypeOK, CancelledAborted
  <2> QED BY <1>2, <1>7, <2>1 DEF Vanish
<1>8. ASSUME NEW m \in Msg,
             Send(m) \/ Queue(m) \/ Dequeue(m) \/ Fork(m) \/ Spawn(m) \/ Capture(m)
      PROVE  Len(stack)' <= Cardinality(Live)'
  <2>1. Live \subseteq Live' /\ stack' = stack
    BY <1>8 DEF Send, Queue, Dequeue, Fork, Spawn, Capture, HandlerTo, Live, TypeOK
  <2> QED BY <1>2, <2>1
<1>9. ASSUME NEW m \in Msg, CheckFork(m) \/ FailTurn(m) \/ Save(m) \/ Remember(m)
                            \/ PopFork(m) \/ Cancel(m)
      PROVE  Len(stack)' <= Cardinality(Live)'
  <2>1. Live \subseteq Live' /\ (stack' = stack \/ (stack # <<>> /\ stack' = Pop))
    BY <1>9 DEF CheckFork, FailTurn, Save, Remember, PopFork, Cancel, Live
  <2> QED BY <1>2, <2>1
<1>10. ASSUME NEW m \in Msg, Reply(m) PROVE Len(stack)' <= Cardinality(Live)'
  <2>1. Live' = Live
    BY <1>10 DEF Reply, Live
  <2>2. Len(stack') = Len(stack)
    BY <1>10, SummaryEntry DEF Reply, TypeOK
  <2> QED BY <1>1, <2>1, <2>2
<1>11. CASE CloseFork
  BY <1>0, <1>11 DEF CloseFork
<1>12. CASE UNCHANGED chatVars
  BY <1>1, <1>12 DEF chatVars, Live
<1> QED BY <1>4, <1>5, <1>6, <1>7, <1>8, <1>9, <1>10, <1>11, <1>12 DEF Next, HandlerStep, TurnStep

-----------------------------------------------------------------------------
(* The theorems.                                                           *)

\* The invariant holds throughout.
LEMMA Invariance == Spec => []IInv
<1>1. IInv /\ [Next]_chatVars => IInv'
  BY TypeStep, EntriesStep, AbortStep, CoveredStep DEF IInv
<1> QED BY InitInv, <1>1, PTL DEF Spec

\* The stack is made of well-formed entries, no message is on it twice, and
\* handlers, drafts, turns and summaries keep their types (start_chat_turn,
\* handle_chat_with_interrupt).
THEOREM ChatTypeCorrect == Spec => []TypeOK
BY Invariance, PTL DEF IInv

\* Without forks every entry of the stack is paid for by a live turn, so that
\* the stack is empty when no turn is live and queued messages can start
\* (the pops of start_chat_turn and of amend).
THEOREM StackIsCovered == Spec => []StackCovered
BY Invariance, PTL DEF IInv

-----------------------------------------------------------------------------
(* The history and the chat file.                                          *)

\* No turn runs before its handler has spawned it.
NotSpawned == \A m \in Msg :
    handler[m] \in {"unsent", "classifying", "queued", "starting"} => turn[m] = "none"

\* How far the turn is tells what has been stored and remembered of it.
StoredOf(m) ==
    /\ turn[m] \in {"none", "thinking", "closing", "replied", "failed"} => <<m, "user">> \notin stored
    /\ turn[m] = "saving" => <<m, "user">> \in stored
    /\ turn[m] = "saved" => {<<m, "user">>, <<m, "agent">>} \subseteq stored
    /\ turn[m] = "done" /\ draft[m].fork = Main => m \in remembered
    /\ m \in remembered => {<<m, "user">>, <<m, "agent">>} \subseteq stored

StoredByTurn == \A m \in Msg : StoredOf(m)

HInv == IInv /\ NotSpawned /\ StoredByTurn

\* Spawn is the step that starts a turn, and it moves the handler on.
LEMMA SpawnStep == ASSUME HInv, [Next]_chatVars PROVE NotSpawned'
<1> USE DEF HInv, IInv, TypeOK
<1> DEFINE Early == {"unsent", "classifying", "queued", "starting"}
<1> SUFFICES ASSUME NEW n \in Msg, handler'[n] \in Early PROVE turn'[n] = "none"
  BY DEF NotSpawned
<1>1. ASSUME NEW m \in Msg, HandlerStep(m) \/ Send(m), ~Spawn(m) PROVE turn'[n] = "none"
  <2>1. turn' = turn
    BY <1>1 DEF HandlerStep, Send, Amend, Queue, Dequeue, Fork, Capture, Push, Complete, Vanish
  <2>2. handler[n] \in Early
    BY <1>1 DEF HandlerStep, Send, Amend, Queue, Dequeue, Fork, Capture, Push, Complete, Vanish,
       HandlerTo
  <2> QED BY <2>1, <2>2 DEF NotSpawned
<1>2. ASSUME NEW m \in Msg, Spawn(m) PROVE turn'[n] = "none"
  BY <1>2 DEF Spawn, HandlerTo, TurnTo, NotSpawned
<1>3. ASSUME NEW m \in Msg, TurnStep(m) \/ CheckFork(m) PROVE turn'[n] = "none"
  <2>1. handler' = handler /\ turn[m] # "none"
    BY <1>3 DEF TurnStep, CheckFork, PopFork, Reply, FailTurn, Save, Remember, Cancel
  <2>2. turn[n] = "none"
    BY <2>1 DEF NotSpawned
  <2> QED BY <1>3, <2>1, <2>2 DEF TurnStep, CheckFork, PopFork, Reply, FailTurn, Save, Remember,
          Cancel, TurnTo
<1>4. CASE CloseFork \/ UNCHANGED chatVars
  BY <1>4 DEF CloseFork, chatVars, NotSpawned
<1> QED BY <1>1, <1>2, <1>3, <1>4 DEF Next

\* A turn that has been spawned keeps its fork.
LEMMA ForkStays ==
    ASSUME HInv, [Next]_chatVars, NEW n \in Msg, turn[n] # "none" \/ draft'[n].fork = Main
    PROVE  draft'[n].fork = draft[n].fork
<1> USE DEF HInv, IInv, TypeOK
<1>1. ASSUME NEW m \in Msg, Send(m) \/ Amend(m) \/ Capture(m)
      PROVE  draft'[n].fork = draft[n].fork
  BY <1>1 DEF Send, Amend, Capture, Draft
<1>2. ASSUME NEW m \in Msg, Fork(m) PROVE draft'[n].fork = draft[n].fork
  <2>1. CASE n = m
    BY <1>2, <2>1, ChatAssumption DEF Fork, NotSpawned, Draft
  <2>2. CASE n # m
    BY <1>2, <2>2 DEF Fork, Draft
  <2> QED BY <2>1, <2>2
<1>3. ASSUME UNCHANGED draft PROVE draft'[n].fork = draft[n].fork
  BY <1>3
<1> QED BY <1>1, <1>2, <1>3 DEF Next, HandlerStep, TurnStep, chatVars, Queue, Dequeue, Spawn, Push,
        Complete, Vanish, CloseFork, CheckFork, PopFork, Reply, FailTurn, Save, Remember, Cancel

\* The turn stores before it remembers, and remembers before it is done.
LEMMA StoreStep == ASSUME HInv, [Next]_chatVars PROVE StoredByTurn'
<1> SUFFICES ASSUME NEW n \in Msg PROVE StoredOf(n)'
  BY DEF StoredByTurn
<1>0. StoredOf(n) /\ (draft'[n].fork = Main => draft[n].fork = Main) /\ turn \in [Msg -> TurnPc]
  BY ForkStays DEF HInv, IInv, TypeOK, StoredByTurn
<1>1. ASSUME UNCHANGED <<turn, stored, remembered>> PROVE StoredOf(n)'
  BY <1>0, <1>1 DEF StoredOf
<1>2. ASSUME NEW m \in Msg, Spawn(m) PROVE StoredOf(n)'
  <2>1. turn[m] = "none"
    BY <1>2 DEF Spawn, NotSpawned, HInv
  <2> QED BY <1>0, <1>2, <2>1 DEF Spawn, TurnTo, StoredOf
<1>3. ASSUME NEW m \in Msg, CheckFork(m) \/ PopFork(m) \/ Reply(m) \/ FailTurn(m)
      PROVE  StoredOf(n)'
  BY <1>0, <1>3 DEF CheckFork, PopFork, Reply, FailTurn, TurnTo, StoredOf
<1>4. ASSUME NEW m \in Msg, Cancel(m) PROVE StoredOf(n)'
  BY <1>0, <1>4 DEF Cancel, TurnTo, StoredOf
<1>5. ASSUME NEW m \in Msg, Save(m) PROVE StoredOf(n)'
  BY <1>0, <1>5 DEF Save, TurnTo, StoredOf
<1>6. ASSUME NEW m \in Msg, Remember(m) PROVE StoredOf(n)'
  BY <1>0, <1>6 DEF Remember, TurnTo, StoredOf
<1> QED BY <1>1, <1>2, <1>3, <1>4, <1>5, <1>6 DEF Next, HandlerStep, TurnStep, chatVars, Send, Amend,
        Queue, Dequeue, Fork, Capture, Push, Complete, Vanish, CloseFork

LEMMA HInvariance == Spec => []HInv
<1>1. Init => NotSpawned /\ StoredByTurn
  BY DEF Init, NotSpawned, StoredByTurn, StoredOf
<1>2. HInv /\ [Next]_chatVars => NotSpawned' /\ StoredByTurn'
  BY SpawnStep, StoreStep
<1>3. HInv <=> IInv /\ NotSpawned /\ StoredByTurn
  BY DEF HInv
<1> QED BY <1>1, <1>2, <1>3, Invariance, PTL DEF Spec

\* What is remembered has been stored, and what is stored is remembered
\* unless its turn is still at it or was aborted (the end of
\* Dispatcher::chat).
THEOREM HistoryMirrored == Spec => []HistoryMirrorsFile
<1>1. HInv => HistoryMirrorsFile
  BY DEF HInv, IInv, TypeOK, TurnPc, CancelledAborted, StoredByTurn, StoredOf,
     HistoryMirrorsFile
<1> QED BY <1>1, HInvariance, PTL

-----------------------------------------------------------------------------
(* The summary.                                                            *)

\* No summary, or that of a main turn that has run.
OfMain(s) == s # NoSummary => draft[s].fork = Main /\ turn[s] # "none"

\* So are the summaries that forks are to restore.
ParentsOfMain == /\ OfMain(summary)
                 /\ \A m \in Msg : OfMain(draft[m].parent)
                 /\ \A i \in DOMAIN stack : OfMain(stack[i].parent)

SInv == HInv /\ ParentsOfMain

\* A turn that has run keeps its fork.
LEMMA OfMainStays ==
    ASSUME HInv, [Next]_chatVars, NEW s \in Msg \cup {NoSummary}, OfMain(s)
    PROVE  OfMain(s)'
<1> SUFFICES ASSUME s # NoSummary PROVE draft'[s].fork = Main /\ turn'[s] # "none"
  BY DEF OfMain
<1>1. s \in Msg /\ draft[s].fork = Main /\ turn[s] # "none"
  BY DEF OfMain
<1>2. draft'[s].fork = draft[s].fork
  BY <1>1, ForkStays
<1>3. turn'[s] # "none"
  BY <1>1 DEF HInv, IInv, TypeOK, Next, HandlerStep, TurnStep, chatVars, Send, Amend, Queue,
     Dequeue, Fork, Spawn, Capture, Push, Complete, Vanish, CloseFork, CheckFork, PopFork, Reply,
     FailTurn, Save, Remember, Cancel, TurnTo
<1> QED BY <1>1, <1>2, <1>3

\* A reply is a main turn's, and a fork restores what its entry was opened
\* with.
LEMMA SummaryStep == ASSUME SInv, [Next]_chatVars PROVE OfMain(summary)'
<1> USE DEF SInv, HInv, IInv, TypeOK, ParentsOfMain
<1>1. ASSUME NEW s \in Msg \cup {NoSummary}, OfMain(s), summary' = s PROVE OfMain(summary)'
  BY <1>1, OfMainStays DEF OfMain
<1>2. ASSUME NEW m \in Msg, Reply(m) PROVE OfMain(summary)'
  <2>1. CASE summary' = summary
    BY <1>1, <2>1
  <2>2. CASE summary' # summary
    <3>1. summary' = m /\ draft[m].fork = Main /\ turn[m] = "thinking"
      BY <1>2, <2>2 DEF Reply
    <3> QED BY <1>1, <3>1 DEF OfMain
  <2> QED BY <2>1, <2>2
<1>3. ASSUME NEW m \in Msg, PopFork(m) PROVE OfMain(summary)'
  <2>1. CASE stack = <<>>
    BY <1>1, <1>3, <2>1 DEF PopFork
  <2>2. CASE stack # <<>>
    <3>1. Len(stack) \in DOMAIN stack /\ Top.parent \in Msg \cup {NoSummary}
      BY <2>2, PopFacts DEF Entry
    <3>2. OfMain(Top.parent)
      BY <3>1 DEF Top
    <3> QED BY <1>1, <1>3, <2>2, <3>1, <3>2 DEF PopFork
  <2> QED BY <2>1, <2>2
<1>4. ASSUME summary' = summary PROVE OfMain(summary)'
  BY <1>1, <1>4
<1> QED BY <1>2, <1>3, <1>4 DEF Next, HandlerStep, TurnStep, chatVars, Send, Amend, Queue, Dequeue,
        Fork, Spawn, Capture, Push, Complete, Vanish, CloseFork, CheckFork, FailTurn, Save,
        Remember, Cancel

\* What a handler reads for its entry is the main conversation's summary.
LEMMA DraftStep ==
    ASSUME SInv, [Next]_chatVars, NEW n \in Msg
    PROVE  OfMain(draft[n].parent)'
<1> USE DEF SInv, HInv, IInv, TypeOK, ParentsOfMain
<1>1. draft'[n].parent \in {draft[n].parent, summary}
  <2>1. ASSUME NEW m \in Msg, Send(m) \/ Amend(m) \/ Fork(m)
        PROVE  draft'[n].parent = draft[n].parent
    <3>1. draft[n] \in Draft
      OBVIOUS
    <3>2. ASSUME Send(m) PROVE draft'[n].parent = draft[n].parent
      BY <3>1, <3>2 DEF Send, Draft
    <3>3. ASSUME Amend(m) PROVE draft'[n].parent = draft[n].parent
      BY <3>1, <3>3 DEF Amend, Draft
    <3>4. ASSUME Fork(m) PROVE draft'[n].parent = draft[n].parent
      BY <3>1, <3>4 DEF Fork, Draft
    <3> QED BY <2>1, <3>2, <3>3, <3>4
  <2>2. ASSUME NEW m \in Msg, Capture(m)
        PROVE  draft'[n].parent \in {draft[n].parent, summary}
    <3>1. CASE n = m
      BY <2>2, <3>1 DEF Capture, Draft
    <3>2. CASE n # m
      BY <2>2, <3>2 DEF Capture, Draft
    <3> QED BY <3>1, <3>2
  <2>3. UNCHANGED draft => draft'[n].parent = draft[n].parent
    OBVIOUS
  <2> QED BY <2>1, <2>2, <2>3 DEF Next, HandlerStep, TurnStep, chatVars, Queue, Dequeue, Spawn, Push,
          Complete, Vanish, CloseFork, CheckFork, PopFork, Reply, FailTurn, Save, Remember, Cancel
<1>2. draft[n].parent \in Msg \cup {NoSummary}
  BY DEF Draft
<1>3. \A s \in Msg \cup {NoSummary} : OfMain(s) /\ draft'[n].parent = s => OfMain(draft[n].parent)'
  BY OfMainStays DEF OfMain
<1> QED BY <1>1, <1>2, <1>3

\* What an entry restores is what its handler read.
LEMMA EntryStep ==
    ASSUME SInv, [Next]_chatVars
    PROVE  (\A i \in DOMAIN stack : OfMain(stack[i].parent))'
<1> USE DEF SInv, HInv, IInv, TypeOK, ParentsOfMain
<1> SUFFICES ASSUME NEW i \in DOMAIN stack'
             PROVE  OfMain(stack[i].parent)'
  OBVIOUS
<1>1. ASSUME NEW s \in Msg \cup {NoSummary}, OfMain(s), stack'[i].parent = s
      PROVE  OfMain(stack[i].parent)'
  BY <1>1, OfMainStays DEF OfMain
<1>2. ASSUME i \in DOMAIN stack, stack'[i].parent = stack[i].parent
      PROVE  OfMain(stack[i].parent)'
  <2>1. stack[i] \in Entry
    BY <1>2
  <2> QED BY <1>1, <1>2, <2>1 DEF Entry
<1>3. ASSUME stack' = stack \/ (stack # <<>> /\ stack' = Pop) PROVE OfMain(stack[i].parent)'
  BY <1>2, <1>3, PopKeepsEntries
<1>4. ASSUME NEW m \in Msg, Push(m) PROVE OfMain(stack[i].parent)'
  <2> DEFINE e == [turn |-> m, fork |-> draft[m].fork,
                   summary |-> draft[m].parent, parent |-> draft[m].parent]
  <2>1. stack' = Append(stack, e) /\ e.parent = draft[m].parent
    BY <1>4 DEF Push
  <2> HIDE DEF e
  <2>0. /\ stack \in Seq(Entry) /\ DOMAIN stack' = 1..Len(stack) + 1
        /\ stack'[Len(stack) + 1] = e
        /\ \A j \in DOMAIN stack : stack'[j] = stack[j]
    BY <2>1, AppendProperties
  <2>2. CASE i = Len(stack) + 1
    <3>1. stack'[i].parent = draft[m].parent /\ draft[m].parent \in Msg \cup {NoSummary}
      BY <2>0, <2>1, <2>2 DEF Draft
    <3> QED BY <1>1, <3>1
  <2>3. CASE i # Len(stack) + 1
    <3>1. i \in DOMAIN stack /\ stack'[i] = stack[i]
      BY <2>0, <2>3
    <3> QED BY <1>2, <3>1
  <2> QED BY <2>2, <2>3
<1>5. ASSUME NEW m \in Msg, Reply(m) PROVE OfMain(stack[i].parent)'
  BY <1>2, <1>3, <1>5, SummaryEntry DEF Reply
<1>6. ASSUME NEW m \in Msg, HandlerStep(m) \/ Send(m), ~Push(m) PROVE OfMain(stack[i].parent)'
  BY <1>3, <1>6 DEF HandlerStep, Send, Amend, Queue, Dequeue, Fork, Spawn, Capture, Complete, Vanish
<1>7. ASSUME NEW m \in Msg, TurnStep(m) \/ CheckFork(m), ~Reply(m) PROVE OfMain(stack[i].parent)'
  BY <1>3, <1>7 DEF TurnStep, CheckFork, PopFork, FailTurn, Save, Remember, Cancel
<1>8. CASE CloseFork \/ UNCHANGED chatVars
  BY <1>3, <1>8 DEF CloseFork, InFork, chatVars
<1> QED BY <1>4, <1>5, <1>6, <1>7, <1>8 DEF Next

\* The summary the main conversation goes on with was written by one of its
\* own turns, whatever forks were opened and closed (Dispatcher::chat and
\* gitzi_close_fork).
THEOREM SummaryIsOfMain == Spec => []SummaryOfMain
<1>1. Init => ParentsOfMain
  BY DEF Init, ParentsOfMain, OfMain
<1>2. SInv /\ [Next]_chatVars => ParentsOfMain'
  BY SummaryStep, DraftStep, EntryStep DEF ParentsOfMain
<1>3. SInv <=> HInv /\ ParentsOfMain
  BY DEF SInv
<1>4. SInv => SummaryOfMain
  BY DEF SInv, ParentsOfMain, OfMain, SummaryOfMain
<1> QED BY <1>1, <1>2, <1>3, <1>4, HInvariance, PTL DEF Spec

=============================================================================
