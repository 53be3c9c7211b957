---------------------------- MODULE ReviewProofs -----------------------------
(***************************************************************************)
(* What waits for the human can be found in the review queue: the theorems *)
(* about approvals and about blocked agents.                               *)
(*                                                                         *)
(* A visit of a task to a buffer, and an escalation, each leave a token:   *)
(* first an event on the bus, then the item run() makes of it.  A request  *)
(* that settles takes the first item of its task whatever visit it is of,  *)
(* so the argument is one of counting: one token for each claim on one.    *)
(***************************************************************************)
EXTENDS DispatcherProofs, Notices

-----------------------------------------------------------------------------
(* The queue's operators.                                                  *)

\* Whatever files a boot finds, what it loads is a queue.  (The function that
\* Reload defines by recursion exists, and is a queue everywhere: otherwise there
\* were a first place where it fails.)
LEMMA ReloadType ==
    ASSUME NEW files \in Seq(ReviewFile)
    PROVE  Reload(files) \in Seq(QueueItem)
<1> DEFINE D == 0 .. Len(files)
           Q == Seq(QueueItem)
           Grow(q, n) == IF files[n].status = "open"
                         THEN Enqueue(q, [id |-> n, what |-> files[n].what]) ELSE q
           Loads(f, m) == \A n \in 0 .. m : f[n] = IF n = 0 THEN <<>> ELSE Grow(f[n - 1], n)
           Load == CHOOSE f : f = [n \in D |-> IF n = 0 THEN <<>> ELSE Grow(f[n - 1], n)]
<1>1. \A n \in D \ {0}, q \in Q : Grow(q, n) \in Q
  <2> SUFFICES ASSUME NEW n \in D \ {0}, NEW q \in Q
               PROVE  Grow(q, n) \in Q
    OBVIOUS
  <2>1. [id |-> n, what |-> files[n].what] \in QueueItem
    <3>1. files[n] \in ReviewFile /\ n \in Nat
      OBVIOUS
    <3> QED BY <3>1 DEF QueueItem, ReviewFile
  <2> QED BY <2>1, EnqueueFacts
<1>2. Reload(files) = Load[Len(files)]
  BY DEF Reload
<1> HIDE DEF Grow
<1>3. ASSUME NEW m \in D
      PROVE  \E f \in [0 .. m -> Q] : Loads(f, m)
  <2> DEFINE T == {k \in D : ~ \E f \in [0 .. k -> Q] : Loads(f, k)}
  <2>1. SUFFICES ASSUME T # {}
                 PROVE  FALSE
    BY <1>3
  <2>2. PICK k \in T : \A j \in T : k <= j
    <3>1. T \subseteq Nat
      OBVIOUS
    <3> HIDE DEF T
    <3> QED BY <2>1, <3>1, Least
  <2>3. CASE k = 0
    <3> DEFINE f == [n \in 0 .. k |-> <<>>]
    <3>1. f \in [0 .. k -> Q] /\ Loads(f, k)
      BY <2>3
    <3> QED BY <2>2, <3>1
  <2>4. CASE k # 0
    <3>1. k - 1 \in D /\ k - 1 \notin T /\ k \in D \ {0}
      <4>1. k \in D
        BY <2>2
      <4>2. k - 1 \in D /\ ~(k <= k - 1) /\ k \in D \ {0}
        BY <2>4, <4>1
      <4> HIDE DEF T
      <4> QED BY <2>2, <4>2
    <3>2. PICK f \in [0 .. k - 1 -> Q] : Loads(f, k - 1)
      BY <3>1
    <3> DEFINE g == [n \in 0 .. k |-> IF n < k THEN f[n] ELSE Grow(f[k - 1], k)]
    <3>3. f[k - 1] \in Q /\ Grow(f[k - 1], k) \in Q
      BY <1>1, <3>1, <3>2
    <3>4. g \in [0 .. k -> Q]
      BY <3>1, <3>2, <3>3
    <3>5. Loads(g, k)
      <4> SUFFICES ASSUME NEW n \in 0 .. k
                   PROVE  g[n] = IF n = 0 THEN <<>> ELSE Grow(g[n - 1], n)
        OBVIOUS
      <4>1. CASE n < k
        <5>1. n \in 0 .. k - 1 /\ (n # 0 => n - 1 \in 0 .. k)
          BY <3>1, <4>1
        <5>2. g[n] = f[n] /\ (n # 0 => g[n - 1] = f[n - 1])
          BY <3>1, <4>1, <5>1
        <5> QED BY <3>2, <5>1, <5>2
      <4>2. CASE n = k
        BY <3>1, <4>2
      <4> QED BY <3>1, <4>1, <4>2
    <3> QED BY <2>2, <3>4, <3>5
  <2> QED BY <2>3, <2>4
<1>4. Load = [n \in D |-> IF n = 0 THEN <<>> ELSE Grow(Load[n - 1], n)]
  <2>1. PICK f \in [D -> Q] : Loads(f, Len(files))
    <3>1. Len(files) \in D
      OBVIOUS
    <3> QED BY <1>3, <3>1
  <2>2. f = [n \in D |-> IF n = 0 THEN <<>> ELSE Grow(f[n - 1], n)]
    BY <2>1
  <2> QED BY <2>2
<1> HIDE DEF Load
<1>5. ASSUME NEW m \in D
      PROVE  Load[m] \in Q
  <2> DEFINE T == {k \in D : Load[k] \notin Q}
  <2>1. SUFFICES ASSUME T # {}
                 PROVE  FALSE
    BY <1>5
  <2>2. PICK k \in T : \A j \in T : k <= j
    <3>1. T \subseteq Nat
      OBVIOUS
    <3> HIDE DEF T
    <3> QED BY <2>1, <3>1, Least
  <2>3. k # 0
    BY <1>4, <2>2
  <2>4. k - 1 \in D /\ k - 1 \notin T /\ k \in D \ {0}
    BY <2>2, <2>3
  <2> QED BY <1>1, <1>4, <2>2, <2>4
<1> QED BY <1>2, <1>5

-----------------------------------------------------------------------------
(* Tokens and claims.                                                      *)

\* Every item in the queue is one of the two kinds, about a task.
QueueType == queue \in Seq(QueueItem)

\* A token: an item of the queue, or an event run() will make such an item of.
Item(kind, t, i) ==
    i \in DOMAIN queue /\ queue[i].what.kind = kind /\ queue[i].what.task = t

Mark(kind, t, i) == i \in DOMAIN bus /\ Notifies(bus[i], kind, t)

One(kind, t) == \E i \in Nat : Item(kind, t, i) \/ Mark(kind, t, i)

Two(kind, t) ==
    \E i, j \in Nat :
        \/ /\ i # j
           /\ Item(kind, t, i)
           /\ Item(kind, t, j)
        \/ /\ Item(kind, t, i)
           /\ Mark(kind, t, j)
        \/ /\ i # j
           /\ Mark(kind, t, i)
           /\ Mark(kind, t, j)

\* No claim loses its token.
Kept ==
    \A kind \in {"approval", "question"}, t \in Task :
        (One(kind, t) => One(kind, t)') /\ (Two(kind, t) => Two(kind, t)')

\* Where every token goes in a step: items and events move to other places, no
\* two to the same, or the first event becomes the item at place p.
Flows(g, h, p, kind, t) ==
    /\ \A i, j \in Nat : g[i] = g[j] => i = j
    /\ \A i, j \in Nat \ {0} : h[i] = h[j] => i = j
    /\ \A i \in Nat : g[i] # p
    /\ \A i \in Nat : Item(kind, t, i) => Item(kind, t, g[i])'
    /\ \A i \in Nat : Mark(kind, t, i) => i # 0
    /\ \A i \in Nat : Mark(kind, t, i) =>
          \/ Mark(kind, t, h[i])'
          \/ i = 1 /\ p \in Nat /\ Item(kind, t, p)'

LEMMA TokensFlow ==
    ASSUME NEW g \in [Nat -> Nat], NEW h \in [Nat -> Nat], NEW p \in Int, NEW kind, NEW t,
           Flows(g, h, p, kind, t)
    PROVE  (One(kind, t) => One(kind, t)') /\ (Two(kind, t) => Two(kind, t)')
<1> USE DEF Flows
<1>1. ASSUME One(kind, t)
      PROVE  One(kind, t)'
  BY <1>1 DEF One
<1>2. ASSUME NEW i \in Nat, NEW j \in Nat, i # j, Item(kind, t, i), Item(kind, t, j)
      PROVE  Two(kind, t)'
  BY <1>2 DEF Two
<1>3. ASSUME NEW i \in Nat, NEW j \in Nat, Item(kind, t, i), Mark(kind, t, j)
      PROVE  Two(kind, t)'
  BY <1>3 DEF Two
<1>4. ASSUME NEW i \in Nat, NEW j \in Nat, i # j, Mark(kind, t, i), Mark(kind, t, j)
      PROVE  Two(kind, t)'
  BY <1>4 DEF Two
<1> QED BY <1>1, <1>2, <1>3, <1>4 DEF Two

\* A new item leaves every other one in the queue.
LEMMA ItemsAfterEnqueue ==
    ASSUME QueueType, NEW x \in QueueItem, queue' = Enqueue(queue, x)
    PROVE  \E p \in Nat, g \in [Nat -> Nat] :
              /\ Item(x.what.kind, x.what.task, p)'
              /\ \A i, j \in Nat : g[i] = g[j] => i = j
              /\ \A i \in Nat : g[i] # p
              /\ \A kind, t : \A i \in Nat : Item(kind, t, i) => Item(kind, t, g[i])'
<1>1. PICK p \in 1 .. Len(queue) + 1 : Inserted(queue', queue, x, p)
  BY EnqueueFacts DEF QueueType
<1> DEFINE g == [i \in Nat |-> IF i < p THEN i ELSE i + 1]
<1>2. /\ g \in [Nat -> Nat] /\ \A i, j \in Nat : g[i] = g[j] => i = j
      /\ \A i \in Nat : g[i] # p
  OBVIOUS
<1>3. queue \in Seq(QueueItem) /\ queue' \in Seq(QueueItem)
  BY EnqueueFacts DEF QueueType
<1>4. Item(x.what.kind, x.what.task, p)'
  BY <1>1, <1>3 DEF Item, Inserted
<1>5. ASSUME NEW kind, NEW t, NEW i \in Nat, Item(kind, t, i)
      PROVE  Item(kind, t, g[i])'
  BY <1>1, <1>3, <1>5 DEF Item, Inserted
<1>6. p \in Nat
  BY <1>1
<1> HIDE DEF g
<1> QED BY <1>2, <1>4, <1>5, <1>6

QueueGrows == queue' = queue \/ \E x \in QueueItem : queue' = Enqueue(queue, x)

BusGrows == bus' = bus \/ \E e \in Event : bus' = Append(bus, e)

LEMMA ItemsStay ==
    ASSUME QueueType, QueueGrows
    PROVE  \E p \in Int, g \in [Nat -> Nat] :
              /\ \A i, j \in Nat : g[i] = g[j] => i = j
              /\ \A i \in Nat : g[i] # p
              /\ \A kind, t : \A i \in Nat : Item(kind, t, i) => Item(kind, t, g[i])'
<1>1. CASE queue' = queue
  <2> DEFINE g == [i \in Nat |-> i]
  <2>1. /\ g \in [Nat -> Nat] /\ \A i, j \in Nat : g[i] = g[j] => i = j
        /\ \A i \in Nat : g[i] # -1
        /\ \A kind, t : \A i \in Nat : Item(kind, t, i) => Item(kind, t, g[i])'
    BY <1>1 DEF Item
  <2> HIDE DEF g
  <2> QED BY <2>1
<1>2. CASE \E x \in QueueItem : queue' = Enqueue(queue, x)
  BY <1>2, ItemsAfterEnqueue
<1> QED BY <1>1, <1>2 DEF QueueGrows

\* Steps that only add to queue and bus.
LEMMA GrowthKeeps ==
    ASSUME TypeInv, QueueType, QueueGrows, BusGrows
    PROVE  Kept
<1>1. PICK p \in Int, g \in [Nat -> Nat] :
         /\ \A i, j \in Nat : g[i] = g[j] => i = j
         /\ \A i \in Nat : g[i] # p
         /\ \A kind, t : \A i \in Nat : Item(kind, t, i) => Item(kind, t, g[i])'
  BY ItemsStay
<1> DEFINE h == [i \in Nat |-> i]
<1>2. bus \in Seq(Event)
  BY DEF TypeInv, TypeOK
<1>3. ASSUME NEW kind, NEW t, NEW i \in Nat, Mark(kind, t, i)
      PROVE  i # 0 /\ Mark(kind, t, h[i])'
  <2>1. i \in 1 .. Len(bus) /\ h[i] = i
    BY <1>2, <1>3, SMTT(30) DEF Mark, Notifies
  <2>2. i \in DOMAIN bus' /\ bus'[i] = bus[i]
    <3>1. CASE bus' = bus
      BY <2>1, <3>1
    <3>2. ASSUME NEW e \in Event, bus' = Append(bus, e)
          PROVE  i \in DOMAIN bus' /\ bus'[i] = bus[i]
      BY <1>2, <2>1, <3>2
    <3> QED BY <3>1, <3>2 DEF BusGrows
  <2> QED BY <1>3, <2>1, <2>2 DEF Mark, Notifies
<1>4. h \in [Nat -> Nat] /\ \A i, j \in Nat \ {0} : h[i] = h[j] => i = j
  OBVIOUS
<1> HIDE DEF h
<1>5. ASSUME NEW kind, NEW t
      PROVE  (One(kind, t) => One(kind, t)') /\ (Two(kind, t) => Two(kind, t)')
  <2>1. Flows(g, h, p, kind, t)
    BY <1>1, <1>3, <1>4 DEF Flows
  <2> QED BY <1>4, <2>1, TokensFlow
<1> QED BY <1>5 DEF Kept

\* run() takes the first event off the bus ...
LEMMA MarksAfterReceipt ==
    ASSUME TypeInv, bus # <<>>, bus' = Tail(bus)
    PROVE  \E h \in [Nat -> Nat] :
              /\ \A i, j \in Nat \ {0} : h[i] = h[j] => i = j
              /\ \A kind, t : \A i \in Nat : Mark(kind, t, i) =>
                    i # 0 /\ (i = 1 \/ Mark(kind, t, h[i])')
<1>1. bus \in Seq(Event)
  BY DEF TypeInv, TypeOK
<1>2. PICK h \in [Nat -> Nat] : \A i \in Nat : h[i] = IF i = 0 THEN 0 ELSE i - 1
  <2>1. [i \in Nat |-> IF i = 0 THEN 0 ELSE i - 1] \in [Nat -> Nat]
    OBVIOUS
  <2> QED BY <2>1
<1>3. ASSUME NEW kind, NEW t, NEW i \in Nat, Mark(kind, t, i), i # 1
      PROVE  i # 0 /\ Mark(kind, t, h[i])'
  <2>1. i \in 2 .. Len(bus) /\ h[i] = i - 1 /\ i - 1 \in 1 .. Len(bus) - 1
    BY <1>1, <1>2, <1>3 DEF Mark, Notifies
  <2>2. i - 1 \in DOMAIN bus' /\ bus'[i - 1] = bus[i]
    BY <1>1, <2>1
  <2>3. i # 0 /\ h[i] \in DOMAIN bus' /\ bus'[h[i]] = bus[i]
    BY <2>1, <2>2
  <2> QED BY <1>3, <2>3 DEF Mark, Notifies
<1>4. \A i, j \in Nat \ {0} : h[i] = h[j] => i = j
  BY <1>2
<1>5. ASSUME NEW kind, NEW t, NEW i \in Nat, Mark(kind, t, i)
      PROVE  i # 0 /\ (i = 1 \/ Mark(kind, t, h[i])')
  <2>1. CASE i = 1
    BY <2>1
  <2>2. CASE i # 1
    BY <1>3, <1>5, <2>2
  <2> QED BY <2>1, <2>2
<1> QED BY <1>4, <1>5

\* ... and puts an item of its kind and task in the queue if it is a token.
LEMMA TokenReceived ==
    ASSUME TypeInv, QueueType, bus # <<>>, bus' = Tail(bus), NEW kind, NEW t,
           NEW x \in QueueItem, queue' = Enqueue(queue, x), x.what.kind = kind, x.what.task = t
    PROVE  (One(kind, t) => One(kind, t)') /\ (Two(kind, t) => Two(kind, t)')
<1>1. PICK p \in Nat, g \in [Nat -> Nat] :
         /\ Item(x.what.kind, x.what.task, p)'
         /\ \A i, j \in Nat : g[i] = g[j] => i = j
         /\ \A i \in Nat : g[i] # p
         /\ \A k, u : \A i \in Nat : Item(k, u, i) => Item(k, u, g[i])'
  BY ItemsAfterEnqueue
<1>2. PICK h \in [Nat -> Nat] :
         /\ \A i, j \in Nat \ {0} : h[i] = h[j] => i = j
         /\ \A k, u : \A i \in Nat : Mark(k, u, i) => i # 0 /\ (i = 1 \/ Mark(k, u, h[i])')
  BY MarksAfterReceipt
<1>3. Item(kind, t, p)'
  BY <1>1 DEF Item
<1>4. /\ \A i \in Nat : Item(kind, t, i) => Item(kind, t, g[i])'
      /\ \A i \in Nat : Mark(kind, t, i) => i # 0
      /\ \A i \in Nat : Mark(kind, t, i) =>
            \/ Mark(kind, t, h[i])'
            \/ i = 1 /\ p \in Nat /\ Item(kind, t, p)'
  BY <1>1, <1>2, <1>3
<1>5. \A i, j \in Nat \ {0} : h[i] = h[j] => i = j
  BY <1>2
<1>6. (\A i, j \in Nat : g[i] = g[j] => i = j) /\ (\A i \in Nat : g[i] # p) /\ p \in Int
  BY <1>1
<1>7. Flows(g, h, p, kind, t)
  BY <1>4, <1>5, <1>6 DEF Flows
<1> QED BY <1>6, <1>7, TokensFlow

LEMMA OtherReceived ==
    ASSUME TypeInv, QueueType, bus # <<>>, bus' = Tail(bus), QueueGrows, NEW kind, NEW t,
           ~Mark(kind, t, 1)
    PROVE  (One(kind, t) => One(kind, t)') /\ (Two(kind, t) => Two(kind, t)')
<1>1. PICK p \in Int, g \in [Nat -> Nat] :
         /\ \A i, j \in Nat : g[i] = g[j] => i = j
         /\ \A i \in Nat : g[i] # p
         /\ \A k, u : \A i \in Nat : Item(k, u, i) => Item(k, u, g[i])'
  BY ItemsStay
<1>2. PICK h \in [Nat -> Nat] :
         /\ \A i, j \in Nat \ {0} : h[i] = h[j] => i = j
         /\ \A k, u : \A i \in Nat : Mark(k, u, i) => i # 0 /\ (i = 1 \/ Mark(k, u, h[i])')
  BY MarksAfterReceipt
<1>3. \A i \in Nat : /\ Item(kind, t, i) => Item(kind, t, g[i])'
                     /\ Mark(kind, t, i) => i # 0
                     /\ Mark(kind, t, i) => Mark(kind, t, h[i])'
  BY <1>1, <1>2
<1>4. Flows(g, h, p, kind, t)
  BY <1>1, <1>2, <1>3 DEF Flows
<1> QED BY <1>4, TokensFlow

LEMMA ReceiptKeeps ==
    ASSUME TypeInv, QueueType, bus # <<>>, bus' = Tail(bus), QueueGrows,
           \A kind \in {"approval", "question"}, t \in Task : Mark(kind, t, 1) =>
               \E x \in QueueItem : /\ queue' = Enqueue(queue, x)
                                    /\ x.what.kind = kind /\ x.what.task = t
    PROVE  Kept
BY TokenReceived, OtherReceived DEF Kept

\* An item is taken off the queue: of two tokens one is left, and other tasks
\* and the other kind lose nothing.
LEMMA RemovalKeeps ==
    ASSUME QueueType, NEW k \in 1 .. Len(queue), queue' = RemoveItem(queue, k), bus' = bus,
           NEW kind, NEW t
    PROVE  /\ Two(kind, t) => One(kind, t)'
           /\ ~Item(kind, t, k) => /\ One(kind, t) => One(kind, t)'
                                   /\ Two(kind, t) => Two(kind, t)'
<1> DEFINE g == [i \in Nat |-> IF i < k THEN i ELSE i - 1]
<1>1. queue \in Seq(QueueItem)
  BY DEF QueueType
<1>2. /\ queue' \in Seq(QueueItem) /\ Len(queue') = Len(queue) - 1
      /\ \A i \in 1 .. Len(queue) - 1 : queue'[i] = IF i < k THEN queue[i] ELSE queue[i + 1]
  BY <1>1, RemoveFacts
<1>3. ASSUME NEW i \in Nat, Item(kind, t, i), i # k
      PROVE  g[i] \in Nat /\ Item(kind, t, g[i])'
  <2>1. i \in 1 .. Len(queue) /\ DOMAIN queue' = 1 .. Len(queue) - 1
    BY <1>1, <1>2, <1>3 DEF Item
  <2>2. g[i] \in 1 .. Len(queue) - 1 /\ queue'[g[i]] = queue[i]
    <3>1. CASE i < k
      BY <1>2, <2>1, <3>1
    <3>2. CASE ~(i < k)
      <4>1. i - 1 \in 1 .. Len(queue) - 1 /\ ~(i - 1 < k) /\ (i - 1) + 1 = i
        BY <1>3, <2>1, <3>2
      <4> QED BY <1>2, <2>1, <3>2, <4>1
    <3> QED BY <3>1, <3>2
  <2> QED BY <1>3, <2>1, <2>2 DEF Item
<1>4. \A i, j \in Nat : i # k /\ j # k /\ g[i] = g[j] => i = j
  OBVIOUS
<1>5. \A i \in Nat : Mark(kind, t, i) => Mark(kind, t, i)'
  BY DEF Mark, Notifies
<1> HIDE DEF g
<1>6. Two(kind, t) => One(kind, t)'
  BY <1>3, <1>5 DEF Two, One
<1>7. ASSUME ~Item(kind, t, k)
      PROVE  (One(kind, t) => One(kind, t)') /\ (Two(kind, t) => Two(kind, t)')
  <2>1. \A i \in Nat : Item(kind, t, i) => i # k
    BY <1>7
  <2>2. One(kind, t) => One(kind, t)'
    BY <1>3, <1>5, <2>1 DEF One
  <2>3. ASSUME NEW i \in Nat, NEW j \in Nat, i # j, Item(kind, t, i), Item(kind, t, j)
        PROVE  Two(kind, t)'
    BY <1>3, <1>4, <2>1, <2>3 DEF Two
  <2>4. ASSUME NEW i \in Nat, NEW j \in Nat, Mark(kind, t, j),
               Item(kind, t, i) \/ (i # j /\ Mark(kind, t, i))
        PROVE  Two(kind, t)'
    BY <1>3, <1>5, <2>1, <2>4 DEF Two
  <2> QED BY <2>2, <2>3, <2>4 DEF Two
<1> QED BY <1>6, <1>7

\* A task in a buffer has a claim on a token, and so has a request that will
\* take one: the task may have come to the next buffer before it does.
Awaits(t) ==
    /\ board.column[t] \in Buffer \/ Settling(t) => One("approval", t)
    /\ board.column[t] \in Buffer /\ Settling(t) => Two("approval", t)

\* The last announcement of a task's arrival is that of its present buffer.
Announced(t) ==
    \A i \in Nat :
        /\ board.column[t] \in Buffer
        /\ Mark("approval", t, i)
        /\ \A j \in Nat : Mark("approval", t, j) => j <= i
        => bus[i].to = board.column[t]

\* So it is for every task but those of L, whose notices were lost.
WaitInv(L) == \A t \in Task \ L : Awaits(t) /\ Announced(t)

\* A blocked agent's task has not left the column, and a question about it is
\* left even after a request still settling has taken one.
Asked(r, t) ==
    /\ board.column[t] = r
    /\ One("question", t)
    /\ Settling(t) => Two("question", t)

Askable(L) ==
    \A r \in Role : blocked[r] =>
        \/ unblocking[r] > 0
        \/ \E t \in Task : Asked(r, t) \/ (board.column[t] = r /\ t \in L)

\* The question an agent is about to queue will not be the only one if a
\* request is still to take one.
Spared(L) ==
    \A r \in Role : agent[r].pc = "flagging" /\ Settling(agent[r].task) =>
        One("question", agent[r].task) \/ agent[r].task \in L

-----------------------------------------------------------------------------
(* What every step does to queue and bus.                                  *)

\* What is put in the queue is an item.
LEMMA ItemTypes ==
    /\ \A t \in Task, n \in Nat : [id |-> n, what |-> Question(t)] \in QueueItem
    /\ \A t \in Task, c \in Column, n \in Nat :
          [id |-> Fresh, what |-> Approval(t, c, n)] \in QueueItem
    /\ Fresh \in Nat
BY DEF Question, Approval, QueueItem, Subject, ReworkPriority, Fresh

LEMMA AgentGrows ==
    ASSUME TypeInv, NEW r \in Role, AgentStep(r) \/ AgentTool(r) \/ Unblock(r)
    PROVE  QueueGrows /\ BusGrows
<1> USE DEF QueueGrows, BusGrows
<1>t. agent[r].pc # "asleep" => agent[r].task \in Task
  BY DEF TypeInv, AgentsEngaged
<1>1. CASE Escalate(r)
  <2>1. [type |-> "blocked", task |-> agent[r].task] \in Event
    BY <1>1, <1>t DEF Escalate, Event
  <2> QED BY <1>1, <2>1 DEF Escalate, Emit
<1>2. CASE Flag(r)
  <2>1. [id |-> Fresh, what |-> Question(agent[r].task)] \in QueueItem
    BY <1>2, <1>t, ItemTypes DEF Flag
  <2> QED BY <1>2, <2>1 DEF Flag
<1>3. CASE Move(r)
  <2>1. agent[r].task \in Task /\ r \in Column /\ NextColumn(r) \in Column
    BY <1>3, <1>t, ColumnFacts DEF Move
  <2>2. [type |-> "stage", task |-> agent[r].task, from |-> r, to |-> NextColumn(r)] \in Event
    BY <2>1 DEF Event
  <2> QED BY <1>3, <2>2 DEF Move, Emit
<1>4. CASE AskHuman(r)
  <2>1. Len(reviews) + 1 \in Nat
    BY DEF TypeInv, TypeOK
  <2>2. [id |-> Len(reviews) + 1, what |-> Question(agent[r].task)] \in QueueItem
    BY <1>4, <1>t, <2>1, ItemTypes DEF AskHuman
  <2> QED BY <1>4, <2>2 DEF AskHuman
<1>5. ASSUME NEW blockers, BlockTask(r, blockers)
      PROVE  QueueGrows /\ BusGrows
  <2> DEFINE t == agent[r].task
  <2>1. t \in Task /\ board.column[t] \in Column /\ Prioritized \in Column
    BY <1>5, <1>t, ColumnFacts DEF BlockTask, TypeInv, TypeOK, Board
  <2>2. [type |-> "stage", task |-> t, from |-> board.column[t], to |-> Prioritized] \in Event
    BY <2>1 DEF Event
  <2>3. Emit([type |-> "stage", task |-> t, from |-> board.column[t], to |-> Prioritized])
        /\ queue' = queue
    BY <1>5 DEF BlockTask
  <2> QED BY <2>2, <2>3 DEF Emit
<1>6. CASE \/ Wake(r) \/ WakeInVain(r) \/ Prepare(r) \/ Finish(r) \/ Fail(r) \/ Report(r)
           \/ Pass(r) \/ Retry(r) \/ GiveUp(r) \/ CheckWip(r) \/ Stall(r) \/ Unblock(r)
  BY <1>6 DEF Wake, WakeInVain, Prepare, Finish, Fail, Report, Pass, Retry, GiveUp, CheckWip,
              Stall, Unblock
<1> QED BY <1>1, <1>2, <1>3, <1>4, <1>5, <1>6 DEF AgentStep, AgentTool

LEMMA RunLoopGrows ==
    ASSUME TypeInv, RunLoop
    PROVE  /\ bus # <<>> /\ bus' = Tail(bus) /\ Head(bus) \in Event
           /\ QueueGrows
           /\ \A kind \in {"approval", "question"}, t \in Task : Mark(kind, t, 1) =>
                 \E x \in QueueItem : /\ queue' = Enqueue(queue, x)
                                      /\ x.what.kind = kind /\ x.what.task = t
<1> USE DEF QueueGrows
<1> DEFINE e == Head(bus)
<1>a. bus \in Seq(Event)
  BY DEF TypeInv, TypeOK
<1>b. bus # <<>> /\ bus' = Tail(bus)
  BY DEF RunLoop, OnTaskCreated, OnTaskEntersWork, OnTaskEntersBuffer, OnTaskDone,
         OnAgentBlocked, Receive
<1>c. e \in Event /\ e = bus[1] /\ 1 \in DOMAIN bus
  BY <1>a, <1>b
<1>d. \A kind, t : Mark(kind, t, 1) =>
         /\ e.task = t
         /\ \/ kind = "approval" /\ e.type = "stage" /\ e.to \in Buffer
            \/ kind = "question" /\ e.type = "blocked"
  BY <1>c DEF Mark, Notifies
<1> HIDE DEF e
<1>1. CASE OnTaskCreated \/ OnTaskEntersWork
  <2>1. e.type = "created" \/ (e.type = "stage" /\ e.to \notin Buffer)
    BY <1>1, ColumnFacts DEF OnTaskCreated, OnTaskEntersWork, Receive, e
  <2> QED BY <1>1, <1>b, <1>c, <1>d, <2>1 DEF OnTaskCreated, OnTaskEntersWork
<1>2. CASE OnTaskEntersBuffer
  <2> DEFINE x == [id |-> Fresh, what |-> Approval(e.task, e.to, board.tasks[e.task].priority)]
  <2>1. e.type = "stage" /\ queue' = Enqueue(queue, x)
    BY <1>2 DEF OnTaskEntersBuffer, Receive, e
  <2>2. e.task \in Task /\ e.to \in Column
    BY <1>c, <2>1 DEF Event
  <2>3. board.tasks[e.task].priority \in Nat
    BY <2>2 DEF TypeInv, TypeOK, Board, TaskState
  <2>4. x \in QueueItem /\ x.what.kind = "approval" /\ x.what.task = e.task
    BY <2>2, <2>3, ItemTypes DEF Approval
  <2> HIDE DEF x
  <2> QED BY <1>b, <1>c, <1>d, <2>1, <2>4
<1>3. CASE OnTaskDone
  <2>1. e.type = "stage" /\ e.to = Done
    BY <1>3 DEF OnTaskDone, Receive, e
  <2>2. e.task \in Task /\ Done \notin Buffer
    BY <1>c, <2>1 DEF Event, Done, Buffer, CodingBuffer, ReviewBuffer, SecurityAuditBuffer,
                      DeploymentBuffer
  <2>3. [id |-> Fresh, what |-> Question(e.task)] \in QueueItem
    BY <2>2, ItemTypes
  <2>4. QueueGrows
    BY <1>3, <2>3 DEF OnTaskDone, e
  <2> QED BY <1>b, <1>c, <1>d, <2>1, <2>2, <2>4
<1>4. CASE OnAgentBlocked
  <2> DEFINE x == [id |-> Fresh, what |-> Question(e.task)]
  <2>1. e.type = "blocked" /\ queue' = Enqueue(queue, x)
    BY <1>4 DEF OnAgentBlocked, Receive, e
  <2>2. e.task \in Task
    BY <1>c, <2>1 DEF Event
  <2>3. x \in QueueItem /\ x.what.kind = "question" /\ x.what.task = e.task
    BY <2>2, ItemTypes DEF Question
  <2> HIDE DEF x
  <2> QED BY <1>b, <1>c, <1>d, <2>1, <2>3
<1> QED BY <1>1, <1>2, <1>3, <1>4 DEF RunLoop

\* Requests that take nothing off the queue.
LEMMA CallsGrow ==
    ASSUME TypeInv, NEW c \in Caller,
           \/ \E t \in Task : \/ Approve(c, t) \/ UpdateFile(c, t)
                              \/ \E to \in Role : Rework(c, t, to)
                              \/ \E p \in Priorities : PrioritizeFile(c, t, p)
           \/ MoveApproved(c) \/ MoveRejected(c) \/ UpdateBoard(c) \/ PrioritizeBoard(c)
    PROVE  queue' = queue /\ bus' = bus
BY DEF Approve, UpdateFile, Rework, PrioritizeFile, MoveApproved, MoveRejected, UpdateBoard,
       PrioritizeBoard

LEMMA CreateGrows ==
    ASSUME TypeInv, NEW t \in Task, NEW p, Create(t, p)
    PROVE  QueueGrows /\ BusGrows
<1>1. [type |-> "created", task |-> t] \in Event
  BY DEF Event
<1> QED BY <1>1 DEF Create, Emit, QueueGrows, BusGrows

\* Everything in the queue stays an item.
LEMMA QueueTypeStep ==
    ASSUME TypeInv, QueueType, [Next]_poolVars
    PROVE  QueueType'
<1>a. queue \in Seq(QueueItem)
  BY DEF QueueType
<1>1. ASSUME QueueGrows
      PROVE  QueueType'
  BY <1>1, <1>a, EnqueueFacts DEF QueueType, QueueGrows
<1>2. ASSUME NEW k \in 1 .. Len(queue), queue' = RemoveItem(queue, k)
      PROVE  QueueType'
  BY <1>2, <1>a, RemoveFacts DEF QueueType
<1>3. ASSUME NEW r \in Role, AgentStep(r) \/ AgentTool(r) \/ Unblock(r)
      PROVE  QueueType'
  BY <1>1, <1>3, AgentGrows
<1>4. ASSUME NEW c \in Caller, Request(c)
      PROVE  QueueType'
  <2>1. ASSUME NEW i \in DOMAIN queue, Answer(c, i) \/ AnswerApproval(c, i)
        PROVE  QueueType'
    <3>1. i \in 1 .. Len(queue) /\ queue' = RemoveItem(queue, i)
      BY <1>a, <2>1 DEF Answer, AnswerApproval
    <3> QED BY <1>2, <3>1
  <2>2. ASSUME NEW t \in Task, \/ Approve(c, t) \/ UpdateFile(c, t)
                               \/ \E to \in Role : Rework(c, t, to)
                               \/ \E p \in Priorities : PrioritizeFile(c, t, p)
        PROVE  QueueType'
    BY <1>1, <2>2, CallsGrow DEF QueueGrows
  <2> QED BY <1>4, <2>1, <2>2 DEF Request
<1>5. ASSUME NEW c \in Caller, CallStep(c)
      PROVE  QueueType'
  <2>1. CASE Settle(c)
    BY <1>1, <1>2, <1>a, <2>1, DequeueFacts DEF Settle, QueueGrows
  <2>2. CASE MoveApproved(c) \/ MoveRejected(c) \/ UpdateBoard(c) \/ PrioritizeBoard(c)
    BY <1>1, <2>2, CallsGrow DEF QueueGrows
  <2> QED BY <1>5, <2>1, <2>2 DEF CallStep
<1>6. CASE \E t \in Task, p \in Priorities \cup {DefaultPriority} : Create(t, p)
  BY <1>1, <1>6, CreateGrows
<1>7. CASE RunLoop
  BY <1>1, <1>7, RunLoopGrows
<1>8. CASE Subscribe \/ Lag \/ UNCHANGED poolVars
  BY <1>8 DEF Subscribe, Lag, poolVars, QueueType
<1>9. CASE Crash
  BY <1>9, ReloadType DEF Crash, QueueType, TypeInv, TypeOK
<1> QED BY <1>3, <1>4, <1>5, <1>6, <1>7, <1>8, <1>9 DEF Next

-----------------------------------------------------------------------------
(* Agents do nothing while they are blocked.                               *)

\* The loop of a blocked agent is asleep.
BlockedRest == \A r \in Role : blocked[r] => agent[r].pc = "asleep"

LoopInv == TypeInv /\ QueueType /\ BlockedRest

LEMMA LoopStep ==
    ASSUME LoopInv, [Next]_poolVars
    PROVE  LoopInv'
<1> USE DEF LoopInv
<1>1. TypeInv' /\ QueueType'
  BY TypeStep, QueueTypeStep
<1>a. agent \in [Role -> AgentState] /\ blocked \in [Role -> BOOLEAN]
  BY DEF TypeInv, TypeOK
<1>2. ASSUME NEW r \in Role, NEW p, Goto(r, p), agent[r].pc # "asleep", UNCHANGED blocked
      PROVE  BlockedRest'
  <2>1. \A q \in Role : q # r => agent'[q] = agent[q]
    BY <1>2, <1>a DEF Goto
  <2> QED BY <1>2, <2>1 DEF BlockedRest
<1>3. ASSUME NEW r \in Role, Sleep(r), \A q \in Role : q # r => blocked'[q] = blocked[q]
      PROVE  BlockedRest'
  <2>1. /\ agent'[r].pc = "asleep"
        /\ \A q \in Role : q # r => agent'[q] = agent[q]
    BY <1>3, <1>a DEF Sleep, Asleep
  <2> QED BY <1>3, <2>1 DEF BlockedRest
<1>4. ASSUME UNCHANGED agent, \A r \in Role : blocked'[r] => blocked[r]
      PROVE  BlockedRest'
  BY <1>4 DEF BlockedRest
<1>5. ASSUME NEW r \in Role, AgentStep(r)
      PROVE  BlockedRest'
  <2>1. CASE Wake(r)
    <3>1. /\ ~blocked[r]
          /\ \A q \in Role : q # r => agent'[q] = agent[q]
          /\ UNCHANGED blocked
      BY <2>1, <1>a DEF Wake
    <3> QED BY <3>1 DEF BlockedRest
  <2>2. CASE \/ Prepare(r) \/ Finish(r) \/ Report(r) \/ Pass(r) \/ Retry(r) \/ GiveUp(r)
             \/ Escalate(r) \/ CheckWip(r)
    <3>1. agent[r].pc # "asleep" /\ UNCHANGED blocked /\ \E p : Goto(r, p)
      BY <2>2 DEF Prepare, Finish, Report, Pass, Retry, GiveUp, Escalate, CheckWip
    <3> QED BY <1>2, <3>1
  <2>3. CASE Fail(r) \/ Flag(r) \/ Stall(r) \/ Move(r)
    BY <1>3, <1>a, <2>3 DEF Fail, Flag, Stall, Move
  <2>4. CASE WakeInVain(r)
    BY <1>4, <2>4 DEF WakeInVain
  <2> QED BY <1>5, <2>1, <2>2, <2>3, <2>4 DEF AgentStep
<1>6. ASSUME NEW r \in Role, AgentTool(r) \/ Unblock(r)
      PROVE  BlockedRest'
  <2>1. UNCHANGED agent
    BY <1>6 DEF AgentTool, AskHuman, BlockTask, Unblock
  <2>2. \A q \in Role : blocked'[q] => blocked[q]
    BY <1>6, <1>a DEF AgentTool, AskHuman, BlockTask, Unblock
  <2> QED BY <1>4, <2>1, <2>2
<1>7. ASSUME NEW c \in Caller, Request(c) \/ CallStep(c)
      PROVE  UNCHANGED <<agent, blocked>>
  BY <1>7 DEF Request, Approve, Rework, UpdateFile, PrioritizeFile, Answer, AnswerApproval,
              CallStep, MoveApproved, MoveRejected, Settle, UpdateBoard, PrioritizeBoard
<1>8. ASSUME \/ \E t \in Task, p \in Priorities \cup {DefaultPriority} : Create(t, p)
             \/ Subscribe \/ RunLoop \/ Lag \/ UNCHANGED poolVars
      PROVE  UNCHANGED <<agent, blocked>>
  BY <1>8 DEF Create, Subscribe, RunLoop, OnTaskCreated, OnTaskEntersWork,
              OnTaskEntersBuffer, OnTaskDone, OnAgentBlocked, Lag, poolVars
<1>9. ASSUME Crash
      PROVE  BlockedRest'
  BY <1>9 DEF Crash, Asleep, BlockedRest
<1> QED BY <1>1, <1>4, <1>5, <1>6, <1>7, <1>8, <1>9 DEF Next

LEMMA LoopInvariant == Spec => []LoopInv
<1>1. Init => LoopInv
  <2>1. SUFFICES ASSUME Init PROVE LoopInv
    OBVIOUS
  <2>2. TypeInv
    BY <2>1, InitType
  <2>3. QueueType
    BY <2>1, <2>2, ReloadType DEF Init, Start, QueueType, TypeInv, TypeOK
  <2>4. BlockedRest
    BY <2>1 DEF Init, Start, BlockedRest
  <2> QED BY <2>2, <2>3, <2>4 DEF LoopInv
<1>2. LoopInv /\ [Next]_poolVars => LoopInv'
  BY LoopStep
<1> QED BY <1>1, <1>2, PTL DEF Spec

-----------------------------------------------------------------------------
(* Approvals.                                                              *)

\* The oldest events leave the bus: received one by one, or pushed out.
LEMMA ReceiptShortens ==
    ASSUME TypeInv, bus # <<>>, bus' = Tail(bus)
    PROVE  \E n \in 1 .. Len(bus) : bus' = SubSeq(bus, n + 1, Len(bus))
<1>1. bus \in Seq(Event) /\ Len(bus) \in Nat \ {0}
  BY DEF TypeInv, TypeOK
<1>2. Tail(bus) = SubSeq(bus, 1 + 1, Len(bus))
  BY <1>1
<1> QED BY <1>1, <1>2

LEMMA MarksShift ==
    ASSUME TypeInv, NEW n \in 1 .. Len(bus), bus' = SubSeq(bus, n + 1, Len(bus))
    PROVE  /\ bus' \in Seq(Event) /\ Len(bus') = Len(bus) - n
           /\ \A j \in 1 .. Len(bus) - n : bus'[j] = bus[j + n]
           /\ \A kind, t : \A j \in Nat \ {0} : Mark(kind, t, j)' <=> Mark(kind, t, j + n)
<1>1. bus \in Seq(Event)
  BY DEF TypeInv, TypeOK
<1>2. /\ bus' \in Seq(Event) /\ Len(bus') = Len(bus) - n
      /\ \A j \in 1 .. Len(bus) - n : bus'[j] = bus[j + n]
  BY <1>1
<1>3. ASSUME NEW kind, NEW t, NEW j \in Nat \ {0}
      PROVE  Mark(kind, t, j)' <=> Mark(kind, t, j + n)
  <2>1. j \in DOMAIN bus' <=> j + n \in DOMAIN bus
    BY <1>1, <1>2
  <2>2. j \in DOMAIN bus' => bus'[j] = bus[j + n]
    BY <1>1, <1>2
  <2> QED BY <2>1, <2>2 DEF Mark
<1> QED BY <1>2, <1>3

\* What a step does to the bus that announces no arrival of t.
BusQuiet(t) ==
    \/ bus' = bus
    \/ \E n \in 1 .. Len(bus) : bus' = SubSeq(bus, n + 1, Len(bus))
    \/ \E e \in Event : /\ bus' = Append(bus, e)
                        /\ ~(e.type = "stage" /\ e.task = t /\ e.to \in Buffer)

LEMMA AnnouncedStays ==
    ASSUME TypeInv, NEW t \in Task, Announced(t), BusQuiet(t),
           board'.column[t] \in Buffer => board'.column[t] = board.column[t]
    PROVE  Announced(t)'
<1> SUFFICES ASSUME NEW i \in Nat, board'.column[t] \in Buffer, Mark("approval", t, i)',
                    \A j \in Nat : Mark("approval", t, j)' => j <= i
             PROVE  bus'[i].to = board.column[t]
  BY DEF Announced
<1>a. bus \in Seq(Event)
  BY DEF TypeInv, TypeOK
<1>1. CASE bus' = bus
  <2>1. \A j \in Nat : Mark("approval", t, j)' <=> Mark("approval", t, j)
    BY <1>1 DEF Mark, Notifies
  <2> QED BY <1>1, <2>1 DEF Announced
<1>2. ASSUME NEW n \in 1 .. Len(bus), bus' = SubSeq(bus, n + 1, Len(bus))
      PROVE  bus'[i].to = board.column[t]
  <2>1. /\ Len(bus') = Len(bus) - n /\ bus' \in Seq(Event)
        /\ \A j \in 1 .. Len(bus) - n : bus'[j] = bus[j + n]
        /\ \A j \in Nat \ {0} : Mark("approval", t, j)' <=> Mark("approval", t, j + n)
    BY <1>2, MarksShift
  <2>2. i \in 1 .. Len(bus) - n /\ bus'[i] = bus[i + n]
    BY <1>a, <2>1 DEF Mark
  <2>3. Mark("approval", t, i + n)
    BY <2>1, <2>2
  <2>4. ASSUME NEW j \in Nat, Mark("approval", t, j)
        PROVE  j <= i + n
    <3>1. CASE j <= n
      BY <2>2, <3>1
    <3>2. CASE j > n
      <4>1. j - n \in Nat \ {0} /\ (j - n) + n = j
        BY <3>2
      <4>2. Mark("approval", t, j - n)'
        BY <2>1, <2>4, <4>1
      <4> QED BY <4>1, <4>2
    <3> QED BY <3>1, <3>2
  <2> QED BY <2>2, <2>3, <2>4 DEF Announced
<1>3. ASSUME NEW e \in Event, bus' = Append(bus, e),
             ~(e.type = "stage" /\ e.task = t /\ e.to \in Buffer)
      PROVE  bus'[i].to = board.column[t]
  <2>1. \A j \in Nat : Mark("approval", t, j)' <=> Mark("approval", t, j)
    <3> SUFFICES ASSUME NEW j \in Nat
                 PROVE  Mark("approval", t, j)' <=> Mark("approval", t, j)
      OBVIOUS
    <3>1. CASE j = Len(bus) + 1
      <4>1. j \notin DOMAIN bus /\ bus'[j] = e
        BY <1>a, <1>3, <3>1
      <4> QED BY <1>3, <4>1 DEF Mark, Notifies
    <3>2. CASE j # Len(bus) + 1
      <4>1. (j \in DOMAIN bus' <=> j \in DOMAIN bus) /\ (j \in DOMAIN bus => bus'[j] = bus[j])
        BY <1>a, <1>3, <3>2
      <4> QED BY <4>1 DEF Mark, Notifies
    <3> QED BY <3>1, <3>2
  <2>2. Mark("approval", t, i) /\ \A j \in Nat : Mark("approval", t, j) => j <= i
    BY <2>1
  <2>3. bus'[i] = bus[i]
    BY <1>a, <1>3, <2>2 DEF Mark, Notifies
  <2> QED BY <2>2, <2>3 DEF Announced
<1> QED BY <1>1, <1>2, <1>3 DEF BusQuiet

\* A step that takes the task to no buffer, ends no claim and loses no token.
Undisturbed(t) ==
    /\ BusQuiet(t)
    /\ board'.column[t] \in Buffer => board'.column[t] = board.column[t]
    /\ Settling(t)' => \/ Settling(t)
                       \/ board.column[t] \in Buffer /\ board'.column[t] \notin Buffer
    /\ One("approval", t) => One("approval", t)'
    /\ Two("approval", t) => Two("approval", t)'

LEMMA WaitQuiet ==
    ASSUME TypeInv, NEW t \in Task, Awaits(t), Announced(t), Undisturbed(t)
    PROVE  Awaits(t)' /\ Announced(t)'
<1>1. Announced(t)'
  BY AnnouncedStays DEF Undisturbed
<1>2. Awaits(t)'
  BY DEF Awaits, Undisturbed
<1> QED BY <1>1, <1>2

ApprovalInv(L) == HomeInv /\ LoopInv /\ WaitInv(L)

LEMMA QuietStep ==
    ASSUME NEW L, ApprovalInv(L), Kept, \A t \in Task : BusQuiet(t),
           board'.column = board.column, \A t \in Task : Settling(t)' => Settling(t)
    PROVE  WaitInv(L)'
<1> SUFFICES ASSUME NEW t \in Task \ L
             PROVE  Awaits(t)' /\ Announced(t)'
  BY DEF WaitInv
<1>1. TypeInv /\ Awaits(t) /\ Announced(t)
  BY DEF ApprovalInv, HomeInv, WaitInv
<1>2. Undisturbed(t)
  BY DEF Undisturbed, Kept
<1> QED BY <1>1, <1>2, WaitQuiet

LEMMA SettlingStays ==
    ASSUME calls' = calls
    PROVE  \A t : Settling(t)' <=> Settling(t)
BY DEF Settling

\* The steps of a loop that announce no arrival.
LEMMA AgentWait ==
    ASSUME NEW L, ApprovalInv(L), NoBlocking, NEW r \in Role,
           AgentStep(r) \/ AgentTool(r) \/ Unblock(r), ~Move(r)
    PROVE  WaitInv(L)'
<1>1. TypeInv /\ QueueType
  BY DEF ApprovalInv, HomeInv, LoopInv
<1>2. Kept
  BY <1>1, AgentGrows, GrowthKeeps
<1>3. \A blockers : ~BlockTask(r, blockers)
  BY <1>1, Unspent DEF BlockTask, NoBlocking, Op
<1>4. board'.column = board.column
  <2>1. CASE AgentStep(r)
    BY <1>1, <2>1, AgentStepKind DEF StandsStill, CheckWip
  <2>2. CASE AgentTool(r) \/ Unblock(r)
    BY <1>3, <2>2 DEF AgentTool, AskHuman, Unblock
  <2> QED BY <2>1, <2>2
<1>5. calls' = calls
  <2>1. CASE AgentStep(r)
    BY <2>1 DEF AgentStep, Wake, WakeInVain, Prepare, Finish, Fail, Report, Pass, Retry,
                GiveUp, Escalate, Flag, CheckWip, Stall, Move
  <2>2. CASE AgentTool(r) \/ Unblock(r)
    BY <1>3, <2>2 DEF AgentTool, AskHuman, Unblock
  <2> QED BY <2>1, <2>2
<1>6. ASSUME NEW t \in Task
      PROVE  BusQuiet(t)
  <2>1. CASE Escalate(r)
    <3> DEFINE e == [type |-> "blocked", task |-> agent[r].task]
    <3>1. e \in Event
      BY <1>1, <2>1 DEF Escalate, TypeInv, AgentsEngaged, Event
    <3>2. bus' = bus \/ bus' = Append(bus, e)
      BY <2>1 DEF Escalate, Emit
    <3>3. e.type # "stage"
      OBVIOUS
    <3> HIDE DEF e
    <3> QED BY <3>1, <3>2, <3>3 DEF BusQuiet
  <2>2. CASE AgentStep(r) /\ ~Escalate(r)
    BY <2>2 DEF AgentStep, Wake, WakeInVain, Prepare, Finish, Fail, Report, Pass, Retry,
                GiveUp, Flag, CheckWip, Stall, BusQuiet
  <2>3. CASE AgentTool(r) \/ Unblock(r)
    BY <1>3, <2>3 DEF AgentTool, AskHuman, Unblock, BusQuiet
  <2> QED BY <2>1, <2>2, <2>3
<1> QED BY <1>2, <1>4, <1>5, <1>6, QuietStep, SettlingStays

\* An agent that takes its task into a buffer adds the token of the visit, and
\* its announcement is the last.
LEMMA MoveWait ==
    ASSUME NEW L, ApprovalInv(L), NEW r \in Role, Move(r), NEW t \in Task, t = agent[r].task
    PROVE  WaitInv(L \cup {t})' /\ (subscribed => WaitInv(L)')
<1> DEFINE n == NextColumn(r)
<1>1. TypeInv /\ QueueType
  BY DEF ApprovalInv, HomeInv, LoopInv
<1>m. /\ agent[r].task \in Task /\ board.column[agent[r].task] = r
      /\ board'.column = [board.column EXCEPT ![agent[r].task] = n]
  BY MoveMoves DEF ApprovalInv
<1> DEFINE e == [type |-> "stage", task |-> t, from |-> r, to |-> n]
<1>2. /\ board.column[t] = r /\ n \in Column
      /\ board'.column = [board.column EXCEPT ![t] = n]
  BY <1>m, ColumnFacts
<1>3. /\ board.column \in [Task -> Column \cup {Absent}]
      /\ bus \in Seq(Event) /\ e \in Event
  BY <1>1, <1>2, ColumnFacts DEF TypeInv, TypeOK, Board, Event
<1>4. bus' = (IF subscribed THEN Append(bus, e) ELSE bus) /\ queue' = queue /\ calls' = calls
  BY DEF Move, Emit
<1>5. Kept
  BY <1>1, AgentGrows, GrowthKeeps DEF AgentStep
<1>6. \A u : Settling(u)' <=> Settling(u)
  BY <1>4, SettlingStays
<1>7. e.type = "stage" /\ e.task = t /\ e.to = n /\ r \notin Buffer
  BY ColumnFacts
<1>8. \A u \in Task \ L : Awaits(u) /\ Announced(u)
  BY DEF ApprovalInv, WaitInv
<1> HIDE DEF n, e
<1>9. ASSUME NEW u \in Task \ L, u # t \/ n \notin Buffer
      PROVE  Awaits(u)' /\ Announced(u)'
  <2>1. BusQuiet(u)
    BY <1>3, <1>4, <1>7, <1>9 DEF BusQuiet
  <2>2. board'.column[u] \in Buffer => board'.column[u] = board.column[u]
    BY <1>2, <1>3, <1>9
  <2>3. /\ One("approval", u) => One("approval", u)'
        /\ Two("approval", u) => Two("approval", u)'
    BY <1>5 DEF Kept
  <2>4. Undisturbed(u)
    BY <1>6, <2>1, <2>2, <2>3 DEF Undisturbed
  <2> QED BY <1>1, <1>8, <2>4, WaitQuiet
<1>10. ASSUME n \in Buffer, subscribed, t \notin L
       PROVE  Awaits(t)' /\ Announced(t)'
  <2>0. PICK last \in Nat : last = Len(bus) + 1
    BY <1>3
  <2>1. /\ DOMAIN bus' = 1 .. last /\ bus'[last] = e
        /\ \A j \in 1 .. Len(bus) : bus'[j] = bus[j]
        /\ DOMAIN bus = 1 .. Len(bus)
    BY <1>3, <1>4, <1>10, <2>0
  <2>2. Mark("approval", t, last)'
    BY <2>0, <1>7, <1>10, <2>1 DEF Mark, Notifies
  <2>3. One("approval", t)'
    BY <2>1, <2>2 DEF One
  <2>4. ASSUME Settling(t)
        PROVE  Two("approval", t)'
    <3>1. PICK i \in Nat : Item("approval", t, i) \/ Mark("approval", t, i)
      BY <1>2, <1>8, <1>10, <2>4 DEF Awaits, One
    <3>2. CASE Item("approval", t, i)
      <4>1. Item("approval", t, i)'
        BY <1>4, <3>2 DEF Item
      <4> QED BY <2>1, <2>2, <4>1 DEF Two
    <3>3. CASE Mark("approval", t, i)
      <4>1. i \in 1 .. Len(bus) /\ Mark("approval", t, i)'
        BY <1>3, <2>0, <2>1, <3>3 DEF Mark, Notifies
      <4>2. i # last
        BY <1>3, <2>0, <4>1
      <4> QED BY <2>1, <2>2, <4>1, <4>2 DEF Two
    <3> QED BY <3>1, <3>2, <3>3
  <2>5. ASSUME NEW i \in Nat, Mark("approval", t, i)',
               \A j \in Nat : Mark("approval", t, j)' => j <= i
        PROVE  bus'[i].to = board'.column[t]
    <3>1. i = last
      <4>1. i \in 1 .. last /\ last <= i
        BY <2>1, <2>2, <2>5 DEF Mark, Notifies
      <4> QED BY <4>1
    <3> QED BY <1>2, <1>3, <1>7, <2>1, <3>1
  <2> QED BY <1>6, <2>3, <2>4, <2>5 DEF Awaits, Announced
<1> QED BY <1>9, <1>10 DEF WaitInv

\* A request that begins claims nothing; an answer takes a question.
LEMMA RequestWait ==
    ASSUME NEW L, ApprovalInv(L), NEW c \in Caller, Request(c)
    PROVE  \E M : WaitInv(M)' /\ \A t \in M \ L : Misanswered("approval", t)
<1>1. TypeInv /\ QueueType /\ calls \in [Caller -> Call] /\ queue \in Seq(QueueItem)
  BY DEF ApprovalInv, HomeInv, LoopInv, TypeInv, TypeOK, QueueType
<1>2. board'.column = board.column /\ bus' = bus
  <2>1. board'.column = board.column
    BY <1>1, RequestKind DEF StandsStill
  <2> QED BY <2>1 DEF Request, Approve, Rework, UpdateFile, PrioritizeFile, Answer,
                      AnswerApproval
<1>3. \A t : BusQuiet(t)
  BY <1>2 DEF BusQuiet
<1>4. ASSUME NEW t \in Task, NEW step \in {"approve", "rework", "update", "prioritize"},
             NEW to, NEW copy, Begin(c, step, t, to, copy), queue' = queue
      PROVE  WaitInv(L)'
  <2>1. Kept
    BY <1>1, <1>2, <1>4, GrowthKeeps DEF QueueGrows, BusGrows
  <2>2. \A d \in Caller : calls'[d].step \in {"approved", "rejected"} => calls'[d] = calls[d]
    BY <1>1, <1>4 DEF Begin
  <2>3. \A u \in Task : Settling(u)' => Settling(u)
    BY <2>2 DEF Settling
  <2> QED BY <1>2, <1>3, <2>1, <2>3, QuietStep
<1>5. ASSUME NEW i \in DOMAIN queue, Answer(c, i)
      PROVE  WaitInv(L)'
  <2>1. i \in 1 .. Len(queue) /\ queue' = RemoveItem(queue, i) /\ calls' = calls
        /\ queue[i].what.kind = "question"
    BY <1>1, <1>5 DEF Answer
  <2>2. \A u \in Task : Settling(u)' => Settling(u)
    BY <2>1, SettlingStays
  <2> SUFFICES ASSUME NEW t \in Task \ L
               PROVE  Awaits(t)' /\ Announced(t)'
    BY DEF WaitInv
  <2>3. ~Item("approval", t, i)
    BY <2>1 DEF Item
  <2>4. /\ One("approval", t) => One("approval", t)'
        /\ Two("approval", t) => Two("approval", t)'
    BY <1>1, <1>2, <2>1, <2>3, RemovalKeeps
  <2>5. Undisturbed(t)
    BY <1>2, <1>3, <2>2, <2>4 DEF Undisturbed
  <2> QED BY <1>1, <2>5, WaitQuiet DEF ApprovalInv, WaitInv
<1>6. ASSUME NEW i \in DOMAIN queue, AnswerApproval(c, i)
      PROVE  \E M : WaitInv(M)' /\ \A t \in M \ L : Misanswered("approval", t)
  <2>1. PICK t : t = queue[i].what.task
    OBVIOUS
  <2>2. i \in 1 .. Len(queue) /\ queue' = RemoveItem(queue, i) /\ calls' = calls
    BY <1>1, <1>6 DEF AnswerApproval
  <2>3. \A u \in Task : Settling(u)' => Settling(u)
    BY <2>2, SettlingStays
  <2>4. ASSUME NEW u \in Task \ (L \cup {t})
        PROVE  Awaits(u)' /\ Announced(u)'
    <3>1. ~Item("approval", u, i)
      BY <2>1, <2>4 DEF Item
    <3>2. /\ One("approval", u) => One("approval", u)'
          /\ Two("approval", u) => Two("approval", u)'
      BY <1>1, <1>2, <2>2, <3>1, RemovalKeeps
    <3>3. Undisturbed(u)
      BY <1>2, <1>3, <2>3, <3>2 DEF Undisturbed
    <3> QED BY <1>1, <3>3, WaitQuiet DEF ApprovalInv, WaitInv
  <2>5. Misanswered("approval", t)
    BY <1>6, <2>1 DEF Misanswered
  <2>6. WaitInv(L \cup {t})'
    BY <2>4 DEF WaitInv
  <2> QED BY <2>5, <2>6
<1>7. ASSUME WaitInv(L)'
      PROVE  \E M : WaitInv(M)' /\ \A t \in M \ L : Misanswered("approval", t)
  BY <1>7
<1> QED BY <1>4, <1>5, <1>6, <1>7
        DEF Request, Approve, Rework, UpdateFile, PrioritizeFile

\* A verdict that moves its task trades the task's claim for its own.
LEMMA VerdictWait ==
    ASSUME NEW L, ApprovalInv(L), NEW c \in Caller, MoveApproved(c) \/ MoveRejected(c)
    PROVE  WaitInv(L)'
<1>1. TypeInv /\ QueueType /\ HomeInv /\ calls \in [Caller -> Call]
      /\ board.column \in [Task -> Column \cup {Absent}]
  BY DEF ApprovalInv, HomeInv, LoopInv, TypeInv, TypeOK, Board
<1>2. queue' = queue /\ bus' = bus
  BY DEF MoveApproved, MoveRejected
<1>3. Kept
  BY <1>1, <1>2, GrowthKeeps DEF QueueGrows, BusGrows
<1>v. /\ calls[c].task \in Task /\ board.column[calls[c].task] \in Buffer
      /\ \E to \in Role : board'.column = [board.column EXCEPT ![calls[c].task] = to]
  BY <1>1, VerdictMoves
<1>t. PICK t \in Task : t = calls[c].task
  BY <1>v
<1>r. PICK to \in Role : board'.column = [board.column EXCEPT ![t] = to]
  BY <1>v, <1>t
<1>4. board'.column[t] \notin Buffer /\ \A u \in Task : u # t => board'.column[u] = board.column[u]
  BY <1>1, <1>r, ColumnFacts
<1>5. /\ \A d \in Caller : d # c => calls'[d] = calls[d]
      /\ calls'[c].task = t
  BY <1>1, <1>t DEF MoveApproved, MoveRejected, Call
<1> SUFFICES ASSUME NEW u \in Task \ L
             PROVE  Awaits(u)' /\ Announced(u)'
  BY DEF WaitInv
<1>6. Settling(u)' => Settling(u) \/ u = t
  BY <1>5 DEF Settling
<1>7. Undisturbed(u)
  BY <1>2, <1>3, <1>v, <1>t, <1>4, <1>6 DEF Undisturbed, BusQuiet, Kept
<1> QED BY <1>1, <1>7, WaitQuiet DEF ApprovalInv, WaitInv

\* A request that settles was the only one about its task.
LEMMA SettleEnds ==
    ASSUME Separate, calls \in [Caller -> Call], NEW c \in Caller, Settle(c),
           NEW t, t = calls[c].task
    PROVE  /\ Settling(t) /\ ~Settling(t)'
           /\ \A u : Settling(u)' => Settling(u)
<1>1. /\ calls[c].step \in {"approved", "rejected"}
      /\ \A d \in Caller : calls'[d] = IF d = c THEN NoCall ELSE calls[d]
  BY DEF Settle, End
<1>2. NoCall.step = "none"
  BY DEF NoCall
<1>3. \A d \in Caller : calls'[d].step \in {"approved", "rejected"} =>
         /\ calls'[d] = calls[d]
         /\ calls[d].task # t
  BY <1>1, <1>2 DEF Separate
<1>4. \A u : Settling(u)' => Settling(u) /\ u # t
  BY <1>3 DEF Settling
<1> QED BY <1>1, <1>4 DEF Settling

\* The rest of it takes one item of the task: if the task is in a buffer
\* again, of two tokens one is left.
LEMMA SettleWait ==
    ASSUME NEW L, ApprovalInv(L), Separate, NEW c \in Caller, Settle(c)
    PROVE  WaitInv(L)'
<1>1. TypeInv /\ QueueType /\ HomeInv /\ calls \in [Caller -> Call] /\ queue \in Seq(QueueItem)
  BY DEF ApprovalInv, HomeInv, LoopInv, TypeInv, TypeOK, QueueType
<1>2. board'.column = board.column /\ bus' = bus
  BY DEF Settle
<1>t. PICK t \in Task : t = calls[c].task
  BY <1>1 DEF Settle, TypeInv, CallsEngaged, Verdict
<1>3. Settling(t) /\ ~Settling(t)' /\ \A u : Settling(u)' => Settling(u)
  BY <1>1, <1>t, SettleEnds
<1>4. queue' = DequeueByTask(queue, t)
  BY <1>t DEF Settle
<1> SUFFICES ASSUME NEW u \in Task \ L
             PROVE  Awaits(u)' /\ Announced(u)'
  BY DEF WaitInv
<1>5. Awaits(u) /\ Announced(u)
  BY DEF ApprovalInv, WaitInv
<1>6. Announced(u)'
  BY <1>1, <1>2, <1>5, AnnouncedStays DEF BusQuiet
<1>7. ASSUME board.column[u] \in Buffer \/ Settling(u)'
      PROVE  One("approval", u)'
  <2>1. CASE queue' = queue
    <3>1. Kept
      BY <1>1, <1>2, <2>1, GrowthKeeps DEF QueueGrows, BusGrows
    <3> QED BY <1>3, <1>5, <1>7, <3>1 DEF Awaits, Kept
  <2>2. ASSUME NEW k \in 1 .. Len(queue), queue[k].what.task = t, queue' = RemoveItem(queue, k)
        PROVE  One("approval", u)'
    <3>1. /\ Two("approval", u) => One("approval", u)'
          /\ ~Item("approval", u, k) /\ One("approval", u) => One("approval", u)'
      BY <1>1, <1>2, <2>2, RemovalKeeps
    <3>2. CASE u = t
      BY <1>3, <1>5, <1>7, <3>1, <3>2 DEF Awaits
    <3>3. CASE u # t
      BY <1>3, <1>5, <1>7, <2>2, <3>1, <3>3 DEF Awaits, Item
    <3> QED BY <3>2, <3>3
  <2> QED BY <1>1, <1>4, <2>1, <2>2, DequeueFacts
<1>8. ASSUME board.column[u] \in Buffer, Settling(u)'
      PROVE  Two("approval", u)'
  <2>1. u # t /\ Two("approval", u)
    BY <1>3, <1>5, <1>8 DEF Awaits
  <2>2. CASE queue' = queue
    <3>1. Kept
      BY <1>1, <1>2, <2>2, GrowthKeeps DEF QueueGrows, BusGrows
    <3> QED BY <2>1, <3>1 DEF Kept
  <2>3. ASSUME NEW k \in 1 .. Len(queue), queue[k].what.task = t, queue' = RemoveItem(queue, k)
        PROVE  Two("approval", u)'
    BY <1>1, <1>2, <2>1, <2>3, RemovalKeeps DEF Item
  <2> QED BY <1>1, <1>4, <2>2, <2>3, DequeueFacts
<1>9. Awaits(u)'
  BY <1>2, <1>7, <1>8 DEF Awaits
<1> QED BY <1>6, <1>9

LEMMA CallWait ==
    ASSUME NEW L, ApprovalInv(L), Separate, NEW c \in Caller, CallStep(c)
    PROVE  WaitInv(L)'
<1>1. CASE MoveApproved(c) \/ MoveRejected(c)
  BY <1>1, VerdictWait
<1>2. CASE Settle(c)
  BY <1>2, SettleWait
<1>3. CASE UpdateBoard(c) \/ PrioritizeBoard(c)
  <2>1. TypeInv /\ QueueType /\ calls \in [Caller -> Call]
    BY DEF ApprovalInv, HomeInv, LoopInv, TypeInv, TypeOK
  <2>2. queue' = queue /\ bus' = bus /\ board'.column = board.column
    BY <1>3, CallStays DEF UpdateBoard, PrioritizeBoard, ApprovalInv
  <2>3. Kept
    BY <2>1, <2>2, GrowthKeeps DEF QueueGrows, BusGrows
  <2>4. \A d \in Caller : calls'[d] = calls[d] \/ calls'[d].step = "none"
    BY <1>3, <2>1 DEF UpdateBoard, PrioritizeBoard, End, NoCall
  <2>5. \A u \in Task : Settling(u)' => Settling(u)
    BY <2>4 DEF Settling
  <2> QED BY <2>2, <2>3, <2>5, QuietStep DEF BusQuiet
<1> QED BY <1>1, <1>2, <1>3 DEF CallStep

\* A task is created away from the buffers.
LEMMA CreateWait ==
    ASSUME NEW L, ApprovalInv(L), NEW t \in Task, NEW p \in Nat, Create(t, p)
    PROVE  WaitInv(L)'
<1>1. TypeInv /\ QueueType /\ HomeInv /\ board.column \in [Task -> Column \cup {Absent}]
  BY DEF ApprovalInv, HomeInv, LoopInv, TypeInv, TypeOK, Board
<1>2. Kept
  BY <1>1, CreateGrows, GrowthKeeps
<1>3. board'.column = [board.column EXCEPT ![t] = Prioritized] /\ Prioritized \notin Buffer
  BY <1>1, CreateMoves, ColumnFacts
<1>4. calls' = calls /\ (bus' = bus \/ bus' = Append(bus, [type |-> "created", task |-> t]))
  BY DEF Create, Emit
<1>5. [type |-> "created", task |-> t] \in Event /\ [type |-> "created", task |-> t].type # "stage"
  BY DEF Event
<1> SUFFICES ASSUME NEW u \in Task \ L
             PROVE  Awaits(u)' /\ Announced(u)'
  BY DEF WaitInv
<1>6. BusQuiet(u)
  BY <1>4, <1>5 DEF BusQuiet
<1>7. Undisturbed(u)
  BY <1>1, <1>2, <1>3, <1>4, <1>6, SettlingStays DEF Undisturbed, Kept
<1> QED BY <1>1, <1>7, WaitQuiet DEF ApprovalInv, WaitInv

\* Events pushed out of the bus were the tokens of the tasks they tell of.
LEMMA LagKeeps ==
    ASSUME TypeInv, Lag, NEW kind, NEW t, ~Dropped(kind, t)
    PROVE  (One(kind, t) => One(kind, t)') /\ (Two(kind, t) => Two(kind, t)')
<1>1. PICK n \in 1 .. Len(bus) : bus' = SubSeq(bus, n + 1, Len(bus))
  BY DEF Lag
<1>2. bus \in Seq(Event) /\ Len(bus) \in Nat /\ n \in Nat
  BY DEF TypeInv, TypeOK
<1>3. /\ Len(bus) - Len(bus') = n
      /\ \A j \in Nat \ {0} : Mark(kind, t, j)' <=> Mark(kind, t, j + n)
  <2>1. /\ Len(bus') = Len(bus) - n
        /\ \A k, u : \A j \in Nat \ {0} : Mark(k, u, j)' <=> Mark(k, u, j + n)
    BY <1>1, MarksShift
  <2> QED BY <1>2, <2>1
<1>4. ASSUME NEW j \in Nat, Mark(kind, t, j)
      PROVE  j > n /\ j - n \in Nat \ {0} /\ Mark(kind, t, j - n)'
  <2>1. ~(j \in 1 .. n)
    BY <1>3, <1>4 DEF Dropped, Mark
  <2>2. j \in 1 .. Len(bus)
    BY <1>2, <1>4 DEF Mark
  <2>3. j > n /\ j - n \in Nat \ {0} /\ (j - n) + n = j
    BY <1>2, <2>1, <2>2
  <2> QED BY <1>3, <1>4, <2>3
<1>5. \A i \in Nat : Item(kind, t, i) => Item(kind, t, i)'
  BY DEF Lag, Item
<1>6. One(kind, t) => One(kind, t)'
  BY <1>4, <1>5 DEF One
<1>7. ASSUME NEW i \in Nat, NEW j \in Nat, i # j, Mark(kind, t, i), Mark(kind, t, j)
      PROVE  Two(kind, t)'
  <2>1. i - n # j - n
    BY <1>2, <1>7
  <2> QED BY <1>4, <1>7, <2>1 DEF Two
<1>8. Two(kind, t) => Two(kind, t)'
  BY <1>4, <1>5, <1>7 DEF Two
<1> QED BY <1>6, <1>8

LEMMA LagWait ==
    ASSUME NEW L, ApprovalInv(L), Lag
    PROVE  \E M : WaitInv(M)' /\ \A t \in M \ L : Dropped("approval", t)
<1>1. TypeInv /\ board' = board /\ calls' = calls
  BY DEF ApprovalInv, HomeInv, Lag
<1>2. PICK M : M = L \cup {t \in Task : Dropped("approval", t)}
  OBVIOUS
<1>3. ASSUME NEW t \in Task \ M
      PROVE  Awaits(t)' /\ Announced(t)'
  <2>1. t \notin L /\ ~Dropped("approval", t)
    BY <1>2, <1>3
  <2>2. /\ One("approval", t) => One("approval", t)'
        /\ Two("approval", t) => Two("approval", t)'
    BY <1>1, <2>1, LagKeeps
  <2>3. BusQuiet(t)
    BY DEF Lag, BusQuiet
  <2>4. Undisturbed(t)
    BY <1>1, <2>2, <2>3, SettlingStays DEF Undisturbed
  <2> QED BY <1>1, <2>1, <2>4, WaitQuiet DEF ApprovalInv, WaitInv
<1>4. WaitInv(M)'
  BY <1>3 DEF WaitInv
<1> QED BY <1>2, <1>4

\* After a restart no verdict is being carried out and nothing is on the bus.
LEMMA CrashWait ==
    ASSUME TypeInv, Crash
    PROVE  \E M : WaitInv(M)' /\ \A t \in M : Unfiled("approval", t)
<1>0. queue' \in Seq(QueueItem)
  BY ReloadType DEF Crash, TypeInv, TypeOK
<1>1. PICK M : M = {t \in Task : ~ApprovalQueued(t)'}
  OBVIOUS
<1>2. \A t : ~Settling(t)'
  BY DEF Crash, Settling, NoCall
<1>3. \A t, i : ~Mark("approval", t, i)'
  BY DEF Crash, Mark
<1>4. ASSUME NEW t \in Task \ M
      PROVE  Awaits(t)' /\ Announced(t)'
  <2>1. ApprovalQueued(t)'
    BY <1>1, <1>4
  <2>2. PICK i \in DOMAIN queue' : Item("approval", t, i)'
    BY <2>1 DEF ApprovalQueued, Item
  <2>3. i \in Nat
    BY <1>0, <2>2
  <2>4. One("approval", t)'
    BY <2>2, <2>3 DEF One
  <2> QED BY <1>2, <1>3, <2>4 DEF Awaits, Announced
<1>5. WaitInv(M)'
  BY <1>4 DEF WaitInv
<1> QED BY <1>1, <1>5 DEF Unfiled

\* Whose notice a step loses is recorded, or nobody counts on it.
LEMMA RecordWait ==
    ASSUME Record, NEW M, WaitInv(M)',
           \A t \in M : Loses("approval", t) \/ (t \in lost["approval"] /\ ~Crash)
    PROVE  WaitInv(lost["approval"])'
<1> SUFFICES ASSUME NEW t \in Task, t \notin lost'["approval"]
             PROVE  Awaits(t)' /\ Announced(t)'
  BY DEF WaitInv
<1>1. CASE Claimed("approval", t)'
  <2>1. t \notin M
    BY <1>1 DEF Record, Kind
  <2> QED BY <2>1 DEF WaitInv
<1>2. CASE ~Claimed("approval", t)'
  BY <1>2 DEF Claimed, Awaits, Announced
<1> QED BY <1>1, <1>2

LEMMA WaitStep ==
    ASSUME ApprovalInv(lost["approval"]), Separate, NoBlocking, Next, Record
    PROVE  WaitInv(lost["approval"])'
<1>0. PICK L : L = lost["approval"]
  OBVIOUS
<1>1. TypeInv /\ QueueType /\ ApprovalInv(L)
  BY <1>0 DEF ApprovalInv, HomeInv, LoopInv
<1> DEFINE Covered == \E M : /\ WaitInv(M)'
                             /\ \A t \in M : Loses("approval", t) \/ (t \in L /\ ~Crash)
<1>2. SUFFICES Covered
  BY <1>0, RecordWait
<1>3. ASSUME NEW M, WaitInv(M)', ~Crash, \A t \in M \ L : Loses("approval", t)
      PROVE  Covered
  BY <1>3
<1> HIDE DEF Covered
<1>4. ASSUME NEW r \in Role, AgentStep(r) \/ AgentTool(r) \/ Unblock(r), ~Crash
      PROVE  Covered
  <2>1. CASE ~Move(r)
    BY <1>1, <1>3, <1>4, <2>1, AgentWait
  <2>2. CASE Move(r) /\ subscribed
    <3>1. agent[r].task \in Task
      BY <1>1, <2>2 DEF Move, TypeInv, AgentsEngaged
    <3> QED BY <1>1, <1>3, <1>4, <2>2, <3>1, MoveWait
  <2>3. CASE Move(r) /\ ~subscribed
    <3>1. PICK t \in Task : t = agent[r].task
      BY <1>1, <2>3 DEF Move, TypeInv, AgentsEngaged
    <3>2. WaitInv(L \cup {t})'
      BY <1>1, <2>3, <3>1, MoveWait
    <3>3. Loses("approval", t)
      BY <2>3, <3>1 DEF Loses, Unheard
    <3> QED BY <1>3, <1>4, <3>2, <3>3
  <2> QED BY <2>1, <2>2, <2>3
<1>5. ASSUME NEW c \in Caller, Request(c), ~Crash
      PROVE  Covered
  <2>1. PICK M : WaitInv(M)' /\ \A t \in M \ L : Misanswered("approval", t)
    BY <1>1, <1>5, RequestWait
  <2> QED BY <1>3, <1>5, <2>1 DEF Loses
<1>6. ASSUME NEW c \in Caller, CallStep(c), ~Crash
      PROVE  Covered
  BY <1>1, <1>3, <1>6, CallWait
<1>7. ASSUME NEW t \in Task, NEW p \in Priorities \cup {DefaultPriority}, Create(t, p), ~Crash
      PROVE  Covered
  BY <1>1, <1>3, <1>7, CreateWait, DispatcherAssumption, TaskFacts
<1>8. CASE RunLoop /\ ~Crash
  <2>1. bus # <<>> /\ bus' = Tail(bus) /\ Kept
    BY <1>1, <1>8, RunLoopGrows, ReceiptKeeps
  <2>2. board' = board /\ calls' = calls
    BY <1>8 DEF RunLoop, OnTaskCreated, OnTaskEntersWork, OnTaskEntersBuffer, OnTaskDone,
                OnAgentBlocked
  <2>3. \A t : BusQuiet(t)
    BY <1>1, <2>1, ReceiptShortens DEF BusQuiet
  <2>4. WaitInv(L)'
    BY <1>1, <2>1, <2>2, <2>3, QuietStep, SettlingStays
  <2> QED BY <1>3, <1>8, <2>4
<1>9. CASE Subscribe /\ ~Crash
  <2>1. UNCHANGED <<board, queue, bus, calls>>
    BY <1>9 DEF Subscribe
  <2>2. Kept
    BY <1>1, <2>1, GrowthKeeps DEF QueueGrows, BusGrows
  <2>3. \A t : BusQuiet(t)
    BY <2>1 DEF BusQuiet
  <2>4. WaitInv(L)'
    BY <1>1, <2>1, <2>2, <2>3, QuietStep, SettlingStays
  <2> QED BY <1>3, <1>9, <2>4
<1>10. CASE Lag /\ ~Crash
  <2>1. PICK M : WaitInv(M)' /\ \A t \in M \ L : Dropped("approval", t)
    BY <1>1, <1>10, LagWait
  <2> QED BY <1>3, <1>10, <2>1 DEF Loses
<1>11. CASE Crash
  BY <1>1, <1>11, CrashWait DEF Covered, Loses
<1> QED BY <1>4, <1>5, <1>6, <1>7, <1>8, <1>9, <1>10, <1>11 DEF Next

LEMMA NoticedInTurn == NoticedSpec => InTurnSpec
<1>1. [InTurnNext /\ Record]_noticeVars => [InTurnNext]_poolVars
  BY DEF noticeVars
<1> QED BY <1>1, PTL DEF NoticedSpec, NoticedInit, InTurnSpec

LEMMA ApprovalInvariant ==
    ASSUME NoBlocking
    PROVE  NoticedSpec => []ApprovalInv(lost["approval"])
<1>1. Init /\ NoneLost => WaitInv(lost["approval"])
  <2> SUFFICES ASSUME Init, NoneLost, NEW t \in Task, t \notin lost["approval"]
               PROVE  Awaits(t) /\ Announced(t)
    BY DEF WaitInv
  <2>1. ~Settling(t) /\ \A i : ~Mark("approval", t, i)
    BY DEF Init, Start, Settling, NoCall, Mark
  <2>2. ASSUME board.column[t] \in Buffer
        PROVE  One("approval", t)
    <3>1. ApprovalQueued(t)
      BY <2>2 DEF NoneLost, Kind
    <3>2. PICK i \in DOMAIN queue : Item("approval", t, i)
      BY <3>1 DEF ApprovalQueued, Item
    <3>3. queue \in Seq(QueueItem)
      BY InitType, ReloadType DEF Init, Start, TypeInv, TypeOK
    <3>4. i \in Nat
      BY <3>2, <3>3
    <3> QED BY <3>2, <3>4 DEF One
  <2> QED BY <2>1, <2>2 DEF Awaits, Announced
<1>2. /\ HomeInv /\ LoopInv /\ WaitInv(lost["approval"]) /\ Separate
      /\ [InTurnNext /\ Record]_noticeVars
      => WaitInv(lost["approval"])'
  <2> SUFFICES ASSUME HomeInv, LoopInv, WaitInv(lost["approval"]), Separate,
                      [InTurnNext /\ Record]_noticeVars
               PROVE  WaitInv(lost["approval"])'
    OBVIOUS
  <2>1. CASE InTurnNext /\ Record
    BY <2>1, WaitStep DEF ApprovalInv, InTurnNext
  <2>2. CASE UNCHANGED noticeVars
    BY <2>2 DEF noticeVars, poolVars, WaitInv, Awaits, Announced, Settling, One, Two, Item, Mark
  <2> QED BY <2>1, <2>2
<1>3. InTurnSpec => []HomeInv
  BY HomeInvariant
<1>4. Spec => []LoopInv
  BY LoopInvariant
<1> QED BY <1>1, <1>2, <1>3, <1>4, InTurnInvariant, NoticedInTurn, PTL
        DEF Spec, ApprovalInv, NoticedSpec, NoticedInit

\* With requests about a task made in turn and no task an agent sends back, a task
\* in a buffer never falls out of the human's sight, except in the four ways
\* recorded in lost: there is an approval item for it, or the announcement of
\* its arrival in that very buffer has still to be received, or a verdict on it
\* is being carried out -- although a verdict takes the first item of its task
\* off the queue, that of a later visit included, agents may be done before
\* run() listens, events are pushed out of the bus and the daemon restarts.
THEOREM ApprovalsAreReachable ==
    ASSUME NoBlocking
    PROVE  NoticedSpec => []ApprovalReachable
<1>1. ASSUME ApprovalInv(lost["approval"])
      PROVE  ApprovalReachable
  <2> SUFFICES ASSUME NEW t \in Task \ lost["approval"], board.column[t] \in Buffer,
                      ~ApprovalQueued(t)
               PROVE  \E i \in DOMAIN bus : bus[i].type = "stage" /\ bus[i].task = t
                                              /\ bus[i].to = board.column[t]
    BY DEF ApprovalReachable
  <2>1. bus \in Seq(Event) /\ Awaits(t) /\ Announced(t)
    BY <1>1 DEF ApprovalInv, HomeInv, WaitInv, TypeInv, TypeOK
  <2> DEFINE T == {i \in 0 .. Len(bus) : Mark("approval", t, i)}
  <2>2. PICK i \in Nat : Item("approval", t, i) \/ Mark("approval", t, i)
    BY <2>1 DEF Awaits, One
  <2>3. ~Item("approval", t, i)
    BY DEF Item, ApprovalQueued
  <2>4. i \in T
    BY <2>1, <2>2, <2>3 DEF Mark, Notifies
  <2>5. PICK k \in T : \A m \in T : m <= k
    <3>1. Len(bus) \in Nat /\ T \subseteq 0 .. Len(bus)
      BY <2>1
    <3> HIDE DEF T
    <3> QED BY <2>4, <3>1, Greatest
  <2>6. \A m \in Nat : Mark("approval", t, m) => m \in T
    BY <2>1 DEF Mark, Notifies
  <2>7. bus[k].to = board.column[t]
    BY <2>1, <2>5, <2>6 DEF Announced
  <2> QED BY <2>5, <2>7 DEF Mark, Notifies
<1> QED BY <1>1, ApprovalInvariant, PTL

-----------------------------------------------------------------------------
(* Blocked agents.                                                         *)

BlockedInv(L) == HomeInv /\ LoopInv /\ OrderInv /\ Askable(L) /\ Spared(L)

\* A step that blocks nobody, takes no blocked agent's task away, begins no
\* claim on it and loses no token.
Calm ==
    /\ Kept
    /\ \A t \in Task : Settling(t)' => Settling(t) \/ board.column[t] \in Buffer
    /\ \A r \in Role : blocked'[r] =>
          /\ blocked[r]
          /\ unblocking[r] > 0 => unblocking'[r] > 0
          /\ \A t \in Task : board.column[t] = r => board'.column[t] = r

LEMMA AskableStays ==
    ASSUME NEW L, Askable(L), Calm
    PROVE  Askable(L)'
<1> SUFFICES ASSUME NEW r \in Role, blocked'[r], ~(unblocking'[r] > 0)
             PROVE  \E t \in Task : Asked(r, t)' \/ (board'.column[t] = r /\ t \in L)
  BY DEF Askable
<1>1. PICK t \in Task : Asked(r, t) \/ (board.column[t] = r /\ t \in L)
  BY DEF Askable, Calm
<1>2. board.column[t] \notin Buffer /\ board'.column[t] = r
  BY <1>1, ColumnFacts DEF Asked, Calm
<1>3. Asked(r, t) => Asked(r, t)'
  BY <1>2 DEF Asked, Calm, Kept
<1> QED BY <1>1, <1>2, <1>3

\* Whoever is flagging now was so before.
FlagsOn ==
    \A r \in Role : agent'[r].pc = "flagging" =>
        agent[r].pc = "flagging" /\ agent'[r].task = agent[r].task

LEMMA SparedStays ==
    ASSUME NEW L, HomeInv, Spared(L), Calm, FlagsOn
    PROVE  Spared(L)'
<1> SUFFICES ASSUME NEW r \in Role, agent'[r].pc = "flagging", NEW t \in Task,
                    t = agent'[r].task, Settling(t)', t \notin L
             PROVE  One("question", t)'
  <2>1. \A r \in Role : agent'[r].pc = "flagging" => agent'[r].task \in Task
    BY DEF FlagsOn, HomeInv, TypeInv, AgentsEngaged
  <2> QED BY <2>1 DEF Spared
<1>1. agent[r].pc = "flagging" /\ agent[r].task = t /\ board.column[t] = r
  BY DEF FlagsOn, HomeInv, AtHome
<1>2. Settling(t)
  BY <1>1, ColumnFacts DEF Calm
<1>3. One("question", t)
  BY <1>1, <1>2 DEF Spared
<1> QED BY <1>3 DEF Calm, Kept

LEMMA GotoFlags ==
    ASSUME TypeInv, NEW r \in Role, NEW p \in Pc \ {"flagging"}, Goto(r, p)
    PROVE  FlagsOn
BY DEF Goto, FlagsOn, TypeInv, TypeOK, AgentState

LEMMA SleepFlags ==
    ASSUME TypeInv, NEW r \in Role, Sleep(r)
    PROVE  FlagsOn
BY DEF Sleep, Asleep, FlagsOn, TypeInv, TypeOK

\* A question is queued beside the one there is.
LEMMA SecondQuestion ==
    ASSUME QueueType, NEW t \in Task, One("question", t), bus' = bus, NEW x \in QueueItem,
           queue' = Enqueue(queue, x), x.what.kind = "question", x.what.task = t
    PROVE  Two("question", t)'
<1>1. PICK p \in Nat, g \in [Nat -> Nat] :
         /\ Item(x.what.kind, x.what.task, p)'
         /\ \A i, j \in Nat : g[i] = g[j] => i = j
         /\ \A i \in Nat : g[i] # p
         /\ \A kind, u : \A i \in Nat : Item(kind, u, i) => Item(kind, u, g[i])'
  BY ItemsAfterEnqueue
<1>2. Item("question", t, p)'
  BY <1>1 DEF Item
<1>3. PICK i \in Nat : Item("question", t, i) \/ Mark("question", t, i)
  BY DEF One
<1>4. CASE Item("question", t, i)
  <2>1. g[i] \in Nat /\ g[i] # p /\ Item("question", t, g[i])'
    BY <1>1, <1>4
  <2> QED BY <1>2, <2>1 DEF Two
<1>5. CASE Mark("question", t, i)
  <2>1. Mark("question", t, i)'
    BY <1>5 DEF Mark, Notifies
  <2> QED BY <1>2, <2>1 DEF Two
<1> QED BY <1>3, <1>4, <1>5

\* What agents leave alone.
LEMMA AgentCalm ==
    ASSUME NEW L, BlockedInv(L), NoBlocking, NEW r \in Role,
           AgentStep(r) \/ AgentTool(r) \/ Unblock(r), ~Flag(r)
    PROVE  Calm
<1>1. /\ TypeInv /\ QueueType /\ HomeInv /\ BlockedRest
      /\ blocked \in [Role -> BOOLEAN] /\ unblocking \in [Role -> Nat]
      /\ board.column \in [Task -> Column \cup {Absent}]
  BY DEF BlockedInv, HomeInv, LoopInv, TypeInv, TypeOK, Board
<1>2. Kept
  BY <1>1, AgentGrows, GrowthKeeps
<1>3. \A blockers : ~BlockTask(r, blockers)
  BY <1>1, Unspent DEF BlockTask, NoBlocking, Op
<1>4. calls' = calls
  BY <1>3 DEF AgentStep, Wake, WakeInVain, Prepare, Finish, Fail, Report, Pass, Retry, GiveUp,
              Escalate, Flag, CheckWip, Stall, Move, AgentTool, AskHuman, Unblock
<1>5. \A q \in Role : blocked'[q] => blocked[q] /\ unblocking'[q] = unblocking[q]
  <2>1. CASE Unblock(r)
    BY <1>1, <2>1 DEF Unblock
  <2>2. CASE ~Unblock(r)
    BY <1>3, <2>2 DEF AgentStep, Wake, WakeInVain, Prepare, Finish, Fail, Report, Pass, Retry,
              GiveUp, Escalate, CheckWip, Stall, Move, AgentTool, AskHuman
  <2> QED BY <2>1, <2>2
<1>6. ASSUME NEW q \in Role, blocked'[q], NEW t \in Task, board.column[t] = q
      PROVE  board'.column[t] = q
  <2>1. CASE Move(r)
    <3>1. /\ agent[r].task \in Task /\ board.column[agent[r].task] = r
          /\ board'.column = [board.column EXCEPT ![agent[r].task] = NextColumn(r)]
      BY <1>1, <2>1, MoveMoves
    <3>2. q # r
      BY <1>1, <1>5, <1>6, <2>1 DEF Move, BlockedRest
    <3> QED BY <1>1, <1>6, <3>1, <3>2
  <2>2. CASE ~Move(r)
    <3>1. board'.column = board.column
      <4>1. CASE AgentStep(r)
        BY <1>1, <2>2, <4>1, AgentStepKind DEF StandsStill, CheckWip
      <4>2. CASE AgentTool(r) \/ Unblock(r)
        BY <1>3, <4>2 DEF AgentTool, AskHuman, Unblock
      <4> QED BY <4>1, <4>2
    <3> QED BY <1>6, <3>1
  <2> QED BY <2>1, <2>2
<1>7. \A t : Settling(t)' <=> Settling(t)
  BY <1>4, SettlingStays
<1> QED BY <1>2, <1>5, <1>6, <1>7 DEF Calm

LEMMA AgentBlocks ==
    ASSUME NEW L, BlockedInv(L), NoBlocking, NEW r \in Role,
           AgentStep(r) \/ AgentTool(r) \/ Unblock(r),
           Escalate(r) => subscribed \/ agent[r].task \in L
    PROVE  Askable(L)' /\ Spared(L)'
<1>1. /\ TypeInv /\ QueueType /\ HomeInv /\ Askable(L) /\ Spared(L)
      /\ blocked \in [Role -> BOOLEAN] /\ agent \in [Role -> AgentState] /\ bus \in Seq(Event)
  BY DEF BlockedInv, HomeInv, LoopInv, TypeInv, TypeOK
<1>2. CASE Flag(r)
  <2>0. agent[r].task \in Task /\ board.column[agent[r].task] = r
    BY <1>1, <1>2 DEF Flag, TypeInv, AgentsEngaged, HomeInv, AtHome
  <2>1. PICK t \in Task : t = agent[r].task
    BY <2>0
  <2>2. /\ UNCHANGED <<board, bus, calls, unblocking>>
        /\ blocked' = [blocked EXCEPT ![r] = TRUE]
        /\ agent[r].pc = "flagging"
        /\ Sleep(r)
    BY <1>2 DEF Flag
  <2>3. Settling(t)' <=> Settling(t)
    BY <2>2, SettlingStays
  <2>4. PICK x \in QueueItem : /\ queue' = Enqueue(queue, x)
                               /\ x.what.kind = "question" /\ x.what.task = t
    <3> DEFINE x == [id |-> Fresh, what |-> Question(t)]
    <3>1. x \in QueueItem /\ x.what.kind = "question" /\ x.what.task = t
      BY ItemTypes DEF Question
    <3>2. queue' = Enqueue(queue, x)
      BY <1>2, <2>1 DEF Flag
    <3> HIDE DEF x
    <3> QED BY <3>1, <3>2
  <2>5. Kept
    BY <1>1, <2>2, <2>4, GrowthKeeps DEF QueueGrows, BusGrows
  <2>6. One("question", t)'
    <3>1. PICK p \in Nat : Item(x.what.kind, x.what.task, p)'
      BY <1>1, <2>4, ItemsAfterEnqueue
    <3>2. Item("question", t, p)'
      BY <2>4, <3>1 DEF Item
    <3> QED BY <3>2 DEF One
  <2>7. Settling(t) => Two("question", t)' \/ t \in L
    BY <1>1, <2>1, <2>2, <2>4, SecondQuestion DEF Spared
  <2>8. Asked(r, t)' \/ (board'.column[t] = r /\ t \in L)
    BY <2>0, <2>1, <2>2, <2>3, <2>6, <2>7 DEF Asked
  <2>9. ASSUME NEW q \in Role, q # r, blocked'[q], ~(unblocking'[q] > 0)
        PROVE  \E u \in Task : Asked(q, u)' \/ (board'.column[u] = q /\ u \in L)
    <3>1. PICK u \in Task : Asked(q, u) \/ (board.column[u] = q /\ u \in L)
      BY <1>1, <2>2, <2>9 DEF Askable
    <3>2. Asked(q, u) => Asked(q, u)'
      BY <2>2, <2>5, SettlingStays DEF Asked, Kept
    <3> QED BY <2>2, <3>1, <3>2
  <2>10. Askable(L)'
    BY <2>8, <2>9 DEF Askable
  <2>11. Spared(L)'
    <3>1. FlagsOn
      BY <1>1, <2>2, SleepFlags
    <3> SUFFICES ASSUME NEW q \in Role, agent'[q].pc = "flagging", NEW u \in Task,
                        u = agent'[q].task, Settling(u)', u \notin L
                 PROVE  One("question", u)'
      <4>1. \A q \in Role : agent'[q].pc = "flagging" => agent'[q].task \in Task
        BY <1>1, <3>1 DEF FlagsOn, TypeInv, AgentsEngaged
      <4> QED BY <4>1 DEF Spared
    <3>2. One("question", u)
      BY <1>1, <2>2, <3>1, SettlingStays DEF FlagsOn, Spared
    <3> QED BY <2>5, <3>2 DEF Kept
  <2> QED BY <2>10, <2>11
<1>3. CASE Escalate(r)
  <2>1. Calm
    BY <1>3, AgentCalm DEF AgentStep, Escalate, Flag
  <2>2. PICK t \in Task : t = agent[r].task
    BY <1>1, <1>3 DEF Escalate, TypeInv, AgentsEngaged
  <2> DEFINE e == [type |-> "blocked", task |-> t]
  <2>4. /\ t \notin L => bus' = Append(bus, e)
        /\ e \in Event /\ e.type = "blocked" /\ e.task = t
    BY <1>3, <2>2 DEF Escalate, Emit, Event
  <2> HIDE DEF e
  <2>5. PICK last \in Nat : last = Len(bus) + 1
    BY <1>1
  <2>6. t \notin L => last \in DOMAIN bus' /\ bus'[last] = e
    BY <1>1, <2>4, <2>5
  <2>7. t \notin L => One("question", t)'
    BY <2>4, <2>6 DEF One, Mark, Notifies
  <2>8. \A q \in Role : q # r => agent'[q] = agent[q]
    BY <1>1, <1>3 DEF Escalate, Goto
  <2>9. agent'[r].task = t
    BY <1>1, <1>3, <2>2 DEF Escalate, Goto, AgentState
  <2>10. Spared(L)'
    <3> SUFFICES ASSUME NEW q \in Role, agent'[q].pc = "flagging", NEW u \in Task,
                        u = agent'[q].task, Settling(u)', u \notin L
                 PROVE  One("question", u)'
      <4>1. \A q \in Role : agent'[q].pc = "flagging" => agent'[q].task \in Task
        BY <1>1, <2>8, <2>9 DEF TypeInv, AgentsEngaged
      <4> QED BY <4>1 DEF Spared
    <3>1. CASE q = r
      BY <2>7, <2>9, <3>1
    <3>2. CASE q # r
      <4>1. agent[q].pc = "flagging" /\ agent[q].task = u /\ board.column[u] = q
        BY <1>1, <2>8, <3>2 DEF HomeInv, AtHome
      <4>2. Settling(u)
        BY <2>1, <4>1, ColumnFacts DEF Calm
      <4>3. One("question", u)
        BY <1>1, <4>1, <4>2 DEF Spared
      <4> QED BY <2>1, <4>3 DEF Calm, Kept
    <3> QED BY <3>1, <3>2
  <2> QED BY <1>1, <2>1, <2>10, AskableStays
<1>4. CASE ~Flag(r) /\ ~Escalate(r)
  <2>1. Calm
    BY <1>4, AgentCalm
  <2>2. FlagsOn
    <3>1. CASE Wake(r)
      BY <1>1, <3>1 DEF Wake, FlagsOn
    <3>2. CASE Prepare(r) \/ Finish(r) \/ Report(r) \/ Pass(r) \/ Retry(r) \/ GiveUp(r)
                  \/ CheckWip(r)
      BY <1>1, <3>2, GotoFlags DEF Prepare, Finish, Report, Pass, Retry, GiveUp, CheckWip, Pc
    <3>3. CASE Fail(r) \/ Stall(r) \/ Move(r)
      BY <1>1, <3>3, SleepFlags DEF Fail, Stall, Move
    <3>4. CASE WakeInVain(r) \/ AgentTool(r) \/ Unblock(r)
      BY <3>4 DEF WakeInVain, AgentTool, AskHuman, BlockTask, Unblock, FlagsOn
    <3> QED BY <1>4, <3>1, <3>2, <3>3, <3>4 DEF AgentStep
  <2> QED BY <1>1, <2>1, <2>2, AskableStays, SparedStays
<1> QED BY <1>2, <1>3, <1>4

\* An answer releases the agent of the column its task is in: while the task is
\* there, no other question of it is needed.  That no verdict on the task is being
\* carried out is needed for an agent about to be flagged: the answer would release
\* it too early, and the verdict would take the question it then queues.
LEMMA AnswerBlocks ==
    ASSUME NEW L, BlockedInv(L), AnswersSeparate, NEW c \in Caller, NEW i \in DOMAIN queue,
           Answer(c, i) \/ AnswerApproval(c, i)
    PROVE  Askable(L)' /\ Spared(L)'
<1>1. /\ TypeInv /\ QueueType /\ Askable(L) /\ queue \in Seq(QueueItem)
      /\ unblocking \in [Role -> Nat] /\ \A t \in Task : board.tasks[t].stage = board.column[t]
  BY DEF BlockedInv, HomeInv, LoopInv, OrderInv, InOrder, TypeInv, TypeOK, QueueType
<1>2. /\ i \in 1 .. Len(queue) /\ queue[i] \in QueueItem /\ queue' = RemoveItem(queue, i)
      /\ UNCHANGED <<board, bus, calls, blocked, agent>>
  BY <1>1 DEF Answer, AnswerApproval
<1>3. /\ \A u : Settling(u)' <=> Settling(u)
      /\ \A u : Settling(u) => ~Item("question", u, i)
  <2>1. \A u : Settling(u)' <=> Settling(u)
    BY <1>2, SettlingStays
  <2>2. ASSUME NEW u, Settling(u), Item("question", u, i)
        PROVE  FALSE
    <3>1. PICK d \in Caller : calls[d].step \in {"approved", "rejected"} /\ calls[d].task = u
      BY <2>2 DEF Settling
    <3>2. Answer(c, i) /\ queue[i].what.task = u
      BY <2>2 DEF Item, AnswerApproval
    <3> QED BY <3>1, <3>2 DEF AnswersSeparate
  <2> QED BY <2>1, <2>2
<1>4. Spared(L)'
  <2> SUFFICES ASSUME NEW r \in Role, agent[r].pc = "flagging", NEW u \in Task,
                      u = agent[r].task, Settling(u)', u \notin L
               PROVE  One("question", u)'
    <3>1. \A r \in Role : agent[r].pc = "flagging" => agent[r].task \in Task
      BY <1>1 DEF TypeInv, AgentsEngaged
    <3> QED BY <1>2, <3>1 DEF Spared
  <2>1. One("question", u) /\ ~Item("question", u, i)
    BY <1>3 DEF BlockedInv, Spared
  <2> QED BY <1>1, <1>2, <2>1, RemovalKeeps
<1>5. ASSUME NEW r \in Role, blocked'[r], ~(unblocking'[r] > 0)
      PROVE  \E t \in Task : Asked(r, t)' \/ (board'.column[t] = r /\ t \in L)
  <2>1. unblocking'[r] = unblocking[r] \/ unblocking'[r] = unblocking[r] + 1
    BY <1>1 DEF Answer, AnswerApproval
  <2>2. ~(unblocking[r] > 0)
    BY <1>1, <1>5, <2>1
  <2>3. PICK t \in Task : Asked(r, t) \/ (board.column[t] = r /\ t \in L)
    BY <1>1, <1>2, <1>5, <2>2 DEF Askable
  <2>4. ~Item("question", t, i)
    <3>1. SUFFICES ASSUME Item("question", t, i)
                   PROVE  FALSE
      OBVIOUS
    <3>2. Answer(c, i) /\ queue[i].what.task = t
      BY <3>1 DEF Item, AnswerApproval
    <3>3. board.tasks[queue[i].what.task].stage = r
      BY <1>1, <2>3, <3>2 DEF Asked
    <3>4. unblocking' = [unblocking EXCEPT ![r] = @ + 1]
      BY <3>2, <3>3 DEF Answer
    <3> QED BY <1>1, <1>5, <3>4
  <2>5. /\ One("question", t) => One("question", t)'
        /\ Two("question", t) => Two("question", t)'
    BY <1>1, <1>2, <2>4, RemovalKeeps
  <2>6. Asked(r, t) => Asked(r, t)'
    BY <1>2, <1>3, <2>5 DEF Asked
  <2> QED BY <1>2, <2>3, <2>6
<1> QED BY <1>4, <1>5 DEF Askable

\* A verdict that settles takes one question of the task at most, where there
\* are two.
LEMMA SettleBlocks ==
    ASSUME NEW L, BlockedInv(L), Separate, NEW c \in Caller, Settle(c)
    PROVE  Askable(L)' /\ Spared(L)'
<1>1. /\ TypeInv /\ QueueType /\ Askable(L) /\ queue \in Seq(QueueItem)
      /\ calls \in [Caller -> Call]
  BY DEF BlockedInv, HomeInv, LoopInv, TypeInv, TypeOK, QueueType
<1>2. UNCHANGED <<board, bus, blocked, unblocking, agent>>
  BY DEF Settle
<1>t. PICK t \in Task : t = calls[c].task
  BY <1>1 DEF Settle, TypeInv, CallsEngaged, Verdict
<1>3. Settling(t) /\ ~Settling(t)' /\ \A u : Settling(u)' => Settling(u)
  BY <1>1, <1>t, SettleEnds
<1>4. queue' = DequeueByTask(queue, t)
  BY <1>t DEF Settle
<1>5. ASSUME NEW u \in Task
      PROVE  /\ Two("question", u) => One("question", u)'
             /\ u # t /\ One("question", u) => One("question", u)'
             /\ u # t /\ Two("question", u) => Two("question", u)'
  <2>1. CASE queue' = queue
    <3>1. Kept
      BY <1>1, <1>2, <2>1, GrowthKeeps DEF QueueGrows, BusGrows
    <3> QED BY <3>1 DEF Kept, One, Two
  <2>2. ASSUME NEW k \in 1 .. Len(queue), queue[k].what.task = t, queue' = RemoveItem(queue, k)
        PROVE  /\ Two("question", u) => One("question", u)'
               /\ u # t /\ One("question", u) => One("question", u)'
               /\ u # t /\ Two("question", u) => Two("question", u)'
    BY <1>1, <1>2, <2>2, RemovalKeeps DEF Item
  <2> QED BY <1>1, <1>4, <2>1, <2>2, DequeueFacts
<1>6. Spared(L)'
  <2> SUFFICES ASSUME NEW r \in Role, agent[r].pc = "flagging", NEW u \in Task,
                      u = agent[r].task, Settling(u)', u \notin L
               PROVE  One("question", u)'
    <3>1. \A r \in Role : agent[r].pc = "flagging" => agent[r].task \in Task
      BY <1>1 DEF TypeInv, AgentsEngaged
    <3> QED BY <1>2, <3>1 DEF Spared
  <2>1. u # t /\ One("question", u)
    BY <1>3 DEF BlockedInv, Spared
  <2> QED BY <1>5, <2>1
<1>7. ASSUME NEW r \in Role, NEW u \in Task, Asked(r, u)
      PROVE  Asked(r, u)'
  <2>1. CASE u = t
    BY <1>2, <1>3, <1>5, <1>7, <2>1 DEF Asked
  <2>2. CASE u # t
    BY <1>2, <1>3, <1>5, <1>7, <2>2 DEF Asked
  <2> QED BY <2>1, <2>2
<1>8. Askable(L)'
  BY <1>1, <1>2, <1>7 DEF Askable
<1> QED BY <1>6, <1>8

\* The other steps of requests begin a claim on tasks in buffers only.
LEMMA CallBlocks ==
    ASSUME NEW L, BlockedInv(L), Separate, AnswersSeparate, NEW c \in Caller, Request(c) \/ CallStep(c)
    PROVE  Askable(L)' /\ Spared(L)'
<1>1. /\ TypeInv /\ QueueType /\ HomeInv /\ Askable(L) /\ Spared(L) /\ calls \in [Caller -> Call]
      /\ board.column \in [Task -> Column \cup {Absent}]
  BY DEF BlockedInv, HomeInv, LoopInv, TypeInv, TypeOK, Board
<1>2. ASSUME NEW i \in DOMAIN queue, Answer(c, i) \/ AnswerApproval(c, i)
      PROVE  Askable(L)' /\ Spared(L)'
  BY <1>2, AnswerBlocks
<1>3. CASE Settle(c)
  BY <1>3, SettleBlocks
<1>4. ASSUME UNCHANGED <<queue, bus, blocked, unblocking, agent>>,
             \A t \in Task : Settling(t)' => Settling(t) \/ board.column[t] \in Buffer,
             \A t \in Task : board.column[t] \in Role => board'.column[t] = board.column[t]
      PROVE  Askable(L)' /\ Spared(L)'
  <2>1. Kept
    BY <1>1, <1>4, GrowthKeeps DEF QueueGrows, BusGrows
  <2>2. Calm
    BY <1>4, <2>1 DEF Calm
  <2>3. FlagsOn
    BY <1>4 DEF FlagsOn
  <2> QED BY <1>1, <2>2, <2>3, AskableStays, SparedStays
<1>5. ASSUME NEW t \in Task, \/ Approve(c, t) \/ UpdateFile(c, t)
                             \/ \E to \in Role : Rework(c, t, to)
                             \/ \E p \in Priorities : PrioritizeFile(c, t, p)
      PROVE  Askable(L)' /\ Spared(L)'
  <2>1. UNCHANGED <<board, queue, bus, blocked, unblocking, agent>>
    BY <1>5 DEF Approve, UpdateFile, Rework, PrioritizeFile
  <2>2. \A d \in Caller : calls'[d].step \in {"approved", "rejected"} => calls'[d] = calls[d]
    BY <1>1, <1>5 DEF Approve, UpdateFile, Rework, PrioritizeFile, Begin
  <2>3. \A u \in Task : Settling(u)' => Settling(u)
    BY <2>2 DEF Settling
  <2> QED BY <1>4, <2>1, <2>3
<1>6. CASE MoveApproved(c) \/ MoveRejected(c)
  <2>1. UNCHANGED <<queue, bus, blocked, unblocking, agent>>
    BY <1>6 DEF MoveApproved, MoveRejected
  <2>2. /\ calls[c].task \in Task /\ board.column[calls[c].task] \in Buffer
        /\ \E to \in Role : board'.column = [board.column EXCEPT ![calls[c].task] = to]
    BY <1>1, <1>6, VerdictMoves
  <2>3. \A t \in Task : board.column[t] \in Role => board'.column[t] = board.column[t]
    BY <1>1, <2>2, ColumnFacts
  <2>4. \A d \in Caller : \/ calls'[d] = calls[d]
                          \/ d = c /\ calls'[d].task = calls[d].task
    BY <1>1, <1>6 DEF MoveApproved, MoveRejected, Call
  <2>5. \A t \in Task : Settling(t)' => Settling(t) \/ t = calls[c].task
    BY <2>4 DEF Settling
  <2> QED BY <1>4, <2>1, <2>2, <2>3, <2>5
<1>7. CASE UpdateBoard(c) \/ PrioritizeBoard(c)
  <2>1. UNCHANGED <<queue, bus, blocked, unblocking, agent>>
    BY <1>7 DEF UpdateBoard, PrioritizeBoard
  <2>2. board'.column = board.column
    BY <1>1, <1>7, CallStays
  <2>3. \A d \in Caller : calls'[d] = calls[d] \/ calls'[d].step = "none"
    BY <1>1, <1>7 DEF UpdateBoard, PrioritizeBoard, End, NoCall
  <2>4. \A t \in Task : Settling(t)' => Settling(t)
    BY <2>3 DEF Settling
  <2> QED BY <1>4, <2>1, <2>2, <2>4
<1> QED BY <1>2, <1>3, <1>5, <1>6, <1>7 DEF Request, CallStep

\* Events pushed out of the bus were the questions they told of.
LEMMA LagBlocks ==
    ASSUME NEW L, BlockedInv(L), Lag,
           NEW M, \A t \in Task : t \in L \/ Dropped("question", t) => t \in M
    PROVE  Askable(M)' /\ Spared(M)'
<1>1. /\ TypeInv /\ Askable(L) /\ Spared(L)
      /\ UNCHANGED <<board, blocked, unblocking, agent, calls>>
  BY DEF BlockedInv, HomeInv, Lag
<1>2. \A t \in Task : ~(t \in M) =>
         /\ t \notin L
         /\ One("question", t) => One("question", t)'
         /\ Two("question", t) => Two("question", t)'
  BY <1>1, LagKeeps
<1>3. \A t : Settling(t)' <=> Settling(t)
  BY <1>1, SettlingStays
<1>4. Askable(M)'
  <2> SUFFICES ASSUME NEW r \in Role, blocked'[r], ~(unblocking'[r] > 0)
               PROVE  \E t \in Task : Asked(r, t)' \/ (board'.column[t] = r /\ t \in M)
    BY DEF Askable
  <2>1. PICK t \in Task : Asked(r, t) \/ (board.column[t] = r /\ t \in L)
    BY <1>1 DEF Askable
  <2>2. board'.column[t] = r
    BY <1>1, <2>1 DEF Asked
  <2>3. t \in M \/ Asked(r, t)'
    BY <1>1, <1>2, <1>3, <2>1, <2>2 DEF Asked
  <2> QED BY <2>2, <2>3
<1>5. Spared(M)'
  <2> SUFFICES ASSUME NEW r \in Role, agent[r].pc = "flagging", NEW u \in Task,
                      u = agent[r].task, Settling(u)', u \notin M
               PROVE  One("question", u)'
    <3>1. \A r \in Role : agent[r].pc = "flagging" => agent[r].task \in Task
      BY <1>1 DEF TypeInv, AgentsEngaged
    <3> QED BY <1>1, <3>1 DEF Spared
  <2> QED BY <1>1, <1>2, <1>3 DEF Spared
<1> QED BY <1>4, <1>5

\* Whose question a step loses is recorded, for somebody counts on it.
LEMMA RecordBlocks ==
    ASSUME TypeInv', Record, ~Crash, NEW M, Askable(M)', Spared(M)',
           \A t \in M \cap Task : Loses("question", t) \/ t \in lost["question"]
    PROVE  Askable(lost["question"])' /\ Spared(lost["question"])'
<1>1. \A t \in M \cap Task : Claimed("question", t)' => t \in lost'["question"]
  BY DEF Record, Kind
<1>2. \A t \in Task, r \in Role : board'.column[t] = r /\ blocked'[r] => Claimed("question", t)'
  BY DEF Claimed
<1>3. \A t : Settling(t)' => Claimed("question", t)'
  BY DEF Claimed
<1>4. Askable(lost["question"])'
  BY <1>1, <1>2 DEF Askable
<1>5. \A r \in Role : agent'[r].pc = "flagging" => agent'[r].task \in Task
  BY DEF TypeInv, AgentsEngaged
<1>6. Spared(lost["question"])'
  BY <1>1, <1>3, <1>5 DEF Spared
<1> QED BY <1>4, <1>6

LEMMA HeardBlocks ==
    ASSUME NEW L, BlockedInv(L), Separate, NoBlocking, Next, AnswersSeparate, ~Lag, ~Crash,
           \A r \in Role : Escalate(r) => subscribed
    PROVE  Askable(L)' /\ Spared(L)'
<1>1. /\ TypeInv /\ QueueType /\ HomeInv /\ Askable(L) /\ Spared(L)
      /\ board.column \in [Task -> Column \cup {Absent}]
  BY DEF BlockedInv, HomeInv, LoopInv, TypeInv, TypeOK, Board
<1>2. ASSUME NEW r \in Role, AgentStep(r) \/ AgentTool(r) \/ Unblock(r)
      PROVE  Askable(L)' /\ Spared(L)'
  BY <1>2, AgentBlocks
<1>3. ASSUME NEW c \in Caller, Request(c) \/ CallStep(c)
      PROVE  Askable(L)' /\ Spared(L)'
  BY <1>3, CallBlocks
<1>4. ASSUME Kept, UNCHANGED <<blocked, unblocking, agent, calls>>,
             \A t \in Task : board.column[t] \in Role => board'.column[t] = board.column[t]
      PROVE  Askable(L)' /\ Spared(L)'
  <2>1. Calm
    BY <1>4, SettlingStays DEF Calm
  <2>2. FlagsOn
    BY <1>4 DEF FlagsOn
  <2> QED BY <1>1, <2>1, <2>2, AskableStays, SparedStays
<1>5. ASSUME NEW t \in Task, NEW p \in Priorities \cup {DefaultPriority}, Create(t, p)
      PROVE  Askable(L)' /\ Spared(L)'
  <2>1. Kept
    BY <1>1, <1>5, CreateGrows, GrowthKeeps
  <2>2. board.column[t] = Absent /\ board'.column = [board.column EXCEPT ![t] = Prioritized]
    BY <1>1, <1>5, CreateMoves, DispatcherAssumption, TaskFacts
  <2>3. \A u \in Task : board.column[u] \in Role => board'.column[u] = board.column[u]
    BY <1>1, <2>2, ColumnFacts
  <2> QED BY <1>4, <1>5, <2>1, <2>3 DEF Create
<1>6. CASE RunLoop
  <2>1. Kept
    BY <1>1, <1>6, RunLoopGrows, ReceiptKeeps
  <2>2. UNCHANGED <<board, blocked, unblocking, agent, calls>>
    BY <1>6 DEF RunLoop, OnTaskCreated, OnTaskEntersWork, OnTaskEntersBuffer, OnTaskDone,
                OnAgentBlocked
  <2> QED BY <1>4, <2>1, <2>2
<1>7. CASE Subscribe
  <2>1. UNCHANGED <<board, queue, bus, blocked, unblocking, agent, calls>>
    BY <1>7 DEF Subscribe
  <2>2. Kept
    BY <1>1, <2>1, GrowthKeeps DEF QueueGrows, BusGrows
  <2> QED BY <1>4, <2>1, <2>2
<1> QED BY <1>2, <1>3, <1>5, <1>6, <1>7 DEF Next

LEMMA BlockedStep ==
    ASSUME BlockedInv(lost["question"]), Separate, NoBlocking, InTurnNext, Record
    PROVE  Askable(lost["question"])' /\ Spared(lost["question"])'
<1>0. PICK L : L = lost["question"]
  OBVIOUS
<1>1. /\ TypeInv /\ QueueType /\ HomeInv /\ BlockedInv(L) /\ Askable(L) /\ Spared(L)
      /\ board.column \in [Task -> Column \cup {Absent}]
      /\ Next /\ AnswersSeparate /\ TypeInv'
  BY <1>0, TypeStep DEF BlockedInv, HomeInv, LoopInv, TypeInv, TypeOK, Board, InTurnNext
<1> DEFINE Goal == Askable(lost["question"])' /\ Spared(lost["question"])'
<1>2. ASSUME NEW M, Askable(M)', Spared(M)', ~Crash,
             \A t \in M \cap Task : Loses("question", t) \/ t \in L
      PROVE  Goal
  BY <1>0, <1>1, <1>2, RecordBlocks
<1>3. ASSUME Askable(L)', Spared(L)', ~Crash
      PROVE  Goal
  BY <1>2, <1>3
<1>4. CASE Crash
  BY <1>4 DEF Crash, Asleep, Askable, Spared
<1> HIDE DEF Goal
<1>5. CASE Lag /\ ~Crash
  <2>1. PICK M : M = {t \in Task : t \in L \/ Dropped("question", t)}
    OBVIOUS
  <2>2. Askable(M)' /\ Spared(M)'
    BY <1>1, <1>5, <2>1, LagBlocks
  <2>3. \A t \in M \cap Task : Loses("question", t) \/ t \in L
    BY <2>1 DEF Loses
  <2> QED BY <1>2, <1>5, <2>2, <2>3 DEF Goal
<1>6. ASSUME NEW r \in Role, Escalate(r), ~subscribed, ~Lag, ~Crash
      PROVE  Goal
  <2>1. PICK t \in Task : t = agent[r].task
    BY <1>1, <1>6 DEF Escalate, TypeInv, AgentsEngaged
  <2>2. PICK M : M = L \cup {t}
    OBVIOUS
  <2>3. BlockedInv(M)
    BY <1>1, <2>2 DEF BlockedInv, Askable, Spared
  <2>4. Askable(M)' /\ Spared(M)'
    BY <1>1, <1>6, <2>1, <2>2, <2>3, AgentBlocks DEF AgentStep
  <2>5. Loses("question", t)
    BY <1>6, <2>1 DEF Loses, Unheard
  <2> QED BY <1>2, <1>6, <2>2, <2>4, <2>5
<1>7. CASE ~Lag /\ ~Crash /\ \A r \in Role : Escalate(r) => subscribed
  <2>1. Askable(L)' /\ Spared(L)'
    BY <1>1, <1>7, HeardBlocks, Zenon
  <2> QED BY <1>3, <1>7, <2>1 DEF Goal
<1> QED BY <1>4, <1>5, <1>6, <1>7 DEF Goal

\* With requests about a task made in turn, no edits over MCP and no task an agent
\* sends back, an agent whose flag is set can be released, lost events and
\* restarts included: its answer is on the way, or a question about a task in
\* its column is in the queue or about to be, or the event of that question
\* was lost -- although a verdict on the task may take a question off the
\* queue, and an answer only reaches the role of the column the task is in.
THEOREM BlockedAgentsAnswerable ==
    ASSUME NoBlocking, NoUpdates
    PROVE  NoticedSpec => []BlockedAnswerable
<1> DEFINE L == lost["question"]
<1>1. Init => Askable(L) /\ Spared(L)
  BY DEF Init, Start, Asleep, Askable, Spared
<1>2. /\ HomeInv /\ LoopInv /\ OrderInv /\ Separate /\ Askable(L) /\ Spared(L)
      /\ [InTurnNext /\ Record]_noticeVars
      => (Askable(L) /\ Spared(L))'
  <2> SUFFICES ASSUME HomeInv, LoopInv, OrderInv, Separate, Askable(L), Spared(L),
                      [InTurnNext /\ Record]_noticeVars
               PROVE  (Askable(L) /\ Spared(L))'
    OBVIOUS
  <2>1. CASE InTurnNext /\ Record
    BY <2>1, BlockedStep DEF BlockedInv
  <2>2. CASE UNCHANGED noticeVars
    BY <2>2 DEF noticeVars, poolVars, Askable, Spared, Asked, Settling, One, Two, Item, Mark
  <2> QED BY <2>1, <2>2
<1>3. HomeInv /\ OrderInv /\ Askable(L) => BlockedAnswerable
  <2> SUFFICES ASSUME HomeInv, OrderInv, Askable(L), NEW r \in Role, blocked[r],
                      ~(unblocking[r] > 0), ~ \E t \in L : board.column[t] = r
               PROVE  \/ \E i \in DOMAIN queue :
                            /\ queue[i].what.kind = "question"
                            /\ board.tasks[queue[i].what.task].stage = r
                      \/ \E i \in DOMAIN bus :
                            bus[i].type = "blocked" /\ board.tasks[bus[i].task].stage = r
    BY DEF BlockedAnswerable
  <2>1. PICK t \in Task : Asked(r, t)
    BY DEF Askable
  <2>2. board.tasks[t].stage = r
    BY <2>1 DEF Asked, OrderInv, InOrder
  <2>3. PICK i \in Nat : Item("question", t, i) \/ Mark("question", t, i)
    BY <2>1 DEF Asked, One
  <2>4. CASE Item("question", t, i)
    BY <2>2, <2>4 DEF Item
  <2>5. CASE Mark("question", t, i)
    BY <2>2, <2>5 DEF Mark, Notifies
  <2> QED BY <2>3, <2>4, <2>5
<1>4. InTurnSpec => []HomeInv
  BY HomeInvariant
<1>5. Spec => []LoopInv
  BY LoopInvariant
<1>6. Spec => []OrderInv
  BY OrderInvariant
<1> HIDE DEF L
<1> QED BY <1>1, <1>2, <1>3, <1>4, <1>5, <1>6, InTurnInvariant, NoticedInTurn, PTL
        DEF Spec, NoticedSpec, NoticedInit
=============================================================================
