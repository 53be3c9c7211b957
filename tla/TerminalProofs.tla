---------------------------- MODULE TerminalProofs -----------------------------
(***************************************************************************)
(* What the terminal shows, for any number of tasks, changes, forks, keys  *)
(* and connections and any size of the event bus.                          *)
(***************************************************************************)
EXTENDS Terminal, BoardProofs

-----------------------------------------------------------------------------
(* Lists of tasks and boards made of them.                                 *)

Boarding == {b \in [Column -> Seq(Task)] : Listed(b)}

\* No entry of s is there twice.
Distinct(s) == \A i, j \in DOMAIN s : s[i] = s[j] => i = j

\* What is left when an entry is taken out was there before, and once.
LEMMA RemovedFacts ==
    ASSUME NEW S, NEW s \in Seq(S), NEW e
    PROVE  /\ RemoveFirst(s, e) \in Seq(S)
           /\ \A i \in DOMAIN RemoveFirst(s, e) : \E j \in DOMAIN s : RemoveFirst(s, e)[i] = s[j]
           /\ Distinct(s) => /\ Distinct(RemoveFirst(s, e))
                             /\ \A i \in DOMAIN RemoveFirst(s, e) : RemoveFirst(s, e)[i] # e
<1> DEFINE I == {i \in 1 .. Len(s) : s[i] = e}
<1>1. CASE \E i \in 1 .. Len(s) : s[i] = e
  <2>1. I # {} /\ I \subseteq Nat /\ I \subseteq 1 .. Len(s)
    BY <1>1
  <2>2. \E i \in I : \A j \in I : i <= j
    BY <2>1, Least
  <2> DEFINE k == Min(I)
  <2>3. k \in I
    BY <2>2 DEF Min
  <2>4. RemoveFirst(s, e) = RemoveItem(s, k)
    BY <1>1, <2>1 DEF RemoveFirst, RemoveAt, SelectInSeq, RemoveItem
  <2>5. k \in 1 .. Len(s) /\ s[k] = e
    BY <2>3
  <2> HIDE DEF k, I
  <2> DEFINE r == RemoveItem(s, k)
  <2>6. r \in Seq(S) /\ Len(r) = Len(s) - 1
        /\ \A i \in 1 .. Len(s) - 1 : r[i] = IF i < k THEN s[i] ELSE s[i + 1]
    BY <2>5, RemoveFacts
  <2> HIDE DEF r
  <2>7. ASSUME NEW i \in DOMAIN r
        PROVE  /\ i \in Nat
               /\ r[i] = IF i < k THEN s[i] ELSE s[i + 1]
               /\ i < k => i \in DOMAIN s
               /\ ~(i < k) => i + 1 \in DOMAIN s
    BY <2>5, <2>6
  <2>8. \A i \in DOMAIN r : \E j \in DOMAIN s : r[i] = s[j]
    BY <2>7
  <2>9. ASSUME Distinct(s)
        PROVE  Distinct(r) /\ \A i \in DOMAIN r : r[i] # e
    <3>1. ASSUME NEW i \in DOMAIN r
          PROVE  r[i] # e
      <4>1. CASE i < k
        BY <2>5, <2>7, <2>9, <4>1 DEF Distinct
      <4>2. CASE ~(i < k)
        <5>1. i + 1 \in DOMAIN s /\ i + 1 # k /\ k \in DOMAIN s
          BY <2>5, <2>7, <4>2
        <5> QED BY <2>5, <2>7, <2>9, <4>2, <5>1 DEF Distinct
      <4> QED BY <4>1, <4>2
    <3>2. ASSUME NEW i \in DOMAIN r, NEW j \in DOMAIN r, r[i] = r[j]
          PROVE  i = j
      <4> DEFINE p == IF i < k THEN i ELSE i + 1
                 q == IF j < k THEN j ELSE j + 1
      <4>1. p \in DOMAIN s /\ q \in DOMAIN s /\ s[p] = r[i] /\ s[q] = r[j]
        BY <2>7
      <4>2. p = q
        BY <2>9, <3>2, <4>1 DEF Distinct
      <4> QED BY <2>5, <2>7, <4>2
    <3> QED BY <3>1, <3>2 DEF Distinct
  <2> QED BY <2>4, <2>6, <2>8, <2>9 DEF r
<1>2. CASE ~ \E i \in 1 .. Len(s) : s[i] = e
  <2>1. RemoveFirst(s, e) = s /\ \A i \in DOMAIN s : s[i] # e
    BY <1>2 DEF RemoveFirst
  <2> QED BY <2>1
<1> QED BY <1>1, <1>2

\* A task that is nowhere on a board can be put at either end of a column.
LEMMA PutFacts ==
    ASSUME NEW b \in Boarding, NEW t \in Task, NEW c \in Column,
           \A d \in Column : \A i \in DOMAIN b[d] : b[d][i] # t
    PROVE  /\ [b EXCEPT ![c] = Append(@, t)] \in Boarding
           /\ [b EXCEPT ![c] = <<t>> \o @] \in Boarding
<1>1. b \in [Column -> Seq(Task)] /\ Listed(b) /\ b[c] \in Seq(Task)
  BY DEF Boarding
<1> DEFINE s == b[c]
           n == Len(b[c])
<1>2. /\ s \in Seq(Task) /\ n \in Nat /\ Len(s) = n
      /\ \A i \in 1 .. n : s[i] # t
      /\ \A i, j \in 1 .. n : s[i] = s[j] => i = j
  BY <1>1 DEF Listed
<1>3. ASSUME NEW l \in Seq(Task), Distinct(l),
             \A i \in DOMAIN l : l[i] = t \/ \E j \in DOMAIN s : l[i] = s[j]
      PROVE  [b EXCEPT ![c] = l] \in Boarding
  <2> DEFINE a == [b EXCEPT ![c] = l]
  <2>1. a \in [Column -> Seq(Task)] /\ a[c] = l /\ \A d \in Column : d # c => a[d] = b[d]
    BY <1>1, <1>3
  <2> HIDE DEF a
  <2>2. ASSUME NEW d \in Column, NEW e \in Column, NEW i \in DOMAIN a[d], NEW j \in DOMAIN a[e],
               a[d][i] = a[e][j]
        PROVE  d = e /\ i = j
    <3>1. CASE d = c /\ e = c
      BY <1>3, <2>1, <2>2, <3>1 DEF Distinct
    <3>2. CASE d = c /\ e # c
      BY <1>1, <1>3, <2>1, <2>2, <3>2 DEF Listed
    <3>3. CASE d # c /\ e = c
      BY <1>1, <1>3, <2>1, <2>2, <3>3 DEF Listed
    <3>4. CASE d # c /\ e # c
      BY <1>1, <2>1, <2>2, <3>4 DEF Listed
    <3> QED BY <3>1, <3>2, <3>3, <3>4
  <2> QED BY <2>1, <2>2 DEF a, Boarding, Listed
<1> HIDE DEF s, n
<1>4. [b EXCEPT ![c] = Append(s, t)] \in Boarding
  <2> DEFINE l == Append(s, t)
  <2>1. l \in Seq(Task) /\ Len(l) = n + 1
        /\ \A i \in 1 .. n + 1 : l[i] = IF i <= n THEN s[i] ELSE t
    BY <1>2
  <2> HIDE DEF l
  <2>2. \A i \in DOMAIN l : i \in 1 .. n + 1 /\ (i <= n => i \in 1 .. n) /\ (~(i <= n) => i = n + 1)
    BY <1>2, <2>1
  <2>3. DOMAIN s = 1 .. n
    BY <1>2
  <2>4. Distinct(l) /\ \A i \in DOMAIN l : l[i] = t \/ \E j \in DOMAIN s : l[i] = s[j]
    BY <1>2, <2>1, <2>2, <2>3 DEF Distinct
  <2> QED BY <1>3, <2>1, <2>4 DEF l
<1>5. [b EXCEPT ![c] = <<t>> \o s] \in Boarding
  <2> DEFINE h == <<t>>
             l == h \o s
  <2>1. h \in Seq(Task) /\ Len(h) = 1 /\ h[1] = t
    OBVIOUS
  <2> HIDE DEF h
  <2>2. /\ l \in Seq(Task) /\ Len(l) = Len(h) + Len(s)
        /\ \A i \in 1 .. Len(h) + Len(s) : l[i] = IF i <= Len(h) THEN h[i] ELSE s[i - Len(h)]
    <3>1. h \in Seq(Task) /\ s \in Seq(Task)
      BY <1>2, <2>1
    <3> QED BY <3>1, ConcatProperties, Zenon
  <2> HIDE DEF l
  <2>3. /\ Len(l) = n + 1
        /\ \A i \in 1 .. n + 1 : l[i] = IF i = 1 THEN t ELSE s[i - 1]
    BY <1>2, <2>1, <2>2
  <2>4. \A i \in DOMAIN l : i \in 1 .. n + 1 /\ (i # 1 => i - 1 \in 1 .. n)
    BY <1>2, <2>2, <2>3
  <2>5. DOMAIN s = 1 .. n
    BY <1>2
  <2>6. ASSUME NEW i \in DOMAIN l, NEW j \in DOMAIN l, l[i] = l[j]
        PROVE  i = j
    BY <1>2, <2>3, <2>4, <2>6
  <2>7. \A i \in DOMAIN l : l[i] = t \/ \E j \in DOMAIN s : l[i] = s[j]
    BY <2>3, <2>4, <2>5
  <2> QED BY <1>3, <2>2, <2>6, <2>7 DEF l, h, Distinct
<1> QED BY <1>4, <1>5 DEF s

\* Taking a task off leaves a board without it.
LEMMA TakenFacts ==
    ASSUME board \in Boarding, NEW t \in Task
    PROVE  /\ Taken(t) \in Boarding
           /\ \A d \in Column : \A i \in DOMAIN Taken(t)[d] : Taken(t)[d][i] # t
<1>1. board \in [Column -> Seq(Task)] /\ Listed(board)
  BY DEF Boarding
<1>2. ASSUME NEW c \in Column
      PROVE  /\ Taken(t)[c] \in Seq(Task) /\ Distinct(Taken(t)[c])
             /\ \A i \in DOMAIN Taken(t)[c] : /\ Taken(t)[c][i] # t
                                              /\ \E j \in DOMAIN board[c] : Taken(t)[c][i] = board[c][j]
  <2>1. board[c] \in Seq(Task) /\ Distinct(board[c])
    BY <1>1, <1>2 DEF Listed, Distinct
  <2>2. Taken(t)[c] = RemoveFirst(board[c], t)
    BY <1>2 DEF Taken
  <2> QED BY <2>1, <2>2, RemovedFacts
<1>3. Taken(t) = [c \in Column |-> Taken(t)[c]]
  BY DEF Taken
<1> DEFINE a == Taken(t)
<1> HIDE DEF a
<1>4. \A c \in Column : /\ a[c] \in Seq(Task) /\ Distinct(a[c])
                        /\ \A i \in DOMAIN a[c] : /\ a[c][i] # t
                                                  /\ \E j \in DOMAIN board[c] : a[c][i] = board[c][j]
  BY <1>2 DEF a
<1>5. a \in [Column -> Seq(Task)]
  BY <1>3, <1>4 DEF a
<1>6. ASSUME NEW c \in Column, NEW d \in Column, NEW i \in DOMAIN a[c], NEW j \in DOMAIN a[d],
             a[c][i] = a[d][j]
      PROVE  c = d /\ i = j
  <2>1. PICK k \in DOMAIN board[c], l \in DOMAIN board[d] : a[c][i] = board[c][k] /\ a[d][j] = board[d][l]
    BY <1>4, <1>6
  <2>2. c = d
    <3>1. board[c][k] = board[d][l]
      BY <1>6, <2>1
    <3> QED BY <1>1, <3>1 DEF Listed
  <2> QED BY <1>4, <1>6, <2>2 DEF Distinct
<1> QED BY <1>4, <1>5, <1>6 DEF a, Boarding, Listed

\* A task on the board is in a column of it.
LEMMA WhereFacts ==
    ASSUME NEW t, OnBoard(t)
    PROVE  Where(t) \in Column /\ Contains(board[Where(t)], t)
BY DEF OnBoard, Where

\* The columns on either side of a buffer, and the one after a role's.
LEMMA Neighbours ==
    /\ \A c \in Role : NextColumn(c) \in Column
    /\ \A c \in Buffer : NextColumn(c) \in Column /\ PrevColumn(c) \in Column
                         /\ NextColumn(PrevColumn(c)) = c
    /\ Prioritized \in Column
BY SMT DEF Role, Buffer, Column, NextColumn, PrevColumn, Prioritized, Designing, CodingBuffer,
           Coding, ReviewBuffer, Reviewing, SecurityAuditBuffer, Auditing,
           DeploymentBuffer, Deploying, Done

\* Whatever a change does, the board keeps every task in one place.
LEMMA BoardStays ==
    ASSUME board \in Boarding, NEW t \in Task,
           AdvanceTask(t) \/ Approve(t) \/ Reject(t) \/ Create(t) \/ Prioritize(t)
    PROVE  board' \in Boarding
<1>1. ASSUME NEW c \in Column
      PROVE  Placed(t, c) \in Boarding /\ PlacedFirst(t, c) \in Boarding
  BY <1>1, TakenFacts, PutFacts DEF Placed, PlacedFirst
<1>2. CASE AdvanceTask(t)
  BY <1>1, <1>2, Neighbours DEF AdvanceTask
<1>3. CASE Approve(t)
  BY <1>1, <1>3, Neighbours DEF Approve
<1>4. CASE Reject(t)
  BY <1>1, <1>4, Neighbours DEF Reject
<1>5. CASE Prioritize(t)
  BY <1>1, <1>5, WhereFacts DEF Prioritize
<1>6. CASE Create(t)
  <2>1. \A d \in Column : \A i \in DOMAIN board[d] : board[d][i] # t
    <3>1. \A d \in Column : board[d] \in Seq(Task)
      BY DEF Boarding
    <3> QED BY <1>6, <3>1 DEF Create, OnBoard, Contains
  <2> QED BY <1>6, <2>1, PutFacts, Neighbours DEF Create
<1> QED BY <1>2, <1>3, <1>4, <1>5, <1>6


-----------------------------------------------------------------------------
(* The terminal's copy.                                                    *)

\* The terminal's copy is a board, with a cursor on it.
Showing == {v \in View : v.board \in Boarding}

LEMMA EmptyBoard == EmptyView.board \in Boarding /\ EmptyView \in Showing
<1>1. << >> \in Seq(Task)
  OBVIOUS
<1>2. EmptyView.board = [c \in Column |-> << >>]
  BY DEF EmptyView
<1>3. EmptyView.board \in Boarding
  BY <1>1, <1>2 DEF Boarding, Listed
<1>4. "status" \in Panel
  BY DEF Panel, Panels
<1>5. EmptyView = [board |-> EmptyView.board, col |-> Prioritized, pos |-> 1,
                   panel |-> "status", review |-> NoTask]
  BY DEF EmptyView
<1>6. EmptyView \in View
  BY <1>3, <1>4, <1>5, Neighbours DEF View, Boarding
<1> QED BY <1>3, <1>6 DEF Showing

\* What is shown for a column is a list of tasks.
LEMMA ShownFacts ==
    ASSUME NEW b \in [Column -> Seq(Task)], NEW c \in Column
    PROVE  /\ VisibleColumn(c) \in Column
           /\ TasksShown(b, VisibleColumn(c)) \in Seq(Task)
           /\ Leads(b, c) =>
                 /\ Len(TasksShown(b, VisibleColumn(c))) >= Len(b[c])
                 /\ \A i \in 1 .. Len(b[c]) : TasksShown(b, VisibleColumn(c))[i] = b[c][i]
<1>1. VisibleColumn(c) \in Column
  BY Neighbours DEF VisibleColumn, Visible
<1> DEFINE d == VisibleColumn(c)
           h == IF NextColumn(d) \in Buffer THEN b[NextColumn(d)] ELSE << >>
           l == b[d]
<1>2. << >> \in Seq(Task)
  OBVIOUS
<1>3. h \in Seq(Task) /\ l \in Seq(Task)
  BY <1>1, <1>2, ColumnFacts
<1>4. Leads(b, c) => h = b[c] \/ (h = << >> /\ l = b[c])
  <2>1. c \in Buffer => h = b[c]
    BY Neighbours DEF VisibleColumn
  <2>2. c \in Visible => d = c /\ c \notin Buffer
    BY DEF VisibleColumn, Visible
  <2> QED BY <2>1, <2>2 DEF Leads
<1>5. TasksShown(b, d) = h \o l
  BY DEF TasksShown
<1> HIDE DEF d, h, l
<1>6. /\ h \o l \in Seq(Task) /\ Len(h \o l) = Len(h) + Len(l)
      /\ \A i \in 1 .. Len(h) + Len(l) : (h \o l)[i] = IF i <= Len(h) THEN h[i] ELSE l[i - Len(h)]
  BY <1>3, ConcatProperties, Zenon
<1>7. Len(h) \in Nat /\ Len(l) \in Nat
  BY <1>3
<1>8. /\ Len(h \o l) >= Len(h)
      /\ \A i \in 1 .. Len(h) : (h \o l)[i] = h[i]
      /\ h = << >> => /\ Len(h \o l) >= Len(l)
                      /\ \A i \in 1 .. Len(l) : (h \o l)[i] = l[i]
  BY <1>6, <1>7
<1> QED BY <1>1, <1>4, <1>5, <1>6, <1>8 DEF d

\* The next visible column up or down is a column.
LEMMA StepFacts ==
    ASSUME NEW S, S \subseteq Column, S # {}
    PROVE  Max(S) \in S /\ Min(S) \in S
<1>1. S \subseteq 0 .. 11 /\ S \subseteq Nat
  BY DEF Column, Prioritized, Done
<1>2. (\E k \in S : \A m \in S : m <= k) /\ \E k \in S : \A m \in S : k <= m
  BY <1>1, Greatest, Least
<1>3. \E k \in S : \A m \in S : k >= m
  BY <1>1, <1>2
<1> QED BY <1>2, <1>3 DEF Max, Min

LEMMA PanelFacts ==
    ASSUME NEW v \in View
    PROVE  /\ Panels[(PanelAt(v) % Len(Panels)) + 1] \in Panel
           /\ Panels[((PanelAt(v) - 2) % Len(Panels)) + 1] \in Panel
<1>1. Len(Panels) = 6 /\ DOMAIN Panels = 1 .. 6
  BY DEF Panels
<1>2. PanelAt(v) \in 1 .. 6
  BY <1>1 DEF View, Panel, PanelAt
<1>3. (PanelAt(v) % 6) + 1 \in 1 .. 6 /\ ((PanelAt(v) - 2) % 6) + 1 \in 1 .. 6
  BY <1>2
<1> QED BY <1>1, <1>3 DEF Panel

\* The keys leave a cursor that is one to index with.
LEMMA KeyFacts ==
    ASSUME NEW v \in Showing,
           NEW w \in {MoveUp(v), MoveDown(v), MoveLeft(v), MoveRight(v),
                      PrevPanel(v), NextPanel(v), Open(v)}
    PROVE  w \in Showing /\ w.board = v.board /\ w.review = v.review
<1> DEFINE Good(x) == x \in Showing /\ x.board = v.board /\ x.review = v.review
<1>1. v \in View /\ v.board \in Boarding /\ v.pos \in Nat \ {0} /\ v.col \in Column
  BY DEF Showing, View
<1>2. ASSUME NEW c \in Column
      PROVE  Good([v EXCEPT !.col = c, !.pos = 1])
  <2> DEFINE y == [v EXCEPT !.col = c]
             x == [y EXCEPT !.pos = 1]
  <2>1. y \in View /\ y.board = v.board /\ y.review = v.review
    BY <1>1 DEF View
  <2>2. x = [v EXCEPT !.col = c, !.pos = 1]
    BY <1>1 DEF View
  <2> HIDE DEF y
  <2>3. ASSUME NEW p \in Nat \ {0}
        PROVE  /\ [y EXCEPT !.pos = p] \in View
               /\ [y EXCEPT !.pos = p].board = v.board
               /\ [y EXCEPT !.pos = p].review = v.review
    BY <2>1 DEF View
  <2>4. x \in View /\ x.board = v.board /\ x.review = v.review
    BY <2>3
  <2> QED BY <1>1, <2>2, <2>4 DEF Showing
<1>3. ASSUME NEW p \in Nat \ {0}
      PROVE  Good([v EXCEPT !.pos = p])
  <2> DEFINE x == [v EXCEPT !.pos = p]
  <2>1. x \in View /\ x.board = v.board /\ x.review = v.review
    BY <1>1 DEF View
  <2> QED BY <1>1, <2>1 DEF Showing
<1>4. ASSUME NEW p \in Panel
      PROVE  Good([v EXCEPT !.panel = p])
  BY <1>1 DEF Showing, View
<1>5. Good(v)
  OBVIOUS
<1> HIDE DEF Good
<1>6. CASE w = MoveUp(v)
  <2> DEFINE S == {c \in Visible : c < VisibleColumn(v.col)}
  <2>1. S = {} \/ Max(S) \in Column
    BY StepFacts DEF Visible
  <2>2. w = IF S = {} THEN v ELSE [v EXCEPT !.col = Max(S), !.pos = 1]
    BY <1>6 DEF MoveUp
  <2> HIDE DEF S
  <2>3. Good(w)
    BY <1>2, <1>5, <2>1, <2>2
  <2> QED BY <2>3 DEF Good
<1>7. CASE w = MoveDown(v)
  <2> DEFINE S == {c \in Visible : c > VisibleColumn(v.col)}
  <2>1. S = {} \/ Min(S) \in Column
    BY StepFacts DEF Visible
  <2>2. w = IF S = {} THEN v ELSE [v EXCEPT !.col = Min(S), !.pos = 1]
    BY <1>7 DEF MoveDown
  <2> HIDE DEF S
  <2>3. Good(w)
    BY <1>2, <1>5, <2>1, <2>2
  <2> QED BY <2>3 DEF Good
<1>8. CASE w = MoveLeft(v)
  <2>1. v.pos > 1 => v.pos - 1 \in Nat \ {0}
    BY <1>1
  <2>2. w = IF v.pos > 1 THEN [v EXCEPT !.pos = v.pos - 1] ELSE v
    BY <1>8 DEF MoveLeft
  <2>3. Good(w)
    BY <1>3, <1>5, <2>1, <2>2
  <2> QED BY <2>3 DEF Good
<1>9. CASE w = MoveRight(v)
  <2>1. v.pos + 1 \in Nat \ {0}
    BY <1>1
  <2>2. w = v \/ w = [v EXCEPT !.pos = v.pos + 1]
    BY <1>9 DEF MoveRight
  <2>3. Good(w)
    BY <1>3, <1>5, <2>1, <2>2
  <2> QED BY <2>3 DEF Good
<1>10. CASE w \in {PrevPanel(v), NextPanel(v)}
  <2>1. Good(PrevPanel(v)) /\ Good(NextPanel(v))
    BY <1>1, <1>4, PanelFacts DEF PrevPanel, NextPanel
  <2> QED BY <1>10, <2>1 DEF Good
<1>11. CASE w = Open(v)
  <2>1. "task" \in Panel
    BY DEF Panel, Panels
  <2>2. w = v \/ w = [v EXCEPT !.panel = "task"]
    BY <1>11 DEF Open
  <2>3. Good(w)
    BY <1>4, <1>5, <2>1, <2>2
  <2> QED BY <2>3 DEF Good
<1> QED BY <1>6, <1>7, <1>8, <1>9, <1>10, <1>11

\* A snapshot replaces the board and keeps a cursor on it.
LEMMA SnapshotFacts ==
    ASSUME NEW v \in Showing, NEW b \in Boarding
    PROVE  /\ ApplySnapshot(v, b) \in Showing
           /\ ApplySnapshot(v, b).board = b
           /\ ApplySnapshot(v, b).review = v.review
<1> DEFINE w == [v EXCEPT !.board = b]
           n == Len(TasksAtCursor(w))
<1>1. w \in View /\ w.board = b /\ w.review = v.review /\ w.pos \in Nat \ {0} /\ w.col \in Column
  BY DEF Showing, View, Boarding
<1>2. n \in Nat
  <2>1. TasksAtCursor(w) \in Seq(Task)
    BY <1>1, ShownFacts DEF TasksAtCursor, Boarding
  <2> QED BY <2>1
<1>3. ApplySnapshot(v, b) = [w EXCEPT !.pos = IF n = 0 THEN 1 ELSE IF @ > n THEN n ELSE @]
  BY DEF ApplySnapshot, Clamp
<1> HIDE DEF w, n
<1>4. ASSUME NEW p \in Nat \ {0}
      PROVE  [w EXCEPT !.pos = p] \in Showing /\ [w EXCEPT !.pos = p].board = b
             /\ [w EXCEPT !.pos = p].review = v.review
  BY <1>1 DEF Showing, View
<1>5. (IF n = 0 THEN 1 ELSE IF w.pos > n THEN n ELSE w.pos) \in Nat \ {0}
  BY <1>1, <1>2
<1> QED BY <1>3, <1>4, <1>5

\* The cursor is on the task under review, if its column is shown first.
Aligned(v) ==
    (\E c \in Column : Leads(v.board, c) /\ Contains(v.board[c], v.review))
        => Selected(v) = v.review

\* A review item puts the cursor on its task.
LEMMA ReviewFacts ==
    ASSUME NEW v \in Showing, NEW t \in Task \cup {NoTask}
    PROVE  /\ ApplyReview(v, t) \in Showing
           /\ ApplyReview(v, t).board = v.board
           /\ Aligned(ApplyReview(v, t))
<1> DEFINE w == ApplyReview(v, t)
           listed == {c \in Column : Contains(v.board[c], t)}
<1>1. /\ v \in View /\ v.board \in Boarding /\ v.board \in [Column -> Seq(Task)] /\ Listed(v.board)
      /\ "status" \in Panel /\ "task" \in Panel
  BY DEF Showing, Boarding, Panel, Panels
<1>2. CASE t = NoTask
  <2>1. w = [v EXCEPT !.review = NoTask,
                      !.panel = IF v.review = NoTask THEN @ ELSE "status"]
    BY <1>2 DEF ApplyReview
  <2>2. w \in View /\ w.board = v.board /\ w.review = NoTask
    BY <1>1, <2>1 DEF View
  <2>3. ~ \E c \in Column : Contains(v.board[c], NoTask)
    <3>1. \A c \in Column : v.board[c] \in Seq(Task)
      BY <1>1
    <3> QED BY <3>1, ViewAssumption DEF Contains
  <2> HIDE DEF w
  <2> QED BY <1>1, <2>2, <2>3 DEF Showing, Aligned, w
<1> DEFINE shown == [v EXCEPT !.review = t, !.panel = "task"]
<1>3. shown \in View /\ shown.board = v.board /\ shown.review = t
  BY <1>1 DEF View
<1>4. CASE t # NoTask /\ listed = {}
  <2>1. w = shown
    BY <1>4 DEF ApplyReview
  <2>2. ~ \E c \in Column : Contains(v.board[c], t)
    BY <1>4
  <2> HIDE DEF w, shown
  <2> QED BY <1>1, <1>3, <2>1, <2>2 DEF Showing, Aligned, w
<1>5. CASE t # NoTask /\ listed # {}
  <2> DEFINE m == Min(listed)
             p == CHOOSE i \in DOMAIN v.board[m] : v.board[m][i] = t
  <2>1. m \in Column /\ Contains(v.board[m], t)
    BY <1>5, StepFacts
  <2>2. w = [shown EXCEPT !.col = m, !.pos = p]
    BY <1>5 DEF ApplyReview
  <2> HIDE DEF m
  <2>3. v.board[m] \in Seq(Task)
    BY <1>1, <2>1
  <2>4. p \in DOMAIN v.board[m] /\ v.board[m][p] = t
    BY <2>1, <2>3 DEF Contains
  <2> HIDE DEF p, shown, w
  <2>5. p \in 1 .. Len(v.board[m]) /\ p \in Nat \ {0} /\ Len(v.board[m]) \in Nat
    BY <2>3, <2>4
  <2>6. w \in View /\ w.board = v.board /\ w.review = t /\ w.col = m /\ w.pos = p
    BY <1>3, <2>1, <2>2, <2>5 DEF View
  <2>7. ASSUME NEW c \in Column, Leads(v.board, c), Contains(v.board[c], t)
        PROVE  Selected(w) = t
    <3>1. v.board[c] \in Seq(Task)
      BY <1>1
    <3>2. PICK i \in DOMAIN v.board[c] : v.board[c][i] = t
      BY <2>7, <3>1 DEF Contains
    <3>3. c = m
      BY <1>1, <2>1, <2>4, <3>1, <3>2 DEF Listed
    <3> DEFINE s == TasksShown(v.board, VisibleColumn(m))
    <3>4. s \in Seq(Task) /\ Len(s) >= Len(v.board[m])
          /\ \A j \in 1 .. Len(v.board[m]) : s[j] = v.board[m][j]
      BY <1>1, <2>1, <2>7, <3>3, ShownFacts
    <3>5. TasksAtCursor(w) = s
      BY <2>6 DEF TasksAtCursor
    <3> HIDE DEF s
    <3>6. p \in DOMAIN s /\ s[p] = t
      BY <2>4, <2>5, <3>4
    <3> QED BY <2>6, <3>5, <3>6 DEF Selected
  <2> QED BY <1>1, <2>6, <2>7 DEF Showing, Aligned, w
<1> QED BY <1>2, <1>4, <1>5

\* Where the cursor is depends on nothing else.
LEMMA AlignedStays ==
    ASSUME NEW v, NEW w, w.board = v.board, w.review = v.review, w.col = v.col, w.pos = v.pos,
           Aligned(v)
    PROVE  Aligned(w)
BY DEF Aligned, Selected, TasksAtCursor


-----------------------------------------------------------------------------
(* The shape of daemon, connections and App.                               *)

Kind == RequestKind \cup {"close"}

Response == [kind : Kind, board : Boarding, review : Task \cup {NoTask}, count : Nat]

\* An event that opens a fork names one.
Happening == {e \in Event : e.type = "forked" => e.fork \in 1 .. MaxForks}

Notice == [kind : {"event"}, event : Happening]
Message == {r \in Response : r.kind \in {"board", "review", "count"}} \cup Notice

DispatcherShape ==
    /\ board \in Boarding
    /\ queue \in Seq(QueueItem)
    /\ forks \in Seq(1 .. MaxForks)
    /\ announcing \subseteq [task : Task, what : {"advanced", "decided", "created"}]
    /\ arriving \subseteq Subject

LineShape ==
    /\ hears \in {"down", "no", "asked", "yes"}
    /\ stream \in Seq(Happening) /\ Len(stream) <= Backlog
    /\ sent \in Seq(Kind)
    /\ line \in Seq(Response)
    /\ todo \in Seq(RequestKind \cup {"subscribe"})
    /\ asked \in RequestKind \cup {"none"}

AppShape ==
    /\ cmds \in Seq(Kind)
    /\ msgs \in Seq(Message)
    /\ view \in Showing
    /\ stack \in Seq(1 .. MaxForks)
    /\ questions \in Nat
    /\ fresh \in BOOLEAN /\ aimed \in BOOLEAN

Spent == used \in [changes : Nat, forks : Nat, connects : Nat, keys : Nat]

Shape == DispatcherShape /\ LineShape /\ AppShape /\ Spent

LEMMA Bounds ==
    /\ Backlog \in Nat \ {0} /\ MaxForks \in Nat /\ MaxChanges \in Nat
    /\ MaxConnects \in Nat /\ MaxKeys \in Nat /\ Switches \subseteq Panel
BY TerminalAssumption

LEMMA EventFacts ==
    /\ Changed \in Happening /\ Changed.type = "changed"
    /\ \A p \in Panel : /\ [Changed EXCEPT !.type = "panel", !.panel = p] \in Happening
                        /\ [Changed EXCEPT !.type = "panel", !.panel = p].type = "panel"
    /\ \A n \in 1 .. MaxForks :
          /\ [Changed EXCEPT !.type = "forked", !.fork = n] \in Happening
          /\ [Changed EXCEPT !.type = "forked", !.fork = n].type = "forked"
          /\ [Changed EXCEPT !.type = "closed", !.fork = n] \in Happening
          /\ [Changed EXCEPT !.type = "closed", !.fork = n].type = "closed"
<1>1. "status" \in Panel
  BY DEF Panel, Panels
<1>2. Changed = [type |-> "changed", fork |-> 0, panel |-> "status"]
  BY DEF Changed
<1>3. Changed \in Happening /\ Changed.type = "changed"
  BY <1>1, <1>2 DEF Happening, Event
<1>4. ASSUME NEW p \in Panel
      PROVE  /\ [Changed EXCEPT !.type = "panel", !.panel = p] \in Happening
             /\ [Changed EXCEPT !.type = "panel", !.panel = p].type = "panel"
  <2> DEFINE y == [Changed EXCEPT !.type = "panel"]
             x == [y EXCEPT !.panel = p]
  <2>1. y \in Event /\ y.type = "panel"
    BY <1>3 DEF Happening, Event
  <2>2. x = [Changed EXCEPT !.type = "panel", !.panel = p]
    BY <1>3 DEF Happening, Event
  <2> HIDE DEF y
  <2>3. x \in Event /\ x.type = "panel"
    BY <2>1 DEF Event
  <2> QED BY <2>2, <2>3 DEF Happening
<1>5. ASSUME NEW n \in 1 .. MaxForks, NEW k \in {"forked", "closed"}
      PROVE  /\ [Changed EXCEPT !.type = k, !.fork = n] \in Happening
             /\ [Changed EXCEPT !.type = k, !.fork = n].type = k
  <2> DEFINE y == [Changed EXCEPT !.type = k]
             x == [y EXCEPT !.fork = n]
  <2>1. y \in Event /\ y.type = k
    BY <1>3 DEF Happening, Event
  <2>2. x = [Changed EXCEPT !.type = k, !.fork = n]
    BY <1>3 DEF Happening, Event
  <2>3. n \in Nat
    BY Bounds
  <2> HIDE DEF y
  <2>4. x \in Event /\ x.type = k /\ x.fork = n
    BY <2>1, <2>3 DEF Event
  <2> QED BY <2>2, <2>4 DEF Happening
<1> QED BY <1>3, <1>4, <1>5

\* A subscriber gets the event, and loses the oldest if there is no room for it.
LEMMA EmitFacts ==
    ASSUME LineShape, AppShape, NEW e \in Happening, Emit(e)
    PROVE  /\ stream' \in Seq(Happening) /\ Len(stream') <= Backlog /\ fresh' \in BOOLEAN
           /\ hears # "yes" => stream' = stream
           /\ hears = "yes" =>
                 \/ stream' = Append(stream, e) /\ (e.type # "changed" => fresh' = fresh)
                 \/ /\ stream # << >> /\ stream' = Append(Tail(stream), e)
                    /\ e.type # "changed" =>
                          fresh' = (fresh /\ Head(stream).type # "changed")
           /\ e.type = "changed" => fresh' = (fresh \/ hears = "yes")
           /\ e.type # "changed" /\ hears # "yes" => fresh' = fresh
<1>1. stream \in Seq(Happening) /\ Len(stream) <= Backlog /\ Len(stream) \in Nat /\ fresh \in BOOLEAN
  BY DEF LineShape, AppShape
<1>2. /\ fresh' = IF e.type = "changed" THEN fresh \/ hears = "yes"
                  ELSE fresh /\ ~(hears = "yes" /\ Len(stream) = Backlog
                                  /\ Head(stream).type = "changed")
      /\ stream' = IF hears # "yes" THEN stream
                   ELSE Append(IF hears = "yes" /\ Len(stream) = Backlog
                               THEN Tail(stream) ELSE stream, e)
  BY DEF Emit
<1>3. fresh' \in BOOLEAN
  BY <1>2, Zenon
<1>4. CASE hears # "yes"
  BY <1>1, <1>2, <1>3, <1>4
<1>5. CASE hears = "yes" /\ Len(stream) # Backlog
  <2>1. stream' = Append(stream, e) /\ (e.type # "changed" => fresh' = fresh)
    BY <1>1, <1>2, <1>5
  <2>2. Append(stream, e) \in Seq(Happening) /\ Len(Append(stream, e)) = Len(stream) + 1
    BY <1>1
  <2>3. Len(stream) + 1 <= Backlog
    BY <1>1, <1>5, Bounds
  <2> QED BY <1>2, <1>3, <1>5, <2>1, <2>2, <2>3
<1>6. CASE hears = "yes" /\ Len(stream) = Backlog
  <2>1. stream' = Append(Tail(stream), e)
        /\ (e.type # "changed" => fresh' = (fresh /\ Head(stream).type # "changed"))
    BY <1>1, <1>2, <1>6
  <2>2. stream # << >>
    BY <1>1, <1>6, Bounds
  <2>3. Tail(stream) \in Seq(Happening) /\ Len(Tail(stream)) = Len(stream) - 1
    BY <1>1, <2>2
  <2>4. Append(Tail(stream), e) \in Seq(Happening)
        /\ Len(Append(Tail(stream), e)) = Len(stream)
    BY <1>1, <2>3
  <2> QED BY <1>1, <1>2, <1>3, <1>6, <2>1, <2>2, <2>4
<1> QED BY <1>4, <1>5, <1>6

\* What the daemon answers.
LEMMA ReplyFacts ==
    ASSUME DispatcherShape, NEW k \in Kind
    PROVE  /\ Reply(k) \in Response /\ Reply(k).kind = k
           /\ k = "board" => Reply(k).board = board
<1>1. board \in Boarding /\ queue \in Seq(QueueItem)
  BY DEF DispatcherShape
<1> DEFINE b == IF k = "board" THEN board ELSE EmptyView.board
           r == IF k = "review" /\ queue # << >> THEN Head(queue).what.task ELSE NoTask
           n == IF k = "count" THEN QuestionCount ELSE 0
<1>2. b \in Boarding
  BY <1>1, EmptyBoard
<1>3. r \in Task \cup {NoTask}
  <2>1. queue # << >> => Head(queue) \in QueueItem
    BY <1>1
  <2> QED BY <2>1 DEF QueueItem, Subject
<1>4. n \in Nat
  <2>1. IsFiniteSet(1 .. Len(queue))
    BY <1>1, FS_Interval
  <2>2. {i \in DOMAIN queue : queue[i].what.kind = "question"} \subseteq 1 .. Len(queue)
    BY <1>1
  <2>3. QuestionCount \in Nat
    BY <2>1, <2>2, FS_Subset, FS_CardinalityType DEF QuestionCount
  <2> QED BY <2>3
<1>5. Reply(k) = [kind |-> k, board |-> b, review |-> r, count |-> n]
  BY DEF Reply
<1> HIDE DEF b, r, n
<1>6. Reply(k) \in Response /\ Reply(k).kind = k /\ Reply(k).board = b
  BY <1>2, <1>3, <1>4, <1>5 DEF Response
<1> QED BY <1>6 DEF b

\* The requests of a refresh.
LEMMA RefreshFacts ==
    /\ Refreshes \in Seq(Kind) /\ Len(Refreshes) = 4
    /\ Refreshes[1] = "board" /\ Refreshes[2] = "review"
    /\ Refreshes[3] = "epics" /\ Refreshes[4] = "count"
BY DEF Refreshes, Kind, RequestKind

\* What the client makes of a line.
LEMMA ReadFacts ==
    ASSUME LineShape, AppShape, Read
    PROVE  /\ asked # "none" /\ line # << >> /\ line' = Tail(line) /\ asked' = "none"
           /\ Head(line) \in Response
           /\ \/ asked = "board" /\ Head(line).kind = "board" /\ msgs' = Append(msgs, Head(line))
              \/ /\ asked = "board" /\ Head(line).kind # "board"
                 /\ msgs' = Append(msgs, [Head(line) EXCEPT !.kind = "board"])
              \/ asked = "review" /\ msgs' = Append(msgs, [Head(line) EXCEPT !.kind = "review"])
              \/ asked = "count" /\ Head(line).kind = "count" /\ msgs' = Append(msgs, Head(line))
              \/ /\ asked # "review" /\ ~(asked = "board" /\ Head(line).kind = "board")
                 /\ msgs' = msgs
           /\ UNCHANGED <<daemonVars, hears, stream, sent, todo, appVars, fresh, used>>
<1> DEFINE r == Head(line)
<1>1. /\ asked # "none" /\ line # << >> /\ line' = Tail(line) /\ asked' = "none"
      /\ UNCHANGED <<daemonVars, hears, stream, sent, todo, appVars, fresh, used>>
  BY DEF Read
<1>2. r \in Response
  BY <1>1 DEF LineShape
<1>3. CASE asked = "board" /\ r.kind = "board"
  BY <1>1, <1>2, <1>3 DEF Read, Tell
<1>4. CASE asked = "board" /\ r.kind # "board"
  <2>1. CASE r.kind = "epics" /\ NoEpics
    BY <1>1, <1>2, <1>4, <2>1 DEF Read, Tell
  <2>2. CASE ~(r.kind = "epics" /\ NoEpics)
    BY <1>1, <1>2, <1>4, <2>2 DEF Read, Tell
  <2> QED BY <2>1, <2>2
<1>5. CASE asked = "review"
  BY <1>1, <1>2, <1>5 DEF Read, Tell
<1>6. CASE asked = "count"
  <2>1. CASE r.kind = "count"
    BY <1>1, <1>2, <1>6, <2>1 DEF Read, Tell
  <2>2. CASE r.kind # "count"
    BY <1>1, <1>2, <1>6, <2>2 DEF Read, Tell
  <2> QED BY <2>1, <2>2
<1>7. CASE asked \notin {"board", "review", "count"}
  BY <1>1, <1>2, <1>7 DEF Read, Tell
<1> QED BY <1>3, <1>4, <1>5, <1>6, <1>7

\* What the App makes of a message.
LEMMA ApplyFacts ==
    ASSUME AppShape, Apply
    PROVE  /\ msgs # << >> /\ msgs' = Tail(msgs) /\ Head(msgs) \in Message
           /\ UNCHANGED <<daemonVars, lineVars, fresh, used>>
           /\ \/ /\ Head(msgs).kind = "board" /\ Head(msgs) \in Response
                 /\ view' = ApplySnapshot(view, Head(msgs).board)
                 /\ UNCHANGED <<cmds, stack, questions, aimed>>
              \/ /\ Head(msgs).kind = "review" /\ Head(msgs) \in Response
                 /\ view' = ApplyReview(view, Head(msgs).review)
                 /\ aimed' = TRUE
                 /\ UNCHANGED <<cmds, stack, questions>>
              \/ /\ Head(msgs).kind = "count" /\ Head(msgs) \in Response
                 /\ questions' = Head(msgs).count
                 /\ UNCHANGED <<cmds, view, stack, aimed>>
              \/ /\ Head(msgs).kind = "event" /\ Head(msgs) \in Notice
                 /\ cmds' = IF Head(msgs).event.type = "changed" THEN cmds \o Refreshes ELSE cmds
                 /\ view' = IF Head(msgs).event.type = "panel"
                            THEN [view EXCEPT !.panel = Head(msgs).event.panel] ELSE view
                 /\ \/ stack' = stack
                    \/ Head(msgs).event.type = "forked" /\ stack' = Append(stack, Head(msgs).event.fork)
                    \/ stack' = RemoveFirst(stack, Head(msgs).event.fork)
                 /\ UNCHANGED <<questions, aimed>>
<1> DEFINE m == Head(msgs)
<1>1. msgs # << >> /\ msgs' = Tail(msgs) /\ UNCHANGED <<daemonVars, lineVars, fresh, used>>
  BY DEF Apply
<1>2. m \in Message
  BY <1>1 DEF AppShape
<1>3. CASE m.kind = "board"
  BY <1>1, <1>2, <1>3 DEF Apply, Message, Notice
<1>4. CASE m.kind = "review"
  BY <1>1, <1>2, <1>4 DEF Apply, Message, Notice
<1>5. CASE m.kind = "count"
  BY <1>1, <1>2, <1>5 DEF Apply, Message, Notice
<1>6. CASE m.kind = "event"
  <2>1. m \in Notice
    BY <1>2, <1>6 DEF Message
  <2>2. /\ HandleEvent(m.event)
        /\ view' = IF m.event.type = "panel" THEN [view EXCEPT !.panel = m.event.panel] ELSE view
        /\ stack' = CASE m.event.type = "forked" -> Append(stack, m.event.fork)
                      [] m.event.type = "closed" -> RemoveFirst(stack, m.event.fork)
                      [] OTHER -> stack
        /\ UNCHANGED <<questions, aimed>>
    BY <1>6 DEF Apply
  <2>3. \/ stack' = stack
        \/ m.event.type = "forked" /\ stack' = Append(stack, m.event.fork)
        \/ stack' = RemoveFirst(stack, m.event.fork)
    BY <2>2
  <2> QED BY <1>1, <1>2, <1>6, <2>1, <2>2, <2>3 DEF HandleEvent
<1> QED BY <1>2, <1>3, <1>4, <1>5, <1>6 DEF Message, Notice


LEMMA SpendFacts ==
    ASSUME Spent, NEW max,
           \/ Spend("changes", max) \/ Spend("forks", max)
           \/ Spend("connects", max) \/ Spend("keys", max)
    PROVE  Spent'
BY DEF Spend, Spent

LEMMA ChangeShape ==
    ASSUME Shape, NEW t \in Task, NEW what \in {"advanced", "decided", "created"},
           board' \in Boarding, Change(t, what)
    PROVE  Shape'
<1>1. /\ Spend("changes", MaxChanges) /\ fresh' = FALSE
      /\ announcing' = announcing \cup {[task |-> t, what |-> what]}
      /\ UNCHANGED <<queue, forks, arriving, hears, stream, sent, line, todo, asked,
                     cmds, view, stack, questions, aimed, msgs>>
  BY DEF Change, lineVars, appVars
<1>2. DispatcherShape'
  BY <1>1 DEF Shape, DispatcherShape
<1>3. LineShape'
  BY <1>1 DEF Shape, LineShape
<1>4. AppShape'
  BY <1>1 DEF Shape, AppShape
<1> QED BY <1>1, <1>2, <1>3, <1>4, SpendFacts DEF Shape

LEMMA DispatcherStepShape ==
    ASSUME Shape, DispatcherStep
    PROVE  Shape'
<1>0. DispatcherShape /\ LineShape /\ AppShape /\ Spent /\ board \in Boarding
  BY DEF Shape, DispatcherShape
<1>1. ASSUME NEW t \in Task, AdvanceTask(t) \/ Approve(t) \/ Reject(t) \/ Create(t)
      PROVE  Shape'
  <2>1. board' \in Boarding
    BY <1>0, <1>1, BoardStays
  <2>2. \E what \in {"advanced", "decided", "created"} : Change(t, what)
    BY <1>1 DEF AdvanceTask, Approve, Reject, Create
  <2> QED BY <2>1, <2>2, ChangeShape
<1>2. ASSUME NEW t \in Task, Prioritize(t)
      PROVE  Shape'
  <2>1. board' \in Boarding
    BY <1>0, <1>2, BoardStays
  <2>2. /\ Spend("changes", MaxChanges) /\ fresh' = FALSE
        /\ UNCHANGED <<queue, forks, announcing, arriving, hears, stream, sent, line, todo, asked,
                       cmds, view, stack, questions, aimed, msgs>>
    BY <1>2 DEF Prioritize, lineVars, appVars
  <2>3. DispatcherShape'
    BY <1>0, <2>1, <2>2 DEF DispatcherShape
  <2>4. LineShape'
    BY <1>0, <2>2 DEF LineShape
  <2>5. AppShape'
    BY <1>0, <2>2 DEF AppShape
  <2> QED BY <1>0, <2>2, <2>3, <2>4, <2>5, SpendFacts DEF Shape
<1>3. ASSUME NEW e \in Happening, Emit(e),
             UNCHANGED <<hears, sent, line, todo, asked, cmds, view, stack, questions, aimed, msgs>>
      PROVE  LineShape' /\ AppShape'
  <2>1. stream' \in Seq(Happening) /\ Len(stream') <= Backlog /\ fresh' \in BOOLEAN
    BY <1>0, <1>3, EmitFacts
  <2>2. LineShape'
    BY <1>0, <1>3, <2>1 DEF LineShape
  <2>3. AppShape'
    BY <1>0, <1>3, <2>1 DEF AppShape
  <2> QED BY <2>2, <2>3
<1>4. ASSUME NEW call \in announcing, Announce(call)
      PROVE  Shape'
  <2>1. /\ announcing' = announcing \ {call} /\ Emit(Changed)
        /\ queue' = IF call.what = "decided" THEN DequeueByTask(queue, call.task) ELSE queue
        /\ arriving' =
              IF call.what = "advanced" /\ Where(call.task) \in Buffer
              THEN arriving \cup {Approval(call.task, Where(call.task), DefaultPriority)}
              ELSE arriving
        /\ UNCHANGED <<board, forks, hears, sent, line, todo, asked, cmds, view, stack,
                       questions, aimed, msgs, used>>
    BY <1>4 DEF Announce, appVars
  <2>2. call.task \in Task
    BY <1>0, <1>4 DEF DispatcherShape
  <2>3. queue' \in Seq(QueueItem)
    <3>1. queue \in Seq(QueueItem)
      BY <1>0 DEF DispatcherShape
    <3>2. DequeueByTask(queue, call.task) \in Seq(QueueItem)
      BY <3>1, DequeueFacts, RemoveFacts
    <3> QED BY <2>1, <3>1, <3>2
  <2>4. arriving' \subseteq Subject
    <3>1. ASSUME NEW c \in Buffer
          PROVE  Approval(call.task, c, DefaultPriority) \in Subject
      BY <2>2, ColumnFacts, TaskFacts DEF Approval, Subject
    <3>2. arriving \subseteq Subject
      BY <1>0 DEF DispatcherShape
    <3> QED BY <2>1, <3>1, <3>2
  <2>5. DispatcherShape'
    BY <1>0, <2>1, <2>3, <2>4 DEF DispatcherShape
  <2>6. LineShape' /\ AppShape'
    BY <1>3, <2>1, EventFacts
  <2> QED BY <1>0, <2>1, <2>5, <2>6 DEF Shape, Spent
<1>5. ASSUME NEW t \in Task, AskHuman(t)
      PROVE  Shape'
  <2>1. /\ Spend("changes", MaxChanges) /\ Emit(Changed)
        /\ arriving' = arriving \cup {Question(t)}
        /\ UNCHANGED <<board, queue, forks, announcing, hears, sent, line, todo, asked,
                       cmds, view, stack, questions, aimed, msgs>>
    BY <1>5 DEF AskHuman, appVars
  <2>2. Question(t) \in Subject
    BY DEF Question, Subject, ReworkPriority
  <2>3. DispatcherShape'
    BY <1>0, <2>1, <2>2 DEF DispatcherShape
  <2>4. LineShape' /\ AppShape'
    BY <1>3, <2>1, EventFacts
  <2> QED BY <1>0, <2>1, <2>3, <2>4, SpendFacts DEF Shape
<1>6. ASSUME NEW what \in arriving, Arrive(what)
      PROVE  Shape'
  <2>1. /\ arriving' = arriving \ {what}
        /\ queue' = Enqueue(queue, [id |-> Fresh, what |-> what])
        /\ UNCHANGED <<board, forks, announcing, hears, stream, sent, line, todo, asked,
                       cmds, view, stack, questions, aimed, msgs, fresh, used>>
    BY <1>6 DEF Arrive, lineVars, appVars
  <2>2. queue \in Seq(QueueItem) /\ [id |-> Fresh, what |-> what] \in QueueItem
    BY <1>0, <1>6 DEF DispatcherShape, QueueItem, Fresh
  <2>3. queue' \in Seq(QueueItem)
    BY <2>1, <2>2, EnqueueFacts
  <2>4. DispatcherShape'
    BY <1>0, <2>1, <2>3 DEF DispatcherShape
  <2>5. LineShape'
    BY <1>0, <2>1 DEF LineShape
  <2>6. AppShape'
    BY <1>0, <2>1 DEF AppShape
  <2> QED BY <1>0, <2>1, <2>4, <2>5, <2>6 DEF Shape, Spent
<1>7. ASSUME NEW i \in DOMAIN queue, Answer(i)
      PROVE  Shape'
  <2>1. /\ queue' = RemoveItem(queue, i)
        /\ UNCHANGED <<board, forks, announcing, arriving, hears, stream, sent, line, todo, asked,
                       cmds, view, stack, questions, aimed, msgs, fresh, used>>
    BY <1>7 DEF Answer, lineVars, appVars
  <2>2. queue \in Seq(QueueItem) /\ i \in 1 .. Len(queue)
    BY <1>0, <1>7 DEF DispatcherShape
  <2>3. queue' \in Seq(QueueItem)
    BY <2>1, <2>2, RemoveFacts
  <2>4. DispatcherShape'
    BY <1>0, <2>1, <2>3 DEF DispatcherShape
  <2>5. LineShape'
    BY <1>0, <2>1 DEF LineShape
  <2>6. AppShape'
    BY <1>0, <2>1 DEF AppShape
  <2> QED BY <1>0, <2>1, <2>4, <2>5, <2>6 DEF Shape, Spent
<1>8. ASSUME NEW p \in Switches, SwitchPanel(p)
      PROVE  Shape'
  <2>1. /\ Spend("changes", MaxChanges)
        /\ Emit([Changed EXCEPT !.type = "panel", !.panel = p])
        /\ UNCHANGED <<board, queue, forks, announcing, arriving, hears, sent, line, todo, asked,
                       cmds, view, stack, questions, aimed, msgs>>
    BY <1>8 DEF SwitchPanel, daemonVars, appVars
  <2>2. DispatcherShape'
    BY <1>0, <2>1 DEF DispatcherShape
  <2>3. [Changed EXCEPT !.type = "panel", !.panel = p] \in Happening
    BY EventFacts, Bounds
  <2>4. LineShape' /\ AppShape'
    BY <1>3, <2>1, <2>3
  <2> QED BY <1>0, <2>1, <2>2, <2>4, SpendFacts DEF Shape
<1>9. ASSUME OpenFork
      PROVE  Shape'
  <2> DEFINE n == used.forks + 1
  <2>1. /\ Spend("forks", MaxForks)
        /\ forks' = Append(forks, n)
        /\ Emit([Changed EXCEPT !.type = "forked", !.fork = n])
        /\ UNCHANGED <<board, queue, announcing, arriving, hears, sent, line, todo, asked,
                       cmds, view, stack, questions, aimed, msgs>>
    BY <1>9 DEF OpenFork, appVars
  <2>2. n \in 1 .. MaxForks
    BY <1>0, <2>1, Bounds DEF Spent, Spend
  <2> HIDE DEF n
  <2>3. [Changed EXCEPT !.type = "forked", !.fork = n] \in Happening
    BY <2>2, EventFacts
  <2>4. DispatcherShape'
    BY <1>0, <2>1, <2>2 DEF DispatcherShape
  <2>5. LineShape' /\ AppShape'
    BY <1>3, <2>1, <2>3
  <2> QED BY <1>0, <2>1, <2>4, <2>5, SpendFacts DEF Shape
<1> QED BY <1>1, <1>2, <1>4, <1>5, <1>6, <1>7, <1>8, <1>9 DEF DispatcherStep

LEMMA FrontFacts ==
    ASSUME NEW S, NEW q \in Seq(S), q # << >>
    PROVE  Front(q) \in Seq(S) /\ Last(q) \in S
<1>1. PICK k \in 1 .. Len(q) : k = Len(q)
  OBVIOUS
<1>2. SubSeq(q, 1, k - 1) \in Seq(S) /\ q[k] \in S
  OBVIOUS
<1> QED BY <1>1, <1>2 DEF Front, Last

LEMMA HandlerShape ==
    ASSUME Shape, Serve \/ ServeClose \/ Subscribe
    PROVE  Shape'
<1>0. DispatcherShape /\ LineShape /\ AppShape /\ Spent
  BY DEF Shape
<1>1. sent \in Seq(Kind) /\ line \in Seq(Response) /\ fresh \in BOOLEAN /\ forks \in Seq(1 .. MaxForks)
  BY <1>0 DEF LineShape, AppShape, DispatcherShape
<1>2. CASE Serve
  <2>1. /\ sent # << >> /\ sent' = Tail(sent) /\ line' = Append(line, Reply(Head(sent)))
        /\ fresh' = (fresh \/ Head(sent) = "board")
        /\ UNCHANGED <<board, queue, forks, announcing, arriving, hears, stream, todo, asked,
                       cmds, view, stack, questions, aimed, msgs, used>>
    BY <1>2 DEF Serve, daemonVars, appVars
  <2>2. Head(sent) \in Kind /\ Tail(sent) \in Seq(Kind)
    BY <1>1, <2>1
  <2>3. line' \in Seq(Response)
    BY <1>0, <1>1, <2>1, <2>2, ReplyFacts
  <2>4. fresh' \in BOOLEAN
    BY <2>1, Zenon
  <2>5. DispatcherShape'
    BY <1>0, <2>1 DEF DispatcherShape
  <2>6. LineShape'
    BY <1>0, <2>1, <2>2, <2>3 DEF LineShape
  <2>7. AppShape'
    BY <1>0, <2>1, <2>4 DEF AppShape
  <2> QED BY <1>0, <2>1, <2>5, <2>6, <2>7 DEF Shape, Spent
<1>3. CASE ServeClose
  <2>1. /\ sent # << >> /\ sent' = Tail(sent) /\ line' = Append(line, Reply("close"))
        /\ UNCHANGED <<board, queue, announcing, arriving, hears, todo, asked,
                       cmds, view, stack, questions, aimed, msgs, used>>
    BY <1>3 DEF ServeClose, appVars
  <2>2. Tail(sent) \in Seq(Kind)
    BY <1>1, <2>1
  <2>3. line' \in Seq(Response)
    BY <1>0, <1>1, <2>1, ReplyFacts DEF Kind
  <2>4. /\ forks' \in Seq(1 .. MaxForks) /\ stream' \in Seq(Happening)
        /\ Len(stream') <= Backlog /\ fresh' \in BOOLEAN
    <3>1. CASE forks = << >>
      BY <1>0, <1>1, <1>3, <3>1 DEF ServeClose, LineShape
    <3>2. CASE forks # << >>
      <4>1. /\ forks' = Front(forks)
            /\ Emit([Changed EXCEPT !.type = "closed", !.fork = Last(forks)])
        BY <1>3, <3>2 DEF ServeClose
      <4>2. Front(forks) \in Seq(1 .. MaxForks) /\ Last(forks) \in 1 .. MaxForks
        BY <1>1, <3>2, FrontFacts
      <4>3. [Changed EXCEPT !.type = "closed", !.fork = Last(forks)] \in Happening
        BY <4>2, EventFacts
      <4> QED BY <1>0, <4>1, <4>2, <4>3, EmitFacts
    <3> QED BY <3>1, <3>2
  <2>5. DispatcherShape'
    BY <1>0, <2>1, <2>4 DEF DispatcherShape
  <2>6. LineShape'
    BY <1>0, <2>1, <2>2, <2>3, <2>4 DEF LineShape
  <2>7. AppShape'
    BY <1>0, <2>1, <2>4 DEF AppShape
  <2> QED BY <1>0, <2>1, <2>5, <2>6, <2>7 DEF Shape, Spent
<1>4. CASE Subscribe
  <2>1. /\ hears' = "yes"
        /\ UNCHANGED <<board, queue, forks, announcing, arriving, stream, sent, line, todo, asked,
                       cmds, view, stack, questions, aimed, msgs, fresh, used>>
    BY <1>4 DEF Subscribe, daemonVars, appVars
  <2>2. DispatcherShape'
    BY <1>0, <2>1 DEF DispatcherShape
  <2>3. LineShape'
    BY <1>0, <2>1 DEF LineShape
  <2>4. AppShape'
    BY <1>0, <2>1 DEF AppShape
  <2> QED BY <1>0, <2>1, <2>2, <2>3, <2>4 DEF Shape, Spent
<1> QED BY <1>2, <1>3, <1>4


LEMMA ClientShape ==
    ASSUME Shape, ClientStep
    PROVE  Shape'
<1>0. DispatcherShape /\ LineShape /\ AppShape /\ Spent
  BY DEF Shape
<1>1. /\ sent \in Seq(Kind) /\ line \in Seq(Response) /\ stream \in Seq(Happening)
      /\ Len(stream) <= Backlog /\ todo \in Seq(RequestKind \cup {"subscribe"})
      /\ cmds \in Seq(Kind) /\ msgs \in Seq(Message) /\ Backlog \in Nat
  BY <1>0, Bounds DEF LineShape, AppShape
<1>2. CASE Connect
  <2>1. /\ Spend("connects", MaxConnects) /\ hears' = "no"
        /\ todo' = <<"board", "subscribe", "review", "epics", "count", "history">>
        /\ UNCHANGED <<board, queue, forks, announcing, arriving, stream, sent, line, asked,
                       cmds, view, stack, questions, aimed, msgs, fresh>>
    BY <1>2 DEF Connect, daemonVars, appVars
  <2>2. todo' \in Seq(RequestKind \cup {"subscribe"})
    BY <2>1 DEF RequestKind
  <2>3. DispatcherShape'
    BY <1>0, <2>1 DEF DispatcherShape
  <2>4. LineShape'
    BY <1>0, <2>1, <2>2 DEF LineShape
  <2>5. AppShape'
    BY <1>0, <2>1 DEF AppShape
  <2> QED BY <1>0, <2>1, <2>3, <2>4, <2>5, SpendFacts DEF Shape
<1>3. CASE Begin
  <2>1. /\ todo # << >> /\ todo' = Tail(todo)
        /\ \/ hears' = "asked" /\ UNCHANGED <<asked, sent>>
           \/ /\ Head(todo) # "subscribe" /\ asked' = Head(todo)
              /\ sent' = Append(sent, Head(todo)) /\ UNCHANGED hears
        /\ UNCHANGED <<board, queue, forks, announcing, arriving, stream, line,
                       cmds, view, stack, questions, aimed, msgs, fresh, used>>
    BY <1>3 DEF Begin, Request, daemonVars, appVars
  <2>2. todo' \in Seq(RequestKind \cup {"subscribe"})
        /\ (Head(todo) # "subscribe" => Head(todo) \in RequestKind /\ Head(todo) \in Kind)
    BY <1>1, <2>1 DEF Kind
  <2>3. DispatcherShape'
    BY <1>0, <2>1 DEF DispatcherShape
  <2>4. LineShape'
    <3>1. \A k \in Kind : Append(sent, k) \in Seq(Kind)
      BY <1>1
    <3>2. asked \in RequestKind \cup {"none"} /\ hears \in {"down", "no", "asked", "yes"}
      BY <1>0 DEF LineShape
    <3>3. sent' \in Seq(Kind) /\ asked' \in RequestKind \cup {"none"}
          /\ hears' \in {"down", "no", "asked", "yes"}
      BY <1>1, <2>1, <2>2, <3>1, <3>2
    <3> QED BY <1>0, <2>1, <2>2, <3>3 DEF LineShape
  <2>5. AppShape'
    BY <1>0, <2>1 DEF AppShape
  <2> QED BY <1>0, <2>1, <2>3, <2>4, <2>5 DEF Shape, Spent
<1>4. CASE Command
  <2>1. /\ cmds # << >> /\ cmds' = Tail(cmds)
        /\ \/ Head(cmds) = "close" /\ sent' = Append(sent, "close") /\ UNCHANGED asked
           \/ /\ Head(cmds) # "close" /\ asked' = Head(cmds) /\ sent' = Append(sent, Head(cmds))
        /\ UNCHANGED <<board, queue, forks, announcing, arriving, hears, stream, line, todo,
                       view, stack, questions, aimed, msgs, fresh, used>>
    BY <1>4 DEF Command, Request, daemonVars
  <2>2. cmds' \in Seq(Kind) /\ Head(cmds) \in Kind
        /\ (Head(cmds) # "close" => Head(cmds) \in RequestKind)
    BY <1>1, <2>1 DEF Kind
  <2>3. DispatcherShape'
    BY <1>0, <2>1 DEF DispatcherShape
  <2>4. LineShape'
    <3>1. \A k \in Kind : Append(sent, k) \in Seq(Kind)
      BY <1>1
    <3>2. asked \in RequestKind \cup {"none"}
      BY <1>0 DEF LineShape
    <3>3. sent' \in Seq(Kind) /\ asked' \in RequestKind \cup {"none"}
      BY <1>1, <2>1, <2>2, <3>1, <3>2
    <3> QED BY <1>0, <2>1, <3>3 DEF LineShape
  <2>5. AppShape'
    BY <1>0, <2>1, <2>2 DEF AppShape
  <2> QED BY <1>0, <2>1, <2>3, <2>4, <2>5 DEF Shape, Spent
<1>5. CASE Read
  <2>1. /\ line # << >> /\ line' = Tail(line) /\ asked' = "none" /\ Head(line) \in Response
        /\ UNCHANGED <<board, queue, forks, announcing, arriving, hears, stream, sent, todo,
                       cmds, view, stack, questions, aimed, fresh, used>>
    BY <1>0, <1>5, ReadFacts DEF daemonVars, appVars
  <2>2. msgs' \in Seq(Message)
    <3>1. ASSUME NEW k \in {"board", "review"}
          PROVE  [Head(line) EXCEPT !.kind = k] \in Message
      BY <2>1 DEF Response, Message, Kind, RequestKind
    <3>2. Head(line).kind \in {"board", "count"} => Head(line) \in Message
      BY <2>1 DEF Message
    <3>3. msgs' = msgs \/ \E m \in Message : msgs' = Append(msgs, m)
      BY <1>0, <1>5, <3>1, <3>2, ReadFacts
    <3>4. ASSUME NEW m \in Message
          PROVE  Append(msgs, m) \in Seq(Message)
      BY <1>1
    <3> QED BY <1>1, <3>3, <3>4
  <2>3. line' \in Seq(Response)
    BY <1>1, <2>1
  <2>4. DispatcherShape'
    BY <1>0, <2>1 DEF DispatcherShape
  <2>5. LineShape'
    BY <1>0, <2>1, <2>3 DEF LineShape
  <2>6. AppShape'
    BY <1>0, <2>1, <2>2 DEF AppShape
  <2> QED BY <1>0, <2>1, <2>4, <2>5, <2>6 DEF Shape, Spent
<1>6. CASE Hear
  <2>1. /\ stream # << >> /\ stream' = Tail(stream)
        /\ msgs' = Append(msgs, [kind |-> "event", event |-> Head(stream)])
        /\ UNCHANGED <<board, queue, forks, announcing, arriving, hears, sent, line, todo, asked,
                       cmds, view, stack, questions, aimed, fresh, used>>
    BY <1>6 DEF Hear, Tell, daemonVars, appVars
  <2>2. stream' \in Seq(Happening) /\ Len(stream') <= Backlog /\ Head(stream) \in Happening
    BY <1>1, <2>1
  <2>3. [kind |-> "event", event |-> Head(stream)] \in Message
    BY <2>2 DEF Message, Notice
  <2>4. msgs' \in Seq(Message)
    BY <1>1, <2>1, <2>3
  <2>5. DispatcherShape'
    BY <1>0, <2>1 DEF DispatcherShape
  <2>6. LineShape'
    BY <1>0, <2>1, <2>2 DEF LineShape
  <2>7. AppShape'
    BY <1>0, <2>1, <2>4 DEF AppShape
  <2> QED BY <1>0, <2>1, <2>5, <2>6, <2>7 DEF Shape, Spent
<1>7. CASE Disconnect
  <2>1. /\ hears' = "down" /\ todo' = << >> /\ asked' = "none"
        /\ sent' = << >> /\ line' = << >> /\ stream' = << >> /\ fresh' = FALSE
        /\ forks' \in {forks, << >>}
        /\ UNCHANGED <<board, queue, announcing, arriving,
                       cmds, view, stack, questions, aimed, msgs, used>>
    BY <1>7 DEF Disconnect, appVars
  <2>2. /\ sent' \in Seq(Kind) /\ line' \in Seq(Response) /\ stream' \in Seq(Happening)
        /\ Len(stream') <= Backlog /\ todo' \in Seq(RequestKind \cup {"subscribe"})
    BY <1>1, <2>1
  <2>3. forks' \in Seq(1 .. MaxForks)
    <3>1. forks \in Seq(1 .. MaxForks)
      BY <1>0 DEF DispatcherShape
    <3>2. << >> \in Seq(1 .. MaxForks)
      OBVIOUS
    <3> QED BY <2>1, <3>1, <3>2
  <2>4. DispatcherShape'
    BY <1>0, <2>1, <2>3 DEF DispatcherShape
  <2>5. LineShape'
    BY <1>0, <2>1, <2>2 DEF LineShape
  <2>6. AppShape'
    BY <1>0, <2>1 DEF AppShape
  <2> QED BY <1>0, <2>1, <2>4, <2>5, <2>6 DEF Shape, Spent
<1> QED BY <1>2, <1>3, <1>4, <1>5, <1>6, <1>7 DEF ClientStep

LEMMA AppStepShape ==
    ASSUME Shape, AppStep
    PROVE  Shape'
<1>0. DispatcherShape /\ LineShape /\ AppShape /\ Spent
  BY DEF Shape
<1>1. cmds \in Seq(Kind) /\ msgs \in Seq(Message) /\ view \in Showing
      /\ stack \in Seq(1 .. MaxForks) /\ questions \in Nat
  BY <1>0 DEF AppShape
<1>2. CASE Apply
  <2> DEFINE m == Head(msgs)
  <2>1. /\ msgs # << >> /\ msgs' = Tail(msgs)
        /\ UNCHANGED <<board, queue, forks, announcing, arriving, hears, stream, sent, line, todo,
                       asked, fresh, used>>
    BY <1>0, <1>2, ApplyFacts DEF daemonVars, lineVars
  <2>2. msgs' \in Seq(Message)
    BY <1>1, <2>1
  <2>3. /\ cmds' \in Seq(Kind) /\ view' \in Showing /\ stack' \in Seq(1 .. MaxForks)
        /\ questions' \in Nat /\ aimed' \in BOOLEAN
    <3>1. CASE /\ m \in Response
               /\ view' = ApplySnapshot(view, m.board)
               /\ UNCHANGED <<cmds, stack, questions, aimed>>
      <4>1. m.board \in Boarding
        BY <3>1 DEF Response
      <4> QED BY <1>0, <1>1, <3>1, <4>1, SnapshotFacts DEF AppShape
    <3>2. CASE /\ m \in Response
               /\ view' = ApplyReview(view, m.review)
               /\ aimed' = TRUE
               /\ UNCHANGED <<cmds, stack, questions>>
      <4>1. m.review \in Task \cup {NoTask}
        BY <3>2 DEF Response
      <4> QED BY <1>0, <1>1, <3>2, <4>1, ReviewFacts DEF AppShape
    <3>3. CASE /\ m \in Response
               /\ questions' = m.count
               /\ UNCHANGED <<cmds, view, stack, aimed>>
      <4>1. m.count \in Nat
        BY <3>3 DEF Response
      <4> QED BY <1>0, <1>1, <3>3, <4>1 DEF AppShape
    <3>4. CASE /\ m \in Notice
               /\ cmds' = IF m.event.type = "changed" THEN cmds \o Refreshes ELSE cmds
               /\ view' = IF m.event.type = "panel"
                          THEN [view EXCEPT !.panel = m.event.panel] ELSE view
               /\ \/ stack' = stack
                  \/ m.event.type = "forked" /\ stack' = Append(stack, m.event.fork)
                  \/ stack' = RemoveFirst(stack, m.event.fork)
               /\ UNCHANGED <<questions, aimed>>
      <4>1. m.event \in Happening
        BY <3>4 DEF Notice
      <4>2. m.event.panel \in Panel /\ (m.event.type = "forked" => m.event.fork \in 1 .. MaxForks)
        BY <4>1 DEF Happening, Event
      <4>3. cmds' \in Seq(Kind)
        <5>1. cmds \o Refreshes \in Seq(Kind)
          BY <1>1, RefreshFacts, ConcatProperties, Zenon
        <5> QED BY <1>1, <3>4, <5>1
      <4>4. view' \in Showing
        <5>1. [view EXCEPT !.panel = m.event.panel] \in Showing
          BY <1>1, <4>2 DEF Showing, View
        <5> QED BY <1>1, <3>4, <5>1
      <4>5. stack' \in Seq(1 .. MaxForks)
        <5>1. CASE stack' = RemoveFirst(stack, m.event.fork)
          BY <1>1, <5>1, RemovedFacts
        <5>2. CASE m.event.type = "forked" /\ stack' = Append(stack, m.event.fork)
          BY <1>1, <4>2, <5>2
        <5> QED BY <1>1, <3>4, <5>1, <5>2
      <4> QED BY <1>0, <3>4, <4>3, <4>4, <4>5 DEF AppShape
    <3> QED BY <1>0, <1>2, <3>1, <3>2, <3>3, <3>4, ApplyFacts
  <2>4. DispatcherShape'
    BY <1>0, <2>1 DEF DispatcherShape
  <2>5. LineShape'
    BY <1>0, <2>1 DEF LineShape
  <2>6. AppShape'
    BY <1>0, <2>1, <2>2, <2>3 DEF AppShape
  <2> QED BY <1>0, <2>1, <2>4, <2>5, <2>6 DEF Shape, Spent
<1>3. CASE Key
  <2>1. /\ Spend("keys", MaxKeys)
        /\ view' \in {MoveUp(view), MoveDown(view), MoveLeft(view), MoveRight(view),
                      PrevPanel(view), NextPanel(view), Open(view)}
        /\ aimed' = (aimed /\ view'.col = view.col /\ view'.pos = view.pos)
        /\ UNCHANGED <<board, queue, forks, announcing, arriving, hears, stream, sent, line, todo,
                       asked, cmds, stack, questions, msgs, fresh>>
    BY <1>3 DEF Key, daemonVars, lineVars
  <2>2. view' \in Showing
    BY <1>1, <2>1, KeyFacts
  <2>3. aimed' \in BOOLEAN
    BY <2>1, Zenon
  <2>4. DispatcherShape'
    BY <1>0, <2>1 DEF DispatcherShape
  <2>5. LineShape'
    BY <1>0, <2>1 DEF LineShape
  <2>6. AppShape'
    BY <1>0, <2>1, <2>2, <2>3 DEF AppShape
  <2> QED BY <1>0, <2>1, <2>4, <2>5, <2>6, SpendFacts DEF Shape
<1>4. CASE Esc
  <2>1. /\ Spend("keys", MaxKeys) /\ cmds' = Append(cmds, "close")
        /\ UNCHANGED <<board, queue, forks, announcing, arriving, hears, stream, sent, line, todo,
                       asked, view, stack, questions, aimed, msgs, fresh>>
    BY <1>4 DEF Esc, daemonVars, lineVars
  <2>2. cmds' \in Seq(Kind)
    BY <1>1, <2>1 DEF Kind
  <2>3. DispatcherShape'
    BY <1>0, <2>1 DEF DispatcherShape
  <2>4. LineShape'
    BY <1>0, <2>1 DEF LineShape
  <2>5. AppShape'
    BY <1>0, <2>1, <2>2 DEF AppShape
  <2> QED BY <1>0, <2>1, <2>3, <2>4, <2>5, SpendFacts DEF Shape
<1> QED BY <1>2, <1>3, <1>4 DEF AppStep

LEMMA ShapeStep ==
    ASSUME Shape, [Next]_termVars
    PROVE  Shape'
<1>1. CASE UNCHANGED termVars
  BY <1>1 DEF Shape, DispatcherShape, LineShape, AppShape, Spent,
              termVars, daemonVars, lineVars, appVars
<1> QED BY <1>1, DispatcherStepShape, HandlerShape, ClientShape, AppStepShape DEF Next

LEMMA InitShape == Init => Shape
<1> SUFFICES ASSUME Init PROVE Shape
  OBVIOUS
<1>1. /\ board \in Boards /\ queue = << >> /\ forks = << >> /\ announcing = {}
      /\ arriving = {a \in {Approval(t, c, DefaultPriority) : t \in Task, c \in Buffer} :
                        Contains(board[a.column], a.task)}
      /\ hears = "down" /\ stream = << >> /\ sent = << >> /\ line = << >>
      /\ todo = << >> /\ asked = "none" /\ cmds = << >> /\ msgs = << >>
      /\ view = EmptyView /\ stack = << >> /\ questions = 0
      /\ fresh = FALSE /\ aimed = FALSE
      /\ used = [changes |-> 0, forks |-> 0, connects |-> 0, keys |-> 0]
  BY DEF Init, Opening
<1>2. board \in Boarding
  BY <1>1, TerminalAssumption DEF Boarding
<1>3. ASSUME NEW S
      PROVE  << >> \in Seq(S) /\ Len(<< >>) = 0
  OBVIOUS
<1>4. arriving \subseteq Subject
  <2>1. \A t \in Task : \A c \in Buffer : Approval(t, c, DefaultPriority) \in Subject
    BY ColumnFacts, TaskFacts DEF Approval, Subject
  <2> QED BY <1>1, <2>1
<1>5. DispatcherShape
  BY <1>1, <1>2, <1>3, <1>4 DEF DispatcherShape
<1>6. LineShape
  BY <1>1, <1>3, Bounds DEF LineShape
<1>7. AppShape
  BY <1>1, <1>3, EmptyBoard DEF AppShape
<1>8. Spent
  BY <1>1 DEF Spent
<1> QED BY <1>5, <1>6, <1>7, <1>8 DEF Shape

LEMMA ShapeAlways == TerminalSpec => []Shape
BY InitShape, ShapeStep, PTL DEF TerminalSpec

\* Whatever reaches the terminal in whatever order, and whatever keys are
\* pressed, the copy is a board and the cursor's position one to index with:
\* for any tasks, bounds and size of the event bus.
THEOREM TerminalTypeCorrect == TerminalSpec => []TerminalTypeOK
<1>1. Shape => TerminalTypeOK
  <2> SUFFICES ASSUME Shape PROVE TerminalTypeOK
    OBVIOUS
  <2>1. stream \in Seq(Happening) /\ \A i \in DOMAIN stream : stream[i] \in Event
    <3>1. stream \in Seq(Happening)
      BY DEF Shape, LineShape
    <3> QED BY <3>1 DEF Happening
  <2> QED BY <2>1 DEF Shape, DispatcherShape, LineShape, AppShape, TerminalTypeOK,
                      Boarding, Kind, Showing
<1> QED BY <1>1, ShapeAlways, PTL


-----------------------------------------------------------------------------
(* Lists that are read from the front and written to at the end.           *)

Holds(s, k) == \E i \in DOMAIN s : s[i] = k

LEMMA QueueEnds ==
    ASSUME NEW S, NEW s \in Seq(S), NEW e \in S
    PROVE  /\ Append(s, e) \in Seq(S)
           /\ DOMAIN s = 1 .. Len(s) /\ Len(s) \in Nat
           /\ DOMAIN Append(s, e) = 1 .. Len(s) + 1
           /\ Append(s, e)[Len(s) + 1] = e /\ Len(s) + 1 \in DOMAIN Append(s, e)
           /\ \A i \in DOMAIN s : /\ i \in DOMAIN Append(s, e) /\ Append(s, e)[i] = s[i]
                                  /\ i < Len(s) + 1
           /\ \A i \in DOMAIN Append(s, e) : i \in DOMAIN s \/ i = Len(s) + 1
           /\ s # << >> => /\ Tail(s) \in Seq(S) /\ Head(s) = s[1] /\ 1 \in DOMAIN s
                           /\ Head(s) \in S
                           /\ Len(Tail(s)) = Len(s) - 1
                           /\ \A i \in DOMAIN Tail(s) : /\ i \in Nat /\ i + 1 \in DOMAIN s
                                                        /\ Tail(s)[i] = s[i + 1]
                           /\ \A i \in DOMAIN s : i # 1 => /\ i - 1 \in DOMAIN Tail(s)
                                                           /\ Tail(s)[i - 1] = s[i]
<1>1. DOMAIN s = 1 .. Len(s) /\ Len(s) \in Nat /\ Append(s, e) \in Seq(S)
      /\ Len(Append(s, e)) = Len(s) + 1
  OBVIOUS
<1>2. \A i \in 1 .. Len(s) + 1 : Append(s, e)[i] = IF i = Len(s) + 1 THEN e ELSE s[i]
  BY <1>1
<1>3. \A i \in 1 .. Len(s) + 1 : i \in 1 .. Len(s) \/ i = Len(s) + 1
  BY <1>1
<1>4. DOMAIN Append(s, e) = 1 .. Len(s) + 1
  BY <1>1
<1>5. ASSUME s # << >>
      PROVE  /\ Tail(s) \in Seq(S) /\ Head(s) = s[1] /\ 1 \in DOMAIN s /\ Head(s) \in S
             /\ Len(Tail(s)) = Len(s) - 1
             /\ \A i \in DOMAIN Tail(s) : /\ i \in Nat /\ i + 1 \in DOMAIN s
                                          /\ Tail(s)[i] = s[i + 1]
             /\ \A i \in DOMAIN s : i # 1 => /\ i - 1 \in DOMAIN Tail(s)
                                             /\ Tail(s)[i - 1] = s[i]
  <2>1. /\ Tail(s) \in Seq(S) /\ Head(s) = s[1] /\ 1 \in DOMAIN s /\ Head(s) \in S
        /\ Len(Tail(s)) = Len(s) - 1
    BY <1>5
  <2>2. \A i \in 1 .. Len(s) - 1 : Tail(s)[i] = s[i + 1]
    BY <1>5
  <2>3. DOMAIN Tail(s) = 1 .. Len(s) - 1
    BY <2>1
  <2>4. \A i \in 1 .. Len(s) - 1 : i \in Nat /\ i + 1 \in 1 .. Len(s)
    BY <1>1
  <2>5. \A i \in 1 .. Len(s) : i # 1 => i - 1 \in 1 .. Len(s) - 1 /\ (i - 1) + 1 = i
    BY <1>1
  <2> QED BY <1>1, <2>1, <2>2, <2>3, <2>4, <2>5
<1>6. \A i \in 1 .. Len(s) : i \in 1 .. Len(s) + 1 /\ i # Len(s) + 1 /\ i < Len(s) + 1
  BY <1>1
<1>7. Len(s) + 1 \in 1 .. Len(s) + 1
  BY <1>1
<1> QED BY <1>1, <1>2, <1>3, <1>4, <1>5, <1>6, <1>7

\* What is in a list stays when something is added, and leaves at the front.
LEMMA HoldsFacts ==
    ASSUME NEW S, NEW s \in Seq(S), NEW e \in S, NEW k
    PROVE  /\ Holds(Append(s, e), k) <=> Holds(s, k) \/ e = k
           /\ s # << >> => (Holds(s, k) <=> Head(s) = k \/ Holds(Tail(s), k))
<1>1. Holds(Append(s, e), k) <=> Holds(s, k) \/ e = k
  BY QueueEnds DEF Holds
<1>2. ASSUME s # << >>
      PROVE  Holds(s, k) <=> Head(s) = k \/ Holds(Tail(s), k)
  <2>1. ASSUME NEW i \in DOMAIN s, s[i] = k
        PROVE  Head(s) = k \/ Holds(Tail(s), k)
    <3>1. CASE i = 1
      BY <1>2, <2>1, <3>1, QueueEnds
    <3>2. CASE i # 1
      <4>1. i - 1 \in DOMAIN Tail(s) /\ Tail(s)[i - 1] = s[i]
        BY <1>2, <3>2, QueueEnds
      <4> QED BY <2>1, <4>1 DEF Holds
    <3> QED BY <3>1, <3>2
  <2>2. ASSUME NEW i \in DOMAIN Tail(s), Tail(s)[i] = k
        PROVE  Holds(s, k)
    <3>1. i + 1 \in DOMAIN s /\ Tail(s)[i] = s[i + 1]
      BY <1>2, QueueEnds
    <3> QED BY <2>2, <3>1 DEF Holds
  <2>3. Head(s) = k => Holds(s, k)
    BY <1>2, QueueEnds DEF Holds
  <2> QED BY <2>1, <2>2, <2>3 DEF Holds
<1> QED BY <1>1, <1>2

LEMMA HoldsBoth ==
    ASSUME NEW S, NEW s \in Seq(S), NEW r \in Seq(S), NEW k
    PROVE  Holds(s \o r, k) <=> Holds(s, k) \/ Holds(r, k)
<1>1. /\ s \o r \in Seq(S) /\ Len(s \o r) = Len(s) + Len(r)
      /\ \A i \in 1 .. Len(s) + Len(r) : (s \o r)[i] = IF i <= Len(s) THEN s[i] ELSE r[i - Len(s)]
  BY ConcatProperties, Zenon
<1>2. /\ Len(s) \in Nat /\ Len(r) \in Nat /\ DOMAIN s = 1 .. Len(s) /\ DOMAIN r = 1 .. Len(r)
      /\ DOMAIN (s \o r) = 1 .. Len(s) + Len(r)
  BY <1>1
<1> DEFINE q == s \o r
<1> HIDE DEF q
<1>3. ASSUME NEW i \in DOMAIN q, q[i] = k
      PROVE  Holds(s, k) \/ Holds(r, k)
  <2>1. CASE i <= Len(s)
    BY <1>1, <1>2, <1>3, <2>1 DEF Holds, q
  <2>2. CASE ~(i <= Len(s))
    <3>1. i - Len(s) \in 1 .. Len(r) /\ r[i - Len(s)] = k
      BY <1>1, <1>2, <1>3, <2>2 DEF q
    <3> QED BY <1>2, <3>1 DEF Holds
  <2> QED BY <2>1, <2>2
<1>4. ASSUME NEW i \in DOMAIN s, s[i] = k
      PROVE  Holds(q, k)
  <2>1. i \in DOMAIN q /\ q[i] = k
    BY <1>1, <1>2, <1>4 DEF q
  <2> QED BY <2>1 DEF Holds
<1>5. ASSUME NEW i \in DOMAIN r, r[i] = k
      PROVE  Holds(q, k)
  <2>1. i + Len(s) \in 1 .. Len(s) + Len(r) /\ ~(i + Len(s) <= Len(s)) /\ (i + Len(s)) - Len(s) = i
    BY <1>2
  <2>2. i + Len(s) \in DOMAIN q /\ q[i + Len(s)] = k
    BY <1>1, <1>2, <1>5, <2>1 DEF q
  <2> QED BY <2>2 DEF Holds
<1> QED BY <1>3, <1>4, <1>5 DEF Holds, q

\* The last message with a board has b; while there is none, v is b.
Shows(m, v, b) ==
    \/ (\A i \in DOMAIN m : m[i].kind # "board") /\ v = b
    \/ \E i \in DOMAIN m : /\ m[i].kind = "board" /\ m[i].board = b
                           /\ \A j \in DOMAIN m : j > i => m[j].kind # "board"

LEMMA ShowsFacts ==
    ASSUME NEW m \in Seq(Message), NEW x \in Message, NEW v, NEW b
    PROVE  /\ Shows(m, v, b) /\ x.kind # "board" => Shows(Append(m, x), v, b)
           /\ x.kind = "board" => Shows(Append(m, x), v, x.board)
           /\ m # << >> /\ Shows(m, v, b) /\ Head(m).kind # "board" => Shows(Tail(m), v, b)
           /\ m # << >> /\ Shows(m, v, b) /\ Head(m).kind = "board"
                 => Shows(Tail(m), Head(m).board, b)
<1> DEFINE n == Append(m, x)
           last == Len(m) + 1
<1>1. /\ \A i \in DOMAIN m : i \in DOMAIN n /\ n[i] = m[i] /\ i < last
      /\ \A i \in DOMAIN n : i \in DOMAIN m \/ i = last
      /\ last \in DOMAIN n /\ n[last] = x /\ last \in Nat
      /\ DOMAIN m \subseteq Nat
  BY QueueEnds
<1>2. m # << >> => /\ Head(m) = m[1] /\ 1 \in DOMAIN m
                   /\ \A i \in DOMAIN Tail(m) : /\ i \in Nat /\ i + 1 \in DOMAIN m
                                                /\ Tail(m)[i] = m[i + 1]
                   /\ \A i \in DOMAIN m : i # 1 => /\ i - 1 \in DOMAIN Tail(m)
                                                   /\ Tail(m)[i - 1] = m[i]
  BY QueueEnds
<1> HIDE DEF n, last
<1>3. ASSUME Shows(m, v, b), x.kind # "board"
      PROVE  Shows(n, v, b)
  <2>1. CASE (\A i \in DOMAIN m : m[i].kind # "board") /\ v = b
    BY <1>1, <1>3, <2>1 DEF Shows
  <2>2. CASE \E i \in DOMAIN m : /\ m[i].kind = "board" /\ m[i].board = b
                                 /\ \A j \in DOMAIN m : j > i => m[j].kind # "board"
    <3>1. PICK i \in DOMAIN m : /\ m[i].kind = "board" /\ m[i].board = b
                                /\ \A j \in DOMAIN m : j > i => m[j].kind # "board"
      BY <2>2
    <3>2. \A j \in DOMAIN n : j > i => n[j].kind # "board"
      BY <1>1, <1>3, <3>1
    <3> QED BY <1>1, <3>1, <3>2 DEF Shows
  <2> QED BY <1>3, <2>1, <2>2 DEF Shows
<1>4. ASSUME x.kind = "board"
      PROVE  Shows(n, v, x.board)
  <2>1. \A j \in DOMAIN n : j > last => n[j].kind # "board"
    BY <1>1
  <2> QED BY <1>1, <1>4, <2>1 DEF Shows
<1>5. ASSUME m # << >>, Shows(m, v, b), Head(m).kind # "board"
      PROVE  Shows(Tail(m), v, b)
  <2>1. CASE (\A i \in DOMAIN m : m[i].kind # "board") /\ v = b
    BY <1>2, <1>5, <2>1 DEF Shows
  <2>2. CASE \E i \in DOMAIN m : /\ m[i].kind = "board" /\ m[i].board = b
                                 /\ \A j \in DOMAIN m : j > i => m[j].kind # "board"
    <3>1. PICK i \in DOMAIN m : /\ m[i].kind = "board" /\ m[i].board = b
                                /\ \A j \in DOMAIN m : j > i => m[j].kind # "board"
      BY <2>2
    <3>2. i # 1 /\ i \in Nat
      BY <1>1, <1>2, <1>5, <3>1
    <3>3. i - 1 \in DOMAIN Tail(m) /\ Tail(m)[i - 1] = m[i]
      BY <1>2, <1>5, <3>1, <3>2
    <3>4. \A j \in DOMAIN Tail(m) : j > i - 1 => Tail(m)[j].kind # "board"
      BY <1>2, <1>5, <3>1, <3>2
    <3> QED BY <3>1, <3>3, <3>4 DEF Shows
  <2> QED BY <1>5, <2>1, <2>2 DEF Shows
<1>6. ASSUME m # << >>, Shows(m, v, b), Head(m).kind = "board"
      PROVE  Shows(Tail(m), Head(m).board, b)
  <2>1. PICK i \in DOMAIN m : /\ m[i].kind = "board" /\ m[i].board = b
                              /\ \A j \in DOMAIN m : j > i => m[j].kind # "board"
    BY <1>2, <1>6 DEF Shows
  <2>2. CASE i = 1
    <3>1. \A j \in DOMAIN Tail(m) : Tail(m)[j].kind # "board"
      <4>1. \A j \in DOMAIN Tail(m) : j \in Nat /\ j + 1 > 1 => m[j + 1].kind # "board"
        BY <1>2, <1>6, <2>1, <2>2
      <4>2. \A j \in DOMAIN Tail(m) : j >= 1
        BY <1>6
      <4> QED BY <1>2, <1>6, <4>1, <4>2
    <3>2. Head(m).board = b
      BY <1>2, <1>6, <2>1, <2>2
    <3> QED BY <3>1, <3>2 DEF Shows
  <2>3. CASE i # 1
    <3>1. i - 1 \in DOMAIN Tail(m) /\ Tail(m)[i - 1] = m[i] /\ i \in Nat
      BY <1>1, <1>2, <1>6, <2>1, <2>3
    <3>2. \A j \in DOMAIN Tail(m) : j > i - 1 => Tail(m)[j].kind # "board"
      BY <1>2, <1>6, <2>1, <3>1
    <3> QED BY <2>1, <3>1, <3>2 DEF Shows
  <2> QED BY <2>2, <2>3
<1> QED BY <1>3, <1>4, <1>5, <1>6 DEF n

\* A review item is among the messages with no board behind it.
Reviewed(m) ==
    \E i \in DOMAIN m : /\ m[i].kind = "review"
                        /\ \A j \in DOMAIN m : j > i => m[j].kind # "board"

Boardless(m) == \A i \in DOMAIN m : m[i].kind # "board"

LEMMA ReviewedFacts ==
    ASSUME NEW m \in Seq(Message), NEW x \in Message
    PROVE  /\ Reviewed(m) /\ x.kind # "board" => Reviewed(Append(m, x))
           /\ x.kind = "review" => Reviewed(Append(m, x))
           /\ Boardless(m) /\ x.kind # "board" => Boardless(Append(m, x))
           /\ m # << >> /\ Reviewed(m) => Reviewed(Tail(m)) \/ (Head(m).kind = "review" /\ Boardless(Tail(m)))
           /\ m # << >> /\ Boardless(m) => Head(m).kind # "board" /\ Boardless(Tail(m))
<1> DEFINE n == Append(m, x)
           last == Len(m) + 1
<1>1. /\ \A i \in DOMAIN m : i \in DOMAIN n /\ n[i] = m[i] /\ i < last
      /\ \A i \in DOMAIN n : i \in DOMAIN m \/ i = last
      /\ last \in DOMAIN n /\ n[last] = x /\ last \in Nat
      /\ DOMAIN m \subseteq Nat
  BY QueueEnds
<1>2. m # << >> => /\ Head(m) = m[1] /\ 1 \in DOMAIN m
                   /\ \A i \in DOMAIN Tail(m) : /\ i \in Nat /\ i + 1 \in DOMAIN m
                                                /\ Tail(m)[i] = m[i + 1]
                   /\ \A i \in DOMAIN m : i # 1 => /\ i - 1 \in DOMAIN Tail(m)
                                                   /\ Tail(m)[i - 1] = m[i]
  BY QueueEnds
<1> HIDE DEF n, last
<1>3. ASSUME Reviewed(m), x.kind # "board"
      PROVE  Reviewed(n)
  <2>1. PICK i \in DOMAIN m : /\ m[i].kind = "review"
                              /\ \A j \in DOMAIN m : j > i => m[j].kind # "board"
    BY <1>3 DEF Reviewed
  <2>2. \A j \in DOMAIN n : j > i => n[j].kind # "board"
    BY <1>1, <1>3, <2>1
  <2> QED BY <1>1, <2>1, <2>2 DEF Reviewed
<1>4. ASSUME x.kind = "review"
      PROVE  Reviewed(n)
  <2>1. \A j \in DOMAIN n : j > last => n[j].kind # "board"
    BY <1>1
  <2> QED BY <1>1, <1>4, <2>1 DEF Reviewed
<1>5. Boardless(m) /\ x.kind # "board" => Boardless(n)
  BY <1>1 DEF Boardless
<1>6. ASSUME m # << >>, Reviewed(m)
      PROVE  Reviewed(Tail(m)) \/ (Head(m).kind = "review" /\ Boardless(Tail(m)))
  <2>1. PICK i \in DOMAIN m : /\ m[i].kind = "review"
                              /\ \A j \in DOMAIN m : j > i => m[j].kind # "board"
    BY <1>6 DEF Reviewed
  <2>2. CASE i = 1
    <3>1. \A j \in DOMAIN Tail(m) : j \in Nat /\ j + 1 > 1 => m[j + 1].kind # "board"
      BY <1>2, <1>6, <2>1, <2>2
    <3>2. \A j \in DOMAIN Tail(m) : j >= 1
      BY <1>6
    <3> QED BY <1>2, <1>6, <2>1, <2>2, <3>1, <3>2 DEF Boardless
  <2>3. CASE i # 1
    <3>1. i - 1 \in DOMAIN Tail(m) /\ Tail(m)[i - 1] = m[i] /\ i \in Nat
      BY <1>1, <1>2, <1>6, <2>1, <2>3
    <3>2. \A j \in DOMAIN Tail(m) : j > i - 1 => Tail(m)[j].kind # "board"
      BY <1>2, <1>6, <2>1, <3>1
    <3> QED BY <2>1, <3>1, <3>2 DEF Reviewed
  <2> QED BY <2>2, <2>3
<1>7. ASSUME m # << >>, Boardless(m)
      PROVE  Head(m).kind # "board" /\ Boardless(Tail(m))
  BY <1>2, <1>7 DEF Boardless
<1> QED BY <1>3, <1>4, <1>5, <1>6, <1>7 DEF n

-----------------------------------------------------------------------------
(* The board that is shown.                                                *)

Told(s) == \E i \in DOMAIN s : s[i].type = "changed"
Passed(m) == \E i \in DOMAIN m : m[i].kind = "event" /\ m[i].event.type = "changed"

\* A change is announced: its event is under way, or the request it leads to.
Awake == Told(stream) \/ Passed(msgs) \/ Holds(cmds, "board")

\* Nothing is under way on the first connection but what the client waits for.
InStep ==
    IF asked = "none" THEN sent = << >> /\ line = << >>
    ELSE \/ sent = <<asked>> /\ line = << >>
         \/ sent = << >> /\ Len(line) = 1 /\ line[1].kind = asked

\* A request, or a reply, is under way that the client waits for no longer; it
\* stays behind by as much until the connection is lost.
Behind == Len(sent) + Len(line) > IF asked = "none" THEN 0 ELSE 1

\* The board as it is will be shown, or is on its way, or is shown.
Due ==
    \/ Awake
    \/ asked = "board" /\ (line = << >> \/ line[1].board = board)
    \/ asked # "board" /\ Shows(msgs, view.board, board)

ShownInv == Behind \/ (InStep /\ (fresh => Due))

LEMMA ToldFacts ==
    ASSUME NEW s \in Seq(Happening), NEW e \in Happening
    PROVE  /\ Told(Append(s, e)) <=> Told(s) \/ e.type = "changed"
           /\ s # << >> /\ Told(s) => Head(s).type = "changed" \/ Told(Tail(s))
<1>1. Told(Append(s, e)) <=> Told(s) \/ e.type = "changed"
  BY QueueEnds DEF Told
<1>2. ASSUME s # << >>, NEW i \in DOMAIN s, s[i].type = "changed"
      PROVE  Head(s).type = "changed" \/ Told(Tail(s))
  <2>1. CASE i = 1
    BY <1>2, <2>1, QueueEnds
  <2>2. CASE i # 1
    <3>1. i - 1 \in DOMAIN Tail(s) /\ Tail(s)[i - 1] = s[i]
      BY <1>2, <2>2, QueueEnds
    <3> QED BY <1>2, <3>1 DEF Told
  <2> QED BY <2>1, <2>2
<1> QED BY <1>1, <1>2 DEF Told

LEMMA PassedFacts ==
    ASSUME NEW m \in Seq(Message), NEW x \in Message
    PROVE  /\ Passed(m) => Passed(Append(m, x))
           /\ x.kind = "event" /\ x.event.type = "changed" => Passed(Append(m, x))
           /\ m # << >> /\ Passed(m) =>
                 \/ Head(m).kind = "event" /\ Head(m).event.type = "changed"
                 \/ Passed(Tail(m))
<1>1. /\ Passed(m) => Passed(Append(m, x))
      /\ x.kind = "event" /\ x.event.type = "changed" => Passed(Append(m, x))
  BY QueueEnds DEF Passed
<1>2. ASSUME m # << >>, NEW i \in DOMAIN m, m[i].kind = "event", m[i].event.type = "changed"
      PROVE  \/ Head(m).kind = "event" /\ Head(m).event.type = "changed"
             \/ Passed(Tail(m))
  <2>1. CASE i = 1
    BY <1>2, <2>1, QueueEnds
  <2>2. CASE i # 1
    <3>1. i - 1 \in DOMAIN Tail(m) /\ Tail(m)[i - 1] = m[i]
      BY <1>2, <2>2, QueueEnds
    <3> QED BY <1>2, <3>1 DEF Passed
  <2> QED BY <2>1, <2>2
<1> QED BY <1>1, <1>2 DEF Passed

\* What an event does to an announcement: the one that is lost to lag makes the
\* terminal out of date, and no other is.
LEMMA EmitTells ==
    ASSUME LineShape, AppShape, NEW e \in Happening, Emit(e), fresh'
    PROVE  Told(stream') \/ (fresh /\ (Told(stream) => Told(stream')))
<1>1. stream \in Seq(Happening)
  BY DEF LineShape
<1>2. CASE hears # "yes"
  BY <1>2, EmitFacts
<1>3. CASE hears = "yes" /\ stream' = Append(stream, e) /\ (e.type # "changed" => fresh' = fresh)
  BY <1>1, <1>3, ToldFacts
<1>4. CASE /\ stream # << >> /\ stream' = Append(Tail(stream), e)
           /\ e.type # "changed" => fresh' = (fresh /\ Head(stream).type # "changed")
  <2>1. Tail(stream) \in Seq(Happening)
    BY <1>1, <1>4, QueueEnds
  <2>2. Told(Tail(stream)) \/ e.type = "changed" => Told(stream')
    BY <1>4, <2>1, ToldFacts
  <2>3. Told(stream) => Head(stream).type = "changed" \/ Told(Tail(stream))
    BY <1>1, <1>4, ToldFacts
  <2> QED BY <1>4, <2>2, <2>3
<1> QED BY <1>2, <1>3, <1>4, EmitFacts

\* The dispatcher: what changes the board puts the terminal out of date, what
\* emits an event leaves the board alone.
LEMMA DispatcherShows ==
    ASSUME Shape, ShownInv, DispatcherStep
    PROVE  ShownInv'
<1>0. DispatcherShape /\ LineShape /\ AppShape /\ Spent
  BY DEF Shape
<1>1. ASSUME fresh' = FALSE, UNCHANGED <<sent, line, asked>>
      PROVE  ShownInv'
  BY <1>1 DEF ShownInv, Behind, InStep
<1>2. ASSUME NEW e \in Happening, Emit(e),
             UNCHANGED <<board, sent, line, asked, cmds, view, msgs>>
      PROVE  ShownInv'
  <2>1. (Behind => Behind') /\ (InStep => InStep')
    BY <1>2 DEF Behind, InStep
  <2>2. fresh' => Told(stream') \/ (fresh /\ (Told(stream) => Told(stream')))
    BY <1>0, <1>2, EmitTells
  <2>3. ASSUME InStep, fresh => Due, fresh'
        PROVE  Due'
    BY <1>2, <2>2, <2>3 DEF Due, Awake
  <2> QED BY <2>1, <2>3 DEF ShownInv
<1>3. ASSUME UNCHANGED <<board, sent, line, asked, stream, cmds, view, msgs, fresh>>
      PROVE  ShownInv'
  BY <1>3 DEF ShownInv, Behind, InStep, Due, Awake
<1>4. ASSUME NEW t \in Task, AdvanceTask(t) \/ Approve(t) \/ Reject(t) \/ Create(t) \/ Prioritize(t)
      PROVE  ShownInv'
  <2>1. fresh' = FALSE /\ UNCHANGED <<sent, line, asked>>
    BY <1>4 DEF AdvanceTask, Approve, Reject, Create, Prioritize, Change, lineVars
  <2> QED BY <1>1, <2>1
<1>5. ASSUME NEW t \in Task, AskHuman(t)
      PROVE  ShownInv'
  <2>1. Emit(Changed) /\ UNCHANGED <<board, sent, line, asked, cmds, view, msgs>>
    BY <1>5 DEF AskHuman, appVars
  <2> QED BY <1>2, <2>1, EventFacts
<1>6. ASSUME NEW call \in announcing, Announce(call)
      PROVE  ShownInv'
  <2>1. Emit(Changed) /\ UNCHANGED <<board, sent, line, asked, cmds, view, msgs>>
    BY <1>6 DEF Announce, appVars
  <2> QED BY <1>2, <2>1, EventFacts
<1>7. ASSUME NEW what \in arriving, Arrive(what)
      PROVE  ShownInv'
  BY <1>3, <1>7 DEF Arrive, lineVars, appVars
<1>8. ASSUME NEW i \in DOMAIN queue, Answer(i)
      PROVE  ShownInv'
  BY <1>3, <1>8 DEF Answer, lineVars, appVars
<1>9. ASSUME NEW p \in Switches, SwitchPanel(p)
      PROVE  ShownInv'
  <2> DEFINE e == [Changed EXCEPT !.type = "panel", !.panel = p]
  <2>1. e \in Happening
    BY Bounds, EventFacts
  <2>2. Emit(e) /\ UNCHANGED <<board, sent, line, asked, cmds, view, msgs>>
    BY <1>9 DEF SwitchPanel, daemonVars, appVars
  <2> HIDE DEF e
  <2> QED BY <1>2, <2>1, <2>2
<1>10. CASE OpenFork
  <2> DEFINE e == [Changed EXCEPT !.type = "forked", !.fork = used.forks + 1]
  <2>1. used.forks + 1 \in 1 .. MaxForks
    <3>1. used.forks \in Nat /\ used.forks < MaxForks
      BY <1>0, <1>10 DEF OpenFork, Spend, Spent
    <3> QED BY <3>1, Bounds
  <2>2. e \in Happening
    BY <2>1, EventFacts
  <2>3. Emit(e) /\ UNCHANGED <<board, sent, line, asked, cmds, view, msgs>>
    BY <1>10 DEF OpenFork, appVars
  <2> HIDE DEF e
  <2> QED BY <1>2, <2>2, <2>3
<1> QED BY <1>4, <1>5, <1>6, <1>7, <1>8, <1>9, <1>10 DEF DispatcherStep

LEMMA HandlersShow ==
    ASSUME Shape, ShownInv, Serve \/ ServeClose \/ Subscribe
    PROVE  ShownInv'
<1>0. DispatcherShape /\ LineShape /\ AppShape /\ Spent
  BY DEF Shape
<1>1. /\ sent \in Seq(Kind) /\ line \in Seq(Response) /\ stream \in Seq(Happening)
      /\ Len(sent) \in Nat /\ Len(line) \in Nat
  BY <1>0 DEF LineShape
<1>2. ASSUME NEW r \in Response, sent # << >>, sent' = Tail(sent), line' = Append(line, r),
             asked' = asked
      PROVE  /\ Behind => Behind'
             /\ InStep => /\ asked # "none" /\ Head(sent) = asked /\ line = << >>
                          /\ sent' = << >> /\ Len(line') = 1 /\ line'[1] = r
  <2>1. Len(sent') = Len(sent) - 1 /\ Len(line') = Len(line) + 1
    BY <1>1, <1>2
  <2>2. Behind => Behind'
    BY <1>1, <1>2, <2>1 DEF Behind
  <2>3. ASSUME InStep
        PROVE  /\ asked # "none" /\ Head(sent) = asked /\ line = << >>
               /\ sent' = << >> /\ Len(line') = 1 /\ line'[1] = r
    <3>1. asked # "none" /\ sent = <<asked>> /\ line = << >>
      BY <1>2, <2>3 DEF InStep
    <3>2. Head(sent) = asked /\ sent' = << >>
      BY <1>2, <3>1
    <3>3. Len(line') = 1 /\ line'[1] = r
      BY <1>1, <1>2, <3>1
    <3> QED BY <3>1, <3>2, <3>3
  <2> QED BY <2>2, <2>3
<1>3. CASE Serve
  <2> DEFINE k == Head(sent)
  <2>1. /\ sent # << >> /\ sent' = Tail(sent) /\ line' = Append(line, Reply(k))
        /\ fresh' = (fresh \/ k = "board")
        /\ UNCHANGED <<board, stream, asked, cmds, view, msgs>>
    BY <1>3 DEF Serve, daemonVars, appVars
  <2>2. k \in Kind
    BY <1>1, <2>1
  <2>3. Reply(k) \in Response /\ Reply(k).kind = k /\ (k = "board" => Reply(k).board = board)
    BY <1>0, <2>2, ReplyFacts
  <2>4. Behind => Behind'
    BY <1>2, <2>1, <2>3
  <2>5. ASSUME InStep, fresh => Due
        PROVE  InStep' /\ (fresh' => Due')
    <3>1. /\ asked # "none" /\ k = asked /\ line = << >>
          /\ sent' = << >> /\ Len(line') = 1 /\ line'[1] = Reply(k)
      BY <1>2, <2>1, <2>3, <2>5
    <3>2. InStep'
      BY <2>1, <2>3, <3>1 DEF InStep
    <3>3. CASE asked = "board"
      <4>1. k = "board" /\ asked' = "board" /\ board' = board
        BY <2>1, <3>1, <3>3
      <4>2. line'[1].board = board'
        BY <2>3, <3>1, <4>1
      <4> QED BY <3>2, <4>1, <4>2 DEF Due
    <3>4. CASE asked # "board"
      <4>1. k # "board" /\ fresh' = (fresh \/ k = "board")
        BY <2>1, <3>1, <3>4
      <4>2. fresh' => fresh
        BY <4>1, Zenon
      <4>3. Due => Due'
        BY <2>1, <3>1, <3>4 DEF Due, Awake
      <4> QED BY <2>5, <3>2, <4>2, <4>3
    <3> QED BY <3>2, <3>3, <3>4
  <2> QED BY <2>4, <2>5 DEF ShownInv
<1>4. CASE ServeClose
  <2>1. /\ sent # << >> /\ Head(sent) = "close" /\ sent' = Tail(sent)
        /\ line' = Append(line, Reply("close")) /\ asked' = asked
    BY <1>4 DEF ServeClose
  <2>2. Reply("close") \in Response
    BY <1>0, ReplyFacts DEF Kind
  <2>3. Behind => Behind'
    BY <1>2, <2>1, <2>2
  <2>4. ~InStep
    <3>1. asked # "close"
      BY <1>0 DEF LineShape, RequestKind
    <3> QED BY <1>2, <2>1, <2>2, <3>1
  <2> QED BY <2>3, <2>4 DEF ShownInv
<1>5. CASE Subscribe
  <2>1. UNCHANGED <<board, sent, line, asked, stream, cmds, view, msgs, fresh>>
    BY <1>5 DEF Subscribe, daemonVars, appVars
  <2> QED BY <2>1 DEF ShownInv, Behind, InStep, Due, Awake
<1> QED BY <1>3, <1>4, <1>5

\* The client: a board that is asked for will show the board as it is, and so
\* will the reply; nothing makes up for a line that was not read.
LEMMA ClientShows ==
    ASSUME Shape, ShownInv, ClientStep
    PROVE  ShownInv'
<1>0. DispatcherShape /\ LineShape /\ AppShape /\ Spent
  BY DEF Shape
<1>1. /\ sent \in Seq(Kind) /\ line \in Seq(Response) /\ stream \in Seq(Happening)
      /\ cmds \in Seq(Kind) /\ msgs \in Seq(Message) /\ asked \in RequestKind \cup {"none"}
      /\ Len(sent) \in Nat /\ Len(line) \in Nat
  BY <1>0 DEF LineShape, AppShape
<1>2. CASE Connect
  <2>1. UNCHANGED <<board, sent, line, asked, stream, cmds, view, msgs, fresh>>
    BY <1>2 DEF Connect, daemonVars, appVars
  <2> QED BY <2>1 DEF ShownInv, Behind, InStep, Due, Awake
<1>3. ASSUME NEW k \in RequestKind, asked = "none", Request(k),
             UNCHANGED <<board, line, stream, view, msgs, fresh>>,
             \A o : Holds(cmds, o) => Holds(cmds', o) \/ o = k
      PROVE  ShownInv'
  <2>1. k # "none" /\ asked' = k /\ sent' = Append(sent, k) /\ k \in Kind
    BY <1>3 DEF Request, RequestKind, Kind
  <2>2. Behind => Behind'
    <3>1. Len(sent') = Len(sent) + 1
      BY <1>1, <2>1
    <3> QED BY <1>1, <1>3, <2>1, <3>1 DEF Behind
  <2>3. ASSUME InStep, fresh => Due
        PROVE  InStep' /\ (fresh' => Due')
    <3>1. sent = << >> /\ line = << >>
      BY <1>3, <2>3 DEF InStep
    <3>2. sent' = <<k>>
      BY <2>1, <3>1
    <3>3. InStep'
      BY <1>3, <2>1, <3>1, <3>2 DEF InStep
    <3>4. Due => Due'
      <4>1. CASE k = "board"
        BY <1>3, <2>1, <3>1, <4>1 DEF Due
      <4>2. CASE k # "board"
        BY <1>3, <2>1, <4>2 DEF Due, Awake
      <4> QED BY <4>1, <4>2
    <3> QED BY <1>3, <2>3, <3>3, <3>4
  <2> QED BY <2>2, <2>3 DEF ShownInv
<1>4. CASE Begin
  <2>1. /\ asked = "none" /\ todo # << >>
        /\ UNCHANGED <<board, line, stream, cmds, view, msgs, fresh>>
        /\ \/ UNCHANGED <<asked, sent>>
           \/ Head(todo) # "subscribe" /\ Request(Head(todo))
    BY <1>4 DEF Begin, daemonVars, appVars
  <2>2. CASE UNCHANGED <<asked, sent>>
    BY <2>1, <2>2 DEF ShownInv, Behind, InStep, Due, Awake
  <2>3. CASE Head(todo) # "subscribe" /\ Request(Head(todo))
    <3>1. Head(todo) \in RequestKind
      BY <1>0, <2>1, <2>3 DEF LineShape
    <3> QED BY <1>3, <2>1, <2>3, <3>1
  <2> QED BY <2>1, <2>2, <2>3
<1>5. CASE Command
  <2>1. /\ asked = "none" /\ cmds # << >> /\ cmds' = Tail(cmds)
        /\ UNCHANGED <<board, line, stream, view, msgs, fresh>>
        /\ \/ Head(cmds) = "close" /\ sent' = Append(sent, "close") /\ UNCHANGED asked
           \/ Head(cmds) # "close" /\ Request(Head(cmds))
    BY <1>5 DEF Command, InLoop, daemonVars
  <2>2. CASE Head(cmds) = "close" /\ sent' = Append(sent, "close") /\ UNCHANGED asked
    <3>1. Len(sent') = Len(sent) + 1
      BY <1>1, <2>2 DEF Kind
    <3>2. Behind'
      BY <1>1, <2>1, <2>2, <3>1 DEF Behind
    <3> QED BY <3>2 DEF ShownInv
  <2>3. CASE Head(cmds) # "close" /\ Request(Head(cmds))
    <3>1. Head(cmds) \in RequestKind /\ Head(cmds) \in Kind
      BY <1>1, <2>1, <2>3 DEF Kind
    <3>2. \A o : Holds(cmds, o) => Holds(cmds', o) \/ o = Head(cmds)
      BY <1>1, <2>1, <3>1, HoldsFacts
    <3> QED BY <1>3, <2>1, <2>3, <3>1, <3>2
  <2> QED BY <2>1, <2>2, <2>3
<1>6. CASE Read
  <2> DEFINE r == Head(line)
  <2>1. /\ asked # "none" /\ line # << >> /\ line' = Tail(line) /\ asked' = "none"
        /\ r \in Response
        /\ UNCHANGED <<board, stream, sent, cmds, view, fresh>>
    BY <1>0, <1>6, ReadFacts DEF daemonVars, appVars
  <2>2. Behind => Behind'
    <3>1. Len(line') = Len(line) - 1 /\ Len(line) > 0
      BY <1>1, <2>1
    <3> QED BY <1>1, <2>1, <3>1 DEF Behind
  <2>3. ASSUME InStep, fresh => Due
        PROVE  InStep' /\ (fresh' => Due')
    <3>1. sent = << >> /\ Len(line) = 1 /\ line[1].kind = asked
      BY <2>1, <2>3 DEF InStep
    <3>2. line' = << >> /\ r = line[1]
      BY <1>1, <2>1, <3>1
    <3>3. InStep'
      BY <2>1, <3>1, <3>2 DEF InStep
    <3>4. CASE asked = "board"
      <4>1. msgs' = Append(msgs, r) /\ r.kind = "board"
        BY <1>0, <1>6, <3>1, <3>2, <3>4, ReadFacts
      <4>2. r \in Message
        BY <2>1, <4>1 DEF Message
      <4>3. Shows(msgs', view, r.board) /\ Shows(msgs', view.board, r.board)
        BY <1>1, <4>1, <4>2, ShowsFacts
      <4>4. Passed(msgs) => Passed(msgs')
        BY <1>1, <4>1, <4>2, PassedFacts
      <4> QED BY <2>1, <2>3, <3>2, <3>3, <3>4, <4>3, <4>4 DEF Due, Awake
    <3>5. CASE asked # "board"
      <4>1. msgs' = msgs \/ \E x \in Message : x.kind # "board" /\ msgs' = Append(msgs, x)
        <5>1. [r EXCEPT !.kind = "review"] \in Message /\ [r EXCEPT !.kind = "review"].kind = "review"
          BY <2>1 DEF Response, Message, Kind, RequestKind
        <5>2. r.kind = "count" => r \in Message
          BY <2>1 DEF Message
        <5> QED BY <1>0, <1>6, <3>5, <5>1, <5>2, ReadFacts
      <4>2. Passed(msgs) => Passed(msgs')
        BY <1>1, <4>1, PassedFacts
      <4>3. Shows(msgs, view.board, board) => Shows(msgs', view.board, board)
        BY <1>1, <4>1, ShowsFacts
      <4> QED BY <2>1, <2>3, <3>3, <3>5, <4>2, <4>3 DEF Due, Awake
    <3> QED BY <3>4, <3>5
  <2> QED BY <2>2, <2>3 DEF ShownInv
<1>7. CASE Hear
  <2> DEFINE x == [kind |-> "event", event |-> Head(stream)]
  <2>1. /\ stream # << >> /\ stream' = Tail(stream) /\ msgs' = Append(msgs, x)
        /\ UNCHANGED <<board, sent, line, asked, cmds, view, fresh>>
    BY <1>7 DEF Hear, Tell, daemonVars, appVars
  <2>2. Head(stream) \in Happening
    BY <1>1, <2>1
  <2>3. x \in Message /\ x.kind = "event" /\ x.event = Head(stream)
    BY <2>2 DEF Message, Notice
  <2> HIDE DEF x
  <2>4. Shows(msgs, view.board, board) => Shows(msgs', view.board, board)
    BY <1>1, <2>1, <2>3, ShowsFacts
  <2>5. Passed(msgs) => Passed(msgs')
    BY <1>1, <2>1, <2>3, PassedFacts
  <2>6. Told(stream) => Told(stream') \/ Passed(msgs')
    <3>1. Told(stream) => Head(stream).type = "changed" \/ Told(Tail(stream))
      BY <1>1, <2>1, <2>2, ToldFacts
    <3> QED BY <1>1, <2>1, <2>3, <3>1, PassedFacts
  <2>7. Due => Due'
    BY <2>1, <2>4, <2>5, <2>6 DEF Due, Awake
  <2> QED BY <2>1, <2>7 DEF ShownInv, Behind, InStep
<1>8. CASE Disconnect
  <2>1. asked' = "none" /\ sent' = << >> /\ line' = << >> /\ fresh' = FALSE
    BY <1>8 DEF Disconnect
  <2> QED BY <2>1 DEF ShownInv, InStep
<1> QED BY <1>2, <1>4, <1>5, <1>6, <1>7, <1>8 DEF ClientStep

LEMMA AppShows ==
    ASSUME Shape, ShownInv, AppStep
    PROVE  ShownInv'
<1>0. AppShape
  BY DEF Shape
<1>1. cmds \in Seq(Kind) /\ msgs \in Seq(Message) /\ view \in Showing
  BY <1>0 DEF AppShape
<1>2. ASSUME UNCHANGED <<board, sent, line, asked, stream, msgs, fresh>>,
             view'.board = view.board, Holds(cmds, "board") => Holds(cmds', "board")
      PROVE  ShownInv'
  BY <1>2 DEF ShownInv, Behind, InStep, Due, Awake
<1>3. CASE Key
  <2>1. /\ view' \in {MoveUp(view), MoveDown(view), MoveLeft(view), MoveRight(view),
                      PrevPanel(view), NextPanel(view), Open(view)}
        /\ UNCHANGED <<board, sent, line, asked, stream, msgs, fresh, cmds>>
    BY <1>3 DEF Key, daemonVars, lineVars
  <2>2. view'.board = view.board
    BY <1>1, <2>1, KeyFacts
  <2> QED BY <1>2, <2>1, <2>2
<1>4. CASE Esc
  <2>1. /\ cmds' = Append(cmds, "close")
        /\ UNCHANGED <<board, sent, line, asked, stream, msgs, fresh, view>>
    BY <1>4 DEF Esc, daemonVars, lineVars
  <2>2. Holds(cmds, "board") => Holds(cmds', "board")
    BY <1>1, <2>1, HoldsFacts DEF Kind
  <2> QED BY <1>2, <2>1, <2>2
<1>5. CASE Apply
  <2> DEFINE x == Head(msgs)
  <2>1. /\ msgs # << >> /\ msgs' = Tail(msgs) /\ x \in Message
        /\ UNCHANGED <<board, sent, line, asked, stream, fresh>>
    BY <1>0, <1>5, ApplyFacts DEF daemonVars, lineVars
  <2>2. /\ Passed(msgs) => (x.kind = "event" /\ x.event.type = "changed") \/ Passed(msgs')
        /\ Shows(msgs, view.board, board) /\ x.kind # "board" => Shows(msgs', view.board, board)
        /\ Shows(msgs, view.board, board) /\ x.kind = "board" => Shows(msgs', x.board, board)
    BY <1>1, <2>1, PassedFacts, ShowsFacts
  <2>3. CASE x.kind = "board"
    <3>1. x \in Response /\ view' = ApplySnapshot(view, x.board) /\ UNCHANGED cmds
      BY <1>0, <1>5, <2>3, ApplyFacts
    <3>2. view'.board = x.board
      BY <1>1, <3>1, SnapshotFacts DEF Response
    <3>3. Due => Due'
      BY <2>1, <2>2, <2>3, <3>1, <3>2 DEF Due, Awake
    <3> QED BY <2>1, <3>3 DEF ShownInv, Behind, InStep
  <2>4. CASE x.kind = "review"
    <3>1. x \in Response /\ view' = ApplyReview(view, x.review) /\ UNCHANGED cmds
      BY <1>0, <1>5, <2>4, ApplyFacts
    <3>2. view'.board = view.board
      BY <1>1, <3>1, ReviewFacts DEF Response
    <3>3. Due => Due'
      BY <2>1, <2>2, <2>4, <3>1, <3>2 DEF Due, Awake
    <3> QED BY <2>1, <3>3 DEF ShownInv, Behind, InStep
  <2>5. CASE x.kind = "count"
    <3>1. UNCHANGED <<cmds, view>>
      BY <1>0, <1>5, <2>5, ApplyFacts
    <3>2. Due => Due'
      BY <2>1, <2>2, <2>5, <3>1 DEF Due, Awake
    <3> QED BY <2>1, <3>2 DEF ShownInv, Behind, InStep
  <2>6. CASE x.kind = "event"
    <3>1. /\ cmds' = IF x.event.type = "changed" THEN cmds \o Refreshes ELSE cmds
          /\ view' = IF x.event.type = "panel" THEN [view EXCEPT !.panel = x.event.panel] ELSE view
      BY <1>0, <1>5, <2>6, ApplyFacts
    <3>2. view'.board = view.board
      BY <1>1, <3>1 DEF Showing, View
    <3>3. /\ x.event.type = "changed" => Holds(cmds', "board")
          /\ Holds(cmds, "board") => Holds(cmds', "board")
      <4>1. Holds(Refreshes, "board")
        BY RefreshFacts DEF Holds
      <4> QED BY <1>1, <3>1, <4>1, RefreshFacts, HoldsBoth
    <3>4. Due => Due'
      BY <2>1, <2>2, <2>6, <3>2, <3>3 DEF Due, Awake
    <3> QED BY <2>1, <3>4 DEF ShownInv, Behind, InStep
  <2> QED BY <1>0, <1>5, <2>3, <2>4, <2>5, <2>6, ApplyFacts
<1> QED BY <1>3, <1>4, <1>5 DEF AppStep

\* When nothing is under way and the subscriber was told of the last change, or
\* answered after it, the terminal shows the board as it is: whatever is lost
\* to lag, read out of turn or cut off, for any size of the bus and any number
\* of changes, connections and keys.
THEOREM BoardIsShown == TerminalSpec => []BoardShown
<1>1. Init => ShownInv
  BY DEF Init, Opening, ShownInv, InStep
<1>2. Shape /\ ShownInv /\ [Next]_termVars => ShownInv'
  <2> SUFFICES ASSUME Shape, ShownInv, [Next]_termVars PROVE ShownInv'
    OBVIOUS
  <2>1. CASE UNCHANGED termVars
    BY <2>1 DEF ShownInv, Behind, InStep, Due, Awake, termVars, daemonVars, lineVars, appVars
  <2> QED BY <2>1, DispatcherShows, HandlersShow, ClientShows, AppShows DEF Next
<1>3. Shape /\ ShownInv => BoardShown
  <2> SUFFICES ASSUME Shape, ShownInv, AtRest, fresh PROVE view.board = board
    BY DEF BoardShown
  <2>1. /\ asked = "none" /\ sent = << >> /\ line = << >>
        /\ stream = << >> /\ cmds = << >> /\ msgs = << >>
    BY DEF AtRest, InLoop
  <2>2. ~Behind
    BY <2>1 DEF Behind
  <2>3. ~Awake
    BY <2>1 DEF Awake, Told, Passed, Holds
  <2>4. Shows(msgs, view.board, board)
    BY <2>1, <2>2, <2>3 DEF ShownInv, Due
  <2> QED BY <2>1, <2>4 DEF Shows
<1> QED BY <1>1, <1>2, <1>3, ShapeAlways, PTL DEF TerminalSpec

-----------------------------------------------------------------------------
(* The task under the cursor.                                              *)

\* A board that is asked for is followed by a review.
Followed(s) == \A i \in DOMAIN s : s[i] = "board" => \E j \in DOMAIN s : j > i /\ s[j] = "review"

Waiting == Holds(cmds, "review") \/ Holds(todo, "review")

\* A review is asked for, or behind every board that is to come.
ReviewDue == Waiting \/ asked = "review" \/ Reviewed(msgs)

SelectedInv ==
    /\ Followed(cmds) /\ Followed(todo)
    /\ hears = "down" => todo = << >>
    /\ asked = "board" => Waiting
    /\ hears # "down" => ReviewDue \/ (Boardless(msgs) /\ (aimed => Aligned(view)))

LEMMA FollowedFacts ==
    ASSUME NEW S, NEW s \in Seq(S), NEW e \in S
    PROVE  /\ Followed(s) /\ e # "board" => Followed(Append(s, e))
           /\ s # << >> /\ Followed(s) =>
                 /\ Followed(Tail(s))
                 /\ Head(s) = "board" => Holds(Tail(s), "review")
<1>1. ASSUME Followed(s), e # "board"
      PROVE  Followed(Append(s, e))
  <2> SUFFICES ASSUME NEW i \in DOMAIN Append(s, e), Append(s, e)[i] = "board"
               PROVE  \E j \in DOMAIN Append(s, e) : j > i /\ Append(s, e)[j] = "review"
    BY DEF Followed
  <2>1. i \in DOMAIN s /\ s[i] = "board"
    BY <1>1, QueueEnds
  <2>2. PICK j \in DOMAIN s : j > i /\ s[j] = "review"
    BY <1>1, <2>1 DEF Followed
  <2>3. j \in DOMAIN Append(s, e) /\ Append(s, e)[j] = s[j]
    BY <2>2, QueueEnds
  <2> QED BY <2>2, <2>3
<1>2. ASSUME s # << >>, Followed(s)
      PROVE  Followed(Tail(s)) /\ (Head(s) = "board" => Holds(Tail(s), "review"))
  <2>1. /\ Head(s) = s[1] /\ 1 \in DOMAIN s /\ DOMAIN s = 1 .. Len(s) /\ Len(s) \in Nat
        /\ \A i \in DOMAIN Tail(s) : i \in Nat /\ i + 1 \in DOMAIN s /\ Tail(s)[i] = s[i + 1]
        /\ \A i \in DOMAIN s : i # 1 => i - 1 \in DOMAIN Tail(s) /\ Tail(s)[i - 1] = s[i]
    BY <1>2, QueueEnds
  <2>2. ASSUME NEW i \in DOMAIN s, s[i] = "board"
        PROVE  \E j \in DOMAIN Tail(s) : j > i - 1 /\ Tail(s)[j] = "review"
    <3>1. PICK j \in DOMAIN s : j > i /\ s[j] = "review"
      BY <1>2, <2>2 DEF Followed
    <3>2. i \in 1 .. Len(s) /\ j \in 1 .. Len(s) /\ j # 1 /\ j - 1 > i - 1
      BY <2>1, <2>2, <3>1
    <3>3. j - 1 \in DOMAIN Tail(s) /\ Tail(s)[j - 1] = "review"
      BY <2>1, <3>1, <3>2
    <3> QED BY <3>2, <3>3
  <2>3. ASSUME NEW i \in DOMAIN Tail(s), Tail(s)[i] = "board"
        PROVE  \E j \in DOMAIN Tail(s) : j > i /\ Tail(s)[j] = "review"
    <3>1. i \in Nat /\ i + 1 \in DOMAIN s /\ s[i + 1] = "board" /\ (i + 1) - 1 = i
      BY <2>1, <2>3
    <3> DEFINE k == i + 1
    <3>2. \E j \in DOMAIN Tail(s) : j > k - 1 /\ Tail(s)[j] = "review"
      BY <2>2, <3>1
    <3> QED BY <3>1, <3>2
  <2>4. Head(s) = "board" => Holds(Tail(s), "review")
    BY <2>1, <2>2 DEF Holds
  <2> QED BY <2>3, <2>4 DEF Followed
<1> QED BY <1>1, <1>2

LEMMA FollowedBoth ==
    ASSUME NEW S, NEW s \in Seq(S), NEW r \in Seq(S), Followed(s), Followed(r)
    PROVE  Followed(s \o r)
<1>1. /\ s \o r \in Seq(S) /\ Len(s \o r) = Len(s) + Len(r)
      /\ \A i \in 1 .. Len(s) + Len(r) : (s \o r)[i] = IF i <= Len(s) THEN s[i] ELSE r[i - Len(s)]
  BY ConcatProperties, Zenon
<1>2. /\ Len(s) \in Nat /\ Len(r) \in Nat /\ DOMAIN s = 1 .. Len(s) /\ DOMAIN r = 1 .. Len(r)
      /\ DOMAIN (s \o r) = 1 .. Len(s) + Len(r)
  BY <1>1
<1> DEFINE q == s \o r
<1> HIDE DEF q
<1> SUFFICES ASSUME NEW i \in DOMAIN q, q[i] = "board"
             PROVE  \E j \in DOMAIN q : j > i /\ q[j] = "review"
  BY DEF Followed, q
<1>3. CASE i <= Len(s)
  <2>1. i \in DOMAIN s /\ s[i] = "board"
    BY <1>1, <1>2, <1>3 DEF q
  <2>2. PICK j \in DOMAIN s : j > i /\ s[j] = "review"
    BY <2>1 DEF Followed
  <2>3. j \in DOMAIN q /\ q[j] = "review"
    BY <1>1, <1>2, <2>2 DEF q
  <2> QED BY <2>2, <2>3
<1>4. CASE ~(i <= Len(s))
  <2>1. i - Len(s) \in DOMAIN r /\ r[i - Len(s)] = "board" /\ i \in Nat
    BY <1>1, <1>2, <1>4 DEF q
  <2>2. PICK j \in DOMAIN r : j > i - Len(s) /\ r[j] = "review"
    BY <2>1 DEF Followed
  <2>3. /\ j + Len(s) \in 1 .. Len(s) + Len(r) /\ ~(j + Len(s) <= Len(s))
        /\ (j + Len(s)) - Len(s) = j /\ j + Len(s) > i
    BY <1>2, <2>1, <2>2
  <2>4. j + Len(s) \in DOMAIN q /\ q[j + Len(s)] = "review"
    BY <1>1, <1>2, <2>2, <2>3 DEF q
  <2> QED BY <2>3, <2>4
<1> QED BY <1>3, <1>4

\* Everyone but the client and the App leaves all of this alone.
LEMMA SelectionStays ==
    ASSUME SelectedInv, DispatcherStep \/ Serve \/ ServeClose \/ Subscribe
    PROVE  SelectedInv'
<1>1. UNCHANGED <<cmds, todo, asked, msgs, aimed, view>> /\ (hears' = "down" <=> hears = "down")
  <2>1. CASE Serve \/ ServeClose \/ Subscribe
    BY <2>1 DEF Serve, ServeClose, Subscribe, appVars
  <2>2. CASE DispatcherStep
    <3>1. UNCHANGED <<hears, todo, asked, appVars, msgs>>
      <4>1. ASSUME NEW t \in Task,
                   AdvanceTask(t) \/ Approve(t) \/ Reject(t) \/ Create(t) \/ Prioritize(t)
            PROVE  UNCHANGED <<hears, todo, asked, appVars, msgs>>
        BY <4>1 DEF AdvanceTask, Approve, Reject, Create, Prioritize, Change, lineVars
      <4>2. ASSUME NEW t \in Task, AskHuman(t)
            PROVE  UNCHANGED <<hears, todo, asked, appVars, msgs>>
        BY <4>2 DEF AskHuman
      <4>3. ASSUME NEW call \in announcing, Announce(call)
            PROVE  UNCHANGED <<hears, todo, asked, appVars, msgs>>
        BY <4>3 DEF Announce
      <4>4. ASSUME NEW what \in arriving, Arrive(what)
            PROVE  UNCHANGED <<hears, todo, asked, appVars, msgs>>
        BY <4>4 DEF Arrive, lineVars
      <4>5. ASSUME NEW i \in DOMAIN queue, Answer(i)
            PROVE  UNCHANGED <<hears, todo, asked, appVars, msgs>>
        BY <4>5 DEF Answer, lineVars
      <4>6. ASSUME NEW p \in Switches, SwitchPanel(p)
            PROVE  UNCHANGED <<hears, todo, asked, appVars, msgs>>
        BY <4>6 DEF SwitchPanel
      <4>7. CASE OpenFork
        BY <4>7 DEF OpenFork
      <4> QED BY <2>2, <4>1, <4>2, <4>3, <4>4, <4>5, <4>6, <4>7 DEF DispatcherStep
    <3> QED BY <3>1 DEF appVars
  <2> QED BY <2>1, <2>2
<1> QED BY <1>1 DEF SelectedInv, Waiting, ReviewDue, Aligned, Selected, TasksAtCursor

\* The client: what it takes from the App's commands it waits for, and what it
\* has read it passes on; a connection that is lost is made up for by the
\* requests of the next one.
LEMMA ClientSelects ==
    ASSUME Shape, SelectedInv, ClientStep
    PROVE  SelectedInv'
<1>0. LineShape /\ AppShape
  BY DEF Shape
<1>1. /\ cmds \in Seq(Kind) /\ todo \in Seq(RequestKind \cup {"subscribe"})
      /\ msgs \in Seq(Message) /\ stream \in Seq(Happening)
      /\ asked \in RequestKind \cup {"none"}
  BY <1>0 DEF LineShape, AppShape
<1>2. CASE Connect
  <2>1. /\ todo' = <<"board", "subscribe", "review", "epics", "count", "history">>
        /\ UNCHANGED <<cmds, asked>>
    BY <1>2 DEF Connect, appVars
  <2>2. Followed(todo') /\ Holds(todo', "review")
    <3> DEFINE s == <<"board", "subscribe", "review", "epics", "count", "history">>
    <3>1. /\ DOMAIN s = 1 .. 6 /\ s[1] = "board" /\ s[2] = "subscribe" /\ s[3] = "review"
          /\ s[4] = "epics" /\ s[5] = "count" /\ s[6] = "history"
      OBVIOUS
    <3> HIDE DEF s
    <3>2. 3 \in DOMAIN s /\ s[3] = "review"
      BY <3>1
    <3>3. \A i \in DOMAIN s : s[i] = "board" => i = 1
      BY <3>1
    <3>4. todo' = s
      BY <2>1 DEF s
    <3>5. Followed(s) /\ Holds(s, "review")
      BY <3>2, <3>3 DEF Followed, Holds
    <3> QED BY <3>4, <3>5
  <2>3. hears' # "down"
    BY <1>2 DEF Connect
  <2>4. Waiting'
    BY <2>2 DEF Waiting
  <2>5. Followed(cmds) => Followed(cmds')
    BY <2>1
  <2> QED BY <2>2, <2>3, <2>4, <2>5 DEF SelectedInv, ReviewDue
<1>3. CASE Begin
  <2> DEFINE k == Head(todo)
  <2>1. /\ asked = "none" /\ todo # << >> /\ todo' = Tail(todo)
        /\ UNCHANGED <<cmds, msgs, aimed, view>>
        /\ k # "subscribe" => asked' = k /\ hears' = hears
        /\ k = "subscribe" => asked' = asked
    BY <1>3 DEF Begin, Request, appVars
  <2>2. /\ Followed(todo) => Followed(todo') /\ (k = "board" => Holds(todo', "review"))
        /\ Holds(todo, "review") => k = "review" \/ Holds(todo', "review")
    <3>1. k \in RequestKind \cup {"subscribe"}
      BY <1>1, <2>1
    <3> QED BY <1>1, <2>1, <3>1, FollowedFacts, HoldsFacts
  <2>3. hears # "down"
    BY <2>1 DEF SelectedInv
  <2>4. hears' # "down"
    BY <1>3, <2>3 DEF Begin
  <2>5. ReviewDue => ReviewDue'
    BY <2>1, <2>2 DEF ReviewDue, Waiting
  <2>6. asked' = "board" => Waiting'
    BY <2>1, <2>2 DEF SelectedInv, Waiting
  <2>7. Aligned(view) => Aligned(view')
    BY <2>1 DEF Aligned, Selected, TasksAtCursor
  <2> QED BY <2>1, <2>2, <2>3, <2>4, <2>5, <2>6, <2>7 DEF SelectedInv
<1>4. CASE Command
  <2> DEFINE k == Head(cmds)
  <2>1. /\ hears' = hears /\ hears # "down" /\ todo = << >> /\ asked = "none"
        /\ cmds # << >> /\ cmds' = Tail(cmds)
        /\ UNCHANGED <<todo, msgs, aimed, view>>
        /\ k # "close" => asked' = k
        /\ k = "close" => asked' = asked
    BY <1>4 DEF Command, InLoop, Request
  <2>2. /\ Followed(cmds) => Followed(cmds') /\ (k = "board" => Holds(cmds', "review"))
        /\ Holds(cmds, "review") => k = "review" \/ Holds(cmds', "review")
    <3>1. k \in Kind
      BY <1>1, <2>1
    <3> QED BY <1>1, <2>1, <3>1, FollowedFacts, HoldsFacts
  <2>3. ReviewDue => ReviewDue'
    BY <2>1, <2>2 DEF ReviewDue, Waiting
  <2>4. asked' = "board" => Waiting'
    BY <2>1, <2>2 DEF SelectedInv, Waiting
  <2>5. Aligned(view) => Aligned(view')
    BY <2>1 DEF Aligned, Selected, TasksAtCursor
  <2> QED BY <2>1, <2>2, <2>3, <2>4, <2>5 DEF SelectedInv
<1>5. CASE Read
  <2> DEFINE r == Head(line)
  <2>1. /\ asked # "none" /\ asked' = "none" /\ r \in Response
        /\ UNCHANGED <<hears, cmds, todo, aimed, view>>
    BY <1>0, <1>5, ReadFacts DEF appVars
  <2>2. Waiting' <=> Waiting
    BY <2>1 DEF Waiting
  <2>3. Aligned(view) => Aligned(view')
    BY <2>1 DEF Aligned, Selected, TasksAtCursor
  <2>4. CASE asked = "board"
    BY <2>1, <2>2, <2>4 DEF SelectedInv, ReviewDue
  <2>5. CASE asked = "review"
    <3>1. msgs' = Append(msgs, [r EXCEPT !.kind = "review"])
      BY <1>0, <1>5, <2>5, ReadFacts
    <3>2. [r EXCEPT !.kind = "review"] \in Message /\ [r EXCEPT !.kind = "review"].kind = "review"
      BY <2>1 DEF Response, Message, Kind, RequestKind
    <3>3. Reviewed(msgs')
      BY <1>1, <3>1, <3>2, ReviewedFacts
    <3> QED BY <2>1, <2>2, <3>3 DEF SelectedInv, ReviewDue
  <2>6. CASE asked \notin {"board", "review"}
    <3>1. msgs' = msgs \/ \E x \in Message : x.kind # "board" /\ msgs' = Append(msgs, x)
      <4>1. r.kind = "count" => r \in Message
        BY <2>1 DEF Message
      <4> QED BY <1>0, <1>5, <2>6, <4>1, ReadFacts
    <3>2. (Reviewed(msgs) => Reviewed(msgs')) /\ (Boardless(msgs) => Boardless(msgs'))
      BY <1>1, <3>1, ReviewedFacts
    <3> QED BY <2>1, <2>2, <2>3, <2>6, <3>2 DEF SelectedInv, ReviewDue
  <2> QED BY <2>4, <2>5, <2>6
<1>6. CASE Hear
  <2> DEFINE x == [kind |-> "event", event |-> Head(stream)]
  <2>1. /\ stream # << >> /\ msgs' = Append(msgs, x)
        /\ UNCHANGED <<hears, cmds, todo, asked, aimed, view>>
    BY <1>6 DEF Hear, Tell, appVars
  <2>2. x \in Message /\ x.kind # "board"
    <3>1. Head(stream) \in Happening
      BY <1>1, <2>1
    <3> QED BY <3>1 DEF Message, Notice
  <2> HIDE DEF x
  <2>3. (Reviewed(msgs) => Reviewed(msgs')) /\ (Boardless(msgs) => Boardless(msgs'))
    BY <1>1, <2>1, <2>2, ReviewedFacts
  <2>4. Waiting' <=> Waiting
    BY <2>1 DEF Waiting
  <2>5. Aligned(view) => Aligned(view')
    BY <2>1 DEF Aligned, Selected, TasksAtCursor
  <2> QED BY <2>1, <2>3, <2>4, <2>5 DEF SelectedInv, ReviewDue
<1>7. CASE Disconnect
  <2>1. hears' = "down" /\ todo' = << >> /\ asked' = "none" /\ UNCHANGED cmds
    BY <1>7 DEF Disconnect, appVars
  <2>2. Followed(<< >>)
    BY DEF Followed
  <2> QED BY <2>1, <2>2 DEF SelectedInv
<1> QED BY <1>2, <1>3, <1>4, <1>5, <1>6, <1>7 DEF ClientStep

\* The App: a review item puts the cursor on its task, what comes after a board
\* will do so again, and a key that moves the cursor is what the human wanted.
LEMMA AppSelects ==
    ASSUME Shape, SelectedInv, AppStep
    PROVE  SelectedInv'
<1>0. AppShape
  BY DEF Shape
<1>1. cmds \in Seq(Kind) /\ msgs \in Seq(Message) /\ view \in Showing
  BY <1>0 DEF AppShape
<1>2. CASE Key
  <2>1. /\ view' \in {MoveUp(view), MoveDown(view), MoveLeft(view), MoveRight(view),
                      PrevPanel(view), NextPanel(view), Open(view)}
        /\ aimed' = (aimed /\ view'.col = view.col /\ view'.pos = view.pos)
        /\ UNCHANGED <<hears, todo, asked, msgs, cmds>>
    BY <1>2 DEF Key, lineVars
  <2>2. view'.board = view.board /\ view'.review = view.review
    BY <1>1, <2>1, KeyFacts
  <2>3. aimed' => aimed /\ view'.col = view.col /\ view'.pos = view.pos
    BY <2>1, Zenon
  <2>4. (aimed => Aligned(view)) => (aimed' => Aligned(view'))
    BY <2>2, <2>3, AlignedStays
  <2> QED BY <2>1, <2>4 DEF SelectedInv, ReviewDue, Waiting
<1>3. CASE Esc
  <2>1. /\ cmds' = Append(cmds, "close")
        /\ UNCHANGED <<hears, todo, asked, msgs, aimed, view>>
    BY <1>3 DEF Esc, lineVars
  <2>2. "close" \in Kind
    BY DEF Kind
  <2>3. Followed(cmds) => Followed(cmds')
    BY <1>1, <2>1, <2>2, FollowedFacts
  <2>4. Holds(cmds, "review") => Holds(cmds', "review")
    BY <1>1, <2>1, <2>2, HoldsFacts
  <2>5. Aligned(view) => Aligned(view')
    BY <2>1 DEF Aligned, Selected, TasksAtCursor
  <2> QED BY <2>1, <2>3, <2>4, <2>5 DEF SelectedInv, ReviewDue, Waiting
<1>4. CASE Apply
  <2> DEFINE x == Head(msgs)
  <2>1. /\ msgs # << >> /\ msgs' = Tail(msgs) /\ x \in Message
        /\ UNCHANGED <<hears, todo, asked>>
    BY <1>0, <1>4, ApplyFacts DEF lineVars
  <2>2. /\ Reviewed(msgs) => Reviewed(msgs') \/ (x.kind = "review" /\ Boardless(msgs'))
        /\ Boardless(msgs) => x.kind # "board" /\ Boardless(msgs')
    BY <1>1, <2>1, ReviewedFacts
  <2>3. ASSUME UNCHANGED cmds
        PROVE  (Waiting' <=> Waiting) /\ (Followed(cmds) => Followed(cmds'))
    BY <2>1, <2>3 DEF Waiting
  <2>4. CASE x.kind = "board"
    <3>1. UNCHANGED cmds
      BY <1>0, <1>4, <2>4, ApplyFacts
    <3>2. hears # "down" => ReviewDue'
      BY <2>1, <2>2, <2>3, <2>4, <3>1 DEF SelectedInv, ReviewDue
    <3> QED BY <2>1, <2>3, <3>1, <3>2 DEF SelectedInv
  <2>5. CASE x.kind = "review"
    <3>1. x \in Response /\ view' = ApplyReview(view, x.review) /\ UNCHANGED cmds
      BY <1>0, <1>4, <2>5, ApplyFacts
    <3>2. Aligned(view')
      BY <1>1, <3>1, ReviewFacts DEF Response
    <3>3. ReviewDue => ReviewDue' \/ Boardless(msgs')
      BY <2>1, <2>2, <2>3, <3>1 DEF ReviewDue
    <3> QED BY <2>1, <2>2, <2>3, <3>1, <3>2, <3>3 DEF SelectedInv
  <2>6. CASE x.kind = "count"
    <3>1. UNCHANGED <<cmds, view, aimed>>
      BY <1>0, <1>4, <2>6, ApplyFacts
    <3>2. Aligned(view) => Aligned(view')
      BY <3>1 DEF Aligned, Selected, TasksAtCursor
    <3>3. ReviewDue => ReviewDue'
      BY <2>1, <2>2, <2>3, <2>6, <3>1 DEF ReviewDue
    <3> QED BY <2>1, <2>2, <2>3, <3>1, <3>2, <3>3 DEF SelectedInv
  <2>7. CASE x.kind = "event"
    <3>1. /\ cmds' = IF x.event.type = "changed" THEN cmds \o Refreshes ELSE cmds
          /\ view' = IF x.event.type = "panel" THEN [view EXCEPT !.panel = x.event.panel] ELSE view
          /\ UNCHANGED aimed
      BY <1>0, <1>4, <2>7, ApplyFacts
    <3>2. /\ view'.board = view.board /\ view'.review = view.review
          /\ view'.col = view.col /\ view'.pos = view.pos
      BY <1>1, <3>1 DEF Showing, View
    <3>3. Aligned(view) => Aligned(view')
      BY <3>2, AlignedStays
    <3>4. /\ Followed(cmds) => Followed(cmds')
          /\ Holds(cmds, "review") => Holds(cmds', "review")
      <4>1. Followed(Refreshes)
        <5>1. \A i \in DOMAIN Refreshes : Refreshes[i] = "board" => i = 1
          BY RefreshFacts
        <5>2. 2 \in DOMAIN Refreshes /\ Refreshes[2] = "review"
          BY RefreshFacts
        <5> QED BY <5>1, <5>2 DEF Followed
      <4> QED BY <1>1, <3>1, <4>1, RefreshFacts, HoldsBoth, FollowedBoth
    <3>5. Waiting => Waiting'
      BY <2>1, <3>4 DEF Waiting
    <3>6. ReviewDue => ReviewDue'
      BY <2>1, <2>2, <2>7, <3>5 DEF ReviewDue
    <3> QED BY <2>1, <2>2, <3>1, <3>3, <3>4, <3>5, <3>6 DEF SelectedInv
  <2> QED BY <1>0, <1>4, <2>4, <2>5, <2>6, <2>7, ApplyFacts
<1> QED BY <1>2, <1>3, <1>4 DEF AppStep

\* When nothing is under way, the task under review has the cursor on it until
\* the human moves it, provided the tasks of its column are shown first (it is in
\* a buffer, or the buffer behind its column is empty): whatever boards come
\* between, overtake one another or are lost with the connection, for any board
\* and any number of changes, connections and keys.
THEOREM ReviewIsSelected == TerminalSpec => []ReviewSelected
<1>1. Init => SelectedInv
  BY DEF Init, Opening, SelectedInv, Followed
<1>2. Shape /\ SelectedInv /\ [Next]_termVars => SelectedInv'
  <2> SUFFICES ASSUME Shape, SelectedInv, [Next]_termVars PROVE SelectedInv'
    OBVIOUS
  <2>1. CASE UNCHANGED termVars
    BY <2>1 DEF SelectedInv, Waiting, ReviewDue, Aligned, Selected, TasksAtCursor,
                termVars, lineVars, appVars
  <2> QED BY <2>1, SelectionStays, ClientSelects, AppSelects DEF Next
<1>3. SelectedInv => ReviewSelected
  <2> SUFFICES ASSUME SelectedInv, AtRest, aimed PROVE Aligned(view)
    BY DEF ReviewSelected, Aligned
  <2>1. /\ hears # "down" /\ todo = << >> /\ asked = "none" /\ cmds = << >> /\ msgs = << >>
    BY DEF AtRest, InLoop
  <2>2. ~ReviewDue
    BY <2>1 DEF ReviewDue, Waiting, Reviewed, Holds
  <2> QED BY <2>1, <2>2 DEF SelectedInv
<1> QED BY <1>1, <1>2, <1>3, ShapeAlways, PTL DEF TerminalSpec
================================================================================
