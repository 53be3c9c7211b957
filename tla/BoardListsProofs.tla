---------------------------- MODULE BoardListsProofs ---------------------------
(***************************************************************************)
(* The stored lists implement the board that the other modules use, for    *)
(* any tasks, columns and priorities.                                      *)
(***************************************************************************)
EXTENDS BoardLists, BoardProofs

-----------------------------------------------------------------------------
(* Lists in an order.                                                      *)

\* R is a strict total order on I.
TotalOrder(R, I) ==
    /\ \A i \in I : <<i, i>> \notin R
    /\ \A i, j, k \in I : <<i, j>> \in R /\ <<j, k>> \in R => <<i, k>> \in R
    /\ \A i, j \in I : i # j => <<i, j>> \in R \/ <<j, i>> \in R

\* The places before a place.
Below(I, R, i) == {j \in I : <<j, i>> \in R}

\* In an enumeration in order every place has its own number, and of two places
\* the one that comes first has the smaller.
LEMMA EnumeratedFacts ==
    ASSUME NEW I, IsFiniteSet(I), NEW R, TotalOrder(R, I)
    PROVE  /\ Cardinality(I) \in Nat
           /\ Enumerated(I, R) \in [1 .. Cardinality(I) -> I]
           /\ \A i \in I : \E k \in 1 .. Cardinality(I) : Enumerated(I, R)[k] = i
           /\ \A k, l \in 1 .. Cardinality(I) :
                 k < l <=> <<Enumerated(I, R)[k], Enumerated(I, R)[l]>> \in R
<1> DEFINE n == Cardinality(I)
           Size(i) == Cardinality(Below(I, R, i))
           f == [i \in I |-> Size(i) + 1]
<1>1. n \in Nat
  BY FS_CardinalityType
<1>2. ASSUME NEW i \in I PROVE IsFiniteSet(Below(I, R, i)) /\ Size(i) \in Nat /\ Size(i) < n
  <2>1. Below(I, R, i) \subseteq I /\ i \notin Below(I, R, i)
    BY DEF Below, TotalOrder
  <2>2. IsFiniteSet(Below(I, R, i)) /\ Size(i) \in Nat /\ Size(i) <= n /\ Size(i) # n
    BY <2>1, FS_Subset, FS_CardinalityType
  <2> QED BY <1>1, <2>2
<1>3. ASSUME NEW i \in I, NEW j \in I, <<i, j>> \in R PROVE Size(i) < Size(j)
  <2>1. Below(I, R, i) \subseteq Below(I, R, j)
    BY <1>3 DEF Below, TotalOrder
  <2>2. i \in Below(I, R, j) /\ i \notin Below(I, R, i)
    BY <1>3 DEF Below, TotalOrder
  <2>3. Size(i) <= Size(j) /\ Size(i) # Size(j)
    BY <1>2, <2>1, <2>2, FS_Subset
  <2> QED BY <1>2, <2>3
<1>4. \A i, j \in I : <<i, j>> \in R <=> Size(i) < Size(j)
  <2> SUFFICES ASSUME NEW i \in I, NEW j \in I, Size(i) < Size(j) PROVE <<i, j>> \in R
    BY <1>3
  <2>1. i # j
    BY <1>2
  <2>2. <<j, i>> \notin R
    BY <1>2, <1>3
  <2> QED BY <2>1, <2>2 DEF TotalOrder
<1>5. \A i, j \in I : Size(i) = Size(j) => i = j
  <2> SUFFICES ASSUME NEW i \in I, NEW j \in I, Size(i) = Size(j), i # j PROVE FALSE
    OBVIOUS
  <2>1. <<i, j>> \in R \/ <<j, i>> \in R
    BY DEF TotalOrder
  <2> QED BY <1>2, <1>3, <2>1
<1>6. f \in Injection(I, 1 .. n)
  <2>1. \A i \in I : Size(i) \in Nat /\ Size(i) + 1 \in 1 .. n
    BY <1>1, <1>2
  <2> HIDE DEF Size
  <2>2. f \in [I -> 1 .. n] /\ \A i, j \in I : f[i] = f[j] => i = j
    BY <1>5, <2>1
  <2> QED BY <2>2 DEF Injection, IsInjective
<1>7. f \in Surjection(I, 1 .. n)
  <2>1. IsFiniteSet(1 .. n) /\ Cardinality(1 .. n) = n
    BY <1>1, FS_Interval
  <2> HIDE DEF f
  <2> QED BY <1>6, <2>1, FS_Injection
<1>8. ASSUME NEW k \in 1 .. n PROVE \E i \in I : Size(i) = k - 1
  <2>1. PICK i \in I : f[i] = k
    BY <1>7 DEF Surjection
  <2> QED BY <1>2, <2>1
<1>9. ASSUME NEW k \in 1 .. n PROVE Enumerated(I, R)[k] \in I /\ Size(Enumerated(I, R)[k]) = k - 1
  <2>1. Enumerated(I, R)[k] = CHOOSE i \in I : Size(i) = k - 1
    BY DEF Enumerated, Below
  <2> HIDE DEF Size
  <2> QED BY <1>8, <2>1
<1>10. Enumerated(I, R) \in [1 .. n -> I]
  BY <1>9 DEF Enumerated
<1>11. ASSUME NEW i \in I PROVE \E k \in 1 .. n : Enumerated(I, R)[k] = i
  <2>1. Size(i) + 1 \in 1 .. n /\ (Size(i) + 1) - 1 = Size(i)
    BY <1>1, <1>2
  <2>2. Enumerated(I, R)[Size(i) + 1] \in I /\ Size(Enumerated(I, R)[Size(i) + 1]) = Size(i)
    BY <1>9, <2>1
  <2> HIDE DEF Size
  <2> QED BY <1>5, <2>1, <2>2
<1>12. ASSUME NEW k \in 1 .. n, NEW l \in 1 .. n
       PROVE  k < l <=> <<Enumerated(I, R)[k], Enumerated(I, R)[l]>> \in R
  BY <1>1, <1>4, <1>9
<1> QED BY <1>1, <1>10, <1>11, <1>12

\* A list's places, finitely many, and what stands there.
LEMMA ListFacts ==
    ASSUME NEW S, NEW s \in Seq(S)
    PROVE  /\ Len(s) \in Nat /\ DOMAIN s = 1 .. Len(s) /\ s \in [1 .. Len(s) -> S]
           /\ IsFiniteSet(DOMAIN s)
           /\ Range(s) \subseteq S
           /\ \A x : Contains(s, x) <=> x \in Range(s)
<1>1. Len(s) \in Nat /\ DOMAIN s = 1 .. Len(s) /\ s \in [1 .. Len(s) -> S]
  BY LenProperties
<1>2. IsFiniteSet(1 .. Len(s))
  BY <1>1, FS_Interval
<1>3. \A x : Contains(s, x) <=> x \in Range(s)
  BY <1>1 DEF Contains, Range
<1> QED BY <1>1, <1>2, <1>3 DEF Range

\* Of two ids in a list one stands before the other if it has a lower place.
LEMMA BeforePairs ==
    ASSUME NEW s, NEW x, NEW y
    PROVE  <<x, y>> \in Before(s)
              <=> \E i, j \in DOMAIN s : i < j /\ s[i] = x /\ s[j] = y
<1>1. ASSUME <<x, y>> \in Before(s)
      PROVE  \E i, j \in DOMAIN s : i < j /\ s[i] = x /\ s[j] = y
  <2>1. PICK p \in LeftToRight(DOMAIN s) : <<x, y>> = <<s[p[1]], s[p[2]]>>
    BY <1>1 DEF Before
  <2>2. p[1] \in DOMAIN s /\ p[2] \in DOMAIN s /\ p[1] < p[2]
    BY <2>1 DEF LeftToRight
  <2>3. x = s[p[1]] /\ y = s[p[2]]
    BY <2>1
  <2> QED BY <2>2, <2>3
<1>2. ASSUME NEW i \in DOMAIN s, NEW j \in DOMAIN s, i < j
      PROVE  <<s[i], s[j]>> \in Before(s)
  <2> DEFINE p == <<i, j>>
  <2>1. p \in LeftToRight(DOMAIN s) /\ p[1] = i /\ p[2] = j
    BY <1>2 DEF LeftToRight
  <2> QED BY <2>1 DEF Before
<1> QED BY <1>1, <1>2

\* What stands before what is in the list.
LEMMA BeforeFacts ==
    ASSUME NEW s
    PROVE  /\ Before(s) \subseteq Range(s) \X Range(s)
           /\ \A x, y : <<x, y>> \in Before(s) => x \in Range(s) /\ y \in Range(s)
<1>1. \A p \in LeftToRight(DOMAIN s) : p[1] \in DOMAIN s /\ p[2] \in DOMAIN s
  BY DEF LeftToRight
<1>2. Before(s) \subseteq Range(s) \X Range(s)
  BY <1>1 DEF Before, Range
<1> QED BY <1>2

\* A list arranged in an order has the same ids, each as often as before, and
\* of two of them the one first whose place the order puts first.
LEMMA ArrangedFacts ==
    ASSUME NEW S, NEW s \in Seq(S), IsInjective(s),
           NEW I, I \subseteq DOMAIN s, NEW R, TotalOrder(R, I)
    PROVE  /\ Arranged(s, I, R) \in Seq(S)
           /\ IsInjective(Arranged(s, I, R))
           /\ Range(Arranged(s, I, R)) = {s[i] : i \in I}
           /\ \A i, j \in I : <<s[i], s[j]>> \in Before(Arranged(s, I, R)) <=> <<i, j>> \in R
<1> DEFINE a == Arranged(s, I, R)
           f == Enumerated(I, R)
           n == Cardinality(I)
<1>1. IsFiniteSet(I)
  BY ListFacts, FS_Subset
<1>2. /\ n \in Nat /\ f \in [1 .. n -> I]
      /\ \A i \in I : \E k \in 1 .. n : f[k] = i
      /\ \A k, l \in 1 .. n : k < l <=> <<f[k], f[l]>> \in R
  BY <1>1, EnumeratedFacts
<1> HIDE DEF f
<1>3. a = [k \in 1 .. n |-> s[f[k]]]
  BY DEF Arranged, f
<1>4. \A k \in 1 .. n : f[k] \in I /\ s[f[k]] \in S
  BY <1>2, ListFacts
<1> HIDE DEF n, a
<1>5. a \in [1 .. n -> S] /\ a \in Seq(S) /\ DOMAIN a = 1 .. n
  <2>1. a \in [1 .. n -> S]
    BY <1>3, <1>4
  <2> QED BY <1>2, <2>1, IsASeq
<1>6. \A k, l \in 1 .. n : a[k] = a[l] => k = l
  <2> SUFFICES ASSUME NEW k \in 1 .. n, NEW l \in 1 .. n, a[k] = a[l] PROVE k = l
    OBVIOUS
  <2>1. f[k] = f[l]
    BY <1>3, <1>4 DEF IsInjective
  <2>2. ~(k < l) /\ ~(l < k)
    BY <1>2, <1>4, <2>1 DEF TotalOrder
  <2> QED BY <1>2, <2>2
<1>7. Range(a) = {s[i] : i \in I}
  BY <1>2, <1>3, <1>5 DEF Range
<1>8. ASSUME NEW i \in I, NEW j \in I
      PROVE  <<s[i], s[j]>> \in Before(a) <=> <<i, j>> \in R
  <2>1. PICK k \in 1 .. n : f[k] = i
    BY <1>2
  <2>2. PICK l \in 1 .. n : f[l] = j
    BY <1>2
  <2>3. a[k] = s[i] /\ a[l] = s[j]
    BY <1>3, <2>1, <2>2
  <2>4. <<s[i], s[j]>> \in Before(a) <=> k < l
    <3>1. <<s[i], s[j]>> \in Before(a)
             <=> \E g, h \in DOMAIN a : g < h /\ a[g] = s[i] /\ a[h] = s[j]
      BY BeforePairs
    <3>2. ASSUME NEW g \in DOMAIN a, NEW h \in DOMAIN a, a[g] = s[i], a[h] = s[j]
          PROVE  g = k /\ h = l
      BY <1>5, <1>6, <2>3, <3>2
    <3> QED BY <1>5, <2>3, <3>1, <3>2
  <2> QED BY <1>2, <2>1, <2>2, <2>4
<1> QED BY <1>5, <1>6, <1>7, <1>8 DEF IsInjective, a

\* Left to right is an order.
LEMMA LeftToRightOrders ==
    ASSUME NEW I, I \subseteq Nat
    PROVE  /\ TotalOrder(LeftToRight(I), I)
           /\ \A i, j \in I : <<i, j>> \in LeftToRight(I) <=> i < j
<1>1. \A i, j \in I : <<i, j>> \in LeftToRight(I) <=> i < j
  <2> SUFFICES ASSUME NEW i \in I, NEW j \in I PROVE <<i, j>> \in LeftToRight(I) <=> i < j
    OBVIOUS
  <2> DEFINE p == <<i, j>>
  <2>1. p \in I \X I /\ p[1] = i /\ p[2] = j
    OBVIOUS
  <2>2. p \in LeftToRight(I) <=> p[1] < p[2]
    BY <2>1 DEF LeftToRight
  <2> QED BY <2>1, <2>2
<1>2. TotalOrder(LeftToRight(I), I)
  BY <1>1 DEF TotalOrder
<1> QED BY <1>1, <1>2

\* retain keeps the ids asked for, and the order of those it keeps.
LEMMA RetainedFacts ==
    ASSUME NEW S, NEW s \in Seq(S), IsInjective(s), NEW T
    PROVE  /\ Retained(s, T) \in Seq(S)
           /\ IsInjective(Retained(s, T))
           /\ Range(Retained(s, T)) = Range(s) \cap T
           /\ \A x, y : <<x, y>> \in Before(Retained(s, T))
                 <=> <<x, y>> \in Before(s) /\ x \in T /\ y \in T
<1> DEFINE I == {i \in DOMAIN s : s[i] \in T}
           R == LeftToRight(I)
           a == Arranged(s, I, R)
<1>1. a = Retained(s, T)
  BY DEF Retained
<1>2. I \subseteq DOMAIN s /\ I \subseteq Nat
  BY ListFacts
<1>3. TotalOrder(R, I) /\ \A i, j \in I : <<i, j>> \in R <=> i < j
  BY <1>2, LeftToRightOrders
<1> HIDE DEF R, a
<1>4. /\ a \in Seq(S) /\ IsInjective(a) /\ Range(a) = {s[i] : i \in I}
      /\ \A i, j \in I : <<s[i], s[j]>> \in Before(a) <=> <<i, j>> \in R
  <2> HIDE DEF I
  <2>1. /\ Arranged(s, I, R) \in Seq(S) /\ IsInjective(Arranged(s, I, R))
        /\ Range(Arranged(s, I, R)) = {s[i] : i \in I}
        /\ \A i, j \in I : <<s[i], s[j]>> \in Before(Arranged(s, I, R)) <=> <<i, j>> \in R
    BY <1>2, <1>3, ArrangedFacts, ZenonT(30)
  <2> QED BY <2>1 DEF a
<1>5. Range(a) = Range(s) \cap T
  BY <1>4 DEF Range
<1>6. ASSUME NEW x, NEW y
      PROVE  <<x, y>> \in Before(a) <=> <<x, y>> \in Before(s) /\ x \in T /\ y \in T
  <2>1. CASE x \in Range(s) \cap T /\ y \in Range(s) \cap T
    <3>1. PICK i \in I, j \in I : s[i] = x /\ s[j] = y
      BY <1>4, <1>5, <2>1
    <3>2. <<x, y>> \in Before(a) <=> i < j
      BY <1>3, <1>4, <3>1
    <3>3. <<x, y>> \in Before(s)
             <=> \E g, h \in DOMAIN s : g < h /\ s[g] = x /\ s[h] = y
      BY BeforePairs
    <3>4. ASSUME NEW g \in DOMAIN s, NEW h \in DOMAIN s, s[g] = x, s[h] = y
          PROVE  g = i /\ h = j
      BY <3>1, <3>4 DEF IsInjective
    <3> QED BY <2>1, <3>1, <3>2, <3>3, <3>4
  <2>2. CASE ~(x \in Range(s) \cap T /\ y \in Range(s) \cap T)
    BY <1>4, <1>5, <2>2, BeforeFacts
  <2> QED BY <2>1, <2>2
<1> QED BY <1>1, <1>4, <1>5, <1>6

\* sort_by_key orders by priority, and where that is the same leaves the order
\* there was.
LEMMA SortListFacts ==
    ASSUME NEW s \in Seq(Task), IsInjective(s),
           NEW m, \A t \in Task : m[t].priority \in Nat
    PROVE  /\ SortList(s, m) \in Seq(Task)
           /\ IsInjective(SortList(s, m))
           /\ Range(SortList(s, m)) = Range(s)
           /\ \A x, y : <<x, y>> \in Before(SortList(s, m))
                 <=> /\ x \in Range(s) /\ y \in Range(s) /\ x # y
                     /\ \/ m[x].priority < m[y].priority
                        \/ m[x].priority = m[y].priority /\ <<x, y>> \in Before(s)
<1> DEFINE D == DOMAIN s
           pr(i) == m[s[i]].priority
           R == Lower(s, m) \cup (Level(s, m) \cap LeftToRight(D))
           a == Arranged(s, D, R)
<1>1. a = SortList(s, m)
  BY DEF SortList
<1>2. D \subseteq Nat /\ \A i \in D : s[i] \in Task /\ pr(i) \in Nat
  BY ListFacts
<1>3. ASSUME NEW i \in D, NEW j \in D
      PROVE  <<i, j>> \in R <=> pr(i) < pr(j) \/ (pr(i) = pr(j) /\ i < j)
  <2> DEFINE p == <<i, j>>
  <2>1. p \in D \X D /\ p[1] = i /\ p[2] = j
    OBVIOUS
  <2>2. p \in LeftToRight(D) <=> i < j
    BY <1>2, LeftToRightOrders
  <2>3. /\ p \in Lower(s, m) <=> m[s[p[1]]].priority < m[s[p[2]]].priority
        /\ p \in Level(s, m) <=> m[s[p[1]]].priority = m[s[p[2]]].priority
    BY <2>1 DEF Lower, Level
  <2> QED BY <2>1, <2>2, <2>3
<1> HIDE DEF R
<1>4. TotalOrder(R, D)
  <2> HIDE DEF pr, D
  <2> QED BY <1>2, <1>3, SMTT(30) DEF TotalOrder
<1> HIDE DEF a
<1>5. /\ a \in Seq(Task) /\ IsInjective(a) /\ Range(a) = {s[i] : i \in D}
      /\ \A i, j \in D : <<s[i], s[j]>> \in Before(a) <=> <<i, j>> \in R
  <2>0. D \subseteq DOMAIN s
    OBVIOUS
  <2> HIDE DEF D
  <2>1. /\ Arranged(s, D, R) \in Seq(Task) /\ IsInjective(Arranged(s, D, R))
        /\ Range(Arranged(s, D, R)) = {s[i] : i \in D}
        /\ \A i, j \in D : <<s[i], s[j]>> \in Before(Arranged(s, D, R)) <=> <<i, j>> \in R
    BY <1>4, <2>0, ArrangedFacts, ZenonT(30)
  <2> QED BY <2>1 DEF a
<1>6. Range(a) = Range(s)
  BY <1>5 DEF Range
<1>7. ASSUME NEW x, NEW y
      PROVE  <<x, y>> \in Before(a)
                <=> /\ x \in Range(s) /\ y \in Range(s) /\ x # y
                    /\ \/ m[x].priority < m[y].priority
                       \/ m[x].priority = m[y].priority /\ <<x, y>> \in Before(s)
  <2>1. CASE x \in Range(s) /\ y \in Range(s)
    <3>1. PICK i \in D, j \in D : s[i] = x /\ s[j] = y
      BY <2>1 DEF Range
    <3>2. <<x, y>> \in Before(a) <=> pr(i) < pr(j) \/ (pr(i) = pr(j) /\ i < j)
      BY <1>3, <1>5, <3>1
    <3>3. <<x, y>> \in Before(s)
             <=> \E g, h \in DOMAIN s : g < h /\ s[g] = x /\ s[h] = y
      BY BeforePairs
    <3>4. ASSUME NEW g \in DOMAIN s, NEW h \in DOMAIN s, s[g] = x, s[h] = y
          PROVE  g = i /\ h = j
      BY <3>1, <3>4 DEF IsInjective
    <3>5. (<<x, y>> \in Before(s) <=> i < j) /\ (x = y <=> i = j)
      BY <3>1, <3>3, <3>4
    <3>6. pr(i) = m[x].priority /\ pr(j) = m[y].priority /\ pr(i) \in Nat /\ pr(j) \in Nat
      BY <1>2, <3>1
    <3> HIDE DEF pr
    <3> QED BY <1>2, <2>1, <3>2, <3>5, <3>6
  <2>2. CASE ~(x \in Range(s) /\ y \in Range(s))
    BY <1>6, <2>2, BeforeFacts
  <2> QED BY <2>1, <2>2
<1> QED BY <1>1, <1>5, <1>6, <1>7

\* push puts an id behind all others.
LEMMA AppendFacts ==
    ASSUME NEW s \in Seq(Task), IsInjective(s), NEW t \in Task, t \notin Range(s)
    PROVE  /\ Append(s, t) \in Seq(Task)
           /\ IsInjective(Append(s, t))
           /\ Range(Append(s, t)) = Range(s) \cup {t}
           /\ \A x, y : <<x, y>> \in Before(Append(s, t))
                 <=> <<x, y>> \in Before(s) \/ (x \in Range(s) /\ y = t)
<1> DEFINE a == Append(s, t)
           n == Len(s)
<1>1. n \in Nat /\ DOMAIN s = 1 .. n /\ \A i \in 1 .. n : s[i] \in Task
  BY ListFacts
<1>2. /\ a \in Seq(Task) /\ DOMAIN a = 1 .. n + 1
      /\ \A i \in 1 .. n : a[i] = s[i]
      /\ a[n + 1] = t
  BY <1>1, AppendProperties, LenProperties
<1> HIDE DEF a, n
<1>3. \A i \in 1 .. n : s[i] \in Range(s) /\ s[i] # t
  BY <1>1 DEF Range
<1>4. IsInjective(a)
  BY <1>1, <1>2, <1>3 DEF IsInjective
<1>5. Range(a) = Range(s) \cup {t}
  BY <1>1, <1>2 DEF Range
<1>6. ASSUME NEW x, NEW y
      PROVE  <<x, y>> \in Before(a) <=> <<x, y>> \in Before(s) \/ (x \in Range(s) /\ y = t)
  <2>1. <<x, y>> \in Before(a) <=> \E i, j \in DOMAIN a : i < j /\ a[i] = x /\ a[j] = y
    BY BeforePairs
  <2>2. <<x, y>> \in Before(s) <=> \E i, j \in DOMAIN s : i < j /\ s[i] = x /\ s[j] = y
    BY BeforePairs
  <2>3. x \in Range(s) <=> \E i \in 1 .. n : s[i] = x
    BY <1>1 DEF Range
  <2>4. ASSUME NEW i \in DOMAIN a, NEW j \in DOMAIN a, i < j, a[i] = x, a[j] = y
        PROVE  <<x, y>> \in Before(s) \/ (x \in Range(s) /\ y = t)
    <3>1. i \in 1 .. n /\ s[i] = x
      BY <1>1, <1>2, <2>4
    <3>2. CASE j = n + 1
      BY <1>2, <2>3, <2>4, <3>1, <3>2
    <3>3. CASE j # n + 1
      BY <1>1, <1>2, <2>2, <2>4, <3>1, <3>3
    <3> QED BY <3>2, <3>3
  <2>5. ASSUME NEW i \in DOMAIN s, NEW j \in DOMAIN s, i < j, s[i] = x, s[j] = y
        PROVE  <<x, y>> \in Before(a)
    BY <1>1, <1>2, <2>1, <2>5
  <2>6. ASSUME NEW i \in 1 .. n, s[i] = x, y = t PROVE <<x, y>> \in Before(a)
    <3>1. i \in 1 .. n + 1 /\ n + 1 \in 1 .. n + 1 /\ i < n + 1
      BY <1>1
    <3> QED BY <1>2, <2>1, <2>6, <3>1
  <2> QED BY <2>1, <2>2, <2>3, <2>4, <2>5, <2>6
<1> QED BY <1>2, <1>4, <1>5, <1>6 DEF a

-----------------------------------------------------------------------------
(* The lists of a board.                                                   *)

\* Every id is in one list at most, and there once.
Once(l) ==
    /\ l \in [Column -> Seq(Task)]
    /\ \A c \in Column : IsInjective(l[c])
    /\ \A c, d \in Column : \A t \in Task :
          t \in Range(l[c]) /\ t \in Range(l[d]) => c = d

LEMMA OnceFacts ==
    ASSUME NEW l, Once(l), NEW c \in Column
    PROVE  /\ l[c] \in Seq(Task) /\ IsInjective(l[c]) /\ Range(l[c]) \subseteq Task
           /\ \A t : t \in Range(l[c]) <=> c \in ListOf(l, t)
<1>1. l[c] \in Seq(Task) /\ IsInjective(l[c])
  BY DEF Once
<1>2. Range(l[c]) \subseteq Task /\ \A t : Contains(l[c], t) <=> t \in Range(l[c])
  BY <1>1, ListFacts
<1> QED BY <1>1, <1>2 DEF ListOf

\* The board that lists and map stand for has a task in the column whose list
\* it is in, and one before another that stands before it in a list.
LEMMA AsBoardFacts ==
    ASSUME NEW l, Once(l), NEW m \in [Task -> TaskState]
    PROVE  /\ AsBoard(l, m) \in Board
           /\ AsBoard(l, m).tasks = m
           /\ \A t \in Task, c \in Column :
                 AsBoard(l, m).column[t] = c <=> t \in Range(l[c])
           /\ \A t \in Task : AsBoard(l, m).column[t] = Absent <=> ListOf(l, t) = {}
           /\ \A c \in Column : TasksIn(AsBoard(l, m), c) = Range(l[c])
           /\ \A x, y : <<x, y>> \in AsBoard(l, m).ahead
                 <=> \E c \in Column : <<x, y>> \in Before(l[c])
<1> DEFINE b == AsBoard(l, m)
           Col(t) == IF ListOf(l, t) = {} THEN Absent
                     ELSE CHOOSE c \in Column : c \in ListOf(l, t)
<1>1. /\ b = [column |-> b.column, tasks |-> b.tasks, ahead |-> b.ahead]
      /\ b.tasks = m
      /\ b.column = [t \in Task |-> Col(t)]
      /\ b.ahead = UNION {Before(l[c]) : c \in Column}
  BY DEF AsBoard
<1> HIDE DEF b
<1>2. ASSUME NEW t \in Task
      PROVE  /\ Col(t) \in Column \cup {Absent}
             /\ Col(t) = Absent <=> ListOf(l, t) = {}
             /\ \A c \in Column : Col(t) = c <=> t \in Range(l[c])
  <2>1. ListOf(l, t) \subseteq Column
    BY DEF ListOf
  <2>2. ListOf(l, t) # {} => Col(t) \in ListOf(l, t)
    BY <2>1
  <2>3. ListOf(l, t) = {} => Col(t) = Absent
    OBVIOUS
  <2> HIDE DEF Col
  <2>4. ASSUME NEW c \in Column PROVE Col(t) = c <=> t \in Range(l[c])
    <3>1. ASSUME t \in Range(l[c]) PROVE Col(t) = c
      <4>1. c \in ListOf(l, t)
        BY <3>1, OnceFacts
      <4>2. Col(t) \in Column /\ t \in Range(l[Col(t)])
        BY <2>1, <2>2, <4>1, OnceFacts
      <4> QED BY <3>1, <4>2 DEF Once
    <3>2. ASSUME Col(t) = c PROVE t \in Range(l[c])
      BY <2>2, <2>3, <3>2, ColumnFacts, OnceFacts
    <3> QED BY <3>1, <3>2
  <2> QED BY <2>1, <2>2, <2>3, <2>4, ColumnFacts
<1> HIDE DEF Col
<1>3. b.column \in [Task -> Column \cup {Absent}] /\ \A t \in Task : b.column[t] = Col(t)
  BY <1>1, <1>2
<1>4. \A x, y : <<x, y>> \in b.ahead <=> \E c \in Column : <<x, y>> \in Before(l[c])
  BY <1>1
<1>5. b.ahead \in SUBSET (Task \X Task)
  <2>1. \A c \in Column : Before(l[c]) \subseteq Task \X Task
    BY BeforeFacts, OnceFacts
  <2> QED BY <1>1, <2>1
<1>6. b \in Board
  BY <1>1, <1>3, <1>5 DEF Board
<1>7. \A c \in Column : TasksIn(b, c) = Range(l[c])
  BY <1>2, <1>3, OnceFacts DEF TasksIn
<1> QED BY <1>1, <1>2, <1>3, <1>4, <1>6, <1>7 DEF b

\* Two boards are one if they agree on the columns, the tasks and who stands
\* before whom.
LEMMA SameBoard ==
    ASSUME NEW a \in Board, NEW b \in Board,
           \A t \in Task : a.column[t] = b.column[t],
           a.tasks = b.tasks,
           \A x, y \in Task : <<x, y>> \in a.ahead <=> <<x, y>> \in b.ahead
    PROVE  a = b
<1>1. a.column = b.column
  BY DEF Board
<1>2. a.ahead = b.ahead
  <2>1. a.ahead \subseteq Task \X Task /\ b.ahead \subseteq Task \X Task
    BY DEF Board
  <2> QED BY <2>1, SMTT(30)
<1> QED BY <1>1, <1>2 DEF Board

\* sort_column, pair by pair.
LEMMA SortColumnPairs ==
    ASSUME NEW b \in Board, NEW c, NEW x \in Task, NEW y \in Task
    PROVE  <<x, y>> \in SortColumn(b, c).ahead
              <=> IF x \in TasksIn(b, c)
                  THEN y \in TasksIn(b, c) /\ x # y /\ Precedes(b, x, y)
                  ELSE <<x, y>> \in b.ahead
BY DEF SortColumn, Board

\* One list sorted is SortColumn on the board.
LEMMA SortedListFacts ==
    ASSUME NEW l, Once(l), NEW m \in [Task -> TaskState], NEW c \in Column
    PROVE  /\ Once(SortedAt(l, m, c))
           /\ AsBoard(SortedAt(l, m, c), m) = SortColumn(AsBoard(l, m), c)
<1> DEFINE s == SortedAt(l, m, c)
           b == AsBoard(l, m)
<1>1. l[c] \in Seq(Task) /\ IsInjective(l[c]) /\ Range(l[c]) \subseteq Task
  BY OnceFacts
<1>2. \A t \in Task : m[t].priority \in Nat
  BY DEF TaskState
<1>3. /\ SortList(l[c], m) \in Seq(Task)
      /\ IsInjective(SortList(l[c], m))
      /\ Range(SortList(l[c], m)) = Range(l[c])
      /\ \A x, y : <<x, y>> \in Before(SortList(l[c], m))
            <=> /\ x \in Range(l[c]) /\ y \in Range(l[c]) /\ x # y
                /\ \/ m[x].priority < m[y].priority
                   \/ m[x].priority = m[y].priority /\ <<x, y>> \in Before(l[c])
  BY <1>1, <1>2, SortListFacts
<1>4. l \in [Column -> Seq(Task)]
  BY DEF Once
<1>5. s[c] = SortList(l[c], m) /\ \A d \in Column : d # c => s[d] = l[d]
  BY <1>4 DEF SortedAt
<1>6. s \in [Column -> Seq(Task)]
  BY <1>3, <1>4 DEF SortedAt
<1> HIDE DEF s
<1>7. \A d \in Column : IsInjective(s[d]) /\ Range(s[d]) = Range(l[d])
  BY <1>3, <1>5, OnceFacts
<1>8. Once(s)
  BY <1>6, <1>7 DEF Once
<1>9. b \in Board /\ b.tasks = m /\ TasksIn(b, c) = Range(l[c])
  BY AsBoardFacts
<1>10. SortColumn(b, c) \in Board /\ SortColumn(b, c).column = b.column /\ SortColumn(b, c).tasks = m
  BY <1>9, SortColumnFacts
<1>11. AsBoard(s, m) \in Board /\ AsBoard(s, m).tasks = m
  BY <1>8, AsBoardFacts
<1>12. ASSUME NEW t \in Task PROVE AsBoard(s, m).column[t] = b.column[t]
  <2>1. \A d \in Column : AsBoard(s, m).column[t] = d <=> b.column[t] = d
    BY <1>7, <1>8, AsBoardFacts
  <2>2. AsBoard(s, m).column[t] \in Column \cup {Absent} /\ b.column[t] \in Column \cup {Absent}
    BY <1>9, <1>11 DEF Board
  <2> QED BY <2>1, <2>2
<1>13. ASSUME NEW x \in Task, NEW y \in Task
       PROVE  <<x, y>> \in AsBoard(s, m).ahead <=> <<x, y>> \in SortColumn(b, c).ahead
  <2>1. <<x, y>> \in AsBoard(s, m).ahead <=> \E d \in Column : <<x, y>> \in Before(s[d])
    BY <1>8, AsBoardFacts
  <2>2. <<x, y>> \in b.ahead <=> \E d \in Column : <<x, y>> \in Before(l[d])
    BY AsBoardFacts
  <2>3. \A d \in Column : <<x, y>> \in Before(s[d]) => x \in Range(l[d]) /\ y \in Range(l[d])
    BY <1>7, BeforeFacts
  <2>4. \A d \in Column : <<x, y>> \in Before(l[d]) => x \in Range(l[d]) /\ y \in Range(l[d])
    BY BeforeFacts
  <2>5. Precedes(b, x, y) <=> \/ m[x].priority < m[y].priority
                              \/ m[x].priority = m[y].priority /\ <<x, y>> \in b.ahead
    BY <1>9 DEF Precedes
  <2>6. CASE x \in Range(l[c])
    <3>1. \A d \in Column : x \in Range(l[d]) => d = c
      BY <2>6 DEF Once
    <3>2. <<x, y>> \in AsBoard(s, m).ahead <=> <<x, y>> \in Before(SortList(l[c], m))
      BY <1>5, <2>1, <2>3, <3>1
    <3>3. <<x, y>> \in b.ahead <=> <<x, y>> \in Before(l[c])
      BY <2>2, <2>4, <3>1
    <3>4. <<x, y>> \in SortColumn(b, c).ahead
             <=> y \in Range(l[c]) /\ x # y /\ Precedes(b, x, y)
      BY <1>9, <2>6, SortColumnPairs
    <3> QED BY <1>3, <2>5, <2>6, <3>2, <3>3, <3>4
  <2>7. CASE x \notin Range(l[c])
    <3>1. <<x, y>> \in AsBoard(s, m).ahead <=> <<x, y>> \in b.ahead
      BY <1>5, <2>1, <2>2, <2>3, <2>4, <2>7
    <3>2. <<x, y>> \in SortColumn(b, c).ahead <=> <<x, y>> \in b.ahead
      BY <1>9, <2>7, SortColumnPairs
    <3> QED BY <3>1, <3>2
  <2> QED BY <2>6, <2>7
<1>14. AsBoard(s, m) = SortColumn(b, c)
  BY <1>10, <1>11, <1>12, <1>13, SameBoard
<1> QED BY <1>8, <1>14 DEF s

\* The map does not place the tasks.
LEMMA AsBoardOfMap ==
    ASSUME NEW l, NEW m, NEW n
    PROVE  AsBoard(l, n) = [AsBoard(l, m) EXCEPT !.tasks = n]
<1>1. \A c, a : [column |-> c, tasks |-> n, ahead |-> a]
                   = [[column |-> c, tasks |-> m, ahead |-> a] EXCEPT !.tasks = n]
  OBVIOUS
<1> QED BY <1>1, Zenon DEF AsBoard

\* An id pushed into a list is the last of that column.
LEMMA PushedFacts ==
    ASSUME NEW l, Once(l), NEW m \in [Task -> TaskState], NEW c \in Column,
           NEW t \in Task, ListOf(l, t) = {}
    PROVE  /\ Once(Pushed(l, c, t))
           /\ \A u \in Task : AsBoard(Pushed(l, c, t), m).column[u]
                                = IF u = t THEN c ELSE AsBoard(l, m).column[u]
           /\ AsBoard(Pushed(l, c, t), m).ahead
                 = AsBoard(l, m).ahead \cup (TasksIn(AsBoard(l, m), c) \X {t})
<1> DEFINE b == AsBoard(l, m)
           s == Pushed(l, c, t)
           a == [b EXCEPT !.column[t] = c, !.ahead = @ \cup (TasksIn(b, c) \X {t})]
<1>1. l[c] \in Seq(Task) /\ IsInjective(l[c]) /\ Range(l[c]) \subseteq Task
  BY OnceFacts
<1>2. \A d \in Column : t \notin Range(l[d])
  BY OnceFacts
<1>3. /\ Append(l[c], t) \in Seq(Task)
      /\ IsInjective(Append(l[c], t))
      /\ Range(Append(l[c], t)) = Range(l[c]) \cup {t}
      /\ \A x, y : <<x, y>> \in Before(Append(l[c], t))
            <=> <<x, y>> \in Before(l[c]) \/ (x \in Range(l[c]) /\ y = t)
  BY <1>1, <1>2, AppendFacts
<1>4. l \in [Column -> Seq(Task)]
  BY DEF Once
<1>5. s[c] = Append(l[c], t) /\ \A d \in Column : d # c => s[d] = l[d]
  BY <1>4 DEF Pushed
<1>6. s \in [Column -> Seq(Task)]
  BY <1>3, <1>4 DEF Pushed
<1> HIDE DEF s
<1>7. \A d \in Column : IsInjective(s[d])
                           /\ Range(s[d]) = IF d = c THEN Range(l[d]) \cup {t} ELSE Range(l[d])
  BY <1>3, <1>5, OnceFacts
<1>8. Once(s)
  BY <1>2, <1>6, <1>7 DEF Once
<1>9. b \in Board /\ b.tasks = m /\ TasksIn(b, c) = Range(l[c])
  BY AsBoardFacts
<1> HIDE DEF b
<1>10. /\ a \in Board /\ a.tasks = m
       /\ a.column = [b.column EXCEPT ![t] = c]
       /\ a.ahead = b.ahead \cup (TasksIn(b, c) \X {t})
  <2> DEFINE behind == TasksIn(b, c) \X {t}
  <2>1. behind \in SUBSET (Task \X Task)
    BY <1>1, <1>9
  <2> HIDE DEF behind
  <2>2. a = [b EXCEPT !.column[t] = c, !.ahead = @ \cup behind]
    BY DEF behind
  <2> HIDE DEF a
  <2>3. a \in Board /\ a.column = [b.column EXCEPT ![t] = c] /\ a.ahead = b.ahead \cup behind
    BY <1>9, <2>1, <2>2 DEF Board
  <2>4. a.tasks = m
    BY <1>9, <2>2 DEF Board
  <2> QED BY <2>3, <2>4 DEF behind
<1> HIDE DEF a
<1>11. AsBoard(s, m) \in Board /\ AsBoard(s, m).tasks = m
  BY <1>8, AsBoardFacts
<1>12. ASSUME NEW u \in Task PROVE AsBoard(s, m).column[u] = a.column[u]
  <2>1. a.column[u] = IF u = t THEN c ELSE b.column[u]
    BY <1>9, <1>10 DEF Board
  <2>2. \A d \in Column : AsBoard(s, m).column[u] = d <=> u \in Range(s[d])
    BY <1>8, AsBoardFacts
  <2>3. \A d \in Column : b.column[u] = d <=> u \in Range(l[d])
    BY AsBoardFacts DEF b
  <2>4. AsBoard(s, m).column[u] \in Column \cup {Absent} /\ b.column[u] \in Column \cup {Absent}
    BY <1>9, <1>11 DEF Board
  <2>5. CASE u = t
    BY <1>7, <2>1, <2>2, <2>5
  <2>6. CASE u # t
    BY <1>7, <2>1, <2>2, <2>3, <2>4, <2>6
  <2> QED BY <2>5, <2>6
<1>13. ASSUME NEW x \in Task, NEW y \in Task
       PROVE  <<x, y>> \in AsBoard(s, m).ahead <=> <<x, y>> \in a.ahead
  <2>1. <<x, y>> \in AsBoard(s, m).ahead <=> \E d \in Column : <<x, y>> \in Before(s[d])
    BY <1>8, AsBoardFacts
  <2>2. <<x, y>> \in b.ahead <=> \E d \in Column : <<x, y>> \in Before(l[d])
    BY AsBoardFacts DEF b
  <2>3. <<x, y>> \in a.ahead <=> <<x, y>> \in b.ahead \/ (x \in Range(l[c]) /\ y = t)
    BY <1>9, <1>10
  <2>4. \A d \in Column : <<x, y>> \in Before(s[d])
           <=> <<x, y>> \in Before(l[d]) \/ (d = c /\ x \in Range(l[c]) /\ y = t)
    <3> TAKE d \in Column
    <3>1. CASE d = c
      <4>1. <<x, y>> \in Before(Append(l[c], t))
               <=> <<x, y>> \in Before(l[c]) \/ (x \in Range(l[c]) /\ y = t)
        BY <1>3
      <4> QED BY <1>5, <3>1, <4>1
    <3>2. CASE d # c
      BY <1>5, <3>2
    <3> QED BY <3>1, <3>2
  <2> QED BY <2>1, <2>2, <2>3, <2>4
<1>14. AsBoard(s, m) = a
  BY <1>10, <1>11, <1>12, <1>13, SameBoard
<1>15. \A u \in Task : a.column[u] = IF u = t THEN c ELSE b.column[u]
  BY <1>9, <1>10 DEF Board
<1> QED BY <1>8, <1>10, <1>14, <1>15 DEF s, b

\* An id retained nowhere is on no list, and the others stand as they did.
LEMMA RemovedFacts ==
    ASSUME NEW l, Once(l), NEW m \in [Task -> TaskState], NEW t \in Task
    PROVE  /\ Once(Without(l, t)) /\ ListOf(Without(l, t), t) = {}
           /\ \A u \in Task : AsBoard(Without(l, t), m).column[u]
                                = IF u = t THEN Absent ELSE AsBoard(l, m).column[u]
           /\ AsBoard(Without(l, t), m).ahead = Retain(AsBoard(l, m), t)
<1> DEFINE b == AsBoard(l, m)
           s == Without(l, t)
           a == [b EXCEPT !.column[t] = Absent, !.ahead = Retain(b, t)]
<1>1. ASSUME NEW d \in Column
      PROVE  /\ s[d] \in Seq(Task) /\ IsInjective(s[d])
             /\ Range(s[d]) = Range(l[d]) \ {t}
             /\ \A x, y : <<x, y>> \in Before(s[d])
                   <=> <<x, y>> \in Before(l[d]) /\ x # t /\ y # t
  <2>1. l[d] \in Seq(Task) /\ IsInjective(l[d]) /\ Range(l[d]) \subseteq Task
    BY OnceFacts
  <2>2. \A x, y : <<x, y>> \in Before(l[d]) => x \in Range(l[d]) /\ y \in Range(l[d])
    BY BeforeFacts
  <2>3. CASE d \in ListOf(l, t)
    <3>1. s[d] = Retained(l[d], Task \ {t})
      BY <2>3 DEF Without
    <3>2. /\ Retained(l[d], Task \ {t}) \in Seq(Task)
          /\ IsInjective(Retained(l[d], Task \ {t}))
          /\ Range(Retained(l[d], Task \ {t})) = Range(l[d]) \cap (Task \ {t})
          /\ \A x, y : <<x, y>> \in Before(Retained(l[d], Task \ {t}))
                <=> <<x, y>> \in Before(l[d]) /\ x \in Task \ {t} /\ y \in Task \ {t}
      BY <2>1, RetainedFacts
    <3> HIDE DEF s
    <3> QED BY <2>1, <2>2, <3>1, <3>2
  <2>4. CASE d \notin ListOf(l, t)
    <3>1. s[d] = l[d] /\ t \notin Range(l[d])
      BY <2>4, OnceFacts DEF Without
    <3> HIDE DEF s
    <3> QED BY <2>1, <2>2, <3>1
  <2> QED BY <2>3, <2>4
<1>2. s \in [Column -> Seq(Task)]
  <2>1. s = [d \in Column |-> s[d]]
    BY DEF Without
  <2> HIDE DEF s
  <2> QED BY <1>1, <2>1
<1> HIDE DEF s
<1>3. Once(s)
  BY <1>1, <1>2 DEF Once
<1>4. ListOf(s, t) = {}
  <2>1. ListOf(s, t) \subseteq Column
    BY DEF ListOf
  <2> QED BY <1>1, <1>3, <2>1, OnceFacts
<1>5. b \in Board /\ b.tasks = m
  BY AsBoardFacts
<1> HIDE DEF b
<1>6. /\ a \in Board /\ a.tasks = m
      /\ a.column = [b.column EXCEPT ![t] = Absent]
      /\ a.ahead = Retain(b, t)
  BY <1>5 DEF Board, Retain
<1> HIDE DEF a
<1>7. AsBoard(s, m) \in Board /\ AsBoard(s, m).tasks = m
  BY <1>3, AsBoardFacts
<1>8. ASSUME NEW u \in Task PROVE AsBoard(s, m).column[u] = a.column[u]
  <2>1. a.column[u] = IF u = t THEN Absent ELSE b.column[u]
    BY <1>5, <1>6 DEF Board
  <2>2. \A d \in Column : AsBoard(s, m).column[u] = d <=> u \in Range(s[d])
    BY <1>3, AsBoardFacts
  <2>3. \A d \in Column : b.column[u] = d <=> u \in Range(l[d])
    BY AsBoardFacts DEF b
  <2>4. AsBoard(s, m).column[u] \in Column \cup {Absent} /\ b.column[u] \in Column \cup {Absent}
    BY <1>5, <1>7 DEF Board
  <2>5. CASE u = t
    BY <1>3, <1>4, <2>1, <2>5, AsBoardFacts
  <2>6. CASE u # t
    <3>1. \A d \in Column : AsBoard(s, m).column[u] = d <=> b.column[u] = d
      BY <1>1, <2>2, <2>3, <2>6
    <3> QED BY <2>1, <2>4, <2>6, <3>1
  <2> QED BY <2>5, <2>6
<1>9. ASSUME NEW x \in Task, NEW y \in Task
      PROVE  <<x, y>> \in AsBoard(s, m).ahead <=> <<x, y>> \in a.ahead
  <2>1. <<x, y>> \in AsBoard(s, m).ahead <=> \E d \in Column : <<x, y>> \in Before(s[d])
    BY <1>3, AsBoardFacts
  <2>2. <<x, y>> \in b.ahead <=> \E d \in Column : <<x, y>> \in Before(l[d])
    BY AsBoardFacts DEF b
  <2>3. <<x, y>> \in a.ahead <=> <<x, y>> \in b.ahead /\ x # t /\ y # t
    BY <1>6 DEF Retain
  <2> QED BY <1>1, <2>1, <2>2, <2>3
<1>10. AsBoard(s, m) = a
  BY <1>6, <1>7, <1>8, <1>9, SameBoard
<1>11. \A u \in Task : a.column[u] = IF u = t THEN Absent ELSE b.column[u]
  BY <1>5, <1>6 DEF Board
<1> QED BY <1>3, <1>4, <1>6, <1>10, <1>11 DEF s, b

-----------------------------------------------------------------------------
(* The methods.                                                            *)

\* What each method writes to the map.
LEMMA MapFacts ==
    ASSUME NEW m \in [Task -> TaskState], NEW t \in Task
    PROVE  /\ \A c \in Column : AdvancedTask(m, t, c) \in [Task -> TaskState]
           /\ \A s \in TaskState : AddedTask(m, t, s) \in [Task -> TaskState]
           /\ \A p \in Nat : RankedTask(m, t, p) \in [Task -> TaskState]
<1>1. ASSUME NEW c \in Column PROVE AdvancedTask(m, t, c) \in [Task -> TaskState]
  <2>1. [m[t] EXCEPT !.stage = c] \in TaskState
    BY DEF TaskState
  <2> QED BY <2>1 DEF AdvancedTask
<1>2. ASSUME NEW p \in Nat PROVE RankedTask(m, t, p) \in [Task -> TaskState]
  <2>1. [m[t] EXCEPT !.priority = p] \in TaskState
    BY DEF TaskState
  <2> QED BY <2>1 DEF RankedTask
<1> QED BY <1>1, <1>2 DEF AddedTask

\* The board after a change of the map.
LEMMA OtherMap ==
    ASSUME NEW l, Once(l), NEW m \in [Task -> TaskState], NEW n \in [Task -> TaskState]
    PROVE  /\ AsBoard(l, n).column = AsBoard(l, m).column
           /\ AsBoard(l, n).ahead = AsBoard(l, m).ahead
           /\ \A c : TasksIn(AsBoard(l, n), c) = TasksIn(AsBoard(l, m), c)
BY DEF AsBoard, TasksIn

\* set_priority.
LEMMA RankedAgrees ==
    ASSUME NEW l, Once(l), NEW m \in [Task -> TaskState], NEW t \in Task, NEW p \in Nat,
           m[t].stage \in Column
    PROVE  /\ Once(RankedLists(l, m, t, p))
           /\ AsBoard(RankedLists(l, m, t, p), RankedTask(m, t, p))
                 = SetPriority(AsBoard(l, m), t, p)
<1> DEFINE n == RankedTask(m, t, p)
           b == AsBoard(l, m)
<1>1. n \in [Task -> TaskState]
  BY MapFacts
<1>2. RankedLists(l, m, t, p) = SortedAt(l, n, m[t].stage)
  BY DEF RankedLists
<1>3. b \in Board /\ b.tasks = m
  BY AsBoardFacts
<1>4. AsBoard(l, n) = [b EXCEPT !.tasks = n]
  BY AsBoardOfMap
<1> HIDE DEF b
<1>5. AsBoard(l, n) = [b EXCEPT !.tasks[t].priority = p]
  BY <1>3, <1>4 DEF RankedTask, Board
<1>6. SetPriority(b, t, p) = SortColumn(AsBoard(l, n), m[t].stage)
  BY <1>3, <1>5 DEF SetPriority
<1> HIDE DEF n
<1> QED BY <1>1, <1>2, <1>6, SortedListFacts DEF b, n

\* add_task, of a task that is on no list.
LEMMA AddedAgrees ==
    ASSUME NEW l, Once(l), NEW m \in [Task -> TaskState], NEW t \in Task,
           ListOf(l, t) = {}, NEW s \in TaskState, s.stage \in Column
    PROVE  /\ Once(AddedLists(l, m, t, s))
           /\ AsBoard(AddedLists(l, m, t, s), AddedTask(m, t, s))
                 = AddTask(AsBoard(l, m), t, s)
<1> DEFINE n == AddedTask(m, t, s)
           c == s.stage
           b == AsBoard(l, m)
           pushed == Pushed(l, c, t)
           added == [b EXCEPT !.column[t] = s.stage,
                              !.tasks[t] = s,
                              !.ahead = @ \cup (TasksIn(b, s.stage) \X {t})]
<1>1. n \in [Task -> TaskState]
  BY MapFacts
<1>3. AddedLists(l, m, t, s) = SortedAt(pushed, n, c)
  BY DEF AddedLists
<1>4. b \in Board /\ b.tasks = m
  BY AsBoardFacts
<1>5. /\ AsBoard(l, n) \in Board /\ AsBoard(l, n).tasks = n
      /\ AsBoard(l, n).column = b.column /\ AsBoard(l, n).ahead = b.ahead
      /\ TasksIn(AsBoard(l, n), c) = TasksIn(b, c)
  BY <1>1, AsBoardFacts, OtherMap
<1>6. /\ Once(pushed)
      /\ \A u \in Task : AsBoard(pushed, n).column[u]
                           = IF u = t THEN c ELSE AsBoard(l, n).column[u]
      /\ AsBoard(pushed, n).ahead
            = AsBoard(l, n).ahead \cup (TasksIn(AsBoard(l, n), c) \X {t})
  <2> HIDE DEF n
  <2> QED BY <1>1, PushedFacts
<1>7. AsBoard(pushed, n) \in Board /\ AsBoard(pushed, n).tasks = n
  BY <1>1, <1>6, AsBoardFacts
<1> HIDE DEF b, pushed, n
<1>8. /\ added \in Board /\ added.column = [b.column EXCEPT ![t] = c]
      /\ added.ahead = b.ahead \cup (TasksIn(b, c) \X {t})
  <2>1. TasksIn(b, c) \X {t} \in SUBSET (Task \X Task)
    BY DEF TasksIn
  <2> DEFINE behind == TasksIn(b, c) \X {t}
  <2> HIDE DEF behind
  <2>2. added = [b EXCEPT !.column[t] = s.stage, !.tasks[t] = s, !.ahead = @ \cup behind]
    BY DEF behind
  <2>3. behind \in SUBSET (Task \X Task)
    BY <2>1 DEF behind
  <2> HIDE DEF added
  <2>4. added \in Board /\ added.column = [b.column EXCEPT ![t] = c] /\ added.ahead = b.ahead \cup behind
    BY <1>4, <2>2, <2>3 DEF Board
  <2> QED BY <2>4 DEF behind
<1>9. added.tasks = n
  BY <1>4 DEF Board, AddedTask, n
<1> HIDE DEF added
<1>10. /\ \A u \in Task : AsBoard(pushed, n).column[u] = added.column[u]
       /\ AsBoard(pushed, n).ahead = added.ahead
  BY <1>4, <1>5, <1>6, <1>8 DEF Board
<1>11. AsBoard(pushed, n) = added
  BY <1>7, <1>8, <1>9, <1>10, SameBoard
<1>12. AddTask(b, t, s) = SortColumn(added, c)
  BY DEF AddTask, added
<1> QED BY <1>1, <1>3, <1>6, <1>11, <1>12, SortedListFacts DEF b, n

\* advance.
LEMMA AdvancedAgrees ==
    ASSUME NEW l, Once(l), NEW m \in [Task -> TaskState], NEW t \in Task, NEW c \in Column
    PROVE  /\ Once(AdvancedLists(l, m, t, c))
           /\ AsBoard(AdvancedLists(l, m, t, c), AdvancedTask(m, t, c))
                 = Advance(AsBoard(l, m), t, c)
<1> DEFINE n == AdvancedTask(m, t, c)
           b == AsBoard(l, m)
           left == Without(l, t)
           pushed == Pushed(left, c, t)
           moved == [b EXCEPT !.column[t] = c,
                              !.tasks[t].stage = c,
                              !.ahead = Retain(b, t) \cup ((TasksIn(b, c) \ {t}) \X {t})]
           rest == AsBoard(left, n)
<1>1. n \in [Task -> TaskState]
  BY MapFacts
<1>2. AdvancedLists(l, m, t, c) = SortedAt(pushed, n, c)
  BY DEF AdvancedLists
<1>3. b \in Board /\ b.tasks = m
  BY AsBoardFacts
<1>4. /\ AsBoard(l, n) \in Board
      /\ AsBoard(l, n).column = b.column /\ AsBoard(l, n).ahead = b.ahead
  BY <1>1, AsBoardFacts, OtherMap
<1>5. /\ Once(left) /\ ListOf(left, t) = {}
      /\ \A u \in Task : rest.column[u] = IF u = t THEN Absent ELSE AsBoard(l, n).column[u]
      /\ rest.ahead = Retain(AsBoard(l, n), t)
  <2> HIDE DEF n
  <2> QED BY <1>1, RemovedFacts
<1>6. rest \in Board /\ rest.tasks = n
  BY <1>1, <1>5, AsBoardFacts
<1> HIDE DEF b, left, n, rest
<1>7. /\ \A u \in Task : rest.column[u] = IF u = t THEN Absent ELSE b.column[u]
      /\ rest.ahead = Retain(b, t)
  <2> DEFINE a == AsBoard(l, n)
  <2>1. Retain(a, t) = Retain(b, t)
    BY <1>4 DEF Retain
  <2> HIDE DEF a
  <2> QED BY <1>4, <1>5, <2>1 DEF Board, a
<1>8. TasksIn(rest, c) = TasksIn(b, c) \ {t}
  BY <1>3, <1>7, ColumnFacts DEF TasksIn, Board
<1>9. /\ Once(pushed)
      /\ \A u \in Task : AsBoard(pushed, n).column[u] = IF u = t THEN c ELSE rest.column[u]
      /\ AsBoard(pushed, n).ahead = rest.ahead \cup (TasksIn(rest, c) \X {t})
  <2>1. c \in Column /\ Once(left) /\ ListOf(left, t) = {} /\ n \in [Task -> TaskState]
    BY <1>1, <1>5
  <2> QED BY <2>1, PushedFacts DEF rest
<1>10. AsBoard(pushed, n) \in Board /\ AsBoard(pushed, n).tasks = n
  BY <1>1, <1>9, AsBoardFacts
<1> HIDE DEF pushed
<1> DEFINE behind == (TasksIn(b, c) \ {t}) \X {t}
<1>11. behind \in SUBSET (Task \X Task)
  BY DEF TasksIn
<1>12. moved = [b EXCEPT !.column[t] = c, !.tasks[t].stage = c,
                         !.ahead = Retain(b, t) \cup behind]
  OBVIOUS
<1>13. Advance(b, t, c) = SortColumn(moved, c)
  BY DEF Advance
<1>14. /\ \A u \in Task : AsBoard(pushed, n).column[u] = IF u = t THEN c ELSE rest.column[u]
       /\ AsBoard(pushed, n).ahead = rest.ahead \cup behind
  BY <1>8, <1>9
<1> HIDE DEF behind, moved
<1>15. /\ moved \in Board /\ moved.column = [b.column EXCEPT ![t] = c]
       /\ moved.ahead = Retain(b, t) \cup behind
  <2>1. [b.tasks[t] EXCEPT !.stage = c] \in TaskState
    BY <1>3 DEF Board, TaskState
  <2>2. Retain(b, t) \in SUBSET (Task \X Task)
    BY <1>3 DEF Retain, Board
  <2> QED BY <1>3, <1>11, <1>12, <2>1, <2>2 DEF Board
<1>16. moved.tasks = n
  BY <1>3, <1>12 DEF Board, AdvancedTask, n
<1>17. /\ \A u \in Task : AsBoard(pushed, n).column[u] = moved.column[u]
       /\ AsBoard(pushed, n).ahead = moved.ahead
  BY <1>3, <1>6, <1>7, <1>14, <1>15 DEF Board
<1>18. AsBoard(pushed, n) = moved
  BY <1>10, <1>15, <1>16, <1>17, SameBoard
<1> QED BY <1>1, <1>2, <1>9, <1>13, <1>18, SortedListFacts DEF b, n

\* next_unblocked, when only tasks on a list are Done in the map.
LEMMA FirstReadyAgrees ==
    ASSUME NEW l, Once(l), NEW m \in [Task -> TaskState], NEW c \in Column,
           \A u \in Task : m[u].stage = Done => ListOf(l, u) # {}
    PROVE  FirstReady(l, m, c) = NextUnblocked(AsBoard(l, m), c)
<1> DEFINE b == AsBoard(l, m)
           s == l[c]
           Fit(t) == \A u \in m[t].blockedBy : m[u].stage = Done
<1>1. s \in Seq(Task) /\ IsInjective(s) /\ Range(s) \subseteq Task
  BY OnceFacts
<1>2. /\ DOMAIN s = 1 .. Len(s) /\ Len(s) \in Nat
      /\ \A i \in DOMAIN s : s[i] \in Task
      /\ \A t : t \in Range(s) <=> \E i \in DOMAIN s : t = s[i]
  BY <1>1, ListFacts DEF Range
<1>3. /\ b.tasks = m /\ TasksIn(b, c) = Range(s)
      /\ \A t \in Task : b.column[t] = Absent <=> ListOf(l, t) = {}
      /\ \A x, y : <<x, y>> \in b.ahead <=> \E d \in Column : <<x, y>> \in Before(l[d])
  BY AsBoardFacts
<1> HIDE DEF b
<1>4. ASSUME NEW t \in Task PROVE Ready(b, t) <=> Fit(t)
  <2>1. m[t].blockedBy \subseteq Task
    BY DEF TaskState
  <2> QED BY <1>3, <2>1 DEF Ready
<1>5. ASSUME NEW x \in Range(s), NEW y \in Range(s)
      PROVE  <<x, y>> \in b.ahead <=> <<x, y>> \in Before(s)
  <2>1. \A d \in Column : <<x, y>> \in Before(l[d]) => x \in Range(l[d])
    BY BeforeFacts
  <2>2. x \in Task /\ \A d \in Column : x \in Range(l[d]) => d = c
    BY <1>1 DEF Once
  <2> QED BY <1>3, <2>1, <2>2
<1>6. ASSUME NEW i \in DOMAIN s, NEW j \in DOMAIN s
      PROVE  <<s[i], s[j]>> \in b.ahead <=> i < j
  <2>1. <<s[i], s[j]>> \in Before(s)
           <=> \E g, h \in DOMAIN s : g < h /\ s[g] = s[i] /\ s[h] = s[j]
    BY BeforePairs
  <2>2. \A g, h \in DOMAIN s : s[g] = s[i] /\ s[h] = s[j] => g = i /\ h = j
    BY <1>1 DEF IsInjective
  <2>3. s[i] \in Range(s) /\ s[j] \in Range(s)
    BY <1>2
  <2> QED BY <1>5, <2>1, <2>2, <2>3
<1> HIDE DEF Fit
<1> DEFINE ready == {i \in DOMAIN s : Fit(s[i])}
<1>7. FirstReady(l, m, c) = {s[i] : i \in {j \in ready : \A k \in ready : j <= k}}
  BY DEF FirstReady, Fit
<1>8. ASSUME NEW t PROVE t \in NextUnblocked(b, c) <=> t \in FirstReady(l, m, c)
  <2>1. t \in NextUnblocked(b, c)
           <=> /\ t \in Range(s) /\ Ready(b, t)
               /\ \A u \in Range(s) : <<u, t>> \in b.ahead => ~Ready(b, u)
    BY <1>3 DEF NextUnblocked
  <2>2. ASSUME NEW i \in DOMAIN s, t = s[i]
        PROVE  /\ t \in NextUnblocked(b, c)
                     <=> Fit(s[i]) /\ \A j \in DOMAIN s : j < i => ~Fit(s[j])
               /\ t \in FirstReady(l, m, c)
                     <=> Fit(s[i]) /\ \A j \in ready : i <= j
    <3>1. \A j \in DOMAIN s : s[j] \in Range(s) /\ (Ready(b, s[j]) <=> Fit(s[j]))
      BY <1>2, <1>4
    <3>2. t \in NextUnblocked(b, c)
             <=> Fit(s[i]) /\ \A j \in DOMAIN s : j < i => ~Fit(s[j])
      <4>1. ASSUME NEW j \in DOMAIN s
            PROVE  (<<s[j], t>> \in b.ahead => ~Ready(b, s[j])) <=> (j < i => ~Fit(s[j]))
        BY <1>6, <2>2, <3>1
      <4>2. (\A u \in Range(s) : <<u, t>> \in b.ahead => ~Ready(b, u))
               <=> \A j \in DOMAIN s : <<s[j], t>> \in b.ahead => ~Ready(b, s[j])
        BY <1>2
      <4> QED BY <2>1, <2>2, <3>1, <4>1, <4>2
    <3>3. \A j \in DOMAIN s : s[j] = s[i] => j = i
      BY <1>1 DEF IsInjective
    <3>4. t \in FirstReady(l, m, c) <=> Fit(s[i]) /\ \A j \in ready : i <= j
      BY <1>7, <2>2, <3>3
    <3> QED BY <3>2, <3>4
  <2>3. ASSUME NEW i \in DOMAIN s
        PROVE  (\A j \in DOMAIN s : j < i => ~Fit(s[j])) <=> (\A j \in ready : i <= j)
    BY <1>2
  <2>4. CASE t \in Range(s)
    <3>1. PICK i \in DOMAIN s : t = s[i]
      BY <1>2, <2>4
    <3> QED BY <2>2, <2>3, <3>1
  <2>5. CASE t \notin Range(s)
    BY <1>2, <1>7, <2>1, <2>5
  <2> QED BY <2>4, <2>5
<1> QED BY <1>8 DEF b

\* from_tasks, whatever the order of the files.
LEMMA ReloadFacts ==
    ASSUME NEW m \in [Task -> TaskState], NEW order \in Orders
    PROVE  /\ Once(ListsFromTasks(order, m))
           /\ \A t \in Task : ListOf(ListsFromTasks(order, m), t) # {} <=> m[t].stage \in Column
           /\ AsBoard(ListsFromTasks(order, m), m)
                 = FromTasks(m, [t \in Task |-> Position(order, t)])
<1> DEFINE n == Cardinality(Task)
           s == ListsFromTasks(order, m)
           In(c) == {t \in Task : m[t].stage = c}
           place == [t \in Task |-> Position(order, t)]
<1>1. n \in Nat /\ IsFiniteSet(1 .. n) /\ Cardinality(1 .. n) = n
  BY TaskAssumption, FS_CardinalityType, FS_Interval
<1>2. order \in [1 .. n -> Task] /\ IsInjective(order)
  BY DEF Orders
<1>3. order \in Seq(Task) /\ DOMAIN order = 1 .. n
  BY <1>1, <1>2, IsASeq
<1>4. \A t \in Task : \E i \in 1 .. n : order[i] = t
  <2>1. order \in Injection(1 .. n, Task)
    BY <1>2 DEF Injection, IsInjective
  <2>2. order \in Surjection(1 .. n, Task)
    BY <1>1, <2>1, TaskAssumption, FS_Injection
  <2> QED BY <2>2 DEF Surjection
<1>5. ASSUME NEW t \in Task PROVE place[t] \in 1 .. n /\ order[place[t]] = t
  <2>1. place[t] = CHOOSE i \in DOMAIN order : order[i] = t
    BY DEF Position
  <2> QED BY <1>3, <1>4, <2>1
<1> HIDE DEF place
<1>6. Range(order) = Task
  BY <1>2, <1>3, <1>4 DEF Range
<1>7. ASSUME NEW x \in Task, NEW y \in Task
      PROVE  <<x, y>> \in Before(order) <=> place[x] < place[y]
  <2>1. <<x, y>> \in Before(order)
           <=> \E i, j \in DOMAIN order : i < j /\ order[i] = x /\ order[j] = y
    BY BeforePairs
  <2>2. \A i, j \in DOMAIN order : order[i] = x /\ order[j] = y => i = place[x] /\ j = place[y]
    BY <1>2, <1>3, <1>5 DEF IsInjective
  <2> QED BY <1>3, <1>5, <2>1, <2>2
<1>8. \A t \in Task : m[t].priority \in Nat /\ m[t].stage \in Column \cup {Absent}
  BY DEF TaskState
<1>9. ASSUME NEW c \in Column
      PROVE  /\ s[c] \in Seq(Task) /\ IsInjective(s[c]) /\ Range(s[c]) = In(c)
             /\ \A x, y : <<x, y>> \in Before(s[c])
                   <=> /\ x \in In(c) /\ y \in In(c) /\ x # y
                       /\ \/ m[x].priority < m[y].priority
                          \/ m[x].priority = m[y].priority /\ <<x, y>> \in Before(order)
  <2> DEFINE r == Retained(order, In(c))
  <2>1. /\ r \in Seq(Task) /\ IsInjective(r) /\ Range(r) = Range(order) \cap In(c)
        /\ \A x, y : <<x, y>> \in Before(r)
              <=> <<x, y>> \in Before(order) /\ x \in In(c) /\ y \in In(c)
    BY <1>2, <1>3, RetainedFacts
  <2>2. s[c] = SortList(r, m)
    BY DEF ListsFromTasks
  <2>3. Range(r) = In(c)
    BY <1>6, <2>1
  <2> HIDE DEF r, s
  <2>4. /\ SortList(r, m) \in Seq(Task) /\ IsInjective(SortList(r, m))
        /\ Range(SortList(r, m)) = Range(r)
        /\ \A x, y : <<x, y>> \in Before(SortList(r, m))
              <=> /\ x \in Range(r) /\ y \in Range(r) /\ x # y
                  /\ \/ m[x].priority < m[y].priority
                     \/ m[x].priority = m[y].priority /\ <<x, y>> \in Before(r)
    BY <1>8, <2>1, SortListFacts
  <2> HIDE DEF In
  <2> QED BY <2>1, <2>2, <2>3, <2>4
<1>10. s \in [Column -> Seq(Task)]
  <2>1. s = [c \in Column |-> s[c]]
    BY DEF ListsFromTasks
  <2> HIDE DEF s
  <2> QED BY <1>9, <2>1
<1> HIDE DEF s
<1>11. Once(s)
  BY <1>9, <1>10 DEF Once
<1>12. ASSUME NEW t \in Task
       PROVE  /\ \A c \in Column : c \in ListOf(s, t) <=> m[t].stage = c
              /\ ListOf(s, t) \subseteq Column
  <2>1. ListOf(s, t) \subseteq Column
    BY DEF ListOf
  <2>2. \A c \in Column : t \in Range(s[c]) <=> c \in ListOf(s, t)
    BY <1>11, OnceFacts
  <2> QED BY <1>9, <2>1, <2>2
<1>13. \A t \in Task : ListOf(s, t) # {} <=> m[t].stage \in Column
  BY <1>12
<1> DEFINE a == AsBoard(s, m)
           b == FromTasks(m, place)
<1>14. /\ a \in Board /\ a.tasks = m
       /\ \A t \in Task, c \in Column : a.column[t] = c <=> t \in Range(s[c])
       /\ \A t \in Task : a.column[t] = Absent <=> ListOf(s, t) = {}
       /\ \A x, y : <<x, y>> \in a.ahead <=> \E c \in Column : <<x, y>> \in Before(s[c])
  BY <1>11, AsBoardFacts
<1>15. b \in Board /\ b.tasks = m /\ \A t \in Task : b.column[t] = m[t].stage
  BY FromTasksFacts DEF FromTasks
<1> HIDE DEF a
<1>16. \A t \in Task : a.column[t] = b.column[t]
  BY <1>8, <1>9, <1>13, <1>14, <1>15, ColumnFacts
<1>17. ASSUME NEW x \in Task, NEW y \in Task
       PROVE  <<x, y>> \in a.ahead <=> <<x, y>> \in b.ahead
  <2>1. <<x, y>> \in b.ahead
           <=> /\ m[x].stage = m[y].stage /\ m[x].stage # Absent
               /\ \/ m[x].priority < m[y].priority
                  \/ m[x].priority = m[y].priority /\ place[x] < place[y]
    BY DEF FromTasks
  <2>2. ASSUME NEW c \in Column
        PROVE  <<x, y>> \in Before(s[c])
                  <=> /\ m[x].stage = c /\ m[y].stage = c /\ x # y
                      /\ \/ m[x].priority < m[y].priority
                         \/ m[x].priority = m[y].priority /\ place[x] < place[y]
    BY <1>7, <1>9
  <2>3. x # y \/ ~(m[x].priority < m[y].priority \/ place[x] < place[y])
    BY <1>5, <1>8
  <2>4. <<x, y>> \in a.ahead <=> \E c \in Column : <<x, y>> \in Before(s[c])
    BY <1>14
  <2> HIDE DEF b
  <2> QED BY <1>8, <2>1, <2>2, <2>3, <2>4, ColumnFacts
<1>18. a = b
  <2> HIDE DEF b
  <2> QED BY <1>14, <1>15, <1>16, <1>17, SameBoard
<1> QED BY <1>11, <1>13, <1>18 DEF s, a, place

-----------------------------------------------------------------------------
(* Every board the methods can make.                                       *)

\* The ids on the lists are those whose task the map has in a column.
ListsInv ==
    /\ Once(lists)
    /\ tasks \in [Task -> TaskState]
    /\ \A t \in Task : OnBoard(t) <=> tasks[t].stage \in Column

\* The tasks that are added are tasks.
LEMMA NewTaskFacts == \A s \in NewTasks : s \in TaskState /\ s.stage \in Column
<1> SUFFICES ASSUME NEW s \in NewTasks PROVE s \in TaskState /\ s.stage \in Column
  OBVIOUS
<1>1. PICK c \in Targets, p \in Levels : s = TaskFor(c, p)
  BY DEF NewTasks
<1>2. c \in Column /\ p \in Nat
  BY ListsAssumption
<1> QED BY <1>1, <1>2, TaskFacts DEF TaskState, TaskFor

LEMMA ListsInit == Init => ListsInv
<1> SUFFICES ASSUME Init PROVE ListsInv
  OBVIOUS
<1>1. tasks \in [Task -> TaskState]
  BY NewTaskFacts, TaskFacts DEF Init
<1>2. PICK order \in Orders : lists = ListsFromTasks(order, tasks)
  BY DEF Init
<1> QED BY <1>1, <1>2, ReloadFacts DEF ListsInv, OnBoard

\* A move, an addition and a change of priority keep the tasks of the lists.
LEMMA ListsStep == ListsInv /\ [Next]_listVars => ListsInv'
<1> SUFFICES ASSUME ListsInv, [Next]_listVars PROVE ListsInv'
  OBVIOUS
<1>1. /\ Once(lists) /\ tasks \in [Task -> TaskState]
      /\ \A t \in Task : ListOf(lists, t) # {} <=> tasks[t].stage \in Column
  BY DEF ListsInv, OnBoard
<1>2. ASSUME NEW l, Once(l), NEW m \in [Task -> TaskState], lists' = l, tasks' = m,
             \A u \in Task : AsBoard(l, m).column[u] # Absent <=> m[u].stage \in Column
      PROVE  ListsInv'
  BY <1>2, AsBoardFacts DEF ListsInv, OnBoard
<1>3. ASSUME NEW t \in Task, NEW c \in Targets, Move(t, c) PROVE ListsInv'
  <2> DEFINE l == AdvancedLists(lists, tasks, t, c)
             m == AdvancedTask(tasks, t, c)
             b == AsBoard(lists, tasks)
  <2>1. c \in Column
    BY ListsAssumption
  <2>2. Once(l) /\ AsBoard(l, m) = Advance(b, t, c) /\ m \in [Task -> TaskState]
    BY <1>1, <2>1, AdvancedAgrees, MapFacts
  <2>3. b \in Board /\ \A u \in Task : b.column[u] # Absent <=> tasks[u].stage \in Column
    BY <1>1, AsBoardFacts
  <2>4. \A u \in Task : Advance(b, t, c).column[u] = IF u = t THEN c ELSE b.column[u]
    <3>1. Advance(b, t, c).column = [b.column EXCEPT ![t] = c]
      BY <2>1, <2>3, AdvanceFacts
    <3>2. b.column \in [Task -> Column \cup {Absent}]
      BY <2>3 DEF Board
    <3> HIDE DEF b
    <3> QED BY <3>1, <3>2
  <2>5. \A u \in Task : m[u].stage = IF u = t THEN c ELSE tasks[u].stage
    BY <1>1, <2>1 DEF AdvancedTask, TaskState
  <2>6. \A u \in Task : AsBoard(l, m).column[u] # Absent <=> m[u].stage \in Column
    BY <2>1, <2>2, <2>3, <2>4, <2>5, ColumnFacts
  <2>7. lists' = l /\ tasks' = m
    BY <1>3 DEF Move
  <2> HIDE DEF l, m
  <2> QED BY <1>2, <2>2, <2>6, <2>7
<1>4. ASSUME NEW t \in Task, NEW s \in NewTasks, Add(t, s) PROVE ListsInv'
  <2> DEFINE l == AddedLists(lists, tasks, t, s)
             m == AddedTask(tasks, t, s)
             b == AsBoard(lists, tasks)
  <2>1. s \in TaskState /\ s.stage \in Column /\ ListOf(lists, t) = {}
    BY <1>4, NewTaskFacts DEF Add, OnBoard
  <2>2. Once(l) /\ AsBoard(l, m) = AddTask(b, t, s) /\ m \in [Task -> TaskState]
    <3>1. m \in [Task -> TaskState]
      BY <1>1, <2>1, MapFacts
    <3>2. Once(l) /\ AsBoard(l, m) = AddTask(b, t, s)
      BY <1>1, <2>1, AddedAgrees
    <3> QED BY <3>1, <3>2
  <2>3. b \in Board /\ \A u \in Task : b.column[u] # Absent <=> tasks[u].stage \in Column
    BY <1>1, AsBoardFacts
  <2>4. \A u \in Task : AddTask(b, t, s).column[u] = IF u = t THEN s.stage ELSE b.column[u]
    <3>1. AddTask(b, t, s).column = [b.column EXCEPT ![t] = s.stage]
      BY <2>1, <2>3, AddTaskFacts
    <3>2. b.column \in [Task -> Column \cup {Absent}]
      BY <2>3 DEF Board
    <3> HIDE DEF b
    <3> QED BY <3>1, <3>2
  <2>5. \A u \in Task : m[u] = IF u = t THEN s ELSE tasks[u]
    BY <1>1, <2>1 DEF AddedTask
  <2>6. \A u \in Task : AsBoard(l, m).column[u] # Absent <=> m[u].stage \in Column
    BY <2>1, <2>2, <2>3, <2>4, <2>5, ColumnFacts
  <2>7. lists' = l /\ tasks' = m
    BY <1>4 DEF Add
  <2> HIDE DEF l, m
  <2> QED BY <1>2, <2>2, <2>6, <2>7
<1>5. ASSUME NEW t \in Task, NEW p \in Levels, Rank(t, p) PROVE ListsInv'
  <2> DEFINE l == RankedLists(lists, tasks, t, p)
             m == RankedTask(tasks, t, p)
             b == AsBoard(lists, tasks)
  <2>1. p \in Nat /\ tasks[t].stage \in Column
    BY <1>1, <1>5, ListsAssumption DEF Rank, OnBoard
  <2>2. Once(l) /\ AsBoard(l, m) = SetPriority(b, t, p) /\ m \in [Task -> TaskState]
    BY <1>1, <2>1, RankedAgrees, MapFacts
  <2>3. b \in Board /\ \A u \in Task : b.column[u] # Absent <=> tasks[u].stage \in Column
    BY <1>1, AsBoardFacts
  <2>4. SetPriority(b, t, p).column = b.column
    BY <2>1, <2>3, SetPriorityFacts
  <2>5. \A u \in Task : m[u].stage = tasks[u].stage
    BY <1>1 DEF RankedTask, TaskState
  <2>6. \A u \in Task : AsBoard(l, m).column[u] # Absent <=> m[u].stage \in Column
    BY <2>2, <2>3, <2>4, <2>5
  <2>7. lists' = l /\ tasks' = m
    BY <1>5 DEF Rank
  <2> HIDE DEF l, m
  <2> QED BY <1>2, <2>2, <2>6, <2>7
<1>6. ASSUME NEW t \in Task, NEW c \in Targets, NEW p \in Levels, NEW u \in Task,
             Overwrite(t, c, p, {u} \ {t})
      PROVE  ListsInv'
  <2>1. c \in Column /\ p \in Nat /\ {u} \ {t} \in SUBSET Task
    BY ListsAssumption
  <2> DEFINE s == [tasks[t] EXCEPT !.stage = c, !.priority = p, !.blockedBy = {u} \ {t}]
  <2>2. tasks' = [tasks EXCEPT ![t] = s] /\ lists' = lists /\ OnBoard(t)
    BY <1>1, <1>6 DEF Overwrite
  <2>3. s \in TaskState /\ s.stage = c
    <3>1. tasks[t] \in TaskState
      BY <1>1
    <3> DEFINE x == tasks[t]
               left == {u} \ {t}
    <3>2. s = [x EXCEPT !.stage = c, !.priority = p, !.blockedBy = left]
      OBVIOUS
    <3> HIDE DEF x, left, s
    <3> QED BY <2>1, <3>1, <3>2 DEF TaskState, x, left
  <2> HIDE DEF s
  <2>4. tasks' \in [Task -> TaskState] /\ \A v \in Task : tasks'[v] = IF v = t THEN s ELSE tasks[v]
    BY <1>1, <2>2, <2>3
  <2> QED BY <1>1, <2>1, <2>2, <2>3, <2>4 DEF ListsInv, OnBoard
<1>7. CASE UNCHANGED listVars
  BY <1>1, <1>7 DEF ListsInv, OnBoard, listVars
<1> QED BY <1>3, <1>4, <1>5, <1>6, <1>7 DEF Next

LEMMA ListsInvariant == ListsSpec => []ListsInv
BY ListsInit, ListsStep, PTL DEF ListsSpec

\* A task is in one list at most and there once, whatever is moved, added or
\* re-sorted, also while the map disagrees with the lists.
THEOREM IdsListedOnce == ListsSpec => []ListedOnce
<1>1. ListsInv => ListedOnce
  <2> SUFFICES ASSUME ListsInv, NEW t \in Task
               PROVE  /\ Cardinality(ListOf(lists, t)) <= 1
                      /\ \A c \in Column : Cardinality({i \in DOMAIN lists[c] : lists[c][i] = t}) <= 1
    BY DEF ListedOnce
  <2>1. Once(lists)
    BY DEF ListsInv
  <2>2. ASSUME NEW S, \A x, y \in S : x = y PROVE Cardinality(S) <= 1
    <3>1. CASE S = {}
      BY <3>1, FS_EmptySet
    <3>2. CASE S # {}
      <4>1. PICK x \in S : TRUE
        BY <3>2
      <4>2. S = {x}
        BY <2>2, <4>1
      <4> QED BY <4>2, FS_Singleton
    <3> QED BY <3>1, <3>2
  <2>3. \A c, d \in ListOf(lists, t) : c = d
    <3>1. ListOf(lists, t) \subseteq Column
      BY DEF ListOf
    <3> QED BY <2>1, <3>1, OnceFacts DEF Once
  <2>4. ASSUME NEW c \in Column
        PROVE  \A i, j \in {k \in DOMAIN lists[c] : lists[c][k] = t} : i = j
    BY <2>1, OnceFacts DEF IsInjective
  <2> QED BY <2>2, <2>3, <2>4
<1> QED BY <1>1, ListsInvariant, PTL

\* Each method of the stored board does to it what the operator of its name
\* does to the board with a relation for its order, on which everything else
\* here is proved.
THEOREM ListsImplementBoard == ListsSpec => []OperationsAgree
<1>1. ListsInv => OperationsAgree
  <2> SUFFICES ASSUME ListsInv PROVE OperationsAgree
    OBVIOUS
  <2>1. /\ Once(lists) /\ tasks \in [Task -> TaskState]
        /\ \A t \in Task : OnBoard(t) <=> tasks[t].stage \in Column
        /\ \A t \in Task : OnBoard(t) <=> ListOf(lists, t) # {}
    BY DEF ListsInv, OnBoard
  <2>2. ASSUME NEW t \in Task, OnBoard(t), NEW c \in Targets
        PROVE  AsBoard(AdvancedLists(lists, tasks, t, c), AdvancedTask(tasks, t, c))
                  = Advance(AsBoard(lists, tasks), t, c)
    <3>1. c \in Column
      BY ListsAssumption
    <3> QED BY <2>1, <3>1, AdvancedAgrees
  <2>3. ASSUME NEW t \in Task, OnBoard(t), NEW p \in Levels
        PROVE  AsBoard(RankedLists(lists, tasks, t, p), RankedTask(tasks, t, p))
                  = SetPriority(AsBoard(lists, tasks), t, p)
    <3>1. p \in Nat /\ tasks[t].stage \in Column
      BY <2>1, <2>3, ListsAssumption
    <3> QED BY <2>1, <3>1, RankedAgrees
  <2>4. ASSUME NEW t \in Task, ~OnBoard(t), NEW s \in NewTasks
        PROVE  AsBoard(AddedLists(lists, tasks, t, s), AddedTask(tasks, t, s))
                  = AddTask(AsBoard(lists, tasks), t, s)
    <3>1. s \in TaskState /\ s.stage \in Column /\ ListOf(lists, t) = {}
      BY <2>1, <2>4, NewTaskFacts
    <3> QED BY <2>1, <3>1, AddedAgrees
  <2>5. ASSUME NEW c \in Targets
        PROVE  FirstReady(lists, tasks, c) = NextUnblocked(AsBoard(lists, tasks), c)
    <3>1. c \in Column
      BY ListsAssumption
    <3>2. \A u \in Task : tasks[u].stage = Done => ListOf(lists, u) # {}
      BY <2>1, ColumnFacts
    <3> QED BY <2>1, <3>1, <3>2, FirstReadyAgrees
  <2> QED BY <2>2, <2>3, <2>4, <2>5, Zenon DEF OperationsAgree
<1> QED BY <1>1, ListsInvariant, PTL

\* A board that is stored and loaded again has every task in the column of its
\* stage, by priority, whatever order the files are found in.
THEOREM ReloadsAgree == ListsSpec => []ReloadAgrees
<1>1. ListsInv => ReloadAgrees
  BY ReloadFacts DEF ListsInv, ReloadAgrees
<1> QED BY <1>1, ListsInvariant, PTL

=============================================================================
