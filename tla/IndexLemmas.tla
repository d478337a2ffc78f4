------------------------------ MODULE IndexLemmas ------------------------------
(* What the proofs about queues and records use of sets of indices, of iterating a step
   along them, of filtering a list, and of the file a list is saved to.         *)
EXTENDS DurableFact, Filtering, Integers, FiniteSets, SequencesExt, FiniteSetTheorems,
        SequenceTheorems, WellFoundedInduction, TLAPS

\* A non-empty set of indices has a least one.
LEMMA LeastIndex ==
    ASSUME NEW n \in Nat, NEW S \in SUBSET (1 .. n), S # {}
    PROVE  \E i \in S : \A j \in S : i <= j
<1> DEFINE upto(i) == S \cap (1 .. i)
           T       == {upto(i) : i \in S}
<1>1. T \subseteq FiniteSubsetsOf(1 .. n) /\ T # {}
  <2>1. \A i \in S : IsFiniteSet(upto(i)) /\ upto(i) \subseteq 1 .. n
    BY FS_Interval, FS_Subset
  <2> QED
    BY <2>1 DEF FiniteSubsetsOf
<1>2. \E X \in T : \A Y \in T : ~(<<Y, X>> \in StrictSubsetOrdering(1 .. n))
  BY <1>1, FS_StrictSubsetOrderingWellFounded, WFMin
<1>3. PICK i \in S : \A j \in S : ~(<<upto(j), upto(i)>> \in StrictSubsetOrdering(1 .. n))
  BY <1>2
<1>4. ASSUME NEW j \in S, j < i PROVE FALSE
  <2>1. upto(j) \subseteq upto(i) /\ i \in upto(i) /\ i \notin upto(j)
    BY <1>4
  <2>2. <<upto(j), upto(i)>> \in StrictSubsetOrdering(1 .. n)
    BY <2>1 DEF StrictSubsetOrdering
  <2> QED
    BY <1>3, <2>2
<1> QED
  BY <1>4

\* What holds at no least index holds at none: induction along 1 .. n for a set of indices.
LEMMA Along ==
    ASSUME NEW n \in Nat, NEW G \in SUBSET (0 .. n), 0 \in G,
           \A i \in 1 .. n : i - 1 \in G => i \in G
    PROVE  G = 0 .. n
<1> DEFINE bad == (1 .. n) \ G
<1>1. CASE bad = {}
  <2>1. \A i \in 0 .. n : i \in G
    BY <1>1
  <2> QED
    BY <2>1
<1>2. CASE bad # {}
  <2>1. PICK i \in bad : \A j \in bad : i <= j
    BY <1>2, LeastIndex
  <2>2. i - 1 \in G
    BY <2>1
  <2> QED
    BY <2>1, <2>2
<1> QED
  BY <1>1, <1>2

\* f is the values that n steps g pass through from a.
Steps(n, X) == [1 .. n -> [X -> X]]
IsWay(f, n, X, a, g) == /\ f \in [0 .. n -> X]
                        /\ f[0] = a
                        /\ \A i \in 1 .. n : f[i] = g[i][f[i - 1]]

\* Steps taken one after the other from a start do pass through such values.
LEMMA Iterates ==
    ASSUME NEW n \in Nat, NEW X, NEW a \in X, NEW g \in Steps(n, X)
    PROVE  \E f : IsWay(f, n, X, a, g)
<1> USE DEF Steps
<1> DEFINE way(f, k) == f[0] = a /\ \A i \in 1 .. k : f[i] = g[i][f[i - 1]]
           G == {k \in 0 .. n : \E f \in [0 .. k -> X] : way(f, k)}
<1>1. 0 \in G
  <2> DEFINE h == [i \in 0 .. 0 |-> a]
  <2>1. h \in [0 .. 0 -> X] /\ way(h, 0)
    OBVIOUS
  <2>2. \E f \in [0 .. 0 -> X] : way(f, 0)
    BY <2>1
  <2> HIDE DEF h
  <2> QED
    BY <2>2
<1>2. ASSUME NEW k \in 1 .. n, k - 1 \in G PROVE k \in G
  <2>1. PICK f \in [0 .. k - 1 -> X] : way(f, k - 1)
    BY <1>2
  <2> DEFINE h == [i \in 0 .. k |-> IF i = k THEN g[k][f[k - 1]] ELSE f[i]]
  <2>2. h \in [0 .. k -> X]
    OBVIOUS
  <2>3. way(h, k)
    <3>1. h[0] = a
      BY <2>1
    <3>2. ASSUME NEW i \in 1 .. k PROVE h[i] = g[i][h[i - 1]]
      <4>1. h[i - 1] = f[i - 1]
        OBVIOUS
      <4> QED
        BY <4>1, <2>1
    <3> QED
      BY <3>1, <3>2
  <2> HIDE DEF h
  <2> HIDE DEF way
  <2>4. \E e \in [0 .. k -> X] : way(e, k)
    BY <2>2, <2>3
  <2> QED
    BY <2>4
<1>3. n \in G
  <2>1. G \in SUBSET (0 .. n)
    OBVIOUS
  <2> HIDE DEF G
  <2> QED
    BY <1>1, <1>2, <2>1, Along
<1> QED
  BY <1>3 DEF IsWay

-------------------------------------------------------------------------------
(* Only                                                                        *)

\* f is what Only has picked of q up to each index.
OnlyWay(f, S, q, A) ==
    /\ f \in [0 .. Len(q) -> Seq(S)]
    /\ f[0] = << >>
    /\ \A i \in 1 .. Len(q) : f[i] = IF q[i] \in A THEN Append(f[i - 1], q[i]) ELSE f[i - 1]
    /\ Only(q, A) = f[Len(q)]

\* The recursion by which Only is defined has a solution, so that it is what Only computes.
LEMMA OnlyUnfolds ==
    ASSUME NEW S, NEW q \in Seq(S), NEW A
    PROVE  \E f : OnlyWay(f, S, q, A)
<1> DEFINE n == Len(q)
           nil == << >>
           X == Seq(S)
           step(t, i) == IF q[i] \in A THEN Append(t, q[i]) ELSE t
           g == [i \in 1 .. n |-> [t \in X |-> step(t, i)]]
           along(f) == [i \in 0 .. n |-> IF i = 0 THEN nil ELSE step(f[i - 1], i)]
           F == CHOOSE f : f = along(f)
<1>1. n \in Nat /\ nil \in X /\ \A i \in 1 .. n : \A t \in X : step(t, i) \in X
  BY LenProperties, ElementOfSeq
<1>2. Only(q, A) = F[n]
  BY DEF Only
<1> HIDE DEF n, nil, X, step
<1>3. g \in Steps(n, X)
  BY <1>1 DEF Steps
<1>4. PICK f : IsWay(f, n, X, nil, g)
  <2> HIDE DEF g
  <2> QED
    BY <1>1, <1>3, Iterates
<1>5. f \in [0 .. n -> X] /\ f[0] = nil /\ \A i \in 1 .. n : f[i] = g[i][f[i - 1]]
  BY <1>4 DEF IsWay
<1>6. \A i \in 1 .. n : f[i - 1] \in X /\ f[i] = step(f[i - 1], i)
  BY <1>1, <1>5
<1>7. f = along(f)
  <2>1. \A i \in 0 .. n : f[i] = along(f)[i]
    BY <1>1, <1>5, <1>6
  <2> QED
    BY <2>1, <1>5
<1>8. F = along(F)
  <2> HIDE DEF along
  <2> QED
    BY <1>7
<1> HIDE DEF F
<1>9. F[0] = nil /\ \A i \in 1 .. n : F[i] = step(F[i - 1], i)
  <2>1. \A i \in 0 .. n : F[i] = along(F)[i]
    BY <1>8
  <2>2. \A i \in 0 .. n : F[i] = IF i = 0 THEN nil ELSE step(F[i - 1], i)
    BY <2>1
  <2> QED
    BY <2>2, <1>1
<1>10. F \in [0 .. n -> X]
  <2> DEFINE G == {i \in 0 .. n : F[i] \in X}
  <2>1. 0 \in G
    BY <1>1, <1>9
  <2>2. ASSUME NEW i \in 1 .. n, i - 1 \in G PROVE i \in G
    BY <1>1, <1>9, <2>2
  <2>3. G = 0 .. n
    <3>1. G \in SUBSET (0 .. n)
      OBVIOUS
    <3> HIDE DEF G
    <3> QED
      BY <1>1, <2>1, <2>2, <3>1, Along
  <2>4. \A i \in 0 .. n : F[i] \in X
    BY <2>3
  <2> QED
    BY <2>4, <1>8
<1> QED
  BY <1>2, <1>9, <1>10 DEF n, nil, X, step, OnlyWay

\* Only returns a list of entries of q.
LEMMA OnlyType ==
    ASSUME NEW S, NEW q \in Seq(S), NEW A
    PROVE  Only(q, A) \in Seq(S) /\ Len(Only(q, A)) \in Nat
<1>1. PICK f : OnlyWay(f, S, q, A)
  BY OnlyUnfolds
<1>2. Only(q, A) \in Seq(S)
  BY <1>1, LenProperties DEF OnlyWay
<1> QED
  BY <1>2, LenProperties

\* t holds those of q's first n entries that are in A, in the order they have in q.
Picks(t, q, n, A) ==
    /\ \A a \in 1 .. Len(t) : t[a] \in A /\ \E j \in 1 .. n : t[a] = q[j]
    /\ \A j \in 1 .. n : q[j] \in A => \E a \in 1 .. Len(t) : t[a] = q[j]
    /\ \A a, b \in 1 .. Len(t) : a < b =>
           \E j, k \in 1 .. n : j < k /\ t[a] = q[j] /\ t[b] = q[k]

LEMMA OnlyPicks ==
    ASSUME NEW S, NEW q \in Seq(S), NEW A
    PROVE  Picks(Only(q, A), q, Len(q), A)
<1>0. PICK f : OnlyWay(f, S, q, A)
  BY OnlyUnfolds
<1>1. /\ f \in [0 .. Len(q) -> Seq(S)]
      /\ f[0] = << >>
      /\ \A i \in 1 .. Len(q) :
             f[i] = IF q[i] \in A THEN Append(f[i - 1], q[i]) ELSE f[i - 1]
      /\ Only(q, A) = f[Len(q)]
  BY <1>0 DEF OnlyWay
<1>2. Len(q) \in Nat /\ \A i \in 1 .. Len(q) : q[i] \in S
  BY LenProperties, ElementOfSeq
<1> DEFINE G == {i \in 0 .. Len(q) : Picks(f[i], q, i, A)}
<1>3. 0 \in G
  BY <1>1, <1>2 DEF Picks
<1>4. ASSUME NEW i \in 1 .. Len(q), i - 1 \in G PROVE i \in G
  <2> DEFINE t == f[i - 1]
             u == f[i]
  <2>1. t \in Seq(S) /\ Len(t) \in Nat /\ q[i] \in S
    BY <1>1, <1>2, LenProperties
  <2>2. Picks(t, q, i - 1, A)
    BY <1>4
  <2>3. CASE q[i] \notin A
    <3>1. u = t
      BY <1>1, <2>3
    <3> HIDE DEF t, u
    <3>2. Picks(t, q, i, A)
      BY <2>2, <2>3, <1>2 DEF Picks
    <3> QED
      BY <3>1, <3>2 DEF u
  <2>4. CASE q[i] \in A
    <3>1. u = Append(t, q[i])
      BY <1>1, <2>4
    <3> HIDE DEF t, u
    <3>2. /\ Len(u) = Len(t) + 1 /\ u[Len(u)] = q[i]
          /\ \A a \in 1 .. Len(t) : u[a] = t[a]
      BY <2>1, <3>1, AppendProperties
    <3>3. ASSUME NEW a \in 1 .. Len(u)
          PROVE  u[a] \in A /\ \E j \in 1 .. i : u[a] = q[j]
      <4>1. CASE a = Len(u)
        BY <2>4, <3>2, <4>1
      <4>2. CASE a # Len(u)
        <5>1. a \in 1 .. Len(t) /\ u[a] = t[a]
          BY <2>1, <3>2, <4>2
        <5>2. PICK j \in 1 .. i - 1 : t[a] = q[j]
          BY <2>2, <5>1 DEF Picks
        <5> QED
          BY <2>2, <5>1, <5>2 DEF Picks
      <4> QED
        BY <4>1, <4>2
    <3>4. ASSUME NEW j \in 1 .. i, q[j] \in A
          PROVE  \E a \in 1 .. Len(u) : u[a] = q[j]
      <4>1. CASE j = i
        <5>1. Len(u) \in 1 .. Len(u)
          BY <2>1, <3>2
        <5> QED
          BY <3>2, <4>1, <5>1
      <4>2. CASE j # i
        <5>1. PICK a \in 1 .. Len(t) : t[a] = q[j]
          BY <2>2, <3>4, <4>2 DEF Picks
        <5> QED
          BY <2>1, <3>2, <5>1
      <4> QED
        BY <4>1, <4>2
    <3>5. ASSUME NEW a \in 1 .. Len(u), NEW b \in 1 .. Len(u), a < b
          PROVE  \E j, k \in 1 .. i : j < k /\ u[a] = q[j] /\ u[b] = q[k]
      <4>1. a \in 1 .. Len(t) /\ u[a] = t[a]
        BY <2>1, <3>2, <3>5
      <4>2. CASE b = Len(u)
        <5>1. PICK j \in 1 .. i - 1 : t[a] = q[j]
          BY <2>2, <4>1 DEF Picks
        <5> QED
          BY <5>1, <4>1, <4>2, <3>2
      <4>3. CASE b # Len(u)
        <5>1. b \in 1 .. Len(t) /\ u[b] = t[b]
          BY <2>1, <3>2, <4>3
        <5>2. PICK j, k \in 1 .. i - 1 : j < k /\ t[a] = q[j] /\ t[b] = q[k]
          BY <2>2, <3>5, <4>1, <5>1 DEF Picks
        <5> QED
          BY <5>1, <5>2, <4>1
      <4> QED
        BY <4>2, <4>3
    <3>6. Picks(u, q, i, A)
      BY <3>3, <3>4, <3>5 DEF Picks
    <3> QED
      BY <3>6 DEF u
  <2> QED
    BY <2>3, <2>4
<1>5. Len(q) \in G
  <2>1. G \in SUBSET (0 .. Len(q))
    OBVIOUS
  <2> HIDE DEF G
  <2> QED
    BY <1>2, <1>3, <1>4, <2>1, Along
<1> QED
  BY <1>1, <1>5

\* Filtering a list that grows at its end.
LEMMA OnlyAppend ==
    ASSUME NEW S, NEW q \in Seq(S), NEW m \in S, NEW A
    PROVE  Only(Append(q, m), A) = IF m \in A THEN Append(Only(q, A), m) ELSE Only(q, A)
<1> DEFINE all == Append(q, m)
           n   == Len(q)
<1>1. /\ n \in Nat /\ all \in Seq(S) /\ Len(all) = n + 1 /\ all[n + 1] = m
      /\ \A i \in 1 .. n : all[i] = q[i]
  BY AppendProperties, LenProperties
<1> HIDE DEF all
<1>2. PICK f : OnlyWay(f, S, q, A)
  BY OnlyUnfolds
<1>3. PICK g : OnlyWay(g, S, all, A)
  BY <1>1, OnlyUnfolds
<1> DEFINE G == {i \in 0 .. n : f[i] = g[i]}
<1>4. G = 0 .. n
  <2>1. 0 \in G
    BY <1>1, <1>2, <1>3 DEF OnlyWay
  <2>2. ASSUME NEW i \in 1 .. n, i - 1 \in G PROVE i \in G
    <3>1. i \in 1 .. n + 1 /\ all[i] = q[i] /\ f[i - 1] = g[i - 1]
      BY <1>1, <2>2
    <3>2. f[i] = g[i]
      BY <1>1, <1>2, <1>3, <3>1 DEF OnlyWay
    <3> QED
      BY <3>2
  <2>3. G \in SUBSET (0 .. n)
    OBVIOUS
  <2> HIDE DEF G
  <2> QED
    BY <1>1, <2>1, <2>2, <2>3, Along
<1>5. f[n] = g[n]
  <2>1. n \in G
    BY <1>1, <1>4
  <2> QED
    BY <2>1
<1>6. /\ Only(q, A) = f[n] /\ Only(all, A) = g[n + 1]
      /\ g[n + 1] = IF m \in A THEN Append(g[n], m) ELSE g[n]
  <2>1. n + 1 \in 1 .. n + 1 /\ (n + 1) - 1 = n
    BY <1>1
  <2> QED
    BY <1>1, <1>2, <1>3, <2>1 DEF OnlyWay
<1> QED
  BY <1>5, <1>6 DEF all

\* s is x, and then t.
Leads(x, t, s) == /\ Len(s) = Len(t) + 1
                  /\ s[1] = x
                  /\ \A i \in 1 .. Len(t) : s[i + 1] = t[i]

\* Filtering a list that loses its head.
LEMMA OnlyTail ==
    ASSUME NEW S, NEW q \in Seq(S), q # << >>, NEW A
    PROVE  IF q[1] \in A THEN Leads(q[1], Only(Tail(q), A), Only(q, A))
           ELSE Only(Tail(q), A) = Only(q, A)
<1> DEFINE rest == Tail(q)
           n    == Len(q) - 1
           R(t, s) == IF q[1] \in A THEN Leads(q[1], t, s) ELSE t = s
<1>1. /\ n \in Nat /\ rest \in Seq(S) /\ Len(rest) = n /\ Len(q) = n + 1
      /\ \A i \in 1 .. n : rest[i] = q[i + 1] /\ rest[i] \in S
      /\ q[1] \in S
  BY HeadTailProperties, LenProperties, EmptySeq, ElementOfSeq
<1> HIDE DEF rest, n
<1>2. PICK f : OnlyWay(f, S, rest, A)
  BY <1>1, OnlyUnfolds
<1>3. PICK g : OnlyWay(g, S, q, A)
  BY OnlyUnfolds
<1> DEFINE G == {i \in 0 .. n : R(f[i], g[i + 1])}
<1>f. /\ f \in [0 .. n -> Seq(S)] /\ f[0] = << >>
      /\ \A i \in 1 .. n : f[i] = IF rest[i] \in A THEN Append(f[i - 1], rest[i]) ELSE f[i - 1]
  BY <1>1, <1>2 DEF OnlyWay
<1>g. /\ g \in [0 .. n + 1 -> Seq(S)] /\ g[0] = << >>
      /\ \A i \in 1 .. n + 1 : g[i] = IF q[i] \in A THEN Append(g[i - 1], q[i]) ELSE g[i - 1]
  BY <1>1, <1>3 DEF OnlyWay
<1>4. 0 \in G
  <2>0. 1 \in 1 .. n + 1 /\ 1 - 1 = 0
    BY <1>1
  <2>1. /\ f[0] = << >> /\ g[0] = << >>
        /\ g[1] = IF q[1] \in A THEN Append(g[0], q[1]) ELSE g[0]
    BY <1>f, <1>g, <2>0
  <2>2. CASE q[1] \in A
    <3>1. g[1] = Append(<< >>, q[1]) /\ << >> \in Seq(S) /\ Len(<< >>) = 0
      BY <2>1, <2>2
    <3>2. Len(g[1]) = 1 /\ g[1][1] = q[1]
      BY <1>1, <3>1, AppendProperties
    <3>3. R(f[0], g[1])
      BY <2>1, <2>2, <3>1, <3>2 DEF Leads
    <3> QED
      BY <1>1, <3>3
  <2>3. CASE q[1] \notin A
    BY <1>1, <2>1, <2>3
  <2> QED
    BY <2>2, <2>3
<1>5. ASSUME NEW i \in 1 .. n, i - 1 \in G PROVE i \in G
  <2> DEFINE t == f[i - 1]
             s == g[i]
             y == rest[i]
  <2>1. i - 1 \in 0 .. n /\ i \in 0 .. n + 1 /\ i + 1 \in 1 .. n + 1 /\ (i - 1) + 1 = i
    BY <1>1
  <2>2. /\ t \in Seq(S) /\ s \in Seq(S) /\ y \in S /\ y = q[i + 1] /\ R(t, s)
        /\ f[i] = IF y \in A THEN Append(t, y) ELSE t
        /\ g[i + 1] = IF y \in A THEN Append(s, y) ELSE s
    <3>1. t \in Seq(S) /\ s \in Seq(S) /\ y \in S /\ y = q[i + 1]
      BY <1>1, <1>f, <1>g, <2>1
    <3>2. R(t, s)
      BY <1>5, <2>1
    <3>3. f[i] = IF y \in A THEN Append(t, y) ELSE t
      BY <1>f
    <3>4. (i + 1) - 1 = i /\ q[i + 1] = y
      BY <1>1, <3>1
    <3>5. g[i + 1] = IF q[i + 1] \in A THEN Append(g[(i + 1) - 1], q[i + 1]) ELSE g[(i + 1) - 1]
      BY <1>g, <2>1
    <3> QED
      BY <3>1, <3>2, <3>3, <3>4, <3>5
  <2> HIDE DEF t, s, y
  <2>3. R(f[i], g[i + 1])
    <3>1. CASE y \notin A \/ q[1] \notin A
      BY <2>2, <3>1
    <3>2. CASE y \in A /\ q[1] \in A
      <4>1. /\ Len(t) \in Nat /\ Len(s) = Len(t) + 1 /\ s[1] = q[1]
            /\ \A j \in 1 .. Len(t) : s[j + 1] = t[j]
        BY <2>2, <3>2, LenProperties DEF Leads
      <4> DEFINE tt == Append(t, y)
                 ss == Append(s, y)
      <4>2. /\ Len(tt) = Len(t) + 1 /\ tt[Len(t) + 1] = y
            /\ \A j \in 1 .. Len(t) : tt[j] = t[j]
            /\ Len(ss) = Len(s) + 1 /\ ss[Len(s) + 1] = y
            /\ \A j \in 1 .. Len(s) : ss[j] = s[j]
        BY <2>2, AppendProperties
      <4> HIDE DEF tt, ss
      <4>3. \A j \in 1 .. Len(tt) : ss[j + 1] = tt[j]
        <5>1. ASSUME NEW j \in 1 .. Len(tt) PROVE ss[j + 1] = tt[j]
          <6>1. CASE j = Len(t) + 1
            BY <4>1, <4>2, <6>1
          <6>2. CASE j # Len(t) + 1
            <7>1. j \in 1 .. Len(t) /\ j + 1 \in 1 .. Len(s)
              BY <4>1, <4>2, <6>2
            <7> QED
              BY <4>1, <4>2, <7>1
          <6> QED
            BY <6>1, <6>2
        <5> QED
          BY <5>1
      <4>4. Leads(q[1], tt, ss)
        <5>1. 1 \in 1 .. Len(s)
          BY <4>1
        <5> QED
          BY <4>1, <4>2, <4>3, <5>1 DEF Leads
      <4> QED
        BY <2>2, <3>2, <4>4 DEF tt, ss
    <3> QED
      BY <3>1, <3>2
  <2> QED
    BY <2>1, <2>3
<1>6. n \in G
  <2>1. G \in SUBSET (0 .. n)
    OBVIOUS
  <2> HIDE DEF G
  <2>2. G = 0 .. n
    BY <1>1, <1>4, <1>5, <2>1, Along
  <2> QED
    BY <1>1, <2>2
<1> QED
  BY <1>1, <1>2, <1>3, <1>6 DEF OnlyWay, rest

-------------------------------------------------------------------------------
(* Lists made from a list: their entries, that they hold each once, and their order. *)

\* The entries of t come from q, in the order they have there.
InOrder(t, q) ==
    /\ \A a \in DOMAIN t : \E j \in DOMAIN q : t[a] = q[j]
    /\ \A a, b \in DOMAIN t : a < b =>
           \E j, k \in DOMAIN q : j < k /\ t[a] = q[j] /\ t[b] = q[k]

LEMMA InOrderIsSub ==
    ASSUME NEW S, NEW q \in Seq(S), NEW t \in Seq(S), InOrder(t, q)
    PROVE  ToSet(t) \subseteq ToSet(q) /\ (IsInjective(q) => IsInjective(t))
<1>1. ToSet(t) \subseteq ToSet(q)
  BY DEF InOrder, ToSet
<1>2. ASSUME IsInjective(q), NEW a \in DOMAIN t, NEW b \in DOMAIN t, t[a] = t[b], a < b
      PROVE  FALSE
  <2>1. PICK j, k \in DOMAIN q : j < k /\ t[a] = q[j] /\ t[b] = q[k]
    BY <1>2 DEF InOrder
  <2>2. j \in Nat /\ k \in Nat
    BY LenProperties
  <2>3. q[j] = q[k]
    BY <1>2, <2>1
  <2>4. j = k
    BY <1>2, <2>3 DEF IsInjective
  <2> QED
    BY <2>1, <2>2, <2>4
<1>3. \A a \in DOMAIN t : a \in Nat
  BY LenProperties
<1> QED
  BY <1>1, <1>2, <1>3 DEF IsInjective

LEMMA InOrderIn ==
    ASSUME NEW S, NEW q \in Seq(S), NEW t \in Seq(S), NEW u \in Seq(S),
           InOrder(t, q), InOrder(u, t)
    PROVE  InOrder(u, q)
<1>1. \A a \in DOMAIN u : \E j \in DOMAIN q : u[a] = q[j]
  <2>1. ASSUME NEW a \in DOMAIN u PROVE \E j \in DOMAIN q : u[a] = q[j]
    <3>1. PICK b \in DOMAIN t : u[a] = t[b]
      BY DEF InOrder
    <3>2. PICK j \in DOMAIN q : t[b] = q[j]
      BY DEF InOrder
    <3> QED
      BY <3>1, <3>2
  <2> QED
    BY <2>1
<1>2. ASSUME NEW a \in DOMAIN u, NEW b \in DOMAIN u, a < b
      PROVE  \E j, k \in DOMAIN q : j < k /\ u[a] = q[j] /\ u[b] = q[k]
  <2>1. PICK c, d \in DOMAIN t : c < d /\ u[a] = t[c] /\ u[b] = t[d]
    BY <1>2 DEF InOrder
  <2>2. PICK j, k \in DOMAIN q : j < k /\ t[c] = q[j] /\ t[d] = q[k]
    BY <2>1 DEF InOrder
  <2> QED
    BY <2>1, <2>2
<1> QED
  BY <1>1, <1>2 DEF InOrder

LEMMA OnlyList ==
    ASSUME NEW S, NEW q \in Seq(S), NEW A
    PROVE  /\ Only(q, A) \in Seq(S)
           /\ ToSet(Only(q, A)) = ToSet(q) \cap A
           /\ InOrder(Only(q, A), q)
           /\ IsInjective(q) => IsInjective(Only(q, A))
<1> DEFINE t == Only(q, A)
<1>1. t \in Seq(S) /\ DOMAIN t = 1 .. Len(t) /\ DOMAIN q = 1 .. Len(q)
  BY OnlyType, LenProperties
<1>2. Picks(t, q, Len(q), A)
  BY OnlyPicks
<1> HIDE DEF t
<1>3. ToSet(t) = ToSet(q) \cap A
  <2>1. ToSet(t) = {t[i] : i \in 1 .. Len(t)} /\ ToSet(q) = {q[i] : i \in 1 .. Len(q)}
    BY <1>1 DEF ToSet
  <2>2. ASSUME NEW a \in 1 .. Len(t) PROVE t[a] \in A /\ \E j \in 1 .. Len(q) : t[a] = q[j]
    BY <1>2 DEF Picks
  <2>3. ASSUME NEW j \in 1 .. Len(q), q[j] \in A PROVE \E a \in 1 .. Len(t) : t[a] = q[j]
    BY <1>2, <2>3 DEF Picks
  <2> QED
    BY <2>1, <2>2, <2>3
<1>4. InOrder(t, q)
  <2>1. \A a \in DOMAIN t : \E j \in DOMAIN q : t[a] = q[j]
    BY <1>1, <1>2 DEF Picks
  <2>2. \A a, b \in 1 .. Len(t) : a < b =>
            \E j, k \in 1 .. Len(q) : j < k /\ t[a] = q[j] /\ t[b] = q[k]
    BY <1>2 DEF Picks
  <2>3. ASSUME NEW a \in DOMAIN t, NEW b \in DOMAIN t, a < b
        PROVE  \E j, k \in DOMAIN q : j < k /\ t[a] = q[j] /\ t[b] = q[k]
    <3>1. PICK j, k \in 1 .. Len(q) : j < k /\ t[a] = q[j] /\ t[b] = q[k]
      BY <1>1, <2>2, <2>3
    <3> QED
      BY <1>1, <3>1
  <2> QED
    BY <2>1, <2>3 DEF InOrder
<1> QED
  BY <1>1, <1>3, <1>4, InOrderIsSub DEF t

LEMMA AppendList ==
    ASSUME NEW S, NEW q \in Seq(S), NEW m \in S
    PROVE  /\ Append(q, m) \in Seq(S)
           /\ ToSet(Append(q, m)) = ToSet(q) \cup {m}
           /\ IsInjective(q) /\ m \notin ToSet(q) => IsInjective(Append(q, m))
<1> DEFINE t == Append(q, m)
<1>1. /\ t \in Seq(S) /\ Len(q) \in Nat /\ DOMAIN t = 1 .. Len(q) + 1
      /\ DOMAIN q = 1 .. Len(q) /\ t[Len(q) + 1] = m
      /\ \A i \in 1 .. Len(q) : t[i] = q[i]
  BY AppendProperties, LenProperties
<1> HIDE DEF t
<1>2. ToSet(t) = ToSet(q) \cup {m}
  <2>1. \A i \in DOMAIN t : t[i] \in ToSet(q) \cup {m}
    BY <1>1 DEF ToSet
  <2>2. m \in ToSet(t) /\ \A i \in DOMAIN q : q[i] \in ToSet(t)
    BY <1>1 DEF ToSet
  <2> QED
    BY <2>1, <2>2 DEF ToSet
<1>3. ASSUME IsInjective(q), m \notin ToSet(q) PROVE IsInjective(t)
  BY <1>1, <1>3 DEF IsInjective, ToSet
<1> QED
  BY <1>1, <1>2, <1>3 DEF t

LEMMA FrontList ==
    ASSUME NEW S, NEW q \in Seq(S), NEW m \in S
    PROVE  /\ <<m>> \o q \in Seq(S)
           /\ (<<m>> \o q)[1] = m /\ DOMAIN (<<m>> \o q) = 1 .. Len(q) + 1
           /\ \A i \in 1 .. Len(q) : (<<m>> \o q)[i + 1] = q[i]
           /\ ToSet(<<m>> \o q) = ToSet(q) \cup {m}
           /\ IsInjective(q) /\ m \notin ToSet(q) => IsInjective(<<m>> \o q)
<1> DEFINE t == <<m>> \o q
<1>1. <<m>> \in Seq(S) /\ Len(<<m>>) = 1 /\ <<m>>[1] = m
  OBVIOUS
<1>2. /\ t \in Seq(S) /\ Len(q) \in Nat /\ DOMAIN t = 1 .. Len(q) + 1
      /\ DOMAIN q = 1 .. Len(q) /\ t[1] = m
      /\ \A i \in 2 .. Len(q) + 1 : t[i] = q[i - 1]
  BY <1>1, ConcatProperties, LenProperties
<1> HIDE DEF t
<1>3. \A i \in 1 .. Len(q) : t[i + 1] = q[i]
  BY <1>2
<1>4. ToSet(t) = ToSet(q) \cup {m}
  <2>1. \A i \in DOMAIN t : t[i] \in ToSet(q) \cup {m}
    BY <1>2 DEF ToSet
  <2>2. m \in ToSet(t) /\ \A i \in DOMAIN q : q[i] \in ToSet(t)
    BY <1>2, <1>3 DEF ToSet
  <2> QED
    BY <2>1, <2>2 DEF ToSet
<1>5. ASSUME IsInjective(q), m \notin ToSet(q) PROVE IsInjective(t)
  <2>1. \A i \in DOMAIN q : q[i] # m
    BY <1>5 DEF ToSet
  <2>2. \A i, j \in DOMAIN q : q[i] = q[j] => i = j
    BY <1>5 DEF IsInjective
  <2>3. \A i \in DOMAIN t : i = 1 \/ (i - 1 \in DOMAIN q /\ t[i] = q[i - 1])
    BY <1>2
  <2>4. ASSUME NEW i \in DOMAIN t, NEW j \in DOMAIN t, t[i] = t[j] PROVE i = j
    <3>1. CASE i = 1 \/ j = 1
      BY <1>2, <2>1, <2>3, <2>4, <3>1
    <3>2. CASE i # 1 /\ j # 1
      <4>1. i - 1 \in DOMAIN q /\ j - 1 \in DOMAIN q /\ q[i - 1] = q[j - 1]
        BY <2>3, <2>4, <3>2
      <4>2. i - 1 = j - 1
        BY <2>2, <4>1
      <4> QED
        BY <4>2, <1>2
    <3> QED
      BY <3>1, <3>2
  <2> QED
    BY <2>4 DEF IsInjective
<1> QED
  BY <1>2, <1>3, <1>4, <1>5 DEF t

\* The set of the list's first k entries, and the list without them.
Firsts(q, k) == {q[i] : i \in 1 .. k}

LEMMA RestList ==
    ASSUME NEW S, NEW q \in Seq(S), NEW k \in 0 .. Len(q)
    PROVE  /\ SubSeq(q, k + 1, Len(q)) \in Seq(S)
           /\ DOMAIN SubSeq(q, k + 1, Len(q)) = 1 .. Len(q) - k
           /\ \A i \in 1 .. Len(q) - k : SubSeq(q, k + 1, Len(q))[i] = q[k + i]
           /\ InOrder(SubSeq(q, k + 1, Len(q)), q)
           /\ IsInjective(q) =>
                  ToSet(SubSeq(q, k + 1, Len(q))) = ToSet(q) \ Firsts(q, k)
<1> DEFINE t == SubSeq(q, k + 1, Len(q))
<1>1. Len(q) \in Nat /\ DOMAIN q = 1 .. Len(q) /\ \A i \in 1 .. Len(q) : q[i] \in S
  BY LenProperties, ElementOfSeq
<1>2. /\ t \in Seq(S)
      /\ Len(t) = IF k + 1 <= Len(q) THEN Len(q) - (k + 1) + 1 ELSE 0
      /\ \A i \in 1 .. Len(q) - (k + 1) + 1 : t[i] = q[(k + 1) + i - 1]
  BY <1>1, SubSeqProperties
<1> HIDE DEF t
<1>3. t \in Seq(S) /\ DOMAIN t = 1 .. Len(q) - k /\ \A i \in 1 .. Len(q) - k : t[i] = q[k + i]
  <2>0. k \in Int /\ Len(q) \in Int /\ 0 <= k /\ k <= Len(q)
    BY <1>1
  <2>1. Len(t) = Len(q) - k /\ Len(q) - (k + 1) + 1 = Len(q) - k
    BY <2>0, <1>2
  <2>2. ASSUME NEW i \in 1 .. Len(q) - k PROVE t[i] = q[k + i]
    <3>1. i \in 1 .. Len(q) - (k + 1) + 1
      BY <2>1
    <3>2. t[i] = q[(k + 1) + i - 1]
      BY <1>2, <3>1
    <3>3. (k + 1) + i - 1 = k + i
      BY <2>0
    <3> QED
      BY <3>2, <3>3
  <2>3. DOMAIN t = 1 .. Len(q) - k
    BY <1>2, <2>1, LenProperties
  <2> QED
    BY <1>2, <2>2, <2>3
<1>4. InOrder(t, q)
  <2>1. \A a \in DOMAIN t : k + a \in DOMAIN q /\ t[a] = q[k + a]
    BY <1>1, <1>3
  <2>2. \A a, b \in DOMAIN t : a < b => k + a < k + b
    BY <1>1, <1>3
  <2> QED
    BY <2>1, <2>2 DEF InOrder
<1>5. ASSUME IsInjective(q) PROVE ToSet(t) = ToSet(q) \ {q[i] : i \in 1 .. k}
  <2>1. ASSUME NEW a \in DOMAIN t PROVE t[a] \in ToSet(q) \ {q[i] : i \in 1 .. k}
    <3>1. k + a \in DOMAIN q /\ t[a] = q[k + a]
      BY <1>1, <1>3
    <3>2. ASSUME NEW i \in 1 .. k, q[i] = q[k + a] PROVE FALSE
      <4>1. i \in DOMAIN q
        BY <1>1
      <4>2. i = k + a
        BY <1>5, <3>1, <3>2, <4>1 DEF IsInjective
      <4> QED
        BY <1>1, <1>3, <4>2
    <3> QED
      BY <3>1, <3>2 DEF ToSet
  <2>2. ASSUME NEW j \in DOMAIN q, q[j] \notin {q[i] : i \in 1 .. k} PROVE q[j] \in ToSet(t)
    <3>1. j - k \in DOMAIN t /\ t[j - k] = q[j]
      BY <1>1, <1>3, <2>2
    <3> QED
      BY <3>1 DEF ToSet
  <2> QED
    BY <2>1, <2>2 DEF ToSet
<1> QED
  BY <1>3, <1>4, <1>5 DEF t, Firsts

\* ... begins with the entry behind those, and goes on with the list without k + 1.
LEMMA RestHead ==
    ASSUME NEW S, NEW q \in Seq(S), NEW k \in 0 .. Len(q), SubSeq(q, k + 1, Len(q)) # << >>
    PROVE  /\ k + 1 \in DOMAIN q /\ k + 1 \in 0 .. Len(q)
           /\ Head(SubSeq(q, k + 1, Len(q))) = q[k + 1]
           /\ Tail(SubSeq(q, k + 1, Len(q))) = SubSeq(q, (k + 1) + 1, Len(q))
<1> DEFINE t == SubSeq(q, k + 1, Len(q))
<1>1. Len(q) \in Nat /\ DOMAIN q = 1 .. Len(q) /\ \A i \in 1 .. Len(q) : q[i] \in S
  BY LenProperties, ElementOfSeq
<1>2. t \in Seq(S) /\ DOMAIN t = 1 .. Len(q) - k /\ t # << >>
  BY <1>1, RestList
<1>3. k + 1 \in 1 .. Len(q) /\ Len(q) \in k + 1 .. Len(q)
  <2> HIDE DEF t
  <2>1. Len(t) \in Nat /\ DOMAIN t = 1 .. Len(t) /\ Len(t) # 0
    BY <1>2, LenProperties, EmptySeq
  <2>2. 1 \in 1 .. Len(q) - k
    BY <1>2, <2>1
  <2> QED
    BY <1>1, <2>2
<1>4. Head(t) = q[k + 1] /\ Tail(t) = SubSeq(q, (k + 1) + 1, Len(q))
  BY <1>3, HeadTailOfSubSeq
<1> QED
  BY <1>1, <1>3, <1>4

\* What is left of a list that grows.
LEMMA RestAppend ==
    ASSUME NEW S, NEW q \in Seq(S), NEW m \in S, NEW k \in 0 .. Len(q)
    PROVE  SubSeq(Append(q, m), k + 1, Len(Append(q, m))) = Append(SubSeq(q, k + 1, Len(q)), m)
<1> DEFINE all == Append(q, m)
           n   == Len(q)
           s   == SubSeq(q, k + 1, n)
           t   == SubSeq(all, k + 1, Len(all))
<1>1. /\ n \in Nat /\ all \in Seq(S) /\ Len(all) = n + 1 /\ all[n + 1] = m
      /\ \A i \in 1 .. n : all[i] = q[i]
  BY AppendProperties, LenProperties
<1>2. s \in Seq(S) /\ DOMAIN s = 1 .. n - k /\ \A i \in 1 .. n - k : s[i] = q[k + i]
  BY RestList
<1> HIDE DEF all, n
<1>3. k \in 0 .. Len(all) /\ k \in Nat /\ k <= n
  BY <1>1 DEF n
<1>4. t \in Seq(S) /\ DOMAIN t = 1 .. (n + 1) - k /\ \A i \in 1 .. (n + 1) - k : t[i] = all[k + i]
  <2>1. /\ t \in Seq(S) /\ DOMAIN t = 1 .. Len(all) - k
        /\ \A i \in 1 .. Len(all) - k : t[i] = all[k + i]
    BY <1>1, <1>3, RestList
  <2> QED
    BY <1>1, <2>1
<1> HIDE DEF s, t
<1>5. Len(s) = n - k /\ Len(t) = (n + 1) - k
  <2>1. DOMAIN s = 1 .. Len(s) /\ DOMAIN t = 1 .. Len(t) /\ Len(s) \in Nat /\ Len(t) \in Nat
    BY <1>2, <1>4, LenProperties
  <2>2. n - k \in Nat /\ (n + 1) - k \in Nat
    BY <1>1, <1>3
  <2>3. Len(s) = n - k
    BY <1>2, <2>1, <2>2
  <2>4. Len(t) = (n + 1) - k
    BY <1>4, <2>1, <2>2
  <2> QED
    BY <2>3, <2>4
<1>6. /\ Append(s, m) \in Seq(S) /\ Len(Append(s, m)) = Len(s) + 1 /\ Append(s, m)[Len(s) + 1] = m
      /\ \A i \in 1 .. Len(s) : Append(s, m)[i] = s[i]
  BY <1>2, AppendProperties
<1>7. ASSUME NEW i \in 1 .. Len(t) PROVE t[i] = Append(s, m)[i]
  <2>1. CASE i \in 1 .. n - k
    <3>1. k + i \in 1 .. n
      BY <1>1, <1>3, <2>1
    <3> QED
      BY <1>1, <1>2, <1>4, <1>5, <1>6, <2>1, <3>1
  <2>2. CASE i = (n + 1) - k
    <3>1. k + i = n + 1 /\ i = Len(s) + 1
      BY <1>1, <1>3, <1>5, <2>2
    <3> QED
      BY <1>1, <1>4, <1>5, <1>6, <1>7, <3>1
  <2> QED
    BY <1>1, <1>3, <1>5, <2>1, <2>2
<1>8. Len(t) = Len(Append(s, m))
  BY <1>1, <1>3, <1>5, <1>6
<1>9. t = Append(s, m)
  BY <1>4, <1>6, <1>7, <1>8, SeqEqual
<1> QED
  BY <1>9 DEF t, s, all, n

\* The list without its head.
LEMMA TailList ==
    ASSUME NEW S, NEW q \in Seq(S), q # << >>, IsInjective(q)
    PROVE  /\ Head(q) \in ToSet(q) /\ Tail(q) \in Seq(S) /\ IsInjective(Tail(q))
           /\ ToSet(Tail(q)) = ToSet(q) \ {Head(q)}
<1> DEFINE t == Tail(q)
<1>1. /\ Len(q) \in Nat /\ Len(q) # 0 /\ DOMAIN q = 1 .. Len(q) /\ Head(q) = q[1]
      /\ t \in Seq(S) /\ Len(t) = Len(q) - 1 /\ DOMAIN t = 1 .. Len(t)
      /\ \A i \in 1 .. Len(t) : t[i] = q[i + 1]
  BY LenProperties, EmptySeq, HeadTailProperties
<1> HIDE DEF t
<1>2. 1 \in DOMAIN q
  BY <1>1
<1>3. \A i \in DOMAIN t : i + 1 \in DOMAIN q /\ i + 1 # 1 /\ t[i] = q[i + 1]
  BY <1>1
<1>4. \A j \in DOMAIN q : j # 1 => j - 1 \in DOMAIN t /\ q[j] = t[j - 1]
  BY <1>1
<1>5. \A i, j \in DOMAIN t : i + 1 = j + 1 => i = j
  BY <1>1
<1>6. IsInjective(t)
  BY <1>3, <1>5 DEF IsInjective
<1>7. ToSet(t) = ToSet(q) \ {q[1]}
  <2>1. \A i \in DOMAIN t : t[i] \in ToSet(q) /\ t[i] # q[1]
    BY <1>2, <1>3 DEF IsInjective, ToSet
  <2>2. \A j \in DOMAIN q : q[j] # q[1] => q[j] \in ToSet(t)
    BY <1>4 DEF ToSet
  <2> QED
    BY <2>1, <2>2 DEF ToSet
<1> QED
  BY <1>1, <1>2, <1>6, <1>7 DEF t, ToSet

\* The list's first k entries.
LEMMA TakeList ==
    ASSUME NEW S, NEW q \in Seq(S), NEW k \in 0 .. Len(q)
    PROVE  /\ SubSeq(q, 1, k) \in Seq(S)
           /\ DOMAIN SubSeq(q, 1, k) = 1 .. k
           /\ \A i \in 1 .. k : SubSeq(q, 1, k)[i] = q[i]
           /\ InOrder(SubSeq(q, 1, k), q)
<1> DEFINE t == SubSeq(q, 1, k)
<1>1. /\ Len(q) \in Nat /\ DOMAIN q = 1 .. Len(q) /\ \A i \in 1 .. Len(q) : q[i] \in S
      /\ k \in Nat /\ k <= Len(q)
  BY LenProperties, ElementOfSeq
<1>2. /\ t \in Seq(S)
      /\ Len(t) = IF 1 <= k THEN k - 1 + 1 ELSE 0
      /\ \A i \in 1 .. k - 1 + 1 : t[i] = q[1 + i - 1]
  BY <1>1, SubSeqProperties
<1> HIDE DEF t
<1>3. t \in Seq(S) /\ DOMAIN t = 1 .. k /\ \A i \in 1 .. k : t[i] = q[i]
  <2>1. Len(t) = k
    BY <1>1, <1>2
  <2>2. ASSUME NEW i \in 1 .. k PROVE t[i] = q[i]
    <3>1. i \in 1 .. k - 1 + 1 /\ 1 + i - 1 = i
      BY <1>1
    <3> QED
      BY <1>2, <3>1
  <2> QED
    BY <1>2, <2>1, <2>2, LenProperties
<1>4. InOrder(t, q)
  <2>1. \A a \in DOMAIN t : a \in DOMAIN q /\ t[a] = q[a]
    BY <1>1, <1>3
  <2> QED
    BY <2>1 DEF InOrder
<1> QED
  BY <1>3, <1>4 DEF t

\* The list without its i-th entry.
LEMMA RemoveList ==
    ASSUME NEW S, NEW q \in Seq(S), NEW i \in DOMAIN q
    PROVE  /\ RemoveAt(q, i) \in Seq(S)
           /\ Len(RemoveAt(q, i)) = Len(q) - 1
           /\ InOrder(RemoveAt(q, i), q)
           /\ \A j \in DOMAIN q : j # i => q[j] \in ToSet(RemoveAt(q, i))
           /\ IsInjective(q) => ToSet(RemoveAt(q, i)) = ToSet(q) \ {q[i]}
<1> DEFINE a == SubSeq(q, 1, i - 1)
           b == SubSeq(q, i + 1, Len(q))
           t == RemoveAt(q, i)
           from(j) == IF j < i THEN j ELSE j + 1
<1>1. /\ Len(q) \in Nat /\ DOMAIN q = 1 .. Len(q) /\ i \in Nat /\ 1 <= i /\ i <= Len(q)
      /\ i - 1 \in 0 .. Len(q) /\ i \in 0 .. Len(q)
  BY LenProperties
<1>2. a \in Seq(S) /\ Len(a) = i - 1 /\ \A j \in 1 .. i - 1 : a[j] = q[j]
  <2>1. a \in Seq(S) /\ DOMAIN a = 1 .. i - 1 /\ \A j \in 1 .. i - 1 : a[j] = q[j]
    BY <1>1, TakeList
  <2> HIDE DEF a
  <2> QED
    BY <1>1, <2>1, LenProperties
<1>3. b \in Seq(S) /\ Len(b) = Len(q) - i /\ \A j \in 1 .. Len(q) - i : b[j] = q[i + j]
  <2>1. b \in Seq(S) /\ DOMAIN b = 1 .. Len(q) - i /\ \A j \in 1 .. Len(q) - i : b[j] = q[i + j]
    BY <1>1, RestList
  <2> HIDE DEF b
  <2> QED
    BY <1>1, <2>1, LenProperties
<1>4. t = a \o b
  BY DEF RemoveAt
<1> HIDE DEF a, b, t
<1>5. /\ t \in Seq(S) /\ Len(t) = Len(q) - 1 /\ DOMAIN t = 1 .. Len(q) - 1
      /\ \A j \in 1 .. Len(q) - 1 : t[j] = q[from(j)]
  <2>1. /\ t \in Seq(S) /\ Len(t) = Len(a) + Len(b)
        /\ \A j \in 1 .. Len(a) + Len(b) : t[j] = IF j <= Len(a) THEN a[j] ELSE b[j - Len(a)]
    BY <1>2, <1>3, <1>4, ConcatProperties
  <2>2. Len(t) = Len(q) - 1 /\ Len(a) + Len(b) = Len(q) - 1
    BY <1>1, <1>2, <1>3, <2>1
  <2>3. ASSUME NEW j \in 1 .. Len(q) - 1 PROVE t[j] = q[from(j)]
    <3>1. CASE j < i
      BY <1>1, <1>2, <2>1, <2>2, <3>1
    <3>2. CASE ~(j < i)
      <4>1. t[j] = b[j - (i - 1)]
        BY <1>1, <1>2, <2>1, <2>2, <3>2
      <4>2. j - (i - 1) \in 1 .. Len(q) - i /\ i + (j - (i - 1)) = j + 1
        BY <1>1, <3>2
      <4> QED
        BY <1>3, <3>2, <4>1, <4>2
    <3> QED
      BY <3>1, <3>2
  <2> QED
    BY <2>1, <2>2, <2>3, LenProperties
<1>6. \A j \in DOMAIN t : from(j) \in DOMAIN q /\ from(j) # i
  BY <1>1, <1>5
<1>7. \A j, k \in DOMAIN t : j < k => from(j) < from(k)
  BY <1>1, <1>5
<1>8. InOrder(t, q)
  <2> HIDE DEF from
  <2> QED
    BY <1>5, <1>6, <1>7 DEF InOrder
<1>9. ASSUME NEW j \in DOMAIN q, j # i PROVE q[j] \in ToSet(t)
  <2>1. CASE j < i
    <3>1. j \in DOMAIN t /\ from(j) = j
      BY <1>1, <1>5, <2>1
    <3> QED
      BY <1>5, <3>1 DEF ToSet
  <2>2. CASE j > i
    <3>1. j - 1 \in DOMAIN t /\ from(j - 1) = j
      BY <1>1, <1>5, <2>2
    <3> QED
      BY <1>5, <3>1 DEF ToSet
  <2> QED
    BY <1>1, <1>9, <2>1, <2>2
<1>10. ASSUME IsInjective(q) PROVE ToSet(t) = ToSet(q) \ {q[i]}
  <2>1. \A j \in DOMAIN t : t[j] \in ToSet(q) /\ t[j] # q[i]
    <3>1. \A j \in DOMAIN q : q[j] = q[i] => j = i
      BY <1>10 DEF IsInjective
    <3> HIDE DEF from
    <3> QED
      BY <1>5, <1>6, <3>1 DEF ToSet
  <2>2. \A j \in DOMAIN q : q[j] # q[i] => q[j] \in ToSet(t)
    BY <1>9
  <2> QED
    BY <2>1, <2>2 DEF ToSet
<1> QED
  BY <1>5, <1>8, <1>9, <1>10 DEF t

\* The list of a finite set has its members.
LEMMA ListOfSet ==
    ASSUME NEW T, NEW S \in SUBSET T, IsFiniteSet(S)
    PROVE  /\ SetToSeq(S) \in Seq(T)
           /\ Len(SetToSeq(S)) = Cardinality(S) /\ Cardinality(S) \in Nat
           /\ ToSet(SetToSeq(S)) = S /\ IsInjective(SetToSeq(S))
<1> DEFINE n == Cardinality(S)
           f == SetToSeq(S)
<1>1. n \in Nat /\ ExistsBijection(1 .. n, S)
  BY FS_CardinalityType
<1>2. \E e \in [1 .. n -> S] : IsInjective(e)
  BY <1>1 DEF ExistsBijection, Bijection, Injection
<1>3. f \in [1 .. n -> S] /\ IsInjective(f)
  BY <1>2 DEF SetToSeq
<1>4. f \in Injection(1 .. n, S)
  BY <1>3 DEF Injection
<1>5. Cardinality(1 .. n) = n
  BY <1>1, FS_Interval
<1>6. f \in Surjection(1 .. n, S)
  BY <1>4, <1>5, FS_Injection
<1> HIDE DEF f
<1>7. f \in Seq(T) /\ DOMAIN f = 1 .. n /\ \A i \in 1 .. n : f[i] \in S
  <2>1. f \in [1 .. n -> T]
    BY <1>3
  <2> QED
    BY <1>1, <1>3, <2>1, IsASeq
<1>8. Len(f) = n
  BY <1>1, <1>7, LenProperties
<1>9. ToSet(f) = S
  BY <1>6, <1>7 DEF Surjection, ToSet
<1> QED
  BY <1>1, <1>3, <1>7, <1>8, <1>9 DEF f

\* One list behind another.
LEMMA BothLists ==
    ASSUME NEW S, NEW u \in Seq(S), NEW v \in Seq(S)
    PROVE  /\ u \o v \in Seq(S) /\ Len(u \o v) = Len(u) + Len(v)
           /\ ToSet(u \o v) = ToSet(u) \cup ToSet(v)
           /\ IsInjective(u) /\ IsInjective(v) /\ ToSet(u) \cap ToSet(v) = {}
                 => IsInjective(u \o v)
<1> DEFINE t == u \o v
<1>1. /\ t \in Seq(S) /\ Len(t) = Len(u) + Len(v)
      /\ \A i \in 1 .. Len(u) + Len(v) : t[i] = IF i <= Len(u) THEN u[i] ELSE v[i - Len(u)]
  BY ConcatProperties
<1>2. /\ Len(u) \in Nat /\ Len(v) \in Nat
      /\ DOMAIN u = 1 .. Len(u) /\ DOMAIN v = 1 .. Len(v) /\ DOMAIN t = 1 .. Len(u) + Len(v)
  BY <1>1, LenProperties
<1> HIDE DEF t
<1>3. ASSUME NEW i \in DOMAIN t PROVE t[i] \in ToSet(u) \cup ToSet(v)
  <2>1. CASE i <= Len(u)
    BY <1>1, <1>2, <2>1 DEF ToSet
  <2>2. CASE ~(i <= Len(u))
    <3>1. i - Len(u) \in DOMAIN v /\ t[i] = v[i - Len(u)]
      BY <1>1, <1>2, <2>2
    <3> QED
      BY <3>1 DEF ToSet
  <2> QED
    BY <2>1, <2>2
<1>4. ASSUME NEW i \in DOMAIN u PROVE u[i] \in ToSet(t)
  <2>1. i \in DOMAIN t /\ t[i] = u[i]
    BY <1>1, <1>2
  <2> QED
    BY <2>1 DEF ToSet
<1>5. ASSUME NEW i \in DOMAIN v PROVE v[i] \in ToSet(t)
  <2>1. Len(u) + i \in DOMAIN t /\ t[Len(u) + i] = v[i]
    BY <1>1, <1>2
  <2> QED
    BY <2>1 DEF ToSet
<1>6. ToSet(t) = ToSet(u) \cup ToSet(v)
  BY <1>3, <1>4, <1>5 DEF ToSet
<1>7. ASSUME IsInjective(u), IsInjective(v), ToSet(u) \cap ToSet(v) = {}
      PROVE  IsInjective(t)
  <2> SUFFICES ASSUME NEW a \in DOMAIN t, NEW b \in DOMAIN t, t[a] = t[b] PROVE a = b
    BY DEF IsInjective
  <2> DEFINE place(i) == IF i <= Len(u) THEN i \in DOMAIN u /\ t[i] = u[i]
                         ELSE i - Len(u) \in DOMAIN v /\ t[i] = v[i - Len(u)]
  <2>1. place(a) /\ place(b)
    BY <1>1, <1>2
  <2>2. CASE a <= Len(u) /\ b <= Len(u)
    BY <1>7, <2>1, <2>2 DEF IsInjective
  <2>3. CASE ~(a <= Len(u)) /\ ~(b <= Len(u))
    <3>1. a - Len(u) = b - Len(u)
      BY <1>7, <2>1, <2>3 DEF IsInjective
    <3> QED
      BY <1>2, <3>1
  <2>4. CASE a <= Len(u) /\ ~(b <= Len(u))
    BY <1>7, <2>1, <2>4 DEF ToSet
  <2>5. CASE ~(a <= Len(u)) /\ b <= Len(u)
    BY <1>7, <2>1, <2>5 DEF ToSet
  <2> QED
    BY <2>2, <2>3, <2>4, <2>5
<1> QED
  BY <1>1, <1>6, <1>7 DEF t

-------------------------------------------------------------------------------
(* How many indices of a sequence have a property.                             *)

\* How many entries of a sequence belong to an index set.
LEMMA CountType ==
    ASSUME NEW n \in Nat, NEW S \in SUBSET (1 .. n)
    PROVE  IsFiniteSet(S) /\ Cardinality(S) \in Nat
<1>1. IsFiniteSet(1 .. n)
  BY FS_Interval
<1>2. IsFiniteSet(S)
  BY <1>1, FS_Subset
<1> QED
  BY <1>2, FS_CardinalityType

\* Shifting a set of indices does not change how many they are.
LEMMA ShiftCount ==
    ASSUME NEW n \in Nat, NEW S \in SUBSET (1 .. n), NEW T \in SUBSET (1 .. n), NEW d \in Nat,
           \A i \in S : i - d \in T,
           \A t \in T : t + d \in S
    PROVE  Cardinality(T) = Cardinality(S)
<1> DEFINE f == [i \in S |-> i - d]
<1>1. f \in Bijection(S, T)
  <2>1. f \in [S -> T]
    OBVIOUS
  <2>2. \A i, j \in S : f[i] = f[j] => i = j
    OBVIOUS
  <2>3. \A t \in T : \E i \in S : f[i] = t
    OBVIOUS
  <2> HIDE DEF f
  <2> QED
    BY <2>1, <2>2, <2>3 DEF Bijection, Injection, Surjection, IsInjective
<1>2. IsFiniteSet(S)
  BY CountType
<1> QED
  BY <1>1, <1>2, FS_Bijection DEF ExistsBijection

\* A sequence without its first element has one fewer of what that element was.
LEMMA TailCount ==
    ASSUME NEW n \in Nat, NEW S \in SUBSET (1 .. n), NEW T \in SUBSET (1 .. n - 1),
           \A i \in 1 .. n - 1 : i \in T <=> i + 1 \in S
    PROVE  /\ Cardinality(T) \in Nat /\ Cardinality(S) \in Nat
           /\ Cardinality(T) = IF 1 \in S THEN Cardinality(S) - 1 ELSE Cardinality(S)
<1> DEFINE R == S \ {1}
<1>1. T \in SUBSET (1 .. n) /\ R \in SUBSET (1 .. n) /\ 1 \in Nat
  OBVIOUS
<1>2. IsFiniteSet(S) /\ Cardinality(S) \in Nat
  BY CountType
<1>3. Cardinality(T) \in Nat
  BY <1>1, CountType
<1>4. (\A i \in R : i - 1 \in T) /\ (\A t \in T : t + 1 \in R)
  OBVIOUS
<1>5. Cardinality(R) = IF 1 \in S THEN Cardinality(S) - 1 ELSE Cardinality(S)
  BY <1>2, FS_RemoveElement
<1> HIDE DEF R
<1>6. Cardinality(T) = Cardinality(R)
  BY <1>1, <1>4, ShiftCount
<1> QED
  BY <1>2, <1>3, <1>5, <1>6

\* A sequence with one more element has one more of what that element is.
LEMMA AppendCount ==
    ASSUME NEW n \in Nat, NEW S \in SUBSET (1 .. n), NEW T \in SUBSET (1 .. n + 1),
           \A i \in 1 .. n : i \in T <=> i \in S
    PROVE  /\ Cardinality(T) \in Nat /\ Cardinality(S) \in Nat
           /\ Cardinality(T) = IF n + 1 \in T THEN Cardinality(S) + 1 ELSE Cardinality(S)
<1>1. IsFiniteSet(S) /\ Cardinality(S) \in Nat
  BY CountType
<1>2. n + 1 \notin S
  OBVIOUS
<1>3. IsFiniteSet(T) /\ Cardinality(T) \in Nat
  <2>1. n + 1 \in Nat
    OBVIOUS
  <2> QED
    BY <2>1, CountType
<1>t. \A i \in T : i \in S \/ i = n + 1
  <2>1. ASSUME NEW i \in T PROVE i \in S \/ i = n + 1
    <3>1. i \in 1 .. n + 1
      OBVIOUS
    <3>2. i \in 1 .. n \/ i = n + 1
      BY <3>1
    <3> QED
      BY <3>2
  <2> QED
    BY <2>1
<1>s. \A i \in S : i \in T
  OBVIOUS
<1>4. CASE n + 1 \in T
  <2>1. T = S \cup {n + 1}
    BY <1>4, <1>t, <1>s
  <2> QED
    BY <1>1, <1>2, <1>3, <1>4, <2>1, FS_AddElement
<1>5. CASE n + 1 \notin T
  <2>1. T = S
    BY <1>5, <1>t, <1>s
  <2> QED
    BY <1>1, <1>5, <2>1
<1> QED
  BY <1>4, <1>5

\* Dropping the first `at` elements splits the count.
Splits(n, at, S, T, U) == /\ n \in Nat /\ at \in 0 .. n
                          /\ S \in SUBSET (1 .. n)
                          /\ T \in SUBSET (1 .. n - at)
                          /\ U \in SUBSET (1 .. at)
                          /\ \A i \in 1 .. n - at : i \in T <=> i + at \in S
                          /\ \A i \in 1 .. at : i \in U <=> i \in S

LEMMA DropCount ==
    ASSUME NEW n, NEW at, NEW S, NEW T, NEW U, Splits(n, at, S, T, U)
    PROVE  /\ Cardinality(S) \in Nat /\ Cardinality(U) \in Nat /\ Cardinality(T) \in Nat
           /\ Cardinality(S) = Cardinality(U) + Cardinality(T)
<1> SUFFICES ASSUME n \in Nat, at \in 0 .. n, S \in SUBSET (1 .. n),
                    T \in SUBSET (1 .. n - at), U \in SUBSET (1 .. at),
                    \A i \in 1 .. n - at : i \in T <=> i + at \in S,
                    \A i \in 1 .. at : i \in U <=> i \in S
             PROVE  /\ Cardinality(S) \in Nat /\ Cardinality(U) \in Nat
                    /\ Cardinality(T) \in Nat
                    /\ Cardinality(S) = Cardinality(U) + Cardinality(T)
  BY DEF Splits
<1> DEFINE V == S \ U
<1>1. /\ U \in SUBSET (1 .. n) /\ V \in SUBSET (1 .. n) /\ T \in SUBSET (1 .. n)
      /\ at \in Nat
  OBVIOUS
<1>s. U \cap V = {} /\ S = U \cup V
  OBVIOUS
<1>2. (\A i \in V : i - at \in T) /\ (\A t \in T : t + at \in V)
  OBVIOUS
<1> HIDE DEF V
<1>3. IsFiniteSet(U) /\ Cardinality(U) \in Nat
  BY <1>1, CountType
<1>4. IsFiniteSet(V) /\ Cardinality(V) \in Nat
  BY <1>1, CountType
<1>5. Cardinality(S) = Cardinality(U) + Cardinality(V)
  <2>1. Cardinality(U \cup V) = Cardinality(U) + Cardinality(V) - Cardinality(U \cap V)
    BY <1>3, <1>4, FS_Union
  <2>2. Cardinality(U \cap V) = 0
    BY <1>s, FS_EmptySet
  <2> QED
    BY <1>s, <1>3, <1>4, <2>1, <2>2
<1>6. Cardinality(T) = Cardinality(V)
  BY <1>1, <1>2, ShiftCount
<1> QED
  BY <1>3, <1>4, <1>5, <1>6

(* What each method of a durable fact's file does to the snapshots it holds. *)

\* A save is pending, alone; nothing else changes.
LEMMA SaveIs ==
    ASSUME NEW Rec, NEW f \in FactFile(Rec), NEW q \in Seq(Rec)
    PROVE  /\ Save(f, q) \in FactFile(Rec)
           /\ Save(f, q).pending = {q}
           /\ Save(f, q).writing = f.writing
           /\ Save(f, q).disk = f.disk
  BY DEF FactFile, Save

\* The timer puts what is pending into a write, unless one is in flight.
LEMMA TimerFiredIs ==
    ASSUME NEW Rec, NEW f \in FactFile(Rec)
    PROVE  /\ TimerFired(f) \in FactFile(Rec)
           /\ TimerFired(f).disk = f.disk /\ TimerFired(f).failed = f.failed
           /\ \/ /\ TimerFired(f).pending = f.pending
                 /\ TimerFired(f).writing = f.writing
              \/ /\ TimerFired(f).pending = {}
                 /\ TimerFired(f).writing = f.pending /\ f.writing = {}
  BY DEF FactFile, TimerFired

\* A write that landed is on the disk, and the next one is of what was pending.
LEMMA WriteEndedIs ==
    ASSUME NEW Rec, NEW f \in FactFile(Rec), NEW landed \in BOOLEAN, f.writing # {}
    PROVE  /\ WriteEnded(f, landed) \in FactFile(Rec)
           /\ WriteEnded(f, landed).failed = ~landed
           /\ landed => WriteEnded(f, landed).disk \in f.writing
           /\ ~landed => WriteEnded(f, landed).disk = f.disk
           /\ \/ /\ WriteEnded(f, landed).pending = f.pending
                 /\ WriteEnded(f, landed).writing = {}
              \/ /\ WriteEnded(f, landed).pending = {}
                 /\ WriteEnded(f, landed).writing = f.pending
  BY DEF FactFile, WriteEnded

\* A flush leaves what was pending, or what was there, on the disk.
LEMMA FlushedIs ==
    ASSUME NEW Rec, NEW f \in FactFile(Rec)
    PROVE  /\ FlushedSync(f).disk \in f.pending \cup {f.disk}
           /\ FlushedSync(f).writing \subseteq f.writing
           /\ f.pending # {} => FlushedSync(f).disk \in f.pending
           /\ f.pending = {} => FlushedSync(f) = f
           /\ FlushedSync(f) \in FactFile(Rec)
  BY DEF FactFile, FlushedSync
================================================================================
