---------------------------- MODULE RankingsProofs ----------------------------
(***************************************************************************)
(* What the shelves of the browse page, diversify and the funnel promise,  *)
(* for a page of any length in any order and for any events of a day.      *)
(* Nothing moves in Rankings: the work is in its functions, and each is    *)
(* followed by induction over how far it has come.                         *)
(***************************************************************************)
EXTENDS Rankings, FiniteSetTheorems, SequenceTheorems, NaturalsInduction, TLAPS
-----------------------------------------------------------------------------
\* A non-empty set of natural numbers has a least element.
LEMMA LeastNat ==
  ASSUME NEW S \in SUBSET Nat, S # {}
  PROVE  \E n \in S : \A m \in S : n <= m
<1>1. PICK n \in S : \A m \in S : <<m, n>> \notin OpToRel(<, Nat)
  BY NatLessThanWellFounded, WFMin, Zenon
<1>2. ASSUME NEW m \in S PROVE n <= m
  <2>1. n \in Nat /\ m \in Nat OBVIOUS
  <2> SUFFICES ASSUME m < n PROVE FALSE BY <2>1
  <2>2. <<m, n>> \in Nat \X Nat /\ <<m, n>>[1] = m /\ <<m, n>>[2] = n BY <2>1
  <2>3. <<m, n>> \in OpToRel(<, Nat) BY <2>2, Zenon DEF OpToRel
  <2> QED BY <1>1, <2>3
<1> QED BY <1>2

\* Induction up to a bound: a set that holds 0 and with n holds n + 1.
LEMMA CountsUp ==
  ASSUME NEW S, NEW max \in Nat, 0 \in S,
         \A n \in 0..max : n \in S /\ n < max => n + 1 \in S
  PROVE  \A n \in 0..max : n \in S
<1> DEFINE T == {n \in 0..max : n \notin S}
<1> SUFFICES ASSUME T # {} PROVE FALSE OBVIOUS
<1>1. T \in SUBSET Nat OBVIOUS
<1>2. PICK n \in T : \A m \in T : n <= m BY <1>1, LeastNat
<1>3. n # 0 /\ n - 1 \in 0..max /\ n - 1 < max /\ (n - 1) + 1 = n OBVIOUS
<1>4. n - 1 \in S BY <1>2, <1>3
<1> QED BY <1>3, <1>4
-----------------------------------------------------------------------------
\* Activities, and sets of them in which an id names one.
Activity == [id : Nat, cat : Categories, joined : BOOLEAN, is : Kinds4]

IdsName(S) == \A a, b \in S : a.id = b.id => a = b

Group(S) == S \subseteq Activity /\ IsFiniteSet(S) /\ IdsName(S)

\* Better ones are fewer the better one is.
LEMMA FewerAreBetter ==
  ASSUME NEW S, Group(S), NEW a \in S
  PROVE  /\ Cardinality(Better(S, a)) \in 0..(Cardinality(S) - 1)
         /\ \A b \in S : a.id > b.id => Cardinality(Better(S, a)) < Cardinality(Better(S, b))
<1>1. \A b \in S : IsFiniteSet(Better(S, b)) /\ Cardinality(Better(S, b)) \in Nat
  <2> TAKE b \in S
  <2>1. Better(S, b) \in SUBSET S BY DEF Better
  <2> QED BY <2>1, FS_Subset, FS_CardinalityType DEF Group
<1>2. \A b \in S : b.id \in Nat BY DEF Group, Activity
<1>3. /\ IsFiniteSet(S \ {a}) /\ Cardinality(S \ {a}) = Cardinality(S) - 1
      /\ Cardinality(S) \in Nat
  BY FS_RemoveElement, FS_CardinalityType DEF Group
<1>4. Better(S, a) \in SUBSET (S \ {a}) BY <1>2 DEF Better
<1>5. Cardinality(Better(S, a)) <= Cardinality(S) - 1 BY <1>3, <1>4, FS_Subset
<1>6. ASSUME NEW b \in S, a.id > b.id
      PROVE  Cardinality(Better(S, a)) < Cardinality(Better(S, b))
  <2>1. a \notin Better(S, a) BY <1>2 DEF Better
  <2>2. Better(S, a) \cup {a} \in SUBSET Better(S, b) BY <1>2, <1>6 DEF Better
  <2>3. Cardinality(Better(S, a) \cup {a}) = Cardinality(Better(S, a)) + 1
    BY <1>1, <2>1, FS_AddElement
  <2>4. Cardinality(Better(S, a) \cup {a}) <= Cardinality(Better(S, b))
    BY <1>1, <2>2, FS_Subset
  <2> QED BY <1>1, <2>3, <2>4
<1> QED BY <1>1, <1>3, <1>5, <1>6

\* d holds S, best first.
Sorts(d, S) ==
  /\ d \in Seq(Activity) /\ Len(d) = Cardinality(S) /\ Range(d) = S
  /\ \A i, j \in 1..Len(d) : i < j => d[i].id > d[j].id

\* Sorting a finite group of activities loses none of them.
LEMMA ByScoreSorts ==
  ASSUME NEW S, Group(S)
  PROVE  Sorts(ByScore(S), S)
<1> DEFINE n == Cardinality(S)
           rank(a) == Cardinality(Better(S, a))
           r == [a \in S |-> rank(a) + 1]
           d == ByScore(S)
<1>1. n \in Nat /\ IsFiniteSet(S) BY FS_CardinalityType DEF Group
<1>2. \A a \in S : a.id \in Nat /\ a \in Activity BY DEF Group, Activity
<1>3. \A a \in S : rank(a) \in 0..(n - 1) BY FewerAreBetter
<1>4. \A a, b \in S : a.id > b.id => rank(a) < rank(b) BY FewerAreBetter
<1> HIDE DEF n, rank
<1>5. ASSUME NEW a \in S, NEW b \in S, rank(a) = rank(b) PROVE a = b
  <2>1. ~(rank(a) < rank(b)) /\ ~(rank(b) < rank(a)) BY <1>1, <1>3, <1>5
  <2>2. a.id = b.id BY <1>2, <1>4, <2>1
  <2> QED BY <2>2 DEF Group, IdsName
<1>6. \A a \in S : r[a] = rank(a) + 1 /\ r[a] \in 1..n BY <1>1, <1>3
<1>7. r \in Injection(S, 1..n)
  <2>1. r \in [S -> 1..n] BY <1>6
  <2>2. \A a, b \in S : r[a] = r[b] => rank(a) = rank(b) BY <1>1, <1>3, <1>6
  <2> QED BY <2>1, <2>2, <1>5, Zenon DEF Injection, IsInjective
<1>8. r \in Surjection(S, 1..n)
  <2>1. IsFiniteSet(1..n) /\ Cardinality(1..n) = n BY <1>1, FS_Interval
  <2> QED BY <1>7, <2>1, FS_Injection, Zenon DEF n
<1>9. \A k \in 1..n : \E a \in S : rank(a) = k - 1
  <2> TAKE k \in 1..n
  <2>1. PICK a \in S : r[a] = k BY <1>8 DEF Surjection
  <2> QED BY <2>1, <1>1, <1>3, <1>6
<1>10. d = [k \in 1..n |-> CHOOSE a \in S : rank(a) = k - 1] BY DEF ByScore, n, rank
<1>11. \A k \in 1..n : d[k] \in S /\ rank(d[k]) = k - 1
  <2> HIDE DEF d
  <2> TAKE k \in 1..n
  <2>1. d[k] = CHOOSE a \in S : rank(a) = k - 1 BY <1>10
  <2> QED BY <1>9, <2>1
<1> HIDE DEF d
<1>12. d \in Seq(Activity) /\ Len(d) = n /\ DOMAIN d = 1..n
  <2>1. d \in [1..n -> Activity] BY <1>2, <1>10, <1>11
  <2> QED BY <1>1, <2>1
<1>13. Range(d) = S
  <2>1. ASSUME NEW a \in S PROVE \E k \in 1..n : d[k] = a
    <3>1. \E k \in 1..n : k - 1 = rank(a)
      <4>1. rank(a) + 1 \in 1..n /\ (rank(a) + 1) - 1 = rank(a) BY <1>1, <1>3
      <4> QED BY <4>1
    <3>2. PICK k \in 1..n : k - 1 = rank(a) BY <3>1
    <3>3. d[k] = a BY <3>2, <1>5, <1>11
    <3> QED BY <3>3
  <2> QED BY <1>11, <1>12, <2>1 DEF Range
<1>14. ASSUME NEW i \in 1..n, NEW j \in 1..n, i < j PROVE d[i].id > d[j].id
  <2>1. rank(d[i]) < rank(d[j]) BY <1>11, <1>14
  <2>2. ~(rank(d[j]) < rank(d[i])) /\ d[i] # d[j] BY <1>11, <1>14, <2>1
  <2>3. d[i].id # d[j].id BY <1>11, <2>2 DEF Group, IdsName
  <2> QED BY <1>2, <1>4, <1>11, <2>2, <2>3
<1> QED BY <1>12, <1>13, <1>14 DEF Sorts, n, d

-----------------------------------------------------------------------------
\* The steps of diversify: what it has taken so far, and what is left.
NextStep(st) ==
  LET i == NextOf(st.done, st.pool) IN
  [done |-> Append(st.done, st.pool[i]), pool |-> RemoveAt(st.pool, i)]

StepsTo(f, s, n) ==
  f = [k \in 0..n |-> IF k = 0 THEN [done |-> <<>>, pool |-> s] ELSE NextStep(f[k - 1])]

\* The recursion of diversify has a value.
LEMMA DiversifiedIsDefined ==
  ASSUME NEW s \in Seq(Activity)
  PROVE  \E f : StepsTo(f, s, Len(s)) /\ Diversified(s) = f[Len(s)].done
<1> DEFINE S == {n \in Nat : \E f : StepsTo(f, s, n)}
           start == [done |-> <<>>, pool |-> s]
<1>1. 0 \in S
  <2>1. StepsTo([k \in 0..0 |-> start], s, 0) BY DEF StepsTo
  <2> QED BY <2>1
<1>2. ASSUME NEW n \in Nat, n \in S PROVE n + 1 \in S
  <2>1. PICK f : StepsTo(f, s, n) BY <1>2
  <2> DEFINE g == [k \in 0..(n + 1) |-> IF k = 0 THEN start ELSE NextStep(f[k - 1])]
             h == [k \in 0..n |-> IF k = 0 THEN start ELSE NextStep(f[k - 1])]
  <2>2. f = h BY <2>1 DEF StepsTo
  <2>3. \A k \in 0..n : g[k] = h[k] OBVIOUS
  <2>4. \A k \in 0..n : g[k] = f[k] BY ONLY <2>2, <2>3
  <2>5. \A k \in 0..(n + 1) : k # 0 => k - 1 \in 0..n OBVIOUS
  <2>6. StepsTo(g, s, n + 1) BY <2>4, <2>5 DEF StepsTo
  <2> QED BY <2>6
<1>3. Len(s) \in S
  <2> HIDE DEF S
  <2>1. Len(s) \in Nat /\ 0..Len(s) \subseteq Nat OBVIOUS
  <2>2. \A n \in 0..Len(s) : n \in S BY <1>1, <1>2, <2>1, CountsUp, Zenon
  <2> QED BY <2>1, <2>2
<1> DEFINE IsIt(f) == f = [k \in 0..Len(s) |->
                            IF k = 0 THEN [done |-> <<>>, pool |-> s] ELSE NextStep(f[k - 1])]
<1>4. \E f : IsIt(f) BY <1>3 DEF StepsTo
<1>5. IsIt(CHOOSE f : IsIt(f))
  <2> HIDE DEF IsIt
  <2> QED BY <1>4, Zenon
<1>6. Diversified(s) = (CHOOSE f : IsIt(f))[Len(s)].done BY Zenon DEF Diversified, NextStep
<1> QED BY <1>5, <1>6 DEF StepsTo

\* Taking the i-th away from a sequence.
LEMMA RemovedOne ==
  ASSUME NEW s \in Seq(Activity), NEW i \in 1..Len(s)
  PROVE  LET r == RemoveAt(s, i) IN
         /\ r \in Seq(Activity) /\ Len(r) = Len(s) - 1
         /\ \A j \in 1..Len(r) : r[j] = IF j < i THEN s[j] ELSE s[j + 1]
         /\ Range(s) = Range(r) \cup {s[i]}
<1> DEFINE p == SubSeq(s, 1, i - 1)
           q == SubSeq(s, i + 1, Len(s))
           r == RemoveAt(s, i)
<1>0. r = p \o q BY DEF RemoveAt
<1>1. /\ Len(s) \in Nat /\ p \in Seq(Activity) /\ q \in Seq(Activity)
      /\ Len(p) = i - 1 /\ Len(q) = Len(s) - i
      /\ \A j \in 1..(i - 1) : p[j] = s[j]
      /\ \A j \in 1..(Len(s) - i) : q[j] = s[i + j]
  OBVIOUS
<1> HIDE DEF p, q, r
<1>2. /\ r \in Seq(Activity) /\ Len(r) = Len(s) - 1
      /\ \A j \in 1..Len(p) : r[j] = p[j]
      /\ \A j \in 1..Len(q) : r[Len(p) + j] = q[j]
  <2>1. /\ p \o q \in Seq(Activity) /\ Len(p \o q) = Len(p) + Len(q)
        /\ \A j \in 1..(Len(p) + Len(q)) :
              (p \o q)[j] = IF j <= Len(p) THEN p[j] ELSE q[j - Len(p)]
    BY <1>1, ConcatProperties
  <2>2. \A j \in 1..Len(q) : /\ Len(p) + j \in 1..(Len(p) + Len(q))
                            /\ ~(Len(p) + j <= Len(p)) /\ (Len(p) + j) - Len(p) = j
    BY <1>1
  <2>3. \A j \in 1..Len(p) : j \in 1..(Len(p) + Len(q)) /\ j <= Len(p) BY <1>1
  <2> QED BY <1>0, <1>1, <2>1, <2>2, <2>3
<1>3. ASSUME NEW j \in 1..(Len(s) - 1) PROVE r[j] = IF j < i THEN s[j] ELSE s[j + 1]
  <2>1. CASE j < i BY <1>1, <1>2, <2>1
  <2>2. CASE ~(j < i)
    <3>1. j - (i - 1) \in 1..Len(q) /\ (i - 1) + (j - (i - 1)) = j /\ i + (j - (i - 1)) = j + 1
      BY <1>1, <2>2
    <3>2. r[j] = q[j - (i - 1)] BY <1>1, <1>2, <3>1
    <3> QED BY <1>1, <2>2, <3>1, <3>2
  <2> QED BY <2>1, <2>2
<1>4. ASSUME NEW j \in 1..Len(s)
      PROVE  j = i \/ \E k \in 1..(Len(s) - 1) : r[k] = s[j]
  <2>1. CASE j < i
    <3>1. j \in 1..(Len(s) - 1) BY <1>1, <2>1
    <3> QED BY <2>1, <3>1, <1>3
  <2>2. CASE j > i
    <3>1. j - 1 \in 1..(Len(s) - 1) /\ ~(j - 1 < i) /\ (j - 1) + 1 = j BY <1>1, <2>2
    <3>2. r[j - 1] = s[j] BY <3>1, <1>3
    <3> QED BY <3>1, <3>2
  <2> QED BY <1>1, <2>1, <2>2
<1>5. DOMAIN r = 1..(Len(s) - 1) /\ DOMAIN s = 1..Len(s) BY <1>1, <1>2
<1>6. Range(s) \subseteq Range(r) \cup {s[i]} BY <1>4, <1>5 DEF Range
<1>7. Range(r) \subseteq Range(s)
  <2>1. \A j \in 1..(Len(s) - 1) : j \in 1..Len(s) /\ j + 1 \in 1..Len(s) BY <1>1
  <2> QED BY <2>1, <1>3, <1>5 DEF Range
<1>8. s[i] \in Range(s) BY DEF Range
<1> QED BY <1>2, <1>3, <1>6, <1>7, <1>8 DEF r

\* The one taken next is the first of its category; it makes three in a row only
\* if no other category is left.
LEMMA NextIsFirst ==
  ASSUME NEW done \in Seq(Activity), NEW pool \in Seq(Activity), Len(pool) > 0
  PROVE  LET i == NextOf(done, pool)  n == Len(done) IN
         /\ i \in 1..Len(pool)
         /\ \A j \in 1..Len(pool) : j < i => pool[j].cat # pool[i].cat
         /\ n >= 2 /\ done[n].cat = done[n - 1].cat /\ pool[i].cat = done[n].cat
              => \A j \in 1..Len(pool) : pool[j].cat = done[n].cat
         /\ n = 0 => i = 1
<1> DEFINE i == NextOf(done, pool)
           n == Len(done)
           other == {j \in DOMAIN pool : pool[j].cat # done[n].cat}
<1>1. n \in Nat /\ Len(pool) \in Nat /\ DOMAIN pool = 1..Len(pool) OBVIOUS
<1>2. CASE n >= 2 /\ done[n].cat = done[n - 1].cat /\ other # {}
  <2>1. other \in SUBSET Nat BY <1>1
  <2>2. \E m \in other : \A j \in other : m <= j
    <3> HIDE DEF other
    <3> QED BY <1>2, <2>1, LeastNat
  <2>3. i = CHOOSE m \in other : \A j \in other : m <= j BY <1>2 DEF NextOf
  <2>4. i \in other /\ \A j \in other : i <= j
    <3> HIDE DEF i, other
    <3> QED BY <2>2, <2>3
  <2> HIDE DEF i
  <2>5. i \in 1..Len(pool) /\ pool[i].cat # done[n].cat BY <1>1, <2>4
  <2>6. ASSUME NEW j \in 1..Len(pool), j < i PROVE pool[j].cat # pool[i].cat
    <3>1. j \notin other BY <2>4, <2>5, <2>6
    <3> QED BY <1>1, <2>5, <3>1
  <2> QED BY <1>2, <2>5, <2>6 DEF i
<1>3. CASE ~(n >= 2 /\ done[n].cat = done[n - 1].cat /\ other # {})
  <2>1. i = 1 BY <1>3, Zenon DEF NextOf
  <2> HIDE DEF i
  <2>2. ASSUME n >= 2, done[n].cat = done[n - 1].cat
        PROVE  \A j \in 1..Len(pool) : pool[j].cat = done[n].cat
    BY <1>1, <1>3, <2>2
  <2> QED BY <1>1, <2>1, <2>2 DEF i
<1> QED BY <1>2, <1>3

\* After k steps over a list s that is sorted: nothing is lost, what is left is
\* sorted, within a category what is taken is better than what is left, and three
\* in a row are followed by their own category only.
SoFar(done, pool, s, k) ==
  /\ done \in Seq(Activity) /\ pool \in Seq(Activity)
  /\ Len(done) = k /\ Len(pool) = Len(s) - k
  /\ Range(s) = Range(done) \cup Range(pool)
  /\ \A i, j \in 1..Len(pool) : i < j => pool[i].id > pool[j].id
  /\ \A i, j \in 1..k : i < j /\ done[i].cat = done[j].cat => done[i].id > done[j].id
  /\ \A i \in 1..k, j \in 1..Len(pool) : done[i].cat = pool[j].cat => done[i].id > pool[j].id
  /\ \A i \in 3..k : done[i].cat = done[i - 1].cat /\ done[i].cat = done[i - 2].cat
                     => /\ \A j \in i..k : done[j].cat = done[i].cat
                        /\ \A j \in 1..Len(pool) : pool[j].cat = done[i].cat
  /\ IF k = 0 THEN pool = s ELSE done[1] = s[1]

\* One more round of diversify keeps what holds so far.
LEMMA OneMore ==
  ASSUME NEW s \in Seq(Activity), NEW k \in Nat, k < Len(s),
         NEW done, NEW pool, SoFar(done, pool, s, k)
  PROVE  LET i == NextOf(done, pool) IN
         SoFar(Append(done, pool[i]), RemoveAt(pool, i), s, k + 1)
<1> DEFINE i == NextOf(done, pool)
           a == pool[i]
           d == Append(done, a)
           p == RemoveAt(pool, i)
<1>1. /\ done \in Seq(Activity) /\ pool \in Seq(Activity)
      /\ Len(done) = k /\ Len(pool) = Len(s) - k /\ Len(s) \in Nat
      /\ Range(s) = Range(done) \cup Range(pool)
  BY DEF SoFar
<1>2. /\ i \in 1..Len(pool)
      /\ \A j \in 1..Len(pool) : j < i => pool[j].cat # pool[i].cat
      /\ k >= 2 /\ done[k].cat = done[k - 1].cat /\ pool[i].cat = done[k].cat
           => \A j \in 1..Len(pool) : pool[j].cat = done[k].cat
      /\ k = 0 => i = 1
  <2>1. Len(pool) > 0 BY <1>1
  <2> QED BY <1>1, <2>1, NextIsFirst, Zenon
<1>3. /\ p \in Seq(Activity) /\ Len(p) = Len(pool) - 1
      /\ \A j \in 1..Len(p) : p[j] = IF j < i THEN pool[j] ELSE pool[j + 1]
      /\ Range(pool) = Range(p) \cup {pool[i]}
  BY <1>1, <1>2, RemovedOne, Zenon
<1> HIDE DEF i, p
<1>4. a \in Activity BY <1>1, <1>2
<1>5. /\ d \in Seq(Activity) /\ Len(d) = k + 1 /\ d[k + 1] = a
      /\ \A j \in 1..k : d[j] = done[j]
  BY <1>1, <1>4
<1>6. Range(s) = Range(d) \cup Range(p)
  <2>1. Range(d) = Range(done) \cup {a}
    <3>1. DOMAIN d = 1..(k + 1) /\ DOMAIN done = 1..k /\ 1..(k + 1) = (1..k) \cup {k + 1}
      BY <1>1, <1>5
    <3> QED BY <1>5, <3>1 DEF Range
  <2> QED BY <1>1, <1>3, <2>1
<1> HIDE DEF d, a
\* where in the old pool what is left was: after a, if it is of a's category
<1>7. \A j \in 1..Len(p) : \E m \in 1..Len(pool) :
         p[j] = pool[m] /\ m # i /\ m = (IF j < i THEN j ELSE j + 1)
  BY <1>1, <1>2, <1>3
<1>8. \A i1, j1 \in 1..Len(pool) : i1 < j1 => pool[i1].id > pool[j1].id BY DEF SoFar
<1>9. ASSUME NEW x \in 1..Len(p), NEW y \in 1..Len(p), x < y PROVE p[x].id > p[y].id
  <2>1. PICK m \in 1..Len(pool) : p[x] = pool[m] /\ m = (IF x < i THEN x ELSE x + 1) BY <1>7
  <2>2. PICK l \in 1..Len(pool) : p[y] = pool[l] /\ l = (IF y < i THEN y ELSE y + 1) BY <1>7
  <2>3. m < l BY <1>2, <1>9, <2>1, <2>2
  <2> QED BY <1>8, <2>1, <2>2, <2>3
<1>10. ASSUME NEW y \in 1..Len(p), a.cat = p[y].cat PROVE a.id > p[y].id
  <2>1. PICK m \in 1..Len(pool) : p[y] = pool[m] /\ m # i BY <1>7
  <2>2. ~(m < i) BY <1>2, <1>10, <2>1 DEF a
  <2>3. i < m BY <1>2, <2>1, <2>2
  <2> QED BY <1>2, <1>8, <2>1, <2>3 DEF a
<1>11. \A x \in 1..k, m \in 1..Len(pool) : done[x].cat = pool[m].cat => done[x].id > pool[m].id
  BY DEF SoFar
<1>12. ASSUME NEW x \in 1..(k + 1), NEW y \in 1..(k + 1), x < y, d[x].cat = d[y].cat
       PROVE  d[x].id > d[y].id
  <2>1. x \in 1..k /\ d[x] = done[x] BY <1>5, <1>12
  <2>2. CASE y = k + 1 BY <1>2, <1>5, <1>11, <1>12, <2>1, <2>2 DEF a
  <2>3. CASE y \in 1..k
    <3>1. \A u, v \in 1..k : u < v /\ done[u].cat = done[v].cat => done[u].id > done[v].id
      BY DEF SoFar
    <3> QED BY <1>5, <1>12, <2>1, <2>3, <3>1
  <2> QED BY <2>2, <2>3
<1>13. ASSUME NEW x \in 1..(k + 1), NEW y \in 1..Len(p), d[x].cat = p[y].cat
       PROVE  d[x].id > p[y].id
  <2>1. CASE x = k + 1 BY <1>5, <1>10, <1>13, <2>1
  <2>2. CASE x \in 1..k
    <3>1. PICK m \in 1..Len(pool) : p[y] = pool[m] BY <1>7
    <3> QED BY <1>5, <1>11, <1>13, <2>2, <3>1
  <2> QED BY <2>1, <2>2
<1>14. ASSUME NEW x \in 3..(k + 1), d[x].cat = d[x - 1].cat, d[x].cat = d[x - 2].cat
       PROVE  /\ \A j \in x..(k + 1) : d[j].cat = d[x].cat
              /\ \A j \in 1..Len(p) : p[j].cat = d[x].cat
  <2>1. x - 1 \in 1..k /\ x - 2 \in 1..k /\ d[x - 1] = done[x - 1] /\ d[x - 2] = done[x - 2]
    BY <1>5
  <2>2. CASE x = k + 1
    <3>1. k >= 2 /\ k = x - 1 /\ k - 1 = x - 2 BY <2>2
    <3>2. \A j \in 1..Len(pool) : pool[j].cat = done[k].cat
      BY <1>2, <1>5, <1>14, <2>1, <2>2, <3>1 DEF a
    <3>3. \A j \in 1..Len(p) : p[j].cat = done[k].cat BY <1>7, <3>2
    <3>4. x..(k + 1) = {x} BY <2>2
    <3> QED BY <1>14, <2>1, <3>1, <3>3, <3>4
  <2>3. CASE x \in 3..k
    <3>1. d[x] = done[x] BY <1>5, <2>3
    <3>2. /\ \A j \in x..k : done[j].cat = done[x].cat
          /\ \A j \in 1..Len(pool) : pool[j].cat = done[x].cat
      <4>1. \A z \in 3..k : done[z].cat = done[z - 1].cat /\ done[z].cat = done[z - 2].cat
                     => /\ \A j \in z..k : done[j].cat = done[z].cat
                        /\ \A j \in 1..Len(pool) : pool[j].cat = done[z].cat
        BY DEF SoFar
      <4> QED BY <4>1, <1>14, <2>1, <2>3, <3>1, Zenon
    <3>3. \A j \in 1..Len(p) : p[j].cat = d[x].cat BY <1>7, <3>1, <3>2
    <3>4. \A j \in x..(k + 1) : j = k + 1 \/ (j \in x..k /\ j \in 1..k) BY <2>3
    <3>5. d[k + 1].cat = d[x].cat BY <1>2, <1>5, <3>1, <3>2 DEF a
    <3> QED BY <1>5, <3>1, <3>2, <3>3, <3>4, <3>5
  <2> QED BY <2>2, <2>3
<1>15. k + 1 # 0 /\ d[1] = s[1]
  <2>1. CASE k = 0
    <3>1. pool = s BY <2>1 DEF SoFar
    <3> QED BY <1>2, <1>5, <2>1, <3>1 DEF a
  <2>2. CASE k # 0
    <3>1. done[1] = s[1] BY <2>2 DEF SoFar
    <3> QED BY <1>5, <2>2, <3>1
  <2> QED BY <2>1, <2>2
<1>16. Len(p) = Len(s) - (k + 1) BY <1>1, <1>3
<1>17. SoFar(d, p, s, k + 1)
  BY <1>3, <1>5, <1>6, <1>9, <1>12, <1>13, <1>14, <1>15, <1>16 DEF SoFar
<1> QED BY <1>17 DEF d, a, p, i

\* What diversify makes of a sorted list: all of it, each category in its order,
\* the best one first, three in a row only before nothing else.
LEMMA DiversifiedKeeps ==
  ASSUME NEW s \in Seq(Activity), \A i, j \in 1..Len(s) : i < j => s[i].id > s[j].id
  PROVE  LET d == Diversified(s) IN
         /\ d \in Seq(Activity) /\ Len(d) = Len(s) /\ Range(d) = Range(s)
         /\ \A i, j \in 1..Len(d) : i < j /\ d[i].cat = d[j].cat => d[i].id > d[j].id
         /\ \A i \in 3..Len(d) : d[i].cat = d[i - 1].cat /\ d[i].cat = d[i - 2].cat
                                 => \A j \in i..Len(d) : d[j].cat = d[i].cat
         /\ Len(s) > 0 => d[1] = s[1]
<1> DEFINE n == Len(s)
<1>1. PICK f : StepsTo(f, s, n) /\ Diversified(s) = f[n].done BY DiversifiedIsDefined
<1>2. n \in Nat OBVIOUS
<1>3. /\ f[0] = [done |-> <<>>, pool |-> s]
      /\ \A k \in 1..n : f[k] = NextStep(f[k - 1])
  <2>1. f = [k \in 0..n |-> IF k = 0 THEN [done |-> <<>>, pool |-> s] ELSE NextStep(f[k - 1])]
    BY <1>1, Zenon DEF StepsTo
  <2>2. 0 \in 0..n /\ \A k \in 1..n : k \in 0..n /\ k # 0 BY <1>2
  <2> QED BY ONLY <2>1, <2>2
<1> DEFINE T == {k \in 0..n : SoFar(f[k].done, f[k].pool, s, k)}
<1>4. 0 \in T
  <2>1. SoFar(<<>>, s, s, 0)
    <3>1. DOMAIN <<>> = {} /\ Range(<<>>) = {} BY DEF Range
    <3> QED BY <3>1 DEF SoFar
  <2> QED BY <1>2, <1>3, <2>1
<1>5. ASSUME NEW k \in 0..n, k \in T, k < n PROVE k + 1 \in T
  <2>1. SoFar(f[k].done, f[k].pool, s, k) BY <1>5
  <2>2. k \in Nat /\ k + 1 \in 1..n /\ k + 1 \in 0..n /\ (k + 1) - 1 = k BY <1>2, <1>5
  <2>3. f[k + 1] = NextStep(f[k]) BY <1>3, <2>2
  <2> DEFINE i == NextOf(f[k].done, f[k].pool)
  <2>4. SoFar(Append(f[k].done, f[k].pool[i]), RemoveAt(f[k].pool, i), s, k + 1)
    BY <1>5, <2>1, <2>2, OneMore, Zenon
  <2>5. /\ f[k + 1].done = Append(f[k].done, f[k].pool[i])
        /\ f[k + 1].pool = RemoveAt(f[k].pool, i)
    <3>1. f[k + 1] = [done |-> Append(f[k].done, f[k].pool[i]), pool |-> RemoveAt(f[k].pool, i)]
      BY <2>3, Zenon DEF NextStep
    <3> HIDE DEF i
    <3> QED BY <3>1
  <2> QED BY <2>2, <2>4, <2>5
<1>6. n \in T
  <2> HIDE DEF T, n
  <2>1. \A k \in 0..n : k \in T BY <1>2, <1>4, <1>5, CountsUp, Zenon
  <2> QED BY <1>2, <2>1
<1> DEFINE d == f[n].done
           p == f[n].pool
<1>7. SoFar(d, p, s, n) BY <1>6
<1> HIDE DEF d, p
<1>8. /\ d \in Seq(Activity) /\ p \in Seq(Activity) /\ Len(d) = n /\ Len(p) = 0
      /\ Range(s) = Range(d) \cup Range(p)
  BY <1>2, <1>7 DEF SoFar
<1>9. Range(p) = {} BY <1>8 DEF Range
<1>10. /\ \A i, j \in 1..n : i < j /\ d[i].cat = d[j].cat => d[i].id > d[j].id
       /\ \A i \in 3..n : d[i].cat = d[i - 1].cat /\ d[i].cat = d[i - 2].cat
                          => \A j \in i..n : d[j].cat = d[i].cat
       /\ n > 0 => d[1] = s[1]
  BY <1>2, <1>7 DEF SoFar
<1> QED BY <1>1, <1>8, <1>9, <1>10 DEF d

\* Cutting keeps the front.
LEMMA CutKeepsTheFront ==
  ASSUME NEW s \in Seq(Activity), NEW n \in Nat
  PROVE  LET c == Cut(s, n) IN
         /\ c \in Seq(Activity) /\ Len(c) = IF Len(s) < n THEN Len(s) ELSE n
         /\ \A i \in 1..Len(c) : c[i] = s[i]
         /\ Range(c) \subseteq Range(s)
         /\ Len(s) <= n => c = s
<1> DEFINE m == IF Len(s) < n THEN Len(s) ELSE n
           c == Cut(s, n)
<1>1. m \in Nat /\ m <= Len(s) /\ Len(s) \in Nat OBVIOUS
<1>2. c = SubSeq(s, 1, m) BY DEF Cut
<1>3. c \in Seq(Activity) /\ Len(c) = m /\ \A i \in 1..m : c[i] = s[i]
  <2> HIDE DEF c, m
  <2> QED BY <1>1, <1>2
<1>4. Range(c) \subseteq Range(s)
  <2> HIDE DEF c, m
  <2>1. DOMAIN c = 1..m /\ DOMAIN s = 1..Len(s) /\ 1..m \subseteq 1..Len(s) BY <1>1, <1>3
  <2> QED BY <1>3, <2>1 DEF Range
<1>5. Len(s) <= n => c = s
  <2>1. ASSUME Len(s) <= n PROVE m = Len(s) BY <2>1
  <2> HIDE DEF c
  <2> QED BY <1>3, <2>1
<1> QED BY <1>3, <1>4, <1>5

\* ranked takes as many as there are and fit, the best one first; all if they fit.
Takes(r, U, n) ==
  /\ r \in Seq(Activity) /\ Range(r) \subseteq U
  /\ Len(r) = IF Cardinality(U) < n THEN Cardinality(U) ELSE n
  /\ Cardinality(U) <= n => Range(r) = U
  /\ Len(r) > 0 => \A b \in U : r[1].id >= b.id

\* What ranked returns are the best of what is not excluded, as many as fit.
LEMMA RankedTakes ==
  ASSUME NEW S, Group(S), NEW without, NEW n \in Nat, NEW full
  PROVE  Takes(Ranked(S, without, n, full), Rankable(S, without, full), n)
<1> DEFINE U == Rankable(S, without, full)
           s == ByScore(U)
           c == Cut(s, n)
           r == Ranked(S, without, n, full)
<1>1. Group(U)
  <2>1. U \in SUBSET S BY DEF Rankable
  <2> QED BY <2>1, FS_Subset DEF Group, IdsName
<1>2. Sorts(s, U) BY <1>1, ByScoreSorts
<1>3. r = Diversified(c) BY DEF Ranked
<1> HIDE DEF U, s, c, r
<1>4. /\ s \in Seq(Activity) /\ Len(s) = Cardinality(U) /\ Range(s) = U
      /\ \A i, j \in 1..Len(s) : i < j => s[i].id > s[j].id
  BY <1>2 DEF Sorts
<1>5. /\ c \in Seq(Activity) /\ Len(c) = IF Len(s) < n THEN Len(s) ELSE n
      /\ \A i \in 1..Len(c) : c[i] = s[i]
      /\ Range(c) \subseteq Range(s)
      /\ Len(s) <= n => c = s
  BY <1>4, CutKeepsTheFront, Zenon DEF c
<1>6. \A i, j \in 1..Len(c) : i < j => c[i].id > c[j].id
  <2>1. 1..Len(c) \subseteq 1..Len(s) BY <1>4, <1>5
  <2> QED BY <1>4, <1>5, <2>1
<1>7. /\ r \in Seq(Activity) /\ Len(r) = Len(c) /\ Range(r) = Range(c)
      /\ Len(c) > 0 => r[1] = c[1]
  BY <1>3, <1>5, <1>6, DiversifiedKeeps, Zenon
<1>8. ASSUME Len(r) > 0, NEW b \in U PROVE r[1].id >= b.id
  <2>1. r[1] = s[1] /\ 1 \in 1..Len(s) BY <1>4, <1>5, <1>7, <1>8
  <2>2. PICK j \in 1..Len(s) : s[j] = b BY <1>4 DEF Range
  <2>3. s[1].id \in Nat /\ s[j].id \in Nat
    <3>1. s[1] \in Activity /\ s[j] \in Activity BY <1>4, <2>1
    <3> QED BY <3>1 DEF Activity
  <2>4. CASE j = 1 BY <2>1, <2>2, <2>3, <2>4
  <2>5. CASE j # 1 BY <1>4, <2>1, <2>2, <2>3, <2>5
  <2> QED BY <2>4, <2>5
<1>9. Takes(r, U, n) BY <1>4, <1>5, <1>7, <1>8 DEF Takes
<1> QED BY <1>9 DEF U, r
-----------------------------------------------------------------------------
\* A page: activities in any order, each with an id of its own.
Page ==
  /\ acts \in Seq(Activity)
  /\ \A i, j \in 1..Len(acts) : acts[i].id = acts[j].id => i = j
  /\ \A a \in Range(acts) : a.id \in 1..MaxCrowd

\* The activities of a page are finitely many and have different ids.
LEMMA PageIsAGroup ==
  ASSUME Page
  PROVE  Group(Range(acts)) /\ Cardinality(Range(acts)) = Len(acts)
<1> DEFINE n == Len(acts)
<1>1. /\ n \in Nat /\ DOMAIN acts = 1..n /\ \A i \in 1..n : acts[i] \in Activity
      /\ acts \in [1..n -> Range(acts)]
  BY DEF Page, Range
<1>2. IsFiniteSet(1..n) /\ Cardinality(1..n) = n BY <1>1, FS_Interval
<1>3. acts \in Bijection(1..n, Range(acts))
  BY <1>1 DEF Page, Range, Bijection, Injection, Surjection, IsInjective
<1>4. IsFiniteSet(Range(acts)) /\ Cardinality(Range(acts)) = n
  BY <1>2, <1>3, FS_Bijection DEF ExistsBijection
<1>5. Range(acts) \subseteq Activity /\ IdsName(Range(acts)) BY <1>1 DEF Page, Range, IdsName
<1> QED BY <1>4, <1>5 DEF Group

\* diversify, on the whole page.
LEMMA DiversifiedIsWhole ==
  ASSUME Page
  PROVE  DiversifiedWhole
<1> DEFINE s == ByScore(Range(acts))
           d == Diversified(s)
<1>1. Group(Range(acts)) /\ Cardinality(Range(acts)) = Len(acts) BY PageIsAGroup
<1>2. Sorts(s, Range(acts)) BY <1>1, ByScoreSorts
<1> HIDE DEF s
<1>3. /\ s \in Seq(Activity) /\ Len(s) = Len(acts) /\ Range(s) = Range(acts)
      /\ \A i, j \in 1..Len(s) : i < j => s[i].id > s[j].id
  BY <1>1, <1>2 DEF Sorts
<1>4. /\ d \in Seq(Activity) /\ Len(d) = Len(s) /\ Range(d) = Range(s)
      /\ \A i, j \in 1..Len(d) : i < j /\ d[i].cat = d[j].cat => d[i].id > d[j].id
      /\ \A i \in 3..Len(d) : d[i].cat = d[i - 1].cat /\ d[i].cat = d[i - 2].cat
                              => \A j \in i..Len(d) : d[j].cat = d[i].cat
  BY <1>3, DiversifiedKeeps, Zenon
<1> HIDE DEF d
<1>5. DOMAIN d = 1..Len(d) BY <1>4
<1>6. /\ Len(d) = Len(acts) /\ Range(d) = Range(acts)
      /\ \A i, j \in DOMAIN d : i < j /\ d[i].cat = d[j].cat => d[i].id > d[j].id
      /\ \A i \in 3..Len(d) : d[i].cat = d[i - 1].cat /\ d[i].cat = d[i - 2].cat
                              => \A j \in i..Len(d) : d[j].cat = d[i].cat
  BY <1>3, <1>4, <1>5
<1> QED BY <1>6, Zenon DEF DiversifiedWhole, s, d

-----------------------------------------------------------------------------
\* What Those takes is in the set.
PicksTo(f, S, n) ==
  f = [i \in 0..n |-> IF i = 0 THEN <<>>
                      ELSE IF acts[i] \in S THEN Append(f[i - 1], acts[i]) ELSE f[i - 1]]

\* The recursion of a filter has a value.
LEMMA ThoseIsDefined ==
  ASSUME acts \in Seq(Activity), NEW S
  PROVE  \E f : PicksTo(f, S, Len(acts)) /\ Those(S) = f[Len(acts)]
<1> DEFINE T == {n \in Nat : \E f : PicksTo(f, S, n)}
<1>1. 0 \in T
  <2>1. PicksTo([i \in 0..0 |-> <<>>], S, 0) BY DEF PicksTo
  <2> QED BY <2>1
<1>2. ASSUME NEW n \in Nat, n \in T PROVE n + 1 \in T
  <2>1. PICK f : PicksTo(f, S, n) BY <1>2
  <2> DEFINE g == [i \in 0..(n + 1) |->
                     IF i = 0 THEN <<>>
                     ELSE IF acts[i] \in S THEN Append(f[i - 1], acts[i]) ELSE f[i - 1]]
             h == [i \in 0..n |->
                     IF i = 0 THEN <<>>
                     ELSE IF acts[i] \in S THEN Append(f[i - 1], acts[i]) ELSE f[i - 1]]
  <2>2. f = h BY <2>1 DEF PicksTo
  <2>3. \A i \in 0..n : g[i] = h[i] OBVIOUS
  <2>4. \A i \in 0..n : g[i] = f[i] BY ONLY <2>2, <2>3
  <2>5. \A i \in 0..(n + 1) : i # 0 => i - 1 \in 0..n OBVIOUS
  <2>6. PicksTo(g, S, n + 1) BY <2>4, <2>5 DEF PicksTo
  <2> QED BY <2>6
<1>3. Len(acts) \in T
  <2> HIDE DEF T
  <2>1. Len(acts) \in Nat /\ 0..Len(acts) \subseteq Nat OBVIOUS
  <2>2. \A n \in 0..Len(acts) : n \in T BY <1>1, <1>2, <2>1, CountsUp, Zenon
  <2> QED BY <2>1, <2>2
<1> DEFINE IsIt(f) == f = [i \in 0..Len(acts) |->
              IF i = 0 THEN <<>>
              ELSE IF acts[i] \in S THEN Append(f[i - 1], acts[i]) ELSE f[i - 1]]
<1>4. \E f : IsIt(f) BY <1>3 DEF PicksTo
<1>5. IsIt(CHOOSE f : IsIt(f))
  <2> HIDE DEF IsIt
  <2> QED BY <1>4, Zenon
<1>6. Those(S) = (CHOOSE f : IsIt(f))[Len(acts)] BY Zenon DEF Those
<1> QED BY <1>5, <1>6 DEF PicksTo

\* What a filter lets through.
LEMMA ThoseAreIn ==
  ASSUME acts \in Seq(Activity), NEW S \in SUBSET Activity
  PROVE  Those(S) \in Seq(Activity) /\ Range(Those(S)) \subseteq S
<1> DEFINE n == Len(acts)
<1>1. PICK f : PicksTo(f, S, n) /\ Those(S) = f[n] BY ThoseIsDefined
<1>2. n \in Nat /\ \A i \in 1..n : acts[i] \in Activity OBVIOUS
<1>3. /\ f[0] = <<>>
      /\ \A i \in 1..n : f[i] = IF acts[i] \in S THEN Append(f[i - 1], acts[i]) ELSE f[i - 1]
  <2>1. f = [i \in 0..n |-> IF i = 0 THEN <<>>
                            ELSE IF acts[i] \in S THEN Append(f[i - 1], acts[i]) ELSE f[i - 1]]
    BY <1>1, Zenon DEF PicksTo
  <2>2. 0 \in 0..n /\ \A i \in 1..n : i \in 0..n /\ i # 0 BY <1>2
  <2> QED BY ONLY <2>1, <2>2
<1> DEFINE Fine(w) == w \in Seq(Activity) /\ \A j \in 1..Len(w) : w[j] \in S
           T == {k \in 0..n : Fine(f[k])}
<1>4. 0 \in T
  <2>1. Fine(<<>>) OBVIOUS
  <2> HIDE DEF Fine
  <2> QED BY <1>2, <1>3, <2>1
<1>5. ASSUME NEW k \in 0..n, k \in T, k < n PROVE k + 1 \in T
  <2>1. k + 1 \in 1..n /\ k + 1 \in 0..n /\ (k + 1) - 1 = k BY <1>2, <1>5
  <2>2. Fine(f[k]) BY <1>5
  <2>3. ASSUME NEW w, NEW a \in Activity, Fine(w), a \in S PROVE Fine(Append(w, a))
    <3>1. /\ Append(w, a) \in Seq(Activity) /\ Len(Append(w, a)) = Len(w) + 1 /\ Len(w) \in Nat
          /\ Append(w, a)[Len(w) + 1] = a /\ \A j \in 1..Len(w) : Append(w, a)[j] = w[j]
      BY <2>3
    <3>2. \A j \in 1..(Len(w) + 1) : j \in 1..Len(w) \/ j = Len(w) + 1 BY <3>1
    <3> QED BY <2>3, <3>1, <3>2
  <2> HIDE DEF Fine
  <2>4. Fine(f[k + 1]) BY <1>2, <1>3, <2>1, <2>2, <2>3
  <2> QED BY <2>1, <2>4
<1>6. n \in T
  <2> HIDE DEF T, n
  <2>1. \A k \in 0..n : k \in T BY <1>2, <1>4, <1>5, CountsUp, Zenon
  <2> QED BY <1>2, <2>1
<1>7. Fine(f[n]) BY <1>6
<1>8. Those(S) \in Seq(Activity) /\ \A j \in 1..Len(Those(S)) : Those(S)[j] \in S BY <1>1, <1>7
<1> QED BY <1>8 DEF Range

\* What holds of the shelves after each step of build_shelves: they offer what they
\* may, each is there once, what is claimed is exactly what is on those but "ranked",
\* and what is to be apart is.
Middle == {"filling", "nearby", "forYou", "food", "sport"}
Outer == {"ranked", "more"}
ShelfNames == {"following"} \cup Middle \cup Outer
Shelf == [name : ShelfNames, items : Seq(Activity)]

MayHold(name, s) ==
  s \in Seq(Activity) /\ \A a \in Range(s) : /\ a \in Range(acts) /\ Upcoming(a)
                                             /\ a.is = "full" => name \in {"following", "ranked"}

\* What the second offers is not on the first.
Apart(n, m) == \/ m = "forYou" /\ n \in {"following", "filling", "nearby"}
               \/ m \in Outer /\ n \in {"following"} \cup Middle

ShelfIsFine(shelf, claimed, names) ==
  /\ MayHold(shelf.name, shelf.items) /\ Len(shelf.items) >= MinimumCount
  /\ shelf.name \in names
  /\ shelf.name # "ranked" => Ids(shelf.items) \subseteq claimed

ShelvesSoFar(S, claimed, names) ==
  /\ S \in Seq(Shelf)
  /\ \A i \in 1..Len(S) : ShelfIsFine(S[i], claimed, names)
  /\ \A x \in claimed : \E i \in 1..Len(S) : x \in Ids(S[i].items)
  /\ \A i, j \in 1..Len(S) : i # j => S[i].name # S[j].name
  /\ \A i, j \in 1..Len(S) :
       Apart(S[i].name, S[j].name) => Ids(S[i].items) \cap Ids(S[j].items) = {}

ShelvedWell(st, names) == ShelvesSoFar(st.shelves, st.claimed, names)

\* The shelf is the last one now.
EndsWith(S, name, s) ==
  Len(S) \in 1..Len(S) /\ S[Len(S)].name = name /\ S[Len(S)].items = s

\* append keeps the shelves well and only adds to what is claimed.
LEMMA ShelfIsAdded ==
  ASSUME NEW st, NEW names, ShelvedWell(st, names), NEW name \in ShelfNames, NEW s,
         MayHold(name, s), NEW claim \in BOOLEAN, claim <=> name # "ranked",
         name \notin names, \A m \in names : ~Apart(name, m),
         name \in {"forYou", "ranked", "more"} => Ids(s) \cap st.claimed = {}
  PROVE  LET st2 == Shelved(st, name, s, claim) IN
         /\ ShelvedWell(st2, names \cup {name})
         /\ st.claimed \subseteq st2.claimed
         /\ Len(s) >= MinimumCount => EndsWith(st2.shelves, name, s)
<1> DEFINE st2 == Shelved(st, name, s, claim)
<1>1. CASE Len(s) < MinimumCount
  <2>1. st2 = st BY <1>1, Zenon DEF Shelved
  <2>2. ~(Len(s) >= MinimumCount) BY <1>1 DEF MinimumCount, MayHold
  <2> HIDE DEF st2
  <2>3. ShelvedWell(st, names \cup {name}) BY Zenon DEF ShelvedWell, ShelvesSoFar, ShelfIsFine
  <2>4. ShelvedWell(st2, names \cup {name}) /\ st.claimed \subseteq st2.claimed BY <2>1, <2>3
  <2> QED BY <2>2, <2>4 DEF st2
<1>2. CASE ~(Len(s) < MinimumCount)
  <2> DEFINE S == st.shelves
             C == st.claimed
             new == [name |-> name, items |-> s]
             S2 == Append(S, new)
             C2 == C \cup (IF claim THEN Ids(s) ELSE {})
  <2>1. st2 = [shelves |-> S2, claimed |-> C2]
    <3>1. st2 = IF Len(s) < MinimumCount THEN st ELSE [shelves |-> S2, claimed |-> C2]
      BY ONLY Zenon DEF Shelved
    <3> HIDE DEF st2, S2, C2
    <3> QED BY ONLY <1>2, <3>1
  <2>2. st2.shelves = S2 /\ st2.claimed = C2
    <3> HIDE DEF st2, S2, C2
    <3> QED BY <2>1
  <2>3. ShelvesSoFar(S, C, names) BY DEF ShelvedWell
  <2>4. new \in Shelf /\ new.name = name /\ new.items = s BY DEF Shelf, MayHold
  <2> HIDE DEF S, C, new
  <2>5. /\ S \in Seq(Shelf) /\ Len(S) \in Nat
        /\ S2 \in Seq(Shelf) /\ Len(S2) = Len(S) + 1 /\ S2[Len(S) + 1] = new
        /\ \A i \in 1..Len(S) : S2[i] = S[i]
    <3>1. S \in Seq(Shelf) BY <2>3 DEF ShelvesSoFar
    <3> QED BY <2>4, <3>1
  <2> HIDE DEF S2
  <2>6. \A i \in 1..Len(S2) : i = Len(S) + 1 \/ i \in 1..Len(S) BY <2>5
  <2>7. C \subseteq C2 /\ (claim => Ids(s) \subseteq C2) /\ \A x \in C2 : x \in C \/ x \in Ids(s)
    OBVIOUS
  <2> HIDE DEF C2
  <2>8. ASSUME NEW i \in 1..Len(S) PROVE ShelfIsFine(S[i], C, names)
    BY <2>3, Zenon DEF ShelvesSoFar
  <2>9. ASSUME NEW i \in 1..Len(S2) PROVE ShelfIsFine(S2[i], C2, names \cup {name})
    <3>1. CASE i = Len(S) + 1
      <4>1. S2[i].name = name /\ S2[i].items = s BY <2>4, <2>5, <3>1
      <4>2. Len(s) >= MinimumCount BY <1>2 DEF MinimumCount, MayHold
      <4> QED BY <2>7, <4>1, <4>2 DEF ShelfIsFine
    <3>2. CASE i \in 1..Len(S)
      <4>1. S2[i] = S[i] BY <2>5, <3>2
      <4>2. ShelfIsFine(S[i], C, names) BY <2>8, <3>2
      <4>3. S[i].name # "ranked" => Ids(S[i].items) \subseteq C2 BY <2>7, <4>2 DEF ShelfIsFine
      <4> QED BY <4>1, <4>2, <4>3 DEF ShelfIsFine
    <3> QED BY <2>6, <3>1, <3>2
  <2>10. ASSUME NEW x \in C2 PROVE \E i \in 1..Len(S2) : x \in Ids(S2[i].items)
    <3>1. CASE x \in C
      <4>1. PICK i \in 1..Len(S) : x \in Ids(S[i].items) BY <2>3, <3>1, Zenon DEF ShelvesSoFar
      <4>2. i \in 1..Len(S2) /\ S2[i] = S[i] BY <2>5
      <4> QED BY <4>1, <4>2
    <3>2. CASE x \in Ids(s)
      <4>1. Len(S) + 1 \in 1..Len(S2) /\ S2[Len(S) + 1].items = s BY <2>4, <2>5
      <4> QED BY <3>2, <4>1
    <3> QED BY <2>7, <3>1, <3>2
  <2>a. \A i \in 1..Len(S) : S2[i] = S[i] /\ S[i].name \in names /\ S[i].name # name
    BY <2>5, <2>8 DEF ShelfIsFine
  <2>b. S2[Len(S) + 1].name = name /\ S2[Len(S) + 1].items = s BY <2>4, <2>5
  <2>c. \A i, j \in 1..Len(S) : i # j => S[i].name # S[j].name BY <2>3, Zenon DEF ShelvesSoFar
  <2>d. \A i, j \in 1..Len(S) :
          Apart(S[i].name, S[j].name) => Ids(S[i].items) \cap Ids(S[j].items) = {}
    BY <2>3, Zenon DEF ShelvesSoFar
  <2>e. ASSUME NEW i \in 1..Len(S2), NEW j \in 1..Len(S2), i # j PROVE S2[i].name # S2[j].name
    BY <2>6, <2>a, <2>b, <2>c, <2>e
  <2>11. ASSUME NEW i \in 1..Len(S2), NEW j \in 1..Len(S2), Apart(S2[i].name, S2[j].name)
         PROVE  Ids(S2[i].items) \cap Ids(S2[j].items) = {}
    <3>1. CASE i = Len(S) + 1
      <4>1. S2[j].name \notin names BY <2>11, <2>b, <3>1
      <4>2. S2[j].name = name BY <2>6, <2>a, <2>b, <4>1
      <4> QED BY <2>11, <2>b, <3>1, <4>2 DEF Apart, Middle, Outer
    <3>2. CASE i \in 1..Len(S) /\ j = Len(S) + 1
      <4>1. Apart(S[i].name, name) BY <2>11, <2>a, <2>b, <3>2
      <4>2. Ids(s) \cap C = {} BY <4>1 DEF C, Apart, Outer
      <4>3. Ids(S[i].items) \subseteq C
        <5>1. S[i].name # "ranked" BY <4>1 DEF Apart, Middle
        <5> QED BY <2>8, <3>2, <5>1 DEF ShelfIsFine
      <4> QED BY <2>a, <2>b, <3>2, <4>2, <4>3
    <3>3. CASE i \in 1..Len(S) /\ j \in 1..Len(S)
      BY <2>11, <2>a, <2>d, <3>3
    <3> QED BY <2>6, <3>1, <3>2, <3>3
  <2>12. ShelvesSoFar(S2, C2, names \cup {name})
    BY <2>5, <2>9, <2>10, <2>11, <2>e DEF ShelvesSoFar
  <2> HIDE DEF st2
  <2>13. EndsWith(S2, name, s) BY <2>4, <2>5 DEF EndsWith
  <2>14. ShelvedWell(st2, names \cup {name}) BY <2>2, <2>12 DEF ShelvedWell
  <2>15. C \subseteq st2.claimed BY <2>2, <2>7
  <2> QED BY <2>2, <2>13, <2>14, <2>15 DEF st2, C
<1> QED BY <1>1, <1>2, Zenon

\* Everything in S can be booked.
Booking(S) == S \subseteq {a \in Range(acts) : Bookable(a)}

\* A selection of upcoming activities may stand on its shelf.
LEMMA OffersFine ==
  ASSUME Page, NEW name \in ShelfNames, NEW S, S \subseteq {a \in Range(acts) : Upcoming(a)},
         NEW s \in Seq(Activity), Range(s) \subseteq S,
         Booking(S) \/ name \in {"following", "ranked"}
  PROVE  MayHold(name, s)
<1>1. ASSUME NEW a \in Range(s)
      PROVE  a \in Range(acts) /\ Upcoming(a) /\ (a.is = "full" => name \in {"following", "ranked"})
  BY DEF Booking, Bookable
<1> QED BY <1>1 DEF MayHold

\* A part of a group is one.
LEMMA SubGroups ==
  ASSUME NEW S, Group(S), NEW T \in SUBSET S
  PROVE  Group(T)
BY FS_Subset DEF Group, IdsName

\* So may the front of a filter and of a sort.
LEMMA RailsAreCut ==
  ASSUME Page, NEW S, S \subseteq {a \in Range(acts) : Upcoming(a)}, NEW name \in ShelfNames,
         Booking(S) \/ name \in {"following", "ranked"}
  PROVE  MayHold(name, Cut(Those(S), RailLimit)) /\ MayHold(name, Cut(ByScore(S), RailLimit))
<1>1. Group(Range(acts)) BY PageIsAGroup
<1>2. Group(S) BY <1>1, SubGroups
<1>3. Those(S) \in Seq(Activity) /\ Range(Those(S)) \subseteq S
  BY <1>2, ThoseAreIn DEF Page, Group
<1>4. ByScore(S) \in Seq(Activity) /\ Range(ByScore(S)) = S BY <1>2, ByScoreSorts DEF Sorts
<1>5. RailLimit \in Nat BY RankingsAssumption
<1>6. /\ Cut(Those(S), RailLimit) \in Seq(Activity)
      /\ Range(Cut(Those(S), RailLimit)) \subseteq Range(Those(S))
  BY <1>3, <1>5, CutKeepsTheFront, Zenon
<1>7. /\ Cut(ByScore(S), RailLimit) \in Seq(Activity)
      /\ Range(Cut(ByScore(S), RailLimit)) \subseteq Range(ByScore(S))
  BY <1>4, <1>5, CutKeepsTheFront, Zenon
<1> DEFINE s == Cut(Those(S), RailLimit)
           t == Cut(ByScore(S), RailLimit)
<1> HIDE DEF s, t
<1>8. /\ s \in Seq(Activity) /\ Range(s) \subseteq S
      /\ t \in Seq(Activity) /\ Range(t) \subseteq S
  BY <1>3, <1>4, <1>6, <1>7 DEF s, t
<1>9. MayHold(name, s) /\ MayHold(name, t) BY <1>8, OffersFine
<1> QED BY <1>9 DEF s, t

\* build_shelves up to "more": all is well, and "more" is filled from what is left.
LEMMA ShelvesUpToMore ==
  ASSUME Page
  PROVE  \E st : /\ ShelvedWell(st, ShelfNames \ {"more"})
                 /\ Appended = Shelved(st, "more",
                       Ranked({a \in Range(acts) : Bookable(a)}, st.claimed, MoreLimit, FALSE),
                       TRUE).shelves
<1> DEFINE upcoming == {a \in Range(acts) : Upcoming(a)}
           bookable == {a \in Range(acts) : Bookable(a)}
           OfCat(c) == {a \in bookable : a.cat = c}
           mine == {a \in upcoming : a.joined}
           filling == {a \in bookable : a.is = "almost"}
           s1 == Cut(Those(mine), RailLimit)
           s2 == Cut(Those(filling), RailLimit)
           s3 == Cut(Those(bookable), RailLimit)
           s5 == Cut(ByScore(OfCat("food")), RailLimit)
           s6 == Cut(ByScore(OfCat("sport")), RailLimit)
           sh0 == [shelves |-> <<>>, claimed |-> {}]
           sh1 == Shelved(sh0, "following", s1, TRUE)
           sh2 == Shelved(sh1, "filling", s2, TRUE)
           sh3 == Shelved(sh2, "nearby", s3, TRUE)
           s4 == Ranked(bookable, sh3.claimed, RailLimit, FALSE)
           sh4 == Shelved(sh3, "forYou", s4, TRUE)
           sh5 == Shelved(sh4, "food", s5, TRUE)
           sh6 == Shelved(sh5, "sport", s6, TRUE)
           s7 == Ranked(upcoming, sh6.claimed, RailLimit, TRUE)
           sh7 == Shelved(sh6, "ranked", s7, FALSE)
           s8 == Ranked(bookable, sh7.claimed, MoreLimit, FALSE)
           sh8 == Shelved(sh7, "more", s8, TRUE)
<1>1. Appended = sh8.shelves BY Zenon DEF Appended
<1>2. /\ bookable \subseteq upcoming /\ upcoming \subseteq Range(acts)
      /\ mine \subseteq upcoming /\ filling \subseteq bookable
      /\ OfCat("food") \subseteq bookable /\ OfCat("sport") \subseteq bookable
  BY DEF Bookable, Upcoming
<1>3. Group(Range(acts)) BY PageIsAGroup
<1>4. Group(bookable) /\ Group(upcoming) BY <1>2, <1>3, SubGroups
<1>5. RailLimit \in Nat BY RankingsAssumption
<1>6. Booking(bookable) /\ Booking(filling) /\ Booking(OfCat("food")) /\ Booking(OfCat("sport"))
  BY DEF Booking
<1> HIDE DEF upcoming, bookable, OfCat, mine, filling
<1>7. MayHold("following", s1)
  <2>1. "following" \in ShelfNames /\ mine \subseteq {a \in Range(acts) : Upcoming(a)}
    BY <1>2 DEF upcoming, ShelfNames, Middle, Outer
  <2>2. Booking(mine) \/ "following" \in {"following", "ranked"} BY <1>6
  <2> QED BY <2>1, <2>2, RailsAreCut, Zenon
<1>8. MayHold("filling", s2)
  <2>1. "filling" \in ShelfNames /\ filling \subseteq {a \in Range(acts) : Upcoming(a)}
    BY <1>2 DEF upcoming, ShelfNames, Middle, Outer
  <2>2. Booking(filling) \/ "filling" \in {"following", "ranked"} BY <1>6
  <2> QED BY <2>1, <2>2, RailsAreCut, Zenon
<1>9. MayHold("nearby", s3)
  <2>1. "nearby" \in ShelfNames /\ bookable \subseteq {a \in Range(acts) : Upcoming(a)}
    BY <1>2 DEF upcoming, ShelfNames, Middle, Outer
  <2>2. Booking(bookable) \/ "nearby" \in {"following", "ranked"} BY <1>6
  <2> QED BY <2>1, <2>2, RailsAreCut, Zenon
<1>10. MayHold("food", s5)
  <2>1. "food" \in ShelfNames /\ OfCat("food") \subseteq {a \in Range(acts) : Upcoming(a)}
    BY <1>2 DEF upcoming, ShelfNames, Middle, Outer
  <2>2. Booking(OfCat("food")) \/ "food" \in {"following", "ranked"} BY <1>6
  <2> QED BY <2>1, <2>2, RailsAreCut, Zenon
<1>11. MayHold("sport", s6)
  <2>1. "sport" \in ShelfNames /\ OfCat("sport") \subseteq {a \in Range(acts) : Upcoming(a)}
    BY <1>2 DEF upcoming, ShelfNames, Middle, Outer
  <2>2. Booking(OfCat("sport")) \/ "sport" \in {"following", "ranked"} BY <1>6
  <2> QED BY <2>1, <2>2, RailsAreCut, Zenon
<1> HIDE DEF s1, s2, s3, s5, s6
<1>12. ASSUME NEW S, Group(S), NEW claimed, NEW n \in Nat, NEW full
       PROVE  LET r == Ranked(S, claimed, n, full) IN
              r \in Seq(Activity) /\ Range(r) \subseteq S /\ Ids(r) \cap claimed = {}
  <2> DEFINE r == Ranked(S, claimed, n, full)
  <2>1. r \in Seq(Activity) /\ Range(r) \subseteq Rankable(S, claimed, full)
    BY <1>12, RankedTakes, Zenon DEF Takes
  <2> HIDE DEF r
  <2>2. Range(r) \subseteq S /\ Ids(r) \cap claimed = {} BY <2>1 DEF Ids, Rankable
  <2> QED BY <2>1, <2>2 DEF r
<1> DEFINE n1 == {"following"}
           n2 == n1 \cup {"filling"}
           n3 == n2 \cup {"nearby"}
           n4 == n3 \cup {"forYou"}
           n5 == n4 \cup {"food"}
           n6 == n5 \cup {"sport"}
           n7 == n6 \cup {"ranked"}
\* each name is new, and what is there does not ask to be apart from it
<1>25. /\ "following" \notin {} /\ "filling" \notin n1 /\ "nearby" \notin n2 /\ "forYou" \notin n3
       /\ "food" \notin n4 /\ "sport" \notin n5 /\ "ranked" \notin n6 /\ n7 = ShelfNames \ {"more"}
       /\ {} \cup {"following"} = n1
  BY DEF ShelfNames, Middle, Outer
<1>26. /\ \A m \in n1 : ~Apart("filling", m)
       /\ \A m \in n2 : ~Apart("nearby", m)
       /\ \A m \in n3 : ~Apart("forYou", m)
       /\ \A m \in n4 : ~Apart("food", m)
       /\ \A m \in n5 : ~Apart("sport", m)
       /\ \A m \in n6 : ~Apart("ranked", m)
  BY DEF Apart, Middle, Outer
<1>27. /\ {"following", "filling", "nearby", "forYou", "food", "sport", "ranked"} \subseteq ShelfNames
       /\ TRUE \in BOOLEAN /\ FALSE \in BOOLEAN
  BY DEF ShelfNames, Middle, Outer
<1> HIDE DEF n1, n2, n3, n4, n5, n6, n7
<1>28. ASSUME NEW st, NEW names, ShelvedWell(st, names),
              NEW name \in {"following", "filling", "nearby", "food", "sport"}, name \notin names,
              \A m \in names : ~Apart(name, m), NEW s, MayHold(name, s)
       PROVE  ShelvedWell(Shelved(st, name, s, TRUE), names \cup {name})
  <2>1. /\ name \in ShelfNames /\ TRUE \in BOOLEAN /\ (TRUE <=> name # "ranked")
        /\ name \in {"forYou", "ranked", "more"} => Ids(s) \cap st.claimed = {}
    BY <1>28 DEF ShelfNames, Middle, Outer
  <2> QED BY <1>28, <2>1, ShelfIsAdded, Zenon
<1>13. ShelvedWell(sh0, {})
  <2>1. ShelvesSoFar(<<>>, {}, {}) BY DEF ShelvesSoFar
  <2> QED BY <2>1 DEF ShelvedWell
<1> HIDE DEF sh0
<1>14. ShelvedWell(sh1, n1)
  <2>1. "following" \in {"following", "filling", "nearby", "food", "sport"} OBVIOUS
  <2>2. ShelvedWell(sh1, {} \cup {"following"}) BY <1>7, <1>13, <1>25, <1>28, <2>1, Zenon
  <2> QED BY <1>25, <2>2, Zenon
<1> HIDE DEF sh1
<1>15. ShelvedWell(sh2, n2)
  <2>1. "filling" \in {"following", "filling", "nearby", "food", "sport"} OBVIOUS
  <2> QED BY <1>8, <1>14, <1>25, <1>26, <1>28, <2>1, Zenon DEF n2
<1> HIDE DEF sh2
<1>16. ShelvedWell(sh3, n3)
  <2>1. "nearby" \in {"following", "filling", "nearby", "food", "sport"} OBVIOUS
  <2> QED BY <1>9, <1>15, <1>25, <1>26, <1>28, <2>1, Zenon DEF n3
<1> HIDE DEF sh3
<1>17. s4 \in Seq(Activity) /\ Range(s4) \subseteq bookable /\ Ids(s4) \cap sh3.claimed = {}
  BY <1>4, <1>5, <1>12, Zenon
<1> HIDE DEF s4
<1>18. MayHold("forYou", s4)
  <2>1. "forYou" \in ShelfNames /\ bookable \subseteq {a \in Range(acts) : Upcoming(a)}
    BY <1>2 DEF upcoming, ShelfNames, Middle, Outer
  <2> QED BY <1>6, <1>17, <2>1, OffersFine, Zenon
<1>19. ShelvedWell(sh4, n4)
  <2>1. TRUE <=> "forYou" # "ranked" OBVIOUS
  <2> QED BY <1>16, <1>17, <1>18, <1>25, <1>26, <1>27, <2>1, ShelfIsAdded, Zenon DEF n4
<1> HIDE DEF sh4
<1>20. ShelvedWell(sh5, n5)
  <2>1. "food" \in {"following", "filling", "nearby", "food", "sport"} OBVIOUS
  <2> QED BY <1>10, <1>19, <1>25, <1>26, <1>28, <2>1, Zenon DEF n5
<1> HIDE DEF sh5
<1>21. ShelvedWell(sh6, n6)
  <2>1. "sport" \in {"following", "filling", "nearby", "food", "sport"} OBVIOUS
  <2> QED BY <1>11, <1>20, <1>25, <1>26, <1>28, <2>1, Zenon DEF n6
<1> HIDE DEF sh6
<1>22. s7 \in Seq(Activity) /\ Range(s7) \subseteq upcoming /\ Ids(s7) \cap sh6.claimed = {}
  BY <1>4, <1>5, <1>12, Zenon
<1> HIDE DEF s7
<1>23. MayHold("ranked", s7)
  <2>1. "ranked" \in ShelfNames /\ "ranked" \in {"following", "ranked"}
    BY DEF ShelfNames, Middle, Outer
  <2>2. upcoming \subseteq {a \in Range(acts) : Upcoming(a)} BY DEF upcoming
  <2> QED BY <1>22, <2>1, <2>2, OffersFine, Zenon
<1>24. ShelvedWell(sh7, ShelfNames \ {"more"})
  <2>1. FALSE <=> "ranked" # "ranked" OBVIOUS
  <2>2. ShelvedWell(sh7, n7)
    BY <1>21, <1>22, <1>23, <1>25, <1>26, <1>27, <2>1, ShelfIsAdded, Zenon DEF n7
  <2> QED BY <1>25, <2>2, Zenon
<1> HIDE DEF sh7
<1> QED BY <1>1, <1>24, Zenon DEF bookable

\* Fewer than two of those that can be booked are on none of the shelves.
FewLeft(S) ==
  LET bookable == {a \in Range(acts) : Bookable(a)}
      shown == UNION {Ids(S[i].items) : i \in DOMAIN S} IN
  \/ Cardinality({a \in bookable : a.id \notin shown}) < MinimumCount
  \/ \E i \in DOMAIN S : S[i].name = "more" /\ Len(S[i].items) = MoreLimit

\* build_shelves before the reordering: what each shelf offers, what is left out.
LEMMA AppendedIsRight ==
  ASSUME Page
  PROVE  (\E claimed : ShelvesSoFar(Appended, claimed, ShelfNames)) /\ FewLeft(Appended)
<1> DEFINE bookable == {a \in Range(acts) : Bookable(a)}
<1>1. PICK st : /\ ShelvedWell(st, ShelfNames \ {"more"})
                /\ Appended = Shelved(st, "more", Ranked(bookable, st.claimed, MoreLimit, FALSE), TRUE).shelves
  BY ShelvesUpToMore, Zenon
<1> DEFINE r == Ranked(bookable, st.claimed, MoreLimit, FALSE)
           st2 == Shelved(st, "more", r, TRUE)
           S == st2.shelves
           left == {a \in bookable : a.id \notin st.claimed}
           shown == UNION {Ids(S[i].items) : i \in DOMAIN S}
           unseen == {a \in bookable : a.id \notin shown}
<1>2. Group(bookable) /\ MoreLimit \in Nat /\ MoreLimit >= MinimumCount /\ MinimumCount = 2
  <2>1. bookable \in SUBSET Range(acts) OBVIOUS
  <2>2. Group(bookable) BY <2>1, PageIsAGroup, SubGroups
  <2> QED BY <2>2, RankingsAssumption DEF MinimumCount
<1>3. /\ r \in Seq(Activity) /\ Range(r) \subseteq left
      /\ Len(r) = IF Cardinality(left) < MoreLimit THEN Cardinality(left) ELSE MoreLimit
      /\ Cardinality(left) <= MoreLimit => Range(r) = left
  <2>0. left = Rankable(bookable, st.claimed, FALSE) BY DEF Rankable
  <2> HIDE DEF left
  <2>1. Takes(r, left, MoreLimit) BY <1>2, <2>0, RankedTakes, Zenon
  <2> QED BY <2>1, Zenon DEF Takes
<1>4. left \subseteq bookable /\ IsFiniteSet(left) /\ Cardinality(left) \in Nat
  <2>1. left \in SUBSET bookable OBVIOUS
  <2> QED BY <1>2, <2>1, FS_Subset, FS_CardinalityType DEF Group
<1> HIDE DEF r
<1>5. MayHold("more", r) /\ Ids(r) \cap st.claimed = {}
  <2>1. "more" \in ShelfNames /\ bookable \subseteq {a \in Range(acts) : Upcoming(a)}
    BY DEF ShelfNames, Middle, Outer, Bookable, Upcoming
  <2>2. Booking(bookable) BY DEF Booking
  <2>3. Range(r) \subseteq bookable BY <1>3, <1>4
  <2>4. MayHold("more", r) BY <1>3, <2>1, <2>2, <2>3, OffersFine
  <2> QED BY <1>3, <2>4 DEF Ids
<1>6. /\ ShelvedWell(st2, ShelfNames) /\ st.claimed \subseteq st2.claimed
      /\ Len(r) >= MinimumCount => EndsWith(S, "more", r)
  <2>1. /\ "more" \in ShelfNames /\ TRUE \in BOOLEAN /\ (TRUE <=> "more" # "ranked")
        /\ "more" \notin ShelfNames \ {"more"}
        /\ (ShelfNames \ {"more"}) \cup {"more"} = ShelfNames
    BY DEF ShelfNames, Middle, Outer
  <2>2. \A m \in ShelfNames \ {"more"} : ~Apart("more", m)
    BY DEF Apart, ShelfNames, Middle, Outer
  <2>3. /\ ShelvedWell(st2, (ShelfNames \ {"more"}) \cup {"more"})
        /\ st.claimed \subseteq st2.claimed
        /\ Len(r) >= MinimumCount => EndsWith(S, "more", r)
    BY <1>1, <1>5, <2>1, <2>2, ShelfIsAdded, Zenon
  <2> QED BY <2>1, <2>3, Zenon
<1>7. Appended = S BY <1>1, Zenon DEF r
<1>8. ShelvesSoFar(S, st2.claimed, ShelfNames) BY <1>6, Zenon DEF ShelvedWell
<1> HIDE DEF st2, S
<1>9. DOMAIN S = 1..Len(S) BY <1>8 DEF ShelvesSoFar
<1>10. st.claimed \subseteq shown
  <2>1. \A x \in st2.claimed : \E i \in 1..Len(S) : x \in Ids(S[i].items)
    BY <1>8 DEF ShelvesSoFar
  <2> QED BY <1>6, <1>9, <2>1
<1>11. unseen \subseteq left BY <1>10
<1>12. \/ Cardinality(unseen) < MinimumCount
       \/ \E i \in DOMAIN S : S[i].name = "more" /\ Len(S[i].items) = MoreLimit
  <2> HIDE DEF left, unseen
  <2>1. CASE Cardinality(left) < MinimumCount
    <3>1. IsFiniteSet(unseen) /\ Cardinality(unseen) <= Cardinality(left)
      BY <1>4, <1>11, FS_Subset
    <3>2. Cardinality(unseen) \in Nat BY <3>1, FS_CardinalityType
    <3> QED BY <1>2, <1>4, <2>1, <3>1, <3>2
  <2>2. CASE Cardinality(left) >= MinimumCount /\ Cardinality(left) <= MoreLimit
    <3>1. Len(r) >= MinimumCount BY <1>2, <1>3, <1>4, <2>2
    <3>2. Len(S) \in DOMAIN S /\ S[Len(S)].items = r BY <1>6, <1>9, <3>1 DEF EndsWith
    <3>3. Ids(r) \subseteq shown BY <3>2
    <3>4. unseen = {}
      <4> SUFFICES ASSUME NEW a \in unseen PROVE FALSE OBVIOUS
      <4>1. a \in Range(r) BY <1>3, <1>11, <2>2
      <4>2. a.id \in Ids(r) BY <4>1 DEF Ids
      <4> QED BY <3>3, <4>2 DEF unseen
    <3> QED BY <1>2, <3>4, FS_EmptySet
  <2>3. CASE Cardinality(left) > MoreLimit
    <3>1. Len(r) = MoreLimit /\ Len(r) >= MinimumCount BY <1>2, <1>3, <1>4, <2>3
    <3>2. Len(S) \in DOMAIN S /\ S[Len(S)].name = "more" /\ S[Len(S)].items = r
      BY <1>6, <1>9, <3>1 DEF EndsWith
    <3> QED BY <3>1, <3>2
  <2> QED BY <1>2, <1>4, <2>1, <2>2, <2>3
<1>13. FewLeft(S)
  <2> HIDE DEF left, st2
  <2> QED BY <1>12, Zenon DEF FewLeft
<1> QED BY <1>7, <1>8, <1>13, Zenon

-----------------------------------------------------------------------------
\* The shelves are put in order: none is lost, and one before another is ahead of it.
LEMMA AheadIsAnOrder ==
  ASSUME NEW S \in Seq(Shelf), \A i \in 1..Len(S) : Strength(S[i]) \in Int,
         NEW i \in 1..Len(S), NEW j \in 1..Len(S)
  PROVE  /\ ~Ahead(S, i, i)
         /\ i = j \/ Ahead(S, i, j) \/ Ahead(S, j, i)
         /\ \A k \in 1..Len(S) : Ahead(S, i, j) /\ Ahead(S, j, k) => Ahead(S, i, k)
<1>1. PICK n \in Nat : n = Len(S) OBVIOUS
<1>2. \A k \in 1..n : Block(S[k]) \in {0, 1, 2, 3}
  BY DEF Block
<1>3. PICK b \in [1..n -> {0, 1, 2, 3}], w \in [1..n -> Int] :
        \A k \in 1..n : b[k] = Block(S[k]) /\ w[k] = Strength(S[k])
  <2> DEFINE b == [k \in 1..n |-> Block(S[k])]
             w == [k \in 1..n |-> Strength(S[k])]
  <2>1. b \in [1..n -> {0, 1, 2, 3}] /\ \A k \in 1..n : b[k] = Block(S[k]) BY <1>2
  <2>2. w \in [1..n -> Int] /\ \A k \in 1..n : w[k] = Strength(S[k]) BY <1>1
  <2> HIDE DEF b, w
  <2> QED BY <2>1, <2>2
<1> DEFINE A(x, y) == \/ b[x] < b[y]
                      \/ b[x] = b[y] /\ IF b[x] # 1 \/ w[x] = w[y] THEN x < y ELSE w[x] > w[y]
<1>4. \A x, y \in 1..n : Ahead(S, x, y) <=> A(x, y)
  BY <1>3, Zenon DEF Ahead
<1>5. /\ ~A(i, i) /\ (i = j \/ A(i, j) \/ A(j, i))
      /\ \A k \in 1..n : A(i, j) /\ A(j, k) => A(i, k)
  <2>1. b[i] \in Int /\ b[j] \in Int /\ w[i] \in Int /\ w[j] \in Int /\ i \in Int /\ j \in Int
    BY <1>1
  <2>2. ~A(i, i) BY ONLY <2>1
  <2>3. i = j \/ A(i, j) \/ A(j, i) BY ONLY <2>1
  <2>4. ASSUME NEW k \in 1..n, A(i, j), A(j, k) PROVE A(i, k)
    <3>1. b[k] \in Int /\ w[k] \in Int /\ k \in Int BY <1>1
    <3> QED BY ONLY <2>1, <2>4, <3>1
  <2> QED BY <2>2, <2>3, <2>4
<1> HIDE DEF A
<1> QED BY <1>1, <1>4, <1>5

LEMMA ReorderedSorts ==
  ASSUME NEW S \in Seq(Shelf), \A i \in 1..Len(S) : Strength(S[i]) \in Int
  PROVE  \E p \in Bijection(1..Len(S), 1..Len(S)) :
           /\ Reordered(S) = [k \in 1..Len(S) |-> S[p[k]]]
           /\ \A i, j \in 1..Len(S) : i < j => Ahead(S, p[i], p[j])
<1> DEFINE n == Len(S)
           I == 1..n
           before(i) == {j \in I : Ahead(S, j, i)}
           rank(i) == Cardinality(before(i))
           r == [i \in I |-> rank(i) + 1]
<1>1. /\ n \in Nat /\ DOMAIN S = I /\ IsFiniteSet(I) /\ Cardinality(I) = n
  <2>1. n \in Nat /\ DOMAIN S = I OBVIOUS
  <2> HIDE DEF n
  <2> QED BY <2>1, FS_Interval
<1>2. \A i, j \in I : /\ ~Ahead(S, i, i)
                      /\ i = j \/ Ahead(S, i, j) \/ Ahead(S, j, i)
                      /\ \A k \in I : Ahead(S, i, j) /\ Ahead(S, j, k) => Ahead(S, i, k)
  BY AheadIsAnOrder
<1> HIDE DEF n, I
<1>3. \A i \in I : IsFiniteSet(before(i)) /\ rank(i) \in Nat
  <2> TAKE i \in I
  <2>1. before(i) \in SUBSET I OBVIOUS
  <2> QED BY <1>1, <2>1, FS_Subset, FS_CardinalityType
<1>4. \A i \in I : rank(i) \in 0..(n - 1)
  <2> TAKE i \in I
  <2>1. before(i) \subseteq I \ {i} BY <1>2
  <2>2. IsFiniteSet(I \ {i}) /\ Cardinality(I \ {i}) = n - 1 BY <1>1, FS_RemoveElement
  <2>3. rank(i) <= n - 1 BY <2>1, <2>2, FS_Subset
  <2> HIDE DEF rank, before
  <2> QED BY <1>1, <1>3, <2>3
<1>5. ASSUME NEW i \in I, NEW j \in I, Ahead(S, i, j) PROVE rank(i) < rank(j)
  <2>1. i \notin before(i) /\ before(i) \cup {i} \subseteq before(j) BY <1>2, <1>5
  <2>2. Cardinality(before(i) \cup {i}) = rank(i) + 1 BY <1>3, <2>1, FS_AddElement
  <2>3. Cardinality(before(i) \cup {i}) <= rank(j) BY <1>3, <2>1, FS_Subset
  <2> HIDE DEF rank, before
  <2> QED BY <1>3, <2>2, <2>3
<1> HIDE DEF rank, before
<1>6. ASSUME NEW i \in I, NEW j \in I, rank(i) = rank(j) PROVE i = j
  <2>1. ~(rank(i) < rank(j)) /\ ~(rank(j) < rank(i)) BY <1>3, <1>6
  <2> QED BY <1>2, <1>5, <2>1
<1>7. r \in Injection(I, I)
  <2>1. \A i \in I : r[i] = rank(i) + 1 /\ r[i] \in I BY <1>1, <1>4 DEF I
  <2>2. r \in [I -> I] BY <2>1
  <2>3. \A i, j \in I : r[i] = r[j] => rank(i) = rank(j) BY <1>3, <2>1
  <2> QED BY <1>6, <2>2, <2>3, Zenon DEF Injection, IsInjective
<1>8. r \in Surjection(I, I) BY <1>1, <1>7, FS_Injection, Zenon
<1>9. \A k \in I : \E i \in I : rank(i) = k - 1
  <2> TAKE k \in I
  <2>1. PICK i \in I : r[i] = k BY <1>8 DEF Surjection
  <2>2. r[i] = rank(i) + 1 OBVIOUS
  <2> HIDE DEF r
  <2> QED BY <1>3, <2>1, <2>2
<1> DEFINE p == [k \in I |-> CHOOSE i \in I : rank(i) = k - 1]
<1>10. \A k \in I : p[k] \in I /\ rank(p[k]) = k - 1
  <2> TAKE k \in I
  <2>1. p[k] = CHOOSE i \in I : rank(i) = k - 1 OBVIOUS
  <2> HIDE DEF p
  <2> QED BY <1>9, <2>1
<1>11. Reordered(S) = [k \in I |-> S[p[k]]]
  <2>1. Reordered(S) = [k \in I |-> S[CHOOSE i \in I : rank(i) = k - 1]]
    <3>1. Reordered(S) = [k \in DOMAIN S |-> S[CHOOSE i \in DOMAIN S :
                            Cardinality({j \in DOMAIN S : Ahead(S, j, i)}) = k - 1]]
      BY Zenon DEF Reordered
    <3>2. Reordered(S) = [k \in I |-> S[CHOOSE i \in I :
                            Cardinality({j \in I : Ahead(S, j, i)}) = k - 1]]
      BY ONLY <1>1, <3>1
    <3> QED BY ONLY <3>2 DEF rank, before
  <2> QED BY <2>1
<1>12. p \in [I -> I] BY <1>10
<1> HIDE DEF p
<1>13. ASSUME NEW k \in I, NEW m \in I, p[k] = p[m] PROVE k = m
  <2>1. k - 1 = m - 1 BY <1>10, <1>13
  <2> QED BY <2>1, <1>1 DEF I
<1>14. p \in Bijection(I, I)
  <2>1. p \in Injection(I, I) BY <1>12, <1>13, Zenon DEF Injection, IsInjective
  <2>2. p \in Surjection(I, I) BY <1>1, <2>1, FS_Injection, Zenon
  <2> QED BY <2>1, <2>2 DEF Bijection
<1>15. ASSUME NEW i \in I, NEW j \in I, i < j PROVE Ahead(S, p[i], p[j])
  <2>1. rank(p[i]) < rank(p[j]) BY <1>10, <1>15, <1>1 DEF I
  <2>2. p[i] \in I /\ p[j] \in I BY <1>10
  <2>3. ~(rank(p[j]) < rank(p[i])) /\ p[i] # p[j] BY <1>3, <2>1, <2>2
  <2> QED BY <1>2, <1>5, <2>2, <2>3
<1> QED BY <1>11, <1>14, <1>15 DEF I, n

\* The strength of a shelf of the page is a number.
LEMMA StrengthTyped ==
  ASSUME Page, NEW shelf \in Shelf, MayHold(shelf.name, shelf.items),
         Len(shelf.items) >= MinimumCount
  PROVE  Strength(shelf) \in Int
<1> DEFINE q == shelf.items
           s == [i \in DOMAIN q |-> Score[q[i].id]]
<1>1. q \in Seq(Activity) /\ Len(q) \in Nat /\ DOMAIN q = 1..Len(q) /\ Len(q) >= 2
  BY DEF Shelf, MinimumCount
<1>2. \A i \in 1..Len(q) : q[i].id \in 1..MaxCrowd
  <2>1. \A a \in Range(q) : a \in Range(acts) BY DEF MayHold
  <2>2. \A i \in 1..Len(q) : q[i] \in Range(q) BY <1>1 DEF Range
  <2> QED BY <2>1, <2>2 DEF Page
<1>3. \A x \in 1..MaxCrowd : Score[x] \in Int BY RankingsAssumption
<1>4. \A i \in 1..Len(q) : s[i] \in Int BY <1>1, <1>2, <1>3
<1>5. Strength(shelf) =
        (IF Len(q) = 2 THEN 3 * (s[1] + s[2]) ELSE 2 * (s[1] + s[2] + s[3]))
          + (IF shelf.name = "filling" THEN 6 * 14 ELSE 0)
  BY Zenon DEF Strength
<1> HIDE DEF q, s
<1>6. s[1] \in Int /\ s[2] \in Int BY <1>1, <1>4
<1>7. CASE Len(q) = 2 BY <1>5, <1>6, <1>7
<1>8. CASE Len(q) # 2
  <2>1. s[3] \in Int BY <1>1, <1>4, <1>8
  <2> QED BY <1>5, <1>6, <1>8, <2>1
<1> QED BY <1>7, <1>8

-----------------------------------------------------------------------------
\* build_shelves: what each shelf offers, what is not repeated, what is left out, and
\* in which order they come.
ShelvesShow ==
  LET S == Shelves
      On(names) == UNION {Ids(S[i].items) : i \in {k \in DOMAIN S : S[k].name \in names}}
      middle == {"filling", "nearby", "forYou", "food", "sport"}
      bookable == {a \in Range(acts) : Bookable(a)}
      shown == On({"following", "ranked", "more"} \cup middle) IN
  /\ \A i \in DOMAIN S : \A a \in Range(S[i].items) :
       Upcoming(a) /\ (a.is = "full" => S[i].name \in {"following", "ranked"})
  /\ On({"forYou"}) \cap On({"following", "filling", "nearby"}) = {}
  /\ On({"ranked", "more"}) \cap On({"following"} \cup middle) = {}
  /\ \/ Cardinality({a \in bookable : a.id \notin shown}) < MinimumCount
     \/ \E i \in DOMAIN S : S[i].name = "more" /\ Len(S[i].items) = MoreLimit
  /\ \A i, j \in DOMAIN S : i < j =>
       \/ S[i].name = "following" /\ S[j].name # "following"
       \/ S[i].name \in middle /\ S[j].name \in middle /\ Strength(S[i]) >= Strength(S[j])
       \/ S[i].name \in middle /\ S[j].name \in {"ranked", "more"}
       \/ S[i].name = "ranked" /\ S[j].name = "more"

LEMMA ShelvesAreRight ==
  ASSUME Page
  PROVE  ShelvesShow
<1> DEFINE S == Appended
           n == Len(S)
           T == Shelves
<1>1. PICK claimed : ShelvesSoFar(S, claimed, ShelfNames) BY AppendedIsRight
<1>2. FewLeft(S) BY AppendedIsRight
<1> HIDE DEF S
<1>3. /\ S \in Seq(Shelf) /\ n \in Nat /\ DOMAIN S = 1..n
      /\ \A i \in 1..n : S[i] \in Shelf /\ MayHold(S[i].name, S[i].items)
                          /\ Len(S[i].items) >= MinimumCount /\ S[i].name \in ShelfNames
  <2>1. S \in Seq(Shelf) /\ \A i \in 1..n : ShelfIsFine(S[i], claimed, ShelfNames)
    BY <1>1, Zenon DEF ShelvesSoFar
  <2> QED BY <2>1 DEF ShelfIsFine
<1>4. \A i, j \in 1..n : i # j => S[i].name # S[j].name
  BY <1>1, Zenon DEF ShelvesSoFar
<1>5. \A i, j \in 1..n :
        Apart(S[i].name, S[j].name) => Ids(S[i].items) \cap Ids(S[j].items) = {}
  BY <1>1, Zenon DEF ShelvesSoFar
<1>6. \A i \in 1..n : Strength(S[i]) \in Int BY <1>3, StrengthTyped
<1>7. PICK p \in Bijection(1..n, 1..n) :
        /\ Reordered(S) = [k \in 1..n |-> S[p[k]]]
        /\ \A i, j \in 1..n : i < j => Ahead(S, p[i], p[j])
  BY <1>3, <1>6, ReorderedSorts, Zenon
<1>8. T = [k \in 1..n |-> S[p[k]]] BY <1>7 DEF Shelves, S
<1> HIDE DEF T, n
<1>9. /\ DOMAIN T = 1..n
      /\ \A k \in 1..n : T[k] = S[p[k]] /\ p[k] \in 1..n
      /\ \A i \in 1..n : \E k \in 1..n : p[k] = i
      /\ \A i, j \in 1..n : p[i] = p[j] => i = j
  <2>1. p \in [1..n -> 1..n] BY DEF Bijection, Injection
  <2>2. \A i \in 1..n : \E k \in 1..n : p[k] = i BY DEF Bijection, Surjection
  <2>3. \A i, j \in 1..n : p[i] = p[j] => i = j BY DEF Bijection, Injection, IsInjective
  <2> QED BY <1>8, <2>1, <2>2, <2>3
<1> DEFINE On(names) == UNION {Ids(T[i].items) : i \in {k \in DOMAIN T : T[k].name \in names}}
           bookable == {a \in Range(acts) : Bookable(a)}
           shown == On({"following", "ranked", "more"} \cup Middle)
<1>10. ASSUME NEW i \in DOMAIN T, NEW a \in Range(T[i].items)
       PROVE  Upcoming(a) /\ (a.is = "full" => T[i].name \in {"following", "ranked"})
  <2>1. MayHold(T[i].name, T[i].items) BY <1>3, <1>9
  <2> QED BY <2>1, Zenon DEF MayHold
<1>11. ASSUME NEW N, NEW M, \A x \in N, y \in M : Apart(x, y)
       PROVE  On(M) \cap On(N) = {}
  <2> SUFFICES ASSUME NEW x \in On(M), x \in On(N) PROVE FALSE OBVIOUS
  <2>1. PICK i \in 1..n : T[i].name \in M /\ x \in Ids(T[i].items) BY <1>9
  <2>2. PICK j \in 1..n : T[j].name \in N /\ x \in Ids(T[j].items) BY <1>9
  <2>3. Apart(S[p[j]].name, S[p[i]].name)
    <3>1. S[p[j]].name \in N /\ S[p[i]].name \in M BY <1>9, <2>1, <2>2
    <3> QED BY <1>11, <3>1, Zenon
  <2>4. Ids(S[p[j]].items) \cap Ids(S[p[i]].items) = {} BY <1>5, <1>9, <2>3
  <2> QED BY <1>9, <2>1, <2>2, <2>4
<1>12. /\ On({"forYou"}) \cap On({"following", "filling", "nearby"}) = {}
       /\ On({"ranked", "more"}) \cap On({"following"} \cup Middle) = {}
  <2> HIDE DEF On
  <2>1. \A x \in {"following", "filling", "nearby"}, y \in {"forYou"} : Apart(x, y) BY DEF Apart
  <2>2. \A x \in {"following"} \cup Middle, y \in {"ranked", "more"} : Apart(x, y)
    BY DEF Apart, Outer
  <2> QED BY <1>11, <2>1, <2>2
<1>13. shown = UNION {Ids(S[i].items) : i \in DOMAIN S}
  <2> DEFINE U == UNION {Ids(S[i].items) : i \in DOMAIN S}
  <2>1. ASSUME NEW x \in shown PROVE x \in U
    <3>1. PICK k \in 1..n : x \in Ids(T[k].items) BY <1>9
    <3>2. p[k] \in DOMAIN S /\ x \in Ids(S[p[k]].items) BY <1>3, <1>9, <3>1
    <3> QED BY <3>2
  <2>2. ASSUME NEW x \in U PROVE x \in shown
    <3>1. PICK i \in 1..n : x \in Ids(S[i].items) BY <1>3
    <3>2. PICK k \in 1..n : p[k] = i BY <1>9
    <3>3. x \in Ids(T[k].items) /\ T[k].name \in {"following", "ranked", "more"} \cup Middle
      <4>1. T[k] = S[i] BY <1>9, <3>2
      <4>2. S[i].name \in ShelfNames BY <1>3
      <4> QED BY <3>1, <4>1, <4>2 DEF ShelfNames, Outer
    <3> QED BY <1>9, <3>3
  <2> QED BY <2>1, <2>2
<1>14. \/ Cardinality({a \in bookable : a.id \notin shown}) < MinimumCount
       \/ \E i \in DOMAIN T : T[i].name = "more" /\ Len(T[i].items) = MoreLimit
  <2> HIDE DEF shown
  <2>1. \/ Cardinality({a \in bookable : a.id \notin shown}) < MinimumCount
        \/ \E i \in DOMAIN S : S[i].name = "more" /\ Len(S[i].items) = MoreLimit
    BY <1>2, <1>13 DEF FewLeft
  <2>2. ASSUME NEW i \in DOMAIN S, S[i].name = "more", Len(S[i].items) = MoreLimit
        PROVE  \E k \in DOMAIN T : T[k].name = "more" /\ Len(T[k].items) = MoreLimit
    <3>1. PICK k \in 1..n : p[k] = i BY <1>3, <1>9
    <3>2. k \in DOMAIN T /\ T[k] = S[i] BY <1>9, <3>1
    <3> QED BY <2>2, <3>2
  <2> QED BY <2>1, <2>2
<1>15. ASSUME NEW i \in DOMAIN T, NEW j \in DOMAIN T, i < j
       PROVE  \/ T[i].name = "following" /\ T[j].name # "following"
              \/ T[i].name \in Middle /\ T[j].name \in Middle /\ Strength(T[i]) >= Strength(T[j])
              \/ T[i].name \in Middle /\ T[j].name \in {"ranked", "more"}
              \/ T[i].name = "ranked" /\ T[j].name = "more"
  <2>1. p[i] \in 1..n /\ p[j] \in 1..n /\ T[i] = S[p[i]] /\ T[j] = S[p[j]] BY <1>9
  <2>2. i # j BY <1>9, <1>15
  <2>3. p[i] # p[j] BY <1>9, <2>2
  <2>4. T[i].name # T[j].name /\ T[i].name \in ShelfNames /\ T[j].name \in ShelfNames
    BY <1>3, <1>4, <2>1, <2>3
  <2>5. Ahead(S, p[i], p[j]) BY <1>7, <1>9, <1>15
  <2>6. /\ \A x \in {T[i], T[j]} : /\ x.name = "following" => Block(x) = 0
                                   /\ x.name = "ranked" => Block(x) = 2
                                   /\ x.name = "more" => Block(x) = 3
                                   /\ x.name \in Middle => Block(x) = 1
    BY DEF Block, Middle
  <2>7. \/ Block(T[i]) < Block(T[j])
        \/ /\ Block(T[i]) = Block(T[j])
           /\ Block(T[i]) = 1 => Strength(T[i]) >= Strength(T[j])
    <3>1. Strength(T[i]) \in Int /\ Strength(T[j]) \in Int BY <1>6, <2>1
    <3>2. \/ Block(T[i]) < Block(T[j])
          \/ /\ Block(T[i]) = Block(T[j])
             /\ IF Block(T[i]) # 1 \/ Strength(T[i]) = Strength(T[j]) THEN p[i] < p[j]
                ELSE Strength(T[i]) > Strength(T[j])
      BY <2>1, <2>5, Zenon DEF Ahead
    <3> QED BY <3>1, <3>2
  <2> QED BY <2>4, <2>6, <2>7 DEF ShelfNames, Middle, Outer
<1> QED BY <1>10, <1>12, <1>14, <1>15, Zenon DEF ShelvesShow, Middle, T

\* The featured one is the best that can be booked, and there is one if any can be.
LEMMA FeaturedIsBest ==
  ASSUME Page
  PROVE  LET bookable == {a \in Range(acts) : Bookable(a)} IN
         /\ \A a \in Range(Featured) : a \in bookable /\ \A b \in bookable : a.id >= b.id
         /\ Featured = <<>> <=> bookable = {}
<1> DEFINE bookable == {a \in Range(acts) : Bookable(a)}
           pool == IF bookable # {} THEN bookable ELSE {a \in Range(acts) : Upcoming(a)}
           r == Ranked(pool, {}, 5, FALSE)
           c == Cut(r, 1)
<1>1. Featured = c BY Zenon DEF Featured
<1>2. Group(pool) /\ Group(bookable)
  <2>1. pool \in SUBSET Range(acts) /\ bookable \in SUBSET Range(acts) OBVIOUS
  <2> QED BY <2>1, PageIsAGroup, SubGroups
<1>3. Rankable(pool, {}, FALSE) = bookable BY DEF Rankable
<1> HIDE DEF pool
<1>4. /\ r \in Seq(Activity) /\ Range(r) \subseteq bookable
      /\ Len(r) = IF Cardinality(bookable) < 5 THEN Cardinality(bookable) ELSE 5
      /\ Len(r) > 0 => \A b \in bookable : r[1].id >= b.id
  <2>1. 5 \in Nat OBVIOUS
  <2> HIDE DEF bookable
  <2>2. Takes(r, Rankable(pool, {}, FALSE), 5) BY <1>2, <2>1, RankedTakes, Zenon
  <2>3. Takes(r, bookable, 5) BY <1>3, <2>2
  <2> HIDE DEF r
  <2> QED BY <2>3, Zenon DEF Takes
<1> HIDE DEF r
<1>5. /\ c \in Seq(Activity) /\ Len(c) = IF Len(r) < 1 THEN Len(r) ELSE 1
      /\ \A i \in 1..Len(c) : c[i] = r[i]
  <2>1. 1 \in Nat OBVIOUS
  <2> QED BY <1>4, <2>1, CutKeepsTheFront, Zenon
<1> HIDE DEF c
<1>6. Cardinality(bookable) \in Nat /\ (Cardinality(bookable) = 0 <=> bookable = {})
  BY <1>2, FS_CardinalityType, FS_EmptySet DEF Group
<1>7. Len(c) = 0 <=> bookable = {} BY <1>4, <1>5, <1>6
<1>8. c = <<>> <=> bookable = {}
  <2>1. c = <<>> <=> Len(c) = 0 BY <1>5
  <2> QED BY <1>7, <2>1
<1>9. ASSUME NEW a \in Range(c) PROVE a \in bookable /\ \A b \in bookable : a.id >= b.id
  <2>1. PICK i \in 1..Len(c) : a = c[i] BY <1>5 DEF Range
  <2>2. i = 1 /\ Len(r) > 0 /\ c[1] = r[1] BY <1>4, <1>5, <1>6, <2>1
  <2>3. r[1] \in Range(r) BY <1>4, <2>2 DEF Range
  <2> QED BY <1>4, <2>1, <2>2, <2>3
<1> QED BY <1>1, <1>8, <1>9, Zenon

\* The whole promise of the browse page.
LEMMA ShelvesDoShow ==
  ASSUME Page
  PROVE  ShelvesShowTheRest
BY ShelvesAreRight, FeaturedIsBest, Zenon DEF ShelvesShowTheRest, ShelvesShow

-----------------------------------------------------------------------------
\* The funnel: when the steps up to i were done in order, and how.
At(i) == {x[2] : x \in {y \in log : y[1] = i}}

StepReached(f, i) ==
  IF i = 1 THEN Earliest(At(i))
  ELSE IF f[i - 1] = -1 THEN -1 ELSE Earliest(After(f[i - 1], At(i)))

\* The recursion of the funnel has a value at each step.
LEMMA FunnelIsDefined ==
  \A i \in 1..Steps : FunnelTimes[i] = StepReached(FunnelTimes, i)
<1> DEFINE S == {n \in Nat : \E f : f = [i \in 1..n |-> StepReached(f, i)]}
<1>1. 0 \in S
  <2>1. [i \in 1..0 |-> 0] = [i \in 1..0 |-> StepReached([j \in 1..0 |-> 0], i)] OBVIOUS
  <2> QED BY <2>1
<1>2. ASSUME NEW n \in Nat, n \in S PROVE n + 1 \in S
  <2>1. PICK f : f = [i \in 1..n |-> StepReached(f, i)] BY <1>2
  <2> DEFINE g == [i \in 1..(n + 1) |-> StepReached(f, i)]
  <2>2. \A i \in 1..n : g[i] = f[i]
    <3>1. \A i \in 1..n : i \in 1..(n + 1) OBVIOUS
    <3>2. \A i \in 1..n : f[i] = StepReached(f, i) BY ONLY <2>1
    <3> QED BY <3>1, <3>2
  <2>3. \A i \in 1..(n + 1) : StepReached(g, i) = StepReached(f, i)
    <3> TAKE i \in 1..(n + 1)
    <3> HIDE DEF g
    <3>1. CASE i = 1 BY <3>1 DEF StepReached
    <3>2. CASE i # 1
      <4>1. i - 1 \in 1..n BY <3>2
      <4>2. g[i - 1] = f[i - 1] BY <2>2, <4>1
      <4> QED BY <4>2 DEF StepReached
    <3> QED BY <3>1, <3>2
  <2>4. g = [i \in 1..(n + 1) |-> StepReached(g, i)]
    <3> DEFINE h == [i \in 1..(n + 1) |-> StepReached(g, i)]
    <3>1. \A i \in 1..(n + 1) : g[i] = h[i] BY <2>3
    <3>2. DOMAIN g = 1..(n + 1) /\ DOMAIN h = 1..(n + 1) OBVIOUS
    <3>3. g = [i \in DOMAIN g |-> g[i]] /\ h = [i \in DOMAIN h |-> h[i]] OBVIOUS
    <3> HIDE DEF g, h
    <3>4. g = h BY ONLY <3>1, <3>2, <3>3
    <3> QED BY <3>4 DEF h
  <2>5. \E e : e = [i \in 1..(n + 1) |-> StepReached(e, i)]
    <3> HIDE DEF g
    <3> QED BY <2>4
  <2>6. n + 1 \in Nat OBVIOUS
  <2> QED BY <2>5, <2>6
<1>3. Steps \in S
  <2> HIDE DEF S
  <2>1. Steps \in Nat BY RankingsAssumption
  <2>2. \A n \in 0..Steps : n \in Nat OBVIOUS
  <2>3. \A n \in 0..Steps : n \in S BY <1>1, <1>2, <2>1, <2>2, CountsUp, Zenon
  <2> QED BY <2>1, <2>3
<1> DEFINE IsIt(f) == f = [i \in 1..Steps |-> StepReached(f, i)]
<1>4. \E f : IsIt(f) BY <1>3
<1>5. IsIt(CHOOSE f : IsIt(f))
  <2> HIDE DEF IsIt
  <2> QED BY <1>4, Zenon
<1>6. FunnelTimes = CHOOSE f : IsIt(f) BY Zenon DEF FunnelTimes, StepReached, At
<1>7. FunnelTimes = [i \in 1..Steps |-> StepReached(FunnelTimes, i)] BY <1>5, <1>6
<1> QED BY ONLY <1>7

\* The earliest of some times, or -1 of none.
LEMMA EarliestIsLeast ==
  ASSUME NEW T \in SUBSET Nat
  PROVE  /\ T = {} => Earliest(T) = -1
         /\ T # {} => Earliest(T) \in T /\ Earliest(T) # -1 /\ \A u \in T : Earliest(T) <= u
<1>1. CASE T = {} BY <1>1 DEF Earliest
<1>2. CASE T # {}
  <2>1. \E t \in T : \A u \in T : t <= u BY <1>2, LeastNat
  <2>2. Earliest(T) = CHOOSE t \in T : \A u \in T : t <= u BY <1>2 DEF Earliest
  <2> DEFINE e == Earliest(T)
  <2>3. e \in T /\ \A u \in T : e <= u
    <3> HIDE DEF e
    <3> QED BY <2>1, <2>2 DEF e
  <2> HIDE DEF e
  <2>4. e \in Nat BY <2>3
  <2>5. e # -1 BY <2>4
  <2> QED BY <1>2, <2>3, <2>5 DEF e
<1> QED BY <1>1, <1>2

\* Events of the log that do the steps up to i in order.
DoneInOrder(t, i) ==
  /\ t \in [1..i -> Times]
  /\ \A j \in 1..i : <<j, t[j]>> \in log
  /\ \A j \in 1..(i - 1) : t[j] <= t[j + 1]

\* FunnelTimes[i] is when the earliest of these can be over.
Greedy(i) ==
  /\ FunnelTimes[i] # -1 => \E t : DoneInOrder(t, i) /\ t[i] = FunnelTimes[i]
  /\ \A t : DoneInOrder(t, i) => FunnelTimes[i] # -1 /\ FunnelTimes[i] <= t[i]

\* Step by step the funnel reaches what can be reached, at the earliest time.
LEMMA FunnelIsGreedy ==
  ASSUME log \subseteq (1..Steps) \X Times
  PROVE  \A i \in 1..Steps : Greedy(i)
<1>1. Steps \in Nat /\ Times \subseteq Nat BY RankingsAssumption
<1>2. \A i : At(i) \subseteq Times /\ \A t : t \in At(i) <=> <<i, t>> \in log
  <2>1. \A y \in log : y = <<y[1], y[2]>> /\ y[2] \in Times OBVIOUS
  <2> TAKE i
  <2>2. \A t \in At(i) : <<i, t>> \in log /\ t \in Times BY <2>1 DEF At
  <2>3. ASSUME NEW t, <<i, t>> \in log PROVE t \in At(i)
    <3>1. <<i, t>>[1] = i /\ <<i, t>>[2] = t OBVIOUS
    <3> QED BY <2>3, <3>1 DEF At
  <2> QED BY <2>2, <2>3
<1> DEFINE f == FunnelTimes
           T == {i \in 0..Steps : i = 0 \/ Greedy(i)}
<1>3. 0 \in T BY <1>1
<1>4. ASSUME NEW i \in 0..Steps, i \in T, i < Steps PROVE i + 1 \in T
  <2>1. i + 1 \in 1..Steps /\ i + 1 \in 0..Steps /\ (i + 1) - 1 = i BY <1>1, <1>4
  <2>2. f[i + 1] = StepReached(f, i + 1) BY <2>1, FunnelIsDefined
  <2> HIDE DEF f
  <2>3. CASE i = 0
    <3>1. i + 1 = 1 /\ f[1] = Earliest(At(1)) BY <2>2, <2>3 DEF StepReached
    <3>2. At(1) \subseteq Nat BY <1>1, <1>2
    <3>3. ASSUME f[1] # -1 PROVE \E t : DoneInOrder(t, 1) /\ t[1] = f[1]
      <4>1. f[1] \in At(1) BY <3>1, <3>2, <3>3, EarliestIsLeast
      <4>2. f[1] \in Times /\ <<1, f[1]>> \in log BY <1>2, <4>1
      <4> DEFINE t == [j \in 1..1 |-> f[1]]
      <4>3. t \in [1..1 -> Times] /\ t[1] = f[1] /\ \A j \in 1..1 : j = 1 BY <4>2
      <4>4. DoneInOrder(t, 1) BY <4>2, <4>3 DEF DoneInOrder
      <4> QED BY <4>3, <4>4
    <3>4. ASSUME NEW t, DoneInOrder(t, 1) PROVE f[1] # -1 /\ f[1] <= t[1]
      <4>1. 1 \in 1..1 OBVIOUS
      <4>2. <<1, t[1]>> \in log BY <3>4, <4>1 DEF DoneInOrder
      <4>3. t[1] \in At(1) BY <1>2, <4>2
      <4> QED BY <3>1, <3>2, <4>3, EarliestIsLeast
    <3>5. Greedy(1) BY <3>3, <3>4 DEF Greedy, f
    <3> QED BY <2>1, <3>1, <3>5
  <2>4. CASE i # 0
    <3>1. Greedy(i) /\ i \in 1..Steps BY <1>1, <1>4, <2>4
    <3>2. f[i + 1] = IF f[i] = -1 THEN -1 ELSE Earliest(After(f[i], At(i + 1)))
      <4>1. i + 1 # 1 BY <2>4
      <4> QED BY <2>1, <2>2, <4>1 DEF StepReached
    <3>3. After(f[i], At(i + 1)) \subseteq Nat /\ At(i + 1) \subseteq Nat BY <1>1, <1>2 DEF After
    <3>4. ASSUME f[i + 1] # -1 PROVE \E t : DoneInOrder(t, i + 1) /\ t[i + 1] = f[i + 1]
      <4>1. f[i] # -1 /\ f[i + 1] = Earliest(After(f[i], At(i + 1))) BY <3>2, <3>4
      <4>2. f[i + 1] \in After(f[i], At(i + 1)) BY <3>3, <3>4, <4>1, EarliestIsLeast
      <4>3. f[i + 1] \in Times /\ <<i + 1, f[i + 1]>> \in log /\ f[i] <= f[i + 1]
        BY <1>2, <4>2 DEF After
      <4>4. PICK t : DoneInOrder(t, i) /\ t[i] = f[i] BY <3>1, <4>1 DEF Greedy, f
      <4> DEFINE u == [j \in 1..(i + 1) |-> IF j = i + 1 THEN f[i + 1] ELSE t[j]]
      <4>5. \A j \in 1..(i + 1) : j = i + 1 \/ (j \in 1..i /\ j # i + 1) BY <1>1
      <4>6. t \in [1..i -> Times] BY <4>4 DEF DoneInOrder
      <4>7. /\ u \in [1..(i + 1) -> Times] /\ u[i + 1] = f[i + 1]
            /\ \A j \in 1..i : u[j] = t[j]
        BY <1>1, <4>3, <4>5, <4>6
      <4> HIDE DEF u
      <4>8. \A j \in 1..(i + 1) : <<j, u[j]>> \in log
        BY <4>3, <4>4, <4>5, <4>7 DEF DoneInOrder
      <4>9. ASSUME NEW j \in 1..((i + 1) - 1) PROVE u[j] <= u[j + 1]
        <5>1. j \in 1..i /\ u[j] = t[j] BY <2>1, <4>7
        <5>2. CASE j = i BY <4>3, <4>4, <4>7, <5>1, <5>2
        <5>3. CASE j # i
          <6>1. j \in 1..(i - 1) /\ j + 1 \in 1..i BY <1>1, <5>1, <5>3
          <6> QED BY <4>4, <4>7, <5>1, <6>1 DEF DoneInOrder
        <5> QED BY <5>2, <5>3
      <4>10. DoneInOrder(u, i + 1) BY <4>7, <4>8, <4>9 DEF DoneInOrder
      <4> QED BY <4>7, <4>10
    <3>5. ASSUME NEW t, DoneInOrder(t, i + 1) PROVE f[i + 1] # -1 /\ f[i + 1] <= t[i + 1]
      <4> DEFINE r == [j \in 1..i |-> t[j]]
      <4>1. /\ t \in [1..(i + 1) -> Times]
            /\ \A j \in 1..(i + 1) : <<j, t[j]>> \in log
            /\ \A j \in 1..i : t[j] <= t[j + 1]
        BY <2>1, <3>5 DEF DoneInOrder
      <4>2. /\ \A j \in 1..i : j \in 1..(i + 1) /\ r[j] = t[j]
            /\ \A j \in 1..(i - 1) : j \in 1..i /\ j + 1 \in 1..i
            /\ i \in 1..i /\ i + 1 \in 1..(i + 1)
        BY <3>1, <1>1
      <4>3. r \in [1..i -> Times] BY <4>1, <4>2
      <4> HIDE DEF r
      <4>4. DoneInOrder(r, i) BY <4>1, <4>2, <4>3 DEF DoneInOrder
      <4>5. f[i] # -1 /\ f[i] <= t[i] BY <3>1, <4>2, <4>4 DEF Greedy, f
      <4>6. t[i] <= t[i + 1] /\ t[i] \in Nat /\ t[i + 1] \in Nat BY <1>1, <4>1, <4>2
      <4>7. f[i] \in Nat
        <5>1. PICK w : DoneInOrder(w, i) /\ w[i] = f[i] BY <3>1, <4>5 DEF Greedy, f
        <5>2. w[i] \in Times BY <4>2, <5>1 DEF DoneInOrder
        <5> QED BY <1>1, <5>1, <5>2
      <4>8. t[i + 1] \in After(f[i], At(i + 1))
        <5>1. t[i + 1] \in At(i + 1) BY <1>2, <4>1, <4>2
        <5>2. t[i + 1] >= f[i] BY <4>5, <4>6, <4>7
        <5> QED BY <5>1, <5>2 DEF After
      <4>9. f[i + 1] = Earliest(After(f[i], At(i + 1))) BY <3>2, <4>5
      <4> QED BY <3>3, <4>8, <4>9, EarliestIsLeast
    <3>6. Greedy(i + 1) BY <3>4, <3>5 DEF Greedy, f
    <3> QED BY <2>1, <3>6
  <2> QED BY <2>3, <2>4
<1>5. \A i \in 0..Steps : i \in T
  <2> HIDE DEF T
  <2> QED BY <1>1, <1>3, <1>4, CountsUp, Zenon
<1> QED BY <1>1, <1>5

\* The funnel counts whoever did the steps in order.
LEMMA FunnelsAreOrdered ==
  ASSUME log \subseteq (1..Steps) \X Times
  PROVE  FunnelIsOrdered
<1>1. ASSUME NEW i \in 1..Steps
      PROVE  FunnelTimes[i] # -1 <=>
               \E t \in [1..i -> Times] : /\ \A j \in 1..i : <<j, t[j]>> \in log
                                          /\ \A j \in 1..(i - 1) : t[j] <= t[j + 1]
  <2>1. Greedy(i) BY FunnelIsGreedy
  <2>2. FunnelTimes[i] # -1 <=> \E t : DoneInOrder(t, i) BY <2>1, Zenon DEF Greedy
  <2> QED BY <2>2, Zenon DEF DoneInOrder
<1> QED BY <1>1, Zenon DEF FunnelIsOrdered
-----------------------------------------------------------------------------
\* Shelves, diversify and funnels are as meant for whatever a behaviour begins with.
RankingsInv == Page /\ log \subseteq (1..Steps) \X Times

\* Every input the run starts from is a page or a log.
LEMMA RankingsInitially == RankingsInit => RankingsInv
<1> SUFFICES ASSUME RankingsInit PROVE RankingsInv OBVIOUS
<1>1. Page /\ log \subseteq (1..Steps) \X Times
  <2>1. CASE acts \in PagesOf(MaxActs) /\ log = {}
    <3>1. PICK p \in Bijection(1..MaxActs, 1..MaxActs),
               k \in [1..MaxActs -> Categories \X BOOLEAN \X Kinds4] :
            acts = [i \in 1..MaxActs |-> [id |-> p[i], cat |-> k[i][1],
                                          joined |-> k[i][2], is |-> k[i][3]]]
      BY <2>1 DEF PagesOf
    <3>2. MaxActs \in Nat BY RankingsAssumption
    <3>3. \A i \in 1..MaxActs : /\ p[i] \in Nat /\ p[i] \in 1..MaxCrowd
                                /\ k[i][1] \in Categories
                                /\ k[i][2] \in BOOLEAN /\ k[i][3] \in Kinds4
      <4>1. p \in [1..MaxActs -> 1..MaxActs] BY DEF Bijection, Injection
      <4>2. \A i \in 1..MaxActs : k[i] \in Categories \X BOOLEAN \X Kinds4 OBVIOUS
      <4>3. 1..MaxActs \subseteq 1..MaxCrowd /\ 1..MaxActs \subseteq Nat BY RankingsAssumption
      <4> QED BY <4>1, <4>2, <4>3
    <3>4. \A i \in 1..MaxActs : acts[i] \in Activity /\ acts[i].id = p[i]
      BY <3>1, <3>3 DEF Activity
    <3>5. acts \in Seq(Activity) /\ Len(acts) = MaxActs
      <4>1. acts = [i \in 1..MaxActs |-> acts[i]] BY <3>1
      <4>2. acts \in [1..MaxActs -> Activity] BY <3>4, <4>1
      <4> QED BY <3>2, <4>2
    <3>6. \A i, j \in 1..MaxActs : p[i] = p[j] => i = j
      BY DEF Bijection, Injection, IsInjective
    <3>7. \A a \in Range(acts) : a.id \in 1..MaxCrowd BY <3>3, <3>4, <3>5 DEF Range
    <3> QED BY <2>1, <3>4, <3>5, <3>6, <3>7 DEF Page
  <2>2. CASE acts \in Crowds(MaxCrowd) /\ log = {}
    <3>0. MaxCrowd \in Nat BY RankingsAssumption
    <3> DEFINE orders == {[i \in 1..MaxCrowd |-> i], [i \in 1..MaxCrowd |-> MaxCrowd + 1 - i]}
    <3>a. acts \in {[i \in 1..MaxCrowd |->
                       [id |-> p[i], cat |-> k[i], joined |-> FALSE, is |-> "open"]] :
                      p \in orders, k \in [1..MaxCrowd -> Categories]}
      BY <2>2 DEF Crowds
    <3> HIDE DEF orders
    <3>1. PICK p \in orders,
               k \in [1..MaxCrowd -> Categories] :
            acts = [i \in 1..MaxCrowd |-> [id |-> p[i], cat |-> k[i], joined |-> FALSE, is |-> "open"]]
      BY <3>a
    <3>2. /\ \A i \in 1..MaxCrowd : p[i] \in 1..MaxCrowd
          /\ \A i, j \in 1..MaxCrowd : p[i] = p[j] => i = j
      <4>1. CASE p = [i \in 1..MaxCrowd |-> i] BY <4>1
      <4>2. CASE p = [i \in 1..MaxCrowd |-> MaxCrowd + 1 - i]
        <5>1. \A i \in 1..MaxCrowd : p[i] = MaxCrowd + 1 - i BY <4>2
        <5> QED BY <3>0, <5>1
      <4> QED BY <4>1, <4>2 DEF orders
    <3>3. \A i \in 1..MaxCrowd : acts[i] \in Activity /\ acts[i].id = p[i]
      <4>1. \A i \in 1..MaxCrowd : p[i] \in Nat BY <3>0, <3>2
      <4> QED BY <3>1, <4>1 DEF Activity, Kinds4
    <3>4. acts \in Seq(Activity) /\ Len(acts) = MaxCrowd
      <4>1. acts = [i \in 1..MaxCrowd |-> acts[i]] BY <3>1
      <4>2. acts \in [1..MaxCrowd -> Activity] BY <3>3, <4>1
      <4> QED BY <3>0, <4>2
    <3>5. \A a \in Range(acts) : a.id \in 1..MaxCrowd BY <3>2, <3>3, <3>4 DEF Range
    <3> QED BY <2>2, <3>2, <3>3, <3>4, <3>5 DEF Page
  <2>3. CASE acts = <<>> /\ log \in SUBSET ((1..Steps) \X Times)
    <3>1. Range(<<>>) = {} BY DEF Range
    <3> QED BY <2>3, <3>1 DEF Page
  <2> QED BY <2>1, <2>2, <2>3 DEF RankingsInit
<1> QED BY <1>1 DEF RankingsInv

\* What is computed from any input is as meant.
LEMMA RankingsAreRight == RankingsInv => RankingsAsMeant
BY DiversifiedIsWhole, ShelvesDoShow, FunnelsAreOrdered DEF RankingsInv, RankingsAsMeant
===============================================================================
