---------------------------- MODULE QueueLemmas -----------------------------
(* What the operators of Queues preserve, for every set of members.        *)
EXTENDS Queues, SequenceTheorems, FiniteSetTheorems, WellFoundedInduction, TLAPS

(* Two facts of arithmetic about a variable divisor, and what they say of  *)
(* an index of a ring: it wraps by one capacity at most.                   *)
LEMMA DivisionWithRemainder ==
    ASSUME NEW d \in Nat \ {0}, NEW i \in Nat
    PROVE  i = d * (i \div d) + (i % d) /\ i % d \in 0 .. d - 1 /\ i \div d \in Int
  OBVIOUS

LEMMA ProductBounds ==
    ASSUME NEW d \in Nat \ {0}, NEW q \in Int
    PROVE  (q >= 2 => d * q >= 2 * d) /\ (q <= -1 => d * q <= -d)
  OBVIOUS

LEMMA WrapOnce ==
    ASSUME NEW d \in Nat \ {0}, NEW i \in 0 .. 2 * d - 1
    PROVE  i % d = IF i < d THEN i ELSE i - d
  <1> DEFINE q == i \div d
             m == i % d
  <1>1. i = d * q + m /\ m \in 0 .. d - 1 /\ q \in Int
    BY DivisionWithRemainder
  <1> HIDE DEF q, m
  <1>2. q < 2
    BY <1>1, ProductBounds
  <1>3. q > -1
    BY <1>1, ProductBounds
  <1>4. CASE q = 0
    BY <1>1, <1>4 DEF m
  <1>5. CASE q = 1
    BY <1>1, <1>5 DEF m
  <1>6. QED BY <1>1, <1>2, <1>3, <1>4, <1>5

LEMMA FunctionIsSeq ==
    ASSUME NEW S, NEW n \in Nat, NEW q \in [1 .. n -> S]
    PROVE  q \in Seq(S) /\ Len(q) = n
  OBVIOUS

LEMMA SubSeqElements ==
    ASSUME NEW S, NEW q \in Seq(S), NEW a \in 1 .. Len(q) + 1, NEW b \in 0 .. Len(q)
    PROVE  /\ SubSeq(q, a, b) \in Seq(S)
           /\ Len(SubSeq(q, a, b)) = IF a <= b THEN b - a + 1 ELSE 0
           /\ \A i \in 1 .. Len(SubSeq(q, a, b)) : SubSeq(q, a, b)[i] = q[a + i - 1]
  BY SubSeqProperties

(* Without drops one occurrence of t and keeps the others in order. *)
LEMMA WithoutElements ==
    ASSUME NEW S, NEW q \in Seq(S), NEW t \in ToSet(q)
    PROVE  /\ Without(q, t) \in Seq(S)
           /\ Len(Without(q, t)) = Len(q) - 1
           /\ \E k \in 1 .. Len(q) : /\ q[k] = t
                                     /\ \A i \in 1 .. Len(q) - 1 :
                                           Without(q, t)[i] = IF i < k THEN q[i] ELSE q[i + 1]
  <1> DEFINE k == CHOOSE i \in DOMAIN q : q[i] = t
  <1>1. k \in 1 .. Len(q) /\ q[k] = t /\ Len(q) \in Nat
    <2>1. DOMAIN q = 1 .. Len(q) /\ Len(q) \in Nat
      BY LenProperties
    <2>2. \E i \in DOMAIN q : q[i] = t
      BY DEF ToSet
    <2>3. QED BY <2>1, <2>2
  <1>2. Without(q, t) = SubSeq(q, 1, k - 1) \o SubSeq(q, k + 1, Len(q))
    BY DEF Without, RemoveAt
  <1> HIDE DEF k
  <1> DEFINE left == SubSeq(q, 1, k - 1)
             right == SubSeq(q, k + 1, Len(q))
  <1>3. left \in Seq(S) /\ Len(left) = k - 1 /\ \A i \in 1 .. k - 1 : left[i] = q[i]
    <2>1. 1 \in 1 .. Len(q) + 1 /\ k - 1 \in 0 .. Len(q)
      BY <1>1
    <2>2. left \in Seq(S) /\ Len(left) = (IF 1 <= k - 1 THEN k - 1 - 1 + 1 ELSE 0)
          /\ \A i \in 1 .. Len(left) : left[i] = q[1 + i - 1]
      BY <2>1, SubSeqElements
    <2>3. Len(left) = k - 1
      BY <2>2, <1>1
    <2>4. QED BY <2>2, <2>3, <1>1
  <1>4. right \in Seq(S) /\ Len(right) = Len(q) - k
        /\ \A i \in 1 .. Len(q) - k : right[i] = q[k + i]
    <2>1. k + 1 \in 1 .. Len(q) + 1 /\ Len(q) \in 0 .. Len(q)
      BY <1>1
    <2>2. right \in Seq(S)
          /\ Len(right) = (IF k + 1 <= Len(q) THEN Len(q) - (k + 1) + 1 ELSE 0)
          /\ \A i \in 1 .. Len(right) : right[i] = q[(k + 1) + i - 1]
      BY <2>1, SubSeqElements
    <2>3. Len(right) = Len(q) - k
      BY <2>2, <1>1
    <2>4. QED BY <2>2, <2>3, <1>1
  <1> HIDE DEF left, right
  <1>5. /\ left \o right \in Seq(S)
        /\ Len(left \o right) = Len(q) - 1
        /\ \A i \in 1 .. Len(q) - 1 :
              (left \o right)[i] = IF i <= k - 1 THEN left[i] ELSE right[i - (k - 1)]
    <2>1. /\ left \o right \in Seq(S)
          /\ Len(left \o right) = Len(left) + Len(right)
          /\ \A i \in 1 .. Len(left) + Len(right) :
                (left \o right)[i] = IF i <= Len(left) THEN left[i] ELSE right[i - Len(left)]
      BY <1>3, <1>4, ConcatProperties
    <2>2. Len(left) + Len(right) = Len(q) - 1
      BY <1>1, <1>3, <1>4
    <2>3. QED BY <2>1, <2>2, <1>3
  <1>6. \A i \in 1 .. Len(q) - 1 :
           (left \o right)[i] = IF i < k THEN q[i] ELSE q[i + 1]
    <2> SUFFICES ASSUME NEW i \in 1 .. Len(q) - 1
                 PROVE  (left \o right)[i] = IF i < k THEN q[i] ELSE q[i + 1]
      OBVIOUS
    <2>1. CASE i < k
      BY <2>1, <1>1, <1>3, <1>5
    <2>2. CASE i >= k
      <3>1. i - (k - 1) \in 1 .. Len(q) - k /\ k + (i - (k - 1)) = i + 1
        BY <2>2, <1>1
      <3>2. ~(i <= k - 1) /\ ~(i < k)
        BY <2>2, <1>1
      <3>3. (left \o right)[i] = right[i - (k - 1)]
        BY <3>2, <1>5
      <3>4. right[i - (k - 1)] = q[i + 1]
        BY <3>1, <1>4
      <3>5. QED BY <3>2, <3>3, <3>4
    <2>3. i < k \/ i >= k
      BY <1>1
    <2>4. QED BY <2>1, <2>2, <2>3
  <1>7. QED BY <1>1, <1>2, <1>5, <1>6 DEF left, right

(* A list with no duplicates loses exactly t. *)
LEMMA WithoutSet ==
    ASSUME NEW S, NEW q \in Seq(S), NEW t \in ToSet(q), IsInjective(q)
    PROVE  /\ ToSet(Without(q, t)) = ToSet(q) \ {t}
           /\ IsInjective(Without(q, t))
  <1> DEFINE w == Without(q, t)
  <1>1. PICK k \in 1 .. Len(q) : /\ q[k] = t
                                 /\ \A i \in 1 .. Len(q) - 1 :
                                       w[i] = IF i < k THEN q[i] ELSE q[i + 1]
    BY WithoutElements
  <1>2. w \in Seq(S) /\ Len(w) = Len(q) - 1
    BY WithoutElements
  <1>3. DOMAIN q = 1 .. Len(q) /\ DOMAIN w = 1 .. Len(q) - 1 /\ Len(q) \in Nat
    BY <1>2, LenProperties
  <1> HIDE DEF w
  <1>4. \A i, j \in 1 .. Len(q) : q[i] = q[j] => i = j
    BY <1>3 DEF IsInjective
  <1>5. \A i \in 1 .. Len(q) - 1 : w[i] \in ToSet(q) \ {t}
    <2> SUFFICES ASSUME NEW i \in 1 .. Len(q) - 1 PROVE w[i] \in ToSet(q) \ {t}
      OBVIOUS
    <2>1. CASE i < k
      <3>1. i \in 1 .. Len(q) /\ w[i] = q[i] /\ i # k
        BY <2>1, <1>1, <1>3
      <3>2. QED BY <3>1, <1>1, <1>3, <1>4 DEF ToSet
    <2>2. CASE i >= k
      <3>1. i + 1 \in 1 .. Len(q) /\ w[i] = q[i + 1] /\ i + 1 # k
        BY <2>2, <1>1, <1>3
      <3>2. QED BY <3>1, <1>1, <1>3, <1>4 DEF ToSet
    <2>3. QED BY <2>1, <2>2, <1>1, <1>3
  <1>6. \A x \in ToSet(q) \ {t} : \E i \in 1 .. Len(q) - 1 : w[i] = x
    <2> SUFFICES ASSUME NEW x \in ToSet(q) \ {t}
                 PROVE  \E i \in 1 .. Len(q) - 1 : w[i] = x
      OBVIOUS
    <2>1. PICK j \in 1 .. Len(q) : q[j] = x /\ j # k
      BY <1>1, <1>3 DEF ToSet
    <2>2. CASE j < k
      <3>1. j \in 1 .. Len(q) - 1 /\ w[j] = q[j]
        BY <2>2, <1>1, <1>3
      <3>2. QED BY <2>1, <3>1
    <2>3. CASE j > k
      <3>1. j - 1 \in 1 .. Len(q) - 1 /\ ~(j - 1 < k) /\ (j - 1) + 1 = j
        BY <2>3, <1>1, <1>3
      <3>2. w[j - 1] = q[j]
        BY <3>1, <1>1
      <3>3. QED BY <2>1, <3>1, <3>2
    <2>4. QED BY <2>1, <2>2, <2>3, <1>3
  <1>7. \A i, j \in 1 .. Len(q) - 1 : w[i] = w[j] => i = j
    <2> SUFFICES ASSUME NEW i \in 1 .. Len(q) - 1, NEW j \in 1 .. Len(q) - 1, w[i] = w[j]
                 PROVE  i = j
      OBVIOUS
    <2> DEFINE m(n) == IF n < k THEN n ELSE n + 1
    <2>1. m(i) \in 1 .. Len(q) /\ m(j) \in 1 .. Len(q) /\ w[i] = q[m(i)] /\ w[j] = q[m(j)]
      BY <1>1, <1>3
    <2>2. m(i) = m(j)
      BY <2>1, <1>4
    <2>3. QED BY <2>2, <1>3
  <1>8. ToSet(w) = ToSet(q) \ {t}
    BY <1>3, <1>5, <1>6 DEF ToSet
  <1>9. IsInjective(w)
    BY <1>3, <1>7 DEF IsInjective
  <1>10. QED BY <1>8, <1>9 DEF w

(* Appending a new member, and taking the head off. *)
LEMMA AppendSet ==
    ASSUME NEW S, NEW q \in Seq(S), NEW t \in S
    PROVE  /\ Append(q, t) \in Seq(S)
           /\ ToSet(Append(q, t)) = ToSet(q) \cup {t}
           /\ IsInjective(q) /\ t \notin ToSet(q) => IsInjective(Append(q, t))
  <1>1. /\ Append(q, t) \in Seq(S) /\ Len(Append(q, t)) = Len(q) + 1
        /\ \A i \in 1 .. Len(q) : Append(q, t)[i] = q[i]
        /\ Append(q, t)[Len(q) + 1] = t
    BY AppendProperties
  <1>2. DOMAIN q = 1 .. Len(q) /\ Len(q) \in Nat /\ DOMAIN Append(q, t) = 1 .. Len(q) + 1
    BY <1>1, LenProperties
  <1>3. ToSet(Append(q, t)) = ToSet(q) \cup {t}
    BY <1>1, <1>2 DEF ToSet
  <1>4. ASSUME IsInjective(q), t \notin ToSet(q) PROVE IsInjective(Append(q, t))
    BY <1>1, <1>2, <1>4 DEF IsInjective, ToSet
  <1>5. QED BY <1>1, <1>3, <1>4

LEMMA TailSet ==
    ASSUME NEW S, NEW q \in Seq(S), q # << >>
    PROVE  /\ Head(q) \in ToSet(q) /\ Head(q) \in S /\ Tail(q) \in Seq(S)
           /\ ToSet(q) = ToSet(Tail(q)) \cup {Head(q)}
           /\ IsInjective(q) => IsInjective(Tail(q)) /\ Head(q) \notin ToSet(Tail(q))
  <1>1. /\ Len(q) \in Nat \ {0} /\ DOMAIN q = 1 .. Len(q) /\ Head(q) = q[1] /\ Head(q) \in S
        /\ Tail(q) \in Seq(S) /\ Len(Tail(q)) = Len(q) - 1
        /\ \A i \in 1 .. Len(q) - 1 : Tail(q)[i] = q[i + 1]
    BY HeadTailProperties, LenProperties, EmptySeq
  <1>2. DOMAIN Tail(q) = 1 .. Len(q) - 1
    BY <1>1, LenProperties
  <1>3. \A j \in 1 .. Len(q) : j # 1 => j - 1 \in 1 .. Len(q) - 1 /\ Tail(q)[j - 1] = q[j]
    BY <1>1
  <1>4. ToSet(q) = ToSet(Tail(q)) \cup {Head(q)} /\ Head(q) \in ToSet(q)
    <2>1. ASSUME NEW x \in ToSet(q) PROVE x \in ToSet(Tail(q)) \cup {Head(q)}
      <3>1. PICK j \in 1 .. Len(q) : q[j] = x
        BY <1>1 DEF ToSet
      <3>2. CASE j = 1
        BY <3>1, <3>2, <1>1
      <3>3. CASE j # 1
        BY <3>1, <3>3, <1>2, <1>3 DEF ToSet
      <3>4. QED BY <3>2, <3>3
    <2>2. \A x \in ToSet(Tail(q)) : x \in ToSet(q)
      BY <1>1, <1>2 DEF ToSet
    <2>3. Head(q) \in ToSet(q)
      BY <1>1 DEF ToSet
    <2>4. QED BY <2>1, <2>2, <2>3
  <1>5. ASSUME IsInjective(q) PROVE IsInjective(Tail(q)) /\ Head(q) \notin ToSet(Tail(q))
    BY <1>1, <1>2, <1>5 DEF IsInjective, ToSet
  <1>6. QED BY <1>1, <1>4, <1>5

LEMMA EmptySet ==
    ASSUME NEW S, NEW q \in Seq(S)
    PROVE  (q = << >> <=> ToSet(q) = {}) /\ IsInjective(<< >>)
  <1>1. Len(q) \in Nat /\ DOMAIN q = 1 .. Len(q) /\ (Len(q) = 0 <=> q = << >>)
    BY LenProperties, EmptySeq
  <1>2. ToSet(q) = {} <=> Len(q) = 0
    <2>1. Len(q) > 0 => q[1] \in ToSet(q)
      BY <1>1 DEF ToSet
    <2>2. Len(q) = 0 => ToSet(q) = {}
      BY <1>1 DEF ToSet
    <2>3. QED BY <1>1, <2>1, <2>2
  <1>3. IsInjective(<< >>)
    BY DEF IsInjective
  <1>4. QED BY <1>1, <1>2, <1>3

(* A set of places of a sequence has a first one. *)
LEMMA FirstPlace ==
    ASSUME NEW n \in Nat, NEW L \in SUBSET (1 .. n), L # {}
    PROVE  \E i \in L : \A j \in L : i <= j
  <1> DEFINE R == StrictSubsetOrdering(1 .. n)
             T == {1 .. i : i \in L}
  <1>1. IsWellFoundedOn(R, FiniteSubsetsOf(1 .. n))
    BY FS_StrictSubsetOrderingWellFounded
  <1>2. IsFiniteSet(1 .. n)
    BY FS_Interval
  <1>3. T \subseteq FiniteSubsetsOf(1 .. n)
    <2> SUFFICES ASSUME NEW i \in L PROVE 1 .. i \in FiniteSubsetsOf(1 .. n)
      OBVIOUS
    <2>1. 1 .. i \subseteq 1 .. n
      OBVIOUS
    <2>2. IsFiniteSet(1 .. i)
      BY <1>2, <2>1, FS_Subset
    <2>3. QED BY <2>1, <2>2 DEF FiniteSubsetsOf
  <1>4. T # {}
    OBVIOUS
  <1> HIDE DEF R
  <1>5. PICK x \in T : \A y \in T : ~ (<<y, x>> \in R)
    BY <1>1, <1>3, <1>4, WFMin
  <1>6. PICK i \in L : x = 1 .. i
    OBVIOUS
  <1>7. ASSUME NEW j \in L, ~(i <= j) PROVE FALSE
    <2>1. 1 .. j \subseteq 1 .. i /\ 1 .. j # 1 .. i
      <3>1. i \in 1 .. i /\ i \notin 1 .. j
        BY <1>7
      <3>2. QED BY <1>7, <3>1
    <2>2. <<1 .. j, 1 .. i>> \in StrictSubsetOrdering(1 .. n)
      BY <2>1 DEF StrictSubsetOrdering
    <2>3. QED BY <1>5, <1>6, <2>2 DEF R
  <1>8. QED BY <1>7

(***************************************************************************)
(* An insertion by priority puts t at one place, after everybody before it *)
(* whose priority is as good, and before the first whose priority is not.  *)
(***************************************************************************)
LEMMA InsertElements ==
    ASSUME NEW S, NEW q \in Seq(S), NEW t \in S, NEW prio \in [S -> Nat]
    PROVE  LET r == InsertByPriority(q, t, prio) IN
           /\ r \in Seq(S) /\ Len(r) = Len(q) + 1
           /\ \E pos \in 1 .. Len(q) + 1 :
                 /\ \A i \in 1 .. pos - 1 : r[i] = q[i] /\ prio[q[i]] <= prio[t]
                 /\ r[pos] = t
                 /\ \A i \in pos .. Len(q) : r[i + 1] = q[i]
                 /\ pos \in 1 .. Len(q) => prio[q[pos]] > prio[t]
  <1> DEFINE later == {i \in DOMAIN q : prio[q[i]] > prio[t]}
             pos == IF later = {} THEN Len(q) + 1
                    ELSE CHOOSE i \in later : \A j \in later : i <= j
             r == InsertByPriority(q, t, prio)
  <1>1. Len(q) \in Nat /\ DOMAIN q = 1 .. Len(q) /\ \A i \in 1 .. Len(q) : q[i] \in S
    BY LenProperties, ElementOfSeq
  <1>2. pos \in 1 .. Len(q) + 1
    <2>1. CASE later = {}
      BY <1>1, <2>1
    <2>2. CASE later # {}
      <3>1. \E i \in later : \A j \in later : i <= j
        BY <1>1, <2>2, FirstPlace
      <3>2. later \subseteq 1 .. Len(q)
        BY <1>1
      <3>3. pos \in later
        BY <2>2, <3>1
      <3> HIDE DEF later, pos
      <3>4. QED BY <1>1, <3>2, <3>3
    <2>3. QED BY <2>1, <2>2
  <1>2a. /\ \A i \in 1 .. pos - 1 : prio[q[i]] <= prio[t]
         /\ pos \in 1 .. Len(q) => prio[q[pos]] > prio[t]
    <2>1. \A i \in 1 .. Len(q) : prio[q[i]] \in Nat /\ prio[t] \in Nat
      BY <1>1
    <2>2. CASE later = {}
      <3>1. pos = Len(q) + 1
        BY <2>2
      <3>2. \A i \in 1 .. Len(q) : ~(prio[q[i]] > prio[t])
        BY <1>1, <2>2
      <3> HIDE DEF later, pos
      <3>3. \A i \in 1 .. pos - 1 : i \in 1 .. Len(q)
        BY <1>1, <3>1
      <3>4. QED BY <1>1, <2>1, <3>1, <3>2, <3>3
    <2>3. CASE later # {}
      <3>1. \E i \in later : \A j \in later : i <= j
        BY <1>1, <2>3, FirstPlace
      <3>2. pos \in later /\ \A j \in later : pos <= j
        BY <2>3, <3>1
      <3>3. prio[q[pos]] > prio[t]
        BY <3>2
      <3>4. \A i \in 1 .. Len(q) : i \notin later => ~(prio[q[i]] > prio[t])
        BY <1>1
      <3>5. later \subseteq 1 .. Len(q)
        BY <1>1
      <3> HIDE DEF later, pos
      <3>6. ASSUME NEW i \in 1 .. pos - 1 PROVE prio[q[i]] <= prio[t]
        <4>1. i \in 1 .. Len(q) /\ i \notin later
          BY <1>1, <1>2, <3>2
        <4>2. QED BY <2>1, <3>4, <4>1
      <3>7. QED BY <3>3, <3>6
    <2>4. QED BY <2>2, <2>3
  <1>3. r = InsertAt(q, pos, t)
    BY DEF InsertByPriority
  <1> HIDE DEF later, pos, r
  <1> DEFINE a == SubSeq(q, 1, pos - 1)
             b == SubSeq(q, pos, Len(q))
  <1>4. r = a \o <<t>> \o b
    BY <1>3 DEF InsertAt
  <1>5. /\ a \in Seq(S) /\ Len(a) = pos - 1 /\ \A i \in 1 .. pos - 1 : a[i] = q[i]
        /\ b \in Seq(S) /\ Len(b) = Len(q) - pos + 1
        /\ \A i \in 1 .. Len(b) : b[i] = q[pos + i - 1]
    <2>1. pos - 1 \in 0 .. Len(q) /\ 1 \in 1 .. Len(q) + 1 /\ Len(q) \in 0 .. Len(q)
      BY <1>1, <1>2
    <2>2. /\ a \in Seq(S) /\ Len(a) = pos - 1
          /\ \A i \in 1 .. Len(a) : a[i] = q[1 + i - 1]
      BY <1>1, <1>2, <2>1, SubSeqElements
    <2>3. /\ b \in Seq(S) /\ Len(b) = Len(q) - pos + 1
          /\ \A i \in 1 .. Len(b) : b[i] = q[pos + i - 1]
      BY <1>1, <1>2, <2>1, SubSeqElements
    <2>4. \A i \in 1 .. pos - 1 : a[i] = q[i]
      BY <1>2, <2>2
    <2>5. QED BY <2>2, <2>3, <2>4
  <1> HIDE DEF a, b
  <1>6. r \in Seq(S) /\ Len(r) = Len(q) + 1
    <2>1. <<t>> \in Seq(S) /\ Len(<<t>>) = 1
      OBVIOUS
    <2>2. a \o <<t>> \in Seq(S) /\ Len(a \o <<t>>) = (pos - 1) + 1
      BY <1>5, <2>1, ConcatProperties
    <2>3. r \in Seq(S) /\ Len(r) = Len(a \o <<t>>) + Len(b)
      BY <1>4, <1>5, <2>2, ConcatProperties
    <2>4. Len(b) = Len(q) - pos + 1
      BY <1>5
    <2> HIDE DEF later
    <2>5. Len(q) \in Nat /\ pos \in Int
      BY <1>1, <1>2
    <2>6. Len(r) = ((pos - 1) + 1) + (Len(q) - pos + 1)
      BY <2>2, <2>3, <2>4
    <2>7. QED BY <2>3, <2>5, <2>6
  <1>7. /\ \A i \in 1 .. pos - 1 : r[i] = q[i]
        /\ r[pos] = t
        /\ \A i \in pos .. Len(q) : r[i + 1] = q[i]
    <2> DEFINE at == a \o <<t>>
    <2>1. <<t>> \in Seq(S) /\ Len(<<t>>) = 1 /\ <<t>>[1] = t
      OBVIOUS
    <2>2. /\ at \in Seq(S) /\ Len(at) = Len(a) + Len(<<t>>)
          /\ \A i \in 1 .. Len(a) + Len(<<t>>) :
                at[i] = IF i <= Len(a) THEN a[i] ELSE <<t>>[i - Len(a)]
      BY <1>5, <2>1, ConcatProperties
    <2>3. Len(at) = pos
      BY <1>2, <1>5, <2>1, <2>2
    <2>4. \A i \in 1 .. Len(at) + Len(b) :
             r[i] = IF i <= Len(at) THEN at[i] ELSE b[i - Len(at)]
      BY <1>4, <1>5, <2>2, ConcatProperties
    <2> HIDE DEF at
    <2>5. ASSUME NEW i \in 1 .. pos - 1 PROVE r[i] = q[i]
      <3>1. i \in 1 .. Len(at) + Len(b) /\ i <= Len(at)
        BY <1>1, <1>2, <1>5, <2>3
      <3>2. r[i] = at[i]
        BY <2>4, <3>1
      <3>3. i \in 1 .. Len(a) + Len(<<t>>) /\ i <= Len(a)
        BY <1>1, <1>2, <1>5, <2>1
      <3>4. at[i] = a[i]
        BY <2>2, <3>3
      <3>5. QED BY <1>5, <3>2, <3>4
    <2>6. r[pos] = t
      <3>1. pos \in 1 .. Len(at) + Len(b) /\ pos <= Len(at)
        BY <1>1, <1>2, <1>5, <2>3
      <3>2. r[pos] = at[pos]
        BY <2>4, <3>1
      <3>3. pos \in 1 .. Len(a) + Len(<<t>>) /\ ~(pos <= Len(a)) /\ pos - Len(a) = 1
        BY <1>1, <1>2, <1>5, <2>1
      <3>4. at[pos] = <<t>>[1]
        BY <2>2, <3>3
      <3>5. QED BY <2>1, <3>2, <3>4
    <2>7. ASSUME NEW i \in pos .. Len(q) PROVE r[i + 1] = q[i]
      <3>1. /\ i + 1 \in 1 .. Len(at) + Len(b) /\ ~(i + 1 <= Len(at))
            /\ (i + 1) - Len(at) = i - pos + 1
        BY <1>1, <1>2, <1>5, <2>3
      <3>2. r[i + 1] = b[i - pos + 1]
        BY <2>4, <3>1
      <3>3. Len(b) = Len(q) - pos + 1
        BY <1>5
      <3>4. i - pos + 1 \in 1 .. Len(b) /\ pos + (i - pos + 1) - 1 = i
        BY <1>1, <1>2, <3>3
      <3>5. b[i - pos + 1] = q[i]
        BY <1>5, <3>4
      <3>6. QED BY <3>2, <3>5
    <2>8. QED BY <2>5, <2>6, <2>7
  <1>8. QED BY <1>2, <1>6, <1>7, <1>2a DEF r

(* An insertion by priority adds t, and the head is t or was it before. *)
LEMMA InsertSet ==
    ASSUME NEW S, NEW q \in Seq(S), NEW t \in S, t \notin ToSet(q), IsInjective(q),
           NEW prio \in [S -> Nat]
    PROVE  LET r == InsertByPriority(q, t, prio) IN
           /\ r \in Seq(S)
           /\ r # << >>
           /\ ToSet(r) = ToSet(q) \cup {t}
           /\ IsInjective(r)
           /\ Head(r) = t \/ (q # << >> /\ Head(r) = Head(q))
  <1> DEFINE r == InsertByPriority(q, t, prio)
  <1>1. Len(q) \in Nat /\ DOMAIN q = 1 .. Len(q) /\ \A i \in 1 .. Len(q) : q[i] \in S
    BY LenProperties, ElementOfSeq
  <1>3. /\ r \in Seq(S) /\ Len(r) = Len(q) + 1
        /\ \E pos \in 1 .. Len(q) + 1 :
              /\ \A i \in 1 .. pos - 1 : r[i] = q[i] /\ prio[q[i]] <= prio[t]
              /\ r[pos] = t
              /\ \A i \in pos .. Len(q) : r[i + 1] = q[i]
              /\ pos \in 1 .. Len(q) => prio[q[pos]] > prio[t]
    BY InsertElements
  <1> HIDE DEF r
  <1>2. PICK pos \in 1 .. Len(q) + 1 :
           /\ \A i \in 1 .. pos - 1 : r[i] = q[i]
           /\ r[pos] = t
           /\ \A i \in pos .. Len(q) : r[i + 1] = q[i]
    BY <1>3
  <1>6. r \in Seq(S) /\ Len(r) = Len(q) + 1
    BY <1>3
  <1>7. /\ \A i \in 1 .. pos - 1 : r[i] = q[i]
        /\ r[pos] = t
        /\ \A i \in pos .. Len(q) : r[i + 1] = q[i]
    BY <1>2
  <1>8. DOMAIN r = 1 .. Len(q) + 1 /\ r # << >> /\ Head(r) = r[1]
    BY <1>1, <1>6, LenProperties, EmptySeq, HeadTailProperties
  (* Each place of r holds t or a place of q, and different ones. *)
  <1> DEFINE from(i) == IF i < pos THEN i ELSE i - 1
  <1>9. ASSUME NEW i \in 1 .. Len(q) + 1, i # pos
        PROVE  from(i) \in 1 .. Len(q) /\ r[i] = q[from(i)]
    <2>1. CASE i < pos
      <3>1. i \in 1 .. pos - 1 /\ i \in 1 .. Len(q)
        BY <1>1, <1>2, <2>1
      <3>2. QED BY <1>7, <2>1, <3>1
    <2>2. CASE ~(i < pos)
      <3>1. i - 1 \in pos .. Len(q) /\ i - 1 \in 1 .. Len(q) /\ (i - 1) + 1 = i
        BY <1>1, <1>2, <1>9, <2>2
      <3>2. r[(i - 1) + 1] = q[i - 1]
        BY <1>7, <3>1
      <3>3. QED BY <2>2, <3>1, <3>2
    <2>3. QED BY <2>1, <2>2
  <1>10. ToSet(r) \subseteq ToSet(q) \cup {t}
    <2> SUFFICES ASSUME NEW i \in 1 .. Len(q) + 1 PROVE r[i] \in ToSet(q) \cup {t}
      BY <1>8 DEF ToSet
    <2>1. CASE i = pos
      BY <1>7, <2>1
    <2>2. CASE i # pos
      <3>1. from(i) \in DOMAIN q /\ r[i] = q[from(i)]
        BY <1>1, <1>9, <2>2
      <3> HIDE DEF from
      <3>2. QED BY <3>1 DEF ToSet
    <2>3. QED BY <2>1, <2>2
  <1>11. ToSet(q) \cup {t} \subseteq ToSet(r)
    <2>1. pos \in DOMAIN r /\ r[pos] = t
      BY <1>2, <1>7, <1>8
    <2>2. ASSUME NEW i \in 1 .. Len(q) PROVE q[i] \in ToSet(r)
      <3>1. CASE i < pos
        <4>1. i \in 1 .. pos - 1 /\ i \in DOMAIN r
          BY <1>1, <1>2, <1>8, <3>1
        <4>2. QED BY <1>7, <4>1 DEF ToSet
      <3>2. CASE ~(i < pos)
        <4>1. i \in pos .. Len(q) /\ i + 1 \in DOMAIN r
          BY <1>1, <1>2, <1>8, <3>2
        <4>2. QED BY <1>7, <4>1 DEF ToSet
      <3>3. QED BY <3>1, <3>2
    <2>3. QED BY <1>1, <2>1, <2>2 DEF ToSet
  <1>12. IsInjective(r)
    <2> SUFFICES ASSUME NEW i \in 1 .. Len(q) + 1, NEW j \in 1 .. Len(q) + 1, r[i] = r[j]
                 PROVE  i = j
      BY <1>8 DEF IsInjective
    <2>1. \A k \in 1 .. Len(q) : q[k] # t
      BY <1>1 DEF ToSet
    <2>2. \A k, l \in 1 .. Len(q) : q[k] = q[l] => k = l
      BY <1>1 DEF IsInjective
    <2>3. i = pos <=> j = pos
      <3> HIDE DEF from
      <3> QED BY <1>7, <1>9, <2>1
    <2>4. CASE i # pos /\ j # pos
      <3>1. from(i) = from(j)
        <4> HIDE DEF from
        <4> QED BY <1>9, <2>2, <2>4
      <3>2. QED BY <1>1, <1>2, <2>4, <3>1
    <2>5. QED BY <2>3, <2>4
  <1>13. Head(r) = t \/ (q # << >> /\ Head(r) = Head(q))
    <2>1. CASE pos = 1
      BY <1>7, <1>8, <2>1
    <2>2. CASE pos > 1
      <3>1. Len(q) > 0 /\ q # << >> /\ Head(q) = q[1]
        BY <1>1, <1>2, <2>2, EmptySeq, HeadTailProperties
      <3>2. 1 \in 1 .. pos - 1
        BY <1>2, <2>2
      <3>3. QED BY <1>7, <1>8, <3>1, <3>2
    <2>3. QED BY <1>2, <2>1, <2>2
  <1>14. QED BY <1>6, <1>8, <1>10, <1>11, <1>12, <1>13 DEF r

(* Taking out a member that is not the head leaves the head. *)
LEMMA WithoutHead ==
    ASSUME NEW S, NEW q \in Seq(S), NEW t \in ToSet(q), Head(q) # t
    PROVE  Without(q, t) # << >> => Head(Without(q, t)) = Head(q)
  <1> DEFINE w == Without(q, t)
  <1>1. PICK k \in 1 .. Len(q) : /\ q[k] = t
                                 /\ \A i \in 1 .. Len(q) - 1 :
                                       w[i] = IF i < k THEN q[i] ELSE q[i + 1]
    BY WithoutElements
  <1>2. w \in Seq(S) /\ Len(w) = Len(q) - 1 /\ Len(q) \in Nat
    BY WithoutElements, LenProperties
  <1> HIDE DEF w
  <1>3. q # << >> /\ Head(q) = q[1]
    BY <1>1, EmptySeq, HeadTailProperties
  <1>4. SUFFICES ASSUME w # << >> PROVE Head(w) = q[1]
    BY <1>3 DEF w
  <1>5. Head(w) = w[1] /\ Len(w) # 0
    BY <1>2, <1>4, EmptySeq, HeadTailProperties
  <1>6. 1 \in 1 .. Len(q) - 1 /\ 1 < k
    BY <1>1, <1>2, <1>3, <1>5
  <1>7. QED BY <1>1, <1>5, <1>6

(***************************************************************************)
(* Queues in order of priority, the best value first.                      *)
(***************************************************************************)
Ordered(q, prio) == \A i, j \in DOMAIN q : i < j => prio[q[i]] <= prio[q[j]]

LEMMA OrderedInsert ==
    ASSUME NEW S, NEW q \in Seq(S), NEW t \in S, NEW prio \in [S -> Nat], Ordered(q, prio)
    PROVE  Ordered(InsertByPriority(q, t, prio), prio)
  <1> DEFINE r == InsertByPriority(q, t, prio)
  <1>1. /\ r \in Seq(S) /\ Len(r) = Len(q) + 1
        /\ \E pos \in 1 .. Len(q) + 1 :
              /\ \A i \in 1 .. pos - 1 : r[i] = q[i] /\ prio[q[i]] <= prio[t]
              /\ r[pos] = t
              /\ \A i \in pos .. Len(q) : r[i + 1] = q[i]
              /\ pos \in 1 .. Len(q) => prio[q[pos]] > prio[t]
    BY InsertElements
  <1> HIDE DEF r
  <1>2. PICK pos \in 1 .. Len(q) + 1 :
           /\ \A i \in 1 .. pos - 1 : r[i] = q[i] /\ prio[q[i]] <= prio[t]
           /\ r[pos] = t
           /\ \A i \in pos .. Len(q) : r[i + 1] = q[i]
           /\ pos \in 1 .. Len(q) => prio[q[pos]] > prio[t]
    BY <1>1
  <1>3. /\ Len(q) \in Nat /\ DOMAIN q = 1 .. Len(q) /\ DOMAIN r = 1 .. Len(q) + 1
        /\ \A i \in 1 .. Len(q) : prio[q[i]] \in Nat
        /\ prio[t] \in Nat
    BY <1>1, LenProperties, ElementOfSeq
  <1>4. \A i, j \in 1 .. Len(q) : i < j => prio[q[i]] <= prio[q[j]]
    BY <1>3 DEF Ordered
  <1>5. \A i \in pos .. Len(q) : prio[t] <= prio[q[i]]
    <2> SUFFICES ASSUME NEW i \in pos .. Len(q) PROVE prio[t] <= prio[q[i]]
      OBVIOUS
    <2>1. pos \in 1 .. Len(q) /\ i \in 1 .. Len(q) /\ (i = pos \/ pos < i)
      BY <1>3
    <2>2. prio[q[pos]] > prio[t] /\ prio[q[pos]] <= prio[q[i]]
      BY <1>2, <1>3, <1>4, <2>1
    <2>3. QED BY <1>3, <2>1, <2>2
  <1>6. ASSUME NEW i \in 1 .. Len(q) + 1, NEW j \in 1 .. Len(q) + 1, i < j
        PROVE  prio[r[i]] <= prio[r[j]]
    <2>1. CASE i < pos /\ j < pos
      <3>1. i \in 1 .. pos - 1 /\ j \in 1 .. pos - 1 /\ i \in 1 .. Len(q) /\ j \in 1 .. Len(q)
        BY <1>3, <2>1
      <3>2. QED BY <1>2, <1>4, <1>6, <3>1
    <2>2. CASE i < pos /\ j = pos
      <3>1. i \in 1 .. pos - 1
        BY <1>3, <2>2
      <3>2. QED BY <1>2, <2>2, <3>1
    <2>3. CASE i < pos /\ j > pos
      <3>1. i \in 1 .. pos - 1 /\ i \in 1 .. Len(q) /\ j - 1 \in pos .. Len(q)
            /\ j - 1 \in 1 .. Len(q) /\ (j - 1) + 1 = j
        BY <1>3, <2>3
      <3>2. r[i] = q[i] /\ r[j] = q[j - 1] /\ prio[q[i]] <= prio[t] /\ prio[t] <= prio[q[j - 1]]
        BY <1>2, <1>5, <3>1
      <3>3. QED BY <1>3, <3>1, <3>2
    <2>4. CASE i = pos /\ j > pos
      <3>1. j - 1 \in pos .. Len(q) /\ (j - 1) + 1 = j
        BY <1>3, <2>4
      <3>2. QED BY <1>2, <1>5, <2>4, <3>1
    <2>5. CASE i > pos /\ j > pos
      <3>1. /\ i - 1 \in pos .. Len(q) /\ j - 1 \in pos .. Len(q) /\ (i - 1) + 1 = i
            /\ (j - 1) + 1 = j /\ i - 1 \in 1 .. Len(q) /\ j - 1 \in 1 .. Len(q) /\ i - 1 < j - 1
        BY <1>3, <1>6, <2>5
      <3>2. r[i] = q[i - 1] /\ r[j] = q[j - 1]
        BY <1>2, <3>1
      <3>3. QED BY <1>4, <3>1, <3>2
    <2>6. QED BY <1>3, <1>6, <2>1, <2>2, <2>3, <2>4, <2>5
  <1>7. Ordered(r, prio)
    BY <1>3, <1>6 DEF Ordered
  <1>8. QED BY <1>7 DEF r

LEMMA OrderedWithout ==
    ASSUME NEW S, NEW q \in Seq(S), NEW t \in ToSet(q), NEW prio \in [S -> Nat], Ordered(q, prio)
    PROVE  Ordered(Without(q, t), prio)
  <1> DEFINE w == Without(q, t)
  <1>1. PICK k \in 1 .. Len(q) : /\ q[k] = t
                                 /\ \A i \in 1 .. Len(q) - 1 :
                                       w[i] = IF i < k THEN q[i] ELSE q[i + 1]
    BY WithoutElements
  <1>2. w \in Seq(S) /\ Len(w) = Len(q) - 1
    BY WithoutElements
  <1> HIDE DEF w
  <1>3. DOMAIN q = 1 .. Len(q) /\ DOMAIN w = 1 .. Len(q) - 1 /\ Len(q) \in Nat
    BY <1>2, LenProperties
  <1>4. ASSUME NEW i \in 1 .. Len(q) - 1, NEW j \in 1 .. Len(q) - 1, i < j
        PROVE  prio[w[i]] <= prio[w[j]]
    <2> DEFINE m(n) == IF n < k THEN n ELSE n + 1
    <2>1. m(i) \in 1 .. Len(q) /\ m(j) \in 1 .. Len(q) /\ m(i) < m(j)
      BY <1>3, <1>4
    <2>2. w[i] = q[m(i)] /\ w[j] = q[m(j)]
      BY <1>1, <1>3
    <2> HIDE DEF m
    <2>3. QED BY <1>3, <2>1, <2>2 DEF Ordered
  <1>5. Ordered(w, prio)
    BY <1>3, <1>4 DEF Ordered
  <1>6. QED BY <1>5 DEF w

LEMMA OrderedTail ==
    ASSUME NEW S, NEW q \in Seq(S), q # << >>, NEW prio, Ordered(q, prio)
    PROVE  Ordered(Tail(q), prio)
  <1>1. /\ Len(q) \in Nat \ {0} /\ DOMAIN q = 1 .. Len(q) /\ DOMAIN Tail(q) = 1 .. Len(q) - 1
        /\ \A i \in 1 .. Len(q) - 1 : Tail(q)[i] = q[i + 1]
    <2>1. Tail(q) \in Seq(S) /\ Len(Tail(q)) = Len(q) - 1
      BY HeadTailProperties
    <2>2. QED BY <2>1, HeadTailProperties, EmptySeq, LenProperties
  <1>2. ASSUME NEW i \in 1 .. Len(q) - 1, NEW j \in 1 .. Len(q) - 1, i < j
        PROVE  prio[Tail(q)[i]] <= prio[Tail(q)[j]]
    <2>1. i + 1 \in DOMAIN q /\ j + 1 \in DOMAIN q /\ i + 1 < j + 1
      BY <1>1, <1>2
    <2>2. QED BY <1>1, <2>1 DEF Ordered
  <1>3. QED BY <1>1, <1>2 DEF Ordered

(* A thread worse than all the others goes to the end.                     *)
LEMMA OrderedAppend ==
    ASSUME NEW S, NEW q \in Seq(S), NEW t \in S, NEW prio, Ordered(q, prio),
           \A u \in ToSet(q) : prio[u] <= prio[t]
    PROVE  Ordered(Append(q, t), prio)
  <1>1. /\ Append(q, t) \in Seq(S) /\ Len(Append(q, t)) = Len(q) + 1
        /\ \A i \in 1 .. Len(q) : Append(q, t)[i] = q[i]
        /\ Append(q, t)[Len(q) + 1] = t
    BY AppendProperties
  <1>2. DOMAIN q = 1 .. Len(q) /\ Len(q) \in Nat /\ DOMAIN Append(q, t) = 1 .. Len(q) + 1
    BY <1>1, LenProperties
  <1>3. ASSUME NEW i \in 1 .. Len(q) + 1, NEW j \in 1 .. Len(q) + 1, i < j
        PROVE  prio[Append(q, t)[i]] <= prio[Append(q, t)[j]]
    <2>1. i \in 1 .. Len(q) /\ q[i] \in ToSet(q)
      BY <1>2, <1>3 DEF ToSet
    <2>2. CASE j = Len(q) + 1
      BY <1>1, <2>1, <2>2
    <2>3. CASE j # Len(q) + 1
      <3>1. j \in 1 .. Len(q)
        BY <1>2, <2>3
      <3>2. prio[q[i]] <= prio[q[j]]
        BY <1>2, <1>3, <2>1, <3>1 DEF Ordered
      <3>3. QED BY <1>1, <2>1, <3>1, <3>2
    <2>4. QED BY <2>2, <2>3
  <1>4. QED BY <1>2, <1>3 DEF Ordered

(* The order is that of the members' own priorities.                       *)
LEMMA OrderedSame ==
    ASSUME NEW S, NEW q \in Seq(S), NEW prio, NEW other, Ordered(q, prio),
           \A u \in ToSet(q) : other[u] = prio[u]
    PROVE  Ordered(q, other)
  <1>1. \A i \in DOMAIN q : q[i] \in ToSet(q)
    BY DEF ToSet
  <1>2. QED BY <1>1 DEF Ordered
=============================================================================
