--------------------------- MODULE FrmHeap_proofs ---------------------------
(* Theorems about FrmHeap and the sound heap built on it, SndFrameHeap, for *)
(* every heap, and every size, alignment and id their clients ask for.      *)
EXTENDS SndFrameHeap, QueueLemmas

(***************************************************************************)
(* The inductive invariant.  Of a heap f: the two ends do not cross, and   *)
(* each recorded state is within the heap as it is and within every state  *)
(* recorded after it, with its own record in between.                      *)
(***************************************************************************)
Record == [id : Nat, head : Int, tail : Int]
Heap == [head : Int, tail : Int, end : Int, states : Seq(Record)]

Nested(f, s) ==
    /\ FrmStart <= s.head /\ s.head + StateSize <= f.head
    /\ f.tail <= s.tail /\ s.tail <= f.end

HeapOK(f) ==
    /\ f \in Heap
    /\ FrmStart <= f.head /\ f.head <= f.tail /\ f.tail <= f.end
    /\ \A i \in 1 .. Len(f.states) : Nested(f, f.states[i])
    /\ \A i, j \in 1 .. Len(f.states) : i < j =>
          /\ f.states[j].head + StateSize <= f.states[i].head
          /\ f.states[i].tail <= f.states[j].tail

(* Of the regions S handed out: each is where the heap keeps it, and none  *)
(* over another.                                                           *)
Region == [at : Int, size : Nat \ {0}, side : {"head", "tail"}]
Within(f, r) ==
    IF r.side = "head" THEN FrmStart <= r.at /\ r.at + r.size <= f.head
                       ELSE f.tail <= r.at /\ r.at + r.size <= f.end

RegionsOK(f, S) ==
    /\ S \subseteq Region
    /\ \A r \in S : Within(f, r)
    /\ \A r, s \in S : r # s => r.at + r.size <= s.at \/ s.at + s.size <= r.at

FrmInv == HeapOK(frm) /\ RegionsOK(frm, regions)

-----------------------------------------------------------------------------
(* Rounding to a multiple of any alignment.                                *)
LEMMA Remainder ==
    ASSUME NEW p \in Int, NEW align \in Nat \ {0}
    PROVE  p % align \in 0 .. align - 1
  OBVIOUS

LEMMA Rounding ==
    ASSUME NEW p \in Int, NEW align \in Nat \ {0}
    PROVE  /\ RoundUp(p, align) \in Int /\ RoundUp(p, align) >= p
           /\ RoundDown(p, align) \in Int /\ RoundDown(p, align) <= p
  <1> DEFINE r == p % align
             q == (align - r) % align
  <1>1. r \in 0 .. align - 1
    BY Remainder
  <1> HIDE DEF r
  <1>2. q \in 0 .. align - 1
    BY <1>1, Remainder
  <1> HIDE DEF q
  <1>3. RoundUp(p, align) = p + q /\ RoundDown(p, align) = p - r
    BY DEF RoundUp, RoundDown, q, r
  <1>4. QED BY <1>1, <1>2, <1>3

LEMMA HeapFacts ==
    ASSUME NEW f, HeapOK(f)
    PROVE  /\ FrmStart \in Int /\ StateSize \in Nat \ {0}
           /\ f \in Heap /\ f.head \in Int /\ f.tail \in Int /\ f.end \in Int
           /\ f.states \in Seq(Record) /\ Len(f.states) \in Nat
           /\ DOMAIN f.states = 1 .. Len(f.states)
           /\ \A i \in 1 .. Len(f.states) :
                 /\ f.states[i] \in Record
                 /\ f.states[i].id \in Nat
                 /\ f.states[i].head \in Int /\ f.states[i].tail \in Int
  <1>1. f \in Heap
    BY DEF HeapOK
  <1>2. f.head \in Int /\ f.tail \in Int /\ f.end \in Int /\ f.states \in Seq(Record)
    BY <1>1 DEF Heap
  <1>3. Len(f.states) \in Nat /\ DOMAIN f.states = 1 .. Len(f.states)
    BY <1>2, LenProperties
  <1>4. \A i \in 1 .. Len(f.states) : f.states[i] \in Record
    BY <1>2, ElementOfSeq
  <1>5. \A s \in Record : s.id \in Nat /\ s.head \in Int /\ s.tail \in Int
    BY DEF Record
  <1>6. QED BY <1>1, <1>2, <1>3, <1>4, <1>5, FrmAssumption

(* A heap whose ends have moved inwards is a heap. *)
LEMMA Narrower ==
    ASSUME NEW f, HeapOK(f), NEW h \in Heap,
           h.end = f.end, h.states = f.states,
           f.head <= h.head, h.head <= h.tail, h.tail <= f.tail
    PROVE  HeapOK(h)
  <1>1. h.head \in Int /\ h.tail \in Int
    BY DEF Heap
  <1>2. \A i \in 1 .. Len(f.states) : Nested(h, f.states[i])
    <2> SUFFICES ASSUME NEW i \in 1 .. Len(f.states) PROVE Nested(h, f.states[i])
      OBVIOUS
    <2>1. Nested(f, f.states[i])
      BY DEF HeapOK
    <2>2. /\ f.states[i].head \in Int /\ f.states[i].tail \in Int
          /\ StateSize \in Int /\ f.head \in Int /\ f.tail \in Int
      BY HeapFacts
    <2>3. QED BY <1>1, <2>1, <2>2 DEF Nested
  <1>3. FrmStart <= h.head /\ h.head <= h.tail /\ h.tail <= h.end
    <2>1. FrmStart <= f.head /\ f.tail <= f.end
      BY DEF HeapOK
    <2>2. FrmStart \in Int /\ f.head \in Int /\ f.tail \in Int /\ f.end \in Int
      BY HeapFacts
    <2>3. QED BY <1>1, <2>1, <2>2
  <1>4. QED BY <1>2, <1>3 DEF HeapOK

LEMMA HeadAllocation ==
    ASSUME NEW f, HeapOK(f), NEW size \in Nat \ {0}, NEW align \in Nat \ {0}
    PROVE  LET a == AllocFromHead(f, size, align) IN
           IF a.ok THEN /\ a.at \in Int /\ f.head <= a.at /\ a.at + size <= f.tail
                        /\ a.heap = [f EXCEPT !.head = a.at + size]
                        /\ HeapOK(a.heap)
                   ELSE a.heap = f
  <1> DEFINE at == RoundUp(f.head, align)
  <1>1. f \in Heap /\ f.head \in Int /\ f.tail \in Int
    BY DEF HeapOK, Heap
  <1>2. at \in Int /\ f.head <= at
    BY <1>1, Rounding
  <1>3. AllocFromHead(f, size, align) =
           IF at + size > f.tail THEN [ok |-> FALSE, heap |-> f, at |-> 0]
           ELSE [ok |-> TRUE, heap |-> [f EXCEPT !.head = at + size], at |-> at]
    BY DEF AllocFromHead
  <1> HIDE DEF at
  <1>4. ASSUME ~(at + size > f.tail) PROVE HeapOK([f EXCEPT !.head = at + size])
    <2> DEFINE end == at + size
    <2>1. end \in Int /\ f.head <= end /\ end <= f.tail
      BY <1>1, <1>2, <1>4
    <2> HIDE DEF end
    <2> DEFINE h == [f EXCEPT !.head = end]
    <2>2. /\ h \in Heap /\ h.head = end /\ h.tail = f.tail
          /\ h.end = f.end /\ h.states = f.states
      BY <1>1, <2>1 DEF Heap
    <2> HIDE DEF h
    <2>3. h.tail <= f.tail
      BY <1>1, <2>2
    <2>4. HeapOK(h)
      BY <2>1, <2>2, <2>3, Narrower
    <2>5. QED BY <2>4 DEF end, h
  <1>5. QED BY <1>1, <1>2, <1>3, <1>4

LEMMA TailAllocation ==
    ASSUME NEW f, HeapOK(f), NEW size \in Nat \ {0}, NEW align \in Nat \ {0}
    PROVE  LET a == AllocFromTail(f, size, align) IN
           IF a.ok THEN /\ a.at \in Int /\ f.head <= a.at /\ a.at + size <= f.tail
                        /\ a.heap = [f EXCEPT !.tail = a.at]
                        /\ HeapOK(a.heap)
                   ELSE a.heap = f
  <1> DEFINE at == RoundDown(f.tail - size, align)
  <1>1. f \in Heap /\ f.head \in Int /\ f.tail \in Int
    BY DEF HeapOK, Heap
  <1>2. at \in Int /\ at <= f.tail - size
    BY <1>1, Rounding
  <1>3. AllocFromTail(f, size, align) =
           IF at < f.head THEN [ok |-> FALSE, heap |-> f, at |-> 0]
           ELSE [ok |-> TRUE, heap |-> [f EXCEPT !.tail = at], at |-> at]
    BY DEF AllocFromTail
  <1> HIDE DEF at
  <1>4. ASSUME ~(at < f.head) PROVE HeapOK([f EXCEPT !.tail = at])
    <2>1. f.head <= at /\ at <= f.tail
      BY <1>1, <1>2, <1>4
    <2> DEFINE h == [f EXCEPT !.tail = at]
    <2>2. /\ h \in Heap /\ h.head = f.head /\ h.tail = at
          /\ h.end = f.end /\ h.states = f.states
      BY <1>1, <1>2 DEF Heap
    <2> HIDE DEF h
    <2>3. f.head <= h.head
      BY <1>1, <2>2
    <2>4. HeapOK(h)
      BY <2>1, <2>2, <2>3, Narrower
    <2>5. QED BY <2>4 DEF h
  <1>5. QED BY <1>1, <1>2, <1>3, <1>4

(* A record is a region of the heap and the state before it. *)
LEMMA Recording ==
    ASSUME NEW f, HeapOK(f), NEW id \in Nat
    PROVE  LET a == RecordState(f, id)
               s == [id |-> id, head |-> f.head, tail |-> f.tail]
           IN
           IF a.ok THEN /\ a.at = f.head /\ f.head + StateSize <= f.tail
                        /\ a.heap = [head |-> f.head + StateSize, tail |-> f.tail,
                                     end |-> f.end, states |-> <<s>> \o f.states]
                        /\ HeapOK(a.heap)
                   ELSE a.heap = f
  <1> DEFINE b == AllocFromHead(f, StateSize, 1)
             a == RecordState(f, id)
             s == [id |-> id, head |-> f.head, tail |-> f.tail]
             q == <<s>> \o f.states
  <1>1. /\ f \in Heap /\ f.head \in Int /\ f.tail \in Int /\ f.states \in Seq(Record)
        /\ Len(f.states) \in Nat /\ StateSize \in Nat \ {0} /\ FrmStart \in Int
    BY HeapFacts
  <1>2. s \in Record /\ s.head = f.head /\ s.tail = f.tail
    BY <1>1 DEF Record
  <1>3. RoundUp(f.head, 1) = f.head
    BY <1>1 DEF RoundUp
  <1>4. b = IF f.head + StateSize > f.tail THEN [ok |-> FALSE, heap |-> f, at |-> 0]
            ELSE [ok |-> TRUE, heap |-> [f EXCEPT !.head = f.head + StateSize], at |-> f.head]
    BY <1>3 DEF AllocFromHead
  <1>5. a = IF ~b.ok THEN b ELSE [b EXCEPT !.heap.states = <<s>> \o @]
    BY DEF RecordState
  <1> HIDE DEF a, b, s
  <1>6. CASE f.head + StateSize > f.tail
    BY <1>4, <1>5, <1>6 DEF a
  <1>7. CASE ~(f.head + StateSize > f.tail)
    <2> DEFINE h == [head |-> f.head + StateSize, tail |-> f.tail, end |-> f.end,
                     states |-> q]
    <2>1. f.head + StateSize <= f.tail
      BY <1>1, <1>7
    <2>2. b = [ok |-> TRUE, heap |-> [f EXCEPT !.head = f.head + StateSize], at |-> f.head]
      BY <1>4, <1>7
    <2>3. a = [ok |-> TRUE, heap |-> h, at |-> f.head]
      BY <1>1, <1>5, <2>2 DEF Heap
    <2>4. /\ q \in Seq(Record) /\ Len(q) = 1 + Len(f.states)
          /\ \A i \in 1 .. 1 + Len(f.states) : q[i] = IF i = 1 THEN s ELSE f.states[i - 1]
      <3>1. <<s>> \in Seq(Record) /\ Len(<<s>>) = 1 /\ <<s>>[1] = s
        BY <1>2
      <3>2. /\ q \in Seq(Record) /\ Len(q) = 1 + Len(f.states)
            /\ \A i \in 1 .. 1 + Len(f.states) :
                  q[i] = IF i <= 1 THEN <<s>>[i] ELSE f.states[i - 1]
        BY <1>1, <3>1, ConcatProperties
      <3>3. QED BY <3>1, <3>2
    <2> HIDE DEF q
    <2>5. h \in Heap /\ h.head = f.head + StateSize /\ h.tail = f.tail /\ h.end = f.end
          /\ h.states = q
      BY <1>1, <2>4, HeapFacts DEF Heap
    <2> HIDE DEF h
    <2>6. FrmStart <= f.head /\ f.tail <= f.end
      BY DEF HeapOK
    <2>7. \A i \in 2 .. Len(q) : i - 1 \in 1 .. Len(f.states) /\ q[i] = f.states[i - 1]
      BY <1>1, <2>4
    <2>8. ASSUME NEW i \in 1 .. Len(q) PROVE Nested(h, q[i])
      <3>1. CASE i = 1
        <4>1. q[i] = s
          BY <2>4, <3>1
        <4>2. f.end \in Int
          BY HeapFacts
        <4>3. QED BY <1>1, <1>2, <2>5, <2>6, <4>1, <4>2 DEF Nested
      <3>2. CASE i # 1
        <4> DEFINE r == f.states[i - 1]
        <4>1. i \in 2 .. Len(q)
          BY <2>4, <3>2
        <4>2. q[i] = r /\ Nested(f, r) /\ r.head \in Int
          BY <2>7, <4>1, HeapFacts DEF HeapOK
        <4> HIDE DEF r
        <4>3. QED BY <1>1, <2>5, <4>2 DEF Nested
      <3>3. QED BY <3>1, <3>2
    <2>9. ASSUME NEW i \in 1 .. Len(q), NEW j \in 1 .. Len(q), i < j
          PROVE  q[j].head + StateSize <= q[i].head /\ q[i].tail <= q[j].tail
      <3>1. j \in 2 .. Len(q)
        BY <1>1, <2>4, <2>9
      <3>2. CASE i = 1
        <4>1. q[i] = s
          BY <2>4, <3>2
        <4>2. Nested(f, q[j])
          BY <2>7, <3>1 DEF HeapOK
        <4>3. QED BY <1>2, <4>1, <4>2 DEF Nested
      <3>3. CASE i # 1
        <4>1. i \in 2 .. Len(q) /\ i - 1 < j - 1
          BY <2>4, <2>9, <3>3
        <4>2. QED BY <2>7, <3>1, <4>1 DEF HeapOK
      <3>4. QED BY <3>2, <3>3
    <2>10. FrmStart <= h.head /\ h.head <= h.tail /\ h.tail <= h.end
      BY <1>1, <2>1, <2>5, <2>6
    <2>11. HeapOK(h)
      BY <2>5, <2>8, <2>9, <2>10 DEF HeapOK
    <2>12. QED BY <2>1, <2>3, <2>11 DEF a, h, q, s
  <1>8. QED BY <1>6, <1>7

(* FindState answers 0 or a place in the list, the record of its id.       *)
LEMMA Finding ==
    ASSUME NEW f, HeapOK(f), NEW id \in Nat
    PROVE  /\ FindState(f, id) \in 0 .. Len(f.states)
           /\ FindState(f, id) # 0 /\ id # 0 => f.states[FindState(f, id)].id = id
           /\ id # 0 /\ (\E i \in 1 .. Len(f.states) : f.states[i].id = id)
                 => FindState(f, id) # 0
  <1> DEFINE L == {i \in 1 .. Len(f.states) : f.states[i].id = id}
  <1>1. Len(f.states) \in Nat /\ (f.states # << >> => 1 \in 1 .. Len(f.states))
    BY LenProperties, EmptySeq DEF HeapOK, Heap
  <1>2. CASE id = 0
    BY <1>1, <1>2 DEF FindState
  <1>3. CASE id # 0
    <2>1. FindState(f, id) = IF L # {} THEN Min(L) ELSE 0
      BY <1>3 DEF FindState, SelectInSeq
    <2>2. ASSUME L # {} PROVE Min(L) \in L
      <3>1. \E i \in L : \A j \in L : i <= j
        BY <1>1, <2>2, FirstPlace
      <3>2. QED BY <3>1 DEF Min
    <2>3. QED BY <1>1, <2>1, <2>2
  <1>4. QED BY <1>2, <1>3

(* Going back to a state leaves a heap, with the states recorded before.   *)
LEMMA GoingBack ==
    ASSUME NEW f, HeapOK(f), NEW i \in 1 .. Len(f.states)
    PROVE  LET h == [f EXCEPT !.head = f.states[i].head,
                              !.tail = f.states[i].tail,
                              !.states = SubSeq(f.states, i + 1, Len(f.states))]
           IN  /\ HeapOK(h)
               /\ Len(h.states) = Len(f.states) - i
               /\ \A j \in 1 .. Len(h.states) : h.states[j] = f.states[i + j]
  <1> DEFINE q == SubSeq(f.states, i + 1, Len(f.states))
             h == [f EXCEPT !.head = f.states[i].head, !.tail = f.states[i].tail,
                            !.states = q]
  <1>1. /\ f \in Heap /\ f.states \in Seq(Record) /\ Len(f.states) \in Nat
        /\ f.states[i] \in Record
    BY LenProperties, ElementOfSeq DEF HeapOK, Heap
  <1>2. /\ q \in Seq(Record) /\ Len(q) = Len(f.states) - i
        /\ \A j \in 1 .. Len(q) : q[j] = f.states[i + j]
    <2>1. i + 1 \in 1 .. Len(f.states) + 1 /\ Len(f.states) \in 0 .. Len(f.states)
      BY <1>1
    <2>2. /\ q \in Seq(Record)
          /\ Len(q) = IF i + 1 <= Len(f.states) THEN Len(f.states) - (i + 1) + 1 ELSE 0
          /\ \A j \in 1 .. Len(q) : q[j] = f.states[(i + 1) + j - 1]
      BY <1>1, <2>1, SubSeqElements
    <2>3. Len(q) = Len(f.states) - i
      BY <1>1, <2>2
    <2>4. \A j \in 1 .. Len(q) : (i + 1) + j - 1 = i + j
      BY <1>1, <2>3
    <2>5. QED BY <2>2, <2>3, <2>4
  <1> HIDE DEF q
  <1>3. h \in Heap /\ h.head = f.states[i].head /\ h.tail = f.states[i].tail
        /\ h.end = f.end /\ h.states = q
    BY <1>1, <1>2 DEF Heap, Record
  <1> HIDE DEF h
  <1>4. Nested(f, f.states[i])
    BY DEF HeapOK
  <1>5. \A j \in 1 .. Len(q) : i + j \in 1 .. Len(f.states) /\ i < i + j
    BY <1>1, <1>2
  <1>6. \A j \in 1 .. Len(q) : Nested(h, q[j])
    BY <1>2, <1>3, <1>5 DEF HeapOK, Nested
  <1>7. ASSUME NEW j \in 1 .. Len(q), NEW k \in 1 .. Len(q), j < k
        PROVE  q[k].head + StateSize <= q[j].head /\ q[j].tail <= q[k].tail
    <2>1. i + j < i + k
      BY <1>2, <1>7
    <2>2. QED BY <1>2, <1>5, <2>1 DEF HeapOK
  <1>8. FrmStart <= h.head /\ h.head <= h.tail /\ h.tail <= h.end
    <2>1. FrmStart <= f.head /\ f.head <= f.tail /\ f.tail <= f.end
      BY DEF HeapOK
    <2>2. /\ FrmStart \in Int /\ StateSize \in Nat /\ f.states[i].head \in Int
          /\ f.states[i].tail \in Int /\ f.head \in Int /\ f.tail \in Int
      BY HeapFacts
    <2>3. QED BY <1>3, <1>4, <2>1, <2>2 DEF Nested
  <1>9. HeapOK(h)
    BY <1>3, <1>6, <1>7, <1>8 DEF HeapOK
  <1>10. QED BY <1>2, <1>3, <1>9 DEF h, q
-----------------------------------------------------------------------------
(* What becomes of the regions handed out.                                 *)
LEMMA RegionFacts ==
    ASSUME NEW r \in Region
    PROVE  r.at \in Int /\ r.size \in Nat \ {0} /\ r.side \in {"head", "tail"}
  BY DEF Region

LEMMA KeepsAll ==
    ASSUME NEW f, NEW S, RegionsOK(f, S)
    PROVE  Kept(f, S) = S
  <1> SUFFICES ASSUME NEW r \in S
               PROVE  IF r.side = "head" THEN r.at + r.size <= f.head ELSE r.at >= f.tail
    BY DEF Kept
  <1>1. Within(f, r)
    BY DEF RegionsOK
  <1>2. QED BY <1>1 DEF Within

(* Of a heap that has become g, with the same end. *)
LEMMA KeptRegions ==
    ASSUME NEW f, NEW g, NEW S, HeapOK(g), RegionsOK(f, S), g.end = f.end
    PROVE  RegionsOK(g, Kept(g, S))
  <1>1. Kept(g, S) \subseteq S
    BY DEF Kept
  <1>2. ASSUME NEW r \in Kept(g, S) PROVE Within(g, r)
    <2>1. r \in S /\ Within(f, r)
      BY <1>1 DEF RegionsOK
    <2>2. IF r.side = "head" THEN r.at + r.size <= g.head ELSE r.at >= g.tail
      BY <1>2 DEF Kept
    <2>3. r.at \in Int /\ g.tail \in Int
      BY <2>1, RegionFacts, HeapFacts DEF RegionsOK
    <2>4. QED BY <2>1, <2>2, <2>3 DEF Within
  <1>3. QED BY <1>1, <1>2 DEF RegionsOK

(* A region from the room between the two ends is over no other.           *)
LEMMA NewRegion ==
    ASSUME NEW f, NEW g, NEW S, HeapOK(f), HeapOK(g), RegionsOK(f, S),
           NEW r \in Region, f.head <= r.at, r.at + r.size <= f.tail, Within(g, r),
           f.head <= g.head, g.tail <= f.tail, g.end = f.end
    PROVE  /\ RegionsOK(g, S \cup {r})
           /\ Kept(g, S \cup {r}) = S \cup {r}
           /\ \A s \in S : r.at + r.size <= s.at \/ s.at + s.size <= r.at
  <1>1. /\ f.head \in Int /\ f.tail \in Int /\ g.head \in Int /\ g.tail \in Int
        /\ r.at \in Int /\ r.size \in Nat \ {0}
    BY HeapFacts, RegionFacts
  <1>2. ASSUME NEW s \in S
        PROVE  /\ Within(g, s)
               /\ r.at + r.size <= s.at \/ s.at + s.size <= r.at
    <2>1. Within(f, s) /\ s.at \in Int /\ s.size \in Nat \ {0}
      BY RegionFacts DEF RegionsOK
    <2>2. QED BY <1>1, <2>1 DEF Within
  <1>3. RegionsOK(g, S \cup {r})
    <2>1. S \cup {r} \subseteq Region /\ \A s \in S \cup {r} : Within(g, s)
      BY <1>2 DEF RegionsOK
    <2>2. ASSUME NEW s \in S \cup {r}, NEW t \in S \cup {r}, s # t
          PROVE  s.at + s.size <= t.at \/ t.at + t.size <= s.at
      BY <1>2, <2>2 DEF RegionsOK
    <2>3. QED BY <2>1, <2>2 DEF RegionsOK
  <1>4. QED BY <1>2, <1>3, KeepsAll

(* It is not one that a state recorded before goes back to. *)
LEMMA NotKept ==
    ASSUME NEW s, NEW r \in Region, s.head \in Int, s.tail \in Int,
           s.head <= r.at, r.at + r.size <= s.tail
    PROVE  \A S : Kept(s, S \cup {r}) = Kept(s, S)
  <1>1. r.at \in Int /\ r.size \in Nat \ {0}
    BY RegionFacts
  <1>2. ~(r.at + r.size <= s.head) /\ ~(r.at >= s.tail)
    BY <1>1
  <1>3. QED BY <1>2 DEF Kept

(* Going back from a state to one recorded before it is going back to it.  *)
LEMMA KeptTwice ==
    ASSUME NEW S, S \subseteq Region, NEW s, NEW t,
           s.head \in Int, s.tail \in Int, t.head \in Int, t.tail \in Int,
           t.head <= s.head, s.tail <= t.tail
    PROVE  Kept(t, Kept(s, S)) = Kept(t, S)
  <1>1. ASSUME NEW r \in S, IF r.side = "head" THEN r.at + r.size <= t.head
                                                ELSE r.at >= t.tail
        PROVE  IF r.side = "head" THEN r.at + r.size <= s.head ELSE r.at >= s.tail
    <2>1. r.at \in Int /\ r.size \in Int
      BY RegionFacts
    <2>2. QED BY <1>1, <2>1
  <1>2. QED BY <1>1 DEF Kept

-----------------------------------------------------------------------------
(* The steps of the heap, and what they are of the abstract one.           *)
Abstract == INSTANCE MarkRelease WITH held <- regions, marks <- Marks

MarksOf(f, S) ==
    [i \in DOMAIN f.states |-> [id |-> f.states[i].id, held |-> Kept(f.states[i], S)]]

(* A region is handed out: r, of the heap f that becomes g with it.        *)
LEMMA Handing ==
    ASSUME NEW f, NEW g, NEW S, HeapOK(f), HeapOK(g), RegionsOK(f, S),
           NEW r \in Region, f.head <= r.at, r.at + r.size <= f.tail, Within(g, r),
           f.head <= g.head, g.tail <= f.tail, g.end = f.end, g.states = f.states
    PROVE  MarksOf(g, S \cup {r}) = MarksOf(f, S)
  <1>1. ASSUME NEW i \in DOMAIN f.states
        PROVE  Kept(f.states[i], S \cup {r}) = Kept(f.states[i], S)
    <2> DEFINE s == f.states[i]
    <2>1. /\ s.head \in Int /\ s.tail \in Int /\ f.head \in Int /\ f.tail \in Int
          /\ StateSize \in Nat \ {0} /\ Nested(f, s)
      BY HeapFacts DEF HeapOK
    <2> HIDE DEF s
    <2>2. s.head <= r.at /\ r.at + r.size <= s.tail
      BY <2>1, RegionFacts DEF Nested
    <2>3. Kept(s, S \cup {r}) = Kept(s, S)
      BY <2>1, <2>2, NotKept
    <2>4. QED BY <2>3 DEF s
  <1>2. QED BY <1>1 DEF MarksOf

LEMMA Parameters ==
    /\ \A size \in FrmSize : size \in Nat \ {0}
    /\ \A align \in FrmAlign : align \in Nat \ {0}
    /\ \A id \in StateId : id \in Nat \ {0}
  BY FrmAssumption

LEMMA AllocStep ==
    ASSUME FrmInv, NEW size \in FrmSize, NEW align \in FrmAlign,
           MEMAllocFromFrmHeap(size, align)
    PROVE  FrmInv' /\ Abstract!Get
  <1>1. size \in Nat \ {0} /\ align \in Nat \ {0}
    BY Parameters
  <1>2. HeapOK(frm) /\ RegionsOK(frm, regions) /\ frm \in Heap
        /\ frm.head \in Int /\ frm.tail \in Int /\ FrmStart <= frm.head
        /\ frm.tail <= frm.end /\ FrmStart \in Int /\ frm.end \in Int
    BY HeapFacts DEF FrmInv, HeapOK
  (* The one the client got, and the heap that handed it. *)
  <1>3. PICK r, g : /\ r \in Region /\ Become(g, regions \cup {r})
                    /\ HeapOK(g) /\ Within(g, r)
                    /\ frm.head <= r.at /\ r.at + r.size <= frm.tail
                    /\ frm.head <= g.head /\ g.tail <= frm.tail
                    /\ g.end = frm.end /\ g.states = frm.states
    <2>1. CASE Handed(AllocFromHead(frm, size, align), size, "head")
      <3> DEFINE a == AllocFromHead(frm, size, align)
                 g == a.heap
                 r == [at |-> a.at, size |-> size, side |-> "head"]
      <3>1. a.ok /\ Become(g, regions \cup {r})
        BY <2>1 DEF Handed
      <3>2. /\ a.at \in Int /\ frm.head <= a.at /\ a.at + size <= frm.tail
            /\ g = [frm EXCEPT !.head = a.at + size] /\ HeapOK(g)
        BY <1>1, <1>2, <3>1, HeadAllocation
      <3> HIDE DEF a
      <3>3. /\ r \in Region /\ r.at = a.at /\ r.size = size /\ r.side = "head"
        BY <1>1, <3>2 DEF Region
      <3>4. /\ g.head = a.at + size /\ g.tail = frm.tail /\ g.end = frm.end
            /\ g.states = frm.states
        BY <1>2, <3>2 DEF Heap
      <3> HIDE DEF g, r
      <3>5. Within(g, r) /\ frm.head <= g.head /\ g.tail <= frm.tail
        BY <1>1, <1>2, <3>2, <3>3, <3>4 DEF Within
      <3>6. QED BY <3>1, <3>2, <3>3, <3>4, <3>5
    <2>2. CASE Handed(AllocFromTail(frm, size, align), size, "tail")
      <3> DEFINE a == AllocFromTail(frm, size, align)
                 g == a.heap
                 r == [at |-> a.at, size |-> size, side |-> "tail"]
      <3>1. a.ok /\ Become(g, regions \cup {r})
        BY <2>2 DEF Handed
      <3>2. /\ a.at \in Int /\ frm.head <= a.at /\ a.at + size <= frm.tail
            /\ g = [frm EXCEPT !.tail = a.at] /\ HeapOK(g)
        BY <1>1, <1>2, <3>1, TailAllocation
      <3> HIDE DEF a
      <3>3. /\ r \in Region /\ r.at = a.at /\ r.size = size /\ r.side = "tail"
        BY <1>1, <3>2 DEF Region
      <3>4. /\ g.tail = a.at /\ g.head = frm.head /\ g.end = frm.end
            /\ g.states = frm.states
        BY <1>2, <3>2 DEF Heap
      <3> HIDE DEF g, r
      <3>5. Within(g, r) /\ frm.head <= g.head /\ g.tail <= frm.tail
        BY <1>1, <1>2, <3>2, <3>3, <3>4 DEF Within
      <3>6. QED BY <3>1, <3>2, <3>3, <3>4, <3>5
    <2>3. QED BY <2>1, <2>2 DEF MEMAllocFromFrmHeap
  <1>4. /\ RegionsOK(g, regions \cup {r}) /\ Kept(g, regions \cup {r}) = regions \cup {r}
        /\ \A s \in regions : r.at + r.size <= s.at \/ s.at + s.size <= r.at
    BY <1>2, <1>3, NewRegion
  <1>5. MarksOf(g, regions \cup {r}) = MarksOf(frm, regions)
    BY <1>2, <1>3, Handing
  <1>6. frm' = g /\ regions' = regions \cup {r}
    BY <1>3, <1>4 DEF Become
  <1>7. FrmInv'
    BY <1>3, <1>4, <1>6 DEF FrmInv
  <1>8. Marks' = Marks
    BY <1>5, <1>6 DEF Marks, MarksOf
  <1>9. QED BY <1>4, <1>6, <1>7, <1>8 DEF Abstract!Get, Abstract!Grow, Abstract!Fits,
                                           Abstract!Disjoint

LEMMA RecordStep ==
    ASSUME FrmInv, NEW id \in StateId, MEMRecordStateForFrmHeap(id)
    PROVE  FrmInv' /\ Abstract!Mark
  <1> DEFINE a == RecordState(frm, id)
             g == a.heap
             r == [at |-> a.at, size |-> StateSize, side |-> "head"]
             s == [id |-> id, head |-> frm.head, tail |-> frm.tail]
             q == <<s>> \o frm.states
  <1>1. /\ HeapOK(frm) /\ RegionsOK(frm, regions) /\ frm \in Heap
        /\ frm.head \in Int /\ frm.tail \in Int /\ FrmStart <= frm.head
        /\ frm.tail <= frm.end /\ FrmStart \in Int /\ frm.end \in Int
        /\ StateSize \in Nat \ {0} /\ id \in Nat
        /\ frm.states \in Seq(Record) /\ Len(frm.states) \in Nat
        /\ DOMAIN frm.states = 1 .. Len(frm.states)
    BY HeapFacts, Parameters DEF FrmInv, HeapOK
  <1>2. a.ok /\ Become(g, regions \cup {r})
    BY DEF MEMRecordStateForFrmHeap, Handed
  <1>3. /\ a.at = frm.head /\ frm.head + StateSize <= frm.tail /\ HeapOK(g)
        /\ g = [head |-> frm.head + StateSize, tail |-> frm.tail,
                end |-> frm.end, states |-> q]
    BY <1>1, <1>2, Recording
  <1> HIDE DEF a
  <1>4. r \in Region /\ r.at = frm.head /\ r.size = StateSize /\ r.side = "head"
    BY <1>1, <1>3 DEF Region
  <1>5. /\ g.head = frm.head + StateSize /\ g.tail = frm.tail /\ g.end = frm.end
        /\ g.states = q
    BY <1>3
  <1> HIDE DEF g, r
  <1>6. Within(g, r) /\ frm.head <= g.head /\ g.tail <= frm.tail
        /\ r.at + r.size <= frm.tail
    BY <1>1, <1>3, <1>4, <1>5 DEF Within
  <1>7. /\ RegionsOK(g, regions \cup {r}) /\ Kept(g, regions \cup {r}) = regions \cup {r}
        /\ \A t \in regions : r.at + r.size <= t.at \/ t.at + t.size <= r.at
    <2>1. /\ HeapOK(frm) /\ HeapOK(g) /\ RegionsOK(frm, regions) /\ r \in Region
          /\ frm.head <= r.at /\ r.at + r.size <= frm.tail /\ Within(g, r)
          /\ frm.head <= g.head /\ g.tail <= frm.tail /\ g.end = frm.end
      BY <1>1, <1>3, <1>4, <1>5, <1>6
    <2>2. QED BY <2>1, NewRegion
  <1>8. frm' = g /\ regions' = regions \cup {r}
    BY <1>2, <1>7 DEF Become
  <1>9. /\ q \in Seq(Record) /\ Len(q) = 1 + Len(frm.states)
        /\ q[1] = s /\ \A i \in 2 .. Len(q) : q[i] = frm.states[i - 1]
    <2>1. s \in Record
      BY <1>1 DEF Record
    <2> HIDE DEF s
    <2>2. <<s>> \in Seq(Record) /\ Len(<<s>>) = 1 /\ <<s>>[1] = s
      BY <2>1
    <2>3. /\ q \in Seq(Record) /\ Len(q) = 1 + Len(frm.states)
          /\ \A i \in 1 .. 1 + Len(frm.states) :
                q[i] = IF i <= 1 THEN <<s>>[i] ELSE frm.states[i - 1]
      BY <1>1, <2>2, ConcatProperties
    <2> HIDE DEF q
    <2>4. QED BY <1>1, <2>2, <2>3
  <1>10. Kept(s, regions \cup {r}) = regions
    <2>1. Kept(s, regions) = Kept(frm, regions)
      BY DEF Kept
    <2>2. s.head = r.at /\ s.tail = frm.tail
      BY <1>4
    <2>3. Kept(s, regions \cup {r}) = Kept(s, regions)
      BY <1>1, <1>4, <1>6, <2>2, NotKept
    <2>4. QED BY <1>1, <2>1, <2>3, KeepsAll
  <1>11. \A i \in 1 .. Len(frm.states) :
            Kept(frm.states[i], regions \cup {r}) = Kept(frm.states[i], regions)
    <2> SUFFICES ASSUME NEW i \in 1 .. Len(frm.states)
                 PROVE  Kept(frm.states[i], regions \cup {r}) = Kept(frm.states[i], regions)
      OBVIOUS
    <2> DEFINE t == frm.states[i]
    <2>1. t.head \in Int /\ t.tail \in Int /\ Nested(frm, t)
      BY <1>1, HeapFacts DEF HeapOK
    <2> HIDE DEF t
    <2>2. t.head <= r.at /\ r.at + r.size <= t.tail
      BY <1>1, <1>4, <1>6, <2>1 DEF Nested
    <2>3. Kept(t, regions \cup {r}) = Kept(t, regions)
      BY <1>4, <2>1, <2>2, NotKept
    <2>4. QED BY <2>3 DEF t
  <1>12. Marks' = <<[id |-> id, held |-> regions]>> \o Marks
    <2> DEFINE m == [id |-> id, held |-> regions]
               e(t, S) == [id |-> t.id, held |-> Kept(t, S)]
    <2>1. /\ DOMAIN q = 1 .. 1 + Len(frm.states)
          /\ Marks' = [i \in DOMAIN q |-> e(q[i], regions \cup {r})]
      BY <1>1, <1>5, <1>8, <1>9, LenProperties DEF Marks
    <2>2. e(q[1], regions \cup {r}) = m
      BY <1>9, <1>10
    <2>3. \A i \in 2 .. Len(q) :
             e(q[i], regions \cup {r}) = e(frm.states[i - 1], regions)
      <3> SUFFICES ASSUME NEW i \in 2 .. Len(q)
                   PROVE  e(q[i], regions \cup {r}) = e(frm.states[i - 1], regions)
        OBVIOUS
      <3>1. i - 1 \in 1 .. Len(frm.states) /\ q[i] = frm.states[i - 1]
        BY <1>1, <1>9
      <3>2. Kept(q[i], regions \cup {r}) = Kept(frm.states[i - 1], regions)
        BY <1>11, <3>1
      <3>3. QED BY <3>1, <3>2
    <2> HIDE DEF q, m
    <2> DEFINE M == {e(frm.states[i], regions) : i \in 1 .. Len(frm.states)} \cup {m}
    <2>4. Marks = [i \in 1 .. Len(frm.states) |-> e(frm.states[i], regions)]
      BY <1>1 DEF Marks
    <2>5. Marks \in Seq(M) /\ Len(Marks) = Len(frm.states) /\ <<m>> \in Seq(M)
          /\ Len(<<m>>) = 1 /\ <<m>>[1] = m
      BY <1>1, <2>4, IsASeq, LenProperties
    <2> HIDE DEF e, M
    <2>6. /\ <<m>> \o Marks \in Seq(M) /\ Len(<<m>> \o Marks) = 1 + Len(frm.states)
          /\ \A i \in 1 .. 1 + Len(frm.states) :
                (<<m>> \o Marks)[i] = IF i <= 1 THEN <<m>>[i] ELSE Marks[i - 1]
      BY <2>5, ConcatProperties
    <2>7. ASSUME NEW i \in 1 .. 1 + Len(frm.states)
          PROVE  e(q[i], regions \cup {r}) = (<<m>> \o Marks)[i]
      <3>1. CASE i = 1
        BY <2>2, <2>5, <2>6, <3>1
      <3>2. CASE i # 1
        <4>1. i \in 2 .. Len(q) /\ ~(i <= 1) /\ i - 1 \in 1 .. Len(frm.states)
          BY <1>1, <1>9, <3>2
        <4>2. QED BY <2>3, <2>4, <2>6, <4>1
      <3>3. QED BY <3>1, <3>2
    <2>8. DOMAIN (<<m>> \o Marks) = 1 .. 1 + Len(frm.states)
          /\ <<m>> \o Marks \in Seq(M)
      BY <2>6, LenProperties
    <2>9. <<m>> \o Marks = [i \in 1 .. 1 + Len(frm.states) |-> (<<m>> \o Marks)[i]]
      BY <2>8
    <2>10. QED BY <2>1, <2>7, <2>9 DEF m
  <1>13. Marks' # << >> /\ Head(Marks').id = id
    <2> DEFINE m == [id |-> id, held |-> regions]
    <2>1. DOMAIN Marks' = 1 .. 1 + Len(frm.states) /\ Marks'[1].id = id
      <3>1. DOMAIN Marks' = DOMAIN q /\ Marks'[1].id = q[1].id
        BY <1>1, <1>5, <1>8, <1>9, LenProperties DEF Marks
      <3>2. QED BY <1>9, <3>1, LenProperties
    <2>2. QED BY <1>1, <2>1, <1>12
  <1>14. FrmInv'
    BY <1>3, <1>7, <1>8 DEF FrmInv
  <1>15. QED BY <1>7, <1>8, <1>12, <1>13, <1>14, <1>4 DEF Abstract!Mark, Abstract!Grow,
                Abstract!Fits, Abstract!Disjoint

LEMMA FreeByStateStep ==
    ASSUME FrmInv, NEW id \in StateId \cup {0}, MEMFreeByStateToFrmHeap(id)
    PROVE  FrmInv' /\ Abstract!Release
  <1> DEFINE i == FindState(frm, id)
             s == frm.states[i]
             q == SubSeq(frm.states, i + 1, Len(frm.states))
             g == [frm EXCEPT !.head = s.head, !.tail = s.tail, !.states = q]
             T == Kept(s, regions)
  <1>1. /\ HeapOK(frm) /\ RegionsOK(frm, regions) /\ frm \in Heap
        /\ Len(frm.states) \in Nat /\ DOMAIN frm.states = 1 .. Len(frm.states)
        /\ frm.states \in Seq(Record) /\ StateSize \in Nat \ {0}
    BY HeapFacts DEF FrmInv
  <1>2. i \in 1 .. Len(frm.states)
    <2>1. id \in Nat
      BY Parameters
    <2>2. i \in 0 .. Len(frm.states)
      BY <1>1, <2>1, Finding
    <2>3. i # 0
      BY DEF MEMFreeByStateToFrmHeap
    <2>4. QED BY <1>1, <2>2, <2>3
  <1>3. Become(g, regions)
    BY <1>1, <1>2 DEF MEMFreeByStateToFrmHeap, FreeByState
  <1> HIDE DEF i
  <1>4. /\ HeapOK(g) /\ Len(g.states) = Len(frm.states) - i
        /\ \A j \in 1 .. Len(g.states) : g.states[j] = frm.states[i + j]
    BY <1>1, <1>2, GoingBack
  <1>5. g.head = s.head /\ g.tail = s.tail /\ g.end = frm.end /\ g.states = q
    BY <1>1 DEF Heap
  <1>6. s.head \in Int /\ s.tail \in Int
    BY <1>1, <1>2, HeapFacts
  <1> HIDE DEF s, g
  <1>7. frm' = g /\ regions' = T
    BY <1>3, <1>5 DEF Become, Kept
  <1>8. FrmInv'
    <2>1. RegionsOK(g, Kept(g, regions))
      BY <1>1, <1>4, <1>5, KeptRegions
    <2>2. Kept(g, regions) = T
      BY <1>5 DEF Kept
    <2>3. QED BY <1>4, <1>7, <2>1, <2>2 DEF FrmInv
  <1> HIDE DEF q, T
  <1>9. ASSUME NEW j \in 1 .. Len(q)
        PROVE  /\ i + j \in 1 .. Len(frm.states) /\ q[j] = frm.states[i + j]
               /\ Kept(q[j], T) = Kept(q[j], regions)
    <2> DEFINE t == frm.states[i + j]
    <2>1. i + j \in 1 .. Len(frm.states) /\ i < i + j /\ q[j] = t
      BY <1>1, <1>2, <1>4, <1>5
    <2>2. /\ t.head + StateSize <= frm.states[i].head /\ frm.states[i].tail <= t.tail
          /\ t.head \in Int /\ t.tail \in Int
      BY <1>1, <1>2, <2>1, HeapFacts DEF HeapOK
    <2> HIDE DEF t
    <2>3. t.head <= s.head /\ s.tail <= t.tail
      BY <1>1, <1>6, <2>2 DEF s
    <2>4. regions \subseteq Region
      BY <1>1 DEF RegionsOK
    <2>5. Kept(t, T) = Kept(t, regions)
      BY <1>6, <2>2, <2>3, <2>4, KeptTwice DEF T
    <2>6. QED BY <2>1, <2>5 DEF t
  <1>10. i \in DOMAIN Marks /\ T = Marks[i].held
    BY <1>1, <1>2 DEF Marks, T, s
  <1>11. Marks' = SubSeq(Marks, i + 1, Len(Marks))
    <2> DEFINE e(t, S) == [id |-> t.id, held |-> Kept(t, S)]
               M == {e(frm.states[k], regions) : k \in 1 .. Len(frm.states)}
               m == SubSeq(Marks, i + 1, Len(Marks))
    <2>1. Marks = [k \in 1 .. Len(frm.states) |-> e(frm.states[k], regions)]
      BY <1>1 DEF Marks
    <2>2. Marks \in Seq(M) /\ Len(Marks) = Len(frm.states)
      <3>1. Marks \in [1 .. Len(frm.states) -> M]
        BY <2>1
      <3>2. QED BY <1>1, <3>1, FunctionIsSeq
    <2>3. q \in Seq(Record) /\ Len(q) = Len(frm.states) - i
      <3>1. i + 1 \in 1 .. Len(frm.states) + 1 /\ Len(frm.states) \in 0 .. Len(frm.states)
        BY <1>1, <1>2
      <3>2. q \in Seq(Record)
        BY <1>1, <3>1, SubSeqElements DEF q
      <3>3. QED BY <1>4, <1>5, <3>2
    <2>4. Marks' = [k \in DOMAIN q |-> e(q[k], T)] /\ DOMAIN q = 1 .. Len(frm.states) - i
      BY <1>5, <1>7, <2>3, LenProperties DEF Marks
    <2>5. \A j \in 1 .. Len(frm.states) - i :
             e(q[j], T) = e(frm.states[i + j], regions)
      BY <1>9, <2>3
    <2> HIDE DEF e, M
    <2>6. /\ m \in Seq(M) /\ Len(m) = Len(frm.states) - i
          /\ \A j \in 1 .. Len(m) : m[j] = Marks[i + j]
      <3>1. /\ i + 1 \in 1 .. Len(Marks) + 1 /\ Len(Marks) \in 0 .. Len(Marks)
            /\ Len(Marks) \in Nat
        BY <1>1, <1>2, <2>2
      <3>2. /\ m \in Seq(M)
            /\ Len(m) = IF i + 1 <= Len(Marks) THEN Len(Marks) - (i + 1) + 1 ELSE 0
            /\ \A j \in 1 .. Len(m) : m[j] = Marks[(i + 1) + j - 1]
        BY <2>2, <3>1, SubSeqElements
      <3>3. Len(m) = Len(frm.states) - i
        BY <1>1, <1>2, <2>2, <3>2
      <3>4. \A j \in 1 .. Len(m) : (i + 1) + j - 1 = i + j
        BY <1>1, <1>2, <3>3
      <3>5. QED BY <3>2, <3>3, <3>4
    <2>7. ASSUME NEW j \in 1 .. Len(frm.states) - i
          PROVE  e(q[j], T) = m[j]
      <3>1. i + j \in 1 .. Len(frm.states)
        BY <1>1, <1>2
      <3>2. QED BY <2>1, <2>5, <2>6, <3>1
    <2> HIDE DEF m
    <2>8. m = [j \in 1 .. Len(frm.states) - i |-> m[j]]
      BY <2>6, LenProperties
    <2>9. QED BY <2>4, <2>7, <2>8 DEF m
  <1>12. QED BY <1>7, <1>8, <1>10, <1>11 DEF Abstract!Release

(* Giving back a side, or both. *)
LEMMA FreeingHead ==
    ASSUME NEW f, NEW S, HeapOK(f), RegionsOK(f, S)
    PROVE  /\ HeapOK(FreeHead(f)) /\ FreeHead(f).end = f.end /\ FreeHead(f).states = << >>
           /\ Kept(FreeHead(f), S) = {r \in S : r.side = "tail"}
  <1> DEFINE g == FreeHead(f)
  <1>1. /\ f \in Heap /\ FrmStart \in Int /\ f.tail \in Int
    BY HeapFacts
  <1>2. /\ g \in Heap /\ g.head = FrmStart /\ g.tail = f.tail /\ g.end = f.end
        /\ g.states = << >>
    <2>1. << >> \in Seq(Record)
      OBVIOUS
    <2>2. QED BY <1>1, <2>1 DEF FreeHead, Heap
  <1> HIDE DEF g
  <1>3. FrmStart <= g.head /\ g.head <= g.tail /\ g.tail <= g.end
    BY <1>1, <1>2 DEF HeapOK, Heap
  <1>4. HeapOK(g)
    <2>1. Len(g.states) = 0
      BY <1>2
    <2>2. QED BY <1>2, <1>3, <2>1 DEF HeapOK
  <1>5. ASSUME NEW r \in S
        PROVE  (IF r.side = "head" THEN r.at + r.size <= g.head ELSE r.at >= g.tail)
                  <=> r.side = "tail"
    <2>1. Within(f, r) /\ r \in Region
      BY DEF RegionsOK
    <2>2. QED BY <1>1, <1>2, <2>1, RegionFacts DEF Within
  <1>6. QED BY <1>2, <1>4, <1>5 DEF g, Kept

LEMMA FreeingTail ==
    ASSUME NEW f, NEW S, HeapOK(f), RegionsOK(f, S)
    PROVE  LET g == FreeTail(f) IN
           /\ HeapOK(g) /\ g.end = f.end
           /\ Kept(g, S) = {r \in S : r.side = "head"}
           /\ DOMAIN g.states = DOMAIN f.states
           /\ \A i \in DOMAIN f.states :
                 /\ g.states[i].id = f.states[i].id
                 /\ Kept(g.states[i], Kept(g, S))
                       = {r \in Kept(f.states[i], S) : r.side = "head"}
  <1> DEFINE g == FreeTail(f)
             e(s) == [s EXCEPT !.tail = f.end]
             q == [i \in DOMAIN f.states |-> e(f.states[i])]
  <1>1. /\ f \in Heap /\ FrmStart \in Int /\ f.tail \in Int /\ f.end \in Int
        /\ f.head \in Int
        /\ DOMAIN f.states = 1 .. Len(f.states) /\ Len(f.states) \in Nat
        /\ StateSize \in Nat \ {0}
    BY HeapFacts
  <1>2. ASSUME NEW i \in 1 .. Len(f.states)
        PROVE  /\ q[i] \in Record /\ q[i].id = f.states[i].id
               /\ q[i].head = f.states[i].head /\ q[i].tail = f.end
    <2>1. f.states[i] \in Record
      BY HeapFacts
    <2>2. \A s \in Record : /\ e(s) \in Record /\ e(s).id = s.id /\ e(s).head = s.head
                            /\ e(s).tail = f.end
      BY <1>1 DEF Record
    <2>3. q[i] = e(f.states[i])
      BY <1>1
    <2> HIDE DEF e, q
    <2>4. QED BY <2>1, <2>2, <2>3
  <1> HIDE DEF e
  <1>3. q \in Seq(Record) /\ Len(q) = Len(f.states) /\ DOMAIN q = 1 .. Len(f.states)
    <2>1. DOMAIN q = 1 .. Len(f.states)
      BY <1>1
    <2>2. q = [i \in 1 .. Len(f.states) |-> q[i]]
      BY <1>1
    <2> HIDE DEF q
    <2>3. q \in Seq(Record)
      <3>1. q \in [1 .. Len(f.states) -> Record]
        BY <1>2, <2>2
      <3>2. QED BY <1>1, <3>1, FunctionIsSeq
    <2>4. QED BY <1>1, <2>1, <2>3, LenProperties
  <1>4. /\ g = [f EXCEPT !.tail = f.end, !.states = q]
    BY DEF FreeTail, e
  <1> HIDE DEF q
  <1>5. /\ g \in Heap /\ g.head = f.head /\ g.tail = f.end /\ g.end = f.end
        /\ g.states = q
    BY <1>1, <1>3, <1>4 DEF Heap
  <1> HIDE DEF g
  <1>6. FrmStart <= g.head /\ g.head <= g.tail /\ g.tail <= g.end
    <2>1. FrmStart <= f.head /\ f.head <= f.tail /\ f.tail <= f.end
      BY DEF HeapOK
    <2>2. QED BY <1>1, <1>5, <2>1
  <1>7. HeapOK(g)
    <2>1. ASSUME NEW i \in 1 .. Len(q) PROVE Nested(g, q[i])
      <3>1. Nested(f, f.states[i]) /\ i \in 1 .. Len(f.states)
        BY <1>3, <2>1 DEF HeapOK
      <3>2. QED BY <1>1, <1>2, <1>5, <3>1 DEF Nested
    <2>2. ASSUME NEW i \in 1 .. Len(q), NEW j \in 1 .. Len(q), i < j
          PROVE  q[j].head + StateSize <= q[i].head /\ q[i].tail <= q[j].tail
      <3>1. i \in 1 .. Len(f.states) /\ j \in 1 .. Len(f.states)
        BY <1>3
      <3>2. f.states[j].head + StateSize <= f.states[i].head
        BY <2>2, <3>1 DEF HeapOK
      <3>3. QED BY <1>1, <1>2, <3>1, <3>2
    <2>3. QED BY <1>5, <1>6, <2>1, <2>2 DEF HeapOK
  <1>8. ASSUME NEW r \in S PROVE ~(r.at >= f.end) \/ r.side = "head"
    <2>1. Within(f, r) /\ r \in Region
      BY DEF RegionsOK
    <2>2. QED BY <1>1, <2>1, RegionFacts DEF Within
  <1>9. ASSUME NEW r \in S
        PROVE  /\ r.side = "head" => r.at + r.size <= f.head
               /\ r.side \in {"head", "tail"}
    BY RegionFacts DEF RegionsOK, Within
  <1>10. Kept(g, S) = {r \in S : r.side = "head"}
    BY <1>5, <1>8, <1>9 DEF Kept
  <1>11. ASSUME NEW i \in DOMAIN f.states
         PROVE  /\ g.states[i].id = f.states[i].id
                /\ Kept(g.states[i], Kept(g, S)) = {r \in Kept(f.states[i], S) : r.side = "head"}
    <2>1. /\ g.states[i].id = f.states[i].id
          /\ g.states[i].head = f.states[i].head /\ g.states[i].tail = f.end
      BY <1>1, <1>2, <1>5
    <2>2. QED BY <1>8, <1>10, <2>1 DEF Kept
  <1>12. QED BY <1>1, <1>3, <1>5, <1>7, <1>10, <1>11 DEF g

LEMMA FreeStep ==
    ASSUME FrmInv, NEW flags \in {{"HEAD"}, {"TAIL"}, {"HEAD", "TAIL"}},
           MEMFreeToFrmHeap(flags)
    PROVE  FrmInv' /\ (Abstract!ReleaseHead \/ Abstract!ReleaseTail \/ Abstract!ReleaseAll)
  <1>1. HeapOK(frm) /\ RegionsOK(frm, regions)
    BY DEF FrmInv
  <1>2. CASE flags = {"HEAD"}
    <2> DEFINE g == FreeHead(frm)
    <2>1. Become(g, regions)
      BY <1>2 DEF MEMFreeToFrmHeap
    <2>2. /\ HeapOK(g) /\ g.end = frm.end /\ g.states = << >>
          /\ Kept(g, regions) = {r \in regions : r.side = "tail"}
      BY <1>1, FreeingHead
    <2> HIDE DEF g
    <2>3. frm' = g /\ regions' = Kept(g, regions) /\ RegionsOK(g, Kept(g, regions))
      BY <1>1, <2>1, <2>2, KeptRegions DEF Become
    <2>4. Marks' = << >>
      BY <2>2, <2>3 DEF Marks
    <2>5. QED BY <2>2, <2>3, <2>4 DEF FrmInv, Abstract!ReleaseHead, Abstract!Of
  <1>3. CASE flags = {"TAIL"}
    <2> DEFINE g == FreeTail(frm)
    <2>1. Become(g, regions)
      BY <1>3 DEF MEMFreeToFrmHeap
    <2>2. /\ HeapOK(g) /\ g.end = frm.end
          /\ Kept(g, regions) = {r \in regions : r.side = "head"}
          /\ DOMAIN g.states = DOMAIN frm.states
          /\ \A i \in DOMAIN frm.states :
                /\ g.states[i].id = frm.states[i].id
                /\ Kept(g.states[i], Kept(g, regions))
                      = {r \in Kept(frm.states[i], regions) : r.side = "head"}
      BY <1>1, FreeingTail
    <2> HIDE DEF g
    <2>3. frm' = g /\ regions' = Kept(g, regions) /\ RegionsOK(g, Kept(g, regions))
      BY <1>1, <2>1, <2>2, KeptRegions DEF Become
    <2>4. /\ DOMAIN Marks = DOMAIN frm.states
          /\ \A i \in DOMAIN frm.states :
                Marks[i] = [id |-> frm.states[i].id, held |-> Kept(frm.states[i], regions)]
      BY DEF Marks
    <2>5. Marks' = [i \in DOMAIN Marks |->
                       [Marks[i] EXCEPT !.held = {r \in @ : r.side = "head"}]]
      <3>1. Marks' = [i \in DOMAIN g.states |->
                         [id |-> g.states[i].id,
                          held |-> Kept(g.states[i], Kept(g, regions))]]
        BY <2>3 DEF Marks
      <3>2. \A i \in DOMAIN frm.states :
               [Marks[i] EXCEPT !.held = {r \in @ : r.side = "head"}]
                  = [id |-> g.states[i].id, held |-> Kept(g.states[i], Kept(g, regions))]
        <4>1. \A id, S : [[id |-> id, held |-> S] EXCEPT !.held = {r \in @ : r.side = "head"}]
                            = [id |-> id, held |-> {r \in S : r.side = "head"}]
          OBVIOUS
        <4>2. ASSUME NEW i \in DOMAIN frm.states
              PROVE  [Marks[i] EXCEPT !.held = {r \in @ : r.side = "head"}]
                       = [id |-> frm.states[i].id,
                          held |-> {r \in Kept(frm.states[i], regions) : r.side = "head"}]
          BY <2>4, <4>1
        <4>3. QED BY <2>2, <4>2
      <3>3. QED BY <2>2, <2>4, <3>1, <3>2
    <2>6. QED BY <2>2, <2>3, <2>5 DEF FrmInv, Abstract!ReleaseTail, Abstract!Of
  <1>4. CASE flags = {"HEAD", "TAIL"}
    <2> DEFINE h == FreeHead(frm)
               g == FreeTail(h)
               T == {r \in regions : r.side = "tail"}
    <2>1. Become(g, regions)
      BY <1>4 DEF MEMFreeToFrmHeap
    <2>2. /\ HeapOK(h) /\ h.end = frm.end /\ h.states = << >> /\ Kept(h, regions) = T
      BY <1>1, FreeingHead
    <2> HIDE DEF h, T
    <2>3. RegionsOK(h, T)
      BY <1>1, <2>2, KeptRegions
    <2>4. /\ HeapOK(g) /\ g.end = h.end /\ DOMAIN g.states = DOMAIN h.states
      BY <2>2, <2>3, FreeingTail
    <2>5. g.tail = h.end /\ g.head = FrmStart
      BY <1>1, <2>2, HeapFacts DEF FreeTail, FreeHead, Heap, h
    <2> HIDE DEF g
    <2>6. Kept(g, regions) = {}
      <3> SUFFICES ASSUME NEW r \in regions
                   PROVE  ~(IF r.side = "head" THEN r.at + r.size <= g.head ELSE r.at >= g.tail)
        BY DEF Kept
      <3>1. Within(frm, r) /\ r \in Region
        BY <1>1 DEF RegionsOK
      <3>2. FrmStart \in Int /\ frm.end \in Int
        BY <1>1, HeapFacts
      <3>3. QED BY <2>2, <2>5, <3>1, <3>2, RegionFacts DEF Within
    <2>7. frm' = g /\ regions' = {} /\ RegionsOK(g, {})
      BY <2>1, <2>6 DEF Become, RegionsOK
    <2>8. Marks' = << >>
      BY <2>2, <2>4, <2>7 DEF Marks
    <2>9. QED BY <2>4, <2>7, <2>8 DEF FrmInv, Abstract!ReleaseAll
  <1>5. QED BY <1>2, <1>3, <1>4

LEMMA ResizeStep ==
    ASSUME FrmInv, NEW size \in FrmSize, MEMResizeForMBlockFrmHeap(size)
    PROVE  FrmInv' /\ Abstract!Resize
  <1>1. PICK r \in regions :
           /\ r.side = "head" /\ r.at + r.size = frm.head
           /\ frm.states # << >> => r.at >= frm.states[1].head + StateSize
           /\ Resized(frm, r.at, size) # frm
           /\ Become(Resized(frm, r.at, size),
                     (regions \ {r}) \cup {[r EXCEPT !.size = size]})
    BY DEF MEMResizeForMBlockFrmHeap
  <1> DEFINE g == Resized(frm, r.at, size)
             s == [r EXCEPT !.size = size]
             T == (regions \ {r}) \cup {s}
  <1>2. /\ HeapOK(frm) /\ RegionsOK(frm, regions) /\ frm \in Heap /\ FrmStart \in Int
        /\ frm.head \in Int /\ frm.tail \in Int /\ frm.end \in Int
        /\ FrmStart <= frm.head /\ frm.head <= frm.tail /\ frm.tail <= frm.end
        /\ StateSize \in Nat \ {0} /\ Len(frm.states) \in Nat
        /\ DOMAIN frm.states = 1 .. Len(frm.states) /\ frm.states \in Seq(Record)
    BY HeapFacts DEF FrmInv, HeapOK
  <1>3. /\ r \in Region /\ Within(frm, r) /\ r.at \in Int /\ r.size \in Nat \ {0}
        /\ FrmStart <= r.at /\ size \in Nat \ {0}
    <2>1. r \in Region /\ Within(frm, r)
      BY <1>2 DEF RegionsOK
    <2>2. QED BY <1>1, <2>1, RegionFacts, Parameters DEF Within
  <1>4. s \in Region /\ s.at = r.at /\ s.size = size /\ s.side = "head"
    BY <1>1, <1>3 DEF Region
  <1>5. /\ g = [frm EXCEPT !.head = r.at + size] /\ r.at + size <= frm.tail
    <2>1. ~(r.at + size > frm.head /\ r.at + size > frm.tail)
      BY <1>1 DEF Resized
    <2>2. QED BY <1>2, <1>3, <2>1 DEF Resized
  <1>6. /\ g \in Heap /\ g.head = r.at + size /\ g.tail = frm.tail /\ g.end = frm.end
        /\ g.states = frm.states
    BY <1>2, <1>3, <1>5 DEF Heap
  <1> HIDE DEF g
  <1>7. \A i \in 1 .. Len(frm.states) :
           /\ frm.states[i].head + StateSize <= r.at /\ frm.tail <= frm.states[i].tail
           /\ frm.states[i].head \in Int /\ frm.states[i].tail \in Int
    <2> SUFFICES ASSUME NEW i \in 1 .. Len(frm.states)
                 PROVE  /\ frm.states[i].head + StateSize <= r.at
                        /\ frm.tail <= frm.states[i].tail
                        /\ frm.states[i].head \in Int /\ frm.states[i].tail \in Int
      OBVIOUS
    <2> DEFINE t == frm.states[i]
               u == frm.states[1]
    <2>1. 1 \in 1 .. Len(frm.states) /\ frm.states # << >> /\ (i = 1 \/ 1 < i)
      BY <1>2
    <2>2. t.head \in Int /\ t.tail \in Int /\ u.head \in Int /\ Nested(frm, t)
      BY <1>2, <2>1, HeapFacts DEF HeapOK
    <2>3. u.head + StateSize <= r.at
      BY <1>1, <1>2, <1>3, <2>1, <2>2
    <2>4. i = 1 \/ t.head + StateSize <= u.head
      BY <1>2, <2>1 DEF HeapOK
    <2>5. t = u \/ t.head + StateSize <= u.head
      BY <2>4
    <2> HIDE DEF t, u
    <2>6. t.head + StateSize <= r.at /\ frm.tail <= t.tail
      BY <1>2, <1>3, <2>2, <2>3, <2>5 DEF Nested
    <2>7. QED BY <2>2, <2>6 DEF t
  <1>8. HeapOK(g)
    <2>1. FrmStart <= g.head /\ g.head <= g.tail /\ g.tail <= g.end
      BY <1>2, <1>3, <1>5, <1>6
    <2>2. ASSUME NEW i \in 1 .. Len(frm.states) PROVE Nested(g, frm.states[i])
      <3>1. Nested(frm, frm.states[i])
        BY <1>2 DEF HeapOK
      <3>2. QED BY <1>2, <1>3, <1>6, <1>7, <3>1 DEF Nested
    <2>3. QED BY <1>2, <1>6, <2>1, <2>2 DEF HeapOK
  (* The others of its side are before it. *)
  <1>9. ASSUME NEW t \in regions \ {r}
        PROVE  /\ Within(g, t)
               /\ s.at + s.size <= t.at \/ t.at + t.size <= s.at
    <2>1. /\ Within(frm, t) /\ t.at \in Int /\ t.size \in Nat \ {0}
          /\ t.side \in {"head", "tail"}
          /\ r.at + r.size <= t.at \/ t.at + t.size <= r.at
      BY <1>2, RegionFacts DEF RegionsOK
    <2>2. CASE t.side = "head"
      <3>1. t.at + t.size <= frm.head /\ FrmStart <= t.at
        BY <2>1, <2>2 DEF Within
      <3>2. t.at + t.size <= r.at
        BY <1>1, <1>2, <1>3, <2>1, <3>1
      <3>3. QED BY <1>3, <1>4, <1>6, <2>1, <2>2, <3>1, <3>2 DEF Within
    <2>3. CASE t.side = "tail"
      <3>1. frm.tail <= t.at /\ t.at + t.size <= frm.end
        BY <2>1, <2>3 DEF Within
      <3>2. QED BY <1>2, <1>3, <1>4, <1>5, <1>6, <2>1, <2>3, <3>1 DEF Within
    <2>4. QED BY <2>1, <2>2, <2>3
  <1>10. RegionsOK(g, T)
    <2>1. T \subseteq Region /\ Within(g, s)
      BY <1>2, <1>3, <1>4, <1>6 DEF RegionsOK, Within
    <2>2. \A t, u \in regions : t # u => t.at + t.size <= u.at \/ u.at + u.size <= t.at
      BY <1>2 DEF RegionsOK
    <2> HIDE DEF s
    <2>3. QED BY <1>9, <2>1, <2>2 DEF RegionsOK
  <1>11. frm' = g /\ regions' = T
    <2>1. Kept(g, T) = T
      BY <1>10, KeepsAll
    <2>2. QED BY <1>1, <2>1 DEF Become, g
  <1> HIDE DEF s
  <1>12. Marks' = Marks
    <2>1. ASSUME NEW i \in DOMAIN frm.states
          PROVE  Kept(frm.states[i], T) = Kept(frm.states[i], regions)
      <3> DEFINE t == frm.states[i]
      <3>1. /\ t.head + StateSize <= r.at /\ frm.tail <= t.tail
            /\ t.head \in Int /\ t.tail \in Int
        BY <1>2, <1>7
      <3> HIDE DEF t
      <3>2. /\ ~(r.at + r.size <= t.head) /\ ~(s.at + s.size <= t.head)
        BY <1>2, <1>3, <1>4, <3>1
      <3>3. Kept(t, T) = Kept(t, regions)
        BY <1>1, <1>4, <3>2 DEF Kept
      <3>4. QED BY <3>3 DEF t
    <2>2. QED BY <1>6, <1>11, <2>1 DEF Marks
  <1>13. FrmInv'
    BY <1>8, <1>10, <1>11 DEF FrmInv
  <1>14. Abstract!Resize
    <2>1. s \in regions' /\ \A t \in regions \ {r} : Abstract!Disjoint(s, t)
      BY <1>9, <1>11 DEF Abstract!Disjoint
    <2>2. QED BY <1>1, <1>11, <1>12, <2>1 DEF Abstract!Resize
  <1>15. QED BY <1>13, <1>14

LEMMA AdjustStep ==
    ASSUME FrmInv, MEMAdjustFrmHeap
    PROVE  FrmInv' /\ UNCHANGED <<regions, Marks>>
  <1>1. HeapOK(frm) /\ RegionsOK(frm, regions) /\ frm.states = << >>
        /\ Become(Adjusted(frm), regions)
    BY DEF FrmInv, MEMAdjustFrmHeap
  <1>2. CASE frm.tail # frm.end
    <2>1. frm' = frm /\ regions' = regions
      BY <1>1, <1>2, KeepsAll DEF Become, Adjusted
    <2>2. QED BY <2>1 DEF FrmInv, Marks
  <1>3. CASE frm.tail = frm.end
    <2> DEFINE g == [frm EXCEPT !.end = frm.head, !.tail = frm.head]
    <2>1. frm' = g /\ regions' = Kept(g, regions)
      BY <1>1, <1>3 DEF Become, Adjusted
    <2>2. /\ frm \in Heap /\ frm.head \in Int /\ frm.tail \in Int /\ frm.end \in Int
          /\ FrmStart \in Int /\ FrmStart <= frm.head
      BY <1>1, HeapFacts DEF HeapOK
    <2>3. /\ g \in Heap /\ g.head = frm.head /\ g.tail = frm.head /\ g.end = frm.head
          /\ g.states = << >>
      BY <1>1, <2>2 DEF Heap
    <2> HIDE DEF g
    <2>4. HeapOK(g)
      <3>1. Len(g.states) = 0
        BY <2>3
      <3>2. QED BY <2>2, <2>3, <3>1 DEF HeapOK
    <2>5. ASSUME NEW r \in regions
          PROVE  r.side = "head" /\ FrmStart <= r.at /\ r.at + r.size <= g.head
      <3>1. Within(frm, r) /\ r \in Region
        BY <1>1 DEF RegionsOK
      <3>2. QED BY <1>3, <2>2, <2>3, <3>1, RegionFacts DEF Within
    <2>6. RegionsOK(g, regions) /\ Kept(g, regions) = regions
      <3>1. RegionsOK(g, regions)
        BY <1>1, <2>5 DEF RegionsOK, Within
      <3>2. QED BY <3>1, KeepsAll
    <2>7. Marks' = Marks
      BY <1>1, <2>1, <2>3 DEF Marks
    <2>8. QED BY <2>1, <2>4, <2>6, <2>7 DEF FrmInv
  <1>4. QED BY <1>2, <1>3

LEMMA FrmBegins ==
    ASSUME FrmInit
    PROVE  FrmInv /\ Abstract!MarkInit
  <1>1. << >> \in Seq(Record)
    OBVIOUS
  <1>2. /\ frm \in Heap /\ frm.head = FrmStart /\ frm.tail = FrmEnd /\ frm.end = FrmEnd
        /\ frm.states = << >>
    BY <1>1, FrmAssumption DEF FrmInit, Heap
  <1>3. Len(frm.states) = 0 /\ FrmStart \in Int /\ FrmEnd \in Int /\ FrmStart <= FrmEnd
    BY <1>2, FrmAssumption
  <1>4. HeapOK(frm)
    BY <1>2, <1>3 DEF HeapOK
  <1>5. regions = {} /\ Marks = << >>
    BY <1>2 DEF FrmInit, Marks
  <1>6. QED BY <1>4, <1>5 DEF FrmInv, RegionsOK, Abstract!MarkInit

LEMMA FrmStep ==
    ASSUME FrmInv, FrmNext
    PROVE  /\ FrmInv'
           /\ \/ Abstract!Get \/ Abstract!Resize \/ Abstract!Mark \/ Abstract!Release
              \/ Abstract!ReleaseHead \/ Abstract!ReleaseTail \/ Abstract!ReleaseAll
              \/ UNCHANGED <<regions, Marks>>
  <1>1. CASE \E size \in FrmSize, align \in FrmAlign : MEMAllocFromFrmHeap(size, align)
    BY <1>1, AllocStep
  <1>2. CASE \E size \in FrmSize : MEMResizeForMBlockFrmHeap(size)
    BY <1>2, ResizeStep
  <1>3. CASE \E id \in StateId : MEMRecordStateForFrmHeap(id)
    BY <1>3, RecordStep
  <1>4. CASE \E id \in StateId \cup {0} : MEMFreeByStateToFrmHeap(id)
    BY <1>4, FreeByStateStep
  <1>5. CASE \E flags \in {{"HEAD"}, {"TAIL"}, {"HEAD", "TAIL"}} : MEMFreeToFrmHeap(flags)
    BY <1>5, FreeStep
  <1>6. CASE MEMAdjustFrmHeap
    BY <1>6, AdjustStep
  <1>7. QED BY <1>1, <1>2, <1>3, <1>4, <1>5, <1>6 DEF FrmNext

THEOREM FrmInvariant == FrmSpec => []FrmInv
  <1>1. FrmInit => FrmInv
    BY FrmBegins
  <1>2. FrmInv /\ [FrmNext]_frmVars => FrmInv'
    <2>1. ASSUME FrmInv, UNCHANGED frmVars PROVE FrmInv'
      BY <2>1 DEF FrmInv, frmVars
    <2>2. QED BY <2>1, FrmStep
  <1>3. QED BY <1>1, <1>2, PTL DEF FrmSpec

(***************************************************************************)
(* The ends of a frame heap never cross, and every state recorded is one   *)
(* the heap can go back to, whatever was allocated, freed, resized and     *)
(* adjusted in between: what FrmTypeOK says, with the regions handed out   *)
(* where the heap keeps them and none over another.                        *)
(***************************************************************************)
THEOREM FrmEndsNeverCross ==
    FrmSpec => [](FrmTypeOK /\ \A r, s \in regions :
                     r # s => r.at + r.size <= s.at \/ s.at + s.size <= r.at)
  <1>1. ASSUME FrmInv PROVE FrmTypeOK
    <2>1. HeapOK(frm)
      BY <1>1 DEF FrmInv
    <2>2. FrmStart <= frm.head /\ frm.head <= frm.tail /\ frm.tail <= frm.end
      BY <2>1 DEF HeapOK
    <2>3. ASSUME NEW i \in DOMAIN frm.states
          PROVE  /\ frm.states[i].head + StateSize <=
                       (IF i = 1 THEN frm.head ELSE frm.states[i - 1].head)
                 /\ frm.states[i].tail >= (IF i = 1 THEN frm.tail ELSE frm.states[i - 1].tail)
                 /\ frm.states[i].tail <= frm.end
      <3>1. i \in 1 .. Len(frm.states) /\ Len(frm.states) \in Nat
        BY <2>1, HeapFacts
      <3>2. Nested(frm, frm.states[i]) /\ frm.tail \in Int /\ frm.states[i].tail \in Int
        BY <2>1, <3>1, HeapFacts DEF HeapOK
      <3>3. CASE i = 1
        BY <3>2, <3>3 DEF Nested
      <3>4. CASE i # 1
        <4>1. i - 1 \in 1 .. Len(frm.states) /\ i - 1 < i
          BY <3>1, <3>4
        <4>2. /\ frm.states[i].head + StateSize <= frm.states[i - 1].head
              /\ frm.states[i - 1].tail <= frm.states[i].tail
              /\ frm.states[i - 1].tail \in Int
          BY <2>1, <3>1, <4>1, HeapFacts DEF HeapOK
        <4>3. QED BY <3>2, <3>4, <4>2 DEF Nested
      <3>5. QED BY <3>3, <3>4
    <2>4. QED BY <2>2, <2>3 DEF FrmTypeOK
  <1>2. FrmInv => \A r, s \in regions : r # s => r.at + r.size <= s.at \/ s.at + s.size <= r.at
    BY DEF FrmInv, RegionsOK
  <1>3. QED BY <1>1, <1>2, FrmInvariant, PTL

(***************************************************************************)
(* A frame heap keeps the promise of MarkRelease: a region is handed out   *)
(* where nothing is held, and what is released is the whole of a side or   *)
(* exactly what was handed out since a mark.                               *)
(***************************************************************************)
THEOREM FrmImplementsMarkRelease == FrmSpec => Abstract!MarkSpec
  <1>1. FrmInit => Abstract!MarkInit
    BY FrmBegins
  <1>2. FrmInv /\ [FrmNext]_frmVars =>
           [\/ Abstract!Get \/ Abstract!Resize \/ Abstract!Mark \/ Abstract!Release
            \/ Abstract!ReleaseHead \/ Abstract!ReleaseTail
            \/ Abstract!ReleaseAll]_(Abstract!markVars)
    <2>1. ASSUME UNCHANGED frmVars PROVE UNCHANGED <<regions, Marks>>
      BY <2>1 DEF frmVars, Marks
    <2>2. QED BY <2>1, FrmStep DEF Abstract!markVars
  <1>3. QED BY <1>1, <1>2, FrmInvariant, PTL DEF FrmSpec, Abstract!MarkSpec

-----------------------------------------------------------------------------
(***************************************************************************)
(* The sound heap.  Level k of the list l of sections of the heap f begins *)
(* with its record, but for the first, and its section comes next, with    *)
(* its blocks above, below where the next level begins.                    *)
(***************************************************************************)
Block == [at : Int, size : Nat \ {0}]
Section == [at : Int, list : Seq(Block)]

From(f, l, k) == IF k = 1 THEN FrmStart ELSE f.states[Len(l) - k + 1].head
To(f, l, k) == IF k = Len(l) THEN f.head ELSE f.states[Len(l) - k].head
SectionAt(f, l, k) == IF k = 1 THEN FrmStart ELSE From(f, l, k) + StateSize

LevelOK(c, at, end) ==
    /\ c.at = at /\ at + SectionSize <= end
    /\ \A i \in 1 .. Len(c.list) :
          at + SectionSize <= c.list[i].at /\ c.list[i].at + c.list[i].size <= end
    /\ \A i, j \in 1 .. Len(c.list) :
          i < j => c.list[i].at + c.list[i].size <= c.list[j].at

Levels(f, l) ==
    /\ HeapOK(f) /\ f.end = SndEnd /\ f.tail = SndEnd
    /\ l \in Seq(Section) /\ l # << >> /\ Len(f.states) = Len(l) - 1
    /\ \A i \in 1 .. Len(f.states) :
          f.states[i].id = Len(l) - i /\ f.states[i].tail = SndEnd
    /\ \A k \in 1 .. Len(l) : LevelOK(l[k], SectionAt(f, l, k), To(f, l, k))

SndInv == IF sections = << >> THEN frm = EmptyHeap ELSE Levels(frm, sections)

LEMMA SectionFacts ==
    ASSUME NEW c \in Section
    PROVE  /\ c.at \in Int /\ c.list \in Seq(Block) /\ Len(c.list) \in Nat
           /\ DOMAIN c.list = 1 .. Len(c.list)
           /\ \A i \in 1 .. Len(c.list) :
                 c.list[i] \in Block /\ c.list[i].at \in Int /\ c.list[i].size \in Nat \ {0}
  <1>1. c.at \in Int /\ c.list \in Seq(Block)
    BY DEF Section
  <1>2. Len(c.list) \in Nat /\ DOMAIN c.list = 1 .. Len(c.list)
    BY <1>1, LenProperties
  <1>3. \A i \in 1 .. Len(c.list) : c.list[i] \in Block
    BY <1>1, ElementOfSeq
  <1>4. \A b \in Block : b.at \in Int /\ b.size \in Nat \ {0}
    BY DEF Block
  <1>5. QED BY <1>1, <1>2, <1>3, <1>4

LEMMA LevelFacts ==
    ASSUME NEW f, NEW l, Levels(f, l)
    PROVE  /\ HeapOK(f) /\ f \in Heap /\ f.head \in Int /\ f.states \in Seq(Record)
           /\ FrmStart \in Int /\ StateSize \in Nat \ {0} /\ SectionSize \in Nat \ {0}
           /\ SndEnd \in Nat /\ f.head <= SndEnd
           /\ l \in Seq(Section) /\ Len(l) \in Nat \ {0} /\ Len(f.states) = Len(l) - 1
           /\ DOMAIN l = 1 .. Len(l) /\ DOMAIN f.states = 1 .. Len(l) - 1
           /\ \A k \in 1 .. Len(l) : l[k] \in Section
           /\ \A i \in 1 .. Len(l) - 1 : /\ f.states[i].head \in Int
                                         /\ f.states[i].tail = SndEnd
                                         /\ f.states[i].id = Len(l) - i
  <1>1. /\ HeapOK(f) /\ f.tail = SndEnd /\ l \in Seq(Section) /\ l # << >>
        /\ Len(f.states) = Len(l) - 1
        /\ \A i \in 1 .. Len(f.states) :
              f.states[i].id = Len(l) - i /\ f.states[i].tail = SndEnd
    BY DEF Levels
  <1>2. f.head <= f.tail
    BY <1>1 DEF HeapOK
  <1>3. Len(l) \in Nat \ {0} /\ DOMAIN l = 1 .. Len(l)
    BY <1>1, LenProperties, EmptySeq
  <1>4. \A k \in 1 .. Len(l) : l[k] \in Section
    BY <1>1, ElementOfSeq
  <1>5. /\ f \in Heap /\ f.head \in Int /\ FrmStart \in Int /\ StateSize \in Nat \ {0}
        /\ f.states \in Seq(Record) /\ DOMAIN f.states = 1 .. Len(f.states)
        /\ \A i \in 1 .. Len(f.states) : f.states[i].head \in Int
    BY <1>1, HeapFacts
  <1>6. QED BY <1>1, <1>2, <1>3, <1>4, <1>5, SndHeapAssumption

(* The levels come one above the other.                                    *)
LEMMA LevelsInOrder ==
    ASSUME NEW f, NEW l, Levels(f, l), NEW k \in 1 .. Len(l)
    PROVE  /\ From(f, l, k) \in Int /\ To(f, l, k) \in Int
           /\ FrmStart <= From(f, l, k) /\ To(f, l, k) <= f.head
           /\ \A j \in 1 .. Len(l) : j < k => To(f, l, j) <= From(f, l, k)
  <1>1. /\ Len(l) \in Nat \ {0} /\ f.head \in Int /\ FrmStart \in Int
        /\ StateSize \in Nat \ {0} /\ Len(f.states) = Len(l) - 1
        /\ \A i \in 1 .. Len(l) - 1 : f.states[i].head \in Int
    BY LevelFacts
  <1>2. FrmStart <= f.head
    BY LevelFacts DEF HeapOK
  <1>3. \A i \in 1 .. Len(l) - 1 :
           FrmStart <= f.states[i].head /\ f.states[i].head <= f.head
    <2> SUFFICES ASSUME NEW i \in 1 .. Len(l) - 1
                 PROVE  FrmStart <= f.states[i].head /\ f.states[i].head <= f.head
      OBVIOUS
    <2>1. Nested(f, f.states[i])
      BY <1>1, LevelFacts DEF HeapOK
    <2>2. QED BY <1>1, <2>1 DEF Nested
  <1>4. \A i, j \in 1 .. Len(l) - 1 : i < j => f.states[j].head <= f.states[i].head
    <2> SUFFICES ASSUME NEW i \in 1 .. Len(l) - 1, NEW j \in 1 .. Len(l) - 1, i < j
                 PROVE  f.states[j].head <= f.states[i].head
      OBVIOUS
    <2>1. f.states[j].head + StateSize <= f.states[i].head
      BY <1>1, LevelFacts DEF HeapOK
    <2>2. f.states[j].head \in Int /\ f.states[i].head \in Int
      BY <1>1
    <2>3. QED BY <1>1, <2>1, <2>2
  <1>5. k = 1 \/ Len(l) - k + 1 \in 1 .. Len(l) - 1
    BY <1>1
  <1>6. k = Len(l) \/ Len(l) - k \in 1 .. Len(l) - 1
    BY <1>1
  <1>7. From(f, l, k) \in Int /\ FrmStart <= From(f, l, k)
    BY <1>1, <1>3, <1>5 DEF From
  <1>8. To(f, l, k) \in Int /\ To(f, l, k) <= f.head
    BY <1>1, <1>3, <1>6 DEF To
  <1>9. ASSUME NEW j \in 1 .. Len(l), j < k PROVE To(f, l, j) <= From(f, l, k)
    <2> DEFINE a == Len(l) - j
               b == Len(l) - k + 1
    <2>1. /\ k # 1 /\ j # Len(l) /\ a \in 1 .. Len(l) - 1 /\ b \in 1 .. Len(l) - 1
          /\ (a = b \/ b < a)
      <3>1. Len(l) \in Nat
        BY <1>1
      <3>2. /\ j \in 1 .. Len(l) /\ k \in 1 .. Len(l) /\ j < k
        BY <1>9
      <3> HIDE <1>1, <1>9
      <3>3. QED BY <3>1, <3>2
    <2>2. To(f, l, j) = f.states[a].head /\ From(f, l, k) = f.states[b].head
      BY <2>1 DEF To, From
    <2> HIDE DEF a, b
    <2>3. CASE a = b
      BY <1>1, <2>1, <2>2, <2>3
    <2>4. CASE b < a
      BY <1>4, <2>1, <2>2, <2>4
    <2>5. QED BY <2>1, <2>3, <2>4
  <1>10. QED BY <1>7, <1>8, <1>9

(* Things of level k: its record, its section, its blocks.                 *)
OfLevel(f, l, k, o) ==
    \/ k # 1 /\ o = [at |-> From(f, l, k), size |-> StateSize]
    \/ o = [at |-> l[k].at, size |-> SectionSize]
    \/ \E i \in 1 .. Len(l[k].list) : o = l[k].list[i]

LEMMA WithinLevel ==
    ASSUME NEW f, NEW l, Levels(f, l), NEW k \in 1 .. Len(l), NEW o, OfLevel(f, l, k, o)
    PROVE  /\ o.at \in Int /\ o.size \in Nat \ {0}
           /\ From(f, l, k) <= o.at /\ o.at + o.size <= To(f, l, k)
  <1> DEFINE a == From(f, l, k)
             z == To(f, l, k)
             c == l[k]
             e == SectionAt(f, l, k)
  <1>1. /\ a \in Int /\ z \in Int /\ FrmStart \in Int /\ FrmStart <= a
        /\ StateSize \in Nat \ {0} /\ SectionSize \in Nat \ {0} /\ c \in Section
        /\ LevelOK(c, e, z)
    BY LevelFacts, LevelsInOrder DEF Levels
  <1>2. (k = 1 /\ e = FrmStart /\ a = FrmStart) \/ (k # 1 /\ e = a + StateSize)
    BY DEF SectionAt, From
  <1>3. /\ e + SectionSize <= z /\ c.at = e
        /\ \A i \in 1 .. Len(c.list) :
              /\ e + SectionSize <= c.list[i].at
              /\ c.list[i].at + c.list[i].size <= z
              /\ c.list[i].at \in Int /\ c.list[i].size \in Nat \ {0}
    BY <1>1, SectionFacts DEF LevelOK
  <1>4. \/ k # 1 /\ o = [at |-> a, size |-> StateSize]
        \/ o = [at |-> c.at, size |-> SectionSize]
        \/ \E i \in 1 .. Len(c.list) : o = c.list[i]
    BY DEF OfLevel
  <1> HIDE DEF a, z, c, e
  <1>5. CASE k # 1 /\ o = [at |-> a, size |-> StateSize]
    <2>1. o.at = a /\ o.size = StateSize
      BY <1>5
    <2>2. e = a + StateSize
      BY <1>2, <1>5
    <2>3. QED BY <1>1, <1>3, <2>1, <2>2 DEF a, z
  <1>6. CASE o = [at |-> c.at, size |-> SectionSize]
    <2>1. o.at = e /\ o.size = SectionSize
      BY <1>3, <1>6
    <2>2. e \in Int /\ a <= e
      BY <1>1, <1>2
    <2>3. QED BY <1>1, <1>3, <2>1, <2>2 DEF a, z
  <1>7. CASE \E i \in 1 .. Len(c.list) : o = c.list[i]
    <2>1. /\ e + SectionSize <= o.at /\ o.at + o.size <= z
          /\ o.at \in Int /\ o.size \in Nat \ {0}
      BY <1>3, <1>7
    <2>2. e \in Int /\ a <= e
      BY <1>1, <1>2
    <2>3. QED BY <1>1, <2>1, <2>2 DEF a, z
  <1>8. QED BY <1>4, <1>5, <1>6, <1>7

LEMMA ApartInLevel ==
    ASSUME NEW f, NEW l, Levels(f, l), NEW k \in 1 .. Len(l),
           NEW o, NEW p, OfLevel(f, l, k, o), OfLevel(f, l, k, p), o # p
    PROVE  o.at + o.size <= p.at \/ p.at + p.size <= o.at
  <1> DEFINE a == From(f, l, k)
             c == l[k]
             e == SectionAt(f, l, k)
             rec(x) == k # 1 /\ x = [at |-> a, size |-> StateSize]
             sec(x) == x = [at |-> c.at, size |-> SectionSize]
             blk(x) == \E i \in 1 .. Len(c.list) : x = c.list[i]
  <1>1. /\ a \in Int /\ FrmStart \in Int
        /\ StateSize \in Nat \ {0} /\ SectionSize \in Nat \ {0} /\ c \in Section
        /\ LevelOK(c, e, To(f, l, k))
    BY LevelFacts, LevelsInOrder DEF Levels
  <1>2. (k = 1 /\ e = FrmStart) \/ (k # 1 /\ e = a + StateSize)
    BY DEF SectionAt
  <1>3. /\ c.at = e
        /\ \A i \in 1 .. Len(c.list) :
              e + SectionSize <= c.list[i].at /\ c.list[i].at \in Int
        /\ \A i, j \in 1 .. Len(c.list) :
              i < j => c.list[i].at + c.list[i].size <= c.list[j].at
    BY <1>1, SectionFacts DEF LevelOK
  <1>4. (rec(o) \/ sec(o) \/ blk(o)) /\ (rec(p) \/ sec(p) \/ blk(p))
    BY DEF OfLevel
  <1> HIDE DEF a, c, e
  <1>5. \A x : rec(x) => k # 1 /\ x.at = a /\ x.at + x.size = e
    BY <1>2
  <1>6. \A x : sec(x) => x.at = e /\ x.at + x.size = e + SectionSize
    BY <1>3
  <1>7. \A x : blk(x) => e + SectionSize <= x.at /\ x.at \in Int
    BY <1>3
  <1>8. ASSUME blk(o), blk(p) PROVE o.at + o.size <= p.at \/ p.at + p.size <= o.at
    <2>1. PICK i \in 1 .. Len(c.list) : o = c.list[i]
      BY <1>8
    <2>2. PICK j \in 1 .. Len(c.list) : p = c.list[j]
      BY <1>8
    <2>3. i < j \/ j < i
      BY <2>1, <2>2
    <2>4. QED BY <1>3, <2>1, <2>2, <2>3
  <1>9. ~(rec(o) /\ rec(p)) /\ ~(sec(o) /\ sec(p))
    OBVIOUS
  <1>10. e \in Int /\ SectionSize \in Nat
    BY <1>1, <1>2
  <1> HIDE DEF rec, sec, blk
  <1>11. \A x, y : rec(x) /\ (sec(y) \/ blk(y)) => x.at + x.size <= y.at
    BY <1>5, <1>6, <1>7, <1>10
  <1>12. \A x, y : sec(x) /\ blk(y) => x.at + x.size <= y.at
    BY <1>6, <1>7
  <1>13. QED BY <1>4, <1>8, <1>9, <1>11, <1>12

OwnedIn(f, l) ==
    {[at |-> l[i].at, size |-> SectionSize] : i \in DOMAIN l}
        \cup Blocks(l)
        \cup {[at |-> f.states[i].head, size |-> StateSize] : i \in DOMAIN f.states}

LEMMA LevelsHold ==
    ASSUME NEW f, NEW l, Levels(f, l)
    PROVE  /\ \A o \in OwnedIn(f, l) : o.at >= FrmStart /\ o.at + o.size <= f.head
           /\ \A o, p \in OwnedIn(f, l) :
                 o # p => o.at + o.size <= p.at \/ p.at + p.size <= o.at
  <1>1. /\ Len(l) \in Nat \ {0} /\ f.head \in Int /\ FrmStart \in Int
        /\ DOMAIN l = 1 .. Len(l) /\ DOMAIN f.states = 1 .. Len(l) - 1
        /\ \A k \in 1 .. Len(l) : l[k] \in Section
    BY LevelFacts
  <1>2. ASSUME NEW o \in OwnedIn(f, l) PROVE \E k \in 1 .. Len(l) : OfLevel(f, l, k, o)
    <2>1. CASE \E k \in DOMAIN l : o = [at |-> l[k].at, size |-> SectionSize]
      BY <1>1, <2>1 DEF OfLevel
    <2>2. CASE o \in Blocks(l)
      <3>1. PICK k \in DOMAIN l : o \in ToSet(l[k].list)
        BY <2>2 DEF Blocks
      <3>2. \E i \in DOMAIN l[k].list : o = l[k].list[i]
        BY <3>1 DEF ToSet
      <3>3. DOMAIN l[k].list = 1 .. Len(l[k].list)
        BY <1>1, SectionFacts
      <3>4. QED BY <1>1, <3>2, <3>3 DEF OfLevel
    <2>3. CASE \E i \in DOMAIN f.states : o = [at |-> f.states[i].head, size |-> StateSize]
      <3>1. PICK i \in 1 .. Len(l) - 1 : o = [at |-> f.states[i].head, size |-> StateSize]
        BY <1>1, <2>3
      <3> DEFINE k == Len(l) - i + 1
      <3>2. k \in 1 .. Len(l) /\ k # 1 /\ Len(l) - k + 1 = i
        BY <1>1
      <3>3. From(f, l, k) = f.states[i].head
        BY <3>2 DEF From
      <3> HIDE DEF k
      <3>4. QED BY <3>1, <3>2, <3>3 DEF OfLevel
    <2>4. QED BY <2>1, <2>2, <2>3 DEF OwnedIn
  <1>3. ASSUME NEW o \in OwnedIn(f, l)
        PROVE  o.at >= FrmStart /\ o.at + o.size <= f.head
    <2>1. PICK k \in 1 .. Len(l) : OfLevel(f, l, k, o)
      BY <1>2
    <2>2. /\ o.at \in Int /\ o.size \in Nat
          /\ From(f, l, k) <= o.at /\ o.at + o.size <= To(f, l, k)
      BY <2>1, WithinLevel
    <2>3. /\ From(f, l, k) \in Int /\ To(f, l, k) \in Int
          /\ FrmStart <= From(f, l, k) /\ To(f, l, k) <= f.head
      BY LevelsInOrder
    <2>4. QED BY <1>1, <2>2, <2>3
  <1>4. ASSUME NEW o \in OwnedIn(f, l), NEW p \in OwnedIn(f, l), o # p
        PROVE  o.at + o.size <= p.at \/ p.at + p.size <= o.at
    <2>1. PICK j \in 1 .. Len(l) : OfLevel(f, l, j, o)
      BY <1>2
    <2>2. PICK k \in 1 .. Len(l) : OfLevel(f, l, k, p)
      BY <1>2
    <2>3. CASE j = k
      BY <1>4, <2>1, <2>2, <2>3, ApartInLevel
    <2>4. CASE j < k
      <3>1. o.at \in Int /\ o.size \in Nat /\ o.at + o.size <= To(f, l, j)
        BY <2>1, WithinLevel
      <3>2. p.at \in Int /\ From(f, l, k) <= p.at
        BY <2>2, WithinLevel
      <3>3. /\ From(f, l, k) \in Int /\ To(f, l, j) \in Int
            /\ To(f, l, j) <= From(f, l, k)
        BY <2>4, LevelsInOrder
      <3>4. QED BY <3>1, <3>2, <3>3
    <2>5. CASE k < j
      <3>1. p.at \in Int /\ p.size \in Nat /\ p.at + p.size <= To(f, l, k)
        BY <2>2, WithinLevel
      <3>2. o.at \in Int /\ From(f, l, j) <= o.at
        BY <2>1, WithinLevel
      <3>3. /\ From(f, l, j) \in Int /\ To(f, l, k) \in Int
            /\ To(f, l, k) <= From(f, l, j)
        BY <2>5, LevelsInOrder
      <3>4. QED BY <3>1, <3>2, <3>3
    <2>6. QED BY <1>1, <2>3, <2>4, <2>5
  <1>5. QED BY <1>3, <1>4

-----------------------------------------------------------------------------
(* The functions of the sound heap.                                        *)
LEMMA NextSection ==
    ASSUME NEW f, HeapOK(f), NEW l \in Seq(Section)
    PROVE  LET n == NewSection(f, l)
               m == Append(l, [at |-> f.head, list |-> << >>])
           IN  IF f.head + SectionSize <= f.tail
               THEN /\ n.ok /\ n.heap = [f EXCEPT !.head = f.head + SectionSize]
                    /\ HeapOK(n.heap)
                    /\ n.list = m /\ m \in Seq(Section) /\ Len(m) = Len(l) + 1
                    /\ \A k \in 1 .. Len(l) : m[k] = l[k]
                    /\ m[Len(l) + 1] = [at |-> f.head, list |-> << >>]
               ELSE ~n.ok /\ n.heap = f /\ n.list = l
  <1> DEFINE a == AllocFromHead(f, SectionSize, 1)
             n == NewSection(f, l)
             c == [at |-> f.head, list |-> << >>]
             m == Append(l, c)
  <1>1. /\ SectionSize \in Nat \ {0} /\ 1 \in Nat \ {0} /\ f.head \in Int /\ f.tail \in Int
    BY SndHeapAssumption, HeapFacts
  <1>2. RoundUp(f.head, 1) = f.head
    BY <1>1 DEF RoundUp
  <1>3. a = IF f.head + SectionSize > f.tail THEN [ok |-> FALSE, heap |-> f, at |-> 0]
            ELSE [ok |-> TRUE, heap |-> [f EXCEPT !.head = f.head + SectionSize],
                  at |-> f.head]
    BY <1>2 DEF AllocFromHead
  <1>4. a.ok => HeapOK(a.heap)
    BY <1>1, HeadAllocation
  <1>5. n = [ok |-> a.ok, heap |-> a.heap,
             list |-> IF a.ok THEN Append(l, [at |-> a.at, list |-> << >>]) ELSE l]
    BY DEF NewSection
  <1> HIDE DEF a, n
  <1>6. /\ m \in Seq(Section) /\ Len(m) = Len(l) + 1
        /\ \A k \in 1 .. Len(l) : m[k] = l[k]
        /\ m[Len(l) + 1] = c
    <2>1. << >> \in Seq(Block)
      OBVIOUS
    <2>2. c \in Section
      BY <1>1, <2>1 DEF Section
    <2> HIDE DEF c
    <2>3. QED BY <2>2, AppendProperties
  <1>7. CASE f.head + SectionSize <= f.tail
    <2>1. a = [ok |-> TRUE, heap |-> [f EXCEPT !.head = f.head + SectionSize],
               at |-> f.head]
      BY <1>1, <1>3, <1>7
    <2>2. /\ n.ok /\ n.heap = [f EXCEPT !.head = f.head + SectionSize] /\ n.list = m
          /\ HeapOK(n.heap)
      BY <1>4, <1>5, <2>1
    <2> HIDE DEF m
    <2>3. QED BY <1>6, <1>7, <2>2 DEF n, m
  <1>8. CASE ~(f.head + SectionSize <= f.tail)
    <2>1. a = [ok |-> FALSE, heap |-> f, at |-> 0]
      BY <1>1, <1>3, <1>8
    <2>2. QED BY <1>5, <1>8, <2>1 DEF n
  <1>9. QED BY <1>7, <1>8

(* A level more, where there is room for its record and its section.       *)
LEMMA NextLevel ==
    ASSUME NEW f, NEW l, Levels(f, l), f.head + StateSize + SectionSize <= SndEnd
    PROVE  LET r == RecordState(f, Len(l))
               n == NewSection(r.heap, l)
           IN  r.ok /\ n.ok /\ Levels(n.heap, n.list)
  <1> DEFINE r == RecordState(f, Len(l))
             h == r.heap
             n == NewSection(h, l)
             g == n.heap
             m == n.list
             s == [id |-> Len(l), head |-> f.head, tail |-> f.tail]
             q == <<s>> \o f.states
             c == [at |-> f.head + StateSize, list |-> << >>]
             N == Len(l)
  <1>1. /\ HeapOK(f) /\ f \in Heap /\ f.head \in Int /\ f.states \in Seq(Record)
        /\ StateSize \in Nat \ {0} /\ SectionSize \in Nat \ {0} /\ SndEnd \in Nat
        /\ l \in Seq(Section) /\ N \in Nat \ {0} /\ Len(f.states) = N - 1
        /\ f.tail = SndEnd /\ f.end = SndEnd
    BY LevelFacts DEF Levels
  <1>2. f.head + StateSize <= f.tail /\ f.head + StateSize + SectionSize <= f.tail
    BY <1>1
  <1>3. r.ok
    <2>1. RoundUp(f.head, 1) = f.head
      BY <1>1 DEF RoundUp
    <2>2. ~(f.head + StateSize > f.tail)
      BY <1>1, <1>2
    <2>3. AllocFromHead(f, StateSize, 1).ok
      BY <2>1, <2>2 DEF AllocFromHead
    <2>4. QED BY <2>1, <2>2, <2>3 DEF RecordState, AllocFromHead
  <1>4. /\ HeapOK(h)
        /\ h = [head |-> f.head + StateSize, tail |-> f.tail, end |-> f.end, states |-> q]
    BY <1>1, <1>3, Recording
  <1>5. /\ q \in Seq(Record) /\ Len(q) = N
        /\ q[1] = s /\ \A i \in 2 .. N : q[i] = f.states[i - 1]
    <2>1. s \in Record
      BY <1>1 DEF Record
    <2> HIDE DEF s
    <2>2. <<s>> \in Seq(Record) /\ Len(<<s>>) = 1 /\ <<s>>[1] = s
      BY <2>1
    <2>3. /\ q \in Seq(Record) /\ Len(q) = 1 + Len(f.states)
          /\ \A i \in 1 .. 1 + Len(f.states) : q[i] = IF i <= 1 THEN <<s>>[i] ELSE f.states[i - 1]
      BY <1>1, <2>2, ConcatProperties
    <2> HIDE DEF q
    <2>4. 1 + Len(f.states) = N /\ N \in Nat \ {0}
      BY <1>1
    <2>5. \A i \in 1 .. N : (i <= 1 <=> i = 1) /\ (i \in 2 .. N <=> i # 1)
      BY <2>4
    <2>6. 1 \in 1 .. N /\ \A i \in 2 .. N : i \in 1 .. N
      BY <2>4
    <2>7. QED BY <2>2, <2>3, <2>4, <2>5, <2>6
  <1> HIDE DEF r, q
  <1>6. /\ h.head = f.head + StateSize /\ h.tail = SndEnd /\ h.end = SndEnd
        /\ h.states = q /\ h \in Heap
    BY <1>1, <1>4, HeapFacts
  <1> HIDE DEF h
  <1>7. h.head + SectionSize <= h.tail
    BY <1>1, <1>2, <1>6
  <1>8. /\ n.ok /\ g = [h EXCEPT !.head = h.head + SectionSize] /\ HeapOK(g)
        /\ m \in Seq(Section) /\ Len(m) = N + 1
        /\ \A k \in 1 .. N : m[k] = l[k]
        /\ m[N + 1] = c
    <2>1. LET M == Append(l, [at |-> h.head, list |-> << >>]) IN
          /\ n.ok /\ g = [h EXCEPT !.head = h.head + SectionSize] /\ HeapOK(g)
          /\ m = M /\ M \in Seq(Section) /\ Len(M) = N + 1
          /\ \A k \in 1 .. N : M[k] = l[k]
          /\ M[N + 1] = [at |-> h.head, list |-> << >>]
      BY <1>1, <1>4, <1>7, NextSection
    <2>2. QED BY <1>6, <2>1
  <1>9. /\ g.head = f.head + StateSize + SectionSize /\ g.tail = SndEnd
        /\ g.end = SndEnd /\ g.states = q
    BY <1>1, <1>6, <1>8 DEF Heap
  <1> HIDE DEF n, g, m
  <1>10. \A i \in 1 .. N : q[i].id = Len(m) - i /\ q[i].tail = SndEnd
    <2> SUFFICES ASSUME NEW i \in 1 .. N
                 PROVE  q[i].id = Len(m) - i /\ q[i].tail = SndEnd
      OBVIOUS
    <2>1. CASE i = 1
      BY <1>1, <1>5, <1>8, <2>1
    <2>2. CASE i # 1
      <3>1. i \in 2 .. N /\ i - 1 \in 1 .. N - 1
        BY <1>1, <2>2
      <3>2. f.states[i - 1].id = N - (i - 1) /\ f.states[i - 1].tail = SndEnd
        BY <3>1, LevelFacts
      <3>3. q[i] = f.states[i - 1]
        BY <1>5, <3>1
      <3>4. N + 1 - i = N - (i - 1)
        BY <1>1
      <3>5. QED BY <1>8, <3>2, <3>3, <3>4
    <2>3. QED BY <2>1, <2>2
  <1>11. ASSUME NEW k \in 1 .. N + 1
         PROVE  LevelOK(m[k], SectionAt(g, m, k), To(g, m, k))
    <2>1. CASE k = N + 1
      <3>1. From(g, m, k) = f.head /\ SectionAt(g, m, k) = f.head + StateSize
        <4>1. k # 1 /\ Len(m) - k + 1 = 1
          BY <1>1, <1>8, <2>1
        <4>2. From(g, m, k) = g.states[1].head
          BY <4>1 DEF From
        <4>3. g.states[1].head = f.head
          BY <1>5, <1>9
        <4>4. QED BY <4>1, <4>2, <4>3 DEF SectionAt
      <3>2. To(g, m, k) = f.head + StateSize + SectionSize
        BY <1>8, <1>9, <2>1 DEF To
      <3>3. m[k].at = f.head + StateSize /\ Len(m[k].list) = 0
        BY <1>8, <2>1
      <3>4. QED BY <1>1, <3>1, <3>2, <3>3 DEF LevelOK
    <2>2. CASE k # N + 1
      <3>1. k \in 1 .. N /\ Len(m) = N + 1 /\ N \in Nat
        BY <1>1, <1>8, <2>2
      <3>2. m[k] = l[k] /\ LevelOK(l[k], SectionAt(f, l, k), To(f, l, k))
        BY <1>8, <3>1 DEF Levels
      <3>3. SectionAt(g, m, k) = SectionAt(f, l, k)
        <4>1. CASE k = 1
          BY <4>1 DEF SectionAt
        <4>2. CASE k # 1
          <5>1. /\ Len(m) - k + 1 \in 2 .. N
                /\ (Len(m) - k + 1) - 1 = Len(l) - k + 1
            BY <3>1, <4>2
          <5>2. q[Len(m) - k + 1] = f.states[Len(l) - k + 1]
            BY <1>5, <5>1
          <5>3. From(g, m, k) = From(f, l, k)
            BY <1>9, <4>2, <5>2 DEF From
          <5>4. QED BY <4>2, <5>3 DEF SectionAt
        <4>3. QED BY <4>1, <4>2
      <3>4. To(g, m, k) = To(f, l, k)
        <4>1. k # Len(m) /\ To(g, m, k) = q[Len(m) - k].head
          BY <1>8, <1>9, <2>2 DEF To
        <4>2. CASE k = N
          <5>1. Len(m) - k = 1 /\ To(f, l, k) = f.head
            BY <3>1, <4>2 DEF To
          <5>2. QED BY <1>5, <4>1, <5>1
        <4>3. CASE k # N
          <5>1. /\ Len(m) - k \in 2 .. N /\ (Len(m) - k) - 1 = Len(l) - k
            BY <3>1, <4>3
          <5>2. q[Len(m) - k] = f.states[Len(l) - k]
            BY <1>5, <5>1
          <5>3. QED BY <4>1, <4>3, <5>2 DEF To
        <4>4. QED BY <4>2, <4>3
      <3>5. QED BY <3>2, <3>3, <3>4
    <2>3. QED BY <2>1, <2>2
  <1>12. Levels(g, m)
    <2>1. Len(g.states) = Len(m) - 1 /\ Len(g.states) = N /\ m # << >>
      BY <1>1, <1>5, <1>8, <1>9, EmptySeq
    <2>2. QED BY <1>8, <1>9, <1>10, <1>11, <2>1 DEF Levels
  <1>13. QED BY <1>3, <1>8, <1>12 DEF r, h, n, g, m

(* Without room for the section the record is taken back.                  *)
LEMMA RecordTakenBack ==
    ASSUME NEW f, HeapOK(f), NEW id \in Nat, RecordState(f, id).ok
    PROVE  FreeByState(RecordState(f, id).heap, 0) = f
  <1> DEFINE h == RecordState(f, id).heap
             s == [id |-> id, head |-> f.head, tail |-> f.tail]
             q == <<s>> \o f.states
  <1>1. /\ f \in Heap /\ f.head \in Int /\ f.tail \in Int /\ f.states \in Seq(Record)
        /\ Len(f.states) \in Nat
    BY HeapFacts
  <1>2. h = [head |-> f.head + StateSize, tail |-> f.tail, end |-> f.end, states |-> q]
    BY Recording
  <1> HIDE DEF h
  <1>3. /\ q \in Seq(Record) /\ Len(q) = 1 + Len(f.states) /\ q[1] = s
        /\ SubSeq(q, 2, Len(q)) = f.states
    <2>1. s \in Record
      BY <1>1 DEF Record
    <2> HIDE DEF s
    <2>2. <<s>> \in Seq(Record) /\ Len(<<s>>) = 1 /\ <<s>>[1] = s
      BY <2>1
    <2>3. /\ q \in Seq(Record) /\ Len(q) = 1 + Len(f.states)
          /\ \A i \in 1 .. 1 + Len(f.states) : q[i] = IF i <= 1 THEN <<s>>[i] ELSE f.states[i - 1]
      BY <1>1, <2>2, ConcatProperties
    <2> HIDE DEF q
    <2>4. q[1] = s
      BY <1>1, <2>2, <2>3
    <2>5. 2 \in 1 .. Len(q) + 1 /\ Len(q) \in 0 .. Len(q)
      BY <1>1, <2>3
    <2> DEFINE t == SubSeq(q, 2, Len(q))
    <2>6. /\ t \in Seq(Record) /\ Len(t) = Len(f.states)
          /\ \A i \in 1 .. Len(t) : t[i] = q[2 + i - 1]
      <3>1. /\ t \in Seq(Record)
            /\ Len(t) = IF 2 <= Len(q) THEN Len(q) - 2 + 1 ELSE 0
            /\ \A i \in 1 .. Len(t) : t[i] = q[2 + i - 1]
        BY <2>3, <2>5, SubSeqElements
      <3>2. QED BY <1>1, <2>3, <3>1
    <2> HIDE DEF t
    <2>7. ASSUME NEW i \in 1 .. Len(t) PROVE t[i] = f.states[i]
      <3>1. 2 + i - 1 \in 1 .. 1 + Len(f.states) /\ ~(2 + i - 1 <= 1)
            /\ (2 + i - 1) - 1 = i
        BY <1>1, <2>6
      <3>2. QED BY <2>3, <2>6, <3>1
    <2>8. t = f.states
      BY <1>1, <2>6, <2>7, SeqEqual
    <2>9. QED BY <2>3, <2>4, <2>8 DEF t
  <1>4. FindState(h, 0) = 1
    <2>1. h.states = q /\ q # << >>
      BY <1>1, <1>2, <1>3, EmptySeq
    <2>2. QED BY <2>1 DEF FindState
  <1>5. FreeByState(h, 0) = [h EXCEPT !.head = h.states[1].head,
                                      !.tail = h.states[1].tail,
                                      !.states = SubSeq(@, 2, Len(@))]
    <2> DEFINE p == FindState(h, 0)
    <2>1. p # 0 /\ p + 1 = 2
      BY <1>4
    <2>2. FreeByState(h, 0) = [h EXCEPT !.head = h.states[p].head,
                                        !.tail = h.states[p].tail,
                                        !.states = SubSeq(@, p + 1, Len(@))]
      BY <2>1 DEF FreeByState
    <2>3. p = 1
      BY <1>4
    <2> HIDE DEF p
    <2>4. QED BY <2>1, <2>2, <2>3
  <1>6. FreeByState(h, 0) = [head |-> s.head, tail |-> s.tail, end |-> f.end,
                             states |-> SubSeq(q, 2, Len(q))]
    <2> HIDE DEF q, s
    <2>1. h.states = q
      BY <1>2
    <2>2. QED BY <1>2, <1>3, <1>5, <2>1
  <1>7. f = [head |-> f.head, tail |-> f.tail, end |-> f.end, states |-> f.states]
    BY <1>1 DEF Heap
  <1> HIDE DEF q
  <1>8. QED BY <1>3, <1>6, <1>7 DEF h

LEMMA SaveLevels ==
    ASSUME NEW f, NEW l, Levels(f, l)
    PROVE  LET s == SaveState(f, l) IN Levels(s.heap, s.list)
  <1> DEFINE r == RecordState(f, Len(l))
             n == NewSection(r.heap, l)
             s == SaveState(f, l)
  <1>1. /\ HeapOK(f) /\ Len(l) \in Nat /\ l \in Seq(Section) /\ f.tail = SndEnd
        /\ f.head \in Int /\ StateSize \in Nat /\ SectionSize \in Nat /\ SndEnd \in Nat
    BY LevelFacts DEF Levels
  <1>2. s = IF ~r.ok THEN [ok |-> FALSE, heap |-> f, list |-> l]
            ELSE IF n.ok THEN n
            ELSE [ok |-> FALSE, heap |-> FreeByState(n.heap, 0), list |-> l]
    BY DEF SaveState
  <1>3. CASE ~r.ok
    <2>1. s.heap = f /\ s.list = l
      BY <1>2, <1>3
    <2>2. QED BY <2>1
  <1>4. CASE r.ok
    <2>1. HeapOK(r.heap) /\ r.heap.head = f.head + StateSize /\ r.heap.tail = f.tail
      <3>1. /\ r.heap = [head |-> f.head + StateSize, tail |-> f.tail, end |-> f.end,
                         states |-> <<[id |-> Len(l), head |-> f.head, tail |-> f.tail]>>
                                       \o f.states]
            /\ HeapOK(r.heap)
        BY <1>1, <1>4, Recording
      <3> HIDE DEF r
      <3>2. QED BY <3>1
    <2>2. FreeByState(r.heap, 0) = f
      BY <1>1, <1>4, RecordTakenBack
    <2> HIDE DEF r
    <2>3. CASE f.head + StateSize + SectionSize <= SndEnd
      <3>1. n.ok /\ Levels(n.heap, n.list)
        BY <2>3, NextLevel DEF r
      <3>2. s = n
        BY <1>2, <1>4, <3>1
      <3>3. QED BY <3>1, <3>2
    <2>4. CASE ~(f.head + StateSize + SectionSize <= SndEnd)
      <3>1. ~(r.heap.head + SectionSize <= r.heap.tail)
        BY <1>1, <2>1, <2>4
      <3>2. ~n.ok /\ n.heap = r.heap
        BY <1>1, <2>1, <3>1, NextSection
      <3>3. s.heap = f /\ s.list = l
        BY <1>2, <1>4, <2>2, <3>2
      <3>4. QED BY <3>3
    <2>5. QED BY <2>3, <2>4
  <1>5. QED BY <1>3, <1>4

(* Going back to a level leaves the levels up to it.                       *)
LEMMA LevelsBelow ==
    ASSUME NEW f, NEW l, Levels(f, l), NEW id \in 1 .. Len(l) - 1
    PROVE  LET g == FreeByState(f, id)
               m == SubSeq(l, 1, id)
           IN  /\ Levels(g, m) /\ Len(m) = id
               /\ g.head + StateSize + SectionSize <= SndEnd
  <1> DEFINE p == FindState(f, id)
             N == Len(l)
             q == SubSeq(f.states, p + 1, Len(f.states))
             g == FreeByState(f, id)
             m == SubSeq(l, 1, id)
  <1>1. /\ HeapOK(f) /\ f \in Heap /\ f.head \in Int /\ f.states \in Seq(Record)
        /\ StateSize \in Nat \ {0} /\ SectionSize \in Nat \ {0} /\ SndEnd \in Nat
        /\ f.head <= SndEnd
        /\ l \in Seq(Section) /\ N \in Nat \ {0} /\ Len(f.states) = N - 1
        /\ f.tail = SndEnd /\ f.end = SndEnd
        /\ \A i \in 1 .. N - 1 : /\ f.states[i].head \in Int
                                 /\ f.states[i].tail = SndEnd
                                 /\ f.states[i].id = N - i
    BY LevelFacts DEF Levels
  <1>2. p = N - id /\ p \in 1 .. N - 1
    <2>1. N - id \in 1 .. N - 1 /\ id \in Nat \ {0} /\ N - (N - id) = id
      BY <1>1
    <2>2. f.states[N - id].id = id
      BY <1>1, <2>1
    <2>3. p \in 0 .. N - 1 /\ p # 0 /\ f.states[p].id = id
      <3>1. /\ HeapOK(f) /\ id \in Nat /\ id # 0
            /\ \E i \in 1 .. Len(f.states) : f.states[i].id = id
        BY <1>1, <2>1, <2>2
      <3>2. /\ p \in 0 .. Len(f.states)
            /\ p # 0 /\ f.states[p].id = id
        BY <3>1, Finding
      <3>3. QED BY <1>1, <3>2
    <2>4. p \in 1 .. N - 1
      BY <1>1, <2>3
    <2> HIDE DEF p
    <2>5. N - p = id
      BY <1>1, <2>3, <2>4
    <2>6. QED BY <1>1, <2>1, <2>4, <2>5
  <1>3. g = [f EXCEPT !.head = f.states[p].head, !.tail = f.states[p].tail, !.states = q]
    <2>1. p # 0
      BY <1>2
    <2>2. QED BY <2>1 DEF FreeByState
  <1> HIDE DEF p
  <1>4. /\ HeapOK(g) /\ Len(q) = id - 1
        /\ \A j \in 1 .. id - 1 : q[j] = f.states[p + j]
    <2>1. /\ HeapOK(g) /\ Len(g.states) = Len(f.states) - p
          /\ \A j \in 1 .. Len(g.states) : g.states[j] = f.states[p + j]
      <3>1. HeapOK(f) /\ p \in 1 .. Len(f.states)
        BY <1>1, <1>2
      <3> DEFINE h == [f EXCEPT !.head = f.states[p].head, !.tail = f.states[p].tail,
                                !.states = q]
      <3>2. /\ HeapOK(h) /\ Len(h.states) = Len(f.states) - p
            /\ \A j \in 1 .. Len(h.states) : h.states[j] = f.states[p + j]
        BY <3>1, GoingBack
      <3>3. g = h
        BY <1>3
      <3> HIDE DEF h, g
      <3>4. QED BY <3>2, <3>3
    <2>2. g.states = q
      BY <1>1, <1>3 DEF Heap
    <2> HIDE DEF g, q
    <2>3. Len(q) = id - 1
      BY <1>1, <1>2, <2>1, <2>2
    <2>4. QED BY <2>1, <2>2, <2>3
  <1>5. /\ g.head = f.states[p].head /\ g.tail = SndEnd /\ g.end = SndEnd /\ g.states = q
    BY <1>1, <1>2, <1>3 DEF Heap
  <1> HIDE DEF g, q
  <1>6. m \in Seq(Section) /\ Len(m) = id /\ \A k \in 1 .. id : m[k] = l[k]
    <2>1. 1 \in 1 .. N + 1 /\ id \in 0 .. N /\ id \in Nat \ {0}
      BY <1>1
    <2>2. /\ m \in Seq(Section) /\ Len(m) = IF 1 <= id THEN id - 1 + 1 ELSE 0
          /\ \A k \in 1 .. Len(m) : m[k] = l[1 + k - 1]
      BY <1>1, <2>1, SubSeqElements
    <2>3. Len(m) = id
      BY <2>1, <2>2
    <2>4. \A k \in 1 .. id : 1 + k - 1 = k
      BY <2>1
    <2>5. QED BY <2>2, <2>3, <2>4
  <1> HIDE DEF m
  <1>7. \A j \in 1 .. id - 1 :
           q[j].id = Len(m) - j /\ q[j].tail = SndEnd /\ q[j] = f.states[N - id + j]
    <2> SUFFICES ASSUME NEW j \in 1 .. id - 1
                 PROVE  /\ q[j].id = Len(m) - j /\ q[j].tail = SndEnd
                        /\ q[j] = f.states[N - id + j]
      OBVIOUS
    <2>1. N - id + j \in 1 .. N - 1 /\ N - (N - id + j) = id - j
      BY <1>1
    <2>2. q[j] = f.states[N - id + j]
      BY <1>2, <1>4
    <2>3. QED BY <1>1, <1>6, <2>1, <2>2
  <1>8. ASSUME NEW k \in 1 .. id
        PROVE  LevelOK(m[k], SectionAt(g, m, k), To(g, m, k))
    <2>1. m[k] = l[k] /\ k \in 1 .. N /\ LevelOK(l[k], SectionAt(f, l, k), To(f, l, k))
      BY <1>1, <1>6 DEF Levels
    <2>2. SectionAt(g, m, k) = SectionAt(f, l, k)
      <3>1. CASE k = 1
        BY <3>1 DEF SectionAt
      <3>2. CASE k # 1
        <4>1. id - k + 1 \in 1 .. id - 1 /\ N - id + (id - k + 1) = N - k + 1
          BY <1>1, <3>2
        <4>2. q[id - k + 1] = f.states[N - k + 1]
          BY <1>7, <4>1
        <4>3. From(g, m, k) = From(f, l, k)
          BY <1>5, <1>6, <3>2, <4>2 DEF From
        <4>4. QED BY <3>2, <4>3 DEF SectionAt
      <3>3. QED BY <3>1, <3>2
    <2>3. To(g, m, k) = To(f, l, k)
      <3>1. k # N
        BY <1>1
      <3>2. To(f, l, k) = f.states[N - k].head
        BY <3>1 DEF To
      <3>3. CASE k = id
        BY <1>2, <1>5, <1>6, <3>2, <3>3 DEF To
      <3>4. CASE k # id
        <4>1. id - k \in 1 .. id - 1 /\ N - id + (id - k) = N - k
          BY <1>1, <3>4
        <4>2. q[id - k] = f.states[N - k]
          BY <1>7, <4>1
        <4>3. QED BY <1>5, <1>6, <3>2, <3>4, <4>2 DEF To
      <3>5. QED BY <3>3, <3>4
    <2>4. QED BY <2>1, <2>2, <2>3
  <1>9. Levels(g, m)
    <2>1. m # << >> /\ Len(g.states) = Len(m) - 1
      BY <1>4, <1>5, <1>6, EmptySeq
    <2>2. QED BY <1>4, <1>5, <1>6, <1>7, <1>8, <2>1 DEF Levels
  (* The level had its section there before.                               *)
  <1>10. g.head + StateSize + SectionSize <= SndEnd
    <2> DEFINE k == id + 1
               z == To(f, l, k)
    <2>1. k \in 1 .. N /\ k # 1 /\ Len(l) - k + 1 = p
      BY <1>1, <1>2
    <2>2. SectionAt(f, l, k) = g.head + StateSize
      BY <1>5, <2>1 DEF SectionAt, From
    <2>3. SectionAt(f, l, k) + SectionSize <= z
      BY <2>1 DEF Levels, LevelOK
    <2>4. z \in Int /\ z <= f.head
      BY <2>1, LevelsInOrder
    <2>5. g.head \in Int
      BY <1>4, HeapFacts
    <2> HIDE DEF z, k
    <2>6. QED BY <1>1, <2>2, <2>3, <2>4, <2>5
  <1>11. QED BY <1>6, <1>9, <1>10 DEF g, m

LEMMA BackToLevels ==
    ASSUME NEW f, NEW l, Levels(f, l), NEW id \in 1 .. Len(l) - 1
    PROVE  LET n == BackTo(f, l, id) IN Levels(n.heap, n.list)
  <1> DEFINE g == FreeByState(f, id)
             m == SubSeq(l, 1, id)
             n == NewSection(RecordState(g, id).heap, m)
  <1>1. Levels(g, m) /\ Len(m) = id /\ g.head + StateSize + SectionSize <= SndEnd
    BY LevelsBelow
  <1>2. BackTo(f, l, id) = n
    BY DEF BackTo
  <1> HIDE DEF g, m
  <1>3. Levels(n.heap, n.list)
    <2>1. LET r == RecordState(g, Len(m))
              k == NewSection(r.heap, m)
          IN  r.ok /\ k.ok /\ Levels(k.heap, k.list)
      BY <1>1, NextLevel
    <2>2. QED BY <1>1, <2>1
  <1>4. QED BY <1>2, <1>3

LEMMA ClearedHeap ==
    ASSUME NEW f, f \in Heap, f.end = SndEnd
    PROVE  FreeTail(FreeHead(f)) = EmptyHeap
  <1> DEFINE h == FreeHead(f)
             q == [i \in DOMAIN h.states |-> [h.states[i] EXCEPT !.tail = h.end]]
             e == FreeTail(h)
  <1>1. << >> \in Seq(Record) /\ FrmStart \in Int /\ SndEnd \in Int
    BY FrmAssumption, SndHeapAssumption
  <1>2. h = [f EXCEPT !.head = FrmStart, !.states = << >>]
    BY DEF FreeHead
  <1> HIDE DEF h
  <1>3. h \in Heap /\ h.head = FrmStart /\ h.end = f.end /\ h.states = << >>
    BY <1>1, <1>2 DEF Heap
  <1>4. e = [h EXCEPT !.tail = h.end, !.states = q]
    BY DEF FreeTail
  <1>5. q = << >>
    BY <1>3
  <1> HIDE DEF q, e
  <1>6. /\ e \in Heap /\ e.head = FrmStart /\ e.tail = SndEnd /\ e.end = SndEnd
        /\ e.states = << >>
    BY <1>1, <1>3, <1>4, <1>5 DEF Heap
  <1>7. e = [head |-> e.head, tail |-> e.tail, end |-> e.end, states |-> e.states]
    BY <1>6 DEF Heap
  <1>8. QED BY <1>6, <1>7 DEF EmptyHeap, e, h

(* A heap with nothing in it, and its first section.                       *)
LEMMA FirstLevel ==
    ASSUME NEW f \in Heap, f.end = SndEnd
    PROVE  LET n == Cleared(f) IN Levels(n.heap, n.list)
  <1> DEFINE e == FreeTail(FreeHead(f))
             n == NewSection(e, << >>)
  <1>1. /\ SndEnd \in Nat /\ SectionSize \in Nat \ {0} /\ FrmStart \in Nat
        /\ FrmStart + SectionSize <= SndEnd
    BY SndHeapAssumption, FrmAssumption
  <1>2. e = EmptyHeap
    BY ClearedHeap
  <1> HIDE DEF e
  <1>3. HeapOK(EmptyHeap) /\ EmptyHeap.head = FrmStart /\ EmptyHeap.tail = SndEnd
        /\ EmptyHeap.end = SndEnd /\ EmptyHeap.states = << >> /\ EmptyHeap \in Heap
    <2>1. << >> \in Seq(Record) /\ Len(<< >>) = 0
      OBVIOUS
    <2>2. /\ EmptyHeap.head = FrmStart /\ EmptyHeap.tail = SndEnd
          /\ EmptyHeap.end = SndEnd /\ EmptyHeap.states = << >> /\ EmptyHeap \in Heap
      BY <1>1, <2>1 DEF EmptyHeap, Heap
    <2>3. QED BY <1>1, <2>1, <2>2 DEF HeapOK
  <1> DEFINE c == [at |-> FrmStart, list |-> << >>]
             m == Append(<< >>, c)
             g == n.heap
  <1>4. /\ n.list = m /\ m \in Seq(Section) /\ Len(m) = 1 /\ m[1] = c
        /\ g = [EmptyHeap EXCEPT !.head = FrmStart + SectionSize] /\ HeapOK(g)
    <2>1. << >> \in Seq(Section) /\ Len(<< >>) = 0
      OBVIOUS
    <2>2. FrmStart + SectionSize <= EmptyHeap.tail
      BY <1>1, <1>3
    <2>3. LET k == NewSection(EmptyHeap, << >>)
              M == Append(<< >>, [at |-> EmptyHeap.head, list |-> << >>])
          IN  /\ k.heap = [EmptyHeap EXCEPT !.head = EmptyHeap.head + SectionSize]
              /\ HeapOK(k.heap) /\ k.list = M /\ M \in Seq(Section) /\ Len(M) = 0 + 1
              /\ M[0 + 1] = [at |-> EmptyHeap.head, list |-> << >>]
      BY <1>3, <2>1, <2>2, NextSection
    <2>4. 0 + 1 = 1
      OBVIOUS
    <2>5. QED BY <1>2, <1>3, <2>3, <2>4
  <1>5. /\ g.head = FrmStart + SectionSize /\ g.tail = SndEnd /\ g.end = SndEnd
        /\ g.states = << >>
    BY <1>3, <1>4 DEF Heap
  <1>6. c.at = FrmStart /\ Len(c.list) = 0
    OBVIOUS
  <1> HIDE DEF n, m, g, c
  <1>7. \A k \in 1 .. Len(m) : LevelOK(m[k], SectionAt(g, m, k), To(g, m, k))
    <2> SUFFICES ASSUME NEW k \in 1 .. Len(m)
                 PROVE  LevelOK(m[k], SectionAt(g, m, k), To(g, m, k))
      OBVIOUS
    <2>1. k = 1 /\ m[k] = c
      BY <1>4
    <2>2. SectionAt(g, m, k) = FrmStart /\ To(g, m, k) = FrmStart + SectionSize
      BY <1>4, <1>5, <2>1 DEF SectionAt, To
    <2>3. QED BY <1>1, <1>6, <2>1, <2>2 DEF LevelOK
  <1>8. Levels(g, m)
    <2>1. Len(g.states) = 0
      BY <1>5
    <2>2. m # << >>
      BY <1>4
    <2>3. \A i \in 1 .. Len(g.states) : FALSE
      BY <2>1
    <2>4. QED BY <1>4, <1>5, <1>7, <2>1, <2>2, <2>3 DEF Levels
  <1>9. Cleared(f) = n
    BY DEF Cleared, n, e
  <1>10. QED BY <1>4, <1>8, <1>9 DEF g

(* A block in the last level.                                              *)
LEMMA BlockAdded ==
    ASSUME NEW f, NEW l, Levels(f, l), NEW size \in Nat \ {0}, NEW align \in Nat \ {0},
           AllocFromHead(f, size, align).ok
    PROVE  LET a == AllocFromHead(f, size, align)
               b == [at |-> a.at, size |-> a.heap.head - a.at]
           IN  Levels(a.heap, [l EXCEPT ![Len(l)].list = Append(@, b)])
  <1> DEFINE N == Len(l)
             a == AllocFromHead(f, size, align)
             g == a.heap
             b == [at |-> a.at, size |-> g.head - a.at]
             m == [l EXCEPT ![N].list = Append(@, b)]
  <1>1. /\ HeapOK(f) /\ f \in Heap /\ f.head \in Int /\ f.states \in Seq(Record)
        /\ l \in Seq(Section) /\ N \in Nat \ {0} /\ Len(f.states) = N - 1
        /\ DOMAIN l = 1 .. N /\ f.tail = SndEnd /\ f.end = SndEnd
        /\ SectionSize \in Nat /\ l # << >>
        /\ \A i \in 1 .. N - 1 : f.states[i].tail = SndEnd /\ f.states[i].id = N - i
    BY LevelFacts DEF Levels
  <1>2. /\ a.at \in Int /\ f.head <= a.at /\ g = [f EXCEPT !.head = a.at + size]
        /\ HeapOK(g)
    BY <1>1, HeadAllocation
  <1> HIDE DEF a
  <1>3. /\ g.head = a.at + size /\ g.tail = SndEnd /\ g.end = SndEnd
        /\ g.states = f.states
    BY <1>1, <1>2 DEF Heap
  <1> HIDE DEF g
  <1>4. b \in Block /\ b.at = a.at /\ b.at + b.size = g.head
    BY <1>2, <1>3 DEF Block
  <1> HIDE DEF b
  <1> DEFINE c == l[N]
             d == [at |-> c.at, list |-> Append(c.list, b)]
  <1>5. /\ c \in Section /\ c.list \in Seq(Block) /\ c.at \in Int /\ Len(c.list) \in Nat
        /\ LevelOK(c, SectionAt(f, l, N), f.head)
    <2>1. N \in 1 .. N
      <3>1. N \in Nat \ {0}
        BY LevelFacts
      <3>2. QED BY <3>1
    <2>2. c \in Section
      BY <2>1, LevelFacts
    <2>3. To(f, l, N) = f.head
      BY DEF To
    <2>4. LevelOK(c, SectionAt(f, l, N), To(f, l, N))
      BY <2>1 DEF Levels
    <2>5. QED BY <2>2, <2>3, <2>4, SectionFacts
  <1>6. /\ d \in Section /\ d.at = c.at /\ Len(d.list) = Len(c.list) + 1
        /\ d.list[Len(c.list) + 1] = b
        /\ \A i \in 1 .. Len(c.list) : d.list[i] = c.list[i]
    <2>1. /\ Append(c.list, b) \in Seq(Block)
          /\ Len(Append(c.list, b)) = Len(c.list) + 1
          /\ Append(c.list, b)[Len(c.list) + 1] = b
          /\ \A i \in 1 .. Len(c.list) : Append(c.list, b)[i] = c.list[i]
      BY <1>4, <1>5, AppendProperties
    <2>2. QED BY <1>5, <2>1 DEF Section
  <1> HIDE DEF c
  <1>7. m = [l EXCEPT ![N] = d]
    <2>1. c = [at |-> c.at, list |-> c.list]
      BY <1>5 DEF Section
    <2>2. [c EXCEPT !.list = Append(@, b)] = d
      BY <2>1
    <2>3. QED BY <2>2 DEF c
  <1> HIDE DEF d, m
  <1>8. /\ m \in Seq(Section) /\ Len(m) = N /\ m[N] = d
        /\ \A k \in 1 .. N : k # N => m[k] = l[k]
    <2>1. N \in 1 .. Len(l)
      <3>1. N \in Nat \ {0}
        BY LevelFacts
      <3>2. QED BY <3>1
    <2>2. l \in Seq(Section) /\ d \in Section
      BY <1>1, <1>6
    <2>3. QED BY <1>7, <2>1, <2>2, ExceptSeq
  <1>9. \A k \in 1 .. N : SectionAt(g, m, k) = SectionAt(f, l, k)
    BY <1>3, <1>8 DEF SectionAt, From
  <1>10. ASSUME NEW k \in 1 .. N PROVE LevelOK(m[k], SectionAt(g, m, k), To(g, m, k))
    <2>1. CASE k # N
      <3>1. To(g, m, k) = To(f, l, k) /\ m[k] = l[k]
        BY <1>3, <1>8, <2>1 DEF To
      <3>2. LevelOK(l[k], SectionAt(f, l, k), To(f, l, k))
        BY DEF Levels
      <3>3. QED BY <1>9, <3>1, <3>2
    <2>2. CASE k = N
      <3> DEFINE e == SectionAt(f, l, N)
      <3>1. To(g, m, k) = g.head /\ m[k] = d /\ SectionAt(g, m, k) = e
        BY <1>8, <1>9, <2>2 DEF To
      <3>2. /\ c.at = e /\ e + SectionSize <= f.head
            /\ \A i \in 1 .. Len(c.list) :
                  /\ e + SectionSize <= c.list[i].at
                  /\ c.list[i].at + c.list[i].size <= f.head
                  /\ c.list[i].at \in Int /\ c.list[i].size \in Int
            /\ \A i, j \in 1 .. Len(c.list) :
                  i < j => c.list[i].at + c.list[i].size <= c.list[j].at
        BY <1>5, SectionFacts DEF LevelOK
      <3> HIDE DEF e
      <3>3. /\ e \in Int /\ g.head \in Int /\ f.head <= b.at /\ f.head <= g.head
            /\ b.at \in Int /\ f.head \in Int /\ SectionSize \in Nat
            /\ Len(c.list) \in Nat
        <4>1. e \in Int /\ Len(c.list) \in Nat
          BY <1>5, <3>2
        <4>2. f.head \in Int /\ SectionSize \in Nat
          BY <1>1
        <4>3. a.at \in Int /\ f.head <= a.at /\ g.head = a.at + size
          BY <1>2, <1>3
        <4>4. g.head \in Int /\ f.head <= g.head
          BY <4>2, <4>3
        <4>5. QED BY <1>4, <4>1, <4>2, <4>3, <4>4
      <3>4. e + SectionSize <= g.head
        <4>1. e + SectionSize <= f.head
          BY <3>2
        <4>2. QED BY <3>3, <4>1
      <3>5. ASSUME NEW i \in 1 .. Len(c.list) + 1
            PROVE  e + SectionSize <= d.list[i].at /\ d.list[i].at + d.list[i].size <= g.head
        <4>1. CASE i = Len(c.list) + 1
          <5>1. d.list[i] = b /\ b.at + b.size = g.head
            BY <1>4, <1>6, <4>1
          <5>2. e + SectionSize <= f.head
            BY <3>2
          <5>3. g.head <= g.head /\ e + SectionSize <= b.at
            BY <3>3, <5>2
          <5>4. QED BY <5>1, <5>3
        <4>2. CASE i # Len(c.list) + 1
          <5>1. i \in 1 .. Len(c.list)
            BY <1>5, <4>2
          <5>2. d.list[i] = c.list[i]
            BY <1>6, <5>1
          <5> DEFINE x == c.list[i]
          <5>3. /\ e + SectionSize <= x.at /\ x.at + x.size <= f.head
                /\ x.at \in Int /\ x.size \in Int
            BY <3>2, <5>1
          <5> HIDE DEF x
          <5>4. x.at + x.size <= g.head
            BY <3>3, <5>3
          <5>5. QED BY <5>2, <5>3, <5>4 DEF x
        <4>3. QED BY <4>1, <4>2
      <3>6. ASSUME NEW i \in 1 .. Len(c.list) + 1, NEW j \in 1 .. Len(c.list) + 1, i < j
            PROVE  d.list[i].at + d.list[i].size <= d.list[j].at
        <4>1. i \in 1 .. Len(c.list) /\ d.list[i] = c.list[i]
          BY <1>5, <1>6, <3>6
        <4>2. CASE j = Len(c.list) + 1
          <5> DEFINE x == c.list[i]
          <5>1. x.at + x.size <= f.head /\ x.at \in Int /\ x.size \in Int
            BY <3>2, <4>1
          <5> HIDE DEF x
          <5>2. x.at + x.size <= b.at
            BY <3>3, <5>1
          <5>3. d.list[j] = b
            BY <1>6, <4>2
          <5>4. QED BY <4>1, <5>2, <5>3 DEF x
        <4>3. CASE j # Len(c.list) + 1
          <5>1. j \in 1 .. Len(c.list) /\ d.list[j] = c.list[j]
            BY <1>5, <1>6, <4>3
          <5>2. QED BY <3>2, <3>6, <4>1, <5>1
        <4>4. QED BY <4>2, <4>3
      <3>7. LevelOK(d, e, g.head)
        BY <1>6, <3>2, <3>4, <3>5, <3>6 DEF LevelOK
      <3>8. QED BY <3>1, <3>7
    <2>3. QED BY <2>1, <2>2
  <1>11. Levels(g, m)
    <2>1. m # << >>
      BY <1>1, <1>8
    <2>2. \A i \in 1 .. Len(g.states) : g.states[i].id = Len(m) - i /\ g.states[i].tail = SndEnd
      BY <1>1, <1>3, <1>8
    <2>3. Len(g.states) = Len(m) - 1
      BY <1>1, <1>3, <1>8
    <2>4. QED BY <1>2, <1>3, <1>8, <1>10, <2>1, <2>2, <2>3 DEF Levels
  <1>12. QED BY <1>11 DEF g, m, b, a

-----------------------------------------------------------------------------
LEMMA SndHeapInvariant == SndHeapSpec => []SndInv
  <1>1. /\ EmptyHeap \in Heap /\ EmptyHeap.end = SndEnd
        /\ \A size \in SndSize : BlockHead + RoundUp(size, BlockAlignTo) \in Nat \ {0}
        /\ BlockAlignTo \in Nat \ {0}
    <2>1. << >> \in Seq(Record) /\ FrmStart \in Int /\ SndEnd \in Int
      BY SndHeapAssumption, FrmAssumption
    <2>2. EmptyHeap \in Heap /\ EmptyHeap.end = SndEnd
      BY <2>1 DEF EmptyHeap, Heap
    <2>3. ASSUME NEW size \in SndSize
          PROVE  BlockHead + RoundUp(size, BlockAlignTo) \in Nat \ {0}
      <3>1. /\ size \in Nat \ {0} /\ BlockAlignTo \in Nat \ {0} /\ BlockHead \in Nat \ {0}
        BY SndHeapAssumption
      <3>2. RoundUp(size, BlockAlignTo) \in Int /\ RoundUp(size, BlockAlignTo) >= size
        BY <3>1, Rounding
      <3>3. QED BY <3>1, <3>2
    <2>4. QED BY <2>2, <2>3, SndHeapAssumption
  <1>2. SndHeapInit => SndInv
    <2> SUFFICES ASSUME SndHeapInit PROVE SndInv
      OBVIOUS
    <2> DEFINE n == NewSection(EmptyHeap, << >>)
    <2>1. FreeTail(FreeHead(EmptyHeap)) = EmptyHeap
      BY <1>1, ClearedHeap
    <2>2. Cleared(EmptyHeap) = n
      BY <2>1 DEF Cleared
    <2>3. Levels(n.heap, n.list)
      BY <1>1, <2>2, FirstLevel
    <2>4. frm = n.heap /\ sections = n.list
      BY DEF SndHeapInit
    <2> HIDE DEF n
    <2>5. n.list # << >>
      BY <2>3 DEF Levels
    <2>6. QED BY <2>3, <2>4, <2>5 DEF SndInv
  <1>3. SndInv /\ [SndHeapNext]_sndHeapVars => SndInv'
    <2> SUFFICES ASSUME SndInv, [SndHeapNext]_sndHeapVars PROVE SndInv'
      OBVIOUS
    (* It is enough that the heap and the list become levels.              *)
    <2>1. \A g, m : Levels(g, m) /\ Install(g, m) => SndInv'
      BY DEF Install, SndInv, Levels
    <2>2. sections # << >> => Levels(frm, sections)
      BY DEF SndInv
    <2>3. ASSUME NEW size \in SndSize, SndAlloc(size) PROVE SndInv'
      <3> DEFINE z == BlockHead + RoundUp(size, BlockAlignTo)
                 a == AllocFromHead(frm, z, BlockAlignTo)
                 b == [at |-> a.at, size |-> a.heap.head - a.at]
                 m == [sections EXCEPT ![Len(sections)].list = Append(@, b)]
      <3>1. sections # << >> /\ a.ok /\ Install(a.heap, m)
        BY <2>3 DEF SndAlloc
      <3>2. Levels(a.heap, m)
        BY <1>1, <2>2, <3>1, BlockAdded
      <3> HIDE DEF a, m
      <3>3. QED BY <2>1, <3>1, <3>2
    <2>4. ASSUME SndSaveState PROVE SndInv'
      <3> DEFINE s == SaveState(frm, sections)
      <3>1. sections # << >> /\ Install(s.heap, s.list)
        BY <2>4 DEF SndSaveState
      <3>2. Levels(s.heap, s.list)
        BY <2>2, <3>1, SaveLevels
      <3> HIDE DEF s
      <3>3. QED BY <2>1, <3>1, <3>2
    <2>5. ASSUME NEW id \in 0 .. MaxLevel, SndLoadState(id) PROVE SndInv'
      <3>1. sections # << >> /\ id < Len(sections) /\ Levels(frm, sections)
        BY <2>2, <2>5 DEF SndLoadState
      <3>2. CASE id = 0
        <4> DEFINE n == Cleared(frm)
        <4>1. Install(n.heap, n.list)
          BY <2>5, <3>2 DEF SndLoadState
        <4>2. frm \in Heap /\ frm.end = SndEnd
          BY <3>1, LevelFacts DEF Levels
        <4>3. Levels(n.heap, n.list)
          BY <4>2, FirstLevel
        <4> HIDE DEF n
        <4>4. QED BY <2>1, <4>1, <4>3
      <3>3. CASE id # 0
        <4> DEFINE n == BackTo(frm, sections, id)
        <4>1. Install(n.heap, n.list)
          BY <2>5, <3>3 DEF SndLoadState
        <4>2. id \in 1 .. Len(sections) - 1
          <5>1. Len(sections) \in Nat /\ id \in Nat
            BY <3>1, LevelFacts
          <5>2. QED BY <3>1, <3>3, <5>1
        <4>3. Levels(n.heap, n.list)
          BY <3>1, <4>2, BackToLevels
        <4> HIDE DEF n
        <4>4. QED BY <2>1, <4>1, <4>3
      <3>4. QED BY <3>2, <3>3
    <2>6. ASSUME SndDestroy PROVE SndInv'
      BY <2>6 DEF SndDestroy, Install, SndInv, EmptyHeap
    <2>7. ASSUME SndCreate PROVE SndInv'
      <3> DEFINE n == Cleared(EmptyHeap)
      <3>1. Install(n.heap, n.list) /\ Levels(n.heap, n.list)
        BY <1>1, <2>7, FirstLevel DEF SndCreate
      <3> HIDE DEF n
      <3>2. QED BY <2>1, <3>1
    <2>8. ASSUME UNCHANGED sndHeapVars PROVE SndInv'
      BY <2>8 DEF SndInv, sndHeapVars, frmVars
    <2>9. QED BY <2>3, <2>4, <2>5, <2>6, <2>7, <2>8 DEF SndHeapNext
  <1>4. QED BY <1>2, <1>3, PTL DEF SndHeapSpec

(***************************************************************************)
(* Whatever is allocated, saved, gone back to, cleared and made again, and *)
(* whatever fails for want of room, every level saved has one record with  *)
(* its number, and the records, the sections and the blocks whose callback *)
(* has not run are in memory that is not free, none over another: LoadState*)
(* finds the level it is asked for, and no block loses its memory before   *)
(* its callback runs.                                                      *)
(***************************************************************************)
THEOREM SndLevelsKept == SndHeapSpec => []LevelsKept
  <1>1. SndInv => LevelsKept
    <2> SUFFICES ASSUME SndInv PROVE LevelsKept
      OBVIOUS
    <2>1. CASE sections = << >>
      <3>1. Blocks(sections) = {} /\ DOMAIN sections = {}
        BY <2>1 DEF Blocks
      <3>2. DOMAIN frm.states = {}
        BY <2>1 DEF SndInv, EmptyHeap
      <3>3. Owned = {}
        BY <3>1, <3>2 DEF Owned
      <3>4. QED BY <2>1, <3>3 DEF LevelsKept, LevelsRecorded, SectionsKept
    <2>2. CASE sections # << >>
      <3>1. Levels(frm, sections)
        BY <2>2 DEF SndInv
      <3>2. Owned = OwnedIn(frm, sections)
        BY DEF Owned, OwnedIn
      <3>3. SectionsKept
        BY <3>1, <3>2, LevelsHold DEF SectionsKept
      <3>4. LevelsRecorded
        <4>1. /\ DOMAIN frm.states = 1 .. Len(sections) - 1
              /\ \A i \in 1 .. Len(sections) - 1 : frm.states[i].id = Len(sections) - i
          BY <3>1, LevelFacts
        <4>2. QED BY <4>1 DEF LevelsRecorded
      <3>5. QED BY <3>3, <3>4 DEF LevelsKept
    <2>3. QED BY <2>1, <2>2
  <1>2. QED BY <1>1, SndHeapInvariant, PTL
=============================================================================
