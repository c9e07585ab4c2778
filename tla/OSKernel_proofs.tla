--------------------------- MODULE OSKernel_proofs ---------------------------
(* Theorems about OSKernel, for every set of threads, mutexes and queues,  *)
(* every range of priorities, and every choice of the calls a program makes. *)
EXTENDS OSKernel, QueueLemmas

LEMMA Constants ==
    /\ DefaultThread \in Thread /\ Isr \notin Thread /\ NULL \notin Thread /\ NULL # Isr
    /\ NULL \notin Mutex /\ NULL \notin WaitQueue /\ NULL \notin Priority
    /\ Thread \subseteq WaitQueue /\ Mutex \subseteq WaitQueue /\ UserQueue \subseteq WaitQueue
    /\ Priority \cap WaitQueue = {} /\ Priority \subseteq Nat
    /\ OS_PRIORITY_MAX \in Nat /\ DefaultPriority \in Priority
    /\ MaxSuspend \in Nat \ {0} /\ MaxLock \in Nat \ {0} /\ 0 \in Priority
  BY ThreadAssumption, BoundAssumption DEF WaitQueue, Priority

(* A set of priorities has a best one.                                     *)
LEMMA BestExists ==
    ASSUME NEW n \in Nat, NEW L \in SUBSET (0 .. n), L # {}
    PROVE  \E i \in L : \A j \in L : i <= j
  <1> DEFINE M == {i + 1 : i \in L}
  <1>1. M \in SUBSET (1 .. n + 1) /\ M # {} /\ n + 1 \in Nat
    <2>1. \A i \in L : i \in 0 .. n
      OBVIOUS
    <2>2. \A i \in L : i + 1 \in 1 .. n + 1
      BY <2>1
    <2>3. PICK i \in L : TRUE
      OBVIOUS
    <2>4. i + 1 \in M
      OBVIOUS
    <2>5. QED BY <2>2, <2>4
  <1>2. PICK k \in M : \A j \in M : k <= j
    BY <1>1, FirstPlace
  <1>3. PICK i \in L : k = i + 1
    OBVIOUS
  <1>4. \A j \in L : j + 1 \in M
    OBVIOUS
  <1> HIDE DEF M
  <1>5. \A j \in L : i <= j
    BY <1>2, <1>3, <1>4
  <1>6. QED BY <1>5

(***************************************************************************)
(* The queues rq with the bits rb, and w, hold each thread in the one that *)
(* pl names for it and nowhere else, once.                                 *)
(***************************************************************************)
Linked(pl, rq, rb, w) ==
    /\ rq \in [Priority -> Seq(Thread)] /\ w \in [WaitQueue -> Seq(Thread)]
    /\ \A p \in Priority : IsInjective(rq[p]) /\ ToSet(rq[p]) = {t \in Thread : pl[t] = p}
    /\ \A q \in WaitQueue : IsInjective(w[q]) /\ ToSet(w[q]) = {t \in Thread : pl[t] = q}
    /\ rb = {p \in Priority : rq[p] # << >>}

(* Linking a thread that is nowhere at the end of a run queue.             *)
LEMMA LinkRun ==
    ASSUME NEW pl \in [Thread -> Priority \cup WaitQueue \cup {NULL}], NEW rq, NEW rb, NEW w,
           Linked(pl, rq, rb, w), NEW t \in Thread, pl[t] = NULL, NEW p \in Priority
    PROVE  Linked([pl EXCEPT ![t] = p], [rq EXCEPT ![p] = Append(@, t)], rb \cup {p}, w)
  <1> DEFINE new == [pl EXCEPT ![t] = p]
             nq == [rq EXCEPT ![p] = Append(@, t)]
  <1>1. /\ rq \in [Priority -> Seq(Thread)] /\ w \in [WaitQueue -> Seq(Thread)]
        /\ \A r \in Priority : IsInjective(rq[r]) /\ ToSet(rq[r]) = {x \in Thread : pl[x] = r}
        /\ \A q \in WaitQueue : IsInjective(w[q]) /\ ToSet(w[q]) = {x \in Thread : pl[x] = q}
        /\ rb = {r \in Priority : rq[r] # << >>}
    BY DEF Linked
  <1>2. NULL \notin Priority /\ NULL \notin WaitQueue /\ Priority \cap WaitQueue = {}
    BY Constants
  <1>3. \A x \in Thread : new[x] = IF x = t THEN p ELSE pl[x]
    OBVIOUS
  <1>4. t \notin ToSet(rq[p]) /\ rq[p] \in Seq(Thread) /\ IsInjective(rq[p])
    BY <1>1, <1>2
  <1>5. /\ Append(rq[p], t) \in Seq(Thread)
        /\ ToSet(Append(rq[p], t)) = ToSet(rq[p]) \cup {t}
        /\ IsInjective(Append(rq[p], t)) /\ Append(rq[p], t) # << >>
    <2>1. Append(rq[p], t) # << >>
      BY <1>4
    <2>2. QED BY <1>4, <2>1, AppendSet
  <1>6. nq \in [Priority -> Seq(Thread)]
        /\ \A r \in Priority : nq[r] = IF r = p THEN Append(rq[p], t) ELSE rq[r]
    BY <1>1, <1>5
  <1> HIDE DEF new, nq
  <1>7. \A r \in Priority : IsInjective(nq[r]) /\ ToSet(nq[r]) = {x \in Thread : new[x] = r}
    <2> SUFFICES ASSUME NEW r \in Priority
                 PROVE  IsInjective(nq[r]) /\ ToSet(nq[r]) = {x \in Thread : new[x] = r}
      OBVIOUS
    <2>1. CASE r = p
      <3>1. {x \in Thread : new[x] = p} = {x \in Thread : pl[x] = p} \cup {t}
        BY <1>3
      <3>2. nq[r] = Append(rq[p], t) /\ ToSet(rq[p]) = {x \in Thread : pl[x] = p}
        BY <1>1, <1>6, <2>1
      <3>3. QED BY <1>5, <2>1, <3>1, <3>2
    <2>2. CASE r # p
      <3>1. {x \in Thread : new[x] = r} = {x \in Thread : pl[x] = r}
        BY <1>2, <1>3, <2>2
      <3>2. nq[r] = rq[r]
        BY <1>6, <2>2
      <3>3. QED BY <1>1, <3>1, <3>2
    <2>3. QED BY <2>1, <2>2
  <1>8. \A q \in WaitQueue : IsInjective(w[q]) /\ ToSet(w[q]) = {x \in Thread : new[x] = q}
    BY <1>1, <1>2, <1>3
  <1>9. rb \cup {p} = {r \in Priority : nq[r] # << >>}
    BY <1>1, <1>5, <1>6
  <1>10. QED BY <1>1, <1>6, <1>7, <1>8, <1>9 DEF Linked, new, nq

(* Taking a thread out of its run queue.                                   *)
LEMMA UnlinkRun ==
    ASSUME NEW pl \in [Thread -> Priority \cup WaitQueue \cup {NULL}], NEW rq, NEW rb, NEW w,
           Linked(pl, rq, rb, w), NEW t \in Thread, pl[t] \in Priority,
           NEW rest, rest \in Seq(Thread), IsInjective(rest),
           ToSet(rest) = ToSet(rq[pl[t]]) \ {t}
    PROVE  Linked([pl EXCEPT ![t] = NULL], [rq EXCEPT ![pl[t]] = rest],
                  IF rest = << >> THEN rb \ {pl[t]} ELSE rb, w)
  <1> DEFINE p == pl[t]
             new == [pl EXCEPT ![t] = NULL]
             nq == [rq EXCEPT ![p] = rest]
  <1>1. /\ rq \in [Priority -> Seq(Thread)] /\ w \in [WaitQueue -> Seq(Thread)]
        /\ \A r \in Priority : IsInjective(rq[r]) /\ ToSet(rq[r]) = {x \in Thread : pl[x] = r}
        /\ \A q \in WaitQueue : IsInjective(w[q]) /\ ToSet(w[q]) = {x \in Thread : pl[x] = q}
        /\ rb = {r \in Priority : rq[r] # << >>}
    BY DEF Linked
  <1>2. NULL \notin Priority /\ NULL \notin WaitQueue /\ Priority \cap WaitQueue = {}
    BY Constants
  <1>3. \A x \in Thread : new[x] = IF x = t THEN NULL ELSE pl[x]
    OBVIOUS
  <1>4. nq \in [Priority -> Seq(Thread)]
        /\ \A r \in Priority : nq[r] = IF r = p THEN rest ELSE rq[r]
    BY <1>1
  <1>5. rq[p] # << >>
    <2>1. t \in ToSet(rq[p]) /\ rq[p] \in Seq(Thread)
      BY <1>1
    <2>2. QED BY <2>1, EmptySet
  <1> HIDE DEF new, nq
  <1>6. \A r \in Priority : IsInjective(nq[r]) /\ ToSet(nq[r]) = {x \in Thread : new[x] = r}
    <2> SUFFICES ASSUME NEW r \in Priority
                 PROVE  IsInjective(nq[r]) /\ ToSet(nq[r]) = {x \in Thread : new[x] = r}
      OBVIOUS
    <2>1. CASE r = p
      <3>1. {x \in Thread : new[x] = p} = {x \in Thread : pl[x] = p} \ {t}
        BY <1>2, <1>3
      <3>2. nq[r] = rest /\ ToSet(rq[p]) = {x \in Thread : pl[x] = p}
        BY <1>1, <1>4, <2>1
      <3>3. QED BY <2>1, <3>1, <3>2
    <2>2. CASE r # p
      <3>1. {x \in Thread : new[x] = r} = {x \in Thread : pl[x] = r}
        BY <1>2, <1>3, <2>2
      <3>2. nq[r] = rq[r]
        BY <1>4, <2>2
      <3>3. QED BY <1>1, <3>1, <3>2
    <2>3. QED BY <2>1, <2>2
  <1>7. \A q \in WaitQueue : IsInjective(w[q]) /\ ToSet(w[q]) = {x \in Thread : new[x] = q}
    BY <1>1, <1>2, <1>3
  <1>8. (IF rest = << >> THEN rb \ {p} ELSE rb) = {r \in Priority : nq[r] # << >>}
    BY <1>1, <1>4, <1>5
  <1>9. QED BY <1>1, <1>4, <1>6, <1>7, <1>8 DEF Linked, new, nq

(* The same for the wait queues; l is the queue with t, wherever it goes.  *)
LEMMA LinkWait ==
    ASSUME NEW pl \in [Thread -> Priority \cup WaitQueue \cup {NULL}], NEW rq, NEW rb, NEW w,
           Linked(pl, rq, rb, w), NEW t \in Thread, pl[t] = NULL, NEW q \in WaitQueue,
           NEW l, l \in Seq(Thread), IsInjective(l), ToSet(l) = ToSet(w[q]) \cup {t}
    PROVE  Linked([pl EXCEPT ![t] = q], rq, rb, [w EXCEPT ![q] = l])
  <1> DEFINE new == [pl EXCEPT ![t] = q]
             nw == [w EXCEPT ![q] = l]
  <1>1. /\ rq \in [Priority -> Seq(Thread)] /\ w \in [WaitQueue -> Seq(Thread)]
        /\ \A r \in Priority : IsInjective(rq[r]) /\ ToSet(rq[r]) = {x \in Thread : pl[x] = r}
        /\ \A r \in WaitQueue : IsInjective(w[r]) /\ ToSet(w[r]) = {x \in Thread : pl[x] = r}
        /\ rb = {r \in Priority : rq[r] # << >>}
    BY DEF Linked
  <1>2. NULL \notin Priority /\ NULL \notin WaitQueue /\ Priority \cap WaitQueue = {}
    BY Constants
  <1>3. \A x \in Thread : new[x] = IF x = t THEN q ELSE pl[x]
    OBVIOUS
  <1>4. nw \in [WaitQueue -> Seq(Thread)]
        /\ \A r \in WaitQueue : nw[r] = IF r = q THEN l ELSE w[r]
    BY <1>1
  <1> HIDE DEF new, nw
  <1>5. \A r \in Priority : IsInjective(rq[r]) /\ ToSet(rq[r]) = {x \in Thread : new[x] = r}
    BY <1>1, <1>2, <1>3
  <1>6. \A r \in WaitQueue : IsInjective(nw[r]) /\ ToSet(nw[r]) = {x \in Thread : new[x] = r}
    <2> SUFFICES ASSUME NEW r \in WaitQueue
                 PROVE  IsInjective(nw[r]) /\ ToSet(nw[r]) = {x \in Thread : new[x] = r}
      OBVIOUS
    <2>1. CASE r = q
      <3>1. {x \in Thread : new[x] = q} = {x \in Thread : pl[x] = q} \cup {t}
        BY <1>2, <1>3
      <3>2. nw[r] = l /\ ToSet(w[q]) = {x \in Thread : pl[x] = q}
        BY <1>1, <1>4, <2>1
      <3>3. QED BY <2>1, <3>1, <3>2
    <2>2. CASE r # q
      <3>1. {x \in Thread : new[x] = r} = {x \in Thread : pl[x] = r}
        BY <1>2, <1>3, <2>2
      <3>2. nw[r] = w[r]
        BY <1>4, <2>2
      <3>3. QED BY <1>1, <3>1, <3>2
    <2>3. QED BY <2>1, <2>2
  <1>7. QED BY <1>1, <1>4, <1>5, <1>6 DEF Linked, new, nw

LEMMA UnlinkWait ==
    ASSUME NEW pl \in [Thread -> Priority \cup WaitQueue \cup {NULL}], NEW rq, NEW rb, NEW w,
           Linked(pl, rq, rb, w), NEW t \in Thread, pl[t] \in WaitQueue,
           NEW rest, rest \in Seq(Thread), IsInjective(rest),
           ToSet(rest) = ToSet(w[pl[t]]) \ {t}
    PROVE  Linked([pl EXCEPT ![t] = NULL], rq, rb, [w EXCEPT ![pl[t]] = rest])
  <1> DEFINE q == pl[t]
             new == [pl EXCEPT ![t] = NULL]
             nw == [w EXCEPT ![q] = rest]
  <1>1. /\ rq \in [Priority -> Seq(Thread)] /\ w \in [WaitQueue -> Seq(Thread)]
        /\ \A r \in Priority : IsInjective(rq[r]) /\ ToSet(rq[r]) = {x \in Thread : pl[x] = r}
        /\ \A r \in WaitQueue : IsInjective(w[r]) /\ ToSet(w[r]) = {x \in Thread : pl[x] = r}
        /\ rb = {r \in Priority : rq[r] # << >>}
    BY DEF Linked
  <1>2. NULL \notin Priority /\ NULL \notin WaitQueue /\ Priority \cap WaitQueue = {}
    BY Constants
  <1>3. \A x \in Thread : new[x] = IF x = t THEN NULL ELSE pl[x]
    OBVIOUS
  <1>4. nw \in [WaitQueue -> Seq(Thread)]
        /\ \A r \in WaitQueue : nw[r] = IF r = q THEN rest ELSE w[r]
    BY <1>1
  <1> HIDE DEF new, nw
  <1>5. \A r \in Priority : IsInjective(rq[r]) /\ ToSet(rq[r]) = {x \in Thread : new[x] = r}
    BY <1>1, <1>2, <1>3
  <1>6. \A r \in WaitQueue : IsInjective(nw[r]) /\ ToSet(nw[r]) = {x \in Thread : new[x] = r}
    <2> SUFFICES ASSUME NEW r \in WaitQueue
                 PROVE  IsInjective(nw[r]) /\ ToSet(nw[r]) = {x \in Thread : new[x] = r}
      OBVIOUS
    <2>1. CASE r = q
      <3>1. {x \in Thread : new[x] = q} = {x \in Thread : pl[x] = q} \ {t}
        BY <1>2, <1>3
      <3>2. nw[r] = rest /\ ToSet(w[q]) = {x \in Thread : pl[x] = q}
        BY <1>1, <1>4, <2>1
      <3>3. QED BY <2>1, <3>1, <3>2
    <2>2. CASE r # q
      <3>1. {x \in Thread : new[x] = r} = {x \in Thread : pl[x] = r}
        BY <1>2, <1>3, <2>2
      <3>2. nw[r] = w[r]
        BY <1>4, <2>2
      <3>3. QED BY <1>1, <3>1, <3>2
    <2>3. QED BY <2>1, <2>2
  <1>7. QED BY <1>1, <1>4, <1>5, <1>6 DEF Linked, new, nw

-----------------------------------------------------------------------------
(***************************************************************************)
(* Stacks of frames.  Every function that does more than loop and return   *)
(* is outermost in its thread; only the loops of Inner run above another.  *)
(***************************************************************************)
Inner == {"OSWakeupThread", "UpdatePriority", "__OSPromoteThread", "__OSUnlockAllMutex",
          "__OSReschedule"}

IsrFrames == {"OSWakeupThread", "UpdatePriority", "__OSReschedule", "IsrReturn"}

Good(s) == \A i \in 1 .. Len(s) - 1 : s[i].fn \in Inner

LEMMA Popped ==
    ASSUME NEW s \in Seq(Frame), s # << >>
    PROVE  /\ Head(s) \in Frame /\ Head(s) \in ToSet(s) /\ Tail(s) \in Seq(Frame)
           /\ ToSet(s) = ToSet(Tail(s)) \cup {Head(s)}
           /\ Good(s) => Good(Tail(s))
           /\ Good(s) /\ Head(s).fn \notin Inner => Tail(s) = << >>
           /\ Tail(s) # << >> => Last(Tail(s)) = Last(s)
           /\ Tail(s) = << >> => Last(s) = Head(s)
  <1>1. /\ Head(s) \in ToSet(s) /\ Head(s) \in Frame /\ Tail(s) \in Seq(Frame)
        /\ ToSet(s) = ToSet(Tail(s)) \cup {Head(s)}
    BY TailSet
  <1>2. /\ Len(s) \in Nat \ {0} /\ Head(s) = s[1] /\ Len(Tail(s)) = Len(s) - 1
        /\ \A i \in 1 .. Len(s) - 1 : Tail(s)[i] = s[i + 1]
        /\ Tail(s) = << >> <=> Len(s) = 1
    <2>1. Tail(s) = << >> <=> Len(Tail(s)) = 0
      BY <1>1, EmptySeq
    <2>2. QED BY <2>1, HeadTailProperties, EmptySeq
  <1>3. Good(s) => Good(Tail(s))
    <2>1. ASSUME NEW i \in 1 .. Len(s) - 2
          PROVE  Tail(s)[i] = s[i + 1] /\ i + 1 \in 1 .. Len(s) - 1
      BY <1>2
    <2>2. QED BY <1>2, <2>1 DEF Good
  <1>4. Good(s) /\ Head(s).fn \notin Inner => Tail(s) = << >>
    BY <1>2 DEF Good
  <1>5. Tail(s) # << >> => Last(Tail(s)) = Last(s)
    BY <1>2 DEF Last
  <1>6. Tail(s) = << >> => Last(s) = Head(s)
    BY <1>2 DEF Last
  <1>7. QED BY <1>1, <1>3, <1>4, <1>5, <1>6

LEMMA Pushed ==
    ASSUME NEW s \in Seq(Frame), NEW f \in Frame
    PROVE  LET n == <<f>> \o s IN
           /\ n \in Seq(Frame) /\ n # << >> /\ Head(n) = f /\ ToSet(n) = ToSet(s) \cup {f}
           /\ Good(s) /\ (s = << >> \/ f.fn \in Inner) => Good(n)
           /\ Last(n) = IF s = << >> THEN f ELSE Last(s)
  <1> DEFINE n == <<f>> \o s
  <1>1. /\ n \in Seq(Frame) /\ Len(n) = Len(s) + 1 /\ Len(s) \in Nat
        /\ n[1] = f /\ \A i \in 1 .. Len(s) : n[i + 1] = s[i]
        /\ DOMAIN n = 1 .. Len(n) /\ DOMAIN s = 1 .. Len(s)
        /\ (Len(s) = 0 <=> s = << >>)
    <2>1. <<f>> \in Seq(Frame) /\ Len(<<f>>) = 1 /\ <<f>>[1] = f
      OBVIOUS
    <2>2. QED BY <2>1, ConcatProperties, EmptySeq, LenProperties
  <1> HIDE DEF n
  <1>2. n # << >> /\ Head(n) = f
    BY <1>1, HeadTailProperties, EmptySeq
  <1>3. ToSet(n) = ToSet(s) \cup {f}
    <2>1. \A x \in ToSet(n) : x \in ToSet(s) \cup {f}
      <3> SUFFICES ASSUME NEW i \in 1 .. Len(n) PROVE n[i] \in ToSet(s) \cup {f}
        BY <1>1 DEF ToSet
      <3>1. CASE i = 1
        BY <1>1, <3>1
      <3>2. CASE i # 1
        <4>1. i - 1 \in 1 .. Len(s) /\ (i - 1) + 1 = i
          BY <1>1, <3>2
        <4>2. n[i] = s[i - 1]
          BY <1>1, <4>1
        <4>3. QED BY <1>1, <4>1, <4>2 DEF ToSet
      <3>3. QED BY <3>1, <3>2
    <2>2. f \in ToSet(n)
      BY <1>1 DEF ToSet
    <2>3. \A x \in ToSet(s) : x \in ToSet(n)
      <3> SUFFICES ASSUME NEW i \in 1 .. Len(s) PROVE s[i] \in ToSet(n)
        BY <1>1 DEF ToSet
      <3>1. i + 1 \in DOMAIN n /\ n[i + 1] = s[i]
        BY <1>1
      <3>2. QED BY <3>1 DEF ToSet
    <2>4. QED BY <2>1, <2>2, <2>3
  <1>4. ASSUME Good(s), s = << >> \/ f.fn \in Inner PROVE Good(n)
    <2> SUFFICES ASSUME NEW i \in 1 .. Len(n) - 1 PROVE n[i].fn \in Inner
      BY DEF Good
    <2>1. CASE i = 1
      BY <1>1, <1>4, <2>1
    <2>2. CASE i # 1
      <3>1. i - 1 \in 1 .. Len(s) - 1 /\ i - 1 \in 1 .. Len(s) /\ (i - 1) + 1 = i
        BY <1>1, <2>2
      <3>2. n[i] = s[i - 1]
        BY <1>1, <3>1
      <3>3. QED BY <1>4, <3>1, <3>2 DEF Good
    <2>3. QED BY <2>1, <2>2
  <1>5. Last(n) = IF s = << >> THEN f ELSE Last(s)
    BY <1>1 DEF Last
  <1>6. QED BY <1>1, <1>2, <1>3, <1>4, <1>5 DEF n

LEMMA FrameFacts ==
    ASSUME NEW f \in Frame
    PROVE  /\ f.fn = "OSWakeupThread" => f.arg \in WaitQueue
           /\ f.fn = "UpdatePriority" => f.arg \in Thread \cup {NULL}
           /\ f.fn \in {"__OSPromoteThread", "CancelTail", "JoinTail", "__OSUnlockAllMutex"}
                => f.arg \in Thread
           /\ f.fn \in {"OSLockMutex", "LockSleep", "LockWoken"} => f.arg \in Mutex
  BY DEF Frame

LEMMA FrameIntro ==
    /\ \A q \in WaitQueue : F("OSWakeupThread", q) \in Frame
    /\ \A t \in Thread : /\ F("CancelTail", t) \in Frame /\ F("JoinTail", t) \in Frame
                         /\ F("__OSUnlockAllMutex", t) \in Frame
    /\ \A t \in Thread \cup {NULL} : F("UpdatePriority", t) \in Frame
    /\ \A m \in Mutex : /\ F("OSLockMutex", m) \in Frame /\ F("LockSleep", m) \in Frame
                        /\ F("LockWoken", m) \in Frame
    /\ \A t \in Thread, p \in 0 .. OS_PRIORITY_MAX + 1 : Promote(t, p) \in Frame
    /\ Reschedule \in Frame /\ F("OSYieldThread", NULL) \in Frame
    /\ F("ExitHint", NULL) \in Frame /\ F("IsrReturn", NULL) \in Frame
    /\ \A fn, x : F(fn, x).fn = fn /\ F(fn, x).arg = x
    /\ \A t, p : /\ Promote(t, p).fn = "__OSPromoteThread" /\ Promote(t, p).arg = t
                 /\ Promote(t, p).prio = p
    /\ Reschedule.fn = "__OSReschedule"
  <1>1. OS_PRIORITY_MAX \in Nat
    BY Constants
  <1>2. QED BY <1>1 DEF Frame, F, Promote, Reschedule

(* Whole stacks of one, two and three frames.                              *)
LEMMA Stacks ==
    ASSUME NEW a \in Frame, NEW b \in Frame, NEW c \in Frame
    PROVE  /\ <<a>> \in Seq(Frame) /\ ToSet(<<a>>) = {a} /\ Good(<<a>>) /\ Good(<< >>)
           /\ Head(<<a>>) = a /\ Last(<<a>>) = a /\ <<a>> # << >>
           /\ <<a, b>> \in Seq(Frame) /\ ToSet(<<a, b>>) = {a, b} /\ (a.fn \in Inner => Good(<<a, b>>))
           /\ Head(<<a, b>>) = a /\ Last(<<a, b>>) = b /\ <<a, b>> # << >>
           /\ <<a, b, c>> \in Seq(Frame) /\ ToSet(<<a, b, c>>) = {a, b, c}
           /\ a.fn \in Inner /\ b.fn \in Inner => Good(<<a, b, c>>)
           /\ Head(<<a, b, c>>) = a /\ Last(<<a, b, c>>) = c /\ <<a, b, c>> # << >>
  <1>1. << >> \in Seq(Frame) /\ ToSet(<< >>) = {} /\ Good(<< >>)
    <2>1. << >> \in Seq(Frame) /\ Len(<< >>) = 0
      OBVIOUS
    <2>2. ToSet(<< >>) = {}
      BY <2>1, EmptySet
    <2>3. QED BY <2>1, <2>2 DEF Good
  <1>2. \A x : <<x>> \o << >> = <<x>>
    OBVIOUS
  <1>3. ASSUME NEW x \in Frame, NEW y \in Frame PROVE <<x>> \o <<y>> = <<x, y>>
    <2>1. <<x>> \in Seq(Frame) /\ <<y>> \in Seq(Frame) /\ <<x, y>> \in Seq(Frame)
      OBVIOUS
    <2>2. <<x>> \o <<y>> \in Seq(Frame) /\ Len(<<x>> \o <<y>>) = 2
      BY <2>1, ConcatProperties
    <2>3. (<<x>> \o <<y>>)[1] = x /\ (<<x>> \o <<y>>)[2] = y
      OBVIOUS
    <2>4. Len(<<x, y>>) = 2 /\ <<x, y>>[1] = x /\ <<x, y>>[2] = y
      OBVIOUS
    <2> DEFINE u == <<x>> \o <<y>>
               v == <<x, y>>
    <2>5. u \in Seq(Frame) /\ v \in Seq(Frame) /\ Len(u) = Len(v)
          /\ \A i \in 1 .. Len(u) : u[i] = v[i]
      BY <2>1, <2>2, <2>3, <2>4
    <2> HIDE DEF u, v
    <2>6. u = v
      BY <2>5, SeqEqual
    <2>7. QED BY <2>6 DEF u, v
  <1>4. ASSUME NEW x \in Frame, NEW y \in Frame, NEW z \in Frame
        PROVE  <<x>> \o <<y, z>> = <<x, y, z>>
    <2>1. <<x>> \in Seq(Frame) /\ <<y, z>> \in Seq(Frame) /\ <<x, y, z>> \in Seq(Frame)
      OBVIOUS
    <2>2. <<x>> \o <<y, z>> \in Seq(Frame) /\ Len(<<x>> \o <<y, z>>) = 3
      BY <2>1, ConcatProperties
    <2>3. /\ (<<x>> \o <<y, z>>)[1] = x /\ (<<x>> \o <<y, z>>)[2] = y
          /\ (<<x>> \o <<y, z>>)[3] = z
      OBVIOUS
    <2>4. /\ Len(<<x, y, z>>) = 3 /\ <<x, y, z>>[1] = x /\ <<x, y, z>>[2] = y
          /\ <<x, y, z>>[3] = z
      OBVIOUS
    <2> DEFINE u == <<x>> \o <<y, z>>
               v == <<x, y, z>>
    <2>5. u \in Seq(Frame) /\ v \in Seq(Frame) /\ Len(u) = Len(v)
          /\ \A i \in 1 .. Len(u) : u[i] = v[i]
      BY <2>1, <2>2, <2>3, <2>4
    <2> HIDE DEF u, v
    <2>6. u = v
      BY <2>5, SeqEqual
    <2>7. QED BY <2>6 DEF u, v
  <1>5. ASSUME NEW x \in Frame
        PROVE  /\ <<x>> \in Seq(Frame) /\ ToSet(<<x>>) = {x} /\ Good(<<x>>)
               /\ Head(<<x>>) = x /\ Last(<<x>>) = x /\ <<x>> # << >>
    <2> DEFINE e == << >>
               n == <<x>> \o e
    <2>1. e \in Seq(Frame) /\ ToSet(e) = {} /\ Good(e) /\ e = << >>
      BY <1>1
    <2>2. n = <<x>>
      BY <1>2
    <2>3. /\ n \in Seq(Frame) /\ n # << >> /\ Head(n) = x /\ ToSet(n) = {x}
          /\ Good(n) /\ Last(n) = x
      <3> HIDE DEF e
      <3>1. /\ n \in Seq(Frame) /\ n # << >> /\ Head(n) = x /\ ToSet(n) = ToSet(e) \cup {x}
            /\ Good(n)
        BY <2>1, Pushed
      <3>2. Last(n) = IF e = << >> THEN x ELSE Last(e)
        BY <2>1, Pushed
      <3>3. QED BY <2>1, <3>1, <3>2
    <2> HIDE DEF n
    <2>4. QED BY <2>2, <2>3
  <1>6. ASSUME NEW x \in Frame, NEW y \in Frame
        PROVE  /\ <<x, y>> \in Seq(Frame) /\ ToSet(<<x, y>>) = {x, y}
               /\ x.fn \in Inner => Good(<<x, y>>)
               /\ Head(<<x, y>>) = x /\ Last(<<x, y>>) = y /\ <<x, y>> # << >>
    <2> DEFINE e == <<y>>
               n == <<x>> \o e
    <2>1. e \in Seq(Frame) /\ ToSet(e) = {y} /\ Good(e) /\ Last(e) = y /\ e # << >>
      BY <1>5
    <2>2. n = <<x, y>>
      BY <1>3
    <2>3. /\ n \in Seq(Frame) /\ n # << >> /\ Head(n) = x /\ ToSet(n) = {x, y}
          /\ x.fn \in Inner => Good(n)
          /\ Last(n) = y
      <3> HIDE DEF e
      <3>1. QED BY <2>1, Pushed
    <2> HIDE DEF n
    <2>4. QED BY <2>2, <2>3
  <1>7. ASSUME NEW x \in Frame, NEW y \in Frame, NEW z \in Frame
        PROVE  /\ <<x, y, z>> \in Seq(Frame) /\ ToSet(<<x, y, z>>) = {x, y, z}
               /\ x.fn \in Inner /\ y.fn \in Inner => Good(<<x, y, z>>)
               /\ Head(<<x, y, z>>) = x /\ Last(<<x, y, z>>) = z /\ <<x, y, z>> # << >>
    <2> DEFINE e == <<y, z>>
               n == <<x>> \o e
    <2>1. /\ e \in Seq(Frame) /\ ToSet(e) = {y, z} /\ (y.fn \in Inner => Good(e))
          /\ Last(e) = z /\ e # << >>
      BY <1>6
    <2>2. n = <<x, y, z>>
      BY <1>4
    <2>3. /\ n \in Seq(Frame) /\ n # << >> /\ Head(n) = x /\ ToSet(n) = {x, y, z}
          /\ x.fn \in Inner /\ y.fn \in Inner => Good(n)
          /\ Last(n) = z
      <3> HIDE DEF e
      <3>1. QED BY <2>1, Pushed
    <2> HIDE DEF n
    <2>4. QED BY <2>2, <2>3
  <1>8. QED BY <1>1, <1>5, <1>6, <1>7

(* The stack of a handler ends in the frame of its dispatcher.             *)
LEMMA Dispatched ==
    ASSUME NEW s \in Seq(Frame)
    PROVE  LET n == s \o <<F("IsrReturn", NULL)>> IN
           n \in Seq(Frame) /\ n # << >> /\ ToSet(n) = ToSet(s) \cup {F("IsrReturn", NULL)}
  <1> DEFINE r == F("IsrReturn", NULL)
  <1>1. r \in Frame
    BY FrameIntro
  <1> HIDE DEF r
  <1>2. s \o <<r>> = Append(s, r)
    BY <1>1
  <1>3. /\ Append(s, r) \in Seq(Frame) /\ Append(s, r) # << >>
        /\ ToSet(Append(s, r)) = ToSet(s) \cup {r}
    BY <1>1, AppendSet
  <1>4. QED BY <1>2, <1>3 DEF r

-----------------------------------------------------------------------------
(***************************************************************************)
(* The inductive invariant.  First the stacks: only threads lock, wait and *)
(* cancel; a thread about to sleep on a mutex is the running one, does not *)
(* own that mutex and somebody does; a call that has unlinked the thread   *)
(* it cancels is that of the running thread.                               *)
(***************************************************************************)
Frames ==
    /\ \A c \in Thread : Good(stack[c]) /\ \A f \in ToSet(stack[c]) : f.fn # "IsrReturn"
    /\ \A f \in ToSet(stack[Isr]) : f.fn \in IsrFrames
    /\ stack[Isr] # << >> => current = NULL \/ stack[current] = << >>

LockFrame(c, s, f, ow, lk) ==
    /\ f.fn = "__OSPromoteThread" => f.prio \in Priority
    /\ f.fn \in {"LockSleep", "LockWoken"} => ow[f.arg] # c
    /\ f.fn = "OSLockMutex" => (ow[f.arg] = c => lk[f.arg] < MaxLock)
    /\ f.fn = "LockSleep" => /\ ow[f.arg] # NULL
                             /\ \A g \in ToSet(s) : g.fn \in {"__OSPromoteThread", "LockSleep"}

Locks ==
    \A c \in Thread : \A f \in ToSet(stack[c]) :
        /\ LockFrame(c, stack[c], f, owner, lock)
        /\ f.fn = "LockSleep" => c = current

Cancels ==
    \A c \in Thread : \A f \in ToSet(stack[c]) : f.fn = "CancelTail" =>
        /\ c = current /\ ~Dead(f.arg) /\ (f.arg = current => hint)
        /\ \A g \in ToSet(stack[c]) :
              \/ g.fn = "CancelTail"
              \/ g.fn = "UpdatePriority" /\ state[f.arg] = "SLEEPING" /\ queue[f.arg] = NULL

(* A running thread that is no longer RUNNING is on its way to a           *)
(* reschedule that will find the hint set.                                 *)
Teardown == {"OSWakeupThread", "__OSUnlockAllMutex", "__OSReschedule", "ExitHint"}

Departs(s, h) ==
    /\ s # << >>
    /\ \/ Head(s).fn = "__OSReschedule" /\ h
       \/ /\ \A f \in ToSet(s) : f.fn \in Teardown
          /\ Last(s).fn = "ExitHint" \/ (Last(s).fn = "__OSReschedule" /\ h)

Leaving ==
    current # NULL /\ state[current] # "RUNNING" =>
        stack[Isr] = << >> /\ Departs(stack[current], hint)

RunningOne == \A t \in Thread : state[t] = "RUNNING" => t = current /\ suspend[t] = 0

(* A priority below every other is only a suspended or dead thread's.      *)
PrioOK == \A t \in Thread : ~Dead(t) /\ suspend[t] = 0 => priority[t] \in Priority

(* Where a thread is linked, by its fields.                                *)
Where(t) == IF state[t] = "READY" /\ suspend[t] = 0 THEN priority[t]
            ELSE IF state[t] = "SLEEPING" THEN queue[t]
            ELSE NULL

Place == [t \in Thread |-> IF Cancelling(t) THEN NULL ELSE Where(t)]

Fields ==
    \A t \in Thread : ~Cancelling(t) =>
        /\ state[t] = "READY" /\ suspend[t] = 0 => queue[t] = priority[t]
        /\ state[t] = "SLEEPING" => queue[t] \in WaitQueue

Placed == Linked(Place, runQueue, runBits, waiters) /\ Fields

(* A mutex that lost its owner has its waiters being woken right now.      *)
WakeOwed ==
    \A m \in Mutex : waiters[m] # << >> /\ owner[m] = NULL => Running("OSWakeupThread") /\ Arg = m

StackInv == Frames /\ Locks /\ Cancels
KInv ==
    /\ TypeOK /\ MutexConsistent /\ StackInv /\ Leaving /\ RunningOne /\ PrioOK
    /\ ActiveList /\ Placed /\ WaitersSorted /\ WakeOwed

-----------------------------------------------------------------------------
(* Who runs.                                                               *)
Stacked == stack \in [Context -> Seq(Frame)] /\ current \in Thread \cup {NULL}

Calm == \A c \in Context : \A f \in ToSet(stack[c]) : f.fn # "CancelTail"

LEMMA CalmNone == Stacked /\ Calm => \A t \in Thread : ~Cancelling(t)
  <1> SUFFICES ASSUME Stacked, Calm, NEW t \in Thread, NEW c \in Context,
                      NEW i \in DOMAIN stack[c], stack[c][i].fn = "CancelTail"
               PROVE  FALSE
    BY DEF Cancelling, Pending
  <1>1. stack[c][i] \in ToSet(stack[c])
    BY DEF ToSet
  <1>2. QED BY <1>1 DEF Calm

LEMMA CalmNext == Stacked' /\ Calm' => \A t \in Thread : ~Cancelling(t)'
  <1>1. (Stacked /\ Calm => \A t \in Thread : ~Cancelling(t))'
    BY CalmNone, PTL
  <1>2. QED BY <1>1

LEMMA CalmNow ==
    ASSUME Stacked, StackInv,
           current # NULL => \A f \in ToSet(stack[current]) : f.fn # "CancelTail"
    PROVE  Calm /\ \A t \in Thread : ~Cancelling(t)
  <1>1. Calm
    <2> SUFFICES ASSUME NEW c \in Context, NEW f \in ToSet(stack[c]), f.fn = "CancelTail"
                 PROVE  FALSE
      BY DEF Calm
    <2>1. CASE c = Isr
      BY <2>1 DEF StackInv, Frames, IsrFrames
    <2>2. CASE c # Isr
      <3>1. c \in Thread
        BY <2>2 DEF Context
      <3>2. c = current
        BY <3>1 DEF StackInv, Cancels
      <3>3. QED BY <3>1, <3>2, Constants
    <2>3. QED BY <2>1, <2>2
  <1>2. QED BY <1>1, CalmNone

(* The context that runs a frame is a handler that has interrupted the     *)
(* running thread's own code, or that thread.                              *)
LEMMA CpuFacts ==
    ASSUME Stacked, StackInv, Cpu # NULL, stack[Cpu] # << >>
    PROVE  /\ Cpu \in Context /\ stack[Cpu] \in Seq(Frame)
           /\ Cpu = Isr => /\ stack[Isr] # << >>
                           /\ current # NULL => current \in Thread /\ stack[current] = << >>
           /\ Cpu # Isr => Cpu = current /\ current \in Thread /\ stack[Isr] = << >>
  BY Constants DEF Stacked, StackInv, Frames, Cpu, Context

LEMMA ThreadTurn ==
    ASSUME Stacked, StackInv, Leaving, NEW fn, fn \notin IsrFrames, Running(fn)
    PROVE  /\ Cpu = current /\ current \in Thread /\ stack[Isr] = << >>
           /\ stack[current] \in Seq(Frame) /\ stack[current] # << >> /\ Head(stack[current]).fn = fn
           /\ fn \notin Teardown => state[current] = "RUNNING"
           /\ fn \notin Inner => /\ Tail(stack[current]) = << >>
                                 /\ ToSet(stack[current]) = {Head(stack[current])}
  <1>1. Cpu # NULL /\ stack[Cpu] # << >> /\ Head(stack[Cpu]).fn = fn
    BY DEF Running
  <1>2. Cpu \in Context /\ stack[Cpu] \in Seq(Frame)
    BY <1>1, CpuFacts
  <1>3. Head(stack[Cpu]) \in ToSet(stack[Cpu])
    BY <1>1, <1>2, Popped
  <1>4. Cpu # Isr
    BY <1>1, <1>3 DEF StackInv, Frames
  <1>5. Cpu = current /\ current \in Thread /\ stack[Isr] = << >>
    BY <1>1, <1>4, CpuFacts
  <1>6. fn \notin Teardown => state[current] = "RUNNING"
    BY <1>1, <1>3, <1>5, Constants DEF Leaving, Departs, Teardown
  <1>7. fn \notin Inner => Tail(stack[current]) = << >>
    BY <1>1, <1>2, <1>5, Popped DEF StackInv, Frames
  <1>8. fn \notin Inner => ToSet(stack[current]) = {Head(stack[current])}
    <2>1. Tail(stack[current]) = << >> => ToSet(Tail(stack[current])) = {}
      BY Stacks DEF ToSet
    <2>2. QED BY <1>1, <1>2, <1>5, <1>7, <2>1, Popped
  <1>9. QED BY <1>1, <1>2, <1>5, <1>6, <1>7, <1>8

(***************************************************************************)
(* The running thread's stack is replaced: by a call it makes, or by a     *)
(* frame that returns to nothing.                                          *)
(***************************************************************************)
LEMMA NewFrames ==
    ASSUME Stacked, StackInv, current \in Thread, stack[Isr] = << >>,
           NEW s \in Seq(Frame), Good(s), stack' = [stack EXCEPT ![current] = s],
           current' = current,
           \A m \in Mutex : \/ owner'[m] = owner[m] /\ lock'[m] = lock[m]
                            \/ owner'[m] \in {NULL, current},
           \A f \in ToSet(s) : f.fn # "IsrReturn" /\ LockFrame(current, s, f, owner', lock')
    PROVE  /\ Frames' /\ Locks' /\ Stacked'
           /\ stack'[Isr] = << >> /\ stack'[current] = s
           /\ \A d \in Context \ {current} : stack'[d] = stack[d]
  <1> DEFINE c == current
  <1>1. /\ stack' \in [Context -> Seq(Frame)] /\ stack'[c] = s
        /\ \A d \in Context \ {c} : stack'[d] = stack[d]
        /\ c \in Context /\ Isr \in Context /\ Isr # c /\ c # NULL
    BY Constants DEF Stacked, Context
  <1>2. stack'[Isr] = << >> /\ ToSet(<< >>) = {}
    BY <1>1, Stacks DEF ToSet
  <1>3. Frames'
    <2>1. \A d \in Thread : Good(stack'[d]) /\ \A f \in ToSet(stack'[d]) : f.fn # "IsrReturn"
      BY <1>1 DEF StackInv, Frames, Context
    <2>2. QED BY <1>2, <2>1 DEF Frames
  <1>4. Locks'
    <2> SUFFICES ASSUME NEW d \in Thread, NEW f \in ToSet(stack'[d])
                 PROVE  /\ LockFrame(d, stack'[d], f, owner', lock')
                        /\ f.fn = "LockSleep" => d = c
      BY DEF Locks
    <2>1. CASE d = c
      BY <1>1, <2>1
    <2>2. CASE d # c
      <3>1. stack'[d] = stack[d] /\ d # NULL
        BY <1>1, <2>2, Constants DEF Context
      <3>2. LockFrame(d, stack[d], f, owner, lock) /\ f.fn # "LockSleep"
        BY <2>2, <3>1 DEF StackInv, Locks
      <3>3. f.fn \in {"LockWoken", "OSLockMutex"} => f.arg \in Mutex
        <4>1. f \in Frame
          BY <3>1 DEF Stacked, Context, ToSet
        <4>2. QED BY <4>1, FrameFacts
      <3>4. LockFrame(d, stack[d], f, owner', lock')
        BY <2>2, <3>1, <3>2, <3>3 DEF LockFrame
      <3>5. QED BY <3>1, <3>2, <3>4
    <2>3. QED BY <2>1, <2>2
  <1>5. QED BY <1>1, <1>2, <1>3, <1>4 DEF Stacked

LEMMA NewStack ==
    ASSUME Stacked, StackInv, current \in Thread, stack[Isr] = << >>,
           NEW s \in Seq(Frame), Good(s), stack' = [stack EXCEPT ![current] = s],
           current' = current,
           \A m \in Mutex : \/ owner'[m] = owner[m] /\ lock'[m] = lock[m]
                            \/ owner'[m] \in {NULL, current},
           \A f \in ToSet(s) : f.fn \notin {"IsrReturn", "CancelTail"}
                                 /\ LockFrame(current, s, f, owner', lock')
    PROVE  /\ StackInv' /\ Stacked' /\ Calm'
           /\ stack'[Isr] = << >> /\ stack'[current] = s
  <1> DEFINE c == current
  <1>1. /\ Frames' /\ Locks' /\ Stacked' /\ stack'[Isr] = << >> /\ stack'[c] = s
        /\ \A d \in Context \ {c} : stack'[d] = stack[d]
    BY NewFrames
  <1>2. c # Isr /\ c \in Context /\ ToSet(<< >>) = {}
    BY Constants, Stacks DEF ToSet, Context
  <1>3. Calm'
    <2> SUFFICES ASSUME NEW d \in Context, NEW f \in ToSet(stack'[d]), f.fn = "CancelTail"
                 PROVE  FALSE
      BY DEF Calm
    <2>1. d # c /\ d # Isr
      BY <1>1, <1>2
    <2>2. d \in Thread /\ f \in ToSet(stack[d])
      BY <1>1, <2>1 DEF Context
    <2>3. QED BY <2>1, <2>2 DEF StackInv, Cancels
  <1>4. Cancels'
    BY <1>3 DEF Cancels, Calm, Context
  <1>5. QED BY <1>1, <1>3, <1>4 DEF StackInv

(* An interrupt is taken while the running thread is in its own code.      *)
LEMMA IsrEnters ==
    ASSUME Stacked, StackInv, stack[Isr] = << >>, InOwnCode,
           NEW fs \in Seq(Frame), \A f \in ToSet(fs) : f.fn \in IsrFrames,
           stack' = [stack EXCEPT ![Isr] = fs \o <<F("IsrReturn", NULL)>>],
           current' = current, owner' = owner, lock' = lock
    PROVE  StackInv' /\ Stacked' /\ Calm' /\ Calm /\ stack'[Isr] # << >>
  <1> DEFINE s == fs \o <<F("IsrReturn", NULL)>>
  <1>1. s \in Seq(Frame) /\ s # << >> /\ \A f \in ToSet(s) : f.fn \in IsrFrames
    BY Dispatched, FrameIntro DEF IsrFrames
  <1> HIDE DEF s
  <1>2. /\ stack' \in [Context -> Seq(Frame)] /\ stack'[Isr] = s
        /\ \A d \in Thread : stack'[d] = stack[d]
        /\ Isr \in Context /\ Isr \notin Thread
    BY <1>1, Constants DEF Stacked, Context, s
  <1>3. Calm
    <2>1. current # NULL => stack[current] = << >> /\ ToSet(<< >>) = {}
      BY Stacks DEF InOwnCode, ToSet
    <2>2. QED BY <2>1, CalmNow
  <1>4. Calm'
    BY <1>1, <1>2, <1>3 DEF Calm, Context, IsrFrames
  <1>5. Frames'
    <2>1. current # NULL => stack'[current] = << >>
      BY <1>2 DEF InOwnCode, Stacked
    <2>2. QED BY <1>1, <1>2, <2>1 DEF StackInv, Frames
  <1>6. Locks'
    BY <1>2 DEF StackInv, Locks
  <1>7. Cancels'
    BY <1>4 DEF Cancels, Calm, Context
  <1>8. QED BY <1>1, <1>2, <1>3, <1>4, <1>5, <1>6, <1>7 DEF StackInv, Stacked

(***************************************************************************)
(* One turn of the innermost loop: its frame returns, goes on as another,  *)
(* or calls; what is below it stays.                                       *)
(***************************************************************************)
Turns(s, n) ==
    \A f \in ToSet(n) :
        \/ f \in ToSet(s)
        \/ f.fn \in {"UpdatePriority", "__OSPromoteThread"} /\ f.fn = Head(s).fn /\ f.prio \in Priority
        \/ /\ f.fn \in {"OSWakeupThread", "__OSReschedule"}
           /\ Head(s).fn \in {"OSWakeupThread", "__OSUnlockAllMutex"}

LEMMA TurnStep ==
    ASSUME Stacked, StackInv, Cpu # NULL, stack[Cpu] # << >>,
           Head(stack[Cpu]).fn # "CancelTail",
           NEW n \in Seq(Frame), Turns(stack[Cpu], n), Good(stack[Cpu]) => Good(n),
           \A f \in ToSet(stack[Cpu]) : f \in ToSet(n) \/ f = Head(stack[Cpu]),
           stack' = [stack EXCEPT ![Cpu] = n], current' = current,
           \A m \in Mutex : \/ owner'[m] = owner[m] /\ lock'[m] = lock[m]
                            \/ owner'[m] = NULL /\ Head(stack[Cpu]).fn = "__OSUnlockAllMutex",
           hint => hint',
           \A t \in Thread : Cancelling(t) => state'[t] = state[t] /\ queue'[t] = queue[t]
    PROVE  /\ StackInv' /\ Stacked' /\ stack'[Cpu] = n
           /\ \A d \in Context \ {Cpu} : stack'[d] = stack[d]
           /\ \A t \in Thread : Cancelling(t)' <=> Cancelling(t)
  <1> DEFINE s == stack[Cpu]
             b == Cpu
  <1>1. /\ b \in Context /\ s \in Seq(Frame) /\ s # << >>
        /\ b = Isr => stack[Isr] # << >> /\ (current # NULL => current \in Thread /\ stack[current] = << >>)
        /\ b # Isr => b = current /\ current \in Thread /\ stack[Isr] = << >>
    BY CpuFacts
  <1>2. Head(s) \in ToSet(s) /\ Head(s) \in Frame
    BY <1>1, Popped
  <1>3. Turns(s, n) /\ Head(s).fn # "CancelTail" /\ (Good(s) => Good(n))
        /\ \A f \in ToSet(s) : f \in ToSet(n) \/ f = Head(s)
    OBVIOUS
  <1>4. stack' = [stack EXCEPT ![b] = n]
    OBVIOUS
  <1> HIDE DEF b
  <1>5. /\ stack' \in [Context -> Seq(Frame)] /\ stack'[b] = n
        /\ \A d \in Context \ {b} : stack'[d] = stack[d]
    BY <1>1, <1>4 DEF Stacked
  <1>6. s = stack[b]
    BY DEF b
  <1> HIDE DEF s
  <1>7. Frames'
    <2>1. ASSUME NEW d \in Thread
          PROVE  Good(stack'[d]) /\ \A f \in ToSet(stack'[d]) : f.fn # "IsrReturn"
      <3>1. CASE d = b
        <4>1. Good(s) /\ \A f \in ToSet(s) : f.fn # "IsrReturn"
          BY <1>6, <3>1 DEF StackInv, Frames
        <4>2. QED BY <1>3, <1>5, <3>1, <4>1 DEF Turns
      <3>2. CASE d # b
        BY <1>5, <3>2 DEF StackInv, Frames, Context
      <3>3. QED BY <3>1, <3>2
    <2>2. ASSUME NEW f \in ToSet(stack'[Isr]) PROVE f.fn \in IsrFrames
      <3>1. CASE Isr = b
        <4>1. \A g \in ToSet(s) : g.fn \in IsrFrames
          BY <1>6, <3>1 DEF StackInv, Frames
        <4>2. f \in ToSet(n)
          BY <1>5, <3>1, <2>2
        <4>3. f \in ToSet(s) \/ f.fn \in {"OSWakeupThread", "__OSReschedule"} \/ f.fn = Head(s).fn
          BY <1>3, <4>2 DEF Turns
        <4>4. QED BY <1>2, <4>1, <4>3 DEF IsrFrames
      <3>2. CASE Isr # b
        BY <1>5, <3>2, <2>2 DEF StackInv, Frames, Context
      <3>3. QED BY <3>1, <3>2
    <2>3. stack'[Isr] # << >> => current = NULL \/ stack'[current] = << >>
      BY <1>1, <1>5, Constants DEF b, Context, Stacked
    <2>4. QED BY <2>1, <2>2, <2>3 DEF Frames
  <1>8. Locks'
    <2> SUFFICES ASSUME NEW d \in Thread, NEW f \in ToSet(stack'[d])
                 PROVE  /\ LockFrame(d, stack'[d], f, owner', lock')
                        /\ f.fn = "LockSleep" => d = current
      BY DEF Locks
    <2> DEFINE o == stack[d]
    <2>1. \A g \in ToSet(o) : LockFrame(d, o, g, owner, lock) /\ (g.fn = "LockSleep" => d = current)
      BY DEF StackInv, Locks
    <2>2. o \in Seq(Frame) /\ \A g \in ToSet(o) : g \in Frame
      BY DEF Stacked, Context, ToSet
    <2>3. d # NULL
      BY Constants
    <2>4. ASSUME NEW g \in ToSet(o), g.fn = "LockSleep", Head(s).fn = "__OSUnlockAllMutex"
          PROVE  FALSE
      <3>1. d = current /\ \A h \in ToSet(o) : h.fn \in {"__OSPromoteThread", "LockSleep"}
        BY <2>1, <2>4 DEF LockFrame
      <3>2. b # Isr
        BY <1>2, <1>6, <2>4 DEF StackInv, Frames, IsrFrames
      <3>3. o = s
        BY <1>1, <1>6, <3>1, <3>2
      <3>4. QED BY <1>2, <2>4, <3>1, <3>3
    <2> HIDE DEF o
    <2>5. ASSUME NEW g \in ToSet(o)
          PROVE  /\ g.fn \in {"LockSleep", "LockWoken"} => owner'[g.arg] # d
                 /\ g.fn = "OSLockMutex" => (owner'[g.arg] = d => lock'[g.arg] < MaxLock)
                 /\ g.fn = "LockSleep" => owner'[g.arg] # NULL /\ d = current
      <3>1. g.fn \in {"OSLockMutex", "LockSleep", "LockWoken"} => g.arg \in Mutex
        BY <2>2, FrameFacts
      <3>2. \A m \in Mutex : \/ owner'[m] = owner[m] /\ lock'[m] = lock[m]
                             \/ owner'[m] = NULL /\ Head(s).fn = "__OSUnlockAllMutex"
        BY DEF s
      <3>3. LockFrame(d, o, g, owner, lock) /\ (g.fn = "LockSleep" => d = current)
        BY <2>1
      <3>4. QED BY <2>3, <2>4, <3>1, <3>2, <3>3 DEF LockFrame
    <2>6. CASE d # b
      <3>1. stack'[d] = o
        BY <1>5, <2>6 DEF o, Context
      <3>2. QED BY <2>1, <2>5, <3>1 DEF LockFrame
    <2>7. CASE d = b
      <3>1. stack'[d] = n /\ o = s
        BY <1>5, <1>6, <2>7 DEF o
      <3>2. CASE f \in ToSet(s)
        <4>1. ASSUME f.fn = "LockSleep", NEW g \in ToSet(n)
              PROVE  g.fn \in {"__OSPromoteThread", "LockSleep"}
          <5>1. \A h \in ToSet(s) : h.fn \in {"__OSPromoteThread", "LockSleep"}
            BY <2>1, <3>1, <3>2, <4>1 DEF LockFrame
          <5>2. Head(s).fn \in {"__OSPromoteThread", "LockSleep"}
            BY <1>2, <5>1
          <5>3. g \in ToSet(s) \/ g.fn = Head(s).fn
            BY <1>3, <5>2 DEF Turns
          <5>4. QED BY <5>1, <5>2, <5>3
        <4>2. QED BY <2>1, <2>5, <3>1, <3>2, <4>1 DEF LockFrame
      <3>3. CASE f \notin ToSet(s)
        <4>1. f \in ToSet(n)
          BY <3>1
        <4>2. f.fn \in Inner /\ (f.fn = "__OSPromoteThread" => f.prio \in Priority)
          BY <1>3, <3>3, <4>1 DEF Turns, Inner
        <4>3. QED BY <4>2 DEF LockFrame, Inner
      <3>4. QED BY <3>2, <3>3
    <2>8. QED BY <2>6, <2>7
  <1>9. ASSUME NEW d \in Context, NEW f, f.fn = "CancelTail"
        PROVE  f \in ToSet(stack'[d]) <=> f \in ToSet(stack[d])
    <2>1. CASE d = b
      <3>1. f \in ToSet(n) => f \in ToSet(s)
        BY <1>3, <1>9 DEF Turns
      <3>2. f \in ToSet(s) => f \in ToSet(n)
        BY <1>3, <1>9
      <3>3. QED BY <1>5, <1>6, <2>1, <3>1, <3>2
    <2>2. CASE d # b
      BY <1>5, <2>2
    <2>3. QED BY <2>1, <2>2
  <1>10. \A t \in Thread : Cancelling(t)' <=> Cancelling(t)
    <2>1. \A t \in Thread : Cancelling(t) <=>
            \E d \in Context : \E f \in ToSet(stack[d]) : f.fn = "CancelTail" /\ f.arg = t
      BY DEF Cancelling, Pending, ToSet
    <2>2. \A t \in Thread : Cancelling(t)' <=>
            \E d \in Context : \E f \in ToSet(stack'[d]) : f.fn = "CancelTail" /\ f.arg = t
      BY DEF Cancelling, Pending, ToSet
    <2>3. QED BY <1>9, <2>1, <2>2
  <1>11. Cancels'
    <2> SUFFICES ASSUME NEW d \in Thread, NEW f \in ToSet(stack'[d]), f.fn = "CancelTail"
                 PROVE  /\ d = current /\ ~Dead(f.arg)' /\ (f.arg = current => hint')
                        /\ \A g \in ToSet(stack'[d]) :
                              \/ g.fn = "CancelTail"
                              \/ /\ g.fn = "UpdatePriority"
                                 /\ state'[f.arg] = "SLEEPING" /\ queue'[f.arg] = NULL
      BY DEF Cancels
    <2>1. d \in Context /\ f \in ToSet(stack[d])
      BY <1>9 DEF Context
    <2>2. /\ d = current /\ ~Dead(f.arg) /\ (f.arg = current => hint)
          /\ \A g \in ToSet(stack[d]) :
                \/ g.fn = "CancelTail"
                \/ g.fn = "UpdatePriority" /\ state[f.arg] = "SLEEPING" /\ queue[f.arg] = NULL
      BY <2>1 DEF StackInv, Cancels
    <2>3. f.arg \in Thread
      <3>1. f \in Frame
        BY <2>1 DEF Stacked, ToSet
      <3>2. QED BY <3>1, FrameFacts
    <2>4. Cancelling(f.arg)
      BY <2>1 DEF Cancelling, Pending, ToSet
    <2>5. state'[f.arg] = state[f.arg] /\ queue'[f.arg] = queue[f.arg]
      BY <2>3, <2>4
    <2>6. ~Dead(f.arg)'
      BY <2>2, <2>5 DEF Dead
    <2>7. ASSUME NEW g \in ToSet(stack'[d])
          PROVE  \/ g.fn = "CancelTail"
                 \/ g.fn = "UpdatePriority" /\ state'[f.arg] = "SLEEPING" /\ queue'[f.arg] = NULL
      <3>1. CASE d # b
        <4>1. g \in ToSet(stack[d])
          BY <1>5, <2>1, <2>7, <3>1
        <4>2. QED BY <2>2, <2>5, <4>1
      <3>2. CASE d = b
        <4>1. g \in ToSet(n) /\ s = stack[d]
          BY <1>5, <1>6, <2>7, <3>2
        <4>2. Head(s).fn = "UpdatePriority" /\ state[f.arg] = "SLEEPING" /\ queue[f.arg] = NULL
          BY <1>2, <1>3, <2>2, <4>1
        <4>3. g \in ToSet(s) \/ g.fn = "UpdatePriority"
          BY <1>3, <4>1, <4>2 DEF Turns
        <4>4. QED BY <2>2, <2>5, <4>1, <4>2, <4>3
      <3>3. QED BY <3>1, <3>2
    <2>8. QED BY <2>2, <2>6, <2>7
  <1>12. QED BY <1>5, <1>7, <1>8, <1>10, <1>11 DEF StackInv, Stacked, b

-----------------------------------------------------------------------------
(* Where every thread is.                                                  *)
LEMMA StateTypes ==
    ASSUME TypeOK
    PROVE  /\ Stacked
           /\ \A t \in Thread : state[t] \in {"READY", "RUNNING", "SLEEPING", "MORIBUND", "EXITED"}
           /\ priority \in [Thread -> Nat] /\ \A t \in Thread : base[t] \in Priority
           /\ \A t \in Thread : suspend[t] \in Nat /\ priority[t] \in 0 .. OS_PRIORITY_MAX + 1
           /\ \A m \in Mutex : owner[m] \in Thread \cup {NULL} /\ lock[m] \in 0 .. MaxLock
           /\ \A t \in Thread : held[t] \in Seq(Mutex) /\ mutex[t] \in Mutex \cup {NULL}
           /\ \A p \in Priority : runQueue[p] \in Seq(Thread)
           /\ \A q \in WaitQueue : waiters[q] \in Seq(Thread)
  <1>1. Stacked
    BY DEF TypeOK, Stacked
  <1>2. \A t \in Thread : state[t] \in {"READY", "RUNNING", "SLEEPING", "MORIBUND", "EXITED"}
    BY DEF TypeOK
  <1>3. priority \in [Thread -> Nat] /\ \A t \in Thread : priority[t] \in 0 .. OS_PRIORITY_MAX + 1
    <2>1. priority \in [Thread -> 0 .. OS_PRIORITY_MAX + 1]
      BY DEF TypeOK
    <2>2. QED BY <2>1, Constants
  <1>4. /\ \A t \in Thread : base[t] \in Priority
        /\ \A t \in Thread : suspend[t] \in Nat
    BY Constants DEF TypeOK
  <1>5. /\ \A m \in Mutex : owner[m] \in Thread \cup {NULL} /\ lock[m] \in 0 .. MaxLock
        /\ \A t \in Thread : held[t] \in Seq(Mutex) /\ mutex[t] \in Mutex \cup {NULL}
    BY DEF TypeOK
  <1>6. /\ \A p \in Priority : runQueue[p] \in Seq(Thread)
        /\ \A q \in WaitQueue : waiters[q] \in Seq(Thread)
    BY DEF TypeOK
  <1>7. QED BY <1>1, <1>2, <1>3, <1>4, <1>5, <1>6

LEMMA PlaceType ==
    ASSUME TypeOK, PrioOK, Fields
    PROVE  Place \in [Thread -> Priority \cup WaitQueue \cup {NULL}]
  <1> SUFFICES ASSUME NEW t \in Thread, ~Cancelling(t)
               PROVE  Where(t) \in Priority \cup WaitQueue \cup {NULL}
    BY DEF Place
  <1>1. CASE state[t] = "READY" /\ suspend[t] = 0
    BY <1>1 DEF PrioOK, Dead, Where
  <1>2. CASE state[t] = "SLEEPING"
    BY <1>2 DEF Fields, Where
  <1>3. QED BY <1>1, <1>2 DEF Where

(* A step that touches one thread's place.                                 *)
LEMMA PlaceStep ==
    ASSUME Fields, NEW t \in Thread, NEW x,
           \A u \in Thread \ {t} : /\ Cancelling(u)' <=> Cancelling(u)
                                   /\ state'[u] = state[u] /\ suspend'[u] = suspend[u]
                                   /\ priority'[u] = priority[u] /\ queue'[u] = queue[u],
           Cancelling(t)' => x = NULL,
           ~Cancelling(t)' => /\ x = Where(t)'
                              /\ state'[t] = "READY" /\ suspend'[t] = 0 => queue'[t] = priority'[t]
                              /\ state'[t] = "SLEEPING" => queue'[t] \in WaitQueue
    PROVE  Place' = [Place EXCEPT ![t] = x] /\ Fields'
  <1>1. ASSUME NEW u \in Thread \ {t}
        PROVE  (IF Cancelling(u)' THEN NULL ELSE Where(u)') = Place[u]
    BY DEF Place, Where
  <1>2. (IF Cancelling(t)' THEN NULL ELSE Where(t)') = x
    OBVIOUS
  <1>3. Place' = [u \in Thread |-> IF Cancelling(u)' THEN NULL ELSE Where(u)']
    BY DEF Place
  <1>4. Place' = [Place EXCEPT ![t] = x]
    BY <1>1, <1>2, <1>3 DEF Place
  <1>5. Fields'
    BY DEF Fields
  <1>6. QED BY <1>4, <1>5

(* ... which is not linked any more.                                       *)
LEMMA PlaceNone ==
    ASSUME Fields, NEW t \in Thread,
           \A u \in Thread \ {t} : /\ Cancelling(u)' <=> Cancelling(u)
                                   /\ state'[u] = state[u] /\ suspend'[u] = suspend[u]
                                   /\ priority'[u] = priority[u] /\ queue'[u] = queue[u],
           Cancelling(t)' \/ (state'[t] # "SLEEPING" /\ ~(state'[t] = "READY" /\ suspend'[t] = 0))
    PROVE  Place' = [Place EXCEPT ![t] = NULL] /\ Fields'
  <1>1. (IF Cancelling(t)' THEN NULL ELSE Where(t)') = NULL
    BY DEF Where
  <1>2. ASSUME NEW u \in Thread \ {t}
        PROVE  (IF Cancelling(u)' THEN NULL ELSE Where(u)') = Place[u]
    BY DEF Place, Where
  <1>3. Place' = [u \in Thread |-> IF Cancelling(u)' THEN NULL ELSE Where(u)']
    BY DEF Place
  <1>4. Place' = [Place EXCEPT ![t] = NULL]
    BY <1>1, <1>2, <1>3 DEF Place
  <1>5. Fields'
    BY DEF Fields
  <1>6. QED BY <1>4, <1>5

LEMMA PlaceKept ==
    ASSUME Fields,
           \A u \in Thread : /\ Cancelling(u)' <=> Cancelling(u)
                             /\ ~Cancelling(u) => /\ Where(u)' = Where(u)
                                                  /\ state'[u] = "READY" /\ suspend'[u] = 0
                                                       => queue'[u] = priority'[u]
                                                  /\ state'[u] = "SLEEPING"
                                                       => queue'[u] \in WaitQueue
    PROVE  Place' = Place /\ Fields'
  BY DEF Place, Fields

(* Nothing moves.                                                          *)
LEMMA NoMove ==
    ASSUME Placed, PrioOK, WaitersSorted,
           \A u \in Thread : Cancelling(u)' <=> Cancelling(u),
           state' = state, suspend' = suspend, priority' = priority, queue' = queue,
           waiters' = waiters, runQueue' = runQueue, runBits' = runBits
    PROVE  Placed' /\ PrioOK' /\ WaitersSorted'
  <1>1. Place' = Place /\ Fields'
    BY DEF Place, Fields, Placed, Where
  <1>2. PrioOK' /\ WaitersSorted'
    BY DEF PrioOK, Dead, WaitersSorted
  <1>3. QED BY <1>1, <1>2 DEF Placed

LEMMA PlacedExact == TypeOK /\ PrioOK /\ Placed => QueuesExact
  <1> SUFFICES ASSUME TypeOK, PrioOK, Placed PROVE QueuesExact
    OBVIOUS
  <1>1. Place \in [Thread -> Priority \cup WaitQueue \cup {NULL}]
    BY PlaceType DEF Placed
  <1>2. /\ \A p \in Priority : IsInjective(runQueue[p]) /\ ToSet(runQueue[p]) = {t \in Thread : Place[t] = p}
        /\ \A q \in WaitQueue : IsInjective(waiters[q]) /\ ToSet(waiters[q]) = {t \in Thread : Place[t] = q}
        /\ runBits = {p \in Priority : runQueue[p] # << >>}
    BY DEF Placed, Linked
  <1>3. NULL \notin Priority /\ NULL \notin WaitQueue /\ Priority \cap WaitQueue = {}
    BY Constants
  <1>4. \A t \in Thread : Place[t] = IF Cancelling(t) THEN NULL ELSE Where(t)
    BY DEF Place
  <1>5. Fields
    BY DEF Placed
  <1>6. RunQueueExact
    <2>1. ASSUME NEW p \in Priority, NEW i \in DOMAIN runQueue[p]
          PROVE  LET t == runQueue[p][i] IN
                 /\ state[t] = "READY" /\ suspend[t] = 0
                 /\ priority[t] = p /\ queue[t] = p
                 /\ \A j \in DOMAIN runQueue[p] : runQueue[p][j] = t => j = i
      <3> DEFINE t == runQueue[p][i]
      <3>1. t \in ToSet(runQueue[p])
        BY DEF ToSet
      <3>2. t \in Thread /\ Place[t] = p
        BY <1>2, <3>1
      <3> HIDE DEF t
      <3>3. ~Cancelling(t) /\ Where(t) = p
        BY <1>3, <1>4, <3>2
      <3>4. state[t] = "READY" /\ suspend[t] = 0 /\ priority[t] = p
        BY <1>3, <1>5, <3>2, <3>3 DEF Where, Fields
      <3>5. queue[t] = p
        BY <1>5, <3>2, <3>3, <3>4 DEF Fields
      <3>6. \A j \in DOMAIN runQueue[p] : runQueue[p][j] = t => j = i
        BY <1>2 DEF IsInjective, t
      <3>7. QED BY <3>4, <3>5, <3>6 DEF t
    <2>2. ASSUME NEW t \in Thread, state[t] = "READY", suspend[t] = 0, ~Cancelling(t)
          PROVE  t \in ToSet(runQueue[priority[t]])
      <3>1. Place[t] = priority[t] /\ priority[t] \in Priority
        BY <1>4, <2>2 DEF Where, PrioOK, Dead
      <3>2. QED BY <1>2, <3>1
    <2>3. QED BY <1>2, <2>1, <2>2 DEF RunQueueExact
  <1>7. SleepersQueued
    <2>1. ASSUME NEW q \in WaitQueue, NEW i \in DOMAIN waiters[q]
          PROVE  LET t == waiters[q][i] IN
                 /\ state[t] = "SLEEPING" /\ queue[t] = q
                 /\ \A j \in DOMAIN waiters[q] : waiters[q][j] = t => j = i
      <3> DEFINE t == waiters[q][i]
      <3>1. t \in ToSet(waiters[q])
        BY DEF ToSet
      <3>2. t \in Thread /\ Place[t] = q
        BY <1>2, <3>1
      <3> HIDE DEF t
      <3>3. ~Cancelling(t) /\ Where(t) = q
        BY <1>3, <1>4, <3>2
      <3>4. ~(state[t] = "READY" /\ suspend[t] = 0)
        BY <1>3, <3>2, <3>3 DEF Where, PrioOK, Dead
      <3>5. state[t] = "SLEEPING" /\ queue[t] = q
        BY <1>3, <3>3, <3>4 DEF Where
      <3>6. \A j \in DOMAIN waiters[q] : waiters[q][j] = t => j = i
        BY <1>2 DEF IsInjective, t
      <3>7. QED BY <3>5, <3>6 DEF t
    <2>2. ASSUME NEW t \in Thread, state[t] = "SLEEPING", ~Cancelling(t)
          PROVE  t \in ToSet(waiters[queue[t]])
      <3>1. Place[t] = queue[t] /\ queue[t] \in WaitQueue
        BY <1>4, <1>5, <2>2 DEF Where, Fields
      <3>2. QED BY <1>2, <3>1
    <2>3. QED BY <2>1, <2>2 DEF SleepersQueued
  <1>8. QED BY <1>6, <1>7 DEF QueuesExact

(* What __OSGetEffectivePriority and SelectThread choose.                  *)
LEMMA EffectiveOK ==
    ASSUME TypeOK, NEW t \in Thread, NEW ms \in Seq(Mutex), NEW w \in [WaitQueue -> Seq(Thread)]
    PROVE  EffectivePriority(t, ms, w) \in Priority
  <1> DEFINE lent == {priority[Head(w[m])] : m \in {n \in ToSet(ms) : w[n] # << >>}}
             all == {base[t]} \cup lent
             N == OS_PRIORITY_MAX + 1
  <1>1. base[t] \in 0 .. OS_PRIORITY_MAX /\ OS_PRIORITY_MAX \in Nat
        /\ \A u \in Thread : priority[u] \in 0 .. N
    BY Constants, StateTypes DEF Priority
  <1>2. \A m \in ToSet(ms) : m \in WaitQueue
    BY Constants DEF ToSet
  <1>3. \A m \in ToSet(ms) : w[m] # << >> => Head(w[m]) \in Thread
    BY <1>2, TailSet
  <1>4. all \in SUBSET (0 .. N) /\ all # {} /\ N \in Nat /\ base[t] \in all
    BY <1>1, <1>3
  <1> HIDE DEF all, N
  <1>5. \E p \in all : \A r \in all : p <= r
    BY <1>4, BestExists
  <1> DEFINE e == CHOOSE p \in all : \A r \in all : p <= r
  <1>6. e \in all /\ \A r \in all : e <= r
    BY <1>5
  <1> HIDE DEF e
  <1>7. e \in 0 .. N /\ e <= base[t]
    BY <1>4, <1>6
  <1>8. e \in 0 .. OS_PRIORITY_MAX
    BY <1>1, <1>7 DEF N
  <1>9. EffectivePriority(t, ms, w) = e
    BY DEF EffectivePriority, e, all
  <1>10. QED BY <1>8, <1>9 DEF Priority

LEMMA BestOK ==
    ASSUME NEW rb \in SUBSET Priority, rb # {}
    PROVE  BestOf(rb) \in rb /\ \A r \in rb : BestOf(rb) <= r
  <1>1. \E p \in rb : \A r \in rb : p <= r
    BY BestExists, Constants DEF Priority
  <1>2. QED BY <1>1 DEF BestOf

-----------------------------------------------------------------------------
(* Calls.                                                                  *)
LEMMA CallFacts ==
    ASSUME KInv, NEW c \in {current, Isr}, c # NULL, MayCall(c)
    PROVE  /\ Stacked /\ stack[Isr] = << >> /\ stack[c] = << >> /\ InOwnCode /\ c \in Context
           /\ current # NULL => /\ current \in Thread /\ stack[current] = << >>
                                /\ state[current] = "RUNNING" /\ suspend[current] = 0
                                /\ priority[current] \in Priority
           /\ Calm /\ \A t \in Thread : ~Cancelling(t)
           /\ \A fn : ~Running(fn)
           /\ \A m \in Mutex : waiters[m] # << >> => owner[m] # NULL
           /\ c # Isr => c = current /\ c \in Thread
  <1>1. Stacked
    BY StateTypes DEF KInv
  <1>2. stack[Isr] = << >> /\ stack[c] = << >> /\ c \in Context
    BY <1>1, Constants DEF MayCall, InOwnCode, Stacked, Context
  <1>3. current # NULL => current \in Thread /\ stack[current] = << >>
    BY <1>1, <1>2 DEF MayCall, InOwnCode, Stacked
  <1>4. current # NULL => state[current] = "RUNNING"
    BY <1>3 DEF KInv, Leaving, Departs
  <1>5. current # NULL => suspend[current] = 0 /\ priority[current] \in Priority
    BY <1>3, <1>4 DEF KInv, RunningOne, PrioOK, Dead
  <1>6. Calm /\ \A t \in Thread : ~Cancelling(t)
    <2>1. ToSet(<< >>) = {}
      BY Stacks DEF ToSet
    <2>2. QED BY <1>1, <1>3, <2>1, CalmNow DEF KInv
  <1>7. \A fn : ~Running(fn)
    BY <1>2, <1>3 DEF Running, Cpu
  <1>8. \A m \in Mutex : waiters[m] # << >> => owner[m] # NULL
    BY <1>7 DEF KInv, WakeOwed
  <1>9. QED BY <1>1, <1>2, <1>3, <1>4, <1>5, <1>6, <1>7, <1>8, Constants DEF InOwnCode, Context

(* A call whose frames are loops of the scheduler.                         *)
LEMMA EnterStep ==
    ASSUME KInv, NEW c \in {current, Isr}, c # NULL, MayCall(c),
           NEW fs \in Seq(Frame), Good(fs),
           \A f \in ToSet(fs) : f.fn \in {"OSWakeupThread", "UpdatePriority", "__OSReschedule"},
           Enter(c, fs), current' = current, owner' = owner, lock' = lock
    PROVE  /\ StackInv' /\ Stacked' /\ \A t \in Thread : Cancelling(t)' <=> Cancelling(t)
           /\ \A t \in Thread : ~Cancelling(t)'
           /\ c # Isr => stack'[Isr] = << >> /\ stack'[c] = fs
  <1>1. Stacked /\ StackInv /\ stack[Isr] = << >> /\ InOwnCode /\ Calm
        /\ (c # Isr => c = current /\ c \in Thread)
        /\ \A t \in Thread : ~Cancelling(t)
    BY CallFacts DEF KInv
  <1>2. CASE c = Isr
    <2>1. stack' = [stack EXCEPT ![Isr] = fs \o <<F("IsrReturn", NULL)>>]
      BY <1>2 DEF Enter
    <2>2. \A f \in ToSet(fs) : f.fn \in IsrFrames
      BY DEF IsrFrames
    <2>3. StackInv' /\ Stacked' /\ Calm'
      BY <1>1, <2>1, <2>2, IsrEnters
    <2>4. \A t \in Thread : ~Cancelling(t)'
      BY <2>3, CalmNext
    <2>5. QED BY <1>1, <1>2, <2>3, <2>4
  <1>3. CASE c # Isr
    <2>1. stack' = [stack EXCEPT ![current] = fs]
      BY <1>1, <1>3 DEF Enter
    <2>2. \A f \in ToSet(fs) : f.fn \notin {"IsrReturn", "CancelTail"}
                                 /\ LockFrame(current, fs, f, owner', lock')
      BY DEF LockFrame
    <2>3. StackInv' /\ Stacked' /\ Calm' /\ stack'[Isr] = << >> /\ stack'[current] = fs
      BY <1>1, <1>3, <2>1, <2>2, NewStack
    <2>4. \A t \in Thread : ~Cancelling(t)'
      BY <2>3, CalmNext
    <2>5. QED BY <1>1, <1>3, <2>3, <2>4
  <1>4. QED BY <1>2, <1>3

(* Nothing but the stacks changes.                                         *)
LEMMA OnlyStacks ==
    ASSUME KInv, UNCHANGED <<threadVars, queueVars, mutexVars, current>>,
           Stacked', StackInv', \A t \in Thread : Cancelling(t)' <=> Cancelling(t),
           Leaving', WakeOwed'
    PROVE  KInv'
  <1>1. Placed' /\ PrioOK' /\ WaitersSorted'
    BY NoMove DEF KInv, threadVars, queueVars
  <1>2. TypeOK'
    BY DEF KInv, TypeOK, Stacked, threadVars, queueVars, mutexVars
  <1>3. MutexConsistent' /\ RunningOne' /\ ActiveList'
    BY DEF KInv, MutexConsistent, RunningOne, ActiveList, threadVars, mutexVars
  <1>4. QED BY <1>1, <1>2, <1>3 DEF KInv

LEMMA WakeupStep ==
    ASSUME KInv, NEW c \in {current, Isr}, c # NULL, NEW q \in UserQueue, OSWakeupThread(c, q)
    PROVE  KInv'
  <1>1. MayCall(c) /\ Enter(c, <<F("OSWakeupThread", q)>>)
        /\ UNCHANGED <<threadVars, queueVars, mutexVars, current>>
    BY DEF OSWakeupThread
  <1>2. F("OSWakeupThread", q) \in Frame /\ F("OSWakeupThread", q).fn = "OSWakeupThread"
    BY FrameIntro, Constants
  <1> DEFINE fs == <<F("OSWakeupThread", q)>>
  <1>3. fs \in Seq(Frame) /\ Good(fs) /\ ToSet(fs) = {F("OSWakeupThread", q)}
    BY <1>2, Stacks
  <1> HIDE DEF fs
  <1>4. /\ StackInv' /\ Stacked' /\ \A t \in Thread : Cancelling(t)' <=> Cancelling(t)
    BY <1>1, <1>2, <1>3, EnterStep DEF fs, mutexVars
  <1>5. Leaving'
    BY <1>1, CallFacts DEF Leaving, threadVars
  <1>6. WakeOwed'
    BY <1>1, CallFacts DEF WakeOwed, queueVars, mutexVars
  <1>7. QED BY <1>1, <1>4, <1>5, <1>6, OnlyStacks

(* A call of the running thread that enters one frame and changes nothing. *)
LEMMA OneFrameCall ==
    ASSUME KInv, current \in Thread, MayCall(current), NEW f \in Frame,
           f.fn \notin {"IsrReturn", "CancelTail", "LockSleep", "LockWoken", "__OSPromoteThread"},
           f.fn = "OSLockMutex" => (owner[f.arg] = current => lock[f.arg] < MaxLock),
           Enter(current, <<f>>), UNCHANGED <<threadVars, queueVars, mutexVars, current>>
    PROVE  KInv'
  <1> DEFINE fs == <<f>>
  <1>1. fs \in Seq(Frame) /\ Good(fs) /\ ToSet(fs) = {f}
    BY Stacks
  <1> HIDE DEF fs
  <1>2. current # Isr /\ current # NULL
    BY Constants
  <1>3. /\ Stacked /\ StackInv /\ stack[Isr] = << >> /\ \A t \in Thread : ~Cancelling(t)
        /\ state[current] = "RUNNING" /\ \A m \in Mutex : waiters[m] # << >> => owner[m] # NULL
    BY <1>2, CallFacts DEF KInv
  <1>4. stack' = [stack EXCEPT ![current] = fs] /\ current' = current
    BY <1>2 DEF Enter, fs
  <1>5. \A g \in ToSet(fs) : g.fn \notin {"IsrReturn", "CancelTail"}
                               /\ LockFrame(current, fs, g, owner', lock')
    BY <1>1 DEF LockFrame, mutexVars
  <1>6. owner' = owner /\ lock' = lock
    BY DEF mutexVars
  <1>7. StackInv' /\ Stacked' /\ Calm'
    BY <1>1, <1>3, <1>4, <1>5, <1>6, NewStack
  <1>8. \A t \in Thread : Cancelling(t)' <=> Cancelling(t)
    BY <1>3, <1>7, CalmNext
  <1>9. Leaving' /\ WakeOwed'
    BY <1>3 DEF Leaving, WakeOwed, threadVars, queueVars, mutexVars
  <1>10. QED BY <1>7, <1>8, <1>9, OnlyStacks

LEMMA YieldStep ==
    ASSUME KInv, current \in Thread, OSYieldThread(current) PROVE KInv'
  <1>1. F("OSYieldThread", NULL) \in Frame /\ F("OSYieldThread", NULL).fn = "OSYieldThread"
    BY FrameIntro
  <1> DEFINE f == F("OSYieldThread", NULL)
  <1>2. MayCall(current) /\ Enter(current, <<f>>)
        /\ UNCHANGED <<threadVars, queueVars, mutexVars, current>>
    BY DEF OSYieldThread
  <1> HIDE DEF f
  <1>3. f \in Frame /\ f.fn = "OSYieldThread"
    BY <1>1 DEF f
  <1>4. QED BY <1>2, <1>3, OneFrameCall

LEMMA LockStep ==
    ASSUME KInv, current \in Thread, NEW m \in Mutex, OSLockMutex(current, m) PROVE KInv'
  <1> DEFINE f == F("OSLockMutex", m)
  <1>1. f \in Frame /\ f.fn = "OSLockMutex" /\ f.arg = m
    BY FrameIntro
  <1>2. /\ MayCall(current) /\ Enter(current, <<f>>)
        /\ owner[m] = current => lock[m] < MaxLock
        /\ UNCHANGED <<threadVars, queueVars, mutexVars, current>>
    BY DEF OSLockMutex
  <1> HIDE DEF f
  <1>3. QED BY <1>1, <1>2, OneFrameCall

(* The two frames of the calls that may change a priority.                 *)
LEMMA UpdateFrames ==
    ASSUME NEW x \in Thread \cup {NULL}
    PROVE  /\ <<F("UpdatePriority", x), Reschedule>> \in Seq(Frame)
           /\ Good(<<F("UpdatePriority", x), Reschedule>>)
           /\ \A f \in ToSet(<<F("UpdatePriority", x), Reschedule>>) :
                 f.fn \in {"UpdatePriority", "__OSReschedule"}
           /\ <<Reschedule>> \in Seq(Frame) /\ Good(<<Reschedule>>)
           /\ \A f \in ToSet(<<Reschedule>>) :
                 f.fn \in {"UpdatePriority", "__OSReschedule"}
           /\ Head(<<Reschedule>>) = Reschedule /\ <<Reschedule>> # << >>
  <1> DEFINE a == F("UpdatePriority", x)
             b == Reschedule
  <1>1. a \in Frame /\ a.fn = "UpdatePriority" /\ b \in Frame /\ b.fn = "__OSReschedule"
    BY FrameIntro
  <1> HIDE DEF a, b
  <1>2. /\ <<a, b>> \in Seq(Frame) /\ Good(<<a, b>>) /\ ToSet(<<a, b>>) = {a, b}
        /\ <<b>> \in Seq(Frame) /\ Good(<<b>>) /\ ToSet(<<b>>) = {b}
        /\ Head(<<b>>) = b /\ <<b>> # << >>
    BY <1>1, Stacks DEF Inner
  <1>3. /\ \A f \in ToSet(<<a, b>>) : f.fn \in {"UpdatePriority", "__OSReschedule"}
        /\ \A f \in ToSet(<<b>>) : f.fn \in {"UpdatePriority", "__OSReschedule"}
    BY <1>1, <1>2
  <1>4. QED BY <1>2, <1>3 DEF a, b

LEMMA SetPriorityStep ==
    ASSUME KInv, current \in Thread, NEW t \in Thread, NEW p \in Priority,
           OSSetThreadPriority(current, t, p)
    PROVE  KInv'
  <1> DEFINE fs == <<F("UpdatePriority", t), Reschedule>>
  <1>1. /\ MayCall(current) /\ Enter(current, fs) /\ base' = [base EXCEPT ![t] = p]
        /\ UNCHANGED <<state, detached, priority, suspend, queue, mutex, active,
                       queueVars, mutexVars, current>>
    BY DEF OSSetThreadPriority
  <1>2. fs \in Seq(Frame) /\ Good(fs)
        /\ \A f \in ToSet(fs) : f.fn \in {"OSWakeupThread", "UpdatePriority", "__OSReschedule"}
    BY UpdateFrames
  <1> HIDE DEF fs
  <1>3. current # NULL /\ current \in {current, Isr}
    BY Constants
  <1>4. /\ StackInv' /\ Stacked' /\ \A u \in Thread : Cancelling(u)' <=> Cancelling(u)
    BY <1>1, <1>2, <1>3, EnterStep DEF mutexVars
  <1>5. state[current] = "RUNNING" /\ \A m \in Mutex : waiters[m] # << >> => owner[m] # NULL
    BY <1>1, <1>3, CallFacts
  <1>6. Leaving' /\ WakeOwed'
    BY <1>1, <1>5 DEF Leaving, WakeOwed, queueVars, mutexVars
  <1>7. Placed' /\ PrioOK' /\ WaitersSorted'
    BY <1>1, <1>4, NoMove DEF KInv, queueVars
  <1>8. TypeOK'
    BY <1>1, <1>4 DEF KInv, TypeOK, Stacked, queueVars, mutexVars
  <1>9. MutexConsistent' /\ RunningOne' /\ ActiveList'
    BY <1>1 DEF KInv, MutexConsistent, RunningOne, ActiveList, mutexVars
  <1>10. QED BY <1>4, <1>6, <1>7, <1>8, <1>9 DEF KInv

-----------------------------------------------------------------------------
(* Sleeping.                                                               *)
LEMMA SleepMoves ==
    ASSUME TypeOK, PrioOK, Placed, WaitersSorted, RunningOne, ActiveList,
           NEW t \in Thread, state[t] = "RUNNING",
           \A u \in Thread : ~Cancelling(u) /\ ~Cancelling(u)',
           NEW q \in WaitQueue, SleepOn(t, q),
           suspend' = suspend, priority' = priority, active' = active
    PROVE  /\ Placed' /\ PrioOK' /\ WaitersSorted' /\ RunningOne' /\ ActiveList'
           /\ state' \in [Thread -> {"READY", "RUNNING", "SLEEPING", "MORIBUND", "EXITED"}]
           /\ queue' \in [Thread -> WaitQueue \cup Priority \cup {NULL}]
           /\ waiters' \in [WaitQueue -> Seq(Thread)]
           /\ \A r \in WaitQueue \ {q} : waiters'[r] = waiters[r]
           /\ hint' = TRUE /\ runQueue' = runQueue /\ runBits' = runBits
           /\ state'[t] = "SLEEPING" /\ \A u \in Thread \ {t} : state'[u] = state[u]
  <1> DEFINE l == InsertByPriority(waiters[q], t, priority)
  <1>1. /\ state' = [state EXCEPT ![t] = "SLEEPING"] /\ queue' = [queue EXCEPT ![t] = q]
        /\ waiters' = [waiters EXCEPT ![q] = l] /\ hint' = TRUE
        /\ runQueue' = runQueue /\ runBits' = runBits
    BY DEF SleepOn
  <1>2. /\ waiters \in [WaitQueue -> Seq(Thread)] /\ priority \in [Thread -> Nat]
        /\ state \in [Thread -> {"READY", "RUNNING", "SLEEPING", "MORIBUND", "EXITED"}]
        /\ queue \in [Thread -> WaitQueue \cup Priority \cup {NULL}]
    BY StateTypes DEF TypeOK
  <1>3. Place \in [Thread -> Priority \cup WaitQueue \cup {NULL}]
    BY PlaceType DEF Placed
  <1>4. Place[t] = NULL
    BY DEF Place, Where
  <1>5. t \notin ToSet(waiters[q]) /\ IsInjective(waiters[q]) /\ waiters[q] \in Seq(Thread)
    BY <1>2, <1>4, Constants DEF Placed, Linked
  <1>6. /\ l \in Seq(Thread) /\ ToSet(l) = ToSet(waiters[q]) \cup {t} /\ IsInjective(l)
    BY <1>2, <1>5, InsertSet
  <1>7. /\ \A u \in Thread \ {t} : state'[u] = state[u] /\ queue'[u] = queue[u]
        /\ state'[t] = "SLEEPING" /\ queue'[t] = q
        /\ \A r \in WaitQueue \ {q} : waiters'[r] = waiters[r]
        /\ waiters'[q] = l
    BY <1>1, <1>2
  <1>8. Place' = [Place EXCEPT ![t] = q] /\ Fields'
    <2>1. \A u \in Thread \ {t} : /\ Cancelling(u)' <=> Cancelling(u)
                                  /\ state'[u] = state[u] /\ suspend'[u] = suspend[u]
                                  /\ priority'[u] = priority[u] /\ queue'[u] = queue[u]
      BY <1>7
    <2>2. Where(t)' = q
      BY <1>7 DEF Where
    <2>3. ~Cancelling(t)'
      OBVIOUS
    <2>4. QED BY <1>7, <2>1, <2>2, <2>3, PlaceStep DEF Placed
  <1>9. Linked([Place EXCEPT ![t] = q], runQueue, runBits, [waiters EXCEPT ![q] = l])
    <2>1. Linked(Place, runQueue, runBits, waiters)
      BY DEF Placed
    <2> HIDE DEF l
    <2>2. QED BY <1>3, <1>4, <1>6, <2>1, LinkWait
  <1>10. Placed'
    BY <1>1, <1>8, <1>9 DEF Placed
  <1>11. waiters' \in [WaitQueue -> Seq(Thread)]
    BY <1>1, <1>2, <1>6
  <1>12. WaitersSorted'
    <2> SUFFICES ASSUME NEW r \in WaitQueue PROVE Ordered(waiters'[r], priority')
      BY DEF WaitersSorted, Ordered
    <2>1. \A x \in WaitQueue : Ordered(waiters[x], priority)
      BY DEF WaitersSorted, Ordered
    <2>2. Ordered(l, priority)
      BY <1>2, <1>5, <2>1, OrderedInsert
    <2>3. QED BY <1>7, <2>1, <2>2
  <1>13. PrioOK'
    BY <1>7 DEF PrioOK, Dead
  <1>14. RunningOne'
    <2>1. \A u \in Thread : state[u] = "RUNNING" => u = t
      BY DEF RunningOne
    <2>2. \A u \in Thread : state'[u] # "RUNNING"
      BY <1>7, <2>1
    <2>3. QED BY <2>2 DEF RunningOne
  <1>15. ActiveList'
    BY <1>7 DEF ActiveList
  <1>16. QED BY <1>1, <1>2, <1>7, <1>10, <1>11, <1>12, <1>13, <1>14, <1>15

(* The running thread goes to sleep on a queue that is no mutex's.         *)
LEMMA SleepEnters ==
    ASSUME KInv, current \in Thread, MayCall(current), NEW q \in WaitQueue, q \notin Mutex,
           SleepOn(current, q), NEW fs \in Seq(Frame), Good(fs), fs # << >>,
           Head(fs).fn = "__OSReschedule",
           \A f \in ToSet(fs) : f.fn \in {"__OSReschedule", "JoinTail"}, Enter(current, fs),
           UNCHANGED <<detached, base, priority, suspend, mutex, active, mutexVars, current>>
    PROVE  KInv'
  <1>1. current # NULL /\ current \in {current, Isr} /\ current # Isr
    BY Constants
  <1>2. /\ Stacked /\ StackInv /\ stack[Isr] = << >> /\ state[current] = "RUNNING"
        /\ \A m \in Mutex : waiters[m] # << >> => owner[m] # NULL
        /\ \A u \in Thread : ~Cancelling(u)
    BY <1>1, CallFacts DEF KInv
  <1>3. owner' = owner /\ lock' = lock /\ held' = held
    BY DEF mutexVars
  <1>4. stack' = [stack EXCEPT ![current] = fs]
    BY <1>1 DEF Enter
  <1>5. \A f \in ToSet(fs) : f.fn \notin {"IsrReturn", "CancelTail"}
                                /\ LockFrame(current, fs, f, owner', lock')
    BY DEF LockFrame
  <1>6. /\ StackInv' /\ Stacked' /\ Calm' /\ stack'[Isr] = << >> /\ stack'[current] = fs
    BY <1>2, <1>3, <1>4, <1>5, NewStack
  <1>7. \A u \in Thread : ~Cancelling(u)'
    BY <1>6, CalmNext
  <1>8. /\ Placed' /\ PrioOK' /\ WaitersSorted' /\ RunningOne' /\ ActiveList'
        /\ state' \in [Thread -> {"READY", "RUNNING", "SLEEPING", "MORIBUND", "EXITED"}]
        /\ queue' \in [Thread -> WaitQueue \cup Priority \cup {NULL}]
        /\ waiters' \in [WaitQueue -> Seq(Thread)]
        /\ \A r \in WaitQueue \ {q} : waiters'[r] = waiters[r]
        /\ hint' = TRUE /\ runQueue' = runQueue /\ runBits' = runBits
    BY <1>2, <1>7, SleepMoves DEF KInv
  <1>9. Leaving'
    BY <1>6, <1>8 DEF Leaving, Departs
  <1>10. WakeOwed'
    BY <1>2, <1>3, <1>8, Constants DEF WakeOwed
  <1>11. TypeOK'
    BY <1>3, <1>6, <1>8 DEF KInv, TypeOK, Stacked
  <1>12. MutexConsistent'
    BY <1>3 DEF KInv, MutexConsistent
  <1>13. QED BY <1>6, <1>8, <1>9, <1>10, <1>11, <1>12 DEF KInv

LEMMA SleepStep ==
    ASSUME KInv, current \in Thread, NEW q \in UserQueue, OSSleepThread(current, q)
    PROVE  KInv'
  <1> DEFINE fs == <<Reschedule>>
  <1>1. /\ MayCall(current) /\ Enter(current, fs) /\ SleepOn(current, q)
        /\ UNCHANGED <<detached, base, priority, suspend, mutex, active, mutexVars, current>>
    BY DEF OSSleepThread
  <1>2. Reschedule \in Frame /\ Reschedule.fn = "__OSReschedule"
    BY FrameIntro
  <1>3. /\ fs \in Seq(Frame) /\ Good(fs) /\ Head(fs) = Reschedule /\ fs # << >>
        /\ ToSet(fs) = {Reschedule}
    BY <1>2, Stacks
  <1> HIDE DEF fs
  <1>4. q \in WaitQueue /\ q \notin Mutex
    BY Constants, ThreadAssumption
  <1>5. Head(fs).fn = "__OSReschedule" /\ \A f \in ToSet(fs) : f.fn \in {"__OSReschedule", "JoinTail"}
    BY <1>2, <1>3
  <1>6. QED BY <1>1, <1>3, <1>4, <1>5, SleepEnters

-----------------------------------------------------------------------------
(***************************************************************************)
(* A sleeping thread changes its priority and moves in its wait queue.     *)
(***************************************************************************)
LEMMA Reinserted ==
    ASSUME NEW l \in Seq(Thread), IsInjective(l), NEW t \in ToSet(l),
           NEW prio \in [Thread -> Nat], Ordered(l, prio),
           NEW new \in [Thread -> Nat], \A u \in Thread \ {t} : new[u] = prio[u]
    PROVE  LET r == InsertByPriority(Without(l, t), t, new) IN
           r \in Seq(Thread) /\ IsInjective(r) /\ ToSet(r) = ToSet(l) /\ Ordered(r, new)
  <1> DEFINE w == Without(l, t)
  <1>1. t \in Thread /\ \A u \in ToSet(l) : u \in Thread
    BY DEF ToSet
  <1>2. w \in Seq(Thread) /\ ToSet(w) = ToSet(l) \ {t} /\ IsInjective(w) /\ Ordered(w, prio)
    BY WithoutElements, WithoutSet, OrderedWithout
  <1> HIDE DEF w
  <1>3. \A u \in ToSet(w) : new[u] = prio[u]
    BY <1>1, <1>2
  <1>4. Ordered(w, new)
    BY <1>2, <1>3, OrderedSame
  <1> DEFINE r == InsertByPriority(w, t, new)
  <1>5. r \in Seq(Thread) /\ IsInjective(r) /\ ToSet(r) = ToSet(w) \cup {t}
    BY <1>1, <1>2, InsertSet
  <1>6. Ordered(r, new)
    BY <1>1, <1>2, <1>4, OrderedInsert
  <1> HIDE DEF r
  <1>7. r \in Seq(Thread) /\ IsInjective(r) /\ ToSet(r) = ToSet(l) /\ Ordered(r, new)
    BY <1>2, <1>5, <1>6
  <1>8. QED BY <1>7 DEF r, w

LEMMA Reappended ==
    ASSUME NEW l \in Seq(Thread), IsInjective(l), NEW t \in ToSet(l),
           NEW prio \in [Thread -> Nat], Ordered(l, prio),
           NEW new, \A u \in Thread \ {t} : new[u] = prio[u] /\ new[u] <= new[t]
    PROVE  LET r == Append(Without(l, t), t) IN
           r \in Seq(Thread) /\ IsInjective(r) /\ ToSet(r) = ToSet(l) /\ Ordered(r, new)
  <1> DEFINE w == Without(l, t)
  <1>1. t \in Thread /\ \A u \in ToSet(l) : u \in Thread
    BY DEF ToSet
  <1>2. w \in Seq(Thread) /\ ToSet(w) = ToSet(l) \ {t} /\ IsInjective(w) /\ Ordered(w, prio)
    BY WithoutElements, WithoutSet, OrderedWithout
  <1> HIDE DEF w
  <1>3. \A u \in ToSet(w) : new[u] = prio[u] /\ new[u] <= new[t]
    BY <1>1, <1>2
  <1>4. Ordered(w, new)
    BY <1>2, <1>3, OrderedSame
  <1> DEFINE r == Append(w, t)
  <1>5. r \in Seq(Thread) /\ IsInjective(r) /\ ToSet(r) = ToSet(w) \cup {t}
    BY <1>1, <1>2, AppendSet
  <1>6. Ordered(r, new)
    BY <1>1, <1>2, <1>3, <1>4, OrderedAppend
  <1> HIDE DEF r
  <1>7. r \in Seq(Thread) /\ IsInjective(r) /\ ToSet(r) = ToSet(l) /\ Ordered(r, new)
    BY <1>2, <1>5, <1>6
  <1>8. QED BY <1>7 DEF r, w

(* A sleeper's wait queue, which holds it.                                 *)
LEMMA SleeperIn ==
    ASSUME TypeOK, PrioOK, Placed, WaitersSorted,
           NEW t \in Thread, state[t] = "SLEEPING", ~Cancelling(t)
    PROVE  /\ queue[t] \in WaitQueue /\ Place[t] = queue[t]
           /\ waiters[queue[t]] \in Seq(Thread) /\ IsInjective(waiters[queue[t]])
           /\ t \in ToSet(waiters[queue[t]])
           /\ Ordered(waiters[queue[t]], priority)
  <1>1. queue[t] \in WaitQueue /\ Place[t] = queue[t]
    BY DEF Placed, Fields, Place, Where
  <1>2. waiters[queue[t]] \in Seq(Thread) /\ IsInjective(waiters[queue[t]])
        /\ t \in ToSet(waiters[queue[t]])
    BY <1>1 DEF Placed, Linked
  <1>3. QED BY <1>1, <1>2 DEF WaitersSorted, Ordered

LEMMA SleeperMoves ==
    ASSUME TypeOK, PrioOK, Placed, WaitersSorted,
           NEW t \in Thread, state[t] = "SLEEPING", ~Cancelling(t),
           \A u \in Thread : Cancelling(u)' <=> Cancelling(u),
           NEW x \in 0 .. OS_PRIORITY_MAX + 1, priority' = [priority EXCEPT ![t] = x],
           NEW l \in Seq(Thread), IsInjective(l), ToSet(l) = ToSet(waiters[queue[t]]),
           Ordered(l, priority'), waiters' = [waiters EXCEPT ![queue[t]] = l],
           state' = state, queue' = queue, runQueue' = runQueue, runBits' = runBits,
           \A u \in Thread \ {t} : suspend'[u] = suspend[u],
           suspend'[t] = 0 => x \in Priority
    PROVE  /\ Placed' /\ PrioOK' /\ WaitersSorted'
           /\ waiters' \in [WaitQueue -> Seq(Thread)]
           /\ priority' \in [Thread -> 0 .. OS_PRIORITY_MAX + 1]
           /\ \A q \in WaitQueue : waiters'[q] = << >> <=> waiters[q] = << >>
  <1>0. PICK q \in WaitQueue : q = queue[t]
    BY SleeperIn
  <1>1. q \in WaitQueue /\ Place[t] = q /\ t \in ToSet(waiters[q]) /\ waiters[q] \in Seq(Thread)
    BY <1>0, SleeperIn
  <1>2. waiters \in [WaitQueue -> Seq(Thread)] /\ priority \in [Thread -> 0 .. OS_PRIORITY_MAX + 1]
    BY DEF TypeOK
  <1>3. waiters' = [waiters EXCEPT ![q] = l] /\ ToSet(l) = ToSet(waiters[q])
    BY <1>0
  <1>4. queue'[t] = q /\ (\A u \in Thread : queue'[u] = queue[u] /\ state'[u] = state[u])
    BY <1>0
  <1>5. /\ waiters' \in [WaitQueue -> Seq(Thread)] /\ waiters'[q] = l
        /\ \A r \in WaitQueue \ {q} : waiters'[r] = waiters[r]
    BY <1>1, <1>2, <1>3
  <1>6. /\ priority' \in [Thread -> 0 .. OS_PRIORITY_MAX + 1] /\ priority'[t] = x
        /\ \A u \in Thread \ {t} : priority'[u] = priority[u]
    BY <1>2
  <1>7. Place' = [Place EXCEPT ![t] = q] /\ Fields'
    <2>1. \A u \in Thread \ {t} : /\ Cancelling(u)' <=> Cancelling(u)
                                  /\ state'[u] = state[u] /\ suspend'[u] = suspend[u]
                                  /\ priority'[u] = priority[u] /\ queue'[u] = queue[u]
      BY <1>4, <1>6
    <2>2. q = Where(t)' /\ state'[t] = "SLEEPING" /\ ~Cancelling(t)'
      BY <1>4 DEF Where
    <2>3. Fields
      BY DEF Placed
    <2>4. queue'[t] = q /\ q \in WaitQueue
      BY <1>1, <1>4
    <2>5. QED BY <2>1, <2>2, <2>3, <2>4, PlaceStep
  <1>8. Place' = Place
    BY <1>1, <1>7 DEF Place
  <1>9. \A r \in WaitQueue : IsInjective(waiters'[r]) /\ ToSet(waiters'[r]) = ToSet(waiters[r])
    BY <1>3, <1>5 DEF Placed, Linked
  <1>10. Placed'
    BY <1>5, <1>7, <1>8, <1>9 DEF Placed, Linked
  <1>11. PrioOK'
    BY <1>4, <1>6 DEF PrioOK, Dead
  <1>12. WaitersSorted'
    <2> SUFFICES ASSUME NEW r \in WaitQueue PROVE Ordered(waiters'[r], priority')
      BY DEF WaitersSorted, Ordered
    <2>1. CASE r = q
      BY <1>5, <2>1
    <2>2. CASE r # q
      <3>1. Ordered(waiters[r], priority) /\ waiters[r] \in Seq(Thread) /\ waiters'[r] = waiters[r]
        BY <1>2, <1>5, <2>2 DEF WaitersSorted, Ordered
      <3>2. t \notin ToSet(waiters[r])
        BY <1>1, <2>2 DEF Placed, Linked
      <3>3. \A u \in ToSet(waiters[r]) : u \in Thread
        BY <3>1 DEF ToSet
      <3>4. \A u \in ToSet(waiters[r]) : priority'[u] = priority[u]
        BY <1>6, <3>2, <3>3
      <3> DEFINE lr == waiters[r]
                 old == priority
                 new == priority'
      <3>5. lr \in Seq(Thread) /\ Ordered(lr, old) /\ \A u \in ToSet(lr) : new[u] = old[u]
        BY <3>1, <3>4
      <3>6. waiters'[r] = lr
        BY <3>1
      <3> HIDE DEF lr, old, new
      <3>7. Ordered(lr, new)
        BY <3>5, OrderedSame
      <3>8. Ordered(waiters'[r], new)
        BY <3>6, <3>7
      <3>9. QED BY <3>8 DEF new
    <2>3. QED BY <2>1, <2>2
  <1>13. \A r \in WaitQueue : waiters'[r] = << >> <=> waiters[r] = << >>
    <2> SUFFICES ASSUME NEW r \in WaitQueue PROVE waiters'[r] = << >> <=> waiters[r] = << >>
      OBVIOUS
    <2>1. waiters'[r] \in Seq(Thread) /\ waiters[r] \in Seq(Thread) /\ ToSet(waiters'[r]) = ToSet(waiters[r])
      BY <1>2, <1>5, <1>9
    <2>2. QED BY <2>1, EmptySet
  <1>14. QED BY <1>5, <1>6, <1>10, <1>11, <1>12, <1>13

(* A thread is taken out of the run queues.                                *)
LEMMA UnsetLinked ==
    ASSUME TypeOK, PrioOK, Placed,
           NEW t \in Thread, state[t] = "READY", suspend[t] = 0, ~Cancelling(t)
    PROVE  /\ queue[t] = priority[t] /\ priority[t] \in Priority /\ Place[t] = priority[t]
           /\ t \in ToSet(runQueue[priority[t]])
           /\ Linked([Place EXCEPT ![t] = NULL], Unlinked(t), BitsWithout(t), waiters)
  <1> DEFINE p == priority[t]
             rest == Without(runQueue[p], t)
  <1>1. queue[t] = p /\ p \in Priority /\ Place[t] = p
    BY DEF Placed, Fields, PrioOK, Dead, Place, Where
  <1>2. /\ runQueue \in [Priority -> Seq(Thread)] /\ t \in ToSet(runQueue[p])
        /\ IsInjective(runQueue[p]) /\ runQueue[p] \in Seq(Thread)
    BY <1>1 DEF Placed, Linked
  <1>3. rest \in Seq(Thread) /\ IsInjective(rest) /\ ToSet(rest) = ToSet(runQueue[p]) \ {t}
    BY <1>2, WithoutElements, WithoutSet
  <1>4. Unlinked(t) = [runQueue EXCEPT ![p] = rest] /\ Unlinked(t)[p] = rest
    BY <1>1, <1>2 DEF Unlinked
  <1>5. BitsWithout(t) = IF rest = << >> THEN runBits \ {p} ELSE runBits
    BY <1>1, <1>4 DEF BitsWithout
  <1>6. Place \in [Thread -> Priority \cup WaitQueue \cup {NULL}]
    BY PlaceType DEF Placed
  <1>7. Linked(Place, runQueue, runBits, waiters)
    BY DEF Placed
  <1> HIDE DEF rest
  <1>8. Linked([Place EXCEPT ![t] = NULL], [runQueue EXCEPT ![p] = rest],
               IF rest = << >> THEN runBits \ {p} ELSE runBits, waiters)
    BY <1>1, <1>3, <1>6, <1>7, UnlinkRun
  <1>9. QED BY <1>1, <1>2, <1>4, <1>5, <1>8

-----------------------------------------------------------------------------
(* Suspending and resuming.                                                *)
LEMMA OwnerFrames ==
    ASSUME TypeOK, NEW t \in Thread
    PROVE  /\ UpdateOwner(t) \o <<Reschedule>> \in Seq(Frame)
           /\ Good(UpdateOwner(t) \o <<Reschedule>>)
           /\ \A f \in ToSet(UpdateOwner(t) \o <<Reschedule>>) :
                 f.fn \in {"UpdatePriority", "__OSReschedule"}
  <1>1. Reschedule \in Frame /\ Reschedule.fn = "__OSReschedule"
    BY FrameIntro
  <1>2. CASE mutex[t] = NULL
    <2>1. UpdateOwner(t) = << >> /\ << >> \o <<Reschedule>> = <<Reschedule>>
      BY <1>2 DEF UpdateOwner
    <2>2. NULL \in Thread \cup {NULL}
      OBVIOUS
    <2>3. QED BY <2>1, <2>2, UpdateFrames
  <1>3. CASE mutex[t] # NULL
    <2>1. PICK x \in Thread \cup {NULL} : x = owner[mutex[t]]
      BY <1>3, StateTypes
    <2> DEFINE a == F("UpdatePriority", x)
               b == Reschedule
               s == <<b>>
               n == <<a>> \o s
    <2>2. a \in Frame /\ a.fn = "UpdatePriority" /\ b \in Frame /\ b.fn = "__OSReschedule"
      BY <1>1, FrameIntro
    <2>3. UpdateOwner(t) \o <<Reschedule>> = n
      BY <1>3, <2>1 DEF UpdateOwner
    <2> HIDE DEF a, b
    <2>4. s \in Seq(Frame) /\ Good(s) /\ ToSet(s) = {b}
      BY <2>2, Stacks
    <2> HIDE DEF s
    <2>5. n \in Seq(Frame) /\ Good(n) /\ ToSet(n) = {a, b}
      <3>1. n \in Seq(Frame) /\ Good(n) /\ ToSet(n) = ToSet(s) \cup {a}
        BY <2>2, <2>4, Pushed DEF Inner
      <3>2. QED BY <2>4, <3>1
    <2> HIDE DEF n
    <2>6. \A f \in ToSet(n) : f.fn \in {"UpdatePriority", "__OSReschedule"}
      BY <2>2, <2>5
    <2>7. QED BY <2>3, <2>5, <2>6
  <1>4. QED BY <1>2, <1>3

(* Only the suspend count of a thread that stays suspended changes.        *)
LEMMA CountOnly ==
    ASSUME KInv, NEW t \in Thread, suspend[t] # 0,
           NEW n \in 1 .. MaxSuspend, suspend' = [suspend EXCEPT ![t] = n],
           UNCHANGED <<state, queue, priority, queueVars, stack, detached, base, mutex,
                       active, mutexVars, current>>
    PROVE  KInv'
  <1>1. /\ TypeOK /\ PrioOK /\ Placed /\ WaitersSorted /\ RunningOne /\ Fields /\ ActiveList
    BY DEF KInv, Placed
  <1>2. /\ suspend' \in [Thread -> 0 .. MaxSuspend] /\ suspend'[t] # 0
        /\ \A u \in Thread \ {t} : suspend'[u] = suspend[u]
    <2>1. suspend \in [Thread -> 0 .. MaxSuspend] /\ n \in 0 .. MaxSuspend /\ n # 0
      BY <1>1, Constants DEF TypeOK
    <2>2. QED BY <2>1
  <1>3. /\ state' = state /\ queue' = queue /\ priority' = priority /\ waiters' = waiters
        /\ runQueue' = runQueue /\ runBits' = runBits /\ hint' = hint /\ stack' = stack
        /\ owner' = owner /\ lock' = lock /\ held' = held /\ current' = current
    BY DEF queueVars, mutexVars
  <1>4. TypeOK'
    BY <1>1, <1>2, <1>3 DEF TypeOK
  <1>5. \A u \in Thread : Cancelling(u)' <=> Cancelling(u)
    BY <1>3 DEF Cancelling, Pending
  <1>6. state[t] # "RUNNING"
    BY <1>1 DEF RunningOne
  <1>7. RunningOne' /\ PrioOK'
    BY <1>1, <1>2, <1>3, <1>6 DEF RunningOne, PrioOK, Dead
  <1>8. \A u \in Thread : /\ Where(u)' = Where(u)
                          /\ state'[u] = "READY" /\ suspend'[u] = 0 => queue'[u] = priority'[u] \/ Cancelling(u)
                          /\ state'[u] = "SLEEPING" => queue'[u] \in WaitQueue \/ Cancelling(u)
    BY <1>1, <1>2, <1>3, <1>6 DEF Where, Fields
  <1>9. Place' = Place /\ Fields'
    BY <1>1, <1>5, <1>8, PlaceKept
  <1>10. Placed' /\ WaitersSorted'
    BY <1>1, <1>3, <1>9 DEF Placed, WaitersSorted
  <1>11. StackInv' /\ Leaving' /\ WakeOwed' /\ MutexConsistent'
    BY <1>3 DEF KInv, StackInv, Frames, Locks, Cancels, Dead, Leaving, WakeOwed, Running, Arg,
                Cpu, MutexConsistent
  <1>12. ActiveList'
    BY <1>1, <1>3 DEF ActiveList
  <1>13. QED BY <1>4, <1>7, <1>10, <1>11, <1>12 DEF KInv

LEMMA SuspendStep ==
    ASSUME KInv, current \in Thread, NEW t \in Thread, OSSuspendThread(current, t)
    PROVE  KInv'
  <1> DEFINE c == current
  <1>0. current # NULL /\ current # Isr /\ current \in {current, Isr}
    BY Constants
  <1>1. /\ MayCall(c) /\ suspend[t] < MaxSuspend /\ suspend' = [suspend EXCEPT ![t] = @ + 1]
        /\ UNCHANGED <<detached, base, mutex, active, mutexVars, current>>
    BY DEF OSSuspendThread
  <1>2. /\ Stacked /\ stack[Isr] = << >> /\ stack[c] = << >>
        /\ state[c] = "RUNNING" /\ \A u \in Thread : ~Cancelling(u)
        /\ \A m \in Mutex : waiters[m] # << >> => owner[m] # NULL
    BY <1>0, <1>1, CallFacts
  <1>3. /\ TypeOK /\ PrioOK /\ Placed /\ WaitersSorted /\ RunningOne /\ Fields /\ StackInv /\ ActiveList
    BY DEF KInv, Placed
  <1>4. /\ suspend' \in [Thread -> 0 .. MaxSuspend]
        /\ suspend'[t] = suspend[t] + 1 /\ suspend'[t] # 0
        /\ \A u \in Thread \ {t} : suspend'[u] = suspend[u]
    <2>1. suspend \in [Thread -> 0 .. MaxSuspend]
      BY <1>3 DEF TypeOK
    <2>2. suspend[t] + 1 \in 0 .. MaxSuspend /\ suspend[t] + 1 # 0
      BY <1>1, <2>1, Constants
    <2>3. suspend' = [suspend EXCEPT ![t] = suspend[t] + 1]
      BY <1>1
    <2>4. QED BY <2>1, <2>2, <2>3
  <1>5. owner' = owner /\ lock' = lock /\ held' = held /\ current' = current
    BY <1>1 DEF mutexVars
  <1>6. MutexConsistent'
    BY <1>5 DEF KInv, MutexConsistent
  <1>7. CASE suspend[t] > 0 /\ UNCHANGED <<state, queue, priority, queueVars, stack>>
    <2>1. suspend[t] # 0 /\ suspend[t] + 1 \in 1 .. MaxSuspend
      BY <1>1, <1>3, <1>7, StateTypes, Constants
    <2>2. suspend' = [suspend EXCEPT ![t] = suspend[t] + 1]
      BY <1>1
    <2>3. QED BY <1>1, <1>7, <2>1, <2>2, CountOnly
  <1>8. ASSUME NEW fs \in Seq(Frame), Good(fs), Enter(c, fs),
               \A f \in ToSet(fs) : f.fn \in {"OSWakeupThread", "UpdatePriority", "__OSReschedule"}
        PROVE  /\ StackInv' /\ Stacked' /\ \A u \in Thread : ~Cancelling(u)'
               /\ stack'[Isr] = << >> /\ stack'[c] = fs
    BY <1>0, <1>1, <1>5, <1>8, EnterStep
  <1> DEFINE r == <<Reschedule>>
  <1>9. /\ r \in Seq(Frame) /\ Good(r) /\ Head(r).fn = "__OSReschedule" /\ r # << >>
        /\ \A f \in ToSet(r) : f.fn \in {"OSWakeupThread", "UpdatePriority", "__OSReschedule"}
    BY UpdateFrames, FrameIntro
  <1> HIDE DEF r
  <1>10. ASSUME Enter(c, r), waiters' = waiters,
                (state' = state /\ t # c) \/ hint' = TRUE,
                Where(t)' = NULL, \A u \in Thread \ {t} : state'[u] = state[u] /\ queue'[u] = queue[u],
                state'[t] \notin {"RUNNING", "SLEEPING"}, priority' = priority,
                TypeOK', Linked([Place EXCEPT ![t] = NULL], runQueue', runBits', waiters), ActiveList'
         PROVE  KInv'
    <2>1. /\ StackInv' /\ Stacked' /\ \A u \in Thread : ~Cancelling(u)'
          /\ stack'[Isr] = << >> /\ stack'[c] = r
      BY <1>8, <1>9, <1>10
    <2>2. Leaving'
      BY <1>2, <1>5, <1>9, <1>10, <2>1 DEF Leaving, Departs
    <2>3. WakeOwed'
      BY <1>2, <1>5, <1>10 DEF WakeOwed
    <2>4. RunningOne'
      BY <1>3, <1>4, <1>5, <1>10 DEF RunningOne
    <2>5. PrioOK'
      BY <1>3, <1>4, <1>10 DEF PrioOK, Dead
    <2>6. Place' = [Place EXCEPT ![t] = NULL] /\ Fields'
      <3>1. \A u \in Thread \ {t} : /\ Cancelling(u)' <=> Cancelling(u)
                                    /\ state'[u] = state[u] /\ suspend'[u] = suspend[u]
                                    /\ priority'[u] = priority[u] /\ queue'[u] = queue[u]
        BY <1>2, <1>4, <1>10, <2>1
      <3>2. ~Cancelling(t)' /\ state'[t] # "SLEEPING" /\ suspend'[t] # 0
        BY <1>4, <1>10, <2>1
      <3>3. Fields
        BY <1>3
      <3>4. QED BY <3>1, <3>2, <3>3, PlaceNone
    <2>7. Placed'
      BY <1>10, <2>6 DEF Placed
    <2>8. WaitersSorted'
      BY <1>3, <1>10 DEF WaitersSorted
    <2>9. QED BY <1>6, <1>10, <2>1, <2>2, <2>3, <2>4, <2>5, <2>7, <2>8 DEF KInv
  <1>11. CASE /\ suspend[t] = 0 /\ state[t] = "RUNNING"
              /\ hint' = TRUE /\ state' = [state EXCEPT ![t] = "READY"]
              /\ Enter(c, r) /\ UNCHANGED <<queue, priority, waiters, runQueue, runBits>>
    <2>1. state'[t] = "READY" /\ \A u \in Thread \ {t} : state'[u] = state[u]
      BY <1>3, <1>11 DEF TypeOK
    <2>2. StackInv' /\ Stacked'
      BY <1>8, <1>9, <1>11
    <2>3. TypeOK'
      BY <1>1, <1>3, <1>4, <1>5, <1>11, <2>2 DEF TypeOK, Stacked
    <2>4. Where(t)' = NULL
      BY <1>4, <2>1 DEF Where
    <2>5. Linked([Place EXCEPT ![t] = NULL], runQueue', runBits', waiters)
      <3>1. Place[t] = NULL
        BY <1>2, <1>11 DEF Place, Where
      <3>2. [Place EXCEPT ![t] = NULL] = Place
        BY <3>1 DEF Place
      <3>3. QED BY <1>3, <1>11, <3>2 DEF Placed
    <2>6. ActiveList'
      BY <1>1, <1>3, <1>11, <2>1 DEF ActiveList
    <2>7. QED BY <1>10, <1>11, <2>1, <2>3, <2>4, <2>5, <2>6
  <1>12. CASE /\ suspend[t] = 0 /\ state[t] = "READY" /\ UnsetRun(t) /\ Enter(c, r)
              /\ UNCHANGED <<state, priority, waiters, hint>>
    <2>1. /\ queue[t] = priority[t] /\ priority[t] \in Priority
          /\ Linked([Place EXCEPT ![t] = NULL], Unlinked(t), BitsWithout(t), waiters)
      BY <1>2, <1>3, <1>12, UnsetLinked
    <2>2. /\ queue' = [queue EXCEPT ![t] = NULL] /\ runQueue' = Unlinked(t) /\ runBits' = BitsWithout(t)
          /\ \A u \in Thread \ {t} : queue'[u] = queue[u]
      BY <1>12 DEF UnsetRun
    <2>3. StackInv' /\ Stacked'
      BY <1>8, <1>9, <1>12
    <2>4. TypeOK'
      <3>1. runQueue' \in [Priority -> Seq(Thread)] /\ runBits' \subseteq Priority
        BY <2>1, <2>2 DEF Linked
      <3>2. queue' \in [Thread -> WaitQueue \cup Priority \cup {NULL}]
        BY <1>3, <2>2 DEF TypeOK
      <3>3. QED BY <1>1, <1>3, <1>4, <1>5, <1>12, <2>3, <3>1, <3>2 DEF TypeOK, Stacked
    <2>5. Where(t)' = NULL
      BY <1>4, <1>12 DEF Where
    <2>6. ActiveList'
      BY <1>1, <1>3, <1>12 DEF ActiveList
    <2>7. t # c
      BY <1>2, <1>12
    <2>8. QED BY <1>10, <1>12, <2>1, <2>2, <2>4, <2>5, <2>6, <2>7
  <1>13. CASE /\ suspend[t] = 0 /\ state[t] = "SLEEPING"
              /\ priority' = [priority EXCEPT ![t] = SuspendedPriority]
              /\ waiters' = [waiters EXCEPT ![queue[t]] = Append(Without(@, t), t)]
              /\ Enter(c, UpdateOwner(t) \o r)
              /\ UNCHANGED <<state, queue, runQueue, runBits, hint>>
    <2> DEFINE x == OS_PRIORITY_MAX + 1
               w == waiters[queue[t]]
               l == Append(Without(w, t), t)
    <2>1. /\ queue[t] \in WaitQueue /\ w \in Seq(Thread) /\ IsInjective(w) /\ t \in ToSet(w)
          /\ Ordered(w, priority)
      BY <1>2, <1>3, <1>13, SleeperIn
    <2>2. x \in 0 .. OS_PRIORITY_MAX + 1
      BY Constants
    <2>3. priority' = [priority EXCEPT ![t] = x] /\ priority \in [Thread -> Nat]
          /\ \A u \in Thread : priority[u] \in 0 .. OS_PRIORITY_MAX + 1
      BY <1>3, <1>13, StateTypes DEF SuspendedPriority
    <2>4. \A u \in Thread \ {t} : priority'[u] = priority[u] /\ priority'[u] <= priority'[t]
      BY <2>2, <2>3
    <2>5. l \in Seq(Thread) /\ IsInjective(l) /\ ToSet(l) = ToSet(w) /\ Ordered(l, priority')
      <3> HIDE DEF w
      <3>1. QED BY <2>1, <2>3, <2>4, Reappended
    <2>6. waiters' = [waiters EXCEPT ![queue[t]] = l]
      BY <1>13
    <2>7. UpdateOwner(t) \o r = UpdateOwner(t) \o <<Reschedule>>
      BY DEF r
    <2>8. /\ StackInv' /\ Stacked' /\ \A u \in Thread : ~Cancelling(u)'
      BY <1>3, <1>8, <1>13, <2>7, OwnerFrames
    <2>9. /\ \A u \in Thread : Cancelling(u)' <=> Cancelling(u)
          /\ state' = state /\ queue' = queue /\ runQueue' = runQueue /\ runBits' = runBits
          /\ \A u \in Thread \ {t} : suspend'[u] = suspend[u]
          /\ suspend'[t] = 0 => x \in Priority
      BY <1>2, <1>4, <1>13, <2>8
    <2>10. /\ Placed' /\ PrioOK' /\ WaitersSorted'
           /\ waiters' \in [WaitQueue -> Seq(Thread)]
           /\ priority' \in [Thread -> 0 .. OS_PRIORITY_MAX + 1]
           /\ \A q \in WaitQueue : waiters'[q] = << >> <=> waiters[q] = << >>
      <3> HIDE DEF l, w, x
      <3>1. l \in Seq(Thread) /\ IsInjective(l) /\ ToSet(l) = ToSet(waiters[queue[t]])
            /\ Ordered(l, priority')
        BY <2>5 DEF w
      <3>2. QED BY <1>2, <1>3, <1>13, <2>2, <2>3, <2>6, <2>9, <3>1, SleeperMoves
    <2>11. TypeOK'
      BY <1>1, <1>3, <1>4, <1>5, <1>13, <2>8, <2>10 DEF TypeOK, Stacked
    <2>12. Leaving' /\ WakeOwed'
      BY <1>2, <1>5, <1>13, <2>10, Constants DEF Leaving, WakeOwed
    <2>13. RunningOne' /\ ActiveList'
      BY <1>1, <1>3, <1>4, <1>5, <1>13 DEF RunningOne, ActiveList
    <2>14. QED BY <1>6, <2>8, <2>10, <2>11, <2>12, <2>13 DEF KInv
  <1>14. CASE /\ suspend[t] = 0 /\ state[t] \in {"MORIBUND", "EXITED"} /\ Enter(c, r)
              /\ UNCHANGED <<state, queue, priority, queueVars>>
    <2>1. /\ waiters' = waiters /\ runQueue' = runQueue /\ runBits' = runBits /\ hint' = hint
          /\ state' = state /\ queue' = queue /\ priority' = priority
      BY <1>14 DEF queueVars
    <2>2. StackInv' /\ Stacked'
      BY <1>8, <1>9, <1>14
    <2>3. TypeOK'
      BY <1>1, <1>3, <1>4, <1>5, <2>1, <2>2 DEF TypeOK, Stacked
    <2>4. Where(t)' = NULL
      BY <1>14, <2>1 DEF Where
    <2>5. Linked([Place EXCEPT ![t] = NULL], runQueue', runBits', waiters)
      <3>1. Place[t] = NULL
        BY <1>2, <1>14 DEF Place, Where
      <3>2. [Place EXCEPT ![t] = NULL] = Place
        BY <3>1 DEF Place
      <3>3. QED BY <1>3, <2>1, <3>2 DEF Placed
    <2>6. ActiveList' /\ t # c
      BY <1>1, <1>2, <1>3, <1>14, <2>1 DEF ActiveList
    <2>7. QED BY <1>10, <1>14, <2>1, <2>3, <2>4, <2>5, <2>6
  <1>15. QED BY <1>7, <1>11, <1>12, <1>13, <1>14 DEF OSSuspendThread, r

(* A sleeping thread gets priority x, and its place in the queue by it.    *)
LEMMA Reranked ==
    ASSUME TypeOK, PrioOK, Placed, WaitersSorted,
           NEW t \in Thread, state[t] = "SLEEPING", ~Cancelling(t),
           \A u \in Thread : Cancelling(u)' <=> Cancelling(u),
           NEW x \in Priority, priority' = [priority EXCEPT ![t] = x],
           waiters' = [waiters EXCEPT ![queue[t]] =
                          InsertByPriority(Without(waiters[queue[t]], t), t, priority')],
           UNCHANGED <<state, queue, runQueue, runBits>>,
           \A u \in Thread \ {t} : suspend'[u] = suspend[u]
    PROVE  /\ Placed' /\ PrioOK' /\ WaitersSorted'
           /\ waiters' \in [WaitQueue -> Seq(Thread)]
           /\ priority' \in [Thread -> 0 .. OS_PRIORITY_MAX + 1]
           /\ \A q \in WaitQueue : waiters'[q] = << >> <=> waiters[q] = << >>
  <1> DEFINE w == waiters[queue[t]]
             new == priority'
             l == InsertByPriority(Without(w, t), t, new)
  <1>1. w \in Seq(Thread) /\ IsInjective(w) /\ t \in ToSet(w) /\ Ordered(w, priority)
    BY SleeperIn
  <1>2. priority \in [Thread -> Nat] /\ x \in Nat /\ x \in 0 .. OS_PRIORITY_MAX + 1
    BY StateTypes, Constants DEF Priority
  <1>3. new \in [Thread -> Nat] /\ \A u \in Thread \ {t} : new[u] = priority[u]
    BY <1>2
  <1>4. waiters' = [waiters EXCEPT ![queue[t]] = l]
    OBVIOUS
  <1> HIDE DEF w, new
  <1>5. l \in Seq(Thread) /\ IsInjective(l) /\ ToSet(l) = ToSet(w) /\ Ordered(l, new)
    BY <1>1, <1>2, <1>3, Reinserted
  <1> HIDE DEF l
  <1>6. l \in Seq(Thread) /\ IsInjective(l) /\ ToSet(l) = ToSet(waiters[queue[t]])
        /\ Ordered(l, priority')
    BY <1>5 DEF w, new
  <1>7. QED BY <1>2, <1>4, <1>6, SleeperMoves

(* A thread that is in no wait queue changes its priority.                 *)
LEMMA SortedBut ==
    ASSUME WaitersSorted, \A q \in WaitQueue : waiters[q] \in Seq(Thread), NEW t,
           \A q \in WaitQueue : t \notin ToSet(waiters[q]),
           \A u \in Thread \ {t} : priority'[u] = priority[u], waiters' = waiters
    PROVE  WaitersSorted'
  <1> DEFINE old == priority
             new == priority'
  <1> SUFFICES ASSUME NEW q \in WaitQueue PROVE Ordered(waiters[q], new)
    BY DEF WaitersSorted, Ordered
  <1>1. \A u \in Thread \ {t} : new[u] = old[u]
    OBVIOUS
  <1>2. Ordered(waiters[q], old) /\ waiters[q] \in Seq(Thread)
    BY DEF WaitersSorted, Ordered
  <1>3. \A u \in ToSet(waiters[q]) : new[u] = old[u]
    BY <1>1, <1>2 DEF ToSet
  <1> HIDE DEF old, new
  <1>4. QED BY <1>2, <1>3, OrderedSame

(* A runnable thread is linked in the run queue of priority p.             *)
LEMMA Requeued ==
    ASSUME TypeOK, PrioOK, Placed, WaitersSorted, NEW t \in Thread, Place[t] \notin WaitQueue,
           \A u \in Thread : Cancelling(u)' <=> Cancelling(u), ~Cancelling(t),
           NEW p \in Priority, priority' = [priority EXCEPT ![t] = p],
           queue' = [queue EXCEPT ![t] = p], state'[t] = "READY", suspend'[t] = 0,
           \A u \in Thread \ {t} : state'[u] = state[u] /\ suspend'[u] = suspend[u],
           Linked([Place EXCEPT ![t] = p], runQueue', runBits', waiters), waiters' = waiters
    PROVE  /\ Placed' /\ PrioOK' /\ WaitersSorted'
           /\ priority' \in [Thread -> 0 .. OS_PRIORITY_MAX + 1]
           /\ queue' \in [Thread -> WaitQueue \cup Priority \cup {NULL}]
           /\ runQueue' \in [Priority -> Seq(Thread)] /\ runBits' \subseteq Priority
  <1>1. priority \in [Thread -> 0 .. OS_PRIORITY_MAX + 1]
        /\ queue \in [Thread -> WaitQueue \cup Priority \cup {NULL}]
    BY DEF TypeOK
  <1>2. p \in 0 .. OS_PRIORITY_MAX + 1
    BY Constants DEF Priority
  <1>3. /\ priority' \in [Thread -> 0 .. OS_PRIORITY_MAX + 1] /\ priority'[t] = p
        /\ queue' \in [Thread -> WaitQueue \cup Priority \cup {NULL}] /\ queue'[t] = p
        /\ \A u \in Thread \ {t} : priority'[u] = priority[u] /\ queue'[u] = queue[u]
    BY <1>1, <1>2
  <1>4. Place' = [Place EXCEPT ![t] = p] /\ Fields'
    <2>1. \A u \in Thread \ {t} : /\ Cancelling(u)' <=> Cancelling(u)
                                  /\ state'[u] = state[u] /\ suspend'[u] = suspend[u]
                                  /\ priority'[u] = priority[u] /\ queue'[u] = queue[u]
      BY <1>3
    <2>2. p = Where(t)' /\ ~Cancelling(t)' /\ state'[t] = "READY" /\ queue'[t] = priority'[t]
      BY <1>3 DEF Where
    <2>3. Fields
      BY DEF Placed
    <2>4. QED BY <2>1, <2>2, <2>3, PlaceStep
  <1>5. Placed'
    BY <1>4 DEF Placed
  <1>6. PrioOK'
    BY <1>3 DEF PrioOK, Dead
  <1>7. WaitersSorted'
    <2>1. \A q \in WaitQueue : t \notin ToSet(waiters[q]) /\ waiters[q] \in Seq(Thread)
      BY StateTypes DEF Placed, Linked
    <2>2. QED BY <1>3, <2>1, SortedBut
  <1>8. runQueue' \in [Priority -> Seq(Thread)] /\ runBits' \subseteq Priority
    BY DEF Linked
  <1>9. QED BY <1>3, <1>5, <1>6, <1>7, <1>8

LEMMA ResumeStep ==
    ASSUME KInv, NEW c \in {current, Isr}, c # NULL, NEW t \in Thread, OSResumeThread(c, t)
    PROVE  KInv'
  <1>1. /\ MayCall(c) /\ suspend[t] > 0 /\ suspend' = [suspend EXCEPT ![t] = @ - 1]
        /\ UNCHANGED <<state, detached, base, mutex, active, mutexVars, current>>
    BY DEF OSResumeThread
  <1>2. /\ \A u \in Thread : ~Cancelling(u)
        /\ \A m \in Mutex : waiters[m] # << >> => owner[m] # NULL
        /\ current # NULL => state[current] = "RUNNING"
    BY <1>1, CallFacts
  <1>3. /\ TypeOK /\ PrioOK /\ Placed /\ WaitersSorted /\ RunningOne /\ Fields /\ ActiveList
    BY DEF KInv, Placed
  <1>4. /\ suspend' \in [Thread -> 0 .. MaxSuspend] /\ suspend'[t] = suspend[t] - 1
        /\ \A u \in Thread \ {t} : suspend'[u] = suspend[u]
        /\ suspend[t] \in 1 .. MaxSuspend
    <2>1. suspend \in [Thread -> 0 .. MaxSuspend]
      BY <1>3 DEF TypeOK
    <2>2. suspend[t] - 1 \in 0 .. MaxSuspend /\ suspend[t] \in 1 .. MaxSuspend
      BY <1>1, <2>1, Constants
    <2>3. suspend' = [suspend EXCEPT ![t] = suspend[t] - 1]
      BY <1>1
    <2>4. QED BY <2>1, <2>2, <2>3
  <1>5. owner' = owner /\ lock' = lock /\ held' = held /\ current' = current /\ state' = state
    BY <1>1 DEF mutexVars
  <1>6. MutexConsistent' /\ ActiveList'
    BY <1>1, <1>3, <1>5 DEF KInv, MutexConsistent, ActiveList
  <1>7. state[t] # "RUNNING"
    BY <1>1, <1>3 DEF RunningOne
  <1>8. RunningOne'
    BY <1>3, <1>4, <1>5, <1>7 DEF RunningOne
  <1>9. Leaving'
    BY <1>2, <1>5 DEF Leaving
  <1>10. CASE suspend[t] > 1 /\ UNCHANGED <<queue, priority, queueVars, stack>>
    <2>1. suspend[t] # 0 /\ suspend[t] - 1 \in 1 .. MaxSuspend
      BY <1>4, <1>10, Constants
    <2>2. suspend' = [suspend EXCEPT ![t] = suspend[t] - 1]
      BY <1>1
    <2>3. QED BY <1>1, <1>10, <2>1, <2>2, CountOnly
  <1>11. ASSUME NEW fs \in Seq(Frame), Good(fs), Enter(c, fs),
                \A f \in ToSet(fs) : f.fn \in {"OSWakeupThread", "UpdatePriority", "__OSReschedule"}
         PROVE  /\ StackInv' /\ Stacked' /\ \A u \in Thread : ~Cancelling(u)'
    BY <1>1, <1>5, <1>11, EnterStep
  <1> DEFINE r == <<Reschedule>>
  <1>12. /\ r \in Seq(Frame) /\ Good(r)
         /\ \A f \in ToSet(r) : f.fn \in {"OSWakeupThread", "UpdatePriority", "__OSReschedule"}
    BY UpdateFrames
  <1> HIDE DEF r
  <1>13. CASE suspend[t] = 1 /\ state[t] = "READY"
    <2> DEFINE e == EffectivePriority(t, held[t], waiters)
    <2>1. /\ priority' = [priority EXCEPT ![t] = e] /\ SetRun(t, e) /\ Enter(c, r)
          /\ waiters' = waiters
      BY <1>13 DEF OSResumeThread, r
    <2>2. held[t] \in Seq(Mutex) /\ waiters \in [WaitQueue -> Seq(Thread)]
      BY <1>3 DEF TypeOK
    <2>3. e \in Priority
      BY <1>3, <2>2, EffectiveOK
    <2> HIDE DEF e
    <2>4. /\ runQueue' = [runQueue EXCEPT ![e] = Append(@, t)] /\ runBits' = runBits \cup {e}
          /\ queue' = [queue EXCEPT ![t] = e] /\ hint' = TRUE
      BY <2>1 DEF SetRun
    <2>5. Place[t] = NULL /\ Place \in [Thread -> Priority \cup WaitQueue \cup {NULL}]
          /\ Linked(Place, runQueue, runBits, waiters)
      BY <1>2, <1>3, <1>13, PlaceType DEF Place, Where, Placed
    <2>6. Linked([Place EXCEPT ![t] = e], runQueue', runBits', waiters)
      <3>1. Linked([Place EXCEPT ![t] = e], [runQueue EXCEPT ![e] = Append(@, t)],
                   runBits \cup {e}, waiters)
        BY <2>3, <2>5, LinkRun
      <3>2. QED BY <2>4, <3>1
    <2>7. /\ StackInv' /\ Stacked' /\ \A u \in Thread : ~Cancelling(u)'
      BY <1>11, <1>12, <2>1
    <2>8. state'[t] = "READY" /\ suspend'[t] = 0 /\ Place[t] \notin WaitQueue
      BY <1>4, <1>5, <1>13, <2>5, Constants
    <2>9. \A u \in Thread : Cancelling(u)' <=> Cancelling(u)
      BY <1>2, <2>7
    <2>10. \A u \in Thread \ {t} : state'[u] = state[u] /\ suspend'[u] = suspend[u]
      BY <1>4, <1>5
    <2>11. /\ Placed' /\ PrioOK' /\ WaitersSorted'
           /\ priority' \in [Thread -> 0 .. OS_PRIORITY_MAX + 1]
           /\ queue' \in [Thread -> WaitQueue \cup Priority \cup {NULL}]
           /\ runQueue' \in [Priority -> Seq(Thread)] /\ runBits' \subseteq Priority
      BY <1>2, <1>3, <2>1, <2>3, <2>4, <2>6, <2>8, <2>9, <2>10, Requeued
    <2>12. TypeOK'
      BY <1>1, <1>3, <1>4, <1>5, <2>1, <2>4, <2>7, <2>11 DEF TypeOK, Stacked
    <2>13. WakeOwed'
      BY <1>2, <1>5, <2>1 DEF WakeOwed
    <2>14. QED BY <1>6, <1>8, <1>9, <2>7, <2>11, <2>12, <2>13 DEF KInv
  <1>14. CASE suspend[t] = 1 /\ state[t] = "SLEEPING"
    <2> DEFINE w == Without(waiters[queue[t]], t)
               unlinked == [waiters EXCEPT ![queue[t]] = w]
               e == EffectivePriority(t, held[t], unlinked)
    <2>1. /\ priority' = [priority EXCEPT ![t] = e]
          /\ waiters' = [unlinked EXCEPT ![queue[t]] = InsertByPriority(@, t, priority')]
          /\ Enter(c, UpdateOwner(t) \o r)
          /\ UNCHANGED <<queue, runQueue, runBits, hint>>
      BY <1>14 DEF OSResumeThread, r
    <2>2. /\ queue[t] \in WaitQueue /\ waiters[queue[t]] \in Seq(Thread)
          /\ IsInjective(waiters[queue[t]]) /\ t \in ToSet(waiters[queue[t]])
      BY <1>2, <1>3, <1>14, SleeperIn
    <2>3. w \in Seq(Thread)
      BY <2>2, WithoutElements, WithoutSet
    <2>4. held[t] \in Seq(Mutex) /\ waiters \in [WaitQueue -> Seq(Thread)]
      BY <1>3 DEF TypeOK
    <2> HIDE DEF w
    <2>5. unlinked \in [WaitQueue -> Seq(Thread)] /\ unlinked[queue[t]] = w
      BY <2>2, <2>3, <2>4
    <2>6. waiters' = [waiters EXCEPT ![queue[t]] = InsertByPriority(w, t, priority')]
      BY <2>1, <2>2, <2>4
    <2> HIDE DEF unlinked
    <2>7. e \in Priority
      BY <1>3, <2>4, <2>5, EffectiveOK
    <2> HIDE DEF e
    <2>8. /\ StackInv' /\ Stacked' /\ \A u \in Thread : ~Cancelling(u)'
      <3>1. UpdateOwner(t) \o r = UpdateOwner(t) \o <<Reschedule>>
        BY DEF r
      <3>2. QED BY <1>3, <1>11, <2>1, <3>1, OwnerFrames
    <2>9. \A u \in Thread : Cancelling(u)' <=> Cancelling(u)
      BY <1>2, <2>8
    <2>10. waiters' = [waiters EXCEPT ![queue[t]] =
                          InsertByPriority(Without(waiters[queue[t]], t), t, priority')]
      BY <2>6 DEF w
    <2>11. /\ Placed' /\ PrioOK' /\ WaitersSorted'
           /\ waiters' \in [WaitQueue -> Seq(Thread)]
           /\ priority' \in [Thread -> 0 .. OS_PRIORITY_MAX + 1]
           /\ \A q \in WaitQueue : waiters'[q] = << >> <=> waiters[q] = << >>
      BY <1>2, <1>3, <1>4, <1>5, <1>14, <2>1, <2>7, <2>9, <2>10, Reranked
    <2>12. TypeOK'
      BY <1>1, <1>3, <1>4, <1>5, <2>1, <2>8, <2>11 DEF TypeOK, Stacked
    <2>13. WakeOwed'
      BY <1>2, <1>5, <2>11, Constants DEF WakeOwed
    <2>14. QED BY <1>6, <1>8, <1>9, <2>8, <2>11, <2>12, <2>13 DEF KInv
  <1>15. CASE /\ suspend[t] = 1 /\ state[t] \in {"RUNNING", "MORIBUND", "EXITED"} /\ Enter(c, r)
              /\ UNCHANGED <<queue, priority, queueVars>>
    <2>1. /\ waiters' = waiters /\ runQueue' = runQueue /\ runBits' = runBits /\ hint' = hint
          /\ queue' = queue /\ priority' = priority
      BY <1>15 DEF queueVars
    <2>2. StackInv' /\ Stacked' /\ \A u \in Thread : ~Cancelling(u)'
      BY <1>11, <1>12, <1>15
    <2>3. TypeOK'
      BY <1>1, <1>3, <1>4, <1>5, <2>1, <2>2 DEF TypeOK, Stacked
    <2>4. Dead(t) /\ PrioOK'
      BY <1>3, <1>4, <1>5, <1>7, <1>15, <2>1 DEF PrioOK, Dead
    <2>5. \A u \in Thread : /\ Where(u)' = Where(u)
                            /\ state'[u] = "READY" /\ suspend'[u] = 0 => queue'[u] = priority'[u]
                            /\ state'[u] = "SLEEPING" => queue'[u] \in WaitQueue
      BY <1>2, <1>3, <1>4, <1>5, <1>7, <1>15, <2>1 DEF Where, Fields
    <2>6. Place' = Place /\ Fields'
      BY <1>2, <1>3, <2>2, <2>5, PlaceKept
    <2>7. Placed' /\ WaitersSorted' /\ WakeOwed'
      BY <1>2, <1>3, <1>5, <2>1, <2>6 DEF Placed, WaitersSorted, WakeOwed
    <2>8. QED BY <1>6, <1>8, <1>9, <2>2, <2>3, <2>4, <2>7 DEF KInv
  <1>16. QED
    <2>1. \/ suspend[t] > 1 /\ UNCHANGED <<queue, priority, queueVars, stack>>
          \/ suspend[t] = 1 /\ state[t] = "READY"
          \/ suspend[t] = 1 /\ state[t] = "SLEEPING"
          \/ /\ suspend[t] = 1 /\ state[t] \in {"RUNNING", "MORIBUND", "EXITED"} /\ Enter(c, r)
             /\ UNCHANGED <<queue, priority, queueVars>>
      BY DEF OSResumeThread, r
    <2>2. QED BY <1>10, <1>13, <1>14, <1>15, <2>1

-----------------------------------------------------------------------------
(* Creation.                                                               *)
LEMMA CreateStep ==
    ASSUME KInv, current \in Thread, NEW t \in Thread, NEW p \in Priority, NEW det \in BOOLEAN,
           OSCreateThread(current, t, p, det)
    PROVE  KInv'
  <1>1. /\ MayCall(current) /\ state[t] = "EXITED" /\ t # current /\ waiters[t] = << >>
        /\ \A m \in Mutex : owner[m] # t
        /\ state' = [state EXCEPT ![t] = "READY"] /\ detached' = [detached EXCEPT ![t] = det]
        /\ base' = [base EXCEPT ![t] = p] /\ priority' = [priority EXCEPT ![t] = p]
        /\ suspend' = [suspend EXCEPT ![t] = 1] /\ mutex' = [mutex EXCEPT ![t] = NULL]
        /\ waiters' = [waiters EXCEPT ![t] = << >>] /\ held' = [held EXCEPT ![t] = << >>]
        /\ active' = active \cup {t} /\ stack' = [stack EXCEPT ![t] = << >>]
        /\ UNCHANGED <<queue, runQueue, runBits, hint, current, owner, lock>>
    BY DEF OSCreateThread, Unreferenced
  <1>2. current # NULL /\ current \in {current, Isr} /\ t \in WaitQueue /\ t # Isr
    BY Constants
  <1>3. /\ Stacked /\ stack[Isr] = << >> /\ state[current] = "RUNNING" /\ Calm
        /\ \A u \in Thread : ~Cancelling(u)
        /\ \A m \in Mutex : waiters[m] # << >> => owner[m] # NULL
    BY <1>1, <1>2, CallFacts
  <1>4. /\ TypeOK /\ PrioOK /\ Placed /\ WaitersSorted /\ RunningOne /\ Fields /\ StackInv
        /\ ActiveList /\ MutexConsistent
    BY DEF KInv, Placed
  <1>5. waiters' = waiters
    BY <1>1, <1>2, <1>4 DEF TypeOK
  <1>6. held[t] = << >> /\ held' = held
    <2>1. held[t] \in Seq(Mutex) /\ ToSet(held[t]) \subseteq Mutex
      BY <1>4, StateTypes DEF ToSet
    <2>2. ToSet(held[t]) = {}
      BY <1>1, <1>4, <2>1 DEF MutexConsistent
    <2>3. held[t] = << >>
      BY <2>1, <2>2, EmptySet
    <2>4. QED BY <1>1, <1>4, <2>3 DEF TypeOK
  <1>7. /\ \A u \in Thread \ {t} : /\ state'[u] = state[u] /\ suspend'[u] = suspend[u]
                                   /\ priority'[u] = priority[u] /\ queue'[u] = queue[u]
        /\ state'[t] = "READY" /\ suspend'[t] = 1
        /\ state' \in [Thread -> {"READY", "RUNNING", "SLEEPING", "MORIBUND", "EXITED"}]
        /\ suspend' \in [Thread -> 0 .. MaxSuspend]
        /\ priority' \in [Thread -> 0 .. OS_PRIORITY_MAX + 1]
    <2>1. 1 \in 0 .. MaxSuspend /\ p \in 0 .. OS_PRIORITY_MAX + 1
      BY Constants DEF Priority
    <2>2. QED BY <1>1, <1>4, <2>1 DEF TypeOK
  <1>8. /\ Stacked' /\ stack'[t] = << >> /\ \A d \in Context \ {t} : stack'[d] = stack[d]
        /\ t \in Context /\ Isr \in Context /\ current \in Context
    BY <1>1, <1>3 DEF Stacked, Context
  <1>9. ToSet(<< >>) = {} /\ Good(<< >>)
    BY Stacks DEF ToSet, Good
  <1>10. Calm' /\ \A u \in Thread : ~Cancelling(u)'
    <2>1. Calm'
      BY <1>3, <1>8, <1>9 DEF Calm
    <2>2. QED BY <1>8, <2>1, CalmNext
  <1>11. StackInv'
    <2>1. Frames'
      <3>1. \A d \in Thread : Good(stack'[d]) /\ \A f \in ToSet(stack'[d]) : f.fn # "IsrReturn"
        BY <1>4, <1>8, <1>9 DEF StackInv, Frames, Context
      <3>2. stack'[Isr] = << >>
        BY <1>2, <1>3, <1>8
      <3>3. QED BY <1>9, <3>1, <3>2 DEF Frames
    <2>2. Locks'
      BY <1>1, <1>4, <1>8, <1>9 DEF StackInv, Locks, Context
    <2>3. Cancels'
      BY <1>10 DEF Cancels, Calm, Context
    <2>4. QED BY <2>1, <2>2, <2>3 DEF StackInv
  <1>12. TypeOK'
    BY <1>1, <1>4, <1>5, <1>6, <1>7, <1>8 DEF TypeOK, Stacked
  <1>13. Placed'
    <2>1. Place[t] = NULL
      BY <1>1 DEF Place, Where
    <2>2. \A u \in Thread \ {t} : /\ Cancelling(u)' <=> Cancelling(u)
                                  /\ state'[u] = state[u] /\ suspend'[u] = suspend[u]
                                  /\ priority'[u] = priority[u] /\ queue'[u] = queue[u]
      BY <1>3, <1>7, <1>10
    <2>3. ~Cancelling(t)' /\ state'[t] # "SLEEPING" /\ suspend'[t] # 0
      BY <1>7, <1>10
    <2>4. Place' = [Place EXCEPT ![t] = NULL] /\ Fields'
      BY <1>4, <2>2, <2>3, PlaceNone
    <2>5. [Place EXCEPT ![t] = NULL] = Place
      BY <2>1 DEF Place
    <2>6. QED BY <1>1, <1>4, <1>5, <2>4, <2>5 DEF Placed
  <1>14. WaitersSorted'
    <2>1. Place[t] = NULL
      BY <1>1 DEF Place, Where
    <2>2. \A q \in WaitQueue : t \notin ToSet(waiters[q]) /\ waiters[q] \in Seq(Thread)
      BY <1>4, <2>1, Constants DEF Placed, Linked
    <2>3. QED BY <1>4, <1>5, <1>7, <2>2, SortedBut
  <1>15. RunningOne' /\ PrioOK' /\ ActiveList'
    BY <1>1, <1>4, <1>7 DEF RunningOne, PrioOK, Dead, ActiveList
  <1>16. Leaving' /\ WakeOwed' /\ MutexConsistent'
    BY <1>1, <1>3, <1>4, <1>5, <1>6, <1>7 DEF Leaving, WakeOwed, MutexConsistent
  <1>17. QED BY <1>11, <1>12, <1>13, <1>14, <1>15, <1>16 DEF KInv

-----------------------------------------------------------------------------
(* The end of a thread.                                                    *)
LEMMA TornFrames ==
    ASSUME NEW t \in Thread, NEW e \in Frame
    PROVE  TearDown(t) \o <<e>> = <<F("__OSUnlockAllMutex", t), F("OSWakeupThread", t), e>>
  <1> DEFINE a == F("__OSUnlockAllMutex", t)
             b == F("OSWakeupThread", t)
             s == TearDown(t) \o <<e>>
             n == <<a, b, e>>
  <1>1. a \in Frame /\ b \in Frame /\ TearDown(t) = <<a, b>>
    BY FrameIntro, Constants DEF TearDown
  <1> HIDE DEF a, b
  <1>2. s = n
    <2> DEFINE l == <<a, b>>
               r == <<e>>
    <2>1. l \in Seq(Frame) /\ Len(l) = 2 /\ l[1] = a /\ l[2] = b
      BY <1>1
    <2>2. r \in Seq(Frame) /\ Len(r) = 1 /\ r[1] = e
      OBVIOUS
    <2>3. s = l \o r
      BY <1>1
    <2> HIDE DEF l, r, s
    <2>4. s \in Seq(Frame) /\ Len(s) = 3 /\ s[1] = a /\ s[2] = b /\ s[3] = e
      <3>1. s \in Seq(Frame) /\ Len(s) = Len(l) + Len(r)
        BY <2>1, <2>2, <2>3, ConcatProperties
      <3>2. \A i \in 1 .. Len(l) + Len(r) : s[i] = IF i <= Len(l) THEN l[i] ELSE r[i - Len(l)]
        BY <2>1, <2>2, <2>3, ConcatProperties
      <3>3. 1 \in 1 .. Len(l) + Len(r) /\ 2 \in 1 .. Len(l) + Len(r) /\ 3 \in 1 .. Len(l) + Len(r)
        BY <2>1, <2>2
      <3>4. s[1] = l[1] /\ s[2] = l[2] /\ s[3] = r[1]
        BY <2>1, <2>2, <3>2, <3>3
      <3>5. QED BY <2>1, <2>2, <3>1, <3>4
    <2>5. n \in Seq(Frame) /\ Len(n) = 3 /\ n[1] = a /\ n[2] = b /\ n[3] = e
      BY <1>1
    <2> HIDE DEF n
    <2>6. \A i \in 1 .. Len(s) : s[i] = n[i]
      BY <2>4, <2>5
    <2>7. QED BY <2>4, <2>5, <2>6, SeqEqual
  <1>3. QED BY <1>2 DEF a, b

LEMMA TornDown ==
    ASSUME NEW t \in Thread, NEW e \in Frame
    PROVE  LET s == TearDown(t) \o <<e>> IN
           /\ s \in Seq(Frame) /\ Good(s) /\ Last(s) = e /\ s # << >>
           /\ ToSet(s) = {F("__OSUnlockAllMutex", t), F("OSWakeupThread", t), e}
           /\ \A f \in ToSet(s) : f = e \/ f.fn \in {"__OSUnlockAllMutex", "OSWakeupThread"}
  <1> DEFINE a == F("__OSUnlockAllMutex", t)
             b == F("OSWakeupThread", t)
             s == TearDown(t) \o <<e>>
             n == <<a, b, e>>
  <1>1. /\ a \in Frame /\ a.fn = "__OSUnlockAllMutex" /\ b \in Frame /\ b.fn = "OSWakeupThread"
        /\ TearDown(t) = <<a, b>>
    BY FrameIntro, Constants DEF TearDown
  <1> HIDE DEF a, b
  <1>2. s = n
    BY TornFrames DEF a, b
  <1>3. n \in Seq(Frame) /\ Good(n) /\ Last(n) = e /\ n # << >> /\ ToSet(n) = {a, b, e}
    <2>1. /\ n \in Seq(Frame) /\ Len(n) = 3 /\ n[1] = a /\ n[2] = b /\ n[3] = e
          /\ DOMAIN n = 1 .. 3 /\ n # << >>
      BY <1>1
    <2> HIDE DEF n
    <2>2. \A i \in 1 .. 3 : i = 1 \/ i = 2 \/ i = 3
      OBVIOUS
    <2>3. ToSet(n) = {a, b, e}
      BY <2>1, <2>2 DEF ToSet
    <2>4. Good(n)
      BY <1>1, <2>1 DEF Good, Inner
    <2>5. QED BY <2>1, <2>3, <2>4 DEF Last
  <1> HIDE DEF s, n
  <1>4. s \in Seq(Frame) /\ Good(s) /\ Last(s) = e /\ s # << >> /\ ToSet(s) = {a, b, e}
    BY <1>2, <1>3
  <1>5. \A f \in ToSet(s) : f = e \/ f.fn \in {"__OSUnlockAllMutex", "OSWakeupThread"}
    BY <1>1, <1>4
  <1>6. QED BY <1>4, <1>5 DEF s, a, b

(* A thread that is linked nowhere dies.                                   *)
LEMMA Dies ==
    ASSUME TypeOK, PrioOK, Placed, RunningOne, ActiveList, WaitersSorted,
           NEW t \in Thread, Place[t] = NULL, ~Dead(t), Die(t),
           \A u \in Thread \ {t} : Cancelling(u)' <=> Cancelling(u),
           UNCHANGED <<priority, suspend, queue, waiters, runQueue, runBits, current>>
    PROVE  /\ Placed' /\ PrioOK' /\ WaitersSorted' /\ RunningOne' /\ ActiveList'
           /\ state' \in [Thread -> {"READY", "RUNNING", "SLEEPING", "MORIBUND", "EXITED"}]
           /\ active' \subseteq Thread /\ Dead(t)'
           /\ \A u \in Thread \ {t} : state'[u] = state[u]
  <1>1. /\ state' \in [Thread -> {"READY", "RUNNING", "SLEEPING", "MORIBUND", "EXITED"}]
        /\ state'[t] \in {"MORIBUND", "EXITED"}
        /\ \A u \in Thread \ {t} : state'[u] = state[u]
        /\ active' \subseteq Thread
    BY DEF Die, TypeOK
  <1>2. Placed'
    <2>1. \A u \in Thread \ {t} : /\ Cancelling(u)' <=> Cancelling(u)
                                  /\ state'[u] = state[u] /\ suspend'[u] = suspend[u]
                                  /\ priority'[u] = priority[u] /\ queue'[u] = queue[u]
      BY <1>1
    <2>2. state'[t] # "SLEEPING" /\ state'[t] # "READY"
      BY <1>1
    <2>3. Fields
      BY DEF Placed
    <2>4. Place' = [Place EXCEPT ![t] = NULL] /\ Fields'
      BY <2>1, <2>2, <2>3, PlaceNone
    <2>5. [Place EXCEPT ![t] = NULL] = Place
      BY DEF Place
    <2>6. QED BY <2>4, <2>5 DEF Placed
  <1>3. PrioOK' /\ RunningOne' /\ WaitersSorted'
    BY <1>1 DEF PrioOK, Dead, RunningOne, WaitersSorted
  <1>4. ActiveList'
    <2>1. active' = IF detached[t] THEN active \ {t} ELSE active
      BY DEF Die
    <2>2. state' = [state EXCEPT ![t] = IF detached[t] THEN "EXITED" ELSE "MORIBUND"]
      BY DEF Die
    <2>3. state'[t] = IF detached[t] THEN "EXITED" ELSE "MORIBUND"
      BY <2>2 DEF TypeOK
    <2>4. state[t] # "EXITED"
      BY DEF Dead
    <2>5. \A u \in Thread \ {t} : u \in active' <=> state'[u] # "EXITED"
      BY <1>1, <2>1 DEF ActiveList
    <2>6. t \in active' <=> state'[t] # "EXITED"
      BY <2>1, <2>3, <2>4 DEF ActiveList
    <2>7. QED BY <2>5, <2>6 DEF ActiveList
  <1>5. QED BY <1>1, <1>2, <1>3, <1>4 DEF Dead

LEMMA ExitStep ==
    ASSUME KInv, current \in Thread, OSExitThread(current)
    PROVE  KInv'
  <1> DEFINE e == F("ExitHint", NULL)
  <1>1. /\ MayCall(current) /\ Die(current) /\ Enter(current, TearDown(current) \o <<e>>)
        /\ UNCHANGED <<detached, base, priority, suspend, queue, mutex, queueVars, mutexVars,
                       current>>
    BY DEF OSExitThread
  <1>2. e \in Frame /\ e.fn = "ExitHint" /\ current # NULL /\ current \in {current, Isr}
        /\ current # Isr
    BY Constants, FrameIntro
  <1> HIDE DEF e
  <1>3. /\ Stacked /\ stack[Isr] = << >> /\ state[current] = "RUNNING"
        /\ \A u \in Thread : ~Cancelling(u)
        /\ \A m \in Mutex : waiters[m] # << >> => owner[m] # NULL
    BY <1>1, <1>2, CallFacts
  <1>4. /\ TypeOK /\ PrioOK /\ Placed /\ WaitersSorted /\ RunningOne /\ StackInv /\ ActiveList
    BY DEF KInv
  <1>5. /\ priority' = priority /\ suspend' = suspend /\ queue' = queue /\ waiters' = waiters
        /\ runQueue' = runQueue /\ runBits' = runBits /\ hint' = hint /\ current' = current
        /\ owner' = owner /\ lock' = lock /\ held' = held
    BY <1>1 DEF queueVars, mutexVars
  <1> DEFINE s == TearDown(current) \o <<e>>
  <1>6. /\ s \in Seq(Frame) /\ Good(s) /\ Last(s) = e /\ s # << >>
        /\ \A f \in ToSet(s) : f = e \/ f.fn \in {"__OSUnlockAllMutex", "OSWakeupThread"}
    BY <1>2, TornDown
  <1> HIDE DEF s
  <1>7. stack' = [stack EXCEPT ![current] = s]
    BY <1>1, <1>2 DEF Enter, s
  <1>8. /\ StackInv' /\ Stacked' /\ Calm' /\ stack'[Isr] = << >> /\ stack'[current] = s
    <2>1. \A f \in ToSet(s) : f.fn \notin {"IsrReturn", "CancelTail"}
                                /\ LockFrame(current, s, f, owner', lock')
      BY <1>2, <1>6 DEF LockFrame
    <2>2. QED BY <1>3, <1>4, <1>5, <1>6, <1>7, <2>1, NewStack
  <1>9. \A u \in Thread : ~Cancelling(u)'
    BY <1>8, CalmNext
  <1>10. Place[current] = NULL
    BY <1>3 DEF Place, Where
  <1>11. PICK t \in Thread : t = current
    OBVIOUS
  <1>12. /\ Placed' /\ PrioOK' /\ WaitersSorted' /\ RunningOne' /\ ActiveList'
         /\ state' \in [Thread -> {"READY", "RUNNING", "SLEEPING", "MORIBUND", "EXITED"}]
         /\ active' \subseteq Thread
    <2>1. Place[t] = NULL /\ Die(t) /\ ~Dead(t) /\ \A u \in Thread \ {t} : Cancelling(u)' <=> Cancelling(u)
      BY <1>1, <1>3, <1>9, <1>10, <1>11 DEF Dead
    <2>2. QED BY <1>4, <1>5, <2>1, Dies
  <1>13. TypeOK'
    BY <1>1, <1>4, <1>5, <1>8, <1>12 DEF TypeOK, Stacked
  <1>14. Leaving'
    <2>1. Departs(s, hint')
      BY <1>2, <1>6 DEF Departs, Teardown
    <2>2. QED BY <1>5, <1>8, <2>1 DEF Leaving
  <1>15. WakeOwed' /\ MutexConsistent'
    BY <1>3, <1>5 DEF KInv, WakeOwed, MutexConsistent
  <1>16. QED BY <1>8, <1>12, <1>13, <1>14, <1>15 DEF KInv

-----------------------------------------------------------------------------
(* Cancelling.                                                             *)
LEMMA CancelFrames ==
    ASSUME TypeOK, NEW t \in Thread
    PROVE  LET ct == F("CancelTail", t)
               s == UpdateOwner(t) \o <<ct>> IN
           /\ s \in Seq(Frame) /\ Good(s) /\ ct \in ToSet(s)
           /\ \A f \in ToSet(s) : f = ct \/ f.fn = "UpdatePriority"
           /\ <<ct>> \in Seq(Frame) /\ Good(<<ct>>) /\ ToSet(<<ct>>) = {ct}
           /\ << >> \o <<ct>> = <<ct>>
  <1> DEFINE ct == F("CancelTail", t)
             s == UpdateOwner(t) \o <<ct>>
             r == <<ct>>
  <1>1. ct \in Frame /\ ct.fn = "CancelTail"
    BY FrameIntro
  <1> HIDE DEF ct
  <1>2. r \in Seq(Frame) /\ Good(r) /\ ToSet(r) = {ct} /\ << >> \o r = r
    <2>1. r \in Seq(Frame) /\ Good(r) /\ ToSet(r) = {ct}
      BY <1>1, Stacks
    <2>2. << >> \o r = r
      OBVIOUS
    <2>3. QED BY <2>1, <2>2
  <1>3. s \in Seq(Frame) /\ Good(s) /\ ct \in ToSet(s)
        /\ \A f \in ToSet(s) : f = ct \/ f.fn = "UpdatePriority"
    <2>1. CASE mutex[t] = NULL
      <3>1. s = r
        BY <2>1 DEF UpdateOwner
      <3> HIDE DEF s, r
      <3>2. QED BY <1>2, <3>1
    <2>2. CASE mutex[t] # NULL
      <3>1. PICK x \in Thread \cup {NULL} : x = owner[mutex[t]]
        BY <2>2, StateTypes
      <3> DEFINE a == F("UpdatePriority", x)
                 n == <<a>> \o r
      <3>2. a \in Frame /\ a.fn = "UpdatePriority"
        BY <1>1, FrameIntro
      <3>3. s = n
        BY <2>2, <3>1 DEF UpdateOwner
      <3> HIDE DEF a, r, s
      <3>4. n \in Seq(Frame) /\ Good(n) /\ ToSet(n) = ToSet(r) \cup {a}
        BY <1>2, <3>2, Pushed DEF Inner
      <3> HIDE DEF n
      <3>5. QED BY <1>2, <3>2, <3>3, <3>4
    <2>3. QED BY <2>1, <2>2
  <1>4. QED BY <1>2, <1>3 DEF ct

LEMMA CancelEnters ==
    ASSUME KInv, current \in Thread, MayCall(current), NEW t \in Thread, ~Dead(t),
           NEW s \in Seq(Frame), Good(s), Enter(current, s), NEW ct, ct = F("CancelTail", t),
           ct \in ToSet(s),
           \A f \in ToSet(s) : \/ f = ct
                               \/ f.fn = "UpdatePriority" /\ state[t] = "SLEEPING" /\ queue'[t] = NULL,
           t = current => hint', UNCHANGED <<state, current, owner, lock>>
    PROVE  /\ StackInv' /\ Stacked' /\ stack'[Isr] = << >>
           /\ \A u \in Thread : Cancelling(u)' <=> u = t
  <1>1. current # NULL /\ current \in {current, Isr} /\ current # Isr /\ current \in Context
    BY Constants DEF Context
  <1>2. Stacked /\ StackInv /\ stack[Isr] = << >> /\ Calm
    BY <1>1, CallFacts DEF KInv
  <1>3. stack' = [stack EXCEPT ![current] = s]
    BY <1>1 DEF Enter
  <1>4. ct.fn = "CancelTail" /\ ct.arg = t
    BY FrameIntro
  <1>5. \A f \in ToSet(s) : f.fn # "IsrReturn" /\ LockFrame(current, s, f, owner', lock')
    BY <1>4 DEF LockFrame
  <1>6. /\ Frames' /\ Locks' /\ Stacked' /\ stack'[Isr] = << >> /\ stack'[current] = s
        /\ \A d \in Context \ {current} : stack'[d] = stack[d]
    BY <1>2, <1>3, <1>5, NewFrames
  <1>7. \A d \in Context \ {current} : \A f \in ToSet(stack'[d]) : f.fn # "CancelTail"
    BY <1>2, <1>6 DEF Calm
  <1>8. \A f \in ToSet(s) : f.fn = "CancelTail" => f = ct
    OBVIOUS
  <1>9. ASSUME NEW u \in Thread PROVE Cancelling(u)' <=> u = t
    <2>1. Cancelling(u)' <=> \E d \in Context : \E f \in ToSet(stack'[d]) :
                                  f.fn = "CancelTail" /\ f.arg = u
      BY DEF Cancelling, Pending, ToSet
    <2>2. u = t => Cancelling(u)'
      BY <1>1, <1>4, <1>6, <2>1
    <2>3. ASSUME NEW d \in Context, NEW f \in ToSet(stack'[d]), f.fn = "CancelTail", f.arg = u
          PROVE  u = t
      <3>1. d = current /\ f = ct
        BY <1>6, <1>7, <1>8, <2>3
      <3>2. QED BY <1>4, <2>3, <3>1
    <2>4. QED BY <2>1, <2>2, <2>3
  <1>10. Cancels'
    <2> SUFFICES ASSUME NEW d \in Thread, NEW f \in ToSet(stack'[d]), f.fn = "CancelTail"
                 PROVE  /\ d = current /\ ~Dead(f.arg)' /\ (f.arg = current => hint')
                        /\ \A g \in ToSet(stack'[d]) :
                              \/ g.fn = "CancelTail"
                              \/ /\ g.fn = "UpdatePriority"
                                 /\ state'[f.arg] = "SLEEPING" /\ queue'[f.arg] = NULL
      BY DEF Cancels
    <2>1. d = current
      BY <1>7 DEF Context
    <2>2. f = ct /\ f.arg = t
      BY <1>4, <1>6, <1>8, <2>1
    <2>3. state'[t] = state[t] /\ ~Dead(t)'
      BY DEF Dead
    <2>4. ASSUME NEW g \in ToSet(stack'[d])
          PROVE  \/ g.fn = "CancelTail"
                 \/ g.fn = "UpdatePriority" /\ state'[t] = "SLEEPING" /\ queue'[t] = NULL
      <3>1. g \in ToSet(s)
        BY <1>6, <2>1, <2>4
      <3>2. QED BY <1>4, <2>3, <3>1
    <2>5. QED BY <2>1, <2>2, <2>3, <2>4
  <1>11. QED BY <1>6, <1>9, <1>10 DEF StackInv

LEMMA CancelStep ==
    ASSUME KInv, current \in Thread, NEW t \in Thread, OSCancelThread(current, t)
    PROVE  KInv'
  <1>1. /\ MayCall(current)
        /\ UNCHANGED <<state, detached, base, priority, suspend, mutex, active, mutexVars, current>>
    BY DEF OSCancelThread
  <1>2. current # NULL /\ current \in {current, Isr}
    BY Constants
  <1>3. /\ state[current] = "RUNNING" /\ \A u \in Thread : ~Cancelling(u)
        /\ \A m \in Mutex : waiters[m] # << >> => owner[m] # NULL
    BY <1>1, <1>2, CallFacts
  <1>4. /\ TypeOK /\ PrioOK /\ Placed /\ WaitersSorted /\ RunningOne /\ Fields /\ ActiveList
    BY DEF KInv, Placed
  <1>5. owner' = owner /\ lock' = lock /\ held' = held
    BY <1>1 DEF mutexVars
  <1> DEFINE ct == F("CancelTail", t)
  <1>6. ASSUME ~Dead(t), NEW s \in Seq(Frame), Good(s), Enter(current, s), ct \in ToSet(s),
               \A f \in ToSet(s) : \/ f = ct
                                   \/ f.fn = "UpdatePriority" /\ state[t] = "SLEEPING" /\ queue'[t] = NULL,
               t = current => hint', hint' \in BOOLEAN,
               \A u \in Thread \ {t} : queue'[u] = queue[u],
               queue' \in [Thread -> WaitQueue \cup Priority \cup {NULL}],
               Linked([Place EXCEPT ![t] = NULL], runQueue', runBits', waiters'),
               WaitersSorted', \A q \in WaitQueue : waiters'[q] # << >> => waiters[q] # << >>
        PROVE  KInv'
    <2>1. /\ StackInv' /\ Stacked' /\ \A u \in Thread : Cancelling(u)' <=> u = t
      <3> HIDE DEF ct
      <3>1. ct = F("CancelTail", t)
        BY DEF ct
      <3>2. QED BY <1>1, <1>5, <1>6, <3>1, CancelEnters
    <2>2. Place' = [Place EXCEPT ![t] = NULL] /\ Fields'
      <3>1. \A u \in Thread \ {t} : /\ Cancelling(u)' <=> Cancelling(u)
                                    /\ state'[u] = state[u] /\ suspend'[u] = suspend[u]
                                    /\ priority'[u] = priority[u] /\ queue'[u] = queue[u]
        BY <1>1, <1>3, <1>6, <2>1
      <3>2. Cancelling(t)'
        BY <2>1
      <3>3. QED BY <1>4, <3>1, <3>2, PlaceNone
    <2>3. Placed'
      BY <1>6, <2>2 DEF Placed
    <2>4. TypeOK'
      <3>1. /\ runQueue' \in [Priority -> Seq(Thread)] /\ waiters' \in [WaitQueue -> Seq(Thread)]
            /\ runBits' \subseteq Priority
        BY <1>6 DEF Linked
      <3>2. QED BY <1>1, <1>4, <1>5, <1>6, <2>1, <3>1 DEF TypeOK, Stacked
    <2>5. PrioOK' /\ RunningOne' /\ ActiveList' /\ Leaving' /\ MutexConsistent'
      BY <1>1, <1>3, <1>4, <1>5 DEF PrioOK, Dead, RunningOne, ActiveList, Leaving, KInv, MutexConsistent
    <2>6. WakeOwed'
      BY <1>3, <1>5, <1>6, Constants DEF WakeOwed
    <2>7. QED BY <1>6, <2>1, <2>3, <2>4, <2>5, <2>6 DEF KInv
  <1>7. /\ queue \in [Thread -> WaitQueue \cup Priority \cup {NULL}] /\ hint \in BOOLEAN
        /\ Linked(Place, runQueue, runBits, waiters)
        /\ Place \in [Thread -> Priority \cup WaitQueue \cup {NULL}]
    BY <1>4, PlaceType DEF TypeOK, Placed
  <1>8. /\ <<ct>> \in Seq(Frame) /\ Good(<<ct>>) /\ ct \in ToSet(<<ct>>)
        /\ \A f \in ToSet(<<ct>>) : f = ct
        /\ << >> \o <<ct>> = <<ct>>
    BY <1>4, CancelFrames
  <1>9. Place[t] = NULL => [Place EXCEPT ![t] = NULL] = Place
    BY DEF Place
  <1> DEFINE tail == <<ct>>
  <1>10. CASE /\ state[t] = "READY" /\ suspend[t] <= 0 /\ UnsetRun(t)
              /\ Enter(current, tail) /\ UNCHANGED <<waiters, hint>>
    <2>1. suspend[t] = 0 /\ t # current /\ ~Dead(t)
      BY <1>3, <1>4, <1>10, StateTypes DEF Dead
    <2>2. Linked([Place EXCEPT ![t] = NULL], Unlinked(t), BitsWithout(t), waiters)
      BY <1>3, <1>4, <1>10, <2>1, UnsetLinked
    <2>3. /\ runQueue' = Unlinked(t) /\ runBits' = BitsWithout(t) /\ waiters' = waiters
          /\ queue' = [queue EXCEPT ![t] = NULL]
      BY <1>10 DEF UnsetRun
    <2>4. /\ queue' \in [Thread -> WaitQueue \cup Priority \cup {NULL}]
          /\ \A u \in Thread \ {t} : queue'[u] = queue[u]
      BY <1>7, <2>3
    <2>5. WaitersSorted' /\ Linked([Place EXCEPT ![t] = NULL], runQueue', runBits', waiters')
      BY <1>1, <1>4, <2>2, <2>3 DEF WaitersSorted
    <2> HIDE DEF ct, tail
    <2>6. /\ tail \in Seq(Frame) /\ Good(tail) /\ ct \in ToSet(tail) /\ \A f \in ToSet(tail) : f = ct
      BY <1>8 DEF tail
    <2>7. QED BY <1>6, <1>7, <1>10, <2>1, <2>3, <2>4, <2>5, <2>6
  <1>11. CASE /\ \/ state[t] = "READY" /\ ~(suspend[t] <= 0) /\ hint' = hint
                 \/ state[t] = "RUNNING" /\ hint' = TRUE
              /\ Enter(current, tail)
              /\ UNCHANGED <<waiters, runQueue, queue, runBits>>
    <2>1. ~Dead(t) /\ (t = current => hint') /\ hint' \in BOOLEAN
      BY <1>3, <1>7, <1>11 DEF Dead
    <2>2. Place[t] = NULL
      BY <1>11 DEF Place, Where
    <2>3. WaitersSorted' /\ Linked([Place EXCEPT ![t] = NULL], runQueue', runBits', waiters')
      BY <1>1, <1>4, <1>7, <1>9, <1>11, <2>2 DEF WaitersSorted
    <2> HIDE DEF ct, tail
    <2>4. /\ tail \in Seq(Frame) /\ Good(tail) /\ ct \in ToSet(tail) /\ \A f \in ToSet(tail) : f = ct
      BY <1>8 DEF tail
    <2>5. QED BY <1>6, <1>7, <1>11, <2>1, <2>3, <2>4
  <1>12. CASE /\ state[t] = "SLEEPING"
              /\ waiters' = [waiters EXCEPT ![queue[t]] = Without(@, t)]
              /\ queue' = [queue EXCEPT ![t] = NULL]
              /\ Enter(current, (IF suspend[t] <= 0 THEN UpdateOwner(t) ELSE << >>) \o tail)
              /\ UNCHANGED <<runQueue, runBits, hint>>
    <2>1. ~Dead(t) /\ t # current
      BY <1>3, <1>12 DEF Dead
    <2>2. /\ queue[t] \in WaitQueue /\ Place[t] = queue[t]
          /\ waiters[queue[t]] \in Seq(Thread) /\ IsInjective(waiters[queue[t]])
          /\ t \in ToSet(waiters[queue[t]]) /\ Ordered(waiters[queue[t]], priority)
      BY <1>3, <1>4, <1>12, SleeperIn
    <2>3. PICK q \in WaitQueue : q = queue[t]
      BY <2>2
    <2> DEFINE w == waiters[q]
               rest == Without(w, t)
    <2>4. /\ w \in Seq(Thread) /\ IsInjective(w) /\ t \in ToSet(w) /\ Ordered(w, priority)
          /\ priority \in [Thread -> Nat] /\ waiters \in [WaitQueue -> Seq(Thread)]
      BY <1>4, <2>2, <2>3, StateTypes DEF TypeOK
    <2>5. waiters' = [waiters EXCEPT ![q] = rest]
      BY <1>12, <2>3
    <2> HIDE DEF w
    <2>6. /\ rest \in Seq(Thread) /\ ToSet(rest) = ToSet(w) \ {t} /\ IsInjective(rest)
          /\ Ordered(rest, priority)
      BY <2>4, WithoutElements, WithoutSet, OrderedWithout
    <2> HIDE DEF rest
    <2>7. Linked([Place EXCEPT ![t] = NULL], runQueue', runBits', waiters')
      <3>1. Place[t] = q /\ ToSet(rest) = ToSet(waiters[q]) \ {t}
        BY <2>2, <2>3, <2>6 DEF w
      <3>2. Linked([Place EXCEPT ![t] = NULL], runQueue, runBits, [waiters EXCEPT ![q] = rest])
        BY <1>7, <2>6, <3>1, UnlinkWait
      <3>3. QED BY <1>12, <2>5, <3>2
    <2>8. /\ waiters'[q] = rest /\ \A r \in WaitQueue \ {q} : waiters'[r] = waiters[r]
      BY <2>4, <2>5
    <2>9. WaitersSorted'
      <3>1. \A r \in WaitQueue : Ordered(waiters[r], priority)
        BY <1>4 DEF WaitersSorted, Ordered
      <3>2. \A r \in WaitQueue : Ordered(waiters'[r], priority)
        BY <2>6, <2>8, <3>1
      <3>3. QED BY <1>1, <3>2 DEF WaitersSorted, Ordered
    <2>10. \A r \in WaitQueue : waiters'[r] # << >> => waiters[r] # << >>
      <3>1. w # << >>
        BY <2>4, EmptySet
      <3>2. QED BY <2>8, <3>1 DEF w
    <2>11. /\ queue' \in [Thread -> WaitQueue \cup Priority \cup {NULL}] /\ queue'[t] = NULL
           /\ \A u \in Thread \ {t} : queue'[u] = queue[u]
      BY <1>7, <1>12
    <2> DEFINE s == (IF suspend[t] <= 0 THEN UpdateOwner(t) ELSE << >>) \o tail
    <2>12. Enter(current, s)
      BY <1>12
    <2>13. s \in Seq(Frame) /\ Good(s) /\ ct \in ToSet(s)
           /\ \A f \in ToSet(s) : f = ct \/ f.fn = "UpdatePriority"
      BY <1>4, <1>8, CancelFrames
    <2> HIDE DEF s, ct, tail
    <2>14. \A f \in ToSet(s) : \/ f = ct
                               \/ f.fn = "UpdatePriority" /\ state[t] = "SLEEPING" /\ queue'[t] = NULL
      BY <1>12, <2>11, <2>13
    <2>15. QED BY <1>6, <1>7, <1>12, <2>1, <2>7, <2>9, <2>10, <2>11, <2>12, <2>13, <2>14
  <1>13. QED BY <1>10, <1>11, <1>12 DEF OSCancelThread

-----------------------------------------------------------------------------
(* Joining and detaching.                                                  *)
LEMMA Reaps ==
    ASSUME TypeOK, PrioOK, Placed, RunningOne, ActiveList, WaitersSorted,
           NEW t \in Thread, Reap(t), \A u \in Thread : Cancelling(u)' <=> Cancelling(u),
           UNCHANGED <<priority, suspend, queue, waiters, runQueue, runBits, current>>
    PROVE  /\ Placed' /\ PrioOK' /\ WaitersSorted' /\ RunningOne' /\ ActiveList'
           /\ state' \in [Thread -> {"READY", "RUNNING", "SLEEPING", "MORIBUND", "EXITED"}]
           /\ active' \subseteq Thread
           /\ \A u \in Thread : (Dead(u)' <=> Dead(u)) /\ (~Dead(u) => state'[u] = state[u])
  <1>1. CASE state[t] # "MORIBUND"
    <2>1. state' = state /\ active' = active
      BY <1>1 DEF Reap
    <2>2. Placed' /\ PrioOK' /\ WaitersSorted'
      BY <2>1, NoMove
    <2>3. QED BY <2>1, <2>2 DEF RunningOne, ActiveList, TypeOK, Dead
  <1>2. CASE state[t] = "MORIBUND"
    <2>1. /\ active' = active \ {t} /\ state' = [state EXCEPT ![t] = "EXITED"]
      BY <1>2 DEF Reap
    <2>2. /\ state' \in [Thread -> {"READY", "RUNNING", "SLEEPING", "MORIBUND", "EXITED"}]
          /\ state'[t] = "EXITED" /\ \A u \in Thread \ {t} : state'[u] = state[u]
          /\ active' \subseteq Thread
      BY <2>1 DEF TypeOK
    <2>3. \A u \in Thread : (Dead(u)' <=> Dead(u)) /\ (~Dead(u) => state'[u] = state[u])
      BY <1>2, <2>2 DEF Dead
    <2>4. ActiveList'
      BY <2>1, <2>2 DEF ActiveList
    <2>5. PrioOK' /\ RunningOne' /\ WaitersSorted'
      BY <2>2, <2>3 DEF PrioOK, RunningOne, WaitersSorted
    <2>6. Placed'
      <3>1. \A u \in Thread : /\ Cancelling(u)' <=> Cancelling(u)
                              /\ ~Cancelling(u) => /\ Where(u)' = Where(u)
                                                   /\ state'[u] = "READY" /\ suspend'[u] = 0
                                                        => queue'[u] = priority'[u]
                                                   /\ state'[u] = "SLEEPING"
                                                        => queue'[u] \in WaitQueue
        BY <1>2, <2>2 DEF Placed, Fields, Where
      <3>2. Place' = Place /\ Fields'
        BY <3>1, PlaceKept DEF Placed
      <3>3. QED BY <3>2 DEF Placed
    <2>7. QED BY <2>2, <2>3, <2>4, <2>5, <2>6
  <1>3. QED BY <1>1, <1>2

LEMMA JoinStep ==
    ASSUME KInv, current \in Thread, NEW t \in Thread, OSJoinThread(current, t)
    PROVE  KInv'
  <1>1. /\ MayCall(current)
        /\ UNCHANGED <<detached, base, priority, suspend, mutex, mutexVars, current>>
    BY DEF OSJoinThread
  <1> DEFINE a == Reschedule
             b == F("JoinTail", t)
             fs == <<a, b>>
  <1>2. CASE SleepOn(current, t) /\ Enter(current, fs) /\ UNCHANGED active
    <2>1. a \in Frame /\ a.fn = "__OSReschedule" /\ b \in Frame /\ b.fn = "JoinTail"
      BY FrameIntro
    <2> HIDE DEF a, b
    <2>2. /\ fs \in Seq(Frame) /\ Good(fs) /\ Head(fs) = a /\ fs # << >> /\ ToSet(fs) = {a, b}
      BY <2>1, Stacks DEF Inner
    <2> HIDE DEF fs
    <2>3. t \in WaitQueue /\ t \notin Mutex
      BY Constants, ThreadAssumption
    <2>4. Head(fs).fn = "__OSReschedule" /\ \A f \in ToSet(fs) : f.fn \in {"__OSReschedule", "JoinTail"}
      BY <2>1, <2>2
    <2>5. QED BY <1>1, <1>2, <2>2, <2>3, <2>4, SleepEnters
  <1>3. CASE Reap(t) /\ UNCHANGED <<queue, queueVars, stack>>
    <2>1. /\ waiters' = waiters /\ runQueue' = runQueue /\ runBits' = runBits /\ hint' = hint
          /\ queue' = queue /\ stack' = stack /\ owner' = owner /\ lock' = lock /\ held' = held
      BY <1>1, <1>3 DEF queueVars, mutexVars
    <2>2. \A u \in Thread : Cancelling(u)' <=> Cancelling(u)
      BY <2>1 DEF Cancelling, Pending
    <2>3. /\ Placed' /\ PrioOK' /\ WaitersSorted' /\ RunningOne' /\ ActiveList'
          /\ state' \in [Thread -> {"READY", "RUNNING", "SLEEPING", "MORIBUND", "EXITED"}]
          /\ active' \subseteq Thread
          /\ \A u \in Thread : (Dead(u)' <=> Dead(u)) /\ (~Dead(u) => state'[u] = state[u])
      BY <1>1, <1>3, <2>1, <2>2, Reaps DEF KInv
    <2>4. current # NULL /\ current \in {current, Isr}
      BY Constants
    <2>5. state[current] = "RUNNING" /\ Calm
      BY <1>1, <2>4, CallFacts
    <2>6. StackInv'
      <3>1. Frames' /\ Locks'
        BY <1>1, <2>1 DEF KInv, StackInv, Frames, Locks
      <3>2. Cancels'
        BY <2>1, <2>5 DEF Cancels, Calm, Context
      <3>3. QED BY <3>1, <3>2 DEF StackInv
    <2>7. Leaving'
      BY <1>1, <2>3, <2>5 DEF Leaving, Dead
    <2>8. TypeOK' /\ MutexConsistent' /\ WakeOwed'
      BY <1>1, <2>1, <2>3 DEF KInv, TypeOK, MutexConsistent, WakeOwed, Running, Arg, Cpu
    <2>9. QED BY <2>3, <2>6, <2>7, <2>8 DEF KInv
  <1>4. QED BY <1>2, <1>3 DEF OSJoinThread

LEMMA DetachStep ==
    ASSUME KInv, current \in Thread, NEW t \in Thread, OSDetachThread(current, t)
    PROVE  KInv'
  <1> DEFINE f == F("OSWakeupThread", t)
             fs == <<f>>
  <1>1. /\ MayCall(current) /\ Reap(t) /\ Enter(current, fs)
        /\ detached' = [detached EXCEPT ![t] = TRUE]
        /\ UNCHANGED <<base, priority, suspend, queue, mutex, queueVars, mutexVars, current>>
    BY DEF OSDetachThread
  <1>2. f \in Frame /\ f.fn = "OSWakeupThread" /\ current # NULL /\ current \in {current, Isr}
    BY FrameIntro, Constants
  <1> HIDE DEF f
  <1>3. fs \in Seq(Frame) /\ Good(fs) /\ ToSet(fs) = {f}
    BY <1>2, Stacks
  <1> HIDE DEF fs
  <1>4. /\ waiters' = waiters /\ runQueue' = runQueue /\ runBits' = runBits /\ hint' = hint
        /\ owner' = owner /\ lock' = lock /\ held' = held
    BY <1>1 DEF queueVars, mutexVars
  <1>5. /\ StackInv' /\ Stacked' /\ \A u \in Thread : Cancelling(u)' <=> Cancelling(u)
    BY <1>1, <1>2, <1>3, <1>4, EnterStep
  <1>6. /\ Placed' /\ PrioOK' /\ WaitersSorted' /\ RunningOne' /\ ActiveList'
        /\ state' \in [Thread -> {"READY", "RUNNING", "SLEEPING", "MORIBUND", "EXITED"}]
        /\ active' \subseteq Thread
        /\ \A u \in Thread : (Dead(u)' <=> Dead(u)) /\ (~Dead(u) => state'[u] = state[u])
    BY <1>1, <1>4, <1>5, Reaps DEF KInv
  <1>7. state[current] = "RUNNING" /\ \A m \in Mutex : waiters[m] # << >> => owner[m] # NULL
    BY <1>1, <1>2, CallFacts
  <1>8. Leaving' /\ WakeOwed' /\ MutexConsistent'
    BY <1>1, <1>4, <1>6, <1>7 DEF Leaving, Dead, WakeOwed, MutexConsistent, KInv
  <1>9. TypeOK'
    BY <1>1, <1>4, <1>5, <1>6 DEF KInv, TypeOK, Stacked
  <1>10. QED BY <1>5, <1>6, <1>8, <1>9 DEF KInv

LEMMA Outermost ==
    ASSUME KInv, NEW fn, fn \notin Inner, fn \notin IsrFrames, Running(fn)
    PROVE  /\ current \in Thread /\ current # NULL /\ current # Isr /\ Cpu = current
           /\ Stacked /\ StackInv /\ stack[Isr] = << >> /\ stack[current] # << >>
           /\ fn \notin Teardown => state[current] = "RUNNING"
           /\ Head(stack[current]) \in Frame /\ Head(stack[current]).fn = fn
           /\ ToSet(stack[current]) = {Head(stack[current])}
           /\ Arg = Head(stack[current]).arg
           /\ Return => stack' = [stack EXCEPT ![current] = << >>]
           /\ \A fs \in Seq(Frame) : Become(fs) => stack' = [stack EXCEPT ![current] = fs]
           /\ fn # "CancelTail" => Calm /\ \A u \in Thread : ~Cancelling(u)
           /\ \A m \in Mutex : waiters[m] # << >> => owner[m] # NULL
  <1>1. Stacked /\ StackInv /\ Leaving
    BY StateTypes DEF KInv
  <1>2. /\ Cpu = current /\ current \in Thread /\ stack[Isr] = << >>
        /\ stack[current] \in Seq(Frame) /\ stack[current] # << >> /\ Head(stack[current]).fn = fn
        /\ fn \notin Teardown => state[current] = "RUNNING"
        /\ Tail(stack[current]) = << >>
        /\ ToSet(stack[current]) = {Head(stack[current])}
    BY <1>1, ThreadTurn
  <1>3. Head(stack[current]) \in Frame /\ current # NULL /\ current # Isr
    BY <1>2, Popped, Constants
  <1>4. Arg = Head(stack[current]).arg
    BY <1>2 DEF Arg
  <1>5. Return => stack' = [stack EXCEPT ![current] = << >>]
    BY <1>2 DEF Return
  <1>6. ASSUME NEW fs \in Seq(Frame), Become(fs) PROVE stack' = [stack EXCEPT ![current] = fs]
    <2>1. stack' = [stack EXCEPT ![current] = fs \o Tail(stack[current])]
      BY <1>2, <1>6 DEF Become
    <2>2. fs \o << >> = fs
      OBVIOUS
    <2>3. QED BY <1>2, <2>1, <2>2
  <1>7. fn # "CancelTail" => Calm /\ \A u \in Thread : ~Cancelling(u)
    BY <1>1, <1>2, CalmNow
  <1>8. ~Running("OSWakeupThread")
    BY <1>2 DEF Running, IsrFrames
  <1>9. \A m \in Mutex : waiters[m] # << >> => owner[m] # NULL
    BY <1>8 DEF KInv, WakeOwed
  <1>10. QED BY <1>1, <1>2, <1>3, <1>4, <1>5, <1>6, <1>7, <1>9

-----------------------------------------------------------------------------
(* The outermost frames of a thread that ends, cancels or joins.           *)
LEMMA JoinTurn == ASSUME KInv, JoinTail PROVE KInv'
  <1>1. /\ Running("JoinTail") /\ Return
        /\ IF state[Arg] # "EXITED" /\ Arg \in active THEN Reap(Arg) ELSE UNCHANGED <<active, state>>
        /\ UNCHANGED <<detached, base, priority, suspend, queue, mutex, queueVars, mutexVars, current>>
    BY DEF JoinTail
  <1>2. /\ current \in Thread /\ Stacked /\ StackInv /\ stack[Isr] = << >>
        /\ state[current] = "RUNNING" /\ Arg \in Thread
        /\ stack' = [stack EXCEPT ![current] = << >>]
        /\ \A u \in Thread : ~Cancelling(u)
        /\ \A m \in Mutex : waiters[m] # << >> => owner[m] # NULL
    <2>1. "JoinTail" \notin Inner /\ "JoinTail" \notin IsrFrames /\ "JoinTail" \notin Teardown
      BY DEF Inner, IsrFrames, Teardown
    <2>2. Arg = Head(stack[current]).arg /\ Head(stack[current]) \in Frame
          /\ Head(stack[current]).fn = "JoinTail"
      BY <1>1, <2>1, Outermost
    <2>3. Arg \in Thread
      BY <2>2, FrameFacts
    <2>4. QED BY <1>1, <2>1, <2>3, Outermost
  <1>3. PICK t \in Thread : t = Arg
    BY <1>2
  <1>4. Reap(t)
    <2>1. t \in active <=> state[t] # "EXITED"
      BY DEF KInv, ActiveList
    <2>2. QED BY <1>1, <1>3, <2>1 DEF Reap
  <1>5. /\ waiters' = waiters /\ runQueue' = runQueue /\ runBits' = runBits /\ hint' = hint
        /\ owner' = owner /\ lock' = lock /\ held' = held
    BY <1>1 DEF queueVars, mutexVars
  <1>6. StackInv' /\ Stacked' /\ \A u \in Thread : ~Cancelling(u)'
    <2> DEFINE s == << >>
    <2>1. s \in Seq(Frame) /\ Good(s) /\ ToSet(s) = {}
      BY Stacks DEF ToSet, Good
    <2>2. stack' = [stack EXCEPT ![current] = s]
      BY <1>2
    <2> HIDE DEF s
    <2>3. StackInv' /\ Stacked' /\ Calm'
      BY <1>1, <1>2, <1>5, <2>1, <2>2, NewStack
    <2>4. QED BY <2>3, CalmNext
  <1>7. /\ Placed' /\ PrioOK' /\ WaitersSorted' /\ RunningOne' /\ ActiveList'
        /\ state' \in [Thread -> {"READY", "RUNNING", "SLEEPING", "MORIBUND", "EXITED"}]
        /\ active' \subseteq Thread
        /\ \A u \in Thread : (Dead(u)' <=> Dead(u)) /\ (~Dead(u) => state'[u] = state[u])
    BY <1>1, <1>2, <1>4, <1>5, <1>6, Reaps DEF KInv
  <1>8. Leaving' /\ WakeOwed' /\ MutexConsistent'
    BY <1>1, <1>2, <1>5, <1>7 DEF Leaving, Dead, WakeOwed, MutexConsistent, KInv
  <1>9. TypeOK'
    BY <1>1, <1>5, <1>6, <1>7 DEF KInv, TypeOK, Stacked
  <1>10. QED BY <1>6, <1>7, <1>8, <1>9 DEF KInv

LEMMA ExitHintTurn == ASSUME KInv, ExitHint PROVE KInv'
  <1> DEFINE r == <<Reschedule>>
  <1>1. /\ Running("ExitHint") /\ Become(r) /\ hint' = TRUE
        /\ UNCHANGED <<threadVars, waiters, runQueue, runBits, mutexVars, current>>
    BY DEF ExitHint
  <1>2. Reschedule \in Frame /\ Reschedule.fn = "__OSReschedule"
    BY FrameIntro
  <1>3. r \in Seq(Frame) /\ Good(r) /\ ToSet(r) = {Reschedule} /\ r # << >> /\ Head(r) = Reschedule
    BY <1>2, Stacks
  <1> HIDE DEF r
  <1>4. /\ current \in Thread /\ Stacked /\ StackInv /\ stack[Isr] = << >>
        /\ stack' = [stack EXCEPT ![current] = r]
        /\ \A u \in Thread : ~Cancelling(u)
        /\ \A m \in Mutex : waiters[m] # << >> => owner[m] # NULL
    <2>1. "ExitHint" \notin Inner /\ "ExitHint" \notin IsrFrames
      BY DEF Inner, IsrFrames
    <2>2. QED BY <1>1, <1>3, <2>1, Outermost
  <1>5. /\ state' = state /\ priority' = priority /\ suspend' = suspend /\ queue' = queue
        /\ waiters' = waiters /\ runQueue' = runQueue /\ runBits' = runBits /\ current' = current
        /\ active' = active /\ owner' = owner /\ lock' = lock /\ held' = held
        /\ detached' = detached /\ base' = base /\ mutex' = mutex
    BY <1>1 DEF threadVars, mutexVars
  <1>6. StackInv' /\ Stacked' /\ stack'[Isr] = << >> /\ stack'[current] = r
        /\ \A u \in Thread : ~Cancelling(u)'
    <2>1. \A f \in ToSet(r) : f.fn \notin {"IsrReturn", "CancelTail"}
                                /\ LockFrame(current, r, f, owner', lock')
      BY <1>2, <1>3 DEF LockFrame
    <2>2. StackInv' /\ Stacked' /\ Calm' /\ stack'[Isr] = << >> /\ stack'[current] = r
      BY <1>3, <1>4, <1>5, <2>1, NewStack
    <2>3. QED BY <2>2, CalmNext
  <1>7. Placed' /\ PrioOK' /\ WaitersSorted'
    BY <1>4, <1>5, <1>6, NoMove DEF KInv
  <1>8. Leaving'
    BY <1>1, <1>2, <1>3, <1>5, <1>6 DEF Leaving, Departs
  <1>9. WakeOwed' /\ MutexConsistent' /\ RunningOne' /\ ActiveList'
    BY <1>4, <1>5 DEF KInv, WakeOwed, MutexConsistent, RunningOne, ActiveList
  <1>10. TypeOK'
    BY <1>1, <1>5, <1>6 DEF KInv, TypeOK, Stacked
  <1>11. QED BY <1>6, <1>7, <1>8, <1>9, <1>10 DEF KInv

LEMMA CancelTurn == ASSUME KInv, CancelTail PROVE KInv'
  <1>1. /\ Running("CancelTail") /\ Die(Arg) /\ Become(TearDown(Arg) \o <<Reschedule>>)
        /\ UNCHANGED <<detached, base, priority, suspend, queue, mutex, queueVars, mutexVars, current>>
    BY DEF CancelTail
  <1>2. /\ current \in Thread /\ current # NULL /\ Stacked /\ StackInv /\ stack[Isr] = << >>
        /\ state[current] = "RUNNING" /\ Arg \in Thread
        /\ Arg = Head(stack[current]).arg /\ Head(stack[current]).fn = "CancelTail"
        /\ ToSet(stack[current]) = {Head(stack[current])}
        /\ \A fs \in Seq(Frame) : Become(fs) => stack' = [stack EXCEPT ![current] = fs]
        /\ \A m \in Mutex : waiters[m] # << >> => owner[m] # NULL
    <2>1. "CancelTail" \notin Inner /\ "CancelTail" \notin IsrFrames /\ "CancelTail" \notin Teardown
      BY DEF Inner, IsrFrames, Teardown
    <2>2. Arg = Head(stack[current]).arg /\ Head(stack[current]) \in Frame
          /\ Head(stack[current]).fn = "CancelTail"
      BY <1>1, <2>1, Outermost
    <2>3. Arg \in Thread
      BY <2>2, FrameFacts
    <2>4. QED BY <1>1, <2>1, <2>2, <2>3, Outermost
  <1>3. PICK t \in Thread : t = Arg
    BY <1>2
  <1>4. /\ ~Dead(t) /\ (t = current => hint) /\ Cancelling(t)
        /\ \A u \in Thread \ {t} : ~Cancelling(u)
    <2>1. ~Dead(t) /\ (t = current => hint)
      BY <1>2, <1>3 DEF StackInv, Cancels
    <2>2. \A u \in Thread : Cancelling(u) <=>
            \E d \in Context : \E f \in ToSet(stack[d]) : f.fn = "CancelTail" /\ f.arg = u
      BY DEF Cancelling, Pending, ToSet
    <2>3. Cancelling(t)
      BY <1>2, <1>3, <2>2 DEF Context
    <2>4. ASSUME NEW u \in Thread, Cancelling(u) PROVE u = t
      <3>1. PICK d \in Context : \E f \in ToSet(stack[d]) : f.fn = "CancelTail" /\ f.arg = u
        BY <2>2, <2>4
      <3>2. PICK f \in ToSet(stack[d]) : f.fn = "CancelTail" /\ f.arg = u
        BY <3>1
      <3>3. d # Isr
        BY <1>2, <3>2 DEF StackInv, Frames, IsrFrames, Context
      <3>4. d = current
        BY <1>2, <3>2, <3>3 DEF StackInv, Cancels, Context
      <3>5. QED BY <1>2, <1>3, <3>2, <3>4
    <2>5. QED BY <2>1, <2>3, <2>4
  <1> DEFINE s == TearDown(t) \o <<Reschedule>>
  <1>5. /\ s \in Seq(Frame) /\ Good(s) /\ Last(s) = Reschedule /\ s # << >>
        /\ \A f \in ToSet(s) : f = Reschedule \/ f.fn \in {"__OSUnlockAllMutex", "OSWakeupThread"}
        /\ Reschedule.fn = "__OSReschedule"
    BY TornDown, FrameIntro
  <1>6. Become(s)
    BY <1>1, <1>3
  <1> HIDE DEF s
  <1>7. stack' = [stack EXCEPT ![current] = s]
    BY <1>2, <1>5, <1>6
  <1>8. /\ priority' = priority /\ suspend' = suspend /\ queue' = queue /\ waiters' = waiters
        /\ runQueue' = runQueue /\ runBits' = runBits /\ hint' = hint /\ current' = current
        /\ owner' = owner /\ lock' = lock /\ held' = held
    BY <1>1 DEF queueVars, mutexVars
  <1>9. /\ StackInv' /\ Stacked' /\ stack'[Isr] = << >> /\ stack'[current] = s
        /\ \A u \in Thread : ~Cancelling(u)'
    <2>1. \A f \in ToSet(s) : f.fn \notin {"IsrReturn", "CancelTail"}
                                /\ LockFrame(current, s, f, owner', lock')
      BY <1>5 DEF LockFrame
    <2>2. StackInv' /\ Stacked' /\ Calm' /\ stack'[Isr] = << >> /\ stack'[current] = s
      BY <1>2, <1>5, <1>7, <1>8, <2>1, NewStack
    <2>3. QED BY <2>2, CalmNext
  <1>10. /\ Placed' /\ PrioOK' /\ WaitersSorted' /\ RunningOne' /\ ActiveList'
         /\ state' \in [Thread -> {"READY", "RUNNING", "SLEEPING", "MORIBUND", "EXITED"}]
         /\ active' \subseteq Thread /\ Dead(t)'
         /\ \A u \in Thread \ {t} : state'[u] = state[u]
    <2>1. Place[t] = NULL
      BY <1>4 DEF Place
    <2>2. Die(t) /\ \A u \in Thread \ {t} : Cancelling(u)' <=> Cancelling(u)
      BY <1>1, <1>3, <1>4, <1>9
    <2>3. QED BY <1>4, <1>8, <2>1, <2>2, Dies DEF KInv
  <1>11. Leaving'
    <2>1. CASE t = current
      <3>1. Departs(s, hint')
        BY <1>4, <1>5, <1>8, <2>1 DEF Departs, Teardown
      <3>2. QED BY <1>8, <1>9, <3>1 DEF Leaving
    <2>2. CASE t # current
      BY <1>2, <1>8, <1>10, <2>2 DEF Leaving
    <2>3. QED BY <2>1, <2>2
  <1>12. WakeOwed' /\ MutexConsistent'
    BY <1>2, <1>8 DEF KInv, WakeOwed, MutexConsistent
  <1>13. TypeOK'
    BY <1>1, <1>8, <1>9, <1>10 DEF KInv, TypeOK, Stacked
  <1>14. QED BY <1>9, <1>10, <1>11, <1>12, <1>13 DEF KInv

-----------------------------------------------------------------------------
(* Locking.                                                                *)
LEMMA OnlyMutexes ==
    ASSUME KInv, UNCHANGED <<state, detached, base, priority, suspend, queue, active, queueVars,
                             current>>,
           Stacked', StackInv', \A t \in Thread : Cancelling(t)' <=> Cancelling(t),
           mutex' \in [Thread -> Mutex \cup {NULL}], held' \in [Thread -> Seq(Mutex)],
           owner' \in [Mutex -> Thread \cup {NULL}], lock' \in [Mutex -> 0 .. MaxLock],
           MutexConsistent', Leaving', WakeOwed'
    PROVE  KInv'
  <1>1. Placed' /\ PrioOK' /\ WaitersSorted'
    BY NoMove DEF KInv, queueVars
  <1>2. TypeOK'
    BY DEF KInv, TypeOK, Stacked, queueVars
  <1>3. RunningOne' /\ ActiveList'
    BY DEF KInv, RunningOne, ActiveList
  <1>4. QED BY <1>1, <1>2, <1>3 DEF KInv

(* A mutex that nobody owns is taken.                                      *)
LEMMA Acquired ==
    ASSUME TypeOK, MutexConsistent, NEW t \in Thread, NEW m \in Mutex, owner[m] = NULL,
           Acquire(t, m)
    PROVE  /\ held' \in [Thread -> Seq(Mutex)] /\ owner' \in [Mutex -> Thread \cup {NULL}]
           /\ lock' \in [Mutex -> 0 .. MaxLock] /\ MutexConsistent'
           /\ owner'[m] = t /\ \A n \in Mutex \ {m} : owner'[n] = owner[n] /\ lock'[n] = lock[n]
  <1>1. /\ owner' = [owner EXCEPT ![m] = t] /\ lock' = [lock EXCEPT ![m] = lock[m] + 1]
        /\ held' = [held EXCEPT ![t] = Append(held[t], m)]
    BY DEF Acquire
  <1>2. /\ owner \in [Mutex -> Thread \cup {NULL}] /\ lock \in [Mutex -> 0 .. MaxLock]
        /\ held \in [Thread -> Seq(Mutex)] /\ NULL \notin Thread /\ MaxLock \in Nat \ {0}
    BY Constants DEF TypeOK
  <1>3. lock[m] = 0 /\ \A u \in Thread : m \notin ToSet(held[u])
    BY <1>2 DEF MutexConsistent
  <1> DEFINE l == Append(held[t], m)
  <1>4. l \in Seq(Mutex) /\ ToSet(l) = ToSet(held[t]) \cup {m} /\ IsInjective(l)
    BY <1>2, <1>3, AppendSet DEF MutexConsistent
  <1> HIDE DEF l
  <1>5. /\ owner' \in [Mutex -> Thread \cup {NULL}] /\ owner'[m] = t
        /\ lock' \in [Mutex -> 0 .. MaxLock] /\ lock'[m] = 1
        /\ \A n \in Mutex \ {m} : owner'[n] = owner[n] /\ lock'[n] = lock[n]
    BY <1>1, <1>2, <1>3
  <1>6. /\ held' \in [Thread -> Seq(Mutex)] /\ held'[t] = l
        /\ \A u \in Thread \ {t} : held'[u] = held[u]
    BY <1>1, <1>2, <1>4 DEF l
  <1>7. \A n \in Mutex : lock'[n] > 0 <=> owner'[n] # NULL
    BY <1>2, <1>5 DEF MutexConsistent
  <1>8. \A n \in Mutex, u \in Thread : owner'[n] = u <=> n \in ToSet(held'[u])
    <2> SUFFICES ASSUME NEW n \in Mutex, NEW u \in Thread
                 PROVE  owner'[n] = u <=> n \in ToSet(held'[u])
      OBVIOUS
    <2>1. owner[n] = u <=> n \in ToSet(held[u])
      BY DEF MutexConsistent
    <2>2. CASE u = t
      BY <1>4, <1>5, <1>6, <2>1, <2>2
    <2>3. CASE u # t
      BY <1>3, <1>5, <1>6, <2>1, <2>3
    <2>4. QED BY <2>2, <2>3
  <1>9. \A u \in Thread : IsInjective(held'[u])
    BY <1>4, <1>6 DEF MutexConsistent
  <1>10. QED BY <1>5, <1>6, <1>7, <1>8, <1>9 DEF MutexConsistent

(* The owner locks it once more.                                           *)
LEMMA LockedAgain ==
    ASSUME TypeOK, MutexConsistent, NEW m \in Mutex, owner[m] # NULL, lock[m] < MaxLock,
           lock' = [lock EXCEPT ![m] = @ + 1], owner' = owner, held' = held
    PROVE  lock' \in [Mutex -> 0 .. MaxLock] /\ MutexConsistent'
           /\ \A n \in Mutex \ {m} : owner'[n] = owner[n] /\ lock'[n] = lock[n]
  <1>1. lock \in [Mutex -> 0 .. MaxLock] /\ MaxLock \in Nat
    BY Constants DEF TypeOK
  <1>2. /\ lock' \in [Mutex -> 0 .. MaxLock] /\ lock'[m] = lock[m] + 1
        /\ \A n \in Mutex \ {m} : lock'[n] = lock[n]
    BY <1>1
  <1>3. \A n \in Mutex : lock'[n] > 0 <=> owner'[n] # NULL
    BY <1>1, <1>2 DEF MutexConsistent
  <1>4. QED BY <1>2, <1>3 DEF MutexConsistent

LEMMA TryLockStep ==
    ASSUME KInv, current \in Thread, NEW m \in Mutex, OSTryLockMutex(current, m)
    PROVE  KInv'
  <1>1. /\ MayCall(current) /\ UNCHANGED <<threadVars, queueVars, current, stack>>
        /\ \/ owner[m] = NULL /\ Acquire(current, m)
           \/ /\ owner[m] = current /\ lock[m] < MaxLock /\ lock' = [lock EXCEPT ![m] = @ + 1]
              /\ UNCHANGED <<owner, held>>
    BY DEF OSTryLockMutex
  <1>2. current # NULL /\ current # Isr /\ current \in {current, Isr}
    BY Constants
  <1>3. /\ Stacked /\ StackInv /\ stack[Isr] = << >> /\ stack[current] = << >>
        /\ state[current] = "RUNNING" /\ \A u \in Thread : ~Cancelling(u)
        /\ \A n \in Mutex : waiters[n] # << >> => owner[n] # NULL
    BY <1>1, <1>2, CallFacts DEF KInv
  <1>4. TypeOK /\ MutexConsistent
    BY DEF KInv
  <1>5. /\ held' \in [Thread -> Seq(Mutex)] /\ owner' \in [Mutex -> Thread \cup {NULL}]
        /\ lock' \in [Mutex -> 0 .. MaxLock] /\ MutexConsistent'
        /\ owner'[m] = current
        /\ \A n \in Mutex \ {m} : owner'[n] = owner[n] /\ lock'[n] = lock[n]
    <2>1. CASE owner[m] = NULL /\ Acquire(current, m)
      <3>1. PICK t \in Thread : t = current
        OBVIOUS
      <3>2. Acquire(t, m)
        BY <2>1, <3>1
      <3>3. QED BY <1>4, <2>1, <3>1, <3>2, Acquired
    <2>2. CASE /\ owner[m] = current /\ lock[m] < MaxLock /\ lock' = [lock EXCEPT ![m] = @ + 1]
               /\ UNCHANGED <<owner, held>>
      <3>1. lock' \in [Mutex -> 0 .. MaxLock] /\ MutexConsistent'
            /\ \A n \in Mutex \ {m} : owner'[n] = owner[n] /\ lock'[n] = lock[n]
        BY <1>2, <1>4, <2>2, LockedAgain
      <3>2. QED BY <1>4, <2>2, <3>1 DEF TypeOK
    <2>3. QED BY <1>1, <2>1, <2>2
  <1>6. stack' = [stack EXCEPT ![current] = << >>] /\ stack' = stack /\ current' = current
    <2>1. stack' = stack /\ current' = current
      BY <1>1
    <2>2. stack = [stack EXCEPT ![current] = << >>]
      BY <1>3 DEF Stacked, Context
    <2>3. QED BY <2>1, <2>2
  <1>7. StackInv' /\ Stacked'
    <2> DEFINE s == << >>
    <2>1. s \in Seq(Frame) /\ Good(s) /\ ToSet(s) = {}
      BY Stacks DEF ToSet, Good
    <2>2. stack' = [stack EXCEPT ![current] = s]
      BY <1>6
    <2> HIDE DEF s
    <2>3. \A n \in Mutex : \/ owner'[n] = owner[n] /\ lock'[n] = lock[n]
                           \/ owner'[n] \in {NULL, current}
      BY <1>5
    <2>4. QED BY <1>3, <1>6, <2>1, <2>2, <2>3, NewStack
  <1>8. \A u \in Thread : Cancelling(u)' <=> Cancelling(u)
    BY <1>6 DEF Cancelling, Pending
  <1>9. /\ UNCHANGED <<state, detached, base, priority, suspend, queue, active, queueVars, current>>
        /\ mutex' \in [Thread -> Mutex \cup {NULL}]
    BY <1>1, <1>4 DEF threadVars, TypeOK
  <1>10. Leaving'
    BY <1>3, <1>9 DEF Leaving
  <1>11. WakeOwed'
    BY <1>2, <1>3, <1>5, <1>9 DEF WakeOwed, queueVars
  <1>12. QED BY <1>5, <1>7, <1>8, <1>9, <1>10, <1>11, OnlyMutexes

(* The three frames of OSLockMutex, each the running thread's only one.    *)
LEMMA LockFacts ==
    ASSUME KInv, NEW fn \in {"OSLockMutex", "LockSleep", "LockWoken"}, Running(fn)
    PROVE  /\ current \in Thread /\ current # NULL /\ current # Isr /\ Arg \in Mutex
           /\ Stacked /\ StackInv /\ stack[Isr] = << >> /\ state[current] = "RUNNING"
           /\ priority[current] \in Priority
           /\ Return => stack' = [stack EXCEPT ![current] = << >>]
           /\ \A fs \in Seq(Frame) : Become(fs) => stack' = [stack EXCEPT ![current] = fs]
           /\ \A u \in Thread : ~Cancelling(u)
           /\ \A m \in Mutex : waiters[m] # << >> => owner[m] # NULL
           /\ fn # "OSLockMutex" => owner[Arg] # current
           /\ fn = "OSLockMutex" => (owner[Arg] = current => lock[Arg] < MaxLock)
           /\ fn = "LockSleep" => owner[Arg] # NULL
  <1>1. fn \notin Inner /\ fn \notin IsrFrames /\ fn \notin Teardown /\ fn # "CancelTail"
    BY DEF Inner, IsrFrames, Teardown
  <1>2. /\ Arg = Head(stack[current]).arg /\ Head(stack[current]) \in Frame
        /\ Head(stack[current]).fn = fn /\ ToSet(stack[current]) = {Head(stack[current])}
        /\ current \in Thread /\ StackInv /\ state[current] = "RUNNING"
    BY <1>1, Outermost
  <1>3. Arg \in Mutex
    BY <1>2, FrameFacts
  <1>4. priority[current] \in Priority
    BY <1>2 DEF KInv, RunningOne, PrioOK, Dead
  <1>5. LockFrame(current, stack[current], Head(stack[current]), owner, lock)
    BY <1>2 DEF StackInv, Locks
  <1>6. /\ fn # "OSLockMutex" => owner[Arg] # current
        /\ fn = "OSLockMutex" => (owner[Arg] = current => lock[Arg] < MaxLock)
        /\ fn = "LockSleep" => owner[Arg] # NULL
    BY <1>2, <1>5 DEF LockFrame
  <1>7. QED BY <1>1, <1>3, <1>4, <1>6, Outermost

(* The running thread changes what it owns or waits for, and its stack.    *)
LEMMA LockMoves ==
    ASSUME KInv, current \in Thread, stack[Isr] = << >>, state[current] = "RUNNING",
           \A u \in Thread : ~Cancelling(u),
           \A m \in Mutex : waiters[m] # << >> => owner[m] # NULL,
           UNCHANGED <<state, detached, base, priority, suspend, queue, active, queueVars, current>>,
           mutex' \in [Thread -> Mutex \cup {NULL}], held' \in [Thread -> Seq(Mutex)],
           owner' \in [Mutex -> Thread \cup {NULL}], lock' \in [Mutex -> 0 .. MaxLock],
           MutexConsistent', NEW s \in Seq(Frame), Good(s),
           \A f \in ToSet(s) : f.fn \notin {"IsrReturn", "CancelTail"}
                                 /\ LockFrame(current, s, f, owner', lock'),
           stack' = [stack EXCEPT ![current] = s],
           \A m \in Mutex : \/ owner'[m] = owner[m] /\ lock'[m] = lock[m]
                            \/ owner'[m] = current
    PROVE  KInv'
  <1>1. Stacked /\ StackInv /\ current # NULL
    BY StateTypes, Constants DEF KInv
  <1>2. StackInv' /\ Stacked' /\ Calm'
    <2>1. \A m \in Mutex : \/ owner'[m] = owner[m] /\ lock'[m] = lock[m]
                           \/ owner'[m] \in {NULL, current}
      OBVIOUS
    <2>2. current' = current
      OBVIOUS
    <2>3. QED BY <1>1, <2>1, <2>2, NewStack
  <1>3. \A u \in Thread : Cancelling(u)' <=> Cancelling(u)
    BY <1>2, CalmNext
  <1>4. Leaving'
    BY DEF Leaving
  <1>5. WakeOwed'
    BY <1>1 DEF WakeOwed, queueVars
  <1>6. QED BY <1>2, <1>3, <1>4, <1>5, OnlyMutexes

LEMMA LockLoop == ASSUME KInv, LockTurn PROVE KInv'
  <1>1. /\ Running("OSLockMutex")
        /\ UNCHANGED <<state, detached, base, priority, suspend, queue, active, queueVars, current>>
        /\ \/ owner[Arg] = NULL /\ Acquire(current, Arg) /\ Return /\ UNCHANGED mutex
           \/ /\ owner[Arg] = current /\ lock' = [lock EXCEPT ![Arg] = @ + 1] /\ Return
              /\ UNCHANGED <<owner, held, mutex>>
           \/ /\ owner[Arg] \notin {NULL, current} /\ mutex' = [mutex EXCEPT ![current] = Arg]
              /\ Become(<<Promote(owner[Arg], priority[current]), F("LockSleep", Arg)>>)
              /\ UNCHANGED <<owner, lock, held>>
    BY DEF LockTurn
  <1>2. /\ current \in Thread /\ current # NULL /\ Arg \in Mutex
        /\ stack[Isr] = << >> /\ state[current] = "RUNNING" /\ priority[current] \in Priority
        /\ Return => stack' = [stack EXCEPT ![current] = << >>]
        /\ \A fs \in Seq(Frame) : Become(fs) => stack' = [stack EXCEPT ![current] = fs]
        /\ \A u \in Thread : ~Cancelling(u)
        /\ \A m \in Mutex : waiters[m] # << >> => owner[m] # NULL
        /\ owner[Arg] = current => lock[Arg] < MaxLock
    BY <1>1, LockFacts
  <1>3. PICK m \in Mutex : m = Arg
    BY <1>2
  <1>4. PICK t \in Thread : t = current
    BY <1>2
  <1>5. /\ TypeOK /\ MutexConsistent /\ mutex \in [Thread -> Mutex \cup {NULL}]
        /\ owner \in [Mutex -> Thread \cup {NULL}] /\ lock \in [Mutex -> 0 .. MaxLock]
        /\ held \in [Thread -> Seq(Mutex)]
    BY DEF KInv, TypeOK
  <1> DEFINE e == << >>
  <1>6. e \in Seq(Frame) /\ Good(e) /\ ToSet(e) = {}
    BY Stacks DEF ToSet, Good
  <1>7. Return => stack' = [stack EXCEPT ![current] = e]
    BY <1>2
  <1> HIDE DEF e
  <1>8. CASE owner[m] = NULL /\ Acquire(t, m) /\ Return /\ UNCHANGED mutex
    <2>1. /\ held' \in [Thread -> Seq(Mutex)] /\ owner' \in [Mutex -> Thread \cup {NULL}]
          /\ lock' \in [Mutex -> 0 .. MaxLock] /\ MutexConsistent'
          /\ owner'[m] = t /\ \A n \in Mutex \ {m} : owner'[n] = owner[n] /\ lock'[n] = lock[n]
      BY <1>5, <1>8, Acquired
    <2>2. \A n \in Mutex : \/ owner'[n] = owner[n] /\ lock'[n] = lock[n]
                           \/ owner'[n] = current
      BY <1>4, <2>1
    <2>3. mutex' \in [Thread -> Mutex \cup {NULL}]
      BY <1>5, <1>8
    <2>4. QED BY <1>1, <1>2, <1>6, <1>7, <1>8, <2>1, <2>2, <2>3, LockMoves
  <1>9. CASE /\ owner[m] = t /\ lock' = [lock EXCEPT ![m] = @ + 1] /\ Return
             /\ UNCHANGED <<owner, held, mutex>>
    <2>1. owner[m] # NULL /\ lock[m] < MaxLock
      BY <1>2, <1>3, <1>4, <1>9
    <2>2. lock' \in [Mutex -> 0 .. MaxLock] /\ MutexConsistent'
          /\ \A n \in Mutex \ {m} : owner'[n] = owner[n] /\ lock'[n] = lock[n]
      BY <1>5, <1>9, <2>1, LockedAgain
    <2>3. \A n \in Mutex : \/ owner'[n] = owner[n] /\ lock'[n] = lock[n]
                           \/ owner'[n] = current
      BY <1>4, <1>9, <2>2
    <2>4. /\ mutex' \in [Thread -> Mutex \cup {NULL}] /\ held' \in [Thread -> Seq(Mutex)]
          /\ owner' \in [Mutex -> Thread \cup {NULL}]
      BY <1>5, <1>9
    <2>5. QED BY <1>1, <1>2, <1>6, <1>7, <1>9, <2>2, <2>3, <2>4, LockMoves
  <1>10. CASE /\ owner[m] \notin {NULL, t} /\ mutex' = [mutex EXCEPT ![t] = m]
              /\ Become(<<Promote(owner[m], priority[t]), F("LockSleep", m)>>)
              /\ UNCHANGED <<owner, lock, held>>
    <2>1. PICK o \in Thread, p \in Priority : o = owner[m] /\ p = priority[t]
      BY <1>2, <1>4, <1>5, <1>10
    <2> DEFINE a == Promote(o, p)
               b == F("LockSleep", m)
               s == <<a, b>>
    <2>2. /\ a \in Frame /\ a.fn = "__OSPromoteThread" /\ a.prio = p
          /\ b \in Frame /\ b.fn = "LockSleep" /\ b.arg = m
      BY FrameIntro, Constants DEF Priority
    <2>3. Become(s)
      BY <1>10, <2>1
    <2> HIDE DEF a, b
    <2>4. s \in Seq(Frame) /\ Good(s) /\ ToSet(s) = {a, b}
      BY <2>2, Stacks DEF Inner
    <2> HIDE DEF s
    <2>5. stack' = [stack EXCEPT ![current] = s]
      BY <1>2, <2>3, <2>4
    <2>6. owner' = owner /\ lock' = lock /\ held' = held
      BY <1>10
    <2>7. ASSUME NEW f \in ToSet(s)
          PROVE  f.fn \notin {"IsrReturn", "CancelTail"} /\ LockFrame(current, s, f, owner', lock')
      <3>1. \A g \in ToSet(s) : g.fn \in {"__OSPromoteThread", "LockSleep"}
        BY <2>2, <2>4
      <3>2. f = a \/ f = b
        BY <2>4
      <3>3. owner'[m] # current /\ owner'[m] # NULL
        BY <1>4, <1>10, <2>6
      <3>4. QED BY <2>2, <3>1, <3>2, <3>3 DEF LockFrame
    <2>8. /\ mutex' \in [Thread -> Mutex \cup {NULL}] /\ held' \in [Thread -> Seq(Mutex)]
          /\ owner' \in [Mutex -> Thread \cup {NULL}] /\ lock' \in [Mutex -> 0 .. MaxLock]
          /\ MutexConsistent' /\ \A n \in Mutex : owner'[n] = owner[n] /\ lock'[n] = lock[n]
      BY <1>5, <1>10, <2>6 DEF MutexConsistent
    <2>9. QED BY <1>1, <1>2, <2>4, <2>5, <2>7, <2>8, LockMoves
  <1>11. QED BY <1>1, <1>3, <1>4, <1>8, <1>9, <1>10

LEMMA LockWakes == ASSUME KInv, LockWoken PROVE KInv'
  <1>1. /\ Running("LockWoken") /\ mutex' = [mutex EXCEPT ![current] = NULL]
        /\ Become(<<F("OSLockMutex", Arg)>>)
        /\ UNCHANGED <<state, detached, base, priority, suspend, queue, active, queueVars,
                       mutexVars, current>>
    BY DEF LockWoken
  <1>2. /\ current \in Thread /\ Arg \in Mutex /\ stack[Isr] = << >> /\ state[current] = "RUNNING"
        /\ \A fs \in Seq(Frame) : Become(fs) => stack' = [stack EXCEPT ![current] = fs]
        /\ \A u \in Thread : ~Cancelling(u)
        /\ \A m \in Mutex : waiters[m] # << >> => owner[m] # NULL
        /\ owner[Arg] # current
    BY <1>1, LockFacts
  <1>3. PICK m \in Mutex : m = Arg
    BY <1>2
  <1> DEFINE a == F("OSLockMutex", m)
             s == <<a>>
  <1>4. a \in Frame /\ a.fn = "OSLockMutex" /\ a.arg = m /\ Become(s)
    BY <1>1, <1>3, FrameIntro
  <1> HIDE DEF a
  <1>5. s \in Seq(Frame) /\ Good(s) /\ ToSet(s) = {a}
    BY <1>4, Stacks
  <1> HIDE DEF s
  <1>6. stack' = [stack EXCEPT ![current] = s]
    BY <1>2, <1>4, <1>5
  <1>7. owner' = owner /\ lock' = lock /\ held' = held
    BY <1>1 DEF mutexVars
  <1>8. \A f \in ToSet(s) : f.fn \notin {"IsrReturn", "CancelTail"}
                              /\ LockFrame(current, s, f, owner', lock')
    BY <1>2, <1>3, <1>4, <1>5, <1>7 DEF LockFrame
  <1>9. /\ mutex' \in [Thread -> Mutex \cup {NULL}] /\ held' \in [Thread -> Seq(Mutex)]
        /\ owner' \in [Mutex -> Thread \cup {NULL}] /\ lock' \in [Mutex -> 0 .. MaxLock]
        /\ MutexConsistent' /\ \A n \in Mutex : owner'[n] = owner[n] /\ lock'[n] = lock[n]
    BY <1>1, <1>2, <1>7 DEF KInv, TypeOK, MutexConsistent
  <1>10. QED BY <1>1, <1>2, <1>5, <1>6, <1>8, <1>9, LockMoves

LEMMA LockSleeps == ASSUME KInv, LockSleep PROVE KInv'
  <1>1. /\ Running("LockSleep") /\ SleepOn(current, Arg)
        /\ Become(<<Reschedule, F("LockWoken", Arg)>>)
        /\ UNCHANGED <<detached, base, priority, suspend, mutex, active, mutexVars, current>>
    BY DEF LockSleep
  <1>2. /\ current \in Thread /\ Arg \in Mutex /\ Stacked /\ StackInv
        /\ stack[Isr] = << >> /\ state[current] = "RUNNING"
        /\ \A fs \in Seq(Frame) : Become(fs) => stack' = [stack EXCEPT ![current] = fs]
        /\ \A u \in Thread : ~Cancelling(u)
        /\ \A m \in Mutex : waiters[m] # << >> => owner[m] # NULL
        /\ owner[Arg] # current /\ owner[Arg] # NULL
    BY <1>1, LockFacts
  <1>3. PICK m \in Mutex : m = Arg
    BY <1>2
  <1> DEFINE a == Reschedule
             b == F("LockWoken", m)
             s == <<a, b>>
  <1>4. /\ a \in Frame /\ a.fn = "__OSReschedule" /\ b \in Frame /\ b.fn = "LockWoken" /\ b.arg = m
        /\ Become(s)
    BY <1>1, <1>3, FrameIntro
  <1> HIDE DEF a, b
  <1>5. s \in Seq(Frame) /\ Good(s) /\ ToSet(s) = {a, b} /\ s # << >> /\ Head(s) = a
    BY <1>4, Stacks DEF Inner
  <1> HIDE DEF s
  <1>6. stack' = [stack EXCEPT ![current] = s]
    BY <1>2, <1>4, <1>5
  <1>7. owner' = owner /\ lock' = lock /\ held' = held
    BY <1>1 DEF mutexVars
  <1>8. \A f \in ToSet(s) : f.fn \notin {"IsrReturn", "CancelTail"}
                              /\ LockFrame(current, s, f, owner', lock')
    BY <1>2, <1>3, <1>4, <1>5, <1>7 DEF LockFrame
  <1>9. StackInv' /\ Stacked' /\ stack'[Isr] = << >> /\ stack'[current] = s
        /\ \A u \in Thread : ~Cancelling(u)'
    <2>1. StackInv' /\ Stacked' /\ Calm' /\ stack'[Isr] = << >> /\ stack'[current] = s
      BY <1>1, <1>2, <1>5, <1>6, <1>7, <1>8, NewStack
    <2>2. QED BY <2>1, CalmNext
  <1>10. /\ Placed' /\ PrioOK' /\ WaitersSorted' /\ RunningOne' /\ ActiveList'
         /\ state' \in [Thread -> {"READY", "RUNNING", "SLEEPING", "MORIBUND", "EXITED"}]
         /\ queue' \in [Thread -> WaitQueue \cup Priority \cup {NULL}]
         /\ waiters' \in [WaitQueue -> Seq(Thread)]
         /\ \A r \in WaitQueue \ {m} : waiters'[r] = waiters[r]
         /\ hint' = TRUE /\ runQueue' = runQueue /\ runBits' = runBits
    <2>1. PICK t \in Thread : t = current
      BY <1>2
    <2>2. SleepOn(t, m) /\ m \in WaitQueue /\ state[t] = "RUNNING"
      BY <1>1, <1>2, <1>3, <2>1, Constants
    <2>3. QED BY <1>1, <1>2, <1>9, <2>2, SleepMoves DEF KInv
  <1>11. Leaving'
    BY <1>4, <1>5, <1>9, <1>10, <1>1 DEF Leaving, Departs
  <1>12. WakeOwed'
    BY <1>2, <1>3, <1>7, <1>10, Constants DEF WakeOwed
  <1>13. TypeOK' /\ MutexConsistent'
    BY <1>1, <1>7, <1>9, <1>10 DEF KInv, TypeOK, Stacked, MutexConsistent
  <1>14. QED BY <1>9, <1>10, <1>11, <1>12, <1>13 DEF KInv

(***************************************************************************)
(* Unlocking.  The owner lets m go, and l is what it still holds.          *)
(***************************************************************************)
LEMMA Released ==
    ASSUME TypeOK, MutexConsistent, NEW t \in Thread, NEW m \in Mutex, owner[m] = t,
           NEW l \in Seq(Mutex), IsInjective(l), ToSet(l) = ToSet(held[t]) \ {m},
           owner' = [owner EXCEPT ![m] = NULL], lock' = [lock EXCEPT ![m] = 0],
           held' = [held EXCEPT ![t] = l]
    PROVE  /\ held' \in [Thread -> Seq(Mutex)] /\ owner' \in [Mutex -> Thread \cup {NULL}]
           /\ lock' \in [Mutex -> 0 .. MaxLock] /\ MutexConsistent'
           /\ owner'[m] = NULL /\ \A n \in Mutex \ {m} : owner'[n] = owner[n] /\ lock'[n] = lock[n]
  <1>1. /\ owner \in [Mutex -> Thread \cup {NULL}] /\ lock \in [Mutex -> 0 .. MaxLock]
        /\ held \in [Thread -> Seq(Mutex)] /\ NULL \notin Thread /\ MaxLock \in Nat \ {0}
    BY Constants DEF TypeOK
  <1>2. /\ owner' \in [Mutex -> Thread \cup {NULL}] /\ owner'[m] = NULL
        /\ lock' \in [Mutex -> 0 .. MaxLock] /\ lock'[m] = 0
        /\ \A n \in Mutex \ {m} : owner'[n] = owner[n] /\ lock'[n] = lock[n]
    BY <1>1
  <1>3. /\ held' \in [Thread -> Seq(Mutex)] /\ held'[t] = l
        /\ \A u \in Thread \ {t} : held'[u] = held[u]
    BY <1>1
  <1>4. \A n \in Mutex : lock'[n] > 0 <=> owner'[n] # NULL
    BY <1>2 DEF MutexConsistent
  <1>5. \A n \in Mutex, u \in Thread : owner'[n] = u <=> n \in ToSet(held'[u])
    <2> SUFFICES ASSUME NEW n \in Mutex, NEW u \in Thread
                 PROVE  owner'[n] = u <=> n \in ToSet(held'[u])
      OBVIOUS
    <2>1. owner[n] = u <=> n \in ToSet(held[u])
      BY DEF MutexConsistent
    <2>2. u # NULL
      BY <1>1
    <2>3. CASE u = t
      BY <1>2, <1>3, <2>1, <2>2, <2>3
    <2>4. CASE u # t
      BY <1>2, <1>3, <2>1, <2>2, <2>4
    <2>5. QED BY <2>3, <2>4
  <1>6. \A u \in Thread : IsInjective(held'[u])
    BY <1>3 DEF MutexConsistent
  <1>7. QED BY <1>2, <1>3, <1>4, <1>5, <1>6 DEF MutexConsistent

(* A thread that is in no queue changes its priority.                      *)
LEMMA RunnerPriority ==
    ASSUME TypeOK, PrioOK, Placed, WaitersSorted, NEW t \in Thread, state[t] = "RUNNING",
           \A u \in Thread : Cancelling(u)' <=> Cancelling(u),
           NEW x \in Priority, priority' = [priority EXCEPT ![t] = x],
           UNCHANGED <<state, suspend, queue, waiters, runQueue, runBits>>
    PROVE  /\ Placed' /\ PrioOK' /\ WaitersSorted'
           /\ priority' \in [Thread -> 0 .. OS_PRIORITY_MAX + 1]
  <1>1. priority \in [Thread -> 0 .. OS_PRIORITY_MAX + 1] /\ x \in 0 .. OS_PRIORITY_MAX + 1
    BY Constants DEF TypeOK, Priority
  <1>2. /\ priority' \in [Thread -> 0 .. OS_PRIORITY_MAX + 1] /\ priority'[t] = x
        /\ \A u \in Thread \ {t} : priority'[u] = priority[u]
    BY <1>1
  <1>3. Place[t] = NULL
    BY DEF Place, Where
  <1>4. Place' = [Place EXCEPT ![t] = NULL] /\ Fields'
    <2>1. \A u \in Thread \ {t} : /\ Cancelling(u)' <=> Cancelling(u)
                                  /\ state'[u] = state[u] /\ suspend'[u] = suspend[u]
                                  /\ priority'[u] = priority[u] /\ queue'[u] = queue[u]
      BY <1>2
    <2>2. state'[t] = "RUNNING"
      OBVIOUS
    <2>3. Fields
      BY DEF Placed
    <2>4. QED BY <2>1, <2>2, <2>3, PlaceNone
  <1>5. Place' = Place
    BY <1>3, <1>4 DEF Place
  <1>6. Placed'
    BY <1>4, <1>5 DEF Placed
  <1>7. PrioOK'
    BY <1>2 DEF PrioOK, Dead
  <1>8. WaitersSorted'
    <2>1. \A q \in WaitQueue : t \notin ToSet(waiters[q]) /\ waiters[q] \in Seq(Thread)
      BY <1>3, StateTypes, Constants DEF Placed, Linked
    <2>2. QED BY <1>2, <2>1, SortedBut
  <1>9. QED BY <1>2, <1>6, <1>7, <1>8

LEMMA UnlockStep ==
    ASSUME KInv, current \in Thread, NEW m \in Mutex, OSUnlockMutex(current, m)
    PROVE  KInv'
  <1>0. PICK c \in Thread : c = current
    OBVIOUS
  <1>1. /\ MayCall(c) /\ owner[m] = c /\ current' = current
        /\ lock' = [lock EXCEPT ![m] = lock[m] - 1]
        /\ UNCHANGED <<state, detached, base, suspend, queue, mutex, active, queueVars>>
    BY <1>0 DEF OSUnlockMutex
  <1>2. /\ Stacked /\ StackInv /\ stack[Isr] = << >> /\ stack[c] = << >> /\ state[c] = "RUNNING"
        /\ priority[c] \in Priority /\ \A u \in Thread : ~Cancelling(u)
        /\ \A n \in Mutex : waiters[n] # << >> => owner[n] # NULL
        /\ c # NULL /\ c # Isr
    BY <1>0, <1>1, CallFacts, Constants DEF KInv
  <1>3. TypeOK /\ MutexConsistent
    BY DEF KInv
  <1>4. /\ mutex' \in [Thread -> Mutex \cup {NULL}] /\ waiters' = waiters /\ hint' = hint
        /\ runQueue' = runQueue /\ runBits' = runBits
    BY <1>1, <1>3 DEF TypeOK, queueVars
  <1>5. CASE lock[m] > 1 /\ UNCHANGED <<held, owner, priority, stack>>
    <2> DEFINE s == << >>
    <2>1. s \in Seq(Frame) /\ Good(s) /\ ToSet(s) = {}
      BY Stacks DEF ToSet, Good
    <2>2. stack' = [stack EXCEPT ![current] = s]
      BY <1>0, <1>2, <1>5 DEF Stacked
    <2> HIDE DEF s
    <2>3. /\ owner' = owner /\ held' = held /\ lock \in [Mutex -> 0 .. MaxLock] /\ MaxLock \in Nat
      BY <1>3, <1>5, Constants DEF TypeOK
    <2>4. /\ lock' \in [Mutex -> 0 .. MaxLock] /\ lock'[m] > 0
          /\ \A n \in Mutex \ {m} : lock'[n] = lock[n]
      BY <1>1, <1>5, <2>3
    <2>5. \A n \in Mutex : (owner'[n] = owner[n] /\ lock'[n] = lock[n]) \/ owner'[n] \in {NULL, current}
      BY <1>0, <1>1, <2>3, <2>4
    <2>6. StackInv' /\ Stacked' /\ Calm'
      BY <1>0, <1>1, <1>2, <2>1, <2>2, <2>5, NewStack
    <2>7. \A u \in Thread : Cancelling(u)' <=> Cancelling(u)
      BY <1>2, <2>6, CalmNext
    <2>8. MutexConsistent'
      BY <1>1, <1>2, <1>3, <2>3, <2>4 DEF MutexConsistent
    <2>9. Leaving' /\ WakeOwed'
      BY <1>0, <1>1, <1>2, <1>4, <2>3 DEF Leaving, WakeOwed
    <2>10. /\ held' \in [Thread -> Seq(Mutex)] /\ owner' \in [Mutex -> Thread \cup {NULL}]
           /\ UNCHANGED <<state, detached, base, priority, suspend, queue, active, queueVars, current>>
      BY <1>1, <1>3, <1>5, <2>3 DEF TypeOK
    <2>11. QED BY <1>4, <2>4, <2>6, <2>7, <2>8, <2>9, <2>10, OnlyMutexes
  <1>6. CASE /\ lock[m] = 1 /\ owner' = [owner EXCEPT ![m] = NULL]
             /\ held' = [held EXCEPT ![c] = Without(@, m)]
             /\ priority' = [priority EXCEPT ![c] =
                                IF @ < base[c] THEN EffectivePriority(c, held'[c], waiters) ELSE @]
             /\ Enter(c, AfterRelease(m))
    <2> DEFINE l == Without(held[c], m)
    <2>1. held[c] \in Seq(Mutex) /\ m \in ToSet(held[c]) /\ IsInjective(held[c])
      BY <1>1, <1>3 DEF TypeOK, MutexConsistent
    <2>2. l \in Seq(Mutex) /\ IsInjective(l) /\ ToSet(l) = ToSet(held[c]) \ {m}
      BY <2>1, WithoutElements, WithoutSet
    <2>3. held' = [held EXCEPT ![c] = l] /\ held'[c] = l
      BY <1>3, <1>6 DEF TypeOK
    <2> HIDE DEF l
    <2>4. lock' = [lock EXCEPT ![m] = 0]
      BY <1>1, <1>6
    <2>5. /\ held' \in [Thread -> Seq(Mutex)] /\ owner' \in [Mutex -> Thread \cup {NULL}]
          /\ lock' \in [Mutex -> 0 .. MaxLock] /\ MutexConsistent'
          /\ owner'[m] = NULL /\ \A n \in Mutex \ {m} : owner'[n] = owner[n] /\ lock'[n] = lock[n]
      BY <1>1, <1>3, <1>6, <2>2, <2>3, <2>4, Released
    <2> DEFINE e == EffectivePriority(c, l, waiters)
               x == IF priority[c] < base[c] THEN e ELSE priority[c]
    <2>6. x \in Priority
      <3>1. waiters \in [WaitQueue -> Seq(Thread)]
        BY <1>3 DEF TypeOK
      <3>2. e \in Priority
        BY <1>3, <2>2, <3>1, EffectiveOK
      <3>3. QED BY <1>2, <3>2
    <2>7. priority' = [priority EXCEPT ![c] = x]
      BY <1>6, <2>3
    <2> HIDE DEF x
    <2> DEFINE f == F("OSWakeupThread", m)
               s == <<f>>
    <2>8. f \in Frame /\ f.fn = "OSWakeupThread" /\ f.arg = m
      BY FrameIntro, Constants
    <2>9. stack' = [stack EXCEPT ![current] = s]
      BY <1>0, <1>2, <1>6 DEF Enter, AfterRelease
    <2> HIDE DEF f
    <2>10. s \in Seq(Frame) /\ Good(s) /\ ToSet(s) = {f} /\ s # << >> /\ Head(s) = f
      BY <2>8, Stacks
    <2> HIDE DEF s
    <2>11. \A g \in ToSet(s) : g.fn \notin {"IsrReturn", "CancelTail"}
                                 /\ LockFrame(current, s, g, owner', lock')
      BY <2>8, <2>10 DEF LockFrame
    <2>12. \A n \in Mutex : (owner'[n] = owner[n] /\ lock'[n] = lock[n]) \/ owner'[n] \in {NULL, current}
      BY <2>5
    <2>13. StackInv' /\ Stacked' /\ Calm' /\ stack'[Isr] = << >> /\ stack'[current] = s
      BY <1>0, <1>1, <1>2, <2>9, <2>10, <2>11, <2>12, NewStack
    <2>14. \A u \in Thread : Cancelling(u)' <=> Cancelling(u)
      BY <1>2, <2>13, CalmNext
    <2>15. /\ Placed' /\ PrioOK' /\ WaitersSorted'
           /\ priority' \in [Thread -> 0 .. OS_PRIORITY_MAX + 1]
      <3>1. PrioOK /\ Placed /\ WaitersSorted
        BY DEF KInv
      <3>2. QED BY <1>1, <1>2, <1>3, <1>4, <2>6, <2>7, <2>14, <3>1, RunnerPriority
    <2>16. WakeOwed'
      <3>1. Running("OSWakeupThread")' /\ Arg' = m
        <4>1. Cpu' = current
          BY <1>1, <2>13 DEF Cpu
        <4>2. QED BY <1>0, <1>2, <2>8, <2>10, <2>13, <4>1 DEF Running, Arg
      <3>2. QED BY <1>2, <1>4, <2>5, <3>1 DEF WakeOwed
    <2>17. Leaving' /\ RunningOne' /\ ActiveList'
      BY <1>0, <1>1, <1>2 DEF Leaving, RunningOne, ActiveList, KInv
    <2>18. TypeOK'
      BY <1>1, <1>3, <1>4, <2>5, <2>13, <2>15 DEF TypeOK, Stacked
    <2>19. QED BY <2>5, <2>13, <2>15, <2>16, <2>17, <2>18 DEF KInv
  <1>7. QED BY <1>0, <1>5, <1>6 DEF OSUnlockMutex

-----------------------------------------------------------------------------
(***************************************************************************)
(* One turn of a loop of Inner, of a thread or of a handler.               *)
(***************************************************************************)
LEMMA InnerFacts ==
    ASSUME KInv, NEW fn \in Inner, Running(fn)
    PROVE  /\ Stacked /\ StackInv /\ Cpu # NULL /\ Cpu \in Context
           /\ stack[Cpu] \in Seq(Frame) /\ stack[Cpu] # << >>
           /\ Head(stack[Cpu]) \in Frame /\ Head(stack[Cpu]) \in ToSet(stack[Cpu])
           /\ Head(stack[Cpu]).fn = fn /\ Arg = Head(stack[Cpu]).arg
           /\ Tail(stack[Cpu]) \in Seq(Frame)
           /\ ToSet(stack[Cpu]) = ToSet(Tail(stack[Cpu])) \cup {Head(stack[Cpu])}
           /\ Cpu = Isr => /\ stack[Isr] # << >>
                           /\ current # NULL => /\ current \in Thread /\ stack[current] = << >>
                                                /\ state[current] = "RUNNING"
           /\ Cpu # Isr => Cpu = current /\ current \in Thread /\ stack[Isr] = << >>
           /\ fn # "UpdatePriority" => Calm /\ \A u \in Thread : ~Cancelling(u)
  <1>1. Stacked /\ StackInv /\ Leaving
    BY StateTypes DEF KInv
  <1>2. Cpu # NULL /\ stack[Cpu] # << >> /\ Head(stack[Cpu]).fn = fn
    BY DEF Running
  <1>3. /\ Cpu \in Context /\ stack[Cpu] \in Seq(Frame)
        /\ Cpu = Isr => /\ stack[Isr] # << >>
                        /\ current # NULL => current \in Thread /\ stack[current] = << >>
        /\ Cpu # Isr => Cpu = current /\ current \in Thread /\ stack[Isr] = << >>
    BY <1>1, <1>2, CpuFacts
  <1>4. /\ Head(stack[Cpu]) \in Frame /\ Head(stack[Cpu]) \in ToSet(stack[Cpu])
        /\ Tail(stack[Cpu]) \in Seq(Frame)
        /\ ToSet(stack[Cpu]) = ToSet(Tail(stack[Cpu])) \cup {Head(stack[Cpu])}
    BY <1>2, <1>3, Popped
  <1>5. Cpu = Isr => (current # NULL => state[current] = "RUNNING")
    BY <1>1, <1>3 DEF Leaving
  <1>6. ASSUME fn # "UpdatePriority" PROVE Calm /\ \A u \in Thread : ~Cancelling(u)
    <2>1. ASSUME current # NULL, NEW f \in ToSet(stack[current]), f.fn = "CancelTail"
          PROVE  FALSE
      <3>1. current \in Thread /\ stack[current] # << >>
        <4>1. current \in Thread
          BY <1>1, <2>1 DEF Stacked
        <4>2. ToSet(<< >>) = {}
          BY Stacks DEF ToSet
        <4>3. QED BY <2>1, <4>1, <4>2
      <3>2. Cpu = current
        BY <1>3, <2>1, <3>1
      <3>3. Head(stack[current]).fn \in {"CancelTail", "UpdatePriority"}
        BY <1>1, <1>4, <2>1, <3>1, <3>2 DEF StackInv, Cancels
      <3>4. QED BY <1>2, <1>6, <3>2, <3>3 DEF Inner
    <2>2. QED BY <1>1, <2>1, CalmNow
  <1>7. Arg = Head(stack[Cpu]).arg
    BY DEF Arg
  <1>8. QED BY <1>1, <1>2, <1>3, <1>4, <1>5, <1>6, <1>7

(* The head of a wait queue becomes READY.                                 *)
LEMMA HeadWoken ==
    ASSUME TypeOK, PrioOK, Placed, WaitersSorted, RunningOne, ActiveList,
           \A u \in Thread : ~Cancelling(u) /\ ~Cancelling(u)',
           NEW q \in WaitQueue, waiters[q] # << >>, WakeHead(q),
           suspend' = suspend, priority' = priority, active' = active, current' = current
    PROVE  /\ Placed' /\ PrioOK' /\ WaitersSorted' /\ RunningOne' /\ ActiveList'
           /\ state' \in [Thread -> {"READY", "RUNNING", "SLEEPING", "MORIBUND", "EXITED"}]
           /\ queue' \in [Thread -> WaitQueue \cup Priority \cup {NULL}]
           /\ waiters' \in [WaitQueue -> Seq(Thread)]
           /\ runQueue' \in [Priority -> Seq(Thread)] /\ runBits' \subseteq Priority
           /\ hint' \in BOOLEAN /\ (hint => hint')
           /\ \A r \in WaitQueue : waiters'[r] # << >> => waiters[r] # << >>
           /\ \A u \in Thread : state[u] = "RUNNING" => state'[u] = "RUNNING"
  <1> DEFINE l == waiters[q]
             w == Tail(l)
  <1>1. l \in Seq(Thread) /\ l # << >> /\ IsInjective(l) /\ Ordered(l, priority)
        /\ waiters \in [WaitQueue -> Seq(Thread)]
    BY StateTypes DEF Placed, Linked, WaitersSorted, Ordered, TypeOK
  <1> HIDE DEF l
  <1>2. /\ Head(l) \in ToSet(l) /\ Head(l) \in Thread /\ w \in Seq(Thread)
        /\ ToSet(l) = ToSet(w) \cup {Head(l)} /\ IsInjective(w) /\ Head(l) \notin ToSet(w)
        /\ Ordered(w, priority)
    BY <1>1, TailSet, OrderedTail
  <1>3. PICK t \in Thread : t = Head(waiters[q])
    BY <1>2 DEF l
  <1>4. /\ waiters' = [waiters EXCEPT ![q] = w] /\ state' = [state EXCEPT ![t] = "READY"]
        /\ IF suspend[t] <= 0
           THEN SetRun(t, priority[t])
           ELSE UNCHANGED <<runQueue, queue, runBits, hint>>
    BY <1>3 DEF WakeHead, l
  <1> HIDE DEF w
  <1>5. /\ Place[t] = q /\ t = Head(l) /\ ToSet(w) = ToSet(waiters[q]) \ {t}
        /\ Linked(Place, runQueue, runBits, waiters) /\ Fields
    BY <1>2, <1>3 DEF Placed, Linked, l
  <1>6. state[t] = "SLEEPING"
    <2>1. Where(t) = q
      BY <1>5 DEF Place
    <2>2. ~(state[t] = "READY" /\ suspend[t] = 0)
      BY <2>1, Constants DEF Where, PrioOK, Dead
    <2>3. QED BY <2>1, <2>2, Constants DEF Where
  <1>7. Place \in [Thread -> Priority \cup WaitQueue \cup {NULL}]
    BY <1>5, PlaceType
  <1> DEFINE pl == [Place EXCEPT ![t] = NULL]
  <1>8. pl \in [Thread -> Priority \cup WaitQueue \cup {NULL}] /\ pl[t] = NULL
    BY <1>7
  <1>9. Linked(pl, runQueue, runBits, waiters')
    BY <1>2, <1>4, <1>5, <1>7, UnlinkWait
  <1>10. /\ waiters' \in [WaitQueue -> Seq(Thread)] /\ waiters'[q] = w
         /\ \A r \in WaitQueue \ {q} : waiters'[r] = waiters[r]
    BY <1>1, <1>2, <1>4
  <1>11. /\ state' \in [Thread -> {"READY", "RUNNING", "SLEEPING", "MORIBUND", "EXITED"}]
         /\ state'[t] = "READY" /\ \A u \in Thread \ {t} : state'[u] = state[u]
    BY <1>4 DEF TypeOK
  <1>12. PrioOK' /\ RunningOne' /\ ActiveList'
    BY <1>6, <1>11 DEF PrioOK, Dead, RunningOne, ActiveList
  <1>13. WaitersSorted'
    <2> SUFFICES ASSUME NEW r \in WaitQueue PROVE Ordered(waiters'[r], priority)
      BY DEF WaitersSorted, Ordered
    <2>1. CASE r = q
      BY <1>2, <1>10, <2>1
    <2>2. CASE r # q
      BY <1>10, <2>2 DEF WaitersSorted, Ordered
    <2>3. QED BY <2>1, <2>2
  <1>14. \A r \in WaitQueue : waiters'[r] # << >> => waiters[r] # << >>
    BY <1>10
  <1>15. \A u \in Thread : state[u] = "RUNNING" => state'[u] = "RUNNING"
    BY <1>6, <1>11
  <1>16. suspend[t] \in Nat /\ queue \in [Thread -> WaitQueue \cup Priority \cup {NULL}]
         /\ hint \in BOOLEAN
    BY StateTypes DEF TypeOK
  <1>17. CASE suspend[t] = 0
    <2>1. PICK p \in Priority : p = priority[t]
      BY <1>6, <1>17 DEF PrioOK, Dead
    <2>2. /\ runQueue' = [runQueue EXCEPT ![p] = Append(@, t)] /\ queue' = [queue EXCEPT ![t] = p]
          /\ runBits' = runBits \cup {p} /\ hint' = TRUE
      BY <1>4, <1>17, <2>1 DEF SetRun
    <2>3. Linked([pl EXCEPT ![t] = p], runQueue', runBits', waiters')
      <3> HIDE DEF pl
      <3>1. QED BY <1>8, <1>9, <2>2, LinkRun
    <2>4. [pl EXCEPT ![t] = p] = [Place EXCEPT ![t] = p]
      BY <1>7
    <2>5. /\ queue' \in [Thread -> WaitQueue \cup Priority \cup {NULL}] /\ queue'[t] = p
          /\ \A u \in Thread \ {t} : queue'[u] = queue[u]
      BY <1>16, <2>2
    <2>6. Place' = [Place EXCEPT ![t] = p] /\ Fields'
      <3>1. \A u \in Thread \ {t} : /\ Cancelling(u)' <=> Cancelling(u)
                                    /\ state'[u] = state[u] /\ suspend'[u] = suspend[u]
                                    /\ priority'[u] = priority[u] /\ queue'[u] = queue[u]
        BY <1>11, <2>5
      <3>2. p = Where(t)' /\ ~Cancelling(t)' /\ state'[t] = "READY" /\ queue'[t] = priority'[t]
        BY <1>11, <1>17, <2>1, <2>5 DEF Where
      <3>3. QED BY <1>5, <3>1, <3>2, PlaceStep
    <2>7. Placed'
      BY <2>3, <2>4, <2>6 DEF Placed
    <2>8. runQueue' \in [Priority -> Seq(Thread)] /\ runBits' \subseteq Priority
      BY <2>3 DEF Linked
    <2>9. QED BY <1>10, <1>11, <1>12, <1>13, <1>14, <1>15, <2>2, <2>5, <2>7, <2>8
  <1>18. CASE suspend[t] # 0
    <2>1. UNCHANGED <<runQueue, queue, runBits, hint>>
      BY <1>4, <1>16, <1>18
    <2>2. Place' = pl /\ Fields'
      <3>1. \A u \in Thread \ {t} : /\ Cancelling(u)' <=> Cancelling(u)
                                    /\ state'[u] = state[u] /\ suspend'[u] = suspend[u]
                                    /\ priority'[u] = priority[u] /\ queue'[u] = queue[u]
        BY <1>11, <2>1
      <3>2. state'[t] = "READY" /\ suspend'[t] # 0
        BY <1>11, <1>18
      <3>3. QED BY <1>5, <3>1, <3>2, PlaceNone
    <2>3. Placed'
      BY <1>9, <2>1, <2>2 DEF Placed
    <2>4. queue' \in [Thread -> WaitQueue \cup Priority \cup {NULL}] /\ hint' = hint
          /\ runQueue' \in [Priority -> Seq(Thread)] /\ runBits' \subseteq Priority
      BY <1>16, <2>1 DEF TypeOK
    <2>5. QED BY <1>10, <1>11, <1>12, <1>13, <1>14, <1>15, <1>16, <2>3, <2>4
  <1>19. QED BY <1>17, <1>18

(* What is below a frame that calls or goes on stays the way it was.       *)
LEMMA Replaced ==
    ASSUME NEW s \in Seq(Frame), s # << >>, NEW f \in Frame, f.fn \in Inner, Head(s).fn \in Inner
    PROVE  LET n == <<f>> \o Tail(s) IN
           /\ n \in Seq(Frame) /\ n # << >> /\ Head(n) = f
           /\ ToSet(n) = ToSet(Tail(s)) \cup {f}
           /\ Good(s) => Good(n)
           /\ \A g \in ToSet(s) : g \in ToSet(n) \/ g = Head(s)
           /\ Last(n) = IF Tail(s) = << >> THEN f ELSE Last(s)
           /\ Tail(s) = << >> => Last(s) = Head(s)
  <1> DEFINE u == Tail(s)
             n == <<f>> \o u
  <1>1. /\ u \in Seq(Frame) /\ ToSet(s) = ToSet(u) \cup {Head(s)} /\ (Good(s) => Good(u))
        /\ u # << >> => Last(u) = Last(s)
        /\ u = << >> => Last(s) = Head(s)
    BY Popped
  <1> HIDE DEF u
  <1>2. /\ n \in Seq(Frame) /\ n # << >> /\ Head(n) = f /\ ToSet(n) = ToSet(u) \cup {f}
        /\ Good(u) => Good(n)
        /\ Last(n) = IF u = << >> THEN f ELSE Last(u)
    BY <1>1, Pushed
  <1> HIDE DEF n
  <1>3. QED BY <1>1, <1>2 DEF n, u

LEMMA WakeLoop == ASSUME KInv, WakeupTurn PROVE KInv'
  <1>1. /\ Running("OSWakeupThread")
        /\ UNCHANGED <<detached, base, priority, suspend, mutex, active, mutexVars, current>>
        /\ \/ WakeupDone(Arg) /\ Become(<<Reschedule>>) /\ UNCHANGED <<state, queue, queueVars>>
           \/ ~WakeupDone(Arg) /\ WakeHead(Arg) /\ UNCHANGED stack
    BY DEF WakeupTurn
  <1> DEFINE s == stack[Cpu]
  <1>2. /\ Stacked /\ StackInv /\ Cpu # NULL /\ s \in Seq(Frame) /\ s # << >>
        /\ Head(s) \in Frame /\ Head(s).fn = "OSWakeupThread" /\ Arg = Head(s).arg
        /\ Head(s) \in ToSet(s) /\ ToSet(s) = ToSet(Tail(s)) \cup {Head(s)}
        /\ Cpu = Isr => (current # NULL => state[current] = "RUNNING")
        /\ Cpu # Isr => Cpu = current /\ current \in Thread /\ stack[Isr] = << >>
        /\ Calm /\ \A u \in Thread : ~Cancelling(u)
    BY <1>1, InnerFacts DEF Inner
  <1>3. PICK q \in WaitQueue : q = Arg
    BY <1>2, FrameFacts
  <1>4. CASE WakeupDone(Arg) /\ Become(<<Reschedule>>) /\ UNCHANGED <<state, queue, queueVars>>
    <2> DEFINE r == Reschedule
               n == <<r>> \o Tail(s)
    <2>1. r \in Frame /\ r.fn = "__OSReschedule"
      BY FrameIntro
    <2>2. stack' = [stack EXCEPT ![Cpu] = n]
      BY <1>4 DEF Become
    <2> HIDE DEF r
    <2>3. /\ n \in Seq(Frame) /\ n # << >> /\ Head(n) = r /\ ToSet(n) = ToSet(Tail(s)) \cup {r}
          /\ (Good(s) => Good(n)) /\ (\A g \in ToSet(s) : g \in ToSet(n) \/ g = Head(s))
          /\ Last(n) = (IF Tail(s) = << >> THEN r ELSE Last(s))
          /\ (Tail(s) = << >> => Last(s) = Head(s))
      <3> HIDE DEF s
      <3>1. QED BY <1>2, <2>1, Replaced DEF Inner
    <2> HIDE DEF n
    <2>4. Turns(s, n)
      BY <1>2, <2>1, <2>3 DEF Turns
    <2>5. /\ owner' = owner /\ lock' = lock /\ hint' = hint /\ state' = state /\ queue' = queue
          /\ current' = current /\ waiters' = waiters
          /\ UNCHANGED <<threadVars, queueVars, mutexVars, current>>
      BY <1>1, <1>4 DEF mutexVars, queueVars, threadVars
    <2>6. /\ StackInv' /\ Stacked' /\ stack'[Cpu] = n
          /\ \A d \in Context \ {Cpu} : stack'[d] = stack[d]
          /\ \A t \in Thread : Cancelling(t)' <=> Cancelling(t)
      <3>1. Head(stack[Cpu]).fn # "CancelTail"
        BY <1>2
      <3>2. QED BY <1>2, <2>2, <2>3, <2>4, <2>5, <3>1, TurnStep
    <2>7. Leaving'
      <3> SUFFICES ASSUME current # NULL, state[current] # "RUNNING"
                   PROVE  stack'[Isr] = << >> /\ Departs(stack'[current], hint)
        BY <2>5 DEF Leaving
      <3>1. Cpu = current /\ stack[Isr] = << >> /\ Departs(s, hint) /\ current # Isr
        BY <1>2, Constants DEF KInv, Leaving
      <3>2. stack'[Isr] = << >> /\ stack'[current] = n
        BY <2>6, <3>1 DEF Context
      <3>3. /\ \A f \in ToSet(s) : f.fn \in Teardown
            /\ Last(s).fn = "ExitHint" \/ (Last(s).fn = "__OSReschedule" /\ hint)
        BY <1>2, <3>1 DEF Departs
      <3>4. Tail(s) # << >>
        BY <1>2, <2>3, <3>3
      <3>5. Departs(n, hint)
        BY <1>2, <2>1, <2>3, <3>3, <3>4 DEF Departs, Teardown
      <3>6. QED BY <3>2, <3>5
    <2>8. WakeOwed'
      <3>1. waiters[q] = << >>
        BY <1>3, <1>4 DEF WakeupDone
      <3>2. \A m \in Mutex : waiters[m] # << >> => owner[m] # NULL
        BY <1>3, <3>1 DEF KInv, WakeOwed
      <3>3. QED BY <2>5, <3>2 DEF WakeOwed
    <2>9. QED BY <2>5, <2>6, <2>7, <2>8, OnlyStacks
  <1>5. CASE ~WakeupDone(Arg) /\ WakeHead(Arg) /\ UNCHANGED stack
    <2>1. /\ owner' = owner /\ lock' = lock /\ held' = held /\ current' = current /\ stack' = stack
          /\ priority' = priority /\ suspend' = suspend /\ active' = active
      BY <1>1, <1>5 DEF mutexVars
    <2>2. Stacked' /\ Calm'
      BY <1>2, <2>1 DEF Stacked, Calm
    <2>3. \A u \in Thread : ~Cancelling(u)'
      BY <2>2, CalmNext
    <2>4. StackInv'
      <3>1. Frames' /\ Locks'
        BY <1>2, <2>1 DEF StackInv, Frames, Locks
      <3>2. Cancels'
        BY <2>2 DEF Cancels, Calm, Context
      <3>3. QED BY <3>1, <3>2 DEF StackInv
    <2>5. /\ Placed' /\ PrioOK' /\ WaitersSorted' /\ RunningOne' /\ ActiveList'
          /\ state' \in [Thread -> {"READY", "RUNNING", "SLEEPING", "MORIBUND", "EXITED"}]
          /\ queue' \in [Thread -> WaitQueue \cup Priority \cup {NULL}]
          /\ waiters' \in [WaitQueue -> Seq(Thread)]
          /\ runQueue' \in [Priority -> Seq(Thread)] /\ runBits' \subseteq Priority
          /\ hint' \in BOOLEAN /\ (hint => hint')
          /\ \A r \in WaitQueue : waiters'[r] # << >> => waiters[r] # << >>
          /\ \A u \in Thread : state[u] = "RUNNING" => state'[u] = "RUNNING"
      <3>1. waiters[q] # << >> /\ WakeHead(q)
        BY <1>3, <1>5 DEF WakeupDone
      <3>2. TypeOK /\ PrioOK /\ Placed /\ WaitersSorted /\ RunningOne /\ ActiveList
        BY DEF KInv
      <3>3. QED BY <1>2, <2>1, <2>3, <3>1, <3>2, HeadWoken
    <2>6. Leaving'
      <3> SUFFICES ASSUME current # NULL, state'[current] # "RUNNING"
                   PROVE  stack[Isr] = << >> /\ Departs(stack[current], hint')
        BY <2>1 DEF Leaving
      <3>1. state[current] # "RUNNING"
        BY <1>2, <2>5 DEF Stacked
      <3>2. stack[Isr] = << >> /\ Departs(stack[current], hint)
        BY <3>1 DEF KInv, Leaving
      <3>3. QED BY <2>5, <3>2 DEF Departs
    <2>7. WakeOwed'
      <3>1. \A m \in Mutex : waiters'[m] # << >> /\ owner[m] = NULL => m = Arg
        BY <2>5, Constants DEF KInv, WakeOwed
      <3>2. Cpu' = Cpu /\ Arg' = Arg /\ (Running("OSWakeupThread") => Running("OSWakeupThread")')
        BY <2>1 DEF Cpu, Arg, Running
      <3>3. QED BY <1>1, <2>1, <3>1, <3>2 DEF WakeOwed
    <2>8. MutexConsistent' /\ TypeOK'
      BY <1>1, <2>1, <2>2, <2>5 DEF KInv, MutexConsistent, TypeOK, Stacked
    <2>9. QED BY <2>4, <2>5, <2>6, <2>7, <2>8 DEF KInv
  <1>6. QED BY <1>1, <1>4, <1>5

LEMMA UnlockAllLoop == ASSUME KInv, UnlockAllTurn PROVE KInv'
  <1>1. /\ Running("__OSUnlockAllMutex") /\ UNCHANGED <<threadVars, queueVars, current>>
        /\ \/ held[Arg] = << >> /\ Return /\ UNCHANGED mutexVars
           \/ /\ held[Arg] # << >> /\ ReleaseHead(Arg)
              /\ stack' = [stack EXCEPT ![Cpu] = <<F("OSWakeupThread", Head(held[Arg]))>> \o @]
    BY DEF UnlockAllTurn
  <1> DEFINE s == stack[Cpu]
  <1>2. /\ Stacked /\ StackInv /\ Cpu # NULL /\ s \in Seq(Frame) /\ s # << >>
        /\ Head(s) \in Frame /\ Head(s).fn = "__OSUnlockAllMutex" /\ Arg = Head(s).arg
        /\ Head(s) \in ToSet(s)
        /\ Calm /\ \A u \in Thread : ~Cancelling(u)
        /\ current \in Thread /\ Cpu = current /\ stack[Isr] = << >>
    <2>1. /\ Stacked /\ StackInv /\ Cpu # NULL /\ s \in Seq(Frame) /\ s # << >>
          /\ Head(s) \in Frame /\ Head(s).fn = "__OSUnlockAllMutex" /\ Arg = Head(s).arg
          /\ Head(s) \in ToSet(s)
          /\ Cpu # Isr => Cpu = current /\ current \in Thread /\ stack[Isr] = << >>
          /\ Calm /\ \A u \in Thread : ~Cancelling(u)
      BY <1>1, InnerFacts DEF Inner
    <2>2. Cpu # Isr
      BY <2>1 DEF StackInv, Frames, IsrFrames
    <2>3. QED BY <2>1, <2>2
  <1>3. PICK t \in Thread : t = Arg
    BY <1>2, FrameFacts
  <1>4. \A m \in Mutex : waiters[m] # << >> => owner[m] # NULL
    <2>1. ~Running("OSWakeupThread")
      BY <1>2 DEF Running
    <2>2. QED BY <2>1 DEF KInv, WakeOwed
  <1>5. /\ state' = state /\ queue' = queue /\ waiters' = waiters /\ hint' = hint
        /\ current' = current /\ mutex' = mutex
    BY <1>1 DEF threadVars, queueVars
  <1>6. current # Isr /\ current # NULL /\ current \in Context
    BY <1>2, Constants DEF Context
  <1>7. ASSUME state[current] # "RUNNING"
        PROVE  /\ \A f \in ToSet(s) : f.fn \in Teardown
               /\ Last(s).fn = "ExitHint" \/ (Last(s).fn = "__OSReschedule" /\ hint)
    BY <1>2, <1>6, <1>7 DEF KInv, Leaving, Departs
  <1>8. CASE held[Arg] = << >> /\ Return /\ UNCHANGED mutexVars
    <2> DEFINE n == Tail(s)
    <2>1. stack' = [stack EXCEPT ![Cpu] = n]
      BY <1>8 DEF Return
    <2>2. /\ n \in Seq(Frame) /\ ToSet(s) = ToSet(n) \cup {Head(s)} /\ (Good(s) => Good(n))
          /\ (n # << >> => Last(n) = Last(s)) /\ (n = << >> => Last(s) = Head(s))
      <3> HIDE DEF s
      <3>1. QED BY <1>2, Popped
    <2> HIDE DEF n
    <2>3. Turns(s, n) /\ \A g \in ToSet(s) : g \in ToSet(n) \/ g = Head(s)
      BY <2>2 DEF Turns
    <2>4. owner' = owner /\ lock' = lock
      BY <1>8 DEF mutexVars
    <2>5. /\ StackInv' /\ Stacked' /\ stack'[Cpu] = n
          /\ \A d \in Context \ {Cpu} : stack'[d] = stack[d]
          /\ \A u \in Thread : Cancelling(u)' <=> Cancelling(u)
      <3>1. Head(stack[Cpu]).fn # "CancelTail"
        BY <1>2
      <3>2. QED BY <1>2, <1>5, <2>1, <2>2, <2>3, <2>4, <3>1, TurnStep
    <2>6. Leaving'
      <3> SUFFICES ASSUME state[current] # "RUNNING"
                   PROVE  stack'[Isr] = << >> /\ Departs(n, hint)
        BY <1>2, <1>5, <2>5 DEF Leaving
      <3>1. stack'[Isr] = << >>
        BY <1>2, <1>6, <2>5, Constants DEF Context
      <3>2. n # << >>
        BY <1>2, <1>7, <2>2
      <3>3. QED BY <1>7, <2>2, <3>1, <3>2 DEF Departs
    <2>7. WakeOwed'
      BY <1>4, <1>5, <2>4 DEF WakeOwed
    <2>8. QED BY <1>1, <1>8, <2>5, <2>6, <2>7, OnlyStacks
  <1>9. CASE /\ held[Arg] # << >> /\ ReleaseHead(Arg)
             /\ stack' = [stack EXCEPT ![Cpu] = <<F("OSWakeupThread", Head(held[Arg]))>> \o @]
    <2> DEFINE l == held[t]
    <2>1. l \in Seq(Mutex) /\ IsInjective(l) /\ l # << >>
      BY <1>3, <1>9, StateTypes DEF KInv, MutexConsistent
    <2> HIDE DEF l
    <2>2. /\ Head(l) \in Mutex /\ Head(l) \in ToSet(l) /\ Tail(l) \in Seq(Mutex)
          /\ IsInjective(Tail(l)) /\ ToSet(Tail(l)) = ToSet(l) \ {Head(l)}
      BY <2>1, TailSet
    <2>3. PICK m \in Mutex : m = Head(l)
      BY <2>2
    <2> DEFINE r == Tail(l)
    <2>4. r \in Seq(Mutex) /\ IsInjective(r) /\ ToSet(r) = ToSet(held[t]) \ {m} /\ owner[m] = t
      BY <2>2, <2>3 DEF KInv, MutexConsistent, l
    <2>5. /\ held' = [held EXCEPT ![t] = r] /\ lock' = [lock EXCEPT ![m] = 0]
          /\ owner' = [owner EXCEPT ![m] = NULL]
      BY <1>3, <1>9, <2>3 DEF ReleaseHead, l
    <2> HIDE DEF r
    <2>6. /\ held' \in [Thread -> Seq(Mutex)] /\ owner' \in [Mutex -> Thread \cup {NULL}]
          /\ lock' \in [Mutex -> 0 .. MaxLock] /\ MutexConsistent'
          /\ owner'[m] = NULL /\ \A k \in Mutex \ {m} : owner'[k] = owner[k] /\ lock'[k] = lock[k]
      BY <2>4, <2>5, Released DEF KInv
    <2> DEFINE f == F("OSWakeupThread", m)
               n == <<f>> \o s
    <2>7. f \in Frame /\ f.fn = "OSWakeupThread" /\ f.arg = m
      BY FrameIntro, Constants
    <2>8. stack' = [stack EXCEPT ![Cpu] = n]
      BY <1>3, <1>9, <2>3 DEF l
    <2> HIDE DEF f
    <2>9. /\ n \in Seq(Frame) /\ n # << >> /\ Head(n) = f /\ ToSet(n) = ToSet(s) \cup {f}
          /\ (Good(s) => Good(n)) /\ Last(n) = Last(s)
      <3>1. s \in Seq(Frame) /\ s # << >> /\ f.fn \in Inner
        BY <1>2, <2>7 DEF Inner
      <3> HIDE DEF s
      <3>2. QED BY <2>7, <3>1, Pushed
    <2> HIDE DEF n
    <2>10. Turns(s, n) /\ \A g \in ToSet(s) : g \in ToSet(n) \/ g = Head(s)
      BY <1>2, <2>7, <2>9 DEF Turns
    <2>11. /\ StackInv' /\ Stacked' /\ stack'[Cpu] = n
           /\ \A d \in Context \ {Cpu} : stack'[d] = stack[d]
           /\ \A u \in Thread : Cancelling(u)' <=> Cancelling(u)
      <3>1. Head(stack[Cpu]).fn # "CancelTail"
        BY <1>2
      <3>2. \A k \in Mutex : \/ owner'[k] = owner[k] /\ lock'[k] = lock[k]
                             \/ owner'[k] = NULL /\ Head(stack[Cpu]).fn = "__OSUnlockAllMutex"
        BY <1>2, <2>6
      <3>3. QED BY <1>2, <1>5, <2>8, <2>9, <2>10, <3>1, <3>2, TurnStep
    <2>12. stack'[Isr] = << >> /\ stack'[current] = n
      BY <1>2, <1>6, <2>11, Constants DEF Context
    <2>13. Leaving'
      <3> SUFFICES ASSUME state[current] # "RUNNING"
                   PROVE  Departs(n, hint)
        BY <1>5, <2>12 DEF Leaving
      <3>1. QED BY <1>7, <2>7, <2>9 DEF Departs, Teardown
    <2>14. WakeOwed'
      <3>1. Running("OSWakeupThread")' /\ Arg' = m
        <4>1. Cpu' = current
          BY <1>5, <2>12 DEF Cpu
        <4>2. QED BY <1>5, <1>6, <2>7, <2>9, <2>12, <4>1 DEF Running, Arg
      <3>2. QED BY <1>4, <1>5, <2>6, <3>1 DEF WakeOwed
    <2>15. mutex' \in [Thread -> Mutex \cup {NULL}]
           /\ UNCHANGED <<state, detached, base, priority, suspend, queue, active, queueVars, current>>
      BY <1>1, <1>5 DEF KInv, TypeOK, threadVars
    <2>16. QED BY <2>6, <2>11, <2>13, <2>14, <2>15, OnlyMutexes
  <1>10. QED BY <1>1, <1>8, <1>9

-----------------------------------------------------------------------------
(***************************************************************************)
(* Priority inheritance.  A thread that is being cancelled is no longer    *)
(* linked, and its priority cannot be set.                                 *)
(***************************************************************************)
LEMMA EffectiveSet ==
    ASSUME TypeOK, NEW t \in Thread, NEW p \in Priority, SetEffectivePriority(t, p),
           Cancelling(t) => state[t] = "SLEEPING" /\ queue[t] = NULL
    PROVE  /\ hint => hint'
           /\ \A u \in Thread : Cancelling(u) => queue'[u] = queue[u]
  BY DEF SetEffectivePriority, TypeOK

LEMMA EffectiveMoves ==
    ASSUME TypeOK, PrioOK, Placed, WaitersSorted, NEW t \in Thread, NEW p \in Priority,
           SetEffectivePriority(t, p), suspend[t] = 0,
           Cancelling(t) => state[t] = "SLEEPING" /\ queue[t] = NULL,
           \A u \in Thread : Cancelling(u)' <=> Cancelling(u),
           state' = state, suspend' = suspend
    PROVE  /\ Placed' /\ PrioOK' /\ WaitersSorted'
           /\ priority' \in [Thread -> 0 .. OS_PRIORITY_MAX + 1]
           /\ queue' \in [Thread -> WaitQueue \cup Priority \cup {NULL}]
           /\ waiters' \in [WaitQueue -> Seq(Thread)]
           /\ runQueue' \in [Priority -> Seq(Thread)] /\ runBits' \subseteq Priority
           /\ hint' \in BOOLEAN
           /\ \A q \in WaitQueue : waiters'[q] = << >> <=> waiters[q] = << >>
  <1>1. /\ queue \in [Thread -> WaitQueue \cup Priority \cup {NULL}] /\ hint \in BOOLEAN
        /\ waiters \in [WaitQueue -> Seq(Thread)] /\ runQueue \in [Priority -> Seq(Thread)]
        /\ runBits \subseteq Priority /\ priority \in [Thread -> 0 .. OS_PRIORITY_MAX + 1]
    BY DEF TypeOK
  <1>2. CASE /\ state[t] = "READY"
             /\ runQueue' = [Unlinked(t) EXCEPT ![p] = Append(@, t)]
             /\ queue' = [queue EXCEPT ![t] = p]
             /\ runBits' = BitsWithout(t) \cup {p}
             /\ hint' = TRUE
             /\ priority' = [priority EXCEPT ![t] = p]
             /\ UNCHANGED waiters
    <2> DEFINE pl == [Place EXCEPT ![t] = NULL]
               ul == Unlinked(t)
               bw == BitsWithout(t)
    <2>1. ~Cancelling(t)
      BY <1>2
    <2>2. Place[t] = priority[t] /\ priority[t] \in Priority /\ Linked(pl, ul, bw, waiters)
      BY <1>2, <2>1, UnsetLinked
    <2>3. Place \in [Thread -> Priority \cup WaitQueue \cup {NULL}]
      BY PlaceType DEF Placed
    <2>4. pl \in [Thread -> Priority \cup WaitQueue \cup {NULL}] /\ pl[t] = NULL
          /\ [pl EXCEPT ![t] = p] = [Place EXCEPT ![t] = p]
      BY <2>3
    <2>5. runQueue' = [ul EXCEPT ![p] = Append(@, t)] /\ runBits' = bw \cup {p}
      BY <1>2
    <2> HIDE DEF pl, ul, bw
    <2>6. Linked([pl EXCEPT ![t] = p], [ul EXCEPT ![p] = Append(@, t)], bw \cup {p}, waiters)
      BY <2>2, <2>4, LinkRun
    <2>7. Linked([Place EXCEPT ![t] = p], runQueue', runBits', waiters)
      BY <2>4, <2>5, <2>6
    <2>8. Place[t] \notin WaitQueue
      BY <2>2, Constants
    <2>9. QED BY <1>1, <1>2, <2>1, <2>7, <2>8, Requeued
  <1>3. CASE /\ state[t] = "SLEEPING" /\ queue[t] # NULL
             /\ priority' = [priority EXCEPT ![t] = p]
             /\ waiters' = [waiters EXCEPT ![queue[t]] = InsertByPriority(Without(@, t), t, priority')]
             /\ UNCHANGED <<runQueue, queue, runBits, hint>>
    <2>1. ~Cancelling(t)
      BY <1>3
    <2>2. waiters' = [waiters EXCEPT ![queue[t]] =
                         InsertByPriority(Without(waiters[queue[t]], t), t, priority')]
      BY <1>3
    <2>3. QED BY <1>1, <1>3, <2>1, <2>2, Reranked
  <1>4. CASE /\ state[t] = "RUNNING" /\ hint' = TRUE
             /\ priority' = [priority EXCEPT ![t] = p]
             /\ UNCHANGED <<waiters, runQueue, queue, runBits>>
    BY <1>1, <1>4, RunnerPriority
  <1>5. CASE /\ state[t] \in {"MORIBUND", "EXITED"}
             /\ UNCHANGED <<waiters, runQueue, queue, runBits, hint, priority>>
    BY <1>1, <1>5, NoMove
  <1>6. QED BY <1>2, <1>3, <1>4, <1>5 DEF SetEffectivePriority

(* The frame of a priority loop goes on with the next owner, or returns.   *)
LEMMA PriorityFrames ==
    ASSUME KInv, NEW fn \in {"UpdatePriority", "__OSPromoteThread"}, Running(fn), NEW n,
           \/ n = Tail(stack[Cpu])
           \/ \E f \in Frame : f.fn = fn /\ f.prio \in Priority /\ n = <<f>> \o Tail(stack[Cpu]),
           stack' = [stack EXCEPT ![Cpu] = n], current' = current, owner' = owner, lock' = lock,
           hint => hint', state' = state,
           \A u \in Thread : Cancelling(u) => queue'[u] = queue[u]
    PROVE  /\ StackInv' /\ Stacked' /\ Leaving'
           /\ \A u \in Thread : Cancelling(u)' <=> Cancelling(u)
           /\ \A m \in Mutex : waiters[m] # << >> => owner[m] # NULL
  <1> DEFINE s == stack[Cpu]
  <1>1. /\ Stacked /\ StackInv /\ Cpu # NULL /\ s \in Seq(Frame) /\ s # << >>
        /\ Head(s).fn = fn /\ fn \in Inner
        /\ Cpu = Isr => (current # NULL => state[current] = "RUNNING")
        /\ Cpu # Isr => Cpu = current
    BY InnerFacts DEF Inner
  <1>2. n \in Seq(Frame) /\ Turns(s, n) /\ (Good(s) => Good(n))
        /\ \A g \in ToSet(s) : g \in ToSet(n) \/ g = Head(s)
    <2>1. CASE n = Tail(s)
      <3>1. n \in Seq(Frame) /\ ToSet(s) = ToSet(n) \cup {Head(s)} /\ (Good(s) => Good(n))
        <4> HIDE DEF s
        <4>1. QED BY <1>1, <2>1, Popped
      <3>2. QED BY <3>1 DEF Turns
    <2>2. ASSUME NEW f \in Frame, f.fn = fn, f.prio \in Priority, n = <<f>> \o Tail(s)
          PROVE  n \in Seq(Frame) /\ Turns(s, n) /\ (Good(s) => Good(n))
                 /\ \A g \in ToSet(s) : g \in ToSet(n) \/ g = Head(s)
      <3>1. /\ n \in Seq(Frame) /\ ToSet(n) = ToSet(Tail(s)) \cup {f} /\ (Good(s) => Good(n))
            /\ \A g \in ToSet(s) : g \in ToSet(n) \/ g = Head(s)
        <4> HIDE DEF s
        <4>1. QED BY <1>1, <2>2, Replaced
      <3>2. ToSet(s) = ToSet(Tail(s)) \cup {Head(s)}
        <4> HIDE DEF s
        <4>1. QED BY <1>1, Popped
      <3>3. QED BY <1>1, <2>2, <3>1, <3>2 DEF Turns
    <2>3. QED BY <2>1, <2>2
  <1>3. StackInv' /\ Stacked' /\ \A u \in Thread : Cancelling(u)' <=> Cancelling(u)
    <2>1. Head(stack[Cpu]).fn # "CancelTail"
      BY <1>1
    <2>2. QED BY <1>1, <1>2, <2>1, TurnStep
  <1>4. current # NULL => state[current] = "RUNNING"
    <2>1. fn \notin Teardown
      BY DEF Teardown
    <2>2. Head(s) \in ToSet(s)
      <3> HIDE DEF s
      <3>1. QED BY <1>1, Popped
    <2>3. QED BY <1>1, <2>1, <2>2 DEF KInv, Leaving, Departs, Teardown
  <1>5. ~Running("OSWakeupThread")
    BY <1>1 DEF Running
  <1>6. QED BY <1>3, <1>4, <1>5 DEF Leaving, KInv, WakeOwed

(* A turn of a priority loop: its frame goes on with the next owner, or    *)
(* returns, and no wait queue becomes empty or stops being so.             *)
PriorityTurn(fn) ==
    /\ \E n \in {Tail(stack[Cpu])} \cup {<<f>> \o Tail(stack[Cpu]) : f \in {g \in Frame : g.fn = fn}} :
          stack' = [stack EXCEPT ![Cpu] = n]
    /\ \A q \in WaitQueue : waiters'[q] = << >> <=> waiters[q] = << >>

(* A thread that OSCancelThread has unlinked has no queue to be moved in.  *)
LEMMA CancelledApart ==
    ASSUME KInv, NEW fn \in {"UpdatePriority", "__OSPromoteThread"}, Running(fn),
           NEW t \in Thread, Cancelling(t)
    PROVE  state[t] = "SLEEPING" /\ queue[t] = NULL
  <1>1. CASE fn = "__OSPromoteThread"
    <2>1. ~Cancelling(t)
      BY <1>1, InnerFacts DEF Inner
    <2>2. QED BY <2>1
  <1>2. CASE fn = "UpdatePriority"
    <2>1. /\ Stacked /\ StackInv /\ Head(stack[Cpu]).fn = fn /\ Head(stack[Cpu]) \in ToSet(stack[Cpu])
          /\ Cpu = Isr => (current # NULL => stack[current] = << >>)
          /\ Cpu # Isr => Cpu = current
      BY InnerFacts DEF Inner
    <2> SUFFICES ASSUME NEW c \in Context, NEW i \in DOMAIN stack[c],
                        stack[c][i].fn = "CancelTail", stack[c][i].arg = t
                 PROVE  state[t] = "SLEEPING" /\ queue[t] = NULL
      BY DEF Cancelling, Pending
    <2>2. PICK f \in ToSet(stack[c]) : f.fn = "CancelTail" /\ f.arg = t
      BY DEF ToSet
    <2>3. c # Isr
      BY <2>1, <2>2 DEF StackInv, Frames, IsrFrames
    <2>4. c \in Thread /\ c = current
      BY <2>1, <2>2, <2>3 DEF StackInv, Cancels, Context
    <2>5. stack[current] # << >>
      <3>1. ToSet(<< >>) = {}
        BY Stacks DEF ToSet
      <3>2. QED BY <2>2, <2>4, <3>1
    <2>6. Cpu = current
      BY <2>1, <2>4, <2>5, Constants
    <2>7. QED BY <1>2, <2>1, <2>2, <2>4, <2>6 DEF StackInv, Cancels
  <1>3. QED BY <1>1, <1>2

(* One turn of either loop, which leaves thread t alone or sets p.         *)
LEMMA PriorityLoop ==
    ASSUME KInv, NEW fn \in {"UpdatePriority", "__OSPromoteThread"}, Running(fn),
           NEW t \in Thread, NEW p \in Priority, NEW n,
           \/ n = Tail(stack[Cpu])
           \/ \E f \in Frame : f.fn = fn /\ f.prio \in Priority /\ n = <<f>> \o Tail(stack[Cpu]),
           stack' = [stack EXCEPT ![Cpu] = n],
           \/ UNCHANGED <<queueVars, priority, queue>>
           \/ suspend[t] = 0 /\ SetEffectivePriority(t, p),
           UNCHANGED <<state, detached, base, suspend, mutex, active, mutexVars, current>>
    PROVE  KInv' /\ PriorityTurn(fn)
  <1>1. /\ owner' = owner /\ lock' = lock /\ held' = held /\ state' = state /\ suspend' = suspend
        /\ current' = current /\ active' = active /\ base' = base /\ mutex' = mutex
        /\ detached' = detached
    BY DEF mutexVars
  <1>2. TypeOK /\ PrioOK /\ Placed /\ WaitersSorted
    BY DEF KInv
  <1>3. Cancelling(t) => state[t] = "SLEEPING" /\ queue[t] = NULL
    BY CancelledApart
  <1>4. (hint => hint') /\ \A u \in Thread : Cancelling(u) => queue'[u] = queue[u]
    <2>1. CASE UNCHANGED <<queueVars, priority, queue>>
      BY <2>1 DEF queueVars
    <2>2. CASE suspend[t] = 0 /\ SetEffectivePriority(t, p)
      BY <1>2, <1>3, <2>2, EffectiveSet
    <2>3. QED BY <2>1, <2>2
  <1>5. /\ StackInv' /\ Stacked' /\ Leaving'
        /\ \A u \in Thread : Cancelling(u)' <=> Cancelling(u)
        /\ \A m \in Mutex : waiters[m] # << >> => owner[m] # NULL
    BY <1>1, <1>4, PriorityFrames
  <1>6. /\ Placed' /\ PrioOK' /\ WaitersSorted'
        /\ priority' \in [Thread -> 0 .. OS_PRIORITY_MAX + 1]
        /\ queue' \in [Thread -> WaitQueue \cup Priority \cup {NULL}]
        /\ waiters' \in [WaitQueue -> Seq(Thread)]
        /\ runQueue' \in [Priority -> Seq(Thread)] /\ runBits' \subseteq Priority
        /\ hint' \in BOOLEAN
        /\ \A q \in WaitQueue : waiters'[q] = << >> <=> waiters[q] = << >>
    <2>1. CASE UNCHANGED <<queueVars, priority, queue>>
      <3>1. Placed' /\ PrioOK' /\ WaitersSorted'
        BY <1>1, <1>2, <1>5, <2>1, NoMove DEF queueVars
      <3>2. QED BY <1>2, <2>1, <3>1 DEF TypeOK, queueVars
    <2>2. CASE suspend[t] = 0 /\ SetEffectivePriority(t, p)
      BY <1>1, <1>2, <1>3, <1>5, <2>2, EffectiveMoves
    <2>3. QED BY <2>1, <2>2
  <1>7. WakeOwed'
    BY <1>1, <1>5, <1>6, Constants DEF WakeOwed
  <1>8. MutexConsistent' /\ RunningOne' /\ ActiveList'
    BY <1>1 DEF KInv, MutexConsistent, RunningOne, ActiveList
  <1>9. TypeOK'
    BY <1>1, <1>2, <1>5, <1>6 DEF TypeOK, Stacked
  <1>10. PriorityTurn(fn)
    BY <1>6 DEF PriorityTurn
  <1>11. QED BY <1>5, <1>6, <1>7, <1>8, <1>9, <1>10 DEF KInv

LEMMA NextType ==
    ASSUME TypeOK, NEW t \in Thread PROVE NextInChain(t) \in Thread \cup {NULL}
  BY DEF TypeOK, NextInChain

LEMMA UpdateLoop ==
    ASSUME KInv, UpdatePriority PROVE KInv' /\ PriorityTurn("UpdatePriority")
  <1>1. TypeOK
    BY DEF KInv
  <1>2. PICK t \in Thread : t = Arg
    BY DEF UpdatePriority
  <1> DEFINE p == EffectivePriority(t, held[t], waiters)
             next == NextInChain(t)
             g == F("UpdatePriority", next)
             keep == Tail(stack[Cpu])
             n == IF (suspend[t] > 0 \/ priority[t] = p) \/ next = NULL THEN keep ELSE <<g>> \o keep
  <1>3. /\ Running("UpdatePriority")
        /\ \/ /\ suspend[t] > 0 \/ priority[t] = p
              /\ Return
              /\ UNCHANGED <<queueVars, priority, queue>>
           \/ /\ ~(suspend[t] > 0 \/ priority[t] = p)
              /\ SetEffectivePriority(t, p)
              /\ IF next = NULL THEN Return ELSE Become(<<g>>)
        /\ UNCHANGED <<state, detached, base, suspend, mutex, active, mutexVars, current>>
    BY <1>2 DEF UpdatePriority
  <1>4. p \in Priority
    <2>1. held[t] \in Seq(Mutex) /\ waiters \in [WaitQueue -> Seq(Thread)]
      BY <1>1 DEF TypeOK
    <2>2. QED BY <1>1, <2>1, EffectiveOK
  <1>5. next \in Thread \cup {NULL}
    BY <1>1, NextType
  <1>6. g \in Frame /\ g.fn = "UpdatePriority" /\ g.prio \in Priority
    BY <1>5, FrameIntro, Constants DEF F
  <1> HIDE DEF p, next, g
  <1>7. stack' = [stack EXCEPT ![Cpu] = n]
    BY <1>3 DEF Return, Become
  <1>8. n = Tail(stack[Cpu])
        \/ \E f \in Frame : /\ f.fn = "UpdatePriority" /\ f.prio \in Priority
                            /\ n = <<f>> \o Tail(stack[Cpu])
    BY <1>6
  <1> HIDE DEF n
  <1>9. UNCHANGED <<queueVars, priority, queue>> \/ (suspend[t] = 0 /\ SetEffectivePriority(t, p))
    <2>1. suspend[t] \in Nat
      BY <1>1, StateTypes
    <2>2. QED BY <1>3, <2>1
  <1>10. QED BY <1>3, <1>4, <1>7, <1>8, <1>9, PriorityLoop

LEMMA PromoteLoop ==
    ASSUME KInv, PromoteThread PROVE KInv' /\ PriorityTurn("__OSPromoteThread")
  <1>1. TypeOK
    BY DEF KInv
  <1>2. PICK t \in Thread : t = Arg
    BY DEF PromoteThread
  <1> DEFINE p == Head(stack[Cpu]).prio
             next == NextInChain(t)
             g == Promote(next, p)
             keep == Tail(stack[Cpu])
             n == IF PromoteEnds(t, p) \/ next = NULL THEN keep ELSE <<g>> \o keep
  <1>3. /\ Running("__OSPromoteThread")
        /\ \/ /\ PromoteEnds(t, p)
              /\ Return
              /\ UNCHANGED <<queueVars, priority, queue>>
           \/ /\ ~PromoteEnds(t, p)
              /\ SetEffectivePriority(t, p)
              /\ IF next = NULL THEN Return ELSE Become(<<g>>)
        /\ UNCHANGED <<state, detached, base, suspend, mutex, active, mutexVars, current>>
    BY <1>2 DEF PromoteThread
  <1>4. p \in Priority
    <2>1. /\ StackInv /\ Cpu \in Context /\ Head(stack[Cpu]) \in ToSet(stack[Cpu])
          /\ Head(stack[Cpu]).fn = "__OSPromoteThread"
      BY <1>3, InnerFacts DEF Inner
    <2>2. Cpu # Isr
      BY <2>1 DEF StackInv, Frames, IsrFrames
    <2>3. QED BY <2>1, <2>2 DEF StackInv, Locks, LockFrame, Context
  <1>5. next \in Thread \cup {NULL}
    BY <1>1, NextType
  <1>6. next # NULL => g \in Frame /\ g.fn = "__OSPromoteThread" /\ g.prio \in Priority
    BY <1>4, <1>5, FrameIntro, Constants DEF Priority
  <1> HIDE DEF p, next, g
  <1>7. stack' = [stack EXCEPT ![Cpu] = n]
    BY <1>3 DEF Return, Become
  <1>8. n = Tail(stack[Cpu])
        \/ \E f \in Frame : /\ f.fn = "__OSPromoteThread" /\ f.prio \in Priority
                            /\ n = <<f>> \o Tail(stack[Cpu])
    BY <1>6
  <1> HIDE DEF n
  <1>9. UNCHANGED <<queueVars, priority, queue>> \/ (suspend[t] = 0 /\ SetEffectivePriority(t, p))
    <2>1. suspend[t] \in Nat
      BY <1>1, StateTypes
    <2>2. QED BY <1>3, <2>1 DEF PromoteEnds
  <1>10. QED BY <1>3, <1>4, <1>7, <1>8, <1>9, PriorityLoop

-----------------------------------------------------------------------------
(***************************************************************************)
(* Switching threads.  st, qu, rq and rb are the states, the queue fields  *)
(* and the run queues that SelectThread leaves before it takes a thread:   *)
(* nobody is RUNNING, and pl is where every thread is linked.              *)
(***************************************************************************)
Left(pl, st, qu) ==
    \A t \in Thread : /\ pl[t] = IF st[t] = "READY" /\ suspend[t] = 0 THEN priority[t]
                                 ELSE IF st[t] = "SLEEPING" THEN qu[t] ELSE NULL
                      /\ st[t] = "READY" /\ suspend[t] = 0 => qu[t] = priority[t]
                      /\ st[t] = "SLEEPING" => qu[t] \in WaitQueue
                      /\ st[t] # "RUNNING"
                      /\ st[t] = state[t] \/ (state[t] = "RUNNING" /\ st[t] = "READY")

Unwound(new) ==
    /\ \A c \in Context : new[c] = stack[c] \/ (stack[c] # << >> /\ new[c] = Tail(stack[c]))
    /\ \A c \in Thread : \A f \in ToSet(new[c]) : f.fn # "LockSleep"
    /\ new[Isr] = << >>

LEMMA Taken ==
    ASSUME TypeOK, PrioOK,
           NEW st \in [Thread -> {"READY", "RUNNING", "SLEEPING", "MORIBUND", "EXITED"}],
           NEW qu \in [Thread -> WaitQueue \cup Priority \cup {NULL}], NEW rq, NEW rb,
           NEW pl \in [Thread -> Priority \cup WaitQueue \cup {NULL}],
           Linked(pl, rq, rb, waiters),
           Left(pl, st, qu),
           \A t \in Thread : ~Cancelling(t)', Dispatch(st, qu, rq, rb),
           priority' = priority, suspend' = suspend, waiters' = waiters
    PROVE  /\ Placed' /\ RunningOne' /\ current' \in Thread \cup {NULL}
           /\ state' \in [Thread -> {"READY", "RUNNING", "SLEEPING", "MORIBUND", "EXITED"}]
           /\ queue' \in [Thread -> WaitQueue \cup Priority \cup {NULL}]
           /\ runQueue' \in [Priority -> Seq(Thread)] /\ runBits' \subseteq Priority
           /\ hint' \in BOOLEAN
           /\ current' # NULL => state'[current'] = "RUNNING"
           /\ \A t \in Thread : \/ state'[t] = state[t]
                                \/ state[t] \in {"READY", "RUNNING"} /\ state'[t] \in {"READY", "RUNNING"}
  <1>0. \A t \in Thread : /\ pl[t] = IF st[t] = "READY" /\ suspend[t] = 0 THEN priority[t]
                                     ELSE IF st[t] = "SLEEPING" THEN qu[t] ELSE NULL
                          /\ st[t] = "READY" /\ suspend[t] = 0 => qu[t] = priority[t]
                          /\ st[t] = "SLEEPING" => qu[t] \in WaitQueue
                          /\ st[t] # "RUNNING"
                          /\ st[t] = state[t] \/ (state[t] = "RUNNING" /\ st[t] = "READY")
    BY DEF Left
  <1>1. \A t \in Thread : Place'[t] = Where(t)'
    BY DEF Place
  <1>2. hint \in BOOLEAN /\ NULL \notin Thread
    BY Constants DEF TypeOK
  <1>3. rq \in [Priority -> Seq(Thread)] /\ rb = {p \in Priority : rq[p] # << >>}
        /\ \A p \in Priority : ToSet(rq[p]) = {t \in Thread : pl[t] = p} /\ IsInjective(rq[p])
    BY DEF Linked
  <1>4. CASE rb = {}
    <2>1. /\ current' = NULL /\ state' = st /\ queue' = qu /\ runQueue' = rq /\ runBits' = rb
          /\ hint' = hint
      BY <1>4 DEF Dispatch
    <2>2. Place' = pl /\ Fields'
      <3>1. \A t \in Thread : Place'[t] = pl[t]
        BY <1>0, <1>1, <2>1 DEF Where
      <3>2. Place' = [t \in Thread |-> Place'[t]]
        BY DEF Place
      <3>3. Place' = pl
        BY <3>1, <3>2
      <3>4. QED BY <1>0, <2>1, <3>3 DEF Fields
    <2>3. Placed'
      BY <2>1, <2>2 DEF Placed
    <2>4. RunningOne'
      BY <1>0, <2>1 DEF RunningOne
    <2>5. QED BY <1>0, <1>2, <1>3, <2>1, <2>3, <2>4
  <1>5. CASE rb # {}
    <2>1. PICK p \in Priority : p = BestOf(rb) /\ p \in rb
      BY <1>3, <1>5, BestOK
    <2> DEFINE l == rq[p]
               w == Tail(l)
    <2>2. l \in Seq(Thread) /\ l # << >> /\ IsInjective(l)
      BY <1>3, <2>1
    <2> HIDE DEF l
    <2>3. /\ Head(l) \in ToSet(l) /\ Head(l) \in Thread /\ w \in Seq(Thread)
          /\ ToSet(l) = ToSet(w) \cup {Head(l)} /\ IsInjective(w) /\ Head(l) \notin ToSet(w)
      BY <2>2, TailSet
    <2>4. PICK h \in Thread : h = Head(l)
      BY <2>3
    <2>5. /\ hint' = FALSE /\ runQueue' = [rq EXCEPT ![p] = w]
          /\ runBits' = (IF w = << >> THEN rb \ {p} ELSE rb)
          /\ queue' = [qu EXCEPT ![h] = NULL] /\ state' = [st EXCEPT ![h] = "RUNNING"]
          /\ current' = h
      BY <1>5, <2>1, <2>4 DEF Dispatch, l
    <2> HIDE DEF w
    <2>6. pl[h] = p /\ ToSet(w) = ToSet(rq[p]) \ {h}
      BY <1>3, <2>3, <2>4 DEF l
    <2>7. st[h] = "READY" /\ suspend[h] = 0 /\ priority[h] = p
      BY <1>0, <2>6, Constants
    <2>8. Linked([pl EXCEPT ![h] = NULL], [rq EXCEPT ![p] = w],
                 IF w = << >> THEN rb \ {p} ELSE rb, waiters)
      BY <2>3, <2>6, UnlinkRun
    <2>9. /\ state' \in [Thread -> {"READY", "RUNNING", "SLEEPING", "MORIBUND", "EXITED"}]
          /\ queue' \in [Thread -> WaitQueue \cup Priority \cup {NULL}]
          /\ state'[h] = "RUNNING" /\ queue'[h] = NULL
          /\ \A t \in Thread \ {h} : state'[t] = st[t] /\ queue'[t] = qu[t]
      BY <2>5
    <2>10. Place' = [pl EXCEPT ![h] = NULL] /\ Fields'
      <3> DEFINE new == [pl EXCEPT ![h] = NULL]
      <3>1. \A t \in Thread : new[t] = IF t = h THEN NULL ELSE pl[t]
        OBVIOUS
      <3>2. Place'[h] = NULL
        BY <1>0, <1>1, <2>9 DEF Where
      <3>3. \A t \in Thread \ {h} : Place'[t] = pl[t]
        BY <1>0, <1>1, <2>9 DEF Where
      <3>4. Place' = [t \in Thread |-> Place'[t]]
        BY DEF Place
      <3>5. Place' = new
        BY <3>1, <3>2, <3>3, <3>4
      <3>6. Fields'
        BY <1>0, <2>9 DEF Fields
      <3>7. QED BY <3>5, <3>6
    <2>11. Placed'
      BY <2>5, <2>8, <2>10 DEF Placed
    <2>12. RunningOne'
      BY <1>0, <2>5, <2>7, <2>9 DEF RunningOne
    <2>13. \A t \in Thread : \/ state'[t] = state[t]
                             \/ state[t] \in {"READY", "RUNNING"} /\ state'[t] \in {"READY", "RUNNING"}
      BY <1>0, <2>7, <2>9
    <2>14. runQueue' \in [Priority -> Seq(Thread)] /\ runBits' \subseteq Priority
      BY <2>5, <2>8 DEF Linked
    <2>15. QED BY <2>5, <2>9, <2>11, <2>12, <2>13, <2>14
  <1>6. QED BY <1>4, <1>5

(* The stacks when another thread becomes the current one.                 *)
LEMMA SwitchFrames ==
    ASSUME Stacked, StackInv, Calm, NEW new \in [Context -> Seq(Frame)], stack' = new,
           Unwound(new), current' \in Thread \cup {NULL}, owner' = owner, lock' = lock
    PROVE  StackInv' /\ Stacked' /\ Calm' /\ \A u \in Thread : ~Cancelling(u)'
  <1>0. /\ \A c \in Context : new[c] = stack[c] \/ (stack[c] # << >> /\ new[c] = Tail(stack[c]))
        /\ \A c \in Thread : \A f \in ToSet(new[c]) : f.fn # "LockSleep"
        /\ new[Isr] = << >>
    BY DEF Unwound
  <1>1. \A c \in Context : /\ \A f \in ToSet(new[c]) : f \in ToSet(stack[c])
                           /\ Good(stack[c]) => Good(new[c])
    <2> SUFFICES ASSUME NEW c \in Context, stack[c] # << >>, new[c] = Tail(stack[c])
                 PROVE  /\ \A f \in ToSet(new[c]) : f \in ToSet(stack[c])
                        /\ Good(stack[c]) => Good(new[c])
      BY <1>0
    <2> DEFINE s == stack[c]
    <2>1. s \in Seq(Frame) /\ s # << >>
      BY DEF Stacked
    <2> HIDE DEF s
    <2>2. ToSet(s) = ToSet(Tail(s)) \cup {Head(s)} /\ (Good(s) => Good(Tail(s)))
      BY <2>1, Popped
    <2>3. QED BY <2>2 DEF s
  <1>2. Calm'
    BY <1>1 DEF Calm
  <1>3. Stacked'
    BY DEF Stacked
  <1>4. Frames'
    BY <1>0, <1>1 DEF StackInv, Frames, Context
  <1>5. Locks'
    <2> SUFFICES ASSUME NEW c \in Thread, NEW f \in ToSet(new[c])
                 PROVE  LockFrame(c, new[c], f, owner, lock) /\ f.fn # "LockSleep"
      BY DEF Locks
    <2>1. f \in ToSet(stack[c]) /\ f.fn # "LockSleep"
      BY <1>0, <1>1 DEF Context
    <2>2. LockFrame(c, stack[c], f, owner, lock)
      BY <2>1 DEF StackInv, Locks
    <2>3. QED BY <2>1, <2>2 DEF LockFrame
  <1>6. Cancels'
    BY <1>2 DEF Cancels, Calm, Context
  <1>7. QED BY <1>2, <1>3, <1>4, <1>5, <1>6, CalmNext DEF StackInv

(* SelectThread from st, qu, rq and rb, with the stacks in order.          *)
LEMMA Switched ==
    ASSUME KInv, NEW new \in [Context -> Seq(Frame)], stack' = new, Calm,
           Unwound(new), ~Running("OSWakeupThread"),
           NEW st \in [Thread -> {"READY", "RUNNING", "SLEEPING", "MORIBUND", "EXITED"}],
           NEW qu \in [Thread -> WaitQueue \cup Priority \cup {NULL}], NEW rq, NEW rb,
           NEW pl \in [Thread -> Priority \cup WaitQueue \cup {NULL}],
           Linked(pl, rq, rb, waiters),
           Left(pl, st, qu),
           Dispatch(st, qu, rq, rb),
           UNCHANGED <<detached, base, priority, suspend, mutex, active, waiters, mutexVars>>
    PROVE  KInv'
  <1>1. /\ TypeOK /\ PrioOK /\ StackInv /\ Stacked
    BY StateTypes DEF KInv
  <1>2. /\ owner' = owner /\ lock' = lock /\ held' = held /\ priority' = priority
        /\ suspend' = suspend /\ waiters' = waiters /\ active' = active
        /\ detached' = detached /\ base' = base /\ mutex' = mutex
    BY DEF mutexVars
  <1>3. current' \in Thread \cup {NULL}
    <2>1. CASE rb = {}
      BY <2>1 DEF Dispatch
    <2>2. CASE rb # {}
      <3>0. /\ rb \in SUBSET Priority /\ rq \in [Priority -> Seq(Thread)]
            /\ rb = {p \in Priority : rq[p] # << >>}
        BY DEF Linked
      <3>1. PICK p \in Priority : p = BestOf(rb) /\ p \in rb /\ rq[p] \in Seq(Thread) /\ rq[p] # << >>
        <4>1. BestOf(rb) \in rb
          BY <2>2, <3>0, BestOK
        <4>2. QED BY <3>0, <4>1
      <3>2. Head(rq[p]) \in Thread
        BY <3>1, TailSet
      <3>3. current' = Head(rq[p])
        BY <2>2, <3>1 DEF Dispatch
      <3>4. QED BY <3>2, <3>3
    <2>3. QED BY <2>1, <2>2
  <1>4. StackInv' /\ Stacked' /\ \A u \in Thread : ~Cancelling(u)'
    BY <1>1, <1>2, <1>3, SwitchFrames
  <1>5. /\ Placed' /\ RunningOne' /\ current' \in Thread \cup {NULL}
        /\ state' \in [Thread -> {"READY", "RUNNING", "SLEEPING", "MORIBUND", "EXITED"}]
        /\ queue' \in [Thread -> WaitQueue \cup Priority \cup {NULL}]
        /\ runQueue' \in [Priority -> Seq(Thread)] /\ runBits' \subseteq Priority
        /\ hint' \in BOOLEAN
        /\ current' # NULL => state'[current'] = "RUNNING"
        /\ \A t \in Thread : \/ state'[t] = state[t]
                             \/ state[t] \in {"READY", "RUNNING"} /\ state'[t] \in {"READY", "RUNNING"}
    BY <1>1, <1>2, <1>4, Taken
  <1>6. PrioOK' /\ ActiveList' /\ Leaving'
    BY <1>2, <1>5 DEF KInv, PrioOK, Dead, ActiveList, Leaving
  <1>7. WakeOwed' /\ MutexConsistent' /\ WaitersSorted'
    BY <1>2 DEF KInv, WakeOwed, MutexConsistent, WaitersSorted
  <1>8. TypeOK'
    BY <1>1, <1>2, <1>4, <1>5 DEF TypeOK, Stacked
  <1>9. QED BY <1>4, <1>5, <1>6, <1>7, <1>8 DEF KInv
(* The frames that call SelectThread.                                      *)
LEMMA SelectFacts ==
    ASSUME KInv, NEW fn \in {"__OSReschedule", "OSYieldThread"}, Running(fn)
    PROVE  /\ Stacked /\ StackInv /\ Cpu # NULL /\ Cpu \in Context
           /\ stack[Cpu] \in Seq(Frame) /\ stack[Cpu] # << >>
           /\ Head(stack[Cpu]).fn = fn /\ Head(stack[Cpu]) \in ToSet(stack[Cpu])
           /\ Cpu = Isr => (current # NULL => state[current] = "RUNNING")
           /\ Cpu # Isr => Cpu = current /\ current \in Thread /\ stack[Isr] = << >>
           /\ Calm /\ (\A u \in Thread : ~Cancelling(u)) /\ ~Running("OSWakeupThread")
           /\ \A m \in Mutex : waiters[m] # << >> => owner[m] # NULL
           /\ \A c \in Thread : \A f \in ToSet(stack[c]) : f.fn # "LockSleep"
  <1>1. /\ Stacked /\ StackInv /\ Cpu # NULL /\ Cpu \in Context
        /\ stack[Cpu] \in Seq(Frame) /\ stack[Cpu] # << >>
        /\ Head(stack[Cpu]).fn = fn
        /\ Cpu = Isr => (current # NULL => state[current] = "RUNNING" /\ stack[current] = << >>)
        /\ Cpu # Isr => Cpu = current /\ current \in Thread /\ stack[Isr] = << >>
        /\ Calm /\ \A u \in Thread : ~Cancelling(u)
    <2>1. CASE fn = "__OSReschedule"
      BY <2>1, InnerFacts DEF Inner
    <2>2. CASE fn = "OSYieldThread"
      <3>1. fn \notin Inner /\ fn \notin IsrFrames
        BY <2>2 DEF Inner, IsrFrames
      <3>2. /\ current \in Thread /\ current # NULL /\ current # Isr /\ Cpu = current
            /\ Stacked /\ StackInv /\ stack[Isr] = << >> /\ stack[current] # << >>
            /\ Head(stack[current]).fn = fn
            /\ Calm /\ \A u \in Thread : ~Cancelling(u)
        BY <2>2, <3>1, Outermost
      <3>3. QED BY <3>2 DEF Stacked, Context
    <2>3. QED BY <2>1, <2>2
  <1>2. Head(stack[Cpu]) \in ToSet(stack[Cpu])
    BY <1>1, Popped
  <1>3. ~Running("OSWakeupThread")
    BY <1>1 DEF Running
  <1>4. \A m \in Mutex : waiters[m] # << >> => owner[m] # NULL
    BY <1>3 DEF KInv, WakeOwed
  <1>5. ASSUME NEW c \in Thread, NEW f \in ToSet(stack[c]), f.fn = "LockSleep"
        PROVE  FALSE
    <2>1. c = current /\ \A g \in ToSet(stack[c]) : g.fn \in {"__OSPromoteThread", "LockSleep"}
      BY <1>1, <1>5 DEF StackInv, Locks, LockFrame
    <2>2. stack[current] # << >> /\ current # NULL
      <3>1. ToSet(<< >>) = {}
        BY Stacks DEF ToSet
      <3>2. QED BY <1>5, <2>1, <3>1, Constants
    <2>3. Cpu = current
      BY <1>1, <2>2
    <2>4. QED BY <1>1, <1>2, <2>1, <2>3
  <1>6. QED BY <1>1, <1>2, <1>3, <1>4, <1>5

(* The running thread goes on, or the handler does.                        *)
LEMMA GoesOn ==
    ASSUME KInv, NEW fn \in {"__OSReschedule", "OSYieldThread"}, Running(fn), Return,
           UNCHANGED <<threadVars, queueVars, mutexVars, current>>,
           hint => Cpu = Isr \/ state[current] = "RUNNING"
    PROVE  KInv'
  <1> DEFINE s == stack[Cpu]
             n == Tail(s)
  <1>1. /\ Stacked /\ StackInv /\ Cpu # NULL /\ Cpu \in Context
        /\ s \in Seq(Frame) /\ s # << >> /\ Head(s).fn = fn /\ Head(s) \in ToSet(s)
        /\ Cpu = Isr => (current # NULL => state[current] = "RUNNING")
        /\ Cpu # Isr => Cpu = current /\ current \in Thread /\ stack[Isr] = << >>
        /\ \A m \in Mutex : waiters[m] # << >> => owner[m] # NULL
        /\ \A u \in Thread : ~Cancelling(u)
    BY SelectFacts
  <1>2. stack' = [stack EXCEPT ![Cpu] = n]
    BY DEF Return
  <1>3. /\ n \in Seq(Frame) /\ ToSet(s) = ToSet(n) \cup {Head(s)} /\ (Good(s) => Good(n))
        /\ (n # << >> => Last(n) = Last(s)) /\ (n = << >> => Last(s) = Head(s))
    <2> HIDE DEF s
    <2>1. QED BY <1>1, Popped
  <1> HIDE DEF n
  <1>4. Turns(s, n) /\ \A g \in ToSet(s) : g \in ToSet(n) \/ g = Head(s)
    BY <1>3 DEF Turns
  <1>5. /\ owner' = owner /\ lock' = lock /\ hint' = hint /\ state' = state /\ queue' = queue
        /\ current' = current /\ waiters' = waiters
    BY DEF mutexVars, queueVars, threadVars
  <1>6. /\ StackInv' /\ Stacked' /\ stack'[Cpu] = n
        /\ \A d \in Context \ {Cpu} : stack'[d] = stack[d]
        /\ \A u \in Thread : Cancelling(u)' <=> Cancelling(u)
    <2>1. Head(stack[Cpu]).fn # "CancelTail"
      BY <1>1
    <2>2. QED BY <1>1, <1>2, <1>3, <1>4, <1>5, <2>1, TurnStep
  <1>7. Leaving'
    <2> SUFFICES ASSUME current # NULL, state[current] # "RUNNING"
                 PROVE  stack'[Isr] = << >> /\ Departs(stack'[current], hint)
      BY <1>5 DEF Leaving
    <2>1. /\ Cpu = current /\ current \in Thread /\ stack[Isr] = << >> /\ current # Isr
          /\ Departs(s, hint) /\ ~hint
      BY <1>1, Constants DEF KInv, Leaving
    <2>2. stack'[Isr] = << >> /\ stack'[current] = n
      BY <1>6, <2>1 DEF Context
    <2>3. (\A f \in ToSet(s) : f.fn \in Teardown) /\ Last(s).fn = "ExitHint"
      BY <2>1 DEF Departs
    <2>4. n # << >>
      BY <1>1, <1>3, <2>3
    <2>5. QED BY <1>3, <2>2, <2>3, <2>4 DEF Departs
  <1>8. WakeOwed'
    BY <1>1, <1>5 DEF WakeOwed
  <1>9. QED BY <1>6, <1>7, <1>8, OnlyStacks

(* What Fields says of a thread that SelectThread leaves where it is.      *)
LEMMA LeftAlone ==
    ASSUME Fields, NEW t \in Thread, ~Cancelling(t), state[t] # "RUNNING"
    PROVE  /\ Where(t) = IF state[t] = "READY" /\ suspend[t] = 0 THEN priority[t]
                          ELSE IF state[t] = "SLEEPING" THEN queue[t] ELSE NULL
           /\ state[t] = "READY" /\ suspend[t] = 0 => queue[t] = priority[t]
           /\ state[t] = "SLEEPING" => queue[t] \in WaitQueue
  <1>1. /\ state[t] = "READY" /\ suspend[t] = 0 => queue[t] = priority[t]
        /\ state[t] = "SLEEPING" => queue[t] \in WaitQueue
    BY DEF Fields
  <1>2. QED BY <1>1 DEF Where

LEMMA SelectTurn ==
    ASSUME KInv, NEW fn \in {"__OSReschedule", "OSYieldThread"}, Running(fn),
           NEW yield \in BOOLEAN, SelectThread(yield)
    PROVE  KInv'
  <1>1. /\ Stacked /\ StackInv /\ Cpu # NULL /\ Cpu \in Context
        /\ stack[Cpu] \in Seq(Frame) /\ stack[Cpu] # << >>
        /\ Cpu # Isr => Cpu = current /\ current \in Thread /\ stack[Isr] = << >>
        /\ Calm /\ (\A u \in Thread : ~Cancelling(u)) /\ ~Running("OSWakeupThread")
        /\ \A c \in Thread : \A f \in ToSet(stack[c]) : f.fn # "LockSleep"
    BY SelectFacts
  <1>2. /\ Return
        /\ UNCHANGED <<detached, base, priority, suspend, mutex, active, waiters, mutexVars>>
    BY DEF SelectThread
  <1>3. CASE Cpu = Isr \/ KeepsRunning(yield)
    <2>1. UNCHANGED <<state, queue, runQueue, runBits, hint, current>>
      BY <1>3 DEF SelectThread
    <2>2. UNCHANGED <<threadVars, queueVars, mutexVars, current>>
      BY <1>2, <2>1 DEF threadVars, queueVars
    <2>3. Cpu = Isr \/ state[current] = "RUNNING"
      BY <1>3 DEF KeepsRunning
    <2>4. QED BY <1>2, <2>2, <2>3, GoesOn
  <1>4. CASE ~(Cpu = Isr \/ KeepsRunning(yield))
    <2>1. PICK c \in Thread : c = current
      BY <1>1, <1>4
    <2>2. Cpu = c /\ stack[Isr] = << >> /\ c \in Context /\ c # Isr
      BY <1>1, <1>4, <2>1
    <2> DEFINE new == [stack EXCEPT ![c] = Tail(stack[c])]
    <2>3. stack' = new
      BY <1>2, <2>2 DEF Return
    <2>4. /\ stack[c] \in Seq(Frame) /\ stack[c] # << >> /\ stack \in [Context -> Seq(Frame)]
      BY <1>1, <2>2 DEF Stacked
    <2>5. Tail(stack[c]) \in Seq(Frame) /\ \A f \in ToSet(Tail(stack[c])) : f \in ToSet(stack[c])
      BY <2>4, Popped
    <2>6. /\ new \in [Context -> Seq(Frame)]
          /\ \A d \in Context : new[d] = stack[d] \/ (stack[d] # << >> /\ new[d] = Tail(stack[d]))
          /\ new[Isr] = << >> /\ new[c] = Tail(stack[c])
          /\ \A d \in Context \ {c} : new[d] = stack[d]
      BY <2>2, <2>4, <2>5, Constants DEF Context
    <2> HIDE DEF new
    <2>7. Unwound(new)
      <3> SUFFICES ASSUME NEW d \in Thread, NEW f \in ToSet(new[d]) PROVE f.fn # "LockSleep"
        BY <2>6 DEF Unwound
      <3>1. f \in ToSet(stack[d])
        BY <2>5, <2>6 DEF Context
      <3>2. QED BY <1>1, <3>1
    <2>8. /\ TypeOK /\ PrioOK /\ RunningOne /\ Linked(Place, runQueue, runBits, waiters) /\ Fields
      BY DEF KInv, Placed
    <2>9. /\ Place \in [Thread -> Priority \cup WaitQueue \cup {NULL}]
          /\ \A t \in Thread : Place[t] = Where(t)
      BY <1>1, <2>8, PlaceType DEF Place
    <2>10. /\ state \in [Thread -> {"READY", "RUNNING", "SLEEPING", "MORIBUND", "EXITED"}]
           /\ queue \in [Thread -> WaitQueue \cup Priority \cup {NULL}]
      BY <2>8 DEF TypeOK
    <2>11. /\ Calm /\ ~Running("OSWakeupThread")
           /\ UNCHANGED <<detached, base, priority, suspend, mutex, active, waiters, mutexVars>>
      BY <1>1, <1>2
    <2>12. CASE state[c] = "RUNNING"
      <3>1. PICK p \in Priority : p = priority[c]
        BY <2>8, <2>12 DEF RunningOne, PrioOK, Dead
      <3> DEFINE st == [state EXCEPT ![c] = "READY"]
                 qu == [queue EXCEPT ![c] = p]
                 rq == [runQueue EXCEPT ![p] = Append(@, c)]
                 rb == runBits \cup {p}
                 pl == [Place EXCEPT ![c] = p]
      <3>2. Dispatch(st, qu, rq, rb)
        <4>1. LET x == priority[current] IN
              Dispatch([state EXCEPT ![current] = "READY"], [queue EXCEPT ![current] = x],
                       [runQueue EXCEPT ![x] = Append(@, current)], runBits \cup {x})
          BY <1>4, <2>1, <2>12 DEF SelectThread
        <4>2. p = priority[current] /\ c = current
          BY <2>1, <3>1
        <4>3. QED BY <4>1, <4>2 DEF Dispatch
      <3>3. Place[c] = NULL
        BY <2>9, <2>12 DEF Where
      <3>4. Linked(pl, rq, rb, waiters)
        BY <2>8, <2>9, <3>3, LinkRun
      <3>5. /\ pl \in [Thread -> Priority \cup WaitQueue \cup {NULL}]
            /\ st \in [Thread -> {"READY", "RUNNING", "SLEEPING", "MORIBUND", "EXITED"}]
            /\ qu \in [Thread -> WaitQueue \cup Priority \cup {NULL}]
            /\ pl[c] = p /\ st[c] = "READY" /\ qu[c] = p
            /\ \A t \in Thread \ {c} : pl[t] = Place[t] /\ st[t] = state[t] /\ qu[t] = queue[t]
        BY <2>9, <2>10
      <3> HIDE DEF pl, st, qu, rq, rb
      <3>6. Left(pl, st, qu)
        <4> SUFFICES ASSUME NEW t \in Thread
                     PROVE  /\ pl[t] = IF st[t] = "READY" /\ suspend[t] = 0 THEN priority[t]
                                       ELSE IF st[t] = "SLEEPING" THEN qu[t] ELSE NULL
                            /\ st[t] = "READY" /\ suspend[t] = 0 => qu[t] = priority[t]
                            /\ st[t] = "SLEEPING" => qu[t] \in WaitQueue
                            /\ st[t] # "RUNNING"
                            /\ st[t] = state[t] \/ (state[t] = "RUNNING" /\ st[t] = "READY")
          BY DEF Left
        <4>1. CASE t = c
          BY <2>1, <2>8, <2>12, <3>1, <3>5, <4>1 DEF RunningOne
        <4>2. CASE t # c
          <5>1. pl[t] = Where(t) /\ st[t] = state[t] /\ qu[t] = queue[t] /\ ~Cancelling(t)
            BY <1>1, <2>9, <3>5, <4>2
          <5>2. state[t] # "RUNNING"
            BY <2>1, <2>8, <4>2 DEF RunningOne
          <5>3. /\ Where(t) = IF state[t] = "READY" /\ suspend[t] = 0 THEN priority[t]
                              ELSE IF state[t] = "SLEEPING" THEN queue[t] ELSE NULL
                /\ state[t] = "READY" /\ suspend[t] = 0 => queue[t] = priority[t]
                /\ state[t] = "SLEEPING" => queue[t] \in WaitQueue
            BY <2>8, <5>1, <5>2, LeftAlone
          <5>4. QED BY <5>1, <5>2, <5>3
        <4>3. QED BY <4>1, <4>2
      <3>7. QED BY <2>3, <2>6, <2>7, <2>11, <3>2, <3>4, <3>5, <3>6, Switched
    <2>13. CASE state[c] # "RUNNING"
      <3>1. Dispatch(state, queue, runQueue, runBits)
        BY <1>4, <2>1, <2>13 DEF SelectThread
      <3> DEFINE st == state
                 qu == queue
                 rq == runQueue
                 rb == runBits
                 pl == Place
      <3>2. ASSUME NEW t \in Thread
            PROVE  /\ pl[t] = IF st[t] = "READY" /\ suspend[t] = 0 THEN priority[t]
                              ELSE IF st[t] = "SLEEPING" THEN qu[t] ELSE NULL
                   /\ st[t] = "READY" /\ suspend[t] = 0 => qu[t] = priority[t]
                   /\ st[t] = "SLEEPING" => qu[t] \in WaitQueue
                   /\ st[t] # "RUNNING"
                   /\ st[t] = state[t] \/ (state[t] = "RUNNING" /\ st[t] = "READY")
        <4>1. Place[t] = Where(t) /\ ~Cancelling(t)
          BY <1>1, <2>9
        <4>2. state[t] # "RUNNING"
          BY <2>1, <2>8, <2>13 DEF RunningOne
        <4>3. /\ Where(t) = IF state[t] = "READY" /\ suspend[t] = 0 THEN priority[t]
                            ELSE IF state[t] = "SLEEPING" THEN queue[t] ELSE NULL
              /\ state[t] = "READY" /\ suspend[t] = 0 => queue[t] = priority[t]
              /\ state[t] = "SLEEPING" => queue[t] \in WaitQueue
          BY <2>8, <4>1, <4>2, LeftAlone
        <4>4. QED BY <4>1, <4>2, <4>3
      <3>3. /\ st \in [Thread -> {"READY", "RUNNING", "SLEEPING", "MORIBUND", "EXITED"}]
            /\ qu \in [Thread -> WaitQueue \cup Priority \cup {NULL}]
            /\ pl \in [Thread -> Priority \cup WaitQueue \cup {NULL}]
            /\ Linked(pl, rq, rb, waiters) /\ Dispatch(st, qu, rq, rb)
            /\ Left(pl, st, qu)
        BY <2>8, <2>9, <2>10, <3>1, <3>2 DEF Left
      <3> HIDE DEF st, qu, rq, rb, pl
      <3>4. QED BY <2>3, <2>6, <2>7, <2>11, <3>3, Switched
    <2>14. QED BY <2>12, <2>13
  <1>5. QED BY <1>3, <1>4

LEMMA RescheduleTurn == ASSUME KInv, OSReschedule PROVE KInv'
  <1>1. /\ Running("__OSReschedule")
        /\ \/ SelectThread(FALSE)
           \/ ~hint /\ Return /\ UNCHANGED <<threadVars, queueVars, mutexVars, current>>
    BY DEF OSReschedule
  <1>2. PICK fn \in {"__OSReschedule", "OSYieldThread"} : fn = "__OSReschedule"
    OBVIOUS
  <1>3. Running(fn)
    BY <1>1, <1>2
  <1>4. CASE SelectThread(FALSE)
    <2>1. PICK yield \in BOOLEAN : SelectThread(yield)
      BY <1>4
    <2>2. QED BY <1>3, <2>1, SelectTurn
  <1>5. CASE ~hint /\ Return /\ UNCHANGED <<threadVars, queueVars, mutexVars, current>>
    BY <1>3, <1>5, GoesOn
  <1>6. QED BY <1>1, <1>4, <1>5

LEMMA YieldTurn == ASSUME KInv, YieldTail PROVE KInv'
  <1>1. PICK fn \in {"__OSReschedule", "OSYieldThread"}, yield \in BOOLEAN :
           Running(fn) /\ SelectThread(yield)
    BY DEF YieldTail
  <1>2. QED BY <1>1, SelectTurn

(* In the idle loop every thread is where its state says.                  *)
LEMMA IdleLeaves == ASSUME KInv, LeaveIdle PROVE KInv'
  <1>1. /\ TypeOK /\ PrioOK /\ StackInv /\ Stacked /\ RunningOne
        /\ Linked(Place, runQueue, runBits, waiters) /\ Fields
    BY StateTypes DEF KInv, Placed
  <1>2. stack[Isr] = << >> /\ current = NULL
    BY Constants DEF LeaveIdle, Cpu
  <1>3. /\ stack' = stack /\ Dispatch(state, queue, runQueue, runBits)
        /\ UNCHANGED <<detached, base, priority, suspend, mutex, active, waiters, mutexVars>>
    BY DEF LeaveIdle
  <1>4. Calm /\ \A t \in Thread : ~Cancelling(t)
    BY <1>1, <1>2, CalmNow
  <1>5. Unwound(stack)
    <2>1. \A c \in Thread : \A f \in ToSet(stack[c]) : f.fn # "LockSleep"
      BY <1>1, <1>2, Constants DEF StackInv, Locks
    <2>2. QED BY <1>2, <2>1 DEF Unwound
  <1>6. ~Running("OSWakeupThread")
    BY DEF LeaveIdle, Running
  <1>7. /\ Place \in [Thread -> Priority \cup WaitQueue \cup {NULL}]
        /\ \A t \in Thread : Place[t] = Where(t)
    BY <1>1, <1>4, PlaceType DEF Place
  <1>8. /\ state \in [Thread -> {"READY", "RUNNING", "SLEEPING", "MORIBUND", "EXITED"}]
        /\ queue \in [Thread -> WaitQueue \cup Priority \cup {NULL}]
        /\ stack \in [Context -> Seq(Frame)]
    BY <1>1 DEF TypeOK
  <1>9. ASSUME NEW t \in Thread
        PROVE  /\ Place[t] = IF state[t] = "READY" /\ suspend[t] = 0 THEN priority[t]
                             ELSE IF state[t] = "SLEEPING" THEN queue[t] ELSE NULL
               /\ state[t] = "READY" /\ suspend[t] = 0 => queue[t] = priority[t]
               /\ state[t] = "SLEEPING" => queue[t] \in WaitQueue
               /\ state[t] # "RUNNING"
    <2>1. state[t] # "RUNNING"
      BY <1>1, <1>2, Constants DEF RunningOne
    <2>2. /\ Where(t) = IF state[t] = "READY" /\ suspend[t] = 0 THEN priority[t]
                        ELSE IF state[t] = "SLEEPING" THEN queue[t] ELSE NULL
          /\ state[t] = "READY" /\ suspend[t] = 0 => queue[t] = priority[t]
          /\ state[t] = "SLEEPING" => queue[t] \in WaitQueue
      BY <1>1, <1>4, <2>1, LeftAlone
    <2>3. QED BY <1>7, <2>1, <2>2
  <1> DEFINE new == stack
             st == state
             qu == queue
             rq == runQueue
             rb == runBits
             pl == Place
  <1>10. /\ new \in [Context -> Seq(Frame)] /\ stack' = new /\ Unwound(new)
         /\ st \in [Thread -> {"READY", "RUNNING", "SLEEPING", "MORIBUND", "EXITED"}]
         /\ qu \in [Thread -> WaitQueue \cup Priority \cup {NULL}]
         /\ pl \in [Thread -> Priority \cup WaitQueue \cup {NULL}]
         /\ Linked(pl, rq, rb, waiters) /\ Dispatch(st, qu, rq, rb)
         /\ Left(pl, st, qu)
    BY <1>1, <1>3, <1>5, <1>7, <1>8, <1>9 DEF Left
  <1> HIDE DEF new, st, qu, rq, rb, pl
  <1>11. QED BY <1>3, <1>4, <1>6, <1>10, Switched

(* The dispatcher of interrupts returns into a reschedule.                 *)
LEMMA IsrReturns == ASSUME KInv, IsrReturn PROVE KInv'
  <1>1. /\ Running("IsrReturn") /\ UNCHANGED <<threadVars, queueVars, mutexVars, current>>
        /\ stack' = [c \in Context |-> IF c = Isr THEN << >>
                                       ELSE IF c = current THEN <<Reschedule>> ELSE stack[c]]
    BY DEF IsrReturn
  <1>2. /\ Stacked /\ StackInv /\ Leaving
    BY StateTypes DEF KInv
  <1>3. Cpu # NULL /\ stack[Cpu] # << >> /\ Head(stack[Cpu]).fn = "IsrReturn"
    BY <1>1 DEF Running
  <1>4. Cpu = Isr /\ stack[Isr] # << >> /\ Isr \in Context /\ Isr \notin Thread /\ NULL \notin Thread
    <2>1. /\ Cpu \in Context /\ stack[Cpu] \in Seq(Frame)
          /\ Cpu # Isr => Cpu = current /\ current \in Thread
      BY <1>2, <1>3, CpuFacts
    <2>2. Head(stack[Cpu]) \in ToSet(stack[Cpu])
      BY <1>3, <2>1, Popped
    <2>3. QED BY <1>2, <1>3, <2>1, <2>2, Constants DEF StackInv, Frames, Context
  <1>5. /\ current # NULL => current \in Thread /\ stack[current] = << >>
        /\ current # NULL => state[current] = "RUNNING"
    BY <1>2, <1>3, <1>4, CpuFacts DEF Leaving
  <1> DEFINE r == <<Reschedule>>
             e == << >>
  <1>6. /\ r \in Seq(Frame) /\ Good(r) /\ ToSet(r) = {Reschedule} /\ Reschedule.fn = "__OSReschedule"
        /\ e \in Seq(Frame) /\ ToSet(e) = {} /\ Good(e)
    <2>1. Reschedule \in Frame /\ Reschedule.fn = "__OSReschedule"
      BY FrameIntro DEF Reschedule
    <2>2. r \in Seq(Frame) /\ Good(r) /\ ToSet(r) = {Reschedule} /\ Good(e)
      BY <2>1, Stacks
    <2>3. e \in Seq(Frame)
      OBVIOUS
    <2>4. ToSet(e) = {}
      BY Stacks DEF ToSet
    <2>5. QED BY <2>1, <2>2, <2>3, <2>4
  <1>7. /\ stack'[Isr] = e /\ stack' \in [Context -> Seq(Frame)]
        /\ \A c \in Thread : stack'[c] = IF c = current THEN r ELSE stack[c]
    BY <1>1, <1>2, <1>4, <1>6 DEF Stacked, Context
  <1> HIDE DEF r, e
  <1>8. /\ owner' = owner /\ lock' = lock /\ state' = state /\ queue' = queue /\ hint' = hint
        /\ current' = current /\ waiters' = waiters
    BY <1>1 DEF mutexVars, threadVars, queueVars
  <1>9. Calm /\ \A t \in Thread : ~Cancelling(t)
    BY <1>2, <1>5, <1>6, CalmNow DEF e
  <1>10. Calm'
    <2> SUFFICES ASSUME NEW c \in Context, NEW f \in ToSet(stack'[c]) PROVE f.fn # "CancelTail"
      BY DEF Calm
    <2>1. CASE c = Isr
      BY <1>6, <1>7, <2>1
    <2>2. CASE c # Isr
      <3>1. c \in Thread
        BY <2>2 DEF Context
      <3>2. QED BY <1>6, <1>7, <1>9, <3>1 DEF Calm, Context
    <2>3. QED BY <2>1, <2>2
  <1>11. Stacked'
    BY <1>2, <1>7, <1>8 DEF Stacked
  <1>12. \A t \in Thread : ~Cancelling(t)'
    BY <1>10, <1>11, CalmNext
  <1>13. Frames'
    <2>1. \A c \in Thread : Good(stack'[c]) /\ \A f \in ToSet(stack'[c]) : f.fn # "IsrReturn"
      BY <1>2, <1>6, <1>7 DEF StackInv, Frames
    <2>2. QED BY <1>6, <1>7, <2>1 DEF Frames, e
  <1>14. Locks'
    <2> SUFFICES ASSUME NEW c \in Thread, NEW f \in ToSet(stack'[c])
                 PROVE  /\ LockFrame(c, stack'[c], f, owner, lock)
                        /\ f.fn = "LockSleep" => c = current
      BY <1>8 DEF Locks
    <2>1. CASE c = current
      BY <1>6, <1>7, <2>1 DEF LockFrame
    <2>2. CASE c # current
      BY <1>2, <1>7, <2>2 DEF StackInv, Locks
    <2>3. QED BY <2>1, <2>2
  <1>15. Cancels'
    BY <1>10 DEF Cancels, Calm, Context
  <1>16. Leaving'
    BY <1>5, <1>8 DEF Leaving
  <1>17. WakeOwed'
    <2>1. ~Running("OSWakeupThread")
      BY <1>3 DEF Running
    <2>2. QED BY <1>8, <2>1 DEF KInv, WakeOwed
  <1>18. QED BY <1>1, <1>9, <1>11, <1>12, <1>13, <1>14, <1>15, <1>16, <1>17, OnlyStacks DEF StackInv

-----------------------------------------------------------------------------
(* The start-up code runs alone, in its own code.                          *)
LEMMA InitOK == ASSUME Init PROVE KInv
  <1> DEFINE e == << >>
  <1>1. /\ e \in Seq(Frame) /\ e \in Seq(Thread) /\ e \in Seq(Mutex) /\ Good(e)
        /\ ToSet(e) = {} /\ IsInjective(e) /\ DOMAIN e = {} /\ Len(e) = 0
    <2>1. e \in Seq(Frame) /\ e \in Seq(Thread) /\ e \in Seq(Mutex) /\ Len(e) = 0
      OBVIOUS
    <2>2. ToSet(e) = {} /\ IsInjective(e) /\ DOMAIN e = {}
      BY DEF ToSet, IsInjective
    <2>3. Good(e)
      BY <2>1 DEF Good
    <2>4. QED BY <2>1, <2>2, <2>3
  <1>2. /\ state = [t \in Thread |-> IF t = DefaultThread THEN "RUNNING" ELSE "EXITED"]
        /\ detached = [t \in Thread |-> t = DefaultThread]
        /\ base = [t \in Thread |-> IF t = DefaultThread THEN DefaultPriority ELSE 0]
        /\ priority = base
        /\ suspend = [t \in Thread |-> 0]
        /\ queue = [t \in Thread |-> NULL]
        /\ mutex = [t \in Thread |-> NULL]
        /\ active = {DefaultThread} /\ runBits = {} /\ hint = FALSE /\ current = DefaultThread
        /\ owner = [m \in Mutex |-> NULL]
        /\ lock = [m \in Mutex |-> 0]
    BY DEF Init
  <1>3. /\ held = [t \in Thread |-> e] /\ waiters = [q \in WaitQueue |-> e]
        /\ runQueue = [p \in Priority |-> e] /\ stack = [c \in Context |-> e]
    BY DEF Init
  <1>4. \A x : x = e <=> x = << >>
    OBVIOUS
  <1> HIDE DEF e
  <1>5. TypeOK
    <2>1. /\ state \in [Thread -> {"READY", "RUNNING", "SLEEPING", "MORIBUND", "EXITED"}]
          /\ detached \in [Thread -> BOOLEAN] /\ base \in [Thread -> Priority]
          /\ queue \in [Thread -> WaitQueue \cup Priority \cup {NULL}]
          /\ mutex \in [Thread -> Mutex \cup {NULL}]
          /\ active \subseteq Thread /\ runBits \subseteq Priority /\ hint \in BOOLEAN
          /\ current \in Thread \cup {NULL} /\ owner \in [Mutex -> Thread \cup {NULL}]
      BY <1>2, Constants
    <2>2. /\ priority \in [Thread -> 0 .. OS_PRIORITY_MAX + 1]
          /\ suspend \in [Thread -> 0 .. MaxSuspend] /\ lock \in [Mutex -> 0 .. MaxLock]
      BY <1>2, Constants DEF Priority
    <2>3. /\ held \in [Thread -> Seq(Mutex)] /\ waiters \in [WaitQueue -> Seq(Thread)]
          /\ runQueue \in [Priority -> Seq(Thread)] /\ stack \in [Context -> Seq(Frame)]
      BY <1>1, <1>3
    <2>4. QED BY <2>1, <2>2, <2>3 DEF TypeOK
  <1>6. MutexConsistent
    BY <1>1, <1>2, <1>3, Constants DEF MutexConsistent
  <1>7. StackInv /\ Calm
    <2>1. \A c \in Context : ToSet(stack[c]) = {} /\ Good(stack[c]) /\ stack[c] = << >>
      BY <1>1, <1>3, <1>4
    <2>2. Isr \in Context /\ Thread \subseteq Context
      BY DEF Context
    <2>3. Frames
      BY <2>1, <2>2 DEF Frames
    <2>4. Locks /\ Cancels /\ Calm
      BY <2>1, <2>2 DEF Locks, Cancels, Calm
    <2>5. QED BY <2>3, <2>4 DEF StackInv
  <1>8. Leaving /\ RunningOne /\ PrioOK /\ ActiveList
    BY <1>2, Constants DEF Leaving, RunningOne, PrioOK, ActiveList, Dead
  <1>9. \A t \in Thread : ~Cancelling(t)
    BY <1>5, <1>7, StateTypes, CalmNone
  <1>10. Fields /\ Place = [t \in Thread |-> NULL]
    <2>1. \A t \in Thread : state[t] \notin {"READY", "SLEEPING"}
      BY <1>2
    <2>2. QED BY <1>9, <2>1 DEF Fields, Place, Where
  <1>11. Placed
    <2>1. \A p \in Priority : IsInjective(runQueue[p]) /\ ToSet(runQueue[p]) = {t \in Thread : Place[t] = p}
      BY <1>1, <1>3, <1>10, Constants
    <2>2. \A q \in WaitQueue : IsInjective(waiters[q]) /\ ToSet(waiters[q]) = {t \in Thread : Place[t] = q}
      BY <1>1, <1>3, <1>10, Constants
    <2>3. runBits = {p \in Priority : runQueue[p] # << >>}
      BY <1>2, <1>3, <1>4
    <2>4. runQueue \in [Priority -> Seq(Thread)] /\ waiters \in [WaitQueue -> Seq(Thread)]
      BY <1>5 DEF TypeOK
    <2>5. QED BY <1>10, <2>1, <2>2, <2>3, <2>4 DEF Placed, Linked
  <1>12. WaitersSorted
    BY <1>1, <1>3 DEF WaitersSorted
  <1>13. WakeOwed
    BY <1>3, <1>4, Constants DEF WakeOwed
  <1>14. QED BY <1>5, <1>6, <1>7, <1>8, <1>11, <1>12, <1>13 DEF KInv

LEMMA Stutters == ASSUME KInv, UNCHANGED vars PROVE KInv'
  <1>1. UNCHANGED <<threadVars, queueVars, mutexVars, current, stack>>
    BY DEF vars
  <1>2. /\ Stacked /\ StackInv /\ Leaving /\ WakeOwed
    BY StateTypes DEF KInv
  <1>3. Stacked' /\ \A t \in Thread : Cancelling(t)' <=> Cancelling(t)
    BY <1>1, <1>2 DEF Stacked, Cancelling, Pending
  <1>4. StackInv'
    BY <1>1, <1>2 DEF StackInv, Frames, Locks, Cancels, LockFrame, Dead, threadVars, queueVars,
                      mutexVars
  <1>5. Leaving' /\ WakeOwed'
    BY <1>1, <1>2 DEF Leaving, WakeOwed, Departs, Running, Arg, Cpu, threadVars, queueVars, mutexVars
  <1>6. QED BY <1>1, <1>3, <1>4, <1>5, OnlyStacks

LEMMA NextStep == ASSUME KInv, [Next]_vars PROVE KInv'
  <1>1. /\ active \subseteq Thread /\ current \in Thread \cup {NULL}
    BY DEF KInv, TypeOK
  <1>2. CASE current # NULL /\ ThreadCall(current)
    <2>1. current \in Thread /\ current \in {current, Isr} /\ current # NULL
      BY <1>1, <1>2
    <2>2. CASE \E t \in Thread \ {current}, p \in Priority, det \in BOOLEAN :
                  OSCreateThread(current, t, p, det)
      BY <2>1, <2>2, CreateStep
    <2>3. CASE \E q \in UserQueue : OSSleepThread(current, q)
      BY <2>1, <2>3, SleepStep
    <2>4. CASE \E q \in UserQueue : OSWakeupThread(current, q)
      <3>1. PICK c \in {current, Isr}, q \in UserQueue : c # NULL /\ OSWakeupThread(c, q)
        BY <2>1, <2>4
      <3>2. QED BY <3>1, WakeupStep
    <2>5. CASE OSYieldThread(current)
      BY <2>1, <2>5, YieldStep
    <2>6. CASE \E t \in active, p \in Priority : OSSetThreadPriority(current, t, p)
      BY <1>1, <2>1, <2>6, SetPriorityStep
    <2>7. CASE \E t \in active \cap Cancellable : OSSuspendThread(current, t)
      BY <1>1, <2>1, <2>7, SuspendStep
    <2>8. CASE \E t \in active : OSResumeThread(current, t)
      <3>1. PICK c \in {current, Isr}, t \in Thread : c # NULL /\ OSResumeThread(c, t)
        BY <1>1, <2>1, <2>8
      <3>2. QED BY <3>1, ResumeStep
    <2>9. CASE OSExitThread(current)
      BY <2>1, <2>9, ExitStep
    <2>10. CASE \E t \in active \cap Cancellable : OSCancelThread(current, t)
      BY <1>1, <2>1, <2>10, CancelStep
    <2>11. CASE \E t \in active : OSJoinThread(current, t)
      BY <1>1, <2>1, <2>11, JoinStep
    <2>12. CASE \E t \in active : OSDetachThread(current, t)
      BY <1>1, <2>1, <2>12, DetachStep
    <2>13. CASE \E m \in Mutex : OSLockMutex(current, m)
      BY <2>1, <2>13, LockStep
    <2>14. CASE \E m \in Mutex : OSTryLockMutex(current, m)
      BY <2>1, <2>14, TryLockStep
    <2>15. CASE \E m \in Mutex : OSUnlockMutex(current, m)
      BY <2>1, <2>15, UnlockStep
    <2>16. QED
      BY <1>2, <2>2, <2>3, <2>4, <2>5, <2>6, <2>7, <2>8, <2>9, <2>10, <2>11, <2>12, <2>13, <2>14, <2>15
      DEF ThreadCall
  <1>3. CASE Interrupt
    <2>1. Isr # NULL
      BY Constants
    <2>2. CASE \E q \in UserQueue : OSWakeupThread(Isr, q)
      <3>1. PICK c \in {current, Isr}, q \in UserQueue : c # NULL /\ OSWakeupThread(c, q)
        BY <2>1, <2>2
      <3>2. QED BY <3>1, WakeupStep
    <2>3. CASE \E t \in active : OSResumeThread(Isr, t)
      <3>1. PICK c \in {current, Isr}, t \in Thread : c # NULL /\ OSResumeThread(c, t)
        BY <1>1, <2>1, <2>3
      <3>2. QED BY <3>1, ResumeStep
    <2>4. QED BY <1>3, <2>2, <2>3 DEF Interrupt
  <1>4. CASE KernelStep
    BY <1>4, WakeLoop, RescheduleTurn, YieldTurn, UpdateLoop, PromoteLoop, ExitHintTurn, CancelTurn,
       JoinTurn, LockLoop, LockSleeps, LockWakes, UnlockAllLoop, IsrReturns, IdleLeaves
    DEF KernelStep
  <1>5. CASE UNCHANGED vars
    BY <1>5, Stutters
  <1>6. QED BY <1>2, <1>3, <1>4, <1>5 DEF Next

(***************************************************************************)
(* The kernel's inductive invariant holds whatever the threads and the     *)
(* handlers of a program call, in whatever order.                          *)
(***************************************************************************)
THEOREM KernelInvariant == Spec => []KInv
  <1>1. Init => KInv
    BY InitOK
  <1>2. KInv /\ [Next]_vars => KInv'
    BY NextStep
  <1>3. QED BY <1>1, <1>2, PTL DEF Spec

(***************************************************************************)
(* Whatever switches, wake-ups, suspensions and cancellations happen, a    *)
(* thread is linked in exactly the queue that its state, its priority and  *)
(* its queue field name, once, and RunQueueBits has the bits of the run    *)
(* queues that are not empty: SelectThread finds a thread at the head of   *)
(* the queue it picks, and no unlinking follows a stale link.              *)
(***************************************************************************)
THEOREM KernelQueuesExact == Spec => []QueuesExact
  <1>1. KInv => QueuesExact
    BY PlacedExact DEF KInv
  <1>2. QED BY <1>1, KernelInvariant, PTL

(***************************************************************************)
(* OSMutex.thread, OSMutex.lock and the lists of the owners agree, also    *)
(* while __OSUnlockAllMutex tears a thread down in the middle of its calls *)
(* and the woken threads take the mutexes over.                            *)
(***************************************************************************)
THEOREM KernelMutexConsistent == Spec => []MutexConsistent
  <1>1. KInv => MutexConsistent
    BY DEF KInv
  <1>2. QED BY <1>1, KernelInvariant, PTL

(***************************************************************************)
(* Every wait queue is in priority order after each change of a sleeper's  *)
(* priority, which is why the head of a mutex's queue stands for the best  *)
(* of its waiters; and a thread sleeps on a mutex without an owner only    *)
(* while the wake-up is under way, so that a call has an owner to pass to  *)
(* UpdatePriority for a mutex that somebody waits for.                     *)
(***************************************************************************)
THEOREM KernelMutexWaiters == Spec => []MutexWaiters
  <1>1. KInv => WaitersHaveOwner
    <2> SUFFICES ASSUME KInv, NEW m \in Mutex, waiters[m] # << >>, owner[m] = NULL
                 PROVE  Cpu # NULL /\ Pending(Cpu, "OSWakeupThread", m)
      BY DEF WaitersHaveOwner
    <2>1. Running("OSWakeupThread") /\ Arg = m
      BY DEF KInv, WakeOwed
    <2>2. /\ Cpu # NULL /\ stack[Cpu] \in Seq(Frame) /\ stack[Cpu] # << >>
          /\ Head(stack[Cpu]).fn = "OSWakeupThread" /\ Head(stack[Cpu]).arg = m
      BY <2>1, InnerFacts DEF Inner
    <2> DEFINE s == stack[Cpu]
    <2>3. Head(s) = s[1] /\ 1 \in DOMAIN s
      <3> HIDE DEF s
      <3>1. s \in Seq(Frame) /\ s # << >>
        BY <2>2 DEF s
      <3>2. QED BY <3>1, HeadTailProperties, EmptySeq, LenProperties
    <2>4. QED BY <2>2, <2>3 DEF Pending
  <1>2. KInv => MutexWaiters
    BY <1>1 DEF KInv, MutexWaiters
  <1>3. QED BY <1>2, KernelInvariant, PTL

-----------------------------------------------------------------------------
(***************************************************************************)
(* How threads end.  A wake-up that is not a thread's innermost frame lies *)
(* under __OSUnlockAllMutex, so no thread is switched out in the middle of *)
(* one; and every dead thread's mutexes and joiners are still owed to it   *)
(* by some stack, not that of a disciplined thread that is dead and gone.  *)
(***************************************************************************)
EndFns == {"CancelTail", "__OSUnlockAllMutex", "OSWakeupThread"}

Under(s) ==
    \A i \in 1 .. Len(s) - 1 :
        s[i + 1].fn = "OSWakeupThread" => s[i].fn = "__OSUnlockAllMutex"

(* No frame of s tears a thread down.                                      *)
Plain(s) == \A f \in ToSet(s) : f.fn \in EndFns => f.arg \notin Thread

Awakened(s) == s # << >> => Head(s).fn # "OSWakeupThread"

Nested ==
    /\ \A c \in Context : Under(stack[c])
    /\ \A c \in Thread \ {current} : Awakened(stack[c])
    /\ \A f \in ToSet(stack[Isr]) : f.fn = "OSWakeupThread" => f.arg \in UserQueue

ReleaseOwed ==
    \A m \in Mutex : owner[m] # NULL /\ Dead(owner[m]) =>
        \E c \in Context : F("__OSUnlockAllMutex", owner[m]) \in ToSet(stack[c])

JoinersOwed ==
    \A t \in Thread : waiters[t] # << >> /\ Dead(t) =>
        \E c \in Context : F("OSWakeupThread", t) \in ToSet(stack[c])

(* What is left on the stack of a disciplined thread c that ends itself.   *)
EndShape(c, s) ==
    \/ Plain(s)
    \/ \E x \in {F("ExitHint", NULL), Reschedule} :
          \/ s = <<F("__OSUnlockAllMutex", c), F("OSWakeupThread", c), x>>
          \/ s = <<F("OSWakeupThread", c), x>>

Orderly ==
    \A c \in Disciplined : Dead(c) =>
        IF c = current THEN held[c] = << >> /\ EndShape(c, stack[c]) ELSE Plain(stack[c])

CancelOrderly ==
    \A c \in Thread, t \in Disciplined : F("CancelTail", t) \in ToSet(stack[c]) =>
        IF t = c THEN held[t] = << >> ELSE Plain(stack[t])

EInv == Nested /\ ReleaseOwed /\ JoinersOwed /\ Orderly /\ CancelOrderly

LEMMA Disciplines == Disciplined \subseteq Thread /\ Cancellable \subseteq Thread
                     /\ UserQueue \cap Thread = {} /\ UserQueue \cap Mutex = {}
                     /\ Thread \cap Mutex = {}
  BY CallsAssumption, ThreadAssumption

LEMMA PlainParts ==
    ASSUME NEW s \in Seq(Frame), s # << >>, Plain(s) PROVE Plain(Tail(s))
  BY Popped DEF Plain

(* The frames of a stack, named.                                           *)
LEMMA PendingSet ==
    ASSUME Stacked, NEW c \in Context, NEW fn \in EndFns, NEW x
    PROVE  Pending(c, fn, x) <=> F(fn, x) \in ToSet(stack[c])
  <1> DEFINE s == stack[c]
  <1>1. s \in Seq(Frame)
    BY DEF Stacked
  <1>2. \A f \in Frame : f.fn = fn /\ f.arg = x => f = F(fn, x)
    BY DEF Frame, F, EndFns
  <1>3. \A f \in ToSet(s) : f \in Frame
    <2> HIDE DEF s
    <2>1. QED BY <1>1 DEF ToSet
  <1>4. F(fn, x).fn = fn /\ F(fn, x).arg = x
    BY FrameIntro
  <1>5. Pending(c, fn, x) <=> \E f \in ToSet(s) : f.fn = fn /\ f.arg = x
    BY DEF Pending, ToSet
  <1> HIDE DEF s
  <1>6. (\E f \in ToSet(s) : f.fn = fn /\ f.arg = x) <=> F(fn, x) \in ToSet(s)
    BY <1>2, <1>3, <1>4
  <1>7. QED BY <1>5, <1>6 DEF s

LEMMA PlainEnding ==
    ASSUME Stacked, NEW c \in Context
    PROVE  (\A u \in Thread : ~Ending(c, u)) <=> Plain(stack[c])
  <1> DEFINE s == stack[c]
  <1>1. \A u \in Thread : Ending(c, u) <=> \E f \in ToSet(s) : f.fn \in EndFns /\ f.arg = u
    BY DEF Ending, Pending, ToSet, EndFns
  <1>2. (\A u \in Thread : ~\E f \in ToSet(s) : f.fn \in EndFns /\ f.arg = u) <=> Plain(s)
    <2> HIDE DEF s
    <2>1. QED BY DEF Plain
  <1>3. QED BY <1>1, <1>2

LEMMA UnderPopped ==
    ASSUME NEW s \in Seq(Frame), s # << >>, Under(s)
    PROVE  /\ Under(Tail(s))
           /\ Head(s).fn # "__OSUnlockAllMutex" => Awakened(Tail(s))
  <1>1. /\ Len(s) \in Nat \ {0} /\ Head(s) = s[1] /\ Len(Tail(s)) = Len(s) - 1
        /\ \A i \in 1 .. Len(s) - 1 : Tail(s)[i] = s[i + 1]
        /\ Tail(s) \in Seq(Frame)
    BY HeadTailProperties, EmptySeq, LenProperties
  <1>2. Under(Tail(s))
    <2>1. ASSUME NEW i \in 1 .. Len(s) - 2
          PROVE  Tail(s)[i] = s[i + 1] /\ Tail(s)[i + 1] = s[(i + 1) + 1] /\ i + 1 \in 1 .. Len(s) - 1
      BY <1>1
    <2>2. QED BY <1>1, <2>1 DEF Under
  <1>3. ASSUME Tail(s) # << >> PROVE Head(Tail(s)) = s[2] /\ 1 \in 1 .. Len(s) - 1
    <2>1. Len(Tail(s)) \in Nat \ {0} /\ Head(Tail(s)) = Tail(s)[1]
      BY <1>1, <1>3, HeadTailProperties, EmptySeq, LenProperties
    <2>2. QED BY <1>1, <2>1
  <1>4. QED BY <1>1, <1>2, <1>3 DEF Under, Awakened

LEMMA UnderPushed ==
    ASSUME NEW s \in Seq(Frame), NEW f \in Frame, Under(s),
           Awakened(s) \/ f.fn = "__OSUnlockAllMutex"
    PROVE  Under(<<f>> \o s)
  <1> DEFINE n == <<f>> \o s
  <1>1. /\ n \in Seq(Frame) /\ Len(n) = Len(s) + 1 /\ Len(s) \in Nat
        /\ n[1] = f /\ \A i \in 1 .. Len(s) : n[i + 1] = s[i]
    <2>1. <<f>> \in Seq(Frame) /\ Len(<<f>>) = 1 /\ <<f>>[1] = f
      OBVIOUS
    <2>2. QED BY <2>1, ConcatProperties, EmptySeq, LenProperties
  <1> HIDE DEF n
  <1>2. s # << >> => Head(s) = s[1] /\ Len(s) # 0
    BY HeadTailProperties, EmptySeq
  <1>3. ASSUME NEW i \in 1 .. Len(n) - 1, n[i + 1].fn = "OSWakeupThread"
        PROVE  n[i].fn = "__OSUnlockAllMutex"
    <2>1. CASE i = 1
      BY <1>1, <1>2, <1>3, <2>1, EmptySeq DEF Awakened
    <2>2. CASE i # 1
      <3>1. i - 1 \in 1 .. Len(s) - 1 /\ i - 1 \in 1 .. Len(s) /\ i \in 1 .. Len(s) /\ (i - 1) + 1 = i
        BY <1>1, <2>2
      <3>2. n[i] = s[i - 1] /\ n[i + 1] = s[(i - 1) + 1]
        BY <1>1, <3>1
      <3>3. QED BY <1>3, <3>1, <3>2 DEF Under
    <2>3. QED BY <2>1, <2>2
  <1>4. Under(n)
    BY <1>3 DEF Under
  <1>5. QED BY <1>4 DEF n

(* A thread that is dead when the states are st.                           *)
Gone(st, t) == st[t] \in {"MORIBUND", "EXITED"}

(* What the step of context c, which leaves it the frames n, still owes:   *)
(* frames go only when nothing is left to do for them.                     *)
ReleaseKept(c, n) ==
    \A m \in Mutex : owner'[m] # NULL /\ Gone(state', owner'[m]) =>
        LET f == F("__OSUnlockAllMutex", owner'[m]) IN
        \/ f \in ToSet(n)
        \/ owner[m] = owner'[m] /\ Gone(state, owner[m]) /\ f \notin ToSet(stack[c])

WakeKept(c, n) ==
    \A t \in Thread : waiters'[t] # << >> /\ Gone(state', t) =>
        LET f == F("OSWakeupThread", t) IN
        \/ f \in ToSet(n)
        \/ waiters[t] # << >> /\ Gone(state, t) /\ f \notin ToSet(stack[c])

OrderKept(c, n) ==
    /\ \A u \in Disciplined \ {c} : Gone(state', u) =>
          Gone(state, u) \/ (c # Isr /\ Plain(stack[u]))
    /\ c = Isr => held' = held
    /\ c \in Disciplined /\ Gone(state', c) =>
          IF c = current' THEN held'[c] = << >> /\ EndShape(c, n) ELSE Plain(n)

CancelKept(c, n) ==
    \A t \in Disciplined : F("CancelTail", t) \in ToSet(n) =>
        IF t = c THEN held'[t] = << >> ELSE Plain(stack[t])

LEMMA Kept ==
    ASSUME KInv, KInv', EInv, NEW c \in Context, NEW n \in Seq(Frame),
           stack' = [stack EXCEPT ![c] = n], c = current \/ c = Isr,
           c = Isr => current = NULL \/ (stack[current] = << >> /\ current' = current),
           Under(n), current' = current \/ c = Isr \/ Awakened(n),
           c = Isr => \A f \in ToSet(n) : f.fn = "OSWakeupThread" => f.arg \in UserQueue,
           current' \notin {current, NULL} => ~Gone(state', current'),
           ReleaseKept(c, n), WakeKept(c, n), OrderKept(c, n), CancelKept(c, n)
    PROVE  EInv'
  <1>1. /\ stack \in [Context -> Seq(Frame)] /\ current \in Thread \cup {NULL}
        /\ Isr \in Context /\ Thread \subseteq Context /\ Isr \notin Thread /\ NULL \notin Thread
        /\ Disciplined \subseteq Thread
    BY Constants, Disciplines DEF KInv, TypeOK, Context
  <1>2. stack'[c] = n /\ \A d \in Context \ {c} : stack'[d] = stack[d]
    BY <1>1
  <1>3. Nested'
    <2>1. \A d \in Context : Under(stack[d])
      BY DEF EInv, Nested
    <2>2. \A d \in Context : Under(stack'[d])
      BY <1>2, <2>1
    <2>3. ASSUME NEW d \in Thread \ {current'} PROVE Awakened(stack'[d])
      <3>1. CASE d = c
        <4>1. c # Isr /\ current' # current
          BY <1>1, <3>1
        <4>2. QED BY <1>2, <3>1, <4>1
      <3>2. CASE d # c
        <4>1. stack'[d] = stack[d]
          BY <1>1, <1>2, <3>2
        <4>2. d # current
          BY <1>1, <3>2
        <4>3. QED BY <4>1, <4>2 DEF EInv, Nested
      <3>3. QED BY <3>1, <3>2
    <2>4. \A f \in ToSet(stack'[Isr]) : f.fn = "OSWakeupThread" => f.arg \in UserQueue
      <3>1. CASE c = Isr
        BY <1>2, <3>1
      <3>2. CASE c # Isr
        <4>1. stack'[Isr] = stack[Isr]
          BY <1>1, <1>2, <3>2
        <4>2. QED BY <4>1 DEF EInv, Nested
      <3>3. QED BY <3>1, <3>2
    <2>5. QED BY <2>2, <2>3, <2>4 DEF Nested, Under, Awakened
  <1>4. ASSUME NEW f, NEW d \in Context, f \in ToSet(stack[d]), f \notin ToSet(stack[c])
        PROVE  \E e \in Context : f \in ToSet(stack'[e])
    <2>1. d # c
      BY <1>4
    <2>2. stack'[d] = stack[d]
      BY <1>2, <2>1
    <2>3. QED BY <1>4, <2>2
  <1>5. ReleaseOwed'
    <2>1. ASSUME NEW m \in Mutex, owner'[m] # NULL, Gone(state', owner'[m])
          PROVE  \E e \in Context : F("__OSUnlockAllMutex", owner'[m]) \in ToSet(stack'[e])
      <3> DEFINE f == F("__OSUnlockAllMutex", owner'[m])
      <3>1. \/ f \in ToSet(n)
            \/ owner[m] = owner'[m] /\ Gone(state, owner[m]) /\ f \notin ToSet(stack[c])
        BY <2>1 DEF ReleaseKept
      <3>2. CASE f \in ToSet(n)
        BY <1>2, <3>2
      <3>3. CASE owner[m] = owner'[m] /\ Gone(state, owner[m]) /\ f \notin ToSet(stack[c])
        <4>1. \E d \in Context : f \in ToSet(stack[d])
          BY <2>1, <3>3 DEF EInv, ReleaseOwed, Gone, Dead
        <4> HIDE DEF f
        <4>2. \E e \in Context : f \in ToSet(stack'[e])
          BY <1>4, <3>3, <4>1
        <4>3. QED BY <4>2 DEF f
      <3>4. QED BY <3>1, <3>2, <3>3
    <2>2. QED BY <2>1 DEF ReleaseOwed, Gone, Dead, F, ToSet
  <1>6. JoinersOwed'
    <2>1. ASSUME NEW t \in Thread, waiters'[t] # << >>, Gone(state', t)
          PROVE  \E e \in Context : F("OSWakeupThread", t) \in ToSet(stack'[e])
      <3> DEFINE f == F("OSWakeupThread", t)
      <3>1. \/ f \in ToSet(n)
            \/ waiters[t] # << >> /\ Gone(state, t) /\ f \notin ToSet(stack[c])
        BY <2>1 DEF WakeKept
      <3>2. CASE f \in ToSet(n)
        BY <1>2, <3>2
      <3>3. CASE waiters[t] # << >> /\ Gone(state, t) /\ f \notin ToSet(stack[c])
        <4>1. \E d \in Context : f \in ToSet(stack[d])
          BY <2>1, <3>3 DEF EInv, JoinersOwed, Gone, Dead
        <4> HIDE DEF f
        <4>2. \E e \in Context : f \in ToSet(stack'[e])
          BY <1>4, <3>3, <4>1
        <4>3. QED BY <4>2 DEF f
      <3>4. QED BY <3>1, <3>2, <3>3
    <2>2. QED BY <2>1 DEF JoinersOwed, Gone, Dead, F, ToSet
  <1>7. Orderly'
    <2>1. ASSUME NEW u \in Disciplined, Gone(state', u)
          PROVE  IF u = current' THEN held'[u] = << >> /\ EndShape(u, stack'[u])
                                 ELSE Plain(stack'[u])
      <3>1. CASE u = c
        BY <1>2, <2>1, <3>1 DEF OrderKept
      <3>2. CASE u # c
        <4>1. stack'[u] = stack[u]
          BY <1>1, <1>2, <3>2
        <4>2. u = current => c = Isr /\ current' = current
          BY <1>1, <3>2
        <4>3. u = current' => u = current
          BY <1>1, <2>1
        <4>4. CASE u = current
          <5>1. Gone(state, u) /\ held' = held
            BY <2>1, <3>2, <4>2, <4>4 DEF OrderKept
          <5>2. held[u] = << >> /\ EndShape(u, stack[u])
            BY <5>1, <4>4 DEF EInv, Orderly, Gone, Dead
          <5>3. QED BY <4>1, <4>2, <4>4, <5>1, <5>2
        <4>5. CASE u # current
          <5>1. Gone(state, u) \/ Plain(stack[u])
            BY <2>1, <3>2 DEF OrderKept
          <5>2. Plain(stack[u])
            BY <5>1, <4>5 DEF EInv, Orderly, Gone, Dead
          <5>3. QED BY <4>1, <4>3, <4>5, <5>2
        <4>6. QED BY <4>4, <4>5
      <3>3. QED BY <3>1, <3>2
    <2>2. QED BY <2>1 DEF Orderly, Gone, Dead, EndShape, Plain, F, ToSet, Reschedule
  <1>8. CancelOrderly'
    <2>1. ASSUME NEW d \in Thread, NEW t \in Disciplined, F("CancelTail", t) \in ToSet(stack'[d])
          PROVE  IF t = d THEN held'[t] = << >> ELSE Plain(stack'[t])
      <3>1. F("CancelTail", t).fn = "CancelTail"
        BY FrameIntro
      <3>2. d = c
        <4>1. SUFFICES ASSUME d # c PROVE FALSE
          OBVIOUS
        <4>2. stack'[d] = stack[d]
          BY <1>1, <1>2, <4>1
        <4>3. F("CancelTail", t) \in ToSet(stack[d])
          BY <2>1, <4>2
        <4>4. d = current
          BY <3>1, <4>3 DEF KInv, StackInv, Cancels
        <4>5. stack[d] = << >>
          BY <1>1, <4>1, <4>4
        <4>6. QED BY <4>3, <4>5 DEF ToSet
      <3>3. F("CancelTail", t) \in ToSet(n)
        BY <1>2, <2>1, <3>2
      <3>4. t # d => stack'[t] = stack[t]
        BY <1>1, <1>2, <3>2
      <3>5. QED BY <3>2, <3>3, <3>4 DEF CancelKept
    <2>2. QED BY <2>1 DEF CancelOrderly, Plain, F, ToSet
  <1>9. QED BY <1>3, <1>5, <1>6, <1>7, <1>8 DEF EInv

(* A call that ends no thread.                                             *)
LEMMA CallKept ==
    ASSUME KInv, KInv', EInv, NEW c \in {current, Isr}, c # NULL, MayCall(c),
           NEW n \in Seq(Frame), stack' = [stack EXCEPT ![c] = n], current' = current, Under(n),
           \A f \in ToSet(n) : f.fn \notin {"CancelTail", "__OSUnlockAllMutex"},
           c = Isr => \A f \in ToSet(n) : f.fn = "OSWakeupThread" => f.arg \in UserQueue,
           \A u \in Thread : Gone(state', u) => Gone(state, u),
           c = Isr => held' = held,
           \A m \in Mutex : owner'[m] # NULL /\ Gone(state', owner'[m]) => owner[m] = owner'[m],
           \A t \in Thread : waiters'[t] # << >> /\ Gone(state', t) => waiters[t] # << >>
    PROVE  EInv'
  <1>1. /\ stack[c] = << >> /\ c \in Context /\ (c # Isr => c = current /\ c \in Thread)
        /\ current # NULL => stack[current] = << >> /\ state[current] = "RUNNING"
        /\ current # NULL => current \in Thread
    BY CallFacts
  <1>2. Disciplined \subseteq Thread /\ Isr \notin Thread
    BY Disciplines, Constants
  <1>3. \A x : x \notin ToSet(stack[c])
    BY <1>1 DEF ToSet
  <1>4. \A m \in Mutex : owner'[m] \in Thread \cup {NULL}
    BY DEF KInv, TypeOK
  <1>5. ReleaseKept(c, n)
    BY <1>3, <1>4 DEF ReleaseKept
  <1>6. WakeKept(c, n)
    BY <1>3 DEF WakeKept
  <1>7. c \in Disciplined => ~Gone(state', c)
    <2>1. ASSUME c \in Disciplined PROVE ~Gone(state, c)
      BY <1>1, <1>2, <2>1 DEF Gone
    <2>2. QED BY <1>2, <2>1
  <1>8. OrderKept(c, n)
    BY <1>2, <1>7 DEF OrderKept
  <1>9. CancelKept(c, n)
    BY FrameIntro DEF CancelKept
  <1>10. c = Isr => current = NULL \/ (stack[current] = << >> /\ current' = current)
    BY <1>1
  <1>11. c = current \/ c = Isr
    OBVIOUS
  <1>12. current' \notin {current, NULL} => ~Gone(state', current')
    OBVIOUS
  <1>13. QED BY <1>1, <1>5, <1>6, <1>8, <1>9, <1>10, <1>11, <1>12, Kept

(* A stack in which only the innermost frame can be a wake-up.             *)
LEMMA UnderOne ==
    /\ \A a \in Frame : Under(<<a>>)
    /\ \A a, b \in Frame : b.fn # "OSWakeupThread" => Under(<<a, b>>)
    /\ \A a, b, d \in Frame :
          b.fn # "OSWakeupThread" /\ d.fn # "OSWakeupThread" => Under(<<a, b, d>>)
    /\ \A s \in Seq(Frame) : (\A f \in ToSet(s) : f.fn # "OSWakeupThread") => Under(s)
  <1>1. ASSUME NEW s \in Seq(Frame), \A f \in ToSet(s) : f.fn # "OSWakeupThread"
        PROVE  Under(s)
    <2>1. ASSUME NEW i \in 1 .. Len(s) - 1 PROVE s[i + 1] \in ToSet(s)
      <3>1. i + 1 \in 1 .. Len(s)
        BY LenProperties
      <3>2. QED BY <3>1 DEF ToSet
    <2>2. QED BY <1>1, <2>1 DEF Under
  <1>2. ASSUME NEW a \in Frame PROVE Under(<<a>>)
    <2>1. Len(<<a>>) - 1 = 0
      OBVIOUS
    <2>2. QED BY <2>1 DEF Under
  <1>3. ASSUME NEW a \in Frame, NEW b \in Frame, b.fn # "OSWakeupThread" PROVE Under(<<a, b>>)
    <2>1. \A i \in 1 .. Len(<<a, b>>) - 1 : <<a, b>>[i + 1] = b
      OBVIOUS
    <2>2. QED BY <1>3, <2>1 DEF Under
  <1>4. ASSUME NEW a \in Frame, NEW b \in Frame, NEW d \in Frame, b.fn # "OSWakeupThread",
               d.fn # "OSWakeupThread"
        PROVE  Under(<<a, b, d>>)
    <2>1. \A i \in 1 .. Len(<<a, b, d>>) - 1 : <<a, b, d>>[i + 1] \in {b, d}
      OBVIOUS
    <2>2. QED BY <1>4, <2>1 DEF Under
  <1>5. QED BY <1>1, <1>2, <1>3, <1>4

(* Calls that only enter a loop.                                           *)
LEMMA EnterKept ==
    ASSUME KInv, KInv', EInv, NEW c \in {current, Isr}, c # NULL, MayCall(c),
           NEW f \in Frame, f.fn \notin {"CancelTail", "__OSUnlockAllMutex"},
           f.fn = "OSWakeupThread" /\ c = Isr => f.arg \in UserQueue,
           Enter(c, <<f>>), current' = current,
           \A u \in Thread : Gone(state', u) => Gone(state, u),
           UNCHANGED <<held, owner, waiters>>
    PROVE  EInv'
  <1> DEFINE r == F("IsrReturn", NULL)
             n == IF c = Isr THEN <<f>> \o <<r>> ELSE <<f>>
  <1>1. r \in Frame /\ r.fn = "IsrReturn"
    BY FrameIntro
  <1>2. /\ <<f>> \in Seq(Frame) /\ ToSet(<<f>>) = {f} /\ Under(<<f>>)
        /\ <<f>> \o <<r>> \in Seq(Frame) /\ ToSet(<<f>> \o <<r>>) = {f, r}
        /\ Under(<<f>> \o <<r>>)
    <2> HIDE DEF r
    <2>1. PICK s \in Seq(Frame) : s = <<r>> /\ ToSet(s) = {r} /\ Head(s) = r /\ Under(s)
      BY <1>1, Stacks, UnderOne
    <2>2. Awakened(s)
      BY <1>1, <2>1 DEF Awakened
    <2>3. <<f>> \o s \in Seq(Frame) /\ ToSet(<<f>> \o s) = {f, r} /\ Under(<<f>> \o s)
      <3>1. <<f>> \o s \in Seq(Frame) /\ ToSet(<<f>> \o s) = ToSet(s) \cup {f}
        BY Pushed
      <3>2. Under(<<f>> \o s)
        BY <2>1, <2>2, UnderPushed
      <3>3. QED BY <2>1, <3>1, <3>2
    <2>4. <<f>> \in Seq(Frame) /\ ToSet(<<f>>) = {f} /\ Under(<<f>>)
      BY Stacks, UnderOne
    <2>5. QED BY <2>1, <2>3, <2>4
  <1>4. stack' = [stack EXCEPT ![c] = n]
    BY DEF Enter
  <1> HIDE DEF r
  <1>5. n \in Seq(Frame) /\ Under(n) /\ ToSet(n) \subseteq {f, r}
    BY <1>2
  <1> HIDE DEF n
  <1>6. \A g \in ToSet(n) : g.fn \notin {"CancelTail", "__OSUnlockAllMutex"}
    BY <1>1, <1>5
  <1>7. c = Isr => \A g \in ToSet(n) : g.fn = "OSWakeupThread" => g.arg \in UserQueue
    BY <1>1, <1>5
  <1>8. \A m \in Mutex : owner'[m] # NULL /\ Gone(state', owner'[m]) => owner[m] = owner'[m]
    OBVIOUS
  <1>9. \A t \in Thread : waiters'[t] # << >> /\ Gone(state', t) => waiters[t] # << >>
    OBVIOUS
  <1>10. c = Isr => held' = held
    OBVIOUS
  <1>11. QED BY <1>4, <1>5, <1>6, <1>7, <1>8, <1>9, <1>10, CallKept

(* Calls that change no stack.                                             *)
LEMMA StillKept ==
    ASSUME KInv, KInv', EInv, NEW c \in {current, Isr}, c # NULL, MayCall(c),
           stack' = stack, current' = current,
           \A u \in Thread : Gone(state', u) => Gone(state, u),
           c = Isr => held' = held,
           \A m \in Mutex : owner'[m] # NULL /\ Gone(state', owner'[m]) => owner[m] = owner'[m],
           \A t \in Thread : waiters'[t] # << >> /\ Gone(state', t) => waiters[t] # << >>
    PROVE  EInv'
  <1> DEFINE n == << >>
  <1>1. stack[c] = << >> /\ c \in Context /\ stack \in [Context -> Seq(Frame)]
    BY CallFacts DEF Stacked
  <1>2. stack' = [stack EXCEPT ![c] = n]
    BY <1>1
  <1>3. n \in Seq(Frame) /\ \A f : f \notin ToSet(n)
    BY DEF ToSet
  <1>4. Under(n)
    BY <1>3, UnderOne
  <1> HIDE DEF n
  <1>5. /\ \A f \in ToSet(n) : f.fn \notin {"CancelTail", "__OSUnlockAllMutex"}
        /\ c = Isr => \A f \in ToSet(n) : f.fn = "OSWakeupThread" => f.arg \in UserQueue
    BY <1>3
  <1>6. QED BY <1>2, <1>3, <1>4, <1>5, CallKept

(* Calls that may change a priority and then reschedule.                   *)
LEMMA RescheduleKept ==
    ASSUME KInv, KInv', EInv, NEW c \in {current, Isr}, c # NULL, MayCall(c),
           NEW fs \in Seq(Frame),
           \A f \in ToSet(fs) : f.fn \in {"UpdatePriority", "__OSReschedule", "JoinTail"},
           Enter(c, fs), current' = current,
           \A u \in Thread : Gone(state', u) => Gone(state, u),
           UNCHANGED <<held, owner>>,
           \A t \in Thread : waiters'[t] # << >> /\ Gone(state', t) => waiters[t] # << >>
    PROVE  EInv'
  <1> DEFINE r == F("IsrReturn", NULL)
             n == IF c = Isr THEN fs \o <<r>> ELSE fs
  <1>1. r.fn = "IsrReturn"
    BY FrameIntro
  <1>2. fs \o <<r>> \in Seq(Frame) /\ ToSet(fs \o <<r>>) = ToSet(fs) \cup {r}
    BY Dispatched
  <1>3. stack' = [stack EXCEPT ![c] = n]
    BY DEF Enter
  <1> HIDE DEF r
  <1>4. n \in Seq(Frame) /\ ToSet(n) \subseteq ToSet(fs) \cup {r}
    BY <1>2
  <1> HIDE DEF n
  <1>5. \A f \in ToSet(n) : f.fn \notin EndFns
    BY <1>1, <1>4 DEF EndFns
  <1>6. Under(n)
    BY <1>4, <1>5, UnderOne DEF EndFns
  <1>7. /\ \A f \in ToSet(n) : f.fn \notin {"CancelTail", "__OSUnlockAllMutex"}
        /\ c = Isr => \A f \in ToSet(n) : f.fn = "OSWakeupThread" => f.arg \in UserQueue
    BY <1>5 DEF EndFns
  <1>8. \A m \in Mutex : owner'[m] # NULL /\ Gone(state', owner'[m]) => owner[m] = owner'[m]
    OBVIOUS
  <1>9. c = Isr => held' = held
    OBVIOUS
  <1>10. QED BY <1>3, <1>4, <1>6, <1>7, <1>8, <1>9, CallKept

LEMMA WakeupEnds ==
    ASSUME KInv, KInv', EInv, NEW c \in {current, Isr}, c # NULL, NEW q \in UserQueue,
           OSWakeupThread(c, q)
    PROVE  EInv'
  <1> DEFINE f == F("OSWakeupThread", q)
  <1>1. MayCall(c) /\ Enter(c, <<f>>) /\ UNCHANGED <<threadVars, queueVars, mutexVars, current>>
    BY DEF OSWakeupThread
  <1>2. f \in Frame /\ f.fn = "OSWakeupThread" /\ f.arg = q
    BY FrameIntro, Constants
  <1> HIDE DEF f
  <1>3. f.fn \notin {"CancelTail", "__OSUnlockAllMutex"}
        /\ (f.fn = "OSWakeupThread" /\ c = Isr => f.arg \in UserQueue)
    BY <1>2
  <1>4. /\ \A u \in Thread : Gone(state', u) => Gone(state, u)
        /\ current' = current /\ UNCHANGED <<held, owner, waiters>>
    BY <1>1 DEF threadVars, queueVars, mutexVars, Gone
  <1>5. QED BY <1>1, <1>2, <1>3, <1>4, EnterKept

(* The running thread as the caller.                                       *)
LEMMA Caller == current \in Thread =>
    current \in {current, Isr} /\ current # NULL /\ current # Isr
  BY Constants

LEMMA DetachEnds ==
    ASSUME KInv, KInv', EInv, current \in Thread, NEW t \in Thread, OSDetachThread(current, t)
    PROVE  EInv'
  <1> DEFINE f == F("OSWakeupThread", t)
  <1>1. /\ MayCall(current) /\ Enter(current, <<f>>) /\ Reap(t)
        /\ current' = current /\ UNCHANGED <<held, owner, waiters>>
    BY DEF OSDetachThread, mutexVars, queueVars
  <1>2. f \in Frame /\ f.fn = "OSWakeupThread"
    BY FrameIntro, Constants
  <1> HIDE DEF f
  <1>3. f.fn \notin {"CancelTail", "__OSUnlockAllMutex"}
        /\ (f.fn = "OSWakeupThread" /\ current = Isr => f.arg \in UserQueue)
    BY <1>2, Caller
  <1>4. \A u \in Thread : Gone(state', u) => Gone(state, u)
    BY <1>1 DEF Reap, Gone, KInv, TypeOK
  <1>5. QED BY <1>1, <1>2, <1>3, <1>4, Caller, EnterKept

LEMMA OneFrameEnds ==
    ASSUME KInv, KInv', EInv, current \in Thread, MayCall(current), NEW f \in Frame,
           f.fn \in {"OSYieldThread", "OSLockMutex"}, Enter(current, <<f>>),
           UNCHANGED <<threadVars, queueVars, mutexVars, current>>
    PROVE  EInv'
  <1>1. f.fn \notin {"CancelTail", "__OSUnlockAllMutex"}
        /\ (f.fn = "OSWakeupThread" /\ current = Isr => f.arg \in UserQueue)
    OBVIOUS
  <1>2. /\ \A u \in Thread : Gone(state', u) => Gone(state, u)
        /\ current' = current /\ UNCHANGED <<held, owner, waiters>>
    BY DEF threadVars, queueVars, mutexVars, Gone
  <1>3. QED BY <1>1, <1>2, Caller, EnterKept

LEMMA YieldEnds ==
    ASSUME KInv, KInv', EInv, current \in Thread, OSYieldThread(current) PROVE EInv'
  <1> DEFINE f == F("OSYieldThread", NULL)
  <1>1. f \in Frame /\ f.fn = "OSYieldThread"
    BY FrameIntro
  <1>2. /\ MayCall(current) /\ Enter(current, <<f>>)
        /\ UNCHANGED <<threadVars, queueVars, mutexVars, current>>
    BY DEF OSYieldThread
  <1> HIDE DEF f
  <1>3. QED BY <1>1, <1>2, OneFrameEnds

LEMMA LockEnds ==
    ASSUME KInv, KInv', EInv, current \in Thread, NEW m \in Mutex, OSLockMutex(current, m)
    PROVE  EInv'
  <1> DEFINE f == F("OSLockMutex", m)
  <1>1. f \in Frame /\ f.fn = "OSLockMutex"
    BY FrameIntro
  <1>2. /\ MayCall(current) /\ Enter(current, <<f>>)
        /\ UNCHANGED <<threadVars, queueVars, mutexVars, current>>
    BY DEF OSLockMutex
  <1> HIDE DEF f
  <1>3. QED BY <1>1, <1>2, OneFrameEnds

LEMMA SetPriorityEnds ==
    ASSUME KInv, KInv', EInv, current \in Thread, NEW t \in Thread, NEW p \in Priority,
           OSSetThreadPriority(current, t, p)
    PROVE  EInv'
  <1> DEFINE fs == <<F("UpdatePriority", t), Reschedule>>
  <1>1. /\ MayCall(current) /\ Enter(current, fs) /\ state' = state
        /\ current' = current /\ UNCHANGED <<held, owner, waiters>>
    BY DEF OSSetThreadPriority, queueVars, mutexVars
  <1>2. fs \in Seq(Frame) /\ \A f \in ToSet(fs) : f.fn \in {"UpdatePriority", "__OSReschedule"}
    BY UpdateFrames
  <1> HIDE DEF fs
  <1>3. \A f \in ToSet(fs) : f.fn \in {"UpdatePriority", "__OSReschedule", "JoinTail"}
    BY <1>2
  <1>4. /\ \A u \in Thread : Gone(state', u) => Gone(state, u)
        /\ \A u \in Thread : waiters'[u] # << >> /\ Gone(state', u) => waiters[u] # << >>
        /\ UNCHANGED <<held, owner>>
    BY <1>1
  <1>5. QED BY <1>1, <1>2, <1>3, <1>4, Caller, RescheduleKept

LEMMA SleepEnds ==
    ASSUME KInv, KInv', EInv, current \in Thread, NEW q \in UserQueue, OSSleepThread(current, q)
    PROVE  EInv'
  <1> DEFINE fs == <<Reschedule>>
  <1>1. /\ MayCall(current) /\ Enter(current, fs) /\ SleepOn(current, q)
        /\ current' = current /\ UNCHANGED <<held, owner>>
    BY DEF OSSleepThread, mutexVars
  <1>2. fs \in Seq(Frame) /\ \A f \in ToSet(fs) : f.fn \in {"UpdatePriority", "__OSReschedule"}
    BY UpdateFrames
  <1> HIDE DEF fs
  <1>3. \A f \in ToSet(fs) : f.fn \in {"UpdatePriority", "__OSReschedule", "JoinTail"}
    BY <1>2
  <1>4. \A u \in Thread : Gone(state', u) => Gone(state, u)
    BY <1>1 DEF SleepOn, Gone, KInv, TypeOK
  <1>5. \A u \in Thread : waiters'[u] # << >> /\ Gone(state', u) => waiters[u] # << >>
    <2>1. \A u \in Thread : u # q /\ u \in WaitQueue
      BY Disciplines, Constants
    <2>2. \A u \in Thread : waiters'[u] = waiters[u]
      BY <1>1, <2>1 DEF SleepOn, KInv, TypeOK
    <2>3. QED BY <2>2
  <1>6. QED BY <1>1, <1>2, <1>3, <1>4, <1>5, Caller, RescheduleKept

LEMMA JoinEnds ==
    ASSUME KInv, KInv', EInv, current \in Thread, NEW t \in Thread, OSJoinThread(current, t)
    PROVE  EInv'
  <1>1. /\ MayCall(current) /\ t # current /\ state[t] # "EXITED"
        /\ current' = current /\ UNCHANGED <<held, owner>>
    BY DEF OSJoinThread, mutexVars
  <1>2. /\ state \in [Thread -> {"READY", "RUNNING", "SLEEPING", "MORIBUND", "EXITED"}]
        /\ waiters \in [WaitQueue -> Seq(Thread)] /\ Thread \subseteq WaitQueue
    BY Constants DEF KInv, TypeOK
  <1>3. CASE /\ state[t] # "MORIBUND" /\ SleepOn(current, t)
             /\ Enter(current, <<Reschedule, F("JoinTail", t)>>)
    <2> DEFINE g == F("JoinTail", t)
               fs == <<Reschedule, g>>
    <2>1. g \in Frame /\ g.fn = "JoinTail" /\ Reschedule \in Frame /\ Reschedule.fn = "__OSReschedule"
      BY FrameIntro
    <2>2. Enter(current, fs)
      BY <1>3
    <2> HIDE DEF g
    <2>3. fs \in Seq(Frame) /\ ToSet(fs) = {Reschedule, g}
      BY <2>1, Stacks
    <2> HIDE DEF fs
    <2>4. \A f \in ToSet(fs) : f.fn \in {"UpdatePriority", "__OSReschedule", "JoinTail"}
      BY <2>1, <2>3
    <2>5. \A u \in Thread : state'[u] = IF u = current THEN "SLEEPING" ELSE state[u]
      BY <1>2, <1>3 DEF SleepOn
    <2>6. \A u \in Thread : Gone(state', u) => Gone(state, u)
      BY <2>5 DEF Gone
    <2>7. \A u \in Thread : waiters'[u] # << >> /\ Gone(state', u) => waiters[u] # << >>
      <3>1. \A u \in Thread \ {t} : waiters'[u] = waiters[u]
        BY <1>2, <1>3 DEF SleepOn
      <3>2. ~Gone(state', t)
        BY <1>1, <1>3, <2>5 DEF Gone
      <3>3. QED BY <3>1, <3>2
    <2>8. QED BY <1>1, <2>2, <2>3, <2>4, <2>6, <2>7, Caller, RescheduleKept
  <1>4. CASE Reap(t) /\ UNCHANGED <<queueVars, stack>>
    <2>1. \A u \in Thread : Gone(state', u) => Gone(state, u)
      BY <1>2, <1>4 DEF Reap, Gone
    <2>2. waiters' = waiters /\ stack' = stack
      BY <1>4 DEF queueVars
    <2>3. /\ current = Isr => held' = held
          /\ \A m \in Mutex : owner'[m] # NULL /\ Gone(state', owner'[m]) => owner[m] = owner'[m]
          /\ \A u \in Thread : waiters'[u] # << >> /\ Gone(state', u) => waiters[u] # << >>
      BY <1>1, <2>2
    <2>4. QED BY <1>1, <2>1, <2>2, <2>3, Caller, StillKept
  <1>5. QED BY <1>3, <1>4 DEF OSJoinThread

LEMMA TryLockEnds ==
    ASSUME KInv, KInv', EInv, current \in Thread, NEW m \in Mutex, OSTryLockMutex(current, m)
    PROVE  EInv'
  <1>1. /\ MayCall(current) /\ UNCHANGED <<state, waiters, current, stack>>
        /\ \A x \in Mutex : owner'[x] \in {owner[x], current}
    BY DEF OSTryLockMutex, Acquire, threadVars, queueVars, KInv, TypeOK
  <1>2. state[current] = "RUNNING" /\ current # Isr
    BY <1>1, Caller, CallFacts
  <1>3. ~Gone(state', current)
    BY <1>1, <1>2 DEF Gone
  <1>4. /\ current = Isr => held' = held
        /\ \A x \in Mutex : owner'[x] # NULL /\ Gone(state', owner'[x]) => owner[x] = owner'[x]
        /\ \A u \in Thread : waiters'[u] # << >> /\ Gone(state', u) => waiters[u] # << >>
        /\ \A u \in Thread : Gone(state', u) => Gone(state, u)
    BY <1>1, <1>2, <1>3
  <1>5. QED BY <1>1, <1>4, Caller, StillKept

LEMMA UnlockEnds ==
    ASSUME KInv, KInv', EInv, current \in Thread, NEW m \in Mutex, OSUnlockMutex(current, m)
    PROVE  EInv'
  <1>1. /\ MayCall(current) /\ UNCHANGED <<state, waiters>> /\ current' = current
        /\ \A x \in Mutex : owner'[x] \in {owner[x], NULL}
    BY DEF OSUnlockMutex, queueVars, KInv, TypeOK
  <1>2. /\ \A x \in Mutex : owner'[x] # NULL /\ Gone(state', owner'[x]) => owner[x] = owner'[x]
        /\ \A u \in Thread : waiters'[u] # << >> /\ Gone(state', u) => waiters[u] # << >>
        /\ \A u \in Thread : Gone(state', u) => Gone(state, u)
        /\ current = Isr => held' = held
    BY <1>1, Caller
  <1>3. CASE stack' = stack
    BY <1>1, <1>2, <1>3, Caller, StillKept
  <1>4. CASE Enter(current, AfterRelease(m))
    <2> DEFINE f == F("OSWakeupThread", m)
               n == <<f>>
    <2>1. f \in Frame /\ f.fn = "OSWakeupThread"
      BY FrameIntro, Constants
    <2>2. stack' = [stack EXCEPT ![current] = n]
      BY <1>4, Caller DEF Enter, AfterRelease
    <2> HIDE DEF f
    <2>3. n \in Seq(Frame) /\ ToSet(n) = {f} /\ Under(n)
      BY <2>1, Stacks, UnderOne
    <2> HIDE DEF n
    <2>4. /\ \A g \in ToSet(n) : g.fn \notin {"CancelTail", "__OSUnlockAllMutex"}
          /\ current = Isr => \A g \in ToSet(n) : g.fn = "OSWakeupThread" => g.arg \in UserQueue
      BY <2>1, <2>3, Caller
    <2>5. QED BY <1>1, <1>2, <2>2, <2>3, <2>4, Caller, CallKept
  <1>5. QED BY <1>3, <1>4 DEF OSUnlockMutex

(* Changing the places of sleepers in a queue that has some.               *)
LEMMA RequeueKept ==
    ASSUME KInv, KInv', EInv, NEW c \in {current, Isr}, c # NULL, MayCall(c), NEW t \in Thread,
           \/ stack' = stack
           \/ Enter(c, <<Reschedule>>)
           \/ Enter(c, UpdateOwner(t) \o <<Reschedule>>),
           current' = current, UNCHANGED <<held, owner>>,
           \A u \in Thread : Gone(state', u) => Gone(state, u),
           \/ waiters' = waiters
           \/ /\ state[t] = "SLEEPING"
              /\ \A q \in WaitQueue : q # queue[t] => waiters'[q] = waiters[q]
    PROVE  EInv'
  <1>1. \A u \in Thread : waiters'[u] # << >> /\ Gone(state', u) => waiters[u] # << >>
    <2>1. CASE waiters' = waiters
      BY <2>1
    <2>2. CASE /\ state[t] = "SLEEPING"
               /\ \A q \in WaitQueue : q # queue[t] => waiters'[q] = waiters[q]
      <3>1. ~Cancelling(t)
        BY CallFacts
      <3>2. t \in ToSet(waiters[queue[t]]) /\ waiters[queue[t]] \in Seq(Thread)
        BY <2>2, <3>1, SleeperIn DEF KInv
      <3>3. waiters[queue[t]] # << >>
        BY <3>2, EmptySet
      <3>4. QED BY <2>2, <3>3, Constants
    <2>3. QED BY <2>1, <2>2
  <1>2. CASE stack' = stack
    BY <1>1, <1>2, StillKept
  <1>3. CASE Enter(c, <<Reschedule>>)
    <2> DEFINE fs == <<Reschedule>>
    <2>1. /\ fs \in Seq(Frame)
          /\ \A f \in ToSet(fs) : f.fn \in {"UpdatePriority", "__OSReschedule"}
      BY UpdateFrames
    <2>2. Enter(c, fs)
      BY <1>3
    <2> HIDE DEF fs
    <2>3. \A f \in ToSet(fs) : f.fn \in {"UpdatePriority", "__OSReschedule", "JoinTail"}
      BY <2>1
    <2>4. QED BY <1>1, <2>1, <2>2, <2>3, RescheduleKept
  <1>4. CASE Enter(c, UpdateOwner(t) \o <<Reschedule>>)
    <2> DEFINE fs == UpdateOwner(t) \o <<Reschedule>>
    <2>1. /\ fs \in Seq(Frame)
          /\ \A f \in ToSet(fs) : f.fn \in {"UpdatePriority", "__OSReschedule"}
      BY OwnerFrames DEF KInv
    <2>2. Enter(c, fs)
      BY <1>4
    <2> HIDE DEF fs
    <2>3. \A f \in ToSet(fs) : f.fn \in {"UpdatePriority", "__OSReschedule", "JoinTail"}
      BY <2>1
    <2>4. QED BY <1>1, <2>1, <2>2, <2>3, RescheduleKept
  <1>5. QED BY <1>2, <1>3, <1>4

LEMMA SuspendEnds ==
    ASSUME KInv, KInv', EInv, current \in Thread, NEW t \in Thread, OSSuspendThread(current, t)
    PROVE  EInv'
  <1>1. MayCall(current) /\ current' = current /\ UNCHANGED <<held, owner>>
    BY DEF OSSuspendThread, mutexVars
  <1>2. /\ state \in [Thread -> {"READY", "RUNNING", "SLEEPING", "MORIBUND", "EXITED"}]
        /\ waiters \in [WaitQueue -> Seq(Thread)]
    BY DEF KInv, TypeOK
  <1>3. \/ stack' = stack
        \/ Enter(current, <<Reschedule>>)
        \/ Enter(current, UpdateOwner(t) \o <<Reschedule>>)
    BY DEF OSSuspendThread
  <1>4. \A u \in Thread : state'[u] = state[u] \/ state'[u] = "READY"
    BY <1>2 DEF OSSuspendThread
  <1>5. \A u \in Thread : Gone(state', u) => Gone(state, u)
    BY <1>4 DEF Gone
  <1>6. \/ waiters' = waiters
        \/ /\ state[t] = "SLEEPING"
           /\ \A q \in WaitQueue : q # queue[t] => waiters'[q] = waiters[q]
    BY <1>2 DEF OSSuspendThread, queueVars, UnsetRun
  <1>7. QED BY <1>1, <1>3, <1>5, <1>6, Caller, RequeueKept

LEMMA ResumeEnds ==
    ASSUME KInv, KInv', EInv, NEW c \in {current, Isr}, c # NULL, NEW t \in Thread,
           OSResumeThread(c, t)
    PROVE  EInv'
  <1>1. MayCall(c) /\ current' = current /\ state' = state /\ UNCHANGED <<held, owner>>
    BY DEF OSResumeThread, mutexVars
  <1>2. /\ state \in [Thread -> {"READY", "RUNNING", "SLEEPING", "MORIBUND", "EXITED"}]
        /\ waiters \in [WaitQueue -> Seq(Thread)]
    BY DEF KInv, TypeOK
  <1>3. \/ stack' = stack
        \/ Enter(c, <<Reschedule>>)
        \/ Enter(c, UpdateOwner(t) \o <<Reschedule>>)
    BY DEF OSResumeThread
  <1>4. \A u \in Thread : Gone(state', u) => Gone(state, u)
    BY <1>1
  <1>5. \/ waiters' = waiters
        \/ /\ state[t] = "SLEEPING"
           /\ \A q \in WaitQueue : q # queue[t] => waiters'[q] = waiters[q]
    <2>1. CASE waiters' = waiters
      BY <2>1
    <2>2. CASE waiters' # waiters
      <3>1. /\ state[t] = "SLEEPING"
            /\ LET unlinked == [waiters EXCEPT ![queue[t]] = Without(@, t)] IN
               waiters' = [unlinked EXCEPT ![queue[t]] = InsertByPriority(@, t, priority')]
        BY <2>2 DEF OSResumeThread, queueVars
      <3>2. QED BY <1>2, <3>1
    <2>3. QED BY <2>1, <2>2
  <1>6. QED BY <1>1, <1>3, <1>4, <1>5, RequeueKept

(* A thread dies, by its own call or by that of the running thread.        *)
LEMMA DeathKept ==
    ASSUME KInv, KInv', EInv, current \in Thread, state[current] = "RUNNING", NEW t \in Thread,
           NEW x \in {F("ExitHint", NULL), Reschedule},
           current # NULL => stack[Isr] = << >>,
           \A f \in ToSet(stack[current]) : f.fn \notin {"__OSUnlockAllMutex", "OSWakeupThread"},
           \A u \in Thread \ {t} : state'[u] = state[u],
           stack' = [stack EXCEPT ![current] = TearDown(t) \o <<x>>], current' = current,
           UNCHANGED <<held, owner, waiters>>,
           t \in Disciplined => IF t = current THEN held[t] = << >> ELSE Plain(stack[t])
    PROVE  EInv'
  <1> DEFINE a == F("__OSUnlockAllMutex", t)
             b == F("OSWakeupThread", t)
             n == <<a, b, x>>
  <1>1. /\ x \in Frame /\ x.fn \in {"ExitHint", "__OSReschedule"}
        /\ a \in Frame /\ a.fn = "__OSUnlockAllMutex" /\ b \in Frame /\ b.fn = "OSWakeupThread"
    BY FrameIntro, Constants
  <1>2. stack' = [stack EXCEPT ![current] = n]
    BY <1>1, TornFrames
  <1>3. /\ current \in Context /\ current # Isr /\ Isr \notin Thread /\ Disciplined \subseteq Thread
        /\ \A m \in Mutex : owner[m] \in Thread \cup {NULL}
    BY Constants, Disciplines DEF Context, KInv, TypeOK
  <1>4. EndShape(t, n)
    BY DEF EndShape
  <1>5. a \in ToSet(n) /\ b \in ToSet(n)
        /\ \A f \in ToSet(n) : f \in {a, b, x}
    <2> HIDE DEF a, b
    <2>1. x \in Frame /\ a \in Frame /\ b \in Frame
      BY <1>1
    <2>2. /\ n \in Seq(Frame) /\ n[1] = a /\ n[2] = b /\ n[3] = x
          /\ DOMAIN n = 1 .. 3
      BY <2>1
    <2>3. \A i \in 1 .. 3 : i = 1 \/ i = 2 \/ i = 3
      OBVIOUS
    <2> HIDE DEF n
    <2>4. ToSet(n) = {a, b, x}
      BY <2>2, <2>3 DEF ToSet
    <2>5. QED BY <2>4
  <1>6. n \in Seq(Frame) /\ Under(n)
    <2> HIDE DEF a, b
    <2>1. n \in Seq(Frame) /\ Len(n) = 3 /\ n[1] = a /\ n[2] = b /\ n[3] = x
      BY <1>1
    <2> HIDE DEF n
    <2>2. \A i \in 1 .. Len(n) - 1 : i = 1 \/ i = 2
      BY <2>1
    <2>3. QED BY <1>1, <2>1, <2>2 DEF Under
  <1> HIDE DEF n
  <1>7. ReleaseKept(current, n)
    <2>1. ASSUME NEW m \in Mutex, owner'[m] # NULL, Gone(state', owner'[m])
          PROVE  LET f == F("__OSUnlockAllMutex", owner'[m]) IN
                 \/ f \in ToSet(n)
                 \/ owner[m] = owner'[m] /\ Gone(state, owner[m]) /\ f \notin ToSet(stack[current])
      <3>1. owner'[m] = owner[m] /\ owner[m] \in Thread
        BY <1>3, <2>1
      <3>2. CASE owner[m] = t
        BY <1>5, <3>1, <3>2
      <3>3. CASE owner[m] # t
        <4>1. Gone(state, owner[m])
          BY <2>1, <3>1, <3>3 DEF Gone
        <4>2. F("__OSUnlockAllMutex", owner'[m]) \notin ToSet(stack[current])
          BY FrameIntro
        <4>3. QED BY <3>1, <4>1, <4>2
      <3>4. QED BY <3>2, <3>3
    <2>2. QED BY <2>1 DEF ReleaseKept
  <1>8. WakeKept(current, n)
    <2>1. ASSUME NEW u \in Thread, waiters'[u] # << >>, Gone(state', u)
          PROVE  LET f == F("OSWakeupThread", u) IN
                 \/ f \in ToSet(n)
                 \/ waiters[u] # << >> /\ Gone(state, u) /\ f \notin ToSet(stack[current])
      <3>1. CASE u = t
        BY <1>5, <3>1
      <3>2. CASE u # t
        <4>1. Gone(state, u)
          BY <2>1, <3>2 DEF Gone
        <4>2. F("OSWakeupThread", u) \notin ToSet(stack[current])
          BY FrameIntro
        <4>3. QED BY <2>1, <4>1, <4>2
      <3>3. QED BY <3>1, <3>2
    <2>2. QED BY <2>1 DEF WakeKept
  <1>9. OrderKept(current, n)
    <2>1. \A u \in Disciplined \ {current} : Gone(state', u) => Gone(state, u) \/ Plain(stack[u])
      BY <1>3 DEF Gone
    <2>2. current \in Disciplined /\ Gone(state', current) => held'[current] = << >> /\ EndShape(current, n)
      BY <1>3, <1>4 DEF Gone
    <2>3. QED BY <1>3, <2>1, <2>2 DEF OrderKept
  <1>10. CancelKept(current, n)
    BY <1>1, <1>5, FrameIntro DEF CancelKept
  <1>11. /\ current = Isr => current = NULL \/ (stack[current] = << >> /\ current' = current)
         /\ current = Isr => \A f \in ToSet(n) : f.fn = "OSWakeupThread" => f.arg \in UserQueue
         /\ current' \notin {current, NULL} => ~Gone(state', current')
    BY <1>3
  <1>12. QED BY <1>2, <1>3, <1>6, <1>7, <1>8, <1>9, <1>10, <1>11, Kept

LEMMA ExitEnds ==
    ASSUME KInv, KInv', EInv, current \in Thread, MayEnd(current, current), OSExitThread(current)
    PROVE  EInv'
  <1> DEFINE x == F("ExitHint", NULL)
  <1>1. /\ MayCall(current) /\ Die(current) /\ current' = current
        /\ UNCHANGED <<held, owner, waiters>>
    BY DEF OSExitThread, queueVars, mutexVars
  <1>2. stack' = [stack EXCEPT ![current] = TearDown(current) \o <<x>>]
    BY Caller DEF OSExitThread, Enter
  <1>3. state[current] = "RUNNING" /\ stack[Isr] = << >> /\ stack[current] = << >>
    BY <1>1, Caller, CallFacts
  <1>4. \A f : f \notin ToSet(stack[current])
    BY <1>3 DEF ToSet
  <1>5. \A u \in Thread \ {current} : state'[u] = state[u]
    BY <1>1 DEF Die, KInv, TypeOK
  <1>6. current \in Disciplined => held[current] = << >>
    BY DEF MayEnd
  <1>7. x \in {F("ExitHint", NULL), Reschedule}
    OBVIOUS
  <1> HIDE DEF x
  <1>8. QED BY <1>1, <1>2, <1>3, <1>4, <1>5, <1>6, <1>7, DeathKept

LEMMA CancelTailEnds == ASSUME KInv, KInv', EInv, CancelTail PROVE EInv'
  <1>1. /\ Running("CancelTail") /\ Die(Arg) /\ Become(TearDown(Arg) \o <<Reschedule>>)
        /\ current' = current /\ UNCHANGED <<held, owner, waiters>>
    BY DEF CancelTail, queueVars, mutexVars
  <1>2. "CancelTail" \notin Inner /\ "CancelTail" \notin IsrFrames /\ "CancelTail" \notin Teardown
    BY DEF Inner, IsrFrames, Teardown
  <1>3. /\ current \in Thread /\ stack[Isr] = << >> /\ state[current] = "RUNNING"
        /\ Head(stack[current]) \in Frame /\ Head(stack[current]).fn = "CancelTail"
        /\ ToSet(stack[current]) = {Head(stack[current])} /\ Arg = Head(stack[current]).arg
        /\ \A fs \in Seq(Frame) : Become(fs) => stack' = [stack EXCEPT ![current] = fs]
    BY <1>1, <1>2, Outermost
  <1>4. PICK t \in Thread : t = Arg
    BY <1>3, FrameFacts
  <1>5. F("CancelTail", t) \in ToSet(stack[current])
    <2>1. Head(stack[current]) = F("CancelTail", t)
      BY <1>3, <1>4 DEF Frame, F
    <2>2. QED BY <1>3, <2>1
  <1>6. t \in Disciplined => IF t = current THEN held[t] = << >> ELSE Plain(stack[t])
    BY <1>3, <1>5 DEF EInv, CancelOrderly
  <1> DEFINE s == TearDown(t) \o <<Reschedule>>
  <1>7. s \in Seq(Frame)
    BY TornDown, FrameIntro
  <1>8. Become(s)
    BY <1>1, <1>4
  <1> HIDE DEF s
  <1>9. stack' = [stack EXCEPT ![current] = s]
    BY <1>3, <1>7, <1>8
  <1>10. stack' = [stack EXCEPT ![current] = TearDown(t) \o <<Reschedule>>]
    BY <1>9 DEF s
  <1>11. \A u \in Thread \ {t} : state'[u] = state[u]
    BY <1>1, <1>4 DEF Die, KInv, TypeOK
  <1>12. \A f \in ToSet(stack[current]) : f.fn \notin {"__OSUnlockAllMutex", "OSWakeupThread"}
    BY <1>3
  <1>13. Reschedule \in {F("ExitHint", NULL), Reschedule}
    OBVIOUS
  <1>14. QED BY <1>1, <1>3, <1>6, <1>10, <1>11, <1>12, <1>13, DeathKept

LEMMA CancelEnds ==
    ASSUME KInv, KInv', EInv, current \in Thread, NEW t \in Thread, MayEnd(current, t),
           OSCancelThread(current, t)
    PROVE  EInv'
  <1> DEFINE ct == F("CancelTail", t)
  <1>1. /\ MayCall(current) /\ UNCHANGED <<state, held, owner>> /\ current' = current
    BY DEF OSCancelThread, mutexVars
  <1>2. /\ state[current] = "RUNNING" /\ stack[Isr] = << >> /\ stack[current] = << >>
        /\ current \in Context /\ ~Cancelling(t) /\ Stacked /\ current # Isr
    BY <1>1, Caller, CallFacts
  <1>3. /\ Disciplined \subseteq Thread /\ Thread \subseteq Context /\ Thread \subseteq WaitQueue
        /\ waiters \in [WaitQueue -> Seq(Thread)]
        /\ \A m \in Mutex : owner[m] \in Thread \cup {NULL}
    BY Disciplines, Constants DEF Context, KInv, TypeOK
  <1>4. PICK n \in Seq(Frame) :
           /\ stack' = [stack EXCEPT ![current] = n]
           /\ \A f \in ToSet(n) : f = ct \/ f.fn = "UpdatePriority"
    <2> DEFINE tail == <<ct>>
               long == UpdateOwner(t) \o <<ct>>
    <2>1. /\ tail \in Seq(Frame) /\ \A f \in ToSet(tail) : f = ct \/ f.fn = "UpdatePriority"
          /\ long \in Seq(Frame) /\ \A f \in ToSet(long) : f = ct \/ f.fn = "UpdatePriority"
          /\ << >> \o tail = tail
      BY CancelFrames DEF KInv
    <2>2. Enter(current, tail) \/ Enter(current, long)
      <3>1. \/ Enter(current, tail)
            \/ Enter(current, (IF suspend[t] <= 0 THEN UpdateOwner(t) ELSE << >>) \o tail)
        BY DEF OSCancelThread
      <3>2. CASE suspend[t] <= 0
        BY <3>1, <3>2
      <3>3. CASE ~(suspend[t] <= 0)
        BY <2>1, <3>1, <3>3
      <3>4. QED BY <3>2, <3>3
    <2> HIDE DEF tail, long
    <2>3. stack' = [stack EXCEPT ![current] = tail] \/ stack' = [stack EXCEPT ![current] = long]
      BY <1>2, <2>2 DEF Enter
    <2>4. QED BY <2>1, <2>3
  <1>5. ct.fn = "CancelTail" /\ ct.arg = t /\ \A u : F("CancelTail", u).arg = u
    BY FrameIntro
  <1> HIDE DEF ct
  <1>6. \A f \in ToSet(n) : f.fn \in {"CancelTail", "UpdatePriority"}
                            /\ (f.fn = "CancelTail" => f.arg = t)
    BY <1>4, <1>5
  <1>7. Under(n) /\ Awakened(n)
    <2>1. \A f \in ToSet(n) : f.fn # "OSWakeupThread"
      BY <1>6
    <2>2. n # << >> => Head(n) \in ToSet(n)
      BY Popped
    <2>3. QED BY <2>1, <2>2, UnderOne DEF Awakened
  <1>8. \A x : x \notin ToSet(stack[current])
    BY <1>2 DEF ToSet
  <1>9. \A u \in Thread : waiters'[u] # << >> => waiters[u] # << >>
    <2>1. CASE waiters' = waiters
      BY <2>1
    <2>2. CASE /\ state[t] = "SLEEPING"
               /\ waiters' = [waiters EXCEPT ![queue[t]] = Without(@, t)]
      <3>1. t \in ToSet(waiters[queue[t]]) /\ waiters[queue[t]] \in Seq(Thread)
        BY <1>2, <2>2, SleeperIn DEF KInv
      <3>2. waiters[queue[t]] # << >>
        BY <3>1, EmptySet
      <3>3. \A u \in Thread : u # queue[t] => waiters'[u] = waiters[u]
        BY <1>3, <2>2
      <3>4. QED BY <3>2, <3>3
    <2>3. QED BY <2>1, <2>2 DEF OSCancelThread
  <1>10. ReleaseKept(current, n) /\ WakeKept(current, n)
    BY <1>1, <1>8, <1>9 DEF ReleaseKept, WakeKept
  <1>11. OrderKept(current, n)
    BY <1>1, <1>2, <1>3 DEF OrderKept, Gone
  <1>12. CancelKept(current, n)
    <2>1. ASSUME NEW u \in Disciplined, F("CancelTail", u) \in ToSet(n)
          PROVE  IF u = current THEN held'[u] = << >> ELSE Plain(stack[u])
      <3>1. u = t
        BY <1>5, <1>6, <2>1, FrameIntro
      <3>2. (t = current => held[t] = << >>) /\ \A w \in Thread : ~Ending(t, w)
        BY <2>1, <3>1 DEF MayEnd
      <3>3. Plain(stack[t])
        BY <1>2, <1>3, <3>2, PlainEnding
      <3>4. QED BY <1>1, <3>1, <3>2, <3>3
    <2>2. QED BY <2>1 DEF CancelKept
  <1>13. /\ current = Isr => current = NULL \/ (stack[current] = << >> /\ current' = current)
         /\ current = Isr => \A f \in ToSet(n) : f.fn = "OSWakeupThread" => f.arg \in UserQueue
         /\ current' \notin {current, NULL} => ~Gone(state', current')
         /\ current' = current \/ current = Isr \/ Awakened(n)
    BY <1>1, <1>2
  <1>14. QED BY <1>2, <1>4, <1>7, <1>10, <1>11, <1>12, <1>13, Kept

(* What is left of a dead disciplined thread's own end, frame by frame.    *)
LEMMA EndTurn ==
    ASSUME KInv, EInv, NEW c \in Disciplined, c = Cpu, Gone(state, c), stack[c] # << >>
    PROVE  /\ held[c] = << >> /\ EndShape(c, stack[c])
           /\ Head(stack[c]).fn = "OSWakeupThread" => Plain(Tail(stack[c]))
           /\ Head(stack[c]).fn = "__OSUnlockAllMutex" =>
                 Head(stack[c]).arg = c /\ EndShape(c, Tail(stack[c]))
           /\ Head(stack[c]).fn \notin {"OSWakeupThread", "__OSUnlockAllMutex"} => Plain(stack[c])
  <1>1. c \in Thread /\ c # NULL /\ c # Isr /\ Stacked /\ StackInv
    BY Disciplines, Constants, StateTypes DEF KInv
  <1>2. c = current
    BY <1>1, CpuFacts
  <1>3. held[c] = << >> /\ EndShape(c, stack[c])
    BY <1>2 DEF EInv, Orderly, Gone, Dead
  <1>4. PICK s \in Seq(Frame) : s = stack[c]
    BY <1>1 DEF Stacked, Context
  <1>5. s # << >> /\ Head(s) \in Frame /\ Head(s) \in ToSet(s)
    BY <1>4, Popped
  <1> DEFINE a == F("__OSUnlockAllMutex", c)
             b == F("OSWakeupThread", c)
  <1>6. CASE Plain(s)
    <2>1. Plain(Tail(s))
      BY <1>5, <1>6, PlainParts
    <2>2. Head(s).fn # "__OSUnlockAllMutex"
      BY <1>5, <1>6, FrameFacts DEF Plain, EndFns
    <2>3. QED BY <1>3, <1>4, <1>6, <2>1, <2>2
  <1>7. ASSUME NEW x \in {F("ExitHint", NULL), Reschedule}, s = <<a, b, x>> \/ s = <<b, x>>
        PROVE  /\ Head(s).fn = "OSWakeupThread" => Plain(Tail(s))
               /\ Head(s).fn = "__OSUnlockAllMutex" => Head(s).arg = c /\ EndShape(c, Tail(s))
               /\ Head(s).fn \in {"OSWakeupThread", "__OSUnlockAllMutex"}
    <2>1. /\ a \in Frame /\ a.fn = "__OSUnlockAllMutex" /\ a.arg = c
          /\ b \in Frame /\ b.fn = "OSWakeupThread"
          /\ x \in Frame /\ x.fn \in {"ExitHint", "__OSReschedule"}
      BY <1>1, FrameIntro, Constants
    <2>2. CASE s = <<a, b, x>>
      <3> DEFINE r == <<b, x>>
      <3>1. Head(s) = a /\ Tail(s) = r
        <4> HIDE DEF a, b
        <4>1. QED BY <2>2
      <3>2. EndShape(c, r)
        BY DEF EndShape
      <3> HIDE DEF a, r
      <3>3. QED BY <2>1, <3>1, <3>2
    <2>3. CASE s = <<b, x>>
      <3> DEFINE r == <<x>>
      <3>1. Head(s) = b /\ Tail(s) = r
        <4> HIDE DEF b
        <4>1. QED BY <2>3
      <3>2. ToSet(r) = {x}
        BY <2>1, Stacks
      <3> HIDE DEF a, b, r
      <3>3. Plain(r)
        BY <2>1, <3>2 DEF Plain, EndFns
      <3>4. QED BY <2>1, <3>1, <3>3
    <2>4. QED BY <1>7, <2>2, <2>3
  <1>8. Plain(s) \/ \E x \in {F("ExitHint", NULL), Reschedule} : s = <<a, b, x>> \/ s = <<b, x>>
    BY <1>3, <1>4 DEF EndShape
  <1> HIDE DEF a, b
  <1>9. CASE \E x \in {F("ExitHint", NULL), Reschedule} : s = <<a, b, x>> \/ s = <<b, x>>
    BY <1>3, <1>4, <1>7, <1>9
  <1>10. QED BY <1>6, <1>8, <1>9

(* One turn of the innermost loop, which kills nobody.                     *)
LEMMA TurnKept ==
    ASSUME KInv, KInv', EInv, Cpu # NULL, stack[Cpu] # << >>, NEW n \in Seq(Frame),
           stack' = [stack EXCEPT ![Cpu] = n], current' = current, Under(n),
           \A f \in ToSet(n) : \/ f \in ToSet(stack[Cpu])
                               \/ f.fn \notin EndFns
                               \/ Cpu # Isr /\ f.fn = "OSWakeupThread",
           \A t \in Thread : F("__OSUnlockAllMutex", t) \in ToSet(stack[Cpu]) \ ToSet(n)
                => held'[t] = << >>,
           \A t \in Thread : F("OSWakeupThread", t) \in ToSet(stack[Cpu]) \ ToSet(n)
                => waiters'[t] = << >>,
           \A u \in Thread : Gone(state', u) => Gone(state, u),
           \A m \in Mutex : owner'[m] # NULL /\ Gone(state', owner'[m]) => owner[m] = owner'[m],
           \A t \in Thread : waiters'[t] # << >> /\ Gone(state', t) => waiters[t] # << >>,
           Cpu = Isr => held' = held,
           Cpu \in Disciplined /\ Gone(state, Cpu) => held'[Cpu] = << >> /\ EndShape(Cpu, n),
           (\E f \in ToSet(n) : f.fn = "CancelTail") => held' = held
    PROVE  EInv'
  <1>1. Stacked /\ StackInv /\ Isr \notin Thread /\ NULL \notin Thread /\ Disciplined \subseteq Thread
    BY StateTypes, Disciplines, Constants DEF KInv
  <1>2. /\ Cpu \in Context /\ stack[Cpu] \in Seq(Frame)
        /\ Cpu = Isr => current = NULL \/ stack[current] = << >>
        /\ Cpu # Isr => Cpu = current /\ current \in Thread
    BY <1>1, CpuFacts
  <1>3. PICK c \in Context : c = Cpu
    BY <1>2
  <1>4. \A m \in Mutex : owner'[m] \in Thread \cup {NULL}
    BY DEF KInv, TypeOK
  <1>5. ReleaseKept(c, n)
    <2>1. ASSUME NEW m \in Mutex, owner'[m] # NULL, Gone(state', owner'[m])
          PROVE  LET f == F("__OSUnlockAllMutex", owner'[m]) IN
                 \/ f \in ToSet(n)
                 \/ owner[m] = owner'[m] /\ Gone(state, owner[m]) /\ f \notin ToSet(stack[c])
      <3>1. PICK u \in Thread : u = owner'[m]
        BY <1>4, <2>1
      <3>2. owner[m] = u /\ Gone(state, u)
        BY <2>1, <3>1
      <3>3. m \in ToSet(held'[u])
        BY <3>1 DEF KInv, MutexConsistent
      <3>4. held'[u] # << >>
        BY <3>3 DEF ToSet
      <3>5. F("__OSUnlockAllMutex", u) \notin ToSet(stack[Cpu]) \ ToSet(n)
        BY <3>4
      <3>6. QED BY <1>3, <3>1, <3>2, <3>5
    <2>2. QED BY <2>1 DEF ReleaseKept
  <1>6. WakeKept(c, n)
    BY <1>3 DEF WakeKept
  <1>7. OrderKept(c, n)
    <2>1. \A u \in Disciplined \ {c} : Gone(state', u) => Gone(state, u)
      BY <1>1
    <2>2. c \in Disciplined /\ Gone(state', c) =>
             c = current' /\ held'[c] = << >> /\ EndShape(c, n)
      BY <1>1, <1>2, <1>3
    <2>3. c = Isr => held' = held
      BY <1>3
    <2>4. QED BY <2>1, <2>2, <2>3 DEF OrderKept
  <1>8. CancelKept(c, n)
    <2>1. ASSUME NEW t \in Disciplined, F("CancelTail", t) \in ToSet(n)
          PROVE  IF t = c THEN held'[t] = << >> ELSE Plain(stack[t])
      <3>1. F("CancelTail", t).fn = "CancelTail"
        BY FrameIntro
      <3>2. held' = held /\ F("CancelTail", t) \in ToSet(stack[c])
        BY <1>3, <2>1, <3>1 DEF EndFns
      <3>3. c # Isr
        BY <3>1, <3>2 DEF KInv, StackInv, Frames, IsrFrames
      <3>4. c \in Thread
        BY <1>2, <1>3, <3>3
      <3>5. QED BY <3>2, <3>4 DEF EInv, CancelOrderly
    <2>2. QED BY <2>1 DEF CancelKept
  <1>9. c = Isr => \A f \in ToSet(n) : f.fn = "OSWakeupThread" => f.arg \in UserQueue
    BY <1>3 DEF EInv, Nested, EndFns
  <1>10. /\ stack' = [stack EXCEPT ![c] = n] /\ (c = current \/ c = Isr)
         /\ c = Isr => current = NULL \/ (stack[current] = << >> /\ current' = current)
         /\ current' \notin {current, NULL} => ~Gone(state', current')
    BY <1>2, <1>3
  <1>11. QED BY <1>5, <1>6, <1>7, <1>8, <1>9, <1>10, Kept

(* A turn of a loop that tears nothing down.                               *)
LEMMA PlainTurn ==
    ASSUME KInv, KInv', EInv, Cpu # NULL, stack[Cpu] # << >>, Head(stack[Cpu]).fn \notin EndFns,
           NEW n \in Seq(Frame),
           \/ n = Tail(stack[Cpu])
           \/ \E f \in Frame : f.fn \notin EndFns /\ n = <<f>> \o Tail(stack[Cpu])
           \/ Tail(stack[Cpu]) = << >> /\ \A f \in ToSet(n) : f.fn \notin EndFns,
           stack' = [stack EXCEPT ![Cpu] = n], current' = current,
           \A u \in Thread : Gone(state', u) => Gone(state, u),
           \A m \in Mutex : owner'[m] # NULL /\ Gone(state', owner'[m]) => owner[m] = owner'[m],
           \A t \in Thread : waiters'[t] # << >> /\ Gone(state', t) => waiters[t] # << >>,
           \/ held' = held
           \/ Cpu # Isr /\ ~Gone(state, Cpu) /\ \A f \in ToSet(n) : f.fn \notin EndFns
    PROVE  EInv'
  <1>1. Stacked /\ StackInv /\ Disciplined \subseteq Thread
    BY StateTypes, Disciplines DEF KInv
  <1>2. Cpu \in Context /\ stack[Cpu] \in Seq(Frame)
    BY <1>1, CpuFacts
  <1>3. PICK s \in Seq(Frame) : s = stack[Cpu]
    BY <1>2
  <1>4. /\ s # << >> /\ Tail(s) \in Seq(Frame) /\ ToSet(s) = ToSet(Tail(s)) \cup {Head(s)}
        /\ Tail(s) = << >> => ToSet(Tail(s)) = {}
    <2>1. ToSet(<< >>) = {}
      BY Stacks DEF ToSet
    <2>2. QED BY <1>3, <2>1, Popped
  <1>5. Under(s)
    BY <1>2, <1>3 DEF EInv, Nested
  <1>6. Under(Tail(s)) /\ Awakened(Tail(s))
    BY <1>3, <1>4, <1>5, UnderPopped DEF EndFns
  <1>7. /\ Under(n)
        /\ \A f \in ToSet(n) : f \in ToSet(s) \/ f.fn \notin EndFns
        /\ \A f \in ToSet(s) \ ToSet(n) : f = Head(s)
    <2>1. CASE n = Tail(s)
      BY <1>4, <1>6, <2>1
    <2>2. ASSUME NEW f \in Frame, f.fn \notin EndFns, n = <<f>> \o Tail(s)
          PROVE  /\ Under(n)
                 /\ \A g \in ToSet(n) : g \in ToSet(s) \/ g.fn \notin EndFns
                 /\ \A g \in ToSet(s) \ ToSet(n) : g = Head(s)
      <3>1. PICK r \in Seq(Frame) : r = Tail(s)
        BY <1>4
      <3>2. Under(<<f>> \o r) /\ ToSet(<<f>> \o r) = ToSet(r) \cup {f}
        <4>1. Under(<<f>> \o r)
          BY <1>6, <3>1, UnderPushed
        <4>2. ToSet(<<f>> \o r) = ToSet(r) \cup {f}
          BY Pushed
        <4>3. QED BY <4>1, <4>2
      <3>3. Under(n) /\ ToSet(n) = ToSet(r) \cup {f}
        BY <2>2, <3>1, <3>2
      <3>4. QED BY <1>4, <2>2, <3>1, <3>3
    <2>3. CASE Tail(s) = << >> /\ \A f \in ToSet(n) : f.fn \notin EndFns
      <3>1. Under(n)
        BY <2>3, UnderOne DEF EndFns
      <3>2. QED BY <1>4, <2>3, <3>1
    <2>4. QED BY <1>3, <2>1, <2>2, <2>3
  <1>8. Head(s).fn \notin EndFns
    BY <1>3
  <1>9. \A f \in ToSet(stack[Cpu]) \ ToSet(n) : f.fn \notin EndFns
    BY <1>3, <1>7, <1>8
  <1>10. /\ \A t \in Thread : F("__OSUnlockAllMutex", t) \in ToSet(stack[Cpu]) \ ToSet(n)
                => held'[t] = << >>
         /\ \A t \in Thread : F("OSWakeupThread", t) \in ToSet(stack[Cpu]) \ ToSet(n)
                => waiters'[t] = << >>
    BY <1>9, FrameIntro DEF EndFns
  <1>11. ASSUME Cpu \in Disciplined, Gone(state, Cpu) PROVE held'[Cpu] = << >> /\ EndShape(Cpu, n)
    <2>1. PICK c \in Disciplined : c = Cpu
      BY <1>11
    <2>2. held[c] = << >> /\ Plain(stack[c])
      BY <1>8, <1>3, <1>11, <2>1, EndTurn DEF EndFns
    <2>3. Plain(n)
      BY <1>3, <1>7, <2>1, <2>2 DEF Plain
    <2>4. held' = held
      BY <1>11
    <2>5. QED BY <2>1, <2>2, <2>3, <2>4 DEF EndShape
  <1>12. (\E f \in ToSet(n) : f.fn = "CancelTail") => held' = held
    BY DEF EndFns
  <1>13. Cpu = Isr => held' = held
    OBVIOUS
  <1>14. \A f \in ToSet(n) : \/ f \in ToSet(stack[Cpu])
                             \/ f.fn \notin EndFns
                             \/ Cpu # Isr /\ f.fn = "OSWakeupThread"
    BY <1>3, <1>7
  <1>15. Under(n)
    BY <1>7
  <1>16. QED BY <1>10, <1>11, <1>12, <1>13, <1>14, <1>15, TurnKept

LEMMA PriorityEnds ==
    ASSUME KInv, KInv', EInv, NEW fn \in {"UpdatePriority", "__OSPromoteThread"}, Running(fn),
           PriorityTurn(fn), UNCHANGED <<state, mutexVars, current>>
    PROVE  EInv'
  <1>1. /\ Cpu # NULL /\ stack[Cpu] # << >> /\ Head(stack[Cpu]).fn = fn
        /\ stack[Cpu] \in Seq(Frame) /\ Tail(stack[Cpu]) \in Seq(Frame)
    BY InnerFacts DEF Inner
  <1>2. PICK s \in Seq(Frame) : s = Tail(stack[Cpu])
    BY <1>1
  <1>3. fn \notin EndFns
    BY DEF EndFns
  <1>4. PICK n \in Seq(Frame) :
          /\ n = s \/ \E f \in Frame : f.fn \notin EndFns /\ n = <<f>> \o s
          /\ stack' = [stack EXCEPT ![Cpu] = n]
    <2>1. \A f \in Frame : <<f>> \o s \in Seq(Frame)
      BY Pushed
    <2>2. QED BY <1>2, <1>3, <2>1 DEF PriorityTurn
  <1>5. /\ held' = held /\ current' = current
        /\ \A m \in Mutex : owner'[m] # NULL /\ Gone(state', owner'[m]) => owner[m] = owner'[m]
        /\ \A t \in Thread : waiters'[t] # << >> /\ Gone(state', t) => waiters[t] # << >>
        /\ \A u \in Thread : Gone(state', u) => Gone(state, u)
    BY Constants DEF PriorityTurn, mutexVars
  <1>6. \/ n = Tail(stack[Cpu])
        \/ \E f \in Frame : f.fn \notin EndFns /\ n = <<f>> \o Tail(stack[Cpu])
    BY <1>2, <1>4
  <1>7. QED BY <1>1, <1>3, <1>4, <1>5, <1>6, PlainTurn

LEMMA UpdateEnds == ASSUME KInv, KInv', EInv, UpdatePriority PROVE EInv'
  <1>1. Running("UpdatePriority") /\ UNCHANGED <<state, mutexVars, current>>
    BY DEF UpdatePriority
  <1>2. PriorityTurn("UpdatePriority")
    BY UpdateLoop
  <1>3. QED BY <1>1, <1>2, PriorityEnds

LEMMA PromotionEnds == ASSUME KInv, KInv', EInv, PromoteThread PROVE EInv'
  <1>1. Running("__OSPromoteThread") /\ UNCHANGED <<state, mutexVars, current>>
    BY DEF PromoteThread
  <1>2. PriorityTurn("__OSPromoteThread")
    BY PromoteLoop
  <1>3. QED BY <1>1, <1>2, PriorityEnds

(* A turn of an outermost frame that tears nothing down.                   *)
LEMMA OutermostTurn ==
    ASSUME KInv, KInv', EInv, NEW fn, fn \notin Inner, fn \notin IsrFrames, fn # "CancelTail",
           Running(fn), NEW n \in Seq(Frame), Become(n) \/ (Return /\ n = << >>),
           \A f \in ToSet(n) : f.fn \notin EndFns, current' = current,
           \A u \in Thread : Gone(state', u) => Gone(state, u),
           \A m \in Mutex : owner'[m] # NULL /\ Gone(state', owner'[m]) => owner[m] = owner'[m],
           \A t \in Thread : waiters'[t] # << >> /\ Gone(state', t) => waiters[t] # << >>,
           held' = held \/ state[current] = "RUNNING"
    PROVE  EInv'
  <1>1. Stacked /\ StackInv /\ Leaving
    BY StateTypes DEF KInv
  <1>2. /\ Cpu = current /\ Tail(stack[Cpu]) = << >> /\ stack[Cpu] # << >>
        /\ Head(stack[Cpu]).fn = fn /\ Cpu # NULL /\ Cpu # Isr
    BY <1>1, ThreadTurn, Constants
  <1>3. stack' = [stack EXCEPT ![Cpu] = n]
    BY <1>2, Outermost
  <1>4. fn \notin EndFns
    BY DEF EndFns, Inner
  <1>5. held' = held \/ (Cpu # Isr /\ ~Gone(state, Cpu) /\ \A f \in ToSet(n) : f.fn \notin EndFns)
    BY <1>2 DEF Gone
  <1>6. QED BY <1>2, <1>3, <1>4, <1>5, PlainTurn

LEMMA ExitHintEnds == ASSUME KInv, KInv', EInv, ExitHint PROVE EInv'
  <1> DEFINE n == <<Reschedule>>
  <1>1. /\ Running("ExitHint") /\ Become(n) /\ current' = current
        /\ UNCHANGED <<state, waiters, held, owner>>
    BY DEF ExitHint, threadVars, mutexVars
  <1>2. n \in Seq(Frame) /\ \A f \in ToSet(n) : f.fn \in {"UpdatePriority", "__OSReschedule"}
    BY UpdateFrames
  <1> HIDE DEF n
  <1>3. \A f \in ToSet(n) : f.fn \notin EndFns
    BY <1>2 DEF EndFns
  <1>4. "ExitHint" \notin Inner /\ "ExitHint" \notin IsrFrames /\ "ExitHint" # "CancelTail"
    BY DEF Inner, IsrFrames
  <1>5. /\ \A u \in Thread : Gone(state', u) => Gone(state, u)
        /\ \A m \in Mutex : owner'[m] # NULL /\ Gone(state', owner'[m]) => owner[m] = owner'[m]
        /\ \A t \in Thread : waiters'[t] # << >> /\ Gone(state', t) => waiters[t] # << >>
        /\ held' = held
    BY <1>1
  <1>6. QED BY <1>1, <1>2, <1>3, <1>4, <1>5, OutermostTurn

LEMMA JoinTailEnds == ASSUME KInv, KInv', EInv, JoinTail PROVE EInv'
  <1> DEFINE n == << >>
  <1>1. /\ Running("JoinTail") /\ Return /\ current' = current
        /\ UNCHANGED <<waiters, held, owner>> /\ (Reap(Arg) \/ state' = state)
    BY DEF JoinTail, queueVars, mutexVars
  <1>2. n \in Seq(Frame) /\ \A f : f \notin ToSet(n)
    BY DEF ToSet
  <1>3. "JoinTail" \notin Inner /\ "JoinTail" \notin IsrFrames /\ "JoinTail" # "CancelTail"
    BY DEF Inner, IsrFrames
  <1>4. \A u \in Thread : Gone(state', u) => Gone(state, u)
    <2>1. CASE Reap(Arg)
      BY <2>1 DEF Reap, Gone, KInv, TypeOK
    <2>2. CASE state' = state
      BY <2>2
    <2>3. QED BY <1>1, <2>1, <2>2
  <1>5. /\ \A m \in Mutex : owner'[m] # NULL /\ Gone(state', owner'[m]) => owner[m] = owner'[m]
        /\ \A t \in Thread : waiters'[t] # << >> /\ Gone(state', t) => waiters[t] # << >>
        /\ held' = held /\ (Return /\ n = << >>)
    BY <1>1
  <1> HIDE DEF n
  <1>6. \A f \in ToSet(n) : f.fn \notin EndFns
    BY <1>2
  <1>7. QED BY <1>1, <1>2, <1>3, <1>4, <1>5, <1>6, OutermostTurn

(* The turns of a call that locks: none of them kills, or gives a mutex to *)
(* a thread other than the running one.                                    *)
LEMMA LockKept ==
    ASSUME KInv, KInv', EInv, NEW fn \in {"OSLockMutex", "LockSleep", "LockWoken"}, Running(fn),
           NEW n \in Seq(Frame), Become(n) \/ (Return /\ n = << >>),
           \A f \in ToSet(n) : f.fn \notin EndFns, current' = current,
           \A m \in Mutex : owner'[m] \in {owner[m], current},
           \/ UNCHANGED <<state, waiters>>
           \/ \E m \in Mutex : SleepOn(current, m)
    PROVE  EInv'
  <1>1. fn \notin Inner /\ fn \notin IsrFrames /\ fn \notin Teardown /\ fn # "CancelTail"
    BY DEF Inner, IsrFrames, Teardown
  <1>2. state[current] = "RUNNING" /\ current \in Thread
    BY <1>1, Outermost
  <1>3. /\ state \in [Thread -> {"READY", "RUNNING", "SLEEPING", "MORIBUND", "EXITED"}]
        /\ waiters \in [WaitQueue -> Seq(Thread)]
        /\ \A t \in Thread, m \in Mutex : t # m /\ t \in WaitQueue
    <2>1. \A t \in Thread, m \in Mutex : t # m /\ t \in WaitQueue
      BY Disciplines, Constants
    <2>2. QED BY <2>1 DEF KInv, TypeOK
  <1>4. state'[current] # "EXITED" /\ state'[current] # "MORIBUND"
        /\ \A u \in Thread \ {current} : state'[u] = state[u]
    BY <1>2, <1>3 DEF SleepOn
  <1>5. \A t \in Thread : waiters'[t] = waiters[t]
    BY <1>3 DEF SleepOn
  <1>6. /\ \A u \in Thread : Gone(state', u) => Gone(state, u)
        /\ \A m \in Mutex : owner'[m] # NULL /\ Gone(state', owner'[m]) => owner[m] = owner'[m]
        /\ \A t \in Thread : waiters'[t] # << >> /\ Gone(state', t) => waiters[t] # << >>
        /\ held' = held \/ state[current] = "RUNNING"
    BY <1>2, <1>4, <1>5 DEF Gone
  <1>7. QED BY <1>1, <1>6, OutermostTurn

LEMMA LockTurnEnds == ASSUME KInv, KInv', EInv, LockTurn PROVE EInv'
  <1>1. /\ Running("OSLockMutex") /\ current' = current /\ UNCHANGED <<state, waiters>>
        /\ \/ owner[Arg] = NULL /\ Acquire(current, Arg) /\ Return
           \/ Return /\ UNCHANGED owner
           \/ /\ owner[Arg] \notin {NULL, current} /\ UNCHANGED owner
              /\ Become(<<Promote(owner[Arg], priority[current]), F("LockSleep", Arg)>>)
    BY DEF LockTurn, queueVars
  <1>2. /\ current \in Thread /\ Arg \in Mutex /\ priority[current] \in Priority
        /\ owner \in [Mutex -> Thread \cup {NULL}]
    BY <1>1, LockFacts DEF KInv, TypeOK
  <1>3. \A m \in Mutex : owner'[m] \in {owner[m], current}
    BY <1>1, <1>2 DEF Acquire
  <1>4. CASE Return
    <2> DEFINE n == << >>
    <2>1. n \in Seq(Frame) /\ \A f : f \notin ToSet(n)
      BY DEF ToSet
    <2>2. Return /\ n = << >>
      BY <1>4
    <2> HIDE DEF n
    <2>3. QED BY <1>1, <1>3, <2>1, <2>2, LockKept
  <1>5. CASE /\ owner[Arg] \notin {NULL, current}
             /\ Become(<<Promote(owner[Arg], priority[current]), F("LockSleep", Arg)>>)
    <2> DEFINE a == Promote(owner[Arg], priority[current])
               b == F("LockSleep", Arg)
               n == <<a, b>>
    <2>1. owner[Arg] \in Thread /\ priority[current] \in 0 .. OS_PRIORITY_MAX + 1
      BY <1>2, <1>5, Constants DEF Priority
    <2>2. a \in Frame /\ a.fn = "__OSPromoteThread" /\ b \in Frame /\ b.fn = "LockSleep"
      BY <1>2, <2>1, FrameIntro
    <2>3. Become(n)
      BY <1>5
    <2> HIDE DEF a, b
    <2>4. n \in Seq(Frame) /\ ToSet(n) = {a, b}
      BY <2>2, Stacks
    <2> HIDE DEF n
    <2>5. \A f \in ToSet(n) : f.fn \notin EndFns
      BY <2>2, <2>4 DEF EndFns
    <2>6. QED BY <1>1, <1>3, <2>3, <2>4, <2>5, LockKept
  <1>6. QED BY <1>1, <1>4, <1>5

LEMMA LockSleepEnds == ASSUME KInv, KInv', EInv, LockSleep PROVE EInv'
  <1> DEFINE b == F("LockWoken", Arg)
             n == <<Reschedule, b>>
  <1>1. /\ Running("LockSleep") /\ SleepOn(current, Arg) /\ Become(n)
        /\ current' = current /\ owner' = owner
    BY DEF LockSleep, mutexVars
  <1>2. Arg \in Mutex
    BY <1>1, LockFacts
  <1>3. /\ b \in Frame /\ b.fn = "LockWoken"
        /\ Reschedule \in Frame /\ Reschedule.fn = "__OSReschedule"
    BY <1>2, FrameIntro
  <1> HIDE DEF b
  <1>4. n \in Seq(Frame) /\ ToSet(n) = {Reschedule, b}
    BY <1>3, Stacks
  <1> HIDE DEF n
  <1>5. \A f \in ToSet(n) : f.fn \notin EndFns
    BY <1>3, <1>4 DEF EndFns
  <1>6. /\ \A m \in Mutex : owner'[m] \in {owner[m], current}
        /\ \E m \in Mutex : SleepOn(current, m)
    BY <1>1, <1>2
  <1>7. QED BY <1>1, <1>4, <1>5, <1>6, LockKept

LEMMA LockWokenEnds == ASSUME KInv, KInv', EInv, LockWoken PROVE EInv'
  <1> DEFINE b == F("OSLockMutex", Arg)
             n == <<b>>
  <1>1. /\ Running("LockWoken") /\ Become(n) /\ UNCHANGED <<state, waiters>>
        /\ current' = current /\ owner' = owner
    BY DEF LockWoken, mutexVars, queueVars
  <1>2. Arg \in Mutex
    BY <1>1, LockFacts
  <1>3. b \in Frame /\ b.fn = "OSLockMutex"
    BY <1>2, FrameIntro
  <1> HIDE DEF b
  <1>4. n \in Seq(Frame) /\ ToSet(n) = {b}
    BY <1>3, Stacks
  <1> HIDE DEF n
  <1>5. \A f \in ToSet(n) : f.fn \notin EndFns
    BY <1>3, <1>4 DEF EndFns
  <1>6. \A m \in Mutex : owner'[m] \in {owner[m], current}
    BY <1>1
  <1>7. QED BY <1>1, <1>4, <1>5, <1>6, LockKept

LEMMA WakeupTurnEnds == ASSUME KInv, KInv', EInv, WakeupTurn PROVE EInv'
  <1>1. /\ Running("OSWakeupThread") /\ current' = current /\ UNCHANGED <<held, owner>>
        /\ \/ WakeupDone(Arg) /\ Become(<<Reschedule>>) /\ UNCHANGED <<state, waiters>>
           \/ ~WakeupDone(Arg) /\ WakeHead(Arg) /\ stack' = stack
    BY DEF WakeupTurn, mutexVars, queueVars
  <1>2. /\ Cpu # NULL /\ stack[Cpu] # << >> /\ Head(stack[Cpu]).fn = "OSWakeupThread"
        /\ Head(stack[Cpu]) \in Frame /\ Cpu \in Context /\ Arg = Head(stack[Cpu]).arg
        /\ stack[Cpu] \in Seq(Frame) /\ Calm
    BY <1>1, InnerFacts DEF Inner
  <1>3. PICK s \in Seq(Frame) : s = stack[Cpu]
    BY <1>2
  <1>4. PICK q \in WaitQueue : q = Arg
    BY <1>2, FrameFacts
  <1>5. /\ s # << >> /\ Tail(s) \in Seq(Frame) /\ ToSet(s) = ToSet(Tail(s)) \cup {Head(s)}
        /\ Head(s).fn = "OSWakeupThread" /\ Head(s).arg = q
    BY <1>2, <1>3, <1>4, Popped
  <1>6. Under(s)
    BY <1>2, <1>3 DEF EInv, Nested
  <1>7. \A m \in Mutex : owner'[m] # NULL /\ Gone(state', owner'[m]) => owner[m] = owner'[m]
    BY <1>1
  <1>8. CASE WakeupDone(Arg) /\ Become(<<Reschedule>>) /\ UNCHANGED <<state, waiters>>
    <2>1. PICK r \in Seq(Frame) : r = Tail(s)
      BY <1>5
    <2>2. Reschedule \in Frame /\ Reschedule.fn = "__OSReschedule"
      BY FrameIntro
    <2>3. Under(r) /\ Awakened(r)
      BY <1>5, <1>6, <2>1, UnderPopped
    <2> DEFINE n == <<Reschedule>> \o r
    <2>4. n \in Seq(Frame) /\ ToSet(n) = ToSet(r) \cup {Reschedule}
      BY <2>2, Pushed
    <2>5. Under(n)
      BY <2>2, <2>3, UnderPushed
    <2>6. stack' = [stack EXCEPT ![Cpu] = n]
      BY <1>3, <1>8, <2>1 DEF Become
    <2> HIDE DEF n
    <2>7. \A f \in ToSet(n) : \/ f \in ToSet(stack[Cpu])
                              \/ f.fn \notin EndFns
                              \/ Cpu # Isr /\ f.fn = "OSWakeupThread"
      BY <1>3, <1>5, <2>1, <2>2, <2>4 DEF EndFns
    <2>8. \A f \in ToSet(stack[Cpu]) \ ToSet(n) : f.fn = "OSWakeupThread" /\ f.arg = q
      BY <1>3, <1>5, <2>1, <2>4
    <2>9. /\ \A t \in Thread : F("__OSUnlockAllMutex", t) \in ToSet(stack[Cpu]) \ ToSet(n)
                => held'[t] = << >>
          /\ \A t \in Thread : F("OSWakeupThread", t) \in ToSet(stack[Cpu]) \ ToSet(n)
                => waiters'[t] = << >>
      BY <1>4, <1>8, <2>8, FrameIntro DEF WakeupDone
    <2>10. ASSUME Cpu \in Disciplined, Gone(state, Cpu) PROVE held'[Cpu] = << >> /\ EndShape(Cpu, n)
      <3>1. PICK c \in Disciplined : c = Cpu
        BY <2>10
      <3>2. held[c] = << >> /\ Plain(Tail(s))
        BY <1>2, <1>3, <2>10, <3>1, EndTurn
      <3>3. Plain(n)
        BY <2>1, <2>2, <2>4, <3>2 DEF Plain, EndFns
      <3>4. QED BY <1>1, <3>1, <3>2, <3>3 DEF EndShape
    <2>11. /\ \A u \in Thread : Gone(state', u) => Gone(state, u)
           /\ \A t \in Thread : waiters'[t] # << >> /\ Gone(state', t) => waiters[t] # << >>
           /\ Cpu = Isr => held' = held
           /\ (\E f \in ToSet(n) : f.fn = "CancelTail") => held' = held
      BY <1>1, <1>8
    <2>12. QED BY <1>1, <1>2, <1>7, <2>4, <2>5, <2>6, <2>7, <2>9, <2>10, <2>11, TurnKept
  <1>9. CASE ~WakeupDone(Arg) /\ WakeHead(Arg) /\ stack' = stack
    <2>1. waiters[q] # << >> /\ WakeHead(q)
      BY <1>4, <1>9 DEF WakeupDone
    <2>2. /\ state \in [Thread -> {"READY", "RUNNING", "SLEEPING", "MORIBUND", "EXITED"}]
          /\ waiters \in [WaitQueue -> Seq(Thread)] /\ stack \in [Context -> Seq(Frame)]
      BY DEF KInv, TypeOK
    <2>3. \A u \in Thread : state'[u] \in {state[u], "READY"}
      BY <2>1, <2>2 DEF WakeHead
    <2>4. \A u \in Thread : Gone(state', u) => Gone(state, u)
      BY <2>3 DEF Gone
    <2>5. \A t \in Thread : waiters'[t] # << >> /\ Gone(state', t) => waiters[t] # << >>
      BY <2>1, <2>2, Constants DEF WakeHead
    <2>6. stack' = [stack EXCEPT ![Cpu] = s]
      BY <1>2, <1>3, <1>9, <2>2
    <2>7. /\ \A f \in ToSet(s) : \/ f \in ToSet(stack[Cpu])
                                 \/ f.fn \notin EndFns
                                 \/ Cpu # Isr /\ f.fn = "OSWakeupThread"
          /\ \A f : f \notin ToSet(stack[Cpu]) \ ToSet(s)
      BY <1>3
    <2>8. ASSUME Cpu \in Disciplined, Gone(state, Cpu) PROVE held'[Cpu] = << >> /\ EndShape(Cpu, s)
      <3>1. PICK c \in Disciplined : c = Cpu
        BY <2>8
      <3>2. held[c] = << >> /\ EndShape(c, s)
        BY <1>2, <1>3, <2>8, <3>1, EndTurn
      <3>3. QED BY <1>1, <3>1, <3>2
    <2>9. /\ Cpu = Isr => held' = held
          /\ (\E f \in ToSet(s) : f.fn = "CancelTail") => held' = held
      BY <1>1
    <2>10. QED BY <1>1, <1>2, <1>6, <1>7, <2>4, <2>5, <2>6, <2>7, <2>8, <2>9, TurnKept
  <1>10. QED BY <1>1, <1>8, <1>9

LEMMA UnlockAllEnds == ASSUME KInv, KInv', EInv, UnlockAllTurn PROVE EInv'
  <1>1. /\ Running("__OSUnlockAllMutex") /\ current' = current /\ UNCHANGED <<state, waiters>>
        /\ \/ held[Arg] = << >> /\ Return /\ UNCHANGED <<held, owner>>
           \/ /\ held[Arg] # << >> /\ ReleaseHead(Arg)
              /\ stack' = [stack EXCEPT ![Cpu] = <<F("OSWakeupThread", Head(held[Arg]))>> \o @]
    BY DEF UnlockAllTurn, mutexVars, threadVars, queueVars
  <1>2. /\ Cpu # NULL /\ stack[Cpu] # << >> /\ Head(stack[Cpu]).fn = "__OSUnlockAllMutex"
        /\ Head(stack[Cpu]) \in Frame /\ Cpu \in Context /\ Arg = Head(stack[Cpu]).arg
        /\ stack[Cpu] \in Seq(Frame) /\ Calm /\ StackInv
        /\ Head(stack[Cpu]) \in ToSet(stack[Cpu])
    BY <1>1, InnerFacts DEF Inner
  <1>3. PICK s \in Seq(Frame) : s = stack[Cpu]
    BY <1>2
  <1>4. PICK t \in Thread : t = Arg
    BY <1>2, FrameFacts
  <1>5. /\ s # << >> /\ Tail(s) \in Seq(Frame) /\ ToSet(s) = ToSet(Tail(s)) \cup {Head(s)}
        /\ Head(s).fn = "__OSUnlockAllMutex" /\ Head(s).arg = t
    BY <1>2, <1>3, <1>4, Popped
  <1>6. Under(s) /\ Cpu # Isr
    BY <1>2, <1>3 DEF EInv, Nested, StackInv, Frames, IsrFrames
  <1>7. /\ \A u \in Thread : Gone(state', u) => Gone(state, u)
        /\ \A u \in Thread : waiters'[u] # << >> /\ Gone(state', u) => waiters[u] # << >>
        /\ Cpu = Isr => held' = held
    BY <1>1, <1>6
  <1>8. \A f \in ToSet(s) : f.fn # "CancelTail"
    BY <1>2, <1>3 DEF Calm
  <1>9. CASE held[Arg] = << >> /\ Return /\ UNCHANGED <<held, owner>>
    <2>1. PICK n \in Seq(Frame) : n = Tail(s)
      BY <1>5
    <2>2. Under(n)
      BY <1>5, <1>6, <2>1, UnderPopped
    <2>3. stack' = [stack EXCEPT ![Cpu] = n]
      BY <1>3, <1>9, <2>1 DEF Return
    <2>4. /\ \A f \in ToSet(n) : \/ f \in ToSet(stack[Cpu])
                                 \/ f.fn \notin EndFns
                                 \/ Cpu # Isr /\ f.fn = "OSWakeupThread"
          /\ \A f \in ToSet(stack[Cpu]) \ ToSet(n) : f.fn = "__OSUnlockAllMutex" /\ f.arg = t
      BY <1>3, <1>5, <2>1
    <2>5. /\ \A u \in Thread : F("__OSUnlockAllMutex", u) \in ToSet(stack[Cpu]) \ ToSet(n)
                => held'[u] = << >>
          /\ \A u \in Thread : F("OSWakeupThread", u) \in ToSet(stack[Cpu]) \ ToSet(n)
                => waiters'[u] = << >>
      BY <1>4, <1>9, <2>4, FrameIntro
    <2>6. ASSUME Cpu \in Disciplined, Gone(state, Cpu) PROVE held'[Cpu] = << >> /\ EndShape(Cpu, n)
      <3>1. PICK c \in Disciplined : c = Cpu
        BY <2>6
      <3>2. held[c] = << >> /\ EndShape(c, Tail(s))
        BY <1>2, <1>3, <2>6, <3>1, EndTurn
      <3>3. QED BY <1>9, <2>1, <3>1, <3>2
    <2>7. /\ \A m \in Mutex : owner'[m] # NULL /\ Gone(state', owner'[m]) => owner[m] = owner'[m]
          /\ (\E f \in ToSet(n) : f.fn = "CancelTail") => held' = held
      BY <1>9
    <2>8. QED BY <1>1, <1>2, <1>7, <2>2, <2>3, <2>4, <2>5, <2>6, <2>7, TurnKept
  <1>10. CASE /\ held[Arg] # << >> /\ ReleaseHead(Arg)
              /\ stack' = [stack EXCEPT ![Cpu] = <<F("OSWakeupThread", Head(held[Arg]))>> \o @]
    <2>1. held[t] # << >> /\ held[t] \in Seq(Mutex) /\ owner \in [Mutex -> Thread \cup {NULL}]
      BY <1>4, <1>10 DEF KInv, TypeOK
    <2>2. PICK m \in Mutex : m = Head(held[t])
      BY <2>1
    <2> DEFINE f == F("OSWakeupThread", m)
               n == <<f>> \o s
    <2>3. f \in Frame /\ f.fn = "OSWakeupThread"
      BY FrameIntro, Constants
    <2>4. stack' = [stack EXCEPT ![Cpu] = n]
      BY <1>3, <1>4, <1>10, <2>2
    <2> HIDE DEF f
    <2>5. n \in Seq(Frame) /\ ToSet(n) = ToSet(s) \cup {f}
      BY <2>3, Pushed
    <2>6. Under(n)
      <3>1. Awakened(s)
        BY <1>5 DEF Awakened
      <3>2. QED BY <1>6, <2>3, <3>1, UnderPushed
    <2> HIDE DEF n
    <2>7. /\ \A g \in ToSet(n) : \/ g \in ToSet(stack[Cpu])
                                 \/ g.fn \notin EndFns
                                 \/ Cpu # Isr /\ g.fn = "OSWakeupThread"
          /\ \A g : g \notin ToSet(stack[Cpu]) \ ToSet(n)
          /\ \A g \in ToSet(n) : g.fn # "CancelTail"
      BY <1>3, <1>6, <1>8, <2>3, <2>5
    <2>8. \A x \in Mutex : owner'[x] \in {owner[x], NULL}
      BY <1>10, <2>1 DEF ReleaseHead
    <2>9. \A x \in Mutex : owner'[x] # NULL /\ Gone(state', owner'[x]) => owner[x] = owner'[x]
      BY <2>8
    <2>10. ~(Cpu \in Disciplined /\ Gone(state, Cpu))
      <3>1. SUFFICES ASSUME NEW c \in Disciplined, c = Cpu, Gone(state, c) PROVE FALSE
        OBVIOUS
      <3>2. held[c] = << >> /\ Head(stack[c]).arg = c
        BY <1>2, <3>1, EndTurn
      <3>3. QED BY <1>2, <1>10, <3>1, <3>2
    <2>11. QED BY <1>1, <1>2, <1>7, <2>4, <2>5, <2>6, <2>7, <2>9, <2>10, TurnKept
  <1>11. QED BY <1>1, <1>9, <1>10

(* The frame that calls SelectThread returns, to this thread or another.   *)
LEMMA SelectEnds ==
    ASSUME KInv, KInv', EInv, NEW fn \in {"__OSReschedule", "OSYieldThread"}, Running(fn), Return,
           UNCHANGED <<held, owner, waiters>>, Cpu = Isr => current' = current,
           \A u \in Thread : Gone(state', u) => Gone(state, u),
           current' \notin {current, NULL} => ~Gone(state', current')
    PROVE  EInv'
  <1>1. /\ Stacked /\ StackInv /\ Cpu # NULL /\ Cpu \in Context
        /\ stack[Cpu] \in Seq(Frame) /\ stack[Cpu] # << >> /\ Head(stack[Cpu]).fn = fn /\ Calm
    BY SelectFacts
  <1>2. /\ Cpu = Isr => current = NULL \/ stack[current] = << >>
        /\ Cpu # Isr => Cpu = current
    BY <1>1, CpuFacts
  <1>3. PICK c \in Context : c = Cpu
    BY <1>1
  <1>4. PICK s \in Seq(Frame) : s = stack[c]
    BY <1>1, <1>3
  <1>5. PICK n \in Seq(Frame) : n = Tail(s) /\ ToSet(s) = ToSet(n) \cup {Head(s)}
    BY <1>1, <1>3, <1>4, Popped
  <1>6. stack' = [stack EXCEPT ![c] = n]
    BY <1>3, <1>4, <1>5 DEF Return
  <1>7. Under(n) /\ Awakened(n)
    <2>1. Under(s)
      BY <1>4 DEF EInv, Nested
    <2>2. QED BY <1>1, <1>3, <1>4, <1>5, <2>1, UnderPopped
  <1>8. Head(s).fn \notin EndFns
    BY <1>1, <1>3, <1>4 DEF EndFns
  <1>9. \A f \in ToSet(stack[c]) : f.fn \in EndFns => f \in ToSet(n)
    BY <1>4, <1>5, <1>8
  <1>10. ReleaseKept(c, n) /\ WakeKept(c, n)
    <2>1. \A u : /\ F("__OSUnlockAllMutex", u) \in ToSet(stack[c]) => F("__OSUnlockAllMutex", u) \in ToSet(n)
                 /\ F("OSWakeupThread", u) \in ToSet(stack[c]) => F("OSWakeupThread", u) \in ToSet(n)
      BY <1>9, FrameIntro DEF EndFns
    <2>2. \A m \in Mutex : owner[m] \in Thread \cup {NULL}
      BY DEF KInv, TypeOK
    <2>3. ReleaseKept(c, n)
      BY <2>1, <2>2 DEF ReleaseKept
    <2>4. WakeKept(c, n)
      BY <2>1 DEF WakeKept
    <2>5. QED BY <2>3, <2>4
  <1>11. OrderKept(c, n)
    <2>1. ASSUME c \in Disciplined, Gone(state', c)
          PROVE  IF c = current' THEN held'[c] = << >> /\ EndShape(c, n) ELSE Plain(n)
      <3>1. Gone(state, c)
        BY <2>1, Disciplines
      <3>2. held[c] = << >> /\ Plain(s)
        BY <1>1, <1>3, <1>4, <1>8, <2>1, <3>1, EndTurn DEF EndFns
      <3>3. Plain(n)
        BY <1>5, <3>2 DEF Plain
      <3>4. QED BY <3>2, <3>3 DEF EndShape
    <2>2. \A u \in Disciplined \ {c} : Gone(state', u) => Gone(state, u)
      BY Disciplines
    <2>3. QED BY <2>1, <2>2 DEF OrderKept
  <1>12. CancelKept(c, n)
    <2>1. \A f \in ToSet(n) : f.fn # "CancelTail"
      BY <1>1, <1>4, <1>5 DEF Calm
    <2>2. QED BY <2>1, FrameIntro DEF CancelKept
  <1>13. c = Isr => \A f \in ToSet(n) : f.fn = "OSWakeupThread" => f.arg \in UserQueue
    BY <1>4, <1>5 DEF EInv, Nested
  <1>14. /\ c = current \/ c = Isr
         /\ c = Isr => current = NULL \/ (stack[current] = << >> /\ current' = current)
         /\ current' = current \/ c = Isr \/ Awakened(n)
    BY <1>2, <1>3, <1>7
  <1>15. QED BY <1>6, <1>7, <1>10, <1>11, <1>12, <1>13, <1>14, Kept

LEMMA DispatchEnds ==
    ASSUME NEW st \in [Thread -> {"READY", "RUNNING", "SLEEPING", "MORIBUND", "EXITED"}],
           NEW qu, NEW rq, NEW rb, TypeOK', Dispatch(st, qu, rq, rb)
    PROVE  /\ \A u \in Thread : Gone(state', u) => Gone(st, u)
           /\ current' # NULL => ~Gone(state', current')
  <1>1. CASE rb = {}
    BY <1>1 DEF Dispatch
  <1>2. CASE rb # {}
    <2>1. PICK h : current' = h /\ state' = [st EXCEPT ![h] = "RUNNING"]
      BY <1>2 DEF Dispatch
    <2>2. current' \in Thread \cup {NULL}
      BY DEF TypeOK
    <2>3. QED BY <2>1, <2>2 DEF Gone
  <1>3. QED BY <1>1, <1>2

LEMMA SelectThreadEnds ==
    ASSUME KInv, KInv', EInv, NEW fn \in {"__OSReschedule", "OSYieldThread"}, Running(fn),
           NEW yield \in BOOLEAN, SelectThread(yield)
    PROVE  EInv'
  <1>1. Return /\ UNCHANGED <<held, owner, waiters>>
    BY DEF SelectThread, mutexVars
  <1>2. TypeOK' /\ state \in [Thread -> {"READY", "RUNNING", "SLEEPING", "MORIBUND", "EXITED"}]
    BY DEF KInv, TypeOK
  <1>3. /\ Cpu = Isr => current' = current
        /\ \A u \in Thread : Gone(state', u) => Gone(state, u)
        /\ current' \notin {current, NULL} => ~Gone(state', current')
    <2>1. CASE UNCHANGED <<state, current>>
      BY <2>1
    <2>2. CASE Cpu # Isr /\ state[current] = "RUNNING" /\ ~UNCHANGED <<state, current>>
      <3> DEFINE st == [state EXCEPT ![current] = "READY"]
      <3>1. \E qu, rq, rb : Dispatch(st, qu, rq, rb)
        BY <2>2 DEF SelectThread
      <3>2. st \in [Thread -> {"READY", "RUNNING", "SLEEPING", "MORIBUND", "EXITED"}]
            /\ \A u \in Thread : Gone(st, u) => Gone(state, u)
        BY <1>2 DEF Gone
      <3> HIDE DEF st
      <3>3. /\ \A u \in Thread : Gone(state', u) => Gone(st, u)
            /\ current' # NULL => ~Gone(state', current')
        BY <1>2, <3>1, <3>2, DispatchEnds
      <3>4. QED BY <2>2, <3>2, <3>3
    <2>3. CASE Cpu # Isr /\ state[current] # "RUNNING" /\ ~UNCHANGED <<state, current>>
      <3>1. Dispatch(state, queue, runQueue, runBits)
        BY <2>3 DEF SelectThread
      <3>2. /\ \A u \in Thread : Gone(state', u) => Gone(state, u)
            /\ current' # NULL => ~Gone(state', current')
        BY <1>2, <3>1, DispatchEnds
      <3>3. QED BY <2>3, <3>2
    <2>4. Cpu = Isr => UNCHANGED <<state, current>>
      BY DEF SelectThread
    <2>5. QED BY <2>1, <2>2, <2>3, <2>4
  <1>4. QED BY <1>1, <1>3, SelectEnds

LEMMA RescheduleEnds == ASSUME KInv, KInv', EInv, OSReschedule PROVE EInv'
  <1>1. PICK fn \in {"__OSReschedule", "OSYieldThread"} : fn = "__OSReschedule"
    OBVIOUS
  <1>2. Running(fn)
    BY <1>1 DEF OSReschedule
  <1>3. CASE SelectThread(FALSE)
    <2>1. PICK yield \in BOOLEAN : SelectThread(yield)
      BY <1>3
    <2>2. QED BY <1>2, <2>1, SelectThreadEnds
  <1>4. CASE Return /\ UNCHANGED <<threadVars, queueVars, mutexVars, current>>
    <2>1. /\ Return /\ UNCHANGED <<held, owner, waiters>> /\ (Cpu = Isr => current' = current)
          /\ \A u \in Thread : Gone(state', u) => Gone(state, u)
          /\ current' \notin {current, NULL} => ~Gone(state', current')
      BY <1>4 DEF threadVars, queueVars, mutexVars
    <2>2. QED BY <1>2, <2>1, SelectEnds
  <1>5. QED BY <1>3, <1>4 DEF OSReschedule

LEMMA YieldTailEnds == ASSUME KInv, KInv', EInv, YieldTail PROVE EInv'
  <1>1. PICK fn \in {"__OSReschedule", "OSYieldThread"}, yield \in BOOLEAN :
           Running(fn) /\ SelectThread(yield)
    BY DEF YieldTail
  <1>2. QED BY <1>1, SelectThreadEnds

LEMMA LeaveIdleEnds == ASSUME KInv, KInv', EInv, LeaveIdle PROVE EInv'
  <1> DEFINE n == << >>
  <1>1. /\ Dispatch(state, queue, runQueue, runBits) /\ stack' = stack
        /\ UNCHANGED <<held, owner, waiters>>
    BY DEF LeaveIdle, mutexVars
  <1>2. stack[Isr] = << >> /\ current = NULL
    BY Constants DEF LeaveIdle, Cpu
  <1>3. /\ TypeOK' /\ state \in [Thread -> {"READY", "RUNNING", "SLEEPING", "MORIBUND", "EXITED"}]
        /\ stack \in [Context -> Seq(Frame)] /\ Isr \in Context
        /\ \A m \in Mutex : owner[m] \in Thread \cup {NULL}
    BY DEF KInv, TypeOK, Context
  <1>4. /\ \A u \in Thread : Gone(state', u) => Gone(state, u)
        /\ current' # NULL => ~Gone(state', current')
    BY <1>1, <1>3, DispatchEnds
  <1>5. stack' = [stack EXCEPT ![Isr] = n]
    BY <1>1, <1>2, <1>3
  <1>6. n \in Seq(Frame) /\ \A f : f \notin ToSet(n)
    BY DEF ToSet
  <1>7. Under(n)
    BY <1>6, UnderOne
  <1>8. \A f : f \notin ToSet(stack[Isr])
    BY <1>2 DEF ToSet
  <1> HIDE DEF n
  <1>9. ReleaseKept(Isr, n) /\ WakeKept(Isr, n)
    BY <1>1, <1>3, <1>4, <1>8 DEF ReleaseKept, WakeKept
  <1>10. OrderKept(Isr, n) /\ CancelKept(Isr, n)
    BY <1>1, <1>4, <1>6, Disciplines, Constants DEF OrderKept, CancelKept
  <1>11. \A f \in ToSet(n) : f.fn = "OSWakeupThread" => f.arg \in UserQueue
    BY <1>6
  <1>12. /\ Isr = current \/ Isr = Isr
         /\ Isr = Isr => current = NULL \/ (stack[current] = << >> /\ current' = current)
         /\ current' = current \/ Isr = Isr \/ Awakened(n)
         /\ current' \notin {current, NULL} => ~Gone(state', current')
    BY <1>2, <1>4
  <1>13. QED BY <1>3, <1>5, <1>6, <1>7, <1>9, <1>10, <1>11, <1>12, Kept

(* Stacks that are emptied, or begin anew, and owe nothing by it.          *)
LEMMA StacksKept ==
    ASSUME KInv, KInv', EInv, current' = current, owner' = owner,
           \A c \in Context : stack'[c] \in {stack[c], << >>, <<Reschedule>>},
           \A u \in Thread : held'[u] \in {held[u], << >>},
           \A u \in Thread : waiters'[u] # << >> => waiters[u] # << >>,
           \A u \in Thread : Gone(state', u) => Gone(state, u),
           \A c \in Context, u \in Thread, fn \in {"__OSUnlockAllMutex", "OSWakeupThread"} :
              Gone(state', u) /\ F(fn, u) \in ToSet(stack[c]) => F(fn, u) \in ToSet(stack'[c])
    PROVE  EInv'
  <1> DEFINE e == << >>
             r == <<Reschedule>>
  <1>1. /\ e \in Seq(Frame) /\ ToSet(e) = {} /\ r \in Seq(Frame) /\ ToSet(r) = {Reschedule}
        /\ Head(r) = Reschedule /\ Reschedule.fn = "__OSReschedule"
        /\ Reschedule.fn \notin EndFns
    <2>1. Reschedule \in Frame /\ Reschedule.fn = "__OSReschedule"
      BY FrameIntro
    <2>2. r \in Seq(Frame) /\ ToSet(r) = {Reschedule} /\ Head(r) = Reschedule
      BY <2>1, Stacks
    <2>3. e \in Seq(Frame) /\ ToSet(e) = {}
      BY DEF ToSet
    <2>4. QED BY <2>1, <2>2, <2>3 DEF EndFns
  <1>2. \A c \in Context : stack'[c] \in {stack[c], e, r}
    OBVIOUS
  <1>3. Awakened(e)
    BY DEF Awakened
  <1> HIDE DEF e, r
  <1>4. /\ Under(e) /\ Under(r) /\ Plain(e) /\ Plain(r) /\ Awakened(r)
    <2>1. Under(e) /\ Under(r)
      BY <1>1, UnderOne
    <2>2. Plain(e) /\ Plain(r) /\ Awakened(r)
      BY <1>1 DEF Plain, Awakened
    <2>3. QED BY <2>1, <2>2
  <1>5. /\ Thread \subseteq Context /\ Isr \in Context /\ Disciplined \subseteq Thread
        /\ \A m \in Mutex : owner[m] \in Thread \cup {NULL}
    BY Disciplines DEF Context, KInv, TypeOK
  <1>6. \A c \in Context : \A f : f \in ToSet(stack'[c]) => f \in ToSet(stack[c]) \/ f = Reschedule
    BY <1>1, <1>2
  <1>7. Nested'
    <2>1. /\ \A c \in Context : Under(stack[c])
          /\ \A c \in Thread \ {current} : Awakened(stack[c])
          /\ \A f \in ToSet(stack[Isr]) : f.fn = "OSWakeupThread" => f.arg \in UserQueue
      BY DEF EInv, Nested
    <2>2. \A c \in Context : Under(stack'[c])
      BY <1>2, <1>4, <2>1
    <2>3. \A c \in Thread \ {current} : Awakened(stack'[c])
      BY <1>2, <1>3, <1>4, <1>5, <2>1
    <2>4. \A f \in ToSet(stack'[Isr]) : f.fn = "OSWakeupThread" => f.arg \in UserQueue
      BY <1>1, <1>5, <1>6, <2>1
    <2>5. QED BY <2>2, <2>3, <2>4 DEF Nested, Under, Awakened
  <1>8. ReleaseOwed'
    <2>1. ASSUME NEW m \in Mutex, owner[m] # NULL, Gone(state', owner[m])
          PROVE  \E c \in Context : F("__OSUnlockAllMutex", owner[m]) \in ToSet(stack'[c])
      <3>1. owner[m] \in Thread /\ Gone(state, owner[m])
        BY <1>5, <2>1
      <3>2. PICK c \in Context : F("__OSUnlockAllMutex", owner[m]) \in ToSet(stack[c])
        BY <2>1, <3>1 DEF EInv, ReleaseOwed, Gone, Dead
      <3>3. QED BY <2>1, <3>1, <3>2
    <2>2. QED BY <2>1 DEF ReleaseOwed, Gone, Dead, F, ToSet
  <1>9. JoinersOwed'
    <2>1. ASSUME NEW t \in Thread, waiters'[t] # << >>, Gone(state', t)
          PROVE  \E c \in Context : F("OSWakeupThread", t) \in ToSet(stack'[c])
      <3>1. waiters[t] # << >> /\ Gone(state, t)
        BY <2>1
      <3>2. PICK c \in Context : F("OSWakeupThread", t) \in ToSet(stack[c])
        BY <3>1 DEF EInv, JoinersOwed, Gone, Dead
      <3>3. QED BY <2>1, <3>2
    <2>2. QED BY <2>1 DEF JoinersOwed, Gone, Dead, F, ToSet
  <1>10. \A u \in Thread : Plain(stack[u]) => Plain(stack'[u])
    BY <1>2, <1>4, <1>5
  <1>11. Orderly'
    <2>1. ASSUME NEW u \in Disciplined, Gone(state', u)
          PROVE  IF u = current THEN held'[u] = << >> /\ EndShape(u, stack'[u])
                                ELSE Plain(stack'[u])
      <3>1. IF u = current THEN held[u] = << >> /\ EndShape(u, stack[u]) ELSE Plain(stack[u])
        BY <1>5, <2>1 DEF EInv, Orderly, Gone, Dead
      <3>2. u = current => held'[u] = << >>
        BY <1>5, <3>1
      <3>3. u = current => EndShape(u, stack'[u])
        <4>1. CASE stack'[u] = stack[u]
          BY <3>1, <4>1
        <4>2. CASE stack'[u] \in {e, r}
          BY <1>4, <4>2 DEF EndShape
        <4>3. QED BY <1>2, <1>5, <4>1, <4>2
      <3>4. u # current => Plain(stack'[u])
        BY <1>5, <1>10, <3>1
      <3>5. QED BY <3>2, <3>3, <3>4
    <2>2. QED BY <2>1 DEF Orderly, Gone, Dead, EndShape, Plain, F, ToSet, Reschedule
  <1>12. CancelOrderly'
    <2>1. ASSUME NEW c \in Thread, NEW t \in Disciplined, F("CancelTail", t) \in ToSet(stack'[c])
          PROVE  IF t = c THEN held'[t] = << >> ELSE Plain(stack'[t])
      <3>1. F("CancelTail", t).fn = "CancelTail"
        BY FrameIntro
      <3>2. F("CancelTail", t) \in ToSet(stack[c])
        BY <1>1, <1>5, <1>6, <2>1, <3>1
      <3>3. IF t = c THEN held[t] = << >> ELSE Plain(stack[t])
        BY <3>2 DEF EInv, CancelOrderly
      <3>4. QED BY <1>5, <1>10, <3>3
    <2>2. QED BY <2>1 DEF CancelOrderly, Plain, F, ToSet
  <1>13. QED BY <1>7, <1>8, <1>9, <1>11, <1>12 DEF EInv

LEMMA IsrReturnEnds == ASSUME KInv, KInv', EInv, IsrReturn PROVE EInv'
  <1>1. /\ Running("IsrReturn") /\ UNCHANGED <<state, waiters, held, owner>> /\ current' = current
        /\ stack' = [c \in Context |-> IF c = Isr THEN << >>
                                       ELSE IF c = current THEN <<Reschedule>> ELSE stack[c]]
    BY DEF IsrReturn, threadVars, queueVars, mutexVars
  <1>2. Stacked /\ StackInv
    BY StateTypes DEF KInv
  <1>3. Cpu # NULL /\ stack[Cpu] # << >> /\ Head(stack[Cpu]).fn = "IsrReturn"
    BY <1>1 DEF Running
  <1>4. Cpu = Isr /\ NULL \notin Context
    <2>1. /\ Cpu \in Context /\ stack[Cpu] \in Seq(Frame)
          /\ Cpu # Isr => Cpu = current /\ current \in Thread
      BY <1>2, <1>3, CpuFacts
    <2>2. Head(stack[Cpu]) \in ToSet(stack[Cpu])
      BY <1>3, <2>1, Popped
    <2>3. QED BY <1>2, <1>3, <2>1, <2>2, Constants DEF StackInv, Frames, Context
  <1>5. current # NULL => stack[current] = << >>
    BY <1>2, <1>3, <1>4, CpuFacts
  <1>6. \A f : f \notin ToSet(<< >>)
    BY DEF ToSet
  <1>7. ASSUME NEW c \in Context, NEW u \in Thread,
               NEW fn \in {"__OSUnlockAllMutex", "OSWakeupThread"}, F(fn, u) \in ToSet(stack[c])
        PROVE  F(fn, u) \in ToSet(stack'[c])
    <2>1. F(fn, u).fn = fn /\ F(fn, u).arg = u
      BY FrameIntro
    <2>2. c # Isr
      BY <1>2, <1>7, <2>1, Disciplines DEF StackInv, Frames, IsrFrames, EInv, Nested
    <2>3. c # current
      BY <1>4, <1>5, <1>6, <1>7
    <2>4. QED BY <1>1, <1>7, <2>2, <2>3
  <1>8. /\ \A c \in Context : stack'[c] \in {stack[c], << >>, <<Reschedule>>}
        /\ \A u \in Thread : held'[u] \in {held[u], << >>}
        /\ \A u \in Thread : waiters'[u] # << >> => waiters[u] # << >>
        /\ \A u \in Thread : Gone(state', u) => Gone(state, u)
    BY <1>1
  <1>9. QED BY <1>1, <1>7, <1>8, StacksKept

LEMMA CreateEnds ==
    ASSUME KInv, KInv', EInv, current \in Thread, NEW t \in Thread \ {current}, NEW p \in Priority,
           NEW det \in BOOLEAN, MayCreate(t), OSCreateThread(current, t, p, det)
    PROVE  EInv'
  <1>1. /\ state' = [state EXCEPT ![t] = "READY"] /\ waiters' = [waiters EXCEPT ![t] = << >>]
        /\ held' = [held EXCEPT ![t] = << >>] /\ stack' = [stack EXCEPT ![t] = << >>]
        /\ current' = current /\ owner' = owner
    BY DEF OSCreateThread
  <1>2. /\ state \in [Thread -> {"READY", "RUNNING", "SLEEPING", "MORIBUND", "EXITED"}]
        /\ waiters \in [WaitQueue -> Seq(Thread)] /\ held \in [Thread -> Seq(Mutex)]
        /\ stack \in [Context -> Seq(Frame)] /\ Thread \subseteq WaitQueue /\ t \in Context
        /\ Stacked
    BY Constants, StateTypes DEF KInv, TypeOK, Context
  <1>3. /\ \A c \in Context : stack'[c] \in {stack[c], << >>, <<Reschedule>>}
        /\ \A u \in Thread : held'[u] \in {held[u], << >>}
        /\ \A u \in Thread : waiters'[u] # << >> => waiters[u] # << >>
        /\ \A u \in Thread : Gone(state', u) => Gone(state, u) /\ u # t
    BY <1>1, <1>2 DEF Gone
  <1>4. ASSUME NEW c \in Context, NEW u \in Thread,
               NEW fn \in {"__OSUnlockAllMutex", "OSWakeupThread"},
               Gone(state', u), F(fn, u) \in ToSet(stack[c])
        PROVE  F(fn, u) \in ToSet(stack'[c])
    <2>1. CASE c = t
      <3>1. Pending(t, fn, u)
        BY <1>2, <1>4, <2>1, PendingSet DEF EndFns
      <3>2. Ending(t, u) /\ u # t
        BY <1>3, <1>4, <3>1 DEF Ending
      <3>3. QED BY <3>2 DEF MayCreate
    <2>2. CASE c # t
      BY <1>1, <1>2, <1>4, <2>2
    <2>3. QED BY <2>1, <2>2
  <1>5. QED BY <1>1, <1>3, <1>4, StacksKept

LEMMA StutterEnds == ASSUME KInv, KInv', EInv, UNCHANGED vars PROVE EInv'
  <1>1. UNCHANGED <<state, waiters, held, owner, current, stack>>
    BY DEF vars, threadVars, queueVars, mutexVars
  <1>2. /\ \A c \in Context : stack'[c] \in {stack[c], << >>, <<Reschedule>>}
        /\ \A u \in Thread : held'[u] \in {held[u], << >>}
        /\ \A u \in Thread : waiters'[u] # << >> => waiters[u] # << >>
        /\ \A u \in Thread : Gone(state', u) => Gone(state, u)
        /\ \A c \in Context, u \in Thread, fn \in {"__OSUnlockAllMutex", "OSWakeupThread"} :
              Gone(state', u) /\ F(fn, u) \in ToSet(stack[c]) => F(fn, u) \in ToSet(stack'[c])
    BY <1>1
  <1>3. QED BY <1>1, <1>2, StacksKept

(* At the start nobody is dead but the threads that never were.            *)
LEMMA InitEnds == ASSUME Init, KInv PROVE EInv
  <1> DEFINE e == << >>
  <1>1. /\ stack = [c \in Context |-> e] /\ current = DefaultThread
        /\ held = [u \in Thread |-> e] /\ waiters = [q \in WaitQueue |-> e]
        /\ owner = [m \in Mutex |-> NULL]
    BY DEF Init
  <1>2. e \in Seq(Frame) /\ ToSet(e) = {} /\ Awakened(e)
    BY DEF ToSet, Awakened
  <1>3. waiters = [q \in WaitQueue |-> << >>]
    BY DEF Init
  <1> HIDE DEF e
  <1>4. Under(e) /\ Plain(e)
    BY <1>2, UnderOne DEF Plain
  <1>5. /\ Thread \subseteq Context /\ Isr \in Context /\ Disciplined \subseteq Thread
        /\ Thread \subseteq WaitQueue
    BY Disciplines, Constants DEF Context
  <1>6. Nested
    BY <1>1, <1>2, <1>4, <1>5 DEF Nested
  <1>7. ReleaseOwed /\ JoinersOwed
    BY <1>1, <1>3, <1>5 DEF ReleaseOwed, JoinersOwed
  <1>8. Orderly
    <2>1. \A u \in Disciplined : held[u] = << >> /\ Plain(stack[u])
      BY <1>1, <1>4, <1>5 DEF Init
    <2>2. QED BY <2>1 DEF Orderly, EndShape
  <1>9. CancelOrderly
    BY <1>1, <1>2, <1>5 DEF CancelOrderly
  <1>10. QED BY <1>6, <1>7, <1>8, <1>9 DEF EInv

LEMMA EndsStep == ASSUME KInv, KInv', EInv, [Next]_vars PROVE EInv'
  <1>1. /\ active \subseteq Thread /\ current \in Thread \cup {NULL}
    BY DEF KInv, TypeOK
  <1>2. CASE current # NULL /\ ThreadCall(current)
    <2>1. current \in Thread /\ current \in {current, Isr} /\ current # NULL
      BY <1>1, <1>2
    <2>2. CASE \E t \in Thread \ {current}, p \in Priority, det \in BOOLEAN :
                  MayCreate(t) /\ OSCreateThread(current, t, p, det)
      BY <2>1, <2>2, CreateEnds
    <2>3. CASE \E q \in UserQueue : OSSleepThread(current, q)
      BY <2>1, <2>3, SleepEnds
    <2>4. CASE \E q \in UserQueue : OSWakeupThread(current, q)
      <3>1. PICK c \in {current, Isr}, q \in UserQueue : c # NULL /\ OSWakeupThread(c, q)
        BY <2>1, <2>4
      <3>2. QED BY <3>1, WakeupEnds
    <2>5. CASE OSYieldThread(current)
      BY <2>1, <2>5, YieldEnds
    <2>6. CASE \E t \in active, p \in Priority : OSSetThreadPriority(current, t, p)
      BY <1>1, <2>1, <2>6, SetPriorityEnds
    <2>7. CASE \E t \in active \cap Cancellable : OSSuspendThread(current, t)
      BY <1>1, <2>1, <2>7, SuspendEnds
    <2>8. CASE \E t \in active : OSResumeThread(current, t)
      <3>1. PICK c \in {current, Isr}, t \in Thread : c # NULL /\ OSResumeThread(c, t)
        BY <1>1, <2>1, <2>8
      <3>2. QED BY <3>1, ResumeEnds
    <2>9. CASE MayEnd(current, current) /\ OSExitThread(current)
      BY <2>1, <2>9, ExitEnds
    <2>10. CASE \E t \in active \cap Cancellable : MayEnd(current, t) /\ OSCancelThread(current, t)
      BY <1>1, <2>1, <2>10, CancelEnds
    <2>11. CASE \E t \in active : OSJoinThread(current, t)
      BY <1>1, <2>1, <2>11, JoinEnds
    <2>12. CASE \E t \in active : OSDetachThread(current, t)
      BY <1>1, <2>1, <2>12, DetachEnds
    <2>13. CASE \E m \in Mutex : OSLockMutex(current, m)
      BY <2>1, <2>13, LockEnds
    <2>14. CASE \E m \in Mutex : OSTryLockMutex(current, m)
      BY <2>1, <2>14, TryLockEnds
    <2>15. CASE \E m \in Mutex : OSUnlockMutex(current, m)
      BY <2>1, <2>15, UnlockEnds
    <2>16. QED
      BY <1>2, <2>2, <2>3, <2>4, <2>5, <2>6, <2>7, <2>8, <2>9, <2>10, <2>11, <2>12, <2>13, <2>14, <2>15
      DEF ThreadCall
  <1>3. CASE Interrupt
    <2>1. Isr # NULL
      BY Constants
    <2>2. CASE \E q \in UserQueue : OSWakeupThread(Isr, q)
      <3>1. PICK c \in {current, Isr}, q \in UserQueue : c # NULL /\ OSWakeupThread(c, q)
        BY <2>1, <2>2
      <3>2. QED BY <3>1, WakeupEnds
    <2>3. CASE \E t \in active : OSResumeThread(Isr, t)
      <3>1. PICK c \in {current, Isr}, t \in Thread : c # NULL /\ OSResumeThread(c, t)
        BY <1>1, <2>1, <2>3
      <3>2. QED BY <3>1, ResumeEnds
    <2>4. QED BY <1>3, <2>2, <2>3 DEF Interrupt
  <1>4. CASE KernelStep
    BY <1>4, WakeupTurnEnds, RescheduleEnds, YieldTailEnds, UpdateEnds, PromotionEnds, ExitHintEnds,
       CancelTailEnds, JoinTailEnds, LockTurnEnds, LockSleepEnds, LockWokenEnds, UnlockAllEnds,
       IsrReturnEnds, LeaveIdleEnds
    DEF KernelStep
  <1>5. CASE UNCHANGED vars
    BY <1>5, StutterEnds
  <1>6. QED BY <1>2, <1>3, <1>4, <1>5 DEF Next

(* What the frames owe, said of the calls still to be run.                 *)
LEMMA EndsExact == ASSUME KInv, EInv PROVE EndedThreads
  <1>1. /\ Stacked /\ ActiveList /\ Thread \subseteq Context /\ Isr \in Context
        /\ Context = Thread \cup {Isr}
        /\ \A m \in Mutex : owner[m] \in Thread \cup {NULL}
    BY StateTypes DEF KInv, Context
  <1>2. DeadOwnersReleasing
    <2> SUFFICES ASSUME NEW m \in Mutex, owner[m] # NULL, Dead(owner[m])
                 PROVE  \E c \in Context : Pending(c, "__OSUnlockAllMutex", owner[m])
      BY DEF DeadOwnersReleasing
    <2>1. PICK c \in Context : F("__OSUnlockAllMutex", owner[m]) \in ToSet(stack[c])
      BY DEF EInv, ReleaseOwed
    <2>2. QED BY <1>1, <2>1, PendingSet DEF EndFns
  <1>3. JoinersWoken
    <2> SUFFICES ASSUME NEW t \in Thread, waiters[t] # << >>, Dead(t)
                 PROVE  \E c \in Context : /\ Pending(c, "OSWakeupThread", t)
                                           /\ \/ c \in {Isr, current}
                                              \/ ~Dead(c)
                                              \/ c \notin Disciplined
      BY DEF JoinersWoken
    <2>1. PICK c \in Context : F("OSWakeupThread", t) \in ToSet(stack[c])
      BY DEF EInv, JoinersOwed
    <2>2. ~Plain(stack[c])
      <3>1. F("OSWakeupThread", t).fn \in EndFns /\ F("OSWakeupThread", t).arg = t
        BY FrameIntro DEF EndFns
      <3>2. QED BY <2>1, <3>1 DEF Plain
    <2>3. c \in {Isr, current} \/ ~Dead(c) \/ c \notin Disciplined
      BY <2>2 DEF EInv, Orderly
    <2>4. Pending(c, "OSWakeupThread", t)
      BY <1>1, <2>1, PendingSet DEF EndFns
    <2>5. QED BY <2>3, <2>4
  <1>4. QED BY <1>1, <1>2, <1>3 DEF EndedThreads

(***************************************************************************)
(* However threads end (OSExitThread, OSCancelThread, a return from their  *)
(* function), while other threads and handlers call the kernel: a dead     *)
(* thread owns a mutex only while a call still has to release it, its      *)
(* joiners are asleep only while a call that will go on has to wake them,  *)
(* and OS_THREAD_QUEUE lists exactly the threads that are not EXITED.      *)
(***************************************************************************)
THEOREM KernelEndedThreads == Spec => []EndedThreads
  <1>1. Init => EInv
    BY InitOK, InitEnds
  <1>2. KInv /\ KInv' /\ EInv /\ [Next]_vars => EInv'
    BY EndsStep
  <1>3. KInv /\ EInv => EndedThreads
    BY EndsExact
  <1>4. QED BY <1>1, <1>2, <1>3, KernelInvariant, PTL DEF Spec

-----------------------------------------------------------------------------
(***************************************************************************)
(* What sleeping and waking promise.  A queue whose threads are being      *)
(* woken counts as empty, so a step of the kernel either leaves the sets   *)
(* of the sleepers alone, begins to wake the queue of the frame it comes   *)
(* to, puts the running thread to sleep, or takes the cancelled one out.   *)
(***************************************************************************)
LEMMA Sleepers ==
    ASSUME KInv
    PROVE  /\ waiters \in [WaitQueue -> Seq(Thread)]
           /\ \A q \in WaitQueue : IsInjective(waiters[q]) /\ ToSet(waiters[q]) \subseteq Thread
           /\ \A q \in WaitQueue, t \in Thread :
                 t \in ToSet(waiters[q]) => state[t] = "SLEEPING" /\ Place[t] = q
  <1>1. /\ waiters \in [WaitQueue -> Seq(Thread)]
        /\ \A q \in WaitQueue : /\ IsInjective(waiters[q])
                                /\ ToSet(waiters[q]) = {t \in Thread : Place[t] = q}
    BY DEF KInv, Placed, Linked
  <1>2. ASSUME NEW q \in WaitQueue, NEW t \in Thread, Place[t] = q
        PROVE  state[t] = "SLEEPING"
    <2>1. state[t] = "READY" /\ suspend[t] = 0 => priority[t] \in Priority
      BY DEF KInv, PrioOK, Dead
    <2>2. QED BY <1>2, <2>1, Constants DEF Place, Where
  <1>3. QED BY <1>1, <1>2

LEMMA AsleepThreads ==
    KInv => \A q \in WaitQueue, t \in Thread : t \in ToSet(waiters[q]) => state[t] = "SLEEPING"
  BY Sleepers

LEMMA SleepersNext ==
    ASSUME KInv'
    PROVE  \A q \in WaitQueue, t \in Thread :
              t \in ToSet(waiters'[q]) => state'[t] = "SLEEPING"
  <1>1. (KInv => \A q \in WaitQueue, t \in Thread :
                    t \in ToSet(waiters[q]) => state[t] = "SLEEPING")'
    BY AsleepThreads, PTL
  <1>2. QED BY <1>1

LEMMA WakeArg == KInv /\ Running("OSWakeupThread") => Arg \in WaitQueue
  <1>1. ASSUME KInv, Running("OSWakeupThread") PROVE Arg \in WaitQueue
    <2>1. Head(stack[Cpu]) \in Frame /\ Head(stack[Cpu]).fn = "OSWakeupThread"
          /\ Arg = Head(stack[Cpu]).arg
      BY <1>1, InnerFacts DEF Inner
    <2>2. QED BY <2>1 DEF Frame
  <1>2. QED BY <1>1

LEMMA WakeArgNext == ASSUME KInv', Running("OSWakeupThread")' PROVE Arg' \in WaitQueue
  <1>1. (KInv /\ Running("OSWakeupThread") => Arg \in WaitQueue)'
    BY WakeArg, PTL
  <1>2. QED BY <1>1

LEMMA AwakeThread ==
    ASSUME KInv, NEW t \in Thread, state[t] # "SLEEPING" PROVE Sets!Awake(t)
  <1>1. \A q \in WaitQueue : t \notin ToSet(waiters[q])
    BY Sleepers
  <1>2. \A q \in WaitQueue : t \notin Asleep[q]
    BY <1>1 DEF Asleep
  <1>3. QED BY <1>2 DEF Sets!Awake

(* A step that is none of the four.                                        *)
LEMMA SetsTurn ==
    ASSUME KInv, KInv', ~Running("OSWakeupThread"),
           \A q \in WaitQueue : ToSet(waiters'[q]) = ToSet(waiters[q]),
           current' # current => /\ ~Running("OSWakeupThread")'
                                 /\ current' = NULL \/ state'[current'] = "RUNNING"
    PROVE  [Sets!Next]_(Sets!vars)
  <1>1. Asleep = [q \in WaitQueue |-> ToSet(waiters[q])]
    BY DEF Asleep
  <1>2. CASE ~Running("OSWakeupThread")'
    <2>1. Asleep' = [q \in WaitQueue |-> ToSet(waiters'[q])]
      BY <1>2 DEF Asleep
    <2>2. Asleep' = Asleep
      BY <1>1, <2>1
    <2>3. CASE current' = current
      BY <2>2, <2>3 DEF Sets!vars
    <2>4. CASE current' = NULL
      BY <2>2, <2>4 DEF Sets!Next, Sets!Switch
    <2>5. CASE current' \notin {current, NULL}
      <3>1. current' \in Thread
        BY <2>5 DEF KInv, TypeOK
      <3>2. PICK t \in Thread : t = current'
        BY <3>1
      <3>3. \A q \in WaitQueue : t \notin ToSet(waiters'[q])
        BY <2>5, <3>2, SleepersNext
      <3>4. \A q \in WaitQueue : t \notin Asleep[q]
        BY <1>1, <3>3
      <3>5. Sets!Switch
        BY <2>2, <3>2, <3>4 DEF Sets!Switch, Sets!Awake
      <3>6. QED BY <3>5 DEF Sets!Next
    <2>6. QED BY <2>3, <2>4, <2>5
  <1>3. CASE Running("OSWakeupThread")'
    <2>1. PICK q \in WaitQueue : q = Arg'
      BY <1>3, WakeArgNext
    <2>2. Asleep' = [r \in WaitQueue |-> IF r = q THEN {} ELSE ToSet(waiters'[r])]
      BY <1>3, <2>1 DEF Asleep
    <2>3. Asleep' = [Asleep EXCEPT ![q] = {}]
      BY <1>1, <2>2
    <2>4. Sets!WakeAll(q)
      BY <1>3, <2>3 DEF Sets!WakeAll
    <2>5. QED BY <2>4 DEF Sets!Next
  <1>4. QED BY <1>2, <1>3

LEMMA StillSets ==
    ASSUME KInv, KInv', ~Running("OSWakeupThread"), waiters' = waiters, current' = current
    PROVE  [Sets!Next]_(Sets!vars)
  <1>1. \A q \in WaitQueue : ToSet(waiters'[q]) = ToSet(waiters[q])
    OBVIOUS
  <1>2. QED BY <1>1, SetsTurn

LEMMA SleepSets ==
    ASSUME KInv, KInv', current \in Thread, state[current] = "RUNNING",
           NEW q \in WaitQueue, SleepOn(current, q), current' = current,
           ~Running("OSWakeupThread"), ~Running("OSWakeupThread")'
    PROVE  [Sets!Next]_(Sets!vars)
  <1>0. PICK t \in Thread : t = current
    OBVIOUS
  <1> DEFINE l == waiters[q]
             n == InsertByPriority(l, t, priority)
  <1>1. /\ waiters \in [WaitQueue -> Seq(Thread)] /\ l \in Seq(Thread) /\ IsInjective(l)
        /\ t \notin ToSet(l) /\ priority \in [Thread -> Nat]
    BY <1>0, Sleepers, StateTypes DEF KInv
  <1>2. waiters' = [waiters EXCEPT ![q] = n]
    BY <1>0 DEF SleepOn
  <1> HIDE DEF l
  <1>3. ToSet(n) = ToSet(l) \cup {t}
    BY <1>1, InsertSet
  <1> HIDE DEF n
  <1>4. /\ Asleep = [r \in WaitQueue |-> ToSet(waiters[r])]
        /\ Asleep' = [r \in WaitQueue |-> ToSet(waiters'[r])]
    BY DEF Asleep
  <1>5. Asleep' = [Asleep EXCEPT ![q] = @ \cup {current}]
    BY <1>0, <1>1, <1>2, <1>3, <1>4 DEF l
  <1>6. current # NULL /\ Sets!Awake(current)
    BY Constants, AwakeThread
  <1>7. Sets!Sleep(q)
    BY <1>5, <1>6 DEF Sets!Sleep
  <1>8. QED BY <1>7 DEF Sets!Next

(* A thread that changes its place in its queue stays in it.               *)
LEMMA SameMembers ==
    ASSUME NEW l \in Seq(Thread), IsInjective(l), NEW t \in ToSet(l), NEW new \in [Thread -> Nat]
    PROVE  /\ ToSet(Append(Without(l, t), t)) = ToSet(l)
           /\ ToSet(InsertByPriority(Without(l, t), t, new)) = ToSet(l)
  <1> DEFINE w == Without(l, t)
  <1>1. t \in Thread
    BY DEF ToSet
  <1>2. w \in Seq(Thread) /\ ToSet(w) = ToSet(l) \ {t} /\ IsInjective(w)
    BY WithoutElements, WithoutSet
  <1> HIDE DEF w
  <1>3. ToSet(Append(w, t)) = ToSet(w) \cup {t}
    BY <1>1, <1>2, AppendSet
  <1>4. ToSet(InsertByPriority(w, t, new)) = ToSet(w) \cup {t}
    BY <1>1, <1>2, InsertSet
  <1>5. /\ ToSet(Append(w, t)) = ToSet(l) /\ ToSet(InsertByPriority(w, t, new)) = ToSet(l)
    BY <1>2, <1>3, <1>4
  <1>6. QED BY <1>5 DEF w

LEMMA SleepersStay ==
    ASSUME KInv, NEW t \in Thread, state[t] = "SLEEPING", ~Cancelling(t),
           NEW l, waiters' = [waiters EXCEPT ![queue[t]] = l],
           \/ l = Append(Without(waiters[queue[t]], t), t)
           \/ \E new \in [Thread -> Nat] : l = InsertByPriority(Without(waiters[queue[t]], t), t, new)
    PROVE  \A q \in WaitQueue : ToSet(waiters'[q]) = ToSet(waiters[q])
  <1>1. TypeOK /\ PrioOK /\ Placed /\ WaitersSorted /\ waiters \in [WaitQueue -> Seq(Thread)]
    BY Sleepers DEF KInv
  <1>2. PICK r \in WaitQueue : r = queue[t]
    BY <1>1, SleeperIn
  <1>3. waiters[r] \in Seq(Thread) /\ IsInjective(waiters[r]) /\ t \in ToSet(waiters[r])
    BY <1>1, <1>2, SleeperIn
  <1> DEFINE old == waiters[r]
  <1>4. old \in Seq(Thread) /\ IsInjective(old) /\ t \in ToSet(old)
        /\ \/ l = Append(Without(old, t), t)
           \/ \E new \in [Thread -> Nat] : l = InsertByPriority(Without(old, t), t, new)
    BY <1>2, <1>3
  <1> HIDE DEF old
  <1>5. [u \in Thread |-> 0] \in [Thread -> Nat]
    OBVIOUS
  <1>6. ToSet(l) = ToSet(old)
    <2>1. CASE l = Append(Without(old, t), t)
      BY <1>4, <1>5, <2>1, SameMembers
    <2>2. CASE \E new \in [Thread -> Nat] : l = InsertByPriority(Without(old, t), t, new)
      <3>1. PICK new \in [Thread -> Nat] : l = InsertByPriority(Without(old, t), t, new)
        BY <2>2
      <3>2. ToSet(InsertByPriority(Without(old, t), t, new)) = ToSet(old)
        BY <1>4, SameMembers
      <3>3. QED BY <3>1, <3>2
    <2>3. QED BY <1>4, <2>1, <2>2
  <1>7. QED BY <1>1, <1>2, <1>6 DEF old

LEMMA NewPriorities == KInv' => priority' \in [Thread -> Nat]
  <1>1. KInv => priority \in [Thread -> Nat]
    BY StateTypes DEF KInv
  <1>2. (KInv => priority \in [Thread -> Nat])'
    BY <1>1, PTL
  <1>3. QED BY <1>2

LEMMA EffectiveSets ==
    ASSUME KInv, KInv', NEW t \in Thread, NEW p, Cancelling(t) => queue[t] = NULL,
           SetEffectivePriority(t, p)
    PROVE  \A q \in WaitQueue : ToSet(waiters'[q]) = ToSet(waiters[q])
  <1>1. CASE waiters' = waiters
    BY <1>1
  <1>2. CASE /\ state[t] = "SLEEPING" /\ queue[t] # NULL
             /\ waiters' = [waiters EXCEPT ![queue[t]] = InsertByPriority(Without(@, t), t, priority')]
    <2>1. PICK new \in [Thread -> Nat] : new = priority'
      BY NewPriorities
    <2> DEFINE l == InsertByPriority(Without(waiters[queue[t]], t), t, new)
    <2>2. waiters' = [waiters EXCEPT ![queue[t]] = l]
      BY <1>2, <2>1
    <2>3. \E x \in [Thread -> Nat] : l = InsertByPriority(Without(waiters[queue[t]], t), t, x)
      OBVIOUS
    <2> HIDE DEF l
    <2>4. QED BY <1>2, <2>2, <2>3, SleepersStay
  <1>3. QED BY <1>1, <1>2 DEF SetEffectivePriority

LEMMA PrioritySets ==
    ASSUME KInv, KInv', NEW fn \in {"UpdatePriority", "__OSPromoteThread"}, Running(fn),
           NEW t \in Thread, NEW p, current' = current,
           \/ waiters' = waiters
           \/ SetEffectivePriority(t, p)
    PROVE  [Sets!Next]_(Sets!vars)
  <1>1. \A q \in WaitQueue : ToSet(waiters'[q]) = ToSet(waiters[q])
    <2>1. Cancelling(t) => queue[t] = NULL
      BY CancelledApart
    <2>2. QED BY <2>1, EffectiveSets
  <1>2. ~Running("OSWakeupThread")
    BY DEF Running
  <1>3. QED BY <1>1, <1>2, SetsTurn

LEMMA UpdateSets ==
    ASSUME KInv, KInv', UpdatePriority PROVE [Sets!Next]_(Sets!vars)
  <1>1. Running("UpdatePriority") /\ current' = current
        /\ \E t \in Thread : \E p : waiters' = waiters \/ SetEffectivePriority(t, p)
    BY DEF UpdatePriority, queueVars
  <1>2. QED BY <1>1, PrioritySets

LEMMA PromotionSets ==
    ASSUME KInv, KInv', PromoteThread PROVE [Sets!Next]_(Sets!vars)
  <1>1. Running("__OSPromoteThread") /\ current' = current
        /\ \E t \in Thread : \E p : waiters' = waiters \/ SetEffectivePriority(t, p)
    BY DEF PromoteThread, queueVars
  <1>2. QED BY <1>1, PrioritySets

(* The frame that is run next is not a wake-up's.                          *)
LEMMA NextFrame ==
    ASSUME stack \in [Context -> Seq(Frame)], current \in Thread, current' = current,
           stack[Isr] = << >>, NEW n, stack' = [stack EXCEPT ![current] = n], Awakened(n)
    PROVE  ~Running("OSWakeupThread")'
  <1>1. /\ stack'[Isr] = << >> /\ stack'[current] = n
    BY Constants DEF Context
  <1>2. Cpu' = current
    BY <1>1 DEF Cpu
  <1>3. SUFFICES ASSUME Running("OSWakeupThread")' PROVE FALSE
    OBVIOUS
  <1>4. stack'[current] # << >> /\ Head(stack'[current]).fn = "OSWakeupThread"
    BY <1>2, <1>3 DEF Running
  <1>5. QED BY <1>1, <1>4 DEF Awakened

LEMMA CallSets ==
    ASSUME KInv, KInv', NEW c \in {current, Isr}, c # NULL, MayCall(c), current' = current,
           \A q \in WaitQueue : ToSet(waiters'[q]) = ToSet(waiters[q])
    PROVE  [Sets!Next]_(Sets!vars)
  BY CallFacts, SetsTurn

LEMMA SleepThreadSets ==
    ASSUME KInv, KInv', current \in Thread, NEW q \in UserQueue, OSSleepThread(current, q)
    PROVE  [Sets!Next]_(Sets!vars)
  <1> DEFINE n == <<Reschedule>>
  <1>1. /\ MayCall(current) /\ SleepOn(current, q) /\ Enter(current, n) /\ current' = current
    BY DEF OSSleepThread
  <1>2. /\ stack[Isr] = << >> /\ Stacked /\ state[current] = "RUNNING"
        /\ ~Running("OSWakeupThread") /\ q \in WaitQueue
    BY <1>1, Caller, CallFacts, Constants
  <1>3. Awakened(n)
    BY DEF Awakened, Reschedule, F
  <1> HIDE DEF n
  <1>4. stack' = [stack EXCEPT ![current] = n]
    BY <1>1, Caller DEF Enter
  <1>5. ~Running("OSWakeupThread")'
    BY <1>1, <1>2, <1>3, <1>4, NextFrame DEF Stacked
  <1>6. QED BY <1>1, <1>2, <1>5, SleepSets

LEMMA JoinSets ==
    ASSUME KInv, KInv', current \in Thread, NEW t \in Thread, OSJoinThread(current, t)
    PROVE  [Sets!Next]_(Sets!vars)
  <1> DEFINE n == <<Reschedule, F("JoinTail", t)>>
  <1>1. /\ MayCall(current) /\ current' = current
        /\ (SleepOn(current, t) /\ Enter(current, n)) \/ waiters' = waiters
    BY DEF OSJoinThread, queueVars
  <1>2. /\ stack[Isr] = << >> /\ Stacked /\ state[current] = "RUNNING"
        /\ ~Running("OSWakeupThread") /\ t \in WaitQueue
    BY <1>1, Caller, CallFacts, Constants
  <1>3. Awakened(n)
    BY DEF Awakened, Reschedule, F
  <1> HIDE DEF n
  <1>4. CASE SleepOn(current, t) /\ Enter(current, n)
    <2>1. stack' = [stack EXCEPT ![current] = n]
      BY <1>4, Caller DEF Enter
    <2>2. ~Running("OSWakeupThread")'
      BY <1>1, <1>2, <1>3, <2>1, NextFrame DEF Stacked
    <2>3. QED BY <1>1, <1>2, <1>4, <2>2, SleepSets
  <1>5. CASE waiters' = waiters
    BY <1>1, <1>2, <1>5, StillSets
  <1>6. QED BY <1>1, <1>4, <1>5

LEMMA LockSleepSets ==
    ASSUME KInv, KInv', LockSleep PROVE [Sets!Next]_(Sets!vars)
  <1> DEFINE n == <<Reschedule, F("LockWoken", Arg)>> \o Tail(stack[Cpu])
  <1>1. /\ Running("LockSleep") /\ SleepOn(current, Arg) /\ current' = current
        /\ stack' = [stack EXCEPT ![Cpu] = n]
    BY DEF LockSleep, Become
  <1>2. /\ Arg \in Mutex /\ Stacked /\ StackInv /\ Leaving /\ ~Running("OSWakeupThread")
    BY <1>1, LockFacts, StateTypes DEF KInv, Running
  <1>3. /\ Cpu = current /\ current \in Thread /\ stack[Isr] = << >>
        /\ state[current] = "RUNNING" /\ Tail(stack[current]) = << >>
    BY <1>1, <1>2, ThreadTurn DEF IsrFrames, Teardown, Inner
  <1>4. Awakened(n)
    <2>1. n = <<Reschedule, F("LockWoken", Arg)>>
      <3>1. \A x, y : <<x, y>> \o << >> = <<x, y>>
        OBVIOUS
      <3>2. QED BY <1>3, <3>1
    <2>2. QED BY <2>1 DEF Awakened, Reschedule, F
  <1> HIDE DEF n
  <1>5. stack' = [stack EXCEPT ![current] = n]
    BY <1>1, <1>3
  <1>6. ~Running("OSWakeupThread")'
    BY <1>1, <1>2, <1>3, <1>4, <1>5, NextFrame DEF Stacked
  <1>7. QED BY <1>1, <1>2, <1>3, <1>6, SleepSets, Constants

LEMMA SuspendSets ==
    ASSUME KInv, KInv', current \in Thread, NEW t \in Thread, OSSuspendThread(current, t)
    PROVE  [Sets!Next]_(Sets!vars)
  <1>1. MayCall(current) /\ current' = current
    BY DEF OSSuspendThread
  <1>2. ~Cancelling(t)
    BY <1>1, Caller, CallFacts
  <1>3. CASE waiters' = waiters
    BY <1>1, <1>3, Caller, CallSets
  <1>4. CASE /\ state[t] = "SLEEPING"
             /\ waiters' = [waiters EXCEPT ![queue[t]] = Append(Without(@, t), t)]
    <2>1. \A q \in WaitQueue : ToSet(waiters'[q]) = ToSet(waiters[q])
      BY <1>2, <1>4, SleepersStay
    <2>2. QED BY <1>1, <2>1, Caller, CallSets
  <1>5. QED BY <1>3, <1>4 DEF OSSuspendThread, queueVars

LEMMA ResumeSets ==
    ASSUME KInv, KInv', NEW c \in {current, Isr}, c # NULL, NEW t \in Thread,
           OSResumeThread(c, t)
    PROVE  [Sets!Next]_(Sets!vars)
  <1> DEFINE unlinked == [waiters EXCEPT ![queue[t]] = Without(@, t)]
  <1>1. MayCall(c) /\ current' = current
    BY DEF OSResumeThread
  <1>2. ~Cancelling(t)
    BY <1>1, CallFacts
  <1>3. CASE waiters' = waiters
    BY <1>1, <1>3, CallSets
  <1>4. CASE /\ state[t] = "SLEEPING"
             /\ waiters' = [unlinked EXCEPT ![queue[t]] = InsertByPriority(@, t, priority')]
    <2>1. TypeOK /\ PrioOK /\ Placed /\ WaitersSorted /\ waiters \in [WaitQueue -> Seq(Thread)]
      BY Sleepers DEF KInv
    <2>2. PICK r \in WaitQueue : r = queue[t]
      BY <1>2, <1>4, <2>1, SleeperIn
    <2>3. PICK new \in [Thread -> Nat] : new = priority'
      BY NewPriorities
    <2> DEFINE l == InsertByPriority(Without(waiters[queue[t]], t), t, new)
    <2>4. waiters' = [waiters EXCEPT ![queue[t]] = l]
      BY <1>4, <2>1, <2>2, <2>3
    <2>5. \E x \in [Thread -> Nat] : l = InsertByPriority(Without(waiters[queue[t]], t), t, x)
      OBVIOUS
    <2> HIDE DEF l
    <2>6. \A q \in WaitQueue : ToSet(waiters'[q]) = ToSet(waiters[q])
      BY <1>2, <1>4, <2>4, <2>5, SleepersStay
    <2>7. QED BY <1>1, <2>6, CallSets
  <1>5. QED BY <1>3, <1>4 DEF OSResumeThread, queueVars

LEMMA CreateSets ==
    ASSUME KInv, KInv', current \in Thread, NEW t \in Thread \ {current}, NEW p \in Priority,
           NEW det \in BOOLEAN, OSCreateThread(current, t, p, det)
    PROVE  [Sets!Next]_(Sets!vars)
  <1>1. /\ MayCall(current) /\ current' = current /\ waiters[t] = << >>
        /\ waiters' = [waiters EXCEPT ![t] = << >>]
    BY DEF OSCreateThread, Unreferenced
  <1>2. \A q \in WaitQueue : ToSet(waiters'[q]) = ToSet(waiters[q])
    BY <1>1, Sleepers
  <1>3. QED BY <1>1, <1>2, Caller, CallSets

LEMMA CancelSets ==
    ASSUME KInv, KInv', current \in Thread, NEW t \in Thread, OSCancelThread(current, t)
    PROVE  [Sets!Next]_(Sets!vars)
  <1> DEFINE ct == F("CancelTail", t)
             n == (IF suspend[t] <= 0 THEN UpdateOwner(t) ELSE << >>) \o <<ct>>
  <1>1. MayCall(current) /\ current' = current
    BY DEF OSCancelThread
  <1>2. /\ stack[Isr] = << >> /\ Stacked /\ ~Running("OSWakeupThread") /\ ~Cancelling(t)
    BY <1>1, Caller, CallFacts
  <1>3. TypeOK /\ PrioOK /\ Placed /\ WaitersSorted
    BY DEF KInv
  <1>4. CASE waiters' = waiters
    BY <1>1, <1>4, Caller, CallSets
  <1>5. CASE /\ state[t] = "SLEEPING" /\ Enter(current, n)
             /\ waiters' = [waiters EXCEPT ![queue[t]] = Without(@, t)]
    <2>1. ct.fn = "CancelTail"
      BY DEF F
    <2>2. n \in Seq(Frame) /\ \A f \in ToSet(n) : f = ct \/ f.fn = "UpdatePriority"
      BY <1>3, CancelFrames
    <2> HIDE DEF n, ct
    <2>3. Awakened(n)
      <3>1. n # << >> => Head(n) \in ToSet(n)
        BY <2>2, Popped
      <3>2. QED BY <2>1, <2>2, <3>1 DEF Awakened
    <2>4. stack' = [stack EXCEPT ![current] = n]
      BY <1>5, Caller DEF Enter
    <2>5. ~Running("OSWakeupThread")'
      BY <1>1, <1>2, <2>3, <2>4, NextFrame DEF Stacked
    <2>6. PICK r \in WaitQueue : r = queue[t]
      BY <1>2, <1>3, <1>5, SleeperIn
    <2> DEFINE l == waiters[r]
    <2>7. /\ l \in Seq(Thread) /\ IsInjective(l) /\ t \in ToSet(l) /\ Place[t] = r
      BY <1>2, <1>3, <1>5, <2>6, SleeperIn
    <2>8. waiters' = [waiters EXCEPT ![r] = Without(l, t)]
      BY <1>5, <2>6
    <2> HIDE DEF l
    <2>9. ToSet(Without(l, t)) = ToSet(l) \ {t}
      BY <2>7, WithoutSet
    <2>10. \A q \in WaitQueue : ToSet(waiters'[q]) = ToSet(waiters[q]) \ {t}
      <3>1. \A q \in WaitQueue \ {r} : t \notin ToSet(waiters[q])
        BY <2>7, Sleepers
      <3>2. \A q \in WaitQueue \ {r} : waiters'[q] = waiters[q]
        BY <2>8, Sleepers
      <3>3. waiters'[r] = Without(l, t)
        BY <2>8, Sleepers
      <3>4. QED BY <2>9, <3>1, <3>2, <3>3 DEF l
    <2>11. /\ Asleep = [q \in WaitQueue |-> ToSet(waiters[q])]
           /\ Asleep' = [q \in WaitQueue |-> ToSet(waiters'[q])]
      BY <1>2, <2>5 DEF Asleep
    <2>12. Asleep' = [q \in WaitQueue |-> Asleep[q] \ {t}]
      BY <2>10, <2>11
    <2>13. Sets!Cancel(t)
      BY <1>1, <2>12 DEF Sets!Cancel
    <2>14. QED BY <2>13 DEF Sets!Next
  <1>6. QED BY <1>4, <1>5 DEF OSCancelThread

(* A turn of the wake-up's loop is seen by nobody.                         *)
LEMMA WakeupTurnSets ==
    ASSUME KInv, KInv', WakeupTurn PROVE [Sets!Next]_(Sets!vars)
  <1>1. /\ Running("OSWakeupThread") /\ current' = current
        /\ \/ /\ waiters[Arg] = << >> /\ waiters' = waiters
              /\ stack' = [stack EXCEPT ![Cpu] = <<Reschedule>> \o Tail(@)]
           \/ /\ waiters' = [waiters EXCEPT ![Arg] = Tail(@)] /\ stack' = stack
    BY DEF WakeupTurn, WakeupDone, WakeHead, Become, queueVars
  <1>2. PICK q \in WaitQueue : q = Arg
    BY <1>1, WakeArg
  <1>3. waiters \in [WaitQueue -> Seq(Thread)]
    BY Sleepers
  <1>4. Asleep = [r \in WaitQueue |-> IF r = q THEN {} ELSE ToSet(waiters[r])]
    BY <1>1, <1>2 DEF Asleep
  <1>5. CASE stack' = stack /\ waiters' = [waiters EXCEPT ![Arg] = Tail(@)]
    <2>1. Running("OSWakeupThread")' /\ Arg' = q
      BY <1>1, <1>2, <1>5 DEF Running, Arg, Cpu
    <2>2. Asleep' = [r \in WaitQueue |-> IF r = q THEN {} ELSE ToSet(waiters'[r])]
      BY <2>1 DEF Asleep
    <2>3. \A r \in WaitQueue \ {q} : waiters'[r] = waiters[r]
      BY <1>2, <1>3, <1>5
    <2>4. Asleep' = Asleep
      BY <1>4, <2>2, <2>3
    <2>5. QED BY <1>1, <2>4 DEF Sets!vars
  <1>6. CASE /\ waiters[Arg] = << >> /\ waiters' = waiters
             /\ stack' = [stack EXCEPT ![Cpu] = <<Reschedule>> \o Tail(@)]
    <2>1. /\ Cpu \in Context /\ Cpu # NULL /\ stack[Cpu] \in Seq(Frame) /\ stack[Cpu] # << >>
          /\ Tail(stack[Cpu]) \in Seq(Frame) /\ Stacked
      BY <1>1, InnerFacts DEF Inner
    <2> DEFINE n == <<Reschedule>> \o Tail(stack[Cpu])
    <2>2. Head(n) = Reschedule /\ n # << >>
      <3> DEFINE k == Tail(stack[Cpu])
      <3>1. Reschedule \in Frame /\ k \in Seq(Frame)
        BY <2>1, FrameIntro
      <3> HIDE DEF k
      <3>2. Head(<<Reschedule>> \o k) = Reschedule /\ <<Reschedule>> \o k # << >>
        BY <3>1, Pushed
      <3>3. QED BY <3>2 DEF k
    <2> HIDE DEF n
    <2>3. stack' = [stack EXCEPT ![Cpu] = n]
      BY <1>6 DEF n
    <2>4. stack'[Cpu] = n /\ \A c \in Context \ {Cpu} : stack'[c] = stack[c]
      BY <2>1, <2>3 DEF Stacked
    <2>5. Cpu' = Cpu
      BY <1>1, <2>1, <2>2, <2>4 DEF Cpu, Context
    <2>6. ~Running("OSWakeupThread")'
      <3>1. SUFFICES ASSUME Running("OSWakeupThread")' PROVE FALSE
        OBVIOUS
      <3>2. Head(stack'[Cpu']).fn = "OSWakeupThread"
        BY <3>1 DEF Running
      <3>3. Reschedule.fn = "__OSReschedule"
        BY DEF Reschedule, F
      <3>4. QED BY <2>2, <2>4, <2>5, <3>2, <3>3
    <2>7. Asleep' = [r \in WaitQueue |-> ToSet(waiters'[r])]
      BY <2>6 DEF Asleep
    <2>8. ToSet(waiters[q]) = {}
      BY <1>2, <1>6 DEF ToSet
    <2>9. Asleep' = Asleep
      BY <1>4, <1>6, <2>7, <2>8
    <2>10. QED BY <1>1, <2>9 DEF Sets!vars
  <1>7. QED BY <1>1, <1>5, <1>6

(* Who is dispatched is RUNNING, and was not switched out in a wake-up.    *)
LEMMA DispatchRuns ==
    ASSUME NEW st \in [Thread -> {"READY", "RUNNING", "SLEEPING", "MORIBUND", "EXITED"}],
           NEW qu, NEW rq, NEW rb, TypeOK', Dispatch(st, qu, rq, rb)
    PROVE  current' = NULL \/ (current' \in Thread /\ state'[current'] = "RUNNING")
  <1>1. CASE rb = {}
    BY <1>1 DEF Dispatch
  <1>2. CASE rb # {}
    <2>1. PICK h : current' = h /\ state' = [st EXCEPT ![h] = "RUNNING"]
      BY <1>2 DEF Dispatch
    <2>2. current' \in Thread \cup {NULL}
      BY DEF TypeOK
    <2>3. QED BY <2>1, <2>2
  <1>3. QED BY <1>1, <1>2

LEMMA NextThread ==
    ASSUME KInv, EInv, stack'[Isr] = << >>, current' # current,
           current' \in Thread => stack'[current'] = stack[current'],
           current' = NULL \/ (current' \in Thread /\ state'[current'] = "RUNNING")
    PROVE  /\ ~Running("OSWakeupThread")'
           /\ current' = NULL \/ state'[current'] = "RUNNING"
  <1>1. Cpu' = current'
    BY DEF Cpu
  <1>2. SUFFICES ASSUME Running("OSWakeupThread")' PROVE FALSE
    OBVIOUS
  <1>3. /\ current' \in Thread \ {current} /\ stack'[current'] # << >>
        /\ Head(stack'[current']).fn = "OSWakeupThread"
    BY <1>1, <1>2 DEF Running
  <1>4. PICK u \in Thread \ {current} : u = current'
    BY <1>3
  <1>5. Awakened(stack[u])
    BY DEF EInv, Nested
  <1>6. QED BY <1>3, <1>4, <1>5 DEF Awakened

LEMMA SelectSets ==
    ASSUME KInv, KInv', EInv, NEW fn \in {"__OSReschedule", "OSYieldThread"}, Running(fn),
           NEW yield \in BOOLEAN, SelectThread(yield)
    PROVE  [Sets!Next]_(Sets!vars)
  <1>1. Return /\ waiters' = waiters
    BY DEF SelectThread
  <1>2. TypeOK' /\ state \in [Thread -> {"READY", "RUNNING", "SLEEPING", "MORIBUND", "EXITED"}]
    BY DEF KInv, TypeOK
  <1>3. /\ Stacked /\ Cpu # NULL
        /\ Cpu # Isr => Cpu = current /\ current \in Thread /\ stack[Isr] = << >>
        /\ ~Running("OSWakeupThread")
    BY SelectFacts
  <1>4. CASE current' = current
    BY <1>1, <1>3, <1>4, StillSets
  <1>5. CASE current' # current
    <2>1. Cpu # Isr /\ Cpu = current
      BY <1>3, <1>5 DEF SelectThread
    <2>2. current' = NULL \/ (current' \in Thread /\ state'[current'] = "RUNNING")
      <3>1. CASE state[current] = "RUNNING"
        <4> DEFINE st == [state EXCEPT ![current] = "READY"]
        <4>1. \E qu, rq, rb : Dispatch(st, qu, rq, rb)
          BY <1>5, <2>1, <3>1 DEF SelectThread
        <4>2. st \in [Thread -> {"READY", "RUNNING", "SLEEPING", "MORIBUND", "EXITED"}]
          BY <1>2
        <4> HIDE DEF st
        <4>3. QED BY <1>2, <4>1, <4>2, DispatchRuns
      <3>2. CASE state[current] # "RUNNING"
        <4>1. Dispatch(state, queue, runQueue, runBits)
          BY <1>5, <2>1, <3>2 DEF SelectThread
        <4>2. QED BY <1>2, <4>1, DispatchRuns
      <3>3. QED BY <3>1, <3>2
    <2>3. stack'[Isr] = << >> /\ (current' \in Thread => stack'[current'] = stack[current'])
      BY <1>1, <1>3, <1>5, <2>1, Constants DEF Return, Stacked, Context
    <2>4. ~Running("OSWakeupThread")' /\ (current' = NULL \/ state'[current'] = "RUNNING")
      BY <1>5, <2>2, <2>3, NextThread
    <2>5. \A q \in WaitQueue : ToSet(waiters'[q]) = ToSet(waiters[q])
      BY <1>1
    <2>6. QED BY <1>3, <2>4, <2>5, SetsTurn
  <1>6. QED BY <1>4, <1>5

LEMMA RescheduleSets ==
    ASSUME KInv, KInv', EInv, OSReschedule PROVE [Sets!Next]_(Sets!vars)
  <1>1. PICK fn \in {"__OSReschedule", "OSYieldThread"} : fn = "__OSReschedule"
    OBVIOUS
  <1>2. Running(fn)
    BY <1>1 DEF OSReschedule
  <1>3. CASE SelectThread(FALSE)
    <2>1. PICK yield \in BOOLEAN : SelectThread(yield)
      BY <1>3
    <2>2. QED BY <1>2, <2>1, SelectSets
  <1>4. CASE UNCHANGED <<threadVars, queueVars, mutexVars, current>>
    BY <1>2, <1>4, SelectFacts, StillSets DEF queueVars
  <1>5. QED BY <1>3, <1>4 DEF OSReschedule

LEMMA YieldTailSets ==
    ASSUME KInv, KInv', EInv, YieldTail PROVE [Sets!Next]_(Sets!vars)
  <1>1. PICK fn \in {"__OSReschedule", "OSYieldThread"}, yield \in BOOLEAN :
           Running(fn) /\ SelectThread(yield)
    BY DEF YieldTail
  <1>2. QED BY <1>1, SelectSets

LEMMA LeaveIdleSets ==
    ASSUME KInv, KInv', EInv, LeaveIdle PROVE [Sets!Next]_(Sets!vars)
  <1>1. /\ Dispatch(state, queue, runQueue, runBits) /\ stack' = stack /\ waiters' = waiters
        /\ Cpu = NULL
    BY DEF LeaveIdle
  <1>2. stack[Isr] = << >> /\ current = NULL /\ ~Running("OSWakeupThread")
    BY <1>1, Constants DEF Cpu, Running
  <1>3. TypeOK' /\ state \in [Thread -> {"READY", "RUNNING", "SLEEPING", "MORIBUND", "EXITED"}]
    BY DEF KInv, TypeOK
  <1>4. current' = NULL \/ (current' \in Thread /\ state'[current'] = "RUNNING")
    BY <1>1, <1>3, DispatchRuns
  <1>5. current' # current =>
           ~Running("OSWakeupThread")' /\ (current' = NULL \/ state'[current'] = "RUNNING")
    BY <1>1, <1>2, <1>4, NextThread
  <1>6. \A q \in WaitQueue : ToSet(waiters'[q]) = ToSet(waiters[q])
    BY <1>1
  <1>7. QED BY <1>2, <1>5, <1>6, SetsTurn

LEMMA SetsStep == ASSUME KInv, KInv', EInv, [Next]_vars PROVE [Sets!Next]_(Sets!vars)
  <1>1. /\ active \subseteq Thread /\ current \in Thread \cup {NULL}
    BY DEF KInv, TypeOK
  <1>2. ASSUME NEW c \in {current, Isr}, c # NULL, MayCall(c), waiters' = waiters, current' = current
        PROVE  [Sets!Next]_(Sets!vars)
    <2>1. \A q \in WaitQueue : ToSet(waiters'[q]) = ToSet(waiters[q])
      BY <1>2
    <2>2. QED BY <1>2, <2>1, CallSets
  <1>3. CASE current # NULL /\ ThreadCall(current)
    <2>1. current \in Thread /\ current \in {current, Isr} /\ current # NULL
      BY <1>1, <1>3
    <2>2. CASE \E t \in Thread \ {current}, p \in Priority, det \in BOOLEAN :
                  OSCreateThread(current, t, p, det)
      BY <2>1, <2>2, CreateSets
    <2>3. CASE \E q \in UserQueue : OSSleepThread(current, q)
      BY <2>1, <2>3, SleepThreadSets
    <2>4. CASE \E q \in UserQueue : OSWakeupThread(current, q)
      BY <1>2, <2>1, <2>4 DEF OSWakeupThread, queueVars
    <2>5. CASE OSYieldThread(current)
      BY <1>2, <2>1, <2>5 DEF OSYieldThread, queueVars
    <2>6. CASE \E t \in active, p \in Priority : OSSetThreadPriority(current, t, p)
      BY <1>2, <2>1, <2>6 DEF OSSetThreadPriority, queueVars
    <2>7. CASE \E t \in active \cap Cancellable : OSSuspendThread(current, t)
      BY <1>1, <2>1, <2>7, SuspendSets
    <2>8. CASE \E t \in active : OSResumeThread(current, t)
      <3>1. PICK c \in {current, Isr}, t \in Thread : c # NULL /\ OSResumeThread(c, t)
        BY <1>1, <2>1, <2>8
      <3>2. QED BY <3>1, ResumeSets
    <2>9. CASE OSExitThread(current)
      BY <1>2, <2>1, <2>9 DEF OSExitThread, queueVars
    <2>10. CASE \E t \in active \cap Cancellable : OSCancelThread(current, t)
      BY <1>1, <2>1, <2>10, CancelSets
    <2>11. CASE \E t \in active : OSJoinThread(current, t)
      BY <1>1, <2>1, <2>11, JoinSets
    <2>12. CASE \E t \in active : OSDetachThread(current, t)
      BY <1>2, <2>1, <2>12 DEF OSDetachThread, queueVars
    <2>13. CASE \E m \in Mutex : OSLockMutex(current, m)
      BY <1>2, <2>1, <2>13 DEF OSLockMutex, queueVars
    <2>14. CASE \E m \in Mutex : OSTryLockMutex(current, m)
      BY <1>2, <2>1, <2>14 DEF OSTryLockMutex, queueVars
    <2>15. CASE \E m \in Mutex : OSUnlockMutex(current, m)
      BY <1>2, <2>1, <2>15 DEF OSUnlockMutex, queueVars
    <2>16. QED
      BY <1>3, <2>2, <2>3, <2>4, <2>5, <2>6, <2>7, <2>8, <2>9, <2>10, <2>11, <2>12, <2>13, <2>14, <2>15
      DEF ThreadCall
  <1>4. CASE Interrupt
    <2>1. Isr # NULL /\ Isr \in {current, Isr}
      BY Constants
    <2>2. CASE \E q \in UserQueue : OSWakeupThread(Isr, q)
      BY <1>2, <2>1, <2>2 DEF OSWakeupThread, queueVars
    <2>3. CASE \E t \in active : OSResumeThread(Isr, t)
      <3>1. PICK c \in {current, Isr}, t \in Thread : c # NULL /\ OSResumeThread(c, t)
        BY <1>1, <2>1, <2>3
      <3>2. QED BY <3>1, ResumeSets
    <2>4. QED BY <1>4, <2>2, <2>3 DEF Interrupt
  <1>5. CASE KernelStep
    <2>1. CASE ExitHint \/ CancelTail \/ JoinTail \/ LockTurn \/ LockWoken \/ UnlockAllTurn \/ IsrReturn
      <3>1. ~Running("OSWakeupThread")
        BY <2>1 DEF ExitHint, CancelTail, JoinTail, LockTurn, LockWoken, UnlockAllTurn, IsrReturn, Running
      <3>2. waiters' = waiters /\ current' = current
        BY <2>1 DEF ExitHint, CancelTail, JoinTail, LockTurn, LockWoken, UnlockAllTurn, IsrReturn, queueVars
      <3>3. QED BY <3>1, <3>2, StillSets
    <2>2. QED
      BY <1>5, <2>1, WakeupTurnSets, RescheduleSets, YieldTailSets, UpdateSets, PromotionSets,
         LockSleepSets, LeaveIdleSets
      DEF KernelStep
  <1>6. CASE UNCHANGED vars
    <2>1. stack' = stack /\ waiters' = waiters /\ current' = current
      BY <1>6 DEF vars, queueVars
    <2>2. Asleep' = Asleep
      BY <2>1 DEF Asleep, Running, Arg, Cpu
    <2>3. QED BY <2>1, <2>2 DEF Sets!vars
  <1>7. QED BY <1>3, <1>4, <1>5, <1>6 DEF Next

(***************************************************************************)
(* The thread queues of the kernel, with their order, their interrupted    *)
(* wake-ups and everything that relinks a sleeper, implement the sets that *)
(* WaitSets describes: who sleeps stays asleep until its queue is woken,   *)
(* which releases all of it at once, or until it is cancelled, and nobody  *)
(* asleep is ever dispatched.                                              *)
(***************************************************************************)
THEOREM KernelImplementsWaitSets == Spec => WaitSetsSpec
  <1>1. ASSUME Init PROVE Sets!Init
    <2>1. /\ waiters = [q \in WaitQueue |-> << >>] /\ current = DefaultThread
          /\ stack = [c \in Context |-> << >>]
      BY <1>1 DEF Init
    <2>2. ~Running("OSWakeupThread")
      BY <2>1, Constants DEF Running, Cpu, Context
    <2>3. Asleep = [q \in WaitQueue |-> {}]
      BY <2>1, <2>2 DEF Asleep, ToSet
    <2>4. QED BY <2>1, <2>3, Constants DEF Sets!Init
  <1>2. Init => EInv
    BY InitOK, InitEnds
  <1>3. KInv /\ KInv' /\ EInv /\ [Next]_vars => EInv'
    BY EndsStep
  <1>4. KInv /\ KInv' /\ EInv /\ [Next]_vars => [Sets!Next]_(Sets!vars)
    BY SetsStep
  <1>5. QED BY <1>1, <1>2, <1>3, <1>4, KernelInvariant, PTL DEF Spec, WaitSetsSpec, Sets!Spec
=============================================================================
