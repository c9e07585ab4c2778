--------------------------- MODULE OSPriority_proofs ---------------------------
(***************************************************************************)
(* Priorities, for every set of threads and mutexes: what a thread's       *)
(* priority is between calls, and that the best ready thread runs, on top  *)
(* of the invariants of OSKernel_proofs.                                   *)
(* The names ending in Prio say that a call or a turn keeps PInv, those    *)
(* ending in Best that it keeps HInv.                                      *)
(***************************************************************************)
EXTENDS OSKernel_proofs

(***************************************************************************)
(* A thread lends its priority to the owner of the mutex it sleeps on, or  *)
(* is about to; what a thread may claim is its base and what it is lent.   *)
(***************************************************************************)
LendsOn(u) == \/ state[u] = "SLEEPING" /\ ~Cancelling(u)
              \/ \E f \in ToSet(stack[u]) : f.fn = "LockSleep"

Lenders(t) == {u \in Thread : LendsOn(u) /\ mutex[u] # NULL /\ owner[mutex[u]] = t}

Claims(t) == {base[t]} \cup {priority[u] : u \in Lenders(t)}

Least(p, S) == p \in S /\ \A r \in S : p <= r

WakesMutex(f) == f.fn = "OSWakeupThread" /\ f.arg \in Mutex

(***************************************************************************)
(* What the stack s of thread c says of mutexes.  A promotion carries the  *)
(* priority of c, which is about to sleep and which the thread it is for   *)
(* may claim; only the dead have their mutexes unlocked; a wake-up of the  *)
(* waiters of a mutex is innermost, and the mutex free; the owner's        *)
(* priority is followed before a reschedule; and c has a mutex noted only  *)
(* while it is on its way into or out of its sleep.                        *)
(***************************************************************************)
FrameShape(c, s, f) ==
    /\ f.fn = "LockSleep" => mutex[c] = f.arg
    /\ f.fn = "__OSUnlockAllMutex" => Dead(f.arg)
    /\ f.fn = "__OSPromoteThread" =>
          /\ f.prio = priority[c] /\ f.prio \in Claims(f.arg)
          /\ \E m \in Mutex : s = <<f, F("LockSleep", m)>>

HeadShape(s) ==
    s # << >> =>
        /\ \A f \in ToSet(Tail(s)) : f.fn # "UpdatePriority" /\ ~WakesMutex(f)
        /\ WakesMutex(Head(s)) => owner[Head(s).arg] = NULL
        /\ Head(s).fn = "UpdatePriority" =>
              \E g \in ToSet(Tail(s)) : g.fn \in {"__OSReschedule", "CancelTail"}

MutexNoted(c, s) ==
    mutex[c] # NULL /\ ~Dead(c) =>
        \E f \in ToSet(s) : f.fn \in {"LockSleep", "LockWoken"} /\ f.arg = mutex[c]

Shape(c, s) == HeadShape(s) /\ MutexNoted(c, s) /\ \A f \in ToSet(s) : FrameShape(c, s, f)

Shapes == \A c \in Thread : Shape(c, stack[c])

(* A sleeper that has noted a mutex sleeps on it, and a suspended one has  *)
(* the worst priority.                                                     *)
SleepOK(t) ==
    state[t] = "SLEEPING" =>
        /\ suspend[t] > 0 => priority[t] = SuspendedPriority
        /\ ~Cancelling(t) /\ (mutex[t] # NULL \/ queue[t] \in Mutex) => queue[t] = mutex[t]

Sleeps == \A t \in Thread : SleepOK(t)

(***************************************************************************)
(* The priority of a thread that may run is the best it may claim, but for *)
(* the one the loop of UpdatePriority is at, and for the one the loop of   *)
(* __OSPromoteThread is at, which may claim the priority it carries.       *)
(***************************************************************************)
Live(t) == ~Dead(t) /\ suspend[t] = 0

Almost(t, p) ==
    /\ \A r \in Claims(t) : priority[t] <= r \/ p <= r
    /\ priority[t] \in Claims(t) \/ p <= priority[t]

SettledOne(t) ==
    \/ Running("UpdatePriority") /\ Arg = t
    \/ Running("__OSPromoteThread") /\ Arg = t /\ Almost(t, Head(stack[Cpu]).prio)
    \/ Least(priority[t], Claims(t))

Settled == \A t \in Thread : Live(t) => SettledOne(t)

PInv == Shapes /\ Sleeps /\ Settled

(* Nobody is about to sleep on a mutex, or in the middle of a cancel.      *)
Bare == \A c \in Thread : \A f \in ToSet(stack[c]) : f.fn \notin {"LockSleep", "CancelTail"}

LEMMA BareLends ==
    KInv /\ Bare => \A u \in Thread : ~Cancelling(u) /\ (LendsOn(u) <=> state[u] = "SLEEPING")
  <1> SUFFICES ASSUME KInv, Bare, NEW u \in Thread
               PROVE  ~Cancelling(u) /\ (LendsOn(u) <=> state[u] = "SLEEPING")
    OBVIOUS
  <1>1. Stacked /\ StackInv
    BY StateTypes DEF KInv
  <1>2. Calm
    BY <1>1 DEF Calm, Bare, StackInv, Frames, IsrFrames, Context
  <1>3. ~Cancelling(u)
    BY <1>1, <1>2, CalmNone
  <1>4. QED BY <1>3 DEF LendsOn, Bare

LEMMA BareLendsNext ==
    KInv' /\ Bare' =>
        \A u \in Thread : ~Cancelling(u)' /\ (LendsOn(u)' <=> state'[u] = "SLEEPING")
  <1>1. (KInv /\ Bare =>
            \A u \in Thread : ~Cancelling(u) /\ (LendsOn(u) <=> state[u] = "SLEEPING"))'
    BY BareLends, PTL
  <1>2. QED BY <1>1

(* Only the running thread's stack can say otherwise.                      *)
LEMMA BareNow ==
    ASSUME KInv,
           current # NULL => \/ stack[current] = << >>
                             \/ Head(stack[current]).fn \notin
                                  {"__OSPromoteThread", "LockSleep", "CancelTail", "UpdatePriority"}
    PROVE  Bare
  <1> SUFFICES ASSUME NEW c \in Thread, NEW f \in ToSet(stack[c]),
                      f.fn \in {"LockSleep", "CancelTail"}
               PROVE  FALSE
    BY DEF Bare
  <1>1. Stacked /\ StackInv
    BY StateTypes DEF KInv
  <1>2. c = current /\ c # NULL
    BY <1>1, Constants DEF StackInv, Locks, Cancels
  <1>3. PICK s \in Seq(Frame) : s = stack[c]
    BY <1>1 DEF Stacked, Context
  <1>4. s # << >> /\ Head(s) \in ToSet(s)
    <2>1. s # << >>
      <3>1. ToSet(<< >>) = {}
        BY Stacks DEF ToSet
      <3>2. QED BY <1>3, <3>1
    <2>2. QED BY <2>1, Popped
  <1>5. CASE f.fn = "LockSleep"
    <2>1. \A g \in ToSet(stack[c]) : g.fn \in {"__OSPromoteThread", "LockSleep"}
      BY <1>1, <1>5 DEF StackInv, Locks, LockFrame
    <2>2. QED BY <1>2, <1>3, <1>4, <2>1
  <1>6. CASE f.fn = "CancelTail"
    <2>1. \A g \in ToSet(stack[c]) : g.fn \in {"CancelTail", "UpdatePriority"}
      BY <1>1, <1>6 DEF StackInv, Cancels
    <2>2. QED BY <1>2, <1>3, <1>4, <2>1
  <1>7. QED BY <1>5, <1>6

LEMMA BareStep ==
    ASSUME Bare, NEW c \in Context, \A d \in Thread \ {c} : stack'[d] = stack[d],
           c \in Thread => \A f \in ToSet(stack'[c]) : \/ f \in ToSet(stack[c])
                                                       \/ f.fn \notin {"LockSleep", "CancelTail"}
    PROVE  Bare'
  <1> SUFFICES ASSUME NEW d \in Thread, NEW f \in ToSet(stack'[d])
               PROVE  f.fn \notin {"LockSleep", "CancelTail"}
    BY DEF Bare
  <1>1. CASE d = c
    BY <1>1 DEF Bare
  <1>2. CASE d # c
    BY <1>2 DEF Bare
  <1>3. QED BY <1>1, <1>2

(* The waiters of a mutex are the sleepers that have noted it.             *)
LEMMA WaitersNote ==
    ASSUME KInv, Sleeps, NEW m \in Mutex, NEW v \in Thread
    PROVE  v \in ToSet(waiters[m]) <=> state[v] = "SLEEPING" /\ ~Cancelling(v) /\ mutex[v] = m
  <1>1. m \in WaitQueue /\ m # NULL
    BY Constants
  <1>2. ASSUME v \in ToSet(waiters[m])
        PROVE  state[v] = "SLEEPING" /\ ~Cancelling(v) /\ mutex[v] = m
    <2>1. state[v] = "SLEEPING" /\ Place[v] = m
      BY <1>1, <1>2, Sleepers
    <2>2. ~Cancelling(v) /\ queue[v] = m
      BY <1>1, <2>1 DEF Place, Where
    <2>3. QED BY <2>1, <2>2 DEF Sleeps, SleepOK
  <1>3. ASSUME state[v] = "SLEEPING", ~Cancelling(v), mutex[v] = m
        PROVE  v \in ToSet(waiters[m])
    <2>1. queue[v] = m
      BY <1>1, <1>3 DEF Sleeps, SleepOK
    <2>2. v \in ToSet(waiters[queue[v]])
      BY <1>3, SleeperIn DEF KInv
    <2>3. QED BY <2>1, <2>2
  <1>4. QED BY <1>2, <1>3

(* Nobody lends to itself.                                                 *)
LEMMA LenderFacts ==
    ASSUME KInv, Shapes, NEW t \in Thread, NEW u \in Lenders(t)
    PROVE  u \in Thread /\ mutex[u] \in Mutex /\ owner[mutex[u]] = t /\ u # t
  <1>1. u \in Thread /\ mutex[u] # NULL /\ owner[mutex[u]] = t /\ LendsOn(u)
    BY DEF Lenders
  <1>2. mutex[u] \in Mutex /\ Stacked /\ StackInv
    BY <1>1, StateTypes DEF KInv
  <1>3. PICK f \in ToSet(stack[u]) : f.fn \in {"LockSleep", "LockWoken"} /\ f.arg = mutex[u]
    <2>1. CASE state[u] = "SLEEPING"
      <3>1. ~Dead(u)
        BY <2>1 DEF Dead
      <3>2. MutexNoted(u, stack[u])
        BY <1>1 DEF Shapes, Shape
      <3>3. QED BY <1>1, <3>1, <3>2 DEF MutexNoted
    <2>2. CASE \E f \in ToSet(stack[u]) : f.fn = "LockSleep"
      <3>1. PICK f \in ToSet(stack[u]) : f.fn = "LockSleep"
        BY <2>2
      <3>2. FrameShape(u, stack[u], f)
        BY <1>1 DEF Shapes, Shape
      <3>3. QED BY <3>1, <3>2 DEF FrameShape
    <2>3. QED BY <1>1, <2>1, <2>2 DEF LendsOn
  <1>4. owner[f.arg] # u
    BY <1>1, <1>2, <1>3 DEF StackInv, Locks, LockFrame
  <1>5. QED BY <1>1, <1>2, <1>3, <1>4

(* The heads of the queues speak for all who wait in them.                 *)
LEMMA EffectiveLeast ==
    ASSUME TypeOK, NEW t \in Thread, NEW ms \in Seq(Mutex), NEW w \in [WaitQueue -> Seq(Thread)],
           \A m \in ToSet(ms) : Ordered(w[m], priority)
    PROVE  Least(EffectivePriority(t, ms, w),
                 {base[t]} \cup {priority[u] : u \in {v \in Thread : \E m \in ToSet(ms) :
                                                                        v \in ToSet(w[m])}})
  <1> DEFINE lent == {priority[Head(w[m])] : m \in {n \in ToSet(ms) : w[n] # << >>}}
             all == {base[t]} \cup lent
             asked == {v \in Thread : \E m \in ToSet(ms) : v \in ToSet(w[m])}
             S == {base[t]} \cup {priority[u] : u \in asked}
             N == OS_PRIORITY_MAX + 1
             e == CHOOSE p \in all : \A r \in all : p <= r
  <1>1. base[t] \in 0 .. OS_PRIORITY_MAX /\ OS_PRIORITY_MAX \in Nat
        /\ \A u \in Thread : priority[u] \in 0 .. N
    BY Constants, StateTypes DEF Priority
  <1>2. \A m \in ToSet(ms) : m \in WaitQueue
    BY Constants DEF ToSet
  <1>3. \A m \in ToSet(ms) : w[m] # << >> => Head(w[m]) \in Thread /\ Head(w[m]) \in ToSet(w[m])
    BY <1>2, TailSet
  <1>4. all \in SUBSET (0 .. N) /\ all # {} /\ N \in Nat /\ base[t] \in all
    BY <1>1, <1>3
  <1>5. all \subseteq S
    <2>1. ASSUME NEW m \in ToSet(ms), w[m] # << >> PROVE Head(w[m]) \in asked
      BY <1>3, <2>1
    <2>2. lent \subseteq S
      BY <2>1
    <2>3. QED BY <2>2
  <1>6. ASSUME NEW u \in asked PROVE \E h \in lent : h <= priority[u]
    <2>1. PICK m \in ToSet(ms) : u \in ToSet(w[m])
      OBVIOUS
    <2>2. w[m] \in Seq(Thread)
      BY <1>2
    <2>3. PICK i \in DOMAIN w[m] : w[m][i] = u
      BY <2>1 DEF ToSet
    <2>4. w[m] # << >>
      BY <2>1, <2>2, EmptySet
    <2>5. Head(w[m]) = w[m][1] /\ 1 \in DOMAIN w[m] /\ i \in Nat /\ 1 <= i
      BY <2>2, <2>3, <2>4, HeadTailProperties, LenProperties, EmptySeq
    <2>6. Ordered(w[m], priority)
      OBVIOUS
    <2>7. priority[w[m][1]] <= priority[u]
      <3>1. CASE i = 1
        <4>1. priority[u] \in 0 .. N /\ w[m][1] = u
          BY <1>1, <2>3, <3>1
        <4>2. QED BY <1>4, <4>1
      <3>2. CASE i # 1
        <4>1. 1 < i
          BY <2>5, <3>2
        <4>2. QED BY <2>3, <2>5, <2>6, <4>1 DEF Ordered
      <3>3. QED BY <3>1, <3>2
    <2>8. priority[Head(w[m])] \in lent
      BY <2>4
    <2>9. QED BY <2>5, <2>7, <2>8
  <1>7. \A u \in asked : priority[u] \in 0 .. N
    BY <1>1
  <1>8. EffectivePriority(t, ms, w) = e
    BY DEF EffectivePriority
  <1> HIDE DEF lent, asked, N
  <1>9. \E p \in all : \A r \in all : p <= r
    <2> HIDE DEF all
    <2>1. QED BY <1>4, BestExists
  <1>10. e \in all /\ \A r \in all : e <= r
    <2> HIDE DEF all
    <2>1. QED BY <1>9
  <1> HIDE DEF e
  <1>11. \A r \in all : r \in 0 .. N
    BY <1>4
  <1>12. \A r \in S : e <= r
    <2>1. e <= base[t]
      BY <1>4, <1>10
    <2>2. ASSUME NEW u \in asked PROVE e <= priority[u]
      <3>1. PICK h \in lent : h <= priority[u]
        BY <1>6
      <3>2. e <= h /\ h \in 0 .. N /\ e \in 0 .. N /\ priority[u] \in 0 .. N
        BY <1>7, <1>10, <1>11
      <3>3. QED BY <1>4, <3>1, <3>2
    <2>3. QED BY <2>1, <2>2
  <1>13. e \in S
    BY <1>5, <1>10
  <1> HIDE DEF S
  <1>14. Least(e, S)
    BY <1>12, <1>13 DEF Least
  <1>15. QED BY <1>8, <1>14 DEF S, asked

Unslept == \A c \in Thread : \A f \in ToSet(stack[c]) : f.fn # "LockSleep"

LEMMA BareUnslept == Bare => Unslept
  BY DEF Bare, Unslept

LEMMA EffectiveClaims ==
    ASSUME KInv, Sleeps, Unslept, NEW t \in Thread
    PROVE  Least(EffectivePriority(t, held[t], waiters), Claims(t))
  <1>1. /\ TypeOK /\ held[t] \in Seq(Mutex) /\ waiters \in [WaitQueue -> Seq(Thread)]
        /\ \A m \in Mutex : owner[m] = t <=> m \in ToSet(held[t])
    BY DEF KInv, TypeOK, MutexConsistent
  <1>2. \A m \in ToSet(held[t]) : m \in Mutex /\ m \in WaitQueue
    BY <1>1, Constants DEF ToSet
  <1>3. \A m \in ToSet(held[t]) : Ordered(waiters[m], priority)
    BY <1>2 DEF KInv, WaitersSorted, Ordered
  <1> DEFINE asked == {v \in Thread : \E m \in ToSet(held[t]) : v \in ToSet(waiters[m])}
  <1>4. Least(EffectivePriority(t, held[t], waiters),
              {base[t]} \cup {priority[u] : u \in asked})
    BY <1>1, <1>3, EffectiveLeast
  <1>5. asked = Lenders(t)
    <2>1. \A v \in Thread : LendsOn(v) <=> state[v] = "SLEEPING" /\ ~Cancelling(v)
      BY DEF Unslept, LendsOn
    <2>2. \A m \in Mutex, v \in Thread :
             v \in ToSet(waiters[m]) <=> state[v] = "SLEEPING" /\ ~Cancelling(v) /\ mutex[v] = m
      BY WaitersNote
    <2>3. \A v \in Thread : mutex[v] \in Mutex \cup {NULL}
      BY <1>1, StateTypes
    <2>4. NULL \notin Mutex
      BY Constants
    <2>5. ASSUME NEW v \in asked PROVE v \in Lenders(t)
      <3>1. PICK m \in ToSet(held[t]) : v \in ToSet(waiters[m])
        OBVIOUS
      <3>2. state[v] = "SLEEPING" /\ ~Cancelling(v) /\ mutex[v] = m /\ owner[m] = t /\ m # NULL
        BY <1>1, <1>2, <2>2, <2>4, <3>1
      <3>3. QED BY <2>1, <3>2 DEF Lenders
    <2>6. ASSUME NEW v \in Lenders(t) PROVE v \in asked
      <3>1. v \in Thread /\ state[v] = "SLEEPING" /\ ~Cancelling(v) /\ mutex[v] \in Mutex
            /\ owner[mutex[v]] = t
        BY <2>1, <2>3 DEF Lenders
      <3>2. mutex[v] \in ToSet(held[t]) /\ v \in ToSet(waiters[mutex[v]])
        BY <1>1, <2>2, <3>1
      <3>3. QED BY <3>1, <3>2
    <2>7. QED BY <2>5, <2>6
  <1>6. QED BY <1>4, <1>5 DEF Claims

(* What is under way elsewhere does not depend on what a step does, unless *)
(* it brings a thread back from the dead.                                  *)
LEMMA ShapesBut ==
    ASSUME KInv, Nested, Shapes, NEW c \in Context,
           \A d \in Thread \ {c} : /\ d = current => stack[d] = << >>
                                   /\ stack'[d] = stack[d] /\ mutex'[d] = mutex[d]
                                   /\ Dead(d) => Dead(d)'
                                   /\ \A f \in ToSet(stack[d]) :
                                        f.fn = "__OSUnlockAllMutex" /\ Dead(f.arg) => Dead(f.arg)',
           c \in Thread => Shape(c, stack[c])'
    PROVE  Shapes'
  <1>1. Stacked /\ StackInv
    BY StateTypes DEF KInv
  <1>2. ASSUME NEW d \in Thread \ {c} PROVE Shape(d, stack[d])'
    <2>1. PICK s \in Seq(Frame) : s = stack[d]
      BY <1>1 DEF Stacked, Context
    <2>2. Shape(d, s) /\ stack'[d] = s /\ mutex'[d] = mutex[d]
      BY <2>1 DEF Shapes
    <2>3. d = current => s = << >>
      BY <2>1
    <2>4. HeadShape(stack[d])'
      <3>1. s # << >> => ~WakesMutex(Head(s))
        BY <2>1, <2>3 DEF Nested, Awakened, WakesMutex
      <3>2. QED BY <2>2, <3>1 DEF Shape, HeadShape, WakesMutex
    <2>5. MutexNoted(d, stack[d])'
      BY <2>2 DEF Shape, MutexNoted
    <2>6. ASSUME NEW f \in ToSet(s) PROVE FrameShape(d, s, f)'
      <3>1. FrameShape(d, s, f)
        BY <2>2 DEF Shape
      <3>2. f \in Frame
        BY DEF ToSet
      <3>3. f.fn # "__OSPromoteThread"
        <4>1. SUFFICES ASSUME f.fn = "__OSPromoteThread" PROVE FALSE
          OBVIOUS
        <4>2. PICK m \in Mutex : s = <<f, F("LockSleep", m)>>
          BY <3>1, <4>1 DEF FrameShape
        <4>3. F("LockSleep", m) \in Frame /\ F("LockSleep", m).fn = "LockSleep"
          BY FrameIntro
        <4>4. F("LockSleep", m) \in ToSet(s) /\ s # << >>
          BY <3>2, <4>2, <4>3, Stacks
        <4>5. d = current
          BY <1>1, <2>1, <4>3, <4>4 DEF StackInv, Locks
        <4>6. QED BY <2>3, <4>4, <4>5
      <3>4. f.fn = "__OSUnlockAllMutex" /\ Dead(f.arg) => Dead(f.arg)'
        BY <2>1
      <3>5. QED BY <2>2, <3>1, <3>3, <3>4 DEF FrameShape
    <2>7. QED BY <2>2, <2>4, <2>5, <2>6 DEF Shape
  <1>3. QED BY <1>2 DEF Shapes

LEMMA ShapesStep ==
    ASSUME KInv, Nested, Shapes, NEW c \in Context,
           \A d \in Thread \ {c} : /\ d = current => stack[d] = << >>
                                   /\ stack'[d] = stack[d] /\ mutex'[d] = mutex[d],
           \A t \in Thread : Dead(t) => Dead(t)',
           c \in Thread => Shape(c, stack[c])'
    PROVE  Shapes'
  <1>1. Stacked
    BY StateTypes DEF KInv
  <1>2. ASSUME NEW d \in Thread \ {c}, NEW f \in ToSet(stack[d]), f.fn = "__OSUnlockAllMutex", Dead(f.arg)
        PROVE  Dead(f.arg)'
    <2>1. stack[d] \in Seq(Frame)
      BY <1>1 DEF Stacked, Context
    <2>2. f \in Frame
      BY <2>1 DEF ToSet
    <2>3. QED BY <1>2, <2>2, FrameFacts
  <1>3. QED BY <1>2, ShapesBut

LEMMA ShapeIntro ==
    ASSUME NEW c \in Thread, NEW s \in Seq(Frame), stack'[c] = s,
           \A f \in ToSet(s) : /\ f.fn \notin {"LockSleep", "__OSPromoteThread"}
                               /\ f.fn = "__OSUnlockAllMutex" => Dead(f.arg)',
           s # << >> =>
              /\ \A f \in ToSet(Tail(s)) : f.fn # "UpdatePriority" /\ ~WakesMutex(f)
              /\ WakesMutex(Head(s)) => owner'[Head(s).arg] = NULL
              /\ Head(s).fn = "UpdatePriority" =>
                    \E g \in ToSet(Tail(s)) : g.fn \in {"__OSReschedule", "CancelTail"},
           mutex'[c] # NULL /\ ~Dead(c)' =>
              \E f \in ToSet(s) : f.fn \in {"LockSleep", "LockWoken"} /\ f.arg = mutex'[c]
    PROVE  Shape(c, stack[c])'
  <1>1. HeadShape(stack[c])'
    BY DEF HeadShape, WakesMutex
  <1>2. MutexNoted(c, stack[c])'
    BY DEF MutexNoted
  <1>3. \A f \in ToSet(s) : FrameShape(c, s, f)'
    BY DEF FrameShape
  <1>4. QED BY <1>1, <1>2, <1>3 DEF Shape

(* The caller of the scheduler is in its own code and waits for nothing.   *)
LEMMA CallerMutex ==
    ASSUME KInv, Shapes, NEW c \in Thread, c = current, MayCall(c) PROVE mutex[c] = NULL
  <1>1. state[c] = "RUNNING" /\ stack[c] = << >>
    BY CallFacts, Constants
  <1>2. MutexNoted(c, stack[c]) /\ ToSet(<< >>) = {}
    BY EmptySeq DEF Shapes, Shape, ToSet
  <1>3. QED BY <1>1, <1>2 DEF MutexNoted, Dead

LEMMA CallShapes ==
    ASSUME KInv, Nested, Shapes, NEW c \in {current, Isr}, c # NULL, MayCall(c),
           NEW fs \in Seq(Frame), Enter(c, fs), mutex' = mutex,
           \A t \in Thread : Dead(t) => Dead(t)',
           \A f \in ToSet(fs) : /\ f.fn \notin {"LockSleep", "__OSPromoteThread"}
                                /\ f.fn = "__OSUnlockAllMutex" => Dead(f.arg)',
           fs # << >> =>
              /\ \A f \in ToSet(Tail(fs)) : f.fn # "UpdatePriority" /\ ~WakesMutex(f)
              /\ WakesMutex(Head(fs)) => owner'[Head(fs).arg] = NULL
              /\ Head(fs).fn = "UpdatePriority" =>
                    \E g \in ToSet(Tail(fs)) : g.fn \in {"__OSReschedule", "CancelTail"}
    PROVE  Shapes'
  <1>1. /\ Stacked /\ stack[Isr] = << >> /\ c \in Context
        /\ current # NULL => stack[current] = << >>
        /\ c # Isr => c = current /\ c \in Thread
    BY CallFacts
  <1>2. Isr \notin Thread /\ NULL \notin Thread
    BY Constants
  <1>3. \A d \in Thread \ {c} : /\ d = current => stack[d] = << >>
                                /\ stack'[d] = stack[d] /\ mutex'[d] = mutex[d]
    BY <1>1, <1>2 DEF Enter, Stacked
  <1>4. ASSUME c \in Thread PROVE Shape(c, stack[c])'
    <2>1. c = current /\ c # Isr
      BY <1>2, <1>4
    <2>2. stack'[c] = fs
      BY <1>1, <2>1 DEF Enter, Stacked
    <2>3. mutex'[c] = NULL
      BY <1>4, <2>1, CallerMutex
    <2>4. PICK d \in Thread : d = c
      BY <1>4
    <2>5. stack'[d] = fs /\ mutex'[d] = NULL
      BY <2>2, <2>3, <2>4
    <2>6. Shape(d, stack[d])'
      BY <2>5, ShapeIntro
    <2>7. QED BY <2>4, <2>6
  <1>5. PICK e \in Context : e = c
    BY <1>1
  <1>6. QED BY <1>3, <1>4, <1>5, ShapesStep

LEMMA StillShapes ==
    ASSUME KInv, Nested, Shapes, NEW c \in {current, Isr}, c # NULL, MayCall(c),
           stack' = stack, mutex' = mutex, \A t \in Thread : Dead(t) => Dead(t)'
    PROVE  Shapes'
  <1>1. current # NULL => stack[current] = << >>
    BY CallFacts
  <1>2. NULL \notin Thread /\ Isr \notin Thread /\ Isr \in Context
    BY Constants DEF Context
  <1>3. QED BY <1>1, <1>2, ShapesStep

(* A turn of a frame that takes no lock.                                   *)
LEMMA TurnShapes ==
    ASSUME KInv, Nested, Shapes, Cpu # NULL, stack[Cpu] # << >>,
           NEW n \in Seq(Frame), stack' = [stack EXCEPT ![Cpu] = n], mutex' = mutex,
           Head(stack[Cpu]).fn \notin {"OSLockMutex", "LockSleep", "LockWoken", "__OSPromoteThread"},
           \A t \in Thread : Dead(t) => Dead(t)',
           \A f \in ToSet(n) : \/ f \in ToSet(stack[Cpu])
                               \/ f.fn \in {"UpdatePriority", "OSWakeupThread", "__OSReschedule"}
                               \/ f.fn = "__OSUnlockAllMutex" /\ Dead(f.arg)',
           ToSet(Tail(stack[Cpu])) \subseteq ToSet(n),
           Cpu # Isr /\ n # << >> =>
              /\ \A f \in ToSet(Tail(n)) : f.fn # "UpdatePriority" /\ ~WakesMutex(f)
              /\ WakesMutex(Head(n)) => owner'[Head(n).arg] = NULL
              /\ Head(n).fn = "UpdatePriority" =>
                    \E g \in ToSet(Tail(n)) : g.fn \in {"__OSReschedule", "CancelTail"}
    PROVE  Shapes'
  <1>1. Stacked /\ StackInv /\ Isr \notin Thread /\ NULL \notin Thread
    BY Constants, StateTypes DEF KInv
  <1>2. /\ Cpu \in Context /\ stack[Cpu] \in Seq(Frame)
        /\ Cpu = Isr => /\ stack[Isr] # << >>
                        /\ current # NULL => current \in Thread /\ stack[current] = << >>
        /\ Cpu # Isr => Cpu = current /\ current \in Thread /\ stack[Isr] = << >>
    BY <1>1, CpuFacts
  <1>3. PICK e \in Context, s \in Seq(Frame) : e = Cpu /\ s = stack[Cpu]
    BY <1>2
  <1>4. \A d \in Thread \ {e} : /\ d = current => stack[d] = << >>
                                /\ stack'[d] = stack[d] /\ mutex'[d] = mutex[d]
    BY <1>1, <1>2, <1>3 DEF Stacked
  <1>5. s # << >> /\ stack[e] = s /\ Head(s) \in ToSet(s) /\ ToSet(s) = ToSet(Tail(s)) \cup {Head(s)}
    BY <1>3, Popped
  <1>6. stack'[e] = n
    BY <1>1, <1>3 DEF Stacked
  <1>7. ASSUME e \in Thread PROVE Shape(e, stack[e])'
    <2>1. Shape(e, s)
      BY <1>5, <1>7 DEF Shapes
    <2>2. \A f \in ToSet(s) : f.fn # "LockSleep"
      <3>1. SUFFICES ASSUME NEW f \in ToSet(s), f.fn = "LockSleep" PROVE FALSE
        OBVIOUS
      <3>2. \A g \in ToSet(s) : g.fn \in {"__OSPromoteThread", "LockSleep"}
        BY <1>1, <1>5, <1>7, <3>1 DEF StackInv, Locks, LockFrame
      <3>3. QED BY <1>3, <1>5, <3>2
    <2>3. \A f \in ToSet(s) : f.fn # "__OSPromoteThread"
      <3>1. SUFFICES ASSUME NEW f \in ToSet(s), f.fn = "__OSPromoteThread" PROVE FALSE
        OBVIOUS
      <3>2. PICK m \in Mutex : s = <<f, F("LockSleep", m)>>
        BY <2>1, <3>1 DEF Shape, FrameShape
      <3>3. f \in Frame /\ F("LockSleep", m) \in Frame
        BY FrameIntro DEF ToSet
      <3>4. Head(s) = f
        BY <3>2, <3>3, Stacks
      <3>5. QED BY <1>3, <3>1, <3>4
    <2>4. \A f \in ToSet(n) : /\ f.fn \notin {"LockSleep", "__OSPromoteThread"}
                              /\ f.fn = "__OSUnlockAllMutex" => Dead(f.arg)'
      <3>1. SUFFICES ASSUME NEW f \in ToSet(n), f \in ToSet(s)
                     PROVE  f.fn = "__OSUnlockAllMutex" => Dead(f.arg)'
        BY <1>3, <2>2, <2>3
      <3>2. f \in Frame /\ FrameShape(e, s, f)
        BY <2>1, <3>1 DEF Shape, ToSet
      <3>3. QED BY <3>2, FrameFacts DEF FrameShape
    <2>5. mutex'[e] # NULL /\ ~Dead(e)' =>
              \E f \in ToSet(n) : f.fn \in {"LockSleep", "LockWoken"} /\ f.arg = mutex'[e]
      <3>1. SUFFICES ASSUME mutex[e] # NULL, ~Dead(e)
                     PROVE  \E f \in ToSet(n) : f.fn \in {"LockSleep", "LockWoken"} /\ f.arg = mutex[e]
        BY <1>7
      <3>2. PICK f \in ToSet(s) : f.fn \in {"LockSleep", "LockWoken"} /\ f.arg = mutex[e]
        BY <2>1, <3>1 DEF Shape, MutexNoted
      <3>3. f # Head(s)
        BY <1>3, <3>2
      <3>4. f \in ToSet(n)
        BY <1>3, <1>5, <3>3
      <3>5. QED BY <3>2, <3>4
    <2>6. e # Isr
      BY <1>1, <1>7
    <2>7. QED BY <1>3, <1>6, <1>7, <2>4, <2>5, <2>6, ShapeIntro
  <1>8. QED BY <1>4, <1>7, ShapesStep

(* The running frame returns.                                              *)
LEMMA ReturnShapes ==
    ASSUME KInv, Nested, Shapes, Cpu # NULL, stack[Cpu] # << >>, Return, mutex' = mutex,
           Head(stack[Cpu]).fn \notin {"OSLockMutex", "LockSleep", "LockWoken", "__OSPromoteThread"},
           \A t \in Thread : Dead(t) => Dead(t)'
    PROVE  Shapes'
  <1>1. Stacked /\ StackInv /\ Isr \notin Thread
    BY Constants, StateTypes DEF KInv
  <1>2. PICK e \in Context, s \in Seq(Frame) : e = Cpu /\ s = stack[Cpu]
    BY <1>1, CpuFacts
  <1>3. PICK n \in Seq(Frame) : n = Tail(s)
    BY <1>2, Popped
  <1>4. s # << >> /\ ToSet(s) = ToSet(n) \cup {Head(s)}
    BY <1>2, <1>3, Popped
  <1>5. stack' = [stack EXCEPT ![Cpu] = n]
    BY <1>2, <1>3 DEF Return
  <1>6. ASSUME e # Isr PROVE \A f \in ToSet(n) : f.fn # "UpdatePriority" /\ ~WakesMutex(f)
    <2>1. HeadShape(stack[e])
      BY <1>6 DEF Shapes, Shape, Context
    <2>2. QED BY <1>2, <1>3, <1>4, <2>1 DEF HeadShape
  <1>7. n # << >> => Head(n) \in ToSet(n) /\ ToSet(Tail(n)) \subseteq ToSet(n)
    BY Popped
  <1>8. QED BY <1>2, <1>3, <1>4, <1>5, <1>6, <1>7, TurnShapes

LEMMA Pairs ==
    /\ \A x, y \in Frame : <<x>> \o <<y>> = <<x, y>>
    /\ \A x, y, z \in Frame : <<x>> \o <<y, z>> = <<x, y, z>>
  <1>1. ASSUME NEW x \in Frame, NEW y \in Frame PROVE <<x>> \o <<y>> = <<x, y>>
    <2>1. <<x>> \in Seq(Frame) /\ <<y>> \in Seq(Frame) /\ <<x, y>> \in Seq(Frame)
      OBVIOUS
    <2>2. <<x>> \o <<y>> \in Seq(Frame) /\ Len(<<x>> \o <<y>>) = 2
      BY <2>1, ConcatProperties
    <2>3. (<<x>> \o <<y>>)[1] = x /\ (<<x>> \o <<y>>)[2] = y
      OBVIOUS
    <2>4. Len(<<x, y>>) = 2 /\ <<x, y>>[1] = x /\ <<x, y>>[2] = y
      OBVIOUS
    <2> DEFINE u == <<x>> \o <<y>>
               v == <<x, y>>
    <2>5. u \in Seq(Frame) /\ v \in Seq(Frame) /\ Len(u) = Len(v)
          /\ \A i \in 1 .. Len(u) : u[i] = v[i]
      BY <2>1, <2>2, <2>3, <2>4
    <2> HIDE DEF u, v
    <2>6. u = v
      BY <2>5, SeqEqual
    <2>7. QED BY <2>6 DEF u, v
  <1>2. ASSUME NEW x \in Frame, NEW y \in Frame, NEW z \in Frame
        PROVE  <<x>> \o <<y, z>> = <<x, y, z>>
    <2>1. <<x>> \in Seq(Frame) /\ <<y, z>> \in Seq(Frame) /\ <<x, y, z>> \in Seq(Frame)
      OBVIOUS
    <2>2. <<x>> \o <<y, z>> \in Seq(Frame) /\ Len(<<x>> \o <<y, z>>) = 3
      BY <2>1, ConcatProperties
    <2>3. /\ (<<x>> \o <<y, z>>)[1] = x /\ (<<x>> \o <<y, z>>)[2] = y
          /\ (<<x>> \o <<y, z>>)[3] = z
      OBVIOUS
    <2>4. /\ Len(<<x, y, z>>) = 3 /\ <<x, y, z>>[1] = x /\ <<x, y, z>>[2] = y
          /\ <<x, y, z>>[3] = z
      OBVIOUS
    <2> DEFINE u == <<x>> \o <<y, z>>
               v == <<x, y, z>>
    <2>5. u \in Seq(Frame) /\ v \in Seq(Frame) /\ Len(u) = Len(v)
          /\ \A i \in 1 .. Len(u) : u[i] = v[i]
      BY <2>1, <2>2, <2>3, <2>4
    <2> HIDE DEF u, v
    <2>6. u = v
      BY <2>5, SeqEqual
    <2>7. QED BY <2>6 DEF u, v
  <1>3. QED BY <1>1, <1>2

LEMMA Tails ==
    /\ \A a : Tail(<<a>>) = << >>
    /\ \A a, b : Tail(<<a, b>>) = <<b>>
    /\ \A a, b, c : Tail(<<a, b, c>>) = <<b, c>>
    /\ ToSet(<< >>) = {} /\ << >> \in Seq(Frame)
  <1>1. \A a : Tail(<<a>>) = << >>
    OBVIOUS
  <1>2. \A a, b : Tail(<<a, b>>) = <<b>>
    OBVIOUS
  <1>3. \A a, b, c : Tail(<<a, b, c>>) = <<b, c>>
    OBVIOUS
  <1>4. ToSet(<< >>) = {} /\ << >> \in Seq(Frame)
    BY EmptySeq DEF ToSet
  <1>5. QED BY <1>1, <1>2, <1>3, <1>4

(* The running thread of a lock's turn has one stack for all of it.        *)
LEMMA LockShapes ==
    ASSUME KInv, Nested, Shapes, NEW fn \in {"OSLockMutex", "LockSleep", "LockWoken"}, Running(fn),
           NEW s \in Seq(Frame), stack' = [stack EXCEPT ![current] = s],
           \A t \in Thread : Dead(t) => Dead(t)',
           \A d \in Thread : d # current => mutex'[d] = mutex[d],
           \A d \in Thread : d = current => Shape(d, stack[d])'
    PROVE  Shapes'
  <1>1. current \in Thread /\ Stacked /\ current \in Context
    BY LockFacts DEF Context
  <1>2. PICK c \in Thread : c = current
    BY <1>1
  <1>3. \A d \in Thread \ {c} : /\ d = current => stack[d] = << >>
                                /\ stack'[d] = stack[d] /\ mutex'[d] = mutex[d]
    BY <1>1, <1>2 DEF Stacked, Context
  <1>4. c \in Context /\ Shape(c, stack[c])'
    BY <1>1, <1>2
  <1>5. QED BY <1>3, <1>4, ShapesStep

LEMMA LockTurnShapes == ASSUME KInv, Nested, Shapes, LockTurn PROVE Shapes'
  <1>1. /\ Running("OSLockMutex") /\ state' = state /\ priority' = priority /\ base' = base
        /\ current' = current
    BY DEF LockTurn
  <1>2. /\ current \in Thread /\ Arg \in Mutex /\ Stacked /\ state[current] = "RUNNING"
        /\ priority[current] \in Priority
        /\ Return => stack' = [stack EXCEPT ![current] = << >>]
        /\ \A fs \in Seq(Frame) : Become(fs) => stack' = [stack EXCEPT ![current] = fs]
    BY <1>1, LockFacts
  <1>3. PICK c \in Thread, m \in Mutex : c = current /\ m = Arg
    BY <1>2
  <1>4. \A t \in Thread : (Dead(t) <=> Dead(t)')
    BY <1>1 DEF Dead
  <1>5. \A f \in ToSet(stack[c]) : f.fn = "OSLockMutex"
    BY <1>1, <1>3, Outermost DEF IsrFrames, Inner
  <1>6. mutex[c] = NULL
    BY <1>2, <1>3, <1>5 DEF Shapes, Shape, MutexNoted, Dead
  <1>7. ToSet(<< >>) = {} /\ << >> \in Seq(Frame)
    BY Tails
  <1>8. CASE Return /\ mutex' = mutex
    <2>1. stack' = [stack EXCEPT ![c] = << >>]
      BY <1>2, <1>3, <1>8
    <2>2. stack'[c] = << >>
      BY <1>2, <2>1 DEF Stacked, Context
    <2>3. Shape(c, stack[c])'
      BY <1>6, <1>7, <1>8, <2>2, ShapeIntro
    <2>4. QED BY <1>1, <1>3, <1>4, <1>7, <1>8, <2>1, <2>3, LockShapes
  <1>9. CASE /\ owner[m] \notin {NULL, c} /\ mutex' = [mutex EXCEPT ![c] = m]
             /\ Become(<<Promote(owner[m], priority[c]), F("LockSleep", m)>>)
             /\ owner' = owner
    <2>1. PICK o \in Thread : o = owner[m]
      BY <1>9, StateTypes DEF KInv
    <2>2. PICK p \in Priority : p = priority[c]
      BY <1>2, <1>3
    <2>3. PICK a \in Frame, b \in Frame : a = Promote(o, p) /\ b = F("LockSleep", m)
      <3>1. p \in 0 .. OS_PRIORITY_MAX + 1
        BY <2>2, Constants DEF Priority
      <3>2. QED BY <3>1, FrameIntro
    <2>4. /\ a.fn = "__OSPromoteThread" /\ a.arg = o /\ a.prio = p
          /\ b.fn = "LockSleep" /\ b.arg = m
      BY <2>3, FrameIntro
    <2>5. /\ <<a, b>> \in Seq(Frame) /\ ToSet(<<a, b>>) = {a, b} /\ Head(<<a, b>>) = a
      BY Stacks
    <2>6. Tail(<<a, b>>) = <<b>> /\ ToSet(<<b>>) = {b}
      BY Stacks, Tails
    <2>7. stack' = [stack EXCEPT ![c] = <<a, b>>]
      BY <1>2, <1>3, <1>9, <2>1, <2>2, <2>3, <2>5
    <2>8. stack'[c] = <<a, b>> /\ mutex'[c] = m /\ priority'[c] = p
      BY <1>1, <1>2, <1>9, <2>2, <2>7 DEF Stacked, Context, KInv, TypeOK
    <2>9. HeadShape(stack[c])'
      BY <2>4, <2>5, <2>6, <2>8 DEF HeadShape, WakesMutex
    <2>10. MutexNoted(c, stack[c])'
      BY <2>4, <2>5, <2>8 DEF MutexNoted
    <2>11. p \in Claims(o)'
      <3>1. LendsOn(c)'
        BY <2>4, <2>5, <2>8 DEF LendsOn
      <3>2. m # NULL
        BY Constants
      <3>3. c \in Lenders(o)'
        BY <1>9, <2>1, <2>8, <3>1, <3>2 DEF Lenders
      <3>4. QED BY <2>8, <3>3 DEF Claims
    <2>12. ASSUME NEW g \in ToSet(<<a, b>>) PROVE FrameShape(c, <<a, b>>, g)'
      BY <2>3, <2>4, <2>5, <2>8, <2>11 DEF FrameShape
    <2>13. Shape(c, stack[c])'
      BY <2>8, <2>9, <2>10, <2>12 DEF Shape
    <2>14. \A d \in Thread : d # c => mutex'[d] = mutex[d]
      BY <1>9
    <2>15. QED BY <1>1, <1>3, <1>4, <2>5, <2>7, <2>13, <2>14, LockShapes
  <1>10. QED BY <1>3, <1>8, <1>9 DEF LockTurn

LEMMA LockWokenShapes == ASSUME KInv, Nested, Shapes, LockWoken PROVE Shapes'
  <1>1. /\ Running("LockWoken") /\ state' = state /\ mutex' = [mutex EXCEPT ![current] = NULL]
        /\ Become(<<F("OSLockMutex", Arg)>>)
    BY DEF LockWoken
  <1>2. /\ current \in Thread /\ Arg \in Mutex /\ Stacked /\ state[current] = "RUNNING"
        /\ \A fs \in Seq(Frame) : Become(fs) => stack' = [stack EXCEPT ![current] = fs]
    BY <1>1, LockFacts
  <1>3. PICK c \in Thread, m \in Mutex : c = current /\ m = Arg
    BY <1>2
  <1>4. \A t \in Thread : (Dead(t) <=> Dead(t)')
    BY <1>1 DEF Dead
  <1>5. PICK a \in Frame : a = F("OSLockMutex", m)
    BY FrameIntro
  <1>6. a.fn = "OSLockMutex"
    BY <1>5, FrameIntro
  <1>7. <<a>> \in Seq(Frame) /\ ToSet(<<a>>) = {a} /\ Head(<<a>>) = a
    BY Stacks
  <1>8. Tail(<<a>>) = << >> /\ ToSet(<< >>) = {}
    BY Tails
  <1>9. stack' = [stack EXCEPT ![c] = <<a>>]
    BY <1>1, <1>2, <1>3, <1>5, <1>7
  <1>10. stack'[c] = <<a>> /\ mutex'[c] = NULL
    BY <1>1, <1>2, <1>3, <1>9 DEF Stacked, Context, KInv, TypeOK
  <1>11. Shape(c, stack[c])'
    BY <1>6, <1>7, <1>8, <1>10, ShapeIntro DEF WakesMutex
  <1>12. \A d \in Thread : d # c => mutex'[d] = mutex[d]
    BY <1>1, <1>3
  <1>13. QED BY <1>1, <1>3, <1>4, <1>7, <1>9, <1>11, <1>12, LockShapes

LEMMA LockSleepShapes == ASSUME KInv, Nested, Shapes, LockSleep PROVE Shapes'
  <1>1. /\ Running("LockSleep") /\ mutex' = mutex /\ state' = [state EXCEPT ![current] = "SLEEPING"]
        /\ Become(<<Reschedule, F("LockWoken", Arg)>>)
    BY DEF LockSleep, SleepOn
  <1>2. /\ current \in Thread /\ Arg \in Mutex /\ Stacked /\ state[current] = "RUNNING"
        /\ \A fs \in Seq(Frame) : Become(fs) => stack' = [stack EXCEPT ![current] = fs]
    BY <1>1, LockFacts
  <1>3. PICK c \in Thread, m \in Mutex : c = current /\ m = Arg
    BY <1>2
  <1>4. \A t \in Thread : Dead(t) => Dead(t)'
    BY <1>1, <1>2, <1>3 DEF Dead, KInv, TypeOK
  <1>5. PICK a \in Frame, b \in Frame : a = Reschedule /\ b = F("LockWoken", m)
    BY FrameIntro
  <1>6. a.fn = "__OSReschedule" /\ b.fn = "LockWoken" /\ b.arg = m
    BY <1>5, FrameIntro
  <1>7. /\ <<a, b>> \in Seq(Frame) /\ ToSet(<<a, b>>) = {a, b} /\ Head(<<a, b>>) = a
        /\ ToSet(<<b>>) = {b} /\ Tail(<<a, b>>) = <<b>>
    BY Stacks, Tails
  <1>8. stack' = [stack EXCEPT ![c] = <<a, b>>]
    BY <1>1, <1>2, <1>3, <1>5, <1>7
  <1>9. mutex[c] = m
    <2>1. /\ Head(stack[c]) \in ToSet(stack[c]) /\ Head(stack[c]).fn = "LockSleep"
          /\ Head(stack[c]).arg = m
      BY <1>1, <1>3, Outermost DEF IsrFrames, Inner
    <2>2. FrameShape(c, stack[c], Head(stack[c]))
      BY <2>1 DEF Shapes, Shape
    <2>3. QED BY <2>1, <2>2 DEF FrameShape
  <1>10. stack'[c] = <<a, b>> /\ mutex'[c] = m
    BY <1>1, <1>2, <1>8, <1>9 DEF Stacked, Context
  <1>11. Shape(c, stack[c])'
    BY <1>6, <1>7, <1>10, ShapeIntro DEF WakesMutex
  <1>12. QED BY <1>1, <1>3, <1>4, <1>7, <1>8, <1>11, LockShapes

LEMMA PromoteFacts ==
    ASSUME KInv, Shapes, Running("__OSPromoteThread")
    PROVE  /\ Cpu = current /\ current \in Thread /\ stack[Isr] = << >> /\ Stacked
           /\ state[current] = "RUNNING" /\ Arg \in Thread /\ priority[current] \in Priority
           /\ Arg = Head(stack[current]).arg /\ Head(stack[current]).prio = priority[current]
           /\ priority[current] \in Claims(Arg) /\ mutex[current] \in Mutex
           /\ F("LockSleep", mutex[current]) \in Frame /\ Head(stack[current]) \in Frame
           /\ Head(stack[current]).fn = "__OSPromoteThread"
           /\ stack[current] = <<Head(stack[current]), F("LockSleep", mutex[current])>>
           /\ \A u \in Thread : ~Cancelling(u)
  <1>1. /\ Cpu = current /\ current \in Thread /\ stack[Isr] = << >> /\ Stacked
        /\ state[current] = "RUNNING" /\ stack[current] \in Seq(Frame) /\ stack[current] # << >>
        /\ Head(stack[current]).fn = "__OSPromoteThread"
    BY StateTypes, ThreadTurn DEF KInv, IsrFrames, Teardown
  <1>2. PICK c \in Thread, s \in Seq(Frame) : c = current /\ s = stack[c]
    BY <1>1
  <1>3. PICK h \in Frame : h = Head(s) /\ h \in ToSet(s)
    BY <1>1, <1>2, Popped
  <1>4. FrameShape(c, s, h) /\ h.fn = "__OSPromoteThread"
    BY <1>1, <1>2, <1>3 DEF Shapes, Shape
  <1>5. h.prio = priority[c] /\ h.prio \in Claims(h.arg)
    BY <1>4 DEF FrameShape
  <1>6. PICK m \in Mutex : s = <<h, F("LockSleep", m)>>
    BY <1>4 DEF FrameShape
  <1>7. F("LockSleep", m) \in Frame /\ F("LockSleep", m).fn = "LockSleep" /\ F("LockSleep", m).arg = m
    BY FrameIntro
  <1>8. F("LockSleep", m) \in ToSet(s)
    <2>1. PICK lf \in Frame : lf = F("LockSleep", m)
      BY <1>7
    <2>2. s = <<h, lf>> /\ ToSet(<<h, lf>>) = {h, lf}
      BY <1>6, <2>1, Stacks
    <2>3. QED BY <2>1, <2>2
  <1>9. mutex[c] = m
    <2>1. FrameShape(c, s, F("LockSleep", m))
      BY <1>2, <1>8 DEF Shapes, Shape
    <2>2. QED BY <1>7, <2>1 DEF FrameShape
  <1>10. h.arg \in Thread
    BY <1>4, FrameFacts
  <1>11. priority[c] \in Priority
    BY <1>1, <1>2 DEF KInv, RunningOne, PrioOK, Dead
  <1>12. \A u \in Thread : ~Cancelling(u)
    BY InnerFacts DEF Inner
  <1>13. Arg = h.arg
    BY <1>1, <1>2, <1>3 DEF Arg
  <1>14. QED BY <1>1, <1>2, <1>3, <1>4, <1>5, <1>6, <1>7, <1>9, <1>10, <1>11, <1>12, <1>13

(* One turn of __OSPromoteThread's loop: the priority it carries is lent   *)
(* on to the owner of the mutex that the thread it promotes sleeps on.     *)
LEMMA PromoteTurn ==
    ASSUME KInv, Shapes, PromoteThread
    PROVE  \E t, c \in Thread, p \in Priority, m \in Mutex, b \in Frame :
              /\ t = Arg /\ c = current /\ p = priority[c] /\ m = mutex[c] /\ b = F("LockSleep", m)
              /\ stack[c] = <<Promote(t, p), b>> /\ p \in Claims(t)
              /\ \/ /\ PromoteEnds(t, p) /\ stack' = [stack EXCEPT ![c] = <<b>>]
                    /\ UNCHANGED <<queueVars, priority, queue>>
                 \/ /\ ~PromoteEnds(t, p) /\ t # c /\ SetEffectivePriority(t, p)
                    /\ \/ NextInChain(t) = NULL /\ stack' = [stack EXCEPT ![c] = <<b>>]
                       \/ /\ NextInChain(t) \in Thread
                          /\ stack' = [stack EXCEPT ![c] = <<Promote(NextInChain(t), p), b>>]
  <1>1. Running("__OSPromoteThread")
    BY DEF PromoteThread
  <1>2. /\ Cpu = current /\ current \in Thread /\ stack[Isr] = << >> /\ Stacked
        /\ state[current] = "RUNNING" /\ Arg \in Thread /\ priority[current] \in Priority
        /\ Arg = Head(stack[current]).arg /\ Head(stack[current]).prio = priority[current]
        /\ priority[current] \in Claims(Arg) /\ mutex[current] \in Mutex
        /\ F("LockSleep", mutex[current]) \in Frame /\ Head(stack[current]) \in Frame
        /\ Head(stack[current]).fn = "__OSPromoteThread"
        /\ stack[current] = <<Head(stack[current]), F("LockSleep", mutex[current])>>
    BY <1>1, PromoteFacts
  <1>3. PICK t \in Thread, c \in Thread, p \in Priority, m \in Mutex, b \in Frame, h \in Frame :
           /\ t = Arg /\ c = current /\ p = priority[c] /\ m = mutex[c] /\ b = F("LockSleep", m)
           /\ h = Head(stack[c])
    BY <1>2
  <1>4. stack[c] = <<h, b>> /\ Cpu = c /\ h.prio = p /\ h.arg = t /\ p \in Claims(t)
    BY <1>2, <1>3
  <1>5. h = Promote(t, p)
    BY <1>2, <1>3, <1>4 DEF Frame, Promote
  <1>6. Head(stack[Cpu]).prio = p /\ Tail(stack[c]) = <<b>>
    BY <1>3, <1>4, Tails
  <1>7. \A a \in Frame : <<a>> \o <<b>> = <<a, b>>
    BY Pairs
  <1>8. CASE PromoteEnds(t, p) /\ Return /\ UNCHANGED <<queueVars, priority, queue>>
    <2>1. stack' = [stack EXCEPT ![c] = <<b>>]
      BY <1>4, <1>6, <1>8 DEF Return
    <2>2. QED BY <1>3, <1>4, <1>5, <1>8, <2>1
  <1>9. CASE /\ ~PromoteEnds(t, p) /\ SetEffectivePriority(t, p)
             /\ IF NextInChain(t) = NULL THEN Return ELSE Become(<<Promote(NextInChain(t), p)>>)
    <2>1. t # c
      <3>1. SUFFICES ASSUME t = c PROVE FALSE
        OBVIOUS
      <3>2. priority[t] = p /\ p \in Int
        BY <1>3, <3>1, Constants DEF Priority
      <3>3. QED BY <1>9, <3>2 DEF PromoteEnds
    <2>2. NextInChain(t) \in Thread \cup {NULL}
      BY NextType DEF KInv
    <2>3. CASE NextInChain(t) = NULL
      <3>1. stack' = [stack EXCEPT ![c] = <<b>>]
        BY <1>4, <1>6, <1>9, <2>3 DEF Return
      <3>2. QED BY <1>3, <1>4, <1>5, <1>9, <2>1, <2>3, <3>1
    <2>4. CASE NextInChain(t) # NULL
      <3>1. stack' = [stack EXCEPT ![c] = <<Promote(NextInChain(t), p)>> \o <<b>>]
        BY <1>4, <1>6, <1>9, <2>4 DEF Become
      <3>2. Promote(NextInChain(t), p) \in Frame
        BY <2>2, <2>4, FrameIntro, Constants DEF Priority
      <3>3. <<Promote(NextInChain(t), p)>> \o <<b>> = <<Promote(NextInChain(t), p), b>>
        BY <1>7, <3>2
      <3>4. stack' = [stack EXCEPT ![c] = <<Promote(NextInChain(t), p), b>>]
        BY <3>1, <3>3
      <3>5. QED BY <1>3, <1>4, <1>5, <1>9, <2>1, <2>2, <2>4, <3>4
    <2>5. QED BY <2>3, <2>4
  <1>10. QED BY <1>3, <1>6, <1>8, <1>9 DEF PromoteThread

LEMMA StaysCalm ==
    ASSUME KInv, KInv', Calm, NEW c \in Context, \A d \in Context \ {c} : stack'[d] = stack[d],
           \A f \in ToSet(stack'[c]) : f.fn # "CancelTail"
    PROVE  \A u \in Thread : ~Cancelling(u)'
  <1>1. Calm'
    BY DEF Calm
  <1>2. Stacked'
    BY DEF KInv, TypeOK, Stacked
  <1>3. QED BY <1>1, <1>2, CalmNext

(* A sleeper that has just been promoted lends its priority on.            *)
LEMMA PromoteLends ==
    ASSUME KInv, KInv', Shapes, PromoteThread, NEW t \in Thread, t = Arg,
           NEW p, p = priority[current], ~PromoteEnds(t, p), SetEffectivePriority(t, p),
           NextInChain(t) \in Thread
    PROVE  /\ state[t] = "SLEEPING" /\ mutex[t] \in Mutex /\ owner[mutex[t]] = NextInChain(t)
           /\ priority'[t] = p /\ t \in Lenders(NextInChain(t))' /\ p \in Claims(NextInChain(t))'
  <1>1. NULL \notin Thread /\ NULL \notin Mutex
    BY Constants
  <1>2. state[t] = "SLEEPING" /\ mutex[t] # NULL /\ owner[mutex[t]] = NextInChain(t)
    BY <1>1 DEF NextInChain
  <1>3. mutex[t] \in Mutex /\ priority \in [Thread -> Nat]
    BY <1>2, StateTypes DEF KInv
  <1>4. priority'[t] = p
    BY <1>2, <1>3 DEF SetEffectivePriority
  <1>5. /\ Running("__OSPromoteThread") /\ state' = state /\ mutex' = mutex /\ owner' = owner
    BY DEF PromoteThread, mutexVars
  <1>6. ~Cancelling(t)'
    <2>1. Calm /\ Stacked
      BY <1>5, InnerFacts DEF Inner
    <2>2. PICK u \in Thread, c \in Thread, q \in Priority, m \in Mutex, b \in Frame :
             /\ c = current /\ b = F("LockSleep", m)
             /\ \/ stack' = [stack EXCEPT ![c] = <<b>>]
                \/ NextInChain(u) \in Thread /\ stack' = [stack EXCEPT ![c] = <<Promote(NextInChain(u), q), b>>]
      BY PromoteTurn
    <2>3. b.fn = "LockSleep"
      BY <2>2, FrameIntro
    <2>4. c \in Context /\ \A d \in Context \ {c} : stack'[d] = stack[d]
      BY <2>1, <2>2 DEF Stacked, Context
    <2>5. \A f \in ToSet(stack'[c]) : f.fn # "CancelTail"
      <3>1. CASE stack' = [stack EXCEPT ![c] = <<b>>]
        <4>1. stack'[c] = <<b>> /\ ToSet(<<b>>) = {b}
          BY <2>1, <2>4, <3>1, Stacks DEF Stacked
        <4>2. QED BY <2>3, <4>1
      <3>2. CASE NextInChain(u) \in Thread /\ stack' = [stack EXCEPT ![c] = <<Promote(NextInChain(u), q), b>>]
        <4>1. PICK a \in Frame : a = Promote(NextInChain(u), q) /\ a.fn = "__OSPromoteThread"
          BY <3>2, FrameIntro, Constants DEF Priority
        <4>2. stack'[c] = <<a, b>> /\ ToSet(<<a, b>>) = {a, b}
          BY <2>1, <2>4, <3>2, <4>1, Stacks DEF Stacked
        <4>3. QED BY <2>3, <4>1, <4>2
      <3>3. QED BY <2>2, <3>1, <3>2
    <2>6. QED BY <2>1, <2>4, <2>5, StaysCalm
  <1>7. LendsOn(t)'
    BY <1>2, <1>5, <1>6 DEF LendsOn
  <1>8. t \in Lenders(NextInChain(t))'
    <2>1. NextInChain(t)' = NextInChain(t)
      BY <1>5 DEF NextInChain
    <2>2. QED BY <1>2, <1>5, <1>7, <2>1 DEF Lenders
  <1>9. p \in Claims(NextInChain(t))'
    BY <1>4, <1>8 DEF Claims
  <1>10. QED BY <1>2, <1>3, <1>4, <1>8, <1>9

LEMMA PromoteShapes == ASSUME KInv, KInv', Nested, Shapes, PromoteThread PROVE Shapes'
  <1>1. PICK t \in Thread, c \in Thread, p \in Priority, m \in Mutex, b \in Frame :
           /\ t = Arg /\ c = current /\ p = priority[c] /\ m = mutex[c] /\ b = F("LockSleep", m)
           /\ \/ /\ PromoteEnds(t, p) /\ stack' = [stack EXCEPT ![c] = <<b>>]
                 /\ UNCHANGED <<queueVars, priority, queue>>
              \/ /\ ~PromoteEnds(t, p) /\ t # c /\ SetEffectivePriority(t, p)
                 /\ \/ NextInChain(t) = NULL /\ stack' = [stack EXCEPT ![c] = <<b>>]
                    \/ /\ NextInChain(t) \in Thread
                       /\ stack' = [stack EXCEPT ![c] = <<Promote(NextInChain(t), p), b>>]
    BY PromoteTurn
  <1>2. /\ Running("__OSPromoteThread") /\ state' = state /\ mutex' = mutex /\ owner' = owner
    BY DEF PromoteThread, mutexVars
  <1>3. /\ b.fn = "LockSleep" /\ b.arg = m /\ Stacked /\ priority \in [Thread -> Nat]
        /\ c \in Context
    BY <1>1, StateTypes, FrameIntro DEF KInv, Context
  <1>4. \A x \in Thread : Dead(x) => Dead(x)'
    BY <1>2 DEF Dead
  <1>5. \A d \in Thread \ {c} : /\ d = current => stack[d] = << >>
                                /\ stack'[d] = stack[d] /\ mutex'[d] = mutex[d]
    BY <1>1, <1>2, <1>3 DEF Stacked, Context
  <1>6. priority'[c] = p
    BY <1>1, <1>3 DEF SetEffectivePriority
  <1>7. Shape(c, stack[c])'
    <2>1. CASE stack' = [stack EXCEPT ![c] = <<b>>]
      <3>1. stack'[c] = <<b>> /\ ToSet(<<b>>) = {b} /\ Head(<<b>>) = b /\ Tail(<<b>>) = << >>
            /\ ToSet(<< >>) = {}
        BY <1>3, <2>1, Stacks, Tails DEF Stacked
      <3>2. HeadShape(stack[c])'
        BY <1>3, <3>1 DEF HeadShape, WakesMutex
      <3>3. MutexNoted(c, stack[c])'
        BY <1>1, <1>2, <1>3, <3>1 DEF MutexNoted
      <3>4. FrameShape(c, stack[c], b)'
        BY <1>1, <1>2, <1>3 DEF FrameShape
      <3>5. QED BY <3>1, <3>2, <3>3, <3>4 DEF Shape
    <2>2. CASE /\ ~PromoteEnds(t, p) /\ SetEffectivePriority(t, p)
               /\ NextInChain(t) \in Thread
               /\ stack' = [stack EXCEPT ![c] = <<Promote(NextInChain(t), p), b>>]
      <3>1. p \in Claims(NextInChain(t))'
        BY <1>1, <2>2, PromoteLends
      <3>2. PICK x \in Thread : x = NextInChain(t) /\ NextInChain(t)' = x
        BY <1>2, <2>2 DEF NextInChain
      <3>3. p \in Claims(x)'
        BY <3>1, <3>2
      <3>4. PICK a \in Frame : a = Promote(x, p) /\ a.fn = "__OSPromoteThread" /\ a.arg = x /\ a.prio = p
        BY FrameIntro, Constants DEF Priority
      <3>5. /\ stack'[c] = <<a, b>> /\ ToSet(<<a, b>>) = {a, b} /\ Head(<<a, b>>) = a
            /\ Tail(<<a, b>>) = <<b>> /\ ToSet(<<b>>) = {b}
        BY <1>3, <2>2, <3>2, <3>4, Stacks, Tails DEF Stacked
      <3>6. HeadShape(stack[c])'
        BY <1>3, <3>4, <3>5 DEF HeadShape, WakesMutex
      <3>7. MutexNoted(c, stack[c])'
        BY <1>1, <1>2, <1>3, <3>5 DEF MutexNoted
      <3>8. FrameShape(c, <<a, b>>, a)'
        <4>1. a.arg = x /\ <<a, b>> = <<a, F("LockSleep", m)>>
          BY <1>1, <3>4
        <4>2. QED BY <1>6, <3>3, <3>4, <4>1 DEF FrameShape
      <3>9. FrameShape(c, <<a, b>>, b)'
        BY <1>1, <1>2, <1>3 DEF FrameShape
      <3>10. QED BY <3>5, <3>6, <3>7, <3>8, <3>9 DEF Shape
    <2>3. QED BY <1>1, <2>1, <2>2
  <1>8. QED BY <1>3, <1>4, <1>5, <1>7, ShapesStep

(* Nothing refers to the control block of a new thread.                    *)
LEMMA CreateShapes ==
    ASSUME KInv, Nested, Shapes, current \in Thread, NEW t \in Thread, NEW p, NEW det,
           OSCreateThread(current, t, p, det)
    PROVE  Shapes'
  <1>1. /\ MayCall(current) /\ Unreferenced(t) /\ state' = [state EXCEPT ![t] = "READY"]
        /\ mutex' = [mutex EXCEPT ![t] = NULL] /\ stack' = [stack EXCEPT ![t] = << >>]
    BY DEF OSCreateThread
  <1>2. Stacked /\ stack[current] = << >> /\ t \in Context
    BY <1>1, CallFacts, Constants DEF Context
  <1>3. stack'[t] = << >> /\ mutex'[t] = NULL
    BY <1>1, <1>2 DEF Stacked, KInv, TypeOK
  <1>4. Shape(t, stack[t])'
    BY <1>3, Tails, ShapeIntro
  <1>5. ASSUME NEW d \in Thread \ {t}
        PROVE  /\ d = current => stack[d] = << >>
               /\ stack'[d] = stack[d] /\ mutex'[d] = mutex[d]
               /\ Dead(d) => Dead(d)'
               /\ \A f \in ToSet(stack[d]) :
                     f.fn = "__OSUnlockAllMutex" /\ Dead(f.arg) => Dead(f.arg)'
    <2>1. /\ d = current => stack[d] = << >>
          /\ stack'[d] = stack[d] /\ mutex'[d] = mutex[d]
          /\ Dead(d) => Dead(d)'
      BY <1>1, <1>2 DEF Stacked, Context, Dead, KInv, TypeOK
    <2>2. ASSUME NEW f \in ToSet(stack[d]), f.fn = "__OSUnlockAllMutex", Dead(f.arg)
          PROVE  Dead(f.arg)'
      <3>1. f.arg # t
        <4>1. PICK i \in DOMAIN stack[d] : stack[d][i] = f
          BY <1>2 DEF ToSet
        <4>2. QED BY <1>1, <4>1 DEF Unreferenced, Context
      <3>2. f.arg \in Thread
        <4>1. stack[d] \in Seq(Frame)
          BY <1>2 DEF Stacked, Context
        <4>2. f \in Frame
          BY <4>1 DEF ToSet
        <4>3. QED BY <2>2, <4>2, FrameFacts
      <3>3. QED BY <1>1, <2>2, <3>1, <3>2 DEF Dead, KInv, TypeOK
    <2>3. QED BY <2>1, <2>2
  <1>6. QED BY <1>2, <1>4, <1>5, ShapesBut

LEMMA SleepStill ==
    ASSUME NEW t \in Thread, SleepOK(t),
           state'[t] = "SLEEPING" =>
              /\ state[t] = "SLEEPING" /\ mutex'[t] = mutex[t] /\ queue'[t] = queue[t]
              /\ suspend'[t] > 0 => suspend[t] > 0 /\ priority'[t] = priority[t]
              /\ ~Cancelling(t)' => ~Cancelling(t)
    PROVE  SleepOK(t)'
  BY DEF SleepOK

AtRest == ~Running("UpdatePriority") /\ ~Running("__OSPromoteThread")

LEMMA SettledKept ==
    ASSUME Settled, AtRest, NEW t \in Thread, Live(t)' => Live(t),
           base'[t] = base[t], priority'[t] = priority[t],
           \A u \in Thread : u \in Lenders(t)' <=> u \in Lenders(t),
           \A u \in Lenders(t) : priority'[u] = priority[u]
    PROVE  Live(t)' => SettledOne(t)'
  <1> SUFFICES ASSUME Live(t)' PROVE SettledOne(t)'
    OBVIOUS
  <1>1. Least(priority[t], Claims(t))
    BY DEF Settled, SettledOne, AtRest
  <1>2. Lenders(t)' = Lenders(t)
    BY DEF Lenders
  <1>3. Claims(t)' = Claims(t)
    BY <1>2 DEF Claims
  <1>4. Least(priority[t], Claims(t))'
    BY <1>1, <1>3 DEF Least
  <1>5. QED BY <1>4 DEF SettledOne

SleepsFor(u, t) == state[u] = "SLEEPING" /\ mutex[u] # NULL /\ owner[mutex[u]] = t

LEMMA BareLenders ==
    ASSUME KInv, KInv', Bare, Bare'
    PROVE  \A u, t \in Thread : /\ u \in Lenders(t) <=> SleepsFor(u, t)
                                /\ u \in Lenders(t)' <=> SleepsFor(u, t)'
  <1>1. \A u \in Thread : LendsOn(u) <=> state[u] = "SLEEPING"
    BY BareLends
  <1>2. \A u \in Thread : LendsOn(u)' <=> state'[u] = "SLEEPING"
    BY BareLendsNext
  <1>3. QED BY <1>1, <1>2 DEF Lenders, SleepsFor

LEMMA QuietStep ==
    ASSUME KInv, KInv', Bare, Bare', Settled, AtRest, base' = base, priority' = priority,
           \A t \in Thread : Live(t)' => Live(t),
           \A u, t \in Thread : Live(t) => (SleepsFor(u, t)' <=> SleepsFor(u, t))
    PROVE  Settled'
  <1>1. SUFFICES ASSUME NEW t \in Thread, Live(t)' PROVE SettledOne(t)'
    BY DEF Settled
  <1>2. \A u \in Thread : u \in Lenders(t)' <=> u \in Lenders(t)
    BY <1>1, BareLenders
  <1>3. QED BY <1>1, <1>2, SettledKept

(* A call, before it enters its frames.                                    *)
LEMMA CallRest ==
    ASSUME KInv, NEW c \in {current, Isr}, c # NULL, MayCall(c) PROVE Bare /\ AtRest
  <1>1. /\ \A fn : ~Running(fn)
        /\ current # NULL => stack[current] = << >>
    BY CallFacts
  <1>2. QED BY <1>1, BareNow DEF AtRest

LEMMA EnterBare ==
    ASSUME KInv, NEW c \in {current, Isr}, c # NULL, MayCall(c), NEW fs \in Seq(Frame),
           Enter(c, fs), \A f \in ToSet(fs) : f.fn \notin {"LockSleep", "CancelTail"}
    PROVE  Bare'
  <1>1. Bare /\ Stacked /\ c \in Context
    BY CallFacts, CallRest
  <1>2. PICK e \in Context : e = c
    BY <1>1
  <1>3. \A d \in Thread \ {e} : stack'[d] = stack[d]
    BY <1>1, <1>2 DEF Enter, Stacked, Context
  <1>4. e \in Thread => stack'[e] = fs
    BY <1>1, <1>2, Constants DEF Enter, Stacked, Context
  <1>5. QED BY <1>1, <1>3, <1>4, BareStep

LEMMA StillBare == ASSUME Bare, stack' = stack PROVE Bare'
  BY DEF Bare

QuietFrames(fs) ==
    /\ \A f \in ToSet(fs) : /\ f.fn \notin {"LockSleep", "__OSPromoteThread", "CancelTail"}
                            /\ f.fn = "__OSUnlockAllMutex" => Dead(f.arg)'
    /\ fs # << >> =>
          /\ \A f \in ToSet(Tail(fs)) : f.fn # "UpdatePriority" /\ ~WakesMutex(f)
          /\ WakesMutex(Head(fs)) => owner'[Head(fs).arg] = NULL
          /\ Head(fs).fn # "UpdatePriority"

(* A call after which the same threads sleep on the same mutexes.          *)
LEMMA CallQuiet ==
    ASSUME KInv, KInv', EInv, PInv, NEW c \in {current, Isr}, c # NULL, MayCall(c),
           \/ stack' = stack
           \/ \E fs \in Seq(Frame) : Enter(c, fs) /\ QuietFrames(fs),
           mutex' = mutex, base' = base, priority' = priority,
           \A t \in Thread : /\ Dead(t) => Dead(t)'
                             /\ suspend'[t] = 0 => suspend[t] = 0
                             /\ SleepOK(t)',
           \A u, t \in Thread : Live(t) => (SleepsFor(u, t)' <=> SleepsFor(u, t))
    PROVE  PInv'
  <1>1. Shapes /\ Settled /\ Nested /\ Bare /\ AtRest
    BY CallRest DEF PInv, EInv
  <1>2. Sleeps'
    BY DEF Sleeps
  <1>3. \A t \in Thread : Live(t)' => Live(t)
    BY DEF Live
  <1>4. CASE stack' = stack
    <2>1. Shapes' /\ Bare'
      BY <1>1, <1>4, StillShapes, StillBare
    <2>2. QED BY <1>1, <1>2, <1>3, <2>1, QuietStep DEF PInv
  <1>5. CASE \E fs \in Seq(Frame) : Enter(c, fs) /\ QuietFrames(fs)
    <2>1. PICK fs \in Seq(Frame) : Enter(c, fs) /\ QuietFrames(fs)
      BY <1>5
    <2>2. Shapes'
      BY <1>1, <2>1, CallShapes DEF QuietFrames
    <2>3. Bare'
      BY <2>1, EnterBare DEF QuietFrames
    <2>4. QED BY <1>1, <1>2, <1>3, <2>2, <2>3, QuietStep DEF PInv
  <1>6. QED BY <1>4, <1>5

LEMMA QuietOne ==
    ASSUME NEW f \in Frame, f.fn \notin {"LockSleep", "__OSPromoteThread", "CancelTail",
                                        "__OSUnlockAllMutex", "UpdatePriority"},
           WakesMutex(f) => owner'[f.arg] = NULL
    PROVE  <<f>> \in Seq(Frame) /\ QuietFrames(<<f>>)
  <1>1. /\ <<f>> \in Seq(Frame) /\ ToSet(<<f>>) = {f} /\ Head(<<f>>) = f /\ Tail(<<f>>) = << >>
        /\ ToSet(<< >>) = {}
    BY Stacks, Tails
  <1>2. QED BY <1>1 DEF QuietFrames

LEMMA QuietReschedule ==
    Reschedule \in Frame /\ <<Reschedule>> \in Seq(Frame) /\ QuietFrames(<<Reschedule>>)
  <1>1. Reschedule \in Frame /\ Reschedule.fn = "__OSReschedule"
    BY FrameIntro
  <1>2. PICK f \in Frame : f = Reschedule
    BY <1>1
  <1>3. ~WakesMutex(f)
    BY <1>1, <1>2 DEF WakesMutex
  <1>4. QED BY <1>1, <1>2, <1>3, QuietOne

LEMMA CallsSleep ==
    ASSUME KInv, Sleeps, NEW c \in {current, Isr}, c # NULL, MayCall(c), NEW t \in Thread,
           state'[t] = "SLEEPING" =>
              /\ state[t] = "SLEEPING" /\ mutex'[t] = mutex[t] /\ queue'[t] = queue[t]
              /\ suspend'[t] > 0 => suspend[t] > 0 /\ priority'[t] = priority[t]
    PROVE  SleepOK(t)'
  <1>1. ~Cancelling(t) /\ SleepOK(t)
    BY CallFacts DEF Sleeps
  <1>2. QED BY <1>1, SleepStill

(* A call that only enters one frame.                                      *)
LEMMA OneFrameQuiet ==
    ASSUME KInv, KInv', EInv, PInv, NEW c \in {current, Isr}, c # NULL, MayCall(c), NEW f \in Frame,
           f.fn \in {"OSWakeupThread", "OSYieldThread", "OSLockMutex"}, ~WakesMutex(f),
           Enter(c, <<f>>), UNCHANGED <<threadVars, mutexVars>>
    PROVE  PInv'
  <1>1. /\ mutex' = mutex /\ base' = base /\ priority' = priority /\ state' = state
        /\ suspend' = suspend /\ queue' = queue /\ owner' = owner
    BY DEF threadVars, mutexVars
  <1>2. <<f>> \in Seq(Frame) /\ QuietFrames(<<f>>)
    BY QuietOne
  <1>3. \A t \in Thread : SleepOK(t)'
    BY <1>1, CallsSleep DEF PInv
  <1>4. \A t \in Thread : Dead(t) => Dead(t)'
    BY <1>1 DEF Dead
  <1>5. \A u, t \in Thread : SleepsFor(u, t)' <=> SleepsFor(u, t)
    BY <1>1 DEF SleepsFor
  <1>6. QED BY <1>1, <1>2, <1>3, <1>4, <1>5, CallQuiet

LEMMA WakeupPrio ==
    ASSUME KInv, KInv', EInv, PInv, NEW c \in {current, Isr}, c # NULL, NEW q \in UserQueue,
           OSWakeupThread(c, q)
    PROVE  PInv'
  <1>1. /\ MayCall(c) /\ Enter(c, <<F("OSWakeupThread", q)>>)
        /\ UNCHANGED <<threadVars, mutexVars>>
    BY DEF OSWakeupThread
  <1>2. PICK f \in Frame : f = F("OSWakeupThread", q) /\ f.fn = "OSWakeupThread" /\ f.arg = q
    BY FrameIntro, Constants DEF WaitQueue
  <1>3. ~WakesMutex(f)
    BY <1>2, ThreadAssumption DEF WakesMutex
  <1>4. QED BY <1>1, <1>2, <1>3, OneFrameQuiet

LEMMA YieldPrio ==
    ASSUME KInv, KInv', EInv, PInv, current \in Thread, OSYieldThread(current) PROVE PInv'
  <1>1. /\ MayCall(current) /\ Enter(current, <<F("OSYieldThread", NULL)>>)
        /\ UNCHANGED <<threadVars, mutexVars>> /\ current # NULL
    BY Constants DEF OSYieldThread
  <1>2. PICK f \in Frame : f = F("OSYieldThread", NULL) /\ f.fn = "OSYieldThread"
    BY FrameIntro
  <1>3. ~WakesMutex(f)
    BY <1>2 DEF WakesMutex
  <1>4. QED BY <1>1, <1>2, <1>3, OneFrameQuiet

LEMMA LockPrio ==
    ASSUME KInv, KInv', EInv, PInv, current \in Thread, NEW m \in Mutex, OSLockMutex(current, m)
    PROVE  PInv'
  <1>1. /\ MayCall(current) /\ Enter(current, <<F("OSLockMutex", m)>>)
        /\ UNCHANGED <<threadVars, mutexVars>> /\ current # NULL
    BY Constants DEF OSLockMutex
  <1>2. PICK f \in Frame : f = F("OSLockMutex", m) /\ f.fn = "OSLockMutex"
    BY FrameIntro
  <1>3. ~WakesMutex(f)
    BY <1>2 DEF WakesMutex
  <1>4. QED BY <1>1, <1>2, <1>3, OneFrameQuiet

LEMMA TryLockPrio ==
    ASSUME KInv, KInv', EInv, PInv, current \in Thread, NEW m \in Mutex, OSTryLockMutex(current, m)
    PROVE  PInv'
  <1>1. /\ MayCall(current) /\ UNCHANGED <<threadVars, stack>> /\ current # NULL
        /\ \/ owner[m] = NULL /\ owner' = [owner EXCEPT ![m] = current]
           \/ owner' = owner
    BY Constants DEF OSTryLockMutex, Acquire
  <1>2. /\ mutex' = mutex /\ base' = base /\ priority' = priority /\ state' = state
        /\ suspend' = suspend /\ queue' = queue /\ stack' = stack
    BY <1>1 DEF threadVars
  <1>3. \A t \in Thread : SleepOK(t)'
    BY <1>1, <1>2, CallsSleep DEF PInv
  <1>4. \A t \in Thread : Dead(t) => Dead(t)'
    BY <1>2 DEF Dead
  <1>5. ASSUME NEW u \in Thread, NEW t \in Thread PROVE SleepsFor(u, t)' <=> SleepsFor(u, t)
    <2>1. CASE owner' = owner
      BY <1>2, <2>1 DEF SleepsFor
    <2>2. CASE owner[m] = NULL /\ owner' = [owner EXCEPT ![m] = current]
      <3>1. waiters[m] = << >> /\ ~Cancelling(u)
        BY <1>1, <2>2, CallFacts
      <3>2. ~(state[u] = "SLEEPING" /\ mutex[u] = m)
        <4>1. u \notin ToSet(waiters[m])
          BY <3>1, Tails
        <4>2. QED BY <3>1, <4>1, WaitersNote DEF PInv
      <3>3. mutex[u] \in Mutex \cup {NULL} /\ owner \in [Mutex -> Thread \cup {NULL}]
        BY StateTypes DEF KInv, TypeOK
      <3>4. QED BY <1>2, <2>2, <3>2, <3>3 DEF SleepsFor
    <2>3. QED BY <1>1, <2>1, <2>2
  <1>6. QED BY <1>1, <1>2, <1>3, <1>4, <1>5, CallQuiet

LEMMA Triple ==
    ASSUME NEW a \in Frame, NEW b \in Frame, NEW e \in Frame
    PROVE  /\ <<a, b, e>> \in Seq(Frame) /\ ToSet(<<a, b, e>>) = {a, b, e} /\ Head(<<a, b, e>>) = a
           /\ Tail(<<a, b, e>>) = <<b, e>> /\ ToSet(<<b, e>>) = {b, e}
  <1> DEFINE n == <<a, b, e>>
  <1>1. n \in Seq(Frame) /\ ToSet(n) = {a, b, e} /\ Head(n) = a
    <2>1. /\ n \in Seq(Frame) /\ n[1] = a /\ n[2] = b /\ n[3] = e /\ DOMAIN n = 1 .. 3
          /\ Head(n) = a
      OBVIOUS
    <2> HIDE DEF n
    <2>2. \A i \in 1 .. 3 : i = 1 \/ i = 2 \/ i = 3
      OBVIOUS
    <2>3. QED BY <2>1, <2>2 DEF ToSet
  <1>2. ToSet(<<b, e>>) = {b, e}
    BY Stacks
  <1>3. Tail(<<a, b, e>>) = <<b, e>>
    BY Tails
  <1>4. QED BY <1>1, <1>2, <1>3

(* The caller goes to sleep, but not on a mutex.                           *)
LEMMA SleepQuiet ==
    ASSUME KInv, KInv', EInv, PInv, current \in Thread, MayCall(current),
           NEW q \in WaitQueue, q \notin Mutex, SleepOn(current, q),
           NEW fs \in Seq(Frame), Enter(current, fs), QuietFrames(fs),
           UNCHANGED <<base, priority, suspend, mutex, mutexVars>>
    PROVE  PInv'
  <1>1. PICK c \in Thread : c = current /\ c # NULL
    BY Constants
  <1>2. /\ state' = [state EXCEPT ![c] = "SLEEPING"] /\ queue' = [queue EXCEPT ![c] = q]
        /\ mutex' = mutex /\ base' = base /\ priority' = priority /\ suspend' = suspend
        /\ owner' = owner
    BY <1>1 DEF SleepOn, mutexVars
  <1>3. /\ state[c] = "RUNNING" /\ suspend[c] = 0 /\ mutex[c] = NULL
        /\ \A t \in Thread : ~Cancelling(t)
    BY <1>1, CallFacts, CallerMutex DEF PInv
  <1>4. state'[c] = "SLEEPING" /\ queue'[c] = q
        /\ \A t \in Thread \ {c} : state'[t] = state[t] /\ queue'[t] = queue[t]
    BY <1>1, <1>2 DEF KInv, TypeOK
  <1>5. ASSUME NEW t \in Thread PROVE SleepOK(t)'
    <2>1. CASE t = c
      BY <1>2, <1>3, <1>4, <2>1 DEF SleepOK
    <2>2. CASE t # c
      BY <1>1, <1>2, <1>4, <2>2, CallsSleep DEF PInv
    <2>3. QED BY <2>1, <2>2
  <1>6. \A t \in Thread : Dead(t) => Dead(t)'
    BY <1>3, <1>4 DEF Dead
  <1>7. \A u, t \in Thread : SleepsFor(u, t)' <=> SleepsFor(u, t)
    BY <1>2, <1>3, <1>4 DEF SleepsFor
  <1>8. QED BY <1>1, <1>2, <1>5, <1>6, <1>7, CallQuiet

LEMMA SleepPrio ==
    ASSUME KInv, KInv', EInv, PInv, current \in Thread, NEW q \in UserQueue, OSSleepThread(current, q)
    PROVE  PInv'
  <1>1. q \in WaitQueue /\ q \notin Mutex
    BY ThreadAssumption DEF WaitQueue
  <1>2. /\ MayCall(current) /\ SleepOn(current, q) /\ Enter(current, <<Reschedule>>)
        /\ UNCHANGED <<base, priority, suspend, mutex, mutexVars>>
    BY DEF OSSleepThread
  <1>3. QED BY <1>1, <1>2, QuietReschedule, SleepQuiet

LEMMA ReapStates ==
    ASSUME KInv, NEW t \in Thread, Reap(t)
    PROVE  \A u \in Thread : /\ Dead(u) => Dead(u)'
                             /\ state'[u] = "SLEEPING" <=> state[u] = "SLEEPING"
  <1>1. CASE state[t] = "MORIBUND"
    <2>1. state' = [state EXCEPT ![t] = "EXITED"]
      BY <1>1 DEF Reap
    <2>2. QED BY <1>1, <2>1 DEF Dead, KInv, TypeOK
  <1>2. CASE state[t] # "MORIBUND"
    <2>1. state' = state
      BY <1>2 DEF Reap
    <2>2. QED BY <2>1 DEF Dead
  <1>3. QED BY <1>1, <1>2

LEMMA JoinPrio ==
    ASSUME KInv, KInv', EInv, PInv, current \in Thread, NEW t \in Thread, OSJoinThread(current, t)
    PROVE  PInv'
  <1>1. /\ MayCall(current) /\ current # NULL
        /\ UNCHANGED <<base, priority, suspend, mutex, mutexVars>>
        /\ \/ SleepOn(current, t) /\ Enter(current, <<Reschedule, F("JoinTail", t)>>)
           \/ Reap(t) /\ queue' = queue /\ stack' = stack
    BY Constants DEF OSJoinThread
  <1>2. CASE SleepOn(current, t) /\ Enter(current, <<Reschedule, F("JoinTail", t)>>)
    <2>1. PICK a \in Frame, b \in Frame : a = Reschedule /\ b = F("JoinTail", t)
      BY FrameIntro
    <2>2. a.fn = "__OSReschedule" /\ b.fn = "JoinTail"
      BY <2>1, FrameIntro
    <2>3. /\ <<a, b>> \in Seq(Frame) /\ ToSet(<<a, b>>) = {a, b} /\ Head(<<a, b>>) = a
          /\ Tail(<<a, b>>) = <<b>> /\ ToSet(<<b>>) = {b}
      BY Stacks, Tails
    <2>4. QuietFrames(<<a, b>>)
      BY <2>2, <2>3 DEF QuietFrames, WakesMutex
    <2>5. t \in WaitQueue /\ t \notin Mutex
      BY ThreadAssumption DEF WaitQueue
    <2>6. Enter(current, <<a, b>>)
      BY <1>2, <2>1
    <2>7. QED BY <1>1, <1>2, <2>3, <2>4, <2>5, <2>6, SleepQuiet
  <1>3. CASE Reap(t) /\ queue' = queue /\ stack' = stack
    <2>1. \A u \in Thread : /\ Dead(u) => Dead(u)'
                            /\ state'[u] = "SLEEPING" <=> state[u] = "SLEEPING"
      BY <1>3, ReapStates
    <2>2. /\ mutex' = mutex /\ base' = base /\ priority' = priority /\ suspend' = suspend
          /\ owner' = owner
      BY <1>1 DEF mutexVars
    <2>3. \A u \in Thread : SleepOK(u)'
      BY <1>1, <1>3, <2>1, <2>2, CallsSleep DEF PInv
    <2>4. \A u, x \in Thread : SleepsFor(u, x)' <=> SleepsFor(u, x)
      BY <2>1, <2>2 DEF SleepsFor
    <2>5. QED BY <1>1, <1>3, <2>1, <2>2, <2>3, <2>4, CallQuiet
  <1>4. QED BY <1>1, <1>2, <1>3

LEMMA DetachPrio ==
    ASSUME KInv, KInv', EInv, PInv, current \in Thread, NEW t \in Thread, OSDetachThread(current, t)
    PROVE  PInv'
  <1>1. /\ MayCall(current) /\ current # NULL /\ Reap(t)
        /\ Enter(current, <<F("OSWakeupThread", t)>>)
        /\ mutex' = mutex /\ base' = base /\ priority' = priority /\ suspend' = suspend
        /\ owner' = owner /\ queue' = queue
    BY Constants DEF OSDetachThread, mutexVars
  <1>2. \A u \in Thread : /\ Dead(u) => Dead(u)'
                          /\ state'[u] = "SLEEPING" <=> state[u] = "SLEEPING"
    BY <1>1, ReapStates
  <1>3. \A u \in Thread : SleepOK(u)'
    BY <1>1, <1>2, CallsSleep DEF PInv
  <1>4. \A u, x \in Thread : SleepsFor(u, x)' <=> SleepsFor(u, x)
    BY <1>1, <1>2 DEF SleepsFor
  <1>5. PICK f \in Frame : f = F("OSWakeupThread", t) /\ f.fn = "OSWakeupThread" /\ f.arg = t
    BY FrameIntro, Constants DEF WaitQueue
  <1>6. ~WakesMutex(f)
    BY <1>5, ThreadAssumption DEF WakesMutex
  <1>7. <<f>> \in Seq(Frame) /\ QuietFrames(<<f>>)
    BY <1>5, <1>6, QuietOne
  <1>8. QED BY <1>1, <1>2, <1>3, <1>4, <1>5, <1>7, CallQuiet

LEMMA DieStates ==
    ASSUME KInv, NEW t \in Thread, Die(t)
    PROVE  /\ Dead(t)' /\ \A u \in Thread \ {t} : state'[u] = state[u]
           /\ \A u \in Thread : Dead(u) => Dead(u)'
  <1>1. state' = [state EXCEPT ![t] = IF detached[t] THEN "EXITED" ELSE "MORIBUND"]
    BY DEF Die
  <1>2. QED BY <1>1 DEF Dead, KInv, TypeOK

LEMMA ExitPrio ==
    ASSUME KInv, KInv', EInv, PInv, current \in Thread, OSExitThread(current) PROVE PInv'
  <1>1. PICK c \in Thread : c = current /\ c # NULL
    BY Constants
  <1>2. /\ MayCall(current) /\ Die(c) /\ Enter(current, TearDown(c) \o <<F("ExitHint", NULL)>>)
        /\ mutex' = mutex /\ base' = base /\ priority' = priority /\ suspend' = suspend
        /\ owner' = owner /\ queue' = queue
    BY <1>1 DEF OSExitThread, mutexVars
  <1>3. state[c] = "RUNNING"
    BY <1>1, <1>2, CallFacts
  <1>4. /\ Dead(c)' /\ \A u \in Thread \ {c} : state'[u] = state[u]
        /\ \A u \in Thread : Dead(u) => Dead(u)'
    BY <1>2, DieStates
  <1>5. state'[c] # "SLEEPING"
    BY <1>4 DEF Dead
  <1>6. ASSUME NEW u \in Thread PROVE SleepOK(u)'
    BY <1>1, <1>2, <1>4, <1>5, CallsSleep DEF PInv
  <1>7. \A u, x \in Thread : SleepsFor(u, x)' <=> SleepsFor(u, x)
    BY <1>2, <1>3, <1>4, <1>5 DEF SleepsFor
  <1>8. PICK a \in Frame, b \in Frame, e \in Frame :
           a = F("__OSUnlockAllMutex", c) /\ b = F("OSWakeupThread", c) /\ e = F("ExitHint", NULL)
    BY FrameIntro, Constants
  <1>9. /\ a.fn = "__OSUnlockAllMutex" /\ a.arg = c /\ b.fn = "OSWakeupThread" /\ b.arg = c
        /\ e.fn = "ExitHint"
    BY <1>8, FrameIntro
  <1>10. /\ <<a, b, e>> \in Seq(Frame) /\ ToSet(<<a, b, e>>) = {a, b, e} /\ Head(<<a, b, e>>) = a
         /\ Tail(<<a, b, e>>) = <<b, e>> /\ ToSet(<<b, e>>) = {b, e}
    BY Triple
  <1>11. ~WakesMutex(b)
    BY <1>9, ThreadAssumption DEF WakesMutex
  <1>12. QuietFrames(<<a, b, e>>)
    BY <1>4, <1>9, <1>10, <1>11 DEF QuietFrames, WakesMutex
  <1>13. Enter(current, <<a, b, e>>)
    <2>1. TearDown(c) \o <<e>> = <<a, b, e>>
      BY <1>8, TornFrames
    <2>2. QED BY <1>2, <1>8, <2>1
  <1>14. QED BY <1>1, <1>2, <1>4, <1>6, <1>7, <1>10, <1>12, <1>13, CallQuiet

LEMMA HeadEntered ==
    ASSUME NEW s \in Seq(Frame), s # << >>, NEW f \in Frame
    PROVE  s \o <<f>> # << >> /\ Head(s \o <<f>>) = Head(s)
  <1> DEFINE r == <<f>>
             n == s \o r
  <1>1. r \in Seq(Frame) /\ Len(r) = 1
    OBVIOUS
  <1>2. Len(s) \in Nat /\ Len(s) >= 1 /\ Head(s) = s[1]
    BY HeadTailProperties, LenProperties, EmptySeq
  <1> HIDE DEF r
  <1>3. n \in Seq(Frame) /\ Len(n) = Len(s) + 1 /\ n[1] = s[1]
    BY <1>1, <1>2, ConcatProperties
  <1> HIDE DEF n
  <1>4. n # << >> /\ Head(n) = n[1]
    BY <1>2, <1>3, HeadTailProperties, LenProperties, EmptySeq
  <1>5. QED BY <1>2, <1>3, <1>4 DEF n, r

(* A call that enters the loop of UpdatePriority for x.                    *)
LEMMA Follows ==
    ASSUME KInv, NEW c \in {current, Isr}, c # NULL, MayCall(c), current' = current,
           NEW s \in Seq(Frame), s # << >>, Head(s).fn = "UpdatePriority", Enter(c, s)
    PROVE  Running("UpdatePriority")' /\ Arg' = Head(s).arg
  <1>1. /\ Stacked /\ stack[Isr] = << >> /\ c \in Context
        /\ c # Isr => c = current /\ c \in Thread
    BY CallFacts
  <1>2. PICK e \in Context : e = c
    BY <1>1
  <1>3. PICK n : n = stack'[e] /\ n # << >> /\ Head(n) = Head(s)
    <2>1. CASE e = Isr
      <3>1. stack'[e] = s \o <<F("IsrReturn", NULL)>>
        BY <1>1, <1>2, <2>1 DEF Enter, Stacked
      <3>2. QED BY <3>1, HeadEntered, FrameIntro
    <2>2. CASE e # Isr
      BY <1>1, <1>2, <2>2 DEF Enter, Stacked
    <2>3. QED BY <2>1, <2>2
  <1>4. Cpu' = e
    <2>1. CASE e = Isr
      BY <1>3, <2>1 DEF Cpu
    <2>2. CASE e # Isr
      <3>1. stack'[Isr] = << >>
        BY <1>1, <1>2, <2>2 DEF Enter, Stacked, Context
      <3>2. QED BY <1>1, <1>2, <2>2, <3>1 DEF Cpu
    <2>3. QED BY <2>1, <2>2
  <1>5. e # NULL
    BY <1>2
  <1>6. QED BY <1>3, <1>4, <1>5 DEF Running, Arg

(* A call that first takes back, or gives, what t lends to an owner.       *)
LEMMA OwnerEnters ==
    ASSUME KInv, Nested, Shapes, NEW c \in {current, Isr}, c # NULL, MayCall(c), NEW t \in Thread,
           NEW e \in Frame, e.fn \in {"__OSReschedule", "CancelTail"},
           Enter(c, UpdateOwner(t) \o <<e>>), current' = current, mutex' = mutex,
           \A u \in Thread : Dead(u) => Dead(u)'
    PROVE  /\ Shapes'
           /\ mutex[t] # NULL => Running("UpdatePriority")' /\ Arg' = owner[mutex[t]]
           /\ e.fn # "CancelTail" => Bare'
  <1>1. <<e>> \in Seq(Frame) /\ ToSet(<<e>>) = {e} /\ Head(<<e>>) = e /\ Tail(<<e>>) = << >>
        /\ ToSet(<< >>) = {} /\ ~WakesMutex(e)
    BY Stacks, Tails DEF WakesMutex
  <1>2. CASE mutex[t] = NULL
    <2>1. << >> \o <<e>> = <<e>>
      OBVIOUS
    <2>2. Enter(c, <<e>>)
      BY <1>2, <2>1 DEF UpdateOwner
    <2>3. Shapes'
      BY <1>1, <2>2, CallShapes
    <2>4. e.fn # "CancelTail" => Bare'
      BY <1>1, <2>2, EnterBare
    <2>5. QED BY <1>2, <2>3, <2>4
  <1>3. CASE mutex[t] # NULL
    <2>1. owner[mutex[t]] \in Thread \cup {NULL}
      BY <1>3, StateTypes DEF KInv
    <2>2. PICK a \in Frame : a = F("UpdatePriority", owner[mutex[t]])
      BY <2>1, FrameIntro
    <2>3. a.fn = "UpdatePriority" /\ a.arg = owner[mutex[t]]
      BY <2>2, FrameIntro
    <2>4. /\ <<a, e>> \in Seq(Frame) /\ ToSet(<<a, e>>) = {a, e} /\ Head(<<a, e>>) = a
          /\ Tail(<<a, e>>) = <<e>>
      BY Stacks, Tails
    <2>5. <<a>> \o <<e>> = <<a, e>>
      BY Pairs
    <2>6. Enter(c, <<a, e>>)
      BY <1>3, <2>2, <2>5 DEF UpdateOwner
    <2>7. Shapes'
      BY <1>1, <2>3, <2>4, <2>6, CallShapes DEF WakesMutex
    <2>8. e.fn # "CancelTail" => Bare'
      BY <2>3, <2>4, <2>6, EnterBare
    <2>9. Running("UpdatePriority")' /\ Arg' = a.arg
      <3>1. <<a, e>> # << >>
        OBVIOUS
      <3>2. QED BY <2>3, <2>4, <2>6, <3>1, Follows
    <2>10. QED BY <2>3, <2>7, <2>8, <2>9
  <1>4. QED BY <1>2, <1>3

LEMMA SetPriorityPrio ==
    ASSUME KInv, KInv', EInv, PInv, current \in Thread, NEW t \in Thread, NEW p \in Priority,
           OSSetThreadPriority(current, t, p)
    PROVE  PInv'
  <1>1. /\ MayCall(current) /\ current # NULL /\ base' = [base EXCEPT ![t] = p]
        /\ Enter(current, <<F("UpdatePriority", t), Reschedule>>)
        /\ mutex' = mutex /\ priority' = priority /\ suspend' = suspend /\ state' = state
        /\ owner' = owner /\ queue' = queue /\ current' = current
    BY Constants DEF OSSetThreadPriority, mutexVars
  <1>2. PICK a \in Frame, e \in Frame : a = F("UpdatePriority", t) /\ e = Reschedule
    BY FrameIntro
  <1>3. a.fn = "UpdatePriority" /\ a.arg = t /\ e.fn = "__OSReschedule"
    BY <1>2, FrameIntro
  <1>4. /\ <<a, e>> \in Seq(Frame) /\ ToSet(<<a, e>>) = {a, e} /\ Head(<<a, e>>) = a
        /\ Tail(<<a, e>>) = <<e>> /\ ToSet(<<e>>) = {e} /\ <<a, e>> # << >>
    BY Stacks, Tails
  <1>5. Enter(current, <<a, e>>)
    BY <1>1, <1>2
  <1>6. \A u \in Thread : Dead(u) <=> Dead(u)'
    BY <1>1 DEF Dead
  <1>7. Nested /\ Shapes /\ Settled /\ Sleeps /\ Bare /\ AtRest
    BY <1>1, CallRest DEF EInv, PInv
  <1>8. Shapes'
    BY <1>1, <1>3, <1>4, <1>5, <1>6, <1>7, CallShapes DEF WakesMutex
  <1>9. Bare'
    BY <1>1, <1>3, <1>4, <1>5, EnterBare
  <1>10. Running("UpdatePriority")' /\ Arg' = t
    BY <1>1, <1>3, <1>4, <1>5, Follows
  <1>11. \A u \in Thread : SleepOK(u)'
    BY <1>1, <1>7, CallsSleep
  <1>12. ASSUME NEW x \in Thread, Live(x)' PROVE SettledOne(x)'
    <2>1. CASE x = t
      BY <1>10, <2>1 DEF SettledOne
    <2>2. CASE x # t
      <3>1. base'[x] = base[x] /\ Live(x)
        BY <1>1, <1>6, <1>12, <2>2 DEF Live
      <3>2. \A u \in Thread : u \in Lenders(x)' <=> u \in Lenders(x)
        BY <1>1, <1>7, <1>9, BareLenders DEF SleepsFor
      <3>3. QED BY <1>1, <1>7, <1>12, <3>1, <3>2, SettledKept
    <2>3. QED BY <2>1, <2>2
  <1>13. QED BY <1>8, <1>11, <1>12 DEF PInv, Sleeps, Settled

(* Only t changes its priority, and the owner it lends it to is followed.  *)
LEMMA OwnerSettled ==
    ASSUME KInv, KInv', Settled, Bare, Bare', AtRest, base' = base, NEW t \in Thread,
           \A u \in Thread \ {t} : priority'[u] = priority[u] /\ (Live(u)' => Live(u)),
           \A u, x \in Thread : SleepsFor(u, x)' <=> SleepsFor(u, x),
           state[t] = "SLEEPING" /\ mutex[t] # NULL =>
              Running("UpdatePriority")' /\ Arg' = owner[mutex[t]],
           Live(t)' => SettledOne(t)'
    PROVE  Settled'
  <1>1. ASSUME NEW x \in Thread, Live(x)' PROVE SettledOne(x)'
    <2>1. CASE x = t
      BY <1>1, <2>1
    <2>2. CASE x # t /\ t \in Lenders(x)
      <3>1. SleepsFor(t, x)
        BY <2>2, BareLenders
      <3>2. QED BY <3>1 DEF SleepsFor, SettledOne
    <2>3. CASE x # t /\ t \notin Lenders(x)
      <3>1. \A u \in Thread : u \in Lenders(x)' <=> u \in Lenders(x)
        BY BareLenders
      <3>2. \A u \in Lenders(x) : priority'[u] = priority[u]
        BY <2>3 DEF Lenders
      <3>3. QED BY <1>1, <2>3, <3>1, <3>2, SettledKept
    <2>4. QED BY <2>1, <2>2, <2>3
  <1>2. QED BY <1>1 DEF Settled

LEMMA CreatePrio ==
    ASSUME KInv, KInv', EInv, PInv, current \in Thread, NEW t \in Thread, NEW p, NEW det,
           OSCreateThread(current, t, p, det)
    PROVE  PInv'
  <1>1. /\ MayCall(current) /\ current # NULL /\ Unreferenced(t)
        /\ state' = [state EXCEPT ![t] = "READY"] /\ base' = [base EXCEPT ![t] = p]
        /\ priority' = [priority EXCEPT ![t] = p] /\ suspend' = [suspend EXCEPT ![t] = 1]
        /\ mutex' = [mutex EXCEPT ![t] = NULL] /\ owner' = owner /\ queue' = queue
        /\ stack' = [stack EXCEPT ![t] = << >>]
    BY Constants DEF OSCreateThread
  <1>2. Nested /\ Shapes /\ Settled /\ Sleeps /\ Bare /\ AtRest
    BY <1>1, CallRest DEF EInv, PInv
  <1>3. state[t] = "EXITED" /\ t \in Context
    BY <1>1 DEF Unreferenced, Context
  <1>4. /\ state'[t] = "READY" /\ suspend'[t] = 1 /\ stack'[t] = << >>
        /\ \A u \in Thread \ {t} :
              /\ state'[u] = state[u] /\ base'[u] = base[u] /\ priority'[u] = priority[u]
              /\ suspend'[u] = suspend[u] /\ mutex'[u] = mutex[u] /\ stack'[u] = stack[u]
    BY <1>1, <1>3 DEF KInv, TypeOK
  <1>5. Shapes'
    BY <1>2, CreateShapes
  <1>6. Bare'
    BY <1>2, <1>3, <1>4, BareStep, Tails
  <1>7. \A u \in Thread : SleepOK(u)'
    <2>1. SleepOK(t)'
      BY <1>4 DEF SleepOK
    <2>2. ASSUME NEW u \in Thread \ {t} PROVE SleepOK(u)'
      BY <1>1, <1>2, <1>4, CallsSleep
    <2>3. QED BY <2>1, <2>2
  <1>8. ASSUME NEW x \in Thread, Live(x)' PROVE SettledOne(x)'
    <2>1. x # t
      BY <1>4, <1>8 DEF Live
    <2>2. Live(x)
      BY <1>4, <1>8, <2>1 DEF Live, Dead
    <2>3. \A u \in Thread : u \in Lenders(x)' <=> u \in Lenders(x)
      BY <1>1, <1>2, <1>3, <1>4, <1>6, BareLenders DEF SleepsFor
    <2>4. \A u \in Lenders(x) : priority'[u] = priority[u]
      <3>1. ~SleepsFor(t, x)
        BY <1>3 DEF SleepsFor
      <3>2. t \notin Lenders(x)
        BY <1>2, <1>6, <3>1, BareLenders
      <3>3. QED BY <1>4, <3>2 DEF Lenders
    <2>5. QED BY <1>2, <1>4, <1>8, <2>1, <2>2, <2>3, <2>4, SettledKept
  <1>9. QED BY <1>5, <1>7, <1>8 DEF PInv, Sleeps, Settled

LEMMA SuspendPrio ==
    ASSUME KInv, KInv', EInv, PInv, current \in Thread, NEW t \in Thread, OSSuspendThread(current, t)
    PROVE  PInv'
  <1>1. /\ MayCall(current) /\ current # NULL /\ suspend' = [suspend EXCEPT ![t] = @ + 1]
        /\ base' = base /\ mutex' = mutex /\ owner' = owner /\ current' = current
    BY Constants DEF OSSuspendThread, mutexVars
  <1>2. Nested /\ Shapes /\ Settled /\ Sleeps /\ Bare /\ AtRest
    BY <1>1, CallRest DEF EInv, PInv
  <1>3. suspend'[t] > 0 /\ suspend'[t] # 0 /\ \A u \in Thread \ {t} : suspend'[u] = suspend[u]
    <2>1. suspend'[t] = suspend[t] + 1 /\ suspend[t] \in Nat
      BY <1>1, StateTypes DEF KInv, TypeOK
    <2>2. QED BY <1>1, <2>1 DEF KInv, TypeOK
  <1>4. CASE state[t] = "SLEEPING" /\ suspend[t] = 0
    <2>1. /\ priority' = [priority EXCEPT ![t] = SuspendedPriority] /\ state' = state
          /\ Enter(current, UpdateOwner(t) \o <<Reschedule>>) /\ queue' = queue
      BY <1>4 DEF OSSuspendThread
    <2>2. Reschedule \in Frame /\ Reschedule.fn = "__OSReschedule"
      BY FrameIntro
    <2>3. \A u \in Thread : Dead(u) <=> Dead(u)'
      BY <2>1 DEF Dead
    <2>4. /\ Shapes' /\ Bare'
          /\ mutex[t] # NULL => Running("UpdatePriority")' /\ Arg' = owner[mutex[t]]
      BY <1>1, <1>2, <2>1, <2>2, <2>3, OwnerEnters
    <2>5. priority'[t] = SuspendedPriority /\ \A u \in Thread \ {t} : priority'[u] = priority[u]
      BY <2>1 DEF KInv, TypeOK
    <2>6. \A u \in Thread : SleepOK(u)'
      <3>1. SleepOK(t)'
        <4>1. ~Cancelling(t) /\ SleepOK(t)
          BY <1>1, <1>2, CallFacts DEF Sleeps
        <4>2. SuspendedPriority' = SuspendedPriority
          BY DEF SuspendedPriority
        <4>3. QED BY <1>1, <1>4, <2>1, <2>5, <4>1, <4>2 DEF SleepOK
      <3>2. ASSUME NEW u \in Thread \ {t} PROVE SleepOK(u)'
        BY <1>1, <1>2, <1>3, <2>1, <2>5, CallsSleep
      <3>3. QED BY <3>1, <3>2
    <2>7. ~Live(t)'
      BY <1>3 DEF Live
    <2>8. \A u \in Thread \ {t} : priority'[u] = priority[u] /\ (Live(u)' => Live(u))
      BY <1>3, <2>3, <2>5 DEF Live
    <2>9. \A u, x \in Thread : SleepsFor(u, x)' <=> SleepsFor(u, x)
      BY <1>1, <2>1 DEF SleepsFor
    <2>10. Settled'
      BY <1>1, <1>2, <2>4, <2>7, <2>8, <2>9, OwnerSettled
    <2>11. QED BY <2>4, <2>6, <2>10 DEF PInv, Sleeps
  <1>5. CASE ~(state[t] = "SLEEPING" /\ suspend[t] = 0)
    <2>1. /\ priority' = priority
          /\ stack' = stack \/ Enter(current, <<Reschedule>>)
          /\ state' = state \/ (state[t] # "SLEEPING" /\ state' = [state EXCEPT ![t] = "READY"])
          /\ ~Dead(t) \/ state' = state
          /\ state[t] = "SLEEPING" => suspend[t] > 0 /\ state' = state
          /\ queue' = queue \/ (state[t] # "SLEEPING" /\ queue' = [queue EXCEPT ![t] = NULL])
      BY <1>5, StateTypes DEF OSSuspendThread, UnsetRun, Dead, KInv
    <2>2. \A u \in Thread : /\ Dead(u) => Dead(u)'
                            /\ state'[u] = "SLEEPING" <=> state[u] = "SLEEPING"
      BY <2>1 DEF Dead, KInv, TypeOK
    <2>3. ASSUME NEW u \in Thread PROVE SleepOK(u)'
      <3>1. state[u] = "SLEEPING" => queue'[u] = queue[u]
        BY <2>1 DEF KInv, TypeOK
      <3>2. state[u] = "SLEEPING" /\ suspend'[u] > 0 => suspend[u] > 0
        BY <1>3, <2>1
      <3>3. QED BY <1>1, <1>2, <2>1, <2>2, <3>1, <3>2, CallsSleep
    <2>4. \A u, x \in Thread : SleepsFor(u, x)' <=> SleepsFor(u, x)
      BY <1>1, <2>2 DEF SleepsFor
    <2>5. \A u \in Thread : suspend'[u] = 0 => suspend[u] = 0
      BY <1>3
    <2>6. stack' = stack \/ \E fs \in Seq(Frame) : Enter(current, fs) /\ QuietFrames(fs)
      BY <2>1, QuietReschedule
    <2>7. QED BY <1>1, <2>1, <2>2, <2>3, <2>4, <2>5, <2>6, CallQuiet
  <1>6. QED BY <1>4, <1>5

(* What nobody but t changes, t may still claim.                           *)
LEMMA OwnClaims ==
    ASSUME KInv, KInv', Shapes, Bare, Bare', base' = base, NEW t \in Thread,
           \A u \in Thread \ {t} : priority'[u] = priority[u],
           \A u, x \in Thread : SleepsFor(u, x)' <=> SleepsFor(u, x)
    PROVE  Claims(t)' = Claims(t)
  <1>1. Lenders(t)' = Lenders(t)
    BY BareLenders DEF Lenders
  <1>2. \A u \in Lenders(t) : u \in Thread /\ u # t
    BY LenderFacts
  <1>3. \A u \in Lenders(t) : priority'[u] = priority[u]
    BY <1>2
  <1>4. QED BY <1>1, <1>3 DEF Claims

(* A sleeper does not wait for a mutex it owns itself.                     *)
LEMMA OwnQueue ==
    ASSUME KInv, Shapes, Sleeps, Bare, NEW t \in Thread, state[t] = "SLEEPING"
    PROVE  queue[t] \notin ToSet(held[t]) /\ queue[t] \in WaitQueue
  <1>1. ~Cancelling(t) /\ LendsOn(t)
    BY BareLends
  <1>2. queue[t] \in WaitQueue
    BY <1>1, SleeperIn DEF KInv
  <1>3. SUFFICES ASSUME queue[t] \in ToSet(held[t]) PROVE FALSE
    BY <1>2
  <1>4. queue[t] \in Mutex
    BY <1>3, StateTypes DEF KInv, ToSet
  <1>5. owner[queue[t]] = t
    BY <1>3, <1>4 DEF KInv, MutexConsistent
  <1>6. mutex[t] = queue[t] /\ mutex[t] # NULL
    BY <1>1, <1>4, Constants DEF Sleeps, SleepOK
  <1>7. t \in Lenders(t)
    BY <1>1, <1>5, <1>6 DEF Lenders
  <1>8. QED BY <1>7, LenderFacts

LEMMA SameEffective ==
    ASSUME NEW t, NEW ms, NEW v, NEW w, \A m \in ToSet(ms) : v[m] = w[m]
    PROVE  EffectivePriority(t, ms, v) = EffectivePriority(t, ms, w)
  <1>1. {priority[Head(v[m])] : m \in {n \in ToSet(ms) : v[n] # << >>}}
          = {priority[Head(w[m])] : m \in {n \in ToSet(ms) : w[n] # << >>}}
    OBVIOUS
  <1>2. QED BY <1>1 DEF EffectivePriority

LEMMA ResumePrio ==
    ASSUME KInv, KInv', EInv, PInv, NEW c \in {current, Isr}, c # NULL, NEW t \in Thread,
           OSResumeThread(c, t)
    PROVE  PInv'
  <1>1. /\ MayCall(c) /\ suspend[t] > 0 /\ suspend' = [suspend EXCEPT ![t] = @ - 1]
        /\ base' = base /\ mutex' = mutex /\ owner' = owner /\ current' = current
        /\ state' = state
    BY DEF OSResumeThread, mutexVars
  <1>2. Nested /\ Shapes /\ Settled /\ Sleeps /\ Bare /\ AtRest /\ \A u \in Thread : ~Cancelling(u)
    BY <1>1, CallRest, CallFacts DEF EInv, PInv
  <1>3. /\ suspend[t] \in Nat /\ suspend'[t] = suspend[t] - 1
        /\ \A u \in Thread \ {t} : suspend'[u] = suspend[u]
    BY <1>1, StateTypes DEF KInv, TypeOK
  <1>4. /\ \A u \in Thread : Dead(u) <=> Dead(u)'
        /\ \A u, x \in Thread : SleepsFor(u, x)' <=> SleepsFor(u, x)
    BY <1>1 DEF Dead, SleepsFor
  <1>5. CASE suspend[t] > 1
    <2>1. priority' = priority /\ queue' = queue /\ stack' = stack
      BY <1>3, <1>5 DEF OSResumeThread
    <2>2. \A u \in Thread : suspend'[u] = 0 => suspend[u] = 0
      BY <1>3, <1>5
    <2>3. \A u \in Thread : suspend'[u] > 0 => suspend[u] > 0
      BY <1>1, <1>3
    <2>4. \A u \in Thread : SleepOK(u)'
      BY <1>1, <1>2, <2>1, <2>3, CallsSleep
    <2>5. QED BY <1>1, <1>4, <2>1, <2>2, <2>4, CallQuiet
  <1>6. CASE suspend[t] = 1 /\ state[t] # "SLEEPING"
    <2>1. state[t] # "RUNNING"
      BY <1>6 DEF KInv, RunningOne
    <2>2. CASE Dead(t)
      <3>1. priority' = priority /\ queue' = queue /\ Enter(c, <<Reschedule>>)
        BY <1>6, <2>2 DEF OSResumeThread, Dead
      <3>2. \A u \in Thread : suspend'[u] > 0 => suspend[u] > 0
        BY <1>1, <1>3
      <3>3. \A u \in Thread : SleepOK(u)'
        BY <1>1, <1>2, <3>1, <3>2, CallsSleep
      <3>4. Shapes'
        BY <1>1, <1>2, <1>4, <3>1, QuietReschedule, CallShapes DEF QuietFrames
      <3>5. Bare'
        BY <1>1, <3>1, QuietReschedule, EnterBare DEF QuietFrames
      <3>6. ~Live(t)'
        BY <1>4, <2>2 DEF Live
      <3>7. \A u \in Thread \ {t} : priority'[u] = priority[u] /\ (Live(u)' => Live(u))
        BY <1>3, <1>4, <3>1 DEF Live
      <3>8. Settled'
        BY <1>1, <1>2, <1>4, <1>6, <3>5, <3>6, <3>7, OwnerSettled
      <3>9. QED BY <3>3, <3>4, <3>8 DEF PInv, Sleeps
    <2>3. CASE state[t] = "READY"
      <3> DEFINE p == EffectivePriority(t, held[t], waiters)
      <3>1. /\ priority' = [priority EXCEPT ![t] = p] /\ SetRun(t, p) /\ Enter(c, <<Reschedule>>)
        BY <1>6, <2>3 DEF OSResumeThread
      <3>2. Least(p, Claims(t))
        BY <1>2, BareUnslept, EffectiveClaims
      <3> HIDE DEF p
      <3>3. priority'[t] = p /\ (\A u \in Thread \ {t} : priority'[u] = priority[u])
        BY <3>1 DEF KInv, TypeOK
      <3>4. \A u \in Thread \ {t} : queue'[u] = queue[u]
        BY <3>1 DEF SetRun, KInv, TypeOK
      <3>5. \A u \in Thread : SleepOK(u)'
        <4>1. SleepOK(t)'
          BY <1>1, <2>3 DEF SleepOK
        <4>2. ASSUME NEW u \in Thread \ {t} PROVE SleepOK(u)'
          BY <1>1, <1>2, <1>3, <3>3, <3>4, CallsSleep
        <4>3. QED BY <4>1, <4>2
      <3>6. Shapes'
        BY <1>1, <1>2, <1>4, <3>1, QuietReschedule, CallShapes DEF QuietFrames
      <3>7. Bare'
        BY <1>1, <3>1, QuietReschedule, EnterBare DEF QuietFrames
      <3>8. SettledOne(t)'
        <4>1. Claims(t)' = Claims(t)
          BY <1>1, <1>2, <1>4, <3>3, <3>7, OwnClaims
        <4>2. Least(priority[t], Claims(t))'
          BY <3>2, <3>3, <4>1 DEF Least
        <4>3. QED BY <4>2 DEF SettledOne
      <3>9. \A u \in Thread \ {t} : priority'[u] = priority[u] /\ (Live(u)' => Live(u))
        BY <1>3, <1>4, <3>3 DEF Live
      <3>10. Settled'
        BY <1>1, <1>2, <1>4, <2>3, <3>7, <3>8, <3>9, OwnerSettled
      <3>11. QED BY <3>5, <3>6, <3>10 DEF PInv, Sleeps
    <2>4. QED BY <1>6, <2>1, <2>2, <2>3, StateTypes DEF KInv, Dead
  <1>7. CASE suspend[t] = 1 /\ state[t] = "SLEEPING"
    <2> DEFINE w == [waiters EXCEPT ![queue[t]] = Without(waiters[queue[t]], t)]
               p == EffectivePriority(t, held[t], w)
    <2>1. /\ priority' = [priority EXCEPT ![t] = p] /\ queue' = queue
          /\ Enter(c, UpdateOwner(t) \o <<Reschedule>>)
      BY <1>7 DEF OSResumeThread
    <2>2. p = EffectivePriority(t, held[t], waiters)
      <3>1. queue[t] \notin ToSet(held[t])
        BY <1>2, <1>7, OwnQueue
      <3>2. \A m \in ToSet(held[t]) : m \in WaitQueue
        BY StateTypes, Constants DEF KInv, ToSet
      <3>3. \A m \in ToSet(held[t]) : w[m] = waiters[m]
        BY <3>1, <3>2 DEF KInv, TypeOK
      <3> HIDE DEF w
      <3>4. QED BY <3>3, SameEffective
    <2> HIDE DEF w, p
    <2>3. Least(p, Claims(t))
      BY <1>2, <2>2, BareUnslept, EffectiveClaims
    <2>4. priority'[t] = p /\ (\A u \in Thread \ {t} : priority'[u] = priority[u])
      BY <2>1 DEF KInv, TypeOK
    <2>5. Reschedule \in Frame /\ Reschedule.fn = "__OSReschedule"
      BY FrameIntro
    <2>6. /\ Shapes' /\ Bare'
          /\ mutex[t] # NULL => Running("UpdatePriority")' /\ Arg' = owner[mutex[t]]
      BY <1>1, <1>2, <1>4, <2>1, <2>5, OwnerEnters
    <2>7. \A u \in Thread : SleepOK(u)'
      <3>1. suspend'[t] = 0
        BY <1>3, <1>7
      <3>2. SleepOK(t)'
        BY <1>1, <1>2, <2>1, <3>1, CallsSleep
      <3>3. ASSUME NEW u \in Thread \ {t} PROVE SleepOK(u)'
        BY <1>1, <1>2, <1>3, <2>1, <2>4, CallsSleep
      <3>4. QED BY <3>2, <3>3
    <2>8. SettledOne(t)'
      <3>1. Claims(t)' = Claims(t)
        BY <1>1, <1>2, <1>4, <2>4, <2>6, OwnClaims
      <3>2. Least(priority[t], Claims(t))'
        BY <2>3, <2>4, <3>1 DEF Least
      <3>3. QED BY <3>2 DEF SettledOne
    <2>9. \A u \in Thread \ {t} : priority'[u] = priority[u] /\ (Live(u)' => Live(u))
      BY <1>3, <1>4, <2>4 DEF Live
    <2>10. Settled'
      BY <1>1, <1>2, <1>4, <2>6, <2>8, <2>9, OwnerSettled
    <2>11. QED BY <2>6, <2>7, <2>10 DEF PInv, Sleeps
  <1>8. QED BY <1>1, <1>3, <1>5, <1>6, <1>7

LEMMA CancelPrio ==
    ASSUME KInv, KInv', EInv, PInv, current \in Thread, NEW t \in Thread, OSCancelThread(current, t)
    PROVE  PInv'
  <1> DEFINE ct == F("CancelTail", t)
  <1>1. /\ MayCall(current) /\ current # NULL /\ state' = state /\ suspend' = suspend
        /\ base' = base /\ priority' = priority /\ mutex' = mutex /\ owner' = owner /\ lock' = lock
        /\ current' = current
    BY Constants DEF OSCancelThread, mutexVars
  <1>2. /\ Nested /\ Shapes /\ Settled /\ Sleeps /\ Bare /\ AtRest /\ Stacked
        /\ \A u \in Thread : ~Cancelling(u)
    BY <1>1, CallRest, CallFacts DEF EInv, PInv
  <1>3. /\ \A u \in Thread \ {t} : queue'[u] = queue[u]
        /\ \/ state[t] \in {"READY", "RUNNING"} /\ Enter(current, <<ct>>)
           \/ state[t] = "SLEEPING" /\ queue'[t] = NULL /\ suspend[t] > 0 /\ Enter(current, << >> \o <<ct>>)
           \/ /\ state[t] = "SLEEPING" /\ queue'[t] = NULL /\ suspend[t] = 0
              /\ Enter(current, UpdateOwner(t) \o <<ct>>)
        /\ ~Dead(t) /\ (state[t] = "RUNNING" => hint')
    <2>1. suspend[t] \in Nat
      BY StateTypes DEF KInv
    <2>2. CASE state[t] = "READY"
      <3>1. queue' = queue \/ queue' = [queue EXCEPT ![t] = NULL]
        BY <2>2 DEF OSCancelThread, UnsetRun
      <3>2. QED BY <2>2, <3>1 DEF OSCancelThread, Dead, KInv, TypeOK
    <2>3. CASE state[t] = "RUNNING"
      BY <2>3 DEF OSCancelThread, Dead, KInv, TypeOK
    <2>4. CASE state[t] = "SLEEPING"
      <3>1. queue' = [queue EXCEPT ![t] = NULL]
        BY <2>4 DEF OSCancelThread
      <3>2. Enter(current, (IF suspend[t] <= 0 THEN UpdateOwner(t) ELSE << >>) \o <<ct>>)
        BY <2>4 DEF OSCancelThread
      <3>3. queue'[t] = NULL /\ \A u \in Thread \ {t} : queue'[u] = queue[u]
        BY <3>1 DEF KInv, TypeOK
      <3>4. ~Dead(t) /\ state[t] # "RUNNING"
        BY <2>4 DEF Dead
      <3>5. CASE suspend[t] <= 0
        <4>1. suspend[t] = 0 /\ Enter(current, UpdateOwner(t) \o <<ct>>)
          BY <2>1, <3>2, <3>5
        <4>2. QED BY <2>4, <3>3, <3>4, <4>1
      <3>6. CASE ~(suspend[t] <= 0)
        <4>1. suspend[t] > 0 /\ Enter(current, << >> \o <<ct>>)
          BY <2>1, <3>2, <3>6
        <4>2. QED BY <2>4, <3>3, <3>4, <4>1
      <3>7. QED BY <3>5, <3>6
    <2>5. QED BY <2>2, <2>3, <2>4 DEF OSCancelThread
  <1>4. PICK s \in Seq(Frame) :
           /\ Enter(current, s) /\ Good(s) /\ ct \in ToSet(s)
           /\ \A f \in ToSet(s) : \/ f = ct
                                  \/ f.fn = "UpdatePriority" /\ state[t] = "SLEEPING" /\ queue'[t] = NULL
    <2>1. LET r == UpdateOwner(t) \o <<ct>> IN
          /\ r \in Seq(Frame) /\ Good(r) /\ ct \in ToSet(r)
          /\ \A f \in ToSet(r) : f = ct \/ f.fn = "UpdatePriority"
          /\ <<ct>> \in Seq(Frame) /\ Good(<<ct>>) /\ ToSet(<<ct>>) = {ct}
          /\ << >> \o <<ct>> = <<ct>>
      BY CancelFrames DEF KInv
    <2>2. QED BY <1>3, <2>1
  <1>5. ct \in Frame /\ ct.fn = "CancelTail"
    BY FrameIntro
  <1>6. \A u \in Thread : Cancelling(u)' <=> u = t
    <2>1. t = current => hint'
      BY <1>1, <1>3, CallFacts
    <2>2. PICK x : x = ct
      OBVIOUS
    <2>3. QED BY <1>1, <1>3, <1>4, <2>1, <2>2, CancelEnters
  <1>7. \A u \in Thread : Dead(u) <=> Dead(u)'
    BY <1>1 DEF Dead
  <1>8. /\ Shapes'
        /\ state[t] = "SLEEPING" /\ suspend[t] = 0 /\ mutex[t] # NULL =>
              Running("UpdatePriority")' /\ Arg' = owner[mutex[t]]
    <2>1. CASE Enter(current, <<ct>>) /\ ~(state[t] = "SLEEPING" /\ suspend[t] = 0)
      <3>1. PICK e \in Frame : e = ct
        BY <1>5
      <3>2. <<e>> \in Seq(Frame) /\ ToSet(<<e>>) = {e} /\ Head(<<e>>) = e /\ Tail(<<e>>) = << >>
            /\ ToSet(<< >>) = {}
        BY Stacks, Tails
      <3>3. Shapes'
        BY <1>1, <1>2, <1>5, <1>7, <2>1, <3>1, <3>2, CallShapes DEF WakesMutex
      <3>4. QED BY <2>1, <3>3
    <2>2. CASE Enter(current, UpdateOwner(t) \o <<ct>>)
      <3>1. PICK e \in Frame : e = ct
        BY <1>5
      <3>2. QED BY <1>1, <1>2, <1>5, <1>7, <2>2, <3>1, OwnerEnters
    <2>3. << >> \o <<ct>> = <<ct>>
      OBVIOUS
    <2>4. QED BY <1>3, <2>1, <2>2, <2>3
  <1>9. \A u \in Thread : SleepOK(u)'
    <2>1. SleepOK(t)'
      BY <1>1, <1>2, <1>6 DEF Sleeps, SleepOK, SuspendedPriority
    <2>2. ASSUME NEW u \in Thread \ {t} PROVE SleepOK(u)'
      BY <1>1, <1>2, <1>3, CallsSleep
    <2>3. QED BY <2>1, <2>2
  <1>10. \A u \in Thread : LendsOn(u)' <=> state[u] = "SLEEPING" /\ u # t
    <2>1. \A u \in Thread : \A f \in ToSet(stack'[u]) : f.fn # "LockSleep"
      <3>1. stack' = [stack EXCEPT ![current] = s]
        BY <1>1, <1>4, Constants DEF Enter
      <3>2. \A f \in ToSet(s) : f.fn # "LockSleep"
        BY <1>4, <1>5
      <3>3. QED BY <1>2, <3>1, <3>2 DEF Bare, Stacked, Context
    <2>2. QED BY <1>1, <1>6, <2>1 DEF LendsOn
  <1>11. \A u \in Thread : LendsOn(u) <=> state[u] = "SLEEPING"
    BY <1>2, BareLends
  <1>12. ASSUME NEW x \in Thread, Live(x)' PROVE SettledOne(x)'
    <2>1. Live(x)
      BY <1>1, <1>7, <1>12 DEF Live
    <2>2. CASE t \notin Lenders(x)
      <3>1. \A u \in Thread : u \in Lenders(x)' <=> u \in Lenders(x)
        BY <1>1, <1>10, <1>11, <2>2 DEF Lenders
      <3>2. QED BY <1>1, <1>2, <1>12, <2>1, <3>1, SettledKept
    <2>3. CASE t \in Lenders(x) /\ suspend[t] = 0
      <3>1. state[t] = "SLEEPING" /\ mutex[t] # NULL /\ owner[mutex[t]] = x
        BY <1>11, <2>3 DEF Lenders
      <3>2. QED BY <1>8, <2>3, <3>1 DEF SettledOne
    <2>4. CASE t \in Lenders(x) /\ suspend[t] # 0
      <3>1. priority[t] = OS_PRIORITY_MAX + 1
        <4>1. suspend[t] > 0
          BY <2>4, StateTypes DEF KInv
        <4>2. QED BY <1>2, <1>11, <2>4, <4>1 DEF Lenders, Sleeps, SleepOK, SuspendedPriority
      <3>2. Least(priority[x], Claims(x))
        BY <1>2, <2>1 DEF Settled, SettledOne, AtRest
      <3>3. base[x] \in Nat /\ base[x] <= OS_PRIORITY_MAX /\ OS_PRIORITY_MAX \in Nat /\ priority[x] \in Nat
        BY StateTypes, Constants DEF KInv, Priority
      <3>4. Lenders(x)' = Lenders(x) \ {t}
        BY <1>1, <1>10, <1>11 DEF Lenders
      <3>5. priority[x] # priority[t]
        <4>1. priority[x] <= base[x]
          BY <3>2 DEF Least, Claims
        <4>2. QED BY <3>1, <3>3, <4>1
      <3>6. Claims(x)' = {base[x]} \cup {priority[u] : u \in Lenders(x) \ {t}}
        BY <1>1, <3>4 DEF Claims
      <3>7. Claims(x)' \subseteq Claims(x) /\ priority[x] \in Claims(x)'
        BY <3>2, <3>5, <3>6 DEF Claims, Least
      <3>8. Least(priority[x], Claims(x))'
        BY <1>1, <3>2, <3>7 DEF Least
      <3>9. QED BY <3>8 DEF SettledOne
    <2>5. QED BY <2>2, <2>3, <2>4
  <1>13. QED BY <1>8, <1>9, <1>12 DEF PInv, Sleeps, Settled

(* A step of the running frame that leaves who lends, and to whom, alone.  *)
LEMMA LentKept ==
    ASSUME Settled, AtRest, base' = base, priority' = priority, mutex' = mutex,
           \A t \in Thread : Live(t)' => Live(t),
           \A u \in Thread : LendsOn(u)' <=> LendsOn(u),
           \A m \in Mutex, t \in Thread : Live(t) => (owner'[m] = t <=> owner[m] = t),
           \A u \in Thread : mutex[u] \in Mutex \cup {NULL}
    PROVE  Settled'
  <1>1. SUFFICES ASSUME NEW t \in Thread, Live(t)' PROVE SettledOne(t)'
    BY DEF Settled
  <1>2. ASSUME NEW u \in Thread PROVE u \in Lenders(t)' <=> u \in Lenders(t)
    <2>1. Live(t)
      BY <1>1
    <2>2. CASE mutex[u] = NULL
      BY <2>2 DEF Lenders
    <2>3. CASE mutex[u] # NULL
      <3>1. mutex[u] \in Mutex /\ mutex'[u] = mutex[u]
        BY <2>3
      <3>2. owner'[mutex[u]] = t <=> owner[mutex[u]] = t
        BY <2>1, <3>1
      <3>3. QED BY <3>1, <3>2 DEF Lenders
    <2>4. QED BY <2>2, <2>3
  <1>3. QED BY <1>1, <1>2, SettledKept

LEMMA CancelTailPrio == ASSUME KInv, KInv', EInv, PInv, CancelTail PROVE PInv'
  <1>1. /\ Running("CancelTail") /\ Die(Arg) /\ Become(TearDown(Arg) \o <<Reschedule>>)
        /\ base' = base /\ priority' = priority /\ suspend' = suspend /\ queue' = queue
        /\ mutex' = mutex /\ owner' = owner /\ current' = current
    BY DEF CancelTail, mutexVars
  <1>2. "CancelTail" \notin Inner /\ "CancelTail" \notin IsrFrames /\ "CancelTail" \notin Teardown
    BY DEF Inner, IsrFrames, Teardown
  <1>3. /\ current \in Thread /\ Cpu = current /\ stack[Isr] = << >> /\ Stacked /\ StackInv
        /\ stack[current] # << >> /\ Tail(stack[current]) = << >>
        /\ Head(stack[current]) \in Frame /\ Head(stack[current]).fn = "CancelTail"
        /\ ToSet(stack[current]) = {Head(stack[current])} /\ Arg = Head(stack[current]).arg
        /\ \A fs \in Seq(Frame) : Become(fs) => stack' = [stack EXCEPT ![current] = fs]
    BY <1>1, <1>2, StateTypes, Outermost, ThreadTurn DEF KInv
  <1>4. PICK c \in Thread, h \in Frame : c = current /\ h = Head(stack[current])
    BY <1>3
  <1>5. PICK t \in Thread : t = Arg /\ t = h.arg
    BY <1>3, <1>4, FrameFacts
  <1>6. PICK a \in Frame, b \in Frame, e \in Frame :
           /\ a = F("__OSUnlockAllMutex", t) /\ b = F("OSWakeupThread", t) /\ e = Reschedule
    BY Constants, FrameIntro
  <1>7. /\ a.fn = "__OSUnlockAllMutex" /\ a.arg = t /\ b.fn = "OSWakeupThread" /\ b.arg = t
        /\ e.fn = "__OSReschedule"
    BY <1>6, FrameIntro
  <1>8. PICK s : s = <<a, b, e>>
    OBVIOUS
  <1>9. /\ s \in Seq(Frame) /\ ToSet(s) = {a, b, e} /\ Head(s) = a /\ ToSet(Tail(s)) = {b, e}
    BY <1>8, Triple
  <1>10. stack' = [stack EXCEPT ![c] = s]
    <2>1. TearDown(t) \o <<e>> = s
      BY <1>6, <1>8, TornFrames
    <2>2. QED BY <1>1, <1>3, <1>4, <1>5, <1>6, <1>9, <2>1
  <1>11. Nested /\ Shapes /\ Settled /\ Sleeps /\ AtRest
    <2>1. AtRest
      BY <1>3 DEF AtRest, Running
    <2>2. QED BY <2>1 DEF EInv, PInv
  <1>12. /\ Dead(t)' /\ \A u \in Thread \ {t} : state'[u] = state[u]
         /\ \A u \in Thread : Dead(u) => Dead(u)'
    BY <1>1, <1>5, DieStates
  <1>13. Shapes'
    <2>1. ~WakesMutex(a) /\ ~WakesMutex(b) /\ ~WakesMutex(e)
      BY <1>7, Disciplines DEF WakesMutex
    <2>2. ToSet(Tail(stack[Cpu])) = {}
      BY <1>3, Tails
    <2>3. Head(stack[Cpu]).fn = "CancelTail" /\ Cpu # NULL /\ stack[Cpu] # << >>
          /\ stack' = [stack EXCEPT ![Cpu] = s]
      BY <1>3, <1>4, <1>10, Constants
    <2>4. \A f \in ToSet(s) : \/ f.fn \in {"OSWakeupThread", "__OSReschedule"}
                              \/ f.fn = "__OSUnlockAllMutex" /\ Dead(f.arg)'
      BY <1>7, <1>9, <1>12
    <2>5. /\ \A f \in ToSet(Tail(s)) : f.fn # "UpdatePriority" /\ ~WakesMutex(f)
          /\ ~WakesMutex(Head(s)) /\ Head(s).fn # "UpdatePriority"
      BY <1>7, <1>9, <2>1
    <2>6. QED BY <1>1, <1>9, <1>11, <1>12, <2>2, <2>3, <2>4, <2>5, TurnShapes
  <1>14. Bare'
    <2>1. ASSUME NEW d \in Thread, NEW f \in ToSet(stack'[d]) PROVE f.fn \notin {"LockSleep", "CancelTail"}
      <3>1. CASE d = c
        BY <1>3, <1>4, <1>7, <1>9, <1>10, <3>1 DEF Stacked, Context
      <3>2. CASE d # c
        BY <1>3, <1>4, <1>10, <3>2 DEF Stacked, Context, StackInv, Locks, Cancels
      <3>3. QED BY <3>1, <3>2
    <2>2. QED BY <2>1 DEF Bare
  <1>15. \A u \in Thread : ~Cancelling(u)' /\ (LendsOn(u)' <=> state'[u] = "SLEEPING")
    BY <1>14, BareLendsNext
  <1>16. \A u \in Thread : Cancelling(u) <=> u = t
    <2>1. \A u \in Thread : Cancelling(u) <=>
            \E d \in Context : \E f \in ToSet(stack[d]) : f.fn = "CancelTail" /\ f.arg = u
      BY DEF Cancelling, Pending, ToSet
    <2>2. Cancelling(t)
      BY <1>3, <1>4, <1>5, <2>1 DEF Context
    <2>3. ASSUME NEW u \in Thread, Cancelling(u) PROVE u = t
      <3>1. PICK d \in Context : \E f \in ToSet(stack[d]) : f.fn = "CancelTail" /\ f.arg = u
        BY <2>1, <2>3
      <3>2. PICK f \in ToSet(stack[d]) : f.fn = "CancelTail" /\ f.arg = u
        BY <3>1
      <3>3. d # Isr
        BY <1>3, <3>2 DEF StackInv, Frames, IsrFrames, Context
      <3>4. d = current
        BY <1>3, <3>2, <3>3 DEF StackInv, Cancels, Context
      <3>5. QED BY <1>3, <1>4, <1>5, <3>2, <3>4
    <2>4. QED BY <2>2, <2>3
  <1>17. \A u \in Thread : \A f \in ToSet(stack[u]) : f.fn # "LockSleep"
    BY <1>3 DEF StackInv, Locks
  <1>18. \A u \in Thread : LendsOn(u)' <=> LendsOn(u)
    BY <1>12, <1>15, <1>16, <1>17 DEF LendsOn, Dead
  <1>19. Sleeps'
    <2>1. ASSUME NEW u \in Thread PROVE SleepOK(u)'
      <3>1. CASE u = t
        BY <1>12, <3>1 DEF SleepOK, Dead
      <3>2. CASE u # t
        BY <1>1, <1>11, <1>12, <1>16, <3>2 DEF Sleeps, SleepOK, SuspendedPriority
      <3>3. QED BY <3>1, <3>2
    <2>2. QED BY <2>1 DEF Sleeps
  <1>20. Settled'
    <2>1. \A u \in Thread : Live(u)' => Live(u)
      BY <1>1, <1>12 DEF Live
    <2>2. \A u \in Thread : mutex[u] \in Mutex \cup {NULL}
      BY StateTypes DEF KInv
    <2>3. QED BY <1>1, <1>11, <1>18, <2>1, <2>2, LentKept
  <1>21. QED BY <1>13, <1>19, <1>20 DEF PInv

(* What thread c, awake, may claim, in terms of the queues of its mutexes. *)
LEMMA AskedClaims ==
    ASSUME KInv, Sleeps, Bare', KInv', NEW c \in Thread, state[c] # "SLEEPING",
           \A u \in Thread : ~Cancelling(u),
           UNCHANGED <<state, base, mutex, waiters>>,
           \A u \in Thread \ {c} : priority'[u] = priority[u],
           NEW l \in Seq(Mutex), \A n \in Mutex : owner'[n] = c <=> n \in ToSet(l)
    PROVE  /\ Claims(c)' = {base[c]} \cup {priority[u] : u \in {v \in Thread : \E n \in ToSet(l) :
                                                                        v \in ToSet(waiters[n])}}
           /\ Least(EffectivePriority(c, l, waiters), Claims(c)')
  <1> DEFINE asked == {v \in Thread : \E n \in ToSet(l) : v \in ToSet(waiters[n])}
  <1>1. TypeOK /\ waiters \in [WaitQueue -> Seq(Thread)]
        /\ \A u \in Thread : mutex[u] \in Mutex \cup {NULL}
    BY StateTypes DEF KInv, TypeOK
  <1>2. NULL \notin Mutex /\ \A n \in ToSet(l) : n \in Mutex /\ n \in WaitQueue
    BY Constants DEF ToSet
  <1>3. \A n \in ToSet(l) : Ordered(waiters[n], priority)
    BY <1>2 DEF KInv, WaitersSorted, Ordered
  <1>4. Least(EffectivePriority(c, l, waiters), {base[c]} \cup {priority[u] : u \in asked})
    BY <1>1, <1>3, EffectiveLeast
  <1>5. \A n \in Mutex, v \in Thread :
           v \in ToSet(waiters[n]) <=> state[v] = "SLEEPING" /\ mutex[v] = n
    BY WaitersNote
  <1>6. \A u \in Thread : LendsOn(u)' <=> state'[u] = "SLEEPING"
    BY BareLendsNext
  <1>7. ASSUME NEW v \in Thread PROVE v \in Lenders(c)' <=> v \in asked
    <2>1. v \in Lenders(c)' <=> state[v] = "SLEEPING" /\ mutex[v] # NULL /\ owner'[mutex[v]] = c
      BY <1>6 DEF Lenders
    <2>2. ASSUME v \in Lenders(c)' PROVE v \in asked
      <3>1. mutex[v] \in Mutex /\ state[v] = "SLEEPING" /\ owner'[mutex[v]] = c
        BY <1>1, <2>1, <2>2
      <3>2. mutex[v] \in ToSet(l) /\ v \in ToSet(waiters[mutex[v]])
        BY <1>5, <3>1
      <3>3. QED BY <3>2
    <2>3. ASSUME v \in asked PROVE v \in Lenders(c)'
      <3>1. PICK n \in ToSet(l) : v \in ToSet(waiters[n])
        BY <2>3
      <3>2. n \in Mutex /\ n # NULL /\ owner'[n] = c /\ state[v] = "SLEEPING" /\ mutex[v] = n
        BY <1>2, <1>5, <3>1
      <3>3. QED BY <2>1, <3>2
    <2>4. QED BY <2>2, <2>3
  <1>8. Lenders(c)' = asked
    BY <1>7 DEF Lenders
  <1>9. ASSUME NEW v \in asked PROVE priority'[v] = priority[v]
    <2>1. v \in Thread /\ state[v] = "SLEEPING"
      BY <1>2, <1>5
    <2>2. QED BY <2>1
  <1>10. Claims(c)' = {base[c]} \cup {priority[u] : u \in asked}
    <2>1. Claims(c)' = {base'[c]} \cup {priority'[u] : u \in asked}
      BY <1>8 DEF Claims
    <2> HIDE DEF asked
    <2>2. QED BY <1>9, <2>1
  <1>11. QED BY <1>4, <1>10

LEMMA UnlockPrio ==
    ASSUME KInv, KInv', EInv, PInv, current \in Thread, NEW m \in Mutex, OSUnlockMutex(current, m)
    PROVE  PInv'
  <1>0. PICK c \in Thread : c = current
    OBVIOUS
  <1>1. /\ MayCall(c) /\ owner[m] = c /\ current' = current /\ c # NULL
        /\ lock' = [lock EXCEPT ![m] = lock[m] - 1]
        /\ state' = state /\ base' = base /\ suspend' = suspend /\ queue' = queue /\ mutex' = mutex
        /\ waiters' = waiters
    BY <1>0, Constants DEF OSUnlockMutex, queueVars
  <1>2. /\ Stacked /\ state[c] = "RUNNING" /\ suspend[c] = 0 /\ \A u \in Thread : ~Cancelling(u)
    BY <1>0, <1>1, CallFacts
  <1>3. TypeOK /\ MutexConsistent /\ Nested /\ Shapes /\ Settled /\ Sleeps /\ Bare /\ AtRest
    BY <1>0, <1>1, CallRest DEF KInv, EInv, PInv
  <1>4. \A t \in Thread : Dead(t) <=> Dead(t)'
    BY <1>1 DEF Dead
  <1>5. CASE lock[m] > 1 /\ UNCHANGED <<held, owner, priority, stack>>
    <2>1. \A t \in Thread : SleepOK(t)'
      BY <1>0, <1>1, <1>3, <1>5, CallsSleep
    <2>2. \A u, t \in Thread : SleepsFor(u, t)' <=> SleepsFor(u, t)
      BY <1>1, <1>5 DEF SleepsFor
    <2>3. QED BY <1>0, <1>1, <1>4, <1>5, <2>1, <2>2, CallQuiet
  <1>6. CASE /\ lock[m] = 1 /\ owner' = [owner EXCEPT ![m] = NULL]
             /\ held' = [held EXCEPT ![c] = Without(@, m)]
             /\ priority' = [priority EXCEPT ![c] =
                                IF @ < base[c] THEN EffectivePriority(c, held'[c], waiters) ELSE @]
             /\ Enter(c, AfterRelease(m))
    <2>1. PICK l \in Seq(Mutex) : l = held'[c]
      BY DEF KInv, TypeOK
    <2>2. owner'[m] = NULL /\ \A n \in Mutex \ {m} : owner'[n] = owner[n]
      BY <1>3, <1>6 DEF TypeOK
    <2>3. \A n \in Mutex : owner'[n] = c <=> n \in ToSet(l)
      BY <2>1 DEF KInv, MutexConsistent
    <2>4. PICK e \in Frame : e = F("OSWakeupThread", m) /\ e.fn = "OSWakeupThread" /\ e.arg = m
      BY FrameIntro, Constants
    <2>5. /\ <<e>> \in Seq(Frame) /\ ToSet(<<e>>) = {e} /\ Head(<<e>>) = e /\ Tail(<<e>>) = << >>
          /\ ToSet(<< >>) = {} /\ Enter(c, <<e>>)
      BY <1>6, <2>4, Stacks, Tails DEF AfterRelease
    <2>6. Shapes'
      BY <1>0, <1>1, <1>3, <1>4, <2>2, <2>4, <2>5, CallShapes
    <2>7. Bare'
      BY <1>0, <1>1, <2>4, <2>5, EnterBare
    <2>8. /\ \A u \in Thread \ {c} : priority'[u] = priority[u]
          /\ priority'[c] = IF priority[c] < base[c] THEN EffectivePriority(c, l, waiters)
                            ELSE priority[c]
      BY <1>3, <1>6, <2>1 DEF TypeOK
    <2>9. \A t \in Thread : SleepOK(t)'
      BY <1>0, <1>1, <1>2, <1>3, <2>8, CallsSleep
    <2>10. SettledOne(c)'
      <3> DEFINE asked == {v \in Thread : \E n \in ToSet(l) : v \in ToSet(waiters[n])}
      <3>1. /\ Claims(c)' = {base[c]} \cup {priority[u] : u \in asked}
            /\ Least(EffectivePriority(c, l, waiters), Claims(c)')
        BY <1>1, <1>2, <1>3, <2>3, <2>7, <2>8, AskedClaims
      <3>2. CASE priority[c] < base[c]
        <4>1. Least(priority'[c], Claims(c)')
          BY <2>8, <3>1, <3>2
        <4>2. QED BY <4>1 DEF SettledOne, Least
      <3>3. CASE ~(priority[c] < base[c])
        <4>1. Live(c)
          BY <1>2 DEF Live, Dead
        <4>2. Least(priority[c], Claims(c))
          BY <1>3, <4>1 DEF Settled, SettledOne, AtRest
        <4>3. priority[c] \in Nat /\ base[c] \in Nat /\ priority[c] <= base[c]
          BY <1>3, <4>2, StateTypes, Constants DEF Least, Claims
        <4>4. priority[c] = base[c]
          BY <3>3, <4>3
        <4>5. asked \subseteq Lenders(c)
          <5>1. ASSUME NEW v \in Thread, NEW n \in ToSet(l), v \in ToSet(waiters[n])
                PROVE  v \in Lenders(c)
            <6>1. n \in Mutex /\ n # NULL
              BY Constants DEF ToSet
            <6>2. owner'[n] = c
              BY <2>3, <6>1
            <6>3. owner[n] = c
              BY <1>0, <1>1, <2>2, <6>1, <6>2
            <6>4. state[v] = "SLEEPING" /\ mutex[v] = n
              BY <1>3, <5>1, <6>1, WaitersNote
            <6>5. LendsOn(v)
              BY <1>3, <6>4, BareLends
            <6>6. QED BY <6>1, <6>3, <6>4, <6>5 DEF Lenders
          <5>2. QED BY <5>1
        <4>6. Claims(c)' \subseteq Claims(c) /\ priority[c] \in Claims(c)'
          <5> HIDE DEF asked
          <5>1. QED BY <3>1, <4>4, <4>5 DEF Claims
        <4>7. Least(priority'[c], Claims(c)')
          BY <2>8, <3>3, <4>2, <4>6 DEF Least
        <4>8. QED BY <4>7 DEF SettledOne, Least
      <3>4. QED BY <3>2, <3>3
    <2>11. ASSUME NEW x \in Thread \ {c} PROVE Live(x)' => SettledOne(x)'
      <3>1. \A n \in Mutex : owner'[n] = x <=> owner[n] = x
        BY <1>1, <2>2, Constants
      <3>2. \A u \in Thread : mutex[u] \in Mutex \cup {NULL}
        BY <1>3, StateTypes
      <3>3. ASSUME NEW u \in Thread PROVE u \in Lenders(x)' <=> u \in Lenders(x)
        <4>1. SleepsFor(u, x)' <=> SleepsFor(u, x)
          BY <1>1, <3>1, <3>2 DEF SleepsFor
        <4>2. QED BY <1>3, <2>7, <4>1, BareLenders
      <3>4. \A u \in Lenders(x) : priority'[u] = priority[u]
        <4>1. ASSUME NEW u \in Lenders(x) PROVE u \in Thread \ {c}
          BY <1>2, <1>3, BareLends DEF Lenders
        <4>2. QED BY <2>8, <4>1
      <3>5. Live(x)' => Live(x)
        BY <1>1, <1>4 DEF Live
      <3>6. base'[x] = base[x] /\ priority'[x] = priority[x]
        BY <1>1, <2>8
      <3>7. QED BY <1>3, <3>3, <3>4, <3>5, <3>6, SettledKept
    <2>12. QED BY <2>6, <2>9, <2>10, <2>11 DEF PInv, Sleeps, Settled
  <1>7. QED BY <1>0, <1>5, <1>6 DEF OSUnlockMutex

RestFns == {"OSWakeupThread", "__OSUnlockAllMutex", "JoinTail", "ExitHint", "__OSReschedule",
            "OSYieldThread"}

LEMMA PushedTail ==
    ASSUME NEW f \in Frame, NEW r \in Seq(Frame)
    PROVE  LET n == <<f>> \o r IN
           n \in Seq(Frame) /\ n # << >> /\ Head(n) = f /\ Tail(n) = r /\ ToSet(n) = ToSet(r) \cup {f}
  <1> DEFINE n == <<f>> \o r
  <1>1. n \in Seq(Frame) /\ n # << >> /\ Head(n) = f /\ ToSet(n) = ToSet(r) \cup {f}
    BY Pushed
  <1>2. Tail(n) = r
    <2>1. Len(n) = Len(r) + 1 /\ \A i \in 1 .. Len(r) : n[i + 1] = r[i]
      <3>1. <<f>> \in Seq(Frame) /\ Len(<<f>>) = 1 /\ Len(r) \in Nat
        BY LenProperties
      <3>2. QED BY <3>1, ConcatProperties
    <2> HIDE DEF n
    <2>2. Tail(n) \in Seq(Frame) /\ Len(Tail(n)) = Len(n) - 1
          /\ \A i \in 1 .. Len(Tail(n)) : Tail(n)[i] = n[i + 1]
      BY <1>1, HeadTailProperties
    <2>3. Len(r) \in Nat
      BY LenProperties
    <2>4. Len(Tail(n)) = Len(r) /\ \A i \in 1 .. Len(r) : Tail(n)[i] = r[i]
      BY <2>1, <2>2, <2>3
    <2>5. QED BY <2>2, <2>4, SeqEqual
  <1>3. QED BY <1>1, <1>2

(* What the shape of the running thread's stack says of a turn.            *)
LEMMA TurnHead ==
    ASSUME KInv, Shapes, Cpu # NULL, stack[Cpu] # << >>
    PROVE  Cpu # Isr =>
              /\ \A f \in ToSet(Tail(stack[Cpu])) : f.fn # "UpdatePriority" /\ ~WakesMutex(f)
              /\ WakesMutex(Head(stack[Cpu])) => owner[Head(stack[Cpu]).arg] = NULL
              /\ Head(stack[Cpu]).fn = "UpdatePriority" =>
                    \E g \in ToSet(Tail(stack[Cpu])) : g.fn \in {"__OSReschedule", "CancelTail"}
              /\ MutexNoted(Cpu, stack[Cpu])
              /\ \A f \in ToSet(stack[Cpu]) : f.fn = "__OSUnlockAllMutex" => Dead(f.arg)
  <1> SUFFICES ASSUME Cpu # Isr
               PROVE  /\ HeadShape(stack[Cpu]) /\ MutexNoted(Cpu, stack[Cpu])
                      /\ \A f \in ToSet(stack[Cpu]) : f.fn = "__OSUnlockAllMutex" => Dead(f.arg)
    BY DEF HeadShape
  <1>1. Stacked /\ StackInv
    BY StateTypes DEF KInv
  <1>2. PICK c \in Thread : c = Cpu
    BY <1>1, CpuFacts
  <1>3. Shape(c, stack[c])
    BY DEF Shapes
  <1>4. QED BY <1>2, <1>3 DEF Shape, FrameShape

(* A turn after which the same threads sleep on the same mutexes.          *)
LEMMA TurnQuiet ==
    ASSUME KInv, KInv', EInv, PInv, Cpu # NULL, stack[Cpu] # << >>, Head(stack[Cpu]).fn \in RestFns,
           NEW n \in Seq(Frame), stack' = [stack EXCEPT ![Cpu] = n],
           mutex' = mutex, base' = base, priority' = priority,
           \A f \in ToSet(n) : f \in ToSet(stack[Cpu]) \/ f.fn \in {"OSWakeupThread", "__OSReschedule"},
           ToSet(Tail(stack[Cpu])) \subseteq ToSet(n),
           Cpu # Isr /\ n # << >> =>
              /\ \A f \in ToSet(Tail(n)) : f.fn # "UpdatePriority" /\ ~WakesMutex(f)
              /\ WakesMutex(Head(n)) => owner'[Head(n).arg] = NULL
              /\ Head(n).fn # "UpdatePriority",
           \A t \in Thread : /\ Dead(t) => Dead(t)'
                             /\ suspend'[t] = 0 => suspend[t] = 0
                             /\ state'[t] = "SLEEPING" =>
                                   /\ state[t] = "SLEEPING" /\ queue'[t] = queue[t]
                                   /\ suspend'[t] > 0 => suspend[t] > 0,
           \A u, t \in Thread : Live(t) => (SleepsFor(u, t)' <=> SleepsFor(u, t))
    PROVE  PInv'
  <1>1. Stacked /\ StackInv /\ Isr \notin Thread /\ NULL \notin Thread
        /\ Shapes /\ Nested /\ Settled /\ Sleeps
    BY Constants, StateTypes DEF KInv, EInv, PInv
  <1>2. /\ Cpu \in Context /\ stack[Cpu] \in Seq(Frame)
        /\ Cpu = Isr => (current # NULL => stack[current] = << >>)
        /\ Cpu # Isr => Cpu = current
    BY <1>1, CpuFacts
  <1>3. AtRest
    BY DEF AtRest, Running, RestFns
  <1>4. Bare
    BY <1>2, BareNow DEF RestFns
  <1>5. Bare'
    <2>1. PICK e \in Context : e = Cpu
      BY <1>2
    <2>2. \A d \in Thread \ {e} : stack'[d] = stack[d]
      BY <1>1, <2>1 DEF Stacked, Context
    <2>3. stack'[e] = n
      BY <1>1, <2>1 DEF Stacked
    <2>4. QED BY <1>4, <2>1, <2>2, <2>3, BareStep
  <1>6. Shapes'
    <2>1. Head(stack[Cpu]).fn \notin {"OSLockMutex", "LockSleep", "LockWoken", "__OSPromoteThread"}
      BY DEF RestFns
    <2>2. \A t \in Thread : Dead(t) => Dead(t)'
      OBVIOUS
    <2>3. Cpu # Isr /\ n # << >> =>
              /\ \A f \in ToSet(Tail(n)) : f.fn # "UpdatePriority" /\ ~WakesMutex(f)
              /\ WakesMutex(Head(n)) => owner'[Head(n).arg] = NULL
              /\ Head(n).fn = "UpdatePriority" =>
                    \E g \in ToSet(Tail(n)) : g.fn \in {"__OSReschedule", "CancelTail"}
      OBVIOUS
    <2>4. \A f \in ToSet(n) : \/ f \in ToSet(stack[Cpu])
                              \/ f.fn \in {"UpdatePriority", "OSWakeupThread", "__OSReschedule"}
                              \/ f.fn = "__OSUnlockAllMutex" /\ Dead(f.arg)'
      OBVIOUS
    <2>5. QED BY <1>1, <2>1, <2>2, <2>3, <2>4, TurnShapes
  <1>7. Sleeps'
    <2>1. \A t \in Thread : ~Cancelling(t)
      BY <1>4, BareLends
    <2>2. ASSUME NEW t \in Thread PROVE SleepOK(t)'
      BY <1>1, <2>1, SleepStill DEF Sleeps
    <2>3. QED BY <2>2 DEF Sleeps
  <1>8. \A t \in Thread : Live(t)' => Live(t)
    BY DEF Live
  <1>9. Settled'
    BY <1>1, <1>3, <1>4, <1>5, <1>8, QuietStep
  <1>10. QED BY <1>6, <1>7, <1>9 DEF PInv

LEMMA WakeupTurnPrio == ASSUME KInv, KInv', EInv, PInv, WakeupTurn PROVE PInv'
  <1>1. /\ Running("OSWakeupThread") /\ mutex' = mutex /\ base' = base /\ priority' = priority
        /\ suspend' = suspend /\ owner' = owner
    BY DEF WakeupTurn, mutexVars
  <1>2. /\ Stacked /\ Cpu # NULL /\ Cpu \in Context
        /\ stack[Cpu] \in Seq(Frame) /\ stack[Cpu] # << >>
        /\ Head(stack[Cpu]) \in Frame /\ Head(stack[Cpu]).fn = "OSWakeupThread"
        /\ Arg = Head(stack[Cpu]).arg /\ Tail(stack[Cpu]) \in Seq(Frame)
        /\ ToSet(stack[Cpu]) = ToSet(Tail(stack[Cpu])) \cup {Head(stack[Cpu])}
        /\ \A u \in Thread : ~Cancelling(u)
    BY <1>1, InnerFacts DEF Inner
  <1>3. PICK e \in Context, s \in Seq(Frame), h \in Frame, q \in WaitQueue :
           e = Cpu /\ s = stack[Cpu] /\ h = Head(s) /\ q = Arg
    BY <1>2, FrameFacts
  <1>4. h.arg = q /\ h.fn = "OSWakeupThread" /\ h \in ToSet(s)
    BY <1>2, <1>3
  <1>5. Shapes /\ Nested /\ Sleeps
    BY DEF EInv, PInv
  <1>6. e # Isr =>
           /\ \A f \in ToSet(Tail(s)) : f.fn # "UpdatePriority" /\ ~WakesMutex(f)
           /\ WakesMutex(h) => owner[h.arg] = NULL
    BY <1>2, <1>3, <1>5, TurnHead
  <1>7. CASE WakeupDone(Arg) /\ Become(<<Reschedule>>) /\ UNCHANGED <<state, queue, queueVars>>
    <2>1. PICK g \in Frame, r \in Seq(Frame) : g = Reschedule /\ r = Tail(s) /\ g.fn = "__OSReschedule"
      BY <1>2, <1>3, FrameIntro
    <2>2. PICK n : n = <<g>> \o r
      OBVIOUS
    <2>3. n \in Seq(Frame) /\ Head(n) = g /\ Tail(n) = r /\ ToSet(n) = ToSet(r) \cup {g}
      BY <2>2, PushedTail
    <2>4. stack' = [stack EXCEPT ![Cpu] = n]
      BY <1>3, <1>7, <2>1, <2>2 DEF Become
    <2>5. \A f \in ToSet(n) : f \in ToSet(stack[Cpu]) \/ f.fn \in {"OSWakeupThread", "__OSReschedule"}
      BY <1>2, <1>3, <2>1, <2>3
    <2>6. Cpu # Isr /\ n # << >> =>
              /\ \A f \in ToSet(Tail(n)) : f.fn # "UpdatePriority" /\ ~WakesMutex(f)
              /\ ~WakesMutex(Head(n)) /\ Head(n).fn # "UpdatePriority"
      BY <1>3, <1>6, <2>1, <2>3 DEF WakesMutex
    <2>7. /\ \A t \in Thread : (Dead(t) => Dead(t)') /\ state'[t] = state[t] /\ queue'[t] = queue[t]
          /\ \A u, t \in Thread : SleepsFor(u, t)' <=> SleepsFor(u, t)
      BY <1>1, <1>7 DEF Dead, SleepsFor
    <2>8. ToSet(Tail(stack[Cpu])) \subseteq ToSet(n) /\ Head(stack[Cpu]).fn \in RestFns
      BY <1>2, <1>3, <2>1, <2>3 DEF RestFns
    <2>9. QED BY <1>1, <1>2, <2>3, <2>4, <2>5, <2>6, <2>7, <2>8, TurnQuiet
  <1>8. CASE ~WakeupDone(Arg) /\ WakeHead(Arg) /\ UNCHANGED stack
    <2>1. waiters[q] # << >> /\ waiters[q] \in Seq(Thread)
      BY <1>3, <1>8, StateTypes DEF KInv, WakeupDone
    <2>2. PICK v \in Thread : v = Head(waiters[q]) /\ v \in ToSet(waiters[q])
      BY <2>1, TailSet
    <2>3. state[v] = "SLEEPING" /\ Place[v] = q
      BY <2>2, Sleepers
    <2>4. queue[v] = q
      BY <1>2, <2>3 DEF Place, Where
    <2>5. mutex[v] # NULL => mutex[v] = q /\ q \in Mutex
      BY <1>2, <1>5, <2>3, <2>4, StateTypes DEF Sleeps, SleepOK, KInv
    <2>6. q \in Mutex => owner[q] = NULL
      <3>1. CASE e = Isr
        <4>1. q \in UserQueue
          BY <1>3, <1>4, <1>5, <3>1 DEF Nested
        <4>2. QED BY <4>1, Disciplines
      <3>2. CASE e # Isr
        BY <1>4, <1>6, <3>2 DEF WakesMutex
      <3>3. QED BY <3>1, <3>2
    <2>7. /\ state' = [state EXCEPT ![v] = "READY"]
          /\ queue' = queue \/ queue' = [queue EXCEPT ![v] = priority[v]]
      BY <1>3, <1>8, <2>2 DEF WakeHead, SetRun
    <2>8. \A u \in Thread : /\ u # v => state'[u] = state[u] /\ queue'[u] = queue[u]
                            /\ state'[v] = "READY"
      BY <2>7 DEF KInv, TypeOK
    <2>9. \A u, t \in Thread : SleepsFor(u, t)' <=> SleepsFor(u, t)
      <3>1. \A t \in Thread : ~SleepsFor(v, t)
        BY <2>5, <2>6, Constants DEF SleepsFor
      <3>2. \A t \in Thread : ~SleepsFor(v, t)'
        BY <2>8 DEF SleepsFor
      <3>3. \A u \in Thread \ {v}, t \in Thread : SleepsFor(u, t)' <=> SleepsFor(u, t)
        BY <1>1, <2>8 DEF SleepsFor
      <3>4. QED BY <3>1, <3>2, <3>3
    <2>10. \A t \in Thread : /\ Dead(t) => Dead(t)'
                             /\ state'[t] = "SLEEPING" => state[t] = "SLEEPING" /\ queue'[t] = queue[t]
      BY <2>3, <2>8 DEF Dead
    <2>11. stack' = [stack EXCEPT ![Cpu] = s]
      BY <1>2, <1>3, <1>8 DEF Stacked
    <2>12. /\ ToSet(Tail(stack[Cpu])) \subseteq ToSet(s) /\ Head(stack[Cpu]).fn \in RestFns
           /\ \A f \in ToSet(s) : f \in ToSet(stack[Cpu])
      BY <1>2, <1>3 DEF RestFns
    <2>13. Cpu # Isr /\ s # << >> =>
              /\ \A f \in ToSet(Tail(s)) : f.fn # "UpdatePriority" /\ ~WakesMutex(f)
              /\ WakesMutex(Head(s)) => owner'[Head(s).arg] = NULL
              /\ Head(s).fn # "UpdatePriority"
      BY <1>1, <1>3, <1>4, <1>6
    <2>14. QED BY <1>1, <1>2, <2>9, <2>10, <2>11, <2>12, <2>13, TurnQuiet
  <1>9. QED BY <1>7, <1>8 DEF WakeupTurn

(* The running frame returns, and nobody falls asleep or owns a mutex.     *)
LEMMA ReturnQuiet ==
    ASSUME KInv, KInv', EInv, PInv, NEW fn \in RestFns, Running(fn), Return,
           mutex' = mutex, base' = base, priority' = priority,
           \A t \in Thread : /\ Dead(t) => Dead(t)'
                             /\ suspend'[t] = 0 => suspend[t] = 0
                             /\ state'[t] = "SLEEPING" =>
                                   /\ state[t] = "SLEEPING" /\ queue'[t] = queue[t]
                                   /\ suspend'[t] > 0 => suspend[t] > 0,
           \A u, t \in Thread : Live(t) => (SleepsFor(u, t)' <=> SleepsFor(u, t))
    PROVE  PInv'
  <1>1. Stacked /\ StackInv /\ Shapes /\ Cpu # NULL /\ stack[Cpu] # << >>
        /\ Head(stack[Cpu]).fn \in RestFns
    BY StateTypes DEF KInv, PInv, Running
  <1>2. PICK e \in Context, s \in Seq(Frame) : e = Cpu /\ s = stack[Cpu]
    BY <1>1, CpuFacts
  <1>3. PICK n \in Seq(Frame) : n = Tail(s)
    BY <1>1, <1>2, Popped
  <1>4. s # << >> /\ ToSet(s) = ToSet(n) \cup {Head(s)}
    BY <1>1, <1>2, <1>3, Popped
  <1>5. stack' = [stack EXCEPT ![Cpu] = n]
    BY <1>2, <1>3 DEF Return
  <1>6. Cpu # Isr => \A f \in ToSet(n) : f.fn # "UpdatePriority" /\ ~WakesMutex(f)
    BY <1>1, <1>2, <1>3, TurnHead
  <1>7. n # << >> => Head(n) \in ToSet(n) /\ ToSet(Tail(n)) \subseteq ToSet(n)
    BY Popped
  <1>8. Cpu # Isr /\ n # << >> =>
              /\ \A f \in ToSet(Tail(n)) : f.fn # "UpdatePriority" /\ ~WakesMutex(f)
              /\ WakesMutex(Head(n)) => owner'[Head(n).arg] = NULL
              /\ Head(n).fn # "UpdatePriority"
    BY <1>6, <1>7
  <1>9. /\ \A f \in ToSet(n) : f \in ToSet(stack[Cpu])
        /\ ToSet(Tail(stack[Cpu])) \subseteq ToSet(n)
    BY <1>2, <1>3, <1>4
  <1>10. QED BY <1>1, <1>5, <1>8, <1>9, TurnQuiet

LEMMA JoinTailPrio == ASSUME KInv, KInv', EInv, PInv, JoinTail PROVE PInv'
  <1>1. /\ Running("JoinTail") /\ Return
        /\ base' = base /\ priority' = priority /\ suspend' = suspend /\ queue' = queue
        /\ mutex' = mutex /\ owner' = owner /\ (Reap(Arg) \/ state' = state)
    BY DEF JoinTail, mutexVars
  <1>2. Arg = Head(stack[current]).arg /\ Head(stack[current]) \in Frame
        /\ Head(stack[current]).fn = "JoinTail"
    BY <1>1, Outermost DEF Inner, IsrFrames
  <1>3. PICK t \in Thread : t = Arg
    BY <1>2, FrameFacts
  <1>4. \A u \in Thread : /\ Dead(u) => Dead(u)'
                          /\ state'[u] = "SLEEPING" <=> state[u] = "SLEEPING"
    <2>1. CASE state' = state
      BY <2>1 DEF Dead
    <2>2. CASE Reap(t)
      BY <2>2, ReapStates
    <2>3. QED BY <1>1, <1>3, <2>1, <2>2
  <1>5. \A u, x \in Thread : SleepsFor(u, x)' <=> SleepsFor(u, x)
    BY <1>1, <1>4 DEF SleepsFor
  <1>6. PICK fn \in RestFns : fn = "JoinTail"
    BY DEF RestFns
  <1>7. QED BY <1>1, <1>4, <1>5, <1>6, ReturnQuiet

LEMMA ExitHintPrio == ASSUME KInv, KInv', EInv, PInv, ExitHint PROVE PInv'
  <1>1. /\ Running("ExitHint") /\ Become(<<Reschedule>>)
        /\ base' = base /\ priority' = priority /\ suspend' = suspend /\ queue' = queue
        /\ mutex' = mutex /\ owner' = owner /\ state' = state
    BY DEF ExitHint, mutexVars, threadVars
  <1>2. "ExitHint" \notin Inner /\ "ExitHint" \notin IsrFrames
    BY DEF Inner, IsrFrames
  <1>3. /\ current \in Thread /\ current # NULL /\ Cpu = current /\ stack[current] # << >>
        /\ Head(stack[current]).fn = "ExitHint" /\ Tail(stack[current]) = << >>
        /\ \A fs \in Seq(Frame) : Become(fs) => stack' = [stack EXCEPT ![current] = fs]
    BY <1>1, <1>2, StateTypes, Outermost, ThreadTurn DEF KInv
  <1>4. PICK g \in Frame : g = Reschedule /\ g.fn = "__OSReschedule"
    BY FrameIntro
  <1>5. PICK n \in Seq(Frame) : n = <<g>>
    BY Stacks
  <1>6. ToSet(n) = {g} /\ Head(n) = g /\ ToSet(Tail(n)) = {}
    BY <1>5, Stacks, Tails
  <1>7. stack' = [stack EXCEPT ![Cpu] = n]
    BY <1>1, <1>3, <1>4, <1>5
  <1>8. /\ \A f \in ToSet(n) : f.fn \in {"OSWakeupThread", "__OSReschedule"}
        /\ \A f \in ToSet(Tail(n)) : f.fn # "UpdatePriority" /\ ~WakesMutex(f)
        /\ ~WakesMutex(Head(n)) /\ Head(n).fn # "UpdatePriority"
    BY <1>4, <1>6 DEF WakesMutex
  <1>9. ToSet(Tail(stack[Cpu])) \subseteq ToSet(n) /\ Head(stack[Cpu]).fn \in RestFns
        /\ Cpu # NULL /\ stack[Cpu] # << >>
    BY <1>3, Tails DEF RestFns
  <1>10. /\ \A t \in Thread : Dead(t) => Dead(t)'
         /\ \A u, t \in Thread : SleepsFor(u, t)' <=> SleepsFor(u, t)
    BY <1>1 DEF Dead, SleepsFor
  <1>11. QED BY <1>1, <1>7, <1>8, <1>9, <1>10, TurnQuiet

(* SelectThread only ever changes who, of the ready threads, runs.         *)
Runnable(st, qu, rq, rb) ==
    /\ rq \in [Priority -> Seq(Thread)] /\ rb \in SUBSET Priority
    /\ st \in [Thread -> {"READY", "RUNNING", "SLEEPING", "MORIBUND", "EXITED"}]
    /\ qu \in [Thread -> WaitQueue \cup Priority \cup {NULL}]
    /\ \A t \in Thread : \/ st[t] = state[t] /\ qu[t] = queue[t]
                         \/ state[t] = "RUNNING" /\ st[t] = "READY"
    /\ \A p \in rb : rq[p] # << >> /\ \A v \in ToSet(rq[p]) : state[v] \in {"READY", "RUNNING"}

LEMMA Chosen ==
    ASSUME NEW st, NEW qu, NEW rq, NEW rb, Runnable(st, qu, rq, rb), Dispatch(st, qu, rq, rb)
    PROVE  \A t \in Thread : /\ Dead(t) => Dead(t)'
                             /\ state'[t] = "SLEEPING" <=> state[t] = "SLEEPING"
                             /\ state'[t] = "SLEEPING" => queue'[t] = queue[t]
  <1>1. CASE rb = {}
    BY <1>1 DEF Dispatch, Dead, Runnable
  <1>2. CASE rb # {}
    <2>1. PICK p \in Priority, l \in Seq(Thread), h \in Thread :
             p = BestOf(rb) /\ p \in rb /\ l = rq[p] /\ h = Head(l) /\ h \in ToSet(l)
      <3>1. PICK p \in Priority : p = BestOf(rb) /\ p \in rb
        BY <1>2, BestOK DEF Runnable
      <3>2. PICK l \in Seq(Thread) : l = rq[p]
        BY <3>1 DEF Runnable
      <3>3. l # << >>
        BY <3>1, <3>2 DEF Runnable
      <3>4. Head(l) \in Thread /\ Head(l) \in ToSet(l)
        BY <3>3, TailSet
      <3>5. QED BY <3>1, <3>2, <3>4
    <2>2. state[h] \in {"READY", "RUNNING"}
      BY <2>1 DEF Runnable
    <2>3. queue' = [qu EXCEPT ![h] = NULL] /\ state' = [st EXCEPT ![h] = "RUNNING"]
      BY <1>2, <2>1 DEF Dispatch
    <2>4. QED BY <2>2, <2>3 DEF Dead, Runnable
  <1>3. QED BY <1>1, <1>2

LEMMA ReadyQueued ==
    ASSUME KInv, \A u \in Thread : ~Cancelling(u), NEW p \in runBits
    PROVE  /\ p \in Priority /\ runQueue[p] # << >>
           /\ \A v \in ToSet(runQueue[p]) : v \in Thread /\ state[v] \in {"READY", "RUNNING"}
  <1>1. /\ runBits = {r \in Priority : runQueue[r] # << >>} /\ p \in Priority
        /\ ToSet(runQueue[p]) = {t \in Thread : Place[t] = p}
    BY DEF KInv, Placed, Linked
  <1>2. ASSUME NEW v \in Thread, Place[v] = p PROVE state[v] \in {"READY", "RUNNING"}
    <2>1. Where(v) = p /\ p \notin WaitQueue /\ p # NULL
      BY <1>1, <1>2, Constants DEF Place
    <2>2. state[v] = "SLEEPING" => queue[v] \in WaitQueue
      BY DEF KInv, Placed, Fields
    <2>3. QED BY <2>1, <2>2 DEF Where
  <1>3. QED BY <1>1, <1>2

LEMMA SelectPrio ==
    ASSUME KInv, KInv', EInv, PInv, NEW fn \in {"__OSReschedule", "OSYieldThread"}, Running(fn),
           NEW yield \in BOOLEAN, SelectThread(yield)
    PROVE  PInv'
  <1>1. /\ Stacked /\ Cpu # NULL /\ (Cpu # Isr => Cpu = current /\ current \in Thread)
        /\ \A u \in Thread : ~Cancelling(u)
    BY SelectFacts
  <1>2. /\ Return /\ base' = base /\ priority' = priority /\ suspend' = suspend
        /\ mutex' = mutex /\ owner' = owner
    BY DEF SelectThread, mutexVars
  <1>3. /\ TypeOK /\ state \in [Thread -> {"READY", "RUNNING", "SLEEPING", "MORIBUND", "EXITED"}]
        /\ queue \in [Thread -> WaitQueue \cup Priority \cup {NULL}]
        /\ runQueue \in [Priority -> Seq(Thread)] /\ runBits \in SUBSET Priority
    BY DEF KInv, TypeOK
  <1>4. \A p \in runBits : runQueue[p] # << >>
                           /\ \A v \in ToSet(runQueue[p]) : state[v] \in {"READY", "RUNNING"}
    BY <1>1, ReadyQueued
  <1>5. \A t \in Thread : /\ Dead(t) => Dead(t)'
                          /\ state'[t] = "SLEEPING" <=> state[t] = "SLEEPING"
                          /\ state'[t] = "SLEEPING" => queue'[t] = queue[t]
    <2>1. CASE Cpu = Isr \/ KeepsRunning(yield)
      BY <2>1 DEF SelectThread, Dead
    <2>2. CASE ~(Cpu = Isr \/ KeepsRunning(yield)) /\ state[current] # "RUNNING"
      <3>1. Dispatch(state, queue, runQueue, runBits)
        BY <2>2 DEF SelectThread
      <3>2. Runnable(state, queue, runQueue, runBits)
        BY <1>3, <1>4 DEF Runnable
      <3>3. QED BY <3>1, <3>2, Chosen
    <2>3. CASE ~(Cpu = Isr \/ KeepsRunning(yield)) /\ state[current] = "RUNNING"
      <3>1. PICK c \in Thread : c = current
        BY <1>1, <2>3
      <3>2. PICK p \in Priority : p = priority[c]
        BY <2>3, <3>1 DEF KInv, RunningOne, PrioOK, Dead
      <3> DEFINE st == [state EXCEPT ![c] = "READY"]
                 qu == [queue EXCEPT ![c] = p]
                 rq == [runQueue EXCEPT ![p] = Append(@, c)]
                 rb == runBits \cup {p}
      <3>3. Dispatch(st, qu, rq, rb)
        <4>1. LET x == priority[current] IN
              Dispatch([state EXCEPT ![current] = "READY"], [queue EXCEPT ![current] = x],
                       [runQueue EXCEPT ![x] = Append(@, current)], runBits \cup {x})
          BY <2>3 DEF SelectThread
        <4>2. p = priority[current] /\ c = current
          BY <3>1, <3>2
        <4>3. QED BY <4>1, <4>2 DEF Dispatch
      <3>4. PICK l \in Seq(Thread) : l = runQueue[p]
        BY <1>3
      <3>5. Append(l, c) \in Seq(Thread) /\ ToSet(Append(l, c)) = ToSet(l) \cup {c}
            /\ Append(l, c) # << >>
        BY AppendSet, AppendProperties
      <3>6. /\ st \in [Thread -> {"READY", "RUNNING", "SLEEPING", "MORIBUND", "EXITED"}]
            /\ qu \in [Thread -> WaitQueue \cup Priority \cup {NULL}]
            /\ \A t \in Thread : \/ st[t] = state[t] /\ qu[t] = queue[t]
                                 \/ state[t] = "RUNNING" /\ st[t] = "READY"
        BY <1>3, <2>3, <3>1
      <3>7. /\ rq \in [Priority -> Seq(Thread)] /\ rb \in SUBSET Priority
            /\ rq[p] = Append(l, c) /\ \A r \in Priority \ {p} : rq[r] = runQueue[r]
        BY <1>3, <3>4, <3>5
      <3>8. \A v \in ToSet(l) : state[v] \in {"READY", "RUNNING"}
        <4>1. CASE p \in runBits
          BY <1>4, <3>4, <4>1
        <4>2. CASE p \notin runBits
          <5>1. l = << >>
            BY <3>4, <4>2 DEF KInv, Placed, Linked
          <5>2. QED BY <5>1, Tails
        <4>3. QED BY <4>1, <4>2
      <3>9. \A r \in rb : rq[r] # << >> /\ \A v \in ToSet(rq[r]) : state[v] \in {"READY", "RUNNING"}
        BY <1>3, <1>4, <2>3, <3>1, <3>5, <3>7, <3>8
      <3> HIDE DEF st, qu, rq, rb
      <3>10. Runnable(st, qu, rq, rb)
        BY <3>6, <3>7, <3>9 DEF Runnable
      <3>11. QED BY <3>3, <3>10, Chosen
    <2>4. QED BY <2>1, <2>2, <2>3
  <1>6. \A u, x \in Thread : SleepsFor(u, x)' <=> SleepsFor(u, x)
    BY <1>2, <1>5 DEF SleepsFor
  <1>7. fn \in RestFns
    BY DEF RestFns
  <1>8. QED BY <1>2, <1>5, <1>6, <1>7, ReturnQuiet

LEMMA ReschedulePrio == ASSUME KInv, KInv', EInv, PInv, OSReschedule PROVE PInv'
  <1>1. Running("__OSReschedule")
    BY DEF OSReschedule
  <1>2. CASE SelectThread(FALSE)
    <2>1. PICK fn \in {"__OSReschedule", "OSYieldThread"}, yield \in BOOLEAN :
             fn = "__OSReschedule" /\ yield = FALSE
      OBVIOUS
    <2>2. Running(fn) /\ SelectThread(yield)
      BY <1>1, <1>2, <2>1
    <2>3. QED BY <2>2, SelectPrio
  <1>3. CASE Return /\ UNCHANGED <<threadVars, queueVars, mutexVars, current>>
    <2>1. PICK fn \in RestFns : fn = "__OSReschedule"
      BY DEF RestFns
    <2>2. /\ state' = state /\ base' = base /\ priority' = priority /\ suspend' = suspend
          /\ queue' = queue /\ mutex' = mutex /\ owner' = owner
      BY <1>3 DEF threadVars, mutexVars
    <2>3. /\ \A t \in Thread : Dead(t) => Dead(t)'
          /\ \A u, t \in Thread : SleepsFor(u, t)' <=> SleepsFor(u, t)
      BY <2>2 DEF Dead, SleepsFor
    <2>4. QED BY <1>1, <1>3, <2>1, <2>2, <2>3, ReturnQuiet
  <1>4. QED BY <1>2, <1>3 DEF OSReschedule

LEMMA YieldTailPrio == ASSUME KInv, KInv', EInv, PInv, YieldTail PROVE PInv'
  <1>1. PICK fn \in {"__OSReschedule", "OSYieldThread"}, yield \in BOOLEAN :
           Running(fn) /\ SelectThread(yield)
    BY DEF YieldTail
  <1>2. QED BY <1>1, SelectPrio

(* A step of nobody's stack.                                               *)
LEMMA IdleQuiet ==
    ASSUME KInv, KInv', EInv, PInv, AtRest, Bare, Bare', Shapes',
           mutex' = mutex, base' = base, priority' = priority, suspend' = suspend, owner' = owner,
           \A t \in Thread : /\ Dead(t) => Dead(t)'
                             /\ state'[t] = "SLEEPING" <=> state[t] = "SLEEPING"
                             /\ state'[t] = "SLEEPING" => queue'[t] = queue[t]
    PROVE  PInv'
  <1>1. Settled /\ Sleeps
    BY DEF PInv
  <1>2. Sleeps'
    <2>1. \A t \in Thread : ~Cancelling(t)
      BY BareLends
    <2>2. ASSUME NEW t \in Thread PROVE SleepOK(t)'
      BY <1>1, <2>1, SleepStill DEF Sleeps
    <2>3. QED BY <2>2 DEF Sleeps
  <1>3. /\ \A t \in Thread : Live(t)' => Live(t)
        /\ \A u, t \in Thread : SleepsFor(u, t)' <=> SleepsFor(u, t)
    BY DEF Live, SleepsFor
  <1>4. Settled'
    BY <1>1, <1>3, QuietStep
  <1>5. QED BY <1>2, <1>4 DEF PInv

LEMMA LeaveIdlePrio == ASSUME KInv, KInv', EInv, PInv, LeaveIdle PROVE PInv'
  <1>1. /\ stack' = stack /\ Dispatch(state, queue, runQueue, runBits) /\ Cpu = NULL
        /\ base' = base /\ priority' = priority /\ suspend' = suspend /\ mutex' = mutex /\ owner' = owner
    BY DEF LeaveIdle, mutexVars
  <1>2. current = NULL /\ NULL \notin Thread /\ Isr \in Context /\ Nested /\ Shapes
    BY <1>1, Constants DEF Cpu, Context, EInv, PInv
  <1>3. Bare /\ AtRest
    BY <1>1, <1>2, BareNow DEF AtRest, Running
  <1>4. Bare'
    BY <1>1, <1>3, StillBare
  <1>5. \A u \in Thread : ~Cancelling(u)
    BY <1>3, BareLends
  <1>6. Runnable(state, queue, runQueue, runBits)
    <2>1. /\ state \in [Thread -> {"READY", "RUNNING", "SLEEPING", "MORIBUND", "EXITED"}]
          /\ queue \in [Thread -> WaitQueue \cup Priority \cup {NULL}]
          /\ runQueue \in [Priority -> Seq(Thread)] /\ runBits \in SUBSET Priority
      BY DEF KInv, TypeOK
    <2>2. \A p \in runBits : runQueue[p] # << >>
                             /\ \A v \in ToSet(runQueue[p]) : state[v] \in {"READY", "RUNNING"}
      BY <1>5, ReadyQueued
    <2>3. QED BY <2>1, <2>2 DEF Runnable
  <1>7. \A t \in Thread : /\ Dead(t) => Dead(t)'
                          /\ state'[t] = "SLEEPING" <=> state[t] = "SLEEPING"
                          /\ state'[t] = "SLEEPING" => queue'[t] = queue[t]
    BY <1>1, <1>6, Chosen
  <1>8. Shapes'
    <2>1. PICK i \in Context : i = Isr
      BY <1>2
    <2>2. i \notin Thread
      BY <2>1, Constants
    <2>3. QED BY <1>1, <1>2, <1>7, <2>2, ShapesStep
  <1>9. QED BY <1>1, <1>3, <1>4, <1>7, <1>8, IdleQuiet

LEMMA IsrReturnPrio == ASSUME KInv, KInv', EInv, PInv, IsrReturn PROVE PInv'
  <1>1. /\ Running("IsrReturn") /\ state' = state /\ queue' = queue
        /\ stack' = [c \in Context |-> IF c = Isr THEN << >>
                                       ELSE IF c = current THEN <<Reschedule>> ELSE stack[c]]
        /\ base' = base /\ priority' = priority /\ suspend' = suspend /\ mutex' = mutex /\ owner' = owner
    BY DEF IsrReturn, threadVars, mutexVars
  <1>2. Stacked /\ StackInv /\ Nested /\ Shapes
    BY StateTypes DEF KInv, EInv, PInv
  <1>3. /\ Cpu = Isr /\ stack[Isr] # << >>
        /\ current # NULL => current \in Thread /\ stack[current] = << >> /\ state[current] = "RUNNING"
    <2>1. Cpu # NULL /\ stack[Cpu] # << >> /\ Head(stack[Cpu]).fn = "IsrReturn"
      BY <1>1 DEF Running
    <2>2. stack[Cpu] \in Seq(Frame) /\ Cpu \in Context
          /\ (Cpu # Isr => Cpu \in Thread)
          /\ (Cpu = Isr => /\ stack[Isr] # << >>
                           /\ current # NULL => current \in Thread /\ stack[current] = << >>)
      BY <1>2, <2>1, CpuFacts
    <2>3. Head(stack[Cpu]) \in ToSet(stack[Cpu])
      BY <2>1, <2>2, Popped
    <2>4. Cpu = Isr
      BY <1>2, <2>1, <2>2, <2>3 DEF StackInv, Frames
    <2>5. current # NULL => state[current] = "RUNNING"
      BY <2>2, <2>4 DEF KInv, Leaving
    <2>6. QED BY <2>2, <2>4, <2>5
  <1>4. Bare /\ AtRest
    <2>1. Bare
      BY <1>3, BareNow
    <2>2. AtRest
      BY <1>1 DEF AtRest, Running
    <2>3. QED BY <2>1, <2>2
  <1>5. PICK g \in Frame : g = Reschedule /\ g.fn = "__OSReschedule"
    BY FrameIntro
  <1>6. <<g>> \in Seq(Frame) /\ ToSet(<<g>>) = {g} /\ Head(<<g>>) = g /\ ToSet(Tail(<<g>>)) = {}
    BY Stacks, Tails
  <1>7. /\ \A d \in Thread : d # current => stack'[d] = stack[d]
        /\ \A d \in Thread : d = current => stack'[d] = <<g>>
    BY <1>1, <1>5, Constants DEF Context
  <1>8. Bare'
    <2>1. ASSUME NEW d \in Thread, NEW f \in ToSet(stack'[d]) PROVE f.fn \notin {"LockSleep", "CancelTail"}
      <3>1. CASE d = current
        BY <1>5, <1>6, <1>7, <3>1
      <3>2. CASE d # current
        BY <1>4, <1>7, <3>2 DEF Bare
      <3>3. QED BY <3>1, <3>2
    <2>2. QED BY <2>1 DEF Bare
  <1>9. \A t \in Thread : Dead(t) <=> Dead(t)'
    BY <1>1 DEF Dead
  <1>10. Shapes'
    <2>1. CASE current = NULL
      <3>1. PICK i \in Context : i = Isr
        BY DEF Context
      <3>2. i \notin Thread /\ NULL \notin Thread
        BY <3>1, Constants
      <3>3. QED BY <1>1, <1>2, <1>7, <1>9, <2>1, <3>2, ShapesStep
    <2>2. CASE current # NULL
      <3>1. PICK c \in Thread : c = current
        BY <1>3, <2>2
      <3>2. mutex[c] = NULL
        BY <1>2, <1>3, <2>2, <3>1, Tails DEF Shapes, Shape, MutexNoted, Dead
      <3>3. stack'[c] = <<g>> /\ mutex'[c] = NULL
        BY <1>1, <1>7, <3>1, <3>2
      <3>4. Shape(c, stack[c])'
        BY <1>5, <1>6, <3>3, ShapeIntro DEF WakesMutex
      <3>5. c \in Context /\ \A d \in Thread \ {c} : /\ d = current => stack[d] = << >>
                                                     /\ stack'[d] = stack[d] /\ mutex'[d] = mutex[d]
        BY <1>1, <1>7, <3>1 DEF Context
      <3>6. QED BY <1>2, <1>9, <3>4, <3>5, ShapesStep
    <2>3. QED BY <2>1, <2>2
  <1>11. QED BY <1>1, <1>4, <1>8, <1>9, <1>10, IdleQuiet

LEMMA UnlockAllPrio == ASSUME KInv, KInv', EInv, PInv, UnlockAllTurn PROVE PInv'
  <1>1. /\ Running("__OSUnlockAllMutex") /\ state' = state /\ queue' = queue
        /\ base' = base /\ priority' = priority /\ suspend' = suspend /\ mutex' = mutex
    BY DEF UnlockAllTurn, threadVars
  <1>2. /\ Stacked /\ StackInv /\ Cpu # NULL /\ Cpu \in Context
        /\ stack[Cpu] \in Seq(Frame) /\ stack[Cpu] # << >>
        /\ Head(stack[Cpu]) \in Frame /\ Head(stack[Cpu]) \in ToSet(stack[Cpu])
        /\ Head(stack[Cpu]).fn = "__OSUnlockAllMutex"
        /\ Arg = Head(stack[Cpu]).arg /\ Tail(stack[Cpu]) \in Seq(Frame)
        /\ ToSet(stack[Cpu]) = ToSet(Tail(stack[Cpu])) \cup {Head(stack[Cpu])}
    BY <1>1, InnerFacts DEF Inner
  <1>3. PICK e \in Context, s \in Seq(Frame), h \in Frame, t \in Thread :
           e = Cpu /\ s = stack[Cpu] /\ h = Head(s) /\ t = Arg
    BY <1>2, FrameFacts
  <1>4. h.arg = t /\ h.fn = "__OSUnlockAllMutex" /\ h \in ToSet(s) /\ ToSet(s) = ToSet(Tail(s)) \cup {h}
    BY <1>2, <1>3
  <1>5. e # Isr
    BY <1>2, <1>3, <1>4 DEF StackInv, Frames, IsrFrames
  <1>6. /\ \A f \in ToSet(Tail(s)) : f.fn # "UpdatePriority" /\ ~WakesMutex(f)
        /\ Dead(t)
    BY <1>2, <1>3, <1>4, <1>5, TurnHead DEF PInv
  <1>7. \A x \in Thread : Dead(x) => Dead(x)'
    BY <1>1 DEF Dead
  <1>8. CASE Return /\ UNCHANGED mutexVars
    <2>1. PICK fn \in RestFns : fn = "__OSUnlockAllMutex"
      BY DEF RestFns
    <2>2. \A u, x \in Thread : SleepsFor(u, x)' <=> SleepsFor(u, x)
      BY <1>1, <1>8 DEF SleepsFor, mutexVars
    <2>3. QED BY <1>1, <1>7, <1>8, <2>1, <2>2, ReturnQuiet
  <1>9. CASE /\ held[Arg] # << >> /\ ReleaseHead(Arg)
             /\ stack' = [stack EXCEPT ![Cpu] = <<F("OSWakeupThread", Head(held[Arg]))>> \o @]
    <2>1. PICK m \in Mutex : m = Head(held[t]) /\ m \in ToSet(held[t])
      <3>1. held[t] \in Seq(Mutex) /\ held[t] # << >>
        BY <1>3, <1>9, StateTypes DEF KInv
      <3>2. QED BY <3>1, TailSet
    <2>2. owner[m] = t
      BY <2>1 DEF KInv, MutexConsistent
    <2>3. owner'[m] = NULL /\ \A k \in Mutex \ {m} : owner'[k] = owner[k]
      BY <1>3, <1>9, <2>1 DEF ReleaseHead, KInv, TypeOK
    <2>4. PICK g \in Frame : g = F("OSWakeupThread", m) /\ g.fn = "OSWakeupThread" /\ g.arg = m
      BY FrameIntro, Constants
    <2>5. PICK n : n = <<g>> \o s
      OBVIOUS
    <2>6. n \in Seq(Frame) /\ Head(n) = g /\ Tail(n) = s /\ ToSet(n) = ToSet(s) \cup {g}
      BY <2>5, PushedTail
    <2>7. stack' = [stack EXCEPT ![Cpu] = n]
      BY <1>2, <1>3, <1>9, <2>1, <2>4, <2>5 DEF Stacked
    <2>8. ASSUME NEW u \in Thread, NEW x \in Thread, Live(x) PROVE SleepsFor(u, x)' <=> SleepsFor(u, x)
      <3>1. x # t /\ x # NULL
        BY <1>6, <2>8, Constants DEF Live
      <3>2. \A k \in Mutex : owner'[k] = x <=> owner[k] = x
        BY <2>2, <2>3, <3>1
      <3>3. mutex[u] \in Mutex \cup {NULL}
        BY StateTypes DEF KInv
      <3>4. QED BY <1>1, <3>2, <3>3 DEF SleepsFor
    <2>9. /\ \A f \in ToSet(Tail(n)) : f.fn # "UpdatePriority" /\ ~WakesMutex(f)
          /\ WakesMutex(Head(n)) => owner'[Head(n).arg] = NULL
          /\ Head(n).fn # "UpdatePriority"
      BY <1>4, <1>6, <2>3, <2>4, <2>6 DEF WakesMutex
    <2>10. /\ \A f \in ToSet(n) : f \in ToSet(stack[Cpu]) \/ f.fn \in {"OSWakeupThread", "__OSReschedule"}
           /\ ToSet(Tail(stack[Cpu])) \subseteq ToSet(n)
           /\ Head(stack[Cpu]).fn \in RestFns
      BY <1>3, <1>4, <2>4, <2>6 DEF RestFns
    <2>11. QED BY <1>1, <1>2, <1>7, <2>6, <2>7, <2>8, <2>9, <2>10, TurnQuiet
  <1>10. QED BY <1>8, <1>9 DEF UnlockAllTurn

(* The turns of a lock: what the running thread and the others lend.       *)
LEMMA LockRest ==
    ASSUME KInv, EInv, PInv, NEW fn \in {"OSLockMutex", "LockSleep", "LockWoken"}, Running(fn)
    PROVE  /\ Nested /\ Shapes /\ Sleeps /\ Settled /\ AtRest /\ Calm
           /\ stack[current] # << >> /\ Head(stack[current]) \in ToSet(stack[current])
           /\ Head(stack[current]).fn = fn /\ Head(stack[current]).arg = Arg
           /\ \A d \in Thread : d # current => \A f \in ToSet(stack[d]) : f.fn # "LockSleep"
           /\ fn # "LockSleep" => Bare
           /\ suspend[current] = 0
  <1>1. /\ current \in Thread /\ current # NULL /\ Stacked /\ StackInv /\ stack[Isr] = << >>
        /\ state[current] = "RUNNING" /\ \A u \in Thread : ~Cancelling(u)
    BY LockFacts
  <1>2. fn \notin Inner /\ fn \notin IsrFrames
    BY DEF Inner, IsrFrames
  <1>3. /\ Cpu = current /\ stack[current] # << >> /\ Head(stack[current]) \in ToSet(stack[current])
        /\ Head(stack[current]).fn = fn /\ Head(stack[current]).arg = Arg
        /\ ToSet(stack[current]) = {Head(stack[current])}
    BY <1>1, <1>2, Outermost DEF Cpu
  <1>4. AtRest
    BY <1>3 DEF AtRest, Running
  <1>5. Calm
    <2>1. \A d \in Context : \A f \in ToSet(stack[d]) : f.fn # "CancelTail"
      <3>1. ASSUME NEW d \in Context, NEW f \in ToSet(stack[d]), f.fn = "CancelTail" PROVE FALSE
        <4>1. CASE d = Isr
          BY <1>1, <3>1, <4>1, Tails
        <4>2. CASE d # Isr
          BY <1>1, <1>3, <3>1, <4>2 DEF StackInv, Cancels, Context
        <4>3. QED BY <4>1, <4>2
      <3>2. QED BY <3>1
    <2>2. QED BY <2>1 DEF Calm
  <1>6. \A d \in Thread : d # current => \A f \in ToSet(stack[d]) : f.fn # "LockSleep"
    BY <1>1 DEF StackInv, Locks
  <1>7. fn # "LockSleep" => Bare
    BY <1>1, <1>3, BareNow
  <1>8. suspend[current] = 0
    BY <1>1 DEF KInv, RunningOne
  <1>9. QED BY <1>3, <1>4, <1>5, <1>6, <1>7, <1>8 DEF EInv, PInv

LEMMA LockTurnPrio == ASSUME KInv, KInv', EInv, PInv, LockTurn PROVE PInv'
  <1>1. /\ Running("OSLockMutex") /\ state' = state /\ priority' = priority /\ base' = base
        /\ current' = current /\ suspend' = suspend /\ queue' = queue
    BY DEF LockTurn
  <1>2. /\ current \in Thread /\ Arg \in Mutex /\ Stacked /\ state[current] = "RUNNING"
        /\ priority[current] \in Priority /\ current # Isr /\ current # NULL /\ stack[Isr] = << >>
        /\ Return => stack' = [stack EXCEPT ![current] = << >>]
        /\ \A fs \in Seq(Frame) : Become(fs) => stack' = [stack EXCEPT ![current] = fs]
        /\ \A u \in Thread : ~Cancelling(u)
        /\ \A m \in Mutex : waiters[m] # << >> => owner[m] # NULL
    BY <1>1, LockFacts
  <1>3. Nested /\ Shapes /\ Sleeps /\ Settled /\ AtRest /\ Calm /\ Bare
    BY <1>1, LockRest
  <1>4. PICK c \in Thread, m \in Mutex : c = current /\ m = Arg
    BY <1>2
  <1>5. Shapes'
    BY <1>3, LockTurnShapes
  <1>6. c \in Context /\ Isr \in Context /\ \A d \in Thread : d \in Context
    BY DEF Context
  <1>7. CASE /\ Return /\ mutex' = mutex
             /\ \/ owner' = owner
                \/ owner[m] = NULL /\ owner' = [owner EXCEPT ![m] = c]
    <2>1. stack' = [stack EXCEPT ![c] = << >>]
      BY <1>2, <1>4, <1>7
    <2>2. /\ stack'[c] = << >>
          /\ \A d \in Thread \ {c} : stack'[d] = stack[d]
      BY <1>2, <1>6, <2>1 DEF Stacked
    <2>3. Bare'
      <3>1. \A f \in ToSet(stack'[c]) : f.fn \notin {"LockSleep", "CancelTail"}
        BY <2>2, Tails
      <3>2. QED BY <1>3, <1>6, <2>2, <3>1, BareStep
    <2>4. ASSUME NEW t \in Thread PROVE SleepOK(t)'
      BY <1>1, <1>2, <1>3, <1>7, SleepStill DEF Sleeps
    <2>5. \A t \in Thread : Live(t)' => Live(t)
      BY <1>1 DEF Live, Dead
    <2>6. ASSUME NEW u \in Thread, NEW t \in Thread PROVE SleepsFor(u, t)' <=> SleepsFor(u, t)
      <3>1. CASE owner' = owner
        BY <1>1, <1>7, <3>1 DEF SleepsFor
      <3>2. CASE owner[m] = NULL /\ owner' = [owner EXCEPT ![m] = c]
        <4>1. waiters[m] = << >> /\ ~Cancelling(u)
          BY <1>2, <3>2
        <4>2. ~(state[u] = "SLEEPING" /\ mutex[u] = m)
          <5>1. u \notin ToSet(waiters[m])
            BY <4>1, Tails
          <5>2. QED BY <1>3, <4>1, <5>1, WaitersNote
        <4>3. mutex[u] \in Mutex \cup {NULL} /\ owner \in [Mutex -> Thread \cup {NULL}]
          BY StateTypes DEF KInv, TypeOK
        <4>4. QED BY <1>1, <1>7, <3>2, <4>2, <4>3 DEF SleepsFor
      <3>3. QED BY <1>7, <3>1, <3>2
    <2>7. Settled'
      BY <1>1, <1>3, <2>3, <2>5, <2>6, QuietStep
    <2>8. QED BY <1>5, <2>4, <2>7 DEF PInv, Sleeps
  <1>8. CASE /\ owner[m] \notin {NULL, c} /\ mutex' = [mutex EXCEPT ![c] = m]
             /\ Become(<<Promote(owner[m], priority[c]), F("LockSleep", m)>>)
             /\ owner' = owner
    <2>1. PICK o \in Thread : o = owner[m]
      BY <1>8, StateTypes DEF KInv
    <2>2. PICK p \in Priority : p = priority[c]
      BY <1>2, <1>4
    <2>3. PICK a \in Frame, b \in Frame : a = Promote(o, p) /\ b = F("LockSleep", m)
      <3>1. p \in 0 .. OS_PRIORITY_MAX + 1
        BY <2>2, Constants DEF Priority
      <3>2. QED BY <3>1, FrameIntro
    <2>4. /\ a.fn = "__OSPromoteThread" /\ a.arg = o /\ a.prio = p
          /\ b.fn = "LockSleep" /\ b.arg = m
      BY <2>3, FrameIntro
    <2>5. PICK s \in Seq(Frame) : s = <<a, b>> /\ ToSet(s) = {a, b} /\ Head(s) = a /\ s # << >>
      <3>1. /\ <<a, b>> \in Seq(Frame) /\ ToSet(<<a, b>>) = {a, b} /\ Head(<<a, b>>) = a
            /\ <<a, b>> # << >>
        BY Stacks
      <3>2. QED BY <3>1
    <2>6. stack' = [stack EXCEPT ![c] = s]
      BY <1>2, <1>4, <1>8, <2>1, <2>2, <2>3, <2>5
    <2>7. /\ stack'[c] = s /\ stack'[Isr] = << >> /\ mutex'[c] = m
          /\ \A d \in Context \ {c} : stack'[d] = stack[d]
          /\ \A d \in Thread \ {c} : mutex'[d] = mutex[d]
      BY <1>2, <1>4, <1>6, <1>8, <2>6, StateTypes DEF Stacked, KInv, TypeOK
    <2>8. \A u \in Thread : ~Cancelling(u)'
      <3>1. \A f \in ToSet(stack'[c]) : f.fn # "CancelTail"
        BY <2>4, <2>5, <2>7
      <3>2. QED BY <1>3, <1>6, <2>7, <3>1, StaysCalm
    <2>9. /\ \A u \in Thread : LendsOn(u) <=> state[u] = "SLEEPING"
          /\ \A u \in Thread \ {c} : LendsOn(u)' <=> LendsOn(u)
          /\ LendsOn(c)' /\ ~LendsOn(c)
      <3>1. \A u \in Thread : LendsOn(u) <=> state[u] = "SLEEPING"
        BY <1>3, BareLends
      <3>2. ASSUME NEW u \in Thread \ {c} PROVE LendsOn(u)' <=> LendsOn(u)
        <4>1. stack'[u] = stack[u] /\ \A f \in ToSet(stack[u]) : f.fn # "LockSleep"
          BY <1>3, <1>6, <2>7 DEF Bare
        <4>2. QED BY <1>1, <2>8, <3>1, <4>1 DEF LendsOn
      <3>3. LendsOn(c)'
        BY <2>4, <2>5, <2>7 DEF LendsOn
      <3>4. ~LendsOn(c)
        BY <1>2, <1>4, <3>1
      <3>5. QED BY <3>1, <3>2, <3>3, <3>4
    <2>10. \A t \in Thread, u \in Thread :
              u \in Lenders(t)' <=> u \in Lenders(t) \/ (u = c /\ t = o)
      <3>1. ASSUME NEW t \in Thread, NEW u \in Thread
            PROVE  u \in Lenders(t)' <=> u \in Lenders(t) \/ (u = c /\ t = o)
        <4>1. CASE u = c
          BY <1>8, <2>1, <2>7, <2>9, <4>1, Constants DEF Lenders
        <4>2. CASE u # c
          BY <1>8, <2>7, <2>9, <4>2 DEF Lenders
        <4>3. QED BY <4>1, <4>2
      <3>2. QED BY <3>1
    <2>11. Sleeps'
      <3>1. ASSUME NEW t \in Thread PROVE SleepOK(t)'
        <4>1. CASE t = c
          BY <1>1, <1>2, <1>4, <4>1 DEF SleepOK
        <4>2. CASE t # c
          BY <1>1, <1>2, <1>3, <2>7, <4>2, SleepStill DEF Sleeps
        <4>3. QED BY <4>1, <4>2
      <3>2. QED BY <3>1 DEF Sleeps
    <2>12. \A t \in Thread : Live(t)' => Live(t)
      BY <1>1 DEF Live, Dead
    <2>13. ASSUME NEW t \in Thread, Live(t)' PROVE SettledOne(t)'
      <3>1. CASE t # o
        <4>1. \A u \in Thread : u \in Lenders(t)' <=> u \in Lenders(t)
          BY <2>10, <3>1
        <4>2. QED BY <1>1, <1>3, <2>12, <2>13, <4>1, SettledKept
      <3>2. CASE t = o
        <4>1. Least(priority[t], Claims(t))
          BY <1>3, <2>12, <2>13 DEF Settled, SettledOne, AtRest
        <4>2. Lenders(t)' = Lenders(t) \cup {c}
          BY <2>10, <3>2 DEF Lenders
        <4>3. Claims(t)' = Claims(t) \cup {p}
          BY <1>1, <2>2, <4>2 DEF Claims
        <4>4. p <= p
          BY <2>2, Constants DEF Priority
        <4>5. Almost(t, p)'
          BY <1>1, <4>1, <4>3, <4>4 DEF Almost, Least
        <4>6. Cpu' = c
          BY <1>1, <1>4, <2>7 DEF Cpu
        <4>7. Running("__OSPromoteThread")' /\ Arg' = t /\ Head(stack'[Cpu']).prio = p
          BY <1>2, <1>4, <2>4, <2>5, <2>7, <3>2, <4>6 DEF Running, Arg
        <4>8. QED BY <4>5, <4>7 DEF SettledOne
      <3>3. QED BY <3>1, <3>2
    <2>14. Settled'
      BY <2>13 DEF Settled
    <2>15. QED BY <1>5, <2>11, <2>14 DEF PInv
  <1>9. \/ owner[m] = NULL /\ owner' = [owner EXCEPT ![m] = c] /\ Return /\ mutex' = mutex
        \/ owner' = owner /\ Return /\ mutex' = mutex
        \/ /\ owner[m] \notin {NULL, c} /\ mutex' = [mutex EXCEPT ![c] = m]
           /\ Become(<<Promote(owner[m], priority[c]), F("LockSleep", m)>>)
           /\ owner' = owner
    BY <1>4 DEF LockTurn, Acquire
  <1>10. QED BY <1>7, <1>8, <1>9

LEMMA LockSleepPrio == ASSUME KInv, KInv', EInv, PInv, LockSleep PROVE PInv'
  <1>1. /\ Running("LockSleep") /\ SleepOn(current, Arg) /\ Become(<<Reschedule, F("LockWoken", Arg)>>)
        /\ base' = base /\ priority' = priority /\ suspend' = suspend /\ mutex' = mutex
        /\ owner' = owner /\ current' = current
    BY DEF LockSleep, mutexVars
  <1>2. /\ current \in Thread /\ Arg \in Mutex /\ Stacked /\ state[current] = "RUNNING"
        /\ \A fs \in Seq(Frame) : Become(fs) => stack' = [stack EXCEPT ![current] = fs]
        /\ \A u \in Thread : ~Cancelling(u)
    BY <1>1, LockFacts
  <1>3. /\ Nested /\ Shapes /\ Sleeps /\ Settled /\ AtRest
        /\ Head(stack[current]) \in ToSet(stack[current])
        /\ Head(stack[current]).fn = "LockSleep" /\ Head(stack[current]).arg = Arg
        /\ \A d \in Thread : d # current => \A f \in ToSet(stack[d]) : f.fn # "LockSleep"
        /\ suspend[current] = 0
    BY <1>1, LockRest
  <1>4. PICK c \in Thread, m \in Mutex : c = current /\ m = Arg
    BY <1>2
  <1>5. Shapes'
    BY <1>3, LockSleepShapes
  <1>6. PICK a \in Frame, b \in Frame : a = Reschedule /\ b = F("LockWoken", m)
    BY FrameIntro
  <1>7. a.fn = "__OSReschedule" /\ b.fn = "LockWoken"
    BY <1>6, FrameIntro
  <1>8. PICK s \in Seq(Frame) : s = <<a, b>> /\ ToSet(s) = {a, b}
    <2>1. <<a, b>> \in Seq(Frame) /\ ToSet(<<a, b>>) = {a, b}
      BY Stacks
    <2>2. QED BY <2>1
  <1>9. stack' = [stack EXCEPT ![c] = s]
    BY <1>1, <1>2, <1>4, <1>6, <1>8
  <1>10. /\ stack'[c] = s /\ \A d \in Thread \ {c} : stack'[d] = stack[d]
    BY <1>2, <1>9 DEF Stacked, Context
  <1>11. mutex[c] = m
    <2>1. FrameShape(c, stack[c], Head(stack[c]))
      BY <1>3, <1>4 DEF Shapes, Shape
    <2>2. QED BY <1>3, <1>4, <2>1 DEF FrameShape
  <1>12. /\ state' = [state EXCEPT ![c] = "SLEEPING"] /\ queue' = [queue EXCEPT ![c] = m]
         /\ \A u \in Thread \ {c} : state'[u] = state[u] /\ queue'[u] = queue[u]
         /\ state'[c] = "SLEEPING" /\ queue'[c] = m
    BY <1>1, <1>4, StateTypes DEF SleepOn, KInv, TypeOK
  <1>13. Bare'
    <2>1. ASSUME NEW d \in Thread, NEW f \in ToSet(stack'[d]) PROVE f.fn \notin {"LockSleep", "CancelTail"}
      <3>1. CASE d = c
        BY <1>7, <1>8, <1>10, <3>1
      <3>2. CASE d # c
        <4>1. f \in ToSet(stack[d]) /\ d # current
          BY <1>4, <1>10, <3>2
        <4>2. f.fn # "CancelTail"
          BY <1>4, <4>1, StateTypes DEF KInv, StackInv, Cancels
        <4>3. QED BY <1>3, <4>1, <4>2
      <3>3. QED BY <3>1, <3>2
    <2>2. QED BY <2>1 DEF Bare
  <1>14. \A u \in Thread : ~Cancelling(u)' /\ (LendsOn(u)' <=> state'[u] = "SLEEPING")
    BY <1>13, BareLendsNext
  <1>15. ASSUME NEW u \in Thread PROVE LendsOn(u)' <=> LendsOn(u)
    <2>1. CASE u = c
      <3>1. LendsOn(u)
        BY <1>3, <1>4, <2>1 DEF LendsOn
      <3>2. QED BY <1>12, <1>14, <2>1, <3>1
    <2>2. CASE u # c
      BY <1>2, <1>3, <1>4, <1>12, <1>14, <2>2 DEF LendsOn
    <2>3. QED BY <2>1, <2>2
  <1>16. Sleeps'
    <2>1. ASSUME NEW t \in Thread PROVE SleepOK(t)'
      <3>1. CASE t = c
        BY <1>1, <1>3, <1>4, <1>11, <1>12, <3>1 DEF SleepOK
      <3>2. CASE t # c
        <4>1. SleepOK(t)
          BY <1>3 DEF Sleeps
        <4>2. QED BY <1>1, <1>2, <1>12, <3>2, <4>1, SleepStill
      <3>3. QED BY <3>1, <3>2
    <2>2. QED BY <2>1 DEF Sleeps
  <1>17. \A t \in Thread : Live(t)' => Live(t)
    <2>1. ASSUME NEW t \in Thread, Live(t)' PROVE Live(t)
      <3>1. CASE t = c
        BY <1>2, <1>3, <1>4, <3>1 DEF Live, Dead
      <3>2. CASE t # c
        BY <1>1, <1>12, <2>1, <3>2 DEF Live, Dead
      <3>3. QED BY <3>1, <3>2
    <2>2. QED BY <2>1
  <1>18. Settled'
    <2>1. \A u \in Thread : mutex[u] \in Mutex \cup {NULL}
      BY StateTypes DEF KInv
    <2>2. QED BY <1>1, <1>3, <1>15, <1>17, <2>1, LentKept
  <1>19. QED BY <1>5, <1>16, <1>18 DEF PInv

LEMMA LockWokenPrio == ASSUME KInv, KInv', EInv, PInv, LockWoken PROVE PInv'
  <1>1. /\ Running("LockWoken") /\ mutex' = [mutex EXCEPT ![current] = NULL]
        /\ Become(<<F("OSLockMutex", Arg)>>)
        /\ base' = base /\ priority' = priority /\ suspend' = suspend /\ state' = state
        /\ queue' = queue /\ owner' = owner
    BY DEF LockWoken, mutexVars
  <1>2. /\ current \in Thread /\ Arg \in Mutex /\ Stacked /\ state[current] = "RUNNING"
        /\ \A fs \in Seq(Frame) : Become(fs) => stack' = [stack EXCEPT ![current] = fs]
        /\ \A u \in Thread : ~Cancelling(u)
    BY <1>1, LockFacts
  <1>3. Nested /\ Shapes /\ Sleeps /\ Settled /\ AtRest /\ Bare
    BY <1>1, LockRest
  <1>4. PICK c \in Thread, m \in Mutex : c = current /\ m = Arg
    BY <1>2
  <1>5. Shapes'
    BY <1>3, LockWokenShapes
  <1>6. PICK a \in Frame : a = F("OSLockMutex", m) /\ a.fn = "OSLockMutex"
    BY FrameIntro
  <1>7. PICK s \in Seq(Frame) : s = <<a>> /\ ToSet(s) = {a}
    <2>1. <<a>> \in Seq(Frame) /\ ToSet(<<a>>) = {a}
      BY Stacks
    <2>2. QED BY <2>1
  <1>8. stack' = [stack EXCEPT ![c] = s]
    BY <1>1, <1>2, <1>4, <1>6, <1>7
  <1>9. /\ stack'[c] = s /\ \A d \in Thread \ {c} : stack'[d] = stack[d]
        /\ \A d \in Thread \ {c} : mutex'[d] = mutex[d]
    BY <1>1, <1>2, <1>4, <1>8, StateTypes DEF Stacked, Context, KInv
  <1>10. Bare'
    <2>1. c \in Context /\ \A f \in ToSet(stack'[c]) : f.fn \notin {"LockSleep", "CancelTail"}
      BY <1>6, <1>7, <1>9 DEF Context
    <2>2. QED BY <1>3, <1>9, <2>1, BareStep
  <1>11. Sleeps'
    <2>1. ASSUME NEW t \in Thread PROVE SleepOK(t)'
      <3>1. CASE t = c
        BY <1>1, <1>2, <1>4, <3>1 DEF SleepOK
      <3>2. CASE t # c
        <4>1. SleepOK(t)
          BY <1>3 DEF Sleeps
        <4>2. QED BY <1>1, <1>2, <1>9, <3>2, <4>1, SleepStill
      <3>3. QED BY <3>1, <3>2
    <2>2. QED BY <2>1 DEF Sleeps
  <1>12. \A t \in Thread : Live(t)' => Live(t)
    BY <1>1 DEF Live, Dead
  <1>13. ASSUME NEW u \in Thread, NEW t \in Thread PROVE SleepsFor(u, t)' <=> SleepsFor(u, t)
    <2>1. CASE u = c
      BY <1>1, <1>2, <1>4, <2>1 DEF SleepsFor
    <2>2. CASE u # c
      BY <1>1, <1>9, <2>2 DEF SleepsFor
    <2>3. QED BY <2>1, <2>2
  <1>14. Settled'
    BY <1>1, <1>3, <1>10, <1>12, <1>13, QuietStep
  <1>15. QED BY <1>5, <1>11, <1>14 DEF PInv

(* One turn of either priority loop: nobody starts or stops lending, and   *)
(* only t may get another priority.                                        *)
LEMMA LoopLends ==
    ASSUME KInv, KInv', EInv, PInv, NEW fn \in {"UpdatePriority", "__OSPromoteThread"}, Running(fn),
           NEW t \in Thread, NEW p \in Priority, NEW n,
           \/ n = Tail(stack[Cpu])
           \/ \E f \in Frame : f.fn = fn /\ f.prio \in Priority /\ n = <<f>> \o Tail(stack[Cpu]),
           stack' = [stack EXCEPT ![Cpu] = n],
           \/ UNCHANGED <<queueVars, priority, queue>>
           \/ suspend[t] = 0 /\ SetEffectivePriority(t, p),
           UNCHANGED <<state, detached, base, suspend, mutex, active, mutexVars, current>>
    PROVE  /\ Sleeps' /\ \A x \in Thread : (Live(x)' <=> Live(x)) /\ (Dead(x)' <=> Dead(x))
           /\ \A x \in Thread : Lenders(x)' = Lenders(x)
           /\ \A x \in Thread : x # t => priority'[x] = priority[x]
           /\ \A x \in Thread : t \notin Lenders(x) => Claims(x)' = Claims(x)
           /\ t \notin Lenders(t)
           /\ priority' = priority \/ (Live(t) => priority'[t] = p)
  <1>1. /\ base' = base /\ mutex' = mutex /\ owner' = owner /\ state' = state /\ suspend' = suspend
        /\ current' = current /\ lock' = lock
    BY DEF mutexVars
  <1>2. TypeOK /\ Shapes /\ Sleeps
    BY DEF KInv, PInv
  <1>3. Cancelling(t) => state[t] = "SLEEPING" /\ queue[t] = NULL
    BY CancelledApart
  <1>4. (hint => hint') /\ \A u \in Thread : Cancelling(u) => queue'[u] = queue[u]
    <2>1. CASE UNCHANGED <<queueVars, priority, queue>>
      BY <2>1 DEF queueVars
    <2>2. CASE suspend[t] = 0 /\ SetEffectivePriority(t, p)
      BY <1>2, <1>3, <2>2, EffectiveSet
    <2>3. QED BY <2>1, <2>2
  <1>5. \A u \in Thread : Cancelling(u)' <=> Cancelling(u)
    BY <1>1, <1>4, PriorityFrames
  <1>6. /\ \A x \in Thread : x # t => priority'[x] = priority[x]
        /\ priority' = priority \/ (~Dead(t) => priority'[t] = p)
        /\ \A x \in Thread : state[x] = "SLEEPING" => queue'[x] = queue[x]
        /\ \A x \in Thread : suspend[x] > 0 => priority'[x] = priority[x]
    <2>1. CASE UNCHANGED <<queueVars, priority, queue>>
      BY <2>1
    <2>2. CASE suspend[t] = 0 /\ SetEffectivePriority(t, p)
      <3>1. /\ priority \in [Thread -> Nat] /\ queue \in [Thread -> WaitQueue \cup Priority \cup {NULL}]
            /\ suspend \in [Thread -> Nat]
        BY StateTypes DEF KInv, TypeOK
      <3>2. \/ priority' = [priority EXCEPT ![t] = p] /\ queue' = queue
            \/ priority' = priority /\ queue' = queue /\ Dead(t)
            \/ /\ priority' = [priority EXCEPT ![t] = p] /\ queue' = [queue EXCEPT ![t] = p]
               /\ state[t] = "READY"
        BY <2>2 DEF SetEffectivePriority, Dead
      <3>3. ~(suspend[t] > 0)
        BY <2>2
      <3>4. QED BY <3>1, <3>2, <3>3
    <2>3. QED BY <2>1, <2>2
  <1>7. \A u \in Thread : LendsOn(u)' <=> LendsOn(u)
    <2>1. /\ Stacked /\ Cpu \in Context /\ stack[Cpu] \in Seq(Frame) /\ stack[Cpu] # << >>
          /\ Head(stack[Cpu]).fn = fn /\ Tail(stack[Cpu]) \in Seq(Frame)
          /\ ToSet(stack[Cpu]) = ToSet(Tail(stack[Cpu])) \cup {Head(stack[Cpu])}
      BY InnerFacts DEF Inner
    <2>2. PICK e \in Context, s \in Seq(Frame), r \in Seq(Frame) : e = Cpu /\ s = stack[e] /\ r = Tail(s)
      BY <2>1
    <2>3. \A f \in ToSet(n) : f \in ToSet(s) \/ f.fn # "LockSleep"
      <3>1. CASE n = r
        BY <2>1, <2>2, <3>1
      <3>2. ASSUME NEW f \in Frame, f.fn = fn, n = <<f>> \o r
            PROVE  \A g \in ToSet(n) : g \in ToSet(s) \/ g.fn # "LockSleep"
        <4>1. ToSet(n) = ToSet(r) \cup {f}
          BY <3>2, PushedTail
        <4>2. QED BY <2>1, <2>2, <3>2, <4>1
      <3>3. QED BY <2>2, <3>1, <3>2
    <2>4. \A f \in ToSet(s) : f \in ToSet(n) \/ f.fn # "LockSleep"
      <3>1. CASE n = r
        BY <2>1, <2>2, <3>1
      <3>2. ASSUME NEW f \in Frame, f.fn = fn, n = <<f>> \o r
            PROVE  \A g \in ToSet(s) : g \in ToSet(n) \/ g.fn # "LockSleep"
        <4>1. ToSet(n) = ToSet(r) \cup {f}
          BY <3>2, PushedTail
        <4>2. QED BY <2>1, <2>2, <3>2, <4>1
      <3>3. QED BY <2>2, <3>1, <3>2
    <2>5. stack'[e] = n /\ \A d \in Context \ {e} : stack'[d] = stack[d]
      BY <2>1, <2>2 DEF Stacked
    <2>6. \A u \in Thread : (\E f \in ToSet(stack'[u]) : f.fn = "LockSleep")
                               <=> (\E f \in ToSet(stack[u]) : f.fn = "LockSleep")
      <3>1. ASSUME NEW u \in Thread
            PROVE  (\E f \in ToSet(stack'[u]) : f.fn = "LockSleep")
                      <=> (\E f \in ToSet(stack[u]) : f.fn = "LockSleep")
        <4>1. CASE u = e
          BY <2>2, <2>3, <2>4, <2>5, <4>1
        <4>2. CASE u # e
          BY <2>5, <4>2 DEF Context
        <4>3. QED BY <4>1, <4>2
      <3>2. QED BY <3>1
    <2>7. QED BY <1>1, <1>5, <2>6 DEF LendsOn
  <1>8. \A x \in Thread : Lenders(x)' = Lenders(x)
    BY <1>1, <1>7 DEF Lenders
  <1>9. ASSUME NEW x \in Thread, t \notin Lenders(x) PROVE Claims(x)' = Claims(x)
    <2>1. \A u \in Lenders(x) : priority'[u] = priority[u]
      BY <1>6, <1>9 DEF Lenders
    <2>2. QED BY <1>1, <1>8, <2>1 DEF Claims
  <1>10. t \notin Lenders(t)
    BY <1>2, LenderFacts
  <1>11. Sleeps'
    <2>1. ASSUME NEW x \in Thread PROVE SleepOK(x)'
      <3>1. SleepOK(x)
        BY <1>2 DEF Sleeps
      <3>2. QED BY <1>1, <1>5, <1>6, <3>1, SleepStill
    <2>2. QED BY <2>1 DEF Sleeps
  <1>12. \A x \in Thread : (Live(x)' <=> Live(x)) /\ (Dead(x)' <=> Dead(x))
    BY <1>1 DEF Live, Dead
  <1>13. QED BY <1>6, <1>8, <1>9, <1>10, <1>11, <1>12 DEF Live

(* The loop of UpdatePriority goes on with the only thread it unsettles.   *)
LEMMA UpdatePrio == ASSUME KInv, KInv', EInv, PInv, UpdatePriority PROVE PInv'
  <1>1. /\ Running("UpdatePriority") /\ mutex' = mutex /\ current' = current
        /\ UNCHANGED <<state, detached, base, suspend, mutex, active, mutexVars, current>>
        /\ TypeOK /\ Nested /\ Shapes /\ Sleeps /\ Settled
    BY DEF UpdatePriority, KInv, EInv, PInv
  <1>2. PICK t \in Thread : t = Arg
    BY DEF UpdatePriority
  <1>3. PICK p \in Priority : p = EffectivePriority(t, held[t], waiters)
    <2>1. held[t] \in Seq(Mutex) /\ waiters \in [WaitQueue -> Seq(Thread)]
      BY <1>1 DEF TypeOK
    <2>2. QED BY <1>1, <2>1, EffectiveOK
  <1>4. PICK k \in Thread \cup {NULL} : k = NextInChain(t)
    BY <1>1, NextType
  <1>5. /\ Stacked /\ StackInv /\ Cpu # NULL /\ Cpu \in Context
        /\ stack[Cpu] \in Seq(Frame) /\ stack[Cpu] # << >>
        /\ Head(stack[Cpu]) \in Frame /\ Head(stack[Cpu]) \in ToSet(stack[Cpu])
        /\ Head(stack[Cpu]).fn = "UpdatePriority" /\ Tail(stack[Cpu]) \in Seq(Frame)
        /\ ToSet(stack[Cpu]) = ToSet(Tail(stack[Cpu])) \cup {Head(stack[Cpu])}
        /\ Cpu = Isr => (current # NULL => current \in Thread /\ stack[current] = << >>)
        /\ Cpu # Isr => Cpu = current /\ current \in Thread /\ stack[Isr] = << >>
    BY <1>1, InnerFacts DEF Inner
  <1>6. PICK e \in Context, s \in Seq(Frame), r \in Seq(Frame), h \in Frame :
           /\ e = Cpu /\ s = stack[e] /\ r = Tail(s) /\ h = Head(s)
    BY <1>5
  <1>7. /\ h.fn = "UpdatePriority" /\ h \in ToSet(s) /\ ToSet(s) = ToSet(r) \cup {h}
    BY <1>5, <1>6
  <1>8. \/ /\ suspend[t] > 0 \/ priority[t] = p
           /\ stack' = [stack EXCEPT ![e] = r] /\ UNCHANGED <<queueVars, priority, queue>>
        \/ /\ suspend[t] = 0 /\ SetEffectivePriority(t, p)
           /\ \/ k = NULL /\ stack' = [stack EXCEPT ![e] = r]
              \/ k # NULL /\ stack' = [stack EXCEPT ![e] = <<F("UpdatePriority", k)>> \o r]
    <2>1. suspend[t] \in Nat
      BY <1>1, StateTypes
    <2>2. QED BY <1>2, <1>3, <1>4, <1>6, <2>1 DEF UpdatePriority, Return, Become
  <1>9. Unslept
    <2>1. SUFFICES ASSUME NEW c \in Thread, NEW f \in ToSet(stack[c]), f.fn = "LockSleep"
                   PROVE  FALSE
      BY DEF Unslept
    <2>2. c = current /\ c # NULL /\ \A g \in ToSet(stack[c]) : g.fn \in {"__OSPromoteThread", "LockSleep"}
      BY <1>5, <2>1, Constants DEF StackInv, Locks, LockFrame
    <2>3. CASE Cpu = Isr
      BY <1>5, <2>1, <2>2, <2>3, Tails
    <2>4. CASE Cpu # Isr
      BY <1>5, <2>2, <2>4
    <2>5. QED BY <2>3, <2>4
  <1>10. Least(p, Claims(t))
    BY <1>1, <1>3, <1>9, EffectiveClaims
  <1>11. \A x \in Thread : x # t /\ Live(x) => Least(priority[x], Claims(x))
    <2>1. ~Running("__OSPromoteThread")
      BY <1>5 DEF Running
    <2>2. QED BY <1>1, <1>2, <2>1 DEF Settled, SettledOne
  <1>12. /\ "UpdatePriority" \in {"UpdatePriority", "__OSPromoteThread"}
         /\ UNCHANGED <<queueVars, priority, queue>> \/ (suspend[t] = 0 /\ SetEffectivePriority(t, p))
    BY <1>8
  <1>13. CASE stack' = [stack EXCEPT ![e] = r]
              /\ \/ priority[t] = p /\ UNCHANGED priority
                 \/ suspend[t] > 0 /\ UNCHANGED priority
                 \/ SetEffectivePriority(t, p) /\ k = NULL
    <2>1. PICK n : n = Tail(stack[Cpu])
      OBVIOUS
    <2>2. stack' = [stack EXCEPT ![Cpu] = n]
      BY <1>6, <1>13, <2>1
    <2>3. /\ Sleeps' /\ \A x \in Thread : (Live(x)' <=> Live(x)) /\ (Dead(x)' <=> Dead(x))
          /\ \A x \in Thread : Lenders(x)' = Lenders(x)
          /\ \A x \in Thread : x # t => priority'[x] = priority[x]
          /\ \A x \in Thread : t \notin Lenders(x) => Claims(x)' = Claims(x)
          /\ t \notin Lenders(t)
          /\ priority' = priority \/ (Live(t) => priority'[t] = p)
      BY <1>1, <1>12, <2>1, <2>2, LoopLends
    <2>4. Shapes'
      <3>1. Return
        BY <2>1, <2>2 DEF Return
      <3>2. QED BY <1>1, <1>5, <2>3, <3>1, ReturnShapes
    <2>5. Live(t) => priority'[t] = p
      <3>1. CASE UNCHANGED <<queueVars, priority, queue>>
        <4>1. CASE priority[t] = p
          BY <3>1, <4>1
        <4>2. CASE suspend[t] > 0
          BY <4>2 DEF Live
        <4>3. CASE SetEffectivePriority(t, p)
          <5>1. ~Dead(t) => priority'[t] = p
            BY <1>1, <4>3 DEF SetEffectivePriority, Dead, TypeOK
          <5>2. QED BY <5>1 DEF Live
        <4>4. QED BY <1>13, <4>1, <4>2, <4>3
      <3>2. CASE suspend[t] = 0 /\ SetEffectivePriority(t, p)
        <4>1. ~Dead(t) => priority'[t] = p
          BY <1>1, <3>2 DEF SetEffectivePriority, Dead, TypeOK
        <4>2. QED BY <4>1 DEF Live
      <3>3. QED BY <1>12, <3>1, <3>2
    <2>6. ASSUME NEW x \in Thread, Live(x) PROVE Least(priority[x], Claims(x))'
      <3>1. CASE x = t
        <4>1. Claims(x)' = Claims(x) /\ priority'[x] = p
          BY <2>3, <2>5, <2>6, <3>1
        <4>2. QED BY <1>10, <3>1, <4>1 DEF Least
      <3>2. CASE x # t
        <4>1. Claims(x)' = Claims(x)
          <5>1. CASE UNCHANGED <<queueVars, priority, queue>>
            BY <1>1, <2>3, <5>1 DEF Claims
          <5>2. CASE suspend[t] = 0 /\ SetEffectivePriority(t, p)
            <6>1. CASE priority' = priority
              BY <1>1, <2>3, <6>1 DEF Claims
            <6>2. CASE priority' # priority
              <7>1. k = NULL
                BY <1>13, <6>2
              <7>2. t \notin Lenders(x)
                BY <1>4, <1>9, <7>1, Constants DEF Lenders, LendsOn, Unslept, NextInChain
              <7>3. QED BY <2>3, <7>2
            <6>3. QED BY <6>1, <6>2
          <5>3. QED BY <1>12, <5>1, <5>2
        <4>2. QED BY <1>11, <2>3, <2>6, <3>2, <4>1 DEF Least
      <3>3. QED BY <3>1, <3>2
    <2>7. Settled'
      BY <2>3, <2>6 DEF Settled, SettledOne
    <2>8. QED BY <2>3, <2>4, <2>7 DEF PInv
  <1>14. CASE /\ suspend[t] = 0 /\ SetEffectivePriority(t, p) /\ k # NULL
              /\ stack' = [stack EXCEPT ![e] = <<F("UpdatePriority", k)>> \o r]
    <2>1. PICK g \in Frame : /\ g = F("UpdatePriority", k) /\ g.fn = "UpdatePriority" /\ g.arg = k
                             /\ g.prio \in Priority
      BY <1>4, FrameIntro, Constants DEF F
    <2>2. PICK n \in Seq(Frame) : /\ n = <<g>> \o r /\ n # << >> /\ Head(n) = g /\ Tail(n) = r
                                  /\ ToSet(n) = ToSet(r) \cup {g}
      BY PushedTail
    <2>3. /\ stack' = [stack EXCEPT ![Cpu] = n]
          /\ \E f \in Frame : f.fn = "UpdatePriority" /\ f.prio \in Priority
                              /\ n = <<f>> \o Tail(stack[Cpu])
      BY <1>6, <1>14, <2>1, <2>2
    <2>4. /\ Sleeps' /\ \A x \in Thread : (Live(x)' <=> Live(x)) /\ (Dead(x)' <=> Dead(x))
          /\ \A x \in Thread : Lenders(x)' = Lenders(x)
          /\ \A x \in Thread : x # t => priority'[x] = priority[x]
          /\ \A x \in Thread : t \notin Lenders(x) => Claims(x)' = Claims(x)
          /\ t \notin Lenders(t)
      BY <1>1, <1>12, <2>3, LoopLends
    <2>5. Shapes'
      <3>1. Cpu # Isr =>
              /\ \A f \in ToSet(Tail(stack[Cpu])) : f.fn # "UpdatePriority" /\ ~WakesMutex(f)
              /\ Head(stack[Cpu]).fn = "UpdatePriority" =>
                    \E f \in ToSet(Tail(stack[Cpu])) : f.fn \in {"__OSReschedule", "CancelTail"}
        BY <1>1, <1>5, TurnHead
      <3>2. ~WakesMutex(g)
        BY <2>1 DEF WakesMutex
      <3>3. Cpu # Isr /\ n # << >> =>
              /\ \A f \in ToSet(Tail(n)) : f.fn # "UpdatePriority" /\ ~WakesMutex(f)
              /\ WakesMutex(Head(n)) => owner'[Head(n).arg] = NULL
              /\ Head(n).fn = "UpdatePriority" =>
                    \E f \in ToSet(Tail(n)) : f.fn \in {"__OSReschedule", "CancelTail"}
        BY <1>5, <1>6, <2>2, <3>1, <3>2
      <3>4. \A f \in ToSet(n) : \/ f \in ToSet(stack[Cpu])
                                \/ f.fn \in {"UpdatePriority", "OSWakeupThread", "__OSReschedule"}
                                \/ f.fn = "__OSUnlockAllMutex" /\ Dead(f.arg)'
        BY <1>6, <1>7, <2>1, <2>2
      <3>5. ToSet(Tail(stack[Cpu])) \subseteq ToSet(n)
        BY <1>6, <2>2
      <3>6. Head(stack[Cpu]).fn \notin {"OSLockMutex", "LockSleep", "LockWoken", "__OSPromoteThread"}
        BY <1>5
      <3>7. QED BY <1>1, <1>5, <2>3, <2>4, <3>3, <3>4, <3>5, <3>6, TurnShapes
    <2>6. ~Dead(t) => priority'[t] = p
      BY <1>1, <1>14 DEF SetEffectivePriority, Dead, TypeOK
    <2>7. Cpu' = e /\ stack'[e] = n
      <3>1. stack'[e] = n /\ \A d \in Context \ {e} : stack'[d] = stack[d]
        BY <1>5, <1>6, <2>3 DEF Stacked
      <3>2. CASE e = Isr
        BY <2>2, <3>1, <3>2 DEF Cpu
      <3>3. CASE e # Isr
        <4>1. stack'[Isr] = << >>
          BY <1>5, <1>6, <3>1, <3>3 DEF Context
        <4>2. QED BY <1>1, <1>5, <1>6, <3>1, <3>3, <4>1 DEF Cpu
      <3>4. QED BY <3>1, <3>2, <3>3
    <2>8. Running("UpdatePriority")' /\ Arg' = k
      BY <1>5, <1>6, <2>1, <2>2, <2>7 DEF Running, Arg
    <2>9. ASSUME NEW x \in Thread, Live(x) PROVE SettledOne(x)'
      <3>1. CASE x = t
        <4>1. Claims(x)' = Claims(x) /\ priority'[x] = p
          BY <2>4, <2>6, <2>9, <3>1 DEF Live
        <4>2. Least(priority[x], Claims(x))'
          BY <1>10, <3>1, <4>1 DEF Least
        <4>3. QED BY <4>2 DEF SettledOne
      <3>2. CASE x # t /\ t \notin Lenders(x)
        <4>1. Least(priority[x], Claims(x))'
          BY <1>11, <2>4, <2>9, <3>2 DEF Least
        <4>2. QED BY <4>1 DEF SettledOne
      <3>3. CASE t \in Lenders(x)
        <4>1. x = k
          BY <1>4, <1>9, <3>3 DEF Lenders, LendsOn, Unslept, NextInChain
        <4>2. QED BY <2>8, <4>1 DEF SettledOne
      <3>4. QED BY <3>1, <3>2, <3>3
    <2>10. Settled'
      BY <2>4, <2>9 DEF Settled
    <2>11. QED BY <2>4, <2>5, <2>10 DEF PInv
  <1>15. QED BY <1>8, <1>13, <1>14

(* The loop of __OSPromoteThread stops at a thread that has no less, and   *)
(* goes on with the one other thread that the priority it carries unsettles. *)
LEMMA PromotePrio == ASSUME KInv, KInv', EInv, PInv, PromoteThread PROVE PInv'
  <1>1. /\ Running("__OSPromoteThread") /\ base' = base /\ state' = state /\ current' = current
        /\ UNCHANGED <<state, detached, base, suspend, mutex, active, mutexVars, current>>
        /\ TypeOK /\ Nested /\ Shapes /\ Sleeps /\ Settled
    BY DEF PromoteThread, KInv, EInv, PInv
  <1>2. PICK t \in Thread, c \in Thread, p \in Priority, m \in Mutex, b \in Frame :
           /\ t = Arg /\ c = current /\ p = priority[c] /\ m = mutex[c] /\ b = F("LockSleep", m)
           /\ stack[c] = <<Promote(t, p), b>> /\ p \in Claims(t)
           /\ \/ /\ PromoteEnds(t, p) /\ stack' = [stack EXCEPT ![c] = <<b>>]
                 /\ UNCHANGED <<queueVars, priority, queue>>
              \/ /\ ~PromoteEnds(t, p) /\ t # c /\ SetEffectivePriority(t, p)
                 /\ \/ NextInChain(t) = NULL /\ stack' = [stack EXCEPT ![c] = <<b>>]
                    \/ /\ NextInChain(t) \in Thread
                       /\ stack' = [stack EXCEPT ![c] = <<Promote(NextInChain(t), p), b>>]
    BY <1>1, PromoteTurn
  <1>3. PICK k \in Thread \cup {NULL} : k = NextInChain(t)
    BY <1>1, NextType
  <1>4. PICK h \in Frame : h = Promote(t, p) /\ h.prio = p
    BY FrameIntro, Constants DEF Priority
  <1>5. /\ Cpu = c /\ stack[Isr] = << >> /\ Stacked /\ c \in Context /\ Isr \in Context /\ c # Isr
        /\ c # NULL /\ stack[Cpu] = <<h, b>>
    BY <1>1, <1>2, <1>4, PromoteFacts, Constants DEF Context
  <1>6. Tail(stack[Cpu]) = <<b>> /\ Head(stack[Cpu]) = h
    BY <1>5, Tails
  <1>7. \A x \in Thread : priority[x] \in Nat /\ base[x] \in Nat /\ suspend[x] \in Nat
    BY <1>1, StateTypes, Constants DEF Priority
  <1>8. p \in Nat
    BY Constants DEF Priority
  <1>9. \A x \in Thread : \A r \in Claims(x) : r \in Nat
    BY <1>7 DEF Claims, Lenders
  <1>10. /\ \A x \in Thread : x # t /\ Live(x) => Least(priority[x], Claims(x))
         /\ Live(t) => Almost(t, p) \/ Least(priority[t], Claims(t))
    BY <1>1, <1>2, <1>4, <1>6 DEF Settled, SettledOne, Running
  <1>11. Shapes'
    BY <1>1, PromoteShapes
  <1>12. /\ UNCHANGED <<queueVars, priority, queue>> \/ (suspend[t] = 0 /\ SetEffectivePriority(t, p))
         /\ ~PromoteEnds(t, p) => suspend[t] = 0 /\ p < priority[t]
    BY <1>2, <1>7, <1>8 DEF PromoteEnds
  <1>13. LendsOn(t) /\ t # c => state[t] = "SLEEPING"
    <2>1. StackInv
      BY DEF KInv
    <2>2. QED BY <1>2, <2>1 DEF StackInv, Locks, LendsOn
  <1>14. CASE /\ stack' = [stack EXCEPT ![c] = <<b>>]
              /\ \/ PromoteEnds(t, p) /\ UNCHANGED <<queueVars, priority, queue>>
                 \/ ~PromoteEnds(t, p) /\ t # c /\ SetEffectivePriority(t, p) /\ k = NULL
    <2>1. PICK n : n = <<b>>
      OBVIOUS
    <2>2. n = Tail(stack[Cpu]) /\ stack' = [stack EXCEPT ![Cpu] = n]
      BY <1>5, <1>6, <1>14, <2>1
    <2>3. /\ Sleeps' /\ \A x \in Thread : (Live(x)' <=> Live(x)) /\ (Dead(x)' <=> Dead(x))
          /\ \A x \in Thread : Lenders(x)' = Lenders(x)
          /\ \A x \in Thread : x # t => priority'[x] = priority[x]
          /\ \A x \in Thread : t \notin Lenders(x) => Claims(x)' = Claims(x)
          /\ t \notin Lenders(t)
      BY <1>1, <1>12, <2>2, LoopLends
    <2>4. ASSUME NEW x \in Thread, Live(x) PROVE Least(priority[x], Claims(x))'
      <3>1. CASE PromoteEnds(t, p) /\ priority' = priority
        <4>1. Claims(x)' = Claims(x)
          BY <1>1, <2>3, <3>1 DEF Claims
        <4>2. Least(priority[x], Claims(x))
          <5>1. CASE x # t
            BY <1>10, <2>4, <5>1
          <5>2. CASE x = t /\ Almost(t, p)
            <6>1. priority[t] <= p
              BY <1>7, <2>4, <3>1, <5>2 DEF PromoteEnds, Live
            <6>2. \A r \in Claims(t) : priority[t] <= r
              BY <1>7, <1>8, <1>9, <5>2, <6>1 DEF Almost
            <6>3. priority[t] \in Claims(t)
              <7>1. CASE p <= priority[t]
                BY <1>2, <1>7, <1>8, <6>1, <7>1
              <7>2. QED BY <5>2, <7>1 DEF Almost
            <6>4. QED BY <5>2, <6>2, <6>3 DEF Least
          <5>3. QED BY <1>10, <2>4, <5>1, <5>2
        <4>3. QED BY <3>1, <4>1, <4>2 DEF Least
      <3>2. CASE ~PromoteEnds(t, p) /\ t # c /\ SetEffectivePriority(t, p) /\ k = NULL
        <4>1. t \notin Lenders(x)
          BY <1>3, <1>13, <3>2, Constants DEF Lenders, NextInChain
        <4>2. Claims(x)' = Claims(x)
          BY <2>3, <4>1
        <4>3. CASE x # t
          BY <1>10, <2>3, <2>4, <4>2, <4>3 DEF Least
        <4>4. CASE x = t
          <5>1. priority'[t] = p
            <6>1. ~Dead(t)
              BY <2>4, <4>4 DEF Live
            <6>2. QED BY <1>1, <3>2, <6>1 DEF SetEffectivePriority, Dead, TypeOK
          <5>2. ~Least(priority[t], Claims(t))
            BY <1>2, <1>7, <1>8, <1>12, <3>2 DEF Least
          <5>3. Almost(t, p)
            BY <1>10, <2>4, <4>4, <5>2
          <5>4. \A r \in Claims(t) : p <= r
            BY <1>7, <1>8, <1>9, <1>12, <3>2, <5>3 DEF Almost
          <5>5. QED BY <1>2, <4>2, <4>4, <5>1, <5>4 DEF Least
        <4>5. QED BY <4>3, <4>4
      <3>3. QED BY <1>14, <3>1, <3>2
    <2>5. Settled'
      BY <2>3, <2>4 DEF Settled, SettledOne
    <2>6. QED BY <1>11, <2>3, <2>5 DEF PInv
  <1>15. CASE /\ ~PromoteEnds(t, p) /\ t # c /\ SetEffectivePriority(t, p) /\ k \in Thread
              /\ stack' = [stack EXCEPT ![c] = <<Promote(k, p), b>>]
    <2>1. PICK g \in Frame : /\ g = Promote(k, p) /\ g.fn = "__OSPromoteThread" /\ g.arg = k
                             /\ g.prio = p
      BY <1>15, FrameIntro, Constants DEF Priority
    <2>2. PICK n : n = <<g, b>> /\ Head(n) = g /\ n # << >>
      BY Stacks
    <2>3. n = <<g>> \o Tail(stack[Cpu])
      BY <1>6, <2>2, Pairs
    <2>4. /\ stack' = [stack EXCEPT ![Cpu] = n]
          /\ \E f \in Frame : f.fn = "__OSPromoteThread" /\ f.prio \in Priority
                              /\ n = <<f>> \o Tail(stack[Cpu])
      BY <1>5, <1>15, <2>1, <2>2, <2>3
    <2>5. /\ Sleeps' /\ \A x \in Thread : (Live(x)' <=> Live(x)) /\ (Dead(x)' <=> Dead(x))
          /\ \A x \in Thread : Lenders(x)' = Lenders(x)
          /\ \A x \in Thread : x # t => priority'[x] = priority[x]
          /\ \A x \in Thread : t \notin Lenders(x) => Claims(x)' = Claims(x)
          /\ t \notin Lenders(t)
      BY <1>1, <1>12, <2>4, LoopLends
    <2>6. ~Dead(t) => priority'[t] = p
      BY <1>1, <1>15 DEF SetEffectivePriority, Dead, TypeOK
    <2>7. suspend[t] = 0 /\ p < priority[t]
      BY <1>12, <1>15
    <2>8. Running("__OSPromoteThread")' /\ Arg' = k /\ Head(stack'[Cpu']).prio = p
      <3>1. stack'[c] = n /\ stack'[Isr] = << >>
        BY <1>5, <2>4 DEF Stacked
      <3>2. Cpu' = c
        BY <1>1, <1>2, <3>1 DEF Cpu
      <3>3. QED BY <1>5, <2>1, <2>2, <3>1, <3>2 DEF Running, Arg
    <2>9. ASSUME NEW x \in Thread, Live(x) PROVE SettledOne(x)'
      <3>1. CASE x = t
        <4>1. Claims(t)' = Claims(t) /\ priority'[t] = p
          BY <2>5, <2>6, <2>9, <3>1 DEF Live
        <4>2. ~Least(priority[t], Claims(t))
          BY <1>2, <1>7, <1>8, <2>7 DEF Least
        <4>3. Almost(t, p)
          BY <1>10, <2>9, <3>1, <4>2
        <4>4. \A r \in Claims(t) : p <= r
          BY <1>7, <1>8, <1>9, <2>7, <4>3 DEF Almost
        <4>5. Least(priority[t], Claims(t))'
          BY <1>2, <4>1, <4>4 DEF Least
        <4>6. QED BY <3>1, <4>5 DEF SettledOne
      <3>2. CASE x # t /\ t \notin Lenders(x)
        <4>1. Least(priority[x], Claims(x))'
          BY <1>10, <2>5, <2>9, <3>2 DEF Least
        <4>2. QED BY <4>1 DEF SettledOne
      <3>3. CASE x # t /\ t \in Lenders(x)
        <4>1. x = k /\ state[t] = "SLEEPING"
          BY <1>3, <1>13, <1>15, <3>3 DEF Lenders, NextInChain
        <4>2. priority'[t] = p
          BY <2>6, <4>1 DEF Dead
        <4>3. Least(priority[x], Claims(x)) /\ priority'[x] = priority[x]
          BY <1>10, <2>5, <2>9, <3>3
        <4>4. \A r \in Claims(x)' : priority[x] <= r \/ p <= r
          <5>1. SUFFICES ASSUME NEW u \in Lenders(x)' PROVE priority[x] <= priority'[u] \/ p <= priority'[u]
            BY <1>1, <4>3 DEF Claims, Least
          <5>2. u \in Lenders(x) /\ u \in Thread
            BY <2>5 DEF Lenders
          <5>3. CASE u = t
            BY <1>8, <4>2, <5>3
          <5>4. CASE u # t
            BY <2>5, <4>3, <5>2, <5>4 DEF Least, Claims
          <5>5. QED BY <5>3, <5>4
        <4>5. priority[x] \in Claims(x)' \/ p <= priority[x]
          <5>1. priority[x] \in Claims(x)
            BY <4>3 DEF Least
          <5>2. CASE priority[x] = base[x]
            BY <1>1, <5>2 DEF Claims
          <5>3. ASSUME NEW u \in Lenders(x), priority[x] = priority[u]
                PROVE  priority[x] \in Claims(x)' \/ p <= priority[x]
            <6>1. u \in Thread /\ u \in Lenders(x)'
              BY <2>5 DEF Lenders
            <6>2. CASE u = t
              BY <1>7, <1>8, <2>7, <5>3, <6>2
            <6>3. CASE u # t
              BY <2>5, <5>3, <6>1, <6>3 DEF Claims
            <6>4. QED BY <6>2, <6>3
          <5>4. QED BY <5>1, <5>2, <5>3 DEF Claims
        <4>6. Almost(x, p)'
          BY <4>3, <4>4, <4>5 DEF Almost
        <4>7. QED BY <2>8, <4>1, <4>6 DEF SettledOne
      <3>4. QED BY <2>5, <3>1, <3>2, <3>3
    <2>10. Settled'
      BY <2>5, <2>9 DEF Settled
    <2>11. QED BY <1>11, <2>5, <2>10 DEF PInv
  <1>16. QED BY <1>2, <1>3, <1>14, <1>15, Constants

LEMMA StutterPrio == ASSUME PInv, UNCHANGED vars PROVE PInv'
  <1>1. /\ state' = state /\ base' = base /\ priority' = priority /\ suspend' = suspend
        /\ queue' = queue /\ mutex' = mutex /\ current' = current /\ stack' = stack /\ owner' = owner
    BY DEF vars, threadVars, mutexVars
  <1>2. \A t \in Thread : (LendsOn(t)' <=> LendsOn(t)) /\ (Cancelling(t)' <=> Cancelling(t))
    BY <1>1 DEF LendsOn, Cancelling, Pending
  <1>3. \A t \in Thread : Lenders(t)' = Lenders(t)
    BY <1>1, <1>2 DEF Lenders
  <1>4. \A t \in Thread : Claims(t)' = Claims(t)
    BY <1>1, <1>3 DEF Claims
  <1>5. Sleeps'
    BY <1>1, <1>2 DEF PInv, Sleeps, SleepOK
  <1>6. Shapes'
    <2>1. ASSUME NEW c \in Thread, NEW f \in ToSet(stack[c]) PROVE FrameShape(c, stack[c], f)'
      <3>1. FrameShape(c, stack[c], f)
        BY DEF PInv, Shapes, Shape
      <3>2. f.fn = "__OSPromoteThread" => f.prio \in Claims(f.arg)'
        <4>1. CASE f.arg \in Thread
          BY <1>4, <3>1, <4>1 DEF FrameShape
        <4>2. Claims(f.arg)' = Claims(f.arg)
          <5>1. Lenders(f.arg)' = Lenders(f.arg)
            BY <1>1, <1>2 DEF Lenders
          <5>2. QED BY <1>1, <5>1 DEF Claims
        <4>3. QED BY <3>1, <4>2 DEF FrameShape
      <3>3. Dead(f.arg)' <=> Dead(f.arg)
        BY <1>1 DEF Dead
      <3>4. QED BY <1>1, <3>1, <3>2, <3>3 DEF FrameShape
    <2>2. ASSUME NEW c \in Thread PROVE HeadShape(stack[c])' /\ MutexNoted(c, stack[c])'
      BY <1>1 DEF PInv, Shapes, Shape, HeadShape, MutexNoted, Dead, WakesMutex
    <2>3. QED BY <1>1, <2>1, <2>2 DEF Shapes, Shape
  <1>7. Cpu' = Cpu /\ Arg' = Arg /\ \A fn : Running(fn)' <=> Running(fn)
    BY <1>1 DEF Cpu, Arg, Running
  <1>8. ASSUME NEW t \in Thread, Live(t)' PROVE SettledOne(t)'
    <2>1. SettledOne(t)
      BY <1>1, <1>8 DEF PInv, Settled, Live, Dead
    <2>2. CASE Running("UpdatePriority") /\ Arg = t
      BY <1>7, <2>2 DEF SettledOne
    <2>3. CASE Running("__OSPromoteThread") /\ Arg = t /\ Almost(t, Head(stack[Cpu]).prio)
      BY <1>1, <1>4, <1>7, <2>3 DEF SettledOne, Almost
    <2>4. CASE Least(priority[t], Claims(t))
      BY <1>1, <1>4, <2>4 DEF SettledOne, Least
    <2>5. QED BY <2>1, <2>2, <2>3, <2>4 DEF SettledOne
  <1>9. QED BY <1>5, <1>6, <1>8 DEF PInv, Settled

LEMMA InitPrio == ASSUME Init PROVE PInv
  <1>1. /\ state = [t \in Thread |-> IF t = DefaultThread THEN "RUNNING" ELSE "EXITED"]
        /\ stack = [c \in Context |-> << >>] /\ owner = [m \in Mutex |-> NULL]
        /\ mutex = [t \in Thread |-> NULL]
        /\ base[DefaultThread] = priority[DefaultThread] /\ base[DefaultThread] \in Int
    BY Constants DEF Init, Priority
  <1>2. ToSet(<< >>) = {}
    BY Tails
  <1>3. \A c \in Thread : stack[c] = << >>
    BY <1>1 DEF Context
  <1>4. Shapes
    BY <1>1, <1>2, <1>3 DEF Shapes, Shape, HeadShape, MutexNoted
  <1>5. Sleeps
    BY <1>1 DEF Sleeps, SleepOK
  <1>6. ASSUME NEW t \in Thread, Live(t) PROVE SettledOne(t)
    <2>1. t = DefaultThread
      BY <1>1, <1>6 DEF Live, Dead
    <2>2. Lenders(t) = {}
      BY <1>1 DEF Lenders
    <2>3. Claims(t) = {base[t]}
      BY <2>2 DEF Claims
    <2>4. Least(priority[t], Claims(t))
      BY <1>1, <2>1, <2>3 DEF Least
    <2>5. QED BY <2>4 DEF SettledOne
  <1>7. QED BY <1>4, <1>5, <1>6 DEF PInv, Settled

LEMMA PrioStep == ASSUME KInv, KInv', EInv, PInv, [Next]_vars PROVE PInv'
  <1>1. /\ active \subseteq Thread /\ current \in Thread \cup {NULL}
    BY DEF KInv, TypeOK
  <1>2. CASE current # NULL /\ ThreadCall(current)
    <2>1. current \in Thread /\ current \in {current, Isr} /\ current # NULL
      BY <1>1, <1>2
    <2>2. CASE \E t \in Thread \ {current}, p \in Priority, det \in BOOLEAN :
                  OSCreateThread(current, t, p, det)
      BY <2>1, <2>2, CreatePrio
    <2>3. CASE \E q \in UserQueue : OSSleepThread(current, q)
      BY <2>1, <2>3, SleepPrio
    <2>4. CASE \E q \in UserQueue : OSWakeupThread(current, q)
      <3>1. PICK c \in {current, Isr}, q \in UserQueue : c # NULL /\ OSWakeupThread(c, q)
        BY <2>1, <2>4
      <3>2. QED BY <3>1, WakeupPrio
    <2>5. CASE OSYieldThread(current)
      BY <2>1, <2>5, YieldPrio
    <2>6. CASE \E t \in active, p \in Priority : OSSetThreadPriority(current, t, p)
      BY <1>1, <2>1, <2>6, SetPriorityPrio
    <2>7. CASE \E t \in active \cap Cancellable : OSSuspendThread(current, t)
      BY <1>1, <2>1, <2>7, SuspendPrio
    <2>8. CASE \E t \in active : OSResumeThread(current, t)
      <3>1. PICK c \in {current, Isr}, t \in Thread : c # NULL /\ OSResumeThread(c, t)
        BY <1>1, <2>1, <2>8
      <3>2. QED BY <3>1, ResumePrio
    <2>9. CASE OSExitThread(current)
      BY <2>1, <2>9, ExitPrio
    <2>10. CASE \E t \in active \cap Cancellable : OSCancelThread(current, t)
      BY <1>1, <2>1, <2>10, CancelPrio
    <2>11. CASE \E t \in active : OSJoinThread(current, t)
      BY <1>1, <2>1, <2>11, JoinPrio
    <2>12. CASE \E t \in active : OSDetachThread(current, t)
      BY <1>1, <2>1, <2>12, DetachPrio
    <2>13. CASE \E m \in Mutex : OSLockMutex(current, m)
      BY <2>1, <2>13, LockPrio
    <2>14. CASE \E m \in Mutex : OSTryLockMutex(current, m)
      BY <2>1, <2>14, TryLockPrio
    <2>15. CASE \E m \in Mutex : OSUnlockMutex(current, m)
      BY <2>1, <2>15, UnlockPrio
    <2>16. QED
      BY <1>2, <2>2, <2>3, <2>4, <2>5, <2>6, <2>7, <2>8, <2>9, <2>10, <2>11, <2>12, <2>13, <2>14, <2>15
      DEF ThreadCall
  <1>3. CASE Interrupt
    <2>1. Isr # NULL
      BY Constants
    <2>2. CASE \E q \in UserQueue : OSWakeupThread(Isr, q)
      <3>1. PICK c \in {current, Isr}, q \in UserQueue : c # NULL /\ OSWakeupThread(c, q)
        BY <2>1, <2>2
      <3>2. QED BY <3>1, WakeupPrio
    <2>3. CASE \E t \in active : OSResumeThread(Isr, t)
      <3>1. PICK c \in {current, Isr}, t \in Thread : c # NULL /\ OSResumeThread(c, t)
        BY <1>1, <2>1, <2>3
      <3>2. QED BY <3>1, ResumePrio
    <2>4. QED BY <1>3, <2>2, <2>3 DEF Interrupt
  <1>4. CASE KernelStep
    BY <1>4, WakeupTurnPrio, ReschedulePrio, YieldTailPrio, UpdatePrio, PromotePrio, ExitHintPrio,
       CancelTailPrio, JoinTailPrio, LockTurnPrio, LockSleepPrio, LockWokenPrio, UnlockAllPrio,
       IsrReturnPrio, LeaveIdlePrio
    DEF KernelStep
  <1>5. CASE UNCHANGED vars
    BY <1>5, StutterPrio
  <1>6. QED BY <1>2, <1>3, <1>4, <1>5 DEF Next

(* Between calls, who has settled has what __OSGetEffectivePriority says.  *)
LEMMA PrioExact == ASSUME KInv, PInv PROVE InheritedPriority
  <1> SUFFICES ASSUME Quiescent, NEW t \in Thread, ~Dead(t), suspend[t] = 0
               PROVE  priority[t] = EffectivePriority(t, held[t], waiters)
    BY DEF InheritedPriority
  <1>1. Bare /\ AtRest
    <2>1. Isr \in {current, Isr} /\ Isr # NULL /\ MayCall(Isr)
      BY Constants DEF Quiescent, MayCall
    <2>2. QED BY <2>1, CallRest
  <1>2. Least(priority[t], Claims(t))
    BY <1>1 DEF PInv, Settled, SettledOne, Live, AtRest
  <1>3. Least(EffectivePriority(t, held[t], waiters), Claims(t))
    BY <1>1, BareUnslept, EffectiveClaims DEF PInv
  <1>4. \A r \in Claims(t) : r \in Int
    <2>1. \A x \in Thread : priority[x] \in Nat /\ base[x] \in Nat
      BY StateTypes, Constants DEF KInv, Priority
    <2>2. QED BY <2>1 DEF Claims, Lenders
  <1>5. QED BY <1>2, <1>3, <1>4 DEF Least

(***************************************************************************)
(* Priority inheritance is exact, whatever threads and handlers do between *)
(* the turns of OSLockMutex, OSUnlockMutex and __OSPromoteThread: when no  *)
(* call is under way, a live thread that is not suspended has the priority *)
(* __OSGetEffectivePriority would give it.                                 *)
(***************************************************************************)
THEOREM KernelInheritedPriority == Spec => []InheritedPriority
  <1>1. Init => EInv /\ PInv
    BY InitOK, InitEnds, InitPrio
  <1>2. KInv /\ KInv' /\ EInv /\ [Next]_vars => EInv'
    BY EndsStep
  <1>3. KInv /\ KInv' /\ EInv /\ PInv /\ [Next]_vars => PInv'
    BY PrioStep
  <1>4. KInv /\ PInv => InheritedPriority
    BY PrioExact
  <1>5. QED BY <1>1, <1>2, <1>3, <1>4, KernelInvariant, PTL DEF Spec

-----------------------------------------------------------------------------
(***************************************************************************)
(* No missed preemption.  While a ready thread is better than the one that *)
(* runs, a reschedule is still to come, of the running thread's call or of *)
(* the interrupt, and it will look: the hint is set, or the wake-up under  *)
(* way sets it with the next thread it links.  The names ending in Best    *)
(* say that a call or a turn keeps HInv.                                   *)
(***************************************************************************)
Preempting == {"__OSReschedule", "OSWakeupThread", "CancelTail"}

Better ==
    /\ current # NULL /\ state[current] = "RUNNING"
    /\ \E p \in runBits : p < priority[current]

Coming == stack[Isr] # << >> \/ \E f \in ToSet(stack[current]) : f.fn \in Preempting

Waking ==
    /\ Running("OSWakeupThread") /\ waiters[Arg] # << >>
    /\ suspend[Head(waiters[Arg])] = 0

(* What an interrupt does last is to leave the handler.                    *)
IsrEnds == stack[Isr] # << >> => Last(stack[Isr]).fn = "IsrReturn"

HInv == IsrEnds /\ (Better => Coming /\ (hint \/ Waking))

LEMMA NoneBetter ==
    ASSUME KInv, HInv, NEW c \in {current, Isr}, c # NULL, MayCall(c) PROVE ~Better
  <1> SUFFICES ASSUME Better PROVE FALSE
    OBVIOUS
  <1>1. stack[Isr] = << >> /\ stack[current] = << >>
    BY CallFacts DEF Better
  <1>2. ToSet(stack[current]) = {}
    BY <1>1, Tails
  <1>3. QED BY <1>1, <1>2 DEF HInv, Coming

(* Nobody becomes better than the running thread.                          *)
LEMMA NotBetter ==
    ASSUME KInv, current' = current,
           \A t \in Thread : t = current /\ state'[t] = "RUNNING" =>
              state[t] = "RUNNING" /\ priority'[t] = priority[t],
           \A p \in runBits' : p \in runBits \/ (current \in Thread => ~(p < priority[current]))
    PROVE  Better' => Better
  <1>1. current \in Thread \cup {NULL}
    BY DEF KInv, TypeOK
  <1>2. QED BY <1>1 DEF Better

LEMMA LastEntered ==
    ASSUME NEW s \in Seq(Frame), NEW f PROVE Last(s \o <<f>>) = f
  BY DEF Last

LEMMA CallIsrEnds ==
    ASSUME KInv, IsrEnds, NEW c \in {current, Isr}, c # NULL, MayCall(c),
           stack'[Isr] = stack[Isr] \/ \E fs \in Seq(Frame) : Enter(c, fs)
    PROVE  IsrEnds'
  <1>1. /\ stack \in [Context -> Seq(Frame)] /\ Isr \in Context /\ c \in Context
    BY CallFacts, Constants DEF Stacked, Context
  <1>2. PICK e \in Context : e = c
    BY <1>1
  <1>3. CASE stack'[Isr] = stack[Isr]
    BY <1>3 DEF IsrEnds
  <1>4. CASE \E fs \in Seq(Frame) : Enter(c, fs)
    <2>1. PICK fs \in Seq(Frame) : Enter(e, fs)
      BY <1>2, <1>4
    <2>2. CASE e = Isr
      <3>1. stack'[Isr] = fs \o <<F("IsrReturn", NULL)>>
        BY <1>1, <2>1, <2>2 DEF Enter
      <3>2. QED BY <3>1, LastEntered, FrameIntro DEF IsrEnds
    <2>3. CASE e # Isr
      <3>1. stack'[Isr] = stack[Isr]
        BY <1>1, <2>1, <2>3 DEF Enter
      <3>2. QED BY <1>3, <3>1
    <2>4. QED BY <2>2, <2>3
  <1>5. QED BY <1>3, <1>4

(* A call after which nobody is better than the running thread.            *)
LEMMA CallBest ==
    ASSUME KInv, HInv, NEW c \in {current, Isr}, c # NULL, MayCall(c), current' = current,
           stack'[Isr] = stack[Isr] \/ \E fs \in Seq(Frame) : Enter(c, fs),
           \A t \in Thread : t = current /\ state'[t] = "RUNNING" =>
              state[t] = "RUNNING" /\ priority'[t] = priority[t],
           runBits' \subseteq runBits
    PROVE  HInv'
  <1>1. ~Better
    BY NoneBetter
  <1>2. Better' => Better
    BY NotBetter
  <1>3. IsrEnds'
    BY CallIsrEnds DEF HInv
  <1>4. QED BY <1>1, <1>2, <1>3 DEF HInv

(* A call that links a thread, sets the hint, and goes on to a reschedule. *)
LEMMA ResumeHint ==
    ASSUME KInv, HInv, NEW c \in {current, Isr}, c # NULL, MayCall(c), current' = current,
           Enter(c, <<Reschedule>>), hint' = TRUE
    PROVE  HInv'
  <1>1. /\ stack \in [Context -> Seq(Frame)] /\ Isr \in Context /\ c \in Context
        /\ c # Isr => c = current
    BY CallFacts, Constants DEF Stacked, Context
  <1>2. PICK e \in Context : e = c
    BY <1>1
  <1>3. <<Reschedule>> \in Seq(Frame) /\ ToSet(<<Reschedule>>) = {Reschedule}
        /\ Reschedule.fn = "__OSReschedule"
    BY FrameIntro, Stacks
  <1>4. IsrEnds'
    BY <1>3, CallIsrEnds DEF HInv
  <1>5. Coming'
    <2>1. CASE e = Isr
      <3>1. stack'[Isr] = <<Reschedule>> \o <<F("IsrReturn", NULL)>>
        BY <1>1, <1>2, <2>1 DEF Enter
      <3>2. stack'[Isr] # << >>
        BY <1>3, <3>1, HeadEntered, FrameIntro
      <3>3. QED BY <3>2 DEF Coming
    <2>2. CASE e # Isr
      <3>1. stack'[e] = <<Reschedule>> /\ current' = e
        BY <1>1, <1>2, <2>2 DEF Enter
      <3>2. Reschedule \in ToSet(stack'[current']) /\ Reschedule.fn \in Preempting
        BY <1>3, <3>1 DEF Preempting
      <3>3. QED BY <3>2 DEF Coming
    <2>3. QED BY <2>1, <2>2
  <1>6. QED BY <1>4, <1>5 DEF HInv

LEMMA CallerMay ==
    current \in Thread => current \in {current, Isr} /\ current # NULL /\ current # Isr
  BY Constants

(* A call that changes only the stacks and what is not the scheduler's.    *)
LEMMA StacksBest ==
    ASSUME KInv, HInv, NEW c \in {current, Isr}, c # NULL, MayCall(c), current' = current,
           stack' = stack \/ \E fs \in Seq(Frame) : Enter(c, fs),
           \A t \in Thread : state'[t] = "RUNNING" => state[t] = "RUNNING",
           priority' = priority, runBits' = runBits
    PROVE  HInv'
  BY CallBest

LEMMA EnteredOne ==
    ASSUME NEW f \in Frame, NEW g \in Frame, NEW h \in Frame
    PROVE  /\ <<f>> \in Seq(Frame) /\ <<f, g>> \in Seq(Frame) /\ <<f, g, h>> \in Seq(Frame)
  BY Stacks

LEMMA WakeupBest ==
    ASSUME KInv, HInv, NEW c \in {current, Isr}, c # NULL, NEW q \in UserQueue,
           OSWakeupThread(c, q)
    PROVE  HInv'
  <1>1. q \in WaitQueue
    BY Constants
  <1>2. \E fs \in Seq(Frame) : Enter(c, fs)
    BY <1>1, FrameIntro, EnteredOne DEF OSWakeupThread
  <1>3. MayCall(c) /\ current' = current /\ state' = state /\ priority' = priority /\ runBits' = runBits
    BY DEF OSWakeupThread, threadVars, queueVars
  <1>4. QED BY <1>2, <1>3, StacksBest

LEMMA YieldBest ==
    ASSUME KInv, HInv, current \in Thread, OSYieldThread(current) PROVE HInv'
  <1>1. \E fs \in Seq(Frame) : Enter(current, fs)
    BY FrameIntro, EnteredOne DEF OSYieldThread
  <1>2. /\ MayCall(current) /\ current' = current /\ state' = state
        /\ priority' = priority /\ runBits' = runBits
    BY DEF OSYieldThread, threadVars, queueVars
  <1>3. QED BY <1>1, <1>2, CallerMay, StacksBest

LEMMA LockBest ==
    ASSUME KInv, HInv, current \in Thread, NEW m \in Mutex, OSLockMutex(current, m) PROVE HInv'
  <1>1. \E fs \in Seq(Frame) : Enter(current, fs)
    BY FrameIntro, EnteredOne DEF OSLockMutex
  <1>2. /\ MayCall(current) /\ current' = current /\ state' = state
        /\ priority' = priority /\ runBits' = runBits
    BY DEF OSLockMutex, threadVars, queueVars
  <1>3. QED BY <1>1, <1>2, CallerMay, StacksBest

LEMMA TryLockBest ==
    ASSUME KInv, HInv, current \in Thread, NEW m \in Mutex, OSTryLockMutex(current, m) PROVE HInv'
  <1>1. /\ MayCall(current) /\ current' = current /\ state' = state /\ stack' = stack
        /\ priority' = priority /\ runBits' = runBits
    BY DEF OSTryLockMutex, threadVars, queueVars
  <1>2. QED BY <1>1, CallerMay, StacksBest

LEMMA SetPriorityBest ==
    ASSUME KInv, HInv, current \in Thread, NEW t \in Thread, NEW p \in Priority,
           OSSetThreadPriority(current, t, p)
    PROVE  HInv'
  <1>1. \E fs \in Seq(Frame) : Enter(current, fs)
    BY UpdateFrames DEF OSSetThreadPriority
  <1>2. /\ MayCall(current) /\ current' = current /\ state' = state
        /\ priority' = priority /\ runBits' = runBits
    BY DEF OSSetThreadPriority, queueVars
  <1>3. QED BY <1>1, <1>2, CallerMay, StacksBest

LEMMA ReapRuns ==
    ASSUME KInv, NEW t \in Thread, Reap(t)
    PROVE  \A u \in Thread : state'[u] = "RUNNING" => state[u] = "RUNNING"
  BY DEF Reap, KInv, TypeOK

LEMMA DetachBest ==
    ASSUME KInv, HInv, current \in Thread, NEW t \in Thread, OSDetachThread(current, t) PROVE HInv'
  <1>1. t \in WaitQueue
    BY Constants
  <1>2. \E fs \in Seq(Frame) : Enter(current, fs)
    BY <1>1, FrameIntro, EnteredOne DEF OSDetachThread
  <1>3. /\ MayCall(current) /\ current' = current /\ Reap(t)
        /\ priority' = priority /\ runBits' = runBits
    BY DEF OSDetachThread, queueVars
  <1>4. QED BY <1>2, <1>3, ReapRuns, CallerMay, StacksBest

LEMMA SleepRuns ==
    ASSUME KInv, NEW t \in Thread, NEW q, SleepOn(t, q)
    PROVE  /\ \A u \in Thread : state'[u] = "RUNNING" => state[u] = "RUNNING"
           /\ runBits' = runBits
  BY DEF SleepOn, KInv, TypeOK

LEMMA SleepBest ==
    ASSUME KInv, HInv, current \in Thread, NEW q \in UserQueue, OSSleepThread(current, q) PROVE HInv'
  <1>1. \E fs \in Seq(Frame) : Enter(current, fs)
    BY QuietReschedule DEF OSSleepThread
  <1>2. MayCall(current) /\ current' = current /\ SleepOn(current, q) /\ priority' = priority
    BY DEF OSSleepThread
  <1>3. \A u \in Thread : state'[u] = "RUNNING" => state[u] = "RUNNING"
    BY <1>2, SleepRuns
  <1>4. runBits' = runBits
    BY <1>2, SleepRuns
  <1>5. QED BY <1>1, <1>2, <1>3, <1>4, CallerMay, StacksBest

LEMMA JoinBest ==
    ASSUME KInv, HInv, current \in Thread, NEW t \in Thread, OSJoinThread(current, t) PROVE HInv'
  <1>1. MayCall(current) /\ current' = current /\ priority' = priority
    BY DEF OSJoinThread
  <1>2. CASE SleepOn(current, t) /\ Enter(current, <<Reschedule, F("JoinTail", t)>>)
    <2>1. \E fs \in Seq(Frame) : Enter(current, fs)
      BY <1>2, FrameIntro, EnteredOne
    <2>2. \A u \in Thread : state'[u] = "RUNNING" => state[u] = "RUNNING"
      BY <1>2, SleepRuns
    <2>3. runBits' = runBits
      BY <1>2 DEF SleepOn
    <2>4. QED BY <1>1, <2>1, <2>2, <2>3, CallerMay, StacksBest
  <1>3. CASE Reap(t) /\ UNCHANGED <<queue, queueVars, stack>>
    <2>1. stack' = stack /\ runBits' = runBits
      BY <1>3 DEF queueVars
    <2>2. QED BY <1>1, <1>3, <2>1, ReapRuns, CallerMay, StacksBest
  <1>4. QED BY <1>2, <1>3 DEF OSJoinThread

LEMMA CreateBest ==
    ASSUME KInv, HInv, current \in Thread, NEW t \in Thread \ {current}, NEW p \in Priority,
           NEW det \in BOOLEAN, OSCreateThread(current, t, p, det)
    PROVE  HInv'
  <1>1. /\ MayCall(current) /\ current' = current /\ runBits' = runBits
        /\ stack' = [stack EXCEPT ![t] = << >>]
        /\ state' = [state EXCEPT ![t] = "READY"] /\ priority' = [priority EXCEPT ![t] = p]
    BY DEF OSCreateThread
  <1>2. stack \in [Context -> Seq(Frame)] /\ Isr \in Context /\ Isr # t
    BY Constants DEF KInv, TypeOK, Context
  <1>3. stack'[Isr] = stack[Isr]
    BY <1>1, <1>2
  <1>4. \A u \in Thread : u = current => state'[u] = state[u] /\ priority'[u] = priority[u]
    BY <1>1 DEF KInv, TypeOK
  <1>5. QED BY <1>1, <1>3, <1>4, CallerMay, CallBest

LEMMA UpdatesSeq ==
    ASSUME TypeOK, NEW t \in Thread PROVE UpdateOwner(t) \in Seq(Frame) /\ << >> \in Seq(Frame)
  <1>1. mutex[t] # NULL => mutex[t] \in Mutex /\ owner[mutex[t]] \in Thread \cup {NULL}
    BY StateTypes
  <1>2. mutex[t] # NULL => F("UpdatePriority", owner[mutex[t]]) \in Frame
    BY <1>1, FrameIntro
  <1>3. QED BY <1>2, Stacks DEF UpdateOwner

LEMMA FewerBits ==
    ASSUME TypeOK, NEW t, UnsetRun(t) PROVE runBits' \subseteq runBits
  BY DEF UnsetRun, BitsWithout

LEMMA SuspendBest ==
    ASSUME KInv, HInv, current \in Thread, NEW t \in Thread, OSSuspendThread(current, t) PROVE HInv'
  <1>1. MayCall(current) /\ current' = current /\ TypeOK /\ OSSuspendThread(current, t)
    BY DEF OSSuspendThread, KInv
  <1>2. /\ <<Reschedule>> \in Seq(Frame) /\ UpdateOwner(t) \o <<Reschedule>> \in Seq(Frame)
    BY <1>1, UpdatesSeq, QuietReschedule, OwnerFrames
  <1>3. Isr \in Context /\ stack \in [Context -> Seq(Frame)]
    BY Constants DEF Context, KInv, TypeOK
  <1>4. stack' = stack \/ \E fs \in Seq(Frame) : Enter(current, fs)
    BY <1>1, <1>2 DEF OSSuspendThread
  <1>5. \A u \in Thread : state'[u] = "RUNNING" => state[u] = "RUNNING"
    BY <1>1 DEF OSSuspendThread, TypeOK
  <1>6. runBits' \subseteq runBits
    BY <1>1, FewerBits DEF OSSuspendThread, queueVars
  <1>7. state[current] = "RUNNING"
    BY <1>1, CallerMay, CallFacts
  <1>8. priority'[current] = priority[current]
    BY <1>1, <1>7 DEF OSSuspendThread, TypeOK
  <1>9. QED BY <1>1, <1>3, <1>4, <1>5, <1>6, <1>8, CallerMay, CallBest

LEMMA ResumeBest ==
    ASSUME KInv, HInv, NEW c \in {current, Isr}, c # NULL, NEW t \in Thread, OSResumeThread(c, t)
    PROVE  HInv'
  <1>1. /\ MayCall(c) /\ current' = current /\ TypeOK /\ OSResumeThread(c, t) /\ state' = state
    BY DEF OSResumeThread, KInv
  <1>2. /\ <<Reschedule>> \in Seq(Frame) /\ UpdateOwner(t) \o <<Reschedule>> \in Seq(Frame)
    BY <1>1, UpdatesSeq, QuietReschedule, OwnerFrames
  <1>3. CASE suspend[t] = 1 /\ state[t] = "READY"
    <2>1. Enter(c, <<Reschedule>>) /\ hint' = TRUE
      BY <1>1, <1>3 DEF OSResumeThread, SetRun
    <2>2. QED BY <1>1, <2>1, ResumeHint
  <1>4. CASE ~(suspend[t] = 1 /\ state[t] = "READY")
    <2>1. stack' = stack \/ \E fs \in Seq(Frame) : Enter(c, fs)
      BY <1>1, <1>2, <1>4 DEF OSResumeThread
    <2>2. runBits' = runBits
      BY <1>1, <1>4 DEF OSResumeThread, queueVars
    <2>3. \A u \in Thread : state[u] = "RUNNING" => priority'[u] = priority[u]
      BY <1>1, <1>4 DEF OSResumeThread, TypeOK
    <2>4. QED BY <1>1, <2>1, <2>2, <2>3, CallBest
  <1>5. QED BY <1>3, <1>4

LEMMA DieRuns ==
    ASSUME KInv, NEW t \in Thread, Die(t)
    PROVE  \A u \in Thread : state'[u] = "RUNNING" => state[u] = "RUNNING"
  BY DEF Die, KInv, TypeOK

LEMMA ExitBest ==
    ASSUME KInv, HInv, current \in Thread, OSExitThread(current) PROVE HInv'
  <1>1. PICK c \in Thread : c = current
    OBVIOUS
  <1>2. /\ MayCall(c) /\ current' = current /\ Die(c) /\ priority' = priority /\ runBits' = runBits
        /\ Enter(c, TearDown(c) \o <<F("ExitHint", NULL)>>)
    BY <1>1 DEF OSExitThread, queueVars
  <1>3. /\ F("__OSUnlockAllMutex", c) \in Frame /\ F("OSWakeupThread", c) \in Frame
        /\ F("ExitHint", NULL) \in Frame
    BY FrameIntro, Constants
  <1>4. TearDown(c) \o <<F("ExitHint", NULL)>> \in Seq(Frame)
    BY <1>3, EnteredOne DEF TearDown
  <1>5. \A u \in Thread : state'[u] = "RUNNING" => state[u] = "RUNNING"
    BY <1>2, DieRuns
  <1>6. QED BY <1>1, <1>2, <1>4, <1>5, CallerMay, StacksBest

LEMMA CancelBest ==
    ASSUME KInv, HInv, current \in Thread, NEW t \in Thread, OSCancelThread(current, t) PROVE HInv'
  <1>1. PICK c \in Thread : c = current
    OBVIOUS
  <1>2. /\ MayCall(c) /\ current' = current /\ TypeOK /\ OSCancelThread(c, t)
        /\ state' = state /\ priority' = priority
    BY <1>1 DEF OSCancelThread, KInv
  <1>3. F("CancelTail", t) \in Frame
    BY FrameIntro
  <1>4. /\ <<F("CancelTail", t)>> \in Seq(Frame)
        /\ (IF suspend[t] <= 0 THEN UpdateOwner(t) ELSE << >>) \o <<F("CancelTail", t)>> \in Seq(Frame)
    <2>1. (IF suspend[t] <= 0 THEN UpdateOwner(t) ELSE << >>) \in Seq(Frame)
      BY <1>2, UpdatesSeq
    <2>2. <<F("CancelTail", t)>> \in Seq(Frame)
      BY <1>3, EnteredOne
    <2>3. QED BY <2>1, <2>2
  <1>5. \E fs \in Seq(Frame) : Enter(c, fs)
    BY <1>2, <1>4 DEF OSCancelThread
  <1>6. runBits' \subseteq runBits
    BY <1>2, FewerBits DEF OSCancelThread
  <1>7. QED BY <1>1, <1>2, <1>5, <1>6, CallerMay, CallBest

(* The lenders of the running thread that it does not lose are still its   *)
(* best claim, so only those asking for the mutex it unlocks can be better *)
(* than what it falls back to; and they are at the head of its queue.      *)
LEMMA FallsBack ==
    ASSUME KInv, KInv', PInv, Bare, AtRest, NEW c \in Thread, NEW m \in Mutex, NEW l \in Seq(Mutex),
           Live(c), owner[m] = c, \A n \in Mutex : n \in ToSet(l) <=> owner[n] = c /\ n # m,
           priority[c] < EffectivePriority(c, l, waiters)
    PROVE  waiters[m] # << >> /\ suspend[Head(waiters[m])] = 0
  <1>1. /\ TypeOK /\ waiters \in [WaitQueue -> Seq(Thread)] /\ m \in WaitQueue
        /\ priority \in [Thread -> Nat] /\ \A u \in Thread : suspend[u] \in Nat
        /\ \A u \in Thread : mutex[u] \in Mutex \cup {NULL}
    BY StateTypes, Constants DEF KInv, TypeOK
  <1>2. base[c] \in 0 .. OS_PRIORITY_MAX /\ OS_PRIORITY_MAX \in Nat
    BY <1>1, StateTypes, Constants DEF Priority
  <1>3. \A n \in WaitQueue : Ordered(waiters[n], priority)
    BY DEF KInv, WaitersSorted, Ordered
  <1>4. \A n \in ToSet(l) : n \in Mutex /\ n \in WaitQueue
    BY Constants DEF ToSet
  <1> DEFINE asked == {v \in Thread : \E n \in ToSet(l) : v \in ToSet(waiters[n])}
             e == EffectivePriority(c, l, waiters)
  <1>5. Least(e, {base[c]} \cup {priority[u] : u \in asked})
    BY <1>1, <1>3, <1>4, EffectiveLeast
  <1>6. e <= base[c] /\ \A u \in asked : e <= priority[u]
    BY <1>5 DEF Least
  <1>7. e \in Nat
    BY <1>1, EffectiveOK, Constants
  <1>8. Least(priority[c], Claims(c))
    BY DEF PInv, Settled, SettledOne, AtRest
  <1> HIDE DEF e
  <1>9. priority[c] # base[c] /\ priority[c] <= base[c]
    BY <1>1, <1>2, <1>6, <1>7, <1>8 DEF Least, Claims, e
  <1>10. PICK u \in Lenders(c) : priority[c] = priority[u]
    BY <1>8, <1>9 DEF Least, Claims
  <1>11. PICK n \in Mutex : u \in Thread /\ mutex[u] = n /\ owner[n] = c /\ state[u] = "SLEEPING"
    BY <1>1, <1>10, BareLends DEF Lenders
  <1>12. u \in ToSet(waiters[n])
    BY <1>11, BareLends, WaitersNote DEF PInv
  <1>13. n = m
    <2> SUFFICES ASSUME n # m PROVE FALSE
      OBVIOUS
    <2>1. n \in ToSet(l)
      BY <1>11
    <2>2. u \in asked
      BY <1>11, <1>12, <2>1
    <2>3. e <= priority[u]
      BY <1>6, <2>2
    <2>4. QED BY <1>1, <1>7, <1>10, <2>3 DEF e
  <1>14. PICK w \in Seq(Thread) : w = waiters[m]
    BY <1>1
  <1>15. w # << >> /\ Head(w) \in Thread /\ Head(w) \in ToSet(w)
    <2>1. w # << >>
      BY <1>12, <1>13, <1>14, Tails
    <2>2. QED BY <2>1, TailSet
  <1>16. PICK h \in Thread : h = Head(w)
    BY <1>15
  <1>17. priority[h] <= priority[u]
    <2>1. PICK i \in DOMAIN w : w[i] = u
      BY <1>12, <1>13, <1>14 DEF ToSet
    <2>2. Len(w) \in Nat /\ DOMAIN w = 1 .. Len(w) /\ w[1] = h
      BY <1>15, <1>16
    <2>3. Ordered(w, priority)
      BY <1>1, <1>3, <1>14
    <2>4. CASE i = 1
      BY <1>1, <2>1, <2>2, <2>4
    <2>5. CASE i # 1
      <3>1. 1 \in DOMAIN w /\ 1 < i
        BY <2>1, <2>2, <2>5
      <3>2. QED BY <2>1, <2>2, <2>3, <3>1 DEF Ordered
    <2>6. QED BY <2>4, <2>5
  <1>18. suspend[h] = 0
    <2>1. state[h] = "SLEEPING"
      BY <1>1, <1>14, <1>15, <1>16, AsleepThreads
    <2>2. suspend[h] > 0 => priority[h] = OS_PRIORITY_MAX + 1
      BY <2>1 DEF PInv, Sleeps, SleepOK, SuspendedPriority
    <2>3. priority[h] <= base[c]
      BY <1>1, <1>2, <1>9, <1>10, <1>11, <1>17
    <2>4. QED BY <1>1, <1>2, <2>2, <2>3
  <1>19. QED BY <1>14, <1>15, <1>16, <1>18

LEMMA WakesNext ==
    ASSUME KInv, NEW c \in Thread, c = current, MayCall(c), current' = current,
           NEW q \in WaitQueue, Enter(c, <<F("OSWakeupThread", q)>>)
    PROVE  Running("OSWakeupThread")' /\ Arg' = q /\ Coming'
  <1>1. /\ stack \in [Context -> Seq(Frame)] /\ Isr \in Context /\ c \in Context /\ c # Isr
        /\ stack[Isr] = << >> /\ c # NULL
    BY Constants DEF KInv, TypeOK, Context, MayCall
  <1>2. PICK e \in Frame : e = F("OSWakeupThread", q) /\ e.fn = "OSWakeupThread" /\ e.arg = q
    BY FrameIntro
  <1>3. stack'[Isr] = << >> /\ stack'[c] = <<e>>
    BY <1>1, <1>2 DEF Enter
  <1>4. <<e>> # << >> /\ Head(<<e>>) = e /\ ToSet(<<e>>) = {e}
    BY Stacks
  <1>5. Cpu' = c
    BY <1>3 DEF Cpu
  <1>6. Running("OSWakeupThread")' /\ Arg' = q
    BY <1>1, <1>2, <1>3, <1>4, <1>5 DEF Running, Arg
  <1>7. e \in ToSet(stack'[current']) /\ e.fn \in Preempting
    BY <1>2, <1>3, <1>4 DEF Preempting
  <1>8. QED BY <1>6, <1>7 DEF Coming

LEMMA UnlockBest ==
    ASSUME KInv, KInv', PInv, HInv, current \in Thread, NEW m \in Mutex, OSUnlockMutex(current, m)
    PROVE  HInv'
  <1>0. PICK c \in Thread : c = current
    OBVIOUS
  <1>1. /\ MayCall(c) /\ owner[m] = c /\ current' = current /\ c # NULL /\ c \in {current, Isr}
        /\ state' = state /\ suspend' = suspend /\ waiters' = waiters /\ runBits' = runBits
    BY <1>0, Constants DEF OSUnlockMutex, queueVars
  <1>2. /\ TypeOK /\ Bare /\ AtRest /\ m \in WaitQueue /\ state[c] = "RUNNING" /\ suspend[c] = 0
    BY <1>0, <1>1, CallRest, CallFacts, Constants DEF KInv
  <1>3. CASE priority' = priority /\ (stack' = stack \/ Enter(c, AfterRelease(m)))
    <2>1. AfterRelease(m) \in Seq(Frame)
      BY <1>2, FrameIntro, EnteredOne DEF AfterRelease
    <2>2. QED BY <1>1, <1>3, <2>1, StacksBest
  <1>4. CASE /\ priority' # priority /\ owner' = [owner EXCEPT ![m] = NULL]
             /\ held' = [held EXCEPT ![c] = Without(@, m)]
             /\ priority' = [priority EXCEPT ![c] =
                                IF @ < base[c] THEN EffectivePriority(c, held'[c], waiters) ELSE @]
             /\ Enter(c, AfterRelease(m))
    <2>1. PICK l \in Seq(Mutex) : l = held'[c]
      BY DEF KInv, TypeOK
    <2>2. \A n \in Mutex : n \in ToSet(l) <=> owner[n] = c /\ n # m
      <3>1. \A n \in Mutex : n \in ToSet(l) <=> owner'[n] = c
        BY <2>1 DEF KInv, MutexConsistent
      <3>2. owner'[m] = NULL /\ \A n \in Mutex \ {m} : owner'[n] = owner[n]
        BY <1>2, <1>4 DEF TypeOK
      <3>3. QED BY <1>1, <3>1, <3>2
    <2>3. /\ priority'[c] = IF priority[c] < base[c] THEN EffectivePriority(c, l, waiters)
                            ELSE priority[c]
          /\ \A u \in Thread \ {c} : priority'[u] = priority[u]
      BY <1>2, <1>4, <2>1 DEF TypeOK
    <2>4. Enter(c, <<F("OSWakeupThread", m)>>) /\ <<F("OSWakeupThread", m)>> \in Seq(Frame)
      BY <1>2, <1>4, FrameIntro, EnteredOne DEF AfterRelease
    <2>5. Running("OSWakeupThread")' /\ Arg' = m /\ Coming'
      BY <1>0, <1>1, <1>2, <2>4, WakesNext
    <2>6. IsrEnds'
      BY <1>1, <2>4, CallIsrEnds DEF HInv
    <2>7. ASSUME Better' PROVE Waking'
      <3>1. ~Better
        BY <1>1, NoneBetter
      <3>2. PICK p \in runBits : p < priority'[c]
        BY <1>0, <1>1, <2>7 DEF Better
      <3>3. ~(p < priority[c])
        BY <1>0, <1>1, <1>2, <3>1 DEF Better
      <3>4. p \in Nat /\ priority[c] \in Nat
        BY <1>2, StateTypes, Constants DEF TypeOK
      <3>5. EffectivePriority(c, l, waiters) \in Nat
        BY <1>2, EffectiveOK, Constants DEF TypeOK
      <3>6. priority[c] < EffectivePriority(c, l, waiters)
        BY <2>3, <3>2, <3>3, <3>4, <3>5
      <3>7. Live(c)
        BY <1>2 DEF Live, Dead
      <3>8. waiters[m] # << >> /\ suspend[Head(waiters[m])] = 0
        BY <1>1, <1>2, <2>2, <3>6, <3>7, FallsBack
      <3>9. QED BY <1>1, <2>5, <3>8 DEF Waking
    <2>8. QED BY <2>5, <2>6, <2>7 DEF HInv
  <1>5. OSUnlockMutex(c, m)
    BY <1>0
  <1>6. QED BY <1>3, <1>4, <1>5 DEF OSUnlockMutex

(* The stacks after a turn.  A handler still has to leave.                 *)
LEMMA TurnIsrEnds ==
    ASSUME KInv, IsrEnds, Cpu # NULL, stack[Cpu] # << >>, NEW n,
           stack' = [stack EXCEPT ![Cpu] = n],
           Cpu = Isr => /\ Head(stack[Isr]).fn # "IsrReturn"
                        /\ \/ n = Tail(stack[Isr])
                           \/ \E f \in Frame : f.fn \in Inner /\ n = <<f>> \o Tail(stack[Isr])
    PROVE  /\ IsrEnds' /\ (Cpu = Isr => stack'[Isr] # << >>)
           /\ Cpu # Isr => stack[Isr] = << >> /\ stack'[Isr] = << >> /\ Cpu = current /\ stack'[current] = n
  <1>1. /\ Stacked /\ StackInv /\ Isr \in Context /\ Cpu \in Context
        /\ Cpu # Isr => Cpu = current /\ current \in Thread /\ stack[Isr] = << >>
    BY StateTypes, CpuFacts, Constants DEF KInv, Context
  <1>2. CASE Cpu = Isr
    <2>1. PICK s \in Seq(Frame) : s = stack[Isr] /\ s # << >>
      BY <1>1, <1>2 DEF Stacked
    <2>2. Last(s).fn = "IsrReturn" /\ Head(s).fn # "IsrReturn"
      BY <1>2, <2>1 DEF IsrEnds
    <2>3. Tail(s) # << >> /\ Last(Tail(s)) = Last(s) /\ Tail(s) \in Seq(Frame)
      BY <2>1, <2>2, Popped
    <2>4. stack'[Isr] = n
      BY <1>1, <1>2 DEF Stacked
    <2>5. CASE n = Tail(s)
      BY <1>2, <2>2, <2>3, <2>4, <2>5 DEF IsrEnds
    <2>6. CASE \E f \in Frame : f.fn \in Inner /\ n = <<f>> \o Tail(s)
      <3>1. PICK f \in Frame, r \in Seq(Frame) : n = <<f>> \o r /\ r = Tail(s)
        BY <2>3, <2>6
      <3>2. n # << >> /\ Last(n) = Last(r)
        BY <2>3, <3>1, Pushed
      <3>3. QED BY <1>2, <2>2, <2>3, <2>4, <3>1, <3>2 DEF IsrEnds
    <2>7. QED BY <1>2, <2>1, <2>5, <2>6
  <1>3. CASE Cpu # Isr
    <2>1. stack'[Isr] = << >> /\ stack'[Cpu] = n
      BY <1>1, <1>3 DEF Stacked
    <2>2. QED BY <1>1, <1>3, <2>1 DEF IsrEnds
  <1>4. QED BY <1>2, <1>3

(* A turn that leaves what is below it, and lowers nobody's standing.      *)
LEMMA TurnBest ==
    ASSUME KInv, HInv, Cpu # NULL, stack[Cpu] # << >>, NEW n, current' = current,
           stack' = [stack EXCEPT ![Cpu] = n],
           Cpu = Isr => /\ Head(stack[Isr]).fn # "IsrReturn"
                        /\ \/ n = Tail(stack[Isr])
                           \/ \E f \in Frame : f.fn \in Inner /\ n = <<f>> \o Tail(stack[Isr]),
           Cpu # Isr => \/ \E f \in ToSet(n) : f.fn \in Preempting
                        \/ /\ Head(stack[Cpu]).fn \notin Preempting
                           /\ \A f \in ToSet(Tail(stack[Cpu])) : f \in ToSet(n),
           Better' => \/ hint'
                      \/ Better /\ (hint => hint') /\ ~Running("OSWakeupThread"),
           Better' => Cpu = Isr \/ Better \/ \E f \in ToSet(n) : f.fn \in Preempting
    PROVE  HInv'
  <1>1. /\ IsrEnds' /\ (Cpu = Isr => stack'[Isr] # << >>)
        /\ Cpu # Isr => stack[Isr] = << >> /\ stack'[Isr] = << >> /\ Cpu = current /\ stack'[current] = n
    BY TurnIsrEnds DEF HInv
  <1> SUFFICES ASSUME Better' PROVE Coming' /\ hint'
    BY <1>1 DEF HInv
  <1>2. hint'
    BY DEF HInv, Waking
  <1>3. CASE Cpu = Isr
    BY <1>1, <1>2, <1>3 DEF Coming
  <1>4. CASE Cpu # Isr
    <2>1. CASE \E f \in ToSet(n) : f.fn \in Preempting
      BY <1>1, <1>2, <1>4, <2>1 DEF Coming
    <2>2. CASE ~\E f \in ToSet(n) : f.fn \in Preempting
      <3>1. Coming
        BY <1>4, <2>2 DEF HInv
      <3>2. PICK s \in Seq(Frame) : s = stack[current] /\ s # << >> /\ s = stack[Cpu]
        <4>1. stack[Cpu] \in Seq(Frame)
          BY CpuFacts, StateTypes DEF KInv
        <4>2. QED BY <1>1, <1>4, <4>1
      <3>3. PICK f \in ToSet(s) : f.fn \in Preempting
        BY <1>1, <1>4, <3>1, <3>2 DEF Coming
      <3>4. f \in ToSet(Tail(s))
        BY <1>4, <2>2, <3>2, <3>3, Popped
      <3>5. QED BY <1>4, <2>2, <3>2, <3>3, <3>4
    <2>3. QED BY <2>1, <2>2
  <1>5. QED BY <1>3, <1>4

(* A turn of the running thread with no reschedule to come: nobody is      *)
(* better before, nor after.                                               *)
LEMMA CalmTurnBest ==
    ASSUME KInv, HInv, Cpu # NULL, Cpu # Isr, stack[Cpu] # << >>, NEW n,
           stack' = [stack EXCEPT ![Cpu] = n],
           \A f \in ToSet(stack[Cpu]) : f.fn \notin Preempting, Better' => Better
    PROVE  HInv'
  <1>1. IsrEnds' /\ stack[Isr] = << >> /\ Cpu = current
    BY TurnIsrEnds DEF HInv
  <1>2. ~Better
    BY <1>1 DEF HInv, Coming
  <1>3. QED BY <1>1, <1>2 DEF HInv

LEMMA OuterBest ==
    ASSUME KInv, HInv, NEW fn, fn \notin IsrFrames, fn \notin Inner, fn \notin Preempting,
           Running(fn), NEW n, Become(n) \/ Return, current' = current,
           \A t \in Thread : t = current /\ state'[t] = "RUNNING" =>
              state[t] = "RUNNING" /\ priority'[t] = priority[t],
           runBits' \subseteq runBits
    PROVE  HInv'
  <1>1. /\ Cpu = current /\ current \in Thread /\ stack[current] # << >>
        /\ Head(stack[current]).fn = fn /\ ToSet(stack[current]) = {Head(stack[current])}
    <2>1. Stacked /\ StackInv /\ Leaving
      BY StateTypes DEF KInv
    <2>2. QED BY <2>1, ThreadTurn
  <1>2. Cpu # NULL /\ Cpu # Isr /\ stack[Cpu] # << >>
    BY <1>1, Constants
  <1>3. \A f \in ToSet(stack[Cpu]) : f.fn \notin Preempting
    BY <1>1
  <1>4. PICK k : stack' = [stack EXCEPT ![Cpu] = k]
    BY DEF Become, Return
  <1>5. Better' => Better
    BY NotBetter
  <1>6. QED BY <1>2, <1>3, <1>4, <1>5, CalmTurnBest

LEMMA ExitHintBest == ASSUME KInv, HInv, ExitHint PROVE HInv'
  <1>1. /\ Running("ExitHint") /\ Become(<<Reschedule>>) /\ current' = current
        /\ state' = state /\ priority' = priority /\ runBits' = runBits
    BY DEF ExitHint, threadVars
  <1>2. PICK fn : fn = "ExitHint"
    OBVIOUS
  <1>3. fn \notin IsrFrames /\ fn \notin Inner /\ fn \notin Preempting /\ Running(fn)
    BY <1>1, <1>2 DEF IsrFrames, Inner, Preempting
  <1>4. QED BY <1>1, <1>3, OuterBest

LEMMA JoinTailBest == ASSUME KInv, HInv, JoinTail PROVE HInv'
  <1>1. /\ Running("JoinTail") /\ Return /\ current' = current
        /\ priority' = priority /\ runBits' = runBits
    BY DEF JoinTail, queueVars
  <1>2. PICK fn : fn = "JoinTail"
    OBVIOUS
  <1>3. fn \notin IsrFrames /\ fn \notin Inner /\ fn \notin Preempting /\ Running(fn)
    BY <1>1, <1>2 DEF IsrFrames, Inner, Preempting
  <1>4. \A t \in Thread : state'[t] = "RUNNING" => state[t] = "RUNNING"
    BY DEF JoinTail, Reap, KInv, TypeOK
  <1>5. QED BY <1>1, <1>3, <1>4, OuterBest

LEMMA LockTurnBest == ASSUME KInv, HInv, LockTurn PROVE HInv'
  <1>1. /\ Running("OSLockMutex") /\ current' = current /\ state' = state
        /\ priority' = priority /\ runBits' = runBits
    BY DEF LockTurn, queueVars
  <1>2. PICK fn, n : fn = "OSLockMutex" /\ (Become(n) \/ Return)
    BY DEF LockTurn
  <1>3. fn \notin IsrFrames /\ fn \notin Inner /\ fn \notin Preempting /\ Running(fn)
    BY <1>1, <1>2 DEF IsrFrames, Inner, Preempting
  <1>4. QED BY <1>1, <1>2, <1>3, OuterBest

LEMMA LockSleepBest == ASSUME KInv, HInv, LockSleep PROVE HInv'
  <1>1. /\ Running("LockSleep") /\ current' = current /\ SleepOn(current, Arg)
        /\ priority' = priority
    BY DEF LockSleep
  <1>2. PICK fn, n : fn = "LockSleep" /\ Become(n)
    BY DEF LockSleep
  <1>3. fn \notin IsrFrames /\ fn \notin Inner /\ fn \notin Preempting /\ Running(fn)
    BY <1>1, <1>2 DEF IsrFrames, Inner, Preempting
  <1>4. \A t \in Thread : state'[t] = "RUNNING" => state[t] = "RUNNING"
    BY <1>1 DEF SleepOn, KInv, TypeOK
  <1>5. runBits' = runBits
    BY <1>1 DEF SleepOn
  <1>6. QED BY <1>1, <1>2, <1>3, <1>4, <1>5, OuterBest

LEMMA LockWokenBest == ASSUME KInv, HInv, LockWoken PROVE HInv'
  <1>1. /\ Running("LockWoken") /\ current' = current /\ state' = state
        /\ priority' = priority /\ runBits' = runBits
    BY DEF LockWoken, queueVars
  <1>2. PICK fn, n : fn = "LockWoken" /\ Become(n)
    BY DEF LockWoken
  <1>3. fn \notin IsrFrames /\ fn \notin Inner /\ fn \notin Preempting /\ Running(fn)
    BY <1>1, <1>2 DEF IsrFrames, Inner, Preempting
  <1>4. QED BY <1>1, <1>2, <1>3, OuterBest

LEMMA CancelTailBest == ASSUME KInv, HInv, CancelTail PROVE HInv'
  <1>1. /\ Running("CancelTail") /\ Die(Arg) /\ Become(TearDown(Arg) \o <<Reschedule>>)
        /\ priority' = priority /\ runBits' = runBits /\ hint' = hint /\ current' = current
    BY DEF CancelTail, queueVars
  <1>2. "CancelTail" \notin Inner /\ "CancelTail" \notin IsrFrames /\ "CancelTail" \notin Teardown
    BY DEF Inner, IsrFrames, Teardown
  <1>3. /\ current \in Thread /\ Cpu = current /\ Stacked /\ StackInv
        /\ stack[current] # << >> /\ Head(stack[current]) \in Frame
        /\ Head(stack[current]).fn = "CancelTail" /\ Arg = Head(stack[current]).arg
        /\ \A fs \in Seq(Frame) : Become(fs) => stack' = [stack EXCEPT ![current] = fs]
    BY <1>1, <1>2, StateTypes, Outermost, ThreadTurn DEF KInv
  <1>4. PICK t \in Thread : t = Arg
    BY <1>3, FrameFacts
  <1>5. PICK a \in Frame, b \in Frame, e \in Frame :
           /\ a = F("__OSUnlockAllMutex", t) /\ b = F("OSWakeupThread", t) /\ e = Reschedule
    BY Constants, FrameIntro
  <1>6. PICK n : n = <<a, b, e>>
    OBVIOUS
  <1>7. /\ n \in Seq(Frame) /\ ToSet(n) = {a, b, e} /\ Head(n) = a /\ ToSet(Tail(n)) = {b, e}
    BY <1>6, Triple
  <1>8. stack' = [stack EXCEPT ![Cpu] = n]
    <2>1. TearDown(t) \o <<e>> = n
      BY <1>5, <1>6, TornFrames
    <2>2. QED BY <1>1, <1>3, <1>4, <1>5, <1>7, <2>1
  <1>9. Cpu # NULL /\ Cpu # Isr /\ stack[Cpu] # << >> /\ ~Running("OSWakeupThread")
    BY <1>3, Constants DEF Running
  <1>10. \E f \in ToSet(n) : f.fn \in Preempting
    BY <1>5, <1>7, FrameIntro DEF Preempting
  <1>11. \A u \in Thread : state'[u] = "RUNNING" => state[u] = "RUNNING"
    BY <1>1, <1>4, DieRuns
  <1>12. Better' => Better
    BY <1>1, <1>11, NotBetter
  <1>13. QED BY <1>1, <1>8, <1>9, <1>10, <1>12, TurnBest

LEMMA WakeupTurnBest == ASSUME KInv, HInv, WakeupTurn PROVE HInv'
  <1>1. /\ Running("OSWakeupThread") /\ priority' = priority /\ current' = current
    BY DEF WakeupTurn
  <1>2. /\ Stacked /\ Cpu # NULL /\ Cpu \in Context
        /\ stack[Cpu] \in Seq(Frame) /\ stack[Cpu] # << >>
        /\ Head(stack[Cpu]) \in Frame /\ Head(stack[Cpu]) \in ToSet(stack[Cpu])
        /\ Head(stack[Cpu]).fn = "OSWakeupThread"
        /\ Arg = Head(stack[Cpu]).arg /\ Tail(stack[Cpu]) \in Seq(Frame)
        /\ Cpu # Isr => Cpu = current /\ current \in Thread
    BY <1>1, InnerFacts DEF Inner
  <1>3. PICK q \in WaitQueue : q = Arg
    BY <1>2, FrameFacts
  <1>4. CASE WakeupDone(Arg) /\ Become(<<Reschedule>>) /\ UNCHANGED <<state, queue, queueVars>>
    <2>1. PICK g \in Frame, r \in Seq(Frame) :
             g = Reschedule /\ r = Tail(stack[Cpu]) /\ g.fn = "__OSReschedule"
      BY <1>2, FrameIntro
    <2>2. PICK n : n = <<g>> \o r /\ ToSet(n) = ToSet(r) \cup {g}
      BY PushedTail
    <2>3. stack' = [stack EXCEPT ![Cpu] = n]
      BY <1>4, <2>1, <2>2 DEF Become
    <2>4. g \in ToSet(n) /\ g.fn \in Preempting /\ g.fn \in Inner
      BY <2>1, <2>2 DEF Preempting, Inner
    <2>5. Better' => Better
      BY <1>1, <1>4, NotBetter DEF queueVars
    <2>6. ~Waking /\ hint' = hint
      BY <1>4 DEF Waking, WakeupDone, queueVars
    <2>7. Better' => hint'
      BY <2>5, <2>6 DEF HInv
    <2>8. Cpu = Isr => /\ Head(stack[Isr]).fn # "IsrReturn"
                       /\ \E f \in Frame : f.fn \in Inner /\ n = <<f>> \o Tail(stack[Isr])
      BY <1>2, <2>1, <2>2, <2>4
    <2>9. QED BY <1>1, <1>2, <2>3, <2>4, <2>7, <2>8, TurnBest
  <1>5. CASE ~WakeupDone(Arg) /\ WakeHead(Arg) /\ UNCHANGED stack
    <2>1. waiters[q] # << >> /\ waiters[q] \in Seq(Thread)
      BY <1>3, <1>5, StateTypes DEF KInv, WakeupDone
    <2>2. PICK v \in Thread : v = Head(waiters[q])
      BY <2>1, TailSet
    <2>3. /\ state' = [state EXCEPT ![v] = "READY"]
          /\ hint' = TRUE \/ (suspend[v] > 0 /\ runBits' = runBits /\ hint' = hint)
      <3>1. suspend[v] \in Nat
        BY StateTypes DEF KInv
      <3>2. QED BY <1>3, <1>5, <2>2, <3>1 DEF WakeHead, SetRun
    <2>4. IsrEnds'
      BY <1>5 DEF HInv, IsrEnds
    <2>5. Coming'
      <3>1. CASE Cpu = Isr
        BY <1>2, <1>5, <3>1 DEF Coming
      <3>2. CASE Cpu # Isr
        BY <1>1, <1>2, <1>5, <3>2 DEF Coming, Preempting
      <3>3. QED BY <3>1, <3>2
    <2>6. Better' => hint'
      <3>1. CASE hint' = TRUE
        BY <3>1
      <3>2. CASE suspend[v] > 0 /\ runBits' = runBits /\ hint' = hint
        <4>1. ~Waking
          BY <1>3, <2>2, <3>2 DEF Waking
        <4>2. \A u \in Thread : state'[u] = "RUNNING" => state[u] = "RUNNING"
          BY <2>3 DEF KInv, TypeOK
        <4>3. Better' => Better
          BY <1>1, <3>2, <4>2, NotBetter
        <4>4. QED BY <3>2, <4>1, <4>3 DEF HInv
      <3>3. QED BY <2>3, <3>1, <3>2
    <2>7. QED BY <2>4, <2>5, <2>6 DEF HInv
  <1>6. QED BY <1>4, <1>5 DEF WakeupTurn

LEMMA UnlockAllBest == ASSUME KInv, HInv, UnlockAllTurn PROVE HInv'
  <1>1. /\ Running("__OSUnlockAllMutex") /\ state' = state /\ priority' = priority
        /\ runBits' = runBits /\ hint' = hint /\ current' = current
    BY DEF UnlockAllTurn, threadVars, queueVars
  <1>2. /\ Stacked /\ StackInv /\ Cpu # NULL /\ Cpu \in Context
        /\ stack[Cpu] \in Seq(Frame) /\ stack[Cpu] # << >>
        /\ Head(stack[Cpu]) \in ToSet(stack[Cpu])
        /\ Head(stack[Cpu]).fn = "__OSUnlockAllMutex" /\ Head(stack[Cpu]) \in Frame
        /\ Arg = Head(stack[Cpu]).arg /\ Tail(stack[Cpu]) \in Seq(Frame)
        /\ ToSet(stack[Cpu]) = ToSet(Tail(stack[Cpu])) \cup {Head(stack[Cpu])}
    BY <1>1, InnerFacts DEF Inner
  <1>3. Cpu # Isr
    BY <1>2 DEF StackInv, Frames, IsrFrames
  <1>4. ~Running("OSWakeupThread") /\ Head(stack[Cpu]).fn \notin Preempting
    BY <1>2 DEF Running, Preempting
  <1>5. Better' => Better
    BY <1>1, NotBetter
  <1>6. \E n : /\ stack' = [stack EXCEPT ![Cpu] = n]
               /\ \A f \in ToSet(Tail(stack[Cpu])) : f \in ToSet(n)
    <2>1. CASE Return
      BY <2>1 DEF Return
    <2>2. CASE /\ held[Arg] # << >>
               /\ stack' = [stack EXCEPT ![Cpu] = <<F("OSWakeupThread", Head(held[Arg]))>> \o @]
      <3>1. PICK t \in Thread : t = Arg
        BY <1>2, FrameFacts
      <3>2. Head(held[t]) \in Mutex
        <4>1. held[t] \in Seq(Mutex) /\ held[t] # << >>
          BY <2>2, <3>1, StateTypes DEF KInv
        <4>2. QED BY <4>1, TailSet
      <3>3. PICK g \in Frame : g = F("OSWakeupThread", Head(held[t]))
        BY <3>2, FrameIntro, Constants
      <3>4. PICK s \in Seq(Frame) : s = stack[Cpu]
        BY <1>2
      <3> DEFINE n == <<g>> \o s
      <3>5. ToSet(n) = ToSet(s) \cup {g}
        BY PushedTail
      <3>6. stack' = [stack EXCEPT ![Cpu] = n]
        BY <2>2, <3>1, <3>3, <3>4
      <3> HIDE DEF n
      <3>7. QED BY <1>2, <3>4, <3>5, <3>6
    <2>3. QED BY <2>1, <2>2 DEF UnlockAllTurn
  <1>7. QED BY <1>1, <1>2, <1>3, <1>4, <1>5, <1>6, TurnBest

(* SetEffectivePriority sets the hint, or moves nobody past the running    *)
(* thread.                                                                 *)
LEMMA EffectiveBest ==
    ASSUME KInv, NEW t \in Thread, NEW p, SetEffectivePriority(t, p),
           state' = state, current' = current
    PROVE  hint' \/ (Better' => Better)
  <1>1. CASE state[t] \in {"READY", "RUNNING"}
    BY <1>1 DEF SetEffectivePriority
  <1>2. CASE state[t] \notin {"READY", "RUNNING"}
    <2>1. runBits' = runBits /\ \A u \in Thread \ {t} : priority'[u] = priority[u]
      BY <1>2 DEF SetEffectivePriority, KInv, TypeOK
    <2>2. QED BY <1>2, <2>1, NotBetter
  <1>3. QED BY <1>1, <1>2

LEMMA UpdateBest == ASSUME KInv, PInv, HInv, UpdatePriority PROVE HInv'
  <1>1. /\ Running("UpdatePriority") /\ current' = current /\ state' = state
        /\ TypeOK /\ Shapes
    BY DEF UpdatePriority, KInv, PInv
  <1>2. PICK t \in Thread : t = Arg
    BY DEF UpdatePriority
  <1>3. PICK k \in Thread \cup {NULL} : k = NextInChain(t)
    BY <1>1, NextType
  <1>4. /\ Cpu # NULL /\ stack[Cpu] \in Seq(Frame) /\ stack[Cpu] # << >>
        /\ Head(stack[Cpu]).fn = "UpdatePriority" /\ Tail(stack[Cpu]) \in Seq(Frame)
    BY <1>1, InnerFacts DEF Inner
  <1>5. PICK r \in Seq(Frame) : r = Tail(stack[Cpu])
    BY <1>4
  <1>6. PICK g \in Frame : k # NULL => g = F("UpdatePriority", k) /\ g.fn = "UpdatePriority"
    BY FrameIntro
  <1>7. PICK n : /\ stack' = [stack EXCEPT ![Cpu] = n]
                 /\ n = r \/ (k # NULL /\ n = <<g>> \o r)
    BY <1>2, <1>3, <1>5, <1>6 DEF UpdatePriority, Return, Become
  <1>8. \A f \in ToSet(r) : f \in ToSet(n)
    <2>1. ToSet(<<g>> \o r) = ToSet(r) \cup {g}
      BY PushedTail
    <2>2. QED BY <1>7, <2>1
  <1>9. (hint => hint') /\ (hint' \/ (Better' => Better))
    <2>1. CASE UNCHANGED <<queueVars, priority, queue>>
      <3>1. hint' = hint /\ priority' = priority /\ runBits' = runBits
        BY <2>1 DEF queueVars
      <3>2. QED BY <1>1, <3>1, NotBetter
    <2>2. CASE SetEffectivePriority(t, EffectivePriority(t, held[t], waiters))
      <3>1. PICK p : SetEffectivePriority(t, p)
        BY <2>2
      <3>2. hint' \/ (Better' => Better)
        BY <1>1, <3>1, EffectiveBest
      <3>3. hint => hint'
        BY <3>1 DEF SetEffectivePriority
      <3>4. QED BY <3>2, <3>3
    <2>3. QED BY <1>2, <2>1, <2>2 DEF UpdatePriority
  <1>10. ~Running("OSWakeupThread")
    BY <1>4 DEF Running
  <1>11. Better' => hint' \/ (Better /\ (hint => hint') /\ ~Running("OSWakeupThread"))
    BY <1>9, <1>10
  <1>12. Cpu # Isr => \E f \in ToSet(n) : f.fn \in Preempting
    <2>1. Cpu # Isr => \E f \in ToSet(r) : f.fn \in {"__OSReschedule", "CancelTail"}
      BY <1>1, <1>4, <1>5, TurnHead
    <2>2. QED BY <1>8, <2>1 DEF Preempting
  <1>13. Cpu = Isr => /\ Head(stack[Isr]).fn # "IsrReturn"
                      /\ \/ n = Tail(stack[Isr])
                         \/ \E f \in Frame : f.fn \in Inner /\ n = <<f>> \o Tail(stack[Isr])
    BY <1>4, <1>5, <1>6, <1>7 DEF Inner
  <1>14. QED BY <1>1, <1>4, <1>7, <1>11, <1>12, <1>13, TurnBest

LEMMA PromoteBest == ASSUME KInv, PInv, HInv, PromoteThread PROVE HInv'
  <1>1. /\ Running("__OSPromoteThread") /\ state' = state /\ current' = current /\ Shapes /\ TypeOK
    BY DEF PromoteThread, PInv, KInv
  <1>2. PICK t \in Thread, c \in Thread, p \in Priority, m \in Mutex, b \in Frame :
           /\ t = Arg /\ c = current /\ p = priority[c] /\ m = mutex[c] /\ b = F("LockSleep", m)
           /\ stack[c] = <<Promote(t, p), b>> /\ p \in Claims(t)
           /\ \/ /\ PromoteEnds(t, p) /\ stack' = [stack EXCEPT ![c] = <<b>>]
                 /\ UNCHANGED <<queueVars, priority, queue>>
              \/ /\ ~PromoteEnds(t, p) /\ t # c /\ SetEffectivePriority(t, p)
                 /\ \/ NextInChain(t) = NULL /\ stack' = [stack EXCEPT ![c] = <<b>>]
                    \/ /\ NextInChain(t) \in Thread
                       /\ stack' = [stack EXCEPT ![c] = <<Promote(NextInChain(t), p), b>>]
    BY <1>1, PromoteTurn
  <1>3. Cpu = c /\ c # NULL /\ c # Isr
    BY <1>1, <1>2, PromoteFacts, Constants
  <1>4. PICK h \in Frame : h = Promote(t, p) /\ h.fn = "__OSPromoteThread"
    BY FrameIntro, Constants DEF Priority
  <1>5. ToSet(stack[c]) = {h, b} /\ stack[c] # << >>
    <2>1. stack[c] = <<h, b>>
      BY <1>2, <1>4
    <2>2. ToSet(<<h, b>>) = {h, b} /\ <<h, b>> # << >>
      BY Stacks
    <2>3. QED BY <2>1, <2>2
  <1>6. \A f \in ToSet(stack[Cpu]) : f.fn \notin Preempting
    BY <1>2, <1>3, <1>4, <1>5, FrameIntro DEF Preempting
  <1>7. priority'[c] = priority[c] /\ \A r \in runBits' : r \in runBits \/ r = p
    <2>1. CASE UNCHANGED <<queueVars, priority, queue>>
      BY <2>1 DEF queueVars
    <2>2. CASE t # c /\ SetEffectivePriority(t, p)
      <3>1. priority'[c] = priority[c]
        BY <1>1, <2>2 DEF SetEffectivePriority, TypeOK
      <3>2. runBits' = BitsWithout(t) \cup {p} \/ runBits' = runBits
        BY <2>2 DEF SetEffectivePriority
      <3>3. BitsWithout(t) \subseteq runBits
        BY DEF BitsWithout
      <3>4. QED BY <3>1, <3>2, <3>3
    <2>3. QED BY <1>2, <2>1, <2>2
  <1>8. Better' => Better
    <2>1. p \in Nat /\ ~(p < priority[c])
      BY <1>2, Constants
    <2>2. QED BY <1>1, <1>2, <1>7, <2>1, NotBetter
  <1>9. PICK n : stack' = [stack EXCEPT ![Cpu] = n]
    BY <1>2, <1>3
  <1>10. QED BY <1>3, <1>5, <1>6, <1>8, <1>9, CalmTurnBest

LEMMA IsrReturnBest == ASSUME KInv, HInv, IsrReturn PROVE HInv'
  <1>1. /\ Running("IsrReturn") /\ state' = state /\ priority' = priority /\ runBits' = runBits
        /\ hint' = hint /\ current' = current
        /\ stack' = [c \in Context |-> IF c = Isr THEN << >>
                                       ELSE IF c = current THEN <<Reschedule>> ELSE stack[c]]
    BY DEF IsrReturn, threadVars, queueVars
  <1>2. Isr \in Context /\ Thread \subseteq Context /\ Isr \notin Thread
    BY Constants DEF Context
  <1>3. IsrEnds'
    BY <1>1, <1>2 DEF IsrEnds
  <1> SUFFICES ASSUME Better' PROVE Coming' /\ hint'
    BY <1>3 DEF HInv
  <1>4. Better
    BY <1>1, NotBetter
  <1>5. hint'
    BY <1>1, <1>4 DEF HInv, Waking, Running
  <1>6. PICK c \in Thread : c = current /\ c = current'
    BY <1>1, <1>4 DEF Better, KInv, TypeOK
  <1>7. stack'[current'] = <<Reschedule>>
    BY <1>1, <1>2, <1>6
  <1>8. Reschedule \in ToSet(stack'[current']) /\ Reschedule.fn \in Preempting
    BY <1>7, FrameIntro, Stacks DEF Preempting
  <1>9. QED BY <1>5, <1>8 DEF Coming

(* The thread that Dispatch takes is the best of the ready ones.           *)
LEMMA DispatchBest ==
    ASSUME NEW st, NEW qu, NEW rq, NEW rb \in SUBSET Priority,
           \A p \in rb : /\ rq[p] \in Seq(Thread) /\ rq[p] # << >>
                         /\ \A v \in ToSet(rq[p]) : priority[v] = p,
           Dispatch(st, qu, rq, rb), priority' = priority
    PROVE  ~Better'
  <1>1. CASE rb = {}
    BY <1>1 DEF Dispatch, Better
  <1>2. CASE rb # {}
    <2>1. PICK p \in rb : p = BestOf(rb) /\ \A r \in rb : p <= r
      BY <1>2, BestOK
    <2>2. PICK l \in Seq(Thread) : l = rq[p]
      BY <2>1
    <2>3. PICK h \in Thread : h = Head(l) /\ h \in ToSet(l)
      BY <2>1, <2>2, TailSet
    <2>4. current' = h /\ runBits' \subseteq rb
      BY <1>2, <2>1, <2>2, <2>3 DEF Dispatch
    <2>5. priority'[current'] = p
      BY <2>1, <2>2, <2>3, <2>4
    <2>6. \A r \in rb : r \in Nat
      BY Constants
    <2>7. QED BY <2>1, <2>4, <2>5, <2>6 DEF Better
  <1>3. QED BY <1>1, <1>2

LEMMA QueuedBest ==
    ASSUME KInv
    PROVE  /\ runBits \in SUBSET Priority /\ runQueue \in [Priority -> Seq(Thread)]
           /\ \A p \in runBits : runQueue[p] # << >>
           /\ \A p \in Priority : \A v \in ToSet(runQueue[p]) : priority[v] = p
  <1>1. QueuesExact
    BY PlacedExact DEF KInv
  <1>2. QED BY <1>1 DEF QueuesExact, RunQueueExact, TypeOK, ToSet

LEMMA SelectBest ==
    ASSUME KInv, HInv, NEW fn \in {"__OSReschedule", "OSYieldThread"}, Running(fn),
           NEW yield \in BOOLEAN, SelectThread(yield)
    PROVE  HInv'
  <1>1. /\ Cpu # NULL /\ stack[Cpu] # << >> /\ Head(stack[Cpu]).fn = fn
        /\ Cpu # Isr => current \in Thread
        /\ ~Running("OSWakeupThread")
    BY SelectFacts
  <1>2. /\ Return /\ priority' = priority
    BY DEF SelectThread
  <1>3. PICK n : n = Tail(stack[Cpu]) /\ stack' = [stack EXCEPT ![Cpu] = n]
    BY <1>2 DEF Return
  <1>4. CASE Cpu = Isr
    <2>1. state' = state /\ runBits' = runBits /\ hint' = hint /\ current' = current
      BY <1>4 DEF SelectThread
    <2>2. Better' => Better
      BY <1>2, <2>1, NotBetter
    <2>3. QED BY <1>1, <1>3, <1>4, <2>1, <2>2, TurnBest
  <1>5. CASE Cpu # Isr
    <2>1. IsrEnds'
      BY <1>1, <1>3, <1>5, TurnIsrEnds DEF HInv
    <2>2. PICK c \in Thread : c = current
      BY <1>1, <1>5
    <2>3. /\ runBits \in SUBSET Priority /\ runQueue \in [Priority -> Seq(Thread)]
          /\ \A p \in runBits : runQueue[p] # << >>
          /\ \A p \in Priority : \A v \in ToSet(runQueue[p]) : priority[v] = p
      BY QueuedBest
    <2>4. CASE KeepsRunning(yield)
      <3>1. runBits' = runBits /\ current' = c
        BY <2>2, <2>4 DEF SelectThread
      <3>2. \A p \in runBits : priority[c] <= p /\ p \in Nat /\ priority[c] \in Nat
        BY <2>2, <2>3, <2>4, StateTypes, Constants DEF KeepsRunning, KInv
      <3>3. ~Better'
        BY <1>2, <3>1, <3>2 DEF Better
      <3>4. QED BY <2>1, <3>3 DEF HInv
    <2>5. CASE ~KeepsRunning(yield) /\ state[current] # "RUNNING"
      <3>1. Dispatch(state, queue, runQueue, runBits)
        BY <1>5, <2>5 DEF SelectThread
      <3>2. ~Better'
        BY <1>2, <2>3, <3>1, DispatchBest
      <3>3. QED BY <2>1, <3>2 DEF HInv
    <2>6. CASE ~KeepsRunning(yield) /\ state[current] = "RUNNING"
      <3>1. PICK p \in Priority : p = priority[c]
        BY <2>2, <2>6 DEF KInv, RunningOne, PrioOK, Dead
      <3> DEFINE st == [state EXCEPT ![c] = "READY"]
                 qu == [queue EXCEPT ![c] = p]
                 rq == [runQueue EXCEPT ![p] = Append(@, c)]
                 rb == runBits \cup {p}
      <3>2. Dispatch(st, qu, rq, rb)
        <4>1. LET x == priority[current] IN
              Dispatch([state EXCEPT ![current] = "READY"], [queue EXCEPT ![current] = x],
                       [runQueue EXCEPT ![x] = Append(@, current)], runBits \cup {x})
          BY <1>5, <2>6 DEF SelectThread
        <4>2. p = priority[current] /\ c = current
          BY <2>2, <3>1
        <4>3. QED BY <4>1, <4>2 DEF Dispatch
      <3>3. PICK l \in Seq(Thread) : l = runQueue[p]
        BY <2>3
      <3>4. Append(l, c) \in Seq(Thread) /\ ToSet(Append(l, c)) = ToSet(l) \cup {c}
            /\ Append(l, c) # << >>
        BY AppendSet, AppendProperties
      <3>5. /\ rb \in SUBSET Priority
            /\ rq[p] = Append(l, c) /\ \A r \in Priority \ {p} : rq[r] = runQueue[r]
        BY <2>3, <3>3, <3>4
      <3>6. \A v \in ToSet(rq[p]) : priority[v] = p
        BY <2>3, <3>1, <3>3, <3>4, <3>5
      <3>7. \A r \in rb : /\ rq[r] \in Seq(Thread) /\ rq[r] # << >>
                          /\ \A v \in ToSet(rq[r]) : priority[v] = r
        <4> HIDE DEF rq
        <4>1. QED BY <2>3, <3>4, <3>5, <3>6
      <3> HIDE DEF st, qu, rq, rb
      <3>8. ~Better'
        BY <1>2, <3>2, <3>5, <3>7, DispatchBest
      <3>9. QED BY <2>1, <3>8 DEF HInv
    <2>7. QED BY <2>4, <2>5, <2>6
  <1>6. QED BY <1>4, <1>5

LEMMA RescheduleBest == ASSUME KInv, HInv, OSReschedule PROVE HInv'
  <1>1. PICK fn \in {"__OSReschedule", "OSYieldThread"}, yield \in BOOLEAN :
           fn = "__OSReschedule" /\ yield = FALSE
    OBVIOUS
  <1>2. Running(fn)
    BY <1>1 DEF OSReschedule
  <1>3. CASE SelectThread(FALSE)
    BY <1>1, <1>2, <1>3, SelectBest
  <1>4. CASE ~hint /\ Return /\ UNCHANGED <<threadVars, queueVars, mutexVars, current>>
    <2>1. Cpu # NULL /\ stack[Cpu] # << >> /\ Head(stack[Cpu]).fn = fn /\ ~Running("OSWakeupThread")
      BY <1>2, SelectFacts
    <2>2. ~Better
      BY <1>4, <2>1 DEF HInv, Waking
    <2>3. state' = state /\ priority' = priority /\ runBits' = runBits /\ current' = current
      BY <1>4 DEF threadVars, queueVars
    <2>4. Better' => Better
      BY <2>3, NotBetter
    <2>5. PICK n : n = Tail(stack[Cpu]) /\ stack' = [stack EXCEPT ![Cpu] = n]
      BY <1>4 DEF Return
    <2>6. IsrEnds'
      BY <1>1, <2>1, <2>5, TurnIsrEnds DEF HInv
    <2>7. QED BY <2>2, <2>4, <2>6 DEF HInv
  <1>5. QED BY <1>3, <1>4 DEF OSReschedule

LEMMA YieldTailBest == ASSUME KInv, HInv, YieldTail PROVE HInv'
  <1>1. PICK fn \in {"__OSReschedule", "OSYieldThread"}, yield \in BOOLEAN :
           Running(fn) /\ SelectThread(yield)
    BY DEF YieldTail
  <1>2. QED BY <1>1, SelectBest

LEMMA LeaveIdleBest == ASSUME KInv, HInv, LeaveIdle PROVE HInv'
  <1>1. stack' = stack /\ Dispatch(state, queue, runQueue, runBits) /\ priority' = priority
    BY DEF LeaveIdle
  <1>2. IsrEnds'
    BY <1>1 DEF HInv, IsrEnds
  <1>3. ~Better'
    BY <1>1, QueuedBest, DispatchBest
  <1>4. QED BY <1>2, <1>3 DEF HInv

LEMMA StutterBest == ASSUME HInv, UNCHANGED vars PROVE HInv'
  <1>1. /\ state' = state /\ priority' = priority /\ suspend' = suspend /\ waiters' = waiters
        /\ runBits' = runBits /\ hint' = hint /\ current' = current /\ stack' = stack
    BY DEF vars, threadVars, queueVars
  <1>2. Cpu' = Cpu
    BY <1>1 DEF Cpu
  <1>3. Running("OSWakeupThread")' <=> Running("OSWakeupThread")
    BY <1>1, <1>2 DEF Running
  <1>4. Arg' = Arg
    BY <1>1, <1>2 DEF Arg
  <1>5. /\ IsrEnds' <=> IsrEnds
        /\ Better' <=> Better
        /\ Coming' <=> Coming
    BY <1>1 DEF IsrEnds, Better, Coming
  <1>6. Waking' <=> Waking
    BY <1>1, <1>3, <1>4 DEF Waking
  <1>7. QED BY <1>1, <1>5, <1>6 DEF HInv

LEMMA BestStep == ASSUME KInv, KInv', PInv, HInv, [Next]_vars PROVE HInv'
  <1>1. /\ active \subseteq Thread /\ current \in Thread \cup {NULL}
    BY DEF KInv, TypeOK
  <1>2. CASE current # NULL /\ ThreadCall(current)
    <2>1. current \in Thread /\ current \in {current, Isr} /\ current # NULL
      BY <1>1, <1>2
    <2>2. CASE \E t \in Thread \ {current}, p \in Priority, det \in BOOLEAN :
                  OSCreateThread(current, t, p, det)
      BY <2>1, <2>2, CreateBest
    <2>3. CASE \E q \in UserQueue : OSSleepThread(current, q)
      BY <2>1, <2>3, SleepBest
    <2>4. CASE \E q \in UserQueue : OSWakeupThread(current, q)
      <3>1. PICK c \in {current, Isr}, q \in UserQueue : c # NULL /\ OSWakeupThread(c, q)
        BY <2>1, <2>4
      <3>2. QED BY <3>1, WakeupBest
    <2>5. CASE OSYieldThread(current)
      BY <2>1, <2>5, YieldBest
    <2>6. CASE \E t \in active, p \in Priority : OSSetThreadPriority(current, t, p)
      BY <1>1, <2>1, <2>6, SetPriorityBest
    <2>7. CASE \E t \in active \cap Cancellable : OSSuspendThread(current, t)
      BY <1>1, <2>1, <2>7, SuspendBest
    <2>8. CASE \E t \in active : OSResumeThread(current, t)
      <3>1. PICK c \in {current, Isr}, t \in Thread : c # NULL /\ OSResumeThread(c, t)
        BY <1>1, <2>1, <2>8
      <3>2. QED BY <3>1, ResumeBest
    <2>9. CASE OSExitThread(current)
      BY <2>1, <2>9, ExitBest
    <2>10. CASE \E t \in active \cap Cancellable : OSCancelThread(current, t)
      BY <1>1, <2>1, <2>10, CancelBest
    <2>11. CASE \E t \in active : OSJoinThread(current, t)
      BY <1>1, <2>1, <2>11, JoinBest
    <2>12. CASE \E t \in active : OSDetachThread(current, t)
      BY <1>1, <2>1, <2>12, DetachBest
    <2>13. CASE \E m \in Mutex : OSLockMutex(current, m)
      BY <2>1, <2>13, LockBest
    <2>14. CASE \E m \in Mutex : OSTryLockMutex(current, m)
      BY <2>1, <2>14, TryLockBest
    <2>15. CASE \E m \in Mutex : OSUnlockMutex(current, m)
      BY <2>1, <2>15, UnlockBest
    <2>16. QED
      BY <1>2, <2>2, <2>3, <2>4, <2>5, <2>6, <2>7, <2>8, <2>9, <2>10, <2>11, <2>12, <2>13, <2>14, <2>15
      DEF ThreadCall
  <1>3. CASE Interrupt
    <2>1. Isr # NULL
      BY Constants
    <2>2. CASE \E q \in UserQueue : OSWakeupThread(Isr, q)
      <3>1. PICK c \in {current, Isr}, q \in UserQueue : c # NULL /\ OSWakeupThread(c, q)
        BY <2>1, <2>2
      <3>2. QED BY <3>1, WakeupBest
    <2>3. CASE \E t \in active : OSResumeThread(Isr, t)
      <3>1. PICK c \in {current, Isr}, t \in Thread : c # NULL /\ OSResumeThread(c, t)
        BY <1>1, <2>1, <2>3
      <3>2. QED BY <3>1, ResumeBest
    <2>4. QED BY <1>3, <2>2, <2>3 DEF Interrupt
  <1>4. CASE KernelStep
    BY <1>4, WakeupTurnBest, RescheduleBest, YieldTailBest, UpdateBest, PromoteBest, ExitHintBest,
       CancelTailBest, JoinTailBest, LockTurnBest, LockSleepBest, LockWokenBest, UnlockAllBest,
       IsrReturnBest, LeaveIdleBest
    DEF KernelStep
  <1>5. CASE UNCHANGED vars
    BY <1>5, StutterBest
  <1>6. QED BY <1>2, <1>3, <1>4, <1>5 DEF Next

LEMMA InitBest == ASSUME Init PROVE HInv
  <1>1. runBits = {} /\ stack[Isr] = << >>
    BY DEF Init, Context
  <1>2. QED BY <1>1 DEF HInv, IsrEnds, Better

(* Between calls nothing is to come, so nobody is better.                  *)
LEMMA BestExact == ASSUME KInv, HInv PROVE HighestPriorityRuns
  <1>1. \A t \in Thread : state[t] = "RUNNING" => t = current
    BY DEF KInv, RunningOne
  <1>2. ASSUME Quiescent, current # NULL
        PROVE  /\ state[current] = "RUNNING" /\ suspend[current] = 0
               /\ \A p \in runBits : priority[current] <= p
    <2>1. Isr \in {current, Isr} /\ Isr # NULL /\ MayCall(Isr)
      BY <1>2, Constants DEF Quiescent, MayCall
    <2>2. ~Better
      BY <2>1, NoneBetter
    <2>3. /\ state[current] = "RUNNING" /\ suspend[current] = 0 /\ priority[current] \in Priority
      BY <1>2, <2>1, CallFacts
    <2>4. \A p \in runBits : p \in Nat
      BY Constants DEF KInv, TypeOK
    <2>5. priority[current] \in Nat
      BY <2>3, Constants
    <2>6. \A p \in runBits : ~(p < priority[current])
      BY <1>2, <2>2, <2>3 DEF Better
    <2>7. QED BY <2>3, <2>4, <2>5, <2>6
  <1>3. QED BY <1>1, <1>2 DEF HighestPriorityRuns

(***************************************************************************)
(* No preemption is missed, for every set of threads and mutexes: whenever *)
(* no call is under way the one thread that is RUNNING is the current one, *)
(* not suspended, and no ready thread is better, although SelectThread     *)
(* looks only when RunQueueHint is set and OSUnlockMutex lowers its        *)
(* caller without setting it.                                              *)
(***************************************************************************)
THEOREM KernelHighestPriorityRuns == Spec => []HighestPriorityRuns
  <1>1. Init => EInv /\ PInv /\ HInv
    BY InitOK, InitEnds, InitPrio, InitBest
  <1>2. KInv /\ KInv' /\ EInv /\ [Next]_vars => EInv'
    BY EndsStep
  <1>3. KInv /\ KInv' /\ EInv /\ PInv /\ [Next]_vars => PInv'
    BY PrioStep
  <1>4. KInv /\ KInv' /\ PInv /\ HInv /\ [Next]_vars => HInv'
    BY BestStep
  <1>5. KInv /\ HInv => HighestPriorityRuns
    BY BestExact
  <1>6. QED BY <1>1, <1>2, <1>3, <1>4, <1>5, KernelInvariant, PTL DEF Spec

================================================================================
