------------------------------ MODULE OSThread ------------------------------
(***************************************************************************)
(* revolution/OS/OSThread.c: the priority scheduler of the one processor.  *)
(*                                                                         *)
(* A function of the scheduler runs with interrupts disabled, so only a    *)
(* thread switch inside it (SelectThread) lets another thread or an        *)
(* interrupt run before it returns.  What is left of a switched out call   *)
(* stays on the thread's stack and goes on when the thread is dispatched   *)
(* again.  The model keeps that stack: stack[c] is the sequence of frames  *)
(* context c still has to run, the innermost first, and one step runs one  *)
(* turn of the innermost frame's loop (one thread woken, one thread of a   *)
(* priority chain, one mutex released).  << >> is the thread's own code,   *)
(* with interrupts enabled: it may call the scheduler, or be interrupted.  *)
(*                                                                         *)
(* A thread queue is the sequence of its threads, head first.  The wait    *)
(* queues are indexed by what they belong to: a thread (its joinQueue), a  *)
(* mutex (its queue), or a queue of the program (UserQueue).  OSMutex      *)
(* extends this module with OSMutex.c, and OSKernel composes the two with  *)
(* the interrupt dispatcher.                                               *)
(***************************************************************************)
EXTENDS Queues

CONSTANTS
    Thread,          \* thread control blocks
    DefaultThread,   \* the thread __OSThreadInit makes of the start-up code
    Mutex,           \* OSMutex objects
    UserQueue,       \* OSThreadQueue objects of the program
    Isr,             \* the interrupt handler's context
    NULL,            \* the null pointer
    OS_PRIORITY_MAX, \* the lowest priority (31 in OSThread.h)
    DefaultPriority, \* the default thread's (16)
    MaxSuspend,      \* bound on the suspend counts explored
    MaxLock          \* bound on the recursive locks explored

WaitQueue == Thread \cup Mutex \cup UserQueue
Context == Thread \cup {Isr}
Priority == 0 .. OS_PRIORITY_MAX     \* OS_PRIORITY_MIN is 0

ASSUME ThreadAssumption ==
    /\ DefaultThread \in Thread
    /\ Thread \cap Mutex = {}
    /\ Thread \cap UserQueue = {}
    /\ Mutex \cap UserQueue = {}
    /\ Isr \notin WaitQueue
    /\ NULL \notin WaitQueue \cup {Isr} \cup Int
    /\ (WaitQueue \cup {Isr}) \cap Int = {}

ASSUME BoundAssumption ==
    /\ OS_PRIORITY_MAX \in Nat
    /\ DefaultPriority \in Priority
    /\ MaxSuspend \in Nat \ {0}
    /\ MaxLock \in Nat \ {0}

VARIABLES
    state,      \* OSThread.state
    detached,   \* OS_THREAD_DETACHED in OSThread.flags
    base,       \* OSThread.base: the priority asked for
    priority,   \* OSThread.priority: with what its mutexes' waiters lend it
    suspend,    \* OSThread.suspend
    queue,      \* OSThread.queue: the queue the thread is linked in
    mutex,      \* OSThread.mutex: the mutex the thread waits for
    held,       \* OSThread.mutexQueue: the mutexes it owns, oldest first
    active,     \* OS_THREAD_QUEUE: the threads neither detached-dead nor reaped
    waiters,    \* the thread queues that are not run queues
    runQueue,   \* RunQueue
    runBits,    \* RunQueueBits, as the set of the non-empty run queues
    hint,       \* RunQueueHint
    current,    \* OS_CURRENT_THREAD; NULL in SelectThread's idle loop
    stack,      \* the frames each context has still to run
    owner,      \* OSMutex.thread
    lock        \* OSMutex.lock

threadVars == <<state, detached, base, priority, suspend, queue, mutex, active>>
queueVars == <<waiters, runQueue, runBits, hint>>
mutexVars == <<held, owner, lock>>
vars == <<threadVars, queueVars, mutexVars, current, stack>>

(***************************************************************************)
(* Frames.                                                                 *)
(***************************************************************************)
Frame ==
    [fn : {"OSWakeupThread"}, arg : WaitQueue, prio : {0}]
    \cup [fn : {"UpdatePriority"}, arg : Thread \cup {NULL}, prio : {0}]
    \cup [fn : {"__OSPromoteThread"}, arg : Thread, prio : 0 .. OS_PRIORITY_MAX + 1]
    \cup [fn : {"CancelTail", "JoinTail", "__OSUnlockAllMutex"}, arg : Thread, prio : {0}]
    \cup [fn : {"OSLockMutex", "LockSleep", "LockWoken"}, arg : Mutex, prio : {0}]
    \cup [fn : {"__OSReschedule", "OSYieldThread", "ExitHint", "IsrReturn"}, arg : {NULL}, prio : {0}]

F(fn, arg) == [fn |-> fn, arg |-> arg, prio |-> 0]
Promote(t, p) == [fn |-> "__OSPromoteThread", arg |-> t, prio |-> p]
Reschedule == F("__OSReschedule", NULL)

(* The context the processor runs: NULL only in the idle loop. *)
Cpu == IF stack[Isr] # << >> THEN Isr ELSE current

Running(fn) == Cpu # NULL /\ stack[Cpu] # << >> /\ Head(stack[Cpu]).fn = fn
Arg == Head(stack[Cpu]).arg

(* The innermost frame returns, or goes on as the frames fs. *)
Become(fs) == stack' = [stack EXCEPT ![Cpu] = fs \o Tail(@)]
Return == stack' = [stack EXCEPT ![Cpu] = Tail(@)]

(* The running thread is in its own code, or the processor idles. *)
InOwnCode == IF current = NULL THEN TRUE ELSE stack[current] = << >>

(* Context c may call the scheduler: it is the running thread, in its own  *)
(* code, or an interrupt that the running code or the idle loop lets in.   *)
MayCall(c) ==
    /\ stack[Isr] = << >>
    /\ IF c = Isr THEN InOwnCode ELSE c = current /\ stack[c] = << >>

(* The call enters the frames fs; a handler's last frame is the dispatcher *)
(* that called it.                                                         *)
Enter(c, fs) ==
    stack' = [stack EXCEPT ![c] = IF c = Isr THEN fs \o <<F("IsrReturn", NULL)>> ELSE fs]

(* __OSGetEffectivePriority of t, when it holds the mutexes ms and the     *)
(* wait queues are w.                                                      *)
EffectivePriority(t, ms, w) ==
    LET lent == {priority[Head(w[m])] : m \in {n \in ToSet(ms) : w[n] # << >>}}
        all == {base[t]} \cup lent
    IN  CHOOSE p \in all : \A r \in all : p <= r

(***************************************************************************)
(* Linking a thread in and out of the run queues.                          *)
(***************************************************************************)
SetRun(t, p) ==
    /\ runQueue' = [runQueue EXCEPT ![p] = Append(@, t)]
    /\ queue' = [queue EXCEPT ![t] = p]
    /\ runBits' = runBits \cup {p}
    /\ hint' = TRUE

Unlinked(t) == [runQueue EXCEPT ![queue[t]] = Without(@, t)]

BitsWithout(t) ==
    IF Unlinked(t)[queue[t]] = << >> THEN runBits \ {priority[t]} ELSE runBits

UnsetRun(t) ==
    /\ runQueue' = Unlinked(t)
    /\ queue' = [queue EXCEPT ![t] = NULL]
    /\ runBits' = BitsWithout(t)

(***************************************************************************)
(* SetEffectivePriority.  A sleeping thread moves in its wait queue, and   *)
(* Next is then the owner of the mutex it waits for.  OSCancelThread can   *)
(* get here for the thread it has just unlinked, when owners wait for each *)
(* other in a cycle: the code follows a NULL queue and the processor stops.*)
(***************************************************************************)
SetEffectivePriority(t, p) ==
    \/ /\ state[t] = "READY"
       /\ runQueue' = [Unlinked(t) EXCEPT ![p] = Append(@, t)]
       /\ queue' = [queue EXCEPT ![t] = p]
       /\ runBits' = BitsWithout(t) \cup {p}
       /\ hint' = TRUE
       /\ priority' = [priority EXCEPT ![t] = p]
       /\ UNCHANGED waiters
    \/ /\ state[t] = "SLEEPING" /\ queue[t] # NULL
       /\ priority' = [priority EXCEPT ![t] = p]
       /\ waiters' = [waiters EXCEPT ![queue[t]] =
                         InsertByPriority(Without(@, t), t, priority')]
       /\ UNCHANGED <<runQueue, queue, runBits, hint>>
    \/ /\ state[t] = "RUNNING"
       /\ hint' = TRUE
       /\ priority' = [priority EXCEPT ![t] = p]
       /\ UNCHANGED <<waiters, runQueue, queue, runBits>>
    \/ /\ state[t] \in {"MORIBUND", "EXITED"}
       /\ UNCHANGED <<waiters, runQueue, queue, runBits, hint, priority>>

NextInChainMutant(t) == NULL    \* the owner's own wait is not followed

NextInChain(t) == IF state[t] = "SLEEPING" /\ mutex[t] # NULL THEN owner[mutex[t]] ELSE NULL

(* One turn of UpdatePriority's loop. *)
UpdatePriority ==
    /\ Running("UpdatePriority")
    /\ LET t == Arg
           p == EffectivePriority(t, held[t], waiters)
           next == NextInChain(t)
       IN  /\ t \in Thread
           /\ \/ /\ suspend[t] > 0 \/ priority[t] = p
                 /\ Return
                 /\ UNCHANGED <<queueVars, priority, queue>>
              \/ /\ ~(suspend[t] > 0 \/ priority[t] = p)
                 /\ SetEffectivePriority(t, p)
                 /\ IF next = NULL THEN Return ELSE Become(<<F("UpdatePriority", next)>>)
    /\ UNCHANGED <<state, detached, base, suspend, mutex, active, mutexVars, current>>

PromoteEndsMutant(t, p) == suspend[t] > 0 \/ priority[t] < p

PromoteEnds(t, p) == suspend[t] > 0 \/ priority[t] <= p

(* One turn of __OSPromoteThread's loop. *)
PromoteThread ==
    /\ Running("__OSPromoteThread")
    /\ LET t == Arg
           p == Head(stack[Cpu]).prio
           next == NextInChain(t)
       IN  /\ t \in Thread
           /\ \/ /\ PromoteEnds(t, p)
                 /\ Return
                 /\ UNCHANGED <<queueVars, priority, queue>>
              \/ /\ ~PromoteEnds(t, p)
                 /\ SetEffectivePriority(t, p)
                 /\ IF next = NULL THEN Return ELSE Become(<<Promote(next, p)>>)
    /\ UNCHANGED <<state, detached, base, suspend, mutex, active, mutexVars, current>>

(***************************************************************************)
(* SelectThread.  Dispatch takes the head of the best of the run queues    *)
(* rq, whose non-empty ones are rb; with none, the processor idles.        *)
(***************************************************************************)
BestOf(rb) == CHOOSE p \in rb : \A r \in rb : p <= r

Dispatch(st, qu, rq, rb) ==
    IF rb = {}
    THEN /\ current' = NULL
         /\ state' = st /\ queue' = qu /\ runQueue' = rq /\ runBits' = rb
         /\ UNCHANGED hint
    ELSE LET p == BestOf(rb)
             head == Head(rq[p])
         IN  /\ hint' = FALSE
             /\ runQueue' = [rq EXCEPT ![p] = Tail(@)]
             /\ runBits' = IF Tail(rq[p]) = << >> THEN rb \ {p} ELSE rb
             /\ queue' = [qu EXCEPT ![head] = NULL]
             /\ state' = [st EXCEPT ![head] = "RUNNING"]
             /\ current' = head

KeepsRunningMutant(yield) ==    \* off by one in the comparison with cntlzw
    /\ state[current] = "RUNNING"
    /\ ~yield
    /\ \A p \in runBits : priority[current] <= p + 1

KeepsRunning(yield) ==
    /\ state[current] = "RUNNING"
    /\ ~yield
    /\ \A p \in runBits : priority[current] <= p

SelectThread(yield) ==
    /\ Return
    /\ IF Cpu = Isr \/ KeepsRunning(yield)
       THEN UNCHANGED <<state, queue, runQueue, runBits, hint, current>>
       ELSE IF state[current] = "RUNNING"
       THEN LET p == priority[current] IN
            Dispatch([state EXCEPT ![current] = "READY"], [queue EXCEPT ![current] = p],
                     [runQueue EXCEPT ![p] = Append(@, current)], runBits \cup {p})
       ELSE Dispatch(state, queue, runQueue, runBits)
    /\ UNCHANGED <<detached, base, priority, suspend, mutex, active, waiters, mutexVars>>

OSReschedule ==
    /\ Running("__OSReschedule")
    /\ \/ hint /\ SelectThread(FALSE)
       \/ /\ ~hint
          /\ Return
          /\ UNCHANGED <<threadVars, queueVars, mutexVars, current>>

YieldTail == Running("OSYieldThread") /\ SelectThread(TRUE)

(* The idle loop sees a run queue that an interrupt has filled. *)
LeaveIdle ==
    /\ Cpu = NULL
    /\ runBits # {}
    /\ Dispatch(state, queue, runQueue, runBits)
    /\ UNCHANGED <<detached, base, priority, suspend, mutex, active, waiters, mutexVars, stack>>

(***************************************************************************)
(* Sleeping and waking.                                                    *)
(***************************************************************************)
SleepOn(t, q) ==
    /\ state' = [state EXCEPT ![t] = "SLEEPING"]
    /\ queue' = [queue EXCEPT ![t] = q]
    /\ waiters' = [waiters EXCEPT ![q] = InsertByPriority(@, t, priority)]
    /\ hint' = TRUE
    /\ UNCHANGED <<runQueue, runBits>>

OSSleepThread(c, q) ==
    /\ MayCall(c)
    /\ SleepOn(c, q)
    /\ Enter(c, <<Reschedule>>)
    /\ UNCHANGED <<detached, base, priority, suspend, mutex, active, mutexVars, current>>

OSWakeupThread(c, q) ==
    /\ MayCall(c)
    /\ Enter(c, <<F("OSWakeupThread", q)>>)
    /\ UNCHANGED <<threadVars, queueVars, mutexVars, current>>

WakeupDoneMutant(q) == Len(waiters[q]) <= 1

WakeupDone(q) == waiters[q] = << >>

WakeHeadMutant(q) ==    \* a suspended sleeper is unlinked but stays SLEEPING
    LET head == Head(waiters[q]) IN
    /\ waiters' = [waiters EXCEPT ![q] = Tail(@)]
    /\ IF suspend[head] <= 0
       THEN SetRun(head, priority[head]) /\ state' = [state EXCEPT ![head] = "READY"]
       ELSE UNCHANGED <<state, runQueue, queue, runBits, hint>>

WakeHead(q) ==
    LET head == Head(waiters[q]) IN
    /\ waiters' = [waiters EXCEPT ![q] = Tail(@)]
    /\ state' = [state EXCEPT ![head] = "READY"]
    /\ IF suspend[head] <= 0
       THEN SetRun(head, priority[head])
       ELSE UNCHANGED <<runQueue, queue, runBits, hint>>

(* One turn of OSWakeupThread's loop, or its end. *)
WakeupTurn ==
    /\ Running("OSWakeupThread")
    /\ \/ /\ WakeupDone(Arg)
          /\ Become(<<Reschedule>>)
          /\ UNCHANGED <<state, queue, queueVars>>
       \/ /\ ~WakeupDone(Arg)
          /\ WakeHead(Arg)
          /\ UNCHANGED stack
    /\ UNCHANGED <<detached, base, priority, suspend, mutex, active, mutexVars, current>>

OSYieldThread(c) ==
    /\ MayCall(c)
    /\ Enter(c, <<F("OSYieldThread", NULL)>>)
    /\ UNCHANGED <<threadVars, queueVars, mutexVars, current>>

OSSetThreadPriority(c, t, p) ==
    /\ MayCall(c)
    /\ base[t] # p
    /\ base' = [base EXCEPT ![t] = p]
    /\ Enter(c, <<F("UpdatePriority", t), Reschedule>>)
    /\ UNCHANGED <<state, detached, priority, suspend, queue, mutex, active,
                   queueVars, mutexVars, current>>

(***************************************************************************)
(* Suspending and resuming.  The suspend count of a READY thread keeps it  *)
(* out of the run queues; a suspended sleeper waits with a priority below  *)
(* every other.                                                            *)
(***************************************************************************)
UpdateOwnerMutant(t) == << >>    \* the owner keeps what the sleeper lent it

UpdateOwner(t) ==
    IF mutex[t] # NULL THEN <<F("UpdatePriority", owner[mutex[t]])>> ELSE << >>

SuspendedPriority == OS_PRIORITY_MAX + 1

OSSuspendThread(c, t) ==
    /\ MayCall(c)
    /\ suspend[t] < MaxSuspend
    /\ suspend' = [suspend EXCEPT ![t] = @ + 1]
    /\ \/ /\ suspend[t] > 0
          /\ UNCHANGED <<state, queue, priority, queueVars, stack>>
       \/ /\ suspend[t] = 0 /\ state[t] = "RUNNING"
          /\ hint' = TRUE
          /\ state' = [state EXCEPT ![t] = "READY"]
          /\ Enter(c, <<Reschedule>>)
          /\ UNCHANGED <<queue, priority, waiters, runQueue, runBits>>
       \/ /\ suspend[t] = 0 /\ state[t] = "READY"
          /\ UnsetRun(t)
          /\ Enter(c, <<Reschedule>>)
          /\ UNCHANGED <<state, priority, waiters, hint>>
       \/ /\ suspend[t] = 0 /\ state[t] = "SLEEPING"
          /\ priority' = [priority EXCEPT ![t] = SuspendedPriority]
          /\ waiters' = [waiters EXCEPT ![queue[t]] = Append(Without(@, t), t)]
          /\ Enter(c, UpdateOwner(t) \o <<Reschedule>>)
          /\ UNCHANGED <<state, queue, runQueue, runBits, hint>>
       \/ /\ suspend[t] = 0 /\ state[t] \in {"MORIBUND", "EXITED"}
          /\ Enter(c, <<Reschedule>>)
          /\ UNCHANGED <<state, queue, priority, queueVars>>
    /\ UNCHANGED <<detached, base, mutex, active, mutexVars, current>>

OSResumeThread(c, t) ==
    /\ MayCall(c)
    /\ suspend[t] > 0     \* at 0 the count is clamped and nothing changes
    /\ suspend' = [suspend EXCEPT ![t] = @ - 1]
    /\ \/ /\ suspend[t] > 1
          /\ UNCHANGED <<queue, priority, queueVars, stack>>
       \/ /\ suspend[t] = 1 /\ state[t] = "READY"
          /\ LET p == EffectivePriority(t, held[t], waiters) IN
             /\ priority' = [priority EXCEPT ![t] = p]
             /\ SetRun(t, p)
          /\ Enter(c, <<Reschedule>>)
          /\ UNCHANGED waiters
       \/ /\ suspend[t] = 1 /\ state[t] = "SLEEPING"
          /\ LET unlinked == [waiters EXCEPT ![queue[t]] = Without(@, t)] IN
             /\ priority' = [priority EXCEPT ![t] = EffectivePriority(t, held[t], unlinked)]
             /\ waiters' = [unlinked EXCEPT ![queue[t]] = InsertByPriority(@, t, priority')]
          /\ Enter(c, UpdateOwner(t) \o <<Reschedule>>)
          /\ UNCHANGED <<queue, runQueue, runBits, hint>>
       \/ /\ suspend[t] = 1 /\ state[t] \in {"RUNNING", "MORIBUND", "EXITED"}
          /\ Enter(c, <<Reschedule>>)
          /\ UNCHANGED <<queue, priority, queueVars>>
    /\ UNCHANGED <<state, detached, base, mutex, active, mutexVars, current>>

(***************************************************************************)
(* Creation.  The control block is memory the program has not in use: no   *)
(* queue, mutex or call still refers to it.                                *)
(***************************************************************************)
Unreferenced(t) ==
    /\ state[t] = "EXITED" /\ t # current
    /\ waiters[t] = << >>
    /\ \A m \in Mutex : owner[m] # t
    /\ \A c \in Context \ {t} : \A i \in DOMAIN stack[c] : stack[c][i].arg # t

OSCreateThread(c, t, p, det) ==
    /\ MayCall(c)
    /\ Unreferenced(t)
    /\ state' = [state EXCEPT ![t] = "READY"]
    /\ detached' = [detached EXCEPT ![t] = det]
    /\ base' = [base EXCEPT ![t] = p]
    /\ priority' = [priority EXCEPT ![t] = p]
    /\ suspend' = [suspend EXCEPT ![t] = 1]
    /\ mutex' = [mutex EXCEPT ![t] = NULL]
    /\ waiters' = [waiters EXCEPT ![t] = << >>]
    /\ held' = [held EXCEPT ![t] = << >>]
    /\ active' = active \cup {t}
    /\ stack' = [stack EXCEPT ![t] = << >>]
    /\ UNCHANGED <<queue, runQueue, runBits, hint, current, owner, lock>>

(***************************************************************************)
(* The end of a thread.  A detached thread leaves the active list at once, *)
(* any other waits, MORIBUND, to be joined.                                *)
(***************************************************************************)

Die(t) ==
    /\ active' = IF detached[t] THEN active \ {t} ELSE active
    /\ state' = [state EXCEPT ![t] = IF detached[t] THEN "EXITED" ELSE "MORIBUND"]

TearDownSilentMutant(t) == <<F("__OSUnlockAllMutex", t)>>

TearDown(t) == <<F("__OSUnlockAllMutex", t), F("OSWakeupThread", t)>>

OSExitThread(c) ==
    /\ MayCall(c)
    /\ Die(c)
    /\ Enter(c, TearDown(c) \o <<F("ExitHint", NULL)>>)
    /\ UNCHANGED <<detached, base, priority, suspend, queue, mutex, queueVars, mutexVars, current>>

ExitHint ==
    /\ Running("ExitHint")
    /\ hint' = TRUE
    /\ Become(<<Reschedule>>)
    /\ UNCHANGED <<threadVars, waiters, runQueue, runBits, mutexVars, current>>

(* OSCancelThread up to the switch over the state, which may begin by      *)
(* taking back the priority the thread lent while it slept on a mutex.     *)
OSCancelThread(c, t) ==
    /\ MayCall(c)
    /\ LET tail == <<F("CancelTail", t)>> IN
       \/ /\ state[t] = "READY"
          /\ IF suspend[t] <= 0 THEN UnsetRun(t) ELSE UNCHANGED <<runQueue, queue, runBits>>
          /\ Enter(c, tail)
          /\ UNCHANGED <<waiters, hint>>
       \/ /\ state[t] = "RUNNING"
          /\ hint' = TRUE
          /\ Enter(c, tail)
          /\ UNCHANGED <<waiters, runQueue, queue, runBits>>
       \/ /\ state[t] = "SLEEPING"
          /\ waiters' = [waiters EXCEPT ![queue[t]] = Without(@, t)]
          /\ queue' = [queue EXCEPT ![t] = NULL]
          /\ Enter(c, (IF suspend[t] <= 0 THEN UpdateOwner(t) ELSE << >>) \o tail)
          /\ UNCHANGED <<runQueue, runBits, hint>>
    /\ UNCHANGED <<state, detached, base, priority, suspend, mutex, active, mutexVars, current>>

CancelTail ==
    /\ Running("CancelTail")
    /\ Die(Arg)
    /\ Become(TearDown(Arg) \o <<Reschedule>>)
    /\ UNCHANGED <<detached, base, priority, suspend, queue, mutex, queueVars, mutexVars, current>>

(* A MORIBUND thread is taken off the active list for good. *)
Reap(t) ==
    IF state[t] = "MORIBUND"
    THEN /\ active' = active \ {t}
         /\ state' = [state EXCEPT ![t] = "EXITED"]
    ELSE UNCHANGED <<active, state>>

(* Called for a thread that is not already reaped: one that is would let   *)
(* the caller sleep on a queue that nobody wakes.                          *)
OSJoinThread(c, t) ==
    /\ MayCall(c)
    /\ t # c /\ state[t] # "EXITED"
    /\ \/ /\ ~detached[t] /\ state[t] # "MORIBUND" /\ waiters[t] = << >>
          /\ SleepOn(c, t)
          /\ Enter(c, <<Reschedule, F("JoinTail", t)>>)
          /\ UNCHANGED active
       \/ /\ ~(~detached[t] /\ state[t] # "MORIBUND" /\ waiters[t] = << >>)
          /\ Reap(t)
          /\ UNCHANGED <<queue, queueVars, stack>>
    /\ UNCHANGED <<detached, base, priority, suspend, mutex, mutexVars, current>>

JoinTail ==
    /\ Running("JoinTail")
    /\ IF state[Arg] # "EXITED" /\ Arg \in active THEN Reap(Arg) ELSE UNCHANGED <<active, state>>
    /\ Return
    /\ UNCHANGED <<detached, base, priority, suspend, queue, mutex, queueVars, mutexVars, current>>

OSDetachThread(c, t) ==
    /\ MayCall(c)
    /\ detached' = [detached EXCEPT ![t] = TRUE]
    /\ Reap(t)
    /\ Enter(c, <<F("OSWakeupThread", t)>>)
    /\ UNCHANGED <<base, priority, suspend, queue, mutex, queueVars, mutexVars, current>>
=============================================================================
