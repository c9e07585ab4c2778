------------------------------ MODULE OSKernel ------------------------------
(***************************************************************************)
(* The scheduler and the mutexes under a program of several threads and an *)
(* interrupt: who may call what, and what the kernel promises meanwhile.   *)
(***************************************************************************)
EXTENDS OSMutex

CONSTANTS
    Calls,       \* the functions the program's threads call in this instance
    IsrCalls,    \* the functions its interrupt handlers call
    Disciplined, \* the threads that end without leaving work undone
    Cancellable  \* the threads OSCancelThread, OSSuspendThread may be given

ASSUME CallsAssumption ==
    /\ IsrCalls \subseteq {"OSWakeupThread", "OSResumeThread"}
    /\ Disciplined \subseteq Thread
    /\ Cancellable \subseteq Thread

(***************************************************************************)
(* __OSThreadInit: the start-up code becomes the default thread.  Other    *)
(* control blocks are zeroed memory, whose state reads EXITED.             *)
(***************************************************************************)
Init ==
    /\ state = [t \in Thread |-> IF t = DefaultThread THEN "RUNNING" ELSE "EXITED"]
    /\ detached = [t \in Thread |-> t = DefaultThread]
    /\ base = [t \in Thread |-> IF t = DefaultThread THEN DefaultPriority ELSE 0]
    /\ priority = base
    /\ suspend = [t \in Thread |-> 0]
    /\ queue = [t \in Thread |-> NULL]
    /\ mutex = [t \in Thread |-> NULL]
    /\ held = [t \in Thread |-> << >>]
    /\ active = {DefaultThread}
    /\ waiters = [q \in WaitQueue |-> << >>]
    /\ runQueue = [p \in Priority |-> << >>]
    /\ runBits = {}
    /\ hint = FALSE
    /\ current = DefaultThread
    /\ stack = [c \in Context |-> << >>]
    /\ owner = [m \in Mutex |-> NULL]
    /\ lock = [m \in Mutex |-> 0]

(* No call is under way on the processor. *)
Quiescent == stack[Isr] = << >> /\ InOwnCode

(* Context c still has to run a frame of function fn with argument x. *)
Pending(c, fn, x) == \E i \in DOMAIN stack[c] : stack[c][i].fn = fn /\ stack[c][i].arg = x

(* Context c is in the middle of tearing thread u down. *)
Ending(c, u) ==
    \E fn \in {"CancelTail", "__OSUnlockAllMutex", "OSWakeupThread"} : Pending(c, fn, u)

(***************************************************************************)
(* A disciplined thread ends itself only once it owns no mutex, and is not *)
(* cancelled in the middle of cancelling another.                          *)
(***************************************************************************)
MayEnd(c, t) ==
    t \in Disciplined =>
        /\ t = c => held[t] = << >>
        /\ \A u \in Thread : ~Ending(t, u)

(* The control block of a thread that was so cancelled is not used again:  *)
(* nobody else has noted which thread is left half torn down.              *)
MayCreate(t) == \A u \in Thread \ {t} : ~Ending(t, u)

(* The calls of the running thread c.  A thread is named by the program    *)
(* while it is on the active list; the start-up code never returns.        *)
ThreadCall(c) ==
    \/ "OSCreateThread" \in Calls /\ \E t \in Thread \ {c}, p \in Priority, det \in BOOLEAN :
           MayCreate(t) /\ OSCreateThread(c, t, p, det)
    \/ "OSSleepThread" \in Calls /\ \E q \in UserQueue : OSSleepThread(c, q)
    \/ "OSWakeupThread" \in Calls /\ \E q \in UserQueue : OSWakeupThread(c, q)
    \/ "OSYieldThread" \in Calls /\ OSYieldThread(c)
    \/ "OSSetThreadPriority" \in Calls /\ \E t \in active, p \in Priority :
           OSSetThreadPriority(c, t, p)
    \/ "OSSuspendThread" \in Calls /\ \E t \in active \cap Cancellable : OSSuspendThread(c, t)
    \/ "OSResumeThread" \in Calls /\ \E t \in active : OSResumeThread(c, t)
    \/ "OSExitThread" \in Calls /\ c # DefaultThread /\ MayEnd(c, c) /\ OSExitThread(c)
    \/ "OSCancelThread" \in Calls /\ \E t \in active \cap Cancellable :
           MayEnd(c, t) /\ OSCancelThread(c, t)
    \/ "OSJoinThread" \in Calls /\ \E t \in active : OSJoinThread(c, t)
    \/ "OSDetachThread" \in Calls /\ \E t \in active : OSDetachThread(c, t)
    \/ "OSLockMutex" \in Calls /\ \E m \in Mutex : OSLockMutex(c, m)
    \/ "OSTryLockMutex" \in Calls /\ \E m \in Mutex : OSTryLockMutex(c, m)
    \/ "OSUnlockMutex" \in Calls /\ \E m \in Mutex : OSUnlockMutex(c, m)

(* __OSDispatchInterrupt runs one handler with the scheduler disabled. *)
Interrupt ==
    \/ "OSWakeupThread" \in IsrCalls /\ \E q \in UserQueue : OSWakeupThread(Isr, q)
    \/ "OSResumeThread" \in IsrCalls /\ \E t \in active : OSResumeThread(Isr, t)

(* ... then reschedules on behalf of what it interrupted.  In the idle     *)
(* loop the context is no thread's, and SelectThread returns at once.      *)
IsrReturn ==
    /\ Running("IsrReturn")
    /\ stack' = [c \in Context |-> IF c = Isr THEN << >>
                                   ELSE IF c = current THEN <<Reschedule>> ELSE stack[c]]
    /\ UNCHANGED <<threadVars, queueVars, mutexVars, current>>

KernelStep ==
    \/ WakeupTurn
    \/ OSReschedule
    \/ YieldTail
    \/ UpdatePriority
    \/ PromoteThread
    \/ ExitHint
    \/ CancelTail
    \/ JoinTail
    \/ LockTurn
    \/ LockSleep
    \/ LockWoken
    \/ UnlockAllTurn
    \/ IsrReturn
    \/ LeaveIdle

Next ==
    \/ current # NULL /\ ThreadCall(current)
    \/ Interrupt
    \/ KernelStep

Spec == Init /\ [][Next]_vars

FairSpec == Spec /\ WF_vars(KernelStep)

-----------------------------------------------------------------------------

TypeOK ==
    /\ state \in [Thread -> {"READY", "RUNNING", "SLEEPING", "MORIBUND", "EXITED"}]
    /\ detached \in [Thread -> BOOLEAN]
    /\ base \in [Thread -> Priority]
    /\ priority \in [Thread -> 0 .. OS_PRIORITY_MAX + 1]
    /\ suspend \in [Thread -> 0 .. MaxSuspend]
    /\ queue \in [Thread -> WaitQueue \cup Priority \cup {NULL}]
    /\ mutex \in [Thread -> Mutex \cup {NULL}]
    /\ held \in [Thread -> Seq(Mutex)]
    /\ active \subseteq Thread
    /\ waiters \in [WaitQueue -> Seq(Thread)]
    /\ runQueue \in [Priority -> Seq(Thread)]
    /\ runBits \subseteq Priority
    /\ hint \in BOOLEAN
    /\ current \in Thread \cup {NULL}
    /\ stack \in [Context -> Seq(Frame)]
    /\ owner \in [Mutex -> Thread \cup {NULL}]
    /\ lock \in [Mutex -> 0 .. MaxLock]

Dead(t) == state[t] \in {"MORIBUND", "EXITED"}

(* OSCancelThread(t) has unlinked t and not yet changed its state. *)
Cancelling(t) == \E c \in Context : Pending(c, "CancelTail", t)

(***************************************************************************)
(* A thread is linked in a run queue exactly if it is READY and not        *)
(* suspended, in the one of its own priority, once; and RunQueueBits has   *)
(* the bits of the non-empty queues.  SelectThread dereferences the head   *)
(* of the queue of the first bit, and SetRun indexes RunQueue with a       *)
(* priority that a suspended sleeper sets one past its end.                *)
(***************************************************************************)
RunQueueExact ==
    /\ \A p \in Priority : \A i \in DOMAIN runQueue[p] :
          LET t == runQueue[p][i] IN
          /\ state[t] = "READY" /\ suspend[t] = 0
          /\ priority[t] = p /\ queue[t] = p
          /\ \A j \in DOMAIN runQueue[p] : runQueue[p][j] = t => j = i
    /\ \A t \in Thread : state[t] = "READY" /\ suspend[t] = 0 /\ ~Cancelling(t)
          => t \in ToSet(runQueue[priority[t]])
    /\ runBits = {p \in Priority : runQueue[p] # << >>}

(***************************************************************************)
(* A thread is linked in a wait queue exactly if it is SLEEPING, in the    *)
(* one its queue field names, once: OSCancelThread, OSSuspendThread,       *)
(* OSResumeThread and SetEffectivePriority unlink it through that field.   *)
(***************************************************************************)
SleepersQueued ==
    /\ \A q \in WaitQueue : \A i \in DOMAIN waiters[q] :
          LET t == waiters[q][i] IN
          /\ state[t] = "SLEEPING" /\ queue[t] = q
          /\ \A j \in DOMAIN waiters[q] : waiters[q][j] = t => j = i
    /\ \A t \in Thread : state[t] = "SLEEPING" /\ ~Cancelling(t)
          => t \in ToSet(waiters[queue[t]])

(* Every thread is where its state says, and nowhere else.                 *)
QueuesExact == TypeOK /\ RunQueueExact /\ SleepersQueued

(* Every wait queue stays in priority order, whatever changes a sleeper's  *)
(* priority: __OSGetEffectivePriority reads only the head of a mutex queue *)
(* and takes it for the best of its waiters.                               *)
WaitersSorted ==
    \A q \in WaitQueue : \A i, j \in DOMAIN waiters[q] :
        i < j => priority[waiters[q][i]] <= priority[waiters[q][j]]

(* OSMutex.thread, OSMutex.lock and the owners' mutexQueue always agree:   *)
(* a mutex is on exactly the list of its owner, once, and its lock count   *)
(* is zero exactly when it has none.                                       *)
MutexConsistent ==
    /\ \A m \in Mutex : lock[m] > 0 <=> owner[m] # NULL
    /\ \A m \in Mutex, t \in Thread : owner[m] = t <=> m \in ToSet(held[t])
    /\ \A t \in Thread : IsInjective(held[t])

(* A thread sleeps on a mutex only while it has an owner, or while its     *)
(* wake-up is under way.  OSCancelThread, OSResumeThread and               *)
(* OSSuspendThread pass that owner to UpdatePriority, which does not test  *)
(* it for NULL.                                                            *)
WaitersHaveOwner ==
    \A m \in Mutex : waiters[m] # << >> =>
        \/ owner[m] # NULL
        \/ Cpu # NULL /\ Pending(Cpu, "OSWakeupThread", m)

(* What __OSGetEffectivePriority and UpdatePriority rely on.               *)
MutexWaiters == WaitersSorted /\ WaitersHaveOwner

(***************************************************************************)
(* Priority inheritance: between calls, the priority of every live thread  *)
(* that is not suspended is exactly what __OSGetEffectivePriority says:    *)
(* its base, or the best priority waiting for a mutex it owns, along       *)
(* chains of owners that wait themselves.                                  *)
(***************************************************************************)
InheritedPriority ==
    Quiescent => \A t \in Thread : ~Dead(t) /\ suspend[t] = 0 =>
        priority[t] = EffectivePriority(t, held[t], waiters)

(***************************************************************************)
(* No missed preemption: between calls the processor runs a thread that is *)
(* RUNNING, not suspended, and of the best ready priority, although        *)
(* SelectThread only looks when somebody has set RunQueueHint (which       *)
(* OSUnlockMutex, lowering its own priority, does not).                    *)
(***************************************************************************)
HighestPriorityRuns ==
    /\ \A t \in Thread : state[t] = "RUNNING" => t = current
    /\ Quiescent /\ current # NULL =>
          /\ state[current] = "RUNNING" /\ suspend[current] = 0
          /\ \A p \in runBits : priority[current] <= p

(* A dead thread owns a mutex only while some call still has to run        *)
(* __OSUnlockAllMutex for it.                                              *)
DeadOwnersReleasing ==
    \A m \in Mutex : owner[m] # NULL /\ Dead(owner[m]) =>
        \E c \in Context : Pending(c, "__OSUnlockAllMutex", owner[m])

(***************************************************************************)
(* No joiner of a dead thread is forgotten: its queue is still to be woken *)
(* by a call that will be run to its end, unless the call is that of an    *)
(* undisciplined thread, dead itself (it ended owning a mutex, or while it *)
(* was cancelling).                                                        *)
(***************************************************************************)
JoinersWoken ==
    \A t \in Thread : waiters[t] # << >> /\ Dead(t) =>
        \E c \in Context : /\ Pending(c, "OSWakeupThread", t)
                           /\ \/ c \in {Isr, current}
                              \/ ~Dead(c)
                              \/ c \notin Disciplined

(* OS_THREAD_QUEUE lists exactly the threads that are not EXITED, so none  *)
(* of the four places that unlink a thread from it does so twice.          *)
ActiveList == \A t \in Thread : t \in active <=> state[t] # "EXITED"

(* What a thread leaves behind, however it ends.                           *)
EndedThreads == DeadOwnersReleasing /\ JoinersWoken /\ ActiveList

(***************************************************************************)
(* The wait queues implement the sets of WaitSets: a wake-up's loop is one *)
(* step for everybody else, since nothing else runs before it ends.        *)
(***************************************************************************)
Asleep == [q \in WaitQueue |->
             IF Running("OSWakeupThread") /\ Arg = q THEN {} ELSE ToSet(waiters[q])]

Sets == INSTANCE WaitSets
            WITH Queue <- WaitQueue, NoThread <- NULL, asleep <- Asleep, running <- current

WaitSetsSpec == Sets!Spec

(***************************************************************************)
(* Every loop of the scheduler ends: once a call is under way, the         *)
(* processor gets back to a thread's own code or to the idle loop, even    *)
(* when the chain of owners that a priority follows is a cycle.            *)
(***************************************************************************)
KernelReturns == ~Quiescent ~> Quiescent
=============================================================================
