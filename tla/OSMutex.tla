------------------------------ MODULE OSMutex -------------------------------
(***************************************************************************)
(* revolution/OS/OSMutex.c: recursive mutexes with priority inheritance,   *)
(* on top of the scheduler's queues and frames.  Only threads call these   *)
(* functions: OSGetCurrentThread is not the caller in a handler.           *)
(***************************************************************************)
EXTENDS OSThread

Acquire(t, m) ==
    /\ owner' = [owner EXCEPT ![m] = t]
    /\ lock' = [lock EXCEPT ![m] = @ + 1]
    /\ held' = [held EXCEPT ![t] = Append(@, m)]

OSLockMutex(c, m) ==
    /\ MayCall(c)
    /\ owner[m] = c => lock[m] < MaxLock
    /\ Enter(c, <<F("OSLockMutex", m)>>)
    /\ UNCHANGED <<threadVars, queueVars, mutexVars, current>>

(* One turn of OSLockMutex's loop, up to the sleep. *)
LockTurn ==
    /\ Running("OSLockMutex")
    /\ LET m == Arg
           t == current
       IN  \/ /\ owner[m] = NULL
              /\ Acquire(t, m)
              /\ Return
              /\ UNCHANGED mutex
           \/ /\ owner[m] = t
              /\ lock' = [lock EXCEPT ![m] = @ + 1]
              /\ Return
              /\ UNCHANGED <<owner, held, mutex>>
           \/ /\ owner[m] \notin {NULL, t}
              /\ mutex' = [mutex EXCEPT ![t] = m]
              /\ Become(<<Promote(owner[m], priority[t]), F("LockSleep", m)>>)
              /\ UNCHANGED <<owner, lock, held>>
    /\ UNCHANGED <<state, detached, base, priority, suspend, queue, active, queueVars, current>>

LockSleep ==
    /\ Running("LockSleep")
    /\ SleepOn(current, Arg)
    /\ Become(<<Reschedule, F("LockWoken", Arg)>>)
    /\ UNCHANGED <<detached, base, priority, suspend, mutex, active, mutexVars, current>>

LockWoken ==
    /\ Running("LockWoken")
    /\ mutex' = [mutex EXCEPT ![current] = NULL]
    /\ Become(<<F("OSLockMutex", Arg)>>)
    /\ UNCHANGED <<state, detached, base, priority, suspend, queue, active,
                   queueVars, mutexVars, current>>

OSTryLockMutex(c, m) ==
    /\ MayCall(c)
    /\ \/ /\ owner[m] = NULL
          /\ Acquire(c, m)
       \/ /\ owner[m] = c
          /\ lock[m] < MaxLock
          /\ lock' = [lock EXCEPT ![m] = @ + 1]
          /\ UNCHANGED <<owner, held>>
    /\ UNCHANGED <<threadVars, queueVars, current, stack>>

AfterRelease(m) == <<F("OSWakeupThread", m)>>

(* By a thread that is not the owner, the call changes nothing. *)
OSUnlockMutex(c, m) ==
    /\ MayCall(c)
    /\ owner[m] = c
    /\ lock' = [lock EXCEPT ![m] = @ - 1]
    /\ \/ /\ lock[m] > 1
          /\ UNCHANGED <<held, owner, priority, stack>>
       \/ /\ lock[m] = 1
          /\ owner' = [owner EXCEPT ![m] = NULL]
          /\ held' = [held EXCEPT ![c] = Without(@, m)]
          /\ priority' = [priority EXCEPT ![c] =
                             IF @ < base[c] THEN EffectivePriority(c, held'[c], waiters) ELSE @]
          /\ Enter(c, AfterRelease(m))
    /\ UNCHANGED <<state, detached, base, suspend, queue, mutex, active, queueVars, current>>

ReleaseHeadMutant(t) ==    \* the recursion count survives the owner
    LET m == Head(held[t]) IN
    /\ held' = [held EXCEPT ![t] = Tail(@)]
    /\ owner' = [owner EXCEPT ![m] = NULL]
    /\ UNCHANGED lock

ReleaseHead(t) ==
    LET m == Head(held[t]) IN
    /\ held' = [held EXCEPT ![t] = Tail(@)]
    /\ lock' = [lock EXCEPT ![m] = 0]
    /\ owner' = [owner EXCEPT ![m] = NULL]

(* One turn of __OSUnlockAllMutex's loop, or its end. *)
UnlockAllTurn ==
    /\ Running("__OSUnlockAllMutex")
    /\ \/ /\ held[Arg] = << >>
          /\ Return
          /\ UNCHANGED mutexVars
       \/ /\ held[Arg] # << >>
          /\ ReleaseHead(Arg)
          /\ stack' = [stack EXCEPT ![Cpu] = <<F("OSWakeupThread", Head(held[Arg]))>> \o @]
    /\ UNCHANGED <<threadVars, queueVars, current>>
=============================================================================
