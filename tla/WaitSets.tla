------------------------------ MODULE WaitSets ------------------------------
(***************************************************************************)
(* What OSSleepThread and OSWakeupThread promise their users: only the     *)
(* running thread goes to sleep, in one queue; it does not run again until *)
(* that queue is woken, which releases all of its threads at once, or      *)
(* until it is cancelled.  OSMessage and the other users of thread queues  *)
(* are modelled with this view of the scheduler.                           *)
(***************************************************************************)
CONSTANTS Thread, Queue, NoThread

VARIABLES
    asleep,    \* the threads sleeping in each queue
    running    \* the thread that runs, or NoThread

vars == <<asleep, running>>

Awake(t) == \A q \in Queue : t \notin asleep[q]

Init == /\ asleep = [q \in Queue |-> {}]
        /\ running \in Thread

Sleep(q) ==
    /\ running # NoThread /\ Awake(running)
    /\ asleep' = [asleep EXCEPT ![q] = @ \cup {running}]
    /\ UNCHANGED running

WakeAll(q) == asleep' = [asleep EXCEPT ![q] = {}] /\ UNCHANGED running

Cancel(t) == asleep' = [q \in Queue |-> asleep[q] \ {t}] /\ UNCHANGED running

Switch == /\ running' = NoThread \/ running' \in {t \in Thread : Awake(t)}
          /\ UNCHANGED asleep

Next == \/ \E q \in Queue : Sleep(q) \/ WakeAll(q)
        \/ \E t \in Thread : Cancel(t)
        \/ Switch

Spec == Init /\ [][Next]_vars
=============================================================================
