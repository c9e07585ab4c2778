------------------------------ MODULE TaskFifo ------------------------------
(***************************************************************************)
(* What an EGG::TaskThread promises the thread that sends it requests: the *)
(* accepted tasks are executed one at a time, in order, each once, and the *)
(* end message of each follows its execution, unless the queue of end      *)
(* messages has no room.                                                   *)
(***************************************************************************)
EXTENDS Naturals, Sequences

CONSTANTS Task,         \* the functions that can be requested
          NULL,         \* no task
          Capacity,     \* requests that may wait
          EndCapacity   \* end messages that may wait

VARIABLES pending,      \* accepted and not begun
          running,      \* the task being executed
          ended         \* end messages not taken yet

Init == pending = << >> /\ running = NULL /\ ended = << >>

Accept(t) == /\ Len(pending) < Capacity
             /\ pending' = Append(pending, t)
             /\ UNCHANGED <<running, ended>>

Begin == /\ running = NULL /\ pending # << >>
         /\ running' = Head(pending)
         /\ pending' = Tail(pending)
         /\ UNCHANGED ended

End == /\ running # NULL
       /\ running' = NULL
       /\ ended' = IF Len(ended) < EndCapacity THEN Append(ended, running) ELSE ended
       /\ UNCHANGED pending

TakeEnd == /\ ended # << >>
           /\ ended' = Tail(ended)
           /\ UNCHANGED <<pending, running>>

Next == (\E t \in Task : Accept(t)) \/ Begin \/ End \/ TakeEnd

Spec == Init /\ [][Next]_<<pending, running, ended>>
=============================================================================
