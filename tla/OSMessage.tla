----------------------------- MODULE OSMessage ------------------------------
(***************************************************************************)
(* revolution/OS/OSMessage.c: a message queue in a caller-supplied ring    *)
(* buffer.  Every function runs with interrupts disabled from its entry to *)
(* its return, except while OSSleepThread has switched the caller out; so  *)
(* what interleaves is a thread's call up to its sleep, and its retry of   *)
(* the loop's test after each wake-up.                                     *)
(*                                                                         *)
(* The scheduler is seen through OSSleepThread (the caller joins a thread  *)
(* queue and stops) and OSWakeupThread (EVERY thread of the queue becomes  *)
(* ready); a ready thread runs at any later moment, which covers every     *)
(* priority assignment.                                                    *)
(***************************************************************************)
EXTENDS Integers, Sequences

CONSTANTS
    Thread,     \* threads that may block in the queue's functions
    Message,    \* message values
    NoMessage,  \* what a never written slot or a NULL destination holds
    Capacity    \* OSMessageQueue.capacity

ASSUME CapacityAssumption == Capacity \in Nat \ {0}
ASSUME NoMessageAssumption == NoMessage \notin Message

VARIABLES
    buffer,     \* OSMessageQueue.buffer: slot -> message
    front,      \* OSMessageQueue.front: slot of the oldest message
    size,       \* OSMessageQueue.size
    sendQueue,  \* threads asleep in OSSendMessage or OSJamMessage
    recvQueue,  \* threads asleep in OSReceiveMessage
    call        \* the blocking call each thread is inside of

vars == <<buffer, front, size, sendQueue, recvQueue, call>>

Slot == 0 .. Capacity - 1

(* The functions reduce every computed index to a slot of the ring. *)
Wrap(i) == i % Capacity

NoCall == [op |-> "none", mesg |-> NoMessage]
Call == {NoCall} \cup [op : {"send", "jam"}, mesg : Message]
                 \cup [op : {"receive"}, mesg : {NoMessage}]

TypeOK ==
    /\ buffer \in [Slot -> Message \cup {NoMessage}]
    /\ front \in Slot
    /\ size \in 0 .. Capacity
    /\ sendQueue \subseteq Thread
    /\ recvQueue \subseteq Thread
    /\ call \in [Thread -> Call]

(***************************************************************************)
(* OSInitMessageQueue.  The buffer is the caller's memory.                 *)
(***************************************************************************)
Init ==
    /\ buffer = [i \in Slot |-> NoMessage]
    /\ front = 0
    /\ size = 0
    /\ sendQueue = {}
    /\ recvQueue = {}
    /\ call = [t \in Thread |-> NoCall]

(* Mutants: a queue filled past its capacity; a receive that wakes no one; *)
(* a jam that overwrites the oldest message.                               *)

TakeNoWakeMutant ==
    /\ front' = Wrap(front + 1)
    /\ size' = size - 1
    /\ UNCHANGED <<buffer, sendQueue, recvQueue>>

PutFrontMutant(mesg) ==
    /\ front' = Wrap(front + Capacity - 1)
    /\ buffer' = [buffer EXCEPT ![front] = mesg]
    /\ size' = size + 1
    /\ recvQueue' = {}
    /\ UNCHANGED sendQueue

Full == Capacity <= size

Empty == size = 0

(* The body of OSSendMessage once there is room, with its wake-up. *)
Put(mesg) ==
    /\ buffer' = [buffer EXCEPT ![Wrap(front + size)] = mesg]
    /\ size' = size + 1
    /\ recvQueue' = {}
    /\ UNCHANGED <<front, sendQueue>>

(* The body of OSJamMessage once there is room, with its wake-up. *)
PutFront(mesg) ==
    LET lastMesg == Wrap(front + Capacity - 1) IN
    /\ front' = lastMesg
    /\ buffer' = [buffer EXCEPT ![lastMesg] = mesg]
    /\ size' = size + 1
    /\ recvQueue' = {}
    /\ UNCHANGED sendQueue

(* The body of OSReceiveMessage once there is a message, with its wake-up. *)
Take ==
    /\ front' = Wrap(front + 1)
    /\ size' = size - 1
    /\ sendQueue' = {}
    /\ UNCHANGED <<buffer, recvQueue>>

Insert(op, mesg) == IF op = "send" THEN Put(mesg) ELSE PutFront(mesg)

(***************************************************************************)
(* A blocking call by thread t: it completes at once, or t goes to sleep   *)
(* inside the loop.                                                        *)
(***************************************************************************)
CallInsert(t, op, mesg) ==
    /\ call[t] = NoCall
    /\ \/ /\ ~Full
          /\ Insert(op, mesg)
          /\ UNCHANGED call
       \/ /\ Full
          /\ call' = [call EXCEPT ![t] = [op |-> op, mesg |-> mesg]]
          /\ sendQueue' = sendQueue \cup {t}
          /\ UNCHANGED <<buffer, front, size, recvQueue>>

OSSendMessage(t, mesg) == CallInsert(t, "send", mesg)

OSJamMessage(t, mesg) == CallInsert(t, "jam", mesg)

OSReceiveMessage(t) ==
    /\ call[t] = NoCall
    /\ \/ /\ ~Empty
          /\ Take
          /\ UNCHANGED call
       \/ /\ Empty
          /\ call' = [call EXCEPT ![t] = [op |-> "receive", mesg |-> NoMessage]]
          /\ recvQueue' = recvQueue \cup {t}
          /\ UNCHANGED <<buffer, front, size, sendQueue>>

(***************************************************************************)
(* A thread that was woken returns from OSSleepThread and tests the loop's *)
(* condition again: another thread may have used the room meanwhile.       *)
(***************************************************************************)
RetryInsert(t) ==
    /\ call[t].op \in {"send", "jam"}
    /\ t \notin sendQueue
    /\ \/ /\ ~Full
          /\ Insert(call[t].op, call[t].mesg)
          /\ call' = [call EXCEPT ![t] = NoCall]
       \/ /\ Full
          /\ sendQueue' = sendQueue \cup {t}
          /\ UNCHANGED <<buffer, front, size, recvQueue, call>>

RetryReceive(t) ==
    /\ call[t].op = "receive"
    /\ t \notin recvQueue
    /\ \/ /\ ~Empty
          /\ Take
          /\ call' = [call EXCEPT ![t] = NoCall]
       \/ /\ Empty
          /\ recvQueue' = recvQueue \cup {t}
          /\ UNCHANGED <<buffer, front, size, sendQueue, call>>

(***************************************************************************)
(* Calls without OS_MSG_BLOCKING, by a thread or an interrupt handler.     *)
(* They return FALSE, changing nothing, when the queue is full or empty.   *)
(***************************************************************************)
PollInsert(op, mesg) == ~Full /\ Insert(op, mesg) /\ UNCHANGED call

PollReceive == ~Empty /\ Take /\ UNCHANGED call

Next ==
    \/ \E t \in Thread :
          \/ \E mesg \in Message : OSSendMessage(t, mesg) \/ OSJamMessage(t, mesg)
          \/ OSReceiveMessage(t)
          \/ RetryInsert(t)
          \/ RetryReceive(t)
    \/ \E op \in {"send", "jam"}, mesg \in Message : PollInsert(op, mesg)
    \/ PollReceive

Spec == Init /\ [][Next]_vars

-----------------------------------------------------------------------------

(***************************************************************************)
(* No lost wake-up: a thread sleeps in sendQueue only while the queue is   *)
(* full, and in recvQueue only while it is empty.  So a sender and a       *)
(* receiver never sleep at the same time, each waiting for the other.      *)
(***************************************************************************)
NoLostWakeup ==
    /\ sendQueue # {} => size = Capacity
    /\ recvQueue # {} => size = 0

(* Only a thread that is inside a blocking call sleeps, in its own queue. *)
SleepersAreCallers ==
    /\ \A t \in sendQueue : call[t].op \in {"send", "jam"}
    /\ \A t \in recvQueue : call[t].op = "receive"

(***************************************************************************)
(* The ring buffer implements the bounded deque: OSMessage.c's front, size *)
(* and modulo arithmetic neither lose, repeat nor reorder a message.       *)
(***************************************************************************)
Content == [i \in 1 .. size |-> buffer[Wrap(front + i - 1)]]

Deque == INSTANCE BoundedDeque WITH content <- Content

DequeSpec == Deque!Spec
=============================================================================
