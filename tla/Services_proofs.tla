-------------------------- MODULE Services_proofs ---------------------------
(***************************************************************************)
(* Theorems about the services of the operating system that do not call    *)
(* the scheduler's lists.  About OSMessage: for every set of threads and   *)
(* every capacity.  About OSAlarm: for every set of alarms, however long   *)
(* the decrementer counts and without a bound on the time.  About          *)
(* OSPlayRecord: whatever the NAND answers, whenever the stop comes.       *)
(***************************************************************************)
EXTENDS OSMessage, OSAlarm, OSPlayRecord, QueueLemmas

-----------------------------------------------------------------------------
(* OSMessage. *)
(***************************************************************************)
(* Reducing a ring index modulo the capacity keeps it a slot, and wraps it *)
(* by one capacity at most, as the three functions of OSMessage.c rely on. *)
(***************************************************************************)
LEMMA SlotWraps ==
    \A i \in 0 .. 2 * Capacity - 1 : Wrap(i) = IF i < Capacity THEN i ELSE i - Capacity
  BY WrapOnce, CapacityAssumption DEF Wrap

(***************************************************************************)
(* Every variable keeps its type: in particular front stays a slot and     *)
(* size stays between 0 and the capacity, whoever calls what and when.     *)
(***************************************************************************)
THEOREM TypeCorrect == Spec => []TypeOK
<1>1. Init => TypeOK
  BY CapacityAssumption DEF Init, TypeOK, Slot, Call, NoCall
<1>2. TypeOK /\ [Next]_vars => TypeOK'
  <2> SUFFICES ASSUME TypeOK, [Next]_vars PROVE TypeOK'
    OBVIOUS
  <2> USE CapacityAssumption
  <2>1. ASSUME NEW op \in {"send", "jam"}, NEW mesg \in Message,
               ~Full, Insert(op, mesg), call' \in [Thread -> Call]
        PROVE  TypeOK'
    <3>1. Wrap(front + size) \in Slot /\ Wrap(front + Capacity - 1) \in Slot
      BY SlotWraps DEF TypeOK, Slot
    <3>2. CASE op = "send"
      BY <2>1, <3>1, <3>2 DEF TypeOK, Insert, Put, Full
    <3>3. CASE op = "jam"
      BY <2>1, <3>1, <3>3 DEF TypeOK, Insert, PutFront, Full
    <3>4. QED BY <2>1, <3>2, <3>3
  <2>2. ASSUME ~Empty, Take, call' \in [Thread -> Call] PROVE TypeOK'
    <3>1. Wrap(front + 1) \in Slot
      BY SlotWraps DEF TypeOK, Slot
    <3>2. QED BY <2>2, <3>1 DEF TypeOK, Take, Empty
  <2>3. NoCall \in Call
    BY DEF Call
  <2>4. ASSUME NEW t \in Thread, NEW op \in {"send", "jam"}, NEW mesg \in Message,
               CallInsert(t, op, mesg)
        PROVE  TypeOK'
    <3>1. CASE ~Full
      BY <2>1, <2>4, <3>1 DEF CallInsert, TypeOK
    <3>2. CASE Full
      BY <2>4, <3>2 DEF CallInsert, TypeOK, Call
    <3>3. QED BY <3>1, <3>2
  <2>5. ASSUME NEW t \in Thread, OSReceiveMessage(t) PROVE TypeOK'
    <3>1. CASE ~Empty
      BY <2>2, <2>5, <3>1 DEF OSReceiveMessage, TypeOK
    <3>2. CASE Empty
      <4>1. [op |-> "receive", mesg |-> NoMessage] \in Call
        BY DEF Call
      <4>2. QED BY <2>5, <3>2, <4>1 DEF OSReceiveMessage, TypeOK
    <3>3. QED BY <3>1, <3>2
  <2>6. ASSUME NEW t \in Thread, RetryInsert(t) PROVE TypeOK'
    <3>1. call[t].op \in {"send", "jam"} /\ call[t].mesg \in Message
      BY <2>6 DEF RetryInsert, TypeOK, Call, NoCall
    <3>2. CASE ~Full
      BY <2>1, <2>3, <2>6, <3>1, <3>2 DEF RetryInsert, TypeOK
    <3>3. CASE Full
      BY <2>6, <3>3 DEF RetryInsert, TypeOK
    <3>4. QED BY <3>2, <3>3
  <2>7. ASSUME NEW t \in Thread, RetryReceive(t) PROVE TypeOK'
    <3>1. CASE ~Empty
      BY <2>2, <2>3, <2>7, <3>1 DEF RetryReceive, TypeOK
    <3>2. CASE Empty
      BY <2>7, <3>2 DEF RetryReceive, TypeOK
    <3>3. QED BY <3>1, <3>2
  <2>8. ASSUME NEW op \in {"send", "jam"}, NEW mesg \in Message, PollInsert(op, mesg)
        PROVE  TypeOK'
    BY <2>1, <2>8 DEF PollInsert, TypeOK
  <2>9. CASE PollReceive
    BY <2>2, <2>9 DEF PollReceive, TypeOK
  <2>10. CASE UNCHANGED vars
    BY <2>10 DEF vars, TypeOK
  <2>11. QED
    BY <2>4, <2>5, <2>6, <2>7, <2>8, <2>9, <2>10
    DEF Next, OSSendMessage, OSJamMessage
<1>3. QED BY <1>1, <1>2, PTL DEF Spec

(***************************************************************************)
(* A thread sleeps in sendQueue only while the queue is full and in        *)
(* recvQueue only while it is empty: every change of size wakes the side   *)
(* it helps, before interrupts are enabled again.                          *)
(***************************************************************************)
THEOREM LostWakeupFree == Spec => []NoLostWakeup
<1>1. Init => NoLostWakeup
  BY DEF Init, NoLostWakeup
<1>2. TypeOK /\ NoLostWakeup /\ [Next]_vars => NoLostWakeup'
  <2> SUFFICES ASSUME TypeOK, NoLostWakeup, [Next]_vars PROVE NoLostWakeup'
    OBVIOUS
  <2> USE CapacityAssumption DEF NoLostWakeup
  <2>1. ASSUME NEW op, NEW mesg, ~Full, Insert(op, mesg) PROVE NoLostWakeup'
    BY <2>1 DEF TypeOK, Full, Insert, Put, PutFront
  <2>2. ASSUME ~Empty, Take PROVE NoLostWakeup'
    BY <2>2 DEF TypeOK, Empty, Take
  <2>3. ASSUME NEW t \in Thread, NEW op, NEW mesg, CallInsert(t, op, mesg)
        PROVE  NoLostWakeup'
    BY <2>1, <2>3 DEF CallInsert, TypeOK, Full
  <2>4. ASSUME NEW t \in Thread, OSReceiveMessage(t) PROVE NoLostWakeup'
    BY <2>2, <2>4 DEF OSReceiveMessage, TypeOK, Empty
  <2>5. ASSUME NEW t \in Thread, RetryInsert(t) PROVE NoLostWakeup'
    BY <2>1, <2>5 DEF RetryInsert, TypeOK, Full
  <2>6. ASSUME NEW t \in Thread, RetryReceive(t) PROVE NoLostWakeup'
    BY <2>2, <2>6 DEF RetryReceive, TypeOK, Empty
  <2>7. ASSUME NEW op, NEW mesg, PollInsert(op, mesg) PROVE NoLostWakeup'
    BY <2>1, <2>7 DEF PollInsert
  <2>8. CASE PollReceive
    BY <2>2, <2>8 DEF PollReceive
  <2>9. CASE UNCHANGED vars
    BY <2>9 DEF vars
  <2>10. QED
    BY <2>3, <2>4, <2>5, <2>6, <2>7, <2>8, <2>9
    DEF Next, OSSendMessage, OSJamMessage
<1>3. QED BY <1>1, <1>2, TypeCorrect, PTL DEF Spec

(***************************************************************************)
(* The three bodies of OSMessage.c act on the ring's content as the three  *)
(* operations of a deque do.                                               *)
(***************************************************************************)
LEMMA ContentLength == ASSUME TypeOK
                       PROVE  /\ Content \in Seq(Message \cup {NoMessage})
                              /\ Len(Content) = size
  <1>1. \A i \in 1 .. size : Wrap(front + i - 1) \in Slot
    BY SlotWraps, CapacityAssumption DEF TypeOK, Slot
  <1>2. QED BY <1>1 DEF TypeOK, Content

LEMMA PutAppends == ASSUME TypeOK, NEW mesg \in Message, ~Full, Put(mesg)
                    PROVE  Content' = Append(Content, mesg)
  <1> USE CapacityAssumption
  <1>1. size < Capacity /\ size' = size + 1 /\ front' = front
    BY DEF Full, Put, TypeOK
  <1>2. Content' = [i \in 1 .. size + 1 |-> buffer'[Wrap(front + i - 1)]]
    BY <1>1 DEF Content
  <1>3. buffer'[Wrap(front + size)] = mesg
    BY SlotWraps DEF Put, TypeOK, Slot, Full
  <1>4. ASSUME NEW i \in 1 .. size
        PROVE  buffer'[Wrap(front + i - 1)] = buffer[Wrap(front + i - 1)]
    <2>1. Wrap(front + i - 1) # Wrap(front + size)
      BY <1>1, SlotWraps DEF TypeOK, Slot
    <2>2. Wrap(front + i - 1) \in Slot
      BY <1>1, SlotWraps DEF TypeOK, Slot
    <2>3. QED BY <2>1, <2>2 DEF Put, TypeOK
  <1>5. Append(Content, mesg) =
          [i \in 1 .. size + 1 |-> IF i = size + 1 THEN mesg ELSE Content[i]]
    <2>1. Content \in Seq(Message \cup {NoMessage}) /\ Len(Content) = size
      BY ContentLength
    <2>2. size \in Nat
      BY DEF TypeOK
    <2>3. /\ Append(Content, mesg) \in Seq(Message \cup {NoMessage})
          /\ Len(Append(Content, mesg)) = size + 1
          /\ \A i \in 1 .. size : Append(Content, mesg)[i] = Content[i]
          /\ Append(Content, mesg)[size + 1] = mesg
      BY <2>1, <2>2, AppendProperties
    <2>4. Append(Content, mesg) \in [1 .. size + 1 -> Message \cup {NoMessage}]
      BY <2>3, LenProperties
    <2>5. ASSUME NEW i \in 1 .. size + 1
          PROVE  Append(Content, mesg)[i] = IF i = size + 1 THEN mesg ELSE Content[i]
      <3>1. i = size + 1 \/ i \in 1 .. size
        BY <2>2
      <3>2. QED BY <2>3, <3>1
    <2>6. QED BY <2>4, <2>5
  <1>6. ASSUME NEW i \in 1 .. size + 1
        PROVE  buffer'[Wrap(front + i - 1)] = IF i = size + 1 THEN mesg ELSE Content[i]
    <2>1. CASE i = size + 1
      <3>1. front + i - 1 = front + size
        BY <2>1 DEF TypeOK, Slot
      <3>2. QED BY <3>1, <2>1, <1>3
    <2>2. CASE i # size + 1
      <3>1. i \in 1 .. size
        BY <2>2 DEF TypeOK
      <3>2. QED BY <3>1, <2>2, <1>4 DEF Content
    <2>3. QED BY <2>1, <2>2
  <1>7. QED BY <1>2, <1>5, <1>6

LEMMA PutFrontPrepends == ASSUME TypeOK, NEW mesg \in Message, ~Full, PutFront(mesg)
                          PROVE  Content' = <<mesg>> \o Content
  <1> USE CapacityAssumption
  <1> DEFINE last == Wrap(front + Capacity - 1)
  <1>1. size < Capacity /\ size' = size + 1 /\ front' = last
    BY DEF Full, PutFront, TypeOK
  <1>2. Content' = [i \in 1 .. size + 1 |-> buffer'[Wrap(last + i - 1)]]
    BY <1>1 DEF Content
  <1>3. last = IF front = 0 THEN Capacity - 1 ELSE front - 1
    BY SlotWraps DEF TypeOK, Slot
  <1>4. last \in Slot /\ Wrap(last + 1 - 1) = last
    BY <1>3, SlotWraps DEF TypeOK, Slot
  <1>5. buffer'[Wrap(last + 1 - 1)] = mesg
    BY <1>4 DEF PutFront, TypeOK
  <1>6. ASSUME NEW i \in 2 .. size + 1
        PROVE  buffer'[Wrap(last + i - 1)] = buffer[Wrap(front + (i - 1) - 1)]
    <2>1. Wrap(last + i - 1) = Wrap(front + (i - 1) - 1)
      BY <1>1, <1>3, SlotWraps DEF TypeOK, Slot
    <2>2. Wrap(front + (i - 1) - 1) \in Slot
      BY <1>1, SlotWraps DEF TypeOK, Slot
    <2>3. Wrap(front + (i - 1) - 1) # last
      BY <1>1, <1>3, SlotWraps DEF TypeOK, Slot
    <2>4. QED BY <2>1, <2>2, <2>3 DEF PutFront, TypeOK
  <1>7. <<mesg>> \o Content =
          [i \in 1 .. size + 1 |-> IF i = 1 THEN mesg ELSE Content[i - 1]]
    BY ContentLength DEF TypeOK
  <1>8. ASSUME NEW i \in 1 .. size + 1
        PROVE  buffer'[Wrap(last + i - 1)] = IF i = 1 THEN mesg ELSE Content[i - 1]
    <2>1. CASE i = 1
      BY <2>1, <1>5
    <2>2. CASE i # 1
      <3>1. i \in 2 .. size + 1 /\ i - 1 \in 1 .. size
        BY <2>2 DEF TypeOK
      <3>2. QED BY <3>1, <2>2, <1>6 DEF Content
    <2>3. QED BY <2>1, <2>2
  <1>9. QED BY <1>2, <1>7, <1>8

LEMMA TakeDropsHead == ASSUME TypeOK, ~Empty, Take
                       PROVE  Content # << >> /\ Content' = Tail(Content)
  <1> USE CapacityAssumption
  <1>1. size > 0 /\ size' = size - 1 /\ buffer' = buffer
    BY DEF Empty, Take, TypeOK
  <1>2. front' = Wrap(front + 1)
    BY DEF Take
  <1>3. Content' = [i \in 1 .. size - 1 |-> buffer[Wrap(Wrap(front + 1) + i - 1)]]
    BY <1>1, <1>2 DEF Content
  <1>4. ASSUME NEW i \in 1 .. size - 1
        PROVE  Wrap(Wrap(front + 1) + i - 1) = Wrap(front + (i + 1) - 1)
    BY <1>1, SlotWraps DEF TypeOK, Slot
  <1>5. Content # << >> /\ Tail(Content) = [i \in 1 .. size - 1 |-> Content[i + 1]]
    <2>1. Content \in Seq(Message \cup {NoMessage}) /\ Len(Content) = size
      BY ContentLength
    <2>2. size \in Nat
      BY DEF TypeOK
    <2>3. Content # << >>
      BY <1>1, <2>1, <2>2
    <2>4. /\ Tail(Content) \in Seq(Message \cup {NoMessage})
          /\ Len(Tail(Content)) = size - 1
          /\ \A i \in 1 .. size - 1 : Tail(Content)[i] = Content[i + 1]
      BY <2>1, <2>3, HeadTailProperties
    <2>5. Tail(Content) \in [1 .. size - 1 -> Message \cup {NoMessage}]
      BY <2>4, LenProperties
    <2>6. QED BY <2>3, <2>4, <2>5
  <1>6. \A i \in 1 .. size - 1 : Content[i + 1] = buffer[Wrap(front + (i + 1) - 1)]
    BY <1>1 DEF Content, TypeOK
  <1>7. QED BY <1>3, <1>4, <1>5, <1>6

(***************************************************************************)
(* The ring buffer implements the bounded deque.                           *)
(***************************************************************************)
THEOREM ImplementsDeque == Spec => DequeSpec
<1>1. Init => Deque!Init
  BY DEF Init, Deque!Init, Content
<1>2. TypeOK /\ [Next]_vars => [Deque!Next]_Content
  <2> SUFFICES ASSUME TypeOK, [Next]_vars PROVE Deque!Next \/ UNCHANGED Content
    OBVIOUS
  <2>1. ASSUME NEW op \in {"send", "jam"}, NEW mesg \in Message, ~Full, Insert(op, mesg)
        PROVE  Deque!Next
    <3>1. Len(Content) < Capacity
      BY <2>1, ContentLength, CapacityAssumption DEF Full, TypeOK
    <3>2. CASE op = "send"
      BY <2>1, <3>1, <3>2, PutAppends DEF Insert, Deque!Next, Deque!Send
    <3>3. CASE op = "jam"
      BY <2>1, <3>1, <3>3, PutFrontPrepends DEF Insert, Deque!Next, Deque!Jam
    <3>4. QED BY <2>1, <3>2, <3>3
  <2>2. ASSUME ~Empty, Take PROVE Deque!Next
    BY <2>2, TakeDropsHead DEF Deque!Next, Deque!Receive
  <2>3. ASSUME UNCHANGED <<buffer, front, size>> PROVE UNCHANGED Content
    BY <2>3 DEF Content
  <2>4. ASSUME NEW t \in Thread, NEW op \in {"send", "jam"}, NEW mesg \in Message,
               CallInsert(t, op, mesg)
        PROVE  Deque!Next \/ UNCHANGED Content
    BY <2>1, <2>3, <2>4 DEF CallInsert
  <2>5. ASSUME NEW t \in Thread, OSReceiveMessage(t) PROVE Deque!Next \/ UNCHANGED Content
    BY <2>2, <2>3, <2>5 DEF OSReceiveMessage
  <2>6. ASSUME NEW t \in Thread, RetryInsert(t) PROVE Deque!Next \/ UNCHANGED Content
    <3>1. call[t].op \in {"send", "jam"} /\ call[t].mesg \in Message
      BY <2>6 DEF RetryInsert, TypeOK, Call, NoCall
    <3>2. QED BY <2>1, <2>3, <2>6, <3>1 DEF RetryInsert
  <2>7. ASSUME NEW t \in Thread, RetryReceive(t) PROVE Deque!Next \/ UNCHANGED Content
    BY <2>2, <2>3, <2>7 DEF RetryReceive
  <2>8. ASSUME NEW op \in {"send", "jam"}, NEW mesg \in Message, PollInsert(op, mesg)
        PROVE  Deque!Next
    BY <2>1, <2>8 DEF PollInsert
  <2>9. CASE PollReceive
    BY <2>2, <2>9 DEF PollReceive
  <2>10. CASE UNCHANGED vars
    BY <2>3, <2>10 DEF vars
  <2>11. QED
    BY <2>4, <2>5, <2>6, <2>7, <2>8, <2>9, <2>10
    DEF Next, OSSendMessage, OSJamMessage
<1>3. QED BY <1>1, <1>2, TypeCorrect, PTL DEF Spec, DequeSpec, Deque!Spec

-----------------------------------------------------------------------------
(* OSAlarm. *)
(* What is asked of the list, its alarms and the timer, as predicates of   *)
(* their state s: inside a handler they hold of states that are no state   *)
(* of the system.                                                          *)
AlarmState ==
    [queue : Seq(Alarm), end : [Alarm -> Nat], handler : [Alarm -> BOOLEAN],
     start : [Alarm -> Nat], period : [Alarm -> Nat], dec : Nat \cup {NoDec}]

(* The handler is the flag OSCancelAlarm goes by. *)
Linked(s) == \A a \in Alarm : s.handler[a] <=> a \in ToSet(s.queue)
LinkedBut(s, a) == \A b \in Alarm \ {a} : s.handler[b] <=> b \in ToSet(s.queue)

Sound(s) == s \in AlarmState /\ IsInjective(s.queue) /\ Linked(s)

Timed(s) ==
    s.queue # << >> =>
        s.dec # NoDec /\ (s.dec <= s.end[Head(s.queue)] \/ s.dec <= clock)

AlarmInv ==
    /\ clock \in Nat
    /\ asleep \in [Sleeper -> {"awake", "suspended", "resumed"}]
    /\ ~down => Sound(alarms) /\ Timed(alarms) /\ SleepersHaveAlarms

-----------------------------------------------------------------------------

LEMMA SetTimerTimes ==
    ASSUME clock \in Nat, NEW s \in AlarmState, NEW a \in Alarm
    PROVE  /\ SetTimer(s, a) \in AlarmState
           /\ SetTimer(s, a).queue = s.queue
           /\ SetTimer(s, a).end = s.end
           /\ SetTimer(s, a).handler = s.handler
           /\ SetTimer(s, a).dec # NoDec
           /\ SetTimer(s, a).dec <= s.end[a] \/ SetTimer(s, a).dec <= clock
  <1> DEFINE at == IF s.end[a] < clock THEN clock
                   ELSE IF s.end[a] - clock <= MaxDec THEN s.end[a]
                   ELSE clock + MaxDec
  <1>1. s.end[a] \in Nat
    BY DEF AlarmState
  <1>2. at \in Nat /\ (at <= s.end[a] \/ at <= clock)
    BY <1>1, AlarmAssumption
  <1>3. SetTimer(s, a) = [s EXCEPT !.dec = at]
    BY DEF SetTimer
  <1> HIDE DEF at
  <1>4. QED BY <1>2, <1>3, AlarmAssumption DEF AlarmState

LEMMA PeriodEndNat ==
    ASSUME clock \in Nat, NEW start \in Nat, NEW period \in Nat \ {0}
    PROVE  PeriodEnd(start, period) \in Nat
  <1>1. CASE ~(start < clock)
    BY <1>1 DEF PeriodEnd
  <1>2. CASE start < clock
    <2> DEFINE k == (clock - start) \div period + 1
    <2>1. k \in Nat
      BY <1>2
    <2> HIDE DEF k
    <2>2. period * k \in Nat
      BY <2>1
    <2>3. QED BY <1>2, <2>2 DEF PeriodEnd, k
  <1>3. QED BY <1>1, <1>2

LEMMA InsertAlarmSound ==
    ASSUME clock \in Nat, NEW s \in AlarmState, NEW a \in Alarm, NEW end \in Nat,
           IsInjective(s.queue), LinkedBut(s, a), a \notin ToSet(s.queue)
    PROVE  /\ Sound(InsertAlarm(s, a, end))
           /\ ToSet(InsertAlarm(s, a, end).queue) = ToSet(s.queue) \cup {a}
           /\ Timed(s) => Timed(InsertAlarm(s, a, end))
  <1> DEFINE e == IF s.period[a] > 0 THEN PeriodEnd(s.start[a], s.period[a]) ELSE end
             prio == [s.end EXCEPT ![a] = e]
             q == InsertByPriority(s.queue, a, prio)
             t == [s EXCEPT !.handler[a] = TRUE, !.end[a] = e, !.queue = q]
             r == InsertAlarm(s, a, end)
  <1>1. r = IF Head(q) = a THEN SetTimer(t, a) ELSE t
    BY DEF InsertAlarm
  <1>2. /\ s.queue \in Seq(Alarm) /\ s.end \in [Alarm -> Nat]
        /\ s.handler \in [Alarm -> BOOLEAN]
        /\ s.start[a] \in Nat /\ s.period[a] \in Nat
    BY DEF AlarmState
  <1>3. e \in Nat
    <2>1. CASE s.period[a] > 0
      <3>1. s.period[a] \in Nat \ {0}
        BY <1>2, <2>1
      <3>2. PeriodEnd(s.start[a], s.period[a]) \in Nat
        BY <1>2, <3>1, PeriodEndNat
      <3>3. QED BY <2>1, <3>2
    <2>2. QED BY <2>1
  <1> HIDE DEF e
  <1>4. prio \in [Alarm -> Nat]
    BY <1>2, <1>3
  <1> HIDE DEF prio
  <1>5. /\ q \in Seq(Alarm) /\ q # << >> /\ ToSet(q) = ToSet(s.queue) \cup {a}
        /\ IsInjective(q)
        /\ Head(q) = a \/ (s.queue # << >> /\ Head(q) = Head(s.queue))
    BY <1>2, <1>4, InsertSet
  <1> HIDE DEF q, r
  <1>6. t \in AlarmState
    BY <1>3, <1>5 DEF AlarmState
  <1>7. /\ t.queue = q /\ t.dec = s.dec
        /\ t.handler = [s.handler EXCEPT ![a] = TRUE]
        /\ t.end = [s.end EXCEPT ![a] = e]
    BY DEF AlarmState
  <1> HIDE DEF t
  <1>8. Linked(t)
    BY <1>2, <1>5, <1>7 DEF Linked, LinkedBut
  <1>9. CASE Head(q) = a
    <2>1. r = SetTimer(t, a)
      BY <1>1, <1>9
    <2>2. /\ r \in AlarmState /\ r.queue = t.queue /\ r.end = t.end
          /\ r.handler = t.handler /\ r.dec # NoDec
          /\ r.dec <= t.end[a] \/ r.dec <= clock
      BY <1>6, <2>1, SetTimerTimes
    <2>3. Timed(r)
      BY <1>7, <1>9, <2>2 DEF Timed
    <2>4. Linked(r)
      BY <1>8, <2>2 DEF Linked
    <2>5. QED BY <1>5, <1>7, <2>2, <2>3, <2>4 DEF Sound, r
  <1>10. CASE Head(q) # a
    <2>1. r = t
      BY <1>1, <1>10
    <2>2. ASSUME Timed(s) PROVE Timed(t)
      <3>1. s.queue # << >> /\ Head(q) = Head(s.queue)
        BY <1>5, <1>10
      <3>2. Head(q) \in Alarm
        BY <1>5, TailSet
      <3>3. t.end[Head(q)] = s.end[Head(q)]
        BY <1>2, <1>7, <1>10, <3>2
      <3>4. QED BY <1>7, <2>2, <3>1, <3>3 DEF Timed
    <2>3. QED BY <1>5, <1>6, <1>7, <1>8, <2>1, <2>2 DEF Sound, r
  <1>11. QED BY <1>9, <1>10

LEMMA SetOnceSound ==
    ASSUME clock \in Nat, NEW s, Sound(s), NEW a \in Alarm, NEW d \in Nat, ~s.handler[a]
    PROVE  /\ Sound(SetOnce(s, a, d))
           /\ ToSet(SetOnce(s, a, d).queue) = ToSet(s.queue) \cup {a}
           /\ Timed(s) => Timed(SetOnce(s, a, d))
  <1> DEFINE t == [s EXCEPT !.period[a] = 0]
  <1>1. s \in AlarmState /\ IsInjective(s.queue) /\ Linked(s)
    BY DEF Sound
  <1>2. t \in AlarmState
    BY <1>1 DEF AlarmState
  <1>3. t.queue = s.queue /\ t.end = s.end /\ t.handler = s.handler /\ t.dec = s.dec
    BY <1>1 DEF AlarmState
  <1>4. SetOnce(s, a, d) = InsertAlarm(t, a, clock + d)
    BY DEF SetOnce
  <1> HIDE DEF t
  <1>5. LinkedBut(t, a) /\ a \notin ToSet(t.queue) /\ IsInjective(t.queue)
    BY <1>1, <1>3 DEF Linked, LinkedBut
  <1>6. Timed(s) => Timed(t)
    BY <1>3 DEF Timed
  <1>7. clock + d \in Nat
    OBVIOUS
  <1>8. QED BY <1>2, <1>3, <1>4, <1>5, <1>6, <1>7, InsertAlarmSound

LEMMA UnsetState ==
    ASSUME NEW s \in AlarmState, NEW a \in Alarm
    PROVE  /\ Unset(s, a) \in AlarmState
           /\ Unset(s, a).queue = s.queue /\ Unset(s, a).dec = s.dec
           /\ Unset(s, a).handler = [s.handler EXCEPT ![a] = FALSE]
           /\ Unset(s, a).end = [s.end EXCEPT ![a] = 0]
  BY DEF Unset, AlarmState

LEMMA CancelSound ==
    ASSUME clock \in Nat, NEW s, Sound(s), Timed(s), NEW a \in Alarm
    PROVE  /\ Sound(Cancel(s, a)) /\ Timed(Cancel(s, a))
           /\ ToSet(Cancel(s, a).queue) = ToSet(s.queue) \ {a}
  <1> DEFINE q == Without(s.queue, a)
             t == [Unset(s, a) EXCEPT !.queue = q]
             r == Cancel(s, a)
  <1>1. s \in AlarmState /\ IsInjective(s.queue) /\ Linked(s) /\ s.queue \in Seq(Alarm)
    BY DEF Sound, AlarmState
  <1>2. r = IF ~s.handler[a] THEN s
            ELSE IF Head(s.queue) = a /\ q # << >> THEN SetTimer(t, Head(q)) ELSE t
    BY DEF Cancel
  <1> HIDE DEF r
  <1>3. CASE ~s.handler[a]
    <2>1. r = s /\ a \notin ToSet(s.queue)
      BY <1>1, <1>2, <1>3 DEF Linked
    <2>2. QED BY <2>1 DEF r
  <1>4. CASE s.handler[a]
    <2>1. a \in ToSet(s.queue)
      BY <1>1, <1>4 DEF Linked
    <2>2. /\ q \in Seq(Alarm) /\ ToSet(q) = ToSet(s.queue) \ {a} /\ IsInjective(q)
          /\ Head(s.queue) # a /\ q # << >> => Head(q) = Head(s.queue)
      BY <1>1, <2>1, WithoutElements, WithoutSet, WithoutHead
    <2> HIDE DEF q
    <2>3. /\ t \in AlarmState /\ t.queue = q /\ t.dec = s.dec
          /\ t.handler = [s.handler EXCEPT ![a] = FALSE]
          /\ t.end = [s.end EXCEPT ![a] = 0]
      <3> DEFINE u == Unset(s, a)
      <3>1. /\ u \in AlarmState /\ u.dec = s.dec
            /\ u.handler = [s.handler EXCEPT ![a] = FALSE]
            /\ u.end = [s.end EXCEPT ![a] = 0]
        BY <1>1, UnsetState
      <3> HIDE DEF u
      <3>2. QED BY <2>2, <3>1 DEF AlarmState, u
    <2> HIDE DEF t
    <2>4. Linked(t)
      <3>1. s.handler \in [Alarm -> BOOLEAN]
        BY <1>1 DEF AlarmState
      <3>2. QED BY <1>1, <2>2, <2>3, <3>1 DEF Linked
    <2>5. CASE Head(s.queue) = a /\ q # << >>
      <3>1. r = SetTimer(t, Head(q)) /\ Head(q) \in Alarm
        BY <1>2, <1>4, <2>2, <2>5, TailSet
      <3>2. /\ r \in AlarmState /\ r.queue = t.queue /\ r.end = t.end
            /\ r.handler = t.handler /\ r.dec # NoDec
            /\ r.dec <= t.end[Head(q)] \/ r.dec <= clock
        BY <2>3, <3>1, SetTimerTimes
      <3>3. Linked(r) /\ Timed(r)
        BY <2>3, <2>4, <3>2 DEF Linked, Timed
      <3>4. QED BY <2>2, <2>3, <3>2, <3>3 DEF Sound, r
    <2>6. CASE ~(Head(s.queue) = a /\ q # << >>)
      <3>1. r = t
        BY <1>2, <1>4, <2>6
      <3>2. ASSUME q # << >>
            PROVE  t.dec # NoDec /\ (t.dec <= t.end[Head(q)] \/ t.dec <= clock)
        <4>1. Head(s.queue) # a /\ Head(q) = Head(s.queue) /\ Head(q) \in Alarm
          BY <2>2, <2>6, <3>2, TailSet
        <4>2. s.queue # << >>
          BY <1>1, <2>1, EmptySet
        <4>3. t.end[Head(q)] = s.end[Head(s.queue)]
          BY <1>1, <2>3, <4>1 DEF AlarmState
        <4>4. QED BY <2>3, <4>2, <4>3 DEF Timed
      <3>3. Timed(t)
        BY <2>3, <3>2 DEF Timed
      <3>4. QED BY <2>2, <2>3, <2>4, <3>1, <3>3 DEF Sound, r
    <2>7. QED BY <2>5, <2>6
  <1>5. QED BY <1>3, <1>4

(* After the head has rung: whatever it is set for again, the others stay. *)
LEMMA PopHeadSound ==
    ASSUME clock \in Nat, NEW s, Sound(s), s.queue # << >>
    PROVE  /\ Sound(PopHead(s))
           /\ ToSet(PopHead(s).queue) \ {Head(s.queue)}
                 = ToSet(s.queue) \ {Head(s.queue)}
  <1> DEFINE a == Head(s.queue)
             t == [s EXCEPT !.queue = Tail(@)]
             r == PopHead(s)
  <1>1. /\ s \in AlarmState /\ IsInjective(s.queue) /\ Linked(s)
        /\ s.queue \in Seq(Alarm) /\ s.handler \in [Alarm -> BOOLEAN]
    BY DEF Sound, AlarmState
  <1>2. /\ a \in Alarm /\ Tail(s.queue) \in Seq(Alarm)
        /\ ToSet(s.queue) = ToSet(Tail(s.queue)) \cup {a}
        /\ IsInjective(Tail(s.queue)) /\ a \notin ToSet(Tail(s.queue))
    BY <1>1, TailSet
  <1>3. r = IF s.period[a] > 0 THEN InsertAlarm(t, a, 0) ELSE Unset(t, a)
    BY DEF PopHead
  <1>4. t \in AlarmState /\ t.queue = Tail(s.queue) /\ t.handler = s.handler
    BY <1>1, <1>2 DEF AlarmState
  <1> HIDE DEF a, t, r
  <1>5. LinkedBut(t, a)
    BY <1>1, <1>2, <1>4 DEF Linked, LinkedBut
  <1>6. CASE s.period[a] > 0
    <2>1. Sound(r) /\ ToSet(r.queue) = ToSet(t.queue) \cup {a}
      BY <1>2, <1>3, <1>4, <1>5, <1>6, InsertAlarmSound
    <2>2. QED BY <1>2, <1>4, <2>1 DEF a, r
  <1>7. CASE ~(s.period[a] > 0)
    <2>1. /\ r \in AlarmState /\ r.queue = t.queue
          /\ r.handler = [t.handler EXCEPT ![a] = FALSE]
      BY <1>2, <1>3, <1>4, <1>7, UnsetState
    <2>2. Linked(r)
      BY <1>1, <1>2, <1>4, <1>5, <2>1 DEF Linked, LinkedBut
    <2>3. QED BY <1>2, <1>4, <2>1, <2>2 DEF Sound, a, r
  <1>8. QED BY <1>6, <1>7

LEMMA TimeHeadSound ==
    ASSUME clock \in Nat, NEW s, Sound(s)
    PROVE  /\ Sound(TimeHead(s)) /\ Timed(TimeHead(s))
           /\ TimeHead(s).queue = s.queue
  <1>1. s \in AlarmState /\ s.queue \in Seq(Alarm)
    BY DEF Sound, AlarmState
  <1>2. CASE s.queue = << >>
    BY <1>2 DEF TimeHead, Timed
  <1>3. CASE s.queue # << >>
    <2> DEFINE r == SetTimer(s, Head(s.queue))
    <2>1. Head(s.queue) \in Alarm
      BY <1>1, <1>3, TailSet
    <2>2. /\ r \in AlarmState /\ r.queue = s.queue /\ r.end = s.end
          /\ r.handler = s.handler /\ r.dec # NoDec
          /\ r.dec <= s.end[Head(s.queue)] \/ r.dec <= clock
      BY <1>1, <2>1, SetTimerTimes
    <2>3. TimeHead(s) = r
      BY <1>3 DEF TimeHead
    <2> HIDE DEF r
    <2>4. QED BY <2>2, <2>3 DEF Sound, Linked, Timed
  <1>4. QED BY <1>2, <1>3

(* A handler sets or cancels alarms of clients: no sleeper notices. *)
LEMMA HandlerSound ==
    ASSUME clock \in Nat, NEW s, Sound(s), Timed(s), NEW r \in HandlerOutcomes(s)
    PROVE  /\ Sound(r) /\ Timed(r)
           /\ \A a \in Sleeper : a \in ToSet(r.queue) <=> a \in ToSet(s.queue)
  <1>1. CASE r = s
    BY <1>1
  <1>2. ASSUME NEW a \in Client, ~s.handler[a], NEW d \in Delay, r = SetOnce(s, a, d)
        PROVE  /\ Sound(r) /\ Timed(r) /\ ToSet(r.queue) = ToSet(s.queue) \cup {a}
    <2>1. a \in Alarm /\ d \in Nat
      BY AlarmAssumption DEF Client
    <2>2. QED BY <1>2, <2>1, SetOnceSound
  <1>3. ASSUME NEW a \in Client, r = Cancel(s, a)
        PROVE  /\ Sound(r) /\ Timed(r) /\ ToSet(r.queue) = ToSet(s.queue) \ {a}
    BY <1>3, CancelSound DEF Client
  <1>4. QED BY <1>1, <1>2, <1>3 DEF HandlerOutcomes, Client

-----------------------------------------------------------------------------
LEMMA AlarmInvInit == AlarmInit => AlarmInv
  <1> SUFFICES ASSUME AlarmInit PROVE AlarmInv
    OBVIOUS
  <1>1. << >> \in Seq(Alarm) /\ ToSet(<< >>) = {} /\ IsInjective(<< >>)
    BY EmptySet, EmptySeq
  <1>2. alarms \in AlarmState /\ alarms.queue = << >>
    BY <1>1 DEF AlarmInit, AlarmState
  <1>3. Linked(alarms)
    BY <1>1, <1>2 DEF AlarmInit, Linked
  <1>4. SleepersHaveAlarms
    BY <1>1, <1>2 DEF AlarmInit, SleepersHaveAlarms
  <1>5. QED BY <1>1, <1>2, <1>3, <1>4 DEF AlarmInit, AlarmInv, Sound, Timed

(* Each step keeps the alarms sound and timed, and the sleepers in them. *)
LEMMA AlarmInvNext == AlarmInv /\ [AlarmNext]_alarmVars => AlarmInv'
  <1> SUFFICES ASSUME AlarmInv, [AlarmNext]_alarmVars PROVE AlarmInv'
    OBVIOUS
  <1> DEFINE Member(a, s) == a \in ToSet(s.queue)
             Safe == Sound(alarms) /\ Timed(alarms) /\ SleepersHaveAlarms
             Goal == /\ clock' = clock
                     /\ asleep' \in [Sleeper -> {"awake", "suspended", "resumed"}]
                     /\ Sound(alarms') /\ Timed(alarms')
                     /\ \A a \in Sleeper :
                           /\ asleep'[a] = "suspended" => Member(a, alarms')
                           /\ asleep'[a] = "awake" => ~Member(a, alarms')
  <1>1. CASE UNCHANGED alarmVars
    BY <1>1 DEF alarmVars, AlarmInv, Sound, Linked, Timed, SleepersHaveAlarms
  <1>2. CASE ~down /\ OnReset
    BY <1>2 DEF OnReset, AlarmInv
  <1>3. CASE ~down /\ AlarmStep /\ UNCHANGED down
    <2>1. /\ clock \in Nat /\ Sound(alarms) /\ Timed(alarms)
          /\ asleep \in [Sleeper -> {"awake", "suspended", "resumed"}]
      BY <1>3 DEF AlarmInv
    <2>2. \A a \in Sleeper : /\ asleep[a] = "suspended" => Member(a, alarms)
                             /\ asleep[a] = "awake" => ~Member(a, alarms)
      BY <1>3 DEF AlarmInv, SleepersHaveAlarms
    <2>3. alarms \in AlarmState /\ Linked(alarms) /\ IsInjective(alarms.queue)
      BY <2>1 DEF Sound
    <2>4. \A a \in Alarm : alarms.handler[a] <=> Member(a, alarms)
      BY <2>3 DEF Linked
    <2>5. ASSUME Goal PROVE AlarmInv'
      BY <1>3, <2>1, <2>5 DEF AlarmInv, Sound, Linked, Timed, SleepersHaveAlarms
    <2>6. CASE AlarmTick
      BY <1>3, <2>1, <2>2, <2>6
      DEF AlarmTick, AlarmInv, Sound, Linked, Timed, SleepersHaveAlarms, AlarmState
    <2> HIDE DEF Member
    <2>7. ASSUME NEW a \in Client, NEW d \in Delay, OSSetAlarm(a, d) PROVE Goal
      <3>1. a \in Alarm /\ a \notin Sleeper /\ d \in Nat
        BY AlarmAssumption DEF Client
      <3>2. /\ Sound(alarms') /\ Timed(alarms')
            /\ \A b \in Sleeper : Member(b, alarms') <=> Member(b, alarms)
        BY <2>1, <2>7, <3>1, SetOnceSound DEF OSSetAlarm, Member
      <3>3. QED BY <2>1, <2>2, <2>7, <3>2 DEF OSSetAlarm
    <2>8. ASSUME NEW a \in Client, NEW d \in Delay, NEW b \in Start,
                 OSSetPeriodicAlarm(a, b, d)
          PROVE  Goal
      <3> DEFINE s == [alarms EXCEPT !.start[a] = b, !.period[a] = d]
      <3>1. a \in Alarm /\ a \notin Sleeper /\ d \in Nat /\ b \in Nat
        BY AlarmAssumption DEF Client
      <3>2. /\ s \in AlarmState /\ s.queue = alarms.queue /\ s.end = alarms.end
            /\ s.handler = alarms.handler /\ s.dec = alarms.dec
        BY <2>3, <3>1 DEF AlarmState
      <3> HIDE DEF s
      <3>3. LinkedBut(s, a) /\ a \notin ToSet(s.queue) /\ IsInjective(s.queue) /\ Timed(s)
        BY <2>1, <2>3, <2>8, <3>1, <3>2 DEF OSSetPeriodicAlarm, Linked, LinkedBut, Timed
      <3>4. alarms' = InsertAlarm(s, a, 0)
        BY <2>8 DEF OSSetPeriodicAlarm, s
      <3>5. /\ Sound(alarms') /\ Timed(alarms')
            /\ ToSet(alarms'.queue) = ToSet(alarms.queue) \cup {a}
        BY <2>1, <3>1, <3>2, <3>3, <3>4, InsertAlarmSound
      <3>6. \A c \in Sleeper : Member(c, alarms') <=> Member(c, alarms)
        BY <3>1, <3>5 DEF Member
      <3>7. QED BY <2>1, <2>2, <2>8, <3>5, <3>6 DEF OSSetPeriodicAlarm
    <2>9. ASSUME NEW a \in Client, OSCancelAlarm(a) PROVE Goal
      <3>1. a \in Alarm /\ a \notin Sleeper
        BY DEF Client
      <3>2. /\ Sound(alarms') /\ Timed(alarms')
            /\ \A b \in Sleeper : Member(b, alarms') <=> Member(b, alarms)
        BY <2>1, <2>9, <3>1, CancelSound DEF OSCancelAlarm, Member
      <3>3. QED BY <2>1, <2>2, <2>9, <3>2 DEF OSCancelAlarm
    <2>10. ASSUME NEW a \in Sleeper, NEW d \in Delay, OSSleepTicks(a, d) PROVE Goal
      <3>1. a \in Alarm /\ d \in Nat /\ ~alarms.handler[a]
        BY <2>2, <2>4, <2>10, AlarmAssumption DEF OSSleepTicks
      <3>2. /\ Sound(alarms') /\ Timed(alarms')
            /\ \A b \in Sleeper : Member(b, alarms') <=> (b = a \/ Member(b, alarms))
        BY <2>1, <2>10, <3>1, SetOnceSound DEF OSSleepTicks, Member
      <3>3. QED BY <2>1, <2>2, <2>10, <3>2 DEF OSSleepTicks
    <2>11. ASSUME NEW a \in Sleeper, ResumeEarly(a) PROVE Goal
      BY <2>1, <2>2, <2>11 DEF ResumeEarly
    <2>12. ASSUME NEW a \in Sleeper, WakeUp(a) PROVE Goal
      <3>1. a \in Alarm
        BY AlarmAssumption
      <3>2. /\ Sound(alarms') /\ Timed(alarms')
            /\ \A b \in Sleeper : Member(b, alarms') <=> (b # a /\ Member(b, alarms))
        BY <2>1, <2>12, <3>1, CancelSound DEF WakeUp, Member
      <3>3. QED BY <2>1, <2>2, <2>12, <3>2 DEF WakeUp
    <2>13. CASE DecrementerException
      <3> DEFINE s == [alarms EXCEPT !.dec = NoDec]
                 a == Head(s.queue)
      <3>1. /\ s.queue = alarms.queue /\ s.end = alarms.end
            /\ s.handler = alarms.handler /\ s \in AlarmState
        BY <2>3 DEF AlarmState
      <3>2. /\ clock' = clock
            /\ IF s.queue = << >>
               THEN alarms' = s /\ UNCHANGED asleep
               ELSE IF clock < s.end[a]
               THEN alarms' = SetTimer(s, a) /\ UNCHANGED asleep
               ELSE IF a \in Sleeper
                    THEN /\ alarms' = TimeHead(PopHead(s))
                         /\ asleep' = SleepAlarmHandler(a)
                    ELSE /\ alarms' \in HandlerOutcomes(TimeHead(PopHead(s)))
                         /\ UNCHANGED asleep
        BY <2>13 DEF DecrementerException
      <3> HIDE DEF s
      <3>3. Sound(s)
        BY <2>3, <3>1 DEF Sound, Linked
      <3>4. CASE s.queue = << >>
        <4>1. alarms' = s /\ asleep' = asleep
          BY <3>2, <3>4
        <4>2. Timed(s) /\ \A b \in Sleeper : Member(b, s) <=> Member(b, alarms)
          BY <3>1, <3>4 DEF Timed, Member
        <4>3. QED BY <2>1, <2>2, <2>5, <3>2, <3>3, <4>1, <4>2
      <3>5. CASE s.queue # << >> /\ clock < s.end[a]
        <4>1. alarms' = TimeHead(s) /\ asleep' = asleep
          BY <3>2, <3>5 DEF TimeHead
        <4>2. Sound(alarms') /\ Timed(alarms') /\ alarms'.queue = alarms.queue
          BY <2>1, <3>1, <3>3, <4>1, TimeHeadSound
        <4>3. \A b \in Sleeper : Member(b, alarms') <=> Member(b, alarms)
          BY <4>2 DEF Member
        <4>4. QED BY <2>1, <2>2, <2>5, <3>2, <4>1, <4>2, <4>3
      <3>6. CASE s.queue # << >> /\ ~(clock < s.end[a])
        <4> DEFINE t == TimeHead(PopHead(s))
        <4>1. /\ Sound(PopHead(s))
              /\ ToSet(PopHead(s).queue) \ {a} = ToSet(s.queue) \ {a}
          BY <2>1, <3>3, <3>6, PopHeadSound
        <4>2. Sound(t) /\ Timed(t) /\ t.queue = PopHead(s).queue
          BY <2>1, <4>1, TimeHeadSound
        <4>3. \A b \in Sleeper \ {a} : Member(b, t) <=> Member(b, alarms)
          BY <3>1, <4>1, <4>2 DEF Member
        <4>4. Member(a, alarms) /\ a \in Alarm
          <5>1. s.queue \in Seq(Alarm)
            BY <3>1 DEF AlarmState
          <5>2. QED BY <3>1, <3>6, <5>1, TailSet DEF Member
        <4> HIDE DEF a, t
        <4>5. CASE a \in Sleeper
          <5>1. alarms' = t /\ asleep' = SleepAlarmHandler(a)
            BY <3>2, <3>6, <4>5 DEF t
          <5>2. /\ asleep' \in [Sleeper -> {"awake", "suspended", "resumed"}]
                /\ asleep'[a] = "resumed"
                /\ \A b \in Sleeper \ {a} : asleep'[b] = asleep[b]
            BY <2>1, <2>2, <4>4, <4>5, <5>1 DEF SleepAlarmHandler
          <5>3. QED BY <2>2, <2>5, <3>2, <4>2, <4>3, <5>1, <5>2
        <4>6. CASE a \notin Sleeper
          <5>1. alarms' \in HandlerOutcomes(t) /\ asleep' = asleep
            BY <3>2, <3>6, <4>6 DEF t
          <5>2. /\ Sound(alarms') /\ Timed(alarms')
                /\ \A b \in Sleeper : Member(b, alarms') <=> Member(b, t)
            BY <2>1, <4>2, <5>1, HandlerSound DEF Member
          <5>3. QED BY <2>1, <2>2, <2>5, <3>2, <4>3, <4>6, <5>1, <5>2
        <4>7. QED BY <4>5, <4>6
      <3>7. QED BY <3>4, <3>5, <3>6
    <2>14. QED
      BY <1>3, <2>5, <2>6, <2>7, <2>8, <2>9, <2>10, <2>11, <2>12, <2>13 DEF AlarmStep
  <1>4. QED BY <1>1, <1>2, <1>3 DEF AlarmNext

-----------------------------------------------------------------------------
(* The list and the handlers agree, whatever clients and handlers do.      *)
THEOREM AlarmsSound == AlarmSpec => []AlarmInv
  <1>1. QED BY AlarmInvInit, AlarmInvNext, PTL DEF AlarmSpec

(* Until the shutdown's last pass no alarm is forgotten: the decrementer   *)
(* is in time for the first, and a suspended sleeper's is pending.         *)
THEOREM AlarmsNeverForgotten == AlarmSpec => [](~down => AlarmsKept)
  <1>1. AlarmInv => (~down => AlarmsKept)
    BY DEF AlarmInv, Timed, AlarmsKept, TimerCoversHead
  <1>2. QED BY <1>1, AlarmsSound, PTL

-----------------------------------------------------------------------------
(***************************************************************************)
(* What becomes of one alarm, the others staying as they are.              *)
(***************************************************************************)
Fields(s, b) == <<s.handler[b], s.end[b], s.start[b], s.period[b]>>
Others(s, r, a) == \A b \in Alarm \ {a} : Fields(r, b) = Fields(s, b)
InOrder(s) == Ordered(s.queue, s.end)
OnGrid(s, a) == s.period[a] > 0 => /\ s.end[a] >= s.start[a]
                                   /\ (s.end[a] - s.start[a]) % s.period[a] = 0
Grid(s) == \A a \in Alarm : s.handler[a] => OnGrid(s, a)

(* Arithmetic of periods. *)
LEMMA MultipleLeavesNothing ==
    ASSUME NEW p \in Nat \ {0}, NEW k \in Nat
    PROVE  (p * k) % p = 0 /\ p * k \in Nat
  <1> DEFINE x == p * k
             q == x \div p
             m == x % p
  <1>1. x \in Nat
    OBVIOUS
  <1> HIDE DEF x
  <1>2. x = p * q + m /\ m \in 0 .. p - 1 /\ q \in Int
    BY <1>1, DivisionWithRemainder
  <1> HIDE DEF q, m
  <1>3. p * (k - q) = m
    BY <1>2 DEF x
  <1>4. k - q \in Int
    BY <1>2
  <1>5. CASE k - q >= 1
    <2>1. p * (k - q) >= p
      BY <1>4, <1>5
    <2>2. QED BY <1>2, <1>3, <2>1
  <1>6. CASE k - q <= -1
    <2>1. p * (k - q) <= -p
      BY <1>4, <1>6, ProductBounds
    <2>2. QED BY <1>2, <1>3, <2>1
  <1>7. CASE k - q = 0
    <2>1. k = q
      BY <1>2, <1>7
    <2>2. p * (k - q) = 0
      BY <1>7
    <2>3. QED BY <1>1, <1>3, <2>2 DEF m, x
  <1>8. QED BY <1>4, <1>5, <1>6, <1>7

(* The end of a period is on its grid, and to come but for a start that is *)
(* this very moment.                                                       *)
LEMMA PeriodEndGrid ==
    ASSUME clock \in Nat, NEW start \in Nat, NEW period \in Nat \ {0}
    PROVE  /\ PeriodEnd(start, period) \in Nat
           /\ PeriodEnd(start, period) >= start
           /\ (PeriodEnd(start, period) - start) % period = 0
           /\ PeriodEnd(start, period) >= clock
           /\ start < clock => /\ PeriodEnd(start, period) > clock
                               /\ PeriodEnd(start, period) <= clock + period
           /\ start >= clock => PeriodEnd(start, period) = start
  <1>1. CASE ~(start < clock)
    <2>1. PeriodEnd(start, period) = start
      BY <1>1 DEF PeriodEnd
    <2>2. 0 % period = 0
      BY MultipleLeavesNothing
    <2>3. QED BY <1>1, <2>1, <2>2
  <1>2. CASE start < clock
    <2> DEFINE d == clock - start
               q == d \div period
               m == d % period
    <2>1. d \in Nat
      BY <1>2
    <2>2. PeriodEnd(start, period) = start + period * (q + 1)
      BY <1>2 DEF PeriodEnd
    <2>3. d = period * q + m /\ m \in 0 .. period - 1 /\ q \in Int
      BY <2>1, DivisionWithRemainder
    <2> HIDE DEF q, m
    <2>4. q >= 0
      <3>1. CASE q <= -1
        <4>1. period * q <= -period
          BY <2>3, <3>1, ProductBounds
        <4>2. QED BY <2>1, <2>3, <4>1
      <3>2. QED BY <2>3, <3>1
    <2>5. q + 1 \in Nat /\ period * (q + 1) = period * q + period
      BY <2>3, <2>4
    <2> DEFINE e == period * (q + 1)
    <2>6. e \in Nat /\ e % period = 0
      BY <2>5, MultipleLeavesNothing
    <2>7. e > d /\ e <= d + period
      <3>1. period * q \in Int
        BY <2>3
      <3>2. QED BY <2>3, <2>5, <3>1
    <2> HIDE DEF e
    <2>8. PeriodEnd(start, period) = start + e
      BY <2>2 DEF e
    <2>9. (start + e) - start = e
      BY <2>6
    <2>10. QED BY <1>2, <2>6, <2>7, <2>8, <2>9
  <1>3. QED BY <1>1, <1>2

(* What each function does to the alarms it is called for, and to the order. *)
LEMMA SetTimerFields ==
    ASSUME clock \in Nat, NEW s \in AlarmState, NEW a \in Alarm
    PROVE  LET r == SetTimer(s, a)
           IN /\ r.queue = s.queue /\ r.end = s.end /\ r.handler = s.handler
              /\ r.start = s.start /\ r.period = s.period
  BY DEF SetTimer, AlarmState

LEMMA InsertAlarmFields ==
    ASSUME clock \in Nat, NEW s \in AlarmState, NEW a \in Alarm, NEW end \in Nat,
           a \notin ToSet(s.queue), IsInjective(s.queue), InOrder(s)
    PROVE  LET r == InsertAlarm(s, a, end)
               e == IF s.period[a] > 0 THEN PeriodEnd(s.start[a], s.period[a]) ELSE end
           IN /\ Others(s, r, a) /\ InOrder(r)
              /\ Fields(r, a) = <<TRUE, e, s.start[a], s.period[a]>> /\ e \in Nat
  <1> DEFINE e == IF s.period[a] > 0 THEN PeriodEnd(s.start[a], s.period[a]) ELSE end
             prio == [s.end EXCEPT ![a] = e]
             q == InsertByPriority(s.queue, a, prio)
             t == [s EXCEPT !.handler[a] = TRUE, !.end[a] = e, !.queue = q]
             r == InsertAlarm(s, a, end)
  <1>1. r = IF Head(q) = a THEN SetTimer(t, a) ELSE t
    BY DEF InsertAlarm
  <1>2. /\ s.queue \in Seq(Alarm) /\ s.end \in [Alarm -> Nat]
        /\ s.handler \in [Alarm -> BOOLEAN]
        /\ s.start[a] \in Nat /\ s.period[a] \in Nat
    BY DEF AlarmState
  <1>3. e \in Nat
    <2>1. CASE s.period[a] > 0
      <3>1. s.period[a] \in Nat \ {0}
        BY <1>2, <2>1
      <3>2. PeriodEnd(s.start[a], s.period[a]) \in Nat
        BY <1>2, <3>1, PeriodEndNat
      <3>3. QED BY <2>1, <3>2
    <2>2. QED BY <2>1
  <1> HIDE DEF e
  <1>4. prio \in [Alarm -> Nat] /\ \A b \in ToSet(s.queue) : prio[b] = s.end[b]
    <2>1. \A b \in ToSet(s.queue) : b \in Alarm /\ b # a
      BY <1>2, TailSet DEF ToSet
    <2>2. QED BY <1>2, <1>3, <2>1
  <1>5. Ordered(s.queue, prio)
    BY <1>2, <1>4, OrderedSame DEF InOrder
  <1>6. q \in Seq(Alarm) /\ Ordered(q, prio)
    BY <1>2, <1>4, <1>5, OrderedInsert, InsertSet
  <1>7. /\ t \in AlarmState /\ t.queue = q /\ t.end = prio
        /\ t.handler = [s.handler EXCEPT ![a] = TRUE]
        /\ t.start = s.start /\ t.period = s.period
    <2> HIDE DEF q
    <2>1. QED BY <1>2, <1>3, <1>6 DEF AlarmState
  <1> HIDE DEF t, q, r
  <1>8. /\ r.queue = q /\ r.end = prio /\ r.handler = [s.handler EXCEPT ![a] = TRUE]
        /\ r.start = s.start /\ r.period = s.period
    BY <1>1, <1>7, SetTimerFields
  <1>9. Others(s, r, a) /\ InOrder(r) /\ Fields(r, a) = <<TRUE, e, s.start[a], s.period[a]>>
    BY <1>2, <1>3, <1>6, <1>8 DEF Others, Fields, InOrder
  <1>10. QED BY <1>3, <1>9 DEF r, e

LEMMA SetOnceFields ==
    ASSUME clock \in Nat, NEW s, Sound(s), InOrder(s), NEW a \in Alarm, NEW d \in Nat, ~s.handler[a]
    PROVE  LET r == SetOnce(s, a, d)
           IN /\ Others(s, r, a) /\ InOrder(r)
              /\ Fields(r, a) = <<TRUE, clock + d, s.start[a], 0>>
  <1> DEFINE t == [s EXCEPT !.period[a] = 0]
  <1>1. s \in AlarmState /\ IsInjective(s.queue) /\ a \notin ToSet(s.queue)
    BY DEF Sound, Linked
  <1>2. /\ t \in AlarmState /\ t.queue = s.queue /\ t.end = s.end /\ t.handler = s.handler
        /\ t.start = s.start /\ t.period = [s.period EXCEPT ![a] = 0] /\ s.period \in [Alarm -> Nat]
    BY <1>1 DEF AlarmState
  <1>3. SetOnce(s, a, d) = InsertAlarm(t, a, clock + d) /\ clock + d \in Nat
    BY DEF SetOnce
  <1> HIDE DEF t
  <1>4. t.period[a] = 0 /\ \A b \in Alarm \ {a} : Fields(t, b) = Fields(s, b)
    BY <1>2 DEF Fields
  <1> DEFINE r == InsertAlarm(t, a, clock + d)
  <1>5. InOrder(t)
    BY <1>2 DEF InOrder
  <1>6. /\ Others(t, r, a) /\ InOrder(r)
        /\ Fields(r, a) = <<TRUE, IF t.period[a] > 0 THEN PeriodEnd(t.start[a], t.period[a]) ELSE clock + d,
                            t.start[a], t.period[a]>>
    BY <1>1, <1>2, <1>3, <1>5, InsertAlarmFields
  <1> HIDE DEF r
  <1>7. Others(s, r, a) /\ InOrder(r) /\ Fields(r, a) = <<TRUE, clock + d, s.start[a], 0>>
    BY <1>2, <1>4, <1>6 DEF Others
  <1>8. QED BY <1>3, <1>7 DEF r

LEMMA CancelFields ==
    ASSUME clock \in Nat, NEW s, Sound(s), InOrder(s), NEW a \in Alarm
    PROVE  LET r == Cancel(s, a)
           IN /\ Others(s, r, a) /\ InOrder(r) /\ ~r.handler[a]
              /\ ~s.handler[a] => r = s
  <1> DEFINE q == Without(s.queue, a)
             t == [Unset(s, a) EXCEPT !.queue = q]
             r == Cancel(s, a)
  <1>1. s \in AlarmState /\ IsInjective(s.queue) /\ Linked(s) /\ s.queue \in Seq(Alarm)
    BY DEF Sound, AlarmState
  <1>2. r = IF ~s.handler[a] THEN s
            ELSE IF Head(s.queue) = a /\ q # << >> THEN SetTimer(t, Head(q)) ELSE t
    BY DEF Cancel
  <1> HIDE DEF r
  <1>3. CASE ~s.handler[a]
    BY <1>2, <1>3 DEF r, Others
  <1>4. CASE s.handler[a]
    <2>1. a \in ToSet(s.queue)
      BY <1>1, <1>4 DEF Linked
    <2>2. /\ q \in Seq(Alarm) /\ a \notin ToSet(q) /\ Ordered(q, s.end)
      BY <1>1, <2>1, WithoutElements, WithoutSet, OrderedWithout DEF InOrder, AlarmState
    <2> HIDE DEF q
    <2>3. /\ t \in AlarmState /\ t.queue = q /\ t.end = [s.end EXCEPT ![a] = 0]
          /\ t.handler = [s.handler EXCEPT ![a] = FALSE]
          /\ t.start = [s.start EXCEPT ![a] = 0] /\ t.period = [s.period EXCEPT ![a] = 0]
      <3> DEFINE u == Unset(s, a)
      <3>1. /\ u \in AlarmState /\ u.end = [s.end EXCEPT ![a] = 0]
            /\ u.handler = [s.handler EXCEPT ![a] = FALSE]
            /\ u.start = [s.start EXCEPT ![a] = 0] /\ u.period = [s.period EXCEPT ![a] = 0]
        BY <1>1 DEF Unset, AlarmState
      <3> HIDE DEF u
      <3>2. QED BY <2>2, <3>1 DEF AlarmState, u
    <2> HIDE DEF t
    <2>4. /\ r.queue = q /\ r.end = t.end /\ r.handler = t.handler
          /\ r.start = t.start /\ r.period = t.period
      <3>1. CASE Head(s.queue) = a /\ q # << >>
        <4>1. Head(q) \in Alarm /\ r = SetTimer(t, Head(q))
          BY <1>2, <1>4, <2>2, <3>1, TailSet
        <4>2. QED BY <2>3, <4>1, SetTimerFields
      <3>2. QED BY <1>2, <1>4, <2>3, <3>1
    <2>5. \A b \in ToSet(q) : t.end[b] = s.end[b]
      <3>1. \A b \in ToSet(q) : b \in Alarm
        BY <2>2, LenProperties DEF ToSet
      <3>2. QED BY <1>1, <2>2, <2>3, <3>1 DEF AlarmState
    <2>6. InOrder(r)
      BY <2>2, <2>4, <2>5, OrderedSame DEF InOrder
    <2>7. Others(s, r, a) /\ ~r.handler[a]
      BY <1>1, <2>3, <2>4 DEF Others, Fields, AlarmState
    <2>8. QED BY <1>4, <2>6, <2>7 DEF r
  <1>5. QED BY <1>3, <1>4

(* The head is due first.  It rings, and leaves or comes back for its period. *)
LEMMA PopHeadFields ==
    ASSUME clock \in Nat, NEW s, Sound(s), InOrder(s), s.queue # << >>
    PROVE  LET a == Head(s.queue)
               r == PopHead(s)
           IN /\ a \in Alarm /\ s.handler[a] /\ Others(s, r, a) /\ InOrder(r)
              /\ \A b \in Alarm : s.handler[b] => s.end[a] <= s.end[b]
              /\ IF s.period[a] > 0
                 THEN /\ Fields(r, a) = <<TRUE, PeriodEnd(s.start[a], s.period[a]),
                                         s.start[a], s.period[a]>>
                      /\ s.period[a] \in Nat \ {0} /\ s.start[a] \in Nat
                 ELSE ~r.handler[a]
  <1> DEFINE a == Head(s.queue)
             t == [s EXCEPT !.queue = Tail(@)]
             r == PopHead(s)
  <1>1. /\ s \in AlarmState /\ IsInjective(s.queue) /\ Linked(s) /\ s.queue \in Seq(Alarm)
        /\ s.handler \in [Alarm -> BOOLEAN] /\ s.end \in [Alarm -> Nat]
        /\ s.start \in [Alarm -> Nat] /\ s.period \in [Alarm -> Nat]
    BY DEF Sound, AlarmState
  <1>2. /\ a \in Alarm /\ a \in ToSet(s.queue) /\ Tail(s.queue) \in Seq(Alarm)
        /\ IsInjective(Tail(s.queue)) /\ a \notin ToSet(Tail(s.queue))
        /\ Ordered(Tail(s.queue), s.end)
    BY <1>1, TailSet, OrderedTail DEF InOrder
  <1>3. ASSUME NEW b \in Alarm, s.handler[b] PROVE s.end[a] <= s.end[b]
    <2>1. b \in ToSet(s.queue)
      BY <1>1, <1>3 DEF Linked
    <2>2. PICK i \in DOMAIN s.queue : s.queue[i] = b
      BY <2>1 DEF ToSet
    <2>3. DOMAIN s.queue = 1 .. Len(s.queue) /\ Len(s.queue) \in Nat /\ a = s.queue[1]
      BY <1>1, LenProperties, HeadTailProperties
    <2>4. CASE i = 1
      BY <1>1, <1>2, <2>2, <2>3, <2>4
    <2>5. CASE i # 1
      BY <2>2, <2>3, <2>5 DEF InOrder, Ordered
    <2>6. QED BY <2>4, <2>5
  <1>4. r = IF s.period[a] > 0 THEN InsertAlarm(t, a, 0) ELSE Unset(t, a)
    BY DEF PopHead
  <1>5. /\ t \in AlarmState /\ t.queue = Tail(s.queue) /\ t.handler = s.handler
        /\ t.end = s.end /\ t.start = s.start /\ t.period = s.period
    BY <1>1, <1>2 DEF AlarmState
  <1>6. s.handler[a] /\ InOrder(t)
    BY <1>1, <1>2, <1>5 DEF Linked, InOrder
  <1> HIDE DEF a, t, r
  <1>7. CASE s.period[a] > 0
    <2> DEFINE i == InsertAlarm(t, a, 0)
    <2>1. /\ Others(t, i, a) /\ InOrder(i)
          /\ Fields(i, a) = <<TRUE, IF t.period[a] > 0 THEN PeriodEnd(t.start[a], t.period[a]) ELSE 0,
                              t.start[a], t.period[a]>>
      BY <1>2, <1>5, <1>6, InsertAlarmFields
    <2>2. r = i
      BY <1>4, <1>7
    <2> HIDE DEF i
    <2>3. Others(s, r, a) /\ InOrder(r)
          /\ Fields(r, a) = <<TRUE, PeriodEnd(s.start[a], s.period[a]), s.start[a], s.period[a]>>
      BY <1>5, <1>7, <2>1, <2>2 DEF Others, Fields
    <2>4. s.period[a] \in Nat \ {0} /\ s.start[a] \in Nat
      BY <1>1, <1>2, <1>7
    <2>5. QED BY <1>2, <1>3, <1>6, <1>7, <2>3, <2>4 DEF a, r
  <1>8. CASE ~(s.period[a] > 0)
    <2>1. /\ r.queue = t.queue /\ r.handler = [t.handler EXCEPT ![a] = FALSE]
          /\ r.end = [t.end EXCEPT ![a] = 0]
          /\ r.start = [t.start EXCEPT ![a] = 0] /\ r.period = [t.period EXCEPT ![a] = 0]
      BY <1>2, <1>4, <1>5, <1>8 DEF Unset, AlarmState
    <2>2. Others(s, r, a) /\ ~r.handler[a]
      BY <1>1, <1>2, <1>5, <2>1 DEF Others, Fields
    <2>3. \A b \in ToSet(t.queue) : r.end[b] = s.end[b]
      <3>1. \A b \in ToSet(t.queue) : b \in Alarm /\ b # a
        BY <1>2, <1>5, LenProperties DEF ToSet
      <3>2. QED BY <1>1, <1>5, <2>1, <3>1
    <2>4. InOrder(r)
      <3>1. t.queue \in Seq(Alarm) /\ Ordered(t.queue, s.end)
        BY <1>2, <1>5
      <3>2. Ordered(t.queue, r.end)
        BY <2>3, <3>1, OrderedSame
      <3>3. QED BY <2>1, <3>2 DEF InOrder
    <2>5. QED BY <1>2, <1>3, <1>6, <1>8, <2>2, <2>4 DEF a, r
  <1>9. QED BY <1>7, <1>8

LEMMA TimeHeadFields ==
    ASSUME clock \in Nat, NEW s, Sound(s)
    PROVE  /\ \A b \in Alarm : Fields(TimeHead(s), b) = Fields(s, b)
           /\ InOrder(s) => InOrder(TimeHead(s))
  <1>1. s \in AlarmState /\ s.queue \in Seq(Alarm)
    BY DEF Sound, AlarmState
  <1>2. CASE s.queue = << >>
    BY <1>2 DEF TimeHead
  <1>3. CASE s.queue # << >>
    <2>1. Head(s.queue) \in Alarm /\ TimeHead(s) = SetTimer(s, Head(s.queue))
      BY <1>1, <1>3, TailSet DEF TimeHead
    <2>2. QED BY <1>1, <2>1, SetTimerFields DEF Fields, InOrder
  <1>4. QED BY <1>2, <1>3

(* A handler leaves all as it is, or sets or cancels one alarm. *)
Sets(s, r, c) ==
    /\ Others(s, r, c) /\ ~s.handler[c] /\ r.handler[c]
    /\ r.end[c] \in Nat /\ r.end[c] > clock /\ r.period[c] = 0
Cancels(s, r, c) == Others(s, r, c) /\ s.handler[c] /\ ~r.handler[c]

LEMMA HandlerFields ==
    ASSUME clock \in Nat, NEW s, Sound(s), InOrder(s), NEW r \in HandlerOutcomes(s)
    PROVE  /\ InOrder(r)
           /\ r = s \/ \E c \in Alarm : Sets(s, r, c) \/ Cancels(s, r, c)
  <1>1. CASE r = s
    BY <1>1
  <1>2. ASSUME NEW c \in Client, ~s.handler[c], NEW d \in Delay, r = SetOnce(s, c, d)
        PROVE  InOrder(r) /\ \E b \in Alarm : Sets(s, r, b)
    <2>1. c \in Alarm /\ d \in Nat /\ d > 0
      BY AlarmAssumption DEF Client
    <2>2. /\ Others(s, r, c) /\ InOrder(r)
          /\ Fields(r, c) = <<TRUE, clock + d, s.start[c], 0>>
      BY <1>2, <2>1, SetOnceFields
    <2>3. Sets(s, r, c)
      BY <1>2, <2>1, <2>2 DEF Sets, Fields
    <2>4. QED BY <2>1, <2>2, <2>3
  <1>3. ASSUME NEW c \in Client, r = Cancel(s, c)
        PROVE  InOrder(r) /\ (r = s \/ \E b \in Alarm : Cancels(s, r, b))
    <2>1. c \in Alarm
      BY DEF Client
    <2>2. Others(s, r, c) /\ InOrder(r) /\ ~r.handler[c] /\ (~s.handler[c] => r = s)
      BY <1>3, <2>1, CancelFields
    <2>3. QED BY <2>1, <2>2 DEF Cancels
  <1>4. QED BY <1>1, <1>2, <1>3 DEF HandlerOutcomes

-----------------------------------------------------------------------------
(***************************************************************************)
(* The list is in order of the ends, and a pending periodic alarm is on    *)
(* the grid of its period.                                                 *)
(***************************************************************************)
ClockInv == ~down => InOrder(alarms) /\ Grid(alarms)

ClockStep == AbstractClock!ClockNext \/ AbstractClock!Silence \/ UNCHANGED AbstractClock!clockVars

(* One alarm is set. *)
LEMMA SetStep ==
    ASSUME NEW c \in Alarm, Others(alarms, alarms', c), ~alarms.handler[c], alarms'.handler[c],
           alarms'.end[c] \in Nat, OnGrid(alarms', c), clock' = clock
    PROVE  ClockStep /\ (Grid(alarms) => Grid(alarms'))
  <1>1. \A b \in Alarm \ {c} : alarms'.handler[b] = alarms.handler[b] /\ alarms'.end[b] = alarms.end[b]
        /\ (OnGrid(alarms', b) <=> OnGrid(alarms, b))
    BY DEF Others, Fields, OnGrid
  <1>2. Grid(alarms) => Grid(alarms')
    BY <1>1 DEF Grid
  <1>3. AbstractClock!ClockNext
    <2>1. AbstractClock!Set(c) /\ AbstractClock!Keeps({c})
      BY <1>1 DEF AbstractClock!Set, AbstractClock!Keeps
    <2>2. QED BY <2>1 DEF AbstractClock!ClockNext
  <1>4. QED BY <1>2, <1>3 DEF ClockStep

(* One alarm is cancelled. *)
LEMMA CancelStep ==
    ASSUME NEW c \in Alarm, Cancels(alarms, alarms', c), alarms.end[c] \in Nat, clock' = clock
    PROVE  ClockStep /\ (Grid(alarms) => Grid(alarms'))
  <1>1. \A b \in Alarm \ {c} : alarms'.handler[b] = alarms.handler[b] /\ alarms'.end[b] = alarms.end[b]
        /\ (OnGrid(alarms', b) <=> OnGrid(alarms, b))
    BY DEF Cancels, Others, Fields, OnGrid
  <1>2. Grid(alarms) => Grid(alarms')
    BY <1>1 DEF Grid, Cancels
  <1>3. AbstractClock!ClockNext
    <2>1. AbstractClock!Cancel(c) /\ AbstractClock!Keeps({c})
      BY <1>1, AlarmAssumption DEF AbstractClock!Cancel, AbstractClock!Keeps, Cancels
    <2>2. QED BY <2>1 DEF AbstractClock!ClockNext
  <1>4. QED BY <1>2, <1>3 DEF ClockStep

(* Nothing happens to any alarm. *)
LEMMA StillStep ==
    ASSUME clock' = clock, \A b \in Alarm : Fields(alarms', b) = Fields(alarms, b)
    PROVE  ClockStep /\ (Grid(alarms) => Grid(alarms'))
  <1>1. \A b \in Alarm : alarms'.handler[b] = alarms.handler[b] /\ alarms'.end[b] = alarms.end[b]
        /\ (OnGrid(alarms', b) <=> OnGrid(alarms, b))
    BY DEF Fields, OnGrid
  <1>2. UNCHANGED AbstractClock!clockVars
    BY <1>1 DEF AbstractClock!clockVars
  <1>3. QED BY <1>1, <1>2 DEF ClockStep, Grid

(* a leaves the list, or enters it again for its next period. *)
Pops(s, p, a) ==
    /\ Others(s, p, a)
    /\ IF s.period[a] > 0
       THEN /\ Fields(p, a) = <<TRUE, PeriodEnd(s.start[a], s.period[a]), s.start[a], s.period[a]>>
            /\ s.period[a] \in Nat \ {0} /\ s.start[a] \in Nat
       ELSE ~p.handler[a]

(* The next end is on the grid, and to come but for a start that is this   *)
(* very moment.                                                            *)
NextEnd(s, p, a) ==
    /\ p.end[a] \in Nat
    /\ \/ p.end[a] > clock /\ (p.period[a] > 0 => p.end[a] <= clock + p.period[a])
       \/ /\ p.end[a] = clock /\ s.end[a] = clock
          /\ p.period[a] > 0 /\ p.start[a] = clock

LEMMA PopGrid ==
    ASSUME clock \in Nat, NEW s, NEW p, NEW a \in Alarm, Pops(s, p, a), Grid(s), s.handler[a],
           s.end[a] \in Nat, s.end[a] <= clock
    PROVE  Grid(p) /\ (p.handler[a] => NextEnd(s, p, a))
  <1>1. \A b \in Alarm \ {a} : p.handler[b] = s.handler[b] /\ p.end[b] = s.end[b]
        /\ (OnGrid(p, b) <=> OnGrid(s, b))
    BY DEF Pops, Others, Fields, OnGrid
  <1>2. CASE ~(s.period[a] > 0)
    BY <1>1, <1>2 DEF Pops, Grid
  <1>3. CASE s.period[a] > 0
    <2> DEFINE e == PeriodEnd(s.start[a], s.period[a])
    <2>1. /\ p.handler[a] /\ p.end[a] = e /\ p.start[a] = s.start[a] /\ p.period[a] = s.period[a]
          /\ s.period[a] \in Nat \ {0} /\ s.start[a] \in Nat
      BY <1>3 DEF Pops, Fields
    <2>2. /\ e \in Nat /\ e >= s.start[a] /\ (e - s.start[a]) % s.period[a] = 0 /\ e >= clock
          /\ s.start[a] < clock => e > clock /\ e <= clock + s.period[a]
          /\ s.start[a] >= clock => e = s.start[a]
      BY <2>1, PeriodEndGrid
    <2> HIDE DEF e
    <2>3. OnGrid(p, a)
      BY <2>1, <2>2 DEF OnGrid
    <2>4. s.end[a] >= s.start[a]
      BY <1>3 DEF Grid, OnGrid
    <2>5. NextEnd(s, p, a)
      BY <2>1, <2>2, <2>4 DEF NextEnd
    <2>6. QED BY <1>1, <2>3, <2>5 DEF Grid
  <1>4. QED BY <1>2, <1>3

(* The head rings, and its handler may set or cancel an alarm. *)
LEMMA RingStep ==
    ASSUME clock \in Nat, clock' = clock, Sound(alarms), Grid(alarms),
           NEW a \in Alarm, alarms.handler[a], alarms.end[a] <= clock,
           \A b \in Alarm : alarms.handler[b] => alarms.end[a] <= alarms.end[b],
           NEW p, Pops(alarms, p, a),
           \/ \A b \in Alarm : Fields(alarms', b) = Fields(p, b)
           \/ \E c \in Alarm : Sets(p, alarms', c) \/ Cancels(p, alarms', c)
    PROVE  ClockStep /\ Grid(alarms')
  <1>1. alarms.end \in [Alarm -> Nat] /\ alarms.handler \in [Alarm -> BOOLEAN]
    BY DEF Sound, AlarmState
  <1>2. Grid(p) /\ (p.handler[a] => NextEnd(alarms, p, a))
    BY <1>1, PopGrid
  <1>3. \A b \in Alarm \ {a} : p.handler[b] = alarms.handler[b] /\ p.end[b] = alarms.end[b]
    BY DEF Pops, Others, Fields
  <1> DEFINE D(s) == [b \in Alarm |-> IF s.handler[b] THEN s.end[b] ELSE NotPending]
             Rung(q) == /\ \A b \in Alarm \ {a} : D(alarms')[b] = D(alarms)[b] \/ b = q
                        /\ \/ D(alarms')[a] = NotPending
                           \/ D(alarms')[a] \in Nat /\ D(alarms')[a] > clock
                           \/ D(alarms')[a] = clock /\ alarms.end[a] = clock
                        /\ \/ q = a
                           \/ alarms.handler[q] /\ ~alarms'.handler[q]
                           \/ ~alarms.handler[q] /\ alarms'.handler[q] /\ alarms'.end[q] \in Nat
  <1>4. ASSUME NEW q \in Alarm, Rung(q) PROVE ClockStep
    <2>1. AbstractClock!Ring(a)
      BY <1>1, <1>4, AlarmAssumption DEF AbstractClock!Ring, AbstractClock!Pending
    <2>2. q = a \/ AbstractClock!Set(q) \/ AbstractClock!Cancel(q)
      BY <1>1, <1>4, AlarmAssumption DEF AbstractClock!Set, AbstractClock!Cancel
    <2>3. AbstractClock!Keeps({a, q})
      BY <1>4 DEF AbstractClock!Keeps
    <2>4. QED BY <2>1, <2>2, <2>3 DEF ClockStep, AbstractClock!ClockNext
  <1> HIDE DEF D
  <1>5. CASE \A b \in Alarm : Fields(alarms', b) = Fields(p, b)
    <2>1. \A b \in Alarm : alarms'.handler[b] = p.handler[b] /\ alarms'.end[b] = p.end[b]
          /\ (OnGrid(alarms', b) <=> OnGrid(p, b))
      BY <1>5 DEF Fields, OnGrid
    <2>2. Rung(a)
      BY <1>2, <1>3, <2>1 DEF D, NextEnd
    <2>3. QED BY <1>2, <1>4, <2>1, <2>2 DEF Grid
  <1>6. ASSUME NEW c \in Alarm, Sets(p, alarms', c)
        PROVE  ClockStep /\ Grid(alarms')
    <2>1. /\ \A b \in Alarm \ {c} : /\ alarms'.handler[b] = p.handler[b] /\ alarms'.end[b] = p.end[b]
                                    /\ OnGrid(alarms', b) <=> OnGrid(p, b)
          /\ ~p.handler[c] /\ alarms'.handler[c] /\ alarms'.end[c] \in Nat /\ alarms'.end[c] > clock
          /\ OnGrid(alarms', c)
      BY <1>6 DEF Sets, Others, Fields, OnGrid
    <2>2. Rung(c)
      BY <1>1, <1>2, <1>3, <2>1 DEF D, NextEnd
    <2>3. Grid(alarms')
      BY <1>2, <1>3, <2>1 DEF Grid
    <2>4. QED BY <1>4, <2>2, <2>3
  <1>7. ASSUME NEW c \in Alarm, Cancels(p, alarms', c)
        PROVE  ClockStep /\ Grid(alarms')
    <2>1. /\ \A b \in Alarm \ {c} : /\ alarms'.handler[b] = p.handler[b] /\ alarms'.end[b] = p.end[b]
                                    /\ OnGrid(alarms', b) <=> OnGrid(p, b)
          /\ p.handler[c] /\ ~alarms'.handler[c]
      BY <1>7 DEF Cancels, Others, Fields, OnGrid
    <2>2. Rung(c)
      BY <1>1, <1>2, <1>3, <2>1 DEF D, NextEnd
    <2>3. Grid(alarms')
      BY <1>2, <1>3, <2>1 DEF Grid
    <2>4. QED BY <1>4, <2>2, <2>3
  <1>8. QED BY <1>5, <1>6, <1>7

(***************************************************************************)
(* Each step keeps the order and the grid, and is a step of the clock.     *)
(***************************************************************************)
ClockGoal ==
    /\ InOrder(alarms)' \/ down'
    /\ Grid(alarms)'
    /\ ClockStep

(* The decrementer is set, and not for a time past. *)
Ahead(s) == s.dec # NoDec /\ s.dec >= clock

LEMMA SetTimerAhead ==
    ASSUME clock \in Nat, NEW s \in AlarmState, NEW a \in Alarm
    PROVE  Ahead(SetTimer(s, a))
  <1> DEFINE d == IF s.end[a] < clock THEN clock
                  ELSE IF s.end[a] - clock <= MaxDec THEN s.end[a]
                  ELSE clock + MaxDec
  <1>1. s.end[a] \in Nat
    BY DEF AlarmState
  <1>2. SetTimer(s, a).dec = d
    BY DEF SetTimer, AlarmState
  <1>3. d \in Nat /\ d >= clock
    BY <1>1, AlarmAssumption
  <1> HIDE DEF d
  <1>4. QED BY <1>2, <1>3, AlarmAssumption DEF Ahead

(* A handler leaves the decrementer set, or sets it again. *)
LEMMA HandlerAhead ==
    ASSUME clock \in Nat, NEW s, Sound(s), Ahead(s), NEW r \in HandlerOutcomes(s)
    PROVE  Ahead(r)
  <1>1. s \in AlarmState
    BY DEF Sound
  <1>2. ASSUME NEW c \in Client, ~s.handler[c], NEW d \in Delay, r = SetOnce(s, c, d)
        PROVE  Ahead(r)
    <2> DEFINE o == [s EXCEPT !.period[c] = 0]
               e == IF o.period[c] > 0 THEN PeriodEnd(o.start[c], o.period[c]) ELSE clock + d
               q == InsertByPriority(o.queue, c, [o.end EXCEPT ![c] = e])
               t == [o EXCEPT !.handler[c] = TRUE, !.end[c] = e, !.queue = q]
    <2>1. c \in Alarm /\ d \in Nat
      BY <1>2, AlarmAssumption DEF Client
    <2>2. r = IF Head(q) = c THEN SetTimer(t, c) ELSE t
      BY <1>2 DEF SetOnce, InsertAlarm
    <2>3. o \in AlarmState /\ o.dec = s.dec /\ o.period[c] = 0
      BY <1>1, <2>1 DEF AlarmState
    <2> HIDE DEF o
    <2>4. e = clock + d /\ e \in Nat
      BY <2>1, <2>3
    <2> HIDE DEF e
    <2>5. /\ o.queue \in Seq(Alarm) /\ [o.end EXCEPT ![c] = e] \in [Alarm -> Nat]
          /\ c \notin ToSet(o.queue) /\ IsInjective(o.queue)
      <3>1. o.queue = s.queue
        BY <1>1 DEF o, AlarmState
      <3>2. QED BY <1>2, <2>1, <2>3, <2>4, <3>1 DEF Sound, Linked, AlarmState
    <2>6. q \in Seq(Alarm)
      BY <2>1, <2>5, InsertSet
    <2> HIDE DEF q
    <2>7. t \in AlarmState /\ t.dec = s.dec
      BY <2>1, <2>3, <2>4, <2>6 DEF AlarmState
    <2> HIDE DEF t
    <2>8. QED BY <2>1, <2>2, <2>7, SetTimerAhead DEF Ahead
  <1>3. ASSUME NEW c \in Client, r = Cancel(s, c)
        PROVE  Ahead(r)
    <2> DEFINE q == Without(s.queue, c)
               u == Unset(s, c)
               t == [u EXCEPT !.queue = q]
    <2>1. c \in Alarm /\ s.queue \in Seq(Alarm)
      BY <1>1 DEF Client, AlarmState
    <2>2. r = IF ~s.handler[c] THEN s
              ELSE IF Head(s.queue) = c /\ q # << >> THEN SetTimer(t, Head(q)) ELSE t
      BY <1>3 DEF Cancel
    <2>3. s.handler[c] => q \in Seq(Alarm) /\ (q # << >> => Head(q) \in Alarm)
      <3>1. s.handler[c] => c \in ToSet(s.queue)
        BY <2>1 DEF Sound, Linked
      <3>2. QED BY <2>1, <3>1, WithoutElements, TailSet
    <2> HIDE DEF q
    <2>4. u \in AlarmState /\ u.dec = s.dec
      BY <1>1, <2>1 DEF Unset, AlarmState
    <2> HIDE DEF u
    <2>5. s.handler[c] => t \in AlarmState /\ t.dec = s.dec
      BY <2>3, <2>4 DEF AlarmState
    <2> HIDE DEF t
    <2>6. QED BY <2>2, <2>3, <2>5, SetTimerAhead DEF Ahead
  <1>4. QED BY <1>2, <1>3 DEF HandlerOutcomes

(* What the exception does to the head when it is due. *)
LEMMA ExceptionRings ==
    ASSUME AlarmInv, ClockInv, ~down, NEW a, Rings(a)
    PROVE  /\ a \in Alarm /\ alarms.handler[a] /\ alarms.end[a] <= clock
           /\ \A b \in Alarm : alarms.handler[b] => alarms.end[a] <= alarms.end[b]
           /\ clock' = clock /\ InOrder(alarms')
           /\ \E p : /\ Pops(alarms, p, a)
                     /\ \/ \A b \in Alarm : Fields(alarms', b) = Fields(p, b)
                        \/ \E c \in Alarm : Sets(p, alarms', c) \/ Cancels(p, alarms', c)
                     /\ p.handler[a] => Ahead(alarms')
  <1> DEFINE s == [alarms EXCEPT !.dec = NoDec]
             p == PopHead(s)
             t == TimeHead(p)
  <1>1. clock \in Nat /\ Sound(alarms) /\ InOrder(alarms) /\ alarms \in AlarmState
    BY DEF AlarmInv, ClockInv, Sound
  <1>2. /\ s \in AlarmState /\ s.queue = alarms.queue /\ s.end = alarms.end
        /\ s.handler = alarms.handler /\ s.start = alarms.start /\ s.period = alarms.period
    BY <1>1 DEF AlarmState
  <1>3. /\ alarms.queue # << >> /\ a = Head(alarms.queue) /\ a \in Alarm
        /\ alarms.end[a] \in Nat /\ ~(clock < alarms.end[a])
    <2>1. alarms.queue # << >> /\ a = Head(alarms.queue) /\ clock >= alarms.end[a]
      BY DEF Rings
    <2>2. alarms.queue \in Seq(Alarm) /\ alarms.end \in [Alarm -> Nat]
      BY <1>1 DEF AlarmState
    <2>3. a \in Alarm
      BY <2>1, <2>2, TailSet
    <2>4. QED BY <1>1, <2>1, <2>2, <2>3
  <1>4. clock' = clock /\ alarms' \in HandlerOutcomes(t)
    <2>1. clock' = clock
          /\ (s.queue # << >> /\ ~(clock < s.end[Head(s.queue)]) => alarms' \in HandlerOutcomes(t))
      BY DEF Rings, DecrementerException, HandlerOutcomes
    <2> HIDE DEF s, t
    <2>2. QED BY <1>2, <1>3, <2>1
  <1> HIDE DEF s
  <1>5. Sound(s) /\ InOrder(s) /\ \A b \in Alarm : Fields(s, b) = Fields(alarms, b)
    BY <1>1, <1>2 DEF Sound, Linked, InOrder, Fields
  <1>6. /\ s.handler[a] /\ Pops(s, p, a) /\ InOrder(p)
        /\ \A b \in Alarm : s.handler[b] => s.end[a] <= s.end[b]
    BY <1>1, <1>2, <1>3, <1>5, PopHeadFields DEF Pops
  <1>7. Sound(p)
    BY <1>1, <1>2, <1>3, <1>5, PopHeadSound
  <1>8. Sound(t) /\ InOrder(t) /\ \A b \in Alarm : Fields(t, b) = Fields(p, b)
    BY <1>1, <1>6, <1>7, TimeHeadSound, TimeHeadFields
  <1>9. p.handler[a] => Ahead(t)
    <2>1. ASSUME p.handler[a] PROVE p.queue # << >> /\ Head(p.queue) \in Alarm /\ p \in AlarmState
      <3>1. a \in ToSet(p.queue) /\ p.queue \in Seq(Alarm) /\ p \in AlarmState
        BY <1>3, <1>7, <2>1 DEF Sound, Linked, AlarmState
      <3>2. p.queue # << >>
        BY <3>1, LenProperties DEF ToSet
      <3>3. QED BY <3>1, <3>2, TailSet
    <2> HIDE DEF p
    <2>2. QED BY <1>1, <2>1, SetTimerAhead DEF TimeHead
  <1> HIDE DEF t, p
  <1>10. Pops(alarms, p, a)
    BY <1>2, <1>5, <1>6 DEF Pops, Others
  <1>11. InOrder(alarms')
         /\ (alarms' = t \/ \E c \in Alarm : Sets(t, alarms', c) \/ Cancels(t, alarms', c))
    BY <1>1, <1>4, <1>8, HandlerFields
  <1>12. \/ \A b \in Alarm : Fields(alarms', b) = Fields(p, b)
         \/ \E c \in Alarm : Sets(p, alarms', c) \/ Cancels(p, alarms', c)
    <2>1. \A b \in Alarm : t.handler[b] = p.handler[b]
      BY <1>8 DEF Fields
    <2>2. QED BY <1>8, <1>11, <2>1 DEF Sets, Cancels, Others
  <1>13. p.handler[a] => Ahead(alarms')
    BY <1>1, <1>4, <1>8, <1>9, HandlerAhead
  <1>14. alarms.end[a] <= clock
    BY <1>1, <1>3
  <1>15. QED BY <1>2, <1>3, <1>4, <1>6, <1>10, <1>11, <1>12, <1>13, <1>14

(* DecrementerExceptionCallback, whether it comes too early, in time or late. *)
LEMMA ExceptionStep ==
    ASSUME AlarmInv, ClockInv, ~down, DecrementerException
    PROVE  ClockGoal
  <1> DEFINE s == [alarms EXCEPT !.dec = NoDec]
             a == Head(s.queue)
  <1>1. clock \in Nat /\ Sound(alarms) /\ InOrder(alarms) /\ Grid(alarms) /\ alarms \in AlarmState
    BY DEF AlarmInv, ClockInv, Sound
  <1>2. /\ s \in AlarmState /\ s.queue = alarms.queue /\ s.end = alarms.end
        /\ s.handler = alarms.handler /\ s.start = alarms.start /\ s.period = alarms.period
    BY <1>1 DEF AlarmState
  <1>3. /\ clock' = clock
        /\ s.queue = << >> => alarms' = s
        /\ s.queue # << >> /\ clock < s.end[a] => alarms' = SetTimer(s, a)
    BY DEF DecrementerException
  <1> HIDE DEF s
  <1>4. Sound(s) /\ InOrder(s)
    BY <1>1, <1>2 DEF Sound, Linked, InOrder
  <1>5. \A b \in Alarm : Fields(s, b) = Fields(alarms, b)
    BY <1>2 DEF Fields
  <1>6. CASE s.queue = << >> \/ clock < s.end[a]
    <2>1. (\A b \in Alarm : Fields(alarms', b) = Fields(s, b)) /\ InOrder(alarms')
      <3>1. CASE s.queue = << >>
        BY <1>3, <1>4, <3>1
      <3>2. CASE s.queue # << >> /\ clock < s.end[a]
        <4>1. alarms' = SetTimer(s, a) /\ a \in Alarm
          <5>1. s.queue \in Seq(Alarm)
            BY <1>2 DEF AlarmState
          <5>2. QED BY <1>3, <3>2, <5>1, TailSet
        <4>2. QED BY <1>1, <1>2, <1>4, <4>1, SetTimerFields DEF Fields, InOrder
      <3>3. QED BY <1>6, <3>1, <3>2
    <2>2. ClockStep /\ Grid(alarms')
      BY <1>1, <1>3, <1>5, <2>1, StillStep
    <2>3. QED BY <2>1, <2>2 DEF ClockGoal
  <1>7. CASE s.queue # << >> /\ ~(clock < s.end[a])
    <2>1. alarms.end[a] \in Nat
      <3>1. s.queue \in Seq(Alarm)
        BY <1>2 DEF AlarmState
      <3>2. a \in Alarm
        BY <1>7, <3>1, TailSet
      <3>3. QED BY <1>1, <3>2 DEF AlarmState
    <2>2. Rings(a)
      BY <1>1, <1>2, <1>7, <2>1 DEF Rings
    <2> HIDE DEF a
    <2>3. /\ a \in Alarm /\ alarms.handler[a] /\ alarms.end[a] <= clock
          /\ \A b \in Alarm : alarms.handler[b] => alarms.end[a] <= alarms.end[b]
          /\ InOrder(alarms')
      BY <2>2, ExceptionRings
    <2>4. PICK p : /\ Pops(alarms, p, a)
                   /\ \/ \A b \in Alarm : Fields(alarms', b) = Fields(p, b)
                      \/ \E c \in Alarm : Sets(p, alarms', c) \/ Cancels(p, alarms', c)
      BY <2>2, ExceptionRings
    <2>5. ClockStep /\ Grid(alarms')
      BY <1>1, <1>3, <2>3, <2>4, RingStep
    <2>6. QED BY <2>3, <2>5 DEF ClockGoal
  <1>8. QED BY <1>6, <1>7

(* An alarm pending after it rang: set by its handler, or periodic. *)
LEMMA RungAgain ==
    ASSUME AlarmInv, ClockInv, ~down, NEW a \in Alarm, Rings(a), alarms'.handler[a]
    PROVE  ToCome(a) \/ StartAgain(a)
  <1>1. clock \in Nat /\ Grid(alarms) /\ alarms.end[a] \in Nat
    BY DEF AlarmInv, ClockInv, Sound, AlarmState
  <1>2. alarms.handler[a] /\ alarms.end[a] <= clock
    BY ExceptionRings
  <1>3. PICK p : /\ Pops(alarms, p, a)
                 /\ \/ \A b \in Alarm : Fields(alarms', b) = Fields(p, b)
                    \/ \E c \in Alarm : Sets(p, alarms', c) \/ Cancels(p, alarms', c)
                 /\ p.handler[a] => Ahead(alarms')
    BY ExceptionRings
  <1>4. p.handler[a] => NextEnd(alarms, p, a)
    BY <1>1, <1>2, <1>3, PopGrid
  <1>5. CASE p.handler[a]
    <2>1. Fields(alarms', a) = Fields(p, a)
      BY <1>3, <1>5 DEF Sets, Cancels, Others
    <2>2. alarms'.end[a] = p.end[a] /\ alarms'.start[a] = p.start[a] /\ alarms'.period[a] = p.period[a]
      BY <2>1 DEF Fields
    <2>3. NextEnd(alarms, p, a) /\ Ahead(alarms')
      BY <1>3, <1>4, <1>5
    <2>4. QED BY <1>1, <2>2, <2>3 DEF NextEnd, Ahead, ToCome, StartAgain
  <1>6. CASE ~p.handler[a]
    <2>1. alarms'.end[a] > clock /\ alarms'.period[a] = 0
      BY <1>3, <1>6 DEF Sets, Cancels, Others, Fields
    <2>2. QED BY <2>1 DEF ToCome
  <1>7. QED BY <1>5, <1>6

(* The last pass of a shutdown. *)
LEMMA ResetStep ==
    ASSUME AlarmInv, ClockInv, ~down, OnReset
    PROVE  ClockGoal
  <1> DEFINE kept == SelectSeq(alarms.queue, LAMBDA a : a \in DvdAlarm)
             timed == IF kept = << >> THEN Last(alarms.queue) ELSE Head(kept)
             h == [a \in Alarm |-> alarms.handler[a] /\ a \in DvdAlarm]
             s == [alarms EXCEPT !.queue = kept, !.handler = h]
  <1>1. alarms' \in {s, SetTimer(s, timed)} /\ down' /\ clock' = clock
    BY DEF OnReset
  <1>2. alarms \in AlarmState
    BY DEF AlarmInv, Sound
  <1> HIDE DEF kept, timed, h
  <1>3. /\ alarms'.handler = h /\ alarms'.end = alarms.end
        /\ alarms'.start = alarms.start /\ alarms'.period = alarms.period
    BY <1>1, <1>2 DEF AlarmState, SetTimer
  <1>4. Grid(alarms')
    BY <1>3 DEF ClockInv, Grid, OnGrid, h
  <1>5. AbstractClock!Silence
    BY <1>1, <1>3 DEF AbstractClock!Silence, h
  <1>6. QED BY <1>1, <1>4, <1>5 DEF ClockGoal, ClockStep

LEMMA AlarmStepClock ==
    ASSUME AlarmInv, ClockInv, ~down, AlarmStep
    PROVE  ClockGoal
  <1>1. /\ clock \in Nat /\ Sound(alarms) /\ InOrder(alarms) /\ Grid(alarms) /\ alarms \in AlarmState
        /\ alarms.end \in [Alarm -> Nat]
    BY DEF AlarmInv, ClockInv, Sound, AlarmState
  <1>2. ASSUME NEW a \in Alarm, NEW d \in Delay, ~alarms.handler[a], alarms' = SetOnce(alarms, a, d),
               clock' = clock
        PROVE  ClockGoal
    <2>1. d \in Nat
      BY AlarmAssumption
    <2>2. /\ Others(alarms, alarms', a) /\ InOrder(alarms')
          /\ Fields(alarms', a) = <<TRUE, clock + d, alarms.start[a], 0>>
      BY <1>1, <1>2, <2>1, SetOnceFields
    <2>3. alarms'.handler[a] /\ alarms'.end[a] \in Nat /\ OnGrid(alarms', a)
      BY <1>1, <2>1, <2>2 DEF Fields, OnGrid
    <2>4. ClockStep /\ Grid(alarms')
      BY <1>1, <1>2, <2>2, <2>3, SetStep
    <2>5. QED BY <2>2, <2>4 DEF ClockGoal
  <1>3. ASSUME NEW a \in Alarm, alarms' = Cancel(alarms, a), clock' = clock
        PROVE  ClockGoal
    <2>1. /\ Others(alarms, alarms', a) /\ InOrder(alarms') /\ ~alarms'.handler[a]
          /\ ~alarms.handler[a] => alarms' = alarms
      BY <1>1, <1>3, CancelFields
    <2>2. ClockStep /\ Grid(alarms')
      <3>1. CASE alarms.handler[a]
        <4>1. Cancels(alarms, alarms', a) /\ alarms.end[a] \in Nat
          BY <1>1, <2>1, <3>1 DEF Cancels
        <4>2. QED BY <1>1, <1>3, <4>1, CancelStep
      <3>2. CASE ~alarms.handler[a]
        BY <1>1, <1>3, <2>1, <3>2, StillStep
      <3>3. QED BY <3>1, <3>2
    <2>3. QED BY <2>1, <2>2 DEF ClockGoal
  <1>4. ASSUME NEW a \in Client, NEW d \in Delay, NEW b \in Start, OSSetPeriodicAlarm(a, b, d)
        PROVE  ClockGoal
    <2> DEFINE s == [alarms EXCEPT !.start[a] = b, !.period[a] = d]
    <2>1. a \in Alarm /\ d \in Nat \ {0} /\ b \in Nat /\ ~alarms.handler[a] /\ clock' = clock
      BY <1>4, AlarmAssumption DEF Client, OSSetPeriodicAlarm
    <2>2. /\ s \in AlarmState /\ s.queue = alarms.queue /\ s.end = alarms.end
          /\ s.handler = alarms.handler
          /\ s.start = [alarms.start EXCEPT ![a] = b] /\ s.period = [alarms.period EXCEPT ![a] = d]
          /\ s.start[a] = b /\ s.period[a] = d
      BY <1>1, <2>1 DEF AlarmState
    <2> HIDE DEF s
    <2>3. a \notin ToSet(s.queue) /\ IsInjective(s.queue) /\ InOrder(s)
      BY <1>1, <2>1, <2>2 DEF Sound, Linked, InOrder
    <2>4. alarms' = InsertAlarm(s, a, 0)
      BY <1>4 DEF OSSetPeriodicAlarm, s
    <2> DEFINE e == PeriodEnd(b, d)
    <2>5. e \in Nat /\ e >= b /\ (e - b) % d = 0
      BY <1>1, <2>1, PeriodEndGrid
    <2>6. /\ Others(s, alarms', a) /\ InOrder(alarms') /\ Fields(alarms', a) = <<TRUE, e, b, d>>
      <3> DEFINE i == InsertAlarm(s, a, 0)
      <3>1. /\ Others(s, i, a) /\ InOrder(i)
            /\ Fields(i, a) = <<TRUE, IF s.period[a] > 0 THEN PeriodEnd(s.start[a], s.period[a]) ELSE 0,
                                s.start[a], s.period[a]>>
        BY <1>1, <2>1, <2>2, <2>3, InsertAlarmFields
      <3>2. alarms' = i
        BY <2>4
      <3> HIDE DEF i
      <3>3. s.period[a] > 0 /\ s.period[a] = d /\ s.start[a] = b
        BY <2>1, <2>2
      <3>4. Fields(i, a) = <<TRUE, PeriodEnd(s.start[a], s.period[a]), s.start[a], s.period[a]>>
        BY <3>1, <3>3
      <3>5. Fields(i, a) = <<TRUE, e, b, d>>
        BY <3>3, <3>4
      <3>6. QED BY <3>1, <3>2, <3>5
    <2> HIDE DEF e
    <2>7. Others(alarms, alarms', a)
      BY <2>2, <2>6 DEF Others, Fields
    <2>8. alarms'.handler[a] /\ alarms'.end[a] \in Nat /\ OnGrid(alarms', a)
      BY <2>5, <2>6 DEF Fields, OnGrid
    <2>9. ClockStep /\ Grid(alarms')
      BY <1>1, <2>1, <2>7, <2>8, SetStep
    <2>10. QED BY <2>6, <2>9 DEF ClockGoal
  <1>5. ASSUME NEW a \in Sleeper, NEW d \in Delay, OSSleepTicks(a, d)
        PROVE  ClockGoal
    <2>1. a \in Alarm /\ ~alarms.handler[a]
      BY <1>1, <1>5, AlarmAssumption DEF OSSleepTicks, AlarmInv, SleepersHaveAlarms, Sound, Linked
    <2>2. QED BY <1>2, <1>5, <2>1 DEF OSSleepTicks
  <1>6. ASSUME NEW a \in Sleeper, ResumeEarly(a)
        PROVE  ClockGoal
    <2>1. alarms' = alarms /\ clock' = clock
      BY <1>6 DEF ResumeEarly
    <2>2. ClockStep /\ Grid(alarms')
      BY <1>1, <2>1, StillStep
    <2>3. QED BY <1>1, <2>1, <2>2 DEF ClockGoal
  <1>7. CASE AlarmTick
    <2>1. alarms' = alarms /\ clock' = clock + 1
      BY <1>7 DEF AlarmTick
    <2>2. AbstractClock!ClockNext
      BY <2>1 DEF AbstractClock!ClockNext, AbstractClock!Pass
    <2>3. QED BY <1>1, <2>1, <2>2 DEF ClockGoal, ClockStep
  <1>8. CASE DecrementerException
    BY <1>8, ExceptionStep
  <1>9. ASSUME NEW a \in Client, NEW d \in Delay, OSSetAlarm(a, d)
        PROVE  ClockGoal
    BY <1>2, <1>9 DEF OSSetAlarm, Client
  <1>10. ASSUME NEW a \in Client, OSCancelAlarm(a)
         PROVE  ClockGoal
    BY <1>3, <1>10 DEF OSCancelAlarm, Client
  <1>11. ASSUME NEW a \in Sleeper, WakeUp(a)
         PROVE  ClockGoal
    BY <1>3, <1>11, AlarmAssumption DEF WakeUp
  <1>12. QED BY <1>4, <1>5, <1>6, <1>7, <1>8, <1>9, <1>10, <1>11 DEF AlarmStep

LEMMA ClockGoalReached ==
    ASSUME AlarmInv, ClockInv, [AlarmNext]_alarmVars
    PROVE  UNCHANGED alarmVars \/ ClockGoal
  BY AlarmStepClock, ResetStep DEF AlarmNext

LEMMA ClockInvNext ==
    ASSUME AlarmInv, ClockInv, [AlarmNext]_alarmVars
    PROVE  ClockInv'
  <1>1. CASE UNCHANGED alarmVars
    BY <1>1 DEF alarmVars, ClockInv, InOrder, Grid, OnGrid
  <1>2. CASE ClockGoal
    BY <1>2 DEF ClockGoal, ClockInv
  <1>3. QED BY <1>1, <1>2, ClockGoalReached

LEMMA ClockInvInit == AlarmInit => ClockInv
  <1> SUFFICES ASSUME AlarmInit PROVE ClockInv
    OBVIOUS
  <1>1. alarms.queue = << >> /\ \A a \in Alarm : ~alarms.handler[a]
    BY DEF AlarmInit
  <1>2. InOrder(alarms)
    BY <1>1 DEF InOrder, Ordered
  <1>3. QED BY <1>1, <1>2 DEF ClockInv, Grid

LEMMA ClockInvariant == AlarmSpec => []ClockInv
  <1>1. AlarmInv /\ ClockInv /\ [AlarmNext]_alarmVars => ClockInv'
    BY ClockInvNext
  <1>2. QED BY <1>1, ClockInvInit, AlarmsSound, PTL DEF AlarmSpec

(* An alarm pending again after it rang is due at the next end of its      *)
(* period, which is to come however late DecrementerExceptionCallback      *)
(* runs; only a start that is this very moment rings once more.  And a     *)
(* periodic alarm stays on the grid of its start and period.               *)
THEOREM AlarmsOnGrid == AlarmSpec => RingsOnGrid
  <1> DEFINE Step == \A a \in Alarm :
                 /\ Rings(a) /\ alarms'.handler[a] => ToCome(a) \/ StartAgain(a)
                 /\ alarms'.handler[a] /\ alarms'.period[a] > 0 =>
                       /\ alarms'.end[a] >= alarms'.start[a]
                       /\ (alarms'.end[a] - alarms'.start[a]) % alarms'.period[a] = 0
  <1>1. AlarmInv /\ ClockInv /\ [AlarmNext]_alarmVars => [Step]_alarmVars
    <2>1. ASSUME AlarmInv, ClockInv, AlarmNext, ~ UNCHANGED alarmVars PROVE Step
      <3>1. ~down
        BY <2>1 DEF AlarmNext
      <3>2. Grid(alarms')
        BY <2>1, ClockGoalReached DEF ClockGoal
      <3>3. QED BY <2>1, <3>1, <3>2, RungAgain DEF Grid, OnGrid
    <2>2. QED BY <2>1
  <1>2. QED BY <1>1, ClockInvariant, AlarmsSound, PTL DEF AlarmSpec, RingsOnGrid

(* The sorted list and its one timer implement the clock: an alarm rings   *)
(* only when it is due and no other was due before it, for any alarms,     *)
(* delays and reach of the decrementer, down to the shutdown's last pass.  *)
THEOREM AlarmsImplementClock == AlarmSpec => ClockSpec
  <1>1. AlarmInit => AbstractClock!ClockInit
    BY DEF AlarmInit, AbstractClock!ClockInit
  <1>2. AlarmInv /\ ClockInv /\ [AlarmNext]_alarmVars
        => [AbstractClock!ClockNext \/ AbstractClock!Silence]_AbstractClock!clockVars
    <2>1. ASSUME UNCHANGED alarmVars PROVE UNCHANGED AbstractClock!clockVars
      BY <2>1 DEF alarmVars, AbstractClock!clockVars
    <2>2. QED BY <2>1, ClockGoalReached DEF ClockGoal, ClockStep
  <1>3. QED BY <1>1, <1>2, ClockInvariant, AlarmsSound, PTL
        DEF AlarmSpec, ClockSpec, AbstractClock!ClockSpec

-----------------------------------------------------------------------------
(***************************************************************************)
(* OSPlayRecord.                                                           *)
(***************************************************************************)
Record == [state : State, lastError : Returned \cup {"SIZE", "MAXFD"}, retry : BOOLEAN,
           error : BOOLEAN, get : BOOLEAN, terminate : BOOLEAN, terminated : BOOLEAN,
           alarm : BOOLEAN, nand : CommandState \cup {"none"}, file : BOOLEAN, lost : BOOLEAN]

Pending(r) == r.alarm \/ r.nand # "none"

(***************************************************************************)
(* The machine while nobody stops it: it waits for what its state says,    *)
(* and has its file open but when it is about to open it, has closed it or *)
(* could not.                                                              *)
(***************************************************************************)
Machine(r) ==
    /\ r.state \in CommandState \cup {"SET_ALARM", "CLOSED"}
    /\ r.error => r.state \in {"CLOSE", "CLOSED"}
    /\ r.retry => r.alarm /\ r.state \in CommandState
    /\ r.alarm => r.nand = "none" /\ (r.retry \/ r.state = "SET_ALARM")
    /\ r.nand # "none" => r.nand = r.state /\ ~r.retry
    /\ r.state # "CLOSED" /\ ~r.lost => Pending(r)
    /\ r.lost => r.state \in {"CLOSE", "CLOSED"} /\ ~Pending(r)
    /\ r.state \in FileState \cup {"SET_ALARM", "CLOSE"} => r.file
    /\ r.state = "OPEN" => ~r.file
    /\ r.state = "CLOSED" /\ r.file => r.lost

(* A wait that is over, with what it gave. *)
Over(r, result) ==
    /\ r \in Record /\ ~Pending(r)
    /\ r.state \in CommandState \cup {"STARTED", "SET_ALARM"}
    /\ r.error => r.state = "CLOSE"
    /\ r.retry => r.state \in CommandState
    /\ r.state \in FileState \cup {"SET_ALARM"} => r.file
    /\ r.state = "STARTED" => ~r.file
    /\ r.state = "OPEN" => (r.file <=> ~r.retry /\ result = "OK")
    /\ r.state = "CLOSE" => (r.file <=> r.retry \/ result # "OK")
    /\ r.lost <=> r.state = "CLOSE" /\ ~r.retry /\ result # "OK"
    /\ result \in Returned \cup {"SIZE", "MAXFD"}
    /\ r.state \notin CommandState \/ r.retry => result = "OK"
    /\ r.state \in CommandState /\ ~r.retry => result \in Answers(r.state)

(* Nothing has begun, or nothing is left. *)
Idle(r) == r.state = "STOPPED" /\ ~Pending(r) /\ (r.file => r.lost)

(***************************************************************************)
(* Where the threads are decides what the machine may be.  A stop that     *)
(* waits finds it as it was, or terminated: then what the last command     *)
(* answered tells, as MustClose reads it, whether the file is open.        *)
(***************************************************************************)
RecInv ==
    /\ RecTypeOK
    /\ rec.terminate <=> recStop # "out"
    /\ rec.terminated => rec.terminate
    /\ recStart = "out" =>
          /\ recStop \in {"out", "done"}
          /\ Idle(rec) /\ ~rec.retry /\ ~rec.error /\ ~rec.lost
    /\ recStart # "out" /\ recStop = "out" => Machine(rec)
    /\ recStop \in {"wait", "write", "close"} => recStart = "done"
    /\ recStop = "wait" =>
          /\ rec.state \in CommandState /\ ~rec.retry
          /\ IF rec.terminated THEN ~Pending(rec) /\ (MustClose(rec) => rec.file)
                                    /\ (rec.file => MustClose(rec) \/ rec.lost)
             ELSE Machine(rec)
    /\ recStop = "write" => rec.state = "SET_ALARM" /\ ~Pending(rec) /\ rec.file
    /\ recStop = "close" =>
          /\ rec.state \in CommandState /\ ~Pending(rec)
          /\ MustClose(rec) => rec.file
          /\ rec.file => MustClose(rec) \/ rec.lost
    /\ recStop = "done" =>
          /\ recStart \in {"out", "done"} /\ ~rec.alarm
          /\ Idle(rec) \/ rec.state = "TIMEOUT"
          /\ rec.nand \in FileState \cup {"CLOSE"} => rec.file
          /\ rec.nand = "OPEN" => ~rec.file

(* What the first switch makes of the state. *)
Moved(r, m) ==
    /\ m \in Record /\ m.nand = r.nand /\ m.file = r.file /\ m.lost = r.lost
    /\ m.terminate = r.terminate /\ m.terminated = r.terminated
    /\ m.alarm = m.retry
    /\ m.error => m.state \in {"CLOSE", "CLOSED"}
    /\ m.retry => m.state = "OPEN" /\ ~m.file
    /\ m.state \in CommandState \cup {"SET_ALARM", "CLOSED"}
    /\ m.state = "OPEN" => ~m.file
    /\ m.state \in FileState \cup {"SET_ALARM", "CLOSE"} => m.file
    /\ m.lost => m.state = "CLOSED"
    /\ m.state = "CLOSED" /\ m.file => m.lost

(* Each case of the switch moves to a state that has the file it needs. *)
LEMMA MoveType ==
    ASSUME NEW r \in Record, NEW result \in Returned \cup {"SIZE", "MAXFD"}, NEW longAgo \in BOOLEAN,
           Over(r, result), ~r.retry
    PROVE  Moved(r, Move(r, result, longAgo))
  <1> USE DEF Moved, Over, Record, State, CommandState, FileState, Returned, Pending, Answers, Success
  <1>1. CASE r.state = "STARTED"
    BY <1>1 DEF Move
  <1>2. CASE r.state = "OPEN"
    BY <1>2 DEF Move, Retry, Fail
  <1>3. CASE r.state = "READ"
    BY <1>3 DEF Move, Fail
  <1>4. CASE r.state = "SEEK"
    BY <1>4 DEF Move, Fail
  <1>5. CASE r.state = "SET_ALARM"
    BY <1>5 DEF Move, Fail
  <1>6. CASE r.state = "WRITE"
    BY <1>6 DEF Move, Fail
  <1>7. CASE r.state = "CLOSE"
    BY <1>7 DEF Move, Fail
  <1>8. QED BY <1>1, <1>2, <1>3, <1>4, <1>5, <1>6, <1>7

(* A state whose command, or alarm, can be issued. *)
Ready(r) ==
    /\ r \in Record /\ ~Pending(r) /\ ~r.retry /\ ~r.lost
    /\ r.state \in CommandState \cup {"SET_ALARM"}
    /\ r.error => r.state = "CLOSE"
    /\ r.file <=> r.state # "OPEN"

(* A command refused closes the file, waits to close it, or has lost it. *)
LEMMA RefusedMachine ==
    ASSUME NEW r, Ready(r), r.state \in CommandState, NEW again \in Returned
    PROVE  LET i == Refused(r, again)
           IN /\ i \in Record /\ Machine(i) /\ i.lastError \in Returned
              /\ i.terminate = r.terminate /\ i.terminated = r.terminated
  <1> USE DEF Ready, Record, State, CommandState, FileState, Returned, Pending, Machine
  <1>1. CASE r.state \in FileState /\ again = "OK"
    BY <1>1 DEF Refused, Fail
  <1>2. CASE r.state \in FileState /\ again = "BUSY"
    BY <1>2 DEF Refused, Fail, Retry
  <1>3. CASE r.state \in FileState /\ again = "ERROR"
    BY <1>3 DEF Refused, Fail
  <1>4. CASE r.state \notin FileState
    BY <1>4 DEF Refused, Fail
  <1>5. QED BY <1>1, <1>2, <1>3, <1>4

(* Issuing leaves the machine with one thing to wait for. *)
LEMMA IssueMachine ==
    ASSUME NEW r, Ready(r), NEW returned \in Returned, NEW again \in Returned
    PROVE  LET i == Issue(r, returned, again)
           IN /\ i \in Record /\ Machine(i) /\ i.lastError \in Returned
              /\ i.terminate = r.terminate /\ i.terminated = r.terminated
  <1>1. CASE r.state \notin CommandState
    BY <1>1 DEF Issue, Ready, Record, State, CommandState, FileState, Returned, Pending, Machine
  <1>2. CASE r.state \in CommandState /\ returned = "OK"
    BY <1>2 DEF Issue, Ready, Record, State, CommandState, FileState, Returned, Pending, Machine
  <1>3. CASE r.state \in CommandState /\ returned = "BUSY"
    BY <1>3 DEF Issue, Retry, Ready, Record, State, CommandState, FileState, Returned, Pending, Machine
  <1>4. CASE r.state \in CommandState /\ returned = "ERROR"
    BY <1>4, RefusedMachine DEF Issue
  <1>5. QED BY <1>1, <1>2, <1>3, <1>4 DEF Returned

(* The callback at the end of a wait begins the next, if nobody stops it. *)
LEMMA CallbackMachine ==
    ASSUME NEW s, NEW result, Over(s, result), ~s.terminate, NEW o \in Outcomes(s, result)
    PROVE  /\ o \in Record /\ Machine(o) /\ ~o.terminate /\ o.terminated = s.terminated
           /\ s.state = "STARTED" => o.lastError \in Returned
  <1>1. PICK longAgo \in BOOLEAN, returned \in Returned, again \in Returned :
           o = PlayRecordCallback(s, result, longAgo, returned, again)
    BY DEF Outcomes
  <1> DEFINE r == [s EXCEPT !.lastError = result]
             m == IF r.retry THEN [r EXCEPT !.retry = FALSE] ELSE Move(r, result, longAgo)
  <1>2. Over(r, result) /\ r.terminate = s.terminate /\ r.terminated = s.terminated /\ r.retry = s.retry
    BY DEF Over, Record, Pending
  <1>3. o = IF m.state = "CLOSED" \/ m.retry THEN m ELSE Issue(m, returned, again)
    BY <1>1, <1>2 DEF PlayRecordCallback
  <1>4. CASE s.retry
    <2>1. m = [r EXCEPT !.retry = FALSE]
      BY <1>2, <1>4
    <2>2. Ready(m) /\ m.terminate = s.terminate /\ m.terminated = s.terminated
      BY <1>2, <1>4, <2>1 DEF Over, Ready, Record, Pending, CommandState, FileState, State
    <2> HIDE DEF m
    <2>3. o = Issue(m, returned, again)
      BY <1>3, <2>2 DEF Ready, CommandState, FileState
    <2>4. s.state # "STARTED"
      BY <1>4 DEF Over, CommandState, FileState
    <2>5. QED BY <2>2, <2>3, <2>4, IssueMachine
  <1>5. CASE ~s.retry
    <2>1. m = Move(r, result, longAgo)
      BY <1>2, <1>5
    <2>2. result \in Returned \cup {"SIZE", "MAXFD"} /\ r \in Record /\ ~r.alarm /\ r.nand = "none"
      BY <1>2 DEF Over, Pending
    <2>3. Moved(r, m)
      BY <1>1, <1>2, <1>5, <2>1, <2>2, MoveType
    <2> HIDE DEF m
    <2>4. CASE m.state = "CLOSED" \/ m.retry
      <3>1. o = m
        BY <1>3, <2>4
      <3>2. Machine(o)
        BY <3>1, <2>2, <2>3, <2>4 DEF Moved, Machine, Pending, CommandState, FileState
      <3>3. s.state # "STARTED"
        BY <2>4, <2>1, <1>2, <1>5 DEF Move, Over, m, CommandState, FileState, Record
      <3>4. QED BY <1>2, <2>3, <3>1, <3>2, <3>3 DEF Moved
    <2>5. CASE m.state # "CLOSED" /\ ~m.retry
      <3>1. Ready(m)
        BY <2>2, <2>3, <2>5 DEF Moved, Ready, Pending, CommandState, FileState
      <3>2. QED BY <1>1, <1>2, <1>3, <2>3, <2>5, <3>1, IssueMachine DEF Moved
    <2>6. QED BY <2>4, <2>5
  <1>6. QED BY <1>4, <1>5 DEF Over, Record

(* Once a stop is requested it only notes that it has run. *)
LEMMA CallbackStopped ==
    ASSUME NEW s \in Record, NEW result, s.terminate, NEW o \in Outcomes(s, result)
    PROVE  o = [s EXCEPT !.lastError = result, !.terminated = TRUE]
  BY DEF Outcomes, PlayRecordCallback, Record

(* What a command answers to a machine nobody stops ends its wait. *)
LEMMA AnswerOver ==
    ASSUME NEW r \in Record, Machine(r), r.nand # "none", NEW result \in Answers(r.nand)
    PROVE  Over(Answered(r, result), result) /\ Answered(r, result).state # "STARTED"
           /\ Answered(r, result).terminate = r.terminate
           /\ Answered(r, result).terminated = r.terminated
  BY DEF Over, Answered, Machine, Record, State, CommandState, FileState, Pending, Answers,
         Success, Returned

(* So does the alarm. *)
LEMMA AlarmOver ==
    ASSUME NEW r \in Record, Machine(r), r.alarm
    PROVE  Over([r EXCEPT !.alarm = FALSE], "OK")
  BY DEF Over, Machine, Record, State, CommandState, FileState, Pending, Returned

(* Each action keeps the invariant. *)
LEMMA RecInitHolds == RecInit => RecInv
  BY DEF RecInit, RecInv, RecTypeOK, Idle, Pending, State, CommandState, FileState, Returned

LEMMA NandAnswersHolds ==
    ASSUME RecInv, NandAnswers
    PROVE  RecInv'
  <1>1. PICK result \in Answers(rec.nand) : rec' \in Outcomes(Answered(rec, result), result)
    BY DEF NandAnswers
  <1>2. rec.nand # "none" /\ UNCHANGED <<recStart, recStop>>
    BY DEF NandAnswers
  <1>3. rec \in Record /\ recStart # "out"
    BY <1>2 DEF RecInv, RecTypeOK, Record, Idle, Pending
  <1>4. CASE recStop = "out"
    <2>1. Machine(rec) /\ ~rec.terminate /\ ~rec.terminated
      BY <1>3, <1>4 DEF RecInv
    <2>2. /\ rec' \in Record /\ Machine(rec') /\ ~rec'.terminate /\ ~rec'.terminated
      BY <1>1, <1>2, <1>3, <2>1, AnswerOver, CallbackMachine
    <2>3. RecTypeOK'
      BY <1>2, <2>2 DEF RecInv, RecTypeOK, Record, Machine
    <2>4. QED BY <1>2, <1>3, <1>4, <2>2, <2>3 DEF RecInv
  <1>5. CASE recStop # "out"
    <2>1. rec.terminate /\ recStop \in {"wait", "done"} /\ result \in Returned \cup {"SIZE", "MAXFD"}
      BY <1>1, <1>2, <1>3, <1>5 DEF RecInv, RecTypeOK, Pending, Answers, Success, Returned
    <2>2. Answered(rec, result) \in Record /\ Answered(rec, result).terminate
      BY <1>2, <1>3, <2>1 DEF Answered, Record, CommandState
    <2>3. rec' = [Answered(rec, result) EXCEPT !.lastError = result, !.terminated = TRUE]
      BY <1>1, <2>2, CallbackStopped
    <2>4. /\ rec' \in Record /\ rec'.state = rec.state /\ rec'.error = rec.error
          /\ rec'.retry = rec.retry /\ rec'.alarm = rec.alarm /\ rec'.nand = "none"
          /\ rec'.terminate /\ rec'.terminated /\ rec'.lastError = result
          /\ rec'.file = (CASE rec.nand = "OPEN" -> result = "OK"
                            [] rec.nand = "CLOSE" -> result # "OK"
                            [] OTHER -> rec.file)
          /\ rec'.lost = (rec.lost \/ (rec.nand = "CLOSE" /\ result # "OK"))
      <3> DEFINE a == Answered(rec, result)
      <3>1. /\ a.state = rec.state /\ a.error = rec.error /\ a.retry = rec.retry
            /\ a.alarm = rec.alarm /\ a.nand = "none"
            /\ a.file = (CASE rec.nand = "OPEN" -> result = "OK"
                           [] rec.nand = "CLOSE" -> result # "OK"
                           [] OTHER -> rec.file)
            /\ a.lost = (rec.lost \/ (rec.nand = "CLOSE" /\ result # "OK"))
        BY <1>3 DEF Answered, Record
      <3> HIDE DEF a
      <3>2. a \in Record /\ a.terminate /\ rec' = [a EXCEPT !.lastError = result, !.terminated = TRUE]
        BY <2>2, <2>3 DEF a
      <3>3. QED BY <2>1, <3>1, <3>2 DEF Record
    <2>5. RecTypeOK'
      BY <1>2, <2>4 DEF RecInv, RecTypeOK, Record
    <2>6. CASE recStop = "wait"
      <3>1. Machine(rec) /\ rec.nand = rec.state /\ ~rec.retry /\ rec.state \in CommandState
        BY <1>2, <2>6 DEF RecInv, Machine, Pending
      <3>2. ~Pending(rec') /\ (MustClose(rec') => rec'.file)
            /\ (rec'.file => MustClose(rec') \/ rec'.lost)
        BY <3>1, <1>1, <1>2, <1>3, <2>4 DEF Machine, MustClose, Pending, CommandState, FileState, Record
      <3>3. QED BY <1>2, <2>4, <2>5, <2>6, <3>1, <3>2 DEF RecInv
    <2>7. CASE recStop = "done"
      <3>1. rec.state = "TIMEOUT"
        BY <1>2, <2>7 DEF RecInv, Idle, Pending
      <3>2. QED BY <1>2, <2>4, <2>5, <2>7, <3>1 DEF RecInv, Idle, FileState
    <2>8. QED BY <2>1, <2>6, <2>7
  <1>6. QED BY <1>4, <1>5

LEMMA AlarmRingsHolds ==
    ASSUME RecInv, AlarmRings
    PROVE  RecInv'
  <1>1. rec.alarm /\ rec' \in Outcomes([rec EXCEPT !.alarm = FALSE], "OK")
        /\ UNCHANGED <<recStart, recStop>>
    BY DEF AlarmRings
  <1>2. rec \in Record /\ recStart # "out" /\ (recStop = "out" => Machine(rec))
    BY <1>1 DEF RecInv, RecTypeOK, Record, Idle, Pending
  <1>3. recStop = "out"
    BY <1>1, <1>2 DEF RecInv, RecTypeOK, Machine, Pending, CommandState, FileState
  <1>4. ~rec.terminate /\ ~rec.terminated
    BY <1>3 DEF RecInv
  <1>5. Over([rec EXCEPT !.alarm = FALSE], "OK")
    BY <1>1, <1>2, <1>3, AlarmOver
  <1>6. /\ [rec EXCEPT !.alarm = FALSE].terminate = FALSE
        /\ [rec EXCEPT !.alarm = FALSE].terminated = FALSE
    BY <1>2, <1>4 DEF Record
  <1>7. rec' \in Record /\ Machine(rec') /\ ~rec'.terminate /\ ~rec'.terminated
    BY <1>1, <1>5, <1>6, CallbackMachine
  <1>8. RecTypeOK'
    BY <1>1, <1>7 DEF RecInv, RecTypeOK, Record, Machine
  <1>9. QED BY <1>1, <1>2, <1>3, <1>7, <1>8 DEF RecInv

LEMMA StartRecordHolds ==
    ASSUME RecInv, StartRecord
    PROVE  RecInv'
  <1>1. PICK r \in Outcomes([rec EXCEPT !.state = "STARTED"], "OK") :
           rec' = [r EXCEPT !.lastError = "OK"] /\ recStart' = r.lastError
    BY DEF StartRecord
  <1>2. recStart = "out" /\ recStop = "out" /\ recStop' = recStop
    BY DEF StartRecord
  <1> DEFINE s == [rec EXCEPT !.state = "STARTED"]
  <1>3. /\ rec \in Record /\ Idle(rec) /\ ~rec.retry /\ ~rec.error /\ ~rec.lost
        /\ ~rec.terminate /\ ~rec.terminated
    BY <1>2 DEF RecInv, RecTypeOK, Record
  <1>4. Over(s, "OK") /\ s.state = "STARTED" /\ ~s.terminate /\ ~s.terminated
    BY <1>3 DEF Over, Idle, Record, State, CommandState, FileState, Pending, Returned
  <1>5. /\ r \in Record /\ Machine(r) /\ ~r.terminate /\ ~r.terminated /\ r.lastError \in Returned
    <2> HIDE DEF s
    <2>1. r \in Outcomes(s, "OK")
      BY DEF s
    <2>2. QED BY <1>4, <2>1, CallbackMachine
  <1>6. rec' \in Record /\ Machine(rec') /\ ~rec'.terminate /\ ~rec'.terminated
    BY <1>1, <1>5 DEF Record, Machine, Pending, Returned
  <1>7. RecTypeOK'
    BY <1>1, <1>2, <1>5, <1>6 DEF RecInv, RecTypeOK, Record, Machine, Returned
  <1>8. QED BY <1>1, <1>2, <1>5, <1>6, <1>7 DEF RecInv, Returned

LEMMA StartEndsHolds ==
    ASSUME RecInv, StartEnds
    PROVE  RecInv'
  <1>1. recStart \in Returned /\ rec' = [rec EXCEPT !.lastError = recStart]
        /\ recStart' = "done" /\ recStop' = recStop
    BY DEF StartEnds
  <1>2. rec \in Record /\ recStop = "out" /\ Machine(rec) /\ ~rec.terminate /\ ~rec.terminated
    BY <1>1 DEF RecInv, RecTypeOK, Record, Returned
  <1>3. rec' \in Record /\ Machine(rec') /\ ~rec'.terminate /\ ~rec'.terminated
    BY <1>1, <1>2 DEF Record, Machine, Pending, Returned
  <1>4. RecTypeOK'
    BY <1>1, <1>2, <1>3 DEF RecTypeOK, Record, Machine
  <1>5. QED BY <1>1, <1>2, <1>3, <1>4 DEF RecInv

LEMMA StopHolds ==
    ASSUME RecInv, Stop
    PROVE  RecInv'
  <1>1. recStop = "out" /\ recStart \in {"out", "done"} /\ recStart' = recStart
    BY DEF Stop
  <1>2. rec \in Record /\ ~rec.terminate /\ ~rec.terminated
    BY <1>1 DEF RecInv, RecTypeOK, Record
  <1>3. CASE rec.state \in {"CLOSED", "STARTED", "STOPPED", "TIMEOUT"}
    <2>1. recStop' = "done" /\ rec' = [rec EXCEPT !.terminate = TRUE, !.state = "STOPPED"]
      BY <1>2, <1>3 DEF Stop, Record, CommandState, FileState
    <2>2. ~Pending(rec) /\ (rec.file => rec.lost) /\ (rec.error => recStart # "out")
      BY <1>1, <1>2, <1>3 DEF RecInv, Record, Machine, Idle, CommandState, FileState, Pending
    <2>3. rec' \in Record /\ Idle(rec') /\ ~rec'.alarm /\ rec'.nand = "none"
          /\ rec'.retry = rec.retry /\ rec'.error = rec.error /\ rec'.lost = rec.lost
          /\ rec'.terminate /\ ~rec'.terminated
      BY <1>2, <2>1, <2>2 DEF Record, Idle, Pending, State
    <2>4. RecTypeOK'
      BY <1>1, <2>1, <2>3 DEF RecInv, RecTypeOK, Record, Idle
    <2>5. QED BY <1>1, <2>1, <2>3, <2>4 DEF RecInv, FileState
  <1>4. CASE rec.state \notin {"CLOSED", "STARTED", "STOPPED", "TIMEOUT"}
    <2>1. Machine(rec) /\ recStart = "done"
      BY <1>1, <1>4 DEF RecInv, Idle
    <2>2. CASE rec.state = "SET_ALARM"
      <3>1. recStop' = "write" /\ rec' = [rec EXCEPT !.terminate = TRUE, !.alarm = FALSE]
        BY <1>2, <2>2 DEF Stop, Record, CommandState, FileState
      <3>2. /\ rec' \in Record /\ rec'.state = "SET_ALARM" /\ ~Pending(rec') /\ rec'.file
            /\ rec'.terminate /\ ~rec'.terminated /\ ~rec'.error
        BY <1>2, <2>1, <2>2, <3>1 DEF Record, Machine, Pending, CommandState, FileState
      <3>3. RecTypeOK'
        BY <1>1, <3>1, <3>2 DEF RecInv, RecTypeOK, Record
      <3>4. QED BY <1>1, <2>1, <3>1, <3>2, <3>3 DEF RecInv
    <2>3. CASE rec.state # "SET_ALARM" /\ rec.retry
      <3>1. rec.state \in CommandState
        BY <2>1, <2>3, <1>4 DEF Machine
      <3>2. recStop' = "close" /\ rec' = [rec EXCEPT !.terminate = TRUE, !.alarm = FALSE]
        BY <1>2, <1>4, <2>3, <3>1 DEF Stop, Record
      <3>3. /\ rec' \in Record /\ rec'.state \in CommandState /\ ~Pending(rec')
            /\ MustClose(rec') => rec'.file
            /\ rec'.file => MustClose(rec')
            /\ rec'.terminate /\ ~rec'.terminated /\ (rec'.error => rec'.state = "CLOSE")
        BY <1>2, <2>1, <2>3, <3>1, <3>2 DEF Record, Machine, MustClose, Pending, CommandState, FileState
      <3>4. RecTypeOK'
        BY <1>1, <3>2, <3>3 DEF RecInv, RecTypeOK, Record
      <3>5. QED BY <1>1, <2>1, <3>2, <3>3, <3>4 DEF RecInv
    <2>4. CASE rec.state # "SET_ALARM" /\ ~rec.retry
      <3>1. recStop' = "wait" /\ rec' = [rec EXCEPT !.terminate = TRUE]
        BY <1>2, <1>4, <2>4 DEF Stop, Record
      <3>2. /\ rec' \in Record /\ Machine(rec') /\ rec'.state \in CommandState /\ ~rec'.retry
            /\ rec'.terminate /\ ~rec'.terminated
        BY <1>2, <1>4, <2>1, <2>4, <3>1 DEF Record, Machine, Pending
      <3>3. RecTypeOK'
        BY <1>1, <3>1, <3>2 DEF RecInv, RecTypeOK, Record, Machine
      <3>4. QED BY <1>1, <2>1, <3>1, <3>2, <3>3 DEF RecInv
    <2>5. QED BY <2>2, <2>3, <2>4
  <1>5. QED BY <1>3, <1>4

LEMMA StopRestHolds ==
    ASSUME RecInv, StopWaited \/ StopTimesOut
    PROVE  RecInv'
  <1>1. recStop = "wait" /\ recStart = "done" /\ recStart' = recStart /\ rec \in Record /\ rec.terminate
    BY DEF RecInv, RecTypeOK, Record, StopWaited, StopTimesOut
  <1>2. CASE StopWaited
    BY <1>1, <1>2 DEF StopWaited, RecInv, RecTypeOK
  <1>3. CASE StopTimesOut
    <2>1. recStop' = "done" /\ rec' = [rec EXCEPT !.state = "TIMEOUT"] /\ Machine(rec)
          /\ ~rec.retry /\ rec.state \in CommandState
      BY <1>1, <1>3 DEF StopTimesOut, RecInv
    <2>2. /\ rec' \in Record /\ rec'.state = "TIMEOUT" /\ ~rec'.alarm /\ rec'.terminate
          /\ rec'.nand = rec.nand /\ rec'.file = rec.file
      BY <1>1, <2>1 DEF Record, State, Machine, CommandState, FileState
    <2>3. RecTypeOK'
      BY <1>1, <2>1, <2>2 DEF RecTypeOK, Record
    <2>4. QED BY <1>1, <2>1, <2>2, <2>3 DEF RecInv, Machine, FileState
  <1>4. QED BY <1>2, <1>3

LEMMA StopClosesHolds ==
    ASSUME RecInv, StopCloses
    PROVE  RecInv'
  <1>1. recStop \in {"write", "close"} /\ recStop' = "done" /\ recStart = "done"
        /\ recStart' = recStart /\ rec \in Record /\ rec.terminate /\ ~Pending(rec)
    BY DEF RecInv, RecTypeOK, Record, StopCloses
  <1>2. /\ rec' \in Record /\ rec'.state = "STOPPED" /\ ~Pending(rec') /\ rec'.terminate
        /\ rec'.file => rec'.lost
    <2>1. CASE recStop = "write" \/ MustClose(rec)
      <3>1. PICK closed \in BOOLEAN :
               rec' = [rec EXCEPT !.state = "STOPPED", !.file = ~closed, !.lost = @ \/ ~closed]
        BY <2>1 DEF StopCloses
      <3>2. QED BY <1>1, <3>1 DEF Record, State, Pending
    <2>2. CASE ~(recStop = "write" \/ MustClose(rec))
      <3>1. rec' = [rec EXCEPT !.state = "STOPPED"] /\ (rec.file => rec.lost)
        BY <1>1, <2>2 DEF StopCloses, RecInv
      <3>2. QED BY <1>1, <3>1 DEF Record, State, Pending
    <2>3. QED BY <2>1, <2>2
  <1>3. RecTypeOK'
    BY <1>1, <1>2 DEF RecTypeOK, Record
  <1>4. QED BY <1>1, <1>2, <1>3 DEF RecInv, Idle, Pending, FileState

LEMMA RecNextHolds == RecInv /\ [RecNext]_recVars => RecInv'
  <1> SUFFICES ASSUME RecInv, [RecNext]_recVars PROVE RecInv'
    OBVIOUS
  <1>1. CASE UNCHANGED recVars
    BY <1>1 DEF recVars, RecInv, RecTypeOK
  <1>2. CASE RecNext
    BY <1>2, NandAnswersHolds, AlarmRingsHolds, StartRecordHolds, StartEndsHolds, StopHolds,
       StopRestHolds, StopClosesHolds DEF RecNext
  <1>3. QED BY <1>1, <1>2

(***************************************************************************)
(* The types of the play record, and what its state says of the alarm, the *)
(* command and the file, wherever the two threads are.                     *)
(***************************************************************************)
THEOREM PlayRecordInvariant == RecSpec => []RecInv
  BY RecInitHolds, RecNextHolds, PTL DEF RecSpec

(* Each callback that continues leaves one thing to wait for, an alarm or  *)
(* a command, never both, and no command meets a file in the wrong state,  *)
(* whatever the NAND refuses or fails and whenever a stop comes.           *)
THEOREM PlayRecordWaitsOnce == RecSpec => []OneContinuation
  <1>1. RecInv => OneContinuation
    <2> SUFFICES ASSUME RecInv PROVE OneContinuation
      OBVIOUS
    <2>1. CASE recStart = "out"
      BY <2>1 DEF RecInv, OneContinuation, Idle, Pending, CommandState, FileState
    <2>2. CASE recStart # "out" /\ recStop = "out"
      BY <2>2 DEF RecInv, RecTypeOK, OneContinuation, Machine, Pending, CommandState, FileState
    <2>3. CASE recStart # "out" /\ recStop = "wait"
      BY <2>3 DEF RecInv, RecTypeOK, OneContinuation, Machine, Pending, CommandState, FileState
    <2>4. CASE recStart # "out" /\ recStop \in {"write", "close", "done"}
      BY <2>4 DEF RecInv, OneContinuation, Idle, Pending, CommandState, FileState
    <2>5. QED BY <2>1, <2>2, <2>3, <2>4 DEF RecInv, RecTypeOK
  <1>2. QED BY <1>1, PlayRecordInvariant, PTL

(* __OSStopPlayRecord, at whatever step it meets the machine, leaves no    *)
(* alarm, no command and no open file, unless the NAND would not close it  *)
(* or the wait timed out, and closes only a file that is open.             *)
THEOREM PlayRecordStops == RecSpec => []StopLeavesNothing
  <1>1. RecInv => StopLeavesNothing
    BY DEF RecInv, StopLeavesNothing, Idle, Pending
  <1>2. QED BY <1>1, PlayRecordInvariant, PTL
=============================================================================
