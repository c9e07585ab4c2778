-------------------------- MODULE IpcClient_proofs --------------------------
(* Theorems about IpcClient, for every set of callers and of requests and  *)
(* every capacity of the ring.                                             *)
EXTENDS IpcClient, QueueLemmas

(***************************************************************************)
(* The ring of the driver's state s, as the sequence of the requests in    *)
(* it, and with the one in the mailbox before them.                        *)
(***************************************************************************)
Count(s) == s.queued - s.sent
RingSlot(s, i) == (s.front + i - 1) % IpcCapacity
Ring(s) == [i \in 1 .. Count(s) |-> s.queue[RingSlot(s, i)]]
Pipe(s) == (IF s.ppcmsg = Null THEN << >> ELSE <<s.ppcmsg>>) \o Ring(s)

Driver == [queue : [Index -> Request \cup {Null}], front : Index, back : Index,
           sent : 0 .. IpcWord - 1, queued : 0 .. IpcWord - 1, mailboxAck : Int,
           ppcmsg : Request \cup {Null}, relnchFl : BOOLEAN, relnchRpc : Request \cup {Null}]

DriverOK(s) ==
    /\ s \in Driver
    /\ Count(s) \in 0 .. IpcCapacity
    /\ s.back = (s.front + Count(s)) % IpcCapacity
    /\ \A i \in 1 .. Count(s) : s.queue[RingSlot(s, i)] \in Request

LEMMA DriverFacts ==
    ASSUME NEW s, DriverOK(s)
    PROVE  /\ s \in Driver /\ s.queue \in [Index -> Request \cup {Null}]
           /\ s.front \in 0 .. IpcCapacity - 1 /\ s.back \in 0 .. IpcCapacity - 1
           /\ s.sent \in 0 .. IpcWord - 1 /\ s.queued \in 0 .. IpcWord - 1
           /\ s.mailboxAck \in Int /\ s.ppcmsg \in Request \cup {Null}
           /\ s.relnchFl \in BOOLEAN /\ s.relnchRpc \in Request \cup {Null}
           /\ Count(s) \in 0 .. IpcCapacity
           /\ IpcCapacity \in Nat \ {0} /\ IpcWord \in Nat /\ IpcCapacity < IpcWord
  <1>1. s \in Driver /\ Count(s) \in 0 .. IpcCapacity
    BY DEF DriverOK
  <1>2. QED BY <1>1, IpcAssumption DEF Driver, Index

LEMMA SlotFacts ==
    ASSUME NEW s, DriverOK(s), NEW i \in 1 .. IpcCapacity + 1
    PROVE  /\ RingSlot(s, i) \in Index
           /\ RingSlot(s, i) = IF s.front + i - 1 < IpcCapacity THEN s.front + i - 1
                               ELSE s.front + i - 1 - IpcCapacity
  <1>1. /\ s.front \in 0 .. IpcCapacity - 1 /\ IpcCapacity \in Nat \ {0}
    BY DriverFacts
  <1>2. s.front + i - 1 \in 0 .. 2 * IpcCapacity - 1
    BY <1>1
  <1>3. RingSlot(s, i) = IF s.front + i - 1 < IpcCapacity THEN s.front + i - 1
                         ELSE s.front + i - 1 - IpcCapacity
    BY <1>1, <1>2, WrapOnce DEF RingSlot
  <1>4. QED BY <1>1, <1>3 DEF Index

LEMMA RingFacts ==
    ASSUME NEW s, DriverOK(s)
    PROVE  /\ Ring(s) \in Seq(Request) /\ Len(Ring(s)) = Count(s)
           /\ \A i \in 1 .. Count(s) : Ring(s)[i] = s.queue[RingSlot(s, i)]
           /\ Ring(s) = << >> <=> Count(s) = 0
           /\ Pipe(s) \in Seq(Request)
  <1>1. Count(s) \in Nat
    BY DriverFacts
  <1>2. \A i \in 1 .. Count(s) : s.queue[RingSlot(s, i)] \in Request
    BY DEF DriverOK
  <1>3. Ring(s) \in [1 .. Count(s) -> Request]
    BY <1>2 DEF Ring
  <1>4. Ring(s) \in Seq(Request) /\ Len(Ring(s)) = Count(s)
    BY <1>1, <1>3, FunctionIsSeq
  <1>5. Ring(s) = << >> <=> Count(s) = 0
    BY <1>1, <1>4, EmptySeq
  <1>6. Pipe(s) \in Seq(Request)
    <2>1. s.ppcmsg \in Request \cup {Null}
      BY DriverFacts
    <2>2. s.ppcmsg # Null => <<s.ppcmsg>> \in Seq(Request)
      BY <2>1
    <2>3. << >> \in Seq(Request)
      OBVIOUS
    <2>4. QED BY <1>4, <2>2, <2>3, ConcatProperties DEF Pipe
  <1>7. QED BY <1>4, <1>5, <1>6 DEF Ring

(* What the differences of the counters tell the driver.                   *)
LEMMA Counters ==
    ASSUME NEW s, DriverOK(s)
    PROVE  /\ Waiting(s) = Count(s)
           /\ QueueFull(s) <=> Count(s) = IpcCapacity
           /\ NothingToSend(s) <=> Count(s) = 0
  <1>1. /\ Count(s) \in 0 .. IpcCapacity /\ IpcCapacity \in Nat \ {0}
        /\ IpcWord \in Nat /\ IpcCapacity < IpcWord
        /\ s.sent \in 0 .. IpcWord - 1 /\ s.queued \in 0 .. IpcWord - 1
    BY DriverFacts
  <1>2. Waiting(s) = Count(s)
    <2>1. IpcWord \in Nat \ {0} /\ Count(s) \in 0 .. 2 * IpcWord - 1 /\ Count(s) < IpcWord
      BY <1>1
    <2>2. Count(s) % IpcWord = Count(s)
      BY <2>1, WrapOnce
    <2>3. QED BY <2>2 DEF Waiting, Count
  <1>3. ~(s.queued < s.sent)
    BY <1>1 DEF Count
  <1>4. QED BY <1>1, <1>2, <1>3 DEF QueueFull, NothingToSend

(* A request put in the ring is behind the others, until the counter wraps.*)
LEMMA Enqueue ==
    ASSUME NEW s, DriverOK(s), Count(s) # IpcCapacity, NEW r \in Request,
           QueueRequest(s, r).queued >= s.queued
    PROVE  LET t == QueueRequest(s, r) IN
           /\ DriverOK(t) /\ Ring(t) = Append(Ring(s), r) /\ Count(t) = Count(s) + 1
           /\ t.ppcmsg = s.ppcmsg /\ t.mailboxAck = s.mailboxAck
           /\ t.relnchFl = s.relnchFl /\ t.relnchRpc = s.relnchRpc
  <1> DEFINE t == QueueRequest(s, r)
             n == Count(s)
             q == (s.queued + 1) % IpcWord
             b == Advance(s.back)
  <1>1. /\ n \in 0 .. IpcCapacity - 1 /\ IpcCapacity \in Nat \ {0}
        /\ IpcWord \in Nat /\ IpcCapacity < IpcWord
        /\ s.sent \in 0 .. IpcWord - 1 /\ s.queued \in 0 .. IpcWord - 1
        /\ s.front \in 0 .. IpcCapacity - 1 /\ s.back \in 0 .. IpcCapacity - 1
        /\ s \in Driver
    BY DriverFacts
  <1>2. t = [s EXCEPT !.queue = [s.queue EXCEPT ![s.back] = r], !.back = b, !.queued = q]
    BY <1>1 DEF QueueRequest, Driver
  <1>3. q = IF s.queued + 1 < IpcWord THEN s.queued + 1 ELSE s.queued + 1 - IpcWord
    <2> DEFINE k == s.queued + 1
    <2>1. IpcWord \in Nat \ {0} /\ k \in 0 .. 2 * IpcWord - 1
      BY <1>1
    <2> HIDE DEF k
    <2>2. k % IpcWord = IF k < IpcWord THEN k ELSE k - IpcWord
      BY <2>1, WrapOnce
    <2>3. QED BY <1>1, <2>2 DEF k
  <1>4. b = IF s.back + 1 < IpcCapacity THEN s.back + 1 ELSE s.back + 1 - IpcCapacity
    <2> DEFINE k == s.back + 1
    <2>1. IpcCapacity \in Nat \ {0} /\ k \in 0 .. 2 * IpcCapacity - 1
      BY <1>1
    <2> HIDE DEF k
    <2>2. k % IpcCapacity = IF k < IpcCapacity THEN k ELSE k - IpcCapacity
      BY <2>1, WrapOnce
    <2>3. QED BY <1>1, <2>2 DEF k, Advance
  <1> HIDE DEF q, b
  <1>5. b \in Index /\ q \in 0 .. IpcWord - 1 /\ s.back \in Index
    BY <1>1, <1>3, <1>4 DEF Index
  <1>6. /\ t \in Driver /\ t.queue = [s.queue EXCEPT ![s.back] = r] /\ t.back = b
        /\ t.queued = q /\ t.sent = s.sent /\ t.front = s.front
        /\ t.ppcmsg = s.ppcmsg /\ t.mailboxAck = s.mailboxAck
        /\ t.relnchFl = s.relnchFl /\ t.relnchRpc = s.relnchRpc
    <2> DEFINE ring == [s.queue EXCEPT ![s.back] = r]
    <2>1. ring \in [Index -> Request \cup {Null}]
      <3>1. s.queue \in [Index -> Request \cup {Null}]
        BY DriverFacts
      <3>2. QED BY <1>5, <3>1
    <2> HIDE DEF ring
    <2>2. t = [s EXCEPT !.queue = ring, !.back = b, !.queued = q]
      BY <1>2 DEF ring
    <2>3. s \in Driver
      BY <1>1
    <2> HIDE DEF t
    <2>4. /\ t \in Driver /\ t.queue = ring /\ t.back = b
          /\ t.queued = q /\ t.sent = s.sent /\ t.front = s.front
          /\ t.ppcmsg = s.ppcmsg /\ t.mailboxAck = s.mailboxAck
          /\ t.relnchFl = s.relnchFl /\ t.relnchRpc = s.relnchRpc
      BY <1>5, <2>1, <2>2, <2>3 DEF Driver
    <2>5. QED BY <2>4 DEF ring
  <1>7. q = s.queued + 1
    <2>1. q >= s.queued
      BY <1>6
    <2>2. QED BY <1>1, <1>3, <2>1
  <1> HIDE DEF t, n
  <1>8. Count(t) = n + 1
    BY <1>1, <1>6, <1>7 DEF Count, n
  <1>9. RingSlot(s, n + 1) = s.back
    <2>1. s.back = (s.front + n) % IpcCapacity
      BY DEF DriverOK, n
    <2>2. s.front + (n + 1) - 1 = s.front + n
      BY <1>1
    <2>3. QED BY <2>1, <2>2 DEF RingSlot
  <1>10. \A i \in 1 .. n : RingSlot(s, i) # s.back /\ RingSlot(s, i) \in Index
    <2> SUFFICES ASSUME NEW i \in 1 .. n
                 PROVE  RingSlot(s, i) # s.back /\ RingSlot(s, i) \in Index
      OBVIOUS
    <2>1. i \in 1 .. IpcCapacity + 1 /\ n + 1 \in 1 .. IpcCapacity + 1
      BY <1>1
    <2>2. /\ RingSlot(s, i) = IF s.front + i - 1 < IpcCapacity THEN s.front + i - 1
                              ELSE s.front + i - 1 - IpcCapacity
          /\ RingSlot(s, i) \in Index
      BY <2>1, SlotFacts
    <2>3. RingSlot(s, n + 1) = IF s.front + (n + 1) - 1 < IpcCapacity
                               THEN s.front + (n + 1) - 1
                               ELSE s.front + (n + 1) - 1 - IpcCapacity
      BY <2>1, SlotFacts
    <2>4. QED BY <1>1, <1>9, <2>2, <2>3
  <1>11. \A i : RingSlot(t, i) = RingSlot(s, i)
    BY <1>6 DEF RingSlot
  <1>12. \A i \in 1 .. n : t.queue[RingSlot(t, i)] = s.queue[RingSlot(s, i)]
    <2>1. s.queue \in [Index -> Request \cup {Null}]
      BY DriverFacts
    <2>2. QED BY <1>5, <1>6, <1>10, <1>11, <2>1
  <1>13. t.queue[RingSlot(t, n + 1)] = r
    <2>1. s.queue \in [Index -> Request \cup {Null}]
      BY DriverFacts
    <2>2. QED BY <1>5, <1>6, <1>9, <1>11, <2>1
  <1>14. DriverOK(t)
    <2>1. Count(t) \in 0 .. IpcCapacity
      BY <1>1, <1>8
    <2>2. t.back = (t.front + Count(t)) % IpcCapacity
      <3>1. /\ IpcCapacity \in Nat \ {0}
            /\ s.front + (n + 1) \in 0 .. 2 * IpcCapacity - 1
        BY <1>1
      <3>2. (s.front + (n + 1)) % IpcCapacity
               = IF s.front + (n + 1) < IpcCapacity THEN s.front + (n + 1)
                 ELSE s.front + (n + 1) - IpcCapacity
        <4> DEFINE k == s.front + (n + 1)
        <4> HIDE DEF k
        <4>1. k \in 0 .. 2 * IpcCapacity - 1
          BY <3>1 DEF k
        <4>2. k % IpcCapacity = IF k < IpcCapacity THEN k ELSE k - IpcCapacity
          BY <3>1, <4>1, WrapOnce
        <4>3. QED BY <1>1, <4>2 DEF k
      <3>3. s.back = IF s.front + (n + 1) - 1 < IpcCapacity THEN s.front + (n + 1) - 1
                     ELSE s.front + (n + 1) - 1 - IpcCapacity
        <4>1. n + 1 \in 1 .. IpcCapacity + 1
          BY <1>1
        <4>2. QED BY <1>9, <4>1, SlotFacts
      <3>4. b = (s.front + (n + 1)) % IpcCapacity
        BY <1>1, <1>4, <3>2, <3>3
      <3>5. QED BY <1>6, <1>8, <3>4
    <2>3. \A i \in 1 .. Count(t) : t.queue[RingSlot(t, i)] \in Request
      <3>1. \A i \in 1 .. n : s.queue[RingSlot(s, i)] \in Request
        BY DEF DriverOK, n
      <3>2. \A i \in 1 .. n + 1 : i \in 1 .. n \/ i = n + 1
        BY <1>1
      <3>3. QED BY <1>8, <1>12, <1>13, <3>1, <3>2
    <2>4. QED BY <1>6, <2>1, <2>2, <2>3 DEF DriverOK
  <1>15. Ring(t) = Append(Ring(s), r)
    <2> DEFINE u == Append(Ring(s), r)
    <2>1. /\ Ring(s) \in Seq(Request) /\ Len(Ring(s)) = n
          /\ \A i \in 1 .. n : Ring(s)[i] = s.queue[RingSlot(s, i)]
      BY RingFacts DEF n
    <2>2. /\ u \in Seq(Request) /\ Len(u) = n + 1 /\ u[n + 1] = r
          /\ \A i \in 1 .. n : u[i] = Ring(s)[i]
      BY <2>1, AppendProperties
    <2>3. /\ Ring(t) \in Seq(Request) /\ Len(Ring(t)) = n + 1
          /\ \A i \in 1 .. n + 1 : Ring(t)[i] = t.queue[RingSlot(t, i)]
      BY <1>8, <1>14, RingFacts
    <2> HIDE DEF u
    <2>4. ASSUME NEW i \in 1 .. n + 1 PROVE Ring(t)[i] = u[i]
      <3>1. i \in 1 .. n \/ i = n + 1
        BY <1>1
      <3>2. QED BY <1>12, <1>13, <2>1, <2>2, <2>3, <3>1
    <2>5. QED BY <2>2, <2>3, <2>4, SeqEqual DEF u
  <1>16. QED BY <1>6, <1>8, <1>14, <1>15 DEF t, n

(* A step that leaves the ring's fields alone leaves the ring alone.       *)
LEMMA SameRing ==
    ASSUME NEW s, DriverOK(s), NEW t \in Driver,
           t.queue = s.queue, t.front = s.front, t.back = s.back,
           t.sent = s.sent, t.queued = s.queued
    PROVE  DriverOK(t) /\ Ring(t) = Ring(s) /\ Count(t) = Count(s)
  <1>1. Count(t) = Count(s)
    BY DEF Count
  <1>2. \A i : RingSlot(t, i) = RingSlot(s, i)
    BY DEF RingSlot
  <1>3. Ring(t) = Ring(s)
    BY <1>1, <1>2 DEF Ring
  <1>4. QED BY <1>1, <1>2, <1>3 DEF DriverOK

(* The head of the ring goes to the mailbox, and a reboot takes its two    *)
(* acknowledgements.                                                       *)
LEMMA Dequeue ==
    ASSUME NEW s, DriverOK(s), Count(s) # 0
    PROVE  LET t == SendRequest(s)
               r == Head(Ring(s))
               reboot == reqKind[r] = "reboot"
           IN  /\ DriverOK(t) /\ Ring(t) = Tail(Ring(s)) /\ Count(t) = Count(s) - 1
               /\ r \in Request /\ t.ppcmsg = r /\ t.queued = s.queued
               /\ t.mailboxAck = IF reboot THEN s.mailboxAck - 2 ELSE s.mailboxAck - 1
               /\ t.relnchFl = IF reboot THEN TRUE ELSE s.relnchFl
               /\ t.relnchRpc = IF reboot THEN r ELSE s.relnchRpc
  <1> DEFINE t == SendRequest(s)
             n == Count(s)
             r == s.queue[s.front]
             f == Advance(s.front)
             e == (s.sent + 1) % IpcWord
             reboot == reqKind[r] = "reboot"
             ack == IF reboot THEN s.mailboxAck - 2 ELSE s.mailboxAck - 1
             fl == IF reboot THEN TRUE ELSE s.relnchFl
             rpc == IF reboot THEN r ELSE s.relnchRpc
  <1>1. /\ n \in 1 .. IpcCapacity /\ IpcCapacity \in Nat \ {0}
        /\ IpcWord \in Nat /\ IpcCapacity < IpcWord
        /\ s.sent \in 0 .. IpcWord - 1 /\ s.queued \in 0 .. IpcWord - 1
        /\ s.front \in 0 .. IpcCapacity - 1 /\ s.back \in 0 .. IpcCapacity - 1
        /\ s \in Driver /\ s.mailboxAck \in Int /\ s.relnchFl \in BOOLEAN
        /\ s.relnchRpc \in Request \cup {Null}
    BY DriverFacts
  <1>2. RingSlot(s, 1) = s.front
    <2>1. 1 \in 1 .. IpcCapacity + 1
      BY <1>1
    <2>2. RingSlot(s, 1) = IF s.front + 1 - 1 < IpcCapacity THEN s.front + 1 - 1
                           ELSE s.front + 1 - 1 - IpcCapacity
      BY <2>1, SlotFacts
    <2>3. QED BY <1>1, <2>2
  <1>3. Ring(s) \in Seq(Request) /\ Len(Ring(s)) = n
        /\ \A i \in 1 .. n : Ring(s)[i] = s.queue[RingSlot(s, i)]
    BY RingFacts
  <1>4. r \in Request /\ r = Head(Ring(s)) /\ r # Null
    <2>1. 1 \in 1 .. n /\ Ring(s) # << >>
      BY <1>1, RingFacts
    <2>2. Head(Ring(s)) = Ring(s)[1] /\ Ring(s)[1] = r
      BY <1>2, <1>3, <2>1, HeadTailProperties
    <2>3. r \in Request
      BY <1>2, <2>1 DEF DriverOK
    <2>4. QED BY <2>2, <2>3, IpcAssumption DEF Null
  <1>5. ~NothingToSend(s)
    BY Counters
  <1> HIDE DEF n
  <1>6. t = [s EXCEPT !.ppcmsg = r, !.front = f, !.sent = e, !.mailboxAck = ack,
                      !.relnchFl = fl, !.relnchRpc = rpc]
    BY <1>1, <1>4, <1>5 DEF SendRequest, Driver
  <1>7. e = s.sent + 1 /\ e \in 0 .. IpcWord - 1
    <2> DEFINE k == s.sent + 1
    <2>1. IpcWord \in Nat \ {0} /\ k \in 0 .. 2 * IpcWord - 1 /\ k < IpcWord
      BY <1>1 DEF n, Count
    <2> HIDE DEF k
    <2>2. k % IpcWord = k
      BY <2>1, WrapOnce
    <2>3. QED BY <1>1, <2>1, <2>2 DEF k
  <1>8. f = IF s.front + 1 < IpcCapacity THEN s.front + 1 ELSE s.front + 1 - IpcCapacity
    <2> DEFINE k == s.front + 1
    <2>1. IpcCapacity \in Nat \ {0} /\ k \in 0 .. 2 * IpcCapacity - 1
      BY <1>1
    <2> HIDE DEF k
    <2>2. k % IpcCapacity = IF k < IpcCapacity THEN k ELSE k - IpcCapacity
      BY <2>1, WrapOnce
    <2>3. QED BY <1>1, <2>2 DEF k, Advance
  <1>9. f \in Index /\ ack \in Int /\ fl \in BOOLEAN /\ rpc \in Request \cup {Null}
    <2>1. f \in Index
      <3> HIDE DEF f
      <3>1. QED BY <1>1, <1>8 DEF Index
    <2>2. ack \in Int
      BY <1>1
    <2>3. fl \in BOOLEAN
      BY <1>1
    <2>4. QED BY <1>1, <1>4, <2>1, <2>2, <2>3
  <1>10. Head(Ring(s)) = r
    BY <1>4
  <1> HIDE DEF f, e, ack, fl, rpc, t
  <1>11. /\ t \in Driver /\ t.queue = s.queue /\ t.back = s.back /\ t.queued = s.queued
         /\ t.front = f /\ t.sent = e /\ t.ppcmsg = r /\ t.mailboxAck = ack
         /\ t.relnchFl = fl /\ t.relnchRpc = rpc
    <2> HIDE DEF r
    <2>1. s \in Driver
      BY <1>1
    <2>2. QED BY <1>4, <1>6, <1>7, <1>9, <2>1 DEF Driver
  <1>12. Count(t) = n - 1
    BY <1>1, <1>7, <1>11 DEF Count, n
  <1>13. \A i \in 1 .. n : RingSlot(t, i) = RingSlot(s, i + 1)
    <2> SUFFICES ASSUME NEW i \in 1 .. n PROVE RingSlot(t, i) = RingSlot(s, i + 1)
      OBVIOUS
    <2>1. i + 1 \in 1 .. IpcCapacity + 1
      BY <1>1
    <2>2. RingSlot(s, i + 1) = IF s.front + (i + 1) - 1 < IpcCapacity THEN s.front + (i + 1) - 1
                               ELSE s.front + (i + 1) - 1 - IpcCapacity
      BY <2>1, SlotFacts
    <2> DEFINE k == f + i - 1
    <2>3. IpcCapacity \in Nat \ {0} /\ k \in 0 .. 2 * IpcCapacity - 1
      BY <1>1, <1>8
    <2>4. RingSlot(t, i) = k % IpcCapacity
      BY <1>11 DEF RingSlot
    <2>5. k = IF s.front + 1 < IpcCapacity THEN s.front + i ELSE s.front + i - IpcCapacity
      BY <1>1, <1>8
    <2> HIDE DEF k
    <2>6. k % IpcCapacity = IF k < IpcCapacity THEN k ELSE k - IpcCapacity
      BY <2>3, WrapOnce
    <2>7. QED BY <1>1, <2>2, <2>4, <2>5, <2>6
  <1>14. DriverOK(t)
    <2>1. Count(t) \in 0 .. IpcCapacity
      BY <1>1, <1>12
    <2>2. t.back = (t.front + Count(t)) % IpcCapacity
      <3>1. s.back = RingSlot(s, n + 1)
        <4>1. s.back = (s.front + n) % IpcCapacity
          BY DEF DriverOK, n
        <4>2. s.front + (n + 1) - 1 = s.front + n
          BY <1>1
        <4>3. QED BY <4>1, <4>2 DEF RingSlot
      <3>2. RingSlot(s, n + 1) = RingSlot(t, n)
        BY <1>1, <1>13
      <3>3. RingSlot(t, n) = (t.front + Count(t)) % IpcCapacity
        <4>1. t.front + n - 1 = t.front + Count(t)
          BY <1>1, <1>8, <1>11, <1>12
        <4>2. QED BY <4>1 DEF RingSlot
      <3>4. QED BY <1>11, <3>1, <3>2, <3>3
    <2>3. \A i \in 1 .. Count(t) : t.queue[RingSlot(t, i)] \in Request
      <3>1. \A i \in 1 .. n : s.queue[RingSlot(s, i)] \in Request
        BY DEF DriverOK, n
      <3>2. \A i \in 1 .. n - 1 : i \in 1 .. n /\ i + 1 \in 1 .. n
        BY <1>1
      <3>3. QED BY <1>11, <1>12, <1>13, <3>1, <3>2
    <2>4. QED BY <1>11, <2>1, <2>2, <2>3 DEF DriverOK
  <1>15. Ring(t) = Tail(Ring(s))
    <2> DEFINE u == Tail(Ring(s))
    <2>1. Ring(s) # << >>
      BY <1>1, RingFacts DEF n
    <2>2. /\ u \in Seq(Request) /\ Len(u) = n - 1
          /\ \A i \in 1 .. n - 1 : u[i] = Ring(s)[i + 1]
      BY <1>3, <2>1, HeadTailProperties
    <2>3. /\ Ring(t) \in Seq(Request) /\ Len(Ring(t)) = n - 1
          /\ \A i \in 1 .. n - 1 : Ring(t)[i] = t.queue[RingSlot(t, i)]
      BY <1>12, <1>14, RingFacts
    <2> HIDE DEF u
    <2>4. ASSUME NEW i \in 1 .. n - 1 PROVE Ring(t)[i] = u[i]
      <3>1. i \in 1 .. n /\ i + 1 \in 1 .. n
        BY <1>1
      <3>2. QED BY <1>3, <1>11, <1>13, <2>2, <2>3, <3>1
    <2>5. QED BY <2>2, <2>3, <2>4, SeqEqual DEF u
  <1>16. QED
    BY <1>4, <1>11, <1>12, <1>14, <1>15 DEF t, n, ack, fl, rpc

-----------------------------------------------------------------------------
(***************************************************************************)
(* The driver's state s, the set S of the requests IOS has and has not     *)
(* finished, and its acknowledge bit ak.                                   *)
(***************************************************************************)
Waits(s) == ToSet(Ring(s))
Mailbox(s) == {s.ppcmsg} \ {Null}
Relaunching(s) == IF s.relnchFl THEN {s.relnchRpc} ELSE {}
Held(s, S) == Waits(s) \cup Mailbox(s) \cup S \cup Relaunching(s)

(* No request is in two places.                                            *)
PipeOK(s, S) ==
    /\ DriverOK(s)
    /\ IsInjective(Ring(s))
    /\ Mailbox(s) \cap Waits(s) = {}
    /\ S \subseteq Request
    /\ S \cap (Mailbox(s) \cup Waits(s)) = {}

(* A reboot is with IOS, or on its way to it in the mailbox.               *)
Sent(s, S) == Mailbox(s) \cup S
Pending(s, S) == s.relnchFl /\ s.relnchRpc \in Sent(s, S)

(* The account: a message in the mailbox or its acknowledgement, and a     *)
(* pending reboot, each take one from the single one there is.  A reboot   *)
(* has no company but the requests sent before it; once they are dropped   *)
(* the new IOS's acknowledgement is due.                                   *)
AccountOK(s, S, ak, kind) ==
    /\ ~(s.ppcmsg # Null /\ ak)
    /\ s.mailboxAck = (IF Pending(s, S) THEN 0 ELSE 1)
                         - (IF s.ppcmsg # Null \/ ak THEN 1 ELSE 0)
    /\ s.relnchFl => /\ s.relnchRpc \in Request
                     /\ kind[s.relnchRpc] = "reboot"
                     /\ Mailbox(s) \subseteq {s.relnchRpc}
                     /\ s.relnchRpc \notin Waits(s)
                     /\ ~Pending(s, S) => ak /\ Sent(s, S) = {}
    /\ \A r \in Sent(s, S) : kind[r] = "reboot" => s.relnchFl /\ s.relnchRpc = r

(* Requests wait while the next acknowledgement is already in hand.        *)
Stalled(s) == Count(s) > 0 /\ s.mailboxAck > 0

LEMMA PipeFacts ==
    ASSUME NEW s, NEW S, PipeOK(s, S)
    PROVE  /\ Ring(s) \in Seq(Request) /\ Waits(s) \subseteq Request
           /\ (Waits(s) = {} <=> Count(s) = 0) /\ (Ring(s) = << >> <=> Count(s) = 0)
           /\ Count(s) \in Nat
           /\ Mailbox(s) \subseteq Request /\ Sent(s, S) \subseteq Request
           /\ s.ppcmsg \in Request \cup {Null} /\ Null \notin Request
           /\ (s.ppcmsg # Null <=> Mailbox(s) # {})
           /\ (s.ppcmsg # Null => Mailbox(s) = {s.ppcmsg})
           /\ s.mailboxAck \in Int /\ s.relnchFl \in BOOLEAN
  <1>1. DriverOK(s)
    BY DEF PipeOK
  <1>2. /\ Ring(s) \in Seq(Request) /\ (Ring(s) = << >> <=> Count(s) = 0)
        /\ Count(s) \in Nat /\ s.ppcmsg \in Request \cup {Null}
        /\ s.mailboxAck \in Int /\ s.relnchFl \in BOOLEAN
    BY <1>1, RingFacts, DriverFacts
  <1>3. Waits(s) \subseteq Request /\ (Waits(s) = {} <=> Ring(s) = << >>)
    <2>1. \A i \in DOMAIN Ring(s) : Ring(s)[i] \in Request
      BY <1>2, LenProperties, ElementOfSeq
    <2>2. QED BY <1>2, <2>1, EmptySet DEF Waits, ToSet
  <1>4. Null \notin Request
    BY IpcAssumption DEF Null
  <1>5. S \subseteq Request
    BY DEF PipeOK
  <1>6. QED BY <1>2, <1>3, <1>4, <1>5 DEF Mailbox, Sent

(* Only which of the blocks are reboots matters to the account.            *)
LEMMA KindsAgree ==
    ASSUME NEW s, NEW S, NEW ak, NEW kind, NEW other, AccountOK(s, S, ak, kind),
           \A r \in Held(s, S) : kind[r] = "reboot" <=> other[r] = "reboot"
    PROVE  AccountOK(s, S, ak, other)
  <1>1. \A r \in Sent(s, S) : r \in Held(s, S)
    BY DEF Sent, Held
  <1>2. s.relnchFl => s.relnchRpc \in Held(s, S)
    BY DEF Held, Relaunching
  <1>3. QED BY <1>1, <1>2 DEF AccountOK

(* A message is sent into an empty mailbox only, and never under a         *)
(* relaunch; after that nothing stalls.                                    *)
LEMMA Sending ==
    ASSUME NEW s, NEW S, NEW ak, PipeOK(s, S), AccountOK(s, S, ak, reqKind), ak \in BOOLEAN
    PROVE  LET t == SendIfReady(s) IN
           /\ PipeOK(t, S) /\ AccountOK(t, S, ak, reqKind) /\ ~Stalled(t)
           /\ Held(t, S) = Held(s, S) /\ Pipe(t) = Pipe(s) /\ t.queued = s.queued
           /\ s.ppcmsg # Null => t.ppcmsg = s.ppcmsg
  <1> DEFINE t == SendIfReady(s)
             n == SendRequest(s)
  <1>1. /\ s.mailboxAck \in Int /\ s.relnchFl \in BOOLEAN /\ DriverOK(s) /\ Count(s) \in Nat
    BY PipeFacts DEF PipeOK
  <1>2. CASE ~(s.mailboxAck > 0)
    BY <1>2 DEF SendIfReady, Stalled
  <1>3. CASE Count(s) = 0
    <2>1. NothingToSend(s)
      BY <1>1, <1>3, Counters
    <2>2. t = s
      BY <2>1 DEF SendIfReady, SendRequest
    <2>3. QED BY <1>3, <2>2 DEF Stalled
  <1>4. CASE s.mailboxAck > 0 /\ Count(s) # 0
    <2> DEFINE r == Head(Ring(s))
    <2>1. t = n
      BY <1>4 DEF SendIfReady
    <2>2. /\ DriverOK(n) /\ Ring(n) = Tail(Ring(s))
          /\ r \in Request /\ n.ppcmsg = r /\ n.queued = s.queued
          /\ n.mailboxAck = IF reqKind[r] = "reboot" THEN s.mailboxAck - 2
                            ELSE s.mailboxAck - 1
          /\ n.relnchFl = IF reqKind[r] = "reboot" THEN TRUE ELSE s.relnchFl
          /\ n.relnchRpc = IF reqKind[r] = "reboot" THEN r ELSE s.relnchRpc
      BY <1>1, <1>4, Dequeue
    <2>3. s.mailboxAck = 1 /\ s.ppcmsg = Null /\ ~ak /\ ~Pending(s, S)
      <3> DEFINE pending == Pending(s, S)
      <3>1. s.mailboxAck = (IF pending THEN 0 ELSE 1)
                              - (IF s.ppcmsg # Null \/ ak THEN 1 ELSE 0)
        BY DEF AccountOK
      <3> HIDE DEF pending
      <3>2. s.mailboxAck = 1 /\ s.ppcmsg = Null /\ ~ak /\ ~pending
        BY <1>1, <1>4, <3>1
      <3>3. QED BY <3>2 DEF pending
    <2>4. ~s.relnchFl /\ Mailbox(s) = {} /\ Relaunching(s) = {}
      BY <2>3 DEF AccountOK, Mailbox, Relaunching
    <2>5. /\ Waits(s) = Waits(n) \cup {r} /\ r \notin Waits(n) /\ IsInjective(Ring(n))
      <3>1. Ring(s) \in Seq(Request) /\ Ring(s) # << >> /\ IsInjective(Ring(s))
        BY <1>4, PipeFacts DEF PipeOK
      <3>2. QED BY <2>2, <3>1, TailSet DEF Waits
    <2>6. Mailbox(n) = {r} /\ r # Null
      <3>1. r # Null
        BY <2>2, PipeFacts
      <3>2. QED BY <2>2, <3>1 DEF Mailbox
    <2>7. S \subseteq Request /\ S \cap Waits(s) = {}
      BY DEF PipeOK
    <2>8. PipeOK(n, S)
      <3> HIDE DEF n, r
      <3>1. QED BY <2>2, <2>5, <2>6, <2>7 DEF PipeOK
    <2>9. \A x \in S : reqKind[x] # "reboot"
      BY <2>4 DEF AccountOK, Sent
    <2>10. Held(n, S) = Held(s, S)
      <3> HIDE DEF n, r
      <3>1. Relaunching(n) \subseteq {r}
        BY <2>2, <2>4 DEF Relaunching
      <3>2. QED BY <2>4, <2>5, <2>6, <3>1 DEF Held
    <2>11. Pipe(n) = Pipe(s)
      <3>1. Ring(s) \in Seq(Request) /\ Ring(s) # << >>
        BY <1>4, PipeFacts
      <3>2. Pipe(s) = Ring(s)
        <4>1. Pipe(s) = << >> \o Ring(s)
          BY <2>3 DEF Pipe
        <4>2. QED BY <3>1, <4>1, ConcatEmptySeq
      <3>3. Pipe(n) = <<r>> \o Tail(Ring(s))
        BY <2>2, <2>6 DEF Pipe
      <3>4. <<r>> \o Tail(Ring(s)) = Ring(s)
        <4>1. QED BY <3>1
      <3>5. QED BY <3>2, <3>3, <3>4
    <2>12. AccountOK(n, S, ak, reqKind)
      <3> HIDE DEF n, r
      <3>1. CASE reqKind[r] = "reboot"
        <4>1. n.mailboxAck = -1 /\ n.relnchFl /\ n.relnchRpc = r /\ r \in Sent(n, S)
          BY <2>2, <2>3, <2>6, <3>1 DEF Sent
        <4>2. Pending(n, S)
          BY <4>1 DEF Pending
        <4>3. \A x \in Sent(n, S) : reqKind[x] = "reboot" => x = r
          BY <2>6, <2>9 DEF Sent
        <4>4. n.ppcmsg # Null
          BY <2>2, <2>6
        <4>5. QED BY <2>2, <2>3, <2>5, <2>6, <3>1, <4>1, <4>2, <4>3, <4>4 DEF AccountOK
      <3>2. CASE reqKind[r] # "reboot"
        <4>1. n.mailboxAck = 0 /\ ~n.relnchFl
          BY <2>2, <2>3, <2>4, <3>2
        <4>2. ~Pending(n, S)
          BY <4>1 DEF Pending
        <4>3. \A x \in Sent(n, S) : reqKind[x] # "reboot"
          BY <2>6, <2>9, <3>2 DEF Sent
        <4>4. n.ppcmsg # Null
          BY <2>2, <2>6
        <4>5. QED BY <2>3, <4>1, <4>2, <4>3, <4>4 DEF AccountOK
      <3>3. QED BY <3>1, <3>2
    <2>13. ~(n.mailboxAck > 0)
      <3> HIDE DEF n, r
      <3>1. QED BY <2>2, <2>3
    <2>14. QED
      BY <2>1, <2>2, <2>3, <2>8, <2>10, <2>11, <2>12, <2>13 DEF Stalled
  <1>5. QED BY <1>2, <1>3, <1>4

(* A request nobody holds goes behind those that wait.                     *)
LEMMA Enqueueing ==
    ASSUME NEW s, NEW S, NEW ak, PipeOK(s, S), AccountOK(s, S, ak, reqKind),
           ~QueueFull(s), NEW r \in Request, r \notin Held(s, S),
           QueueRequest(s, r).queued >= s.queued
    PROVE  LET t == QueueRequest(s, r) IN
           /\ PipeOK(t, S) /\ AccountOK(t, S, ak, reqKind)
           /\ Held(t, S) = Held(s, S) \cup {r} /\ Pipe(t) = Append(Pipe(s), r)
           /\ t.ppcmsg = s.ppcmsg
  <1> DEFINE t == QueueRequest(s, r)
  <1>1. DriverOK(s) /\ Count(s) # IpcCapacity
    BY Counters DEF PipeOK
  <1>2. /\ DriverOK(t) /\ Ring(t) = Append(Ring(s), r)
        /\ t.ppcmsg = s.ppcmsg /\ t.mailboxAck = s.mailboxAck
        /\ t.relnchFl = s.relnchFl /\ t.relnchRpc = s.relnchRpc
    BY <1>1, Enqueue
  <1> HIDE DEF t
  <1>3. r \notin Waits(s) /\ r \notin Mailbox(s) /\ r \notin S /\ r \notin Relaunching(s)
    BY DEF Held
  <1>4. Waits(t) = Waits(s) \cup {r} /\ IsInjective(Ring(t))
    <2>1. Ring(s) \in Seq(Request) /\ IsInjective(Ring(s)) /\ r \notin ToSet(Ring(s))
      BY <1>3, PipeFacts DEF PipeOK, Waits
    <2>2. QED BY <1>2, <2>1, AppendSet DEF Waits
  <1>5. /\ Mailbox(t) = Mailbox(s) /\ Relaunching(t) = Relaunching(s)
        /\ Sent(t, S) = Sent(s, S) /\ Pending(t, S) = Pending(s, S)
    BY <1>2 DEF Mailbox, Relaunching, Sent, Pending
  <1>6. PipeOK(t, S)
    BY <1>2, <1>3, <1>4, <1>5 DEF PipeOK
  <1>7. AccountOK(t, S, ak, reqKind)
    <2>1. s.relnchFl => s.relnchRpc # r
      BY <1>3 DEF Relaunching
    <2>2. s.relnchFl => /\ s.relnchRpc \in Request
                        /\ reqKind[s.relnchRpc] = "reboot"
                        /\ Mailbox(s) \subseteq {s.relnchRpc}
                        /\ s.relnchRpc \notin Waits(s)
                        /\ ~Pending(s, S) => ak /\ Sent(s, S) = {}
      BY DEF AccountOK
    <2>3. t.relnchFl => /\ t.relnchRpc \in Request
                        /\ reqKind[t.relnchRpc] = "reboot"
                        /\ Mailbox(t) \subseteq {t.relnchRpc}
                        /\ t.relnchRpc \notin Waits(t)
                        /\ ~Pending(t, S) => ak /\ Sent(t, S) = {}
      BY <1>2, <1>4, <1>5, <2>1, <2>2
    <2>4. /\ ~(s.ppcmsg # Null /\ ak)
          /\ s.mailboxAck = (IF Pending(s, S) THEN 0 ELSE 1)
                               - (IF s.ppcmsg # Null \/ ak THEN 1 ELSE 0)
          /\ \A x \in Sent(s, S) : reqKind[x] = "reboot" => s.relnchFl /\ s.relnchRpc = x
      BY DEF AccountOK
    <2>5. /\ ~(t.ppcmsg # Null /\ ak)
          /\ t.mailboxAck = (IF Pending(t, S) THEN 0 ELSE 1)
                               - (IF t.ppcmsg # Null \/ ak THEN 1 ELSE 0)
          /\ \A x \in Sent(t, S) : reqKind[x] = "reboot" => t.relnchFl /\ t.relnchRpc = x
      BY <1>2, <1>5, <2>4
    <2>6. QED BY <2>3, <2>5 DEF AccountOK
  <1>8. Held(t, S) = Held(s, S) \cup {r}
    BY <1>4, <1>5 DEF Held
  <1>9. Pipe(t) = Append(Pipe(s), r)
    <2> DEFINE p == IF s.ppcmsg = Null THEN << >> ELSE <<s.ppcmsg>>
    <2>1. p \in Seq(Request)
      BY PipeFacts
    <2>2. Ring(s) \in Seq(Request)
      BY PipeFacts
    <2> HIDE DEF p
    <2>3. p \o Append(Ring(s), r) = Append(p \o Ring(s), r)
      BY <2>1, <2>2
    <2>4. QED BY <1>2, <2>3 DEF Pipe, p
  <1>10. QED BY <1>2, <1>6, <1>7, <1>8, <1>9 DEF t

(* Both, and what they say of the state a call leaves.                     *)
LEMMA QueueOnly ==
    ASSUME NEW s, DriverOK(s), Count(s) # IpcCapacity, NEW r
    PROVE  SendIfReady(QueueRequest(s, r)).queued = QueueRequest(s, r).queued
  <1>1. s \in Driver
    BY DriverFacts
  <1> DEFINE t == QueueRequest(s, r)
  <1>2. t = [[[s EXCEPT !.queue = [s.queue EXCEPT ![s.back] = r]]
                 EXCEPT !.back = Advance(s.back)]
                 EXCEPT !.queued = (s.queued + 1) % IpcWord]
    BY <1>1 DEF QueueRequest, Driver
  <1>3. DOMAIN t = DOMAIN s /\ "queued" \in DOMAIN s
    BY <1>1, <1>2 DEF Driver
  <1> HIDE DEF t
  <1>4. SendRequest(t).queued = t.queued
    BY <1>3 DEF SendRequest
  <1>5. QED BY <1>4 DEF SendIfReady, t

LEMMA Calling ==
    ASSUME NEW s, NEW S, NEW ak, PipeOK(s, S), AccountOK(s, S, ak, reqKind), ak \in BOOLEAN,
           ~QueueFull(s), NEW r \in Request, r \notin Held(s, S),
           SendIfReady(QueueRequest(s, r)).queued >= s.queued
    PROVE  LET t == SendIfReady(QueueRequest(s, r)) IN
           /\ PipeOK(t, S) /\ AccountOK(t, S, ak, reqKind) /\ ~Stalled(t)
           /\ Held(t, S) = Held(s, S) \cup {r} /\ Pipe(t) = Append(Pipe(s), r)
           /\ s.ppcmsg # Null => t.ppcmsg = s.ppcmsg
  <1> DEFINE q == QueueRequest(s, r)
  <1>1. q.queued >= s.queued
    BY QueueOnly, Counters DEF PipeOK
  <1>2. /\ PipeOK(q, S) /\ AccountOK(q, S, ak, reqKind)
        /\ Held(q, S) = Held(s, S) \cup {r} /\ Pipe(q) = Append(Pipe(s), r)
        /\ q.ppcmsg = s.ppcmsg
    BY <1>1, Enqueueing
  <1> HIDE DEF q
  <1>3. LET t == SendIfReady(q) IN
        /\ PipeOK(t, S) /\ AccountOK(t, S, ak, reqKind) /\ ~Stalled(t)
        /\ Held(t, S) = Held(q, S) /\ Pipe(t) = Pipe(q)
        /\ q.ppcmsg # Null => t.ppcmsg = q.ppcmsg
    BY <1>2, Sending
  <1>4. QED BY <1>2, <1>3 DEF q

(* One acknowledgement more. *)
LEMMA AckFields ==
    ASSUME NEW s \in Driver, NEW fl \in BOOLEAN
    PROVE  LET n == [s EXCEPT !.relnchFl = fl]
               t == CountAck(n)
           IN  /\ n \in Driver /\ t \in Driver
               /\ n.queue = s.queue /\ n.front = s.front /\ n.back = s.back
               /\ n.sent = s.sent /\ n.queued = s.queued /\ n.ppcmsg = s.ppcmsg
               /\ n.relnchRpc = s.relnchRpc /\ n.relnchFl = fl /\ n.mailboxAck = s.mailboxAck
               /\ t.queue = s.queue /\ t.front = s.front /\ t.back = s.back
               /\ t.sent = s.sent /\ t.queued = s.queued /\ t.ppcmsg = s.ppcmsg
               /\ t.relnchRpc = s.relnchRpc /\ t.relnchFl = fl
               /\ t.mailboxAck = IF s.mailboxAck < 1 THEN s.mailboxAck + 1 ELSE s.mailboxAck
  <1> DEFINE n == [s EXCEPT !.relnchFl = fl]
             t == CountAck(n)
             ack == IF s.mailboxAck < 1 THEN s.mailboxAck + 1 ELSE s.mailboxAck
  <1>1. /\ n \in Driver
        /\ n.queue = s.queue /\ n.front = s.front /\ n.back = s.back
        /\ n.sent = s.sent /\ n.queued = s.queued /\ n.ppcmsg = s.ppcmsg
        /\ n.relnchRpc = s.relnchRpc /\ n.relnchFl = fl /\ n.mailboxAck = s.mailboxAck
    BY DEF Driver
  <1>2. ack \in Int
    BY DEF Driver
  <1> HIDE DEF n
  <1>3. t = [n EXCEPT !.mailboxAck = ack]
    BY <1>1 DEF CountAck, Driver
  <1> HIDE DEF t, ack
  <1>4. /\ t \in Driver
        /\ t.queue = n.queue /\ t.front = n.front /\ t.back = n.back
        /\ t.sent = n.sent /\ t.queued = n.queued /\ t.ppcmsg = n.ppcmsg
        /\ t.relnchRpc = n.relnchRpc /\ t.relnchFl = n.relnchFl /\ t.mailboxAck = ack
    BY <1>1, <1>2, <1>3 DEF Driver
  <1>5. QED BY <1>1, <1>4 DEF n, t, ack

(* IOS answers r, which IpcReplyHandler takes off the books; the refusal   *)
(* of a reboot gives an acknowledgement back and may stall the ring.       *)
LEMMA Refusing ==
    ASSUME NEW s, NEW S, NEW ak, PipeOK(s, S), AccountOK(s, S, ak, reqKind), ak \in BOOLEAN,
           NEW r \in S
    PROVE  LET t == RelaunchRefused(s, r)
               T == S \ {r}
           IN  /\ PipeOK(t, T) /\ AccountOK(t, T, ak, reqKind)
               /\ Held(t, T) = Held(s, S) \ {r} /\ Pipe(t) = Pipe(s) /\ t.queued = s.queued
               /\ t.ppcmsg = s.ppcmsg
               /\ Stalled(t) => Stalled(s) \/ reqKind[r] = "reboot"
  <1> DEFINE t == RelaunchRefused(s, r)
             T == S \ {r}
  <1>1. /\ DriverOK(s) /\ s \in Driver /\ s.mailboxAck \in Int /\ s.relnchFl \in BOOLEAN
        /\ S \subseteq Request /\ S \cap (Mailbox(s) \cup Waits(s)) = {}
        /\ IsInjective(Ring(s)) /\ Mailbox(s) \cap Waits(s) = {}
    BY PipeFacts, DriverFacts DEF PipeOK
  <1>2. Sent(s, T) = Sent(s, S) \ {r}
    BY <1>1 DEF Sent
  <1>3. CASE s.relnchFl /\ s.relnchRpc = r
    <2>1. Pending(s, S)
      BY <1>3 DEF Pending, Sent
    <2>2. s.mailboxAck < 1 /\ s.mailboxAck + 1 = 1 - (IF s.ppcmsg # Null \/ ak THEN 1 ELSE 0)
      BY <1>1, <2>1 DEF AccountOK
    <2> DEFINE n == CountAck([s EXCEPT !.relnchFl = FALSE])
    <2>3. t = n
      BY <1>3 DEF RelaunchRefused
    <2>4. /\ n \in Driver
          /\ n.queue = s.queue /\ n.front = s.front /\ n.back = s.back
          /\ n.sent = s.sent /\ n.queued = s.queued /\ n.ppcmsg = s.ppcmsg
          /\ ~n.relnchFl /\ n.mailboxAck = s.mailboxAck + 1
      BY <1>1, <2>2, AckFields
    <2> HIDE DEF t, n
    <2>5. DriverOK(n) /\ Ring(n) = Ring(s) /\ Count(n) = Count(s)
      BY <1>1, <2>4, SameRing
    <2>6. Waits(n) = Waits(s) /\ Mailbox(n) = Mailbox(s) /\ Relaunching(n) = {}
      BY <2>4, <2>5 DEF Waits, Mailbox, Relaunching
    <2>7. PipeOK(n, T)
      BY <1>1, <2>5, <2>6 DEF PipeOK
    <2>8. Sent(n, T) = Sent(s, S) \ {r} /\ ~Pending(n, T)
      BY <1>2, <2>4, <2>6 DEF Sent, Pending
    <2>9. \A x \in Sent(n, T) : reqKind[x] # "reboot"
      BY <1>3, <2>8 DEF AccountOK
    <2>10. ~(n.ppcmsg # Null /\ ak)
      BY <2>4 DEF AccountOK
    <2>11. n.mailboxAck = (IF Pending(n, T) THEN 0 ELSE 1)
                             - (IF n.ppcmsg # Null \/ ak THEN 1 ELSE 0)
      BY <2>2, <2>4, <2>8
    <2>12. AccountOK(n, T, ak, reqKind)
      BY <2>4, <2>9, <2>10, <2>11 DEF AccountOK
    <2>13. Held(n, T) = Held(s, S) \ {r}
      BY <1>1, <1>3, <2>6 DEF Held, Relaunching
    <2>14. Pipe(n) = Pipe(s)
      BY <2>4, <2>5 DEF Pipe
    <2>15. reqKind[r] = "reboot"
      BY <1>3 DEF AccountOK
    <2>16. QED BY <2>3, <2>4, <2>7, <2>12, <2>13, <2>14, <2>15 DEF t
  <1>4. CASE ~(s.relnchFl /\ s.relnchRpc = r)
    <2>1. t = s
      BY <1>4 DEF RelaunchRefused
    <2>2. PipeOK(s, T)
      BY <1>1 DEF PipeOK
    <2>3. Pending(s, T) <=> Pending(s, S)
      BY <1>2, <1>4 DEF Pending
    <2>4. s.relnchFl => (~Pending(s, S) => ak /\ Sent(s, T) = {})
      BY <1>2 DEF AccountOK
    <2>5. \A x \in Sent(s, T) : x \in Sent(s, S)
      BY <1>2
    <2>6. AccountOK(s, T, ak, reqKind)
      BY <2>3, <2>4, <2>5 DEF AccountOK
    <2>7. Held(s, T) = Held(s, S) \ {r}
      BY <1>1, <1>4 DEF Held, Relaunching
    <2>8. QED BY <2>1, <2>2, <2>6, <2>7
  <1>5. QED BY <1>3, <1>4

(* IpcAckHandler counts the acknowledgement, and with that of the new IOS  *)
(* the reboot is over.                                                     *)
LEMMA Acknowledging ==
    ASSUME NEW s, NEW S, PipeOK(s, S), AccountOK(s, S, TRUE, reqKind)
    PROVE  LET c == CountAck(s)
               t == IF Relaunched(c) THEN [c EXCEPT !.relnchFl = FALSE] ELSE c
           IN  /\ PipeOK(t, S) /\ AccountOK(t, S, FALSE, reqKind)
               /\ s.ppcmsg = Null /\ Pipe(t) = Pipe(s) /\ t.queued = s.queued
               /\ c.relnchRpc = s.relnchRpc
               /\ IF Relaunched(c)
                  THEN /\ S = {} /\ s.relnchFl /\ s.relnchRpc \in Request
                       /\ Held(t, S) = Held(s, S) \ {s.relnchRpc}
                  ELSE Held(t, S) = Held(s, S)
  <1> DEFINE c == CountAck(s)
             t == IF Relaunched(c) THEN [c EXCEPT !.relnchFl = FALSE] ELSE c
  <1>1. /\ DriverOK(s) /\ s \in Driver /\ s.mailboxAck \in Int /\ s.relnchFl \in BOOLEAN
        /\ S \subseteq Request /\ S \cap (Mailbox(s) \cup Waits(s)) = {}
        /\ IsInjective(Ring(s)) /\ Mailbox(s) \cap Waits(s) = {}
    BY PipeFacts, DriverFacts DEF PipeOK
  <1>2. s.ppcmsg = Null /\ Mailbox(s) = {}
    BY DEF AccountOK, Mailbox
  <1>3. s.mailboxAck = IF Pending(s, S) THEN -1 ELSE 0
    BY <1>1, <1>2 DEF AccountOK
  <1>4. s = [s EXCEPT !.relnchFl = s.relnchFl]
    BY <1>1 DEF Driver
  <1>5. /\ c \in Driver
        /\ c.queue = s.queue /\ c.front = s.front /\ c.back = s.back
        /\ c.sent = s.sent /\ c.queued = s.queued /\ c.ppcmsg = s.ppcmsg
        /\ c.relnchRpc = s.relnchRpc /\ c.relnchFl = s.relnchFl
        /\ c.mailboxAck = IF s.mailboxAck < 1 THEN s.mailboxAck + 1 ELSE s.mailboxAck
    BY <1>1, <1>4, AckFields
  <1>6. c.mailboxAck = IF Pending(s, S) THEN 0 ELSE 1
    <2> HIDE DEF c
    <2>1. CASE Pending(s, S)
      BY <1>3, <1>5, <2>1
    <2>2. CASE ~Pending(s, S)
      BY <1>3, <1>5, <2>2
    <2>3. QED BY <2>1, <2>2
  <1> HIDE DEF c
  <1>7. Relaunched(c) <=> s.relnchFl /\ ~Pending(s, S)
    BY <1>5, <1>6 DEF Relaunched
  <1> DEFINE fl == IF Relaunched(c) THEN FALSE ELSE s.relnchFl
  <1>8. /\ t \in Driver
        /\ t.queue = s.queue /\ t.front = s.front /\ t.back = s.back
        /\ t.sent = s.sent /\ t.queued = s.queued /\ t.ppcmsg = s.ppcmsg
        /\ t.relnchRpc = s.relnchRpc /\ t.relnchFl = fl /\ t.mailboxAck = c.mailboxAck
    <2> DEFINE n == [c EXCEPT !.relnchFl = FALSE]
    <2>1. /\ n \in Driver
          /\ n.queue = c.queue /\ n.front = c.front /\ n.back = c.back
          /\ n.sent = c.sent /\ n.queued = c.queued /\ n.ppcmsg = c.ppcmsg
          /\ n.relnchRpc = c.relnchRpc /\ n.relnchFl = FALSE /\ n.mailboxAck = c.mailboxAck
      BY <1>5, AckFields
    <2>2. t = IF Relaunched(c) THEN n ELSE c
      OBVIOUS
    <2> HIDE DEF n, t
    <2>3. QED BY <1>5, <2>1, <2>2
  <1> HIDE DEF t
  <1>9. fl <=> Pending(s, S)
    BY <1>1, <1>7 DEF Pending
  <1> HIDE DEF fl
  <1>10. DriverOK(t) /\ Ring(t) = Ring(s) /\ Count(t) = Count(s)
    BY <1>1, <1>8, SameRing
  <1>11. Waits(t) = Waits(s) /\ Mailbox(t) = {} /\ Sent(t, S) = S /\ Sent(s, S) = S
    BY <1>2, <1>8, <1>10 DEF Waits, Mailbox, Sent
  <1>12. PipeOK(t, S)
    BY <1>1, <1>10, <1>11 DEF PipeOK
  <1>13. Pending(t, S) <=> Pending(s, S)
    BY <1>8, <1>9, <1>11 DEF Pending
  <1>14. t.relnchFl <=> Pending(s, S)
    BY <1>8, <1>9
  <1>15. AccountOK(t, S, FALSE, reqKind)
    <2>1. t.mailboxAck = (IF Pending(t, S) THEN 0 ELSE 1)
                           - (IF t.ppcmsg # Null \/ FALSE THEN 1 ELSE 0)
      BY <1>2, <1>6, <1>8, <1>13
    <2>2. t.relnchFl => /\ t.relnchRpc \in Request
                        /\ reqKind[t.relnchRpc] = "reboot"
                        /\ Mailbox(t) \subseteq {t.relnchRpc}
                        /\ t.relnchRpc \notin Waits(t)
                        /\ Pending(t, S)
      BY <1>8, <1>11, <1>13, <1>14 DEF AccountOK, Pending
    <2>3. \A r \in Sent(t, S) : reqKind[r] = "reboot" => t.relnchFl /\ t.relnchRpc = r
      BY <1>8, <1>11, <1>14 DEF AccountOK, Pending
    <2>4. QED BY <2>1, <2>2, <2>3 DEF AccountOK
  <1>16. Pipe(t) = Pipe(s)
    BY <1>8, <1>10 DEF Pipe
  <1>17. CASE Relaunched(c)
    <2>1. s.relnchFl /\ ~Pending(s, S) /\ ~t.relnchFl
      BY <1>7, <1>14, <1>17
    <2>2. S = {} /\ s.relnchRpc \in Request /\ s.relnchRpc \notin Waits(s)
      BY <1>11, <2>1 DEF AccountOK
    <2>3. Held(t, S) = Held(s, S) \ {s.relnchRpc}
      BY <1>2, <1>11, <2>1, <2>2 DEF Held, Relaunching
    <2>4. QED BY <1>2, <1>5, <1>8, <1>12, <1>15, <1>16, <1>17, <2>1, <2>2, <2>3 DEF c, t
  <1>18. CASE ~Relaunched(c)
    <2>1. t.relnchFl = s.relnchFl
      BY <1>8, <1>18 DEF fl
    <2>2. Held(t, S) = Held(s, S)
      BY <1>2, <1>8, <1>11, <2>1 DEF Held, Relaunching
    <2>3. QED BY <1>2, <1>5, <1>8, <1>12, <1>15, <1>16, <1>18, <2>2 DEF c, t
  <1>19. QED BY <1>17, <1>18

(* IOS takes the message of the mailbox.                                   *)
LEMMA Taking ==
    ASSUME NEW s, NEW S, NEW ak, PipeOK(s, S), AccountOK(s, S, ak, reqKind), s.ppcmsg # Null
    PROVE  LET t == [s EXCEPT !.ppcmsg = Null]
               T == S \cup {s.ppcmsg}
           IN  /\ PipeOK(t, T) /\ AccountOK(t, T, TRUE, reqKind)
               /\ Held(t, T) = Held(s, S) /\ (Stalled(t) <=> Stalled(s))
               /\ t.ppcmsg = Null /\ t.queued = s.queued
               /\ Pipe(t) = Ring(s) /\ Pipe(s) = <<s.ppcmsg>> \o Ring(s)
  <1> DEFINE t == [s EXCEPT !.ppcmsg = Null]
             T == S \cup {s.ppcmsg}
  <1>1. /\ DriverOK(s) /\ s \in Driver /\ s.relnchFl \in BOOLEAN
        /\ S \subseteq Request /\ S \cap (Mailbox(s) \cup Waits(s)) = {}
        /\ IsInjective(Ring(s)) /\ Mailbox(s) \cap Waits(s) = {}
        /\ Mailbox(s) = {s.ppcmsg} /\ s.ppcmsg \in Request
    BY PipeFacts, DriverFacts DEF PipeOK
  <1>2. /\ t \in Driver
        /\ t.queue = s.queue /\ t.front = s.front /\ t.back = s.back
        /\ t.sent = s.sent /\ t.queued = s.queued /\ t.ppcmsg = Null
        /\ t.relnchRpc = s.relnchRpc /\ t.relnchFl = s.relnchFl /\ t.mailboxAck = s.mailboxAck
    BY <1>1 DEF Driver
  <1> HIDE DEF t
  <1>3. DriverOK(t) /\ Ring(t) = Ring(s) /\ Count(t) = Count(s)
    BY <1>1, <1>2, SameRing
  <1>4. /\ Waits(t) = Waits(s) /\ Mailbox(t) = {} /\ Relaunching(t) = Relaunching(s)
        /\ Sent(t, T) = Sent(s, S)
    BY <1>1, <1>2, <1>3 DEF Waits, Mailbox, Relaunching, Sent
  <1>5. PipeOK(t, T)
    BY <1>1, <1>3, <1>4 DEF PipeOK
  <1>6. Pending(t, T) <=> Pending(s, S)
    BY <1>2, <1>4 DEF Pending
  <1>7. AccountOK(t, T, TRUE, reqKind)
    <2>1. t.mailboxAck = (IF Pending(t, T) THEN 0 ELSE 1)
                           - (IF t.ppcmsg # Null \/ TRUE THEN 1 ELSE 0)
      BY <1>2, <1>6 DEF AccountOK
    <2>2. t.relnchFl => /\ t.relnchRpc \in Request
                        /\ reqKind[t.relnchRpc] = "reboot"
                        /\ Mailbox(t) \subseteq {t.relnchRpc}
                        /\ t.relnchRpc \notin Waits(t)
                        /\ ~Pending(t, T) => TRUE /\ Sent(t, T) = {}
      BY <1>2, <1>4, <1>6 DEF AccountOK
    <2>3. \A r \in Sent(t, T) : reqKind[r] = "reboot" => t.relnchFl /\ t.relnchRpc = r
      BY <1>2, <1>4 DEF AccountOK
    <2>4. QED BY <1>2, <2>1, <2>2, <2>3 DEF AccountOK
  <1>8. Held(t, T) = Held(s, S)
    BY <1>1, <1>4 DEF Held
  <1>9. Stalled(t) <=> Stalled(s)
    BY <1>2, <1>3 DEF Stalled
  <1>10. Pipe(t) = Ring(s) /\ Pipe(s) = <<s.ppcmsg>> \o Ring(s)
    <2>1. Ring(s) \in Seq(Request)
      BY PipeFacts
    <2>2. Pipe(t) = << >> \o Ring(s)
      BY <1>2, <1>3 DEF Pipe
    <2>3. QED BY <2>1, <2>2, ConcatEmptySeq DEF Pipe
  <1>11. QED BY <1>2, <1>5, <1>7, <1>8, <1>9, <1>10 DEF t

(* The old IOS gives way: nothing is in the mailbox, what it served it     *)
(* forgets, and the new IOS's acknowledgement is on its way.               *)
LEMMA GivingWay ==
    ASSUME NEW s, NEW S, PipeOK(s, S), AccountOK(s, S, FALSE, reqKind),
           NEW r \in S, reqKind[r] = "reboot"
    PROVE  /\ s.ppcmsg = Null /\ s.relnchFl /\ s.relnchRpc = r
           /\ PipeOK(s, {}) /\ AccountOK(s, {}, TRUE, reqKind)
           /\ Held(s, {}) = (Held(s, S) \ S) \cup {r}
  <1>1. /\ S \subseteq Request /\ S \cap (Mailbox(s) \cup Waits(s)) = {}
        /\ s.relnchFl \in BOOLEAN
    BY PipeFacts DEF PipeOK
  <1>2. s.relnchFl /\ s.relnchRpc = r /\ r \in Sent(s, S) /\ Pending(s, S)
    BY DEF AccountOK, Sent, Pending
  <1>3. Mailbox(s) = {} /\ s.ppcmsg = Null
    <2>1. Mailbox(s) \subseteq {r}
      BY <1>2 DEF AccountOK
    <2>2. QED BY <1>1, <2>1 DEF Mailbox
  <1>4. PipeOK(s, {})
    BY DEF PipeOK
  <1>5. Sent(s, {}) = {} /\ ~Pending(s, {})
    BY <1>3 DEF Sent, Pending
  <1>6. s.mailboxAck = 0
    BY <1>2, <1>3 DEF AccountOK
  <1>7. AccountOK(s, {}, TRUE, reqKind)
    <2>1. s.mailboxAck = (IF Pending(s, {}) THEN 0 ELSE 1)
                           - (IF s.ppcmsg # Null \/ TRUE THEN 1 ELSE 0)
      BY <1>5, <1>6
    <2>2. /\ s.relnchRpc \in Request
          /\ reqKind[s.relnchRpc] = "reboot"
          /\ Mailbox(s) \subseteq {s.relnchRpc}
          /\ s.relnchRpc \notin Waits(s)
      BY <1>2 DEF AccountOK
    <2>3. QED BY <1>3, <1>5, <2>1, <2>2 DEF AccountOK
  <1>8. Held(s, {}) = (Held(s, S) \ S) \cup {r}
    BY <1>1, <1>2, <1>3 DEF Held, Relaunching
  <1>9. QED BY <1>2, <1>3, <1>4, <1>7, <1>8

-----------------------------------------------------------------------------
(***************************************************************************)
(* The inductive invariant.                                                *)
(***************************************************************************)
Served == taken \cup InReply
Busy == Held(ipc, Served)

BlockTypes ==
    /\ reqKind \in [Request -> Kind \cup {"free"}]
    /\ reqRet \in [Request -> {"none", "replied", "OK"}]
    /\ ipcCall \in [IpcCaller -> [at : {"out", "prepared", "asleep", "woken"},
                                  req : Request \cup {Null}]]
    /\ taken \subseteq Request
    /\ dropped \subseteq Request
    /\ acked \in BOOLEAN
    /\ armmsg \in Request \cup {Null}
    /\ armReady \in BOOLEAN
    /\ refused \in BOOLEAN

(* The reply register holds an answered request, and IOS writes it only    *)
(* when it is clear.                                                       *)
ReplyInv ==
    /\ armmsg \notin taken
    /\ armReady <=> armmsg = Null
    /\ armmsg # Null => reqRet[armmsg] # "none" /\ (reqKind[armmsg] = "reboot" => refused)

DriverInv ==
    /\ PipeOK(ipc, Served)
    /\ AccountOK(ipc, Served, acked, reqKind)
    /\ Stalled(ipc) => refused
    /\ \A r \in Busy : reqKind[r] # "free"

(* Each caller has a block of its own: nobody holds it while the caller    *)
(* prepares it or reads the result, and the driver, IOS or the relaunch    *)
(* holds it while the caller sleeps, unless IOS dropped it.                *)
CallerInv ==
    /\ \A c \in IpcCaller :
          LET r == ipcCall[c].req IN
          /\ ipcCall[c].at # "out" => r \in Request /\ reqKind[r] # "free"
          /\ ipcCall[c].at \in {"prepared", "woken"} => r \notin Busy
          /\ ipcCall[c].at \in {"asleep", "woken"} => reqKind[r] \in Synchronous
          /\ ipcCall[c].at = "asleep" => r \in Busy \cup dropped
          /\ ipcCall[c].at = "woken" => reqRet[r] # "none"
    /\ \A c, d \in IpcCaller :
          c # d /\ ipcCall[c].at # "out" /\ ipcCall[d].at # "out"
             => ipcCall[c].req # ipcCall[d].req

IpcInv == BlockTypes /\ ReplyInv /\ DriverInv /\ CallerInv

(* What the parts of the invariant say of the mailbox and of the ring.     *)
LEMMA AckBound ==
    ASSUME NEW s, NEW S, NEW ak, NEW kind, AccountOK(s, S, ak, kind), ak \in BOOLEAN
    PROVE  s.mailboxAck \in -1 .. 1
  <1>1. s.mailboxAck = (IF Pending(s, S) THEN 0 ELSE 1)
                         - (IF s.ppcmsg # Null \/ ak THEN 1 ELSE 0)
    BY DEF AccountOK
  <1> DEFINE p == Pending(s, S)
             m == s.ppcmsg # Null \/ ak
  <1> HIDE DEF p, m
  <1>2. s.mailboxAck = (IF p THEN 0 ELSE 1) - (IF m THEN 1 ELSE 0)
    BY <1>1 DEF p, m
  <1>3. QED BY <1>2

LEMMA InvSafe ==
    ASSUME IpcInv
    PROVE  RequestsSafe
  <1>1. /\ PipeOK(ipc, Served) /\ AccountOK(ipc, Served, acked, reqKind)
        /\ DriverOK(ipc) /\ acked \in BOOLEAN
    BY DEF IpcInv, DriverInv, PipeOK, BlockTypes
  <1>2. Waiting(ipc) = Count(ipc) /\ Count(ipc) \in Nat
    BY <1>1, Counters, DriverFacts
  <1>3. InRing = Ring(ipc)
    BY <1>2 DEF InRing, Ring, RingSlot
  <1>4. ToSet(InMailbox) = Mailbox(ipc)
    BY DEF InMailbox, Mailbox, ToSet
  <1>5. /\ Busy = ToSet(InRing) \cup ToSet(InMailbox) \cup taken \cup InReply
                  \cup (IF ipc.relnchFl THEN {ipc.relnchRpc} ELSE {})
    BY <1>3, <1>4 DEF Busy, Held, Served, Waits, Relaunching
  <1>6. IpcTypeOK
    <2>1. ipc.mailboxAck \in -1 .. 1
      BY <1>1, AckBound
    <2>2. ipc \in [queue : [Index -> Request \cup {Null}], front : Index, back : Index,
                   sent : 0 .. IpcWord - 1, queued : 0 .. IpcWord - 1, mailboxAck : -1 .. 1,
                   ppcmsg : Request \cup {Null}, relnchFl : BOOLEAN,
                   relnchRpc : Request \cup {Null}]
      BY <1>1, <2>1 DEF DriverOK, Driver
    <2>3. QED BY <2>2 DEF IpcTypeOK, IpcInv, BlockTypes
  <1>7. HeldAllocated
    BY <1>5 DEF HeldAllocated, IpcInv, DriverInv
  <1>8. SleepersServed
    <2>1. \A c \in IpcCaller :
             /\ ipcCall[c].at = "asleep" => ipcCall[c].req \in Busy \cup dropped
             /\ ipcCall[c].at = "woken" => reqRet[ipcCall[c].req] # "none"
      BY DEF IpcInv, CallerInv
    <2>2. QED BY <1>5, <2>1 DEF SleepersServed
  <1>9. ReadySends
    BY <1>2 DEF ReadySends, IpcInv, DriverInv, Stalled
  <1>10. QED BY <1>6, <1>7, <1>8, <1>9 DEF RequestsSafe

LEMMA IpcInitInv ==
    ASSUME IpcInit
    PROVE  IpcInv
  <1>1. /\ IpcCapacity \in Nat \ {0} /\ IpcWord \in Nat /\ IpcCapacity < IpcWord
        /\ Null \notin Request
    BY IpcAssumption DEF Null
  <1>2. /\ ipc.front = 0 /\ ipc.back = 0 /\ ipc.sent = 0 /\ ipc.queued = 0
        /\ ipc.mailboxAck = 1 /\ ipc.ppcmsg = Null /\ ipc.relnchFl = FALSE
        /\ ipc.relnchRpc = Null /\ ipc.queue = [i \in Index |-> Null]
    BY DEF IpcInit
  <1>3. ipc \in Driver
    <2>1. 0 \in Index /\ 0 \in 0 .. IpcWord - 1 /\ [i \in Index |-> Null] \in [Index -> Request \cup {Null}]
      BY <1>1 DEF Index
    <2>2. QED BY <2>1 DEF IpcInit, Driver
  <1>4. Count(ipc) = 0
    BY <1>2 DEF Count
  <1>5. DriverOK(ipc)
    <2>1. Count(ipc) \in 0 .. IpcCapacity /\ 1 .. Count(ipc) = {}
      BY <1>1, <1>4
    <2>2. ipc.back = (ipc.front + Count(ipc)) % IpcCapacity
      <3>1. 0 % IpcCapacity = 0
        BY <1>1, WrapOnce
      <3>2. QED BY <1>2, <1>4, <3>1
    <2>3. QED BY <1>3, <2>1, <2>2 DEF DriverOK
  <1>6. Ring(ipc) = << >> /\ Waits(ipc) = {} /\ IsInjective(Ring(ipc))
    <2>1. Ring(ipc) \in Seq(Request) /\ Ring(ipc) = << >>
      BY <1>4, <1>5, RingFacts
    <2>2. QED BY <2>1, EmptySet DEF Waits
  <1>7. /\ Mailbox(ipc) = {} /\ Relaunching(ipc) = {} /\ Served = {} /\ Busy = {}
        /\ ~Pending(ipc, Served) /\ Sent(ipc, Served) = {}
    BY <1>2, <1>6 DEF Mailbox, Relaunching, Served, InReply, Busy, Held, Sent, Pending, IpcInit
  <1>8. DriverInv
    <2>1. PipeOK(ipc, Served)
      BY <1>5, <1>6, <1>7 DEF PipeOK
    <2>2. AccountOK(ipc, Served, acked, reqKind)
      <3>1. acked = FALSE
        BY DEF IpcInit
      <3>2. ipc.mailboxAck = (IF Pending(ipc, Served) THEN 0 ELSE 1)
                                - (IF ipc.ppcmsg # Null \/ acked THEN 1 ELSE 0)
        BY <1>2, <1>7, <3>1
      <3>3. QED BY <1>2, <1>7, <3>1, <3>2 DEF AccountOK
    <2>3. ~Stalled(ipc)
      BY <1>4 DEF Stalled
    <2>4. QED BY <1>7, <2>1, <2>2, <2>3 DEF DriverInv
  <1>9. BlockTypes /\ ReplyInv /\ CallerInv
    <2>1. BlockTypes
      BY DEF IpcInit, BlockTypes
    <2>2. ReplyInv
      BY DEF IpcInit, ReplyInv
    <2>3. \A c \in IpcCaller : ipcCall[c].at = "out"
      BY DEF IpcInit
    <2>4. CallerInv
      BY <2>3 DEF CallerInv
    <2>5. QED BY <2>1, <2>2, <2>4
  <1>10. QED BY <1>8, <1>9 DEF IpcInv

(***************************************************************************)
(* The steps.                                                              *)
(***************************************************************************)

(* A block that is free is nobody's.                                       *)
LEMMA FreeBlock ==
    ASSUME IpcInv, NEW r \in Request, reqKind[r] = "free"
    PROVE  /\ r \notin Busy
           /\ \A c \in IpcCaller : ipcCall[c].at # "out" => ipcCall[c].req # r
  BY DEF IpcInv, DriverInv, CallerInv

LEMMA BusyFacts ==
    ASSUME IpcInv
    PROVE  Served \subseteq Busy /\ Busy \subseteq Request
  <1>1. PipeOK(ipc, Served)
    BY DEF IpcInv, DriverInv
  <1>2. Relaunching(ipc) \subseteq Request
    BY DEF IpcInv, DriverInv, AccountOK, Relaunching
  <1>3. QED BY <1>1, <1>2, PipeFacts DEF Busy, Held, Sent

LEMMA PrepareStep ==
    ASSUME IpcInv, NEW c \in IpcCaller, NEW kind \in Kind, Prepare(c, kind)
    PROVE  IpcInv'
  <1>1. PICK r \in Request :
           /\ reqKind[r] = "free"
           /\ reqKind' = [reqKind EXCEPT ![r] = kind]
           /\ ipcCall' = [ipcCall EXCEPT ![c] = [at |-> "prepared", req |-> r]]
    BY DEF Prepare
  <1>2. /\ BlockTypes /\ ReplyInv /\ DriverInv /\ CallerInv
        /\ ipc' = ipc /\ reqRet' = reqRet /\ taken' = taken /\ acked' = acked
        /\ armmsg' = armmsg /\ armReady' = armReady /\ dropped' = dropped /\ refused' = refused
        /\ ipcCall[c].at = "out"
    BY DEF Prepare, iosVars, IpcInv
  <1>3. Served' = Served /\ Busy' = Busy
    BY <1>2 DEF Served, InReply, Busy
  <1>4. r \notin Busy /\ \A d \in IpcCaller : ipcCall[d].at # "out" => ipcCall[d].req # r
    BY <1>1, FreeBlock
  <1>5. reqKind \in [Request -> Kind \cup {"free"}] /\ kind # "free"
    BY <1>2 DEF BlockTypes, Kind
  <1>6. \A x \in Request : reqKind'[x] = IF x = r THEN kind ELSE reqKind[x]
    BY <1>1, <1>5
  <1>7. \A d \in IpcCaller : ipcCall'[d] = IF d = c THEN [at |-> "prepared", req |-> r]
                                            ELSE ipcCall[d]
    BY <1>1, <1>2 DEF BlockTypes
  <1>8. BlockTypes'
    <2>1. reqKind' \in [Request -> Kind \cup {"free"}]
      BY <1>1, <1>5
    <2>2. ipcCall' \in [IpcCaller -> [at : {"out", "prepared", "asleep", "woken"},
                                      req : Request \cup {Null}]]
      BY <1>1, <1>2 DEF BlockTypes
    <2>3. QED BY <1>2, <2>1, <2>2 DEF BlockTypes
  <1>9. Served \subseteq Busy /\ Busy \subseteq Request
    BY BusyFacts
  <1>10. ReplyInv'
    <2>1. armmsg # Null => armmsg \in Request /\ armmsg # r
      BY <1>2, <1>4, <1>9 DEF Served, InReply, BlockTypes
    <2>2. QED BY <1>2, <1>6, <2>1 DEF ReplyInv
  <1>11. DriverInv'
    <2>1. \A x \in Busy : reqKind'[x] = reqKind[x]
      BY <1>4, <1>6, <1>9
    <2>2. AccountOK(ipc, Served, acked, reqKind')
      BY <1>2, <2>1, KindsAgree DEF DriverInv, Busy
    <2>3. QED BY <1>2, <1>3, <2>1, <2>2 DEF DriverInv
  <1>12. CallerInv'
    <2>1. ASSUME NEW d \in IpcCaller
          PROVE  LET x == ipcCall'[d].req IN
                 /\ ipcCall'[d].at # "out" => x \in Request /\ reqKind'[x] # "free"
                 /\ ipcCall'[d].at \in {"prepared", "woken"} => x \notin Busy
                 /\ ipcCall'[d].at \in {"asleep", "woken"} => reqKind'[x] \in Synchronous
                 /\ ipcCall'[d].at = "asleep" => x \in Busy \cup dropped
                 /\ ipcCall'[d].at = "woken" => reqRet[x] # "none"
      <3>1. CASE d = c
        BY <1>4, <1>5, <1>6, <1>7, <3>1
      <3>2. CASE d # c
        BY <1>2, <1>4, <1>6, <1>7, <3>2 DEF CallerInv
      <3>3. QED BY <3>1, <3>2
    <2>2. ASSUME NEW d \in IpcCaller, NEW e \in IpcCaller, d # e,
                 ipcCall'[d].at # "out", ipcCall'[e].at # "out"
          PROVE  ipcCall'[d].req # ipcCall'[e].req
      BY <1>2, <1>4, <1>7, <2>2 DEF CallerInv
    <2>3. QED BY <1>2, <1>3, <2>1, <2>2 DEF CallerInv
  <1>13. QED BY <1>8, <1>10, <1>11, <1>12 DEF IpcInv

(* A caller that prepares or has been answered frees its block.            *)
LEMMA FreeStep ==
    ASSUME IpcInv, NEW c \in IpcCaller, ipcCall[c].at \in {"prepared", "woken"},
           Free(ipcCall[c].req), Leave(c), UNCHANGED <<ipc, iosVars>>
    PROVE  IpcInv'
  <1> DEFINE r == ipcCall[c].req
  <1>1. /\ BlockTypes /\ ReplyInv /\ DriverInv /\ CallerInv
        /\ ipc' = ipc /\ taken' = taken /\ acked' = acked
        /\ armmsg' = armmsg /\ armReady' = armReady /\ dropped' = dropped /\ refused' = refused
    BY DEF iosVars, IpcInv
  <1>2. Served' = Served /\ Busy' = Busy
    BY <1>1 DEF Served, InReply, Busy
  <1>3. Served \subseteq Busy /\ Busy \subseteq Request
    BY BusyFacts
  <1>4. r \in Request /\ r \notin Busy
        /\ \A d \in IpcCaller : d # c /\ ipcCall[d].at # "out" => ipcCall[d].req # r
    BY <1>1 DEF CallerInv
  <1> HIDE DEF r
  <1>5. /\ reqKind' = [reqKind EXCEPT ![r] = "free"]
        /\ reqRet' = [reqRet EXCEPT ![r] = "none"]
        /\ ipcCall' = [ipcCall EXCEPT ![c] = [at |-> "out", req |-> Null]]
    BY DEF Free, Leave, r
  <1>6. BlockTypes'
    <2>1. /\ reqKind' \in [Request -> Kind \cup {"free"}]
          /\ reqRet' \in [Request -> {"none", "replied", "OK"}]
          /\ ipcCall' \in [IpcCaller -> [at : {"out", "prepared", "asleep", "woken"},
                                         req : Request \cup {Null}]]
      BY <1>1, <1>5 DEF BlockTypes
    <2>2. QED BY <1>1, <2>1 DEF BlockTypes
  <1>7. /\ \A x \in Request : x # r => reqKind'[x] = reqKind[x] /\ reqRet'[x] = reqRet[x]
        /\ \A d \in IpcCaller : ipcCall'[d] = IF d = c THEN [at |-> "out", req |-> Null]
                                              ELSE ipcCall[d]
    BY <1>1, <1>5 DEF BlockTypes
  <1>8. ReplyInv'
    <2>1. armmsg # Null => armmsg \in Request /\ armmsg # r
      BY <1>1, <1>3, <1>4 DEF Served, InReply, BlockTypes
    <2>2. QED BY <1>1, <1>7, <2>1 DEF ReplyInv
  <1>9. DriverInv'
    <2>1. \A x \in Busy : reqKind'[x] = reqKind[x]
      BY <1>3, <1>4, <1>7
    <2>2. AccountOK(ipc, Served, acked, reqKind')
      BY <1>1, <2>1, KindsAgree DEF DriverInv, Busy
    <2>3. QED BY <1>1, <1>2, <2>1, <2>2 DEF DriverInv
  <1>10. CallerInv'
    <2>1. ASSUME NEW d \in IpcCaller
          PROVE  LET x == ipcCall'[d].req IN
                 /\ ipcCall'[d].at # "out" => x \in Request /\ reqKind'[x] # "free"
                 /\ ipcCall'[d].at \in {"prepared", "woken"} => x \notin Busy
                 /\ ipcCall'[d].at \in {"asleep", "woken"} => reqKind'[x] \in Synchronous
                 /\ ipcCall'[d].at = "asleep" => x \in Busy \cup dropped
                 /\ ipcCall'[d].at = "woken" => reqRet'[x] # "none"
      <3>1. CASE d = c
        BY <1>7, <3>1
      <3>2. CASE d # c
        BY <1>1, <1>4, <1>7, <3>2 DEF CallerInv
      <3>3. QED BY <3>1, <3>2
    <2>2. ASSUME NEW d \in IpcCaller, NEW e \in IpcCaller, d # e,
                 ipcCall'[d].at # "out", ipcCall'[e].at # "out"
          PROVE  ipcCall'[d].req # ipcCall'[e].req
      BY <1>1, <1>7, <2>2 DEF CallerInv
    <2>3. QED BY <1>1, <1>2, <2>1, <2>2 DEF CallerInv
  <1>11. QED BY <1>6, <1>8, <1>9, <1>10 DEF IpcInv

(* __ios_Ipc2 hands the request over.                                      *)
LEMMA SubmitStep ==
    ASSUME IpcInv, NEW c \in IpcCaller, Submit(c), ipc'.queued >= ipc.queued
    PROVE  /\ IpcInv'
           /\ Pipe(ipc') = Append(Pipe(ipc), ipcCall[c].req) /\ Served' = Served
           /\ ipcCall[c].req \notin Busy /\ ipcCall[c].req \in Request
           /\ ipc.ppcmsg # Null => ipc'.ppcmsg = ipc.ppcmsg
  <1> DEFINE r == ipcCall[c].req
             t == SendIfReady(QueueRequest(ipc, r))
  <1>1. /\ BlockTypes /\ ReplyInv /\ DriverInv /\ CallerInv
        /\ reqKind' = reqKind /\ reqRet' = reqRet /\ taken' = taken /\ acked' = acked
        /\ armmsg' = armmsg /\ armReady' = armReady /\ dropped' = dropped /\ refused' = refused
        /\ ipcCall[c].at = "prepared" /\ ~QueueFull(ipc) /\ ipc' = t
    BY DEF Submit, iosVars, IpcInv
  <1>2. r \in Request /\ r \notin Busy /\ reqKind[r] # "free"
        /\ \A d \in IpcCaller : d # c /\ ipcCall[d].at # "out" => ipcCall[d].req # r
    BY <1>1 DEF CallerInv
  <1>3. ipcCall' = IF reqKind[r] \in Synchronous
                   THEN [ipcCall EXCEPT ![c].at = "asleep"]
                   ELSE [ipcCall EXCEPT ![c] = [at |-> "out", req |-> Null]]
    BY DEF Submit, Leave
  <1>4. acked \in BOOLEAN /\ PipeOK(ipc, Served) /\ AccountOK(ipc, Served, acked, reqKind)
        /\ r \notin Held(ipc, Served)
    BY <1>1, <1>2 DEF BlockTypes, DriverInv, Busy
  <1>5. /\ PipeOK(ipc', Served) /\ AccountOK(ipc', Served, acked, reqKind) /\ ~Stalled(ipc')
        /\ Held(ipc', Served) = Held(ipc, Served) \cup {r}
        /\ Pipe(ipc') = Append(Pipe(ipc), r)
        /\ ipc.ppcmsg # Null => ipc'.ppcmsg = ipc.ppcmsg
    BY <1>1, <1>2, <1>4, Calling
  <1> HIDE DEF t
  <1>6. Served' = Served /\ Busy' = Busy \cup {r}
    BY <1>1, <1>5 DEF Served, InReply, Busy
  <1>7. ReplyInv'
    BY <1>1 DEF ReplyInv
  <1>8. DriverInv'
    BY <1>1, <1>2, <1>5, <1>6 DEF DriverInv
  <1>9. /\ \A d \in IpcCaller : d # c => ipcCall'[d] = ipcCall[d]
        /\ ipcCall'[c] = IF reqKind[r] \in Synchronous THEN [at |-> "asleep", req |-> r]
                         ELSE [at |-> "out", req |-> Null]
        /\ BlockTypes'
    <2>1. ipcCall \in [IpcCaller -> [at : {"out", "prepared", "asleep", "woken"},
                                     req : Request \cup {Null}]]
      BY <1>1 DEF BlockTypes
    <2>2. [ipcCall[c] EXCEPT !.at = "asleep"] = [at |-> "asleep", req |-> r]
      BY <2>1
    <2> DEFINE new == IF reqKind[r] \in Synchronous THEN [at |-> "asleep", req |-> r]
                      ELSE [at |-> "out", req |-> Null]
    <2>3. ipcCall' = [ipcCall EXCEPT ![c] = new]
      BY <1>3, <2>1, <2>2
    <2>4. new \in [at : {"out", "prepared", "asleep", "woken"}, req : Request \cup {Null}]
      BY <1>2
    <2> HIDE DEF new, r
    <2>5. /\ ipcCall' \in [IpcCaller -> [at : {"out", "prepared", "asleep", "woken"},
                                         req : Request \cup {Null}]]
          /\ \A d \in IpcCaller : d # c => ipcCall'[d] = ipcCall[d]
          /\ ipcCall'[c] = new
      BY <2>1, <2>3, <2>4
    <2>6. BlockTypes'
      BY <1>1, <2>5 DEF BlockTypes
    <2>7. QED BY <2>5, <2>6 DEF new
  <1>10. CallerInv'
    <2> HIDE DEF r
    <2>1. ASSUME NEW d \in IpcCaller
          PROVE  LET x == ipcCall'[d].req IN
                 /\ ipcCall'[d].at # "out" => x \in Request /\ reqKind[x] # "free"
                 /\ ipcCall'[d].at \in {"prepared", "woken"} => x \notin Busy'
                 /\ ipcCall'[d].at \in {"asleep", "woken"} => reqKind[x] \in Synchronous
                 /\ ipcCall'[d].at = "asleep" => x \in Busy' \cup dropped
                 /\ ipcCall'[d].at = "woken" => reqRet[x] # "none"
      <3>1. CASE d = c
        BY <1>2, <1>6, <1>9, <3>1
      <3>2. CASE d # c
        BY <1>1, <1>2, <1>6, <1>9, <3>2 DEF CallerInv
      <3>3. QED BY <3>1, <3>2
    <2>2. ASSUME NEW d \in IpcCaller, NEW e \in IpcCaller, d # e,
                 ipcCall'[d].at # "out", ipcCall'[e].at # "out"
          PROVE  ipcCall'[d].req # ipcCall'[e].req
      BY <1>1, <1>2, <1>9, <2>2 DEF CallerInv
    <2>3. QED BY <1>1, <2>1, <2>2 DEF CallerInv
  <1>11. QED BY <1>2, <1>5, <1>6, <1>7, <1>8, <1>9, <1>10 DEF IpcInv, r

LEMMA Waking ==
    ASSUME BlockTypes, NEW r
    PROVE  /\ Wake(r) \in [IpcCaller -> [at : {"out", "prepared", "asleep", "woken"},
                                         req : Request \cup {Null}]]
           /\ \A c \in IpcCaller :
                /\ Wake(r)[c].req = ipcCall[c].req
                /\ IF ipcCall[c].at = "asleep" /\ ipcCall[c].req = r
                   THEN Wake(r)[c].at = "woken"
                   ELSE Wake(r)[c].at = ipcCall[c].at
  <1>1. ipcCall \in [IpcCaller -> [at : {"out", "prepared", "asleep", "woken"},
                                   req : Request \cup {Null}]]
    BY DEF BlockTypes
  <1>2. ASSUME NEW c \in IpcCaller
        PROVE  LET w == [ipcCall[c] EXCEPT !.at = "woken"] IN
               /\ w \in [at : {"out", "prepared", "asleep", "woken"},
                         req : Request \cup {Null}]
               /\ w.at = "woken" /\ w.req = ipcCall[c].req
    BY <1>1
  <1>3. QED BY <1>1, <1>2 DEF Wake

(* IpcReplyHandler wakes the sleeper of a synchronous request.             *)
LEMMA ReplySyncStep ==
    ASSUME IpcInv, IpcReplyHandler, ReplySync(armmsg)
    PROVE  /\ IpcInv' /\ armmsg \in Served /\ Served' = Served \ {armmsg}
           /\ Pipe(ipc') = Pipe(ipc) /\ ipc'.ppcmsg = ipc.ppcmsg
  <1> DEFINE m == armmsg
  <1>1. /\ BlockTypes /\ ReplyInv /\ DriverInv /\ CallerInv
        /\ reqKind' = reqKind /\ reqRet' = reqRet /\ taken' = taken /\ acked' = acked
        /\ armmsg' = Null /\ armReady' = TRUE /\ dropped' = dropped /\ refused' = refused
        /\ ipc' = RelaunchRefused(ipc, m) /\ ipcCall' = Wake(m)
        /\ reqKind[m] # "async" /\ m # Null /\ m \in Request
    BY DEF IpcReplyHandler, ReplySync, IpcInv, BlockTypes
  <1>2. m \in Served /\ taken = Served \ {m} /\ Served' = taken
    BY <1>1 DEF Served, InReply, ReplyInv
  <1>3. /\ acked \in BOOLEAN /\ PipeOK(ipc, Served) /\ AccountOK(ipc, Served, acked, reqKind)
    BY <1>1 DEF BlockTypes, DriverInv
  <1>4. /\ PipeOK(ipc', taken) /\ AccountOK(ipc', taken, acked, reqKind)
        /\ Held(ipc', taken) = Held(ipc, Served) \ {m} /\ Pipe(ipc') = Pipe(ipc)
        /\ ipc'.ppcmsg = ipc.ppcmsg
        /\ Stalled(ipc') => Stalled(ipc) \/ reqKind[m] = "reboot"
    BY <1>1, <1>2, <1>3, Refusing
  <1>5. Busy' = Busy \ {m} /\ m \in Busy
    BY <1>2, <1>4, BusyFacts DEF Busy
  <1>6. Stalled(ipc') => refused
    BY <1>1, <1>4 DEF DriverInv, ReplyInv
  <1>7. DriverInv'
    BY <1>1, <1>2, <1>4, <1>5, <1>6 DEF DriverInv
  <1>8. ReplyInv'
    <2>1. taken \subseteq Request /\ Null \notin Request
      BY <1>1, IpcAssumption DEF BlockTypes, Null
    <2>2. QED BY <1>1, <2>1 DEF ReplyInv
  <1>9. /\ ipcCall' \in [IpcCaller -> [at : {"out", "prepared", "asleep", "woken"},
                                       req : Request \cup {Null}]]
        /\ \A c \in IpcCaller :
             /\ ipcCall'[c].req = ipcCall[c].req
             /\ IF ipcCall[c].at = "asleep" /\ ipcCall[c].req = m
                THEN ipcCall'[c].at = "woken"
                ELSE ipcCall'[c].at = ipcCall[c].at
    BY <1>1, Waking
  <1>10. BlockTypes'
    BY <1>1, <1>9 DEF BlockTypes
  <1>11. reqRet[m] # "none"
    BY <1>1 DEF ReplyInv
  <1>12. CallerInv'
    <2> HIDE DEF m
    <2>1. ASSUME NEW d \in IpcCaller
          PROVE  LET x == ipcCall'[d].req IN
                 /\ ipcCall'[d].at # "out" => x \in Request /\ reqKind[x] # "free"
                 /\ ipcCall'[d].at \in {"prepared", "woken"} => x \notin Busy'
                 /\ ipcCall'[d].at \in {"asleep", "woken"} => reqKind[x] \in Synchronous
                 /\ ipcCall'[d].at = "asleep" => x \in Busy' \cup dropped
                 /\ ipcCall'[d].at = "woken" => reqRet[x] # "none"
      <3>1. CASE ipcCall[d].at = "asleep" /\ ipcCall[d].req = m
        BY <1>1, <1>5, <1>9, <1>11, <3>1 DEF CallerInv
      <3>2. CASE ~(ipcCall[d].at = "asleep" /\ ipcCall[d].req = m)
        BY <1>1, <1>5, <1>9, <3>2 DEF CallerInv
      <3>3. QED BY <3>1, <3>2
    <2>2. ASSUME NEW d \in IpcCaller, NEW e \in IpcCaller, d # e,
                 ipcCall'[d].at # "out", ipcCall'[e].at # "out"
          PROVE  ipcCall'[d].req # ipcCall'[e].req
      BY <1>1, <1>9, <2>2 DEF CallerInv
    <2>3. QED BY <1>1, <2>1, <2>2 DEF CallerInv
  <1>13. QED BY <1>2, <1>4, <1>7, <1>8, <1>10, <1>12 DEF IpcInv

(* The callback of an asynchronous request returns, or makes a call.       *)
LEMMA ReplyAsyncStep ==
    ASSUME IpcInv, IpcReplyHandler, ReplyAsync(armmsg), ipc'.queued >= ipc.queued
    PROVE  /\ IpcInv' /\ armmsg \in Served /\ Served' = Served \ {armmsg}
           /\ ipc.ppcmsg # Null => ipc'.ppcmsg = ipc.ppcmsg
           /\ \/ Pipe(ipc') = Pipe(ipc)
              \/ \E next \in Request : /\ next \notin Busy
                                       /\ Pipe(ipc') = Append(Pipe(ipc), next)
  <1> DEFINE m == armmsg
             s == RelaunchRefused(ipc, m)
  <1>1. /\ BlockTypes /\ ReplyInv /\ DriverInv /\ CallerInv
        /\ reqRet' = [reqRet EXCEPT ![m] = "none"] /\ taken' = taken /\ acked' = acked
        /\ armmsg' = Null /\ armReady' = TRUE /\ dropped' = dropped /\ refused' = refused
        /\ ipcCall' = ipcCall /\ reqKind[m] = "async" /\ m # Null /\ m \in Request
    BY DEF IpcReplyHandler, ReplyAsync, IpcInv, BlockTypes
  <1>2. m \in Served /\ taken = Served \ {m} /\ Served' = taken
    BY <1>1 DEF Served, InReply, ReplyInv
  <1>3. /\ acked \in BOOLEAN /\ PipeOK(ipc, Served) /\ AccountOK(ipc, Served, acked, reqKind)
    BY <1>1 DEF BlockTypes, DriverInv
  <1>4. /\ PipeOK(s, taken) /\ AccountOK(s, taken, acked, reqKind)
        /\ Held(s, taken) = Busy \ {m} /\ Pipe(s) = Pipe(ipc) /\ s.queued = ipc.queued
        /\ s.ppcmsg = ipc.ppcmsg
        /\ Stalled(s) => Stalled(ipc)
    BY <1>1, <1>2, <1>3, Refusing DEF Busy
  <1>5. \/ /\ ipc' = s
           /\ reqKind' = [reqKind EXCEPT ![m] = "free"]
        \/ \E next \in Request :
              /\ reqKind[next] = "free"
              /\ ~QueueFull(s)
              /\ ipc' = SendIfReady(QueueRequest(s, next))
              /\ reqKind' = [reqKind EXCEPT ![m] = "free", ![next] = "async"]
    BY DEF ReplyAsync
  <1> HIDE DEF s
  <1>6. Busy \subseteq Request
    BY BusyFacts
  (* What the two have in common: N is what the callback adds.             *)
  <1>7. ASSUME NEW N \in SUBSET Request,
               \A x \in N : reqKind[x] = "free" /\ reqKind'[x] = "async",
               reqKind' \in [Request -> Kind \cup {"free"}],
               \A x \in Request : x # m /\ x \notin N => reqKind'[x] = reqKind[x],
               PipeOK(ipc', taken), AccountOK(ipc', taken, acked, reqKind),
               Held(ipc', taken) = (Busy \ {m}) \cup N, Stalled(ipc') => refused
        PROVE  IpcInv'
    <2>1. Busy' = (Busy \ {m}) \cup N
      BY <1>2, <1>7 DEF Busy
    <2>2. BlockTypes'
      BY <1>1, <1>7 DEF BlockTypes
    <2>3. ReplyInv'
      <3>1. taken \subseteq Request /\ Null \notin Request
        BY <1>1, IpcAssumption DEF BlockTypes, Null
      <3>2. QED BY <1>1, <3>1 DEF ReplyInv
    <2>4. DriverInv'
      <3>1. \A x \in Held(ipc', taken) : reqKind[x] = "reboot" <=> reqKind'[x] = "reboot"
        BY <1>6, <1>7
      <3>2. AccountOK(ipc', taken, acked, reqKind')
        BY <1>7, <3>1, KindsAgree
      <3>3. \A x \in Busy' : reqKind'[x] # "free"
        BY <1>1, <1>6, <1>7, <2>1 DEF DriverInv
      <3>4. QED BY <1>1, <1>2, <1>7, <3>2, <3>3 DEF DriverInv
    <2>5. CallerInv'
      <3>1. ASSUME NEW d \in IpcCaller
            PROVE  LET x == ipcCall[d].req IN
                   /\ ipcCall[d].at # "out" => x \in Request /\ reqKind'[x] # "free"
                   /\ ipcCall[d].at \in {"prepared", "woken"} => x \notin Busy'
                   /\ ipcCall[d].at \in {"asleep", "woken"} => reqKind'[x] \in Synchronous
                   /\ ipcCall[d].at = "asleep" => x \in Busy' \cup dropped
                   /\ ipcCall[d].at = "woken" => reqRet'[x] # "none"
        <4> DEFINE x == ipcCall[d].req
        <4>1. CASE ipcCall[d].at = "out"
          BY <4>1
        <4>2. CASE ipcCall[d].at # "out"
          <5>1. m \in Busy
            BY <1>2, BusyFacts
          <5>2. x \in Request /\ x \notin N /\ reqKind[x] # "free"
            BY <1>1, <1>7, <4>2 DEF CallerInv
          <5>3. x # m
            <6>1. ipcCall[d].at \in {"asleep", "woken"} => reqKind[x] \in {"sync", "reboot"}
              BY <1>1 DEF CallerInv, Synchronous
            <6>2. ipcCall[d].at = "prepared" => x \notin Busy
              BY <1>1 DEF CallerInv
            <6>3. ipcCall[d].at \in {"out", "prepared", "asleep", "woken"}
              BY <1>1 DEF BlockTypes
            <6>4. QED BY <1>1, <4>2, <5>1, <6>1, <6>2, <6>3
          <5>4. reqKind'[x] = reqKind[x] /\ reqRet'[x] = reqRet[x]
            BY <1>1, <1>7, <5>2, <5>3 DEF BlockTypes
          <5>5. x \in Busy' <=> x \in Busy
            BY <2>1, <5>2, <5>3
          <5>6. QED BY <1>1, <5>4, <5>5 DEF CallerInv
        <4>3. QED BY <4>1, <4>2
      <3>2. QED BY <1>1, <3>1 DEF CallerInv
    <2>6. QED BY <2>2, <2>3, <2>4, <2>5 DEF IpcInv
  <1>8. CASE ipc' = s /\ reqKind' = [reqKind EXCEPT ![m] = "free"]
    <2>1. /\ reqKind' \in [Request -> Kind \cup {"free"}]
          /\ \A x \in Request : x # m => reqKind'[x] = reqKind[x]
      BY <1>1, <1>8 DEF BlockTypes
    <2>2. Held(ipc', taken) = (Busy \ {m}) \cup {}
      BY <1>4, <1>8
    <2>3. Stalled(ipc') => refused
      BY <1>1, <1>4, <1>8 DEF DriverInv
    <2>4. PipeOK(ipc', taken) /\ AccountOK(ipc', taken, acked, reqKind)
      BY <1>4, <1>8
    <2> DEFINE N == {}
    <2>5. /\ N \in SUBSET Request
          /\ \A x \in N : reqKind[x] = "free" /\ reqKind'[x] = "async"
          /\ \A x \in Request : x # m /\ x \notin N => reqKind'[x] = reqKind[x]
          /\ Held(ipc', taken) = (Busy \ {m}) \cup N
      BY <2>1, <2>2
    <2> HIDE DEF N
    <2>6. IpcInv'
      BY <1>7, <2>1, <2>3, <2>4, <2>5
    <2>7. QED BY <1>2, <1>4, <1>8, <2>6
  <1>9. ASSUME NEW next \in Request, reqKind[next] = "free", ~QueueFull(s),
               ipc' = SendIfReady(QueueRequest(s, next)),
               reqKind' = [reqKind EXCEPT ![m] = "free", ![next] = "async"]
        PROVE  /\ IpcInv' /\ next \notin Busy /\ Pipe(ipc') = Append(Pipe(ipc), next)
               /\ ipc.ppcmsg # Null => ipc'.ppcmsg = ipc.ppcmsg
    <2>1. next \notin Busy /\ next # m
      BY <1>1, <1>9, FreeBlock
    <2>2. next \notin Held(s, taken) /\ SendIfReady(QueueRequest(s, next)).queued >= s.queued
      BY <1>4, <1>9, <2>1
    <2>3. /\ PipeOK(ipc', taken) /\ AccountOK(ipc', taken, acked, reqKind) /\ ~Stalled(ipc')
          /\ Held(ipc', taken) = Held(s, taken) \cup {next}
          /\ Pipe(ipc') = Append(Pipe(s), next)
          /\ s.ppcmsg # Null => ipc'.ppcmsg = s.ppcmsg
      BY <1>3, <1>4, <1>9, <2>2, Calling
    <2>4. /\ reqKind' \in [Request -> Kind \cup {"free"}]
          /\ \A x \in Request : x # m /\ x # next => reqKind'[x] = reqKind[x]
          /\ reqKind'[next] = "async"
      BY <1>1, <1>9, <2>1 DEF BlockTypes, Kind
    <2>5. Held(ipc', taken) = (Busy \ {m}) \cup {next}
      BY <1>4, <2>3
    <2>6. IpcInv'
      BY <1>7, <1>9, <2>3, <2>4, <2>5
    <2>7. QED BY <1>4, <2>1, <2>3, <2>6
  <1>10. QED BY <1>2, <1>5, <1>8, <1>9

(* IpcAckHandler: the acknowledgement lets the next request go, and that   *)
(* of the new IOS ends the relaunch.                                       *)
LEMMA AckStep ==
    ASSUME IpcInv, IpcAckHandler
    PROVE  /\ IpcInv' /\ Served' = Served /\ Pipe(ipc') = Pipe(ipc) /\ ipc.ppcmsg = Null
           /\ ipc'.queued = ipc.queued
  <1> DEFINE s == CountAck(ipc)
             t == IF Relaunched(s) THEN [s EXCEPT !.relnchFl = FALSE] ELSE s
             m == s.relnchRpc
  <1>1. /\ BlockTypes /\ ReplyInv /\ DriverInv /\ CallerInv
        /\ reqKind' = reqKind /\ taken' = taken /\ acked = TRUE /\ acked' = FALSE
        /\ armmsg' = armmsg /\ dropped' = dropped /\ refused' = refused
        /\ ipc' = SendIfReady(t)
    BY DEF IpcAckHandler, IpcInv, BlockTypes
  <1>2. IF Relaunched(s)
        THEN /\ reqRet' = [reqRet EXCEPT ![m] = "OK"]
             /\ ipcCall' = Wake(m)
             /\ armReady' = TRUE
        ELSE reqRet' = reqRet /\ ipcCall' = ipcCall /\ armReady' = armReady
    BY DEF IpcAckHandler
  <1>3. PipeOK(ipc, Served) /\ AccountOK(ipc, Served, TRUE, reqKind)
    BY <1>1 DEF DriverInv
  <1>4. /\ PipeOK(t, Served) /\ AccountOK(t, Served, FALSE, reqKind)
        /\ ipc.ppcmsg = Null /\ Pipe(t) = Pipe(ipc) /\ t.queued = ipc.queued
        /\ m = ipc.relnchRpc
        /\ IF Relaunched(s)
           THEN /\ Served = {} /\ ipc.relnchFl /\ m \in Request
                /\ Held(t, Served) = Held(ipc, Served) \ {m}
           ELSE Held(t, Served) = Held(ipc, Served)
    BY <1>3, Acknowledging
  <1> HIDE DEF s, t, m
  <1>5. FALSE \in BOOLEAN
    OBVIOUS
  <1>6. /\ PipeOK(ipc', Served) /\ AccountOK(ipc', Served, FALSE, reqKind) /\ ~Stalled(ipc')
        /\ Held(ipc', Served) = Held(t, Served) /\ Pipe(ipc') = Pipe(t)
        /\ ipc'.queued = t.queued
    BY <1>1, <1>4, <1>5, Sending
  <1>7. Served' = Served /\ Busy' = Held(t, Served)
    BY <1>1, <1>6 DEF Served, InReply, Busy
  <1>8. Busy' \subseteq Busy
    BY <1>4, <1>7 DEF Busy
  <1>9. DriverInv'
    BY <1>1, <1>6, <1>7, <1>8 DEF DriverInv
  <1>10. CASE Relaunched(s)
    <2>1. Busy' = Busy \ {m} /\ m \in Request
      BY <1>4, <1>7, <1>10 DEF Busy
    <2>2. armmsg = Null
      BY <1>4, <1>10 DEF Served, InReply
    <2>3. /\ ipcCall' \in [IpcCaller -> [at : {"out", "prepared", "asleep", "woken"},
                                         req : Request \cup {Null}]]
          /\ \A c \in IpcCaller :
               /\ ipcCall'[c].req = ipcCall[c].req
               /\ IF ipcCall[c].at = "asleep" /\ ipcCall[c].req = m
                  THEN ipcCall'[c].at = "woken"
                  ELSE ipcCall'[c].at = ipcCall[c].at
      BY <1>1, <1>2, <1>10, Waking
    <2>4. /\ reqRet' \in [Request -> {"none", "replied", "OK"}]
          /\ reqRet'[m] = "OK"
          /\ \A x \in Request : x # m => reqRet'[x] = reqRet[x]
      BY <1>1, <1>2, <1>10, <2>1 DEF BlockTypes
    <2>5. BlockTypes'
      BY <1>1, <1>2, <1>10, <2>3, <2>4 DEF BlockTypes
    <2>6. ReplyInv'
      BY <1>1, <1>2, <1>10, <2>2 DEF ReplyInv
    <2>7. CallerInv'
      <3>1. ASSUME NEW d \in IpcCaller
            PROVE  LET x == ipcCall'[d].req IN
                   /\ ipcCall'[d].at # "out" => x \in Request /\ reqKind[x] # "free"
                   /\ ipcCall'[d].at \in {"prepared", "woken"} => x \notin Busy'
                   /\ ipcCall'[d].at \in {"asleep", "woken"} => reqKind[x] \in Synchronous
                   /\ ipcCall'[d].at = "asleep" => x \in Busy' \cup dropped
                   /\ ipcCall'[d].at = "woken" => reqRet'[x] # "none"
        <4>1. CASE ipcCall[d].at = "asleep" /\ ipcCall[d].req = m
          BY <1>1, <2>1, <2>3, <2>4, <4>1 DEF CallerInv
        <4>2. CASE ~(ipcCall[d].at = "asleep" /\ ipcCall[d].req = m)
          BY <1>1, <2>1, <2>3, <2>4, <4>2 DEF CallerInv
        <4>3. QED BY <4>1, <4>2
      <3>2. ASSUME NEW d \in IpcCaller, NEW e \in IpcCaller, d # e,
                   ipcCall'[d].at # "out", ipcCall'[e].at # "out"
            PROVE  ipcCall'[d].req # ipcCall'[e].req
        BY <1>1, <2>3, <3>2 DEF CallerInv
      <3>3. QED BY <1>1, <3>1, <3>2 DEF CallerInv
    <2>8. QED BY <1>4, <1>6, <1>7, <1>9, <2>5, <2>6, <2>7 DEF IpcInv
  <1>11. CASE ~Relaunched(s)
    <2>1. reqRet' = reqRet /\ ipcCall' = ipcCall /\ armReady' = armReady /\ Busy' = Busy
      BY <1>2, <1>4, <1>7, <1>11 DEF Busy
    <2>2. BlockTypes'
      BY <1>1, <2>1 DEF BlockTypes
    <2>3. ReplyInv'
      BY <1>1, <2>1 DEF ReplyInv
    <2>4. CallerInv'
      BY <1>1, <2>1 DEF CallerInv
    <2>5. QED BY <1>4, <1>6, <1>7, <1>9, <2>2, <2>3, <2>4 DEF IpcInv
  <1>12. QED BY <1>10, <1>11

LEMMA TakeStep ==
    ASSUME IpcInv, IosTake
    PROVE  /\ IpcInv' /\ ipc.ppcmsg # Null /\ ipc.ppcmsg \in Request
           /\ Served' = Served \cup {ipc.ppcmsg}
           /\ Pipe(ipc') = Ring(ipc) /\ Pipe(ipc) = <<ipc.ppcmsg>> \o Ring(ipc)
           /\ ipc'.ppcmsg = Null /\ ipc'.queued = ipc.queued
  <1> DEFINE m == ipc.ppcmsg
  <1>1. /\ BlockTypes /\ ReplyInv /\ DriverInv /\ CallerInv
        /\ reqKind' = reqKind /\ reqRet' = reqRet /\ ipcCall' = ipcCall
        /\ taken' = taken \cup {m} /\ acked' = TRUE
        /\ armmsg' = armmsg /\ armReady' = armReady /\ dropped' = dropped /\ refused' = refused
        /\ ipc' = [ipc EXCEPT !.ppcmsg = Null] /\ m # Null
    BY DEF IosTake, IpcInv
  <1>2. PipeOK(ipc, Served) /\ AccountOK(ipc, Served, acked, reqKind)
    BY <1>1 DEF DriverInv
  <1>3. LET T == Served \cup {m} IN
        /\ PipeOK(ipc', T) /\ AccountOK(ipc', T, TRUE, reqKind)
        /\ Held(ipc', T) = Held(ipc, Served) /\ (Stalled(ipc') <=> Stalled(ipc))
        /\ ipc'.ppcmsg = Null /\ ipc'.queued = ipc.queued
        /\ Pipe(ipc') = Ring(ipc) /\ Pipe(ipc) = <<m>> \o Ring(ipc)
    BY <1>1, <1>2, Taking
  <1>4. Served' = Served \cup {m} /\ Busy' = Busy
    BY <1>1, <1>3 DEF Served, InReply, Busy
  <1>5. m \in Request /\ m \notin Served
    <2>1. Mailbox(ipc) = {m} /\ m \in Request
      BY <1>1, <1>2, PipeFacts
    <2>2. QED BY <1>2, <2>1 DEF PipeOK
  <1>6. BlockTypes'
    BY <1>1, <1>5 DEF BlockTypes
  <1>7. ReplyInv'
    <2>1. armmsg # m
      BY <1>1, <1>5 DEF Served, InReply
    <2>2. QED BY <1>1, <2>1 DEF ReplyInv
  <1>8. DriverInv'
    BY <1>1, <1>3, <1>4 DEF DriverInv
  <1>9. CallerInv'
    BY <1>1, <1>4 DEF CallerInv
  <1>10. QED BY <1>1, <1>3, <1>4, <1>5, <1>6, <1>7, <1>8, <1>9 DEF IpcInv

LEMMA IosReplyStep ==
    ASSUME IpcInv, NEW r \in Request, IosReply(r)
    PROVE  IpcInv' /\ Served' = Served /\ ipc' = ipc
  <1>1. /\ BlockTypes /\ ReplyInv /\ DriverInv /\ CallerInv
        /\ ipc' = ipc /\ reqKind' = reqKind /\ reqRet' = [reqRet EXCEPT ![r] = "replied"]
        /\ ipcCall' = ipcCall /\ taken' = taken \ {r} /\ r \in taken /\ acked' = acked
        /\ armReady /\ armmsg' = r /\ armReady' = FALSE /\ dropped' = dropped
        /\ refused' = (refused \/ reqKind[r] = "reboot")
    BY DEF IosReply, IpcInv
  <1>2. Null \notin Request
    BY IpcAssumption DEF Null
  <1>3. Served' = Served /\ Busy' = Busy
    <2>1. Served' = Served
      BY <1>1, <1>2 DEF Served, InReply, ReplyInv
    <2>2. QED BY <1>1, <2>1 DEF Busy
  <1>4. /\ reqRet' \in [Request -> {"none", "replied", "OK"}] /\ reqRet'[r] = "replied"
        /\ \A x \in Request : reqRet[x] # "none" => reqRet'[x] # "none"
    BY <1>1 DEF BlockTypes
  <1>5. BlockTypes'
    BY <1>1, <1>4 DEF BlockTypes
  <1>6. ReplyInv'
    BY <1>1, <1>2, <1>4 DEF ReplyInv
  <1>7. DriverInv'
    BY <1>1, <1>3 DEF DriverInv
  <1>8. CallerInv'
    BY <1>1, <1>3, <1>4 DEF CallerInv
  <1>9. QED BY <1>1, <1>3, <1>5, <1>6, <1>7, <1>8 DEF IpcInv

LEMMA RelaunchStep ==
    ASSUME IpcInv, NEW r \in Request, IosRelaunch(r)
    PROVE  IpcInv' /\ Served' = {} /\ ipc' = ipc
  <1>1. /\ BlockTypes /\ ReplyInv /\ DriverInv /\ CallerInv
        /\ ipc' = ipc /\ reqKind' = reqKind /\ reqRet' = reqRet
        /\ ipcCall' = ipcCall /\ taken' = {} /\ r \in taken /\ acked = FALSE /\ acked' = TRUE
        /\ armmsg = Null /\ armmsg' = armmsg /\ armReady' = armReady
        /\ dropped' = dropped \cup (taken \ {r}) /\ refused' = refused
        /\ reqKind[r] = "reboot"
    BY DEF IosRelaunch, IpcInv, BlockTypes
  <1>2. Served = taken /\ Served' = {}
    BY <1>1 DEF Served, InReply
  <1>3. PipeOK(ipc, Served) /\ AccountOK(ipc, Served, FALSE, reqKind) /\ r \in Served
    BY <1>1, <1>2 DEF DriverInv
  <1>4. /\ PipeOK(ipc, {}) /\ AccountOK(ipc, {}, TRUE, reqKind)
        /\ Held(ipc, {}) = (Held(ipc, Served) \ Served) \cup {r}
    BY <1>1, <1>3, GivingWay
  <1>5. Busy' = (Busy \ Served) \cup {r} /\ Served \subseteq Busy
    BY <1>1, <1>2, <1>4, BusyFacts DEF Busy
  <1>6. BlockTypes'
    BY <1>1 DEF BlockTypes
  <1>7. ReplyInv'
    BY <1>1, IpcAssumption DEF ReplyInv, Null, BlockTypes
  <1>8. DriverInv'
    BY <1>1, <1>2, <1>3, <1>4, <1>5 DEF DriverInv
  <1>9. CallerInv'
    BY <1>1, <1>2, <1>3, <1>5 DEF CallerInv
  <1>10. QED BY <1>1, <1>2, <1>6, <1>7, <1>8, <1>9 DEF IpcInv

-----------------------------------------------------------------------------
(***************************************************************************)
(* The counters: MaxQueued and a request for each caller fit in a word, so *)
(* that the counter of the queued requests never returns to zero.          *)
(***************************************************************************)
Room == IsFiniteSet(IpcCaller) /\ MaxQueued + Cardinality(IpcCaller) < IpcWord

Prepared == {c \in IpcCaller : ipcCall[c].at = "prepared"}

CountInv == ipc.queued + Cardinality(Prepared) <= MaxQueued + Cardinality(IpcCaller)

LEMMA QueuedNext ==
    ASSUME NEW s, DriverOK(s), ~QueueFull(s), NEW r, s.queued + 1 < IpcWord
    PROVE  SendIfReady(QueueRequest(s, r)).queued = s.queued + 1
  <1>1. /\ s \in Driver /\ s.queued \in 0 .. IpcWord - 1 /\ IpcWord \in Nat
        /\ Count(s) # IpcCapacity
    BY DriverFacts, Counters
  <1> DEFINE k == s.queued + 1
  <1>2. IpcWord \in Nat \ {0} /\ k \in 0 .. 2 * IpcWord - 1 /\ k < IpcWord
    BY <1>1
  <1> HIDE DEF k
  <1>3. k % IpcWord = k
    BY <1>2, WrapOnce
  <1>4. QueueRequest(s, r).queued = k % IpcWord
    <2>1. QueueRequest(s, r) = [[[s EXCEPT !.queue = [s.queue EXCEPT ![s.back] = r]]
                                    EXCEPT !.back = Advance(s.back)]
                                    EXCEPT !.queued = k % IpcWord]
      BY <1>1 DEF QueueRequest, Driver, k
    <2>2. QED BY <1>1, <2>1 DEF Driver
  <1>5. QED BY <1>1, <1>3, <1>4, QueueOnly DEF k

LEMMA CountStep ==
    ASSUME Room, IpcInv, CountInv, IpcNext
    PROVE  ipc'.queued >= ipc.queued /\ CountInv'
  <1> DEFINE n == Cardinality(IpcCaller)
             p == Cardinality(Prepared)
             q == Cardinality(Prepared')
             k == ipc.queued
  <1>1. /\ BlockTypes /\ DriverInv /\ ReplyInv
        /\ DriverOK(ipc) /\ PipeOK(ipc, Served) /\ AccountOK(ipc, Served, acked, reqKind)
        /\ acked \in BOOLEAN
    BY DEF IpcInv, DriverInv, PipeOK, BlockTypes
  <1>2. /\ IsFiniteSet(Prepared) /\ IsFiniteSet(Prepared')
        /\ p \in Nat /\ q \in Nat /\ n \in Nat /\ p <= n /\ q <= n
    <2>1. Prepared \in SUBSET IpcCaller /\ Prepared' \in SUBSET IpcCaller
      BY DEF Prepared
    <2>2. QED BY <2>1, FS_Subset, FS_CardinalityType DEF Room
  <1>3. k \in Nat /\ MaxQueued \in Nat /\ IpcWord \in Nat
    BY <1>1, DriverFacts, IpcAssumption
  <1>4. k + p <= MaxQueued + n /\ MaxQueued + n < IpcWord
    BY DEF CountInv, Room
  <1>5. SUFFICES ipc'.queued >= k /\ ipc'.queued + q <= MaxQueued + n
    BY DEF CountInv
  <1> HIDE DEF k, p, q, n
  <1>6. ASSUME ipc'.queued = k, Prepared' \subseteq Prepared
        PROVE  ipc'.queued >= k /\ ipc'.queued + q <= MaxQueued + n
    <2>1. q <= p
      BY <1>2, <1>6, FS_Subset DEF q, p
    <2>2. QED BY <1>2, <1>3, <1>4, <1>6, <2>1
  <1>7. ASSUME NEW c \in IpcCaller, NEW kind \in Kind, Prepare(c, kind)
        PROVE  ipc'.queued >= k /\ ipc'.queued + q <= MaxQueued + n
    <2>1. ipc'.queued = k /\ k < MaxQueued
      BY <1>7 DEF Prepare, k
    <2>2. QED BY <1>2, <1>3, <2>1
  <1>8. ASSUME NEW c \in IpcCaller, Submit(c)
        PROVE  ipc'.queued >= k /\ ipc'.queued + q <= MaxQueued + n
    <2>1. c \in Prepared /\ ~QueueFull(ipc)
          /\ ipc' = SendIfReady(QueueRequest(ipc, ipcCall[c].req))
      BY <1>8 DEF Submit, Prepared
    <2>2. Prepared' = Prepared \ {c}
      <3>1. /\ \A d \in IpcCaller : d # c => ipcCall'[d] = ipcCall[d]
            /\ ipcCall'[c].at # "prepared"
        BY <1>1, <1>8 DEF Submit, Leave, BlockTypes
      <3>2. QED BY <3>1 DEF Prepared
    <2>3. q = p - 1
      BY <1>2, <2>1, <2>2, FS_RemoveElement DEF p, q
    <2>4. k + 1 < IpcWord
      BY <1>2, <1>3, <1>4, <2>3
    <2>5. ipc'.queued = k + 1
      BY <1>1, <2>1, <2>4, QueuedNext DEF k
    <2>6. QED BY <1>2, <1>3, <1>4, <2>3, <2>5
  <1>9. ASSUME NEW c \in IpcCaller, SubmitBusy(c) \/ Return(c)
        PROVE  ipc'.queued >= k /\ ipc'.queued + q <= MaxQueued + n
    <2>1. ipc' = ipc /\ ipcCall' = [ipcCall EXCEPT ![c] = [at |-> "out", req |-> Null]]
      BY <1>9 DEF SubmitBusy, Return, Leave
    <2>2. Prepared' \subseteq Prepared
      BY <1>1, <2>1 DEF Prepared, BlockTypes
    <2>3. QED BY <1>6, <2>1, <2>2 DEF k
  <1>10. ASSUME IpcReplyHandler
         PROVE  ipc'.queued >= k /\ ipc'.queued + q <= MaxQueued + n
    <2> DEFINE s == RelaunchRefused(ipc, armmsg)
    <2>1. s.queued = k /\ DriverOK(s)
      <3>1. armmsg \in Served
        BY <1>10 DEF IpcReplyHandler, Served, InReply
      <3>2. QED BY <1>1, <3>1, Refusing DEF PipeOK, k
    <2> HIDE DEF s
    <2>2. CASE ReplySync(armmsg)
      <3>1. ipc' = s /\ ipcCall' = Wake(armmsg)
        BY <2>2 DEF ReplySync, s
      <3>2. Prepared' \subseteq Prepared
        BY <1>1, <3>1, Waking DEF Prepared
      <3>3. QED BY <1>6, <2>1, <3>1, <3>2
    <2>3. CASE ReplyAsync(armmsg)
      <3>1. /\ ipcCall' = ipcCall
            /\ \/ ipc' = s
               \/ \E next \in Request : /\ s.queued < MaxQueued
                                        /\ ~QueueFull(s)
                                        /\ ipc' = SendIfReady(QueueRequest(s, next))
        BY <2>3 DEF ReplyAsync, s
      <3>2. Prepared' = Prepared
        BY <3>1 DEF Prepared
      <3>3. CASE ipc' = s
        BY <1>6, <2>1, <3>2, <3>3
      <3>4. CASE \E next \in Request : /\ s.queued < MaxQueued
                                       /\ ~QueueFull(s)
                                       /\ ipc' = SendIfReady(QueueRequest(s, next))
        <4>1. PICK next \in Request : /\ k < MaxQueued
                                      /\ ~QueueFull(s)
                                      /\ ipc' = SendIfReady(QueueRequest(s, next))
          BY <2>1, <3>4
        <4>2. k + 1 < IpcWord
          BY <1>2, <1>3, <1>4, <4>1
        <4>3. ipc'.queued = k + 1
          BY <2>1, <4>1, <4>2, QueuedNext
        <4>4. QED BY <1>2, <1>3, <4>1, <4>3
      <3>5. QED BY <3>1, <3>3, <3>4
    <2>4. QED BY <1>10, <2>2, <2>3 DEF IpcReplyHandler
  <1>11. ASSUME IpcAckHandler
         PROVE  ipc'.queued >= k /\ ipc'.queued + q <= MaxQueued + n
    <2>1. ipc'.queued = k
      BY <1>11, AckStep DEF k
    <2>2. ipcCall' = ipcCall \/ \E r : ipcCall' = Wake(r)
      BY <1>11 DEF IpcAckHandler
    <2>3. Prepared' \subseteq Prepared
      BY <1>1, <2>2, Waking DEF Prepared
    <2>4. QED BY <1>6, <2>1, <2>3
  <1>12. ASSUME IosTake
         PROVE  ipc'.queued >= k /\ ipc'.queued + q <= MaxQueued + n
    <2>1. ipc'.queued = k
      BY <1>12, TakeStep DEF k
    <2>2. Prepared' = Prepared
      BY <1>12 DEF IosTake, Prepared
    <2>3. QED BY <1>6, <2>1, <2>2
  <1>13. ASSUME NEW r \in Request, IosReply(r) \/ IosRelaunch(r)
         PROVE  ipc'.queued >= k /\ ipc'.queued + q <= MaxQueued + n
    <2>1. ipc' = ipc /\ ipcCall' = ipcCall
      BY <1>13 DEF IosReply, IosRelaunch
    <2>2. Prepared' = Prepared
      BY <2>1 DEF Prepared
    <2>3. QED BY <1>6, <2>1, <2>2 DEF k
  <1>14. QED
    BY <1>7, <1>8, <1>9, <1>10, <1>11, <1>12, <1>13 DEF IpcNext, IpcThread

-----------------------------------------------------------------------------
(* The ring and the mailbox, read as the broker's queue.                   *)
LEMMA Mapping ==
    ASSUME NEW s, NEW S, PipeOK(s, S)
    PROVE  /\ (IF s.ppcmsg = Null THEN << >> ELSE <<s.ppcmsg>>)
                 \o [i \in 1 .. Waiting(s) |-> s.queue[(s.front + i - 1) % IpcCapacity]]
                 = Pipe(s)
           /\ ToSet(Pipe(s)) \subseteq Held(s, S)
           /\ ToSet(Pipe(s)) \cap S = {}
           /\ Pipe(s) \in Seq(Request)
  <1>1. Waiting(s) = Count(s)
    BY Counters DEF PipeOK
  <1> DEFINE p == IF s.ppcmsg = Null THEN << >> ELSE <<s.ppcmsg>>
             q == Ring(s)
  <1>2. p \in Seq(Request) /\ q \in Seq(Request)
    BY PipeFacts
  <1>3. \A i \in 1 .. Len(p) : p[i] \in Mailbox(s)
    BY DEF Mailbox
  <1>4. \A i \in 1 .. Len(q) : q[i] \in Waits(s)
    BY <1>2, LenProperties DEF Waits, ToSet
  <1> HIDE DEF p, q
  <1> DEFINE u == p \o q
  <1>5. /\ u \in Seq(Request) /\ Len(u) = Len(p) + Len(q)
        /\ \A i \in 1 .. Len(p) + Len(q) :
              u[i] = IF i <= Len(p) THEN p[i] ELSE q[i - Len(p)]
    BY <1>2, ConcatProperties
  <1>6. Len(p) \in Nat /\ Len(q) \in Nat /\ DOMAIN u = 1 .. Len(p) + Len(q)
    BY <1>2, <1>5, LenProperties
  <1> HIDE DEF u
  <1>7. \A i \in DOMAIN u : u[i] \in Mailbox(s) \cup Waits(s)
    <2> SUFFICES ASSUME NEW i \in 1 .. Len(p) + Len(q)
                 PROVE  u[i] \in Mailbox(s) \cup Waits(s)
      BY <1>6
    <2>1. CASE i <= Len(p)
      <3>1. i \in 1 .. Len(p)
        BY <1>6, <2>1
      <3>2. QED BY <1>3, <1>5, <2>1, <3>1
    <2>2. CASE ~(i <= Len(p))
      <3>1. i - Len(p) \in 1 .. Len(q)
        BY <1>6, <2>2
      <3>2. QED BY <1>4, <1>5, <2>2, <3>1
    <2>3. QED BY <2>1, <2>2
  <1>8. ToSet(u) \subseteq Mailbox(s) \cup Waits(s)
    BY <1>7 DEF ToSet
  <1>9. u = Pipe(s)
    BY DEF u, p, q, Pipe
  <1>10. [i \in 1 .. Waiting(s) |-> s.queue[(s.front + i - 1) % IpcCapacity]] = q
    BY <1>1 DEF q, Ring, RingSlot
  <1>11. S \cap (Mailbox(s) \cup Waits(s)) = {}
    BY DEF PipeOK
  <1>12. QED BY <1>5, <1>8, <1>9, <1>10, <1>11 DEF Held, u, p

(* What a request is asked for changes only while it is nobody's.          *)
LEMMA KindsKept ==
    ASSUME IpcInv, NEW c \in IpcCaller,
           \/ \E kind \in Kind : Prepare(c, kind)
           \/ SubmitBusy(c) \/ Return(c)
    PROVE  \A x \in Busy : reqKind'[x] = reqKind[x]
  <1>1. reqKind \in [Request -> Kind \cup {"free"}] /\ Busy \subseteq Request
    BY BusyFacts DEF IpcInv, BlockTypes
  <1>2. CASE \E kind \in Kind : Prepare(c, kind)
    <2>1. PICK r \in Request, kind \in Kind :
             reqKind[r] = "free" /\ reqKind' = [reqKind EXCEPT ![r] = kind]
      BY <1>2 DEF Prepare
    <2>2. r \notin Busy
      BY <2>1, FreeBlock
    <2>3. QED BY <1>1, <2>1, <2>2
  <1>3. CASE SubmitBusy(c) \/ Return(c)
    <2>1. ipcCall[c].at \in {"prepared", "woken"}
          /\ reqKind' = [reqKind EXCEPT ![ipcCall[c].req] = "free"]
      BY <1>3 DEF SubmitBusy, Return, Free
    <2>2. ipcCall[c].req \notin Busy
      BY <2>1 DEF IpcInv, CallerInv
    <2>3. QED BY <1>1, <2>1, <2>2
  <1>4. QED BY <1>2, <1>3

LEMMA AnsweredKinds ==
    ASSUME IpcInv, ReplyAsync(armmsg)
    PROVE  \A x \in Busy \ {armmsg} : reqKind'[x] = reqKind[x]
  <1>1. reqKind \in [Request -> Kind \cup {"free"}] /\ Busy \subseteq Request
    BY BusyFacts DEF IpcInv, BlockTypes
  <1>2. CASE reqKind' = [reqKind EXCEPT ![armmsg] = "free"]
    BY <1>1, <1>2
  <1>3. CASE \E next \in Request :
                /\ reqKind[next] = "free"
                /\ reqKind' = [reqKind EXCEPT ![armmsg] = "free", ![next] = "async"]
    <2>1. PICK next \in Request :
                /\ reqKind[next] = "free"
                /\ reqKind' = [reqKind EXCEPT ![armmsg] = "free", ![next] = "async"]
      BY <1>3
    <2>2. next \notin Busy
      BY <2>1, FreeBlock
    <2>3. QED BY <1>1, <2>1, <2>2
  <1>4. QED BY <1>2, <1>3 DEF ReplyAsync

(* What every step keeps, and what it is to the broker.                    *)
LEMMA NextStep ==
    ASSUME Room, IpcInv, CountInv, IpcNext
    PROVE  /\ IpcInv' /\ CountInv'
           /\ ipc.ppcmsg # Null => ipc'.ppcmsg \in {ipc.ppcmsg, Null}
           /\ (\E r \in taken : reqKind[r] = "reboot") => taken' \subseteq taken
           /\ Broker!BrokerNext \/ UNCHANGED Broker!brokerVars
  <1>1. ipc'.queued >= ipc.queued /\ CountInv'
    BY CountStep
  <1>2. /\ PipeOK(ipc, Served) /\ AccountOK(ipc, Served, acked, reqKind)
        /\ InMailbox \o InRing = Pipe(ipc) /\ taken \cup InReply = Served
        /\ ToSet(Pipe(ipc)) \cup Served \subseteq Busy
        /\ ToSet(Pipe(ipc)) \cap Served = {} /\ Pipe(ipc) \in Seq(Request)
        /\ Reboots = {x \in ToSet(Pipe(ipc)) \cup Served : reqKind[x] = "reboot"}
    <2>1. PipeOK(ipc, Served) /\ AccountOK(ipc, Served, acked, reqKind)
      BY DEF IpcInv, DriverInv
    <2>2. /\ InMailbox \o InRing = Pipe(ipc) /\ ToSet(Pipe(ipc)) \subseteq Busy
          /\ ToSet(Pipe(ipc)) \cap Served = {} /\ Pipe(ipc) \in Seq(Request)
      BY <2>1, Mapping DEF InMailbox, InRing, Busy
    <2>3. QED BY <2>1, <2>2, BusyFacts DEF Served, Reboots
  <1>3. ASSUME IpcInv'
        PROVE  /\ (InMailbox \o InRing)' = Pipe(ipc') /\ (taken \cup InReply)' = Served'
               /\ Reboots' = {x \in ToSet(Pipe(ipc')) \cup Served' : reqKind'[x] = "reboot"}
    <2>1. PipeOK(ipc', Served')
      BY <1>3 DEF IpcInv, DriverInv
    <2>2. (InMailbox \o InRing)' = Pipe(ipc')
      BY <2>1, Mapping DEF InMailbox, InRing
    <2>3. QED BY <2>2 DEF Served, Reboots
  <1> DEFINE waiting == InMailbox \o InRing
  <1>4. Broker!ToSet(waiting) = ToSet(waiting)
    BY DEF Broker!ToSet, ToSet
  <1>5. Broker!Known \subseteq Busy
    <2>1. Broker!Known = Broker!ToSet(waiting) \cup (taken \cup InReply)
      BY DEF Broker!Known
    <2>2. QED BY <1>2, <1>4, <2>1
  (* A step that leaves the queue and the set alone is none of the broker. *)
  <1>6. ASSUME IpcInv', Pipe(ipc') = Pipe(ipc), Served' = Served,
               \A x \in Busy : reqKind'[x] = reqKind[x]
        PROVE  UNCHANGED Broker!brokerVars
    <2>1. Reboots' = Reboots
      BY <1>2, <1>3, <1>6
    <2>2. QED BY <1>2, <1>3, <1>6, <2>1 DEF Broker!brokerVars
  <1>7. ASSUME NEW c \in IpcCaller, NEW kind \in Kind, Prepare(c, kind)
        PROVE  /\ IpcInv' /\ ipc' = ipc /\ taken' = taken
               /\ UNCHANGED Broker!brokerVars
    <2>1. IpcInv' /\ ipc' = ipc /\ taken' = taken /\ Served' = Served
      BY <1>7, PrepareStep DEF Prepare, iosVars, Served, InReply
    <2>2. \A x \in Busy : reqKind'[x] = reqKind[x]
      BY <1>7, KindsKept
    <2>3. QED BY <1>6, <2>1, <2>2
  <1>8. ASSUME NEW c \in IpcCaller, SubmitBusy(c) \/ Return(c)
        PROVE  /\ IpcInv' /\ ipc' = ipc /\ taken' = taken
               /\ UNCHANGED Broker!brokerVars
    <2>1. /\ ipcCall[c].at \in {"prepared", "woken"} /\ Free(ipcCall[c].req) /\ Leave(c)
          /\ UNCHANGED <<ipc, iosVars>>
      BY <1>8 DEF SubmitBusy, Return
    <2>2. IpcInv'
      BY <2>1, FreeStep
    <2>3. ipc' = ipc /\ taken' = taken /\ Served' = Served
      BY <2>1 DEF iosVars, Served, InReply
    <2>4. \A x \in Busy : reqKind'[x] = reqKind[x]
      BY <1>8, KindsKept
    <2>5. QED BY <1>6, <2>2, <2>3, <2>4
  <1>9. ASSUME NEW c \in IpcCaller, Submit(c)
        PROVE  /\ IpcInv' /\ taken' = taken /\ (ipc.ppcmsg # Null => ipc'.ppcmsg = ipc.ppcmsg)
               /\ Broker!BrokerNext
    <2> DEFINE r == ipcCall[c].req
    <2>1. /\ IpcInv' /\ Pipe(ipc') = Append(Pipe(ipc), r) /\ Served' = Served
          /\ r \notin Busy /\ r \in Request
          /\ ipc.ppcmsg # Null => ipc'.ppcmsg = ipc.ppcmsg
      BY <1>1, <1>9, SubmitStep
    <2>2. taken' = taken /\ reqKind' = reqKind
      BY <1>9 DEF Submit, iosVars
    <2> HIDE DEF r
    <2>3. r \notin Broker!Known
      BY <1>5, <2>1
    <2>4. (InMailbox \o InRing)' = Append(InMailbox \o InRing, r)
          /\ (taken \cup InReply)' = taken \cup InReply
      BY <1>2, <1>3, <2>1
    <2>5. Reboots' \in {Reboots, Reboots \cup {r}}
      <3>1. ToSet(Pipe(ipc')) = ToSet(Pipe(ipc)) \cup {r}
        BY <1>2, <2>1, AppendSet
      <3>2. QED BY <1>2, <1>3, <2>1, <2>2, <3>1
    <2>6. Broker!Accept(r)
      BY <2>3, <2>4, <2>5 DEF Broker!Accept
    <2>7. QED BY <2>1, <2>2, <2>6 DEF Broker!BrokerNext
  <1>10. ASSUME IpcReplyHandler
        PROVE  /\ IpcInv' /\ taken' = taken /\ (ipc.ppcmsg # Null => ipc'.ppcmsg = ipc.ppcmsg)
               /\ Broker!BrokerNext
    <2>1. taken' = taken
      BY <1>10 DEF IpcReplyHandler
    <2>2. Served \subseteq Request
      BY <1>2 DEF PipeOK
    <2>3. CASE ReplySync(armmsg)
      <3>1. /\ IpcInv' /\ armmsg \in Served /\ Served' = Served \ {armmsg}
            /\ Pipe(ipc') = Pipe(ipc) /\ ipc'.ppcmsg = ipc.ppcmsg
        BY <1>10, <2>3, ReplySyncStep
      <3>2. Reboots' = Reboots \ {armmsg}
        <4>1. reqKind' = reqKind
          BY <2>3 DEF ReplySync
        <4>2. QED BY <1>2, <1>3, <3>1, <4>1
      <3>3. Broker!Answer(armmsg)
        BY <1>2, <1>3, <3>1, <3>2 DEF Broker!Answer
      <3>4. QED BY <2>1, <2>2, <3>1, <3>3 DEF Broker!BrokerNext
    <2>4. CASE ReplyAsync(armmsg)
      <3>1. /\ IpcInv' /\ armmsg \in Served /\ Served' = Served \ {armmsg}
            /\ ipc.ppcmsg # Null => ipc'.ppcmsg = ipc.ppcmsg
            /\ \/ Pipe(ipc') = Pipe(ipc)
               \/ \E next \in Request : /\ next \notin Busy
                                        /\ Pipe(ipc') = Append(Pipe(ipc), next)
        BY <1>1, <1>10, <2>4, ReplyAsyncStep
      <3>2. Broker!BrokerNext
        <4>1. CASE Pipe(ipc') = Pipe(ipc)
          <5>1. Reboots' = Reboots \ {armmsg}
            BY <1>2, <1>3, <2>4, <3>1, <4>1, AnsweredKinds
          <5>2. Broker!Answer(armmsg)
            BY <1>2, <1>3, <3>1, <4>1, <5>1 DEF Broker!Answer
          <5>3. QED BY <2>2, <3>1, <5>2 DEF Broker!BrokerNext
        <4>2. CASE \E next \in Request : /\ next \notin Busy
                                         /\ Pipe(ipc') = Append(Pipe(ipc), next)
          <5>1. PICK next \in Request : /\ next \notin Busy
                                        /\ Pipe(ipc') = Append(Pipe(ipc), next)
            BY <4>2
          <5>2. next \notin Broker!Known
            BY <1>5, <5>1
          <5>3. (InMailbox \o InRing)' = Append(InMailbox \o InRing, next)
                /\ (taken \cup InReply)' = (taken \cup InReply) \ {armmsg}
            BY <1>2, <1>3, <3>1, <5>1
          <5>4. Reboots' \in {Reboots \ {armmsg}, (Reboots \ {armmsg}) \cup {next}}
            <6>1. ToSet(Pipe(ipc')) = ToSet(Pipe(ipc)) \cup {next}
              BY <1>2, <5>1, AppendSet
            <6>2. \A x \in Busy \ {armmsg} : reqKind'[x] = reqKind[x]
              BY <2>4, AnsweredKinds
            <6>3. armmsg \in Busy /\ armmsg # next
              BY <1>2, <3>1, <5>1
            <6>4. QED BY <1>2, <1>3, <3>1, <5>1, <6>1, <6>2, <6>3
          <5>5. Broker!AnswerAndAccept(armmsg, next)
            BY <1>2, <3>1, <5>2, <5>3, <5>4 DEF Broker!AnswerAndAccept
          <5>6. QED BY <2>2, <3>1, <5>5 DEF Broker!BrokerNext
        <4>3. QED BY <3>1, <4>1, <4>2
      <3>3. QED BY <2>1, <3>1, <3>2
    <2>5. QED BY <1>10, <2>3, <2>4 DEF IpcReplyHandler
  <1>11. ASSUME IpcAckHandler
        PROVE  /\ IpcInv' /\ taken' = taken /\ ipc.ppcmsg = Null
               /\ UNCHANGED Broker!brokerVars
    <2>1. IpcInv' /\ Served' = Served /\ Pipe(ipc') = Pipe(ipc) /\ ipc.ppcmsg = Null
      BY <1>11, AckStep
    <2>2. taken' = taken /\ reqKind' = reqKind
      BY <1>11 DEF IpcAckHandler
    <2>3. QED BY <1>6, <2>1, <2>2
  <1>12. ASSUME IosTake
         PROVE  /\ IpcInv' /\ ipc'.ppcmsg = Null /\ \A r \in taken : reqKind[r] # "reboot"
                /\ Broker!BrokerNext
    <2> DEFINE m == ipc.ppcmsg
    <2>1. /\ IpcInv' /\ m # Null /\ m \in Request /\ Served' = Served \cup {m}
          /\ Pipe(ipc') = Ring(ipc) /\ Pipe(ipc) = <<m>> \o Ring(ipc)
          /\ ipc'.ppcmsg = Null
      BY <1>12, TakeStep
    <2> HIDE DEF m
    <2>2. Ring(ipc) \in Seq(Request)
      BY <1>2, PipeFacts
    <2>3. Pipe(ipc) # << >> /\ Head(Pipe(ipc)) = m /\ Tail(Pipe(ipc)) = Ring(ipc)
      BY <2>1, <2>2
    <2>4. Broker!Take
      <3>1. ToSet(Pipe(ipc)) = {m} \cup ToSet(Pipe(ipc'))
        BY <1>2, <2>1, <2>3, TailSet
      <3>2. reqKind' = reqKind
        BY <1>12 DEF IosTake
      <3>3. Reboots' = Reboots
        BY <1>2, <1>3, <2>1, <3>1, <3>2
      <3>4. QED BY <1>2, <1>3, <2>1, <2>3, <3>3 DEF Broker!Take
    <2>5. ASSUME NEW r \in taken, reqKind[r] = "reboot" PROVE FALSE
      <3>1. r \in Sent(ipc, Served) /\ r \in Served
        BY DEF Sent, Served
      <3>2. Mailbox(ipc) \subseteq {r}
        BY <1>2, <2>5, <3>1 DEF AccountOK
      <3>3. Mailbox(ipc) = {m}
        BY <2>1 DEF Mailbox, m
      <3>4. QED BY <1>2, <3>1, <3>2, <3>3 DEF PipeOK
    <2>6. QED BY <2>1, <2>4, <2>5 DEF Broker!BrokerNext
  <1>13. ASSUME NEW r \in Request, IosReply(r)
         PROVE  /\ IpcInv' /\ ipc' = ipc /\ taken' \subseteq taken
                /\ UNCHANGED Broker!brokerVars
    <2>1. IpcInv' /\ Served' = Served /\ ipc' = ipc
      BY <1>13, IosReplyStep
    <2>2. taken' \subseteq taken /\ reqKind' = reqKind
      BY <1>13 DEF IosReply
    <2>3. QED BY <1>6, <2>1, <2>2
  <1>14. ASSUME NEW r \in Request, IosRelaunch(r)
         PROVE  IpcInv' /\ ipc' = ipc /\ taken' = {} /\ Broker!BrokerNext
    <2>1. IpcInv' /\ Served' = {} /\ ipc' = ipc
      BY <1>14, RelaunchStep
    <2>2. taken' = {} /\ reqKind' = reqKind /\ r \in taken /\ reqKind[r] = "reboot"
      BY <1>14 DEF IosRelaunch
    <2>3. Broker!Relaunch
      <3>1. r \in Served /\ r \in Reboots
        BY <1>2, <2>2
      <3>2. Reboots' = Reboots \ Served
        BY <1>2, <1>3, <2>1, <2>2
      <3>3. QED BY <1>2, <1>3, <2>1, <3>1, <3>2 DEF Broker!Relaunch
    <2>4. QED BY <2>1, <2>2, <2>3 DEF Broker!BrokerNext
  <1>15. QED
    BY <1>1, <1>7, <1>8, <1>9, <1>10, <1>11, <1>12, <1>13, <1>14 DEF IpcNext, IpcThread

LEMMA StutterStep ==
    ASSUME IpcInv, CountInv, UNCHANGED ipcVars
    PROVE  IpcInv' /\ CountInv' /\ ipc' = ipc /\ taken' = taken
           /\ UNCHANGED Broker!brokerVars
  <1>1. /\ ipc' = ipc /\ reqKind' = reqKind /\ reqRet' = reqRet /\ ipcCall' = ipcCall
        /\ taken' = taken /\ acked' = acked /\ armmsg' = armmsg /\ armReady' = armReady
        /\ dropped' = dropped /\ refused' = refused
    BY DEF ipcVars, iosVars
  <1>2. Served' = Served /\ Busy' = Busy /\ Prepared' = Prepared
    BY <1>1 DEF Served, InReply, Busy, Prepared
  <1>3. BlockTypes' /\ ReplyInv'
    BY <1>1 DEF IpcInv, BlockTypes, ReplyInv
  <1>4. DriverInv' /\ CallerInv' /\ CountInv'
    BY <1>1, <1>2 DEF IpcInv, DriverInv, CallerInv, CountInv
  <1>5. UNCHANGED Broker!brokerVars
    BY <1>1 DEF Broker!brokerVars, InMailbox, InRing, InReply, Reboots
  <1>6. QED BY <1>1, <1>3, <1>4, <1>5 DEF IpcInv

LEMMA IpcInvariant ==
    ASSUME Room
    PROVE  IpcSpec => [](IpcInv /\ CountInv)
  <1>1. ASSUME IpcInit PROVE IpcInv /\ CountInv
    <2>1. Cardinality(Prepared) \in Nat /\ Cardinality(Prepared) <= Cardinality(IpcCaller)
          /\ Cardinality(IpcCaller) \in Nat
      <3>1. Prepared \in SUBSET IpcCaller
        BY DEF Prepared
      <3>2. QED BY <3>1, FS_Subset, FS_CardinalityType DEF Room
    <2>2. ipc.queued = 0 /\ MaxQueued \in Nat
      BY <1>1, IpcAssumption DEF IpcInit
    <2>3. CountInv
      BY <2>1, <2>2 DEF CountInv
    <2>4. QED BY <1>1, <2>3, IpcInitInv
  <1>2. ASSUME IpcInv /\ CountInv, [IpcNext]_ipcVars PROVE (IpcInv /\ CountInv)'
    <2>1. CASE IpcNext
      BY <1>2, <2>1, NextStep
    <2>2. CASE UNCHANGED ipcVars
      BY <1>2, <2>2, StutterStep
    <2>3. QED BY <1>2, <2>1, <2>2
  <1>3. QED BY <1>1, <1>2, PTL DEF IpcSpec

(* What the driver and IOS hold is theirs, a caller sleeps on what will    *)
(* wake it, and no acknowledgement stays in hand while requests wait.      *)
THEOREM IpcRequestsSafe ==
    ASSUME Room
    PROVE  IpcSpec => []RequestsSafe
  <1>1. IpcInv /\ CountInv => RequestsSafe
    BY InvSafe
  <1>2. QED BY <1>1, IpcInvariant, PTL

(* The mailbox carries one request at a time, and none to an IOS that has  *)
(* been asked to make way.                                                 *)
THEOREM IpcMailboxSafe ==
    ASSUME Room
    PROVE  IpcSpec => MailboxSafe
  <1>1. ASSUME IpcInv /\ CountInv, [IpcNext]_ipcVars
        PROVE  /\ [ipc.ppcmsg # Null => ipc'.ppcmsg \in {ipc.ppcmsg, Null}]_ipcVars
               /\ [(\E r \in taken : reqKind[r] = "reboot") => taken' \subseteq taken]_ipcVars
    BY <1>1, NextStep
  <1>2. QED BY <1>1, IpcInvariant, PTL DEF IpcSpec, MailboxSafe, MailboxNotOverwritten, QuietRelaunch

(* Requests reach IOS in the order of the calls, once each, and each is    *)
(* answered at most once: the ring and the registers implement the broker. *)
THEOREM IpcImplementsBroker ==
    ASSUME Room
    PROVE  IpcSpec => BrokerSpec
  <1>1. ASSUME IpcInit PROVE Broker!BrokerInit
    <2>1. PipeOK(ipc, Served) /\ Count(ipc) = 0 /\ ipc.ppcmsg = Null
      <3>1. PipeOK(ipc, Served)
        BY <1>1, IpcInitInv DEF IpcInv, DriverInv
      <3>2. ipc.queued = 0 /\ ipc.sent = 0 /\ ipc.ppcmsg = Null
        BY <1>1 DEF IpcInit
      <3>3. QED BY <3>1, <3>2 DEF Count
    <2>2. Ring(ipc) = << >> /\ Pipe(ipc) = << >>
      <3>1. Ring(ipc) = << >>
        BY <2>1, PipeFacts
      <3>2. QED BY <2>1, <3>1 DEF Pipe
    <2>3. InMailbox \o InRing = << >>
      BY <2>1, <2>2, Mapping DEF InMailbox, InRing
    <2>4. taken \cup InReply = {}
      BY <1>1 DEF IpcInit, InReply
    <2>5. Reboots = {}
      <3>1. \A x : x \notin ToSet(<< >>)
        BY DEF ToSet
      <3>2. taken = {} /\ InReply = {}
        BY <2>4
      <3>3. QED BY <2>3, <3>1, <3>2 DEF Reboots
    <2>6. QED BY <2>3, <2>4, <2>5 DEF Broker!BrokerInit
  <1>2. ASSUME IpcInv /\ CountInv, [IpcNext]_ipcVars
        PROVE  [Broker!BrokerNext]_Broker!brokerVars
    <2>1. CASE IpcNext
      BY <1>2, <2>1, NextStep
    <2>2. CASE UNCHANGED ipcVars
      BY <1>2, <2>2, StutterStep
    <2>3. QED BY <1>2, <2>1, <2>2
  <1>3. QED BY <1>1, <1>2, IpcInvariant, PTL DEF IpcSpec, BrokerSpec, Broker!BrokerSpec
=============================================================================
