------------------------------ MODULE OSAlarm -------------------------------
(***************************************************************************)
(* OS alarms (OS/OSAlarm.c) and the sleep built on them (OSSleepTicks in   *)
(* OS/OSThread.c).  Pending alarms form a list in ascending order of their *)
(* end; the processor's one decrementer is set for the first.  Every       *)
(* function runs with interrupts disabled and is one step, and so is the   *)
(* exception with the handler it calls.                                    *)
(***************************************************************************)
EXTENDS Integers, Sequences, FiniteSets, SequencesExt, Queues

CONSTANTS
    Alarm,       \* the OSAlarm objects
    Sleeper,     \* those that OSSleepTicks keeps on its thread's stack
    DvdAlarm,    \* those a reset does not cancel (__DVDTestAlarm)
    NoDec,       \* the decrementer has fired and not been set
    MaxDec,      \* the longest time the decrementer counts (0x7FFFFFFF)
    MaxTime,     \* bound: the clock stops here
    Delay,       \* the delays and periods clients ask for
    Start,       \* the starts of periodic alarms
    NotPending   \* abstraction: when an alarm that is not set is due

ASSUME AlarmAssumption ==
    /\ Sleeper \subseteq Alarm
    /\ DvdAlarm \subseteq Alarm \ Sleeper
    /\ NoDec \notin Nat
    /\ NotPending \notin Nat
    /\ MaxDec \in Nat \ {0}
    /\ MaxTime \in Nat
    /\ Delay \subseteq Nat \ {0}
    /\ Start \subseteq Nat

VARIABLES
    clock,     \* __OSGetSystemTime
    alarms,    \* AlarmQueue, the fields of the alarms and the decrementer
    asleep,    \* of a Sleeper: what its thread is doing
    down       \* the shutdown is past its final pass: nothing runs again

alarmVars == <<clock, alarms, asleep, down>>

AlarmInit ==
    /\ clock = 0
    /\ alarms = [queue |-> << >>,
                 end |-> [a \in Alarm |-> 0],
                 handler |-> [a \in Alarm |-> FALSE],
                 start |-> [a \in Alarm |-> 0],
                 period |-> [a \in Alarm |-> 0],
                 dec |-> NoDec]
    /\ asleep = [a \in Sleeper |-> "awake"]
    /\ down = FALSE

(***************************************************************************)
(* The list and the decrementer, as functions of their state s.            *)
(***************************************************************************)

SetTimerMutant(s, a) ==
    [s EXCEPT !.dec = IF s.end[a] < clock THEN clock ELSE s.end[a]]

(* The time at which the decrementer passes zero. *)
SetTimer(s, a) ==
    [s EXCEPT !.dec = IF s.end[a] < clock THEN clock
                      ELSE IF s.end[a] - clock <= MaxDec THEN s.end[a]
                      ELSE clock + MaxDec]

PeriodEndDriftMutant(start, period) ==
    IF start < clock THEN clock + period ELSE start

(* As a mutant that does not skip the periods missed. *)
PeriodEndMissedMutant(start, period) == IF start < clock THEN start + period ELSE start

(* The first end of a periodic alarm that has not passed. *)
PeriodEnd(start, period) ==
    IF start < clock
    THEN start + period * ((clock - start) \div period + 1)
    ELSE start

InsertAlarmMutant(s, a, end) ==
    LET e == IF s.period[a] > 0 THEN PeriodEnd(s.start[a], s.period[a]) ELSE end
        q == InsertByPriority(s.queue, a, [s.end EXCEPT ![a] = e])
        t == [s EXCEPT !.handler[a] = TRUE, !.end[a] = e, !.queue = q]
    IN  IF s.queue = << >> THEN SetTimer(t, a) ELSE t

(* Behind the alarms that end no later. *)
InsertAlarm(s, a, end) ==
    LET e == IF s.period[a] > 0 THEN PeriodEnd(s.start[a], s.period[a]) ELSE end
        q == InsertByPriority(s.queue, a, [s.end EXCEPT ![a] = e])
        t == [s EXCEPT !.handler[a] = TRUE, !.end[a] = e, !.queue = q]
    IN  IF Head(q) = a THEN SetTimer(t, a) ELSE t

(* What an alarm that is not pending holds is never read. *)
Unset(s, a) ==
    [s EXCEPT !.handler[a] = FALSE, !.end[a] = 0, !.start[a] = 0, !.period[a] = 0]

SetOnce(s, a, delay) == InsertAlarm([s EXCEPT !.period[a] = 0], a, clock + delay)

(* Without its handler an alarm is not in the list and nothing happens. *)
Cancel(s, a) ==
    LET q == Without(s.queue, a)
        t == [Unset(s, a) EXCEPT !.queue = q]
    IN  IF ~s.handler[a] THEN s
        ELSE IF Head(s.queue) = a /\ q # << >> THEN SetTimer(t, Head(q))
        ELSE t

(***************************************************************************)
(* The clients.  They set an alarm only when it is not pending: InsertAlarm*)
(* does not look, and would link it twice.                                 *)
(***************************************************************************)
Client == Alarm \ Sleeper

OSSetAlarm(a, delay) ==
    /\ ~alarms.handler[a]
    /\ alarms' = SetOnce(alarms, a, delay)
    /\ UNCHANGED <<clock, asleep>>

OSSetPeriodicAlarm(a, start, period) ==
    /\ ~alarms.handler[a]
    /\ alarms' = InsertAlarm([alarms EXCEPT !.start[a] = start, !.period[a] = period], a, 0)
    /\ UNCHANGED <<clock, asleep>>

OSCancelAlarm(a) ==
    /\ alarms.handler[a]
    /\ alarms' = Cancel(alarms, a)
    /\ UNCHANGED <<clock, asleep>>

(* OSSleepTicks up to the suspension of its thread. *)
OSSleepTicks(a, delay) ==
    /\ asleep[a] = "awake"
    /\ alarms' = SetOnce(alarms, a, delay)
    /\ asleep' = [asleep EXCEPT ![a] = "suspended"]
    /\ UNCHANGED clock

(* Another thread may resume the sleeper before its alarm does. *)
ResumeEarly(a) ==
    /\ asleep[a] = "suspended"
    /\ asleep' = [asleep EXCEPT ![a] = "resumed"]
    /\ UNCHANGED <<clock, alarms>>

(* The rest of OSSleepTicks: the alarm goes with the stack frame. *)
WakeUp(a) ==
    /\ asleep[a] = "resumed"
    /\ alarms' = Cancel(alarms, a)
    /\ asleep' = [asleep EXCEPT ![a] = "awake"]
    /\ UNCHANGED clock

(* The final pass of a shutdown, with interrupts disabled for good: all    *)
(* but the drive's alarms are cancelled, from the head on.  Each head      *)
(* cancelled sets the timer for the one behind it, so it ends at the first *)
(* alarm that stays, or else at the last.                                  *)
OnReset ==
    LET q == alarms.queue
        kept == SelectSeq(q, LAMBDA a : a \in DvdAlarm)
        timed == IF kept = << >> THEN Last(q) ELSE Head(kept)
        s == [alarms EXCEPT !.queue = kept,
                            !.handler = [a \in Alarm |-> alarms.handler[a] /\ a \in DvdAlarm]]
    IN  /\ alarms' = IF q = << >> \/ Head(q) = timed THEN s ELSE SetTimer(s, timed)
        /\ down' = TRUE
        /\ UNCHANGED <<clock, asleep>>

(***************************************************************************)
(* The decrementer.                                                        *)
(***************************************************************************)
AlarmTick ==
    /\ clock < MaxTime
    /\ clock' = clock + 1
    /\ UNCHANGED <<alarms, asleep>>

(* The first alarm leaves the list; a periodic one enters it again. *)
PopHead(s) ==
    LET a == Head(s.queue)
        popped == [s EXCEPT !.queue = Tail(@)]
    IN  IF s.period[a] > 0 THEN InsertAlarm(popped, a, 0) ELSE Unset(popped, a)

TimeHead(s) == IF s.queue = << >> THEN s ELSE SetTimer(s, Head(s.queue))

(* Handlers set one alarm, which may be the one that rang, or cancel one.  *)
HandlerOutcomes(s) ==
    {s} \cup {SetOnce(s, a, d) : a \in {b \in Client : ~s.handler[b]}, d \in Delay}
        \cup {Cancel(s, a) : a \in Client}

(* SleepAlarmHandler: OSResumeThread. *)
SleepAlarmHandler(a) ==
    [asleep EXCEPT ![a] = IF @ = "suspended" THEN "resumed" ELSE @]

(* DecrementerExceptionCallback, once the decrementer has passed zero. *)
DecrementerException ==
    LET s == [alarms EXCEPT !.dec = NoDec]
        a == Head(s.queue)
    IN  /\ alarms.dec # NoDec
        /\ clock > alarms.dec
        /\ UNCHANGED clock
        /\ IF s.queue = << >>
           THEN alarms' = s /\ UNCHANGED asleep
           ELSE IF clock < s.end[a]
           THEN alarms' = SetTimer(s, a) /\ UNCHANGED asleep
           ELSE \E t \in {PopHead(s)} :
                   IF a \in Sleeper
                   THEN /\ alarms' = TimeHead(t)
                        /\ asleep' = SleepAlarmHandler(a)
                   ELSE /\ alarms' \in HandlerOutcomes(TimeHead(t))
                        /\ UNCHANGED asleep

AlarmStep ==
    \/ \E a \in Client :
          \/ \E d \in Delay : \/ OSSetAlarm(a, d)
                              \/ \E t \in Start : OSSetPeriodicAlarm(a, t, d)
          \/ OSCancelAlarm(a)
    \/ \E a \in Sleeper : \/ \E d \in Delay : OSSleepTicks(a, d)
                          \/ ResumeEarly(a)
                          \/ WakeUp(a)
    \/ AlarmTick
    \/ DecrementerException

AlarmNext ==
    \/ ~down /\ AlarmStep /\ UNCHANGED down
    \/ ~down /\ OnReset

AlarmSpec == AlarmInit /\ [][AlarmNext]_alarmVars

-----------------------------------------------------------------------------
(***************************************************************************)
(* Properties.                                                             *)
(***************************************************************************)

(* The alarms keep their types and the decrementer its range. *)
AlarmTypeOK ==
    /\ clock \in 0 .. MaxTime
    /\ alarms.queue \in Seq(Alarm)
    /\ alarms.end \in [Alarm -> Nat]
    /\ alarms.handler \in [Alarm -> BOOLEAN]
    /\ alarms.start \in [Alarm -> Nat]
    /\ alarms.period \in [Alarm -> Nat]
    /\ alarms.dec \in 0 .. clock + MaxDec \cup {NoDec}
    /\ asleep \in [Sleeper -> {"awake", "suspended", "resumed"}]
    /\ \A a \in Alarm : alarms.handler[a] <=> a \in ToSet(alarms.queue)
    /\ IsInjective(alarms.queue)

(* The decrementer always comes in time for the first alarm: whatever was  *)
(* inserted or cancelled before it, and however far away it is.            *)
TimerCoversHead ==
    alarms.queue # << >> =>
        LET first == alarms.end[Head(alarms.queue)] IN
        /\ alarms.dec # NoDec
        /\ alarms.dec <= first \/ alarms.dec <= clock

(* The exception rings a: it is the first and its end has come. *)
Rings(a) ==
    /\ DecrementerException
    /\ alarms.queue # << >> /\ a = Head(alarms.queue)
    /\ clock >= alarms.end[a]

(* The next end of an alarm set again as it rings, however late that was:  *)
(* it is to come, and the first of its period to come, so that what was    *)
(* missed is skipped and no more than that.                                *)
ToCome(a) ==
    /\ alarms'.end[a] > clock
    /\ alarms'.period[a] > 0 => alarms'.end[a] <= clock + alarms'.period[a]

(* InsertAlarm looks for a start that has passed: a periodic alarm whose   *)
(* exception is taken at the very moment of its start, as it may be when   *)
(* the start was beyond the reach of the decrementer, keeps its end and    *)
(* rings a second time, as soon as the clock goes on.                      *)
StartAgain(a) ==
    /\ alarms'.period[a] > 0
    /\ clock = alarms'.start[a] /\ alarms'.end[a] = clock
    /\ alarms'.dec # NoDec /\ alarms'.dec >= clock

(* An alarm that is pending again after it rang is due at the next end of  *)
(* its period, which is to come, or rings for its start once more; and a   *)
(* pending periodic alarm is always on the grid of its start and period.   *)
RingsOnGrid ==
    [][\A a \in Alarm :
          /\ Rings(a) /\ alarms'.handler[a] => ToCome(a) \/ StartAgain(a)
          /\ alarms'.handler[a] /\ alarms'.period[a] > 0 =>
                /\ alarms'.end[a] >= alarms'.start[a]
                /\ (alarms'.end[a] - alarms'.start[a]) % alarms'.period[a] = 0]_alarmVars

(* A thread in OSSleepTicks is suspended only while its alarm is pending,  *)
(* and no alarm stays linked in the stack frame OSSleepTicks has left.     *)
SleepersHaveAlarms ==
    ~down => \A a \in Sleeper :
        /\ asleep[a] = "suspended" => a \in ToSet(alarms.queue)
        /\ asleep[a] = "awake" => a \notin ToSet(alarms.queue)

(* No alarm is forgotten: neither by the decrementer nor by a sleeper.     *)
AlarmsKept == TimerCoversHead /\ SleepersHaveAlarms

(* The list and its timer implement the abstract clock. *)
AbstractClock == INSTANCE AlarmClock WITH
    Idle <- NotPending,
    now <- clock,
    due <- [a \in Alarm |-> IF alarms.handler[a] THEN alarms.end[a] ELSE NotPending]
ClockSpec == AbstractClock!ClockSpec
=============================================================================
