----------------------------- MODULE AlarmClock -----------------------------
(***************************************************************************)
(* What OSAlarm promises: an alarm rings only when it is due and only when *)
(* no other pending alarm was due before it.  A periodic alarm is pending  *)
(* again after it rings, for a time to come: one that rings late does not  *)
(* ring at once again, but one that rings the moment it is due may be due  *)
(* then still.  The handler of an alarm may set or cancel one other.       *)
(***************************************************************************)
EXTENDS Integers

CONSTANTS Alarm, Idle

VARIABLES
    now,  \* the system time
    due   \* when each pending alarm rings, Idle for the others

clockVars == <<now, due>>
Due == Nat \cup {Idle}
Pending == {a \in Alarm : due[a] # Idle}

ClockInit ==
    /\ now = 0
    /\ due = [a \in Alarm |-> Idle]

Pass == now' = now + 1 /\ UNCHANGED due

(* An alarm is set, for a time past or to come, or cancelled. *)
Set(a) == due[a] = Idle /\ due'[a] \in Nat
Cancel(a) == due[a] # Idle /\ due'[a] = Idle
Keeps(S) == \A b \in Alarm \ S : due'[b] = due[b]

Ring(a) ==
    /\ a \in Pending
    /\ due[a] <= now
    /\ \A b \in Pending : due[a] <= due[b]
    /\ due'[a] = Idle \/ due'[a] > now \/ (due[a] = now /\ due'[a] = now)

ClockNext ==
    \/ Pass
    \/ /\ UNCHANGED now
       /\ DOMAIN due' = Alarm
       /\ \E a, b \in Alarm :
             \/ (Set(a) \/ Cancel(a)) /\ Keeps({a})
             \/ Ring(a) /\ (b = a \/ Set(b) \/ Cancel(b)) /\ Keeps({a, b})

(* A shutdown cancels any number of alarms at once. *)
Silence ==
    /\ UNCHANGED now
    /\ DOMAIN due' = Alarm
    /\ \A a \in Alarm : due'[a] \in {due[a], Idle}

ClockSpec == ClockInit /\ [][ClockNext \/ Silence]_clockVars
=============================================================================
