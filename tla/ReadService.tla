---------------------------- MODULE ReadService ----------------------------
(***************************************************************************)
(* What the users of the disc drive may rely on.  Reads wait by priority,  *)
(* then in the order of the calls; one is active; each is answered once.   *)
(* A read is answered CANCELED when somebody cancelled it, or a shutdown   *)
(* did -- or when the break of an earlier cancel was left over, which then *)
(* hits one read that nobody cancelled: a cancel leaves one break at most, *)
(* and the read it hits uses it up.  The state after a read is served is   *)
(* that the next is active: the driver is never idle while reads wait.     *)
(***************************************************************************)
EXTENDS Integers, Sequences, SequencesExt, Queues

CONSTANTS File, NoFile, Prio

VARIABLES
    waiting,   \* the reads of each priority that wait
    active,    \* the read the driver is at
    outcome,   \* how each file's last read was answered
    asked,     \* the active read is to be cancelled
    leftover,  \* a break no cancel claims
    cancels,   \* how often the reads of each file were cancelled
    shut       \* the shutdown has begun

readVars == <<waiting, active, outcome, asked, leftover>>
callVars == <<cancels, shut>>
serviceVars == <<readVars, callVars>>

ServiceInit ==
    /\ waiting = [p \in Prio |-> << >>]
    /\ active = NoFile
    /\ outcome = [f \in File |-> "GOOD"]
    /\ asked = FALSE
    /\ leftover = FALSE
    /\ cancels = [f \in File |-> 0]
    /\ shut = FALSE

First(w) == CHOOSE p \in Prio : w[p] # << >> /\ \A q \in Prio : q < p => w[q] = << >>

(* The next read becomes the active one. *)
ServeNext(w) ==
    IF \A p \in Prio : w[p] = << >>
    THEN active' = NoFile /\ waiting' = w
    ELSE active' = Head(w[First(w)]) /\ waiting' = [w EXCEPT ![First(w)] = Tail(@)]

Request(f, p) ==
    /\ ~shut
    /\ outcome[f] # "none"
    /\ outcome' = [outcome EXCEPT ![f] = "none"]
    /\ IF active = NoFile
       THEN ServeNext([waiting EXCEPT ![p] = Append(@, f)])
       ELSE waiting' = [waiting EXCEPT ![p] = Append(@, f)] /\ UNCHANGED active
    /\ UNCHANGED <<asked, leftover>>

Answer(result, w) ==
    /\ active # NoFile
    /\ outcome' = [outcome EXCEPT ![active] = result]
    /\ ServeNext(w)

AnswerGood ==
    /\ ~asked /\ ~leftover
    /\ Answer("GOOD", waiting)
    /\ UNCHANGED <<asked, leftover>>

(* The cancel that was asked for may leave its break behind. *)
AnswerAsked ==
    /\ asked
    /\ Answer("CANCELED", waiting)
    /\ asked' = FALSE
    /\ leftover' \in BOOLEAN

AnswerLeftover ==
    /\ leftover
    /\ Answer("CANCELED", waiting)
    /\ leftover' = FALSE
    /\ UNCHANGED asked

-----------------------------------------------------------------------------
(* A cancel.  Of the active read, the drive is asked to give it up.        *)
Ask ==
    /\ active # NoFile
    /\ ~asked
    /\ asked' = TRUE
    /\ leftover' = FALSE

(* A read that waits, or is active while the drive has nothing to do, is   *)
(* cancelled at once.                                                      *)
Withdraw(f) ==
    /\ \E p \in Prio : /\ f \in ToSet(waiting[p])
                       /\ waiting' = [waiting EXCEPT ![p] = Without(@, f)]
    /\ outcome' = [outcome EXCEPT ![f] = "CANCELED"]
    /\ UNCHANGED <<active, asked, leftover>>

CancelNow == ~asked /\ Answer("CANCELED", waiting) /\ UNCHANGED <<asked, leftover>>

(* It is the read of the file named that is given up, and no other.        *)
Cancel(f) ==
    /\ ~shut
    /\ cancels' = [cancels EXCEPT ![f] = @ + 1]
    /\ UNCHANGED shut
    /\ \/ outcome[f] # "none" /\ UNCHANGED readVars
       \/ f = active /\ Ask /\ UNCHANGED <<waiting, active, outcome>>
       \/ f = active /\ CancelNow
       \/ Withdraw(f)

(* At shutdown, once, the reads that wait are forgotten and the active one *)
(* is cancelled.                                                           *)
Nobody == [p \in Prio |-> << >>]
Shutdown ==
    /\ ~shut
    /\ shut' = TRUE
    /\ UNCHANGED cancels
    /\ \/ waiting' = Nobody /\ Ask /\ UNCHANGED <<active, outcome>>
       \/ Answer("CANCELED", Nobody) /\ ~asked /\ UNCHANGED <<asked, leftover>>
       \/ waiting' = Nobody /\ UNCHANGED <<active, outcome, asked, leftover>>

ServiceNext ==
    \/ /\ \/ \E f \in File, p \in Prio : Request(f, p)
          \/ AnswerGood \/ AnswerAsked \/ AnswerLeftover
       /\ UNCHANGED callVars
    \/ \E f \in File : Cancel(f)
    \/ Shutdown

ServiceSpec == ServiceInit /\ [][ServiceNext]_serviceVars
=============================================================================
