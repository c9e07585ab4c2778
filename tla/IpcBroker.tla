------------------------------ MODULE IpcBroker ------------------------------
(***************************************************************************)
(* What the IPC client promises the rest of the system: requests reach IOS *)
(* in the order in which they were accepted, none is lost or sent twice,   *)
(* and each is answered at most once.  Only the relaunch of IOS drops      *)
(* requests: those the old IOS was serving, and only when it serves a      *)
(* request to make way.                                                    *)
(***************************************************************************)
EXTENDS Sequences, SequencesExt

CONSTANT Request

VARIABLES
    waiting,  \* accepted, IOS has not taken them yet: a sequence
    serving,  \* taken by IOS and not answered: a set
    reboots   \* those of the two that ask IOS to make way for a new one

brokerVars == <<waiting, serving, reboots>>

Known == ToSet(waiting) \cup serving

BrokerInit ==
    /\ waiting = << >>
    /\ serving = {}
    /\ reboots = {}

Accept(r) ==
    /\ r \notin Known
    /\ waiting' = Append(waiting, r)
    /\ reboots' \in {reboots, reboots \cup {r}}
    /\ UNCHANGED serving

Take ==
    /\ waiting # << >>
    /\ serving' = serving \cup {Head(waiting)}
    /\ waiting' = Tail(waiting)
    /\ UNCHANGED reboots

Answer(r) ==
    /\ r \in serving
    /\ serving' = serving \ {r}
    /\ reboots' = reboots \ {r}
    /\ UNCHANGED waiting

(* The callback of an answered request makes the next one. *)
AnswerAndAccept(r, next) ==
    /\ r \in serving
    /\ next \notin Known
    /\ serving' = serving \ {r}
    /\ waiting' = Append(waiting, next)
    /\ reboots' \in {reboots \ {r}, (reboots \ {r}) \cup {next}}

Relaunch ==
    /\ serving \cap reboots # {}
    /\ serving' = {}
    /\ reboots' = reboots \ serving
    /\ UNCHANGED waiting

BrokerNext ==
    \/ Take
    \/ Relaunch
    \/ \E r \in Request : \/ Accept(r)
                          \/ Answer(r)
                          \/ \E next \in Request : AnswerAndAccept(r, next)

BrokerSpec == BrokerInit /\ [][BrokerNext]_brokerVars
=============================================================================
