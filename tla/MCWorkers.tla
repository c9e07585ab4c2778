----------------------------- MODULE MCWorkers ------------------------------
(***************************************************************************)
(* The three parts that work through requests for callers who sleep until  *)
(* theirs is done: the sound library's task thread, EGG's task threads,    *)
(* each of a better priority than its clients, and the disc driver.  They  *)
(* share no state: `worker' is the one a behaviour is about.  The values   *)
(* are in the .cfg file.                                                   *)
(***************************************************************************)
EXTENDS SndTaskCancelled, EggTaskThread, DvdDriver, TLC

CONSTANTS f1, f2
FilePriority == (f1 :> 2) @@ (f2 :> 1)
FileTransfers == (f1 :> 2) @@ (f2 :> 1)

VARIABLE worker

sndTaskVars == <<vars, cancelled>>
workersVars == <<worker, sndTaskVars, taskThreadVars, dvdVars>>

WorkersInit ==
    /\ worker \in {"nw4r", "EGG", "DVD"}
    /\ InitCancelled
    /\ EggInit
    /\ DvdInit

SoundTasks == NextCancelled /\ UNCHANGED <<taskThreadVars, dvdVars>>
EggTasks == EggNext /\ UNCHANGED <<sndTaskVars, dvdVars>>
Reads == DvdNext /\ UNCHANGED <<sndTaskVars, taskThreadVars>>

(* The driver may be left alone for ever: a deadlock of the others is one. *)
WorkersNext ==
    /\ UNCHANGED worker
    /\ \/ worker = "nw4r" /\ SoundTasks
       \/ worker = "EGG" /\ EggTasks
       \/ worker = "DVD" /\ (Reads \/ UNCHANGED workersVars)

(* The fairness of each; the initial states of the others have no step to  *)
(* make.                                                                   *)
WorkersSpec ==
    /\ WorkersInit /\ [][WorkersNext]_workersVars
    /\ Fairness
    /\ EggFairness
    /\ DvdFairness

-----------------------------------------------------------------------------
(* Everyone who waits for a request to be done goes on: the clients of the *)
(* sound library's tasks return, a requested EGG task is executed, and the *)
(* readers of the disc and those who cancel a read return.                 *)
RequestsServed == CallsReturn /\ RequestExecuted /\ DvdCallsReturn
=============================================================================
