--------------------------- MODULE EggTaskThread ----------------------------
(***************************************************************************)
(* egg/core/eggTaskThread.cpp: a thread that executes the tasks another    *)
(* thread requests.  A request takes a blank slot of mJobList and sends it *)
(* to the thread's message queue; nothing is locked.  The slot belongs to  *)
(* its task while pTask is set, so each access to pTask is a step of its   *)
(* own.  The requester is one thread, as all users in this program are.    *)
(*                                                                         *)
(* The message queues are OSMessageQueues, used without blocking except    *)
(* for the thread's own receive: bounded sequences (see BoundedDeque).     *)
(*                                                                         *)
(* The better priority decides who preempts whom.  If the thread has it,   *)
(* the requester runs only while the thread waits for a message or its     *)
(* task waits for something; if the requester has it, the thread never     *)
(* runs in the middle of a request.                                        *)
(***************************************************************************)
EXTENDS Naturals, Sequences, SequencesExt

CONSTANTS
    JobTask,         \* the task functions
    None,         \* the null pointer
    Capacity,     \* mJobNum, and the capacity of the message queue
    EndCapacity,  \* capacity of the queue of end messages
    ThreadFirst   \* the thread has a better priority than the requester

ASSUME TaskThreadAssumption ==
    /\ None \notin JobTask
    /\ Capacity \in Nat \ {0} /\ EndCapacity \in Nat \ {0}
    /\ None \notin 1 .. Capacity
    /\ ThreadFirst \in BOOLEAN

VARIABLES
    pTask,       \* TJob::pTask of each slot
    mesgQueue,   \* the thread's mMesgQueue, of slots
    endQueue,    \* mEndMesgQueue: each task's message names the task
    step,          \* where run() is
    currentJob,  \* mCurrentJob
    request      \* the request being made

Slot == 1 .. Capacity
Blank(s) == pTask[s] = None
NoRequest == [at |-> "none", slot |-> None, task |-> None]

jobVars == <<pTask, mesgQueue, endQueue>>
threadVars == <<step, currentJob>>
taskThreadVars == <<jobVars, threadVars, request>>

EggInit ==
    /\ pTask = [s \in Slot |-> None]
    /\ mesgQueue = << >>
    /\ endQueue = << >>
    /\ step = "wait"
    /\ currentJob = None
    /\ request = NoRequest

(***************************************************************************)
(* Who may run.                                                            *)
(***************************************************************************)
ThreadBlocked == step = "wait" /\ mesgQueue = << >>
RequesterRuns == ThreadFirst => ThreadBlocked \/ step = "running"
ThreadRuns == ThreadFirst \/ request = NoRequest

(***************************************************************************)
(* request(), by the requester.                                            *)
(***************************************************************************)
FindBlankMutant(t) ==    \* pTask is not tested
    /\ request = NoRequest
    /\ request' = [at |-> "found", slot |-> 1, task |-> t]
    /\ UNCHANGED <<jobVars, threadVars>>

(* The first blank slot; there may be none, and request returns false. *)
FindBlank(t) ==
    /\ request = NoRequest
    /\ \E s \in Slot :
          /\ Blank(s)
          /\ \A r \in 1 .. s - 1 : ~Blank(r)
          /\ request' = [at |-> "found", slot |-> s, task |-> t]
    /\ UNCHANGED <<jobVars, threadVars>>

FillJob ==
    /\ request.at = "found"
    /\ pTask' = [pTask EXCEPT ![request.slot] = request.task]
    /\ request' = [request EXCEPT !.at = "filled"]
    /\ UNCHANGED <<mesgQueue, endQueue, threadVars>>

SendJobMutant ==    \* success is not tested
    /\ request.at = "filled"
    /\ mesgQueue' = IF Len(mesgQueue) < Capacity THEN Append(mesgQueue, request.slot)
                    ELSE mesgQueue
    /\ pTask' = [pTask EXCEPT ![request.slot] = None]
    /\ request' = NoRequest
    /\ UNCHANGED <<endQueue, threadVars>>

SendJob ==
    /\ request.at = "filled"
    /\ IF Len(mesgQueue) < Capacity
       THEN /\ mesgQueue' = Append(mesgQueue, request.slot)
            /\ UNCHANGED pTask
       ELSE /\ pTask' = [pTask EXCEPT ![request.slot] = None]
            /\ UNCHANGED mesgQueue
    /\ request' = NoRequest
    /\ UNCHANGED <<endQueue, threadVars>>

(* waitTaskEndMessage, or waitQueueMessage on the same queue. *)
TakeEndMessage ==
    /\ request = NoRequest
    /\ endQueue # << >>
    /\ endQueue' = Tail(endQueue)
    /\ UNCHANGED <<pTask, mesgQueue, threadVars, request>>

(***************************************************************************)
(* run(), by the thread.                                                   *)
(***************************************************************************)
Enter(label) == step' = label

WaitMessageBlock ==
    /\ step = "wait" /\ mesgQueue # << >>
    /\ currentJob' = Head(mesgQueue)
    /\ mesgQueue' = Tail(mesgQueue)
    /\ Enter("received")
    /\ UNCHANGED <<pTask, endQueue, request>>

(* A job whose pTask is NULL is skipped, its end message too. *)
TestTask ==
    /\ step = "received"
    /\ Enter(IF Blank(currentJob) THEN "ended" ELSE "running")
    /\ UNCHANGED <<jobVars, currentJob, request>>

TaskReturns ==
    /\ step = "running"
    /\ Enter("returned")
    /\ UNCHANGED <<jobVars, currentJob, request>>

SendEndMessageMutant ==    \* jammed before the older ones
    /\ step = "returned"
    /\ endQueue' = IF Len(endQueue) < EndCapacity
                   THEN <<pTask[currentJob]>> \o endQueue ELSE endQueue
    /\ Enter("ended")
    /\ UNCHANGED <<pTask, mesgQueue, currentJob, request>>

SendEndMessage ==
    /\ step = "returned"
    /\ endQueue' = IF Len(endQueue) < EndCapacity
                   THEN Append(endQueue, pTask[currentJob]) ELSE endQueue
    /\ Enter("ended")
    /\ UNCHANGED <<pTask, mesgQueue, currentJob, request>>

ClearTask ==
    /\ step = "ended"
    /\ pTask' = [pTask EXCEPT ![currentJob] = None]
    /\ Enter("cleared")
    /\ UNCHANGED <<mesgQueue, endQueue, currentJob, request>>

(***************************************************************************)
(* onDone, which no user sets, then mCurrentJob = NULL and                 *)
(* clearFunctions, which clears pTask a second time.                       *)
(***************************************************************************)
ClearFunctions ==
    /\ step = "cleared"
    /\ pTask' = [pTask EXCEPT ![currentJob] = None]
    /\ currentJob' = None
    /\ Enter("wait")
    /\ UNCHANGED <<mesgQueue, endQueue, request>>

RequestStep == FillJob \/ SendJob

RunStep ==
    \/ WaitMessageBlock
    \/ TestTask
    \/ TaskReturns
    \/ SendEndMessage
    \/ ClearTask
    \/ ClearFunctions

EggNext ==
    \/ RequesterRuns /\ (RequestStep \/ TakeEndMessage \/ \E t \in JobTask : FindBlank(t))
    \/ ThreadRuns /\ RunStep

EggSpec == EggInit /\ [][EggNext]_taskThreadVars

(* The thread is scheduled, its tasks return and a request begun is ended. *)
EggFairness ==
    /\ WF_taskThreadVars(ThreadRuns /\ RunStep)
    /\ SF_taskThreadVars(RequesterRuns /\ RequestStep)

EggFairSpec == EggSpec /\ EggFairness

-----------------------------------------------------------------------------

JobTypeOK ==
    /\ pTask \in [Slot -> JobTask \cup {None}]
    /\ mesgQueue \in Seq(Slot)
    /\ endQueue \in Seq(JobTask)
    /\ step \in {"wait", "received", "running", "returned", "ended", "cleared"}
    /\ currentJob \in Slot \cup {None}
    /\ currentJob = None <=> step = "wait"
    /\ request \in [at : {"none"}, slot : {None}, task : {None}]
                   \cup [at : {"found", "filled"}, slot : Slot, task : JobTask]

(***************************************************************************)
(* A slot has one owner: it waits in the queue once, or is the current     *)
(* job, or is being filled, and has its task as long as the first two hold *)
(* it; all other slots are blank.  The requester and the thread hand slots *)
(* over through pTask alone, so this needs the thread's better priority.   *)
(***************************************************************************)
Queued(s) == s \in ToSet(mesgQueue)
Executing(s) == s = currentJob /\ step \in {"received", "running", "returned"}

SlotOwned ==
    /\ IsInjective(mesgQueue)
    /\ \A s \in Slot :
          /\ Queued(s) => ~Blank(s) /\ ~Executing(s) /\ request.slot # s
          /\ Executing(s) => ~Blank(s) /\ request.slot # s
          /\ ~Blank(s) => \/ Queued(s)
                          \/ s = currentJob /\ step # "cleared"
                          \/ request.slot = s /\ request.at = "filled"

(* Seen from outside it is a first-in first-out executor of tasks. *)
Fifo == INSTANCE TaskFifo WITH
    Task <- JobTask,
    NULL <- None,
    pending <- [i \in 1 .. Len(mesgQueue) |-> pTask[mesgQueue[i]]],
    running <- IF step \in {"received", "running", "returned"} THEN pTask[currentJob] ELSE None,
    ended <- endQueue

FifoSpec == Fifo!Spec

(* A slot that was sent is executed. *)
RequestExecuted ==
    \A s \in Slot : Queued(s) ~> currentJob = s /\ step = "running"
=============================================================================
