--------------------------- MODULE SndTaskManager ---------------------------
(***************************************************************************)
(* nw4r/snd: the task manager and the thread that executes its tasks       *)
(* (snd_TaskManager.cpp, snd_TaskThread.cpp).  Sound players append tasks  *)
(* that read from the disc and cancel them; the task thread takes them by  *)
(* priority and executes them one at a time.                               *)
(*                                                                         *)
(* The functions that take ut::AutoInterruptLock are one step each, up to  *)
(* a sleep.  ExecuteTask and the thread's loop do not take it: each of     *)
(* their accesses to a shared variable is a step of its own, named by the  *)
(* thread's pc.  With WorkerFirst the task thread has a better priority    *)
(* than its clients, as SoundSystem creates it (3 and 4 by default): they  *)
(* run only while it sleeps or waits for the disc.                         *)
(***************************************************************************)
EXTENDS Queues

CONSTANTS
    Task,        \* the Task objects
    Loader,      \* those whose Execute appends others (StrmHeaderLoadTask)
    Client,      \* the threads that append and cancel tasks
    Main,        \* the client that creates and destroys the task thread
    NULL,        \* the null pointer
    WorkerFirst  \* the task thread preempts its clients

ASSUME TaskAssumption ==
    /\ Loader \subseteq Task
    /\ Main \in Client
    /\ NULL \notin Task
    /\ WorkerFirst \in BOOLEAN

VARIABLES
    list,         \* mTaskList, one queue for each priority
    currentTask,  \* mCurrentTask
    cancelWait,   \* mCancelWaitTaskFlag
    doneQueue,    \* mDoneThreadQueue
    finish,       \* TaskThread::mFinishFlag
    create,       \* TaskThread::mCreateFlag
    pc,           \* where the task thread is
    job,          \* the task it has popped and not finished executing
    call,         \* the call each client is inside of
    arg           \* and the task it cancels

sharedVars == <<list, currentTask, cancelWait, doneQueue, finish, create>>
workerVars == <<pc, job>>
clientVars == <<call, arg>>
vars == <<sharedVars, workerVars, clientVars>>

TaskPriority == {"LOW", "MIDDLE", "HIGH"}
BestFirst == <<"HIGH", "MIDDLE", "LOW">>

Linked(t) == \E p \in TaskPriority : t \in ToSet(list[p])
NoTask == \A p \in TaskPriority : list[p] = << >>

(* GetNextTask: the front of the best list that has one. *)
NextPriority ==
    BestFirst[CHOOSE i \in 1 .. 3 : /\ list[BestFirst[i]] # << >>
                                    /\ \A j \in 1 .. i - 1 : list[BestFirst[j]] = << >>]

Init ==
    /\ list = [p \in TaskPriority |-> << >>]
    /\ currentTask = NULL
    /\ cancelWait = FALSE
    /\ doneQueue = {}
    /\ finish = FALSE
    /\ create = FALSE
    /\ pc = "none"
    /\ job = NULL
    /\ call = [c \in Client |-> "none"]
    /\ arg = [c \in Client |-> NULL]

(***************************************************************************)
(* The task thread: ThreadProc, WaitTask and ExecuteTask.                  *)
(***************************************************************************)
At(label) == pc = label
Goto(label) == pc' = label

(* The tests of mFinishFlag before and after WaitTask. *)
LoopTest ==
    /\ At("loop")
    /\ Goto(IF finish THEN "none" ELSE "waitTask")
    /\ UNCHANGED <<sharedVars, job, clientVars>>

FinishTest ==
    /\ At("finishTest")
    /\ Goto(IF finish THEN "none" ELSE "pop")
    /\ UNCHANGED <<sharedVars, job, clientVars>>

Doze(flag) == Goto(IF NoTask /\ ~flag THEN "asleep" ELSE "finishTest")

WaitTask ==
    /\ At("waitTask")
    /\ cancelWait' = FALSE
    /\ Doze(FALSE)
    /\ UNCHANGED <<list, currentTask, doneQueue, finish, create, job, clientVars>>

WaitTaskWoken ==
    /\ At("woken")
    /\ Doze(cancelWait)
    /\ UNCHANGED <<sharedVars, job, clientVars>>

PopTaskMutant ==    \* the task stays linked while it is executed
    /\ At("pop")
    /\ ~NoTask
    /\ job' = Head(list[NextPriority])
    /\ Goto("popped")
    /\ UNCHANGED <<sharedVars, clientVars>>

PopTask ==
    /\ At("pop")
    /\ \/ /\ NoTask
          /\ Goto("loop")
          /\ UNCHANGED <<list, job>>
       \/ /\ ~NoTask
          /\ LET p == NextPriority IN
             /\ job' = Head(list[p])
             /\ list' = [list EXCEPT ![p] = Tail(@)]
          /\ Goto("popped")
    /\ UNCHANGED <<currentTask, cancelWait, doneQueue, finish, create, clientVars>>

SetCurrentTask ==
    /\ At("popped")
    /\ currentTask' = job
    /\ Goto("executing")
    /\ UNCHANGED <<list, cancelWait, doneQueue, finish, create, job, clientVars>>

(* Execute waits for the disc, which answers in the end, or for nothing. *)
AwaitFile ==
    /\ At("executing")
    /\ Goto("blocked")
    /\ UNCHANGED <<sharedVars, job, clientVars>>

FileDone ==
    /\ At("blocked")
    /\ Goto("returning")
    /\ UNCHANGED <<sharedVars, job, clientVars>>

(* When Execute is over its task's memory may be used again. *)
ExecuteReturns ==
    /\ pc \in {"executing", "returning"}
    /\ job' = NULL
    /\ Goto("executed")
    /\ UNCHANGED <<sharedVars, clientVars>>

ClearCurrentTask ==
    /\ At("executed")
    /\ currentTask' = NULL
    /\ Goto("cleared")
    /\ UNCHANGED <<list, cancelWait, doneQueue, finish, create, job, clientVars>>

WakeDone ==
    /\ At("cleared")
    /\ doneQueue' = {}
    /\ Goto("loop")
    /\ UNCHANGED <<list, currentTask, cancelWait, finish, create, job, clientVars>>

(***************************************************************************)
(* AppendTask, by a client or by a Loader that is executing.  A task is    *)
(* appended when it is in no list, not being executed, nor cancelled.      *)
(***************************************************************************)
WakeAppendQueue == pc' = IF pc = "asleep" THEN "woken" ELSE pc

PushBackMutant(t, p) ==    \* only an urgent task wakes the thread
    /\ list' = [list EXCEPT ![p] = Append(@, t)]
    /\ IF p = "HIGH" THEN WakeAppendQueue ELSE UNCHANGED pc

PushBack(t, p) ==
    /\ list' = [list EXCEPT ![p] = Append(@, t)]
    /\ WakeAppendQueue

Free(t) ==
    /\ ~Linked(t) /\ job # t
    /\ \A c \in Client : arg[c] # t

AppendTask(t, p) ==
    /\ Free(t)
    /\ PushBack(t, p)
    /\ UNCHANGED <<currentTask, cancelWait, doneQueue, finish, create, job, clientVars>>

LoaderAppends(t, p) ==
    /\ pc \in {"executing", "returning"} /\ job \in Loader
    /\ t \in Task \ Loader
    /\ AppendTask(t, p)

(***************************************************************************)
(* The clients.                                                            *)
(***************************************************************************)
MayRun == WorkerFirst => pc \in {"none", "asleep", "blocked"}

Idle(c) == MayRun /\ call[c] = "none"

ClientAppends(c, t, p) == Idle(c) /\ AppendTask(t, p)

Sleep(c) == doneQueue' = doneQueue \cup {c}

ListsWithout(t) ==
    [p \in TaskPriority |-> IF t \in ToSet(list[p]) THEN Without(list[p], t) ELSE list[p]]

CancelTaskMutant(c, t) ==    \* the task being executed is not waited for
    /\ Idle(c)
    /\ list' = ListsWithout(t)
    /\ UNCHANGED <<currentTask, cancelWait, finish, create, doneQueue, workerVars, clientVars>>

CancelTask(c, t) ==
    /\ Idle(c)
    /\ \/ /\ currentTask = t
          /\ Sleep(c)
          /\ call' = [call EXCEPT ![c] = "CancelTask"]
          /\ arg' = [arg EXCEPT ![c] = t]
          /\ UNCHANGED list
       \/ /\ currentTask # t
          /\ list' = ListsWithout(t)
          /\ UNCHANGED <<doneQueue, clientVars>>
    /\ UNCHANGED <<currentTask, cancelWait, finish, create, workerVars>>

Awake(c) == MayRun /\ c \notin doneQueue

Return(c) ==
    /\ call' = [call EXCEPT ![c] = "none"]
    /\ arg' = [arg EXCEPT ![c] = NULL]

(* The test of the loop once the client has been woken. *)
CancelTaskWoken(c) ==
    /\ Awake(c) /\ call[c] = "CancelTask"
    /\ \/ currentTask = arg[c] /\ Sleep(c) /\ UNCHANGED clientVars
       \/ currentTask # arg[c] /\ Return(c) /\ UNCHANGED doneQueue
    /\ UNCHANGED <<list, currentTask, cancelWait, finish, create, workerVars>>

CancelAllTask(c) ==
    /\ Idle(c)
    /\ list' = [p \in TaskPriority |-> << >>]
    /\ IF currentTask # NULL
       THEN Sleep(c) /\ call' = [call EXCEPT ![c] = "CancelAllTask"]
       ELSE UNCHANGED <<doneQueue, call>>
    /\ UNCHANGED <<currentTask, cancelWait, finish, create, workerVars, arg>>

CancelAllWoken(c) ==
    /\ Awake(c) /\ call[c] = "CancelAllTask"
    /\ \/ currentTask # NULL /\ Sleep(c) /\ UNCHANGED clientVars
       \/ currentTask = NULL /\ Return(c) /\ UNCHANGED doneQueue
    /\ UNCHANGED <<list, currentTask, cancelWait, finish, create, workerVars>>

(* TaskThread::Create and Destroy. *)
Create ==
    /\ Idle(Main) /\ ~create
    /\ finish' = FALSE
    /\ create' = TRUE
    /\ Goto("loop")
    /\ UNCHANGED <<list, currentTask, cancelWait, doneQueue, job, clientVars>>

Destroy ==
    /\ Idle(Main) /\ create
    /\ finish' = TRUE
    /\ call' = [call EXCEPT ![Main] = "CancelWaitTask"]
    /\ UNCHANGED <<list, currentTask, cancelWait, doneQueue, create, workerVars, arg>>

CancelWaitTaskMutant ==    \* raises the flag and wakes nobody
    /\ MayRun /\ call[Main] = "CancelWaitTask"
    /\ cancelWait' = TRUE
    /\ call' = [call EXCEPT ![Main] = "OSJoinThread"]
    /\ UNCHANGED <<list, currentTask, doneQueue, finish, create, workerVars, arg>>

CancelWaitTask ==
    /\ MayRun /\ call[Main] = "CancelWaitTask"
    /\ cancelWait' = TRUE
    /\ WakeAppendQueue
    /\ call' = [call EXCEPT ![Main] = "OSJoinThread"]
    /\ UNCHANGED <<list, currentTask, doneQueue, finish, create, job, arg>>

Joined ==
    /\ call[Main] = "OSJoinThread"
    /\ At("none")
    /\ create' = FALSE
    /\ Return(Main)
    /\ UNCHANGED <<list, currentTask, cancelWait, doneQueue, finish, workerVars>>

Worker ==
    \/ LoopTest
    \/ WaitTask
    \/ WaitTaskWoken
    \/ FinishTest
    \/ PopTask
    \/ SetCurrentTask
    \/ AwaitFile
    \/ FileDone
    \/ ExecuteReturns
    \/ ClearCurrentTask
    \/ WakeDone

Resume(c) ==
    \/ CancelTaskWoken(c)
    \/ CancelAllWoken(c)
    \/ c = Main /\ (CancelWaitTask \/ Joined)

Next ==
    \/ Worker
    \/ \E t \in Task, p \in TaskPriority : LoaderAppends(t, p)
    \/ \E c \in Client, t \in Task, p \in TaskPriority : ClientAppends(c, t, p)
    \/ \E c \in Client, t \in Task : CancelTask(c, t)
    \/ \E c \in Client : CancelAllTask(c)
    \/ Create
    \/ Destroy
    \/ \E c \in Client : Resume(c)

Spec == Init /\ [][Next]_vars

(***************************************************************************)
(* The task thread is scheduled and the disc answers; a client that has    *)
(* been woken runs one day, between the times the task thread needs.       *)
(***************************************************************************)
Fairness == WF_vars(Worker) /\ \A c \in Client : SF_vars(Resume(c))

-----------------------------------------------------------------------------

Label == {"none", "loop", "waitTask", "asleep", "woken", "finishTest", "pop", "popped",
          "executing", "blocked", "returning", "executed", "cleared"}

TypeOK ==
    /\ list \in [TaskPriority -> Seq(Task)]
    /\ currentTask \in Task \cup {NULL}
    /\ cancelWait \in BOOLEAN
    /\ doneQueue \subseteq Client
    /\ finish \in BOOLEAN
    /\ create \in BOOLEAN
    /\ pc \in Label
    /\ job \in Task \cup {NULL}
    /\ call \in [Client -> {"none", "CancelTask", "CancelAllTask", "CancelWaitTask", "OSJoinThread"}]
    /\ arg \in [Client -> Task \cup {NULL}]
    /\ \A c \in Client : arg[c] # NULL <=> call[c] = "CancelTask"

(* The task thread never sleeps on work: while it is in mAppendThreadQueue *)
(* all lists are empty and nobody has called CancelWaitTask since.         *)
SleepsIdle == pc = "asleep" => NoTask /\ ~cancelWait

(***************************************************************************)
(* A client sleeps in mDoneThreadQueue only while the task it waits for is *)
(* mCurrentTask, or the thread, having cleared it without the lock, is     *)
(* about to wake that queue.                                               *)
(***************************************************************************)
DoneAwaited ==
    \A c \in doneQueue :
        pc # "cleared" =>
            \/ call[c] = "CancelTask" /\ currentTask = arg[c]
            \/ call[c] = "CancelAllTask" /\ currentTask # NULL

(***************************************************************************)
(* A task is in one list at most, once, and not while it is executed: its  *)
(* list node is one.                                                       *)
(***************************************************************************)
LinkedOnce ==
    /\ \A p \in TaskPriority : IsInjective(list[p])
    /\ \A p, r \in TaskPriority : p # r => ToSet(list[p]) \cap ToSet(list[r]) = {}
    /\ job # NULL => ~Linked(job)

(***************************************************************************)
(* Every CancelTask returns, and every Destroy joins its thread; and the   *)
(* task thread, with the best priority of all, does not keep the processor *)
(* from its clients: it rests again and again.                             *)
(***************************************************************************)
CallsReturn ==
    /\ \A c \in Client : call[c] = "CancelTask" ~> call[c] = "none"
    /\ call[Main] = "CancelWaitTask" ~> ~create
    /\ []<>MayRun
=============================================================================
