------------------------ MODULE WorkerThreads_proofs ------------------------
(***************************************************************************)
(* Theorems about the parts that work through requests for callers who     *)
(* sleep until theirs is done.  About SndTaskManager: for every set of     *)
(* tasks and clients, and whatever the priority of the task thread.  About *)
(* EggTaskThread: for every set of tasks, every capacity and a thread with *)
(* a better priority than the requester's.  About DvdDriver: for all files *)
(* and priorities, reads of any length, and however many reads, cancels    *)
(* and troubles of the drive there are.                                    *)
(***************************************************************************)
EXTENDS SndTaskCancelled, EggTaskThread, DvdDriver, QueueLemmas

-----------------------------------------------------------------------------
(* SndTaskManager. *)
(* The list GetNextTask takes from is not empty when there is a task. *)
LEMMA NextIsLinked == ~NoTask => NextPriority \in TaskPriority /\ list[NextPriority] # << >>
  <1> SUFFICES ASSUME ~NoTask
               PROVE  NextPriority \in TaskPriority /\ list[NextPriority] # << >>
    OBVIOUS
  <1> DEFINE First(i) == /\ list[BestFirst[i]] # << >>
                         /\ \A j \in 1 .. i - 1 : list[BestFirst[j]] = << >>
  <1>1. BestFirst[1] = "HIGH" /\ BestFirst[2] = "MIDDLE" /\ BestFirst[3] = "LOW"
    BY DEF BestFirst
  <1>2. \E i \in 1 .. 3 : First(i)
    <2>1. CASE list["HIGH"] # << >>
      BY <2>1, <1>1
    <2>2. CASE list["HIGH"] = << >> /\ list["MIDDLE"] # << >>
      BY <2>2, <1>1
    <2>3. CASE list["HIGH"] = << >> /\ list["MIDDLE"] = << >>
      <3>1. list["LOW"] # << >>
        BY <2>3 DEF NoTask, TaskPriority
      <3>2. First(3)
        BY <2>3, <3>1, <1>1
      <3>3. QED BY <3>2
    <2>4. QED BY <2>1, <2>2, <2>3
  <1>3. PICK k \in 1 .. 3 : k = (CHOOSE i \in 1 .. 3 : First(i)) /\ First(k)
    BY <1>2
  <1>4. NextPriority = BestFirst[k]
    BY <1>3 DEF NextPriority
  <1>5. BestFirst[k] \in TaskPriority
    BY <1>1 DEF TaskPriority
  <1>6. QED BY <1>3, <1>4, <1>5

(***************************************************************************)
(* Every variable keeps its type, whoever appends, cancels, creates or     *)
(* destroys.                                                               *)
(***************************************************************************)
THEOREM TaskTypeCorrect == Spec => []TypeOK
<1>1. Init => TypeOK
  BY TaskAssumption, EmptySeq DEF Init, TypeOK, Label
<1>2. TypeOK /\ [Next]_vars => TypeOK'
  <2> SUFFICES ASSUME TypeOK, [Next]_vars PROVE TypeOK'
    OBVIOUS
  <2> USE TaskAssumption DEF TypeOK, Label, sharedVars, workerVars, clientVars, At, Goto
  <2>1. CASE LoopTest
    BY <2>1 DEF LoopTest
  <2>2. CASE WaitTask
    BY <2>2 DEF WaitTask, Doze
  <2>3. CASE WaitTaskWoken
    BY <2>3 DEF WaitTaskWoken, Doze
  <2>4. CASE FinishTest
    BY <2>4 DEF FinishTest
  <2>5. CASE PopTask
    <3>1. CASE NoTask
      BY <2>5, <3>1 DEF PopTask
    <3>2. CASE ~NoTask
      <4>1. /\ NextPriority \in TaskPriority
            /\ Head(list[NextPriority]) \in Task /\ Tail(list[NextPriority]) \in Seq(Task)
        BY <3>2, NextIsLinked, TailSet
      <4>2. QED BY <2>5, <3>2, <4>1 DEF PopTask
    <3>3. QED BY <3>1, <3>2
  <2>6. CASE SetCurrentTask
    BY <2>6 DEF SetCurrentTask
  <2>7. CASE AwaitFile
    BY <2>7 DEF AwaitFile
  <2>8. CASE FileDone
    BY <2>8 DEF FileDone
  <2>9. CASE ExecuteReturns
    BY <2>9 DEF ExecuteReturns
  <2>10. CASE ClearCurrentTask
    BY <2>10 DEF ClearCurrentTask
  <2>11. CASE WakeDone
    BY <2>11 DEF WakeDone
  <2>12. ASSUME NEW t \in Task, NEW p \in TaskPriority, AppendTask(t, p) PROVE TypeOK'
    <3>1. Append(list[p], t) \in Seq(Task)
      BY AppendSet
    <3>2. QED BY <2>12, <3>1 DEF AppendTask, PushBack, WakeAppendQueue
  <2>13. ASSUME NEW c \in Client, NEW t \in Task, CancelTask(c, t) PROVE TypeOK'
    <3>1. ListsWithout(t) \in [TaskPriority -> Seq(Task)]
      BY WithoutElements DEF ListsWithout
    <3>2. CASE currentTask = t
      BY <2>13, <3>2 DEF CancelTask, Sleep
    <3>3. CASE currentTask # t
      BY <2>13, <3>1, <3>3 DEF CancelTask
    <3>4. QED BY <3>2, <3>3
  <2>14. ASSUME NEW c \in Client, CancelTaskWoken(c) PROVE TypeOK'
    BY <2>14 DEF CancelTaskWoken, Sleep, Return
  <2>15. ASSUME NEW c \in Client, CancelAllTask(c) PROVE TypeOK'
    BY <2>15 DEF CancelAllTask, Sleep, Idle
  <2>16. ASSUME NEW c \in Client, CancelAllWoken(c) PROVE TypeOK'
    BY <2>16 DEF CancelAllWoken, Sleep, Return
  <2>17. CASE Create
    BY <2>17 DEF Create
  <2>18. CASE Destroy
    BY <2>18 DEF Destroy, Idle
  <2>19. CASE CancelWaitTask
    BY <2>19 DEF CancelWaitTask, WakeAppendQueue
  <2>20. CASE Joined
    BY <2>20 DEF Joined, Return
  <2>21. CASE UNCHANGED vars
    BY <2>21 DEF vars
  <2>22. QED
    BY <2>1, <2>2, <2>3, <2>4, <2>5, <2>6, <2>7, <2>8, <2>9, <2>10, <2>11, <2>12, <2>13,
       <2>14, <2>15, <2>16, <2>17, <2>18, <2>19, <2>20, <2>21
    DEF Next, Worker, Resume, LoaderAppends, ClientAppends
<1>3. QED BY <1>1, <1>2, PTL DEF Spec

(***************************************************************************)
(* No wake-up of the task thread is lost: when it sleeps nothing is left   *)
(* to do, and nobody has cancelled its wait.                               *)
(***************************************************************************)
THEOREM NoWorkSleptOn == Spec => []SleepsIdle
<1>1. Init => SleepsIdle
  BY DEF Init, SleepsIdle
<1>2. TypeOK /\ SleepsIdle /\ [Next]_vars => SleepsIdle'
  <2> SUFFICES ASSUME TypeOK, SleepsIdle, [Next]_vars PROVE SleepsIdle'
    OBVIOUS
  <2> USE DEF SleepsIdle, NoTask, At, Goto, sharedVars, workerVars, clientVars
  <2>1. CASE Worker
    <3>1. CASE LoopTest \/ FinishTest
      BY <3>1 DEF LoopTest, FinishTest
    <3>2. CASE WaitTask \/ WaitTaskWoken
      BY <3>2 DEF WaitTask, WaitTaskWoken, Doze
    <3>3. CASE PopTask
      BY <3>3 DEF PopTask
    <3>4. CASE SetCurrentTask \/ AwaitFile \/ FileDone \/ ExecuteReturns
               \/ ClearCurrentTask \/ WakeDone
      BY <3>4 DEF SetCurrentTask, AwaitFile, FileDone, ExecuteReturns, ClearCurrentTask, WakeDone
    <3>5. QED BY <2>1, <3>1, <3>2, <3>3, <3>4 DEF Worker
  <2>2. ASSUME NEW t, NEW p, AppendTask(t, p) PROVE SleepsIdle'
    BY <2>2 DEF AppendTask, PushBack, WakeAppendQueue
  <2>3. ASSUME NEW c \in Client, NEW t \in Task, CancelTask(c, t) PROVE SleepsIdle'
    <3>1. ASSUME NoTask PROVE ListsWithout(t) = list
      <4>1. \A p \in TaskPriority : t \notin ToSet(list[p])
        BY <3>1, EmptySet DEF TypeOK
      <4>2. QED BY <4>1 DEF ListsWithout, TypeOK
    <3>2. QED BY <2>3, <3>1 DEF CancelTask
  <2>4. ASSUME NEW c \in Client, CancelAllTask(c) PROVE SleepsIdle'
    BY <2>4 DEF CancelAllTask
  <2>5. ASSUME NEW c \in Client, CancelTaskWoken(c) \/ CancelAllWoken(c) PROVE SleepsIdle'
    BY <2>5 DEF CancelTaskWoken, CancelAllWoken
  <2>6. CASE Create \/ Destroy \/ CancelWaitTask \/ Joined
    BY <2>6 DEF Create, Destroy, CancelWaitTask, Joined, WakeAppendQueue
  <2>7. CASE UNCHANGED vars
    BY <2>7 DEF vars
  <2>8. QED
    BY <2>1, <2>2, <2>3, <2>4, <2>5, <2>6, <2>7
    DEF Next, Resume, LoaderAppends, ClientAppends
<1>3. QED BY <1>1, <1>2, TaskTypeCorrect, PTL DEF Spec

(***************************************************************************)
(* Where the task thread is while mCurrentTask is set, that it exists only *)
(* between Create and the join, and what the sleepers of mDoneThreadQueue  *)
(* are inside of.                                                          *)
(***************************************************************************)
TaskInHand == pc \in {"executing", "blocked", "returning", "executed"}

DoneInv ==
    /\ currentTask # NULL <=> TaskInHand
    /\ job # NULL => pc \in {"popped", "executing", "blocked", "returning"}
    /\ pc = "popped" => job # NULL
    /\ create \/ pc = "none"
    /\ \A c \in doneQueue : call[c] \in {"CancelTask", "CancelAllTask"}
    /\ DoneAwaited

LEMMA DoneInvariant == Spec => []DoneInv
<1>1. Init => DoneInv
  BY TaskAssumption DEF Init, DoneInv, TaskInHand, DoneAwaited
<1>2. TypeOK /\ DoneInv /\ [Next]_vars => DoneInv'
  <2> SUFFICES ASSUME TypeOK, DoneInv, [Next]_vars PROVE DoneInv'
    OBVIOUS
  <2> USE TaskAssumption
      DEF DoneInv, TaskInHand, DoneAwaited, At, Goto, sharedVars, workerVars, clientVars
  <2>1. CASE LoopTest \/ FinishTest
    BY <2>1 DEF LoopTest, FinishTest
  <2>2. CASE WaitTask \/ WaitTaskWoken
    BY <2>2 DEF WaitTask, WaitTaskWoken, Doze
  <2>3. CASE PopTask
    <3>1. CASE NoTask
      BY <2>3, <3>1 DEF PopTask
    <3>2. CASE ~NoTask
      <4>1. Head(list[NextPriority]) \in Task
        BY <3>2, NextIsLinked, TailSet DEF TypeOK
      <4>2. QED BY <2>3, <3>2, <4>1 DEF PopTask
    <3>3. QED BY <3>1, <3>2
  <2>4. CASE SetCurrentTask
    BY <2>4 DEF SetCurrentTask, TypeOK
  <2>5. CASE AwaitFile \/ FileDone \/ ExecuteReturns
    BY <2>5 DEF AwaitFile, FileDone, ExecuteReturns
  <2>6. CASE ClearCurrentTask
    BY <2>6 DEF ClearCurrentTask
  <2>7. CASE WakeDone
    BY <2>7 DEF WakeDone
  <2>8. ASSUME NEW t \in Task, NEW p, AppendTask(t, p) PROVE DoneInv'
    BY <2>8 DEF AppendTask, PushBack, WakeAppendQueue
  <2>9. ASSUME NEW c \in Client, NEW t \in Task, CancelTask(c, t) PROVE DoneInv'
    BY <2>9 DEF CancelTask, Sleep, Idle, TypeOK
  <2>10. ASSUME NEW c \in Client, CancelTaskWoken(c) PROVE DoneInv'
    BY <2>10 DEF CancelTaskWoken, Sleep, Return, Awake, TypeOK
  <2>11. ASSUME NEW c \in Client, CancelAllTask(c) PROVE DoneInv'
    BY <2>11 DEF CancelAllTask, Sleep, Idle, TypeOK
  <2>12. ASSUME NEW c \in Client, CancelAllWoken(c) PROVE DoneInv'
    BY <2>12 DEF CancelAllWoken, Sleep, Return, Awake, TypeOK
  <2>13. CASE Create
    BY <2>13 DEF Create
  <2>14. CASE Destroy
    BY <2>14 DEF Destroy, Idle, TypeOK
  <2>15. CASE CancelWaitTask
    BY <2>15 DEF CancelWaitTask, WakeAppendQueue, TypeOK
  <2>16. CASE Joined
    BY <2>16 DEF Joined, Return, TypeOK
  <2>17. CASE UNCHANGED vars
    BY <2>17 DEF vars
  <2>18. QED
    BY <2>1, <2>2, <2>3, <2>4, <2>5, <2>6, <2>7, <2>8, <2>9, <2>10, <2>11, <2>12, <2>13,
       <2>14, <2>15, <2>16, <2>17
    DEF Next, Worker, Resume, LoaderAppends, ClientAppends
<1>3. QED BY <1>1, <1>2, TaskTypeCorrect, PTL DEF Spec

(***************************************************************************)
(* No wake-up of a canceller is lost: while it sleeps, its task is being   *)
(* executed or the task thread is about to wake it.                        *)
(***************************************************************************)
THEOREM CancellersWoken == Spec => []DoneAwaited
<1>1. DoneInv => DoneAwaited
  BY DEF DoneInv
<1>2. QED BY <1>1, DoneInvariant, PTL

(***************************************************************************)
(* A task is linked at most once, and not while it is executed.            *)
(***************************************************************************)
THEOREM ListsDisjoint == Spec => []LinkedOnce
<1>1. Init => LinkedOnce
  BY EmptySet DEF Init, LinkedOnce, Linked, ToSet, IsInjective
<1>2. TypeOK /\ LinkedOnce /\ [Next]_vars => LinkedOnce'
  <2> SUFFICES ASSUME TypeOK, LinkedOnce, [Next]_vars PROVE LinkedOnce'
    OBVIOUS
  <2> USE DEF LinkedOnce, Linked, At, Goto, sharedVars, workerVars, clientVars
  <2>1. ASSUME UNCHANGED <<list, job>> PROVE LinkedOnce'
    BY <2>1
  <2>2. CASE PopTask
    <3>1. CASE NoTask
      BY <2>1, <2>2, <3>1 DEF PopTask
    <3>2. CASE ~NoTask
      <4> DEFINE p == NextPriority
                 q == list[p]
      <4>1. p \in TaskPriority /\ q \in Seq(Task) /\ q # << >>
        BY <3>2, NextIsLinked DEF TypeOK
      <4>2. job' = Head(q) /\ list' = [list EXCEPT ![p] = Tail(q)]
        BY <2>2, <3>2 DEF PopTask
      <4>3. /\ ToSet(q) = ToSet(Tail(q)) \cup {Head(q)} /\ Head(q) \in ToSet(q)
            /\ IsInjective(Tail(q)) /\ Head(q) \notin ToSet(Tail(q))
        BY <4>1, TailSet
      <4> HIDE DEF p, q
      <4>4. list'[p] = Tail(q) /\ \A r \in TaskPriority \ {p} : list'[r] = list[r]
        BY <4>1, <4>2 DEF TypeOK
      <4>5. \A r \in TaskPriority \ {p} : ToSet(list[r]) \cap ToSet(q) = {}
        BY <4>1 DEF q
      <4>6. QED BY <4>1, <4>2, <4>3, <4>4, <4>5
    <3>3. QED BY <3>1, <3>2
  <2>3. ASSUME NEW t \in Task, NEW p \in TaskPriority, AppendTask(t, p) PROVE LinkedOnce'
    <3>1. list' = [list EXCEPT ![p] = Append(list[p], t)] /\ job' = job /\ Free(t)
      BY <2>3 DEF AppendTask, PushBack
    <3>2. ToSet(Append(list[p], t)) = ToSet(list[p]) \cup {t} /\ IsInjective(Append(list[p], t))
      BY <3>1, AppendSet DEF TypeOK, Free
    <3>3. list'[p] = Append(list[p], t) /\ \A r \in TaskPriority \ {p} : list'[r] = list[r]
      BY <3>1 DEF TypeOK
    <3>4. \A r \in TaskPriority : IsInjective(list'[r])
      BY <3>2, <3>3
    <3>5. \A r \in TaskPriority :
             ToSet(list'[r]) = IF r = p THEN ToSet(list[r]) \cup {t} ELSE ToSet(list[r])
      BY <3>2, <3>3
    <3>6. job # t /\ \A r \in TaskPriority : t \notin ToSet(list[r])
      BY <3>1 DEF Free
    <3>7. \A r, u \in TaskPriority : r # u => ToSet(list'[r]) \cap ToSet(list'[u]) = {}
      BY <3>5, <3>6
    <3>8. job' # NULL => ~(\E r \in TaskPriority : job' \in ToSet(list'[r]))
      <4> SUFFICES ASSUME job # NULL, NEW r \in TaskPriority PROVE job \notin ToSet(list'[r])
        BY <3>1
      <4>1. job \notin ToSet(list[r])
        OBVIOUS
      <4>2. ToSet(list'[r]) \subseteq ToSet(list[r]) \cup {t}
        BY <3>5
      <4>3. QED BY <4>1, <4>2, <3>6
    <3>9. QED BY <3>4, <3>7, <3>8
  <2>4. ASSUME NEW c \in Client, NEW t \in Task, CancelTask(c, t) PROVE LinkedOnce'
    <3>1. CASE UNCHANGED list
      BY <2>1, <2>4, <3>1 DEF CancelTask
    <3>2. CASE list' = ListsWithout(t)
      <4>1. \A p \in TaskPriority : ToSet(list'[p]) \subseteq ToSet(list[p]) /\ IsInjective(list'[p])
        BY <3>2, WithoutSet DEF ListsWithout, TypeOK
      <4>2. job' = job
        BY <2>4 DEF CancelTask
      <4>3. QED BY <4>1, <4>2
    <3>3. QED BY <2>4, <3>1, <3>2 DEF CancelTask
  <2>5. ASSUME NEW c \in Client, CancelAllTask(c) PROVE LinkedOnce'
    <3>1. \A p \in TaskPriority : list'[p] = << >>
      BY <2>5 DEF CancelAllTask
    <3>2. ToSet(<< >>) = {} /\ IsInjective(<< >>)
      BY EmptySet, EmptySeq
    <3>3. QED BY <3>1, <3>2
  <2>6. CASE ExecuteReturns
    BY <2>6, TaskAssumption DEF ExecuteReturns
  <2>7. QED
    BY <2>1, <2>2, <2>3, <2>4, <2>5, <2>6
    DEF Next, Worker, Resume, LoaderAppends, ClientAppends, vars, LoopTest, WaitTask,
        WaitTaskWoken, FinishTest, SetCurrentTask, AwaitFile, FileDone, ClearCurrentTask,
        WakeDone, CancelTaskWoken, CancelAllWoken, Create, Destroy, CancelWaitTask, Joined
<1>3. QED BY <1>1, <1>2, TaskTypeCorrect, PTL DEF Spec
(***************************************************************************)
(* With the better priority: what the thread executes is mCurrentTask      *)
(* whenever a client runs, the task of a client that waits in CancelTask   *)
(* is in no list, and a task whose CancelTask has returned is gone.        *)
(***************************************************************************)
CancelInv ==
    /\ pc \in {"executing", "blocked", "returning"} => job # NULL /\ currentTask = job
    /\ \A c \in Client : call[c] = "CancelTask" => ~Linked(arg[c])
    /\ cancelled \subseteq Task
    /\ CancelCompletes

(* A task taken out of its lists is in none. *)
LEMMA ListsWithoutTask ==
    ASSUME TypeOK, LinkedOnce, NEW t \in Task, NEW p \in TaskPriority
    PROVE  ToSet(ListsWithout(t)[p]) = ToSet(list[p]) \ {t}
  <1>1. list[p] \in Seq(Task) /\ IsInjective(list[p])
    BY DEF TypeOK, LinkedOnce
  <1>2. CASE t \in ToSet(list[p])
    BY <1>1, <1>2, WithoutSet DEF ListsWithout
  <1>3. CASE t \notin ToSet(list[p])
    BY <1>3 DEF ListsWithout
  <1>4. QED BY <1>2, <1>3

(* A behaviour with the history is one without. *)
LEMMA CancelledIsSpec == SpecCancelled => Spec
  <1>1. InitCancelled => Init
    BY DEF InitCancelled
  <1>2. [NextCancelled]_<<vars, cancelled>> => [Next]_vars
    <2>1. ASSUME NEW c \in Client, NEW t \in Task, CancelTask(c, t) PROVE Next
      BY <2>1 DEF Next
    <2>2. ASSUME NEW c \in Client, CancelTaskWoken(c) \/ CancelAllWoken(c) PROVE Next
      BY <2>2 DEF Next, Resume
    <2>3. ASSUME NEW t \in Task, NEW p \in TaskPriority,
                 LoaderAppends(t, p) \/ \E c \in Client : ClientAppends(c, t, p)
          PROVE  Next
      BY <2>3 DEF Next
    <2>4. ASSUME NEW c \in Client, CancelAllTask(c) PROVE Next
      BY <2>4 DEF Next
    <2>5. CASE Worker \/ Create \/ Destroy
      BY <2>5 DEF Next
    <2>6. CASE CancelWaitTask \/ Joined
      BY <2>6, TaskAssumption DEF Next, Resume
    <2>7. CASE NextCancelled
      BY <2>1, <2>2, <2>3, <2>4, <2>5, <2>6, <2>7 DEF NextCancelled
    <2>8. CASE UNCHANGED <<vars, cancelled>>
      BY <2>8
    <2>9. QED BY <2>7, <2>8
  <1>3. QED BY <1>1, <1>2, PTL DEF SpecCancelled, Spec

(***************************************************************************)
(* When CancelTask has returned, its task is neither linked nor executed   *)
(* until it is appended again, if the task thread has the better priority. *)
(***************************************************************************)
THEOREM CancelledTasksGone ==
    ASSUME WorkerFirst PROVE SpecCancelled => []CancelCompletes
<1>1. InitCancelled => CancelInv
  BY DEF InitCancelled, Init, CancelInv, CancelCompletes
<1>2. /\ TypeOK /\ LinkedOnce /\ DoneInv /\ CancelInv
      /\ [NextCancelled]_<<vars, cancelled>>
      => CancelInv'
  <2> SUFFICES ASSUME TypeOK, LinkedOnce, DoneInv, CancelInv,
                      [NextCancelled]_<<vars, cancelled>>
               PROVE  CancelInv'
    OBVIOUS
  <2> USE TaskAssumption
      DEF CancelInv, CancelCompletes, At, Goto, sharedVars, workerVars, clientVars
  <2>1. MayRun /\ job # NULL => pc = "blocked" /\ currentTask = job
    BY DEF MayRun, DoneInv
  <2>2. ASSUME \A t \in Task : Linked(t)' => Linked(t), UNCHANGED <<call, arg, cancelled>>,
               pc' \in {"executing", "blocked", "returning"} => job' # NULL /\ currentTask' = job',
               job' \in {job, NULL}
        PROVE  CancelInv'
    BY <2>2 DEF TypeOK
  <2>3. UNCHANGED list => \A t : Linked(t)' <=> Linked(t)
    BY DEF Linked
  <2>4. CASE Worker /\ UNCHANGED cancelled
    <3>1. CASE LoopTest \/ FinishTest
      BY <2>2, <2>3, <2>4, <3>1 DEF LoopTest, FinishTest
    <3>2. CASE WaitTask \/ WaitTaskWoken
      BY <2>2, <2>3, <2>4, <3>2 DEF WaitTask, WaitTaskWoken, Doze
    <3>3. CASE PopTask /\ NoTask
      BY <2>2, <2>3, <2>4, <3>3 DEF PopTask
    <3>4. CASE PopTask /\ ~NoTask
      <4> DEFINE p == NextPriority
                 q == list[p]
      <4>1. p \in TaskPriority /\ q \in Seq(Task) /\ q # << >>
        BY <3>4, NextIsLinked DEF TypeOK
      <4>2. /\ job' = Head(q) /\ list' = [list EXCEPT ![p] = Tail(q)] /\ pc' = "popped"
            /\ UNCHANGED clientVars
        BY <3>4 DEF PopTask
      <4>3. ToSet(q) = ToSet(Tail(q)) \cup {Head(q)} /\ Head(q) \in ToSet(q)
        BY <4>1, TailSet
      <4> HIDE DEF p, q
      <4>4. list'[p] = Tail(q) /\ \A r \in TaskPriority \ {p} : list'[r] = list[r]
        BY <4>1, <4>2 DEF TypeOK
      <4>5. \A t \in Task : Linked(t)' => Linked(t)
        BY <4>1, <4>3, <4>4 DEF Linked, q
      <4>6. Linked(Head(q))
        BY <4>1, <4>3 DEF Linked, q
      <4>7. QED BY <2>4, <4>2, <4>5, <4>6 DEF TypeOK
    <3>5. CASE SetCurrentTask
      BY <2>2, <2>3, <2>4, <3>5 DEF SetCurrentTask, DoneInv
    <3>6. CASE AwaitFile \/ FileDone
      BY <2>2, <2>3, <2>4, <3>6 DEF AwaitFile, FileDone
    <3>7. CASE ExecuteReturns
      BY <2>2, <2>3, <2>4, <3>7 DEF ExecuteReturns
    <3>8. CASE ClearCurrentTask \/ WakeDone
      BY <2>2, <2>3, <2>4, <3>8 DEF ClearCurrentTask, WakeDone
    <3>9. QED BY <2>4, <3>1, <3>2, <3>3, <3>4, <3>5, <3>6, <3>7, <3>8 DEF Worker
  <2>5. ASSUME NEW t \in Task, NEW p \in TaskPriority, AppendTask(t, p),
               cancelled' = cancelled \ {t}
        PROVE  CancelInv'
    <3>1. /\ list' = [list EXCEPT ![p] = Append(list[p], t)] /\ Free(t)
          /\ UNCHANGED <<job, currentTask, clientVars>>
          /\ pc' \in {pc, "woken"}
      BY <2>5 DEF AppendTask, PushBack, WakeAppendQueue
    <3>2. ToSet(Append(list[p], t)) = ToSet(list[p]) \cup {t}
      BY AppendSet DEF TypeOK
    <3>3. \A u : Linked(u)' => Linked(u) \/ u = t
      BY <3>1, <3>2 DEF Linked, TypeOK
    <3>4. \A c \in Client : arg[c] # t
      BY <3>1 DEF Free
    <3>5. QED BY <2>5, <3>1, <3>3, <3>4
  <2>6. ASSUME NEW c \in Client, NEW t \in Task, CancelTask(c, t),
               cancelled' = IF call'[c] = "none" THEN cancelled \cup {t} ELSE cancelled
        PROVE  CancelInv'
    <3>1. MayRun /\ call[c] = "none" /\ UNCHANGED <<currentTask, workerVars>>
      BY <2>6 DEF CancelTask, Idle
    <3>2. CASE currentTask = t
      <4>1. job = t
        BY <2>1, <3>1, <3>2 DEF DoneInv, TaskInHand, MayRun
      <4>2. ~Linked(t)
        BY <4>1 DEF LinkedOnce
      <4>3. /\ UNCHANGED <<list, cancelled>>
            /\ call' = [call EXCEPT ![c] = "CancelTask"] /\ arg' = [arg EXCEPT ![c] = t]
        BY <2>6, <3>2 DEF CancelTask, TypeOK
      <4>4. QED BY <2>3, <3>1, <4>2, <4>3 DEF TypeOK
    <3>3. CASE currentTask # t
      <4>1. list' = ListsWithout(t) /\ UNCHANGED clientVars /\ cancelled' = cancelled \cup {t}
        BY <2>6, <3>1, <3>3 DEF CancelTask
      <4>2. \A u : Linked(u)' <=> Linked(u) /\ u # t
        BY <4>1, ListsWithoutTask DEF Linked
      <4>3. job # t
        BY <2>1, <3>1, <3>3
      <4>4. QED BY <3>1, <4>1, <4>2, <4>3
    <3>4. QED BY <3>2, <3>3
  <2>7. ASSUME NEW c \in Client, CancelTaskWoken(c),
               cancelled' = IF call'[c] = "none" THEN cancelled \cup {arg[c]} ELSE cancelled
        PROVE  CancelInv'
    <3>1. /\ MayRun /\ call[c] = "CancelTask" /\ arg[c] \in Task /\ ~Linked(arg[c])
          /\ UNCHANGED <<list, currentTask, workerVars>>
      BY <2>7 DEF CancelTaskWoken, Awake, TypeOK
    <3>2. CASE currentTask = arg[c]
      BY <2>3, <2>7, <3>1, <3>2 DEF CancelTaskWoken
    <3>3. CASE currentTask # arg[c]
      <4>1. /\ call' = [call EXCEPT ![c] = "none"] /\ arg' = [arg EXCEPT ![c] = NULL]
            /\ cancelled' = cancelled \cup {arg[c]}
        BY <2>7, <3>1, <3>3 DEF CancelTaskWoken, Return, TypeOK
      <4>2. job # arg[c]
        BY <2>1, <3>1, <3>3, TaskAssumption
      <4>3. QED BY <2>3, <3>1, <4>1, <4>2 DEF TypeOK
    <3>4. QED BY <3>2, <3>3
  <2>8. ASSUME NEW c \in Client, CancelAllTask(c), UNCHANGED cancelled PROVE CancelInv'
    <3>1. \A t : ~Linked(t)'
      BY <2>8, EmptySet DEF CancelAllTask, Linked, ToSet
    <3>2. UNCHANGED <<currentTask, workerVars, arg>>
      BY <2>8 DEF CancelAllTask
    <3>3. QED BY <2>8, <3>1, <3>2
  <2>9. ASSUME NEW c \in Client, CancelAllWoken(c), UNCHANGED cancelled PROVE CancelInv'
    <3>1. CASE currentTask # NULL
      BY <2>2, <2>3, <2>9, <3>1 DEF CancelAllWoken
    <3>2. CASE currentTask = NULL
      BY <2>3, <2>9, <3>2 DEF CancelAllWoken, Return, TypeOK
    <3>3. QED BY <3>1, <3>2
  <2>10. ASSUME Create \/ Destroy \/ CancelWaitTask \/ Joined, UNCHANGED cancelled
         PROVE  CancelInv'
    <3>1. CASE Create
      BY <2>2, <2>3, <2>10, <3>1 DEF Create
    <3>2. CASE Destroy
      BY <2>3, <2>10, <3>2 DEF Destroy, TypeOK
    <3>3. CASE CancelWaitTask
      BY <2>3, <2>10, <3>3 DEF CancelWaitTask, WakeAppendQueue, TypeOK
    <3>4. CASE Joined
      BY <2>3, <2>10, <3>4 DEF Joined, Return, TypeOK
    <3>5. QED BY <2>10, <3>1, <3>2, <3>3, <3>4
  <2>11. CASE UNCHANGED <<vars, cancelled>>
    BY <2>2, <2>3, <2>11 DEF vars
  <2>12. QED
    BY <2>4, <2>5, <2>6, <2>7, <2>8, <2>9, <2>10, <2>11
    DEF NextCancelled, LoaderAppends, ClientAppends
<1>3. CancelInv => CancelCompletes
  BY DEF CancelInv
<1>4. Spec => [](TypeOK /\ LinkedOnce /\ DoneInv)
  BY TaskTypeCorrect, ListsDisjoint, DoneInvariant, PTL
<1>5. QED BY <1>1, <1>2, <1>3, <1>4, CancelledIsSpec, PTL DEF SpecCancelled
-----------------------------------------------------------------------------
(* EggTaskThread. *)
(***************************************************************************)
(* SlotOwned, strengthened: the current job stays apart from the queue and *)
(* from the request until the thread waits again, and a filled slot keeps  *)
(* its task until it is sent.                                              *)
(***************************************************************************)
JobInv ==
    /\ IsInjective(mesgQueue)
    /\ \A s \in ToSet(mesgQueue) : pTask[s] # None /\ s # currentJob /\ s # request.slot
    /\ currentJob # None => currentJob # request.slot
    /\ step \in {"received", "running", "returned"} => pTask[currentJob] # None
    /\ request.at = "filled" => pTask[request.slot] # None
    /\ \A s \in Slot : pTask[s] # None => \/ s \in ToSet(mesgQueue)
                                          \/ s = currentJob /\ step # "cleared"
                                          \/ request.slot = s /\ request.at = "filled"

Inv == JobTypeOK /\ JobInv

LEMMA InvInit == EggInit => Inv
  BY TaskThreadAssumption, EmptySet, EmptySeq
  DEF EggInit, Inv, JobTypeOK, JobInv, NoRequest, ToSet, IsInjective, Slot

(* In one step. *)
LEMMA InvStep == ASSUME ThreadFirst PROVE Inv /\ [EggNext]_taskThreadVars => Inv'
  <1> SUFFICES ASSUME Inv, [EggNext]_taskThreadVars PROVE Inv'
    OBVIOUS
  <1> USE TaskThreadAssumption DEF Inv, JobTypeOK, jobVars, threadVars, Enter, Blank
  <1>0. \A s \in Slot : s # None
    BY DEF Slot
  <1>1. ASSUME NEW t \in JobTask, RequesterRuns, FindBlank(t) PROVE Inv'
    <2>1. PICK s \in Slot : pTask[s] = None /\ request' = [at |-> "found", slot |-> s, task |-> t]
      BY <1>1 DEF FindBlank
    <2>2. s \notin ToSet(mesgQueue) /\ s # currentJob
      BY <1>1, <2>1, <1>0 DEF RequesterRuns, ThreadBlocked, JobInv
    <2>3. JobTypeOK'
      BY <1>1, <2>1 DEF FindBlank
    <2>4. JobInv'
      BY <1>1, <2>1, <2>2 DEF FindBlank, JobInv, NoRequest
    <2>5. QED BY <2>3, <2>4
  <1>2. ASSUME RequesterRuns, FillJob PROVE Inv'
    <2>1. request.slot \in Slot /\ request.task \in JobTask
      BY <1>2 DEF FillJob
    <2>2. JobTypeOK'
      BY <1>2, <2>1 DEF FillJob
    <2>3. JobInv'
      BY <1>2, <2>1, <1>0 DEF FillJob, JobInv
    <2>4. QED BY <2>2, <2>3
  <1>3. ASSUME RequesterRuns, SendJob PROVE Inv'
    <2> DEFINE s == request.slot
    <2>1. s \in Slot /\ s # None /\ s \notin ToSet(mesgQueue) /\ s # currentJob /\ pTask[s] # None
      BY <1>3, <1>0 DEF SendJob, JobInv
    <2>2. CASE Len(mesgQueue) < Capacity
      <3>1. mesgQueue' = Append(mesgQueue, s) /\ UNCHANGED <<pTask, endQueue, step, currentJob>>
            /\ request' = NoRequest
        BY <1>3, <2>2 DEF SendJob
      <3>2. /\ mesgQueue' \in Seq(Slot) /\ ToSet(mesgQueue') = ToSet(mesgQueue) \cup {s}
            /\ IsInjective(mesgQueue')
        BY <2>1, <3>1, AppendSet DEF JobInv
      <3>3. \A r \in ToSet(mesgQueue') : r \in Slot
        BY <3>2, <2>1 DEF ToSet
      <3>4. JobTypeOK'
        BY <3>1, <3>2 DEF NoRequest
      <3>5. JobInv'
        BY <2>1, <3>1, <3>2, <3>3, <1>0 DEF JobInv, NoRequest
      <3>6. QED BY <3>4, <3>5
    <2>3. CASE ~(Len(mesgQueue) < Capacity)
      <3>1. pTask' = [pTask EXCEPT ![s] = None] /\ request' = NoRequest
            /\ UNCHANGED <<mesgQueue, endQueue, step, currentJob>>
        BY <1>3, <2>3 DEF SendJob
      <3>2. JobTypeOK'
        BY <2>1, <3>1 DEF NoRequest
      <3>3. \A r \in ToSet(mesgQueue) : r \in Slot
        BY DEF ToSet
      <3>4. JobInv'
        BY <2>1, <3>1, <3>3, <1>0 DEF JobInv, NoRequest
      <3>5. QED BY <3>2, <3>4
    <2>4. QED BY <2>2, <2>3
  <1>4. CASE TakeEndMessage
    <2>1. Tail(endQueue) \in Seq(JobTask)
      BY <1>4, TailSet DEF TakeEndMessage
    <2>2. QED BY <1>4, <2>1 DEF TakeEndMessage, JobInv
  <1>5. CASE WaitMessageBlock
    <2> DEFINE h == Head(mesgQueue)
    <2>1. /\ h \in ToSet(mesgQueue) /\ h \in Slot /\ Tail(mesgQueue) \in Seq(Slot)
          /\ ToSet(mesgQueue) = ToSet(Tail(mesgQueue)) \cup {h}
          /\ IsInjective(Tail(mesgQueue)) /\ h \notin ToSet(Tail(mesgQueue))
      BY <1>5, TailSet DEF WaitMessageBlock, JobInv
    <2>2. /\ currentJob' = h /\ mesgQueue' = Tail(mesgQueue) /\ step' = "received"
          /\ UNCHANGED <<pTask, endQueue, request>>
      BY <1>5 DEF WaitMessageBlock
    <2> HIDE DEF h
    <2>3. JobTypeOK'
      BY <2>1, <2>2, <1>0
    <2>4. pTask[h] # None /\ h # request.slot /\ currentJob = None
      BY <1>5, <2>1 DEF JobInv, WaitMessageBlock
    <2>5. \A s \in ToSet(mesgQueue') : pTask[s] # None /\ s # h /\ s # request.slot
      BY <2>1, <2>2 DEF JobInv
    <2>6. \A s \in Slot : pTask[s] # None => \/ s \in ToSet(mesgQueue')
                                             \/ s = h
                                             \/ request.slot = s /\ request.at = "filled"
      <3> SUFFICES ASSUME NEW s \in Slot, pTask[s] # None, s \notin ToSet(mesgQueue'), s # h
                   PROVE  request.slot = s /\ request.at = "filled"
        OBVIOUS
      <3>1. s \notin ToSet(mesgQueue)
        BY <2>1, <2>2
      <3>2. s # currentJob
        BY <2>4, <1>0
      <3>3. QED BY <3>1, <3>2 DEF JobInv
    <2>7. JobInv'
      BY <2>1, <2>2, <2>4, <2>5, <2>6 DEF JobInv
    <2>8. QED BY <2>3, <2>7
  <1>6. CASE TestTask
    BY <1>6 DEF TestTask, JobInv
  <1>7. CASE TaskReturns
    BY <1>7 DEF TaskReturns, JobInv
  <1>8. CASE SendEndMessage
    <2>1. pTask[currentJob] \in JobTask
      BY <1>8 DEF SendEndMessage, JobInv
    <2>2. Append(endQueue, pTask[currentJob]) \in Seq(JobTask)
      BY <2>1, AppendSet
    <2>3. QED BY <1>8, <2>2 DEF SendEndMessage, JobInv
  <1>9. ASSUME pTask' = [pTask EXCEPT ![currentJob] = None], step \in {"ended", "cleared"},
               UNCHANGED <<mesgQueue, endQueue, request>>,
               \/ step' = "cleared" /\ currentJob' = currentJob
               \/ step' = "wait" /\ currentJob' = None /\ step = "cleared"
        PROVE  Inv'
    <2>1. currentJob \in Slot /\ currentJob # None
      BY <1>9
    <2>2. JobTypeOK'
      BY <1>9, <2>1
    <2>3. \A r \in ToSet(mesgQueue) : r \in Slot /\ r # None
      BY <1>0 DEF ToSet
    <2>4. pTask'[currentJob] = None /\ \A r \in Slot \ {currentJob} : pTask'[r] = pTask[r]
      BY <1>9, <2>1
    <2>5. request.at = "filled" => request.slot \in Slot \ {currentJob}
      BY <2>1 DEF JobInv
    <2>6. JobInv'
      BY <1>9, <2>1, <2>3, <2>4, <2>5 DEF JobInv
    <2>7. QED BY <2>2, <2>6
  <1>10. CASE ClearTask \/ ClearFunctions
    BY <1>9, <1>10 DEF ClearTask, ClearFunctions
  <1>11. CASE UNCHANGED taskThreadVars
    BY <1>11 DEF taskThreadVars, JobInv
  <1>12. QED
    BY <1>1, <1>2, <1>3, <1>4, <1>5, <1>6, <1>7, <1>8, <1>10, <1>11
    DEF EggNext, RequestStep, RunStep

LEMMA InvAlways == ASSUME ThreadFirst PROVE EggSpec => []Inv
  BY InvInit, InvStep, PTL DEF EggSpec

(* Every variable of the task thread keeps its type: in particular no NULL *)
(* task is executed or reported.                                           *)
THEOREM JobTypeCorrect == ASSUME ThreadFirst PROVE EggSpec => []JobTypeOK
<1>1. Inv => JobTypeOK
  BY DEF Inv
<1>2. QED BY <1>1, InvAlways, PTL

(* Each slot has one owner: the hand-over through pTask alone is enough    *)
(* when the requester cannot preempt run().                                *)
THEOREM SlotsOwned == ASSUME ThreadFirst PROVE EggSpec => []SlotOwned
<1>1. Inv => SlotOwned
  BY TaskThreadAssumption DEF Inv, JobTypeOK, JobInv, SlotOwned, Queued, Executing, Blank, Slot
<1>2. QED BY <1>1, InvAlways, PTL

(***************************************************************************)
(* The task thread implements the first-in first-out executor: a request   *)
(* that is accepted is executed once, in its turn, and then reported.      *)
(***************************************************************************)
pendingTasks == [i \in 1 .. Len(mesgQueue) |-> pTask[mesgQueue[i]]]
runningTask == IF step \in {"received", "running", "returned"} THEN pTask[currentJob] ELSE None

(* The tasks of a sequence of slots that have one. *)
LEMMA TasksOfSlots ==
    ASSUME NEW q \in Seq(Slot), NEW p, \A s \in ToSet(q) : p[s] \in JobTask
    PROVE  LET ts == [i \in 1 .. Len(q) |-> p[q[i]]]
           IN  ts \in Seq(JobTask) /\ Len(ts) = Len(q) /\ \A i \in 1 .. Len(q) : ts[i] = p[q[i]]
  <1>1. \A i \in 1 .. Len(q) : p[q[i]] \in JobTask
    BY LenProperties DEF ToSet
  <1>2. QED BY <1>1, LenProperties

LEMMA PendingTasks ==
    ASSUME Inv
    PROVE  /\ pendingTasks \in Seq(JobTask) /\ Len(pendingTasks) = Len(mesgQueue)
           /\ \A i \in 1 .. Len(mesgQueue) : pendingTasks[i] = pTask[mesgQueue[i]]
  <1>1. mesgQueue \in Seq(Slot) /\ \A s \in ToSet(mesgQueue) : s \in Slot /\ pTask[s] \in JobTask
    BY LenProperties DEF Inv, JobTypeOK, JobInv, ToSet
  <1>2. QED BY <1>1, TasksOfSlots DEF pendingTasks

(* What happens to pTask outside of the queue does not show. *)
LEMMA PendingKept ==
    ASSUME Inv, mesgQueue' = mesgQueue, \A s \in ToSet(mesgQueue) : pTask'[s] = pTask[s]
    PROVE  pendingTasks' = pendingTasks
  <1>1. \A i \in 1 .. Len(mesgQueue) : mesgQueue[i] \in ToSet(mesgQueue)
    BY LenProperties DEF ToSet, Inv, JobTypeOK
  <1>2. QED BY <1>1 DEF pendingTasks

THEOREM ImplementsFifo == ASSUME ThreadFirst PROVE EggSpec => FifoSpec
<1> DEFINE fifo == <<pendingTasks, runningTask, endQueue>>
<1>1. EggInit => Fifo!Init
  BY DEF EggInit, Fifo!Init
<1>2. Inv /\ Inv' /\ [EggNext]_taskThreadVars => [Fifo!Next]_fifo
  <2> SUFFICES ASSUME Inv, Inv', [EggNext]_taskThreadVars PROVE Fifo!Next \/ UNCHANGED fifo
    OBVIOUS
  <2> USE TaskThreadAssumption DEF jobVars, threadVars, Enter, Blank
  <2>1. CASE \E t \in JobTask : FindBlank(t)
    BY <2>1 DEF FindBlank, pendingTasks, runningTask
  <2>2. CASE FillJob
    <3>1. /\ request.slot \in Slot /\ \A s \in Slot \ {request.slot} : pTask'[s] = pTask[s]
          /\ UNCHANGED <<mesgQueue, endQueue, step, currentJob>>
      BY <2>2 DEF FillJob, Inv, JobTypeOK
    <3>2. \A s \in ToSet(mesgQueue) : s \in Slot \ {request.slot}
      BY DEF Inv, JobTypeOK, JobInv, ToSet
    <3>3. pendingTasks' = pendingTasks
      BY <3>1, <3>2, PendingKept
    <3>4. runningTask' = runningTask
      BY <3>1 DEF runningTask, Inv, JobTypeOK, JobInv
    <3>5. QED BY <3>1, <3>3, <3>4
  <2>3. ASSUME SendJob, Len(mesgQueue) < Capacity PROVE Fifo!Next
    <3> DEFINE s == request.slot
    <3>0. s \in Slot /\ pTask[s] \in JobTask
      BY <2>3 DEF SendJob, Inv, JobTypeOK, JobInv
    <3>1. PICK t \in JobTask : t = pTask[s]
      BY <3>0
    <3>2. mesgQueue' = Append(mesgQueue, s) /\ UNCHANGED <<pTask, endQueue, step, currentJob>>
      BY <2>3 DEF SendJob
    <3>3. /\ Len(mesgQueue') = Len(mesgQueue) + 1 /\ mesgQueue'[Len(mesgQueue) + 1] = s
          /\ \A i \in 1 .. Len(mesgQueue) : mesgQueue'[i] = mesgQueue[i]
          /\ Len(mesgQueue) \in Nat
      BY <3>1, <3>2, AppendProperties, LenProperties DEF Inv, JobTypeOK
    <3>4. /\ pendingTasks' \in Seq(JobTask) /\ Len(pendingTasks') = Len(mesgQueue) + 1
          /\ \A i \in 1 .. Len(mesgQueue) + 1 : pendingTasks'[i] = pTask[mesgQueue'[i]]
      <4>1. \A r \in ToSet(mesgQueue') : pTask[r] \in JobTask
        BY <3>2, LenProperties DEF Inv, JobTypeOK, JobInv, ToSet
      <4>2. mesgQueue' \in Seq(Slot)
        BY DEF Inv, JobTypeOK
      <4>3. pendingTasks' = [i \in 1 .. Len(mesgQueue') |-> pTask[mesgQueue'[i]]]
        BY <3>2 DEF pendingTasks
      <4>4. QED BY <3>3, <4>1, <4>2, <4>3, TasksOfSlots
    <3>5. /\ pendingTasks \in Seq(JobTask) /\ Len(pendingTasks) = Len(mesgQueue)
          /\ \A i \in 1 .. Len(mesgQueue) : pendingTasks[i] = pTask[mesgQueue[i]]
      BY PendingTasks
    <3>6. Append(pendingTasks, t) \in Seq(JobTask) /\ Len(Append(pendingTasks, t)) = Len(mesgQueue) + 1
          /\ \A i \in 1 .. Len(mesgQueue) : Append(pendingTasks, t)[i] = pendingTasks[i]
          /\ Append(pendingTasks, t)[Len(mesgQueue) + 1] = t
      BY <3>5, AppendProperties
    <3>7. \A i \in 1 .. Len(mesgQueue) + 1 : pendingTasks'[i] = Append(pendingTasks, t)[i]
      <4> SUFFICES ASSUME NEW i \in 1 .. Len(mesgQueue) + 1
                   PROVE  pTask[mesgQueue'[i]] = Append(pendingTasks, t)[i]
        BY <3>4
      <4>1. CASE i = Len(mesgQueue) + 1
        BY <4>1, <3>1, <3>3, <3>6
      <4>2. CASE i \in 1 .. Len(mesgQueue)
        BY <4>2, <3>3, <3>5, <3>6
      <4>3. i = Len(mesgQueue) + 1 \/ i \in 1 .. Len(mesgQueue)
        BY <3>3
      <4>4. QED BY <4>1, <4>2, <4>3
    <3>8. pendingTasks' = Append(pendingTasks, t)
      BY <3>4, <3>6, <3>7, SeqEqual
    <3>9. runningTask' = runningTask
      BY <3>2 DEF runningTask
    <3>10. Fifo!Accept(t)
      BY <2>3, <3>2, <3>5, <3>8, <3>9 DEF Fifo!Accept, pendingTasks, runningTask
    <3>11. \E u \in JobTask : Fifo!Accept(u)
      BY <3>1, <3>10
    <3>12. QED BY <3>11 DEF Fifo!Next
  <2>4. CASE SendJob /\ ~(Len(mesgQueue) < Capacity)
    <3>1. /\ request.slot \in Slot /\ \A s \in Slot \ {request.slot} : pTask'[s] = pTask[s]
          /\ UNCHANGED <<mesgQueue, endQueue, step, currentJob>>
      BY <2>4 DEF SendJob, Inv, JobTypeOK
    <3>2. \A s \in ToSet(mesgQueue) : s \in Slot \ {request.slot}
      BY DEF Inv, JobTypeOK, JobInv, ToSet
    <3>3. pendingTasks' = pendingTasks
      BY <3>1, <3>2, PendingKept
    <3>4. runningTask' = runningTask
      BY <3>1 DEF runningTask, Inv, JobTypeOK, JobInv
    <3>5. QED BY <3>1, <3>3, <3>4
  <2>5. CASE TakeEndMessage
    BY <2>5 DEF TakeEndMessage, Fifo!Next, Fifo!TakeEnd, pendingTasks, runningTask
  <2>6. CASE WaitMessageBlock
    <3> DEFINE h == Head(mesgQueue)
    <3>1. /\ h \in ToSet(mesgQueue) /\ h = mesgQueue[1] /\ Len(mesgQueue) \in Nat \ {0}
          /\ Len(Tail(mesgQueue)) = Len(mesgQueue) - 1
          /\ \A i \in 1 .. Len(mesgQueue) - 1 : Tail(mesgQueue)[i] = mesgQueue[i + 1]
      BY <2>6, HeadTailProperties, LenProperties, EmptySeq, TailSet
      DEF WaitMessageBlock, Inv, JobTypeOK
    <3>2. /\ mesgQueue' = Tail(mesgQueue) /\ currentJob' = h /\ step' = "received" /\ step = "wait"
          /\ UNCHANGED <<pTask, endQueue>>
      BY <2>6 DEF WaitMessageBlock
    <3>3. runningTask = None /\ runningTask' = pTask[h]
      BY <3>2 DEF runningTask
    <3>4. /\ pendingTasks \in Seq(JobTask) /\ Len(pendingTasks) = Len(mesgQueue)
          /\ \A i \in 1 .. Len(mesgQueue) : pendingTasks[i] = pTask[mesgQueue[i]]
      BY PendingTasks
    <3>5. pendingTasks # << >> /\ Head(pendingTasks) = pTask[h]
      BY <3>1, <3>4, EmptySeq, HeadTailProperties
    <3>6. /\ pendingTasks' \in Seq(JobTask) /\ Len(pendingTasks') = Len(mesgQueue) - 1
          /\ \A i \in 1 .. Len(mesgQueue) - 1 : pendingTasks'[i] = pTask[Tail(mesgQueue)[i]]
      <4>1. \A r \in ToSet(mesgQueue') : pTask[r] \in JobTask
        BY <3>2, LenProperties DEF Inv, JobTypeOK, JobInv, ToSet
      <4>2. mesgQueue' \in Seq(Slot)
        BY DEF Inv, JobTypeOK
      <4>3. pendingTasks' = [i \in 1 .. Len(mesgQueue') |-> pTask[mesgQueue'[i]]]
        BY <3>2 DEF pendingTasks
      <4>4. QED BY <3>1, <3>2, <4>1, <4>2, <4>3, TasksOfSlots
    <3>7. Tail(pendingTasks) \in Seq(JobTask) /\ Len(Tail(pendingTasks)) = Len(mesgQueue) - 1
          /\ \A i \in 1 .. Len(mesgQueue) - 1 : Tail(pendingTasks)[i] = pendingTasks[i + 1]
      BY <3>4, <3>5, HeadTailProperties
    <3>8. \A i \in 1 .. Len(mesgQueue) - 1 : pTask[Tail(mesgQueue)[i]] = Tail(pendingTasks)[i]
      BY <3>1, <3>4, <3>7
    <3>9. pendingTasks' = Tail(pendingTasks)
      BY <3>1, <3>6, <3>7, <3>8, SeqEqual
    <3>10. Fifo!Begin
      BY <3>2, <3>3, <3>5, <3>9 DEF Fifo!Begin, pendingTasks, runningTask
    <3>11. QED BY <3>10 DEF Fifo!Next
  <2>7. CASE TestTask
    BY <2>7 DEF TestTask, pendingTasks, runningTask, Inv, JobInv
  <2>8. CASE TaskReturns
    BY <2>8 DEF TaskReturns, pendingTasks, runningTask
  <2>9. CASE SendEndMessage
    <3>1. runningTask = pTask[currentJob] /\ runningTask # None /\ runningTask' = None
      BY <2>9 DEF SendEndMessage, runningTask, Inv, JobInv
    <3>2. pendingTasks' = pendingTasks
      BY <2>9 DEF SendEndMessage, pendingTasks
    <3>3. Fifo!End
      BY <2>9, <3>1, <3>2 DEF SendEndMessage, Fifo!End, pendingTasks, runningTask
    <3>4. QED BY <3>3 DEF Fifo!Next
  <2>10. CASE ClearTask \/ ClearFunctions
    <3>1. /\ currentJob \in Slot /\ \A s \in Slot \ {currentJob} : pTask'[s] = pTask[s]
          /\ UNCHANGED <<mesgQueue, endQueue>>
      BY <2>10 DEF ClearTask, ClearFunctions, Inv, JobTypeOK
    <3>2. \A s \in ToSet(mesgQueue) : s \in Slot \ {currentJob}
      BY DEF Inv, JobTypeOK, JobInv, ToSet
    <3>3. pendingTasks' = pendingTasks
      BY <3>1, <3>2, PendingKept
    <3>4. runningTask' = runningTask
      BY <2>10 DEF ClearTask, ClearFunctions, runningTask
    <3>5. QED BY <3>1, <3>3, <3>4
  <2>11. CASE UNCHANGED taskThreadVars
    BY <2>11 DEF taskThreadVars, pendingTasks, runningTask
  <2>12. QED
    BY <2>1, <2>2, <2>3, <2>4, <2>5, <2>6, <2>7, <2>8, <2>9, <2>10, <2>11
    DEF EggNext, RequestStep, RunStep
<1>3. QED BY <1>1, <1>2, InvAlways, PTL DEF EggSpec, FifoSpec, Fifo!Spec, pendingTasks, runningTask

-----------------------------------------------------------------------------
(* DvdDriver. *)
Drives == SpinUp \cup {"busy", "gettingError", "goToRetry", "checkID1", "reset"}
Served == {"BUSY", "COVER_CLOSED"}
Begun == Served \cup UserWait
Resumes == {"NONE", "DISK_ERROR", "NO_DISK", "COVER_OPENED", "WRONG_DISK_ID", "DISK_CHANGED",
            "RESUME_7"}
Wakes == {"wake", "prepared"}

Block == [state : Final \cup Begun \cup {"WAITING"}, transfers : Nat,
          callback : {"none", "sync", "async"}]

DriverState ==
    [executing : File \cup {NoFile}, block : [File -> Block], queue : [Prio -> Seq(File)],
     canceling : BOOLEAN, breaking : BOOLEAN, cancelCallback : Wakes \cup {"none"},
     resume : Resumes, retries : Nat, lastError : Fault \cup {"none"},
     lastState : {"busy", "downRotation", "readDiskID"}, motor : {"WORKING", "PENDING_STOP"},
     waitOpen : BOOLEAN, waitClose : BOOLEAN, preparing : BOOLEAN,
     coverAlarm : BOOLEAN, resetAlarm : BOOLEAN, storing : BOOLEAN,
     low : Seq(Drives \cup {"clear", "prepareCover"}), calls : SUBSET (File \cup Wakes),
     halt : {"no", "fatal", "nullWrite", "late"}]

(***************************************************************************)
(* The driver when no handler runs: nobody is served, one read is driven,  *)
(* or the user is awaited.                                                 *)
(***************************************************************************)
NobodyServed(s, low) ==
    /\ s.executing = NoFile
    /\ \A p \in Prio : s.queue[p] = << >>
    /\ ~s.canceling /\ ~s.storing /\ ~s.resetAlarm /\ ~s.waitOpen
    /\ \/ low = << >> /\ ~s.preparing
       \/ low = <<"clear">> /\ ~s.preparing /\ ~s.waitClose /\ s.resume = "RESUME_7"
       \/ low = <<"prepareCover">> /\ s.preparing /\ s.resume # "NONE"
    /\ s.waitClose => s.resume = "COVER_OPENED"
    /\ s.motor # "WORKING" => s.resume # "NONE"

OneServed(s, low) ==
    /\ s.executing # NoFile
    /\ s.block[s.executing].state \in Served
    /\ ~s.waitOpen /\ ~s.waitClose /\ s.motor = "WORKING"
    /\ \/ s.storing /\ ~s.resetAlarm /\ ~s.preparing /\ low = << >>
       \/ ~s.storing /\ s.resetAlarm /\ ~s.preparing /\ low = << >>
       \/ /\ ~s.storing /\ ~s.resetAlarm /\ ~s.preparing
          /\ \E c \in Drives : low = <<c>> \/ low = <<"clear", c>>
       \/ ~s.storing /\ ~s.resetAlarm /\ s.preparing /\ low = <<"prepareCover", "reset">>

UserAwaited(s, low) ==
    /\ s.executing # NoFile
    /\ s.block[s.executing].state \in UserWait
    /\ s.waitOpen <=> ~s.waitClose
    /\ s.waitClose => s.block[s.executing].state = "COVER_OPENED"
    /\ ~s.canceling /\ ~s.storing /\ ~s.resetAlarm
    /\ \/ ~s.preparing /\ low = << >>
       \/ s.preparing /\ low = <<"prepareCover">>

AtRest(s, low) ==
    /\ s.coverAlarm <=> s.waitOpen \/ s.waitClose
    /\ NobodyServed(s, low) \/ OneServed(s, low) \/ UserAwaited(s, low)

(* The reads that wait are in the queue of their priority, once. *)
QueuedOnce(s) ==
    /\ \A p \in Prio : IsInjective(s.queue[p])
    /\ \A p \in Prio, f \in File : f \in ToSet(s.queue[p]) =>
           Priority[f] = p /\ s.block[f].state = "WAITING"
    /\ \A f \in File : /\ s.block[f].transfers <= Transfers[f]
                       /\ s.block[f].state \notin Final => s.block[f].transfers > 0

Placed(s) ==
    /\ QueuedOnce(s)
    /\ \A f \in File : s.block[f].state \in Begun <=> f = s.executing

(***************************************************************************)
(* What a step may do to the reads: nothing, or answer the executing one.  *)
(***************************************************************************)
Unanswered(s, r) ==
    /\ r.executing = s.executing /\ r.queue = s.queue
    /\ r.canceling = s.canceling /\ r.breaking = s.breaking
    /\ r.cancelCallback = s.cancelCallback
    /\ r.calls = {}
    /\ \A g \in File :
          /\ r.block[g].callback = s.block[g].callback
          /\ IF g = s.executing THEN r.block[g].state \in Begun
             ELSE r.block[g].state = s.block[g].state

(* The next read is the first of the best priority. *)
NextRead(w, r) ==
    \/ /\ \A p \in Prio : w[p] = << >>
       /\ r.executing = NoFile /\ r.queue = w
    \/ \E p \in Prio :
          /\ w[p] # << >>
          /\ \A q \in Prio : q < p => w[q] = << >>
          /\ r.executing = Head(w[p])
          /\ r.queue = [w EXCEPT ![p] = Tail(@)]

Answered(s, r, result) ==
    LET f == s.executing IN
    /\ f # NoFile
    /\ NextRead(s.queue, r)
    /\ r.block[f].state = result
    /\ \A g \in File :
          /\ r.block[g].callback = s.block[g].callback
          /\ g # f /\ g # r.executing => r.block[g].state = s.block[g].state
    /\ ~r.canceling
    /\ r.cancelCallback = s.cancelCallback
    /\ IF result = "IDLE" THEN ~s.canceling /\ ~s.breaking /\ ~r.breaking
       ELSE s.canceling \/ (s.breaking /\ ~r.breaking)
    /\ Callback(s, f) \subseteq r.calls
    /\ s.canceling => CallCancelCallback(s) \subseteq r.calls
    /\ r.calls \subseteq Callback(s, f) \cup CallCancelCallback(s)

Turn(s, r) ==
    /\ r \in DriverState
    /\ Placed(r)
    /\ r.halt = "no" => AtRest(r, r.low)
    /\ Unanswered(s, r) \/ \E result \in Final : Answered(s, r, result)

-----------------------------------------------------------------------------
LEMMA LeastOf ==
    ASSUME NEW S \in SUBSET Nat, S # {}
    PROVE  \E i \in S : \A j \in S : i <= j
  <1>1. PICK n \in S : TRUE
    OBVIOUS
  <1> DEFINE L == {i \in 1 .. n + 1 : i - 1 \in S}
  <1>2. n + 1 \in L
    OBVIOUS
  <1>3. PICK i \in L : \A j \in L : i <= j
    <2>1. L \in SUBSET (1 .. n + 1)
      BY Zenon
    <2>2. L # {} /\ n + 1 \in Nat
      BY <1>1, <1>2
    <2> HIDE DEF L
    <2>3. QED BY <2>1, <2>2, FirstPlace
  <1>4. i - 1 \in S /\ i - 1 \in Nat /\ i <= n + 1
    BY <1>3
  <1>5. ASSUME NEW j \in S PROVE i - 1 <= j
    <2>1. CASE j <= n
      <3>1. j + 1 \in L
        BY <2>1
      <3>2. QED BY <3>1, <1>3, <1>4
    <2>2. QED BY <2>1, <1>4
  <1>6. QED BY <1>4, <1>5


(***************************************************************************)
(* The driver's functions change few of its fields each.                   *)
(***************************************************************************)
SameReads(s, r) == r.executing = s.executing /\ r.block = s.block /\ r.queue = s.queue
SameCancel(s, r) ==
    /\ r.canceling = s.canceling /\ r.breaking = s.breaking
    /\ r.cancelCallback = s.cancelCallback /\ r.calls = s.calls
SameErrands(s, r) ==
    /\ r.storing = s.storing /\ r.resetAlarm = s.resetAlarm /\ r.preparing = s.preparing
SameWaits(s, r) ==
    /\ r.waitOpen = s.waitOpen /\ r.waitClose = s.waitClose /\ r.coverAlarm = s.coverAlarm
SameMotor(s, r) == r.resume = s.resume /\ r.motor = s.motor

LEMMA LowCommandFields ==
    ASSUME NEW s \in DriverState, NEW command \in Drives \cup {"clear", "prepareCover"},
           Len(s.low) < Contexts, Contexts \in Nat
    PROVE  LET r == LowCommand(s, command) IN
           /\ r \in DriverState
           /\ SameReads(s, r) /\ SameCancel(s, r) /\ SameErrands(s, r) /\ SameWaits(s, r)
           /\ SameMotor(s, r) /\ r.halt = s.halt
           /\ r.low = Append(s.low, command)
  <1> DEFINE l == Append(s.low, command)
  <1>1. s.low \in Seq(Drives \cup {"clear", "prepareCover"})
    BY DEF DriverState
  <1>2. l \in Seq(Drives \cup {"clear", "prepareCover"}) /\ Len(s.low) \in Nat
    BY <1>1, AppendProperties, LenProperties
  <1>3. LowCommand(s, command) = [s EXCEPT !.low = l]
    BY <1>2 DEF LowCommand
  <1> HIDE DEF l
  <1>4. [s EXCEPT !.low = l] \in DriverState
    BY <1>2 DEF DriverState
  <1> DEFINE r == [s EXCEPT !.low = l]
  <1>5. SameReads(s, r) /\ SameCancel(s, r)
    BY DEF SameReads, SameCancel, DriverState
  <1>6. SameErrands(s, r) /\ SameWaits(s, r) /\ SameMotor(s, r) /\ r.halt = s.halt /\ r.low = l
    BY DEF SameErrands, SameWaits, SameMotor, DriverState
  <1> HIDE DEF r
  <1>7. LowCommand(s, command) = r /\ r \in DriverState
    BY <1>3, <1>4 DEF r
  <1>8. QED BY <1>5, <1>6, <1>7 DEF l

LEMMA SetStateFields ==
    ASSUME NEW s \in DriverState, s.executing \in File,
           NEW state \in Final \cup Begun \cup {"WAITING"}
    PROVE  LET r == SetState(s, state) IN
           /\ r \in DriverState
           /\ SameCancel(s, r) /\ SameErrands(s, r) /\ SameWaits(s, r)
           /\ SameMotor(s, r) /\ r.halt = s.halt /\ r.low = s.low
           /\ r.executing = s.executing /\ r.queue = s.queue
           /\ r.block = [s.block EXCEPT ![s.executing].state = state]
  <1> DEFINE b == [s.block EXCEPT ![s.executing].state = state]
  <1>1. s.block \in [File -> Block] /\ s.block[s.executing] \in Block
    BY DEF DriverState
  <1>2. [s.block[s.executing] EXCEPT !.state = state] \in Block
    BY <1>1 DEF Block
  <1>3. b \in [File -> Block]
    BY <1>1, <1>2
  <1>4. SetState(s, state) = [s EXCEPT !.block = b]
    BY DEF SetState
  <1> HIDE DEF b
  <1>5. [s EXCEPT !.block = b] \in DriverState
    BY <1>3 DEF DriverState
  <1> DEFINE r == [s EXCEPT !.block = b]
  <1>6. /\ SameCancel(s, r) /\ SameErrands(s, r)
        /\ r.executing = s.executing /\ r.queue = s.queue /\ r.block = b
    BY DEF SameCancel, SameErrands, DriverState
  <1>7. SameWaits(s, r) /\ SameMotor(s, r) /\ r.halt = s.halt /\ r.low = s.low
    BY DEF SameWaits, SameMotor, DriverState
  <1> HIDE DEF r
  <1>8. SetState(s, state) = r /\ r \in DriverState
    BY <1>4, <1>5 DEF r
  <1>9. QED BY <1>6, <1>7, <1>8 DEF b

LEMMA MotorStoppedFields ==
    ASSUME NEW s \in DriverState
    PROVE  LET r == StateMotorStopped(s) IN
           /\ r \in DriverState
           /\ SameReads(s, r) /\ SameCancel(s, r) /\ SameErrands(s, r)
           /\ r.halt = s.halt /\ r.low = s.low /\ r.resume = s.resume
           /\ r.waitClose = s.waitClose
           /\ r.waitOpen = (s.waitOpen \/ ~s.waitClose)
           /\ r.coverAlarm = (s.coverAlarm \/ ~(s.waitOpen \/ s.waitClose))
  <1> DEFINE stop == [s EXCEPT !.motor = "PENDING_STOP"]
             wait == [s EXCEPT !.motor = "PENDING_STOP", !.waitOpen = TRUE, !.coverAlarm = TRUE]
  <1>1. /\ StateMotorStopped(s) = IF s.waitOpen \/ s.waitClose THEN stop ELSE wait
        /\ s.waitOpen \in BOOLEAN /\ s.waitClose \in BOOLEAN /\ s.coverAlarm \in BOOLEAN
    BY DEF StateMotorStopped, DriverState
  <1>2. stop \in DriverState /\ wait \in DriverState
    BY DEF DriverState
  <1>3. /\ SameReads(s, stop) /\ SameCancel(s, stop) /\ SameErrands(s, stop) /\ SameWaits(s, stop)
        /\ stop.halt = s.halt /\ stop.low = s.low /\ stop.resume = s.resume
    BY DEF SameReads, SameCancel, SameErrands, SameWaits, DriverState
  <1>4. /\ SameReads(s, wait) /\ SameCancel(s, wait) /\ SameErrands(s, wait)
        /\ wait.halt = s.halt /\ wait.low = s.low /\ wait.resume = s.resume
        /\ wait.waitClose = s.waitClose /\ wait.waitOpen = TRUE /\ wait.coverAlarm = TRUE
    BY DEF SameReads, SameCancel, SameErrands, DriverState
  <1> HIDE DEF stop, wait
  <1>5. CASE s.waitOpen \/ s.waitClose
    BY <1>1, <1>2, <1>3, <1>5 DEF SameWaits
  <1>6. CASE ~(s.waitOpen \/ s.waitClose)
    BY <1>1, <1>2, <1>4, <1>6
  <1>7. QED BY <1>5, <1>6

LEMMA CoverClosedFields ==
    ASSUME NEW s \in DriverState, Len(s.low) < Contexts, Contexts \in Nat
    PROVE  LET r == StateCoverClosed(s) IN
           /\ r \in DriverState
           /\ SameReads(s, r) /\ SameCancel(s, r) /\ SameErrands(s, r) /\ SameWaits(s, r)
           /\ r.halt = s.halt /\ r.resume = s.resume
           /\ r.low = Append(s.low, "reset")
           /\ r.motor = "WORKING"
  <1> DEFINE t == [s EXCEPT !.motor = "WORKING"]
  <1>1. t \in DriverState
    BY DEF DriverState
  <1>2. /\ SameReads(s, t) /\ SameCancel(s, t) /\ SameErrands(s, t) /\ SameWaits(s, t)
        /\ t.halt = s.halt /\ t.resume = s.resume /\ t.low = s.low /\ t.motor = "WORKING"
    BY DEF SameReads, SameCancel, SameErrands, SameWaits, DriverState
  <1> HIDE DEF t
  <1>3. StateCoverClosed(s) = LowCommand(t, "reset")
    BY DEF StateCoverClosed, t
  <1>4. "reset" \in Drives
    BY DEF Drives
  <1>5. QED BY <1>1, <1>2, <1>3, <1>4, LowCommandFields
            DEF SameReads, SameCancel, SameErrands, SameWaits, SameMotor

LEMMA ClearThenFields ==
    ASSUME NEW s \in DriverState, NEW command \in Drives, Len(s.low) + 1 < Contexts, Contexts \in Nat
    PROVE  LET r == ClearThen(s, command) IN
           /\ r \in DriverState
           /\ SameReads(s, r) /\ SameCancel(s, r) /\ SameErrands(s, r) /\ SameWaits(s, r)
           /\ SameMotor(s, r) /\ r.halt = s.halt
           /\ r.low = Append(Append(s.low, "clear"), command)
  <1> DEFINE t == LowCommand(s, "clear")
  <1>1. s.low \in Seq(Drives \cup {"clear", "prepareCover"})
    BY DEF DriverState
  <1>2. Len(s.low) \in Nat /\ Len(s.low) < Contexts /\ Len(Append(s.low, "clear")) = Len(s.low) + 1
    BY <1>1, AppendProperties, LenProperties
  <1>3. /\ t \in DriverState
        /\ SameReads(s, t) /\ SameCancel(s, t) /\ SameErrands(s, t) /\ SameWaits(s, t)
        /\ SameMotor(s, t) /\ t.halt = s.halt
        /\ t.low = Append(s.low, "clear")
    BY <1>2, LowCommandFields
  <1> HIDE DEF t
  <1>4. ClearThen(s, command) = LowCommand(t, command)
    BY DEF ClearThen, t
  <1>5. QED BY <1>2, <1>3, <1>4, LowCommandFields
            DEF SameReads, SameCancel, SameErrands, SameWaits, SameMotor

LEMMA LastStateFields ==
    ASSUME NEW s \in DriverState, NEW last \in {"busy", "downRotation", "readDiskID"}
    PROVE  LET r == [s EXCEPT !.lastState = last] IN
           /\ r \in DriverState
           /\ SameReads(s, r) /\ SameCancel(s, r) /\ SameErrands(s, r) /\ SameWaits(s, r)
           /\ SameMotor(s, r) /\ r.halt = s.halt /\ r.low = s.low
  <1>1. [s EXCEPT !.lastState = last] \in DriverState
    BY DEF DriverState
  <1>2. QED BY <1>1
            DEF SameReads, SameCancel, SameErrands, SameWaits, SameMotor, DriverState

LEMMA BusyFields ==
    ASSUME NEW s \in DriverState, Len(s.low) + 1 < Contexts, Contexts \in Nat
    PROVE  LET r == StateBusy(s) IN
           /\ r \in DriverState
           /\ SameReads(s, r) /\ SameCancel(s, r) /\ SameErrands(s, r) /\ SameWaits(s, r)
           /\ SameMotor(s, r) /\ r.halt = s.halt
           /\ r.low = Append(Append(s.low, "clear"), "busy")
  <1> DEFINE t == [s EXCEPT !.lastState = "busy"]
  <1>1. /\ t \in DriverState
        /\ SameReads(s, t) /\ SameCancel(s, t) /\ SameErrands(s, t) /\ SameWaits(s, t)
        /\ SameMotor(s, t) /\ t.halt = s.halt /\ t.low = s.low
    BY LastStateFields
  <1> HIDE DEF t
  <1>2. StateBusy(s) = ClearThen(t, "busy") /\ "busy" \in Drives
    BY DEF StateBusy, t, Drives
  <1>3. QED BY <1>1, <1>2, ClearThenFields
            DEF SameReads, SameCancel, SameErrands, SameWaits, SameMotor

LEMMA ResumeFields ==
    ASSUME NEW s \in DriverState
    PROVE  LET r == [s EXCEPT !.resume = "NONE"] IN
           /\ r \in DriverState
           /\ SameReads(s, r) /\ SameCancel(s, r) /\ SameErrands(s, r) /\ SameWaits(s, r)
           /\ r.resume = "NONE" /\ r.motor = s.motor /\ r.halt = s.halt /\ r.low = s.low
  <1>1. [s EXCEPT !.resume = "NONE"] \in DriverState
    BY DEF DriverState, Resumes
  <1>2. QED BY <1>1 DEF SameReads, SameCancel, SameErrands, SameWaits, DriverState

(***************************************************************************)
(* StateReady, of a driver that has at most the completed command out.     *)
(***************************************************************************)
ReadyFields(s, r) ==
    /\ r \in DriverState
    /\ NextRead(s.queue, r)
    /\ SameCancel(s, r) /\ SameErrands(s, r) /\ r.waitClose = s.waitClose /\ r.halt = s.halt
    /\ \/ /\ r.executing = NoFile
          /\ r.block = s.block /\ SameMotor(s, r) /\ SameWaits(s, r) /\ r.low = s.low
       \/ /\ r.executing \in File
          /\ \E state \in Begun :
                /\ r.block = [s.block EXCEPT ![r.executing].state = state]
                /\ \/ /\ state \in UserWait /\ state = s.resume
                      /\ r.low = s.low
                      /\ r.waitOpen = (s.waitOpen \/ ~s.waitClose)
                      /\ r.coverAlarm = (s.coverAlarm \/ ~(s.waitOpen \/ s.waitClose))
                   \/ /\ state = "COVER_CLOSED"
                      /\ s.resume \notin {"NONE", "COVER_OPENED"}
                      /\ r.low = Append(s.low, "reset")
                      /\ r.motor = "WORKING" /\ SameWaits(s, r)
                   \/ /\ state = "BUSY" /\ s.resume = "NONE"
                      /\ r.low = Append(Append(s.low, "clear"), "busy")
                      /\ r.motor = "WORKING" /\ SameWaits(s, r)

LEMMA PopFields ==
    ASSUME NEW s \in DriverState, PrioWaiting(s) # {}
    PROVE  LET r == Pop(s) IN
           /\ r \in DriverState
           /\ NextRead(s.queue, r)
           /\ SameCancel(s, r) /\ SameErrands(s, r) /\ SameWaits(s, r) /\ SameMotor(s, r)
           /\ r.halt = s.halt /\ r.low = s.low /\ r.block = s.block
           /\ r.executing \in File
  <1> DEFINE p == Best(s)
             f == Head(s.queue[p])
             q == [s.queue EXCEPT ![p] = Tail(@)]
  <1>1. p \in Prio /\ s.queue[p] # << >> /\ \A o \in Prio : o < p => s.queue[o] = << >>
    <2>1. PrioWaiting(s) \in SUBSET Nat
      BY DvdAssumption DEF PrioWaiting
    <2>2. \E i \in PrioWaiting(s) : \A j \in PrioWaiting(s) : i <= j
      BY <2>1, LeastOf
    <2>3. p \in PrioWaiting(s) /\ \A j \in PrioWaiting(s) : p <= j
      BY <2>2 DEF Best
    <2>4. ASSUME NEW o \in Prio, o < p PROVE s.queue[o] = << >>
      BY <2>1, <2>3, <2>4, DvdAssumption DEF PrioWaiting
    <2>5. QED BY <2>3, <2>4 DEF PrioWaiting
  <1>2. s.queue \in [Prio -> Seq(File)]
    BY DEF DriverState
  <1>3. f \in File /\ q \in [Prio -> Seq(File)]
    BY <1>1, <1>2, TailSet
  <1>4. Pop(s) = [s EXCEPT !.executing = f, !.queue = q]
    BY DEF Pop, DriverState
  <1> DEFINE r == [s EXCEPT !.executing = f, !.queue = q]
  <1> HIDE DEF f, q
  <1>5. r \in DriverState
    BY <1>3 DEF DriverState
  <1>6. /\ SameCancel(s, r) /\ SameErrands(s, r) /\ SameWaits(s, r) /\ SameMotor(s, r)
        /\ r.halt = s.halt /\ r.low = s.low /\ r.block = s.block
        /\ r.executing = f /\ r.queue = q
    BY DEF SameCancel, SameErrands, SameWaits, SameMotor, DriverState
  <1> HIDE DEF r
  <1>7. NextRead(s.queue, r)
    BY <1>1, <1>6 DEF NextRead, f, q
  <1>8. QED BY <1>3, <1>4, <1>5, <1>6, <1>7 DEF r

LEMMA StateReadyFields ==
    ASSUME Contexts >= 3, NEW s \in DriverState, Len(s.low) <= 1,
           s.motor # "WORKING" => s.resume # "NONE"
    PROVE  ReadyFields(s, StateReady(s))
  <1> DEFINE r == StateReady(s)
             t == Pop(s)
  <1> USE DvdAssumption
  <1> SUFFICES ReadyFields(s, r)
    OBVIOUS
  <1>1. CASE PrioWaiting(s) = {}
    <2> DEFINE n == [s EXCEPT !.executing = NoFile]
    <2>1. r = n /\ \A p \in Prio : s.queue[p] = << >>
      BY <1>1 DEF StateReady, PrioWaiting
    <2>2. n \in DriverState
      BY DEF DriverState
    <2>3. /\ SameCancel(s, n) /\ SameErrands(s, n) /\ SameWaits(s, n) /\ SameMotor(s, n)
          /\ n.halt = s.halt /\ n.low = s.low /\ n.block = s.block
          /\ n.executing = NoFile /\ n.queue = s.queue
      BY DEF SameCancel, SameErrands, SameWaits, SameMotor, DriverState
    <2> HIDE DEF n, r
    <2>4. NextRead(s.queue, n)
      BY <2>1, <2>3 DEF NextRead
    <2>5. QED BY <2>1, <2>2, <2>3, <2>4 DEF ReadyFields, SameWaits
  <1>2. CASE PrioWaiting(s) # {}
    <2>1. /\ t \in DriverState
          /\ NextRead(s.queue, t)
          /\ SameCancel(s, t) /\ SameErrands(s, t) /\ SameWaits(s, t) /\ SameMotor(s, t)
          /\ t.halt = s.halt /\ t.low = s.low /\ t.block = s.block
          /\ t.executing \in File
      BY <1>2, PopFields
    <2>2. r = IF t.resume # "NONE" THEN ResumeFromHere(t)
              ELSE IF t.motor = "WORKING" THEN StateBusy(SetState(t, "BUSY"))
              ELSE StateCoverClosed(t)
      BY <1>2 DEF StateReady
    <2> HIDE DEF t, r
    <2>3. Len(s.low) + 1 < Contexts /\ Len(s.low) < Contexts /\ Len(s.low) \in Nat
      <3>1. s.low \in Seq(Drives \cup {"clear", "prepareCover"})
        BY DEF DriverState
      <3>2. QED BY <3>1, LenProperties
    <2> DEFINE n == [t EXCEPT !.resume = "NONE"]
    <2>4. /\ n \in DriverState
          /\ SameReads(t, n) /\ SameCancel(t, n) /\ SameErrands(t, n) /\ SameWaits(t, n)
          /\ n.resume = "NONE" /\ n.motor = t.motor /\ n.halt = t.halt /\ n.low = t.low
      BY <2>1, ResumeFields
    <2>5. CASE s.resume \in {"DISK_ERROR", "NO_DISK", "COVER_OPENED"}
      <3> DEFINE a == SetState(n, s.resume)
      <3>1. r = StateMotorStopped(a)
        BY <2>1, <2>2, <2>5 DEF ResumeFromHere, SameMotor
      <3> HIDE DEF n
      <3>2. s.resume \in Begun /\ s.resume \in UserWait /\ n.executing \in File
        BY <2>1, <2>4, <2>5 DEF Begun, UserWait, SameReads
      <3>3. /\ a \in DriverState
            /\ SameCancel(n, a) /\ SameErrands(n, a) /\ SameWaits(n, a)
            /\ SameMotor(n, a) /\ a.halt = n.halt /\ a.low = n.low
            /\ a.executing = n.executing /\ a.queue = n.queue
            /\ a.block = [n.block EXCEPT ![n.executing].state = s.resume]
        BY <2>4, <3>2, SetStateFields
      <3> HIDE DEF a
      <3>4. /\ r \in DriverState
            /\ SameReads(a, r) /\ SameCancel(a, r) /\ SameErrands(a, r)
            /\ r.halt = a.halt /\ r.low = a.low /\ r.waitClose = a.waitClose
            /\ r.waitOpen = (a.waitOpen \/ ~a.waitClose)
            /\ r.coverAlarm = (a.coverAlarm \/ ~(a.waitOpen \/ a.waitClose))
        BY <3>1, <3>3, MotorStoppedFields
      <3>5. NextRead(s.queue, r) /\ SameCancel(s, r) /\ SameErrands(s, r)
        <4>1. r.executing = t.executing /\ r.queue = t.queue
          BY <2>1, <2>4, <3>3, <3>4 DEF SameReads
        <4>2. SameCancel(s, r) /\ SameErrands(s, r)
          BY <2>1, <2>4, <3>3, <3>4 DEF SameReads, SameCancel, SameErrands
        <4>3. NextRead(s.queue, r)
          BY <2>1, <4>1 DEF NextRead
        <4>4. QED BY <4>2, <4>3
      <3>6. /\ r.executing \in File /\ r.block = [s.block EXCEPT ![r.executing].state = s.resume]
            /\ r.halt = s.halt /\ r.low = s.low /\ r.waitClose = s.waitClose
            /\ r.waitOpen = (s.waitOpen \/ ~s.waitClose)
            /\ r.coverAlarm = (s.coverAlarm \/ ~(s.waitOpen \/ s.waitClose))
        BY <2>1, <2>4, <3>3, <3>4 DEF SameReads, SameWaits
      <3>7. QED BY <3>2, <3>4, <3>5, <3>6 DEF ReadyFields
    <2>6. CASE s.resume \notin {"NONE", "DISK_ERROR", "NO_DISK", "COVER_OPENED"}
      <3> DEFINE a == SetState(n, "COVER_CLOSED")
      <3>1. r = StateCoverClosed(a)
        BY <2>1, <2>2, <2>6 DEF ResumeFromHere, SameMotor
      <3> HIDE DEF n
      <3>2. "COVER_CLOSED" \in Begun
        BY DEF Begun, Served
      <3>3. /\ a \in DriverState
            /\ SameCancel(n, a) /\ SameErrands(n, a) /\ SameWaits(n, a)
            /\ SameMotor(n, a) /\ a.halt = n.halt /\ a.low = n.low
            /\ a.executing = n.executing /\ a.queue = n.queue
            /\ a.block = [n.block EXCEPT ![n.executing].state = "COVER_CLOSED"]
        BY <2>1, <2>4, <3>2, SetStateFields DEF SameReads
      <3> HIDE DEF a
      <3>4. /\ r \in DriverState
            /\ SameReads(a, r) /\ SameCancel(a, r) /\ SameErrands(a, r) /\ SameWaits(a, r)
            /\ r.halt = a.halt
            /\ r.low = Append(a.low, "reset")
            /\ r.motor = "WORKING"
        BY <2>1, <2>3, <2>4, <3>1, <3>3, CoverClosedFields
      <3>5. NextRead(s.queue, r) /\ SameCancel(s, r) /\ SameErrands(s, r) /\ SameWaits(s, r)
        <4>1. r.executing = t.executing /\ r.queue = t.queue
          BY <2>1, <2>4, <3>3, <3>4 DEF SameReads
        <4>2. SameCancel(s, r) /\ SameErrands(s, r) /\ SameWaits(s, r)
          BY <2>1, <2>4, <3>3, <3>4 DEF SameReads, SameCancel, SameErrands, SameWaits
        <4>3. NextRead(s.queue, r)
          BY <2>1, <4>1 DEF NextRead
        <4>4. QED BY <4>2, <4>3
      <3>6. /\ r.executing \in File
            /\ r.block = [s.block EXCEPT ![r.executing].state = "COVER_CLOSED"]
            /\ r.halt = s.halt /\ r.low = Append(s.low, "reset")
        BY <2>1, <2>4, <3>3, <3>4 DEF SameReads
      <3>7. QED BY <2>6, <3>2, <3>4, <3>5, <3>6 DEF ReadyFields, SameWaits
    <2>7. CASE s.resume = "NONE"
      <3> DEFINE a == SetState(t, "BUSY")
      <3>1. r = StateBusy(a) /\ s.motor = "WORKING"
        BY <2>1, <2>2, <2>7 DEF SameMotor
      <3>2. "BUSY" \in Begun
        BY DEF Begun, Served
      <3>3. /\ a \in DriverState
            /\ SameCancel(t, a) /\ SameErrands(t, a) /\ SameWaits(t, a)
            /\ SameMotor(t, a) /\ a.halt = t.halt /\ a.low = t.low
            /\ a.executing = t.executing /\ a.queue = t.queue
            /\ a.block = [t.block EXCEPT ![t.executing].state = "BUSY"]
        BY <2>1, <3>2, SetStateFields DEF SameReads
      <3> HIDE DEF a
      <3>4. /\ r \in DriverState
            /\ SameReads(a, r) /\ SameCancel(a, r) /\ SameErrands(a, r) /\ SameWaits(a, r)
            /\ SameMotor(a, r) /\ r.halt = a.halt
            /\ r.low = Append(Append(a.low, "clear"), "busy")
        BY <2>1, <2>3, <3>1, <3>3, BusyFields
      <3>5. NextRead(s.queue, r) /\ SameCancel(s, r) /\ SameErrands(s, r) /\ SameWaits(s, r)
        <4>1. r.executing = t.executing /\ r.queue = t.queue
          BY <2>1, <3>3, <3>4 DEF SameReads
        <4>2. SameCancel(s, r) /\ SameErrands(s, r) /\ SameWaits(s, r)
          BY <2>1, <3>3, <3>4 DEF SameReads, SameCancel, SameErrands, SameWaits
        <4>3. NextRead(s.queue, r)
          BY <2>1, <4>1 DEF NextRead
        <4>4. QED BY <4>2, <4>3
      <3>6. /\ r.executing \in File
            /\ r.block = [s.block EXCEPT ![r.executing].state = "BUSY"]
            /\ r.motor = "WORKING"
            /\ r.halt = s.halt /\ r.low = Append(Append(s.low, "clear"), "busy")
        BY <2>1, <3>1, <3>3, <3>4 DEF SameReads, SameMotor
      <3>7. QED BY <2>7, <3>2, <3>4, <3>5, <3>6 DEF ReadyFields, SameWaits
    <2>8. QED BY <2>5, <2>6, <2>7
  <1>3. QED BY <1>1, <1>2

LEMMA LowSingle ==
    ASSUME NEW c
    PROVE  /\ Tail(<<c>>) = << >> /\ Append(<< >>, c) = <<c>>
           /\ Len(<<c>>) = 1 /\ Head(<<c>>) = c /\ <<c>> # << >>
  OBVIOUS

LEMMA LowPair ==
    ASSUME NEW c, NEW d
    PROVE  Append(<<c>>, d) = <<c, d>>
  <1> DEFINE S == {c, d}
  <1>1. Append(<<c>>, d) = <<c, d>>
    <2>1. /\ <<c>> \in Seq(S) /\ Len(<<c>>) = 1 /\ <<c>>[1] = c
          /\ <<c, d>> \in Seq(S) /\ Len(<<c, d>>) = 2 /\ <<c, d>>[1] = c /\ <<c, d>>[2] = d
          /\ d \in S
      OBVIOUS
    <2> HIDE DEF S
    <2>2. /\ Append(<<c>>, d) \in Seq(S) /\ Len(Append(<<c>>, d)) = 2
          /\ Append(<<c>>, d)[1] = c /\ Append(<<c>>, d)[2] = d
      BY <2>1, AppendProperties
    <2> DEFINE l == Append(<<c>>, d)
               m == <<c, d>>
    <2> HIDE DEF l, m
    <2>3. l \in Seq(S) /\ m \in Seq(S) /\ Len(l) = 2 /\ Len(m) = 2 /\ l[1] = m[1] /\ l[2] = m[2]
      BY <2>1, <2>2 DEF l, m
    <2>4. \A i \in 1 .. Len(l) : l[i] = m[i]
      BY <2>3
    <2>5. l = m
      BY <2>3, <2>4, SeqEqual
    <2>6. QED BY <2>5 DEF l, m
  <1>2. QED BY <1>1

LEMMA LowTriple ==
    ASSUME NEW c, NEW d, NEW e
    PROVE  Append(<<c, d>>, e) = <<c, d, e>>
  <1> DEFINE S == {c, d, e}
  <1>1. Append(<<c, d>>, e) = <<c, d, e>>
    <2>1. /\ <<c, d>> \in Seq(S) /\ Len(<<c, d>>) = 2 /\ <<c, d>>[1] = c /\ <<c, d>>[2] = d
          /\ e \in S
      OBVIOUS
    <2>2. /\ <<c, d, e>> \in Seq(S) /\ Len(<<c, d, e>>) = 3
          /\ <<c, d, e>>[1] = c /\ <<c, d, e>>[2] = d /\ <<c, d, e>>[3] = e
      OBVIOUS
    <2> HIDE DEF S
    <2>3. /\ Append(<<c, d>>, e) \in Seq(S) /\ Len(Append(<<c, d>>, e)) = 3
          /\ Append(<<c, d>>, e)[1] = c /\ Append(<<c, d>>, e)[2] = d
          /\ Append(<<c, d>>, e)[3] = e
      BY <2>1, AppendProperties
    <2> DEFINE l == Append(<<c, d>>, e)
               m == <<c, d, e>>
    <2> HIDE DEF l, m
    <2>4. /\ l \in Seq(S) /\ m \in Seq(S) /\ Len(l) = 3 /\ Len(m) = 3
          /\ l[1] = m[1] /\ l[2] = m[2] /\ l[3] = m[3]
      BY <2>2, <2>3 DEF l, m
    <2>5. \A i \in 1 .. Len(l) : l[i] = m[i]
      BY <2>4
    <2>6. l = m
      BY <2>4, <2>5, SeqEqual
    <2>7. QED BY <2>6 DEF l, m
  <1>2. QED BY <1>1

LEMMA TailOfPair ==
    ASSUME NEW c, NEW d, NEW l, l = <<c, d>>
    PROVE  l # << >> /\ Tail(l) = <<d>>
  <1> DEFINE S == {c, d}
             t == Tail(l)
             u == <<d>>
  <1>1. l \in Seq(S) /\ Len(l) = 2 /\ l[1] = c /\ l[2] = d /\ l # << >>
    OBVIOUS
  <1>2. u \in Seq(S) /\ Len(u) = 1 /\ u[1] = d
    OBVIOUS
  <1> HIDE DEF S, u
  <1>3. t \in Seq(S) /\ Len(t) = 1 /\ t[1] = d
    BY <1>1, HeadTailProperties
  <1> HIDE DEF t
  <1>4. \A i \in 1 .. Len(t) : t[i] = u[i]
    BY <1>2, <1>3
  <1>5. t = u
    BY <1>2, <1>3, <1>4, SeqEqual
  <1>6. QED BY <1>1, <1>5 DEF t, u

LEMMA TailOfTriple ==
    ASSUME NEW c, NEW d, NEW e, NEW l, l = <<c, d, e>>
    PROVE  l # << >> /\ Tail(l) = <<d, e>>
  <1> DEFINE S == {c, d, e}
             t == Tail(l)
             u == <<d, e>>
  <1>1. l \in Seq(S) /\ Len(l) = 3 /\ l[1] = c /\ l[2] = d /\ l[3] = e /\ l # << >>
    OBVIOUS
  <1>2. u \in Seq(S) /\ Len(u) = 2 /\ u[1] = d /\ u[2] = e
    OBVIOUS
  <1> HIDE DEF S, u
  <1>3. t \in Seq(S) /\ Len(t) = 2 /\ t[1] = d /\ t[2] = e
    BY <1>1, HeadTailProperties
  <1> HIDE DEF t
  <1>4. \A i \in 1 .. Len(t) : t[i] = u[i]
    BY <1>2, <1>3
  <1>5. t = u
    BY <1>2, <1>3, <1>4, SeqEqual
  <1>6. QED BY <1>1, <1>5 DEF t, u

LEMMA Issued ==
    ASSUME NEW c, NEW d, NEW m, m = <<c>>, NEW l, l = Append(m, d)
    PROVE  l # << >> /\ Tail(l) = <<d>>
  <1>1. l = <<c, d>>
    BY LowPair
  <1>2. QED BY <1>1, TailOfPair

LEMMA IssuedBoth ==
    ASSUME NEW c, NEW d, NEW m, m = <<c>>, NEW l, l = Append(Append(m, "clear"), d)
    PROVE  l # << >> /\ Tail(l) = <<"clear", d>>
  <1>1. Append(m, "clear") = <<c, "clear">>
    BY LowPair
  <1>2. l = <<c, "clear", d>>
    BY <1>1, LowTriple
  <1>3. QED BY <1>2, TailOfTriple

LEMMA TailFields ==
    ASSUME NEW s \in DriverState, s.low # << >>
    PROVE  LET r == [s EXCEPT !.low = Tail(@)] IN
           /\ r \in DriverState
           /\ SameReads(s, r) /\ SameCancel(s, r) /\ SameErrands(s, r) /\ SameWaits(s, r)
           /\ SameMotor(s, r) /\ r.halt = s.halt
           /\ r.low = Tail(s.low)
  <1> DEFINE l == Tail(s.low)
             r == [s EXCEPT !.low = l]
  <1>1. s.low \in Seq(Drives \cup {"clear", "prepareCover"})
    BY DEF DriverState
  <1>2. l \in Seq(Drives \cup {"clear", "prepareCover"})
    BY <1>1, HeadTailProperties
  <1> HIDE DEF l
  <1>3. r \in DriverState
    BY <1>2 DEF DriverState
  <1>4. SameReads(s, r) /\ SameCancel(s, r)
    BY DEF SameReads, SameCancel, DriverState
  <1>5. SameErrands(s, r) /\ SameWaits(s, r) /\ SameMotor(s, r) /\ r.halt = s.halt /\ r.low = l
    BY DEF SameErrands, SameWaits, SameMotor, DriverState
  <1> HIDE DEF r
  <1>6. [s EXCEPT !.low = Tail(@)] = r
    BY DEF r, l
  <1>7. QED BY <1>3, <1>4, <1>5, <1>6 DEF l

(* The next read leaves the queues, which stay what they are. *)
LEMMA ReadyPlaced ==
    ASSUME NEW s \in DriverState, NEW r, ReadyFields(s, r), QueuedOnce(s),
           \A f \in File : s.block[f].state \notin Begun
    PROVE  /\ Placed(r)
           /\ \A f \in File : /\ r.block[f].callback = s.block[f].callback
                              /\ f # r.executing => r.block[f] = s.block[f]
                              /\ r.block[f].state = "WAITING" /\ f \in ToSet(s.queue[Priority[f]])
                                 => f \in ToSet(r.queue[Priority[f]])
           /\ r.executing # NoFile =>
                 r.executing \in File /\ s.block[r.executing].state = "WAITING"
  <1>1. s.queue \in [Prio -> Seq(File)] /\ s.block \in [File -> Block] /\ Priority \in [File -> Prio]
        /\ NoFile \notin File
    BY DvdAssumption DEF DriverState
  <1>2. CASE r.executing = NoFile
    <2>1. r.block = s.block
      BY <1>1, <1>2 DEF ReadyFields
    <2>2. r.queue = s.queue
      <3>1. ASSUME NEW p \in Prio, s.queue[p] # << >>, r.executing = Head(s.queue[p]) PROVE FALSE
        BY <1>1, <1>2, <3>1, TailSet
      <3>2. QED BY <3>1 DEF ReadyFields, NextRead
    <2>3. QED BY <1>1, <1>2, <2>1, <2>2 DEF Placed, QueuedOnce
  <1>3. CASE r.executing \in File
    <2>1. PICK state \in Begun : r.block = [s.block EXCEPT ![r.executing].state = state]
      BY <1>1, <1>3 DEF ReadyFields
    <2>2. PICK p \in Prio : /\ s.queue[p] # << >>
                            /\ r.executing = Head(s.queue[p])
                            /\ r.queue = [s.queue EXCEPT ![p] = Tail(@)]
      BY <1>1, <1>3 DEF ReadyFields, NextRead
    <2> DEFINE f == r.executing
    <2>3. /\ f \in ToSet(s.queue[p]) /\ IsInjective(s.queue[p])
          /\ Tail(s.queue[p]) \in Seq(File)
          /\ ToSet(s.queue[p]) = ToSet(Tail(s.queue[p])) \cup {f}
          /\ IsInjective(Tail(s.queue[p])) /\ f \notin ToSet(Tail(s.queue[p]))
      BY <1>1, <2>2, TailSet DEF QueuedOnce
    <2>4. s.block[f].state = "WAITING" /\ Priority[f] = p
      BY <1>3, <2>3 DEF QueuedOnce
    <2>5. /\ \A g \in File : g # f => r.block[g] = s.block[g]
          /\ r.block[f] = [s.block[f] EXCEPT !.state = state]
      BY <1>1, <1>3, <2>1
    <2>6. /\ r.block[f].state = state /\ r.block[f].callback = s.block[f].callback
          /\ r.block[f].transfers = s.block[f].transfers
      BY <1>1, <1>3, <2>5 DEF Block
    <2>7. /\ r.queue[p] = Tail(s.queue[p])
          /\ \A q \in Prio : q # p => r.queue[q] = s.queue[q]
      BY <1>1, <2>2
    <2>8. ASSUME NEW q \in Prio
          PROVE  /\ IsInjective(r.queue[q])
                 /\ \A g \in File : g \in ToSet(r.queue[q]) => g \in ToSet(s.queue[q]) /\ g # f
      <3>1. CASE q = p
        BY <2>3, <2>7, <3>1
      <3>2. CASE q # p
        BY <2>3, <2>4, <2>7, <3>2 DEF QueuedOnce
      <3>3. QED BY <3>1, <3>2
    <2>9. \A g \in File : g \in ToSet(s.queue[Priority[g]]) /\ g # f => g \in ToSet(r.queue[Priority[g]])
      BY <1>1, <2>3, <2>7
    <2> HIDE DEF f
    <2>10. "WAITING" \notin Final /\ state \notin Final /\ state # "WAITING"
      BY DEF Final, Begun, Served, UserWait
    <2>11. QueuedOnce(r)
      <3>1. ASSUME NEW q \in Prio, NEW g \in File, g \in ToSet(r.queue[q])
            PROVE  Priority[g] = q /\ r.block[g].state = "WAITING"
        BY <2>5, <2>8, <3>1 DEF QueuedOnce
      <3>2. ASSUME NEW g \in File
            PROVE  /\ r.block[g].transfers <= Transfers[g]
                   /\ r.block[g].state \notin Final => r.block[g].transfers > 0
        <4>1. CASE g = f
          BY <2>4, <2>6, <2>10, <4>1 DEF QueuedOnce
        <4>2. CASE g # f
          BY <2>5, <4>2 DEF QueuedOnce
        <4>3. QED BY <4>1, <4>2
      <3>3. QED BY <2>8, <3>1, <3>2 DEF QueuedOnce
    <2>12. Placed(r)
      BY <2>5, <2>6, <2>11, <1>3 DEF Placed, f
    <2>13. QED BY <1>3, <2>4, <2>5, <2>6, <2>9, <2>10, <2>12 DEF f
  <1>4. QED BY <1>2, <1>3 DEF ReadyFields

(***************************************************************************)
(* A read is driven by the command that completes now.                     *)
(***************************************************************************)
Driven(s) ==
    /\ s \in DriverState
    /\ Placed(s)
    /\ s.executing \in File
    /\ s.block[s.executing].state \in Served
    /\ ~s.waitOpen /\ ~s.waitClose /\ ~s.coverAlarm /\ s.motor = "WORKING"
    /\ ~s.storing /\ ~s.resetAlarm /\ ~s.preparing
    /\ \E c \in Drives : s.low = <<c>>
    /\ s.calls = {} /\ s.halt = "no"

Handled(s, r) == Turn(s, [r EXCEPT !.low = Tail(@)])

LEMMA ReadyHandled ==
    ASSUME NEW s \in DriverState, NEW r, ReadyFields(s, r),
           ~s.waitOpen, ~s.waitClose, ~s.coverAlarm, s.motor = "WORKING",
           ~s.canceling, ~s.storing, ~s.resetAlarm, ~s.preparing, Placed(r),
           NEW c \in Drives, s.low = <<c>>
    PROVE  r.low # << >> /\ AtRest(r, Tail(r.low))
  <1>1. CASE r.executing = NoFile
    <2>1. /\ SameMotor(s, r) /\ SameWaits(s, r) /\ r.low = <<c>> /\ SameErrands(s, r)
          /\ SameCancel(s, r)
      BY <1>1, DvdAssumption DEF ReadyFields
    <2>2. \A p \in Prio : r.queue[p] = << >>
      <3>1. s.queue \in [Prio -> Seq(File)]
        BY DEF DriverState
      <3>2. ASSUME NEW p \in Prio, s.queue[p] # << >>, r.executing = Head(s.queue[p]) PROVE FALSE
        BY <1>1, <3>1, <3>2, TailSet, DvdAssumption
      <3>3. QED BY <3>2 DEF ReadyFields, NextRead
    <2>3. NobodyServed(r, << >>)
      BY <1>1, <2>1, <2>2 DEF NobodyServed, SameMotor, SameWaits, SameErrands, SameCancel
    <2>4. QED BY <2>1, <2>3, LowSingle, LowPair, LowTriple DEF AtRest, SameWaits
  <1>2. CASE r.executing \in File
    <2>1. PICK state \in Begun :
             /\ r.block = [s.block EXCEPT ![r.executing].state = state]
             /\ \/ /\ state \in UserWait
                   /\ r.low = s.low
                   /\ r.waitOpen = (s.waitOpen \/ ~s.waitClose)
                   /\ r.coverAlarm = (s.coverAlarm \/ ~(s.waitOpen \/ s.waitClose))
                \/ /\ state = "COVER_CLOSED"
                   /\ r.low = Append(s.low, "reset")
                   /\ r.motor = "WORKING" /\ SameWaits(s, r)
                \/ /\ state = "BUSY"
                   /\ r.low = Append(Append(s.low, "clear"), "busy")
                   /\ r.motor = "WORKING" /\ SameWaits(s, r)
      BY <1>2, DvdAssumption DEF ReadyFields
    <2>2. s.block \in [File -> Block] /\ s.block[r.executing] \in Block
      BY <1>2 DEF DriverState
    <2>3. r.block[r.executing].state = state
      BY <1>2, <2>1, <2>2 DEF Block
    <2>4. SameErrands(s, r) /\ SameCancel(s, r) /\ r.waitClose = s.waitClose /\ r.executing # NoFile
      BY <1>2, DvdAssumption DEF ReadyFields
    <2>5. CASE state \in UserWait /\ r.low = s.low
      <3>1. r.waitOpen /\ r.coverAlarm /\ ~r.waitClose /\ r.low = <<c>>
        BY <2>1, <2>4, <2>5 DEF UserWait
      <3>2. UserAwaited(r, << >>)
        BY <2>3, <2>4, <2>5, <3>1 DEF UserAwaited, SameErrands, SameCancel
      <3>3. QED BY <3>1, <3>2, LowSingle, LowPair, LowTriple DEF AtRest
    <2>6. CASE state = "COVER_CLOSED"
      <3>1. r.low = <<c, "reset">> /\ SameWaits(s, r) /\ r.motor = "WORKING"
        BY <2>1, <2>6, LowSingle, LowPair, LowTriple DEF UserWait
      <3>2. OneServed(r, <<"reset">>)
        BY <2>3, <2>4, <2>6, <3>1 DEF OneServed, SameErrands, SameWaits, Served, Drives
      <3>3. QED BY <3>1, <3>2, LowSingle, LowPair, LowTriple DEF AtRest, SameWaits
    <2>7. CASE state = "BUSY"
      <3>1. r.low = <<c, "clear", "busy">> /\ SameWaits(s, r) /\ r.motor = "WORKING"
        BY <2>1, <2>7, LowSingle, LowPair, LowTriple DEF UserWait
      <3>2. OneServed(r, <<"clear", "busy">>)
        BY <2>3, <2>4, <2>7, <3>1 DEF OneServed, SameErrands, SameWaits, Served, Drives
      <3>3. QED BY <3>1, <3>2, LowSingle, LowPair, LowTriple DEF AtRest, SameWaits
    <2>8. QED BY <2>1, <2>5, <2>6, <2>7
  <1>3. QED BY <1>1, <1>2 DEF ReadyFields

(* A state on the way from s, as far as the rest of the step reads it. *)
OnTheWay(s, u) ==
    /\ u \in DriverState
    /\ u.executing = s.executing /\ u.queue = s.queue
    /\ SameErrands(s, u) /\ SameWaits(s, u) /\ u.motor = s.motor
    /\ u.low = s.low /\ u.halt = s.halt /\ u.calls = s.calls
    /\ u.cancelCallback = s.cancelCallback
    /\ \A g \in File :
          /\ u.block[g].callback = s.block[g].callback
          /\ u.block[g].state = s.block[g].state
          /\ u.block[g].transfers <= Transfers[g]
          /\ g # s.executing => u.block[g].transfers = s.block[g].transfers

(* What has been asked stays asked. *)
Asked(s, u) == OnTheWay(s, u) /\ u.canceling = s.canceling /\ u.breaking = s.breaking

(* The read goes on. *)
GoesOn(s, u) == Asked(s, u) /\ u.block[s.executing].transfers > 0

Finished(s, result, calls) ==
    [s EXCEPT !.block[s.executing].state = result,
              !.calls = @ \cup Callback(s, s.executing) \cup calls]

LEMMA AnsweredFields ==
    ASSUME NEW s \in DriverState, s.executing \in File, NEW result \in Final,
           NEW calls \in SUBSET Wakes, s.calls = {}
    PROVE  LET f == s.executing
               r == Finished(s, result, calls)
           IN  /\ r \in DriverState
               /\ SameErrands(s, r) /\ SameWaits(s, r) /\ SameMotor(s, r)
               /\ r.executing = s.executing /\ r.queue = s.queue
               /\ r.canceling = s.canceling /\ r.breaking = s.breaking
               /\ r.cancelCallback = s.cancelCallback
               /\ r.halt = s.halt /\ r.low = s.low
               /\ r.block = [s.block EXCEPT ![f].state = result]
               /\ r.calls = Callback(s, f) \cup calls
  <1> DEFINE f == s.executing
             b == [s.block EXCEPT ![f].state = result]
             c == Callback(s, f) \cup calls
             r == [s EXCEPT !.block = b, !.calls = c]
  <1>1. s.block \in [File -> Block] /\ s.block[f] \in Block
    BY DEF DriverState
  <1>2. [s.block[f] EXCEPT !.state = result] \in Block
    BY <1>1 DEF Block
  <1>3. b \in [File -> Block]
    BY <1>1, <1>2
  <1>4. c \in SUBSET (File \cup Wakes)
    BY DEF Callback, Wakes
  <1>5. Finished(s, result, calls) = r
    BY DEF DriverState, Finished
  <1> HIDE DEF b, c
  <1>6. r \in DriverState
    BY <1>3, <1>4 DEF DriverState
  <1>7. /\ SameErrands(s, r) /\ SameWaits(s, r) /\ SameMotor(s, r)
        /\ r.executing = s.executing /\ r.queue = s.queue
    BY DEF SameErrands, SameWaits, SameMotor, DriverState
  <1>8. /\ r.canceling = s.canceling /\ r.breaking = s.breaking
        /\ r.cancelCallback = s.cancelCallback
        /\ r.halt = s.halt /\ r.low = s.low /\ r.block = b /\ r.calls = c
    BY DEF DriverState
  <1> HIDE DEF r
  <1>9. QED BY <1>5, <1>6, <1>7, <1>8 DEF b, c

LEMMA CompleteHandled ==
    ASSUME Contexts >= 3, NEW s, Driven(s), NEW u, OnTheWay(s, u), ~u.canceling,
           NEW result \in Final, NEW calls \in SUBSET CallCancelCallback(s),
           s.canceling => CallCancelCallback(s) \subseteq calls,
           IF result = "IDLE" THEN ~s.canceling /\ ~s.breaking /\ ~u.breaking
           ELSE s.canceling \/ (s.breaking /\ ~u.breaking)
    PROVE  Handled(s, Complete(u, result, calls))
  <1> DEFINE f == u.executing
             v == Finished(u, result, calls)
             r == Complete(u, result, calls)
             n == [r EXCEPT !.low = Tail(@)]
  <1>1. /\ s \in DriverState /\ u \in DriverState /\ f \in File /\ f = s.executing /\ u.calls = {}
        /\ NoFile \notin File
    BY DvdAssumption DEF Driven, OnTheWay
  <1>2. calls \in SUBSET Wakes
    BY <1>1 DEF CallCancelCallback, DriverState
  <1>3. /\ v \in DriverState
        /\ SameErrands(u, v) /\ SameWaits(u, v) /\ SameMotor(u, v)
        /\ v.executing = u.executing /\ v.queue = u.queue
        /\ v.canceling = u.canceling /\ v.breaking = u.breaking
        /\ v.cancelCallback = u.cancelCallback
        /\ v.halt = u.halt /\ v.low = u.low
        /\ v.block = [u.block EXCEPT ![f].state = result]
        /\ v.calls = Callback(u, f) \cup calls
    BY <1>1, <1>2, AnsweredFields
  <1>4. r = StateReady(v)
    BY DEF Complete, Finished
  <1> HIDE DEF v, r, n
  <1>5. PICK c \in Drives : s.low = <<c>>
    BY DEF Driven
  <1>6. v \in DriverState /\ v.low = <<c>> /\ Len(v.low) <= 1 /\ v.motor = "WORKING"
    BY <1>3, <1>5, LowSingle, LowPair, LowTriple DEF OnTheWay, Driven, SameMotor
  <1>7. ReadyFields(v, r)
    BY <1>4, <1>6, StateReadyFields
  <1>8. u.block \in [File -> Block]
    BY <1>1 DEF DriverState
  <1>9. /\ v.block[f].state = result /\ v.block[f].callback = u.block[f].callback
        /\ v.block[f].transfers = u.block[f].transfers
        /\ \A g \in File : g # f => v.block[g] = u.block[g]
    BY <1>1, <1>3, <1>8 DEF Block
  <1> HIDE DEF f
  <1>10. Placed(s) /\ s.block[f].state \in Served
    BY <1>1 DEF Driven
  <1>11. "WAITING" \notin Served /\ "WAITING" \notin Final /\ \A x \in Final : x \notin Begun
         /\ Served \subseteq Begun
    BY DEF Served, Final, Begun, UserWait
  <1>12. \A g \in File : g # f => /\ v.block[g].state = s.block[g].state
                                  /\ v.block[g].transfers = s.block[g].transfers
    BY <1>1, <1>9 DEF OnTheWay
  <1>13. v.block[f].transfers <= Transfers[f]
    BY <1>1, <1>9 DEF OnTheWay
  <1>14. \A g \in File : v.block[g].callback = s.block[g].callback
    BY <1>1, <1>9 DEF OnTheWay
  <1>15. QueuedOnce(v)
    <2>1. v.queue = s.queue
      BY <1>3 DEF OnTheWay
    <2>2. ASSUME NEW p \in Prio, NEW g \in File, g \in ToSet(v.queue[p])
          PROVE  Priority[g] = p /\ v.block[g].state = "WAITING"
      BY <1>10, <1>11, <1>12, <2>1, <2>2 DEF Placed, QueuedOnce
    <2>3. ASSUME NEW g \in File
          PROVE  /\ v.block[g].transfers <= Transfers[g]
                 /\ v.block[g].state \notin Final => v.block[g].transfers > 0
      BY <1>9, <1>10, <1>12, <1>13 DEF Placed, QueuedOnce
    <2>4. QED BY <1>10, <2>1, <2>2, <2>3 DEF Placed, QueuedOnce
  <1>16. \A g \in File : v.block[g].state \notin Begun
    BY <1>1, <1>9, <1>10, <1>11, <1>12 DEF Placed
  <1>17. /\ Placed(r)
         /\ \A g \in File : /\ r.block[g].callback = v.block[g].callback
                            /\ g # r.executing => r.block[g] = v.block[g]
         /\ r.executing # NoFile =>
               r.executing \in File /\ v.block[r.executing].state = "WAITING"
    BY <1>6, <1>7, <1>15, <1>16, ReadyPlaced
  <1>18. r.low # << >> /\ AtRest(r, Tail(r.low))
    <2>1. /\ ~v.waitOpen /\ ~v.waitClose /\ ~v.coverAlarm /\ ~v.canceling
          /\ ~v.storing /\ ~v.resetAlarm /\ ~v.preparing
      BY <1>3 DEF SameErrands, SameWaits, OnTheWay, Driven
    <2>2. QED BY <1>3, <1>6, <1>7, <1>17, <2>1, ReadyHandled
  <1>19. r \in DriverState
    BY <1>7 DEF ReadyFields
  <1>20. /\ n \in DriverState
         /\ SameReads(r, n) /\ SameCancel(r, n) /\ SameErrands(r, n) /\ SameWaits(r, n)
         /\ SameMotor(r, n) /\ n.halt = r.halt
         /\ n.low = Tail(r.low)
    BY <1>18, <1>19, TailFields DEF n
  <1>21. AtRest(n, n.low)
    BY <1>18, <1>20 DEF AtRest, NobodyServed, OneServed, UserAwaited, SameReads, SameCancel,
                       SameErrands, SameWaits, SameMotor
  <1>22. Placed(n)
    BY <1>17, <1>20 DEF Placed, QueuedOnce, SameReads
  <1>23. NextRead(s.queue, n)
    <2>1. v.queue = s.queue
      BY <1>3 DEF OnTheWay
    <2>2. NextRead(v.queue, r)
      BY <1>7 DEF ReadyFields
    <2>3. QED BY <1>20, <2>1, <2>2 DEF NextRead, SameReads
  <1>24. /\ n.canceling = u.canceling /\ n.breaking = u.breaking
         /\ n.cancelCallback = s.cancelCallback
         /\ n.calls = Callback(u, f) \cup calls
    BY <1>3, <1>7, <1>20 DEF ReadyFields, SameCancel, OnTheWay, f
  <1>25. Callback(u, f) = Callback(s, f)
    BY <1>1 DEF Callback, OnTheWay
  <1>26. r.executing # f
    BY <1>1, <1>9, <1>11, <1>17
  <1>27. n.block[f].state = result
    BY <1>1, <1>9, <1>17, <1>20, <1>26 DEF SameReads
  <1>28. \A g \in File : /\ n.block[g].callback = s.block[g].callback
                         /\ g # f /\ g # n.executing => n.block[g].state = s.block[g].state
    BY <1>12, <1>14, <1>17, <1>20 DEF SameReads
  <1>29. n.calls \subseteq Callback(s, f) \cup CallCancelCallback(s)
    BY <1>24, <1>25
  <1>30. Answered(s, n, result)
    BY <1>1, <1>23, <1>24, <1>25, <1>27, <1>28, <1>29 DEF Answered
  <1>31. QED BY <1>20, <1>21, <1>22, <1>30 DEF Handled, Turn, n, r

LEMMA CanceledHandled ==
    ASSUME Contexts >= 3, NEW s, Driven(s), NEW u, Asked(s, u), s.canceling,
           NEW resume \in Resumes
    PROVE  Handled(s, Canceled(u, resume))
  <1> DEFINE v == [u EXCEPT !.resume = resume, !.canceling = FALSE]
  <1>1. u \in DriverState
    BY DEF Asked, OnTheWay
  <1>2. v \in DriverState
    BY <1>1 DEF DriverState
  <1>3. /\ SameReads(u, v) /\ SameErrands(u, v) /\ SameWaits(u, v) /\ v.motor = u.motor
        /\ v.low = u.low /\ v.halt = u.halt /\ v.calls = u.calls
        /\ v.cancelCallback = u.cancelCallback /\ ~v.canceling
    BY <1>1 DEF DriverState, SameReads, SameErrands, SameWaits
  <1>4. Canceled(u, resume) = Complete(v, "CANCELED", CallCancelCallback(u))
    BY DEF Canceled
  <1> HIDE DEF v
  <1>5. OnTheWay(s, v)
    BY <1>2, <1>3 DEF Asked, OnTheWay, SameReads, SameErrands, SameWaits
  <1>6. CallCancelCallback(u) = CallCancelCallback(s)
    BY DEF CallCancelCallback, Asked, OnTheWay
  <1>7. "CANCELED" \in Final /\ "CANCELED" # "IDLE"
    BY DEF Final
  <1>8. CallCancelCallback(s) \in SUBSET CallCancelCallback(s)
    OBVIOUS
  <1>9. QED BY <1>3, <1>4, <1>5, <1>6, <1>7, <1>8, CompleteHandled

(***************************************************************************)
(* The read goes on with what comes next.                                  *)
(***************************************************************************)
LEMMA OnHandled ==
    ASSUME NEW s, Driven(s), NEW r \in DriverState,
           r.executing = s.executing, r.queue = s.queue, SameCancel(s, r),
           r.low # << >>, r.halt = "no" => AtRest(r, Tail(r.low)),
           \A g \in File :
              /\ r.block[g].callback = s.block[g].callback
              /\ r.block[g].transfers <= Transfers[g]
              /\ g # s.executing => /\ r.block[g].state = s.block[g].state
                                    /\ r.block[g].transfers = s.block[g].transfers,
           r.block[s.executing].state \in Begun, r.block[s.executing].transfers > 0
    PROVE  Handled(s, r)
  <1> DEFINE n == [r EXCEPT !.low = Tail(@)]
  <1>1. /\ n \in DriverState
        /\ SameReads(r, n) /\ SameCancel(r, n) /\ SameErrands(r, n) /\ SameWaits(r, n)
        /\ SameMotor(r, n) /\ n.halt = r.halt
        /\ n.low = Tail(r.low)
    BY TailFields
  <1> HIDE DEF n
  <1>2. n.halt = "no" => AtRest(n, n.low)
    BY <1>1 DEF AtRest, NobodyServed, OneServed, UserAwaited, SameReads, SameCancel,
                SameErrands, SameWaits, SameMotor
  <1>3. /\ s.executing \in File /\ Placed(s) /\ s.calls = {} /\ s.block[s.executing].state \in Begun
        /\ "WAITING" \notin Begun
    BY DEF Driven, Begun, Served, UserWait
  <1>4. Placed(n)
    <2>1. ASSUME NEW p \in Prio, NEW g \in File, g \in ToSet(n.queue[p])
          PROVE  Priority[g] = p /\ n.block[g].state = "WAITING"
      BY <1>1, <1>3, <2>1 DEF Placed, QueuedOnce, SameReads
    <2>2. ASSUME NEW g \in File
          PROVE  /\ n.block[g].transfers <= Transfers[g]
                 /\ n.block[g].state \notin Final => n.block[g].transfers > 0
                 /\ n.block[g].state \in Begun <=> g = n.executing
      BY <1>1, <1>3 DEF Placed, QueuedOnce, SameReads
    <2>3. QED BY <1>1, <1>3, <2>1, <2>2 DEF Placed, QueuedOnce, SameReads
  <1>5. Unanswered(s, n)
    BY <1>1, <1>3 DEF Unanswered, SameReads, SameCancel
  <1>6. QED BY <1>1, <1>2, <1>4, <1>5 DEF Handled, Turn, n

(* The same, of a state on the way from s that one function changes. *)
Onward(u, r, state) ==
    /\ r \in DriverState
    /\ r.executing = u.executing /\ r.queue = u.queue /\ SameCancel(u, r)
    /\ r.block = [u.block EXCEPT ![u.executing].state = state]
    /\ r.low # << >>
    /\ r.halt = "no" => AtRest(r, Tail(r.low))

LEMMA OnwardHandled ==
    ASSUME NEW s, Driven(s), NEW u, GoesOn(s, u), NEW r, NEW state \in Begun, Onward(u, r, state)
    PROVE  Handled(s, r)
  <1>1. /\ u \in DriverState /\ u.executing = s.executing /\ u.queue = s.queue
        /\ SameCancel(s, u) /\ s.executing \in File
    BY DEF GoesOn, Asked, OnTheWay, SameCancel, Driven
  <1>2. u.block \in [File -> Block]
    BY <1>1 DEF DriverState
  <1>3. /\ \A g \in File : /\ r.block[g].callback = u.block[g].callback
                           /\ r.block[g].transfers = u.block[g].transfers
                           /\ g # s.executing => r.block[g].state = u.block[g].state
        /\ r.block[s.executing].state = state
    BY <1>1, <1>2 DEF Onward, Block
  <1>4. /\ r \in DriverState /\ r.executing = s.executing /\ r.queue = s.queue /\ SameCancel(s, r)
        /\ r.low # << >> /\ (r.halt = "no" => AtRest(r, Tail(r.low)))
    BY <1>1 DEF Onward, SameCancel
  <1>5. \A g \in File :
           /\ u.block[g].callback = s.block[g].callback
           /\ u.block[g].state = s.block[g].state
           /\ u.block[g].transfers <= Transfers[g]
           /\ g # s.executing => u.block[g].transfers = s.block[g].transfers
    BY DEF GoesOn, Asked, OnTheWay
  <1>6. u.block[s.executing].transfers > 0
    BY DEF GoesOn
  <1>7. QED BY <1>1, <1>3, <1>4, <1>5, <1>6, OnHandled

LEMMA SameState ==
    ASSUME NEW u \in DriverState, u.executing \in File
    PROVE  u.block = [u.block EXCEPT ![u.executing].state = u.block[u.executing].state]
  <1>1. u.block \in [File -> Block]
    BY DEF DriverState
  <1> DEFINE b == u.block
             f == u.executing
  <1>2. b[f] \in Block
    BY <1>1
  <1> HIDE DEF b, f
  <1>3. [b[f] EXCEPT !.state = b[f].state] = b[f]
    BY <1>2 DEF Block
  <1>4. b = [b EXCEPT ![f] = b[f]]
    BY <1>1 DEF b
  <1>5. QED BY <1>3, <1>4 DEF b, f

(* What a state on the way from a driven one looks like. *)
LEMMA WayShape ==
    ASSUME NEW s, Driven(s), NEW u, GoesOn(s, u)
    PROVE  /\ u \in DriverState /\ u.executing \in File /\ u.executing # NoFile
           /\ u.block[u.executing].state \in Served
           /\ ~u.waitOpen /\ ~u.waitClose /\ ~u.coverAlarm /\ u.motor = "WORKING"
           /\ ~u.storing /\ ~u.resetAlarm /\ ~u.preparing
           /\ u.halt = "no" /\ \E c \in Drives : u.low = <<c>>
  <1>1. u \in DriverState /\ s.executing \in File /\ NoFile \notin File
    BY DvdAssumption DEF GoesOn, Asked, OnTheWay, Driven
  <1>2. QED BY <1>1 DEF GoesOn, Asked, OnTheWay, Driven, SameErrands, SameWaits

(* A command is issued, or two. *)
LEMMA IssueHandled ==
    ASSUME NEW s, Driven(s), NEW u, GoesOn(s, u),
           NEW r \in DriverState, SameReads(u, r), SameCancel(u, r), SameErrands(u, r),
           SameWaits(u, r), SameMotor(u, r), r.halt = u.halt, NEW d \in Drives,
           r.low = Append(u.low, d) \/ r.low = Append(Append(u.low, "clear"), d)
    PROVE  Handled(s, r)
  <1>1. PICK c \in Drives : u.low = <<c>>
    BY WayShape
  <1>2. r.low # << >> /\ (Tail(r.low) = <<d>> \/ Tail(r.low) = <<"clear", d>>)
    <2>1. CASE r.low = Append(u.low, d)
      BY <1>1, <2>1, Issued
    <2>2. CASE r.low = Append(Append(u.low, "clear"), d)
      BY <1>1, <2>2, IssuedBoth
    <2>3. QED BY <2>1, <2>2
  <1>3. OneServed(r, Tail(r.low))
    BY <1>2, WayShape DEF OneServed, SameReads, SameErrands, SameWaits, SameMotor
  <1>4. AtRest(r, Tail(r.low))
    BY <1>3, WayShape DEF AtRest, SameWaits
  <1>5. u.block[u.executing].state \in Begun
    BY WayShape DEF Begun
  <1>6. Onward(u, r, u.block[u.executing].state)
    BY <1>2, <1>4, WayShape, SameState DEF Onward, SameReads
  <1>7. QED BY <1>5, <1>6, OnwardHandled

LEMMA CommandHandled ==
    ASSUME Contexts >= 3, NEW s, Driven(s), NEW u, GoesOn(s, u), NEW d \in Drives
    PROVE  Handled(s, LowCommand(u, d)) /\ Handled(s, ClearThen(u, d)) /\ Handled(s, StateBusy(u))
  <1>1. PICK c \in Drives : u.low = <<c>>
    BY WayShape
  <1>2. Len(u.low) < Contexts /\ Len(u.low) + 1 < Contexts /\ Contexts \in Nat
    BY <1>1, LowSingle, LowPair, LowTriple, DvdAssumption
  <1>3. u \in DriverState /\ "busy" \in Drives
    BY WayShape DEF Drives
  <1>4. Handled(s, LowCommand(u, d))
    <2> DEFINE r == LowCommand(u, d)
    <2>1. /\ r \in DriverState
          /\ SameReads(u, r) /\ SameCancel(u, r) /\ SameErrands(u, r) /\ SameWaits(u, r)
          /\ SameMotor(u, r) /\ r.halt = u.halt /\ r.low = Append(u.low, d)
      BY <1>2, <1>3, LowCommandFields
    <2> HIDE DEF r
    <2>2. Handled(s, r)
      BY <2>1, IssueHandled
    <2>3. QED BY <2>2 DEF r
  <1>5. Handled(s, ClearThen(u, d))
    <2> DEFINE r == ClearThen(u, d)
    <2>1. /\ r \in DriverState
          /\ SameReads(u, r) /\ SameCancel(u, r) /\ SameErrands(u, r) /\ SameWaits(u, r)
          /\ SameMotor(u, r) /\ r.halt = u.halt /\ r.low = Append(Append(u.low, "clear"), d)
      BY <1>2, <1>3, ClearThenFields
    <2> HIDE DEF r
    <2>2. Handled(s, r)
      BY <2>1, IssueHandled
    <2>3. QED BY <2>2 DEF r
  <1>6. Handled(s, StateBusy(u))
    <2> DEFINE r == StateBusy(u)
    <2>1. /\ r \in DriverState
          /\ SameReads(u, r) /\ SameCancel(u, r) /\ SameErrands(u, r) /\ SameWaits(u, r)
          /\ SameMotor(u, r) /\ r.halt = u.halt /\ r.low = Append(Append(u.low, "clear"), "busy")
      BY <1>2, <1>3, BusyFields
    <2> HIDE DEF r
    <2>2. Handled(s, r)
      BY <1>3, <2>1, IssueHandled
    <2>3. QED BY <2>2 DEF r
  <1>7. QED BY <1>4, <1>5, <1>6

LEMMA StateHandled ==
    ASSUME Contexts >= 3, NEW s, Driven(s), NEW u, GoesOn(s, u)
    PROVE  /\ Handled(s, StateBusy(SetState(u, "BUSY")))
           /\ Handled(s, StateCoverClosed(SetState(u, "COVER_CLOSED")))
           /\ \A state \in UserWait :
                 ~u.canceling => Handled(s, StateMotorStopped(SetState(u, state)))
  <1>1. PICK c \in Drives : u.low = <<c>>
    BY WayShape
  <1>2. Len(u.low) < Contexts /\ Len(u.low) + 1 < Contexts /\ Contexts \in Nat
    BY <1>1, LowSingle, LowPair, LowTriple, DvdAssumption
  <1>3. /\ u \in DriverState /\ u.executing \in File /\ u.executing # NoFile
        /\ u.block \in [File -> Block]
    BY WayShape DEF DriverState
  <1>4. /\ "reset" \in Drives /\ "busy" \in Drives /\ "BUSY" \in Served /\ "COVER_CLOSED" \in Served
        /\ Served \subseteq Begun /\ UserWait \subseteq Begun
    BY DEF Drives, Served, Begun
  <1>5. ASSUME NEW state \in Begun
        PROVE  LET a == SetState(u, state) IN
               /\ a \in DriverState
               /\ SameCancel(u, a) /\ SameErrands(u, a) /\ SameWaits(u, a)
               /\ SameMotor(u, a) /\ a.halt = u.halt /\ a.low = u.low
               /\ a.executing = u.executing /\ a.queue = u.queue
               /\ a.block = [u.block EXCEPT ![u.executing].state = state]
               /\ a.block[u.executing].state = state
    <2>1. u.block[u.executing] \in Block
      BY <1>3
    <2>2. [u.block EXCEPT ![u.executing].state = state][u.executing].state = state
      BY <1>3, <2>1 DEF Block
    <2>3. QED BY <1>3, <2>2, SetStateFields
  <1>6. Handled(s, StateBusy(SetState(u, "BUSY")))
    <2> DEFINE a == SetState(u, "BUSY")
               r == StateBusy(a)
    <2>1. /\ a \in DriverState
          /\ SameCancel(u, a) /\ SameErrands(u, a) /\ SameWaits(u, a)
          /\ SameMotor(u, a) /\ a.halt = u.halt /\ a.low = u.low
          /\ a.executing = u.executing /\ a.queue = u.queue
          /\ a.block = [u.block EXCEPT ![u.executing].state = "BUSY"]
          /\ a.block[u.executing].state = "BUSY"
      BY <1>4, <1>5
    <2> HIDE DEF a
    <2>2. /\ r \in DriverState
          /\ SameReads(a, r) /\ SameCancel(a, r) /\ SameErrands(a, r) /\ SameWaits(a, r)
          /\ SameMotor(a, r) /\ r.halt = a.halt
          /\ r.low = Append(Append(a.low, "clear"), "busy")
      BY <1>2, <2>1, BusyFields
    <2> HIDE DEF r
    <2>4. r.low # << >> /\ Tail(r.low) = <<"clear", "busy">>
      <3>1. r.low = Append(Append(u.low, "clear"), "busy")
        BY <2>1, <2>2
      <3>2. QED BY <1>1, <3>1, IssuedBoth
    <2>5. AtRest(r, Tail(r.low))
      BY <1>3, <1>4, <2>1, <2>2, <2>4, WayShape
         DEF AtRest, OneServed, SameReads, SameErrands, SameWaits, SameMotor
    <2>6. Onward(u, r, "BUSY")
      BY <2>1, <2>2, <2>4, <2>5 DEF Onward, SameReads, SameCancel
    <2>7. Handled(s, r)
      BY <1>4, <2>6, OnwardHandled
    <2>8. QED BY <2>7 DEF r, a
  <1>7. Handled(s, StateCoverClosed(SetState(u, "COVER_CLOSED")))
    <2> DEFINE a == SetState(u, "COVER_CLOSED")
               r == StateCoverClosed(a)
    <2>1. /\ a \in DriverState
          /\ SameCancel(u, a) /\ SameErrands(u, a) /\ SameWaits(u, a)
          /\ SameMotor(u, a) /\ a.halt = u.halt /\ a.low = u.low
          /\ a.executing = u.executing /\ a.queue = u.queue
          /\ a.block = [u.block EXCEPT ![u.executing].state = "COVER_CLOSED"]
          /\ a.block[u.executing].state = "COVER_CLOSED"
      BY <1>4, <1>5
    <2> HIDE DEF a
    <2>2. /\ r \in DriverState
          /\ SameReads(a, r) /\ SameCancel(a, r) /\ SameErrands(a, r) /\ SameWaits(a, r)
          /\ r.halt = a.halt /\ r.resume = a.resume
          /\ r.low = Append(a.low, "reset")
          /\ r.motor = "WORKING"
      BY <1>2, <2>1, CoverClosedFields
    <2> HIDE DEF r
    <2>4. r.low # << >> /\ Tail(r.low) = <<"reset">>
      <3>1. r.low = Append(u.low, "reset")
        BY <2>1, <2>2
      <3>2. QED BY <1>1, <3>1, Issued
    <2>5. AtRest(r, Tail(r.low))
      BY <1>3, <1>4, <2>1, <2>2, <2>4, WayShape
         DEF AtRest, OneServed, SameReads, SameErrands, SameWaits
    <2>6. Onward(u, r, "COVER_CLOSED")
      BY <2>1, <2>2, <2>4, <2>5 DEF Onward, SameReads, SameCancel
    <2>7. Handled(s, r)
      BY <1>4, <2>6, OnwardHandled
    <2>8. QED BY <2>7 DEF r, a
  <1>8. ASSUME NEW state \in UserWait, ~u.canceling
        PROVE  Handled(s, StateMotorStopped(SetState(u, state)))
    <2> DEFINE a == SetState(u, state)
               r == StateMotorStopped(a)
    <2>0. state \in Begun
      BY <1>4
    <2>1. /\ a \in DriverState
          /\ SameCancel(u, a) /\ SameErrands(u, a) /\ SameWaits(u, a)
          /\ SameMotor(u, a) /\ a.halt = u.halt /\ a.low = u.low
          /\ a.executing = u.executing /\ a.queue = u.queue
          /\ a.block = [u.block EXCEPT ![u.executing].state = state]
          /\ a.block[u.executing].state = state
      BY <1>5, <2>0
    <2> HIDE DEF a
    <2>2. /\ r \in DriverState
          /\ SameReads(a, r) /\ SameCancel(a, r) /\ SameErrands(a, r)
          /\ r.halt = a.halt /\ r.low = a.low /\ r.resume = a.resume
          /\ r.waitClose = a.waitClose
          /\ r.waitOpen = (a.waitOpen \/ ~a.waitClose)
          /\ r.coverAlarm = (a.coverAlarm \/ ~(a.waitOpen \/ a.waitClose))
      BY <2>1, MotorStoppedFields
    <2> HIDE DEF r
    <2>3. r.low = <<c>>
      BY <1>1, <2>1, <2>2
    <2>4. r.low # << >> /\ Tail(r.low) = << >>
      BY <2>3, LowSingle, LowPair, LowTriple
    <2>5. r.waitOpen /\ r.coverAlarm /\ ~r.waitClose
      BY <2>1, <2>2, WayShape DEF SameWaits
    <2>6. UserAwaited(r, Tail(r.low))
      BY <1>3, <1>8, <2>1, <2>2, <2>4, <2>5, WayShape
         DEF UserAwaited, SameReads, SameErrands, SameCancel
    <2>7. AtRest(r, Tail(r.low))
      BY <2>5, <2>6 DEF AtRest
    <2>8. Onward(u, r, state)
      BY <2>1, <2>2, <2>4, <2>7 DEF Onward, SameReads, SameCancel
    <2>9. Handled(s, r)
      BY <2>0, <2>8, OnwardHandled
    <2>10. QED BY <2>9 DEF r, a
  <1>9. QED BY <1>6, <1>7, <1>8

(* The driver ends, stores an error, or waits for the drive to have reset. *)
LEMMA PauseHandled ==
    ASSUME NEW s, Driven(s), NEW u, GoesOn(s, u)
    PROVE  /\ Handled(s, Fatal(u))
           /\ Handled(s, [u EXCEPT !.storing = TRUE])
           /\ Handled(s, [u EXCEPT !.resume = "NONE", !.resetAlarm = TRUE])
  <1>1. PICK c \in Drives : u.low = <<c>>
    BY WayShape
  <1>2. u.low # << >> /\ Tail(u.low) = << >>
    BY <1>1, LowSingle, LowPair, LowTriple
  <1>3. /\ u \in DriverState /\ u.executing \in File /\ u.executing # NoFile
        /\ u.block[u.executing].state \in Begun
    BY WayShape DEF Begun
  <1>4. Handled(s, Fatal(u))
    <2> DEFINE r == [u EXCEPT !.halt = "fatal"]
    <2>1. r \in DriverState
      BY <1>3 DEF DriverState
    <2>2. SameReads(u, r) /\ SameCancel(u, r) /\ r.halt = "fatal" /\ r.low = u.low
      BY <1>3 DEF DriverState, SameReads, SameCancel
    <2>3. Fatal(u) = r
      BY DEF Fatal, Halt
    <2> HIDE DEF r
    <2>4. Onward(u, r, u.block[u.executing].state)
      BY <1>2, <1>3, <2>1, <2>2, SameState DEF Onward, SameReads
    <2>5. QED BY <1>3, <2>3, <2>4, OnwardHandled
  <1>5. Handled(s, [u EXCEPT !.storing = TRUE])
    <2> DEFINE r == [u EXCEPT !.storing = TRUE]
    <2>1. r \in DriverState
      BY <1>3 DEF DriverState
    <2>2. /\ SameReads(u, r) /\ SameCancel(u, r) /\ SameWaits(u, r) /\ SameMotor(u, r)
          /\ r.storing /\ r.resetAlarm = u.resetAlarm /\ r.preparing = u.preparing
          /\ r.low = u.low
      BY <1>3 DEF DriverState, SameReads, SameCancel, SameWaits, SameMotor
    <2> HIDE DEF r
    <2>3. AtRest(r, Tail(r.low))
      BY <1>2, <1>3, <2>2, WayShape DEF AtRest, OneServed, SameReads, SameWaits, SameMotor
    <2>4. Onward(u, r, u.block[u.executing].state)
      BY <1>2, <1>3, <2>1, <2>2, <2>3, SameState DEF Onward, SameReads
    <2>5. Handled(s, r)
      BY <1>3, <2>4, OnwardHandled
    <2>6. QED BY <2>5 DEF r
  <1>6. Handled(s, [u EXCEPT !.resume = "NONE", !.resetAlarm = TRUE])
    <2> DEFINE r == [u EXCEPT !.resume = "NONE", !.resetAlarm = TRUE]
    <2>1. r \in DriverState
      BY <1>3 DEF DriverState, Resumes
    <2>2. /\ SameReads(u, r) /\ SameCancel(u, r) /\ SameWaits(u, r) /\ r.motor = u.motor
          /\ r.resetAlarm /\ r.storing = u.storing /\ r.preparing = u.preparing
          /\ r.low = u.low
      BY <1>3 DEF DriverState, SameReads, SameCancel, SameWaits
    <2> HIDE DEF r
    <2>3. AtRest(r, Tail(r.low))
      BY <1>2, <1>3, <2>2, WayShape DEF AtRest, OneServed, SameReads, SameWaits
    <2>4. Onward(u, r, u.block[u.executing].state)
      BY <1>2, <1>3, <2>1, <2>2, <2>3, SameState DEF Onward, SameReads
    <2>5. Handled(s, r)
      BY <1>3, <2>4, OnwardHandled
    <2>6. QED BY <2>5 DEF r
  <1>7. QED BY <1>4, <1>5, <1>6

(***************************************************************************)
(* What the callbacks do of the driven read.                               *)
(***************************************************************************)
Senses == Fault \cup {"COVER_OPENED", "NO_DISK", "DISK_CHANGED", "BAD_DISC"}

LEMMA DrivenGoesOn ==
    ASSUME NEW s, Driven(s)
    PROVE  GoesOn(s, s)
  <1>1. /\ s \in DriverState /\ Placed(s) /\ s.executing \in File
        /\ s.block[s.executing].state \in Served
    BY DEF Driven
  <1>2. \A x \in Served : x \notin Final
    BY DEF Served, Final
  <1>3. QED BY <1>1, <1>2
            DEF GoesOn, Asked, OnTheWay, SameErrands, SameWaits, Placed, QueuedOnce

(* What the driver remembers of errors and of its last state. *)
Alike(u, r) ==
    /\ r \in DriverState
    /\ SameReads(u, r) /\ SameCancel(u, r) /\ SameErrands(u, r) /\ SameWaits(u, r)
    /\ SameMotor(u, r) /\ r.halt = u.halt /\ r.low = u.low

LEMMA AlikeAsked ==
    ASSUME NEW s, NEW u, Asked(s, u), NEW r, Alike(u, r)
    PROVE  Asked(s, r) /\ r.block = u.block
  BY DEF Alike, Asked, OnTheWay, SameReads, SameCancel, SameErrands, SameWaits, SameMotor

LEMMA NoRetriesGoesOn ==
    ASSUME NEW s, NEW u, Asked(s, u)
    PROVE  /\ Asked(s, NoRetries(u)) /\ NoRetries(u).block = u.block
           /\ GoesOn(s, u) => GoesOn(s, NoRetries(u))
  <1> DEFINE r == [u EXCEPT !.retries = 0, !.lastError = "none"]
  <1>1. u \in DriverState /\ NoRetries(u) = r
    BY DEF Asked, OnTheWay, NoRetries
  <1>2. r \in DriverState
    BY <1>1 DEF DriverState
  <1>3. Alike(u, r)
    BY <1>1, <1>2
       DEF Alike, DriverState, SameReads, SameCancel, SameErrands, SameWaits, SameMotor
  <1> HIDE DEF r
  <1>4. Asked(s, NoRetries(u)) /\ NoRetries(u).block = u.block
    BY <1>1, <1>3, AlikeAsked
  <1>5. QED BY <1>4 DEF GoesOn

LEMMA BusyHandled ==
    ASSUME Contexts >= 3, NEW s, Driven(s), NEW t
    PROVE  Handled(s, CbBusy(s, t))
  <1> DEFINE f == s.executing
             d == [s EXCEPT !.block[f].transfers = @ - 1]
             u == IF t = "TC" THEN d ELSE s
  <1>1. /\ s \in DriverState /\ Placed(s) /\ f \in File
        /\ s.block[f].state \notin Final
    BY DEF Driven, Served, Final
  <1>2. GoesOn(s, s)
    BY DrivenGoesOn
  <1>3. Asked(s, u) /\ (t # "TC" => u = s)
    <2>1. CASE t = "TC"
      <3> DEFINE b == [s.block EXCEPT ![f].transfers = @ - 1]
      <3>1. s.block \in [File -> Block] /\ s.block[f] \in Block /\ Transfers[f] \in Nat
        BY <1>1, DvdAssumption DEF DriverState
      <3>2. s.block[f].transfers > 0 /\ s.block[f].transfers <= Transfers[f]
            /\ s.block[f].transfers \in Nat
        BY <1>1, <3>1 DEF Placed, QueuedOnce, Block
      <3>3. [s.block[f] EXCEPT !.transfers = @ - 1] \in Block
        BY <3>1, <3>2 DEF Block
      <3>4. b \in [File -> Block]
        BY <3>1, <3>3
      <3>5. /\ b[f].callback = s.block[f].callback /\ b[f].state = s.block[f].state
            /\ b[f].transfers <= Transfers[f]
            /\ \A g \in File : g # f => b[g] = s.block[g]
        BY <1>1, <3>1, <3>2 DEF Block
      <3>6. d = [s EXCEPT !.block = b]
        BY <1>1 DEF DriverState
      <3> HIDE DEF b
      <3> DEFINE r == [s EXCEPT !.block = b]
      <3>7. r \in DriverState
        BY <1>1, <3>4 DEF DriverState
      <3>8. /\ r.executing = s.executing /\ r.queue = s.queue
            /\ SameErrands(s, r) /\ SameWaits(s, r) /\ SameMotor(s, r) /\ SameCancel(s, r)
            /\ r.low = s.low /\ r.halt = s.halt /\ r.block = b
        BY <1>1 DEF DriverState, SameErrands, SameWaits, SameMotor, SameCancel
      <3> HIDE DEF r
      <3>9. \A g \in File : s.block[g].transfers <= Transfers[g]
        BY <1>1 DEF Placed, QueuedOnce
      <3>10. Asked(s, r)
        BY <3>5, <3>7, <3>8, <3>9 DEF Asked, OnTheWay, SameCancel, SameMotor
      <3>11. d = r
        BY <3>6 DEF r
      <3>12. QED BY <2>1, <3>10, <3>11
    <2>2. CASE t # "TC"
      BY <1>2, <2>2 DEF GoesOn
    <2>3. QED BY <2>1, <2>2
  <1> DEFINE v == NoRetries(u)
             w == [u EXCEPT !.breaking = FALSE, !.canceling = FALSE]
  <1>4. CbBusy(s, t) =
           CASE u.breaking -> Complete(w, "CANCELED", CallCancelCallback(u))
             [] ~u.breaking /\ t = "TC" ->
                  IF u.canceling THEN Canceled(v, "NONE")
                  ELSE IF u.block[f].transfers > 0 THEN StateBusy(v)
                  ELSE Complete(v, "IDLE", {})
             [] OTHER -> LowCommand(u, "gettingError")
    BY DEF CbBusy
  <1> HIDE DEF u
  <1>5. /\ u \in DriverState /\ u.canceling = s.canceling /\ u.breaking = s.breaking
        /\ CallCancelCallback(u) = CallCancelCallback(s)
        /\ u.canceling \in BOOLEAN /\ u.breaking \in BOOLEAN
    BY <1>3 DEF Asked, OnTheWay, CallCancelCallback, DriverState
  <1>6. /\ "CANCELED" \in Final /\ "IDLE" \in Final /\ "NONE" \in Resumes
        /\ "gettingError" \in Drives
    BY DEF Final, Resumes, Drives
  <1>7. CASE u.breaking
    <2>1. w \in DriverState
      BY <1>5 DEF DriverState
    <2>2. /\ SameReads(u, w) /\ SameErrands(u, w) /\ SameWaits(u, w) /\ w.motor = u.motor
          /\ w.low = u.low /\ w.halt = u.halt /\ w.calls = u.calls
          /\ w.cancelCallback = u.cancelCallback /\ ~w.canceling /\ ~w.breaking
      BY <1>5 DEF DriverState, SameReads, SameErrands, SameWaits
    <2>3. CbBusy(s, t) = Complete(w, "CANCELED", CallCancelCallback(s))
      BY <1>4, <1>5, <1>7
    <2> HIDE DEF w
    <2>4. OnTheWay(s, w)
      BY <1>3, <2>1, <2>2 DEF Asked, OnTheWay, SameReads, SameErrands, SameWaits
    <2>5. CallCancelCallback(s) \in SUBSET CallCancelCallback(s)
      OBVIOUS
    <2>6. QED BY <1>5, <1>6, <1>7, <2>2, <2>3, <2>4, <2>5, CompleteHandled
  <1>8. CASE ~u.breaking /\ t = "TC"
    <2>1. /\ Asked(s, v) /\ v.block = u.block
      BY <1>3, NoRetriesGoesOn
    <2>2. CbBusy(s, t) = IF u.canceling THEN Canceled(v, "NONE")
                         ELSE IF u.block[f].transfers > 0 THEN StateBusy(v)
                         ELSE Complete(v, "IDLE", {})
      BY <1>4, <1>8
    <2> HIDE DEF v
    <2>3. CASE u.canceling
      BY <1>5, <1>6, <2>1, <2>2, <2>3, CanceledHandled
    <2>4. CASE ~u.canceling /\ u.block[f].transfers > 0
      <3>1. GoesOn(s, v)
        BY <2>1, <2>4 DEF GoesOn
      <3>2. QED BY <1>6, <2>2, <2>4, <3>1, CommandHandled
    <2>5. CASE ~u.canceling /\ ~(u.block[f].transfers > 0)
      <3>1. /\ OnTheWay(s, v) /\ ~v.canceling /\ ~v.breaking /\ ~s.canceling /\ ~s.breaking
        BY <1>5, <1>8, <2>1, <2>5 DEF Asked
      <3>2. {} \in SUBSET CallCancelCallback(s)
        OBVIOUS
      <3>3. CbBusy(s, t) = Complete(v, "IDLE", {})
        BY <2>2, <2>5
      <3>4. QED BY <1>6, <3>1, <3>2, <3>3, CompleteHandled
    <2>6. QED BY <2>3, <2>4, <2>5
  <1>9. CASE ~u.breaking /\ t # "TC"
    <2>1. u = s /\ CbBusy(s, t) = LowCommand(s, "gettingError")
      BY <1>3, <1>4, <1>9
    <2>2. QED BY <1>2, <1>6, <2>1, CommandHandled
  <1>10. QED BY <1>7, <1>8, <1>9

LEMMA RetryHandled ==
    ASSUME Contexts >= 3, NEW s, Driven(s), NEW u, GoesOn(s, u)
    PROVE  Handled(s, RetryCommand(u)) /\ Handled(s, StateReadDiskID(u))
  <1>1. "downRotation" \in Drives /\ "readDiskID" \in Drives
    BY DEF Drives, SpinUp
  <1>2. Handled(s, StateBusy(u)) /\ Handled(s, StateDownRotation(u))
    BY <1>1, CommandHandled DEF StateDownRotation
  <1>3. Handled(s, StateReadDiskID(u))
    <2> DEFINE n == [u EXCEPT !.lastState = "readDiskID"]
    <2>1. Asked(s, u) /\ u \in DriverState
      BY DEF GoesOn, Asked, OnTheWay
    <2>2. Asked(s, n) /\ n.block = u.block
      <3>1. n \in DriverState
        BY <2>1 DEF DriverState
      <3>2. Alike(u, n)
        BY <2>1, <3>1
           DEF Alike, DriverState, SameReads, SameCancel, SameErrands, SameWaits, SameMotor
      <3> HIDE DEF n
      <3>3. QED BY <2>1, <3>2, AlikeAsked
    <2>3. StateReadDiskID(u) = ClearThen(n, "readDiskID")
      BY DEF StateReadDiskID
    <2> HIDE DEF n
    <2>4. GoesOn(s, n)
      BY <2>2 DEF GoesOn
    <2>5. QED BY <1>1, <2>3, <2>4, CommandHandled
  <1>4. QED BY <1>2, <1>3 DEF RetryCommand

LEMMA UserHandled ==
    ASSUME Contexts >= 3, NEW s, Driven(s), NEW u, GoesOn(s, u), NEW state \in UserWait
    PROVE  Handled(s, WaitForUser(u, state))
  <1>1. state \in Resumes /\ Asked(s, u) /\ u.canceling = s.canceling /\ u.canceling \in BOOLEAN
    BY DEF UserWait, Resumes, GoesOn, Asked, OnTheWay, DriverState
  <1>2. CASE u.canceling
    BY <1>1, <1>2, CanceledHandled DEF WaitForUser
  <1>3. CASE ~u.canceling
    BY <1>3, StateHandled DEF WaitForUser
  <1>4. QED BY <1>2, <1>3

LEMMA ErrorHandled ==
    ASSUME Contexts >= 3, NEW s, Driven(s), NEW error \in Fault
    PROVE  Handled(s, DriveError(s, error))
  <1> DEFINE u == [s EXCEPT !.retries = @ + 1, !.lastError = error]
             n == s.retries + 1
  <1>1. GoesOn(s, s) /\ s \in DriverState /\ Asked(s, s)
    BY DrivenGoesOn DEF GoesOn, Driven
  <1>2. n \in Nat
    BY <1>1 DEF DriverState
  <1>3. u = [s EXCEPT !.retries = n, !.lastError = error]
    BY <1>1 DEF DriverState
  <1>4. Asked(s, u) /\ u.block = s.block
    <2> HIDE DEF n
    <2>1. u \in DriverState
      BY <1>1, <1>2, <1>3 DEF DriverState
    <2>2. Alike(s, u)
      BY <1>1, <2>1
         DEF Alike, DriverState, SameReads, SameCancel, SameErrands, SameWaits, SameMotor
    <2> HIDE DEF u
    <2>3. QED BY <1>1, <2>2, AlikeAsked
  <1> HIDE DEF n
  <1>5. DriveError(s, error) =
          IF u.retries = 2 /\ error = s.lastError THEN Fatal(u)
          ELSE IF s.canceling THEN Canceled(u, "NONE")
          ELSE IF u.retries = 2 \/ error = "READ_FAIL" THEN [u EXCEPT !.storing = TRUE]
          ELSE RetryCommand(u)
    BY DEF DriveError
  <1> HIDE DEF u
  <1>6. GoesOn(s, u)
    BY <1>1, <1>4 DEF GoesOn
  <1>7. Handled(s, Fatal(u)) /\ Handled(s, [u EXCEPT !.storing = TRUE])
    BY <1>6, PauseHandled
  <1>8. Handled(s, RetryCommand(u))
    BY <1>6, RetryHandled
  <1>9. s.canceling => Handled(s, Canceled(u, "NONE"))
    BY <1>4, CanceledHandled DEF Resumes
  <1>10. QED BY <1>5, <1>7, <1>8, <1>9

LEMMA SenseHandled ==
    ASSUME Contexts >= 3, NEW s, Driven(s), NEW sense \in Senses
    PROVE  Handled(s, CbGettingError(s, sense))
  <1>1. GoesOn(s, s) /\ Asked(s, s)
    BY DrivenGoesOn DEF GoesOn
  <1>2. CASE sense \in Fault
    <2>1. CbGettingError(s, sense) = DriveError(s, sense)
      BY <1>2 DEF CbGettingError, Fault
    <2>2. QED BY <1>2, <2>1, ErrorHandled
  <1>3. CASE sense \in {"COVER_OPENED", "NO_DISK"}
    <2>1. CbGettingError(s, sense) = WaitForUser(s, sense) /\ sense \in UserWait
      BY <1>3 DEF CbGettingError, UserWait
    <2>2. QED BY <1>1, <2>1, UserHandled
  <1>4. CASE sense = "DISK_CHANGED"
    <2>1. CbGettingError(s, sense) =
             IF s.canceling THEN Canceled(s, "DISK_CHANGED")
             ELSE StateCoverClosed(SetState(s, "COVER_CLOSED"))
      BY <1>4 DEF CbGettingError
    <2>2. s.canceling => Handled(s, Canceled(s, "DISK_CHANGED"))
      BY <1>1, CanceledHandled DEF Resumes
    <2>3. QED BY <1>1, <2>1, <2>2, StateHandled
  <1>5. CASE sense = "BAD_DISC"
    <2>1. CbGettingError(s, sense) =
             IF s.canceling THEN Canceled(s, "WRONG_DISK_ID") ELSE LowCommand(s, "checkID1")
      BY <1>5 DEF CbGettingError
    <2>2. s.canceling => Handled(s, Canceled(s, "WRONG_DISK_ID"))
      BY <1>1, CanceledHandled DEF Resumes
    <2>3. "checkID1" \in Drives
      BY DEF Drives
    <2>4. Handled(s, LowCommand(s, "checkID1"))
      BY <1>1, <2>3, CommandHandled
    <2>5. QED BY <2>1, <2>2, <2>4
  <1>6. QED BY <1>2, <1>3, <1>4, <1>5 DEF Senses

LEMMA SpinUpHandled ==
    ASSUME Contexts >= 3, NEW s, Driven(s), NEW command \in SpinUp, NEW disc
    PROVE  Handled(s, CbSpinUp(s, command, disc))
  <1> DEFINE v == NoRetries(s)
  <1>1. GoesOn(s, s) /\ GoesOn(s, v) /\ Asked(s, v)
    BY DrivenGoesOn, NoRetriesGoesOn DEF GoesOn
  <1>2. /\ "readingTOC" \in Drives /\ "checkID1" \in Drives /\ "partitionInfo" \in Drives
        /\ "openPartition2" \in Drives
    BY DEF Drives, SpinUp
  <1>3. CASE command = "downRotation"
    <2>1. CbSpinUp(s, command, disc) = StateReadDiskID(s)
      BY <1>3 DEF CbSpinUp
    <2>2. QED BY <1>1, <2>1, RetryHandled
  <1>4. CASE command = "readDiskID"
    <2>1. CbSpinUp(s, command, disc) =
             IF disc = "right" THEN ClearThen(v, "readingTOC") ELSE LowCommand(v, "checkID1")
      BY <1>4 DEF CbSpinUp
    <2> HIDE DEF v
    <2>2. Handled(s, ClearThen(v, "readingTOC")) /\ Handled(s, LowCommand(v, "checkID1"))
      BY <1>1, <1>2, CommandHandled
    <2>3. QED BY <2>1, <2>2
  <1>5. CASE command = "readingTOC"
    <2>1. CbSpinUp(s, command, disc) = ClearThen(v, "partitionInfo")
      BY <1>5 DEF CbSpinUp
    <2> HIDE DEF v
    <2>2. QED BY <1>1, <1>2, <2>1, CommandHandled
  <1>6. CASE command = "partitionInfo"
    <2>1. CbSpinUp(s, command, disc) = ClearThen(v, "openPartition2")
      BY <1>6 DEF CbSpinUp
    <2> HIDE DEF v
    <2>2. QED BY <1>1, <1>2, <2>1, CommandHandled
  <1>7. CASE command = "openPartition2"
    <2>1. CbSpinUp(s, command, disc) =
             IF v.canceling THEN Canceled(v, "NONE") ELSE StateBusy(SetState(v, "BUSY"))
      BY <1>7 DEF CbSpinUp
    <2> HIDE DEF v
    <2>2. v.canceling = s.canceling /\ "NONE" \in Resumes
      BY <1>1 DEF Asked, Resumes
    <2>3. s.canceling => Handled(s, Canceled(v, "NONE"))
      BY <1>1, <2>2, CanceledHandled
    <2>4. Handled(s, StateBusy(SetState(v, "BUSY")))
      BY <1>1, StateHandled
    <2>5. QED BY <2>1, <2>2, <2>3, <2>4
  <1>8. QED BY <1>3, <1>4, <1>5, <1>6, <1>7 DEF SpinUp

LEMMA DrivenHandled ==
    ASSUME Contexts >= 3, NEW s, Driven(s), NEW command \in Drives, NEW t,
           command = "gettingError" => t \in Senses \cup {"TIME"}
    PROVE  Handled(s, Handle(s, command, t))
  <1>1. GoesOn(s, s) /\ s.resetAlarm = FALSE /\ "gettingError" \in Drives
    BY DrivenGoesOn DEF Driven, Drives, DriverState
  <1>2. CASE t = "TIME"
    <2>1. Handle(s, command, t) = Fatal(s)
      BY <1>2 DEF Handle, Drives, SpinUp
    <2>2. Handled(s, Fatal(s))
      BY <1>1, PauseHandled
    <2>3. QED BY <2>1, <2>2
  <1>3. CASE t # "TIME" /\ command = "busy"
    <2>1. Handle(s, command, t) = CbBusy(s, t)
      BY <1>3 DEF Handle, SpinUp
    <2>2. QED BY <2>1, BusyHandled
  <1>4. CASE t # "TIME" /\ command = "gettingError"
    <2>1. Handle(s, command, t) = CbGettingError(s, t)
      BY <1>4 DEF Handle, SpinUp
    <2>2. t \in Senses
      BY <1>4
    <2>3. QED BY <2>1, <2>2, SenseHandled
  <1>5. CASE t # "TIME" /\ command \in {"goToRetry", "checkID1"}
    <2>1. PICK state \in UserWait : Handle(s, command, t) = WaitForUser(NoRetries(s), state)
      <3>1. "DISK_ERROR" \in UserWait /\ "WRONG_DISK_ID" \in UserWait
        BY DEF UserWait
      <3>2. QED BY <1>5, <3>1 DEF Handle, SpinUp
    <2>2. GoesOn(s, NoRetries(s))
      BY <1>1, NoRetriesGoesOn DEF GoesOn
    <2>3. QED BY <2>1, <2>2, UserHandled
  <1>6. CASE t = "TC" /\ command = "reset"
    <2>1. Handle(s, command, t) = [s EXCEPT !.resume = "NONE", !.resetAlarm = TRUE]
      BY <1>1, <1>6 DEF Handle, SpinUp
    <2>2. Handled(s, [s EXCEPT !.resume = "NONE", !.resetAlarm = TRUE])
      BY <1>1, PauseHandled
    <2>3. QED BY <2>1, <2>2
  <1>7. CASE t = "TC" /\ command \in SpinUp
    <2>1. Handle(s, command, t) = CbSpinUp(s, command, drive.disc)
      BY <1>7 DEF Handle, SpinUp
    <2>2. QED BY <1>7, <2>1, SpinUpHandled
  <1>8. CASE t \notin {"TIME", "TC"} /\ command \in SpinUp \cup {"reset"}
    <2>1. Handle(s, command, t) = LowCommand(s, "gettingError")
      BY <1>8 DEF Handle, SpinUp
    <2>2. QED BY <1>1, <2>1, CommandHandled
  <1>9. QED BY <1>2, <1>3, <1>4, <1>5, <1>6, <1>7, <1>8 DEF Drives

(***************************************************************************)
(* The cover: the driver's other command.                                  *)
(***************************************************************************)
Kept(s, r) ==
    /\ r \in DriverState
    /\ r.executing = s.executing /\ r.queue = s.queue /\ SameCancel(s, r)
    /\ \/ r.block = s.block
       \/ /\ s.executing # NoFile
          /\ \E state \in Begun : r.block = [s.block EXCEPT ![s.executing].state = state]

LEMMA KeptTurn ==
    ASSUME NEW s \in DriverState, Placed(s), s.calls = {}, NEW r, Kept(s, r),
           r.halt = "no" => AtRest(r, r.low)
    PROVE  Turn(s, r)
  <1>1. /\ s.block \in [File -> Block] /\ s.executing \in File \cup {NoFile} /\ NoFile \notin File
    BY DvdAssumption DEF DriverState
  <1>2. /\ \A g \in File : /\ r.block[g].callback = s.block[g].callback
                           /\ r.block[g].transfers = s.block[g].transfers
                           /\ g # s.executing => r.block[g].state = s.block[g].state
        /\ s.executing \in File => r.block[s.executing].state \in Begun
    <2>1. CASE r.block = s.block
      BY <2>1 DEF Placed
    <2>2. CASE s.executing # NoFile
               /\ \E state \in Begun : r.block = [s.block EXCEPT ![s.executing].state = state]
      <3>1. PICK state \in Begun : r.block = [s.block EXCEPT ![s.executing].state = state]
        BY <2>2
      <3>2. s.executing \in File
        BY <1>1, <2>2
      <3>3. QED BY <1>1, <3>1, <3>2 DEF Block
    <2>3. QED BY <2>1, <2>2 DEF Kept
  <1>3. /\ r \in DriverState /\ r.executing = s.executing /\ r.queue = s.queue /\ SameCancel(s, r)
    BY DEF Kept
  <1>4. /\ "WAITING" \notin Begun /\ \A x \in Begun : x \notin Final
    BY DEF Begun, Served, UserWait, Final
  <1>5. Placed(r)
    <2>1. ASSUME NEW p \in Prio, NEW g \in File, g \in ToSet(r.queue[p])
          PROVE  Priority[g] = p /\ r.block[g].state = "WAITING"
      BY <1>2, <1>3, <1>4, <2>1 DEF Placed, QueuedOnce
    <2>2. ASSUME NEW g \in File
          PROVE  /\ r.block[g].transfers <= Transfers[g]
                 /\ r.block[g].state \notin Final => r.block[g].transfers > 0
                 /\ r.block[g].state \in Begun <=> g = r.executing
      BY <1>2, <1>3, <1>4 DEF Placed, QueuedOnce
    <2>3. QED BY <1>3, <2>1, <2>2 DEF Placed, QueuedOnce
  <1>6. Unanswered(s, r)
    BY <1>2, <1>3 DEF Unanswered, SameCancel
  <1>7. QED BY <1>3, <1>5, <1>6 DEF Turn

LEMMA KeptTail ==
    ASSUME NEW s \in DriverState, Placed(s), s.calls = {}, NEW r, Kept(s, r),
           r.low # << >>, r.halt = "no" => AtRest(r, Tail(r.low))
    PROVE  Turn(s, [r EXCEPT !.low = Tail(@)])
  <1> DEFINE n == [r EXCEPT !.low = Tail(@)]
  <1>1. /\ n \in DriverState
        /\ SameReads(r, n) /\ SameCancel(r, n) /\ SameErrands(r, n) /\ SameWaits(r, n)
        /\ SameMotor(r, n) /\ n.halt = r.halt
        /\ n.low = Tail(r.low)
    BY TailFields DEF Kept
  <1> HIDE DEF n
  <1>2. n.halt = "no" => AtRest(n, n.low)
    BY <1>1 DEF AtRest, NobodyServed, OneServed, UserAwaited, SameReads, SameCancel,
                SameErrands, SameWaits, SameMotor
  <1>3. Kept(s, n)
    BY <1>1 DEF Kept, SameReads, SameCancel
  <1>4. QED BY <1>2, <1>3, KeptTurn DEF n

LEMMA HaltFields ==
    ASSUME NEW s \in DriverState, NEW why \in {"fatal", "nullWrite", "late"}
    PROVE  LET r == Halt(s, why) IN
           r \in DriverState /\ SameReads(s, r) /\ SameCancel(s, r) /\ r.low = s.low /\ r.halt = why
  <1>1. Halt(s, why) \in DriverState
    BY DEF DriverState, Halt
  <1>2. QED BY <1>1 DEF DriverState, Halt, SameReads, SameCancel

ChangedFields(s, r) ==
    /\ r.executing = s.executing /\ r.queue = s.queue
    /\ SameCancel(s, r) /\ SameErrands(s, r)
    /\ ~r.waitClose /\ r.waitOpen = s.waitOpen /\ r.coverAlarm = s.coverAlarm
    /\ IF s.executing = NoFile
       THEN /\ r.block = s.block /\ r.resume = "RESUME_7" /\ r.motor = s.motor
            /\ r.low = s.low
       ELSE /\ r.block = [s.block EXCEPT ![s.executing].state = "COVER_CLOSED"]
            /\ r.resume = s.resume /\ r.motor = "WORKING"

LEMMA CoverChangedFields ==
    ASSUME NEW s \in DriverState, Contexts \in Nat
    PROVE  LET r == CoverChanged(s)
               l == Halt(CoverChanged(s), "late")
           IN  /\ Len(s.low) < Contexts =>
                    /\ r \in DriverState /\ ChangedFields(s, r) /\ r.halt = s.halt
                    /\ s.executing # NoFile => r.low = Append(s.low, "reset")
               /\ s.executing # NoFile =>
                    /\ l \in DriverState /\ ChangedFields(s, l) /\ l.halt = "late"
                    /\ l.low \in {s.low, Append(s.low, "reset")}
  <1> DEFINE u == [s EXCEPT !.waitClose = FALSE]
             r == CoverChanged(s)
             l == Halt(CoverChanged(s), "late")
  <1>1. u \in DriverState
    BY DEF DriverState
  <1>2. /\ SameReads(s, u) /\ SameCancel(s, u) /\ SameErrands(s, u) /\ SameMotor(s, u)
        /\ ~u.waitClose /\ u.waitOpen = s.waitOpen /\ u.coverAlarm = s.coverAlarm
        /\ u.low = s.low /\ u.halt = s.halt
    BY DEF DriverState, SameReads, SameCancel, SameErrands, SameMotor
  <1>3. r = IF u.executing = NoFile THEN [u EXCEPT !.resume = "RESUME_7"]
            ELSE StateCoverClosed(SetState(u, "COVER_CLOSED"))
    BY DEF CoverChanged
  <1> HIDE DEF u
  <1>4. CASE s.executing = NoFile
    <2> DEFINE n == [u EXCEPT !.resume = "RESUME_7"]
    <2>1. n \in DriverState
      <3>1. "RESUME_7" \in Resumes
        BY DEF Resumes
      <3>2. QED BY <1>1, <3>1 DEF DriverState
    <2>2. /\ SameReads(u, n) /\ SameCancel(u, n) /\ SameErrands(u, n) /\ SameWaits(u, n)
          /\ n.motor = u.motor /\ n.resume = "RESUME_7" /\ n.low = u.low /\ n.halt = u.halt
      BY <1>1 DEF DriverState, SameReads, SameCancel, SameErrands, SameWaits
    <2>3. r = n
      BY <1>2, <1>3, <1>4 DEF SameReads
    <2> HIDE DEF n, r
    <2>4. ChangedFields(s, r) /\ r \in DriverState /\ r.halt = s.halt
      BY <1>2, <1>4, <2>1, <2>2, <2>3
         DEF ChangedFields, SameReads, SameCancel, SameErrands, SameWaits, SameMotor
    <2>5. QED BY <1>4, <2>4 DEF r
  <1>5. CASE s.executing # NoFile
    <2> DEFINE a == SetState(u, "COVER_CLOSED")
    <2>1. "COVER_CLOSED" \in Begun /\ u.executing \in File /\ u.executing = s.executing
      BY <1>1, <1>2, <1>5 DEF Begun, Served, SameReads, DriverState
    <2>2. /\ a \in DriverState
          /\ SameCancel(u, a) /\ SameErrands(u, a) /\ SameWaits(u, a)
          /\ SameMotor(u, a) /\ a.halt = u.halt /\ a.low = u.low
          /\ a.executing = u.executing /\ a.queue = u.queue
          /\ a.block = [u.block EXCEPT ![u.executing].state = "COVER_CLOSED"]
      BY <1>1, <2>1, SetStateFields
    <2>3. r = StateCoverClosed(a) /\ l = Halt(r, "late")
      BY <1>3, <2>1, <1>5
    <2> HIDE DEF a, r, l
    <2>4. CASE Len(s.low) < Contexts
      <3>1. /\ r \in DriverState
            /\ SameReads(a, r) /\ SameCancel(a, r) /\ SameErrands(a, r) /\ SameWaits(a, r)
            /\ r.halt = a.halt /\ r.resume = a.resume
            /\ r.low = Append(a.low, "reset")
            /\ r.motor = "WORKING"
        BY <1>2, <2>2, <2>3, <2>4, CoverClosedFields
      <3>2. ChangedFields(s, r) /\ r.halt = s.halt /\ r.low = Append(s.low, "reset")
        BY <1>2, <1>5, <2>2, <3>1
           DEF ChangedFields, SameReads, SameCancel, SameErrands, SameWaits, SameMotor
      <3> DEFINE n == [r EXCEPT !.halt = "late"]
      <3>3. n \in DriverState /\ ChangedFields(s, n) /\ n.halt = "late" /\ n.low = r.low
        <4>1. n \in DriverState
          <5>1. r \in DriverState
            BY <3>1
          <5>2. "late" \in {"no", "fatal", "nullWrite", "late"}
            OBVIOUS
          <5>3. QED BY <5>1, <5>2 DEF DriverState
        <4>2. /\ SameReads(r, n) /\ SameCancel(r, n) /\ SameErrands(r, n) /\ SameWaits(r, n)
              /\ SameMotor(r, n) /\ n.halt = "late" /\ n.low = r.low
          BY <3>1 DEF DriverState, SameReads, SameCancel, SameErrands, SameWaits, SameMotor
        <4> HIDE DEF n
        <4>3. ChangedFields(s, n)
          BY <1>5, <3>2, <4>2
             DEF ChangedFields, SameReads, SameCancel, SameErrands, SameWaits, SameMotor
        <4>4. QED BY <4>1, <4>2, <4>3
      <3>4. l = n
        BY <2>3 DEF Halt
      <3> HIDE DEF n
      <3>5. QED BY <3>1, <3>2, <3>3, <3>4 DEF r, l
    <2>5. CASE ~(Len(s.low) < Contexts)
      <3> DEFINE n == [a EXCEPT !.motor = "WORKING", !.halt = "late"]
      <3>1. n \in DriverState
        <4>1. a \in DriverState
          BY <2>2
        <4> DEFINE m == [a EXCEPT !.motor = "WORKING"]
        <4>2. m \in DriverState
          BY <4>1 DEF DriverState
        <4>3. n = [m EXCEPT !.halt = "late"]
          BY <4>1 DEF DriverState
        <4> HIDE DEF m, n
        <4>4. QED BY <4>2, <4>3 DEF DriverState
      <3>2. /\ SameReads(a, n) /\ SameCancel(a, n) /\ SameErrands(a, n) /\ SameWaits(a, n)
            /\ n.motor = "WORKING" /\ n.resume = a.resume /\ n.halt = "late" /\ n.low = a.low
        BY <2>2 DEF DriverState, SameReads, SameCancel, SameErrands, SameWaits
      <3>3. ChangedFields(s, n)
        <4> HIDE DEF n
        <4>1. QED BY <1>2, <1>5, <2>2, <3>2
              DEF ChangedFields, SameReads, SameCancel, SameErrands, SameWaits, SameMotor
      <3>4. l = n
        <4> DEFINE b == [a EXCEPT !.motor = "WORKING"]
        <4>1. b.low = s.low
          BY <1>2, <2>2 DEF DriverState
        <4>2. Len(s.low) \in Nat
          <5>1. s.low \in Seq(Drives \cup {"clear", "prepareCover"})
            BY DEF DriverState
          <5>2. QED BY <5>1, LenProperties
        <4>3. r = [b EXCEPT !.halt = "noContext"]
          <5> HIDE DEF b
          <5>1. r = LowCommand(b, "reset")
            BY <2>3 DEF StateCoverClosed, b
          <5>2. QED BY <2>5, <4>1, <4>2, <5>1 DEF LowCommand, Halt
        <4>4. QED BY <2>2, <2>3, <4>3 DEF Halt, DriverState
      <3> HIDE DEF n
      <3>5. QED BY <1>2, <2>2, <2>5, <3>1, <3>2, <3>3, <3>4 DEF r, l
    <2>6. QED BY <2>4, <2>5
  <1>6. QED BY <1>4, <1>5

(* When the cover's register is being read, that command is the oldest. *)
Preparing(s) ==
    /\ s \in DriverState /\ Placed(s) /\ s.calls = {} /\ s.halt = "no"
    /\ s.preparing
    /\ s.coverAlarm <=> s.waitOpen \/ s.waitClose
    /\ \/ NobodyServed(s, s.low) /\ s.low = <<"prepareCover">>
       \/ UserAwaited(s, s.low) /\ s.low = <<"prepareCover">>
       \/ OneServed(s, s.low) /\ s.low = <<"prepareCover", "reset">>

LEMMA PreparingLow ==
    ASSUME NEW s, Preparing(s)
    PROVE  /\ s.low # << >>
           /\ Tail(s.low) = IF OneServed(s, s.low) THEN <<"reset">> ELSE << >>
           /\ Len(s.low) <= 2
           /\ OneServed(s, s.low) \/ Len(s.low) = 1
  <1>1. CASE s.low = <<"prepareCover">>
    <2>1. ~OneServed(s, s.low) \/ s.low = <<"prepareCover", "reset">>
      BY DEF OneServed, Preparing
    <2>2. <<"prepareCover">> # <<"prepareCover", "reset">>
      <3>1. Len(<<"prepareCover">>) = 1 /\ Len(<<"prepareCover", "reset">>) = 2
        OBVIOUS
      <3>2. QED BY <3>1
    <2>3. QED BY <1>1, <2>1, <2>2, LowSingle
  <1>2. CASE OneServed(s, s.low) /\ s.low = <<"prepareCover", "reset">>
    <2>1. Len(s.low) = 2
      BY <1>2
    <2>2. QED BY <1>2, <2>1, TailOfPair
  <1>3. QED BY <1>1, <1>2 DEF Preparing

LEMMA PreparedRest ==
    ASSUME NEW s, Preparing(s), NEW r, SameReads(s, r), SameCancel(s, r), SameWaits(s, r),
           SameMotor(s, r), r.storing = s.storing, r.resetAlarm = s.resetAlarm, ~r.preparing
    PROVE  AtRest(r, Tail(s.low))
  <1>1. CASE NobodyServed(s, s.low) /\ ~OneServed(s, s.low)
    <2>1. NobodyServed(r, << >>)
      BY <1>1 DEF NobodyServed, SameReads, SameCancel, SameWaits, SameMotor
    <2>2. QED BY <1>1, <2>1, PreparingLow DEF AtRest, Preparing, SameWaits
  <1>2. CASE UserAwaited(s, s.low) /\ ~OneServed(s, s.low)
    <2>1. UserAwaited(r, << >>)
      BY <1>2 DEF UserAwaited, SameReads, SameCancel, SameWaits
    <2>2. QED BY <1>2, <2>1, PreparingLow DEF AtRest, Preparing, SameWaits
  <1>3. CASE OneServed(s, s.low)
    <2>1. ~s.storing /\ ~s.resetAlarm /\ "reset" \in Drives
      BY <1>3 DEF OneServed, Preparing, Drives
    <2>2. OneServed(r, <<"reset">>)
      BY <1>3, <2>1 DEF OneServed, SameReads, SameWaits, SameMotor
    <2>3. QED BY <1>3, <2>2, PreparingLow DEF AtRest, Preparing, SameWaits
  <1>4. QED BY <1>1, <1>2, <1>3 DEF Preparing

LEMMA CoverHandled ==
    ASSUME Contexts >= 3, NEW s, Preparing(s), NEW open \in BOOLEAN, NEW coverInt \in BOOLEAN
    PROVE  Turn(s, [CbPrepareCover(s, open, coverInt) EXCEPT !.low = Tail(@)])
  <1> DEFINE late == ~s.waitOpen /\ ~s.waitClose /\ s.executing # NoFile
             u == [s EXCEPT !.preparing = FALSE]
             r == CbPrepareCover(s, open, coverInt)
             w == [u EXCEPT !.coverAlarm = FALSE]
             x == [u EXCEPT !.waitOpen = FALSE, !.waitClose = TRUE]
             y == [u EXCEPT !.coverAlarm = FALSE, !.waitOpen = FALSE]
             EndIfLate(v) == IF late THEN Halt(v, "late") ELSE v
  <1>1. /\ s \in DriverState /\ Placed(s) /\ s.calls = {} /\ s.halt = "no" /\ s.preparing
        /\ s.coverAlarm = (s.waitOpen \/ s.waitClose)
        /\ s.waitOpen \in BOOLEAN /\ s.waitClose \in BOOLEAN /\ s.coverAlarm \in BOOLEAN
        /\ s.block \in [File -> Block] /\ s.executing \in File \cup {NoFile}
    BY DEF Preparing, DriverState
  <1>2. r = IF s.waitClose
            THEN IF open THEN u ELSE CoverChanged(w)
            ELSE IF open
            THEN IF s.executing = NoFile THEN Halt(u, "nullWrite")
                 ELSE EndIfLate(SetState(x, "COVER_OPENED"))
            ELSE IF coverInt THEN EndIfLate(CoverChanged(LowCommand(y, "clear")))
            ELSE u
    <2>1. u.waitClose = s.waitClose /\ u.executing = s.executing
      BY <1>1 DEF DriverState
    <2>2. QED BY <2>1 DEF CbPrepareCover
  <1>5. /\ u \in DriverState
        /\ SameReads(s, u) /\ SameCancel(s, u) /\ SameMotor(s, u) /\ SameWaits(s, u)
        /\ u.storing = s.storing /\ u.resetAlarm = s.resetAlarm /\ ~u.preparing
        /\ u.low = s.low /\ u.halt = s.halt
    <2>1. u \in DriverState
      BY <1>1 DEF DriverState
    <2>2. QED BY <1>1, <2>1 DEF DriverState, SameReads, SameCancel, SameMotor, SameWaits
  <1>6. /\ w \in DriverState
        /\ SameReads(s, w) /\ SameCancel(s, w) /\ SameMotor(s, w)
        /\ w.storing = s.storing /\ w.resetAlarm = s.resetAlarm /\ ~w.preparing
        /\ ~w.coverAlarm /\ w.waitOpen = s.waitOpen /\ w.waitClose = s.waitClose
        /\ w.low = s.low /\ w.halt = s.halt
    <2>1. w \in DriverState
      BY <1>1 DEF DriverState
    <2>2. QED BY <1>1, <2>1 DEF DriverState, SameReads, SameCancel, SameMotor
  <1>7. /\ x \in DriverState
        /\ SameReads(s, x) /\ SameCancel(s, x) /\ SameMotor(s, x)
        /\ x.storing = s.storing /\ x.resetAlarm = s.resetAlarm /\ ~x.preparing
        /\ x.coverAlarm = s.coverAlarm /\ ~x.waitOpen /\ x.waitClose
        /\ x.low = s.low /\ x.halt = s.halt
    <2>1. x \in DriverState
      BY <1>1 DEF DriverState
    <2>2. QED BY <1>1, <2>1 DEF DriverState, SameReads, SameCancel, SameMotor
  <1>8. /\ y \in DriverState
        /\ SameReads(s, y) /\ SameCancel(s, y) /\ SameMotor(s, y)
        /\ y.storing = s.storing /\ y.resetAlarm = s.resetAlarm /\ ~y.preparing
        /\ ~y.coverAlarm /\ ~y.waitOpen /\ y.waitClose = s.waitClose
        /\ y.low = s.low /\ y.halt = s.halt
    <2>1. y \in DriverState
      BY <1>1 DEF DriverState
    <2>2. QED BY <1>1, <2>1 DEF DriverState, SameReads, SameCancel, SameMotor
  <1> HIDE DEF u, w, x, y, r
  <1>9. /\ s.low # << >> /\ Len(s.low) \in Nat /\ Len(s.low) < Contexts /\ Contexts \in Nat
        /\ "COVER_CLOSED" \in Begun /\ "COVER_OPENED" \in Begun
        /\ "COVER_CLOSED" \in Served /\ "COVER_OPENED" \in UserWait /\ "reset" \in Drives
    <2>1. s.low \in Seq(Drives \cup {"clear", "prepareCover"})
      BY <1>1 DEF DriverState
    <2>2. Len(s.low) \in Nat
      BY <2>1, LenProperties
    <2>3. QED BY <2>2, PreparingLow, DvdAssumption DEF Begun, Served, UserWait, Drives
  <1>10. CASE r = u
    <2>1. AtRest(u, Tail(u.low))
      BY <1>5, PreparedRest
    <2>2. Kept(s, u)
      BY <1>5 DEF Kept, SameReads
    <2>3. Turn(s, [u EXCEPT !.low = Tail(@)])
      BY <1>1, <1>5, <1>9, <2>1, <2>2, KeptTail
    <2>4. QED BY <1>10, <2>3 DEF r
  <1>11. CASE s.waitClose /\ ~open
    <2> DEFINE v == CoverChanged(w)
    <2>1. /\ v \in DriverState /\ ChangedFields(w, v) /\ v.halt = w.halt
          /\ w.executing # NoFile => v.low = Append(w.low, "reset")
      BY <1>6, <1>9, CoverChangedFields
    <2>2. r = v
      BY <1>2, <1>11
    <2> HIDE DEF v
    <2>3. CASE NobodyServed(s, s.low)
      <3>1. s.executing = NoFile /\ v.low = s.low
        BY <1>6, <2>1, <2>3 DEF NobodyServed, ChangedFields, SameReads
      <3>2. Tail(s.low) = << >>
        <4>1. ~OneServed(s, s.low)
          BY <3>1 DEF OneServed
        <4>2. QED BY <4>1, PreparingLow
      <3>3. NobodyServed(v, << >>)
        BY <1>6, <2>1, <2>3, <3>1
           DEF NobodyServed, ChangedFields, SameReads, SameCancel, SameErrands
      <3>4. AtRest(v, Tail(v.low))
        BY <1>6, <2>1, <2>3, <3>1, <3>2, <3>3 DEF AtRest, NobodyServed, ChangedFields
      <3>5. Kept(s, v)
        BY <1>6, <2>1, <3>1 DEF Kept, ChangedFields, SameReads, SameCancel
      <3>6. Turn(s, [v EXCEPT !.low = Tail(@)])
        BY <1>1, <1>9, <3>1, <3>4, <3>5, KeptTail
      <3>7. QED BY <2>2, <3>6 DEF r
    <2>4. CASE UserAwaited(s, s.low)
      <3>1. s.executing # NoFile /\ s.low = <<"prepareCover">> /\ ~s.waitOpen
        BY <1>1, <1>11, <2>4 DEF UserAwaited
      <3>2. v.low = Append(s.low, "reset") /\ v.low # << >> /\ Tail(v.low) = <<"reset">>
        <4>1. v.low = Append(s.low, "reset")
          BY <1>6, <2>1, <3>1 DEF SameReads
        <4>2. QED BY <3>1, <4>1, Issued
      <3>3. v.block = [s.block EXCEPT ![s.executing].state = "COVER_CLOSED"]
            /\ v.block[s.executing].state = "COVER_CLOSED"
        <4>1. v.block = [s.block EXCEPT ![s.executing].state = "COVER_CLOSED"]
          BY <1>6, <2>1, <3>1 DEF ChangedFields, SameReads
        <4>2. s.executing \in File
          BY <1>1, <3>1
        <4>3. QED BY <1>1, <4>1, <4>2 DEF Block
      <3>4. OneServed(v, <<"reset">>)
        BY <1>6, <1>9, <2>1, <2>4, <3>1, <3>3
           DEF OneServed, UserAwaited, ChangedFields, SameReads, SameErrands
      <3>5. AtRest(v, Tail(v.low))
        BY <1>6, <2>1, <3>1, <3>2, <3>4 DEF AtRest, ChangedFields
      <3>6. Kept(s, v)
        BY <1>6, <1>9, <2>1, <3>1, <3>3 DEF Kept, ChangedFields, SameReads, SameCancel
      <3>7. Turn(s, [v EXCEPT !.low = Tail(@)])
        BY <1>1, <3>2, <3>5, <3>6, KeptTail
      <3>8. QED BY <2>2, <3>7 DEF r
    <2>5. ~OneServed(s, s.low)
      BY <1>11 DEF OneServed
    <2>6. QED BY <2>3, <2>4, <2>5 DEF Preparing
  <1>12. CASE ~s.waitClose /\ open /\ s.executing = NoFile
    <2> DEFINE v == Halt(u, "nullWrite")
    <2>1. v \in DriverState /\ SameReads(u, v) /\ SameCancel(u, v) /\ v.low = u.low
          /\ v.halt = "nullWrite"
      BY <1>5, HaltFields
    <2>2. r = v
      BY <1>2, <1>12
    <2> HIDE DEF v
    <2>3. Kept(s, v)
      BY <1>5, <2>1 DEF Kept, SameReads, SameCancel
    <2>4. Turn(s, [v EXCEPT !.low = Tail(@)])
      BY <1>1, <1>5, <1>9, <2>1, <2>3, KeptTail
    <2>5. QED BY <2>2, <2>4 DEF r
  <1>13. CASE ~s.waitClose /\ open /\ s.executing # NoFile
    <2> DEFINE a == SetState(x, "COVER_OPENED")
    <2>1. s.executing \in File /\ x.executing \in File
      BY <1>1, <1>7, <1>13 DEF SameReads
    <2>2. /\ a \in DriverState
          /\ SameCancel(x, a) /\ SameErrands(x, a) /\ SameWaits(x, a)
          /\ SameMotor(x, a) /\ a.halt = x.halt /\ a.low = x.low
          /\ a.executing = x.executing /\ a.queue = x.queue
          /\ a.block = [x.block EXCEPT ![x.executing].state = "COVER_OPENED"]
      BY <1>7, <1>9, <2>1, SetStateFields
    <2>3. r = EndIfLate(a)
      BY <1>2, <1>13
    <2> HIDE DEF a
    <2>4. a.block = [s.block EXCEPT ![s.executing].state = "COVER_OPENED"]
          /\ a.block[s.executing].state = "COVER_OPENED"
      <3>1. a.block = [s.block EXCEPT ![s.executing].state = "COVER_OPENED"]
        BY <1>7, <2>2 DEF SameReads
      <3>2. QED BY <1>1, <2>1, <3>1 DEF Block
    <2>5. Kept(s, a) /\ a.low = s.low
      BY <1>7, <1>9, <1>13, <2>2, <2>4 DEF Kept, SameReads, SameCancel
    <2>6. CASE late
      <3> DEFINE v == Halt(a, "late")
      <3>1. v \in DriverState /\ SameReads(a, v) /\ SameCancel(a, v) /\ v.low = a.low
            /\ v.halt = "late"
        BY <2>2, HaltFields
      <3>2. r = v
        BY <2>3, <2>6
      <3> HIDE DEF v
      <3>3. Kept(s, v)
        BY <2>5, <3>1 DEF Kept, SameReads, SameCancel
      <3>4. Turn(s, [v EXCEPT !.low = Tail(@)])
        BY <1>1, <1>9, <2>5, <3>1, <3>3, KeptTail
      <3>5. QED BY <3>2, <3>4 DEF r
    <2>7. CASE ~late
      <3>1. UserAwaited(s, s.low)
        BY <1>13, <2>7 DEF Preparing, NobodyServed, OneServed
      <3>2. Tail(a.low) = << >>
        <4>1. ~OneServed(s, s.low)
          BY <1>13, <2>7 DEF OneServed
        <4>2. QED BY <2>5, <4>1, PreparingLow
      <3>3. UserAwaited(a, << >>)
        BY <1>7, <1>9, <2>2, <2>4, <3>1, <1>13
           DEF UserAwaited, SameCancel, SameErrands, SameWaits, SameReads
      <3>4. AtRest(a, Tail(a.low))
        BY <1>1, <1>7, <1>13, <2>2, <2>7, <3>2, <3>3 DEF AtRest, SameWaits
      <3>5. r = a
        BY <2>3, <2>7
      <3>6. Turn(s, [a EXCEPT !.low = Tail(@)])
        BY <1>1, <1>9, <2>5, <3>4, KeptTail
      <3>7. QED BY <3>5, <3>6 DEF r
    <2>8. QED BY <2>6, <2>7
  <1>14. CASE ~s.waitClose /\ ~open /\ coverInt
    <2> DEFINE k == LowCommand(y, "clear")
               v == CoverChanged(k)
    <2>1. /\ k \in DriverState
          /\ SameReads(y, k) /\ SameCancel(y, k) /\ SameErrands(y, k) /\ SameWaits(y, k)
          /\ SameMotor(y, k) /\ k.halt = y.halt
          /\ k.low = Append(s.low, "clear")
      <3>1. y.low = s.low /\ Len(y.low) < Contexts /\ y \in DriverState
        BY <1>8, <1>9
      <3> HIDE DEF k
      <3>2. QED BY <1>9, <3>1, LowCommandFields DEF k
    <2>2. r = EndIfLate(v)
      BY <1>2, <1>14
    <2>3. Len(k.low) = Len(s.low) + 1 /\ k.executing = s.executing /\ k.block = s.block
          /\ k.low # << >>
      <3>1. s.low \in Seq(Drives \cup {"clear", "prepareCover"})
        BY <1>1 DEF DriverState
      <3> HIDE DEF k
      <3>2. Len(k.low) = Len(s.low) + 1
        BY <2>1, <3>1, AppendProperties
      <3>3. k.low # << >>
        BY <1>9, <3>2
      <3>4. QED BY <1>8, <2>1, <3>2, <3>3 DEF SameReads
    <2> HIDE DEF k
    <2>4. CASE late
      <3> DEFINE l == Halt(v, "late")
      <3>1. /\ l \in DriverState /\ ChangedFields(k, l) /\ l.halt = "late"
            /\ l.low \in {k.low, Append(k.low, "reset")}
        BY <1>9, <2>1, <2>3, <2>4, CoverChangedFields
      <3>2. r = l
        BY <2>2, <2>4
      <3> HIDE DEF l, v
      <3>3. l.low # << >>
        <4>1. k.low \in Seq(Drives \cup {"clear", "prepareCover"})
          BY <2>1 DEF DriverState
        <4>2. "reset" \in Drives \cup {"clear", "prepareCover"}
          BY <1>9
        <4>3. Append(k.low, "reset") # << >>
          BY <4>1, <4>2, AppendProperties, EmptySeq
        <4>4. QED BY <2>3, <3>1, <4>3
      <3>4. Kept(s, l)
        BY <1>8, <1>9, <2>1, <2>3, <2>4, <3>1 DEF Kept, ChangedFields, SameReads, SameCancel
      <3>5. Turn(s, [l EXCEPT !.low = Tail(@)])
        BY <1>1, <3>1, <3>3, <3>4, KeptTail
      <3>6. QED BY <3>2, <3>5 DEF r
    <2>5. CASE ~late
      <3>1. ~OneServed(s, s.low)
        BY <1>14, <2>5 DEF OneServed
      <3>2. s.low = <<"prepareCover">> /\ Len(s.low) = 1
        BY <3>1, PreparingLow DEF Preparing
      <3>3. /\ v \in DriverState /\ ChangedFields(k, v) /\ v.halt = k.halt
            /\ k.executing # NoFile => v.low = Append(k.low, "reset")
        <4>1. Len(k.low) < Contexts
          BY <1>9, <2>3, <3>2
        <4>2. QED BY <1>9, <2>1, <4>1, CoverChangedFields
      <3>4. r = v
        BY <2>2, <2>5
      <3> HIDE DEF v
      <3>5. CASE NobodyServed(s, s.low)
        <4>1. s.executing = NoFile /\ v.low = k.low
          BY <2>3, <3>3, <3>5 DEF NobodyServed, ChangedFields
        <4>2. v.low # << >> /\ Tail(v.low) = <<"clear">>
          BY <2>1, <3>2, <4>1, Issued
        <4>3. NobodyServed(v, <<"clear">>)
          <5>1. /\ v.executing = NoFile /\ v.queue = s.queue /\ v.canceling = s.canceling
                /\ v.resume = "RESUME_7" /\ ~v.waitClose /\ v.waitOpen = k.waitOpen
                /\ v.storing = k.storing /\ v.resetAlarm = k.resetAlarm
                /\ v.preparing = k.preparing
            BY <1>8, <2>1, <2>3, <3>3, <4>1
               DEF ChangedFields, SameReads, SameCancel, SameErrands
          <5>2. /\ ~k.waitOpen /\ k.storing = s.storing /\ k.resetAlarm = s.resetAlarm
                /\ ~k.preparing
            BY <1>8, <2>1 DEF SameErrands, SameWaits
          <5>3. /\ \A p \in Prio : s.queue[p] = << >>
                /\ ~s.canceling /\ ~s.storing /\ ~s.resetAlarm
            BY <3>5 DEF NobodyServed
          <5>4. QED BY <5>1, <5>2, <5>3 DEF NobodyServed
        <4>4. AtRest(v, Tail(v.low))
          BY <1>8, <2>1, <3>3, <4>2, <4>3 DEF AtRest, ChangedFields, SameWaits
        <4>5. Kept(s, v)
          BY <1>8, <2>1, <2>3, <3>3, <4>1 DEF Kept, ChangedFields, SameReads, SameCancel
        <4>6. Turn(s, [v EXCEPT !.low = Tail(@)])
          BY <1>1, <4>2, <4>4, <4>5, KeptTail
        <4>7. QED BY <3>4, <4>6 DEF r
      <3>6. CASE UserAwaited(s, s.low)
        <4>1. s.executing # NoFile /\ s.executing \in File
          BY <1>1, <3>6 DEF UserAwaited
        <4>2. v.low = Append(Append(s.low, "clear"), "reset")
          BY <2>1, <2>3, <3>3, <4>1
        <4>3. v.low # << >> /\ Tail(v.low) = <<"clear", "reset">>
          BY <3>2, <4>2, IssuedBoth
        <4>4. v.block = [s.block EXCEPT ![s.executing].state = "COVER_CLOSED"]
              /\ v.block[s.executing].state = "COVER_CLOSED"
          <5>1. v.block = [s.block EXCEPT ![s.executing].state = "COVER_CLOSED"]
            BY <2>3, <3>3, <4>1 DEF ChangedFields
          <5>2. QED BY <1>1, <4>1, <5>1 DEF Block
        <4>5. OneServed(v, <<"clear", "reset">>)
          BY <1>8, <1>9, <2>1, <2>3, <3>3, <3>6, <4>1, <4>4
             DEF OneServed, UserAwaited, ChangedFields, SameErrands, SameWaits
        <4>6. AtRest(v, Tail(v.low))
          BY <1>8, <2>1, <3>3, <4>3, <4>5 DEF AtRest, ChangedFields, SameWaits
        <4>7. Kept(s, v)
          BY <1>8, <1>9, <2>1, <2>3, <3>3, <4>1, <4>4 DEF Kept, ChangedFields, SameReads, SameCancel
        <4>8. Turn(s, [v EXCEPT !.low = Tail(@)])
          BY <1>1, <4>3, <4>6, <4>7, KeptTail
        <4>9. QED BY <3>4, <4>8 DEF r
      <3>7. QED BY <3>1, <3>5, <3>6 DEF Preparing
    <2>6. QED BY <2>4, <2>5
  <1>15. CASE (s.waitClose /\ open) \/ (~s.waitClose /\ ~open /\ ~coverInt)
    BY <1>2, <1>10, <1>15
  <1>16. QED BY <1>11, <1>12, <1>13, <1>14, <1>15

(***************************************************************************)
(* A completion of the oldest command, whatever it is.                     *)
(***************************************************************************)
Resting(s) ==
    /\ s \in DriverState /\ Placed(s) /\ s.calls = {} /\ s.halt = "no"
    /\ AtRest(s, s.low)

LEMMA HeadOf ==
    ASSUME NEW l, NEW c, NEW d
    PROVE  (l = <<c>> => Head(l) = c /\ Tail(l) = << >>) /\ (l = <<c, d>> => Head(l) = c)
  <1>1. ASSUME l = <<c>> PROVE Head(l) = c /\ Tail(l) = << >>
    <2> DEFINE S == {c}
    <2>1. l \in Seq(S) /\ Len(l) = 1 /\ l[1] = c /\ l # << >>
      BY <1>1
    <2> HIDE DEF S
    <2>2. Head(l) = l[1] /\ Tail(l) \in Seq(S) /\ Len(Tail(l)) = 0
      BY <2>1, HeadTailProperties
    <2>3. QED BY <2>1, <2>2, EmptySeq
  <1>2. ASSUME l = <<c, d>> PROVE Head(l) = c
    <2> DEFINE S == {c, d}
    <2>1. l \in Seq(S) /\ l[1] = c /\ l # << >>
      BY <1>2
    <2> HIDE DEF S
    <2>2. Head(l) = l[1]
      BY <2>1
    <2>3. QED BY <2>1, <2>2
  <1>3. QED BY <1>1, <1>2

LEMMA RestShapes ==
    ASSUME NEW s, Resting(s)
    PROVE  \/ s.low = << >>
           \/ s.low = <<"clear">> /\ NobodyServed(s, s.low)
           \/ Preparing(s)
           \/ \E c \in Drives : s.low = <<c>> /\ Driven(s)
           \/ /\ OneServed(s, s.low) /\ ~s.storing /\ ~s.resetAlarm /\ ~s.preparing
              /\ \E c \in Drives : s.low = <<"clear", c>>
  <1>1. /\ s \in DriverState /\ Placed(s) /\ s.calls = {} /\ s.halt = "no"
        /\ s.coverAlarm <=> s.waitOpen \/ s.waitClose
        /\ s.executing \in File \cup {NoFile}
    BY DEF Resting, AtRest, DriverState
  <1>2. CASE NobodyServed(s, s.low)
    <2>1. \/ s.low = << >>
          \/ s.low = <<"clear">>
          \/ s.low = <<"prepareCover">> /\ s.preparing
      BY <1>2 DEF NobodyServed
    <2>2. QED BY <1>1, <1>2, <2>1 DEF Preparing
  <1>3. CASE UserAwaited(s, s.low)
    <2>1. \/ s.low = << >>
          \/ s.low = <<"prepareCover">> /\ s.preparing
      BY <1>3 DEF UserAwaited
    <2>2. QED BY <1>1, <1>3, <2>1 DEF Preparing
  <1>4. CASE OneServed(s, s.low)
    <2>1. /\ s.executing \in File /\ s.block[s.executing].state \in Served
          /\ ~s.waitOpen /\ ~s.waitClose /\ s.motor = "WORKING"
      BY <1>1, <1>4 DEF OneServed
    <2>2. CASE s.preparing
      <3>1. s.low = <<"prepareCover", "reset">>
        BY <1>4, <2>2 DEF OneServed
      <3>2. QED BY <1>1, <1>4, <2>2, <3>1 DEF Preparing
    <2>3. CASE ~s.preparing
      <3>1. \/ s.low = << >>
            \/ /\ ~s.storing /\ ~s.resetAlarm
               /\ \E c \in Drives : s.low = <<c>> \/ s.low = <<"clear", c>>
        BY <1>4, <2>3 DEF OneServed
      <3>2. QED BY <1>1, <1>4, <2>1, <2>3, <3>1 DEF Driven
    <2>4. QED BY <2>2, <2>3
  <1>5. QED BY <1>2, <1>3, <1>4 DEF Resting, AtRest

Interrupted(s, t) == [Handle(s, Head(s.low), t) EXCEPT !.low = Tail(@)]

LEMMA InterruptTurn ==
    ASSUME Contexts >= 3, NEW s, Resting(s), s.low # << >>, NEW t,
           drive.open \in BOOLEAN, drive.coverInt \in BOOLEAN,
           Head(s.low) = "gettingError" => t \in Senses \cup {"TIME"}
    PROVE  Turn(s, Interrupted(s, t))
  <1> DEFINE h == Handle(s, Head(s.low), t)
  <1> SUFFICES Turn(s, [h EXCEPT !.low = Tail(@)])
    BY DEF Interrupted
  <1>1. s \in DriverState /\ Placed(s) /\ s.calls = {} /\ s.halt = "no" /\ AtRest(s, s.low)
    BY DEF Resting
  <1>2. ASSUME Head(s.low) = "clear", AtRest(s, Tail(s.low))
        PROVE  Turn(s, [h EXCEPT !.low = Tail(@)])
    <2>1. h = s
      BY <1>2 DEF Handle, SpinUp
    <2>2. Kept(s, s)
      BY <1>1 DEF Kept, SameCancel
    <2> HIDE DEF h
    <2>3. Turn(s, [s EXCEPT !.low = Tail(@)])
      BY <1>1, <1>2, <2>2, KeptTail
    <2>4. QED BY <2>1, <2>3
  <1>3. CASE s.low = <<"clear">> /\ NobodyServed(s, s.low)
    <2>1. Head(s.low) = "clear" /\ Tail(s.low) = << >>
      BY <1>3, HeadOf
    <2>2. NobodyServed(s, << >>)
      <3>1. <<"clear">> # << >> /\ <<"clear">> # <<"prepareCover">>
        OBVIOUS
      <3>2. ~s.preparing
        BY <1>3, <3>1 DEF NobodyServed
      <3>3. QED BY <1>3, <3>2 DEF NobodyServed
    <2>3. AtRest(s, Tail(s.low))
      BY <1>1, <2>1, <2>2 DEF AtRest
    <2>4. QED BY <1>2, <2>1, <2>3 DEF h
  <1>4. CASE Preparing(s)
    <2>1. Head(s.low) = "prepareCover"
      BY <1>4, HeadOf DEF Preparing
    <2>2. h = CbPrepareCover(s, drive.open, drive.coverInt)
      BY <2>1 DEF Handle, SpinUp
    <2> HIDE DEF h
    <2>3. Turn(s, [CbPrepareCover(s, drive.open, drive.coverInt) EXCEPT !.low = Tail(@)])
      BY <1>4, CoverHandled
    <2>4. QED BY <2>2, <2>3 DEF h
  <1>5. CASE \E c \in Drives : s.low = <<c>> /\ Driven(s)
    <2>1. PICK c \in Drives : s.low = <<c>> /\ Driven(s)
      BY <1>5
    <2>2. Head(s.low) = c
      BY <2>1, HeadOf
    <2>3. Handled(s, Handle(s, c, t))
      BY <2>1, <2>2, DrivenHandled
    <2>4. QED BY <2>2, <2>3 DEF Handled
  <1>6. CASE /\ OneServed(s, s.low) /\ ~s.storing /\ ~s.resetAlarm /\ ~s.preparing
             /\ \E c \in Drives : s.low = <<"clear", c>>
    <2>1. PICK c \in Drives : s.low = <<"clear", c>>
      BY <1>6
    <2>2. Head(s.low) = "clear" /\ Tail(s.low) = <<c>>
      BY <2>1, HeadOf, TailOfPair
    <2>3. OneServed(s, <<c>>)
      BY <1>6 DEF OneServed
    <2>4. AtRest(s, Tail(s.low))
      BY <1>1, <2>2, <2>3 DEF AtRest
    <2>5. QED BY <1>2, <2>2, <2>4 DEF h
  <1>7. QED BY <1>3, <1>4, <1>5, <1>6, RestShapes

(***************************************************************************)
(* The alarms and the NAND memory's answer.                                *)
(***************************************************************************)
LEMMA AlarmTurn ==
    ASSUME Contexts >= 3, NEW s, Resting(s)
    PROVE  /\ s.coverAlarm /\ ~s.preparing =>
                 Turn(s, LowCommand([s EXCEPT !.preparing = TRUE], "prepareCover"))
           /\ s.storing => Turn(s, LowCommand([s EXCEPT !.storing = FALSE], "goToRetry"))
           /\ s.resetAlarm =>
                 Turn(s, StateDownRotation([s EXCEPT !.resetAlarm = FALSE,
                                                     !.lastState = "downRotation"]))
  <1>1. s \in DriverState /\ Placed(s) /\ s.calls = {} /\ s.halt = "no" /\ AtRest(s, s.low)
    BY DEF Resting
  <1>2. Contexts \in Nat /\ 0 < Contexts /\ 1 < Contexts /\ Len(<< >>) = 0
        /\ Append(<< >>, "prepareCover") = <<"prepareCover">>
        /\ Append(<< >>, "goToRetry") = <<"goToRetry">>
        /\ Append(<< >>, "clear") = <<"clear">>
    BY DvdAssumption
  <1>3. /\ "goToRetry" \in Drives /\ "downRotation" \in Drives
    BY DEF Drives, SpinUp
  <1>4. ASSUME s.coverAlarm, ~s.preparing
        PROVE  Turn(s, LowCommand([s EXCEPT !.preparing = TRUE], "prepareCover"))
    <2> DEFINE u == [s EXCEPT !.preparing = TRUE]
               r == LowCommand(u, "prepareCover")
    <2>1. u \in DriverState
      BY <1>1 DEF DriverState
    <2>2. /\ SameReads(s, u) /\ SameCancel(s, u) /\ SameWaits(s, u) /\ SameMotor(s, u)
          /\ u.storing = s.storing /\ u.resetAlarm = s.resetAlarm /\ u.preparing
          /\ u.low = s.low /\ u.halt = s.halt
      BY <1>1 DEF DriverState, SameReads, SameCancel, SameWaits, SameMotor
    <2>3. s.waitOpen \/ s.waitClose
      BY <1>1, <1>4 DEF AtRest
    <2>4. ~OneServed(s, s.low)
      BY <2>3 DEF OneServed
    <2>5. s.low = << >>
      <3>1. CASE NobodyServed(s, s.low)
        BY <1>4, <2>3, <3>1 DEF NobodyServed
      <3>2. CASE UserAwaited(s, s.low)
        BY <1>4, <3>2 DEF UserAwaited
      <3>3. QED BY <1>1, <2>4, <3>1, <3>2 DEF AtRest
    <2> HIDE DEF u
    <2>6. /\ r \in DriverState
          /\ SameReads(u, r) /\ SameCancel(u, r) /\ SameErrands(u, r) /\ SameWaits(u, r)
          /\ SameMotor(u, r) /\ r.halt = u.halt
          /\ r.low = Append(u.low, "prepareCover")
      <3>1. Len(u.low) < Contexts
        BY <1>2, <2>2, <2>5
      <3>2. QED BY <1>2, <2>1, <3>1, LowCommandFields
    <2> HIDE DEF r
    <2>7. r.low = <<"prepareCover">>
      BY <1>2, <2>2, <2>5, <2>6
    <2>8. CASE NobodyServed(s, s.low)
      <3>1. s.resume # "NONE"
        BY <2>3, <2>8 DEF NobodyServed
      <3>2. NobodyServed(r, <<"prepareCover">>)
        BY <2>2, <2>6, <2>8, <3>1
           DEF NobodyServed, SameReads, SameCancel, SameErrands, SameWaits, SameMotor
      <3>3. AtRest(r, r.low)
        BY <1>1, <2>2, <2>6, <2>7, <3>2 DEF AtRest, SameWaits
      <3>4. Kept(s, r)
        BY <2>2, <2>6 DEF Kept, SameReads, SameCancel
      <3>5. QED BY <1>1, <3>3, <3>4, KeptTurn DEF r, u
    <2>9. CASE UserAwaited(s, s.low)
      <3>1. UserAwaited(r, <<"prepareCover">>)
        BY <2>2, <2>6, <2>9
           DEF UserAwaited, SameReads, SameCancel, SameErrands, SameWaits
      <3>2. AtRest(r, r.low)
        BY <1>1, <2>2, <2>6, <2>7, <3>1 DEF AtRest, SameWaits
      <3>3. Kept(s, r)
        BY <2>2, <2>6 DEF Kept, SameReads, SameCancel
      <3>4. QED BY <1>1, <3>2, <3>3, KeptTurn DEF r, u
    <2>10. QED BY <1>1, <2>4, <2>8, <2>9 DEF AtRest
  <1>5. ASSUME s.storing
        PROVE  Turn(s, LowCommand([s EXCEPT !.storing = FALSE], "goToRetry"))
    <2> DEFINE u == [s EXCEPT !.storing = FALSE]
               r == LowCommand(u, "goToRetry")
    <2>1. u \in DriverState
      BY <1>1 DEF DriverState
    <2>2. /\ SameReads(s, u) /\ SameCancel(s, u) /\ SameWaits(s, u) /\ SameMotor(s, u)
          /\ ~u.storing /\ u.resetAlarm = s.resetAlarm /\ u.preparing = s.preparing
          /\ u.low = s.low /\ u.halt = s.halt
      BY <1>1 DEF DriverState, SameReads, SameCancel, SameWaits, SameMotor
    <2>3. OneServed(s, s.low)
      BY <1>1, <1>5 DEF AtRest, NobodyServed, UserAwaited
    <2>4. s.low = << >> /\ ~s.resetAlarm /\ ~s.preparing
      BY <1>5, <2>3 DEF OneServed
    <2> HIDE DEF u
    <2>5. /\ r \in DriverState
          /\ SameReads(u, r) /\ SameCancel(u, r) /\ SameErrands(u, r) /\ SameWaits(u, r)
          /\ SameMotor(u, r) /\ r.halt = u.halt
          /\ r.low = Append(u.low, "goToRetry")
      <3>1. Len(u.low) < Contexts
        BY <1>2, <2>2, <2>4
      <3>2. QED BY <1>2, <1>3, <2>1, <3>1, LowCommandFields
    <2> HIDE DEF r
    <2>6. r.low = <<"goToRetry">>
      BY <1>2, <2>2, <2>4, <2>5
    <2>7. OneServed(r, <<"goToRetry">>)
      BY <1>3, <2>2, <2>3, <2>4, <2>5
         DEF OneServed, SameReads, SameErrands, SameWaits, SameMotor
    <2>8. AtRest(r, r.low)
      BY <1>1, <2>2, <2>5, <2>6, <2>7 DEF AtRest, SameWaits
    <2>9. Kept(s, r)
      BY <2>2, <2>5 DEF Kept, SameReads, SameCancel
    <2>10. QED BY <1>1, <2>8, <2>9, KeptTurn DEF r, u
  <1>6. ASSUME s.resetAlarm
        PROVE  Turn(s, StateDownRotation([s EXCEPT !.resetAlarm = FALSE,
                                                   !.lastState = "downRotation"]))
    <2> DEFINE u == [s EXCEPT !.resetAlarm = FALSE, !.lastState = "downRotation"]
               r == ClearThen(u, "downRotation")
    <2>1. u \in DriverState
      BY <1>1 DEF DriverState
    <2>2. /\ SameReads(s, u) /\ SameCancel(s, u) /\ SameWaits(s, u) /\ SameMotor(s, u)
          /\ u.storing = s.storing /\ ~u.resetAlarm /\ u.preparing = s.preparing
          /\ u.low = s.low /\ u.halt = s.halt
      BY <1>1 DEF DriverState, SameReads, SameCancel, SameWaits, SameMotor
    <2>3. OneServed(s, s.low)
      BY <1>1, <1>6 DEF AtRest, NobodyServed, UserAwaited
    <2>4. s.low = << >> /\ ~s.storing /\ ~s.preparing
      BY <1>6, <2>3 DEF OneServed
    <2> HIDE DEF u
    <2>5. /\ r \in DriverState
          /\ SameReads(u, r) /\ SameCancel(u, r) /\ SameErrands(u, r) /\ SameWaits(u, r)
          /\ SameMotor(u, r) /\ r.halt = u.halt
          /\ r.low = Append(Append(u.low, "clear"), "downRotation")
      <3>1. Len(u.low) + 1 < Contexts
        BY <1>2, <2>2, <2>4
      <3>2. QED BY <1>2, <1>3, <2>1, <3>1, ClearThenFields
    <2> HIDE DEF r
    <2>6. r.low = <<"clear", "downRotation">>
      <3>1. Append(u.low, "clear") = <<"clear">>
        BY <1>2, <2>2, <2>4
      <3>2. QED BY <2>5, <3>1, LowPair
    <2>7. OneServed(r, <<"clear", "downRotation">>)
      BY <1>3, <2>2, <2>3, <2>4, <2>5
         DEF OneServed, SameReads, SameErrands, SameWaits, SameMotor
    <2>8. AtRest(r, r.low)
      BY <1>1, <2>2, <2>5, <2>6, <2>7 DEF AtRest, SameWaits
    <2>9. Kept(s, r)
      BY <2>2, <2>5 DEF Kept, SameReads, SameCancel
    <2>10. Turn(s, r)
      BY <1>1, <2>8, <2>9, KeptTurn
    <2>11. QED BY <2>10 DEF r, u, StateDownRotation
  <1>7. QED BY <1>4, <1>5, <1>6

(***************************************************************************)
(* The end of a step.                                                      *)
(***************************************************************************)
Settled(r) == [r EXCEPT !.calls = {},
                        !.cancelCallback = IF r.canceling \/ r.breaking THEN @ ELSE "none"]

LEMMA Settle ==
    ASSUME NEW r \in DriverState, Placed(r), r.halt = "no" => AtRest(r, r.low)
    PROVE  LET n == Settled(r) IN
           /\ n \in DriverState /\ n.calls = {} /\ Placed(n)
           /\ n.halt = "no" => AtRest(n, n.low)
           /\ SameReads(r, n) /\ n.canceling = r.canceling /\ n.breaking = r.breaking
           /\ r.canceling => n.cancelCallback = r.cancelCallback
  <1> DEFINE n == Settled(r)
  <1>1. n \in DriverState
    BY DEF DriverState, Settled
  <1>2. /\ SameReads(r, n) /\ n.canceling = r.canceling /\ n.breaking = r.breaking
        /\ (r.canceling => n.cancelCallback = r.cancelCallback) /\ n.calls = {}
    BY DEF DriverState, SameReads, Settled
  <1>3. SameErrands(r, n) /\ SameWaits(r, n) /\ SameMotor(r, n) /\ n.halt = r.halt /\ n.low = r.low
    BY DEF DriverState, SameErrands, SameWaits, SameMotor, Settled
  <1> HIDE DEF n
  <1>4. Placed(n)
    BY <1>2 DEF Placed, QueuedOnce, SameReads
  <1>5. n.halt = "no" => AtRest(n, n.low)
    BY <1>2, <1>3 DEF AtRest, NobodyServed, OneServed, UserAwaited, SameReads, SameErrands,
                      SameWaits, SameMotor
  <1>6. QED BY <1>1, <1>2, <1>4, <1>5 DEF n

(***************************************************************************)
(* What the threads rely on while no reset is prepared: a read that waits  *)
(* is queued, one that is out is over, an unfinished one wakes or tells    *)
(* who asked for it, and one that is being cancelled executes.             *)
(***************************************************************************)
Agree(s, rd, cn) ==
    \A f \in File :
       /\ s.block[f].state = "WAITING" => f \in ToSet(s.queue[Priority[f]])
       /\ rd[f] = "out" => s.block[f].state \in Final
       /\ rd[f] \in {"check", "asleep"} => f \in SyncFile
       /\ s.block[f].state \notin Final =>
             s.block[f].callback = IF f \in SyncFile THEN "sync" ELSE "async"
       /\ rd[f] = "asleep" \/ cn[f] = "asleep" => s.block[f].state \notin Final
       /\ cn[f] # "out" /\ s.block[f].state \notin Final =>
             f = s.executing /\ s.canceling /\ s.cancelCallback = "wake"

Readers == [File -> {"out", "check", "asleep", "async"}]
Cancellers == [File -> {"out", "check", "asleep"}]

LEMMA WokenFields ==
    ASSUME NEW r, NEW where, NEW f \in File
    PROVE  /\ Woken(r, where)[f] = "asleep" => where[f] = "asleep" /\ "wake" \notin r.calls
           /\ Woken(r, where)[f] = "out" =>
                 where[f] = "out" \/ (where[f] = "async" /\ f \in r.calls)
           /\ Woken(r, where)[f] \in {"check", "asleep"} => where[f] \in {"check", "asleep"}
           /\ where[f] = "out" => Woken(r, where)[f] = "out"
           /\ where[f] \in {"out", "check"} => Woken(r, where)[f] = where[f]
  BY DEF Woken

LEMMA WokenTypes ==
    ASSUME NEW r
    PROVE  /\ \A rd \in Readers : Woken(r, rd) \in Readers
           /\ \A cn \in Cancellers : Woken(r, cn) \in Cancellers
  BY DEF Woken, Readers, Cancellers

LEMMA SameAgree ==
    ASSUME NEW s, NEW r, Placed(s), Unanswered(s, r), NEW rd \in Readers, NEW cn \in Cancellers,
           r \in DriverState, Placed(r), r.halt = "no" => AtRest(r, r.low), Agree(s, rd, cn)
    PROVE  Agree(Settled(r), Woken(r, rd), Woken(r, cn))
  <1> DEFINE n == Settled(r)
  <1>1. /\ SameReads(r, n) /\ n.canceling = r.canceling
        /\ r.canceling => n.cancelCallback = r.cancelCallback
    BY Settle
  <1> HIDE DEF n
  <1>2. Woken(r, rd) = rd /\ Woken(r, cn) = cn
    <2>1. r.calls = {}
      BY DEF Unanswered
    <2>2. QED BY <2>1 DEF Woken, Readers, Cancellers
  <1>3. \A x \in Begun : x \notin Final /\ x # "WAITING"
    BY DEF Begun, Served, UserWait, Final
  <1>4. \A g \in File :
           /\ n.block[g].callback = s.block[g].callback
           /\ \/ n.block[g].state = s.block[g].state
              \/ n.block[g].state \in Begun /\ s.block[g].state \in Begun
    <2>1. ASSUME NEW g \in File
          PROVE  /\ n.block[g].callback = s.block[g].callback
                 /\ \/ n.block[g].state = s.block[g].state
                    \/ n.block[g].state \in Begun /\ s.block[g].state \in Begun
      <3>1. n.block = r.block
        BY <1>1 DEF SameReads
      <3>2. CASE g = s.executing
        BY <3>1, <3>2 DEF Unanswered, Placed
      <3>3. CASE g # s.executing
        <4>1. r.block[g].callback = s.block[g].callback /\ r.block[g].state = s.block[g].state
          BY <2>1, <3>3 DEF Unanswered
        <4>2. QED BY <3>1, <4>1
      <3>4. QED BY <3>2, <3>3
    <2>2. QED BY <2>1
  <1>5. n.queue = s.queue /\ n.executing = s.executing /\ n.canceling = s.canceling
        /\ (s.canceling => n.cancelCallback = s.cancelCallback)
    BY <1>1 DEF Unanswered, SameReads
  <1>6. QED BY <1>2, <1>3, <1>4, <1>5 DEF Agree, n

(* The read of f is over: it was answered, or withdrawn from the queue. *)
Done(s, r, f) ==
    /\ s.block[f].state \notin Final /\ r.block[f].state \in Final
    /\ \A g \in File : r.block[g].callback = s.block[g].callback
    /\ \A g \in File : g # f /\ g # r.executing => r.block[g].state = s.block[g].state
    /\ \A g \in File : g # f /\ g = r.executing => s.block[g].state \notin Final
    /\ \A g \in File : r.block[g].state = "WAITING" /\ g \in ToSet(s.queue[Priority[g]])
                          => s.block[g].state = "WAITING" /\ g \in ToSet(r.queue[Priority[g]])
    /\ \A g \in File : r.block[g].state = "WAITING" => s.block[g].state = "WAITING"
    /\ Callback(s, f) \subseteq r.calls /\ r.calls \subseteq Callback(s, f) \cup Wakes
    /\ IF f = s.executing THEN s.canceling /\ s.cancelCallback = "wake" => "wake" \in r.calls
       ELSE /\ r.executing = s.executing /\ r.canceling = s.canceling
            /\ r.cancelCallback = s.cancelCallback

LEMMA DoneAgree ==
    ASSUME NEW s, NEW r, NEW f \in File, Done(s, r, f), NEW rd \in Readers, NEW cn \in Cancellers,
           NEW cs \in Cancellers, \A g \in File : g # f => cs[g] = cn[g],
           cs[f] \in {cn[f], "check"},
           r \in DriverState, Placed(r), r.halt = "no" => AtRest(r, r.low), Agree(s, rd, cn)
    PROVE  Agree(Settled(r), Woken(r, rd), Woken(r, cs))
  <1> DEFINE n == Settled(r)
             rw == Woken(r, rd)
             cw == Woken(r, cs)
  <1>1. /\ SameReads(r, n) /\ n.canceling = r.canceling
        /\ r.canceling => n.cancelCallback = r.cancelCallback
    BY Settle
  <1>2. \A g \in File :
           /\ rw[g] = "asleep" => rd[g] = "asleep" /\ "wake" \notin r.calls
           /\ rw[g] = "out" => rd[g] = "out" \/ (rd[g] = "async" /\ g \in r.calls)
           /\ rw[g] \in {"check", "asleep"} => rd[g] \in {"check", "asleep"}
           /\ cw[g] = "asleep" => cs[g] = "asleep" /\ "wake" \notin r.calls
           /\ cs[g] = "out" => cw[g] = "out"
    BY WokenFields
  <1> HIDE DEF n, rw, cw
  <1>3. ASSUME NEW g \in File, g \in r.calls PROVE g = f
    <2>1. g \notin Wakes
      BY DvdAssumption DEF Wakes
    <2>2. g \in Callback(s, f)
      BY <1>3, <2>1 DEF Done
    <2>3. QED BY <2>1, <2>2 DEF Callback, Wakes
  <1>4. ASSUME NEW g \in File
        PROVE  /\ n.block[g].state = "WAITING" => g \in ToSet(n.queue[Priority[g]])
               /\ rw[g] \in {"check", "asleep"} => g \in SyncFile
    BY <1>1, <1>2 DEF Agree, Done, SameReads
  <1>5. ASSUME NEW g \in File, n.block[g].state \notin Final
        PROVE  /\ g # f /\ s.block[g].state \notin Final
               /\ n.block[g].callback = IF g \in SyncFile THEN "sync" ELSE "async"
    <2>1. g # f
      BY <1>1, <1>5 DEF Done, SameReads
    <2>2. s.block[g].state \notin Final
      BY <1>1, <1>5, <2>1 DEF Done, SameReads
    <2>3. QED BY <1>1, <2>1, <2>2 DEF Agree, Done, SameReads
  <1>6. ASSUME NEW g \in File, rw[g] = "out" PROVE n.block[g].state \in Final
    <2>1. CASE rd[g] = "out"
      <3>1. s.block[g].state \in Final
        BY <2>1 DEF Agree
      <3>2. QED BY <1>5, <3>1
    <2>2. CASE g \in r.calls
      BY <1>1, <1>3, <2>2 DEF Done, SameReads
    <2>3. QED BY <1>2, <1>6, <2>1, <2>2
  <1>7. ASSUME NEW g \in File, rw[g] = "asleep" \/ cw[g] = "asleep"
        PROVE  n.block[g].state \notin Final
    <2>0. "wake" \notin r.calls
      BY <1>2, <1>7
    <2>1. g # f
      <3>1. ASSUME g = f, rw[g] = "asleep" PROVE FALSE
        <4>1. f \in SyncFile /\ s.block[f].callback = "sync"
          BY <1>2, <3>1 DEF Agree, Done
        <4>2. QED BY <2>0, <4>1 DEF Done, Callback
      <3>2. ASSUME g = f, cw[g] = "asleep" PROVE FALSE
        <4>1. cn[f] = "asleep"
          BY <1>2, <3>2
        <4>2. f = s.executing /\ s.canceling /\ s.cancelCallback = "wake"
          BY <4>1 DEF Agree, Done
        <4>3. QED BY <2>0, <4>2 DEF Done
      <3>3. QED BY <1>7, <3>1, <3>2
    <2>2. s.block[g].state \notin Final
      BY <1>2, <1>7, <2>1 DEF Agree
    <2>3. CASE g = r.executing
      <3>1. r.block[g].state \in Begun
        BY <2>3 DEF Placed
      <3>2. QED BY <1>1, <3>1 DEF Begun, Served, UserWait, Final, SameReads
    <2>4. CASE g # r.executing
      BY <1>1, <2>1, <2>2, <2>4 DEF Done, SameReads
    <2>5. QED BY <2>3, <2>4
  <1>8. ASSUME NEW g \in File, cw[g] # "out", n.block[g].state \notin Final
        PROVE  g = n.executing /\ n.canceling /\ n.cancelCallback = "wake"
    <2>1. g # f /\ s.block[g].state \notin Final
      BY <1>5, <1>8
    <2>2. cn[g] # "out"
      BY <1>2, <1>8, <2>1
    <2>3. g = s.executing /\ s.canceling /\ s.cancelCallback = "wake"
      BY <2>1, <2>2 DEF Agree
    <2>4. QED BY <1>1, <2>1, <2>3 DEF Done, SameReads
  <1>9. QED BY <1>4, <1>5, <1>6, <1>7, <1>8 DEF Agree, n, rw, cw

LEMMA AnsweredDone ==
    ASSUME NEW s \in DriverState, Placed(s), NEW r \in DriverState, Placed(r),
           NEW result \in Final, Answered(s, r, result)
    PROVE  s.executing \in File /\ Done(s, r, s.executing)
  <1> DEFINE f == s.executing
  <1>1. /\ f \in File /\ s.queue \in [Prio -> Seq(File)] /\ Priority \in [File -> Prio]
        /\ r.executing \in File \cup {NoFile} /\ NoFile \notin File
    BY DvdAssumption DEF DriverState, Answered
  <1>2. /\ \A x \in Begun : x \notin Final /\ x # "WAITING"
        /\ "WAITING" \notin Final
    BY DEF Begun, Served, UserWait, Final
  <1>3. s.block[f].state \notin Final /\ r.block[f].state \in Final
    BY <1>1, <1>2 DEF Placed, Answered
  <1>4. r.executing # NoFile =>
           /\ s.block[r.executing].state = "WAITING" /\ r.block[r.executing].state \in Begun
    <2>1. ASSUME NEW p \in Prio, s.queue[p] # << >>, r.executing = Head(s.queue[p])
          PROVE  s.block[r.executing].state = "WAITING"
      BY <1>1, <2>1, TailSet DEF Placed, QueuedOnce
    <2>2. QED BY <1>1, <2>1 DEF Answered, NextRead, Placed
  <1>5. ASSUME NEW g \in File, r.block[g].state = "WAITING", g \in ToSet(s.queue[Priority[g]])
        PROVE  g \in ToSet(r.queue[Priority[g]])
    <2>1. g # r.executing
      BY <1>1, <1>2, <1>4, <1>5
    <2>2. ASSUME NEW p \in Prio, s.queue[p] # << >>, r.executing = Head(s.queue[p]),
                 r.queue = [s.queue EXCEPT ![p] = Tail(@)]
          PROVE  g \in ToSet(r.queue[Priority[g]])
      <3>1. ToSet(s.queue[p]) = ToSet(Tail(s.queue[p])) \cup {r.executing}
        BY <1>1, <2>2, TailSet DEF Placed, QueuedOnce
      <3>2. QED BY <1>1, <1>5, <2>1, <2>2, <3>1
    <2>3. QED BY <1>5, <2>2 DEF Answered, NextRead
  <1>6. ASSUME NEW g \in File, r.block[g].state = "WAITING" PROVE s.block[g].state = "WAITING"
    <2>1. g # f /\ g # r.executing
      BY <1>1, <1>2, <1>3, <1>4, <1>6
    <2>2. QED BY <1>6, <2>1 DEF Answered
  <1>7. Callback(s, f) \subseteq r.calls /\ r.calls \subseteq Callback(s, f) \cup Wakes
    <2>1. CallCancelCallback(s) \subseteq Wakes
      BY DEF CallCancelCallback, DriverState
    <2>2. QED BY <2>1 DEF Answered
  <1>8. s.canceling /\ s.cancelCallback = "wake" => "wake" \in r.calls
    BY DEF Answered, CallCancelCallback
  <1>9. \A g \in File : /\ r.block[g].callback = s.block[g].callback
                        /\ g # f /\ g # r.executing => r.block[g].state = s.block[g].state
    BY DEF Answered
  <1>10. \A g \in File : g # f /\ g = r.executing => s.block[g].state \notin Final
    BY <1>1, <1>2, <1>4
  <1> HIDE DEF f
  <1>11. QED BY <1>1, <1>3, <1>5, <1>6, <1>7, <1>8, <1>9, <1>10 DEF Done, f

(* A step of the driver leaves the threads in agreement. *)
LEMMA TurnAgree ==
    ASSUME NEW s \in DriverState, Placed(s), NEW r, Turn(s, r),
           NEW rd \in Readers, NEW cn \in Cancellers, Agree(s, rd, cn)
    PROVE  Agree(Settled(r), Woken(r, rd), Woken(r, cn))
  <1>1. r \in DriverState /\ Placed(r) /\ (r.halt = "no" => AtRest(r, r.low))
    BY DEF Turn
  <1>2. CASE Unanswered(s, r)
    BY <1>1, <1>2, SameAgree
  <1>3. CASE \E result \in Final : Answered(s, r, result)
    <2>1. s.executing \in File /\ Done(s, r, s.executing)
      BY <1>1, <1>3, AnsweredDone
    <2> DEFINE f == s.executing
    <2>2. f \in File /\ Done(s, r, f) /\ (\A g \in File : g # f => cn[g] = cn[g])
          /\ cn[f] \in {cn[f], "check"}
      BY <2>1
    <2> HIDE DEF f
    <2>3. QED BY <1>1, <2>2, DoneAgree
  <1>4. QED BY <1>2, <1>3 DEF Turn

(***************************************************************************)
(* A thread makes the driver ready when it serves nobody.                  *)
(***************************************************************************)
Unengaged(s) ==
    /\ s \in DriverState /\ s.halt = "no"
    /\ ~s.canceling /\ ~s.storing /\ ~s.resetAlarm /\ ~s.waitOpen
    /\ s.coverAlarm <=> s.waitClose
    /\ \/ s.low = << >> /\ ~s.preparing
       \/ s.low = <<"clear">> /\ ~s.preparing /\ ~s.waitClose /\ s.resume = "RESUME_7"
       \/ s.low = <<"prepareCover">> /\ s.preparing /\ s.resume # "NONE"
    /\ s.waitClose => s.resume = "COVER_OPENED"
    /\ s.motor # "WORKING" => s.resume # "NONE"

LEMMA FreeReady ==
    ASSUME Contexts >= 3, NEW s, Unengaged(s), QueuedOnce(s), \A f \in File : s.block[f].state \notin Begun,
           NEW r, r = StateReady(s)
    PROVE  /\ ReadyFields(s, r) /\ Placed(r) /\ AtRest(r, r.low)
           /\ \A f \in File : /\ r.block[f].callback = s.block[f].callback
                              /\ f # r.executing => r.block[f] = s.block[f]
                              /\ r.block[f].state = "WAITING" /\ f \in ToSet(s.queue[Priority[f]])
                                 => f \in ToSet(r.queue[Priority[f]])
           /\ r.executing # NoFile =>
                 r.executing \in File /\ s.block[r.executing].state = "WAITING"
  <1>1. s \in DriverState /\ NoFile \notin File /\ (s.motor # "WORKING" => s.resume # "NONE")
    BY DvdAssumption DEF Unengaged
  <1>2. Len(s.low) <= 1
    <2>1. CASE s.low = << >>
      BY <2>1
    <2>2. CASE s.low = <<"clear">>
      BY <2>2
    <2>3. CASE s.low = <<"prepareCover">>
      BY <2>3
    <2>4. QED BY <2>1, <2>2, <2>3 DEF Unengaged
  <1>3. ReadyFields(s, r)
    BY <1>1, <1>2, StateReadyFields
  <1>4. /\ Placed(r)
        /\ \A f \in File : /\ r.block[f].callback = s.block[f].callback
                           /\ f # r.executing => r.block[f] = s.block[f]
                           /\ r.block[f].state = "WAITING" /\ f \in ToSet(s.queue[Priority[f]])
                              => f \in ToSet(r.queue[Priority[f]])
        /\ r.executing # NoFile =>
              r.executing \in File /\ s.block[r.executing].state = "WAITING"
    BY <1>1, <1>3, ReadyPlaced
  <1>5. CASE r.executing = NoFile
    <2>1. /\ SameMotor(s, r) /\ SameWaits(s, r) /\ r.low = s.low /\ SameErrands(s, r)
          /\ SameCancel(s, r)
      BY <1>1, <1>3, <1>5 DEF ReadyFields
    <2>2. \A p \in Prio : r.queue[p] = << >>
      <3>1. s.queue \in [Prio -> Seq(File)]
        BY <1>1 DEF DriverState
      <3>2. ASSUME NEW p \in Prio, s.queue[p] # << >>, r.executing = Head(s.queue[p]) PROVE FALSE
        BY <1>1, <1>5, <3>1, <3>2, TailSet
      <3>3. QED BY <1>3, <3>2 DEF ReadyFields, NextRead
    <2>3. NobodyServed(r, r.low)
      BY <1>5, <2>1, <2>2
         DEF Unengaged, NobodyServed, SameMotor, SameWaits, SameErrands, SameCancel
    <2>4. AtRest(r, r.low)
      BY <2>1, <2>3 DEF Unengaged, AtRest, SameWaits
    <2>5. QED BY <1>3, <1>4, <2>4
  <1>6. CASE r.executing \in File
    <2>1. PICK state \in Begun :
             /\ r.block = [s.block EXCEPT ![r.executing].state = state]
             /\ \/ /\ state \in UserWait /\ state = s.resume
                   /\ r.low = s.low
                   /\ r.waitOpen = (s.waitOpen \/ ~s.waitClose)
                   /\ r.coverAlarm = (s.coverAlarm \/ ~(s.waitOpen \/ s.waitClose))
                \/ /\ state = "COVER_CLOSED"
                   /\ s.resume \notin {"NONE", "COVER_OPENED"}
                   /\ r.low = Append(s.low, "reset")
                   /\ r.motor = "WORKING" /\ SameWaits(s, r)
                \/ /\ state = "BUSY" /\ s.resume = "NONE"
                   /\ r.low = Append(Append(s.low, "clear"), "busy")
                   /\ r.motor = "WORKING" /\ SameWaits(s, r)
      BY <1>1, <1>3, <1>6 DEF ReadyFields
    <2>2. s.block \in [File -> Block] /\ s.block[r.executing] \in Block
      BY <1>1, <1>6 DEF DriverState
    <2>3. r.block[r.executing].state = state
      BY <1>6, <2>1, <2>2 DEF Block
    <2>4. SameErrands(s, r) /\ SameCancel(s, r) /\ r.waitClose = s.waitClose /\ r.executing # NoFile
      BY <1>1, <1>3, <1>6 DEF ReadyFields
    <2>5. CASE /\ state \in UserWait /\ state = s.resume
               /\ r.low = s.low
               /\ r.waitOpen = (s.waitOpen \/ ~s.waitClose)
               /\ r.coverAlarm = (s.coverAlarm \/ ~(s.waitOpen \/ s.waitClose))
      <3>1. (r.waitOpen <=> ~r.waitClose) /\ r.coverAlarm
        BY <2>4, <2>5 DEF Unengaged
      <3>2. (r.waitClose => state = "COVER_OPENED") /\ s.resume # "RESUME_7"
        BY <2>4, <2>5 DEF Unengaged, UserWait
      <3>3. UserAwaited(r, r.low)
        BY <2>3, <2>4, <2>5, <3>1, <3>2 DEF Unengaged, UserAwaited, SameErrands, SameCancel
      <3>4. AtRest(r, r.low)
        BY <3>1, <3>3 DEF AtRest
      <3>5. QED BY <1>3, <1>4, <3>4
    <2>6. CASE /\ state = "COVER_CLOSED"
               /\ s.resume \notin {"NONE", "COVER_OPENED"}
               /\ r.low = Append(s.low, "reset")
               /\ r.motor = "WORKING" /\ SameWaits(s, r)
      <3>1. ~s.waitClose /\ "reset" \in Drives /\ state \in Served
        BY <2>6 DEF Unengaged, Drives, Served
      <3>2. \/ r.low = <<"reset">> /\ ~s.preparing
            \/ r.low = <<"clear", "reset">> /\ ~s.preparing
            \/ r.low = <<"prepareCover", "reset">> /\ s.preparing
        <4>1. Append(<< >>, "reset") = <<"reset">>
          OBVIOUS
        <4>2. CASE s.low = << >> /\ ~s.preparing
          BY <2>6, <4>1, <4>2
        <4>3. CASE s.low = <<"clear">> /\ ~s.preparing
          BY <2>6, <4>3, LowPair
        <4>4. CASE s.low = <<"prepareCover">> /\ s.preparing
          BY <2>6, <4>4, LowPair
        <4>5. QED BY <4>2, <4>3, <4>4 DEF Unengaged
      <3>3. OneServed(r, r.low)
        BY <2>3, <2>4, <2>6, <3>1, <3>2 DEF Unengaged, OneServed, SameErrands, SameWaits
      <3>4. AtRest(r, r.low)
        BY <2>6, <3>1, <3>3 DEF Unengaged, AtRest, SameWaits
      <3>5. QED BY <1>3, <1>4, <3>4
    <2>7. CASE /\ state = "BUSY" /\ s.resume = "NONE"
               /\ r.low = Append(Append(s.low, "clear"), "busy")
               /\ r.motor = "WORKING" /\ SameWaits(s, r)
      <3>1. ~s.waitClose /\ "busy" \in Drives /\ state \in Served /\ s.low = << >> /\ ~s.preparing
        BY <2>7 DEF Unengaged, Drives, Served
      <3>2. r.low = <<"clear", "busy">>
        <4>1. Append(<< >>, "clear") = <<"clear">>
          OBVIOUS
        <4>2. QED BY <2>7, <3>1, <4>1, LowPair
      <3>3. OneServed(r, r.low)
        BY <2>3, <2>4, <2>7, <3>1, <3>2 DEF Unengaged, OneServed, SameErrands, SameWaits
      <3>4. AtRest(r, r.low)
        BY <2>7, <3>1, <3>3 DEF Unengaged, AtRest, SameWaits
      <3>5. QED BY <1>3, <1>4, <3>4
    <2>8. QED BY <2>1, <2>5, <2>6, <2>7
  <1>7. QED BY <1>3, <1>5, <1>6 DEF ReadyFields

(***************************************************************************)
(* A read begins.                                                          *)
(***************************************************************************)
Requested(s, f) ==
    [s EXCEPT !.block[f] = [state |-> "WAITING", transfers |-> Transfers[f],
                            callback |-> IF f \in SyncFile THEN "sync" ELSE "async"],
              !.queue[Priority[f]] = Append(@, f)]

Started(q) == IF q.executing = NoFile THEN StateReady(q) ELSE q

ReadFields(s, f, r) ==
    /\ r \in DriverState /\ Placed(r) /\ r.halt = "no" /\ AtRest(r, r.low)
    /\ SameCancel(s, r)
    /\ \A g \in File : g # f => r.block[g] = s.block[g]
    /\ r.block[f].state \in Begun \cup {"WAITING"}
    /\ r.block[f].callback = IF f \in SyncFile THEN "sync" ELSE "async"
    /\ r.block[f].state = "WAITING" => f \in ToSet(r.queue[Priority[f]])
    /\ \A g \in File : g # f /\ g \in ToSet(s.queue[Priority[g]])
                          => g \in ToSet(r.queue[Priority[g]])
    /\ LET w == [s.queue EXCEPT ![Priority[f]] = Append(@, f)] IN
       IF s.executing = NoFile THEN NextRead(w, r)
       ELSE r.executing = s.executing /\ r.queue = w

LEMMA EmptyQueue == << >> \in Seq(File) /\ ToSet(<< >>) = {}
  <1>1. << >> \in Seq(File)
    OBVIOUS
  <1>2. QED BY <1>1 DEF ToSet

LEMMA ReadStarts ==
    ASSUME Contexts >= 3, NEW s, Resting(s), NEW f \in File, s.block[f].state \in Final
    PROVE  ReadFields(s, f, Started(Requested(s, f)))
  <1> DEFINE b == [state |-> "WAITING", transfers |-> Transfers[f],
                   callback |-> IF f \in SyncFile THEN "sync" ELSE "async"]
             w == [s.queue EXCEPT ![Priority[f]] = Append(@, f)]
             bs == [s.block EXCEPT ![f] = b]
             q == [s EXCEPT !.block = bs, !.queue = w]
             r == Started(q)
  <1>1. /\ s \in DriverState /\ Placed(s) /\ s.calls = {} /\ s.halt = "no" /\ AtRest(s, s.low)
        /\ Priority[f] \in Prio /\ Priority \in [File -> Prio] /\ Transfers[f] \in Nat \ {0}
        /\ s.queue \in [Prio -> Seq(File)] /\ s.block \in [File -> Block]
        /\ s.executing \in File \cup {NoFile} /\ NoFile \notin File
    BY DvdAssumption DEF Resting, DriverState
  <1>2. Requested(s, f) = q
    BY DEF Requested
  <1>3. b \in Block /\ b.state = "WAITING" /\ b.transfers = Transfers[f] /\ b.transfers > 0
        /\ b.callback = IF f \in SyncFile THEN "sync" ELSE "async"
    BY <1>1 DEF Block
  <1> HIDE DEF b
  <1>4. /\ bs \in [File -> Block] /\ bs[f] = b /\ \A g \in File : g # f => bs[g] = s.block[g]
    BY <1>1, <1>3
  <1>5. /\ "WAITING" \notin Final /\ "WAITING" \notin Begun
        /\ \A x \in Begun : x \notin Final
    BY DEF Final, Begun, Served, UserWait
  <1>6. f # s.executing /\ \A p \in Prio : f \notin ToSet(s.queue[p])
    BY <1>1, <1>5 DEF Placed, QueuedOnce
  <1>7. /\ w \in [Prio -> Seq(File)]
        /\ \A p \in Prio : /\ IsInjective(w[p])
                           /\ p # Priority[f] => w[p] = s.queue[p]
        /\ ToSet(w[Priority[f]]) = ToSet(s.queue[Priority[f]]) \cup {f}
    <2> DEFINE k == s.queue[Priority[f]]
               a == Append(k, f)
    <2>1. k \in Seq(File) /\ IsInjective(k) /\ f \notin ToSet(k)
      BY <1>1, <1>6 DEF Placed, QueuedOnce
    <2>2. a \in Seq(File) /\ ToSet(a) = ToSet(k) \cup {f} /\ IsInjective(a)
      <3> HIDE DEF k
      <3>1. QED BY <2>1, AppendSet
    <2>3. w = [s.queue EXCEPT ![Priority[f]] = a]
      OBVIOUS
    <2> HIDE DEF a, w
    <2>4. /\ w \in [Prio -> Seq(File)] /\ w[Priority[f]] = a
          /\ \A p \in Prio : p # Priority[f] => w[p] = s.queue[p]
      BY <1>1, <2>2, <2>3
    <2>5. QED BY <1>1, <2>2, <2>4 DEF Placed, QueuedOnce
  <1> HIDE DEF bs, w
  <1>8. q \in DriverState
    BY <1>1, <1>4, <1>7 DEF DriverState
  <1>9. /\ q.block = bs /\ q.queue = w /\ q.executing = s.executing
        /\ SameCancel(s, q) /\ SameErrands(s, q) /\ SameWaits(s, q) /\ SameMotor(s, q)
        /\ q.low = s.low /\ q.halt = "no"
    BY <1>1 DEF DriverState, SameCancel, SameErrands, SameWaits, SameMotor
  <1> HIDE DEF q, r
  <1>10. QueuedOnce(q)
    <2>1. ASSUME NEW p \in Prio, NEW g \in File, g \in ToSet(q.queue[p])
          PROVE  Priority[g] = p /\ q.block[g].state = "WAITING"
      <3>1. CASE g = f
        <4>1. p = Priority[f]
          BY <1>6, <1>7, <1>9, <2>1, <3>1
        <4>2. QED BY <1>3, <1>4, <1>9, <3>1, <4>1
      <3>2. CASE g # f
        <4>1. g \in ToSet(s.queue[p])
          BY <1>7, <1>9, <2>1, <3>2
        <4>2. QED BY <1>1, <1>4, <1>9, <3>2, <4>1 DEF Placed, QueuedOnce
      <3>3. QED BY <3>1, <3>2
    <2>2. ASSUME NEW g \in File
          PROVE  /\ q.block[g].transfers <= Transfers[g]
                 /\ q.block[g].state \notin Final => q.block[g].transfers > 0
      <3>1. CASE g = f
        BY <1>1, <1>3, <1>4, <1>9, <3>1
      <3>2. CASE g # f
        BY <1>1, <1>4, <1>9, <3>2 DEF Placed, QueuedOnce
      <3>3. QED BY <3>1, <3>2
    <2>3. QED BY <1>7, <1>9, <2>1, <2>2 DEF QueuedOnce
  <1>11. \A g \in File : q.block[g].state \in Begun <=> g = s.executing
    <2>1. ASSUME NEW g \in File PROVE q.block[g].state \in Begun <=> g = s.executing
      <3>1. CASE g = f
        BY <1>3, <1>4, <1>5, <1>6, <1>9, <3>1
      <3>2. CASE g # f
        BY <1>1, <1>4, <1>9, <3>2 DEF Placed
      <3>3. QED BY <3>1, <3>2
    <2>2. QED BY <2>1
  <1>12. \A g \in File : g # f /\ g \in ToSet(s.queue[Priority[g]]) => g \in ToSet(w[Priority[g]])
    BY <1>1, <1>7
  <1>13. CASE s.executing # NoFile
    <2>1. r = q
      BY <1>9, <1>13 DEF r, Started
    <2>2. Placed(q)
      BY <1>9, <1>10, <1>11 DEF Placed
    <2>3. q.block[s.executing] = s.block[s.executing]
      BY <1>1, <1>4, <1>6, <1>9, <1>13
    <2>4. AtRest(q, q.low)
      <3>1. CASE OneServed(s, s.low)
        <4>1. OneServed(q, q.low)
          BY <1>9, <2>3, <3>1 DEF OneServed, SameErrands, SameWaits, SameMotor
        <4>2. QED BY <1>1, <1>9, <4>1 DEF AtRest, SameWaits
      <3>2. CASE UserAwaited(s, s.low)
        <4>1. UserAwaited(q, q.low)
          BY <1>9, <2>3, <3>2 DEF UserAwaited, SameCancel, SameErrands, SameWaits
        <4>2. QED BY <1>1, <1>9, <4>1 DEF AtRest, SameWaits
      <3>3. QED BY <1>1, <1>13, <3>1, <3>2 DEF AtRest, NobodyServed
    <2>5. q.queue = [s.queue EXCEPT ![Priority[f]] = Append(@, f)]
      BY <1>9 DEF w
    <2>6. ReadFields(s, f, q)
      BY <1>3, <1>4, <1>7, <1>8, <1>9, <1>12, <1>13, <2>2, <2>4, <2>5 DEF ReadFields
    <2>7. QED BY <1>2, <2>1, <2>6 DEF r
  <1>14. CASE s.executing = NoFile
    <2>1. r = StateReady(q)
      BY <1>9, <1>14 DEF r, Started
    <2>2. NobodyServed(s, s.low)
      BY <1>1, <1>14 DEF AtRest, OneServed, UserAwaited
    <2>3. Unengaged(q)
      BY <1>1, <1>8, <1>9, <2>2
         DEF Unengaged, AtRest, NobodyServed, SameCancel, SameErrands, SameWaits, SameMotor
    <2>4. \A g \in File : q.block[g].state \notin Begun
      BY <1>1, <1>11, <1>14
    <2>5. /\ ReadyFields(q, r) /\ Placed(r) /\ AtRest(r, r.low)
          /\ \A g \in File : /\ r.block[g].callback = q.block[g].callback
                             /\ g # r.executing => r.block[g] = q.block[g]
                             /\ r.block[g].state = "WAITING" /\ g \in ToSet(q.queue[Priority[g]])
                                => g \in ToSet(r.queue[Priority[g]])
          /\ r.executing # NoFile =>
                r.executing \in File /\ q.block[r.executing].state = "WAITING"
      BY <1>10, <2>1, <2>3, <2>4, FreeReady
    <2>6. /\ r \in DriverState /\ NextRead(w, r) /\ SameCancel(q, r) /\ r.halt = "no"
      BY <1>9, <2>5 DEF ReadyFields
    <2>7. \A p \in Prio : s.queue[p] = << >>
      BY <2>2 DEF NobodyServed
    <2>8. r.executing = f
      <3>1. << >> \in Seq(File) /\ ToSet(<< >>) = {}
        BY EmptyQueue
      <3>2. ToSet(w[Priority[f]]) = {f} /\ w[Priority[f]] \in Seq(File)
        BY <1>1, <1>7, <2>7, <3>1
      <3>3. w[Priority[f]] # << >>
        BY <3>1, <3>2
      <3>4. \A p \in Prio : w[p] # << >> => p = Priority[f]
        BY <1>7, <2>7
      <3>5. Head(w[Priority[f]]) = f
        BY <3>2, <3>3, TailSet
      <3>6. QED BY <1>1, <2>6, <3>3, <3>4, <3>5 DEF NextRead
    <2>9. \A g \in File : g # f => r.block[g] = s.block[g]
      BY <1>4, <1>9, <2>5, <2>8
    <2>10. r.block[f].state \in Begun
      BY <2>5, <2>8 DEF Placed
    <2>11. r.block[f].callback = IF f \in SyncFile THEN "sync" ELSE "async"
      BY <1>3, <1>4, <1>9, <2>5
    <2>12. \A g \in File : g # f => g \notin ToSet(s.queue[Priority[g]])
      <3>1. ToSet(<< >>) = {}
        BY EmptyQueue
      <3>2. QED BY <1>1, <2>7, <3>1
    <2>13. NextRead([s.queue EXCEPT ![Priority[f]] = Append(@, f)], r)
      BY <2>6 DEF w
    <2>14. SameCancel(s, r)
      BY <1>9, <2>6 DEF SameCancel
    <2>15. ReadFields(s, f, r)
      BY <1>5, <1>14, <2>5, <2>6, <2>9, <2>10, <2>11, <2>12, <2>13, <2>14 DEF ReadFields
    <2>16. QED BY <1>2, <2>15 DEF r
  <1>15. QED BY <1>13, <1>14

LEMMA ReadAgree ==
    ASSUME Contexts >= 3, NEW s, Resting(s), NEW f \in File, NEW r, ReadFields(s, f, r),
           NEW rd \in Readers, NEW cn \in Cancellers, Agree(s, rd, cn), rd[f] = "out", cn[f] = "out"
    PROVE  Agree(Settled(r),
                 Woken(r, [rd EXCEPT ![f] = IF f \in SyncFile THEN "check" ELSE "async"]),
                 Woken(r, cn))
  <1> DEFINE n == Settled(r)
             rf == [rd EXCEPT ![f] = IF f \in SyncFile THEN "check" ELSE "async"]
  <1>1. r \in DriverState /\ Placed(r) /\ AtRest(r, r.low)
    BY DEF ReadFields
  <1>2. /\ SameReads(r, n) /\ n.canceling = r.canceling
        /\ r.canceling => n.cancelCallback = r.cancelCallback
    BY <1>1, Settle
  <1>3. rf \in Readers /\ rf[f] = (IF f \in SyncFile THEN "check" ELSE "async")
        /\ \A g \in File : g # f => rf[g] = rd[g]
    BY DEF Readers
  <1> HIDE DEF n, rf
  <1>4. Woken(r, rf) = rf /\ Woken(r, cn) = cn
    <2>1. r.calls = {}
      BY DEF ReadFields, Resting, SameCancel
    <2>2. QED BY <1>3, <2>1 DEF Woken, Readers, Cancellers
  <1>5. /\ n.block = r.block /\ n.queue = r.queue /\ n.executing = r.executing
        /\ n.canceling = s.canceling
        /\ (s.canceling => n.cancelCallback = s.cancelCallback)
    BY <1>2 DEF ReadFields, SameCancel, SameReads
  <1>6. ASSUME NEW g \in File
        PROVE  /\ n.block[g].state = "WAITING" => g \in ToSet(n.queue[Priority[g]])
               /\ rf[g] = "out" => n.block[g].state \in Final
               /\ rf[g] \in {"check", "asleep"} => g \in SyncFile
               /\ n.block[g].state \notin Final =>
                     n.block[g].callback = IF g \in SyncFile THEN "sync" ELSE "async"
               /\ rf[g] = "asleep" \/ cn[g] = "asleep" => n.block[g].state \notin Final
               /\ cn[g] # "out" /\ n.block[g].state \notin Final =>
                     g = n.executing /\ n.canceling /\ n.cancelCallback = "wake"
    <2>1. CASE g = f
      BY <1>3, <1>5, <2>1 DEF ReadFields
    <2>2. CASE g # f
      <3>1. n.block[g] = s.block[g] /\ rf[g] = rd[g]
            /\ (g \in ToSet(s.queue[Priority[g]]) => g \in ToSet(n.queue[Priority[g]]))
        BY <1>3, <1>5, <2>2 DEF ReadFields
      <3>2. s.executing # NoFile => n.executing = s.executing
        BY <1>5 DEF ReadFields
      <3>3. g # NoFile
        BY DvdAssumption
      <3>4. QED BY <1>5, <3>1, <3>2, <3>3 DEF Agree
    <2>3. QED BY <2>1, <2>2
  <1>7. QED BY <1>4, <1>6 DEF Agree, n, rf

(***************************************************************************)
(* A cancel: of a read that is over, that is served, that waits, or for    *)
(* which the user is awaited.                                              *)
(***************************************************************************)
Rested(r) == r \in DriverState /\ Placed(r) /\ r.halt = "no" /\ AtRest(r, r.low)

AlreadyOver(s, f, callback, r) ==
    /\ s.block[f].state \in Final
    /\ SameReads(s, r) /\ r.canceling = s.canceling /\ r.breaking = s.breaking
    /\ r.cancelCallback = s.cancelCallback /\ r.calls = {callback} \ {"none"}

AskedFor(s, f, callback, r) ==
    /\ s.block[f].state \in Served /\ f = s.executing /\ ~s.canceling
    /\ SameReads(s, r) /\ r.canceling /\ r.cancelCallback = callback /\ r.calls = {}

(* Nobody but the user of the read and the canceller is called. *)
OwnCalls(s, f, callback, r) ==
    /\ r.cancelCallback = s.cancelCallback
    /\ r.calls \subseteq Callback(s, f) \cup {callback}

Withdrawn(s, f, r) ==
    /\ s.block[f].state = "WAITING" /\ f # s.executing
    /\ r.executing = s.executing
    /\ r.queue = [s.queue EXCEPT ![Priority[f]] = Without(@, f)]
    /\ \A g \in File : r.block[g].state = IF g = f THEN "CANCELED" ELSE s.block[g].state
    /\ r.canceling = s.canceling /\ r.breaking = s.breaking
    /\ Done(s, r, f)

CanceledNow(s, f, r) ==
    /\ f = s.executing /\ ~s.canceling
    /\ NextRead(s.queue, r)
    /\ r.block[f].state = "CANCELED"
    /\ \A g \in File : g # f /\ g # r.executing => r.block[g].state = s.block[g].state
    /\ r.canceling = s.canceling /\ r.breaking = s.breaking
    /\ Done(s, r, f)

LEMMA OverCancel ==
    ASSUME NEW s, NEW f \in File, NEW callback \in Wakes \cup {"none"}, Resting(s),
           s.block[f].state \in Final
    PROVE  LET r == [s EXCEPT !.calls = @ \cup ({callback} \ {"none"})] IN
           Rested(r) /\ AlreadyOver(s, f, callback, r)
  <1> DEFINE r == [s EXCEPT !.calls = @ \cup ({callback} \ {"none"})]
  <1>1. s \in DriverState /\ Placed(s) /\ s.calls = {} /\ s.halt = "no" /\ AtRest(s, s.low)
    BY DEF Resting
  <1>2. r \in DriverState
    BY <1>1 DEF DriverState
  <1>3. /\ SameReads(s, r) /\ SameErrands(s, r) /\ SameWaits(s, r) /\ SameMotor(s, r)
        /\ r.canceling = s.canceling /\ r.breaking = s.breaking
        /\ r.cancelCallback = s.cancelCallback /\ r.calls = {callback} \ {"none"}
        /\ r.low = s.low /\ r.halt = s.halt
    BY <1>1 DEF DriverState, SameReads, SameErrands, SameWaits, SameMotor
  <1> HIDE DEF r
  <1>4. Placed(r)
    BY <1>1, <1>3 DEF Placed, QueuedOnce, SameReads
  <1>5. AtRest(r, r.low)
    BY <1>1, <1>3 DEF AtRest, NobodyServed, OneServed, UserAwaited, SameReads, SameErrands,
                      SameWaits, SameMotor
  <1>6. Rested(r) /\ AlreadyOver(s, f, callback, r)
    BY <1>1, <1>2, <1>3, <1>4, <1>5 DEF Rested, AlreadyOver
  <1>7. QED BY <1>6 DEF r

Asking(s, f, callback) ==
    [s EXCEPT !.canceling = TRUE, !.cancelCallback = callback,
              !.breaking = @ \/ s.block[f].state = "BUSY"]

LEMMA AskedCancel ==
    ASSUME NEW s, NEW f \in File, NEW callback \in Wakes \cup {"none"}, Resting(s),
           s.block[f].state \in Served, ~s.canceling
    PROVE  LET r == Asking(s, f, callback) IN
           Rested(r) /\ AskedFor(s, f, callback, r)
  <1> DEFINE r == [s EXCEPT !.canceling = TRUE, !.cancelCallback = callback,
                            !.breaking = @ \/ s.block[f].state = "BUSY"]
  <1>1. s \in DriverState /\ Placed(s) /\ s.calls = {} /\ s.halt = "no" /\ AtRest(s, s.low)
    BY DEF Resting
  <1>2. r \in DriverState
    BY <1>1 DEF DriverState
  <1>3. /\ SameReads(s, r) /\ SameErrands(s, r) /\ SameWaits(s, r) /\ SameMotor(s, r)
        /\ r.canceling /\ r.cancelCallback = callback /\ r.calls = s.calls
        /\ r.low = s.low /\ r.halt = s.halt
    BY <1>1 DEF DriverState, SameReads, SameErrands, SameWaits, SameMotor
  <1> HIDE DEF r
  <1>4. Placed(r)
    BY <1>1, <1>3 DEF Placed, QueuedOnce, SameReads
  <1>5. f = s.executing /\ f # NoFile
    BY <1>1, DvdAssumption DEF Placed, Begun
  <1>6. OneServed(s, s.low)
    BY <1>1, <1>5 DEF AtRest, NobodyServed, UserAwaited, Served, UserWait
  <1>7. AtRest(r, r.low)
    BY <1>1, <1>3, <1>6 DEF AtRest, OneServed, SameReads, SameErrands, SameWaits, SameMotor
  <1>8. Rested(r) /\ AskedFor(s, f, callback, r)
    BY <1>1, <1>2, <1>3, <1>4, <1>5, <1>7 DEF Rested, AskedFor
  <1>9. QED BY <1>8 DEF r, Asking

Withdrawing(s, f, callback) ==
    [s EXCEPT !.block[f].state = "CANCELED",
              !.calls = @ \cup Callback(s, f) \cup ({callback} \ {"none"}),
              !.queue[Priority[f]] = Without(@, f)]

LEMMA WaitingCancel ==
    ASSUME NEW s, NEW f \in File, NEW callback \in Wakes \cup {"none"}, Resting(s),
           s.block[f].state = "WAITING", f \in ToSet(s.queue[Priority[f]])
    PROVE  LET r == Withdrawing(s, f, callback) IN
           Rested(r) /\ Withdrawn(s, f, r) /\ OwnCalls(s, f, callback, r)
  <1> DEFINE k == s.queue[Priority[f]]
             w == [s.queue EXCEPT ![Priority[f]] = Without(@, f)]
             bs == [s.block EXCEPT ![f].state = "CANCELED"]
             cs == s.calls \cup Callback(s, f) \cup ({callback} \ {"none"})
             r == [s EXCEPT !.block = bs, !.calls = cs, !.queue = w]
  <1>1. /\ s \in DriverState /\ Placed(s) /\ s.calls = {} /\ s.halt = "no" /\ AtRest(s, s.low)
        /\ Priority[f] \in Prio /\ Priority \in [File -> Prio]
        /\ s.queue \in [Prio -> Seq(File)] /\ s.block \in [File -> Block]
        /\ NoFile \notin File
    BY DvdAssumption DEF Resting, DriverState
  <1>2. Withdrawing(s, f, callback) = r
    BY DEF Withdrawing
  <1>3. /\ bs \in [File -> Block]
        /\ \A g \in File : /\ bs[g].callback = s.block[g].callback
                           /\ bs[g].transfers = s.block[g].transfers
                           /\ bs[g].state = IF g = f THEN "CANCELED" ELSE s.block[g].state
                           /\ g # f => bs[g] = s.block[g]
    BY <1>1 DEF Block, Final
  <1>4. /\ w \in [Prio -> Seq(File)]
        /\ \A p \in Prio : IsInjective(w[p]) /\ ToSet(w[p]) = ToSet(s.queue[p]) \ {f}
    <2>1. k \in Seq(File) /\ IsInjective(k) /\ f \in ToSet(k)
      BY <1>1 DEF Placed, QueuedOnce
    <2> DEFINE a == Without(k, f)
    <2>2. a \in Seq(File) /\ ToSet(a) = ToSet(k) \ {f} /\ IsInjective(a)
      <3> HIDE DEF k
      <3>1. QED BY <2>1, WithoutSet, WithoutElements
    <2>3. w = [s.queue EXCEPT ![Priority[f]] = a]
      OBVIOUS
    <2> HIDE DEF a, w
    <2>4. /\ w \in [Prio -> Seq(File)] /\ w[Priority[f]] = a
          /\ \A p \in Prio : p # Priority[f] => w[p] = s.queue[p]
      BY <1>1, <2>2, <2>3
    <2>5. \A p \in Prio : p # Priority[f] => f \notin ToSet(s.queue[p])
      BY <1>1 DEF Placed, QueuedOnce
    <2>6. QED BY <1>1, <2>2, <2>4, <2>5 DEF Placed, QueuedOnce
  <1>5. /\ cs = Callback(s, f) \cup ({callback} \ {"none"}) /\ cs \in SUBSET (File \cup Wakes)
        /\ cs \subseteq Callback(s, f) \cup Wakes /\ cs \subseteq Callback(s, f) \cup {callback}
    BY <1>1 DEF Callback, Wakes
  <1> HIDE DEF bs, w, cs
  <1>6. r \in DriverState
    BY <1>1, <1>3, <1>4, <1>5 DEF DriverState
  <1>7. /\ r.block = bs /\ r.queue = w /\ r.executing = s.executing /\ r.calls = cs
        /\ SameErrands(s, r) /\ SameWaits(s, r) /\ SameMotor(s, r)
        /\ r.canceling = s.canceling /\ r.breaking = s.breaking
        /\ r.cancelCallback = s.cancelCallback
        /\ r.low = s.low /\ r.halt = "no"
    BY <1>1 DEF DriverState, SameErrands, SameWaits, SameMotor
  <1> HIDE DEF r
  <1>8. /\ "CANCELED" \in Final /\ "CANCELED" \notin Begun
        /\ "WAITING" \notin Final /\ "WAITING" \notin Begun
    BY DEF Final, Begun, Served, UserWait
  <1>9. f # s.executing
    BY <1>1, <1>8 DEF Placed
  <1>10. Placed(r)
    <2>1. ASSUME NEW p \in Prio, NEW g \in File, g \in ToSet(r.queue[p])
          PROVE  Priority[g] = p /\ r.block[g].state = "WAITING"
      BY <1>1, <1>3, <1>4, <1>7, <2>1 DEF Placed, QueuedOnce
    <2>2. ASSUME NEW g \in File
          PROVE  /\ r.block[g].transfers <= Transfers[g]
                 /\ r.block[g].state \notin Final => r.block[g].transfers > 0
                 /\ r.block[g].state \in Begun <=> g = r.executing
      BY <1>1, <1>3, <1>7, <1>8, <1>9 DEF Placed, QueuedOnce
    <2>3. QED BY <1>4, <1>7, <2>1, <2>2 DEF Placed, QueuedOnce
  <1>11. AtRest(r, r.low)
    <2>1. ~NobodyServed(s, s.low)
      <3>1. ASSUME s.queue[Priority[f]] = << >> PROVE FALSE
        BY <3>1, EmptyQueue
      <3>2. QED BY <1>1, <3>1 DEF NobodyServed
    <2>2. CASE OneServed(s, s.low)
      <3>1. s.executing \in File
        BY <1>1, <2>2 DEF OneServed, DriverState
      <3>2. r.block[s.executing] = s.block[s.executing]
        BY <1>3, <1>7, <1>9, <3>1
      <3>3. OneServed(r, r.low)
        BY <1>7, <2>2, <3>2 DEF OneServed, SameErrands, SameWaits, SameMotor
      <3>4. QED BY <1>1, <1>7, <3>3 DEF AtRest, SameWaits
    <2>3. CASE UserAwaited(s, s.low)
      <3>1. s.executing \in File
        BY <1>1, <2>3 DEF UserAwaited, DriverState
      <3>2. r.block[s.executing] = s.block[s.executing]
        BY <1>3, <1>7, <1>9, <3>1
      <3>3. UserAwaited(r, r.low)
        BY <1>7, <2>3, <3>2 DEF UserAwaited, SameErrands, SameWaits
      <3>4. QED BY <1>1, <1>7, <3>3 DEF AtRest, SameWaits
    <2>4. QED BY <1>1, <2>1, <2>2, <2>3 DEF AtRest
  <1>12. Done(s, r, f)
    <2>1. s.block[f].state \notin Final /\ r.block[f].state \in Final
      BY <1>3, <1>7, <1>8
    <2>2. \A g \in File : /\ r.block[g].callback = s.block[g].callback
                          /\ g # f => r.block[g].state = s.block[g].state
                          /\ r.block[g].state = "WAITING" => g # f
      BY <1>3, <1>7
    <2>3. \A g \in File : g = r.executing => s.block[g].state \notin Final
      BY <1>1, <1>7 DEF Placed, Begun, Served, UserWait, Final
    <2>4. \A g \in File : g # f /\ g \in ToSet(s.queue[Priority[g]])
                             => g \in ToSet(r.queue[Priority[g]])
      BY <1>1, <1>4, <1>7
    <2>5. QED BY <1>5, <1>7, <1>9, <2>1, <2>2, <2>3, <2>4 DEF Done
  <1>13. Rested(r)
    BY <1>6, <1>7, <1>10, <1>11 DEF Rested
  <1>14. Withdrawn(s, f, r)
    <2>1. r.queue = [s.queue EXCEPT ![Priority[f]] = Without(@, f)]
      BY <1>7 DEF w
    <2>2. QED BY <1>3, <1>7, <1>9, <1>12, <2>1 DEF Withdrawn
  <1>15. OwnCalls(s, f, callback, r)
    BY <1>5, <1>7 DEF OwnCalls
  <1>16. QED BY <1>2, <1>13, <1>14, <1>15 DEF r

Abandoned(s, f, callback) ==
    [s EXCEPT !.block[f].state = "CANCELED",
              !.calls = @ \cup Callback(s, f) \cup ({callback} \ {"none"}),
              !.coverAlarm = @ /\ ~s.waitOpen,
              !.waitOpen = FALSE,
              !.resume = s.block[f].state]

LEMMA NowCancel ==
    ASSUME Contexts >= 3, NEW s, NEW f \in File, NEW callback \in Wakes \cup {"none"}, Resting(s),
           s.block[f].state \in UserWait
    PROVE  LET r == StateReady(Abandoned(s, f, callback)) IN
           Rested(r) /\ CanceledNow(s, f, r) /\ OwnCalls(s, f, callback, r)
  <1> DEFINE state == s.block[f].state
             bs == [s.block EXCEPT ![f].state = "CANCELED"]
             cs == s.calls \cup Callback(s, f) \cup ({callback} \ {"none"})
             ca == s.coverAlarm /\ ~s.waitOpen
             u == [s EXCEPT !.block = bs, !.calls = cs, !.coverAlarm = ca, !.waitOpen = FALSE,
                            !.resume = state]
             r == StateReady(u)
  <1>1. /\ s \in DriverState /\ Placed(s) /\ s.calls = {} /\ s.halt = "no" /\ AtRest(s, s.low)
        /\ Priority \in [File -> Prio]
        /\ s.queue \in [Prio -> Seq(File)] /\ s.block \in [File -> Block]
        /\ NoFile \notin File
    BY DvdAssumption DEF Resting, DriverState
  <1>2. Abandoned(s, f, callback) = u
    BY DEF Abandoned
  <1>3. /\ bs \in [File -> Block]
        /\ \A g \in File : /\ bs[g].callback = s.block[g].callback
                           /\ bs[g].transfers = s.block[g].transfers
                           /\ bs[g].state = IF g = f THEN "CANCELED" ELSE s.block[g].state
                           /\ g # f => bs[g] = s.block[g]
    BY <1>1 DEF Block, Final
  <1>4. /\ cs = Callback(s, f) \cup ({callback} \ {"none"}) /\ cs \in SUBSET (File \cup Wakes)
        /\ cs \subseteq Callback(s, f) \cup Wakes /\ cs \subseteq Callback(s, f) \cup {callback}
    BY <1>1 DEF Callback, Wakes
  <1>5. /\ state = s.block[f].state /\ state \in UserWait
        /\ ca \in BOOLEAN /\ state \in Resumes /\ state # "NONE"
    BY DEF Resumes, UserWait
  <1>23. ca <=> s.coverAlarm /\ ~s.waitOpen
    OBVIOUS
  <1> HIDE DEF bs, cs, ca, state
  <1>6. u \in DriverState
    <2> DEFINE a == [s EXCEPT !.block = bs, !.calls = cs]
               b == [a EXCEPT !.coverAlarm = ca, !.waitOpen = FALSE]
               c == [b EXCEPT !.resume = state]
    <2>1. u = c
      OBVIOUS
    <2>2. a \in DriverState
      BY <1>1, <1>3, <1>4 DEF DriverState
    <2> HIDE DEF a
    <2>3. b \in DriverState
      BY <1>5, <2>2 DEF DriverState
    <2> HIDE DEF b
    <2>4. c \in DriverState
      BY <1>5, <2>3 DEF DriverState
    <2> HIDE DEF c, u
    <2>5. QED BY <2>1, <2>4
  <1>7. /\ u.block = bs /\ u.queue = s.queue /\ u.executing = s.executing /\ u.calls = cs
        /\ SameErrands(s, u)
        /\ u.canceling = s.canceling /\ u.breaking = s.breaking
        /\ u.cancelCallback = s.cancelCallback
        /\ ~u.waitOpen /\ u.waitClose = s.waitClose
        /\ (u.coverAlarm <=> s.coverAlarm /\ ~s.waitOpen)
        /\ u.resume = state /\ u.motor = s.motor
        /\ u.low = s.low /\ u.halt = "no"
    BY <1>1, <1>23 DEF DriverState, SameErrands
  <1> HIDE DEF u, r
  <1>8. /\ "CANCELED" \in Final /\ "CANCELED" \notin Begun /\ "CANCELED" # "WAITING"
        /\ "WAITING" \notin Final /\ "WAITING" \notin Begun
        /\ state \in Begun /\ state \notin Final /\ state \notin Served /\ state # "WAITING"
        /\ \A x \in Begun : x \notin Final
    BY <1>5 DEF Final, Begun, Served, UserWait
  <1>9. f = s.executing /\ f # NoFile
    BY <1>1, <1>5, <1>8 DEF Placed
  <1>10. UserAwaited(s, s.low)
    BY <1>1, <1>5, <1>8, <1>9 DEF AtRest, NobodyServed, OneServed
  <1>11. Unengaged(u)
    <2>1. (u.coverAlarm <=> u.waitClose) /\ (u.waitClose => u.resume = "COVER_OPENED")
      BY <1>1, <1>5, <1>7, <1>9, <1>10 DEF AtRest, UserAwaited
    <2>2. \/ u.low = << >> /\ ~u.preparing
          \/ u.low = <<"prepareCover">> /\ u.preparing /\ u.resume # "NONE"
      BY <1>5, <1>7, <1>10 DEF UserAwaited, SameErrands
    <2>3. ~u.canceling /\ ~u.storing /\ ~u.resetAlarm
      BY <1>7, <1>10 DEF UserAwaited, SameErrands
    <2>4. QED BY <1>5, <1>6, <1>7, <2>1, <2>2, <2>3 DEF Unengaged
  <1>12. QueuedOnce(u)
    <2>1. ASSUME NEW p \in Prio, NEW g \in File, g \in ToSet(u.queue[p])
          PROVE  Priority[g] = p /\ u.block[g].state = "WAITING"
      BY <1>1, <1>3, <1>5, <1>7, <1>8, <2>1 DEF Placed, QueuedOnce
    <2>2. ASSUME NEW g \in File
          PROVE  /\ u.block[g].transfers <= Transfers[g]
                 /\ u.block[g].state \notin Final => u.block[g].transfers > 0
      BY <1>1, <1>3, <1>7, <1>8 DEF Placed, QueuedOnce
    <2>3. QED BY <1>1, <1>7, <2>1, <2>2 DEF Placed, QueuedOnce
  <1>13. \A g \in File : u.block[g].state \notin Begun
    BY <1>1, <1>3, <1>7, <1>8, <1>9 DEF Placed
  <1>14. /\ ReadyFields(u, r) /\ Placed(r) /\ AtRest(r, r.low)
         /\ \A g \in File : /\ r.block[g].callback = u.block[g].callback
                            /\ g # r.executing => r.block[g] = u.block[g]
                            /\ r.block[g].state = "WAITING" /\ g \in ToSet(u.queue[Priority[g]])
                               => g \in ToSet(r.queue[Priority[g]])
         /\ r.executing # NoFile =>
               r.executing \in File /\ u.block[r.executing].state = "WAITING"
    BY <1>11, <1>12, <1>13, FreeReady DEF r
  <1>15. /\ r \in DriverState /\ NextRead(s.queue, r) /\ SameCancel(u, r) /\ r.halt = "no"
    BY <1>7, <1>14 DEF ReadyFields
  <1>16. r.executing # f /\ r.block[f].state = "CANCELED"
    BY <1>3, <1>7, <1>8, <1>9, <1>14
  <1>17. \A g \in File : g # f /\ g # r.executing => r.block[g].state = s.block[g].state
    BY <1>3, <1>7, <1>14
  <1>18. ASSUME NEW g \in File, g = r.executing
         PROVE  s.block[g].state = "WAITING" /\ r.block[g].state \in Begun
    BY <1>1, <1>3, <1>7, <1>14, <1>16, <1>18 DEF Placed
  <1>19. Done(s, r, f)
    <2>1. s.block[f].state \notin Final /\ r.block[f].state \in Final
      BY <1>5, <1>8, <1>16
    <2>2. \A g \in File : r.block[g].callback = s.block[g].callback
      BY <1>3, <1>7, <1>14
    <2>3. \A g \in File : g # f /\ g = r.executing => s.block[g].state \notin Final
      BY <1>8, <1>18
    <2>4. ASSUME NEW g \in File, r.block[g].state = "WAITING" PROVE s.block[g].state = "WAITING"
      BY <1>8, <1>16, <1>17, <1>18, <2>4
    <2>5. \A g \in File : r.block[g].state = "WAITING" /\ g \in ToSet(s.queue[Priority[g]])
                             => g \in ToSet(r.queue[Priority[g]])
      BY <1>7, <1>14
    <2>6. r.calls = cs /\ ~s.canceling
      BY <1>7, <1>10, <1>15 DEF SameCancel, UserAwaited
    <2>7. Callback(s, f) \subseteq r.calls /\ r.calls \subseteq Callback(s, f) \cup Wakes
      BY <1>4, <2>6
    <2>8. QED BY <1>9, <1>17, <2>1, <2>2, <2>3, <2>4, <2>5, <2>6, <2>7 DEF Done
  <1>20. Rested(r)
    BY <1>14, <1>15 DEF Rested
  <1>21. CanceledNow(s, f, r)
    BY <1>7, <1>9, <1>10, <1>15, <1>16, <1>17, <1>19 DEF CanceledNow, SameCancel, UserAwaited
  <1>22. OwnCalls(s, f, callback, r)
    BY <1>4, <1>7, <1>15 DEF OwnCalls, SameCancel
  <1>24. QED BY <1>2, <1>20, <1>21, <1>22 DEF r

CancelFields(s, f, callback, r) ==
    /\ Rested(r)
    /\ \/ AlreadyOver(s, f, callback, r)
       \/ AskedFor(s, f, callback, r)
       \/ Withdrawn(s, f, r) /\ OwnCalls(s, f, callback, r)
       \/ CanceledNow(s, f, r) /\ OwnCalls(s, f, callback, r)

LEMMA CancelStep ==
    ASSUME Contexts >= 3, NEW s, Resting(s), NEW f \in File, NEW callback \in Wakes \cup {"none"},
           ~RefusedCancel(s, f),
           s.block[f].state = "WAITING" => f \in ToSet(s.queue[Priority[f]])
    PROVE  CancelFields(s, f, callback, CancelAsync(s, f, callback))
  <1> DEFINE state == s.block[f].state
  <1>1. state \in Final \cup Served \cup UserWait \cup {"WAITING"}
    BY DEF Resting, DriverState, Block, Begun
  <1>2. /\ \A x \in Final : x \notin {"BUSY", "COVER_CLOSED", "WAITING"} \cup UserWait
        /\ \A x \in UserWait : x \notin {"BUSY", "COVER_CLOSED", "WAITING"}
        /\ Served = {"BUSY", "COVER_CLOSED"}
    BY DEF Final, Served, UserWait
  <1>3. CASE state \in Final
    <2>1. CancelAsync(s, f, callback) = [s EXCEPT !.calls = @ \cup ({callback} \ {"none"})]
      BY <1>2, <1>3 DEF CancelAsync
    <2>2. QED BY <1>3, <2>1, OverCancel DEF CancelFields
  <1>4. CASE state \in Served
    <2>1. CancelAsync(s, f, callback) = Asking(s, f, callback)
      BY <1>2, <1>4 DEF CancelAsync, Asking
    <2>2. ~s.canceling
      BY <1>2, <1>4 DEF RefusedCancel
    <2>3. QED BY <1>4, <2>1, <2>2, AskedCancel DEF CancelFields
  <1>5. CASE state = "WAITING"
    <2>1. CancelAsync(s, f, callback) = Withdrawing(s, f, callback)
      BY <1>2, <1>5 DEF CancelAsync, Withdrawing
    <2>2. QED BY <1>5, <2>1, WaitingCancel DEF CancelFields
  <1>6. CASE state \in UserWait
    <2>1. CancelAsync(s, f, callback) = StateReady(Abandoned(s, f, callback))
      BY <1>2, <1>6 DEF CancelAsync, Abandoned
    <2>2. QED BY <1>6, <2>1, NowCancel DEF CancelFields
  <1>7. QED BY <1>1, <1>3, <1>4, <1>5, <1>6

LEMMA CancelAgree ==
    ASSUME NEW s, Resting(s), NEW f \in File, NEW callback, NEW r,
           CancelFields(s, f, callback, r),
           NEW rd \in Readers, NEW cn \in Cancellers, Agree(s, rd, cn),
           NEW cs \in Cancellers,
           \/ callback = "none" /\ cs = cn
           \/ callback = "wake" /\ cs = [cn EXCEPT ![f] = "check"]
    PROVE  Agree(Settled(r), Woken(r, rd), Woken(r, cs))
  <1>1. /\ s \in DriverState /\ Placed(s) /\ s.calls = {}
        /\ r \in DriverState /\ Placed(r) /\ r.halt = "no" /\ AtRest(r, r.low)
    BY DEF Resting, CancelFields, Rested
  <1>2. /\ \A g \in File : g # f => cs[g] = cn[g]
        /\ cs[f] \in {cn[f], "check"}
        /\ callback = "none" => cs[f] = cn[f]
        /\ callback = "wake" => cs[f] = "check"
        /\ callback \in {"none", "wake"}
    BY DEF Cancellers
  <1>3. CASE Withdrawn(s, f, r) \/ CanceledNow(s, f, r)
    <2>1. Done(s, r, f)
      BY <1>3 DEF Withdrawn, CanceledNow
    <2>2. QED BY <1>1, <1>2, <2>1, DoneAgree
  <1> DEFINE n == Settled(r)
             rw == Woken(r, rd)
             cw == Woken(r, cs)
  <1>4. /\ SameReads(r, n) /\ n.canceling = r.canceling
        /\ r.canceling => n.cancelCallback = r.cancelCallback
    BY <1>1, Settle
  <1>5. \A g \in File :
           /\ rw[g] = "asleep" => rd[g] = "asleep"
           /\ rw[g] = "out" => rd[g] = "out" \/ (rd[g] = "async" /\ g \in r.calls)
           /\ rw[g] \in {"check", "asleep"} => rd[g] \in {"check", "asleep"}
           /\ cw[g] = "asleep" => cs[g] = "asleep"
           /\ cs[g] = "out" => cw[g] = "out"
    BY WokenFields
  <1> HIDE DEF n, rw, cw
  <1>6. CASE AlreadyOver(s, f, callback, r) \/ AskedFor(s, f, callback, r)
    <2>1. /\ SameReads(s, n)
          /\ \A g \in File : g \notin r.calls
      BY <1>2, <1>4, <1>6, DvdAssumption DEF AlreadyOver, AskedFor, SameReads
    <2>2. \A g \in File : rw[g] = "out" => rd[g] = "out"
      BY <1>5, <2>1
    <2>3. ASSUME NEW g \in File, cw[g] # "out", n.block[g].state \notin Final
          PROVE  g = n.executing /\ n.canceling /\ n.cancelCallback = "wake"
      <3>1. cs[g] # "out" /\ s.block[g].state \notin Final
        BY <1>5, <2>1, <2>3 DEF SameReads
      <3>2. CASE AlreadyOver(s, f, callback, r)
        <4>1. g # f /\ cn[g] # "out"
          BY <1>2, <3>1, <3>2 DEF AlreadyOver
        <4>2. g = s.executing /\ s.canceling /\ s.cancelCallback = "wake"
          BY <3>1, <4>1 DEF Agree
        <4>3. QED BY <1>4, <2>1, <3>2, <4>2 DEF AlreadyOver, SameReads
      <3>3. CASE AskedFor(s, f, callback, r)
        <4>1. cn[g] = "out"
          BY <3>1, <3>3 DEF Agree, AskedFor
        <4>2. g = f /\ callback = "wake"
          BY <1>2, <3>1, <4>1
        <4>3. QED BY <1>4, <2>1, <3>3, <4>2 DEF AskedFor, SameReads
      <3>4. QED BY <1>6, <3>2, <3>3
    <2>4. ASSUME NEW g \in File, rw[g] = "asleep" \/ cw[g] = "asleep"
          PROVE  n.block[g].state \notin Final
      <3>1. rd[g] = "asleep" \/ cs[g] = "asleep"
        BY <1>5, <2>4
      <3>2. rd[g] = "asleep" \/ cn[g] = "asleep"
        BY <1>2, <3>1
      <3>3. QED BY <2>1, <3>2 DEF Agree, SameReads
    <2>5. ASSUME NEW g \in File
          PROVE  /\ n.block[g].state = "WAITING" => g \in ToSet(n.queue[Priority[g]])
                 /\ rw[g] = "out" => n.block[g].state \in Final
                 /\ rw[g] \in {"check", "asleep"} => g \in SyncFile
                 /\ n.block[g].state \notin Final =>
                       n.block[g].callback = IF g \in SyncFile THEN "sync" ELSE "async"
      BY <1>5, <2>1, <2>2 DEF Agree, SameReads
    <2>6. QED BY <2>3, <2>4, <2>5 DEF Agree, n, rw, cw
  <1>7. QED BY <1>3, <1>6 DEF CancelFields

(***************************************************************************)
(* The preparation of a reset: the queues are emptied, and the executing   *)
(* read is cancelled.                                                      *)
(***************************************************************************)
ResetFields(s, r) ==
    /\ Rested(r)
    /\ \/ /\ r.executing = s.executing /\ r.queue = [p \in Prio |-> << >>]
          /\ \A g \in File : r.block[g].state = s.block[g].state
          /\ r.breaking = s.breaking
          /\ r.canceling = s.canceling
       \/ /\ r.executing = s.executing /\ r.queue = [p \in Prio |-> << >>]
          /\ \A g \in File : r.block[g].state = s.block[g].state
          /\ s.executing # NoFile /\ ~s.canceling /\ r.canceling
       \/ /\ s.executing # NoFile /\ ~s.canceling
          /\ NextRead([p \in Prio |-> << >>], r)
          /\ r.block[s.executing].state = "CANCELED"
          /\ \A g \in File : g # s.executing /\ g # r.executing
                                => r.block[g].state = s.block[g].state
          /\ r.canceling = s.canceling /\ r.breaking = s.breaking

LEMMA ResetStep ==
    ASSUME Contexts >= 3, NEW s, Resting(s)
    PROVE  ResetFields(s, PrepareReset(s))
  <1> DEFINE w == [p \in Prio |-> << >>]
             t == [s EXCEPT !.queue = w]
             bs == [s.block EXCEPT ![s.executing].callback = "none"]
             u == [t EXCEPT !.block = bs]
             r == PrepareReset(s)
  <1>1. /\ s \in DriverState /\ Placed(s) /\ s.calls = {} /\ s.halt = "no" /\ AtRest(s, s.low)
        /\ s.block \in [File -> Block] /\ s.executing \in File \cup {NoFile}
        /\ NoFile \notin File
    BY DvdAssumption DEF Resting, DriverState
  <1>2. /\ w \in [Prio -> Seq(File)]
        /\ \A p \in Prio : w[p] = << >> /\ ToSet(w[p]) = {} /\ IsInjective(w[p])
    <2>1. << >> \in Seq(File) /\ ToSet(<< >>) = {}
      BY EmptyQueue
    <2>2. IsInjective(<< >>)
      BY <2>1, EmptySet
    <2>3. \A p \in Prio : w[p] = << >>
      OBVIOUS
    <2>4. w \in [Prio -> Seq(File)]
      BY <2>1
    <2> HIDE DEF w
    <2>5. QED BY <2>1, <2>2, <2>3, <2>4
  <1>3. r = IF t.canceling THEN [t EXCEPT !.cancelCallback = "prepared"]
            ELSE IF t.executing = NoFile THEN [t EXCEPT !.calls = {"prepared"}]
            ELSE LET v == [t EXCEPT !.block[t.executing].callback = "none"] IN
                 IF RefusedCancel(v, v.executing) THEN v
                 ELSE CancelAsync(v, v.executing, "prepared")
    BY DEF PrepareReset
  <1> HIDE DEF w, r
  <1>4. t \in DriverState
    BY <1>1, <1>2 DEF DriverState
  <1>5. /\ t.executing = s.executing /\ t.block = s.block /\ t.queue = w
        /\ SameCancel(s, t) /\ SameErrands(s, t) /\ SameWaits(s, t) /\ SameMotor(s, t)
        /\ t.low = s.low /\ t.halt = s.halt
    BY <1>1 DEF DriverState, SameCancel, SameErrands, SameWaits, SameMotor
  <1> HIDE DEF t
  <1>6. Placed(t)
    BY <1>1, <1>2, <1>5 DEF Placed, QueuedOnce
  <1>7. AtRest(t, t.low)
    BY <1>1, <1>2, <1>5 DEF AtRest, NobodyServed, OneServed, UserAwaited, SameCancel, SameErrands,
                            SameWaits, SameMotor
  <1>8. CASE s.canceling
    <2> DEFINE n == [t EXCEPT !.cancelCallback = "prepared"]
    <2>1. r = n
      BY <1>3, <1>5, <1>8 DEF SameCancel
    <2>2. n \in DriverState
      BY <1>4 DEF DriverState, Wakes
    <2>3. /\ SameReads(t, n) /\ n.canceling = t.canceling /\ n.breaking = t.breaking
          /\ n.calls = t.calls
          /\ SameErrands(t, n) /\ SameWaits(t, n) /\ SameMotor(t, n)
          /\ n.low = t.low /\ n.halt = t.halt
      BY <1>4 DEF DriverState, SameReads, SameErrands, SameWaits, SameMotor
    <2> HIDE DEF n
    <2>4. Placed(n)
      BY <1>6, <2>3 DEF Placed, QueuedOnce, SameReads
    <2>5. AtRest(n, n.low)
      BY <1>7, <2>3 DEF AtRest, NobodyServed, OneServed, UserAwaited, SameReads, SameErrands,
                        SameWaits, SameMotor
    <2>6. Rested(n)
      BY <1>1, <1>5, <2>2, <2>3, <2>4, <2>5 DEF Rested
    <2>7. QED BY <1>5, <2>1, <2>3, <2>6 DEF ResetFields, SameReads, SameCancel, r, w
  <1>9. CASE ~s.canceling /\ s.executing = NoFile
    <2> DEFINE n == [t EXCEPT !.calls = {"prepared"}]
    <2>1. r = n
      BY <1>3, <1>5, <1>9 DEF SameCancel
    <2>2. n \in DriverState
      BY <1>4 DEF DriverState, Wakes
    <2>3. /\ SameReads(t, n) /\ n.canceling = t.canceling /\ n.breaking = t.breaking
          /\ SameErrands(t, n) /\ SameWaits(t, n) /\ SameMotor(t, n)
          /\ n.low = t.low /\ n.halt = t.halt
      BY <1>4 DEF DriverState, SameReads, SameErrands, SameWaits, SameMotor
    <2> HIDE DEF n
    <2>4. Placed(n)
      BY <1>6, <2>3 DEF Placed, QueuedOnce, SameReads
    <2>5. AtRest(n, n.low)
      BY <1>7, <2>3 DEF AtRest, NobodyServed, OneServed, UserAwaited, SameReads, SameErrands,
                        SameWaits, SameMotor
    <2>6. Rested(n)
      BY <1>1, <1>5, <2>2, <2>3, <2>4, <2>5 DEF Rested
    <2>7. QED BY <1>5, <2>1, <2>3, <2>6 DEF ResetFields, SameReads, SameCancel, r, w
  <1>10. CASE ~s.canceling /\ s.executing # NoFile
    <2> DEFINE f == s.executing
    <2>1. f \in File
      BY <1>1, <1>10
    <2>2. [t EXCEPT !.block[t.executing].callback = "none"] = u
      BY <1>5
    <2>3. /\ bs \in [File -> Block]
          /\ \A g \in File : /\ bs[g].state = s.block[g].state
                             /\ bs[g].transfers = s.block[g].transfers
      BY <1>1, <2>1 DEF Block
    <2> HIDE DEF bs
    <2>4. u \in DriverState
      BY <1>4, <2>3 DEF DriverState
    <2>5. /\ u.executing = f /\ u.block = bs /\ u.queue = w
          /\ SameCancel(t, u) /\ SameErrands(t, u) /\ SameWaits(t, u) /\ SameMotor(t, u)
          /\ u.low = t.low /\ u.halt = t.halt
      BY <1>4, <1>5 DEF DriverState, SameCancel, SameErrands, SameWaits, SameMotor
    <2> HIDE DEF u
    <2>6. r = IF RefusedCancel(u, f) THEN u ELSE CancelAsync(u, f, "prepared")
      BY <1>3, <1>5, <1>10, <2>2, <2>5 DEF SameCancel
    <2>7. Placed(u)
      BY <1>2, <1>5, <1>6, <2>3, <2>5 DEF Placed, QueuedOnce
    <2>8. AtRest(u, u.low)
      <3>1. u.block[f].state = t.block[f].state /\ f # NoFile
        BY <1>5, <1>10, <2>1, <2>3, <2>5
      <3>2. QED BY <1>5, <1>7, <2>5, <3>1
                   DEF AtRest, NobodyServed, OneServed, UserAwaited, SameCancel, SameErrands,
                       SameWaits, SameMotor
    <2>9. Resting(u) /\ Rested(u)
      BY <1>1, <1>5, <2>4, <2>5, <2>7, <2>8 DEF Resting, Rested, SameCancel
    <2>10. u.block[f].state \in Begun
      BY <2>1, <2>5, <2>7 DEF Placed
    <2>11. CASE RefusedCancel(u, f)
      <3>1. r = u
        BY <2>6, <2>11
      <3>2. QED BY <1>5, <2>3, <2>5, <2>9, <3>1 DEF ResetFields, SameCancel, r, w
    <2>12. CASE ~RefusedCancel(u, f)
      <3>1. "prepared" \in Wakes \cup {"none"} /\ u.block[f].state # "WAITING"
        BY <2>10 DEF Wakes, Begun, Served, UserWait
      <3>2. r = CancelAsync(u, f, "prepared")
        BY <2>6, <2>12
      <3> HIDE DEF f, r
      <3>3. CancelFields(u, f, "prepared", r)
        BY <2>1, <2>9, <2>12, <3>1, <3>2, CancelStep
      <3>4. ~AlreadyOver(u, f, "prepared", r) /\ ~Withdrawn(u, f, r)
        BY <2>10, <3>1 DEF AlreadyOver, Withdrawn, Begun, Served, UserWait, Final
      <3>5. CASE AskedFor(u, f, "prepared", r)
        <4>1. /\ r.executing = s.executing /\ r.queue = w
              /\ \A g \in File : r.block[g].state = s.block[g].state
              /\ r.canceling
          BY <2>3, <2>5, <3>5 DEF AskedFor, SameReads, f
        <4>2. QED BY <1>10, <3>3, <4>1 DEF ResetFields, CancelFields, r, w
      <3>6. CASE CanceledNow(u, f, r)
        <4>1. /\ NextRead(w, r) /\ r.block[s.executing].state = "CANCELED"
              /\ \A g \in File : g # s.executing /\ g # r.executing
                                    => r.block[g].state = s.block[g].state
              /\ r.canceling = s.canceling /\ r.breaking = s.breaking
          BY <1>5, <2>3, <2>5, <3>6 DEF CanceledNow, SameCancel, f
        <4>2. QED BY <1>10, <3>3, <4>1 DEF ResetFields, CancelFields, r, w
      <3>7. QED BY <3>3, <3>4, <3>5, <3>6 DEF CancelFields
    <2>13. QED BY <2>11, <2>12
  <1>11. QED BY <1>8, <1>9, <1>10

(***************************************************************************)
(* The invariant.                                                          *)
(***************************************************************************)
DriveStates == [open : BOOLEAN, disc : Disc, coverInt : BOOLEAN, spun : BOOLEAN,
                sense : {"none"} \cup Fault]
Resets == {"no", "waiting", "prepared"}

DriverInv ==
    /\ dvd \in DriverState /\ dvd.calls = {} /\ Placed(dvd)
    /\ dvd.halt = "no" => AtRest(dvd, dvd.low)
    /\ reader \in Readers /\ canceller \in Cancellers /\ reset \in Resets
    /\ reset = "no" => Agree(dvd, reader, canceller)

DvdInv == DriverInv /\ drive \in DriveStates

LEMMA StepTaken ==
    ASSUME NEW r \in DriverState, Placed(r), r.halt = "no" => AtRest(r, r.low),
           NEW rd \in Readers, NEW cn \in Cancellers, NEW rs \in Resets, Step(r, rd, cn, rs),
           rs = "no" => Agree(Settled(r), Woken(r, rd), Woken(r, cn))
    PROVE  DriverInv'
  <1>1. /\ dvd' = Settled(r) /\ reader' = Woken(r, rd) /\ canceller' = Woken(r, cn)
        /\ reset' = IF "prepared" \in r.calls THEN "prepared" ELSE rs
    BY DEF Step, Settled
  <1>2. LET n == Settled(r) IN
        n \in DriverState /\ n.calls = {} /\ Placed(n) /\ (n.halt = "no" => AtRest(n, n.low))
    BY Settle
  <1>3. Woken(r, rd) \in Readers /\ Woken(r, cn) \in Cancellers
    BY WokenTypes
  <1>4. /\ (dvd \in DriverState)' /\ (dvd.calls = {})' /\ Placed(dvd)'
        /\ (dvd.halt = "no" => AtRest(dvd, dvd.low))'
    BY <1>1, <1>2 DEF Placed, QueuedOnce, AtRest, NobodyServed, OneServed, UserAwaited
  <1>5. (reader \in Readers)' /\ (canceller \in Cancellers)' /\ (reset \in Resets)'
    BY <1>1, <1>3 DEF Resets
  <1>6. (reset = "no" => Agree(dvd, reader, canceller))'
    BY <1>1 DEF Agree
  <1>7. QED BY <1>4, <1>5, <1>6 DEF DriverInv

LEMMA TurnTaken ==
    ASSUME DriverInv, NEW r, Turn(dvd, r), Step(r, reader, canceller, reset)
    PROVE  DriverInv'
  <1>1. r \in DriverState /\ Placed(r) /\ (r.halt = "no" => AtRest(r, r.low))
    BY DEF Turn
  <1>2. reset = "no" => Agree(Settled(r), Woken(r, reader), Woken(r, canceller))
    BY TurnAgree DEF DriverInv
  <1>3. QED BY <1>1, <1>2, StepTaken DEF DriverInv

LEMMA RestingNow ==
    ASSUME DriverInv, Running
    PROVE  Resting(dvd)
  BY DEF DriverInv, Running, Resting

LEMMA DvdInvInit ==
    ASSUME DvdInit
    PROVE  DvdInv
  <1> DEFINE bs == [f \in File |-> [state |-> "IDLE", transfers |-> 0, callback |-> "none"]]
             w == [p \in Prio |-> << >>]
  <1>1. bs \in [File -> Block] /\ \A f \in File : bs[f].state = "IDLE" /\ bs[f].transfers = 0
    BY DEF Block, Final
  <1>2. /\ w \in [Prio -> Seq(File)]
        /\ \A p \in Prio : w[p] = << >> /\ ToSet(w[p]) = {} /\ IsInjective(w[p])
    <2>1. << >> \in Seq(File) /\ ToSet(<< >>) = {}
      BY EmptyQueue
    <2>2. IsInjective(<< >>)
      BY <2>1, EmptySet
    <2>3. \A p \in Prio : w[p] = << >>
      OBVIOUS
    <2>4. w \in [Prio -> Seq(File)]
      BY <2>1
    <2> HIDE DEF w
    <2>5. QED BY <2>1, <2>2, <2>3, <2>4
  <1>3. dvd = [executing |-> NoFile, block |-> bs, queue |-> w,
              canceling |-> FALSE, breaking |-> FALSE, cancelCallback |-> "none",
              resume |-> "NONE", retries |-> 0, lastError |-> "none", lastState |-> "busy",
              motor |-> "WORKING",
              waitOpen |-> FALSE, waitClose |-> FALSE, preparing |-> FALSE,
              coverAlarm |-> FALSE, resetAlarm |-> FALSE, storing |-> FALSE,
              low |-> << >>, calls |-> {}, halt |-> "no"]
    BY DEF DvdInit
  <1> HIDE DEF bs, w
  <1>4. dvd \in DriverState
    <2>1. << >> \in Seq(Drives \cup {"clear", "prepareCover"})
      OBVIOUS
    <2>2. QED BY <1>1, <1>2, <1>3, <2>1 DEF DriverState, Resumes, Wakes
  <1>5. /\ dvd.executing = NoFile /\ dvd.block = bs /\ dvd.queue = w /\ ~dvd.canceling
        /\ dvd.resume = "NONE" /\ dvd.motor = "WORKING"
        /\ ~dvd.waitOpen /\ ~dvd.waitClose /\ ~dvd.preparing /\ ~dvd.coverAlarm
        /\ ~dvd.resetAlarm /\ ~dvd.storing /\ dvd.low = << >> /\ dvd.calls = {}
    BY <1>3
  <1>6. "IDLE" \notin Begun /\ "IDLE" \in Final /\ NoFile \notin File
        /\ Transfers \in [File -> Nat \ {0}]
    BY DvdAssumption DEF Begun, Served, UserWait, Final
  <1>7. Placed(dvd)
    BY <1>1, <1>2, <1>5, <1>6 DEF Placed, QueuedOnce
  <1>8. AtRest(dvd, dvd.low)
    BY <1>2, <1>5 DEF AtRest, NobodyServed
  <1>9. reader \in Readers /\ canceller \in Cancellers /\ reset \in Resets
        /\ \A f \in File : reader[f] = "out" /\ canceller[f] = "out"
    BY DEF DvdInit, Readers, Cancellers, Resets
  <1>10. Agree(dvd, reader, canceller)
    BY <1>1, <1>5, <1>6, <1>9 DEF Agree, Final
  <1>11. drive \in DriveStates
    BY DEF DvdInit, DriveStates, Disc
  <1>12. QED BY <1>4, <1>5, <1>7, <1>8, <1>9, <1>10, <1>11 DEF DvdInv, DriverInv

LEMMA InterruptTaken ==
    ASSUME Contexts >= 3, DvdInv, Running, dvd.low # << >>, NEW t, Interrupt(t),
           Head(dvd.low) = "gettingError" => t \in Senses \cup {"TIME"}
    PROVE  DvdInv'
  <1> DEFINE command == Head(dvd.low)
             r == Interrupted(dvd, t)
  <1>1. drive' = AfterCommand(command, t) /\ Step(r, reader, canceller, reset)
    BY DEF Interrupt, Interrupted
  <1>2. drive.open \in BOOLEAN /\ drive.coverInt \in BOOLEAN /\ drive \in DriveStates
    BY DEF DvdInv, DriveStates
  <1>3. Turn(dvd, r)
    <2>1. Resting(dvd)
      BY RestingNow DEF DvdInv
    <2>2. QED BY <1>2, <2>1, InterruptTurn
  <1>4. drive' \in DriveStates
    BY <1>1, <1>2 DEF AfterCommand, DriveStates, Fault
  <1> HIDE DEF r, command
  <1>5. DriverInv'
    BY <1>1, <1>3, TurnTaken DEF DvdInv
  <1>6. QED BY <1>4, <1>5 DEF DvdInv

LEMMA DrivePreserves ==
    ASSUME Contexts >= 3, DvdInv, DriveAnswers \/ DriveFails
    PROVE  DvdInv'
  <1>1. Sense \in Senses
    BY DEF Sense, Senses, DvdInv, DriveStates, Fault
  <1>2. CASE DriveAnswers
    <2>1. PICK t \in AnswersTo(Head(dvd.low)) : Interrupt(t)
      BY <1>2 DEF DriveAnswers
    <2>2. Head(dvd.low) = "gettingError" => t \in Senses
      BY <1>1, <2>1 DEF AnswersTo
    <2>3. QED BY <1>2, <2>1, <2>2, InterruptTaken DEF DriveAnswers
  <1>3. CASE DriveFails
    <2>1. PICK t \in Failures(Head(dvd.low)) : Interrupt(t)
      BY <1>3 DEF DriveFails
    <2>2. Head(dvd.low) = "gettingError" => t = "TIME"
      BY <2>1 DEF Failures, SpinUp
    <2>3. QED BY <1>3, <2>1, <2>2, InterruptTaken DEF DriveFails
  <1>4. QED BY <1>2, <1>3

LEMMA CoverPreserves ==
    ASSUME DvdInv, OpenCover \/ \E disc \in Disc : CloseCover(disc)
    PROVE  DvdInv'
  <1>1. UNCHANGED <<dvd, reader, canceller, reset>>
    BY DEF OpenCover, CloseCover
  <1>2. DriverInv'
    BY <1>1 DEF DvdInv, DriverInv, Placed, QueuedOnce, AtRest, NobodyServed, OneServed, UserAwaited, Agree
  <1>3. drive' \in DriveStates
    <2>1. CASE OpenCover
      BY <2>1 DEF DvdInv, OpenCover, DriveStates
    <2>2. ASSUME NEW disc \in Disc, CloseCover(disc) PROVE drive' \in DriveStates
      BY <2>2 DEF DvdInv, CloseCover, DriveStates
    <2>3. QED BY <2>1, <2>2
  <1>4. QED BY <1>2, <1>3 DEF DvdInv

LEMMA AlarmPreserves ==
    ASSUME Contexts >= 3, DvdInv, CoverAlarmHandler \/ ResetAlarmHandler \/ ErrorStored
    PROVE  DvdInv'
  <1>1. Resting(dvd) /\ UNCHANGED drive /\ DriverInv
    BY RestingNow DEF DvdInv, CoverAlarmHandler, ResetAlarmHandler, ErrorStored
  <1>2. CASE CoverAlarmHandler
    <2> DEFINE r == LowCommand([dvd EXCEPT !.preparing = TRUE], "prepareCover")
    <2>1. Turn(dvd, r) /\ Step(r, reader, canceller, reset)
      BY <1>1, <1>2, AlarmTurn DEF CoverAlarmHandler
    <2> HIDE DEF r
    <2>2. QED BY <1>1, <2>1, TurnTaken DEF DvdInv
  <1>3. CASE ResetAlarmHandler
    <2> DEFINE r == StateDownRotation([dvd EXCEPT !.resetAlarm = FALSE,
                                                  !.lastState = "downRotation"])
    <2>1. Turn(dvd, r) /\ Step(r, reader, canceller, reset)
      BY <1>1, <1>3, AlarmTurn DEF ResetAlarmHandler
    <2> HIDE DEF r
    <2>2. QED BY <1>1, <2>1, TurnTaken DEF DvdInv
  <1>4. CASE ErrorStored
    <2> DEFINE r == LowCommand([dvd EXCEPT !.storing = FALSE], "goToRetry")
    <2>1. Turn(dvd, r) /\ Step(r, reader, canceller, reset)
      BY <1>1, <1>4, AlarmTurn DEF ErrorStored
    <2> HIDE DEF r
    <2>2. QED BY <1>1, <2>1, TurnTaken DEF DvdInv
  <1>5. QED BY <1>2, <1>3, <1>4

LEMMA ReadTaken ==
    ASSUME Contexts >= 3, DvdInv, NEW f \in File, Read(f)
    PROVE  LET r == Started(Requested(dvd, f))
               rd == [reader EXCEPT ![f] = IF f \in SyncFile THEN "check" ELSE "async"]
           IN  /\ Resting(dvd) /\ dvd.block[f].state \in Final
               /\ ReadFields(dvd, f, r)
               /\ Step(r, rd, canceller, reset) /\ UNCHANGED drive
               /\ DriverInv'
  <1> DEFINE r == Started(Requested(dvd, f))
             rd == [reader EXCEPT ![f] = IF f \in SyncFile THEN "check" ELSE "async"]
  <1>1. Resting(dvd) /\ DriverInv /\ reset = "no" /\ reader[f] = "out" /\ canceller[f] = "out"
    BY RestingNow DEF DvdInv, Read
  <1>2. Agree(dvd, reader, canceller) /\ reader \in Readers /\ canceller \in Cancellers
        /\ reset \in Resets
    BY <1>1 DEF DriverInv
  <1>3. dvd.block[f].state \in Final
    BY <1>1, <1>2 DEF Agree
  <1>4. ReadFields(dvd, f, r)
    BY <1>1, <1>3, ReadStarts
  <1>5. Step(r, rd, canceller, reset) /\ UNCHANGED drive
    BY DEF Read, Started, Requested
  <1> HIDE DEF r
  <1>6. rd \in Readers
    BY <1>2 DEF Readers
  <1>7. Agree(Settled(r), Woken(r, rd), Woken(r, canceller))
    BY <1>1, <1>2, <1>4, ReadAgree
  <1> HIDE DEF rd
  <1>8. DriverInv'
    BY <1>2, <1>4, <1>5, <1>6, <1>7, StepTaken DEF ReadFields
  <1>9. QED BY <1>1, <1>3, <1>4, <1>5, <1>8 DEF r, rd

LEMMA CancelTaken ==
    ASSUME Contexts >= 3, DvdInv, NEW f \in File, Running, ~RefusedCancel(dvd, f), reset = "no",
           NEW callback, NEW cs,
           \/ callback = "none" /\ cs = canceller
           \/ callback = "wake" /\ cs = [canceller EXCEPT ![f] = "check"],
           Step(CancelAsync(dvd, f, callback), reader, cs, reset)
    PROVE  /\ CancelFields(dvd, f, callback, CancelAsync(dvd, f, callback))
           /\ DriverInv'
  <1> DEFINE r == CancelAsync(dvd, f, callback)
  <1>1. Resting(dvd) /\ DriverInv
    BY RestingNow DEF DvdInv
  <1>2. Agree(dvd, reader, canceller) /\ reader \in Readers /\ canceller \in Cancellers
        /\ reset \in Resets
    BY <1>1 DEF DriverInv
  <1>3. dvd.block[f].state = "WAITING" => f \in ToSet(dvd.queue[Priority[f]])
    BY <1>2 DEF Agree
  <1>4. callback \in Wakes \cup {"none"} /\ cs \in Cancellers
    BY <1>2 DEF Wakes, Cancellers
  <1>5. CancelFields(dvd, f, callback, r)
    BY <1>1, <1>3, <1>4, CancelStep
  <1> HIDE DEF r
  <1>6. Agree(Settled(r), Woken(r, reader), Woken(r, cs))
    BY <1>1, <1>2, <1>4, <1>5, CancelAgree
  <1>7. DriverInv'
    BY <1>2, <1>4, <1>5, <1>6, StepTaken DEF CancelFields, Rested, r
  <1>8. QED BY <1>5, <1>7 DEF r

LEMMA LooksPreserve ==
    ASSUME DvdInv, NEW f \in File, ReaderLooks(f) \/ CancellerLooks(f)
    PROVE  DvdInv'
  <1>1. UNCHANGED <<dvd, reset, drive>>
    BY DEF ReaderLooks, CancellerLooks
  <1>2. /\ dvd \in DriverState /\ dvd.calls = {} /\ Placed(dvd)
        /\ dvd.halt = "no" => AtRest(dvd, dvd.low)
        /\ reader \in Readers /\ canceller \in Cancellers /\ reset \in Resets
        /\ reset = "no" => Agree(dvd, reader, canceller)
    BY DEF DvdInv, DriverInv
  <1>3. CASE ReaderLooks(f)
    <2>1. /\ reader[f] = "check" /\ UNCHANGED canceller
          /\ reader' = [reader EXCEPT ![f] = IF dvd.block[f].state \in Final THEN "out"
                                             ELSE "asleep"]
      BY <1>3 DEF ReaderLooks
    <2>2. reader' \in Readers
      BY <1>2, <2>1 DEF Readers
    <2>3. reset = "no" => Agree(dvd, reader', canceller)
      BY <1>2, <2>1 DEF Agree, Readers
    <2>4. QED BY <1>1, <1>2, <2>1, <2>2, <2>3
                 DEF DvdInv, DriverInv, Placed, QueuedOnce, AtRest, NobodyServed, OneServed,
                     UserAwaited, Agree
  <1>4. CASE CancellerLooks(f)
    <2>1. /\ canceller[f] = "check" /\ UNCHANGED reader
          /\ canceller' = [canceller EXCEPT ![f] = IF dvd.block[f].state \in Final THEN "out"
                                                   ELSE "asleep"]
      BY <1>4 DEF CancellerLooks
    <2>2. canceller' \in Cancellers
      BY <1>2, <2>1 DEF Cancellers
    <2>3. reset = "no" => Agree(dvd, reader, canceller')
      BY <1>2, <2>1 DEF Agree, Cancellers
    <2>4. QED BY <1>1, <1>2, <2>1, <2>2, <2>3
                 DEF DvdInv, DriverInv, Placed, QueuedOnce, AtRest, NobodyServed, OneServed,
                     UserAwaited, Agree
  <1>5. QED BY <1>3, <1>4

LEMMA ResetTaken ==
    ASSUME Contexts >= 3, DvdInv, DVDPrepareReset
    PROVE  /\ ResetFields(dvd, PrepareReset(dvd))
           /\ DvdInv'
  <1> DEFINE r == PrepareReset(dvd)
  <1>1. Resting(dvd) /\ DriverInv /\ UNCHANGED drive
        /\ Step(r, reader, canceller, "waiting")
    BY RestingNow DEF DvdInv, DVDPrepareReset
  <1>2. ResetFields(dvd, r)
    BY <1>1, ResetStep
  <1> HIDE DEF r
  <1>3. "waiting" \in Resets /\ reader \in Readers /\ canceller \in Cancellers
    BY <1>1 DEF DriverInv, Resets
  <1>4. DriverInv'
    BY <1>1, <1>2, <1>3, StepTaken DEF ResetFields, Rested
  <1>5. QED BY <1>1, <1>2, <1>4 DEF DvdInv, r

LEMMA DvdInvNext ==
    ASSUME Contexts >= 3, DvdInv, [DvdNext]_dvdVars
    PROVE  DvdInv'
  <1>1. CASE DriveAnswers \/ DriveFails
    BY <1>1, DrivePreserves
  <1>2. CASE OpenCover \/ \E disc \in Disc : CloseCover(disc)
    BY <1>2, CoverPreserves
  <1>3. CASE CoverAlarmHandler \/ ResetAlarmHandler \/ ErrorStored
    BY <1>3, AlarmPreserves
  <1>4. CASE DVDPrepareReset
    BY <1>4, ResetTaken
  <1>5. ASSUME NEW f \in File, Read(f) PROVE DvdInv'
    BY <1>5, ReadTaken DEF DvdInv
  <1>6. ASSUME NEW f \in File, ReaderLooks(f) \/ CancellerLooks(f) PROVE DvdInv'
    BY <1>6, LooksPreserve
  <1>7. ASSUME NEW f \in File, StreamCancel(f) PROVE DvdInv'
    <2>1. /\ Running /\ ~RefusedCancel(dvd, f) /\ reset = "no" /\ UNCHANGED drive
          /\ Step(CancelAsync(dvd, f, "none"), reader, canceller, reset)
      BY <1>7 DEF StreamCancel
    <2>2. DriverInv'
      BY <2>1, CancelTaken
    <2>3. QED BY <2>1, <2>2 DEF DvdInv
  <1>8. ASSUME NEW f \in File, DVDCancel(f) PROVE DvdInv'
    <2>1. /\ Running /\ ~RefusedCancel(dvd, f) /\ reset = "no" /\ UNCHANGED drive
          /\ Step(CancelAsync(dvd, f, "wake"), reader, [canceller EXCEPT ![f] = "check"], reset)
      BY <1>8 DEF DVDCancel
    <2>2. DriverInv'
      BY <2>1, CancelTaken
    <2>3. QED BY <2>1, <2>2 DEF DvdInv
  <1>9. CASE UNCHANGED dvdVars
    BY <1>9 DEF DvdInv, DriverInv, dvdVars, Placed, QueuedOnce, AtRest, NobodyServed, OneServed,
                UserAwaited, Agree
  <1>10. QED BY <1>1, <1>2, <1>3, <1>4, <1>5, <1>6, <1>7, <1>8, <1>9 DEF DvdNext

(***************************************************************************)
(* What the invariant says of the commands that are out.                   *)
(***************************************************************************)
DrivingIn(low) == {i \in 1 .. Len(low) : low[i] \notin {"clear", "prepareCover"}}

LEMMA DrivingCount ==
    ASSUME NEW l
    PROVE  /\ l \in {<< >>, <<"clear">>, <<"prepareCover">>} => Cardinality(DrivingIn(l)) = 0
           /\ \A c \in Drives : l \in {<<c>>, <<"clear", c>>, <<"prepareCover", c>>}
                 => Cardinality(DrivingIn(l)) = 1
  <1>1. Cardinality({}) = 0 /\ Cardinality({1}) = 1 /\ Cardinality({2}) = 1
    BY FS_EmptySet, FS_Singleton
  <1>2. "clear" \notin Drives /\ "prepareCover" \notin Drives
    BY DEF Drives, SpinUp
  <1>3. ASSUME l \in {<< >>, <<"clear">>, <<"prepareCover">>} PROVE DrivingIn(l) = {}
    <2>1. CASE l = << >>
      BY <2>1 DEF DrivingIn
    <2>2. CASE l = <<"clear">>
      BY <2>2 DEF DrivingIn
    <2>3. CASE l = <<"prepareCover">>
      BY <2>3 DEF DrivingIn
    <2>4. QED BY <1>3, <2>1, <2>2, <2>3
  <1>4. ASSUME NEW c \in Drives, l \in {<<c>>, <<"clear", c>>, <<"prepareCover", c>>}
        PROVE  DrivingIn(l) \in {{1}, {2}}
    <2>1. CASE l = <<c>>
      <3>1. Len(l) = 1 /\ l[1] = c
        BY <2>1
      <3>2. DrivingIn(l) = {1}
        BY <1>2, <3>1 DEF DrivingIn
      <3>3. QED BY <3>2
    <2>2. CASE l = <<"clear", c>> \/ l = <<"prepareCover", c>>
      <3>1. Len(l) = 2 /\ l[1] \in {"clear", "prepareCover"} /\ l[2] = c
        BY <2>2
      <3>2. DrivingIn(l) = {2}
        BY <1>2, <3>1 DEF DrivingIn
      <3>3. QED BY <3>2
    <2>3. QED BY <1>4, <2>1, <2>2
  <1>5. QED BY <1>1, <1>3, <1>4

LEMMA RestingDrivers ==
    ASSUME NEW s, Resting(s)
    PROVE  LET drivers == Cardinality(DrivingIn(s.low))
                          + (IF s.resetAlarm THEN 1 ELSE 0)
                          + (IF s.storing THEN 1 ELSE 0)
           IN  IF s.executing = NoFile THEN drivers = 0
               ELSE IF s.block[s.executing].state \in UserWait
               THEN drivers = 0 /\ (s.waitOpen \/ s.waitClose)
               ELSE drivers = 1
  <1> DEFINE d == Cardinality(DrivingIn(s.low))
  <1>1. AtRest(s, s.low)
    BY DEF Resting
  <1>2. CASE NobodyServed(s, s.low)
    <2>1. s.low \in {<< >>, <<"clear">>, <<"prepareCover">>}
      BY <1>2 DEF NobodyServed
    <2>2. d = 0
      BY <2>1, DrivingCount
    <2> HIDE DEF d
    <2>3. s.executing = NoFile /\ ~s.resetAlarm /\ ~s.storing
      BY <1>2 DEF NobodyServed
    <2>4. QED BY <2>2, <2>3 DEF d
  <1>3. CASE UserAwaited(s, s.low)
    <2>1. s.low \in {<< >>, <<"clear">>, <<"prepareCover">>}
      BY <1>3 DEF UserAwaited
    <2>2. d = 0
      BY <2>1, DrivingCount
    <2> HIDE DEF d
    <2>3. s.executing # NoFile /\ ~s.resetAlarm /\ ~s.storing /\ (s.waitOpen \/ s.waitClose)
          /\ s.block[s.executing].state \in UserWait
      BY <1>3 DEF UserAwaited
    <2>4. QED BY <2>2, <2>3 DEF d
  <1>4. CASE OneServed(s, s.low)
    <2>1. s.executing # NoFile /\ s.block[s.executing].state \notin UserWait
      BY <1>4 DEF OneServed, Served, UserWait
    <2>2. "reset" \in Drives
      BY DEF Drives
    <2>3. CASE s.low = << >> /\ (s.storing <=> ~s.resetAlarm)
      <3>1. d = 0
        BY <2>3, DrivingCount
      <3> HIDE DEF d
      <3>2. QED BY <2>1, <2>3, <3>1 DEF d
    <2>4. CASE /\ ~s.storing /\ ~s.resetAlarm
               /\ \E c \in Drives : s.low \in {<<c>>, <<"clear", c>>, <<"prepareCover", c>>}
      <3>1. d = 1
        BY <2>4, DrivingCount
      <3> HIDE DEF d
      <3>2. QED BY <2>1, <2>4, <3>1 DEF d
    <2>5. QED BY <1>4, <2>2, <2>3, <2>4 DEF OneServed
  <1>5. QED BY <1>1, <1>2, <1>3, <1>4 DEF AtRest

LEMMA DvdInvDriven ==
    ASSUME DvdInv
    PROVE  DvdDriven
  <1>1. /\ dvd \in DriverState /\ dvd.calls = {} /\ Placed(dvd)
        /\ dvd.halt = "no" => AtRest(dvd, dvd.low)
        /\ reader \in Readers /\ canceller \in Cancellers /\ reset \in Resets
        /\ reset = "no" => Agree(dvd, reader, canceller)
    BY DEF DvdInv, DriverInv
  <1>2. DvdTypeOK
    <2>1. ASSUME NEW f \in File
          PROVE  /\ dvd.block[f].state \in Final \cup UserWait \cup {"BUSY", "WAITING", "COVER_CLOSED"}
                 /\ dvd.block[f].transfers \in 0 .. Transfers[f]
      <3>1. dvd.block[f] \in Block /\ Transfers[f] \in Nat
        BY <1>1, DvdAssumption DEF DriverState
      <3>2. dvd.block[f].transfers <= Transfers[f]
        BY <1>1 DEF Placed, QueuedOnce
      <3>3. QED BY <3>1, <3>2 DEF Block, Begun, Served
    <2>2. dvd.executing \in File \cup {NoFile} /\ dvd.retries \in Nat
      BY <1>1 DEF DriverState
    <2>3. QED BY <1>1, <2>1, <2>2 DEF DvdTypeOK, Readers, Cancellers, Resets
  <1>3. OneDriver
    <2>1. SUFFICES ASSUME Running PROVE OneDriver
      BY DEF OneDriver
    <2>2. Resting(dvd)
      BY <2>1, RestingNow DEF DvdInv
    <2>3. Driving = DrivingIn(dvd.low)
      BY DEF Driving, DrivingIn
    <2>4. QED BY <2>2, <2>3, RestingDrivers DEF OneDriver, WaitsForCover
  <1>4. WaitPolled
    BY <1>1 DEF WaitPolled, WaitsForCover, Running, AtRest
  <1>5. NoSpin
    BY <1>1 DEF NoSpin, DriverState
  <1>6. SleeperUnfinished
    BY <1>1 DEF SleeperUnfinished, Agree
  <1>7. QED BY <1>2, <1>3, <1>4, <1>5, <1>6 DEF DvdDriven

(***************************************************************************)
(* The invariant is inductive: the driver rests between two handlers as    *)
(* AtRest says, each read that waits is queued once, and the threads agree *)
(* with the command blocks.  A callback, whose own context is in use until *)
(* it returns, gives two commands at most: the ring needs three contexts,  *)
(* and DVD_LOW_CTX_MAX is 4.                                               *)
(***************************************************************************)
THEOREM DvdInvariant ==
    ASSUME Contexts >= 3
    PROVE  DvdSpec => []DvdInv
  <1>1. DvdInit => DvdInv
    BY DvdInvInit
  <1>2. DvdInv /\ [DvdNext]_dvdVars => DvdInv'
    BY DvdInvNext
  <1>3. QED BY <1>1, <1>2, PTL DEF DvdSpec

(***************************************************************************)
(* The executing read is driven by exactly one thing, a wait for the user  *)
(* is polled, no context and no alarm is taken twice, and nobody sleeps on *)
(* a read that is over, whatever the cover, the disc, the drive's errors,  *)
(* the cancels and the preparation of a reset do meanwhile.                *)
(***************************************************************************)
THEOREM DvdDrivenAlways ==
    ASSUME Contexts >= 3
    PROVE  DvdSpec => []DvdDriven
  <1>1. DvdInv => DvdDriven
    BY DvdInvDriven
  <1>2. QED BY <1>1, DvdInvariant, PTL

(***************************************************************************)
(* The driver implements the service of reads.                             *)
(***************************************************************************)
Told(state) == CASE state = "IDLE" -> "GOOD"
                 [] state = "CANCELED" -> "CANCELED"
                 [] OTHER -> "none"
Outcomes(s) == [f \in File |-> Told(s.block[f].state)]

LEMMA ToldOf ==
    /\ Told("IDLE") = "GOOD" /\ Told("CANCELED") = "CANCELED" /\ Told("WAITING") = "none"
    /\ \A x \in Begun : Told(x) = "none"
    /\ \A x \in Final : Told(x) # "none"
  BY DEF Told, Begun, Served, UserWait, Final

LEMMA OutcomesKept ==
    ASSUME NEW s, NEW r, \A g \in File : Told(r.block[g].state) = Told(s.block[g].state)
    PROVE  Outcomes(r) = Outcomes(s)
  BY DEF Outcomes

LEMMA MappedOutcomes ==
    /\ Outcomes(dvd) = [f \in File |-> CASE dvd.block[f].state = "IDLE" -> "GOOD"
                                         [] dvd.block[f].state = "CANCELED" -> "CANCELED"
                                         [] OTHER -> "none"]
    /\ Outcomes(dvd') = [f \in File |-> CASE dvd.block[f].state = "IDLE" -> "GOOD"
                                          [] dvd.block[f].state = "CANCELED" -> "CANCELED"
                                          [] OTHER -> "none"]'
  BY DEF Outcomes, Told

Serves(w, n) ==
    IF \A p \in Prio : w[p] = << >>
    THEN n.executing = NoFile /\ n.queue = w
    ELSE /\ n.executing = Head(w[Service!First(w)])
         /\ n.queue = [w EXCEPT ![Service!First(w)] = Tail(@)]

LEMMA NextReadServes ==
    ASSUME NEW w, NEW n, NextRead(w, n)
    PROVE  Serves(w, n)
  <1>1. CASE \A p \in Prio : w[p] = << >>
    <2>1. n.executing = NoFile /\ n.queue = w
      BY <1>1 DEF NextRead
    <2>2. QED BY <1>1, <2>1 DEF Serves
  <1>2. CASE \E p \in Prio : w[p] # << >>
    <2>1. PICK p \in Prio :
             /\ w[p] # << >>
             /\ \A q \in Prio : q < p => w[q] = << >>
             /\ n.executing = Head(w[p])
             /\ n.queue = [w EXCEPT ![p] = Tail(@)]
      BY <1>2 DEF NextRead
    <2>2. ASSUME NEW o \in Prio, w[o] # << >>, \A q \in Prio : q < o => w[q] = << >>
          PROVE  o = p
      <3>1. o \in Nat /\ p \in Nat
        BY DvdAssumption
      <3>2. ~(o < p) /\ ~(p < o)
        BY <2>1, <2>2
      <3>3. QED BY <3>1, <3>2
    <2>3. Service!First(w) = p
      BY <2>1, <2>2 DEF Service!First
    <2>4. QED BY <2>1, <2>3 DEF Serves
  <1>3. QED BY <1>1, <1>2

(* One read, and no other, has a new outcome. *)
OutcomeSet(s, n, f, x) ==
    /\ Told(n.block[f].state) = x
    /\ \A g \in File : g # f => Told(n.block[g].state) = Told(s.block[g].state)

LEMMA QueueAnswerServes ==
    ASSUME NEW x, dvd.executing \in File, NextRead(dvd.queue, dvd'),
           OutcomeSet(dvd, dvd', dvd.executing, x)
    PROVE  Service!Answer(x, dvd.queue)
  <1>1. Outcomes(dvd') = [Outcomes(dvd) EXCEPT ![dvd.executing] = x]
    BY DEF Outcomes, OutcomeSet
  <1>2. dvd.executing # NoFile
    BY DvdAssumption
  <1>3. Serves(dvd.queue, dvd')
    BY NextReadServes
  <1>4. QED BY <1>1, <1>2, <1>3, MappedOutcomes DEF Serves, Service!Answer, Service!ServeNext

Unmoved(s, n) ==
    /\ n.queue = s.queue /\ n.executing = s.executing /\ Outcomes(n) = Outcomes(s)
    /\ n.canceling = s.canceling
    /\ (n.breaking /\ ~n.canceling) <=> (s.breaking /\ ~s.canceling)

LEMMA UnmovedServes ==
    ASSUME Unmoved(dvd, dvd')
    PROVE  UNCHANGED Service!readVars
  <1>1. (dvd.breaking /\ ~dvd.canceling)' = (dvd.breaking /\ ~dvd.canceling)
    BY DEF Unmoved
  <1>2. QED BY <1>1, MappedOutcomes DEF Unmoved, Service!readVars

LEMMA SettledRead ==
    ASSUME NEW r \in DriverState, Placed(r), r.halt = "no" => AtRest(r, r.low),
           NEW n, n = Settled(r)
    PROVE  /\ n.executing = r.executing /\ n.block = r.block /\ n.queue = r.queue
           /\ n.canceling = r.canceling /\ n.breaking = r.breaking
           /\ n.canceling \in BOOLEAN /\ n.breaking \in BOOLEAN
  BY Settle DEF SameReads, DriverState

LEMMA TurnServes ==
    ASSUME dvd \in DriverState, Placed(dvd), NEW r, Turn(dvd, r), dvd' = Settled(r),
           UNCHANGED Service!callVars
    PROVE  [Service!ServiceNext]_(Service!serviceVars)
  <1>1. r \in DriverState /\ Placed(r) /\ (r.halt = "no" => AtRest(r, r.low))
    BY DEF Turn
  <1>2. /\ dvd'.executing = r.executing /\ dvd'.block = r.block /\ dvd'.queue = r.queue
        /\ dvd'.canceling = r.canceling /\ dvd'.breaking = r.breaking
        /\ dvd'.canceling \in BOOLEAN /\ dvd'.breaking \in BOOLEAN
    BY <1>1, SettledRead
  <1>3. dvd.canceling \in BOOLEAN /\ dvd.breaking \in BOOLEAN
    BY DEF DriverState
  <1>4. CASE Unanswered(dvd, r)
    <2>1. ASSUME NEW g \in File PROVE Told(dvd'.block[g].state) = Told(dvd.block[g].state)
      <3>1. CASE g = dvd.executing
        BY <1>2, <1>4, <3>1, ToldOf DEF Unanswered, Placed
      <3>2. CASE g # dvd.executing
        <4>1. r.block[g].state = dvd.block[g].state
          BY <1>4, <3>2 DEF Unanswered
        <4>2. QED BY <1>2, <4>1
      <3>3. QED BY <3>1, <3>2
    <2>2. Outcomes(dvd') = Outcomes(dvd)
      BY <2>1, OutcomesKept
    <2>3. Unmoved(dvd, dvd')
      BY <1>2, <1>4, <2>2 DEF Unmoved, Unanswered
    <2>4. QED BY <2>3, UnmovedServes DEF Service!serviceVars
  <1>5. ASSUME NEW result \in Final, Answered(dvd, r, result)
        PROVE  Service!ServiceNext
    <2> DEFINE f == dvd.executing
    <2>1. f \in File /\ Done(dvd, r, f)
      BY <1>1, <1>5, AnsweredDone
    <2>2. NextRead(dvd.queue, dvd') /\ f # NoFile
      BY <1>2, <1>5 DEF Answered, NextRead
    <2>3. r.block[f].state = result
      BY <1>5 DEF Answered
    <2>4. ASSUME NEW g \in File, g # f
          PROVE  Told(dvd'.block[g].state) = Told(dvd.block[g].state)
      <3>1. CASE g = r.executing
        <4>1. r.block[g].state \in Begun
          BY <1>1, <3>1 DEF Placed
        <4>2. dvd.block[g].state \notin Final
          BY <2>1, <2>4, <3>1 DEF Done
        <4>3. dvd.block[g].state \in Begun \cup {"WAITING"}
          BY <4>2 DEF DriverState, Block
        <4>4. QED BY <1>2, <4>1, <4>3, ToldOf
      <3>2. CASE g # r.executing
        <4>1. r.block[g].state = dvd.block[g].state
          BY <1>5, <2>4, <3>2 DEF Answered
        <4>2. QED BY <1>2, <4>1
      <3>3. QED BY <3>1, <3>2
    <2>5. Told(dvd'.block[f].state) = Told(result)
      BY <1>2, <2>3
    <2>6. Service!Answer(Told(result), dvd.queue)
      <3>1. OutcomeSet(dvd, dvd', f, Told(result))
        BY <2>4, <2>5 DEF OutcomeSet
      <3>2. QED BY <2>1, <2>2, <3>1, QueueAnswerServes
    <2> HIDE DEF f
    <2>7. ~dvd'.canceling
      BY <1>2, <1>5 DEF Answered
    <2>8. CASE result = "IDLE"
      <3>1. ~dvd.canceling /\ ~dvd.breaking /\ ~dvd'.breaking
        BY <1>2, <1>5, <2>8 DEF Answered
      <3>2. Service!AnswerGood
        BY <1>2, <1>3, <2>6, <2>7, <2>8, <3>1, ToldOf DEF Service!AnswerGood
      <3>3. QED BY <3>2 DEF Service!ServiceNext
    <2>9. CASE result = "CANCELED" /\ dvd.canceling
      <3>1. Service!AnswerAsked
        BY <1>2, <1>3, <2>6, <2>7, <2>9, ToldOf DEF Service!AnswerAsked
      <3>2. QED BY <3>1 DEF Service!ServiceNext
    <2>10. CASE result = "CANCELED" /\ ~dvd.canceling
      <3>1. dvd.breaking /\ ~dvd'.breaking
        BY <1>2, <1>5, <2>10 DEF Answered
      <3>2. Service!AnswerLeftover
        BY <1>2, <1>3, <2>6, <2>7, <2>10, <3>1, ToldOf DEF Service!AnswerLeftover
      <3>3. QED BY <3>2 DEF Service!ServiceNext
    <2>11. QED BY <2>8, <2>9, <2>10 DEF Final
  <1>6. QED BY <1>4, <1>5 DEF Turn

LEMMA ReadServes ==
    ASSUME Resting(dvd), NEW f \in File, dvd.block[f].state \in Final, NEW r,
           ReadFields(dvd, f, r), dvd' = Settled(r),
           reset = "no", UNCHANGED Service!callVars
    PROVE  Service!ServiceNext
  <1> DEFINE p == Priority[f]
             w == [dvd.queue EXCEPT ![p] = Append(@, f)]
  <1>1. r \in DriverState /\ Placed(r) /\ r.halt = "no" /\ AtRest(r, r.low) /\ SameCancel(dvd, r)
    BY DEF ReadFields
  <1>2. /\ dvd'.executing = r.executing /\ dvd'.block = r.block /\ dvd'.queue = r.queue
        /\ dvd'.canceling = dvd.canceling /\ dvd'.breaking = dvd.breaking
    BY <1>1, SettledRead DEF SameCancel
  <1>3. /\ Told(dvd.block[f].state) # "none" /\ Told(dvd'.block[f].state) = "none"
        /\ \A g \in File : g # f => Told(dvd'.block[g].state) = Told(dvd.block[g].state)
    BY <1>2, ToldOf DEF ReadFields
  <1>4. Outcomes(dvd') = [Outcomes(dvd) EXCEPT ![f] = "none"] /\ Outcomes(dvd)[f] # "none"
    BY <1>3 DEF Outcomes
  <1>5. p \in Prio
    BY DvdAssumption
  <1>6. CASE dvd.executing = NoFile
    <2>1. NextRead(w, dvd')
      BY <1>2, <1>6 DEF ReadFields, NextRead
    <2>2. Serves(w, dvd')
      <3> HIDE DEF w
      <3>1. QED BY <2>1, NextReadServes
    <2>3. Service!Request(f, p)
      BY <1>2, <1>4, <1>6, <2>2, MappedOutcomes DEF Serves, Service!Request, Service!ServeNext
    <2>4. QED BY <1>5, <2>3 DEF Service!ServiceNext
  <1>7. CASE dvd.executing # NoFile
    <2>1. dvd'.executing = dvd.executing /\ dvd'.queue = w
      BY <1>2, <1>7 DEF ReadFields
    <2>2. Service!Request(f, p)
      BY <1>2, <1>4, <1>7, <2>1, MappedOutcomes DEF Service!Request
    <2>3. QED BY <1>5, <2>2 DEF Service!ServiceNext
  <1>8. QED BY <1>6, <1>7

LEMMA CancelServes ==
    ASSUME Resting(dvd), NEW f \in File, NEW callback, NEW r, CancelFields(dvd, f, callback, r),
           dvd.block[f].state = "WAITING" => f \in ToSet(dvd.queue[Priority[f]]),
           dvd' = Settled(r), reset = "no", reset' = "no", Counted(f)
    PROVE  Service!ServiceNext
  <1>1. r \in DriverState /\ Placed(r) /\ r.halt = "no" /\ AtRest(r, r.low)
        /\ dvd \in DriverState /\ Placed(dvd)
    BY DEF CancelFields, Rested, Resting
  <1>2. /\ dvd'.executing = r.executing /\ dvd'.block = r.block /\ dvd'.queue = r.queue
        /\ dvd'.canceling = r.canceling /\ dvd'.breaking = r.breaking
        /\ dvd'.canceling \in BOOLEAN /\ dvd'.breaking \in BOOLEAN
    BY <1>1, SettledRead
  <1>3. dvd.canceling \in BOOLEAN /\ dvd.breaking \in BOOLEAN
    BY <1>1 DEF DriverState
  <1> DEFINE out == [g \in File |-> CASE dvd.block[g].state = "IDLE" -> "GOOD"
                                      [] dvd.block[g].state = "CANCELED" -> "CANCELED"
                                      [] OTHER -> "none"]
             ways == \/ out[f] # "none" /\ UNCHANGED Service!readVars
                     \/ /\ f = dvd.executing /\ Service!Ask
                        /\ UNCHANGED <<dvd.queue, dvd.executing, out>>
                     \/ f = dvd.executing /\ Service!CancelNow
                     \/ Service!Withdraw(f)
  <1>9. ways => Service!ServiceNext
    <2>1. ways => Service!Cancel(f)
      BY DEF Service!Cancel, Counted
    <2> HIDE DEF ways
    <2>2. QED BY <2>1 DEF Service!ServiceNext
  <1>4. CASE AlreadyOver(dvd, f, callback, r)
    <2>1. SameReads(dvd, r) /\ r.canceling = dvd.canceling /\ r.breaking = dvd.breaking
      BY <1>4 DEF AlreadyOver
    <2>2. Outcomes(dvd') = Outcomes(dvd)
      BY <1>2, <2>1 DEF SameReads, Outcomes
    <2>3. Unmoved(dvd, dvd')
      BY <1>2, <2>1, <2>2 DEF Unmoved, SameReads
    <2>4. UNCHANGED Service!readVars
      BY <2>3, UnmovedServes
    <2>5. Outcomes(dvd)[f] # "none"
      BY <1>4, ToldOf DEF AlreadyOver, Outcomes
    <2>6. QED BY <1>9, <2>4, <2>5, MappedOutcomes
  <1>5. CASE AskedFor(dvd, f, callback, r)
    <2>1. /\ SameReads(dvd, r) /\ ~dvd.canceling /\ r.canceling
          /\ dvd.executing # NoFile
      BY <1>5, DvdAssumption DEF AskedFor
    <2>2. Outcomes(dvd') = Outcomes(dvd)
      BY <1>2, <2>1 DEF SameReads, Outcomes
    <2>3. dvd'.executing = dvd.executing /\ dvd'.queue = dvd.queue /\ dvd'.canceling = TRUE
          /\ (dvd'.breaking /\ ~dvd'.canceling) = FALSE
      BY <1>2, <2>1 DEF SameReads
    <2>4. Service!Ask /\ UNCHANGED <<dvd.queue, dvd.executing, Outcomes(dvd)>>
      BY <2>1, <2>2, <2>3, MappedOutcomes DEF Service!Ask
    <2>5. f = dvd.executing
      BY <1>5 DEF AskedFor
    <2>6. QED BY <1>9, <2>4, <2>5, MappedOutcomes
  <1>6. CASE Withdrawn(dvd, f, r)
    <2>1. /\ dvd'.executing = dvd.executing
          /\ dvd'.canceling = dvd.canceling /\ dvd'.breaking = dvd.breaking
          /\ dvd'.queue = [dvd.queue EXCEPT ![Priority[f]] = Without(@, f)]
          /\ f \in ToSet(dvd.queue[Priority[f]]) /\ Priority[f] \in Prio
      BY <1>2, <1>6, DvdAssumption DEF Withdrawn
    <2>2. Outcomes(dvd') = [Outcomes(dvd) EXCEPT ![f] = "CANCELED"]
      <3>1. /\ Told(dvd'.block[f].state) = "CANCELED"
            /\ \A g \in File : g # f => Told(dvd'.block[g].state) = Told(dvd.block[g].state)
        BY <1>2, <1>6, ToldOf DEF Withdrawn
      <3>2. QED BY <3>1 DEF Outcomes
    <2> DEFINE p == Priority[f]
    <2>5. p \in Prio /\ f \in ToSet(dvd.queue[p])
          /\ dvd'.queue = [dvd.queue EXCEPT ![p] = Without(@, f)]
      BY <2>1
    <2> HIDE DEF p
    <2>6. \E o \in Prio : /\ f \in ToSet(dvd.queue[o])
                         /\ dvd'.queue = [dvd.queue EXCEPT ![o] = Without(@, f)]
      BY <2>5
    <2>7. (dvd'.breaking /\ ~dvd'.canceling) = (dvd.breaking /\ ~dvd.canceling)
      BY <2>1
    <2>8. /\ \A q : Service!ToSet(q) = ToSet(q)
          /\ \A q, x : Service!Without(q, x) = Without(q, x)
      BY DEF Service!ToSet, ToSet, Service!Without, Without, Service!RemoveAt, RemoveAt
    <2>9. \E o \in Prio : /\ f \in Service!ToSet(dvd.queue[o])
                         /\ dvd'.queue = [dvd.queue EXCEPT ![o] = Service!Without(@, f)]
      BY <2>6, <2>8
    <2>3. Service!Withdraw(f)
      BY <2>1, <2>2, <2>7, <2>9, MappedOutcomes DEF Service!Withdraw
    <2>4. QED BY <1>9, <2>3
  <1>7. CASE CanceledNow(dvd, f, r)
    <2>1. f = dvd.executing /\ ~dvd.canceling /\ NextRead(dvd.queue, dvd')
          /\ dvd'.canceling = dvd.canceling /\ dvd'.breaking = dvd.breaking
      BY <1>2, <1>7 DEF CanceledNow, NextRead
    <2>2. ASSUME NEW g \in File, g # f
          PROVE  Told(dvd'.block[g].state) = Told(dvd.block[g].state)
      <3>1. CASE g = r.executing
        <4>1. r.block[g].state \in Begun
          BY <1>1, <3>1 DEF Placed
        <4>2. dvd.block[g].state \notin Final
          BY <1>7, <2>2, <3>1 DEF CanceledNow, Done
        <4>3. dvd.block[g].state \in Begun \cup {"WAITING"}
          BY <1>1, <4>2 DEF DriverState, Block
        <4>4. QED BY <1>2, <4>1, <4>3, ToldOf
      <3>2. CASE g # r.executing
        <4>1. r.block[g].state = dvd.block[g].state
          BY <1>7, <2>2, <3>2 DEF CanceledNow
        <4>2. QED BY <1>2, <4>1
      <3>3. QED BY <3>1, <3>2
    <2>3. Told(dvd'.block[f].state) = "CANCELED"
      BY <1>2, <1>7, ToldOf DEF CanceledNow
    <2>4. OutcomeSet(dvd, dvd', dvd.executing, "CANCELED")
      BY <2>1, <2>2, <2>3 DEF OutcomeSet
    <2>5. Service!Answer("CANCELED", dvd.queue)
      BY <2>1, <2>4, QueueAnswerServes
    <2>6. Service!CancelNow
      BY <2>1, <2>5 DEF Service!CancelNow
    <2>7. QED BY <1>9, <2>1, <2>6
  <1>8. QED BY <1>4, <1>5, <1>6, <1>7 DEF CancelFields

LEMMA ResetServes ==
    ASSUME Resting(dvd), NEW r, ResetFields(dvd, r), dvd' = Settled(r),
           reset = "no", reset' # "no", UNCHANGED cancels
    PROVE  Service!ServiceNext
  <1> DEFINE w == [p \in Prio |-> << >>]
  <1>1. r \in DriverState /\ Placed(r) /\ r.halt = "no" /\ AtRest(r, r.low)
        /\ dvd \in DriverState /\ Placed(dvd)
    BY DEF ResetFields, Rested, Resting
  <1>2. /\ dvd'.executing = r.executing /\ dvd'.block = r.block /\ dvd'.queue = r.queue
        /\ dvd'.canceling = r.canceling /\ dvd'.breaking = r.breaking
        /\ dvd'.canceling \in BOOLEAN /\ dvd'.breaking \in BOOLEAN
    BY <1>1, SettledRead
  <1>3. dvd.canceling \in BOOLEAN /\ dvd.breaking \in BOOLEAN
        /\ dvd.executing \in File \cup {NoFile} /\ NoFile \notin File
    BY <1>1, DvdAssumption DEF DriverState
  <1>4. Service!Nobody = w
    BY DEF Service!Nobody
  <1>5. ASSUME \A g \in File : r.block[g].state = dvd.block[g].state
        PROVE  Outcomes(dvd') = Outcomes(dvd)
    BY <1>2, <1>5 DEF Outcomes
  <1>6. CASE /\ r.executing = dvd.executing /\ r.queue = w
             /\ \A g \in File : r.block[g].state = dvd.block[g].state
             /\ r.breaking = dvd.breaking
             /\ r.canceling = dvd.canceling
    <2>1. dvd'.queue = w /\ dvd'.executing = dvd.executing
          /\ dvd'.canceling = dvd.canceling /\ dvd'.breaking = dvd.breaking
      BY <1>2, <1>6
    <2>2. Outcomes(dvd') = Outcomes(dvd)
      BY <1>5, <1>6
    <2> HIDE DEF w
    <2>3. Service!Shutdown
      BY <1>4, <2>1, <2>2, MappedOutcomes DEF Service!Shutdown
    <2>4. QED BY <2>3 DEF Service!ServiceNext
  <1>7. CASE /\ r.executing = dvd.executing /\ r.queue = w
             /\ \A g \in File : r.block[g].state = dvd.block[g].state
             /\ dvd.executing # NoFile /\ ~dvd.canceling /\ r.canceling
    <2>1. dvd'.queue = w /\ dvd'.executing = dvd.executing
          /\ dvd'.canceling = TRUE /\ (dvd'.breaking /\ ~dvd'.canceling) = FALSE
      BY <1>2, <1>7
    <2>2. Outcomes(dvd') = Outcomes(dvd)
      BY <1>5, <1>7
    <2> HIDE DEF w
    <2>3. Service!Ask
      BY <1>7, <2>1 DEF Service!Ask
    <2>4. Service!Shutdown
      BY <1>4, <2>1, <2>2, <2>3, MappedOutcomes DEF Service!Shutdown
    <2>5. QED BY <2>4 DEF Service!ServiceNext
  <1>8. CASE /\ dvd.executing # NoFile /\ ~dvd.canceling
             /\ NextRead(w, r)
             /\ r.block[dvd.executing].state = "CANCELED"
             /\ \A g \in File : g # dvd.executing /\ g # r.executing
                                   => r.block[g].state = dvd.block[g].state
             /\ r.canceling = dvd.canceling /\ r.breaking = dvd.breaking
    <2> HIDE DEF w
    <2>1. NextRead(w, dvd') /\ dvd.executing \in File
          /\ dvd'.canceling = dvd.canceling /\ dvd'.breaking = dvd.breaking
      BY <1>2, <1>3, <1>8 DEF NextRead
    <2>2. r.executing = NoFile
      BY <1>8 DEF NextRead, w
    <2>3. /\ Told(dvd'.block[dvd.executing].state) = "CANCELED"
          /\ \A g \in File : g # dvd.executing =>
                Told(dvd'.block[g].state) = Told(dvd.block[g].state)
      BY <1>2, <1>3, <1>8, <2>2, ToldOf
    <2>4. Outcomes(dvd') = [Outcomes(dvd) EXCEPT ![dvd.executing] = "CANCELED"]
      BY <2>3 DEF Outcomes
    <2>5. Serves(w, dvd')
      BY <2>1, NextReadServes
    <2>6. Service!Answer("CANCELED", Service!Nobody)
      BY <1>4, <1>8, <2>4, <2>5, MappedOutcomes DEF Serves, Service!Answer, Service!ServeNext
    <2>7. Service!Shutdown
      BY <1>8, <2>1, <2>6 DEF Service!Shutdown
    <2>8. QED BY <2>7 DEF Service!ServiceNext
  <1>9. QED BY <1>6, <1>7, <1>8 DEF ResetFields

LEMMA DvdInitServes ==
    ASSUME DvdInit
    PROVE  Service!ServiceInit
  <1>1. /\ dvd.queue = [p \in Prio |-> << >>] /\ dvd.executing = NoFile
        /\ dvd.canceling = FALSE /\ dvd.breaking = FALSE
        /\ dvd.block = [f \in File |-> [state |-> "IDLE", transfers |-> 0, callback |-> "none"]]
    BY DEF DvdInit
  <1>2. Outcomes(dvd) = [f \in File |-> "GOOD"]
    BY <1>1, ToldOf DEF Outcomes
  <1>3. reset = "no" /\ cancels = [f \in File |-> 0]
    BY DEF DvdInit
  <1>4. QED BY <1>1, <1>2, <1>3, MappedOutcomes DEF Service!ServiceInit

(* Only __DVDPrepareReset has itself called back as prepared. *)
Unprepared == reset = "no" => dvd.cancelCallback # "prepared"

LEMMA NotPrepared ==
    ASSUME NEW f \in File
    PROVE  "prepared" \notin Callback(dvd, f)
  <1>1. f # "prepared" /\ "wake" # "prepared"
    BY DvdAssumption
  <1>2. CASE dvd.block[f].callback = "sync"
    BY <1>1, <1>2 DEF Callback
  <1>3. CASE dvd.block[f].callback = "async"
    BY <1>1, <1>3 DEF Callback
  <1>4. CASE dvd.block[f].callback \notin {"sync", "async"}
    BY <1>4 DEF Callback
  <1>5. QED BY <1>2, <1>3, <1>4

LEMMA StepUnprepared ==
    ASSUME NEW r \in DriverState, NEW rd, NEW cn, NEW rs, Step(r, rd, cn, rs),
           rs = "no" => r.cancelCallback # "prepared" /\ "prepared" \notin r.calls
    PROVE  /\ dvd' = Settled(r) /\ Unprepared'
           /\ reset' = "no" <=> rs = "no"
  <1>1. /\ dvd' = Settled(r)
        /\ reset' = IF "prepared" \in r.calls THEN "prepared" ELSE rs
    BY DEF Step, Settled
  <1>2. Settled(r).cancelCallback \in {r.cancelCallback, "none"}
    BY DEF Settled, DriverState
  <1>3. QED BY <1>1, <1>2 DEF Unprepared

LEMMA TurnUnprepared ==
    ASSUME dvd \in DriverState, Unprepared, NEW r, Turn(dvd, r),
           Step(r, reader, canceller, reset), UNCHANGED cancels
    PROVE  dvd' = Settled(r) /\ Unprepared' /\ UNCHANGED Service!callVars
  <1>1. dvd.executing # NoFile => "prepared" \notin Callback(dvd, dvd.executing)
    BY NotPrepared DEF DriverState
  <1>2. reset = "no" => r.cancelCallback # "prepared" /\ "prepared" \notin r.calls
    <2>1. CASE Unanswered(dvd, r)
      BY <2>1 DEF Unprepared, Unanswered
    <2>2. CASE \E result \in Final : Answered(dvd, r, result)
      BY <1>1, <2>2 DEF Unprepared, Answered, CallCancelCallback
    <2>3. QED BY <2>1, <2>2 DEF Turn
  <1>3. dvd' = Settled(r) /\ Unprepared' /\ (reset' = "no" <=> reset = "no")
    BY <1>2, StepUnprepared DEF Turn
  <1>4. QED BY <1>3 DEF Service!callVars

LEMMA DvdNextServes ==
    ASSUME Contexts >= 3, DvdInv, Unprepared, [DvdNext]_dvdVars
    PROVE  [Service!ServiceNext]_(Service!serviceVars) /\ Unprepared'
  <1>1. dvd \in DriverState /\ Placed(dvd)
    BY DEF DvdInv, DriverInv
  <1>2. ASSUME UNCHANGED <<dvd, reset, cancels>>
        PROVE  UNCHANGED Service!serviceVars /\ Unprepared'
    BY <1>2 DEF Service!serviceVars, Service!readVars, Service!callVars, Unprepared
  <1>3. ASSUME NEW r, Turn(dvd, r), Step(r, reader, canceller, reset), UNCHANGED cancels
        PROVE  [Service!ServiceNext]_(Service!serviceVars) /\ Unprepared'
    <2>1. dvd' = Settled(r) /\ Unprepared' /\ UNCHANGED Service!callVars
      BY <1>1, <1>3, TurnUnprepared
    <2>2. QED BY <1>1, <1>3, <2>1, TurnServes
  <1>4. ASSUME NEW t, Interrupt(t), Running, dvd.low # << >>, UNCHANGED cancels,
               Head(dvd.low) = "gettingError" => t \in Senses \cup {"TIME"}
        PROVE  [Service!ServiceNext]_(Service!serviceVars) /\ Unprepared'
    <2> DEFINE r == Interrupted(dvd, t)
    <2>1. Step(r, reader, canceller, reset)
      BY <1>4 DEF Interrupt, Interrupted
    <2>2. Resting(dvd) /\ drive.open \in BOOLEAN /\ drive.coverInt \in BOOLEAN
      BY <1>4, RestingNow DEF DvdInv, DriveStates
    <2>3. Turn(dvd, r)
      BY <1>4, <2>2, InterruptTurn
    <2> HIDE DEF r
    <2>4. QED BY <1>3, <1>4, <2>1, <2>3
  <1>5. CASE DriveAnswers
    <2>1. Sense \in Senses
      BY DEF Sense, Senses, DvdInv, DriveStates, Fault
    <2>2. PICK t \in AnswersTo(Head(dvd.low)) : Interrupt(t)
      BY <1>5 DEF DriveAnswers
    <2>3. Head(dvd.low) = "gettingError" => t \in Senses
      BY <2>1, <2>2 DEF AnswersTo
    <2>4. QED BY <1>4, <1>5, <2>2, <2>3 DEF DriveAnswers
  <1>6. CASE DriveFails
    <2>1. PICK t \in Failures(Head(dvd.low)) : Interrupt(t)
      BY <1>6 DEF DriveFails
    <2>2. Head(dvd.low) = "gettingError" => t = "TIME"
      BY <2>1 DEF Failures, SpinUp
    <2>3. QED BY <1>4, <1>6, <2>1, <2>2 DEF DriveFails
  <1>7. CASE CoverAlarmHandler
    <2> DEFINE r == LowCommand([dvd EXCEPT !.preparing = TRUE], "prepareCover")
    <2>1. Turn(dvd, r) /\ Step(r, reader, canceller, reset) /\ UNCHANGED cancels
      BY <1>7, RestingNow, AlarmTurn DEF DvdInv, CoverAlarmHandler
    <2> HIDE DEF r
    <2>2. QED BY <1>3, <2>1
  <1>8. CASE ResetAlarmHandler
    <2> DEFINE r == StateDownRotation([dvd EXCEPT !.resetAlarm = FALSE,
                                                  !.lastState = "downRotation"])
    <2>1. Turn(dvd, r) /\ Step(r, reader, canceller, reset) /\ UNCHANGED cancels
      BY <1>8, RestingNow, AlarmTurn DEF DvdInv, ResetAlarmHandler
    <2> HIDE DEF r
    <2>2. QED BY <1>3, <2>1
  <1>9. CASE ErrorStored
    <2> DEFINE r == LowCommand([dvd EXCEPT !.storing = FALSE], "goToRetry")
    <2>1. Turn(dvd, r) /\ Step(r, reader, canceller, reset) /\ UNCHANGED cancels
      BY <1>9, RestingNow, AlarmTurn DEF DvdInv, ErrorStored
    <2> HIDE DEF r
    <2>2. QED BY <1>3, <2>1
  <1>10. CASE DVDPrepareReset
    <2> DEFINE r == PrepareReset(dvd)
    <2>1. /\ ResetFields(dvd, r) /\ Resting(dvd)
          /\ Step(r, reader, canceller, "waiting") /\ reset = "no" /\ UNCHANGED cancels
      BY <1>10, ResetTaken, RestingNow DEF DvdInv, DVDPrepareReset
    <2> HIDE DEF r
    <2>2. r \in DriverState
      BY <2>1 DEF ResetFields, Rested
    <2>3. dvd' = Settled(r) /\ Unprepared' /\ reset' # "no"
      BY <2>1, <2>2, StepUnprepared
    <2>4. QED BY <2>1, <2>3, ResetServes
  <1>11. ASSUME NEW f \in File, Read(f)
         PROVE  [Service!ServiceNext]_(Service!serviceVars) /\ Unprepared'
    <2> DEFINE r == Started(Requested(dvd, f))
               rd == [reader EXCEPT ![f] = IF f \in SyncFile THEN "check" ELSE "async"]
    <2>1. /\ Resting(dvd) /\ dvd.block[f].state \in Final /\ ReadFields(dvd, f, r)
          /\ Step(r, rd, canceller, reset)
      BY <1>11, ReadTaken
    <2>2. reset = "no" /\ UNCHANGED cancels
      BY <1>11 DEF Read
    <2> HIDE DEF r, rd
    <2>3. r \in DriverState /\ r.cancelCallback # "prepared" /\ r.calls = {}
      BY <2>1, <2>2 DEF ReadFields, SameCancel, Resting, Unprepared
    <2>4. dvd' = Settled(r) /\ Unprepared' /\ reset' = "no"
      BY <2>1, <2>2, <2>3, StepUnprepared
    <2>5. UNCHANGED Service!callVars
      BY <2>2, <2>4 DEF Service!callVars
    <2>6. QED BY <2>1, <2>2, <2>4, <2>5, ReadServes
  <1>12. ASSUME NEW f \in File, NEW callback, NEW cs, Running, reset = "no",
                ~RefusedCancel(dvd, f), Counted(f),
                \/ callback = "none" /\ cs = canceller
                \/ callback = "wake" /\ cs = [canceller EXCEPT ![f] = "check"],
                Step(CancelAsync(dvd, f, callback), reader, cs, reset)
         PROVE  [Service!ServiceNext]_(Service!serviceVars) /\ Unprepared'
    <2> DEFINE r == CancelAsync(dvd, f, callback)
    <2>1. CancelFields(dvd, f, callback, r)
      BY <1>12, CancelTaken
    <2>2. /\ Resting(dvd)
          /\ dvd.block[f].state = "WAITING" => f \in ToSet(dvd.queue[Priority[f]])
      BY <1>12, RestingNow DEF DvdInv, DriverInv, Agree
    <2>3. Step(r, reader, cs, reset)
      BY <1>12
    <2> HIDE DEF r
    <2>4. r \in DriverState /\ r.cancelCallback # "prepared" /\ "prepared" \notin r.calls
      <3>1. "prepared" \notin Callback(dvd, f) /\ callback # "prepared"
            /\ dvd.cancelCallback # "prepared"
        BY <1>12, NotPrepared DEF Unprepared
      <3>2. QED BY <2>1, <3>1 DEF CancelFields, Rested, AlreadyOver, AskedFor, OwnCalls
    <2>5. dvd' = Settled(r) /\ Unprepared' /\ reset' = "no"
      BY <1>12, <2>3, <2>4, StepUnprepared
    <2>6. QED BY <1>12, <2>1, <2>2, <2>5, CancelServes
  <1>13. ASSUME NEW f \in File, StreamCancel(f)
         PROVE  [Service!ServiceNext]_(Service!serviceVars) /\ Unprepared'
    BY <1>12, <1>13 DEF StreamCancel
  <1>14. ASSUME NEW f \in File, DVDCancel(f)
         PROVE  [Service!ServiceNext]_(Service!serviceVars) /\ Unprepared'
    BY <1>12, <1>14 DEF DVDCancel
  <1>15. CASE OpenCover \/ \E disc \in Disc : CloseCover(disc)
    BY <1>2, <1>15 DEF OpenCover, CloseCover
  <1>16. ASSUME NEW f \in File, ReaderLooks(f) \/ CancellerLooks(f)
         PROVE  [Service!ServiceNext]_(Service!serviceVars) /\ Unprepared'
    BY <1>2, <1>16 DEF ReaderLooks, CancellerLooks
  <1>17. CASE UNCHANGED dvdVars
    BY <1>2, <1>17 DEF dvdVars
  <1>18. QED BY <1>5, <1>6, <1>7, <1>8, <1>9, <1>10, <1>11, <1>13, <1>14, <1>15, <1>16, <1>17
             DEF DvdNext

(***************************************************************************)
(* The driver, with its retries, its waits for the user and its two flags  *)
(* of a cancel, implements the abstract service: reads are served by their *)
(* priority, then in the order of the calls, and each is answered once.    *)
(* One is answered CANCELED in the step of the cancel of that very file's  *)
(* read or after it, in or after the shutdown, or by the break that an     *)
(* earlier cancel left behind, which hits one read and is gone.            *)
(***************************************************************************)
THEOREM DvdImplementsService ==
    ASSUME Contexts >= 3
    PROVE  DvdSpec => ServiceSpec
  <1>1. DvdInit => Service!ServiceInit /\ Unprepared
    BY DvdInitServes DEF DvdInit, Unprepared
  <1>2. DvdInv /\ Unprepared /\ [DvdNext]_dvdVars
        => [Service!ServiceNext]_(Service!serviceVars) /\ Unprepared'
    BY DvdNextServes
  <1>3. QED BY <1>1, <1>2, DvdInvariant, PTL DEF DvdSpec, ServiceSpec, Service!ServiceSpec
=============================================================================
