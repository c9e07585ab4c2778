-------------------------- MODULE SndTaskCancelled --------------------------
(***************************************************************************)
(* SndTaskManager with a history variable: the tasks whose CancelTask has  *)
(* returned and that nobody has appended since.  Their owners may free     *)
(* them (StrmPlayer::Stop closes the file the task reads).                 *)
(***************************************************************************)
EXTENDS SndTaskManager

VARIABLE cancelled

InitCancelled == Init /\ cancelled = {}

NextCancelled ==
    \/ \E c \in Client, t \in Task :
          /\ CancelTask(c, t)
          /\ cancelled' = IF call'[c] = "none" THEN cancelled \cup {t} ELSE cancelled
    \/ \E c \in Client :
          /\ CancelTaskWoken(c)
          /\ cancelled' = IF call'[c] = "none" THEN cancelled \cup {arg[c]} ELSE cancelled
    \/ \E t \in Task, p \in TaskPriority :
          /\ LoaderAppends(t, p) \/ \E c \in Client : ClientAppends(c, t, p)
          /\ cancelled' = cancelled \ {t}
    \/ /\ Worker \/ Create \/ Destroy \/ CancelWaitTask \/ Joined
          \/ \E c \in Client : CancelAllTask(c) \/ CancelAllWoken(c)
       /\ UNCHANGED cancelled

SpecCancelled == InitCancelled /\ [][NextCancelled]_<<vars, cancelled>>

FairSpecCancelled == SpecCancelled /\ Fairness

(***************************************************************************)
(* When CancelTask has returned its task is neither queued nor being       *)
(* executed, nor will it be until it is appended again.  This needs a task *)
(* thread that its clients do not preempt between PopTask and the          *)
(* assignment to mCurrentTask.                                             *)
(***************************************************************************)
CancelCompletes == \A t \in cancelled : job # t /\ ~Linked(t)
=============================================================================
