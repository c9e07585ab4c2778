------------------------------- MODULE Queues -------------------------------
(***************************************************************************)
(* The intrusive doubly linked lists of the OS and of the sound library,   *)
(* as sequences of their members, head first.                              *)
(***************************************************************************)
EXTENDS Integers, Sequences, SequencesExt

(* Unlinks t, which is in q. *)
Without(q, t) == RemoveAt(q, CHOOSE i \in DOMAIN q : q[i] = t)

(* The scan for the first thread of a greater priority value, and the      *)
(* insertion of t before it.                                               *)
InsertByPriorityMutant(q, t, prio) == Append(q, t)

InsertByPriority(q, t, prio) ==
    LET later == {i \in DOMAIN q : prio[q[i]] > prio[t]}
        pos == IF later = {} THEN Len(q) + 1 ELSE CHOOSE i \in later : \A j \in later : i <= j
    IN  InsertAt(q, pos, t)
=============================================================================
