------------------------------ MODULE FrmHeap ------------------------------
(***************************************************************************)
(* Frame heaps (MEM/mem_frameHeap.c): memory is taken from the head or the *)
(* tail of what is left between them, and given back all at once, or down  *)
(* to a state recorded before.  A record is kept in the heap itself.       *)
(*                                                                         *)
(* Every function holds the heap's mutex and is one step.  Addresses and   *)
(* sizes are in units of 4 bytes, to which requests are rounded.           *)
(***************************************************************************)
EXTENDS Integers, Sequences, SequencesExt

CONSTANTS
    FrmStart,   \* heap->start and heap->end: the memory after the heap's head
    FrmEnd,
    StateSize,  \* sizeof(MEMiFrmHeapState)
    FrmSize,    \* the sizes and the alignments clients ask for
    FrmAlign,
    StateId,    \* the ids clients record states with
    MaxStates   \* bound: states recorded at once

ASSUME FrmAssumption ==
    /\ FrmStart \in Nat /\ FrmEnd \in Nat /\ FrmStart <= FrmEnd
    /\ StateSize \in Nat \ {0}
    /\ FrmSize \subseteq 1 .. FrmStart    \* tail - size does not wrap
    /\ FrmAlign \subseteq Nat \ {0}
    /\ StateId \subseteq Nat \ {0}
    /\ MaxStates \in Nat

VARIABLES
    frm,     \* MEMiFrmHeapHead and heap->end
    regions  \* what has been handed out and not released (history)

frmVars == <<frm, regions>>

FrmInit ==
    /\ frm = [head |-> FrmStart, tail |-> FrmEnd, end |-> FrmEnd, states |-> << >>]
    /\ regions = {}

(***************************************************************************)
(* The functions, of a heap f.  An allocation is [ok, heap, at].           *)
(***************************************************************************)
RoundUp(p, align) == p + ((align - (p % align)) % align)
RoundDown(p, align) == p - (p % align)

AllocFromHead(f, size, align) ==
    LET start == RoundUp(f.head, align)
    IN  IF start + size > f.tail THEN [ok |-> FALSE, heap |-> f, at |-> 0]
        ELSE [ok |-> TRUE, heap |-> [f EXCEPT !.head = start + size], at |-> start]

AllocFromTail(f, size, align) ==
    LET start == RoundDown(f.tail - size, align)
    IN  IF start < f.head THEN [ok |-> FALSE, heap |-> f, at |-> 0]
        ELSE [ok |-> TRUE, heap |-> [f EXCEPT !.tail = start], at |-> start]

(* The state recorded is the one before the record took its memory. *)
RecordState(f, id) ==
    LET a == AllocFromHead(f, StateSize, 1)
    IN  IF ~a.ok THEN a
        ELSE [a EXCEPT !.heap.states =
                <<[id |-> id, head |-> f.head, tail |-> f.tail]>> \o @]

(* The last record of the id, or the last of all for 0; none is 0. *)
FindState(f, id) ==
    IF id = 0 THEN (IF f.states = << >> THEN 0 ELSE 1)
    ELSE SelectInSeq(f.states, LAMBDA s : s.id = id)

FreeByState(f, id) ==
    LET i == FindState(f, id)
    IN  IF i = 0 THEN f
        ELSE [f EXCEPT !.head = f.states[i].head,
                       !.tail = f.states[i].tail,
                       !.states = SubSeq(@, i + 1, Len(@))]

FreeHead(f) == [f EXCEPT !.head = FrmStart, !.states = << >>]

FreeTailMutant(f) == [f EXCEPT !.tail = f.end]
(* The states recorded forget the tail too. *)
FreeTail(f) ==
    [f EXCEPT !.tail = f.end,
              !.states = [i \in DOMAIN @ |-> [@[i] EXCEPT !.tail = f.end]]]

(* MEMResizeForMBlockFrmHeap of the block at `at': the heap, or the same   *)
(* heap when there is no room.                                             *)
Resized(f, at, size) ==
    IF at + size > f.head /\ at + size > f.tail THEN f ELSE [f EXCEPT !.head = at + size]

Adjusted(f) == IF f.tail # f.end THEN f ELSE [f EXCEPT !.end = f.head, !.tail = f.head]

(***************************************************************************)
(* The clients.                                                            *)
(***************************************************************************)

(* The regions the heap still keeps from its next allocations. *)
Kept(f, S) ==
    {r \in S : IF r.side = "head" THEN r.at + r.size <= f.head ELSE r.at >= f.tail}
Become(f, S) == frm' = f /\ regions' = Kept(f, S)

Handed(a, size, side) ==
    /\ a.ok
    /\ Become(a.heap, regions \cup {[at |-> a.at, size |-> size, side |-> side]})

MEMAllocFromFrmHeap(size, align) ==
    \/ Handed(AllocFromHead(frm, size, align), size, "head")
    \/ Handed(AllocFromTail(frm, size, align), size, "tail")

MEMRecordStateForFrmHeap(id) ==
    /\ Len(frm.states) < MaxStates
    /\ Handed(RecordState(frm, id), StateSize, "head")

MEMFreeByStateToFrmHeap(id) ==
    /\ FindState(frm, id) # 0
    /\ Become(FreeByState(frm, id), regions)

MEMFreeToFrmHeap(flags) ==
    LET f == IF "HEAD" \in flags THEN FreeHead(frm) ELSE frm
    IN  Become(IF "TAIL" \in flags THEN FreeTail(f) ELSE f, regions)

(* A client resizes only the last region of the head, and no record. *)
MEMResizeForMBlockFrmHeap(size) ==
    \E r \in regions :
        /\ r.side = "head" /\ r.at + r.size = frm.head
        /\ frm.states # << >> => r.at >= frm.states[1].head + StateSize
        /\ LET f == Resized(frm, r.at, size)
           IN  /\ f # frm
               /\ Become(f, (regions \ {r}) \cup {[r EXCEPT !.size = size]})

(* EGG::FrmHeap::adjust, of a heap whose state nobody records: the end a   *)
(* record holds would not be adjusted.                                     *)
MEMAdjustFrmHeap ==
    /\ frm.states = << >>
    /\ Become(Adjusted(frm), regions)

FrmNext ==
    \/ \E size \in FrmSize : \/ \E align \in FrmAlign : MEMAllocFromFrmHeap(size, align)
                             \/ MEMResizeForMBlockFrmHeap(size)
    \/ \E id \in StateId : MEMRecordStateForFrmHeap(id)
    \/ \E id \in StateId \cup {0} : MEMFreeByStateToFrmHeap(id)
    \/ \E flags \in {{"HEAD"}, {"TAIL"}, {"HEAD", "TAIL"}} : MEMFreeToFrmHeap(flags)
    \/ MEMAdjustFrmHeap

FrmSpec == FrmInit /\ [][FrmNext]_frmVars

-----------------------------------------------------------------------------
(***************************************************************************)
(* Properties.                                                             *)
(***************************************************************************)

(* The two ends never cross, and a recorded state is one the heap can go   *)
(* back to: no further in than the heap is, nor than the records after it. *)
FrmTypeOK ==
    /\ FrmStart <= frm.head /\ frm.head <= frm.tail /\ frm.tail <= frm.end
    /\ \A i \in DOMAIN frm.states :
          /\ frm.states[i].head + StateSize <=
                (IF i = 1 THEN frm.head ELSE frm.states[i - 1].head)
          /\ frm.states[i].tail >= (IF i = 1 THEN frm.tail ELSE frm.states[i - 1].tail)
          /\ frm.states[i].tail <= frm.end

(* What the abstract specification, MarkRelease, sees of the records.      *)
Marks ==
    [i \in DOMAIN frm.states |->
        [id |-> frm.states[i].id, held |-> Kept(frm.states[i], regions)]]
=============================================================================
