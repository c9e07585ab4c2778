---------------------------- MODULE SndFrameHeap ----------------------------
(***************************************************************************)
(* The heap of sound data (nw4r snd_FrameHeap.cpp, used under the mutex of *)
(* snd_SoundHeap.cpp): levels that are saved and gone back to, built on a  *)
(* frame heap.  Each level has a section, kept in the heap, with the list  *)
(* of its blocks; going back runs the callback of every block it releases, *)
(* which stops the sounds that play its data.                              *)
(***************************************************************************)
EXTENDS FrmHeap

CONSTANTS
    SndEnd,       \* heap->end
    SectionSize,  \* sizeof(Section)
    BlockHead,    \* BLOCK_BUFFER_SIZE
    BlockAlignTo, \* HEAP_ALIGN
    SndSize,      \* the sizes clients ask for
    MaxLevel      \* bound: the levels saved

ASSUME SndHeapAssumption ==
    /\ SectionSize \in Nat \ {0} /\ SndEnd \in Nat /\ FrmStart + SectionSize <= SndEnd
    /\ BlockHead \in Nat \ {0}
    /\ BlockAlignTo \in Nat \ {0}
    /\ SndSize \subseteq Nat \ {0}
    /\ MaxLevel \in Nat

VARIABLES
    sections   \* mSectionList, the oldest first, each with the blocks whose
               \* callback has not run; empty: mHandle is NULL

sndHeapVars == <<frmVars, sections>>

EmptyHeap == [head |-> FrmStart, tail |-> SndEnd, end |-> SndEnd, states |-> << >>]

(* NewSection, of the frame heap f and the list l. *)
NewSection(f, l) ==
    LET a == AllocFromHead(f, SectionSize, 1)
    IN  [ok |-> a.ok, heap |-> a.heap,
         list |-> IF a.ok THEN Append(l, [at |-> a.at, list |-> << >>]) ELSE l]

SndHeapInit ==
    LET n == NewSection(EmptyHeap, << >>)
    IN  /\ frm = n.heap
        /\ sections = n.list
        /\ regions = {}

Blocks(l) == UNION {ToSet(l[i].list) : i \in DOMAIN l}

(* The sections are left with the list l; the destructors of the others   *)
(* have run their blocks' callbacks.                                       *)
Install(f, l) ==
    /\ frm' = f
    /\ sections' = l
    /\ UNCHANGED regions

SndAlloc(size) ==
    LET a == AllocFromHead(frm, BlockHead + RoundUp(size, BlockAlignTo), BlockAlignTo)
        b == [at |-> a.at, size |-> a.heap.head - a.at]
    IN  /\ sections # << >>
        /\ a.ok
        /\ Install(a.heap, [sections EXCEPT ![Len(sections)].list = Append(@, b)])

(* SaveState; without room for the section the record is taken back. *)
SaveState(f, l) ==
    LET r == RecordState(f, Len(l))
        n == NewSection(r.heap, l)
    IN  IF ~r.ok THEN [ok |-> FALSE, heap |-> f, list |-> l]
        ELSE IF n.ok THEN n
        ELSE [ok |-> FALSE, heap |-> FreeByState(n.heap, 0), list |-> l]

SndSaveState ==
    /\ sections # << >> /\ Len(sections) <= MaxLevel
    /\ LET s == SaveState(frm, sections) IN Install(s.heap, s.list)

(* Clear, whose section always has room. *)
Cleared(f) == NewSection(FreeTail(FreeHead(f)), << >>)

BackToMutant(f, l, id) ==
    LET n == NewSection(FreeByState(f, id), SubSeq(l, 1, id))
    IN  [heap |-> n.heap, list |-> n.list]
(* LoadState(id) but for 0: the record and the section are made again. *)
BackTo(f, l, id) ==
    LET r == RecordState(FreeByState(f, id), id)
    IN  NewSection(r.heap, SubSeq(l, 1, id))

(* Clients go back to levels that SaveState has returned and that are not  *)
(* gone, or to 0.                                                          *)
SndLoadState(id) ==
    /\ sections # << >>
    /\ id < Len(sections)
    /\ LET n == IF id = 0 THEN Cleared(frm) ELSE BackTo(frm, sections, id)
       IN  Install(n.heap, n.list)

SndDestroy ==
    /\ sections # << >>
    /\ Install(EmptyHeap, << >>)

(* Create, destroying the heap that there was. *)
SndCreate == LET n == Cleared(EmptyHeap) IN Install(n.heap, n.list)

SndHeapNext ==
    \/ \E size \in SndSize : SndAlloc(size)
    \/ SndSaveState
    \/ \E id \in 0 .. MaxLevel : SndLoadState(id)
    \/ SndDestroy
    \/ SndCreate

SndHeapSpec == SndHeapInit /\ [][SndHeapNext]_sndHeapVars

-----------------------------------------------------------------------------
(***************************************************************************)
(* Properties.                                                             *)
(***************************************************************************)

(* One record under every section but the first, with its number: the id   *)
(* LoadState takes, whatever failed on the way.                            *)
LevelsRecorded ==
    sections # << >> =>
        [i \in DOMAIN frm.states |-> frm.states[i].id]
            = [i \in 1 .. Len(sections) - 1 |-> Len(sections) - i]

(* The sections and the blocks whose callback has not run are in memory    *)
(* that is not free, and none over another: the callback of a block always *)
(* runs before its memory can be handed out again.                         *)
Owned ==
    {[at |-> sections[i].at, size |-> SectionSize] : i \in DOMAIN sections}
        \cup Blocks(sections)
        \cup {[at |-> frm.states[i].head, size |-> StateSize] : i \in DOMAIN frm.states}
SectionsKept ==
    /\ \A r \in Owned : r.at >= FrmStart /\ r.at + r.size <= frm.head
    /\ \A r, s \in Owned : r # s => r.at + r.size <= s.at \/ s.at + s.size <= r.at

(* Every level is there to go back to, and keeps its memory until then.    *)
LevelsKept == LevelsRecorded /\ SectionsKept
=============================================================================
