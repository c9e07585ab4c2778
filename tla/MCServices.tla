----------------------------- MODULE MCServices -----------------------------
(***************************************************************************)
(* The services that share no state with each other: message queues,       *)
(* alarms, the play record, the disc driver, the heap of the IPC library,  *)
(* frame heaps with the sound heap built on them, and the face library     *)
(* with its database on the NAND.                                          *)
(* One run checks them all: `subject' is the service a behaviour is about, *)
(* and the others stay as they were.  The values are in the .cfg file.     *)
(***************************************************************************)
EXTENDS OSMessage, OSAlarm, OSPlayRecord, DvdDriver, IosHeap, SndFrameHeap,
        FaceDatabase, TLC

CONSTANTS f1, f2
FilePriority == (f1 :> 2) @@ (f2 :> 1)
FileTransfers == (f1 :> 2) @@ (f2 :> 1)

(* A file with one Mii in two places: a remote's first Mii takes the other *)
(* place, and the next overwrites the oldest.                              *)
CONSTANTS miiA, miiB, miiC
OneMii ==
    [header |-> [ClearedHeader EXCEPT !.head = 2, !.tail = 2, !.table[2].id = miiA,
                                !.isolation = FALSE, !.crc = TRUE],
     data |-> <<Nothing, miiA>>]
FileContent == {Nothing, OneMii}
RemoteMiis == {<<>>, <<miiC>>, <<miiB, miiC>>}

VARIABLE subject

servicesVars == <<subject, vars, alarmVars, recVars, dvdVars, heapVars, sndHeapVars, faceVars>>

ServicesInit ==
    /\ subject \in {"messages", "alarms", "play record", "disc",
                    "ios heap", "frame heap", "sound heap", "faces"}
    /\ Init /\ AlarmInit /\ RecInit /\ DvdInit /\ HeapInit
    /\ FaceInit /\ (home = Nothing \/ subject = "faces")
    /\ \/ subject = "sound heap" /\ SndHeapInit
       \/ subject # "sound heap" /\ FrmInit /\ sections = << >>

Messages == Next /\ UNCHANGED <<alarmVars, recVars, dvdVars, heapVars, sndHeapVars, faceVars>>
Alarms == AlarmNext /\ UNCHANGED <<vars, recVars, dvdVars, heapVars, sndHeapVars, faceVars>>
PlayRecord == RecNext /\ UNCHANGED <<vars, alarmVars, dvdVars, heapVars, sndHeapVars, faceVars>>
DiscDrive == DvdNext /\ UNCHANGED <<vars, alarmVars, recVars, heapVars, sndHeapVars, faceVars>>
IpcMemory == HeapNext /\ UNCHANGED <<vars, alarmVars, recVars, dvdVars, sndHeapVars, faceVars>>
FrameHeap == FrmNext /\ UNCHANGED <<vars, alarmVars, recVars, dvdVars, heapVars, sections, faceVars>>
SoundHeap == SndHeapNext /\ UNCHANGED <<vars, alarmVars, recVars, dvdVars, heapVars, faceVars>>
Faces == FaceNext /\ UNCHANGED <<vars, alarmVars, recVars, dvdVars, heapVars, sndHeapVars>>

ServicesNext ==
    /\ UNCHANGED subject
    /\ \/ subject = "messages" /\ Messages
       \/ subject = "alarms" /\ Alarms
       \/ subject = "play record" /\ PlayRecord
       \/ subject = "disc" /\ DiscDrive
       \/ subject = "ios heap" /\ IpcMemory
       \/ subject = "frame heap" /\ FrameHeap
       \/ subject = "sound heap" /\ SoundHeap
       \/ subject = "faces" /\ Faces

ServicesSpec == ServicesInit /\ [][ServicesNext]_servicesVars /\ FaceFairness

-----------------------------------------------------------------------------

(***************************************************************************)
(* The types of every service; an alarm is in the list exactly when it has *)
(* a handler, the test OSCancelAlarm makes instead of a search, and the    *)
(* ends of a frame heap and of its recorded states never cross.            *)
(***************************************************************************)
ServicesTypeOK == TypeOK /\ AlarmTypeOK /\ RecTypeOK /\ HeapTypeOK /\ FrmTypeOK

(***************************************************************************)
(* The pointers of a frame heap implement marks and releases of sets of    *)
(* regions.  (The sound heap goes back to a level by a release and a mark  *)
(* in one step, and has properties of its own.)                            *)
(***************************************************************************)
IsFrame == subject = "frame heap"

Abstract == INSTANCE MarkRelease WITH
    held <- IF IsFrame THEN regions ELSE {},
    marks <- IF IsFrame THEN Marks ELSE << >>

FrameMarks == Abstract!MarkSpec
=============================================================================
