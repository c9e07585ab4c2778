------------------------------ MODULE DvdDriver ------------------------------
(***************************************************************************)
(* The disc driver (DVD/dvd.c, dvdqueue.c, dvdfs.c) and the commands it    *)
(* has IOS carry out (dvd_broadway.c).  Reads wait in queues by priority;  *)
(* one executes.  Its command may fail because the cover was opened, the   *)
(* disc changed or the drive erred; the driver asks what it was, and       *)
(* retries, spins the disc up again, or waits for the user while an alarm  *)
(* polls the cover.  Any of it may meet a cancel.                          *)
(*                                                                         *)
(* Everything runs in interrupt handlers, or in threads under              *)
(* OSDisableInterrupts: a handler with all it calls is one step.  IOS      *)
(* serves the driver's commands in order; a step of the drive is the       *)
(* completion of the oldest with the interrupt that tells it.              *)
(*                                                                         *)
(* The program reads at least 1 byte and issues no other command than      *)
(* READ once OSInit's INQUIRY is answered; it never pauses the driver and  *)
(* never turns the messages about fatal errors off.                        *)
(***************************************************************************)
EXTENDS Integers, Sequences, FiniteSets, SequencesExt, Queues

CONSTANTS
    File,       \* the command blocks, one in each open file
    NoFile,     \* the null pointer
    Prio,       \* the priorities
    Priority,   \* the priority of each file's reads
    SyncFile,   \* the files read by DVDReadPrio, the others by DVDReadAsyncPrio
    Transfers,  \* how many transfers of MAX_TRANSFER_SIZE each file's reads take
    Contexts,   \* DVD_LOW_CTX_MAX
    MaxReads,   \* bound: the reads of a behaviour,
    MaxTroubles \* and what disturbs them: cancels, openings of the cover,
                \* errors of the drive and preparations for a reset

ASSUME DvdAssumption ==
    /\ NoFile \notin File
    /\ File \cap {"wake", "prepared"} = {}
    /\ Prio \subseteq Nat
    /\ Priority \in [File -> Prio]
    /\ SyncFile \subseteq File
    /\ Transfers \in [File -> Nat \ {0}]
    /\ Contexts \in Nat \ {0}
    /\ MaxReads \in Nat
    /\ MaxTroubles \in Nat

VARIABLES
    dvd,        \* the driver: statics, command blocks, queue, alarms, commands
    reader,     \* where each file's reader is in its call
    canceller,  \* where the thread that cancels a file's read is in DVDCancel
    reset,      \* where __DVDPrepareReset is
    drive,      \* the drive and the disc in it
    left,       \* what is left of the bounds
    cancels     \* history: how often each file's reads were cancelled

dvdVars == <<dvd, reader, canceller, reset, drive, left, cancels>>

Final == {"IDLE", "CANCELED"}
UserWait == {"NO_DISK", "COVER_OPENED", "WRONG_DISK_ID", "DISK_ERROR"}
Disc == {"right", "wrong", "none"}

DvdInit ==
    /\ dvd = [executing |-> NoFile,
              block |-> [f \in File |-> [state |-> "IDLE", transfers |-> 0, callback |-> "none"]],
              queue |-> [p \in Prio |-> << >>],
              canceling |-> FALSE, breaking |-> FALSE, cancelCallback |-> "none",
              resume |-> "NONE", retries |-> 0, lastError |-> "none", lastState |-> "busy",
              motor |-> "WORKING",
              waitOpen |-> FALSE, waitClose |-> FALSE, preparing |-> FALSE,
              coverAlarm |-> FALSE, resetAlarm |-> FALSE, storing |-> FALSE,
              low |-> << >>,      \* the commands IOS has, by their callbacks
              calls |-> {},       \* the callbacks called in the current step
              halt |-> "no"]      \* why the program or the model has ended
    /\ reader = [f \in File |-> "out"]
    /\ canceller = [f \in File |-> "out"]
    /\ reset = "no"
    /\ drive = [open |-> FALSE, disc |-> "right", coverInt |-> FALSE, spun |-> TRUE,
                sense |-> "none"]
    /\ left = [reads |-> MaxReads, troubles |-> MaxTroubles]
    /\ cancels = [f \in File |-> 0]

(***************************************************************************)
(* The driver's functions, of its state s.                                 *)
(***************************************************************************)
Halt(s, why) == [s EXCEPT !.halt = why]

(* newContext: a context is in use until its callback returns, and the     *)
(* function spins when the next one of the ring is.  Contexts are freed in *)
(* the order of the ring.                                                  *)
LowCommand(s, command) ==
    IF Len(s.low) >= Contexts THEN Halt(s, "noContext") ELSE [s EXCEPT !.low = Append(@, command)]

(* DVDLowClearCoverInterrupt(NULL) and the command. *)
ClearThen(s, command) == LowCommand(LowCommand(s, "clear"), command)

Fatal(s) == Halt(s, "fatal")

NoRetries(s) == [s EXCEPT !.retries = 0, !.lastError = "none"]

SetState(s, state) == [s EXCEPT !.block[s.executing].state = state]

StateBusy(s) == ClearThen([s EXCEPT !.lastState = "busy"], "busy")

StateMotorStoppedMutant(s) ==
    IF s.waitOpen \/ s.waitClose
    THEN [s EXCEPT !.motor = "PENDING_STOP"]
    ELSE [s EXCEPT !.motor = "PENDING_STOP", !.waitOpen = TRUE]
StateMotorStopped(s) ==
    IF s.waitOpen \/ s.waitClose
    THEN [s EXCEPT !.motor = "PENDING_STOP"]
    ELSE [s EXCEPT !.motor = "PENDING_STOP", !.waitOpen = TRUE, !.coverAlarm = TRUE]

StateCoverClosed(s) == LowCommand([s EXCEPT !.motor = "WORKING"], "reset")

PrioWaiting(s) == {p \in Prio : s.queue[p] # << >>}
Best(s) == CHOOSE p \in PrioWaiting(s) : \A q \in PrioWaiting(s) : p <= q

(* __DVDPopWaitingQueue *)
Pop(s) ==
    [s EXCEPT !.executing = Head(s.queue[Best(s)]), !.queue[Best(s)] = Tail(@)]

(* stateReady's switch on ResumeFromHere. *)
ResumeFromHere(s) ==
    LET t == [s EXCEPT !.resume = "NONE"] IN
    IF s.resume \in {"DISK_ERROR", "NO_DISK", "COVER_OPENED"}
    THEN StateMotorStopped(SetState(t, s.resume))
    ELSE StateCoverClosed(SetState(t, "COVER_CLOSED"))

StateReady(s) ==
    IF PrioWaiting(s) = {} THEN [s EXCEPT !.executing = NoFile]
    ELSE LET t == Pop(s) IN
         IF t.resume # "NONE" THEN ResumeFromHere(t)
         ELSE IF t.motor = "WORKING" THEN StateBusy(SetState(t, "BUSY"))
         ELSE StateCoverClosed(t)

Callback(s, f) ==
    CASE s.block[f].callback = "sync"  -> {"wake"}
      [] s.block[f].callback = "async" -> {f}
      [] OTHER -> {}

CallCancelCallback(s) == {s.cancelCallback} \ {"none"}

(* The executing block is done with and the next one begins. *)
Complete(s, state, calls) ==
    LET f == s.executing IN
    StateReady([s EXCEPT !.block[f].state = state, !.calls = @ \cup Callback(s, f) \cup calls])

CanceledMutant(s, resume) ==
    Complete([s EXCEPT !.resume = resume], "CANCELED", CallCancelCallback(s))
(* CheckCancel, when Canceling. *)
Canceled(s, resume) ==
    Complete([s EXCEPT !.resume = resume, !.canceling = FALSE], "CANCELED", CallCancelCallback(s))

WaitForUserMutant(s, state) == StateMotorStopped(SetState(s, state))
(* The wait for the user that a failed command ends in. *)
WaitForUser(s, state) ==
    IF s.canceling THEN Canceled(s, state) ELSE StateMotorStopped(SetState(s, state))

StateDownRotation(s) == ClearThen(s, "downRotation")
StateReadDiskID(s) == ClearThen([s EXCEPT !.lastState = "readDiskID"], "readDiskID")

RetryCommand(s) ==
    CASE s.lastState = "busy"         -> StateBusy(s)
      [] s.lastState = "downRotation" -> StateDownRotation(s)
      [] OTHER                        -> StateReadDiskID(s)

(***************************************************************************)
(* The callbacks of the commands, with the drive's answer t.               *)
(***************************************************************************)
(* As a mutant that does not reset Breaking. *)
CbBusyMutant(s, t) ==
    LET f == s.executing
        u == IF t = "TC" THEN [s EXCEPT !.block[f].transfers = @ - 1] ELSE s
    IN  CASE u.breaking ->
               Complete([u EXCEPT !.canceling = FALSE], "CANCELED", CallCancelCallback(u))
          [] ~u.breaking /\ t = "TC" ->
               LET v == NoRetries(u) IN
               IF u.canceling THEN Canceled(v, "NONE")
               ELSE IF u.block[f].transfers > 0 THEN StateBusy(v)
               ELSE Complete(v, "IDLE", {})
          [] OTHER -> LowCommand(u, "gettingError")

(* cbForStateBusy, of a READ. *)
CbBusy(s, t) ==
    LET f == s.executing
        u == IF t = "TC" THEN [s EXCEPT !.block[f].transfers = @ - 1] ELSE s
    IN  CASE u.breaking ->
               Complete([u EXCEPT !.breaking = FALSE, !.canceling = FALSE],
                        "CANCELED", CallCancelCallback(u))
          [] ~u.breaking /\ t = "TC" ->
               LET v == NoRetries(u) IN
               IF u.canceling THEN Canceled(v, "NONE")
               ELSE IF u.block[f].transfers > 0 THEN StateBusy(v)
               ELSE Complete(v, "IDLE", {})
          [] OTHER -> LowCommand(u, "gettingError")

(* CategorizeError and what cbForStateGettingError does of an error that   *)
(* is the drive's own: the same one twice is fatal; READ_FAIL and a second *)
(* one that differs stop the motor, once the error is stored in the NAND   *)
(* memory; any other one is retried.                                       *)
DriveError(s, error) ==
    LET u == [s EXCEPT !.retries = @ + 1, !.lastError = error]
        again == u.retries = 2
    IN  IF again /\ error = s.lastError THEN Fatal(u)
        ELSE IF s.canceling THEN Canceled(u, "NONE")
        ELSE IF again \/ error = "READ_FAIL" THEN [u EXCEPT !.storing = TRUE]
        ELSE RetryCommand(u)

CbGettingError(s, sense) ==
    CASE sense \in {"READ_FAIL", "XFER_FAIL"} -> DriveError(s, sense)
      [] sense \in {"COVER_OPENED", "NO_DISK"} -> WaitForUser(s, sense)
      [] sense = "DISK_CHANGED" ->
           IF s.canceling THEN Canceled(s, "DISK_CHANGED")
           ELSE StateCoverClosed(SetState(s, "COVER_CLOSED"))
      [] sense = "BAD_DISC" ->
           IF s.canceling THEN Canceled(s, "WRONG_DISK_ID") ELSE LowCommand(s, "checkID1")

(* Once the disc spins: its identity, then the way to its data. *)
CbSpinUp(s, command, disc) ==
    CASE command = "downRotation" -> StateReadDiskID(s)
      [] command = "readDiskID" ->
           IF disc = "right" THEN ClearThen(NoRetries(s), "readingTOC")
           ELSE LowCommand(NoRetries(s), "checkID1")
      [] command = "readingTOC" -> ClearThen(NoRetries(s), "partitionInfo")
      [] command = "partitionInfo" -> ClearThen(NoRetries(s), "openPartition2")
      [] command = "openPartition2" ->
           LET v == NoRetries(s) IN
           IF v.canceling THEN Canceled(v, "NONE") ELSE StateBusy(SetState(v, "BUSY"))

SpinUp == {"downRotation", "readDiskID", "readingTOC", "partitionInfo", "openPartition2"}

(* cbForStateMotorStopped *)
CoverChanged(s) ==
    LET u == [s EXCEPT !.waitClose = FALSE] IN
    IF u.executing = NoFile
    THEN [u EXCEPT !.resume = "RESUME_7"]
    ELSE StateCoverClosed(SetState(u, "COVER_CLOSED"))

(* cbForPrepareCoverRegister, with the cover's register.  The wait it was  *)
(* asked for may have been cancelled since: it then writes through a null  *)
(* pointer, or breaks in on the block that executes by now.  The model     *)
(* ends there.                                                             *)
CbPrepareCover(s, open, coverInt) ==
    LET u == [s EXCEPT !.preparing = FALSE]
        late == ~s.waitOpen /\ ~s.waitClose /\ s.executing # NoFile
        EndIfLate(v) == IF late THEN Halt(v, "late") ELSE v
    IN  IF u.waitClose
        THEN IF open THEN u ELSE CoverChanged([u EXCEPT !.coverAlarm = FALSE])
        ELSE IF open
        THEN IF u.executing = NoFile THEN Halt(u, "nullWrite")
             ELSE EndIfLate(SetState([u EXCEPT !.waitOpen = FALSE, !.waitClose = TRUE],
                                     "COVER_OPENED"))
        ELSE IF coverInt
        THEN EndIfLate(CoverChanged(LowCommand([u EXCEPT !.coverAlarm = FALSE,
                                                         !.waitOpen = FALSE], "clear")))
        ELSE u

(* What each command's callback does of the answer t of the drive. *)
Handle(s, command, t) ==
    CASE command = "clear"        -> s
      [] command = "prepareCover" -> CbPrepareCover(s, drive.open, drive.coverInt)
      [] command \notin {"clear", "prepareCover"} /\ t = "TIME" -> Fatal(s)
      [] command = "busy" /\ t # "TIME" -> CbBusy(s, t)
      [] command = "gettingError" /\ t # "TIME" -> CbGettingError(s, t)
      [] command = "goToRetry" /\ t # "TIME" -> WaitForUser(NoRetries(s), "DISK_ERROR")
      [] command = "checkID1" /\ t # "TIME" -> WaitForUser(NoRetries(s), "WRONG_DISK_ID")
      [] command = "reset" /\ t = "TC" ->
           IF s.resetAlarm THEN Halt(s, "alarmTwice")
           ELSE [s EXCEPT !.resume = "NONE", !.resetAlarm = TRUE]
      [] command \in SpinUp /\ t = "TC" -> CbSpinUp(s, command, drive.disc)
      [] OTHER -> LowCommand(s, "gettingError")

(***************************************************************************)
(* The end of a step: the callbacks it called take effect.  A woken thread *)
(* looks again.  What CancelCallback holds is read no more once neither    *)
(* Canceling nor Breaking is set.                                          *)
(***************************************************************************)
Woken(s, where) ==
    [f \in File |-> IF "wake" \in s.calls /\ where[f] = "asleep" THEN "check"
                    ELSE IF f \in s.calls /\ where[f] = "async" THEN "out"
                    ELSE where[f]]

Step(s, readers, cancellers, resetting) ==
    /\ dvd' = [s EXCEPT !.calls = {},
                        !.cancelCallback = IF s.canceling \/ s.breaking THEN @ ELSE "none"]
    /\ reader' = Woken(s, readers)
    /\ canceller' = Woken(s, cancellers)
    /\ reset' = IF "prepared" \in s.calls THEN "prepared" ELSE resetting

Running == dvd.halt = "no"
Counted(f) == cancels' = [cancels EXCEPT ![f] = @ + 1]
Spend(what) == left[what] > 0 /\ left' = [left EXCEPT ![what] = @ - 1]

(***************************************************************************)
(* The drive and its user.                                                 *)
(***************************************************************************)
Readable == ~drive.open /\ drive.spun /\ drive.disc # "none"

Fault == {"READ_FAIL", "XFER_FAIL"}

Sense ==
    IF drive.open THEN "COVER_OPENED"
    ELSE IF drive.sense # "none" THEN drive.sense
    ELSE IF ~drive.spun THEN "DISK_CHANGED"
    ELSE IF drive.disc = "none" THEN "NO_DISK"
    ELSE "BAD_DISC"

(* The answers the drive can give. *)
AnswersTo(command) ==
    CASE command \in {"clear", "prepareCover", "goToRetry", "checkID1"} -> {"TC"}
      [] command = "gettingError" -> {Sense}
      [] command = "reset" -> IF drive.open THEN {"TC", "DE"} ELSE {"TC"}
      [] command = "readDiskID" /\ Readable /\ drive.disc = "wrong" -> {"TC", "DE"}
      [] OTHER -> IF Readable THEN {"TC"} ELSE {"DE"}

(* Those of a drive that fails. *)
Failures(command) ==
    CASE command \in {"clear", "prepareCover"} -> {}
      [] command \in SpinUp \cup {"busy"} -> Fault \cup {"TIME"}
      [] OTHER -> {"TIME"}

AfterCommand(command, t) ==
    CASE command = "clear"        -> [drive EXCEPT !.coverInt = FALSE]
      [] command = "prepareCover" -> drive
      [] command = "reset"        -> [drive EXCEPT !.sense = "none",
                                                   !.spun = @ \/ (t = "TC" /\ ~drive.open)]
      [] OTHER -> [drive EXCEPT !.sense = IF t \in Fault /\ command # "gettingError"
                                          THEN t ELSE "none"]

(* The oldest command is done: its callback is called. *)
Interrupt(t) ==
    LET command == Head(dvd.low) IN
    /\ drive' = AfterCommand(command, t)
    /\ \E s \in {Handle(dvd, command, t)} :
          Step([s EXCEPT !.low = Tail(@)], reader, canceller, reset)

DriveAnswers ==
    /\ Running
    /\ dvd.low # << >>
    /\ \E t \in AnswersTo(Head(dvd.low)) : Interrupt(t)
    /\ UNCHANGED <<left, cancels>>

DriveFails ==
    /\ Running
    /\ dvd.low # << >>
    /\ Spend("troubles")
    /\ \E t \in Failures(Head(dvd.low)) : Interrupt(t)
    /\ UNCHANGED cancels

OpenCover ==
    /\ Running
    /\ ~drive.open
    /\ Spend("troubles")
    /\ drive' = [drive EXCEPT !.open = TRUE, !.coverInt = TRUE, !.spun = FALSE, !.sense = "none"]
    /\ UNCHANGED <<dvd, reader, canceller, reset, cancels>>

CloseCover(disc) ==
    /\ Running
    /\ drive.open
    /\ drive' = [drive EXCEPT !.open = FALSE, !.disc = disc, !.coverInt = TRUE]
    /\ UNCHANGED <<dvd, reader, canceller, reset, left, cancels>>

(***************************************************************************)
(* The alarms, and the end of the write of the error to the NAND memory.   *)
(***************************************************************************)
CoverAlarmHandler ==
    /\ Running
    /\ dvd.coverAlarm
    /\ ~dvd.preparing
    /\ Step(LowCommand([dvd EXCEPT !.preparing = TRUE], "prepareCover"), reader, canceller, reset)
    /\ UNCHANGED <<drive, left, cancels>>

(* The drive is of the kind whose rotation must be limited first. *)
ResetAlarmHandler ==
    /\ Running
    /\ dvd.resetAlarm
    /\ Step(StateDownRotation([dvd EXCEPT !.resetAlarm = FALSE, !.lastState = "downRotation"]),
            reader, canceller, reset)
    /\ UNCHANGED <<drive, left, cancels>>

ErrorStored ==
    /\ Running
    /\ dvd.storing
    /\ Step(LowCommand([dvd EXCEPT !.storing = FALSE], "goToRetry"), reader, canceller, reset)
    /\ UNCHANGED <<drive, left, cancels>>

(***************************************************************************)
(* The program's threads.                                                  *)
(***************************************************************************)

(* DVDReadPrio and DVDReadAsyncPrio, on a file that nobody reads or is     *)
(* cancelling, before the program prepares for a reset.                    *)
Read(f) ==
    /\ Running
    /\ reader[f] = "out"
    /\ canceller[f] = "out"
    /\ reset = "no"
    /\ Spend("reads")
    /\ LET s == [dvd EXCEPT !.block[f] = [state |-> "WAITING", transfers |-> Transfers[f],
                                           callback |-> IF f \in SyncFile
                                                        THEN "sync" ELSE "async"],
                             !.queue[Priority[f]] = Append(@, f)]
       IN  Step(IF s.executing = NoFile THEN StateReady(s) ELSE s,
                [reader EXCEPT ![f] = IF f \in SyncFile THEN "check" ELSE "async"],
                canceller, reset)
    /\ UNCHANGED <<drive, cancels>>

(* The loop of DVDReadPrio: it returns, or sleeps on __DVDThreadQueue. *)
ReaderLooks(f) ==
    /\ Running
    /\ reader[f] = "check"
    /\ reader' = [reader EXCEPT ![f] = IF dvd.block[f].state \in Final THEN "out" ELSE "asleep"]
    /\ UNCHANGED <<dvd, canceller, reset, drive, left, cancels>>

RefusedCancel(s, f) ==
    LET state == s.block[f].state IN
    \/ state \in {"BUSY", "COVER_CLOSED"} /\ s.canceling
    \/ state \in UserWait /\ ~s.waitClose /\ ~s.waitOpen

(* DVDCancelAsync, when it does not refuse. *)
CancelAsync(s, f, callback) ==
    LET state == s.block[f].state
        told == {callback} \ {"none"}
        canceled == [s EXCEPT !.block[f].state = "CANCELED",
                              !.calls = @ \cup Callback(s, f) \cup told]
    IN  CASE state \in Final -> [s EXCEPT !.calls = @ \cup told]
          [] state \in {"BUSY", "COVER_CLOSED"} ->
               [s EXCEPT !.canceling = TRUE, !.cancelCallback = callback,
                         !.breaking = @ \/ state = "BUSY"]
          [] state = "WAITING" ->
               [canceled EXCEPT !.queue[Priority[f]] = Without(@, f)]
          [] state \in UserWait ->
               StateReady([canceled EXCEPT !.coverAlarm = @ /\ ~s.waitOpen,
                                           !.waitOpen = FALSE,
                                           !.resume = state])

(* DvdFileStream::CancelAsync: nobody waits for the callback. *)
StreamCancel(f) ==
    /\ Running
    /\ ~RefusedCancel(dvd, f)
    /\ reader[f] # "out"
    /\ reset = "no"
    /\ Spend("troubles")
    /\ Step(CancelAsync(dvd, f, "none"), reader, canceller, reset)
    /\ Counted(f)
    /\ UNCHANGED drive

(* DVDCancel up to its loop. *)
DVDCancel(f) ==
    /\ Running
    /\ canceller[f] = "out"
    /\ reader[f] # "out"
    /\ ~RefusedCancel(dvd, f)
    /\ reset = "no"
    /\ Spend("troubles")
    /\ Step(CancelAsync(dvd, f, "wake"), reader, [canceller EXCEPT ![f] = "check"], reset)
    /\ Counted(f)
    /\ UNCHANGED drive

CancellerLooks(f) ==
    /\ Running
    /\ canceller[f] = "check"
    /\ canceller' = [canceller EXCEPT ![f] = IF dvd.block[f].state \in Final
                                             THEN "out" ELSE "asleep"]
    /\ UNCHANGED <<dvd, reader, reset, drive, left, cancels>>

PrepareReset(s) ==
    LET t == [s EXCEPT !.queue = [p \in Prio |-> << >>]] IN
    IF t.canceling THEN [t EXCEPT !.cancelCallback = "prepared"]
    ELSE IF t.executing = NoFile THEN [t EXCEPT !.calls = {"prepared"}]
    ELSE LET u == [t EXCEPT !.block[t.executing].callback = "none"] IN
         IF RefusedCancel(u, u.executing) THEN u ELSE CancelAsync(u, u.executing, "prepared")

(* __DVDPrepareReset up to its loop, at a shutdown or a return to the menu. *)
DVDPrepareReset ==
    /\ Running
    /\ reset = "no"
    /\ Spend("troubles")
    /\ Step(PrepareReset(dvd), reader, canceller, "waiting")
    /\ UNCHANGED <<drive, cancels>>

DvdNext ==
    \/ DriveAnswers \/ DriveFails
    \/ OpenCover \/ \E disc \in Disc : CloseCover(disc)
    \/ CoverAlarmHandler \/ ResetAlarmHandler \/ ErrorStored
    \/ DVDPrepareReset
    \/ \E f \in File : \/ Read(f)
                       \/ ReaderLooks(f) \/ StreamCancel(f) \/ DVDCancel(f) \/ CancellerLooks(f)

DvdSpec == DvdInit /\ [][DvdNext]_dvdVars

(* IOS answers every command, alarms ring, the NAND memory answers and     *)
(* threads that can run do.  Nothing makes the user close the cover.       *)
DvdFairness ==
    /\ WF_dvdVars(DriveAnswers)
    /\ WF_dvdVars(CoverAlarmHandler)
    /\ WF_dvdVars(ResetAlarmHandler)
    /\ WF_dvdVars(ErrorStored)
    /\ \A f \in File : WF_dvdVars(ReaderLooks(f)) /\ WF_dvdVars(CancellerLooks(f))

DvdFairSpec == DvdSpec /\ DvdFairness

-----------------------------------------------------------------------------
(***************************************************************************)
(* Properties.                                                             *)
(***************************************************************************)
Driving == {i \in 1 .. Len(dvd.low) : dvd.low[i] \notin {"clear", "prepareCover"}}
WaitsForCover == dvd.waitOpen \/ dvd.waitClose

(* The executing block is driven by exactly one thing: a command, the      *)
(* alarm after a reset, the write of an error, or the wait for the cover,  *)
(* and a wait is polled.  No command is out for nobody.                    *)
OneDriver ==
    LET drivers == Cardinality(Driving)
                   + (IF dvd.resetAlarm THEN 1 ELSE 0)
                   + (IF dvd.storing THEN 1 ELSE 0)
    IN  Running =>
          IF dvd.executing = NoFile THEN drivers = 0
          ELSE IF dvd.block[dvd.executing].state \in UserWait
          THEN drivers = 0 /\ WaitsForCover
          ELSE drivers = 1

WaitPolled == Running => (WaitsForCover => dvd.coverAlarm)

(* The ring of contexts never runs out and the alarm is never set twice.   *)
NoSpin == dvd.halt \notin {"noContext", "alarmTwice"}

(* A thread sleeps only while its block has an end to reach. *)
SleeperUnfinished ==
    reset = "no" =>
        \A f \in File : (reader[f] = "asleep" \/ canceller[f] = "asleep")
                            => dvd.block[f].state \notin Final

DvdTypeOK ==
    /\ dvd.executing \in File \cup {NoFile}
    /\ \A f \in File :
         /\ dvd.block[f].state \in Final \cup UserWait \cup {"BUSY", "WAITING", "COVER_CLOSED"}
         /\ dvd.block[f].transfers \in 0 .. Transfers[f]
    /\ dvd.retries \in Nat
    /\ reader \in [File -> {"out", "check", "asleep", "async"}]
    /\ canceller \in [File -> {"out", "check", "asleep"}]
    /\ reset \in {"no", "waiting", "prepared"}

DvdDriven == DvdTypeOK /\ OneDriver /\ WaitPolled /\ NoSpin /\ SleeperUnfinished

Service == INSTANCE ReadService WITH
    waiting <- dvd.queue,
    active <- dvd.executing,
    outcome <- [f \in File |-> CASE dvd.block[f].state = "IDLE" -> "GOOD"
                                 [] dvd.block[f].state = "CANCELED" -> "CANCELED"
                                 [] OTHER -> "none"],
    asked <- dvd.canceling,
    leftover <- dvd.breaking /\ ~dvd.canceling,
    shut <- reset # "no"

(* Reads are served as the abstract service says: by priority, then in the *)
(* order of the calls, each answered once, and CANCELED in the step of the *)
(* cancel of that very read or after it, in or after the shutdown, or once *)
(* for the Breaking that an earlier cancel left set.                       *)
ServiceSpec == Service!ServiceSpec

Playable == ~drive.open /\ drive.disc = "right"
Ended == dvd.halt # "no"
Unreadable == \E g \in File : dvd.block[g].state = "DISK_ERROR"

(* With the disc back behind a closed cover for good, every read returns;  *)
(* a drive that cannot read the disc waits for the user to open the cover. *)
(* Cancels and the preparation of a reset return whatever the user does.   *)
DvdCallsReturn ==
    /\ \A f \in File :
         /\ <>[]Playable =>
              (reader[f] # "out" ~> \/ reader[f] = "out" \/ Ended \/ reset # "no"
                                    \/ Unreadable)
         /\ canceller[f] # "out" ~> canceller[f] = "out" \/ Ended \/ reset # "no"
    /\ reset = "waiting" ~> reset = "prepared" \/ Ended
=============================================================================
