---------------------------- MODULE OSPlayRecord ----------------------------
(***************************************************************************)
(* The play record (OS/OSPlayRecord.c): a state machine in the background  *)
(* that writes the time of play to the NAND every minute.  Each step waits *)
(* for one thing, the answer of an asynchronous NAND command or an alarm,  *)
(* whose callback runs in an interrupt.  __OSStopPlayRecord stops it from  *)
(* a thread, at whatever step it is, and closes its file.                  *)
(*                                                                         *)
(* A callback is one step.  __OSStartPlayRecord runs the first callback in *)
(* a thread, where an interrupt may come before its last assignment.  A    *)
(* NAND command is refused at once, with BUSY or another error, or answers *)
(* later; the alarm is pending or not.                                     *)
(***************************************************************************)
EXTENDS Integers

VARIABLES
    rec,      \* PlayRecordState and the other globals; `alarm': whether
              \* PlayRecordAlarm is pending, `nand': the command that will
              \* call back, `file': FileInfo is open, `lost' (history): the
              \* NAND has refused, or failed, to close it
    recStart, \* where __OSStartPlayRecord is, with what it has yet to assign
    recStop   \* where __OSStopPlayRecord is

recVars == <<rec, recStart, recStop>>

FileState == {"READ", "SEEK", "WRITE"}
CommandState == {"OPEN", "CLOSE"} \cup FileState
State == {"STARTED", "SET_ALARM", "CLOSED", "TIMEOUT", "STOPPED"} \cup CommandState

(* What the call of an asynchronous command returns, and what its callback *)
(* is given: a whole read or write answers its size.                       *)
Returned == {"OK", "BUSY", "ERROR"}
Success(command) == IF command \in {"READ", "WRITE"} THEN "SIZE" ELSE "OK"
Answers(command) ==
    {Success(command), "ERROR"} \cup IF command = "OPEN" THEN {"MAXFD"} ELSE {}

RecInit ==
    /\ rec = [state |-> "STOPPED", lastError |-> "OK", retry |-> FALSE, error |-> FALSE,
              get |-> FALSE, terminate |-> FALSE, terminated |-> FALSE,
              alarm |-> FALSE, nand |-> "none", file |-> FALSE, lost |-> FALSE]
    /\ recStart = "out"
    /\ recStop = "out"

(***************************************************************************)
(* PlayRecordCallback, as a function of the state r.                       *)
(***************************************************************************)
RetryMutant(r) == [r EXCEPT !.retry = TRUE]
Retry(r) == [r EXCEPT !.retry = TRUE, !.alarm = TRUE]
Fail(r, state) == [r EXCEPT !.error = TRUE, !.state = state]

(* The first switch; more than 300 s since the last close is longAgo. *)
Move(r, result, longAgo) ==
    CASE r.state = "STARTED" -> [r EXCEPT !.state = "OPEN"]
      [] r.state = "OPEN" /\ result = "MAXFD" -> Retry(r)
      [] r.state = "OPEN" /\ result = "OK" ->
            [r EXCEPT !.state = IF r.get THEN "SET_ALARM" ELSE "READ"]
      [] r.state = "READ" /\ result = "SIZE" -> [r EXCEPT !.get = TRUE, !.state = "SEEK"]
      [] r.state = "SEEK" /\ result = "OK" -> [r EXCEPT !.state = "SET_ALARM"]
      [] r.state = "SET_ALARM" -> [r EXCEPT !.state = "WRITE"]
      [] r.state = "WRITE" /\ result = "SIZE" ->
            [r EXCEPT !.state = IF longAgo THEN "CLOSE" ELSE "SEEK"]
      [] r.state \in FileState /\ result # Success(r.state) -> Fail(r, "CLOSE")
      [] r.state = "CLOSE" /\ ~r.error /\ result = "OK" -> [r EXCEPT !.state = "OPEN"]
      [] OTHER -> Fail(r, "CLOSED")

RefusedMutant(r, again) == [Fail(r, "CLOSED") EXCEPT !.lastError = "ERROR"]
(* A command is refused with an error: after one on the open file the code *)
(* asks for its close at once, which returns again.                        *)
Refused(r, again) ==
    IF r.state \in FileState
    THEN LET c == [Fail(r, "CLOSE") EXCEPT !.lastError = again]
         IN  CASE again = "OK" -> [c EXCEPT !.nand = "CLOSE"]
               [] again = "BUSY" -> Retry(c)
               [] OTHER -> [c EXCEPT !.lost = TRUE]
    ELSE [Fail(r, "CLOSED") EXCEPT !.lastError = "ERROR", !.lost = @ \/ r.state = "CLOSE"]

(* The second switch: the command of the state, or the alarm. *)
Issue(r, returned, again) ==
    IF r.state \notin CommandState
    THEN [r EXCEPT !.lastError = "OK", !.alarm = r.state = "SET_ALARM"]
    ELSE CASE returned = "OK" -> [r EXCEPT !.lastError = "OK", !.nand = r.state]
           [] returned = "BUSY" -> Retry([r EXCEPT !.lastError = "BUSY"])
           [] OTHER -> Refused(r, again)

PlayRecordCallback(s, result, longAgo, returned, again) ==
    LET r == [s EXCEPT !.lastError = result]
        m == IF r.retry THEN [r EXCEPT !.retry = FALSE] ELSE Move(r, result, longAgo)
    IN  IF r.terminate THEN [r EXCEPT !.terminated = TRUE]
        ELSE IF m.state = "CLOSED" \/ m.retry THEN m
        ELSE Issue(m, returned, again)

Outcomes(s, result) ==
    {PlayRecordCallback(s, result, longAgo, returned, again) :
        longAgo \in BOOLEAN, returned \in Returned, again \in Returned}

(* The file once a command has answered, and whether its close failed. *)
Answered(r, result) ==
    [r EXCEPT !.nand = "none",
              !.file = CASE r.nand = "OPEN" -> result = "OK"
                         [] r.nand = "CLOSE" -> result # "OK"
                         [] OTHER -> @,
              !.lost = @ \/ (r.nand = "CLOSE" /\ result # "OK")]

NandAnswers ==
    /\ rec.nand # "none"
    /\ \E result \in Answers(rec.nand) : rec' \in Outcomes(Answered(rec, result), result)
    /\ UNCHANGED <<recStart, recStop>>

(* PlayRecordAlarmCallback. *)
AlarmRings ==
    /\ rec.alarm
    /\ rec' \in Outcomes([rec EXCEPT !.alarm = FALSE], "OK")
    /\ UNCHANGED <<recStart, recStop>>

(***************************************************************************)
(* The threads.                                                            *)
(***************************************************************************)

(* __OSStartPlayRecord, as far as the assignment of lastError. *)
StartRecord ==
    /\ recStart = "out"
    /\ recStop = "out"
    /\ \E r \in Outcomes([rec EXCEPT !.state = "STARTED"], "OK") :
          /\ rec' = [r EXCEPT !.lastError = "OK"]
          /\ recStart' = r.lastError
    /\ UNCHANGED recStop

StartEnds ==
    /\ recStart \in Returned
    /\ rec' = [rec EXCEPT !.lastError = recStart]
    /\ recStart' = "done"
    /\ UNCHANGED recStop

(* __OSStopPlayRecord with interrupts disabled. *)
Stop ==
    LET r == [rec EXCEPT !.terminate = TRUE] IN
    /\ recStop = "out"
    /\ recStart \in {"out", "done"}
    /\ CASE rec.state \in {"CLOSED", "STARTED", "STOPPED", "TIMEOUT"} ->
              recStop' = "done" /\ rec' = [r EXCEPT !.state = "STOPPED"]
         [] rec.state = "SET_ALARM" ->
              recStop' = "write" /\ rec' = [r EXCEPT !.alarm = FALSE]
         [] rec.state \in CommandState /\ rec.retry ->
              recStop' = "close" /\ rec' = [r EXCEPT !.alarm = FALSE]
         [] OTHER -> recStop' = "wait" /\ rec' = r
    /\ UNCHANGED recStart

StopWaited ==
    /\ recStop = "wait"
    /\ rec.terminated
    /\ recStop' = "close"
    /\ UNCHANGED <<rec, recStart>>

StopTimesOut ==
    /\ recStop = "wait"
    /\ ~rec.terminated
    /\ recStop' = "done"
    /\ rec' = [rec EXCEPT !.state = "TIMEOUT"]
    /\ UNCHANGED recStart

(* The last switch: whether the step it was stopped at left the file open. *)
MustClose(r) ==
    \/ r.state \in FileState
    \/ r.state = "OPEN" /\ r.lastError = "OK" /\ ~r.retry
    \/ r.state = "CLOSE" /\ r.retry

(* The synchronous NANDClose, which may fail; in state SET_ALARM a last    *)
(* NANDWrite comes before it.                                              *)
StopCloses ==
    /\ recStop \in {"write", "close"}
    /\ recStop' = "done"
    /\ IF recStop = "write" \/ MustClose(rec)
       THEN \E closed \in BOOLEAN :
               rec' = [rec EXCEPT !.state = "STOPPED", !.file = ~closed, !.lost = @ \/ ~closed]
       ELSE rec' = [rec EXCEPT !.state = "STOPPED"]
    /\ UNCHANGED recStart

RecNext ==
    \/ NandAnswers \/ AlarmRings
    \/ StartRecord \/ StartEnds
    \/ Stop \/ StopWaited \/ StopTimesOut \/ StopCloses

RecSpec == RecInit /\ [][RecNext]_recVars

-----------------------------------------------------------------------------
(***************************************************************************)
(* Properties.                                                             *)
(***************************************************************************)

(* The globals keep their types, and after an error only the close is left.*)
RecTypeOK ==
    /\ rec.error => rec.state \in {"CLOSE", "CLOSED", "TIMEOUT", "STOPPED"}
    /\ rec \in [state : State, lastError : Returned \cup {"SIZE", "MAXFD"}, retry : BOOLEAN,
                error : BOOLEAN, get : BOOLEAN, terminate : BOOLEAN, terminated : BOOLEAN,
                alarm : BOOLEAN, nand : CommandState \cup {"none"}, file : BOOLEAN, lost : BOOLEAN]
    /\ recStart \in {"out", "done"} \cup Returned
    /\ recStop \in {"out", "write", "close", "wait", "done"}

(* The machine waits for exactly one thing: never for an alarm and a       *)
(* command, so neither the alarm nor the command block is used twice; and, *)
(* until it closes its file or is stopped, never for nothing.  It commands *)
(* only the open file, and does not open it again while it is.             *)
OneContinuation ==
    /\ ~(rec.alarm /\ rec.nand # "none")
    /\ (rec.state \in CommandState \cup {"SET_ALARM"} /\ ~rec.terminate /\ ~rec.lost)
          => rec.alarm \/ rec.nand # "none"
    /\ rec.nand \in FileState \cup {"CLOSE"} => rec.file
    /\ rec.nand = "OPEN" => ~rec.file \/ rec.lost

(* Stopped at any step, the machine leaves no open file, no alarm and no   *)
(* command behind -- unless the NAND would not close the file or the wait  *)
(* timed out -- and closes only a file that is open.                       *)
StopLeavesNothing ==
    /\ recStop = "done" /\ rec.state = "STOPPED" =>
          /\ ~rec.alarm
          /\ rec.nand = "none"
          /\ rec.file => rec.lost
    /\ (recStop = "close" /\ MustClose(rec)) \/ recStop = "write" => rec.file
=============================================================================
