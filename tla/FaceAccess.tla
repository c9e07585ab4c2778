----------------------------- MODULE FaceAccess -----------------------------
(***************************************************************************)
(* RVLFaceLib/RFL_NANDAccess.c: the face library's access to its database  *)
(* on the NAND.  An operation raises `working', sends its first request    *)
(* and returns; the answers drive it from the interrupt of the IPC         *)
(* library, and it ends with an error code and a call of its callback.     *)
(*                                                                         *)
(* The handlers are functions of the state s of NandSafe, with the fields  *)
(*   up        whether the manager exists                                  *)
(*   working, err, reason, beforeErr   as in RFLiManager                   *)
(*   broken    the bits of brokenType                                      *)
(*   lastErr   sRFLLastErrCode, the status once the manager is gone        *)
(*   opened, callback   as in RFLiAccessInfo                               *)
(*   args      openInfo, readInfo or writeInfo, which share their memory   *)
(*   retry     the alarm: which request it repeats, or "none"; the count   *)
(*   due       whether the callback is to be called                        *)
(*   mem, got  what is read: the header in memory, a slot's data           *)
(*   spoilt    ghost: the file system did not do, or not wholly, a seek or *)
(*             a write, or it was asked too often                          *)
(***************************************************************************)
EXTENDS NandSafe

CONSTANTS MaxRetry  \* MAX_RETRY_COUNT

ASSUME RetryAssumption == MaxRetry \in Nat

(* The header: the table of the hidden database, linked from the oldest    *)
(* entry to the newest.  `crc' tells whether the sum stored matches.       *)
NoSlot == 0
BlankEntry == [id |-> Nothing, next |-> NoSlot, prev |-> NoSlot]
ClearedHeader == [head |-> NoSlot, tail |-> NoSlot, table |-> [x \in DataSlot |-> BlankEntry],
            isolation |-> TRUE, crc |-> FALSE]
Zeroed == [head |-> 1, tail |-> 1,
           table |-> [x \in DataSlot |-> [id |-> Nothing, next |-> 1, prev |-> 1]],
           isolation |-> FALSE, crc |-> TRUE]

NoArgs == [kind |-> "none", mode |-> "none", place |-> Nowhere, payload |-> Nothing]
OpenArgs(mode) == [NoArgs EXCEPT !.kind = "open", !.mode = mode]
ReadArgs(place) == [NoArgs EXCEPT !.kind = "read", !.place = place]
WriteArgs(place, payload) ==
    [NoArgs EXCEPT !.kind = "write", !.place = place, !.payload = payload]

(* What is written is what memory holds when the write is sent; a write    *)
(* may find another operation's arguments.                                 *)
NoPayload == [kind |-> "none", value |-> Nothing, size |-> 3]
HeaderPayload == [kind |-> "header", value |-> Nothing, size |-> 2]
DataPayload(id) == [kind |-> "data", value |-> id, size |-> 1]
PayloadOf(s) ==
    IF s.args.kind # "write" THEN NoPayload
    ELSE IF s.args.payload.kind = "header" THEN [HeaderPayload EXCEPT !.value = s.mem]
    ELSE s.args.payload
SoughtBy(s, r) == s.args.kind \in {"read", "write"} /\ r.value = s.args.place

-----------------------------------------------------------------------------
Status(s) ==
    IF ~s.up THEN s.lastErr
    ELSE IF s.working THEN "Busy"
    ELSE IF "corrupt" \in s.broken THEN "Fatal"
    ELSE s.err

RFLiStartWorking(s) == [s EXCEPT !.working = TRUE, !.err = "Busy"]

(* The first error of an operation is kept.                                *)
RFLiEndWorkingReason(s, err, reason) ==
    IF s.err \in {"Busy", "Success"}
    THEN [s EXCEPT !.working = FALSE, !.err = err, !.reason = reason]
    ELSE s
RFLiEndWorking(s, err) == RFLiEndWorkingReason(s, err, "ok")

startWorkingClose(s) ==
    [s EXCEPT !.working = TRUE, !.beforeErr = s.err, !.err = "Busy"]

endWorkingClose(s) ==
    [s EXCEPT !.working = FALSE, !.err = s.beforeErr, !.reason = s.beforeErr]

(* An operation that fails: for one of these reasons it was a command of   *)
(* the NAND, for another it is fatal.                                      *)
Fails(s, r, command) ==
    RFLiEndWorkingReason(s, IF r.status \in command THEN "NANDCommandfail" ELSE "Fatal",
                         r.status)

Due(s) == [s EXCEPT !.due = TRUE]
NotSent(s) == s.ret # "ok"

-----------------------------------------------------------------------------
(* Open; an open file is closed first.                                     *)
RFLiOpenAsync(s, mode, callback) ==
    LET t == [RFLiStartWorking(s) EXCEPT !.callback = callback, !.args = OpenArgs(mode)]
        u == IF s.opened THEN NANDSafeCloseAsync(t, "close2open")
             ELSE NANDPrivateSafeOpenAsync(t, mode, "open")
    IN IF NotSent(u) THEN RFLiEndWorkingReason(u, "NANDCommandfail", u.ret) ELSE u

(* The file is there: the boot has read it.  Otherwise it would be created *)
(* before a write.                                                         *)
opencallback(s, r) ==
    LET command == {"maxfd", "corrupt", "busy", "access", "noexists"}
        t == [s EXCEPT !.opened = ~Failed(r)]
    IN Due(IF Failed(r) THEN Fails(t, r, command) ELSE RFLiEndWorking(t, "Success"))

close2opencallback(s, r) ==
    LET u == NANDPrivateSafeOpenAsync(s, s.args.mode, "open")
    IN IF Failed(r) THEN Due(Fails(s, r, {"corrupt", "busy", "alloc", "access"}))
       ELSE IF NotSent(u) THEN Due(RFLiEndWorkingReason(u, "NANDCommandfail", u.ret))
       ELSE u

-----------------------------------------------------------------------------
(* Read: seek, then read.                                                  *)
RFLiReadAsync(s, place, callback) ==
    LET t == [RFLiStartWorking(s) EXCEPT !.callback = callback, !.args = ReadArgs(place)]
        u == FileAsync(t, "seek", place, "read seek")
    IN IF NotSent(u) THEN RFLiEndWorkingReason(u, "NANDCommandfail", u.ret) ELSE u

(* As a mutant that does not end the operation when it cannot go on.       *)
readseekcallbackMutant(s, r) ==
    LET u == FileAsync(s, "read", 0, "read")
    IN IF Failed(r) THEN Due(Fails(s, r, {"busy", "alloc", "access"}))
       ELSE IF ~SoughtBy(s, r) THEN Due(RFLiEndWorking(s, "Loadfail"))
       ELSE IF NotSent(u) THEN Due(u)
       ELSE u

readseekcallback(s, r) ==
    LET u == FileAsync(s, "read", 0, "read")
    IN IF Failed(r) THEN Due(Fails(s, r, {"busy", "alloc", "access"}))
       ELSE IF ~SoughtBy(s, r) THEN Due(RFLiEndWorking(s, "Loadfail"))
       ELSE IF NotSent(u) THEN Due(RFLiEndWorkingReason(u, "NANDCommandfail", u.ret))
       ELSE u

(* What is read; memory is cleared when nothing is.                        *)
Received(s, header, data) ==
    IF s.args.place = HeaderAt THEN [s EXCEPT !.mem = header] ELSE [s EXCEPT !.got = data]

readcallback(s, r) ==
    IF Failed(r)
    THEN Due(Received(Fails(s, r, {"access", "alloc", "busy", "corrupt"}), Zeroed, Nothing))
    ELSE Due(Received(RFLiEndWorking(s, "Success"), r.value, r.value))

-----------------------------------------------------------------------------
(* Write: seek, then write, each again after a while when it is refused.   *)
retry(s, count, which) ==
    IF count < MaxRetry
    THEN [s EXCEPT !.retry = [which |-> which, count |-> count]]
    ELSE [RFLiEndWorkingReason(s, "NANDCommandfail", "busy") EXCEPT !.spoilt = TRUE]

RFLiWriteAsync(s, place, payload, callback) ==
    LET t == [RFLiStartWorking(s) EXCEPT !.callback = callback, !.args = WriteArgs(place, payload)]
        u == FileAsync(t, "seek", place, "write seek")
    IN IF NotSent(u) THEN retry(u, 0, "seek") ELSE u

writeseekcallback(s, r) ==
    LET u == FileAsync(s, "write", PayloadOf(s), "write")
        t == IF NotSent(u) THEN retry(u, 0, "write") ELSE u
    IN IF r.status \in {"busy", "alloc"} THEN Due(retry([s EXCEPT !.spoilt = TRUE], 0, "seek"))
       ELSE IF Failed(r) THEN Due(Fails([s EXCEPT !.spoilt = TRUE], r, {"access"}))
       ELSE IF ~SoughtBy(s, r) THEN Due(RFLiEndWorking([s EXCEPT !.spoilt = TRUE], "Savefail"))
       ELSE IF t.working THEN t ELSE Due(t)

writecallback(s, r) ==
    LET t == [s EXCEPT !.spoilt = TRUE]
    IN Due(IF r.status \in {"busy", "alloc"} THEN retry(t, s.retry.count + 1, "write")
           ELSE IF Failed(r) THEN Fails(t, r, {"maxblocks", "corrupt", "access"})
           ELSE IF r.value = PayloadOf(s).size THEN RFLiEndWorking(s, "Success")
           ELSE RFLiEndWorking(t, "Savefail"))

(* The alarm.                                                              *)
retryWrite(s) ==
    LET u == FileAsync(s, "write", PayloadOf(s), "write")
        t == IF NotSent(u) THEN retry(u, s.retry.count + 1, "write") ELSE u
    IN IF t.working THEN t ELSE Due(t)

retryWriteSeek(s) ==
    LET u == FileAsync(s, "seek", s.args.place, "write seek")
    IN IF NotSent(u) THEN retry(u, s.retry.count + 1, "seek") ELSE u

-----------------------------------------------------------------------------
(* Close; the error of the operation before is given back once it is done. *)
RFLiCloseAsync(s, callback) ==
    LET t == [startWorkingClose(s) EXCEPT !.callback = callback]
        u == NANDSafeCloseAsync(t, "close")
    IN IF NotSent(u) THEN Fails(u, Result(u.ret, 0), {"corrupt", "busy", "alloc"}) ELSE u

closecallback(s, r) ==
    LET t == IF Failed(r) THEN Fails(s, r, {"corrupt", "busy", "alloc"})
             ELSE endWorkingClose([s EXCEPT !.opened = FALSE])
    IN IF t.working THEN t ELSE Due(t)

AccessHandler(s, r) ==
    CASE s.block.callback = "open" -> opencallback(s, r)
      [] s.block.callback = "close2open" -> close2opencallback(s, r)
      [] s.block.callback = "read seek" -> readseekcallback(s, r)
      [] s.block.callback = "read" -> readcallback(s, r)
      [] s.block.callback = "write seek" -> writeseekcallback(s, r)
      [] s.block.callback = "write" -> writecallback(s, r)
      [] s.block.callback = "close" -> closecallback(s, r)
=============================================================================
