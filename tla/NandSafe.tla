------------------------------ MODULE NandSafe ------------------------------
(***************************************************************************)
(* NAND/NANDOpenClose.c: safe open and close of a file.  A file opened for *)
(* writing is copied to a directory of its own under /tmp/sys, written     *)
(* there, and renamed over the original when it is closed.  Each stage is  *)
(* a request to the file system, and the answer to one sends the next.     *)
(*                                                                         *)
(* A handler is a function of the library's state s; what it reads and     *)
(* writes of it are the fields                                             *)
(*   file   NANDFileInfo: access, fd, tempFd, tempPath and mark            *)
(*   block  NANDCommandBlock: state, uniqueNo and callback                 *)
(*   unique the counter of nandGetUniqueNumber                             *)
(*   reqs   the requests the file system has not answered                  *)
(*   answer what the client's callback is to be called with, or Silence    *)
(*   ret    what the last request returned to its caller                   *)
(*   refuse how many of the next requests the IPC library refuses          *)
(*                                                                         *)
(* The file is a header and a piece of data for each slot.                 *)
(***************************************************************************)
EXTENDS Naturals, Sequences, FiniteSets

CONSTANTS DataSlot,      \* the places of the data behind the header
          FileDescr, \* the descriptors of the file system
          Unique,    \* the numbers of the directories used
          Nothing       \* no header, no data, no file

ASSUME NandAssumption ==
    /\ DataSlot = 1 .. Cardinality(DataSlot) /\ Cardinality(DataSlot) > 1
    /\ FileDescr \subseteq Nat
    /\ Unique \subseteq Nat /\ 0 \notin Unique

VARIABLES home,  \* the content of the file, or Nothing
          temp,  \* the directories under /tmp/sys: made or not, and the file in each
          fds    \* what each descriptor has open

diskVars == <<home, temp, fds>>

(* The header is at the start of a file, a slot's data at its number; no   *)
(* file reaches Nowhere.  The original is file 0, and a temporary has the  *)
(* number of its directory.                                                *)
HeaderAt == 0
Nowhere == Cardinality(DataSlot) + 1
EmptyFile == [header |-> Nothing, data |-> [x \in DataSlot |-> Nothing]]
NoDir == [made |-> FALSE, file |-> Nothing]
Shut == [of |-> Nothing, mode |-> "none", at |-> HeaderAt]

Error == {"busy", "corrupt", "unknown", "alloc", "invalid", "access", "maxfd",
          "exists", "noexists"}
Result(status, value) == [status |-> status, value |-> value]
Ok(value) == Result("ok", value)
Silence == Result("silence", 0)
Failed(r) == r.status \in Error

-----------------------------------------------------------------------------
(* Requests.                                                               *)
FileRequest(op, handler, fd, arg) ==
    [op |-> op, handler |-> handler, fd |-> fd, arg |-> arg]

Send(s, request) ==
    IF s.refuse > 0
    THEN [s EXCEPT !.refuse = @ - 1, !.ret = "alloc"]
    ELSE [s EXCEPT !.reqs = Append(@, request), !.ret = "ok"]

(* A handler that cannot send its request tells the client.                *)
SendNext(s, request) ==
    LET t == Send(s, request)
    IN IF t.ret = "ok" THEN t ELSE [t EXCEPT !.answer = Result(t.ret, 0)]

(* NANDSeekAsync, NANDReadAsync and NANDWriteAsync on the file.            *)
FileAsync(s, op, arg, callback) ==
    Send([s EXCEPT !.block.callback = callback],
         FileRequest(op, "plain", s.file.fd, arg))

-----------------------------------------------------------------------------
(* Opening.                                                                *)
NANDPrivateSafeOpenAsync(s, access, callback) ==
    LET t == [s EXCEPT !.file.access = access, !.block.callback = callback]
    IN IF access = "read"
       THEN Send(t, FileRequest("open home", "read open", 0, 0))
       ELSE Send([t EXCEPT !.block.state = 0], FileRequest("make tmp", "safe open", 0, 0))

(* A state another operation has moved on has no stage.                    *)
NoStage == Result("unknown", 0)

(* The stages: the temporary is made with the attributes of the original,  *)
(* and the content copied a buffer at a time.  Nobody compares what a      *)
(* write of the copy answers with what it was given.                       *)
NextStage(s, r) ==
    LET next(op, fd, arg) == FileRequest(op, "safe open", fd, arg)
        state == s.block.state
    IN CASE state = 1 -> SendNext(s, next("attributes", 0, 0))
         [] state = 2 -> SendNext(s, next("open home", 0, 0))
         [] state = 3 -> SendNext([s EXCEPT !.file.tempFd = r.value, !.block.uniqueNo = s.unique,
                                            !.unique = @ + 1],
                                  next("make dir", 0, s.unique))
         [] state = 4 -> SendNext([s EXCEPT !.file.tempPath = s.block.uniqueNo],
                                  next("create", 0, s.block.uniqueNo))
         [] state = 5 -> SendNext(s, next("open temp", 0, s.file.tempPath))
         [] state = 6 -> SendNext([s EXCEPT !.file.fd = r.value, !.block.state = 7],
                                  next("copy read", s.file.tempFd, 0))
         [] state = 7 -> SendNext(s, next("copy read", s.file.tempFd, 0))
         [] state = 8 /\ r.value > 0 ->
                SendNext([s EXCEPT !.block.state = 6], next("copy write", s.file.fd, r.value))
         [] state = 8 /\ r.value = 0 ->
                SendNext(s, next("rewind", s.file.fd, HeaderAt))
         [] state = 9 -> [s EXCEPT !.file.mark = 3, !.answer = Ok(0)]
         [] OTHER -> [s EXCEPT !.answer = NoStage]

nandSafeOpenCallback(s, r) ==
    IF Failed(r) /\ ~(r.status = "exists" /\ s.block.state = 0)
    THEN [s EXCEPT !.answer = r]
    ELSE NextStage([s EXCEPT !.block.state = @ + 1], r)

nandReadOpenCallback(s, r) ==
    IF Failed(r) THEN [s EXCEPT !.answer = r]
    ELSE [s EXCEPT !.file.fd = r.value, !.file.mark = 3, !.answer = Ok(0)]

-----------------------------------------------------------------------------
(* Closing.                                                                *)
NANDSafeCloseAsync(s, callback) ==
    LET t == [s EXCEPT !.block.callback = callback]
    IN IF s.file.mark # 3 THEN [s EXCEPT !.ret = "invalid"]
       ELSE IF s.file.access = "read"
       THEN Send(t, FileRequest("close", "read close", s.file.fd, 0))
       ELSE Send([t EXCEPT !.block.state = 10], FileRequest("close", "safe close", s.file.fd, 0))

nandSafeCloseCallback(s, r) ==
    LET next(op, fd, arg) == FileRequest(op, "safe close", fd, arg)
        t == [s EXCEPT !.block.state = @ + 1]
        state == t.block.state
    IN IF Failed(r) THEN [s EXCEPT !.answer = r]
       ELSE CASE state = 11 -> SendNext(t, next("close", s.file.tempFd, 0))
              [] state = 12 -> SendNext(t, next("rename", 0, s.file.tempPath))
              [] state = 13 -> SendNext(t, next("delete", 0, s.file.tempPath))
              [] state = 14 -> [t EXCEPT !.file.mark = 4, !.answer = Ok(0)]
              [] OTHER -> [t EXCEPT !.answer = NoStage]

nandReadCloseCallback(s, r) ==
    IF Failed(r) THEN [s EXCEPT !.answer = r]
    ELSE [s EXCEPT !.file.mark = 4, !.answer = Ok(0)]

NandHandler(s, q, r) ==
    CASE q.handler = "safe open" -> nandSafeOpenCallback(s, r)
      [] q.handler = "read open" -> nandReadOpenCallback(s, r)
      [] q.handler = "safe close" -> nandSafeCloseCallback(s, r)
      [] q.handler = "read close" -> nandReadCloseCallback(s, r)
      [] q.handler = "plain" -> [s EXCEPT !.answer = r]

-----------------------------------------------------------------------------
(***************************************************************************)
(* The file system.  It answers the requests in order.  An answer is what  *)
(* the handler is called with and what has become of the files.            *)
(***************************************************************************)
Reply(r, h, t, d) == [result |-> r, home |-> h, temp |-> t, fds |-> d]
Refusal(status) == Reply(Result(status, 0), home, temp, fds)

Opened(of, mode) ==
    LET free == {d \in FileDescr : fds[d].of = Nothing}
        least == CHOOSE d \in free : \A e \in free : d <= e
    IN IF free = {} THEN Refusal("maxfd")
       ELSE Reply(Ok(least), home, temp,
                  [fds EXCEPT ![least] = [of |-> of, mode |-> mode, at |-> HeaderAt]])

(* What a descriptor has open; a file may have gone from under it.         *)
FileOf(d) == IF fds[d].of = 0 THEN home ELSE temp[fds[d].of].file

(* A payload is the value of a header or of a piece of data; where it does *)
(* not belong it damages what is there.                                    *)
Written(file, at, payload) ==
    IF at = HeaderAt
    THEN [file EXCEPT !.header = IF payload.kind = "header" THEN payload.value ELSE Nothing]
    ELSE [file EXCEPT !.data = [x \in DataSlot |->
            IF x = at /\ payload.kind = "data" THEN payload.value
            ELSE IF x = at \/ (x > at /\ payload.kind = "header") THEN Nothing
            ELSE @[x]]]

(* The two pieces of the copy: the header and the data.                    *)
Copied(file, from, piece) ==
    IF piece = 1 THEN [file EXCEPT !.header = from.header] ELSE [file EXCEPT !.data = from.data]

Stored(q, file, size) ==
    LET of == fds[q.fd].of
    IN IF fds[q.fd].mode # "write" THEN Refusal("access")
       ELSE IF q.op = "write" /\ q.arg.kind = "none" THEN Refusal("invalid")
       ELSE IF temp[of].file = Nothing THEN Refusal("unknown")
       ELSE Reply(Ok(size), home, [temp EXCEPT ![of].file = file], fds)

OnDescriptor(q) ==
    LET fd == fds[q.fd]
        at(place) == [fds EXCEPT ![q.fd].at = place]
    IN CASE fd.of = Nothing -> Refusal("invalid")
         [] fd.of # Nothing /\ FileOf(q.fd) = Nothing -> Refusal("unknown")
         [] OTHER ->
       CASE q.op = "close" -> Reply(Ok(0), home, temp, [fds EXCEPT ![q.fd] = Shut])
         [] q.op \in {"seek", "rewind"} ->
                IF q.arg = Nowhere THEN Refusal("invalid")
                ELSE Reply(Ok(q.arg), home, temp, at(q.arg))
         [] q.op = "copy read" ->
                IF fd.at < 2 THEN Reply(Ok(fd.at + 1), home, temp, at(fd.at + 1))
                ELSE Reply(Ok(0), home, temp, fds)
         [] q.op = "copy write" -> Stored(q, Copied(FileOf(q.fd), home, q.arg), 1)
         [] q.op = "read" ->
                Reply(Ok(IF fd.at = HeaderAt THEN FileOf(q.fd).header
                         ELSE FileOf(q.fd).data[fd.at]), home, temp, fds)
         [] q.op = "write" ->
                Stored(q, Written(FileOf(q.fd), fd.at, q.arg), q.arg.size)

OnPath(q) ==
    LET dir == temp[q.arg]
    IN CASE q.op = "make tmp" -> Reply(Ok(0), home, temp, fds)
         [] q.op = "attributes" ->
                IF home = Nothing THEN Refusal("noexists") ELSE Reply(Ok(0), home, temp, fds)
         [] q.op = "open home" -> IF home = Nothing THEN Refusal("noexists") ELSE Opened(0, "read")
         [] q.op = "make dir" ->
                IF dir.made THEN Refusal("exists")
                ELSE Reply(Ok(0), home, [temp EXCEPT ![q.arg].made = TRUE], fds)
         [] q.op = "create" ->
                IF ~dir.made THEN Refusal("noexists")
                ELSE Reply(Ok(0), home, [temp EXCEPT ![q.arg].file = EmptyFile], fds)
         [] q.op = "open temp" ->
                IF dir.file = Nothing THEN Refusal("noexists") ELSE Opened(q.arg, "write")
         [] q.op = "rename" ->
                IF dir.file = Nothing THEN Refusal("noexists")
                ELSE Reply(Ok(0), dir.file, [temp EXCEPT ![q.arg].file = Nothing], fds)
         [] q.op = "delete" -> Reply(Ok(0), home, [temp EXCEPT ![q.arg] = NoDir], fds)

DescriptorOp == {"close", "seek", "rewind", "copy read", "copy write", "read", "write"}

FileSystem(q) == IF q.op \in DescriptorOp THEN OnDescriptor(q) ELSE OnPath(q)

(* A write that does only a part leaves what it was to write damaged.      *)
ShortWrite(q) ==
    LET damaged == IF q.op = "write" THEN [q EXCEPT !.arg.value = Nothing] ELSE q
        a == OnDescriptor(damaged)
        part == IF q.op = "write" THEN a.temp
                ELSE [temp EXCEPT ![fds[q.fd].of].file = Copied(@, EmptyFile, q.arg)]
    IN Reply(Ok(0), home, part, fds)

DiskInit(content) ==
    /\ home \in content
    /\ temp = [u \in Unique |-> NoDir]
    /\ fds = [d \in FileDescr |-> Shut]

(* Switched off: the descriptors are gone, and /tmp is emptied at start.   *)
PowerOff ==
    /\ fds' = [d \in FileDescr |-> Shut]
    /\ temp' = [u \in Unique |-> NoDir]
    /\ UNCHANGED home
=============================================================================
