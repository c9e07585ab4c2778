---------------------------- MODULE FaceDatabase ----------------------------
(***************************************************************************)
(* The face library's database of Miis, from the game's calls to the NAND: *)
(*   RFL_System.c, RFL_Database.c   booting, and saving the header         *)
(*   RFL_Controller.c               reading the Miis of a remote           *)
(*   RFL_HiddenDatabase.c           storing them, and loading one          *)
(*   RFL_MiddleDatabase.c           collecting those stored                *)
(* The game makes one call at a time and waits for it; everything else     *)
(* runs in the interrupts of the IPC library and of alarms, and the        *)
(* console may be switched off between any two of them.                    *)
(*                                                                         *)
(* To the state of FaceAccess the database adds                            *)
(*   list, current   the remote's Miis to store, and how many are          *)
(*   crc             what the alarm of the sum is for, or "none"           *)
(*   src, dst, found, older   the entry of the table a collection is at,   *)
(*                   how many it tried, which Miis it has, its direction   *)
(*   pad             the reads of the remote tried so far, 0: none waits   *)
(***************************************************************************)
EXTENDS FaceAccess, SequencesExt

CONSTANTS Contents,     \* what the file may hold to begin with, or Nothing
          Pads,         \* the lists of Miis a remote may hold
          MaxPadReads,  \* READ_RETRY_MAX
          MaxCalls,     \* bound: calls the game makes
          MaxCrashes,   \* bound: times the console is switched off
          MaxFailures   \* bound: requests refused, failed or done in part

VARIABLES lib,   \* the library
          game,  \* which call the game is in
          calls, crashes, failures  \* counts, for the bounds

faceVars == <<home, temp, fds, lib, game, calls, crashes, failures>>

-----------------------------------------------------------------------------
(* The library.                                                            *)
Off ==
    [file |-> [access |-> "none", fd |-> 0, tempFd |-> 0, tempPath |-> 0, mark |-> 0],
     block |-> [state |-> 0, uniqueNo |-> 0, callback |-> "none"],
     unique |-> 1, reqs |-> <<>>, answer |-> Silence, ret |-> "ok", refuse |-> 0,
     up |-> FALSE, working |-> FALSE, err |-> "Success", reason |-> "ok",
     beforeErr |-> "Success", broken |-> {}, lastErr |-> "NotAvailable",
     opened |-> FALSE, callback |-> "none", args |-> NoArgs,
     retry |-> [which |-> "none", count |-> 0], due |-> FALSE, spoilt |-> FALSE,
     mem |-> ClearedHeader, got |-> Nothing, list |-> <<>>, current |-> 1, crc |-> "none",
     src |-> NoSlot, dst |-> 0, found |-> <<>>, older |-> FALSE, pad |-> 0]

RFLiDBIsLoaded(s) == s.up /\ s.broken \cap {"notfound", "broken"} = {}
RFLiGetIsolation(s) == RFLiDBIsLoaded(s) => s.mem.isolation

(* The manager goes, and with it the alarm of a retry.                     *)
RFLExit(s) ==
    IF ~s.up THEN s
    ELSE [s EXCEPT !.lastErr = Status(s), !.up = FALSE, !.working = FALSE,
                   !.retry.which = "none"]

-----------------------------------------------------------------------------
(* Booting.  The resources are in memory, so that the boot ends with them. *)
bootloadDB2Res(s) ==
    LET t == RFLiEndWorking(s, "Success")
    IN IF Status(t) \in {"Loadfail", "Success", "Busy"} THEN t ELSE RFLExit(t)

Broken(s, how) == [s EXCEPT !.broken = @ \cup {how}]
BootClose(s) == RFLiCloseAsync(s, "boot done")

bootloadDBopencallback(s) ==
    LET t == RFLiReadAsync(s, HeaderAt, "boot read")
    IN CASE Status(s) = "Success" ->
                IF Status(t) \in {"Busy", "Success"} THEN t ELSE bootloadDB2Res(t)
         [] Status(s) = "NANDCommandfail" /\ s.reason = "noexists" ->
                bootloadDB2Res([Broken(s, "notfound") EXCEPT !.err = "Success"])
         [] Status(s) = "NANDCommandfail" /\ s.reason = "corrupt" -> Broken(s, "corrupt")
         [] OTHER -> s

RFLiCheckHeaderCRCAsync(s) ==
    [(IF s.working THEN s ELSE RFLiStartWorking(s)) EXCEPT !.crc = "check"]

bootloadDBcallback(s) ==
    CASE Status(s) = "Success" -> RFLiCheckHeaderCRCAsync(s)
      [] Status(s) = "NANDCommandfail" /\ s.reason = "corrupt" ->
            BootClose(Broken(s, "corrupt"))
      [] Status(s) = "NANDCommandfail" /\ s.reason # "corrupt" ->
            BootClose([Broken(s, "broken") EXCEPT !.err = "Loadfail"])
      [] OTHER -> BootClose(Broken(s, "broken"))

Whole(header) == header # Nothing /\ header.crc

bootloadCheckCRCCb(s) ==
    BootClose(IF Whole(s.mem) THEN [s EXCEPT !.err = "Success"]
              ELSE [Broken(s, "broken") EXCEPT !.err = "Loadfail"])

(* RFLInitResAsync up to the request it sends.                             *)
InitRes(s) ==
    IF s.up THEN s
    ELSE RFLiOpenAsync([Off EXCEPT !.up = TRUE, !.unique = s.unique, !.spoilt = s.spoilt,
                                   !.refuse = s.refuse],
                       "read", "boot open")

-----------------------------------------------------------------------------
(* Saving: the sum is made in an alarm, which stores it once it has asked  *)
(* for the header to be written.                                           *)
RFLiSaveDatabaseAsync(s) ==
    IF ~RFLiDBIsLoaded(s) THEN s
    ELSE [(IF s.working THEN s ELSE RFLiStartWorking(s))
             EXCEPT !.crc = "create", !.mem.crc = FALSE]

alarmCreateCb(s) ==
    [RFLiWriteAsync(s, HeaderAt, HeaderPayload, "header written") EXCEPT !.mem.crc = TRUE]

-----------------------------------------------------------------------------
(* Storing the Miis of a remote.                                           *)
IdAt(mem, x) == mem.table[x].id
SlotsWith(mem, id) == {x \in DataSlot : IdAt(mem, x) = id}
LowestSlot(S) == CHOOSE x \in S : \A y \in S : x <= y

(* A blank entry is appended to the list of entries.                       *)
create_(mem, id, x) ==
    LET tail == mem.tail
        linked == IF tail = NoSlot THEN mem.table ELSE [mem.table EXCEPT ![tail].next = x]
    IN [mem EXCEPT !.table = [linked EXCEPT ![x] = [id |-> id, next |-> NoSlot, prev |-> tail]],
                   !.tail = x,
                   !.head = IF tail = NoSlot THEN x ELSE @]

(* As a mutant that leaves the tail where it was.                          *)
overwriteMutant(mem, id) ==
    LET head == mem.head
        next == mem.table[head].next
    IN [mem EXCEPT !.table = [@ EXCEPT ![next].prev = NoSlot, ![mem.tail].next = head,
                                       ![head] = [id |-> id, next |-> NoSlot,
                                                  prev |-> mem.tail]],
                   !.head = next]

(* The oldest entry makes room and becomes the newest.                     *)
overwrite_(mem, id) ==
    LET head == mem.head
        next == mem.table[head].next
        prev == mem.tail
    IN [mem EXCEPT !.table = [@ EXCEPT ![next].prev = NoSlot, ![prev].next = head,
                                       ![head] = [id |-> id, next |-> NoSlot, prev |-> prev]],
                   !.head = next,
                   !.tail = head]

writeData(s) ==
    LET id == s.list[s.current]
        known == SlotsWith(s.mem, id)
        blank == SlotsWith(s.mem, Nothing)
        place == IF known # {} THEN LowestSlot(known)
                 ELSE IF blank # {} THEN LowestSlot(blank) ELSE s.mem.head
        mem == IF known # {} THEN s.mem
               ELSE IF blank # {} THEN create_(s.mem, id, place) ELSE overwrite_(s.mem, id)
    IN RFLiWriteAsync([s EXCEPT !.mem = [mem EXCEPT !.crc = @ /\ known # {}]],
                      place, DataPayload(id), "data written")

openForWriteCallback(s) ==
    IF Status(s) = "Success" /\ s.current <= Len(s.list) THEN writeData(s) ELSE s

(* As a mutant that leaves the last Mii of the list.                       *)
writeCallbackMutant(s) ==
    LET t == [s EXCEPT !.current = @ + 1]
    IN IF Status(s) # "Success" THEN RFLiCloseAsync(s, "none")
       ELSE IF t.current < Len(t.list) THEN writeData(t)
       ELSE RFLiSaveDatabaseAsync(t)

writeCallback(s) ==
    LET t == [s EXCEPT !.current = @ + 1]
    IN IF Status(s) # "Success" THEN RFLiCloseAsync(s, "none")
       ELSE IF t.current <= Len(t.list) THEN writeData(t)
       ELSE RFLiSaveDatabaseAsync(t)

(* Whatever has become of the header, the file is closed.                  *)
writeCtrl2HDBCallback(s) == RFLiCloseAsync(s, "none")

RFLiWriteCtrlToHiddenDB(s, list) ==
    RFLiOpenAsync([s EXCEPT !.list = list, !.current = 1], "write",
                  IF list # <<>> THEN "open for write" ELSE "open for header")

validBufferFound(s, list) ==
    IF RFLiGetIsolation(s) THEN RFLiEndWorking([s EXCEPT !.list = list], "Success")
    ELSE RFLiWriteCtrlToHiddenDB(s, list)

-----------------------------------------------------------------------------
(* Collecting what is stored, an entry of the table after the other.       *)
RFLiLoadHiddenDataAsync(s) == RFLiOpenAsync(s, "read", "load open")

loadopencallback(s) ==
    LET t == RFLiReadAsync(s, s.src, "load read")
    IN IF Status(s) # "Success" THEN s
       ELSE IF Status(t) \in {"Success", "Busy"} THEN t ELSE RFLiCloseAsync(t, "none")

(* The data of another Mii than the table's is left.                       *)
loadcallback(s) ==
    LET mine == Status(s) = "Success" /\ s.got # Nothing /\ s.got = IdAt(s.mem, s.src)
    IN RFLiCloseAsync(IF mine THEN s ELSE [s EXCEPT !.got = Nothing], "load close")

Onward(s, x) == IF s.older THEN s.mem.table[x].next ELSE s.mem.table[x].prev

updateHDBcallback(s) ==
    LET src == Onward(s, s.src)
        more == src # NoSlot /\ s.dst + 1 < Cardinality(DataSlot)
        t == [s EXCEPT !.dst = @ + 1, !.got = Nothing,
                       !.found = IF s.got # Nothing THEN Append(@, s.got) ELSE @]
    IN IF Status(s) = "Success"
       THEN IF more THEN RFLiLoadHiddenDataAsync([t EXCEPT !.src = src])
            ELSE [t EXCEPT !.err = IF Len(t.found) < Cardinality(DataSlot) THEN "DBNodata" ELSE "Success"]
       ELSE IF Status(s) = "NANDCommandfail" /\ s.reason = "busy"
       THEN [s EXCEPT !.found = <<>>, !.dst = 0]
       ELSE s

updateHiddenOld(s, older) ==
    LET t == [s EXCEPT !.found = <<>>, !.dst = 0, !.got = Nothing, !.older = older,
                       !.src = IF older THEN s.mem.head ELSE s.mem.tail]
    IN IF ~RFLiDBIsLoaded(s) THEN RFLiEndWorking([s EXCEPT !.found = <<>>], "DBNodata")
       ELSE IF t.src = NoSlot THEN RFLiEndWorking(t, "DBNodata")
       ELSE RFLiLoadHiddenDataAsync(t)

-----------------------------------------------------------------------------
(* The callback of an operation.                                           *)
CallbackOf(s) ==
    CASE s.callback = "boot open" -> bootloadDBopencallback(s)
      [] s.callback = "boot read" -> bootloadDBcallback(s)
      [] s.callback = "boot done" -> bootloadDB2Res(s)
      [] s.callback = "open for write" -> openForWriteCallback(s)
      [] s.callback = "open for header" -> RFLiSaveDatabaseAsync(s)
      [] s.callback = "data written" -> writeCallback(s)
      [] s.callback = "header written" -> writeCtrl2HDBCallback(s)
      [] s.callback = "load open" -> loadopencallback(s)
      [] s.callback = "load read" -> loadcallback(s)
      [] s.callback = "load close" -> updateHDBcallback(s)
      [] s.callback = "none" -> s

CallBack(s) == IF s.due THEN CallbackOf([s EXCEPT !.due = FALSE]) ELSE s

(* An interrupt of the IPC library: an answer goes up the layers.          *)
AnswerInterrupt(s, q, r) ==
    LET t == NandHandler([s EXCEPT !.reqs = Tail(@)], q, r)
    IN IF t.answer = Silence THEN t
       ELSE CallBack(AccessHandler([t EXCEPT !.answer = Silence], t.answer))

RetryFires(s) ==
    LET t == [s EXCEPT !.retry.which = "none"]
    IN CallBack(IF s.retry.which = "write" THEN retryWrite(t) ELSE retryWriteSeek(t))

SumFires(s) ==
    IF s.crc = "check" THEN bootloadCheckCRCCb([s EXCEPT !.crc = "none"])
    ELSE alarmCreateCb([s EXCEPT !.crc = "none"])

-----------------------------------------------------------------------------
(* A step of the library, in which the IPC library may refuse requests.    *)
FaceStep(Handler(_), bad) ==
    \E refused \in 0 .. MaxFailures - failures - bad :
        LET t == Handler([lib EXCEPT !.refuse = refused])
        IN /\ t.refuse = 0
           /\ lib' = [t EXCEPT !.ret = "ok"]
           /\ failures' = failures + bad + refused

AnswerWith(a, bad, spoils) ==
    LET Handler(s) == AnswerInterrupt([s EXCEPT !.spoilt = @ \/ spoils], Head(s.reqs), a.result)
    IN /\ FaceStep(Handler, bad)
       /\ home' = a.home /\ temp' = a.temp /\ fds' = a.fds
       /\ UNCHANGED <<game, calls, crashes>>

(* The file system does as it is asked, or refuses, or writes a part.      *)
Done ==
    /\ lib.reqs # <<>>
    /\ AnswerWith(FileSystem(Head(lib.reqs)), 0, FALSE)

Undone ==
    /\ lib.reqs # <<>>
    /\ \E status \in {"busy", "corrupt"} : AnswerWith(Refusal(status), 1, FALSE)

PartDone ==
    /\ lib.reqs # <<>>
    /\ Head(lib.reqs).op \in {"write", "copy write"}
    /\ ~Failed(FileSystem(Head(lib.reqs)).result)
    /\ AnswerWith(ShortWrite(Head(lib.reqs)), 1, TRUE)

RetryAlarm ==
    /\ lib.retry.which # "none"
    /\ FaceStep(RetryFires, 0)
    /\ UNCHANGED <<home, temp, fds, game, calls, crashes>>

SumAlarm ==
    /\ lib.crc # "none"
    /\ FaceStep(SumFires, 0)
    /\ UNCHANGED <<home, temp, fds, game, calls, crashes>>

-----------------------------------------------------------------------------
(* The remote answers with its Miis, with nothing valid, or not at all.    *)
Remote(Handler(_)) ==
    /\ lib.pad > 0
    /\ FaceStep(Handler, 0)
    /\ UNCHANGED <<home, temp, fds, game, calls, crashes>>

PadRead ==
    \E list \in Pads :
        LET Handler(s) == validBufferFound([s EXCEPT !.pad = 0], list) IN Remote(Handler)

errorAndReRead(s, err) ==
    IF s.pad < MaxPadReads THEN [s EXCEPT !.pad = @ + 1]
    ELSE RFLiEndWorking([s EXCEPT !.pad = 0], err)

PadBad ==
    \E err \in {"Loadfail", "Controllerfail"} :
        LET Handler(s) == errorAndReRead(s, err) IN Remote(Handler)

PadGone ==
    LET Handler(s) == RFLiEndWorking([s EXCEPT !.pad = 0], "Controllerfail") IN Remote(Handler)

-----------------------------------------------------------------------------
(* The game: RPSysKokeshiManager::LoadStaticResource, the loader of a      *)
(* remote's data and RPSysMiddleDB, each waiting for what it has asked.    *)
GameCall(from, to, Handler(_)) ==
    /\ game = from
    /\ game' = to
    /\ FaceStep(Handler, 0)
    /\ UNCHANGED <<home, temp, fds, crashes>>

Boot ==
    /\ GameCall("off", "init", InitRes)
    /\ UNCHANGED calls

(* RFLInitResAsync looks at what has become of the request.                *)
InitReturns ==
    LET Handler(s) == IF Status(s) \in {"Busy", "Success"} THEN s ELSE RFLExit(s)
    IN /\ GameCall("init", "boot", Handler)
       /\ UNCHANGED calls

Keep(s) == s
BootEnds ==
    /\ Status(lib) # "Busy"
    /\ GameCall("boot", "idle", Keep)
    /\ UNCHANGED calls

(* As long as the NAND was busy.                                           *)
BootAgain ==
    /\ Status(lib) = "NANDCommandfail" /\ lib.reason = "busy"
    /\ GameCall("boot", IF lib.up THEN "boot" ELSE "init", InitRes)
    /\ UNCHANGED calls

RFLiLoadControllerAsync ==
    LET Handler(s) == [RFLiStartWorking(s) EXCEPT !.pad = 1, !.list = <<>>]
    IN /\ lib.up /\ ~lib.working
       /\ calls < MaxCalls
       /\ calls' = calls + 1
       /\ GameCall("idle", "load", Handler)

RFLiUpdateMiddleDBAsync ==
    \E older \in BOOLEAN :
        LET Handler(s) == updateHiddenOld(s, older)
        IN /\ lib.up
           /\ calls < MaxCalls
           /\ calls' = calls + 1
           /\ GameCall("idle", "update", Handler)

CallEnds ==
    /\ game \in {"load", "update"}
    /\ Status(lib) # "Busy"
    /\ GameCall(game, "idle", Keep)
    /\ UNCHANGED calls

SwitchOff ==
    /\ game # "off"
    /\ crashes < MaxCrashes
    /\ crashes' = crashes + 1
    /\ PowerOff
    /\ lib' = [Off EXCEPT !.spoilt = lib.spoilt]
    /\ game' = "off"
    /\ UNCHANGED <<calls, failures>>

FaceInit ==
    /\ DiskInit(Contents)
    /\ lib = Off
    /\ game = "off"
    /\ calls = 0 /\ crashes = 0 /\ failures = 0

FaceNext ==
    \/ Done \/ Undone \/ PartDone \/ RetryAlarm \/ SumAlarm
    \/ PadRead \/ PadBad \/ PadGone
    \/ Boot \/ InitReturns \/ BootEnds \/ BootAgain
    \/ RFLiLoadControllerAsync \/ RFLiUpdateMiddleDBAsync \/ CallEnds
    \/ SwitchOff

(* Requests are answered, alarms fire, the remote answers, and the game's  *)
(* thread runs: some of this happens again and again while any of it can.  *)
(* This is weak fairness of FaceMoves, and FaceRuns says when it can move. *)
FaceMoves ==
    \/ Done \/ RetryAlarm \/ SumAlarm \/ PadRead \/ PadBad \/ PadGone
    \/ InitReturns \/ BootEnds \/ CallEnds

FaceRuns ==
    \/ lib.reqs # <<>> \/ lib.retry.which # "none" \/ lib.crc # "none" \/ lib.pad > 0
    \/ game = "init"
    \/ game \in {"boot", "load", "update"} /\ Status(lib) # "Busy"

FaceFairness == <>[]FaceRuns => []<><<FaceMoves>>_faceVars

FaceSpec == FaceInit /\ [][FaceNext]_faceVars /\ FaceFairness

-----------------------------------------------------------------------------
(* The entries of a table from the oldest, by following its links, and the *)
(* Miis of those whose data a file has.                                    *)
Entries(mem) ==
    LET after[n \in 0 .. Cardinality(DataSlot)] ==
            IF n = 0 THEN mem.head
            ELSE IF after[n - 1] = NoSlot THEN NoSlot ELSE mem.table[after[n - 1]].next
        length == Cardinality({n \in 0 .. Cardinality(DataSlot) : after[n] # NoSlot})
    IN [n \in 1 .. length |-> after[n - 1]]

MiisListed(mem, file) ==
    LET stored(x) == IdAt(mem, x) # Nothing /\ file.data[x] = IdAt(mem, x)
        listed == SelectSeq(Entries(mem), stored)
    IN [n \in DOMAIN listed |-> IdAt(mem, listed[n])]

Miis(file) ==
    IF file = Nothing \/ ~Whole(file.header) THEN <<>> ELSE MiisListed(file.header, file)

(* The table of a header is a doubly linked list of its entries, and a     *)
(* file has the data of each of them and no other.                         *)
ListLinked(mem) ==
    LET e == Entries(mem)
        entered == {x \in DataSlot : IdAt(mem, x) # Nothing}
    IN /\ Range(e) = entered /\ Len(e) = Cardinality(entered)
       /\ \A n \in DOMAIN e : mem.table[e[n]].prev = IF n = 1 THEN NoSlot ELSE e[n - 1]
       /\ mem.tail = IF e = <<>> THEN NoSlot ELSE Last(e)

Sound(file) ==
    /\ Whole(file.header) /\ ListLinked(file.header)
    /\ \A x \in DataSlot : IdAt(file.header, x) = file.data[x]

(* Whenever the file changes, though it be a moment before the console is  *)
(* switched off, a sound database becomes another: its sum matches, its    *)
(* links make a list, data and table agree, and it has the Miis it had, in *)
(* their order, but for the oldest that made room in a full one.  This     *)
(* rests on the rename of the close; it asks that each seek and write was  *)
(* answered as it was done and that the boot could read the header.        *)
NoMiiLost ==
    [][home' # home /\ Sound(home) /\ ~lib'.spoilt /\ lib.broken = {} =>
        /\ Sound(home')
        /\ \E dropped \in 0 .. Len(Miis(home)) :
              /\ IsPrefix(SubSeq(Miis(home), dropped + 1, Len(Miis(home))), Miis(home'))
              /\ dropped > 0 => Len(Miis(home')) = Cardinality(DataSlot)]_faceVars

(* What the game is told when its call ends is true of the file: the Miis  *)
(* of a remote it is told were stored are in it, closed and renamed, and a *)
(* collection has every Mii it holds from the oldest or from the newest,   *)
(* whatever was refused, failed or was tried again in between.             *)
AnswersTruthful ==
    /\ game = "load" /\ Status(lib) = "Success" /\ ~lib.spoilt /\ ~RFLiGetIsolation(lib)
        => Range(lib.list) \subseteq Range(Miis(home))
    /\ game = "update" /\ Status(lib) \in {"Success", "DBNodata"} /\ RFLiDBIsLoaded(lib)
        => lib.found = LET listed == MiisListed(lib.mem, home)
                       IN IF lib.older THEN listed ELSE Reverse(listed)

(* A boot or a call ends, or the console is switched off, whatever the     *)
(* file system refuses: no chain of callbacks is cut with `working' up.    *)
FacesSettle == game \in {"init", "boot", "load", "update"} ~> game \in {"idle", "off"}
=============================================================================
