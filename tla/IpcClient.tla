------------------------------ MODULE IpcClient ------------------------------
(***************************************************************************)
(* The IPC client (IPC/ipcclt.c): threads, and the callbacks of earlier    *)
(* requests, hand requests to IOS, the system on the other processor.      *)
(* Requests wait in a ring; a mailbox register carries one at a time, and  *)
(* mailboxAck counts the acknowledgements that allow the next.  IOS takes  *)
(* requests in order and answers them in any order through a second        *)
(* register.  A reboot request replaces IOS itself: the mailbox stays      *)
(* closed until the new IOS acknowledges, or the old one refuses.          *)
(*                                                                         *)
(* The game's processor runs one thing at a time: the code under           *)
(* OSDisableInterrupts up to its sleep is one step, and so is each of the  *)
(* two interrupt handlers with the callback it calls.  IOS's steps are     *)
(* concurrent with all of them.                                            *)
(***************************************************************************)
EXTENDS Integers, Sequences, FiniteSets, SequencesExt

CONSTANTS
    IpcCaller,    \* the threads that call IOS functions
    Request,      \* the IPCRequestEx blocks of the driver's heap
    NoRequest,    \* the null pointer
    IpcCapacity,  \* IPC_QUEUE_CAPACITY
    IpcWord,      \* the counters are words of this many values (2^32)
    MaxQueued,    \* bound: no call is made once this many were queued
    MayReboot     \* whether the callers reboot IOS

ASSUME IpcAssumption ==
    /\ NoRequest \notin Request
    /\ IpcCapacity \in Nat \ {0}
    /\ IpcWord \in Nat
    /\ IpcCapacity < IpcWord
    /\ MaxQueued \in Nat
    /\ MayReboot \in BOOLEAN

VARIABLES
    ipc,       \* the driver's globals, __responses included, and its mailbox
    reqKind,   \* what each block holds: "free", "sync", "async" or "reboot"
    reqRet,    \* base.ret of each block
    ipcCall,   \* where each caller is, with its request
    taken,     \* the requests IOS serves
    acked,     \* IPC_PPCCTRL's acknowledge bit, set by IOS
    armmsg,    \* the reply register, NoRequest when its bit is clear
    armReady,  \* the driver has let IOS use the reply register
    dropped,   \* history: requests the relaunched IOS never answers
    refused    \* history: IOS has refused to relaunch

iosVars == <<taken, acked, armmsg, armReady, dropped, refused>>
ipcVars == <<ipc, reqKind, reqRet, ipcCall, iosVars>>

Null == NoRequest
Index == 0 .. IpcCapacity - 1
Kind == {"sync", "async", "reboot"}
Synchronous == {"sync", "reboot"}

IpcInit ==
    /\ ipc = [queue |-> [i \in Index |-> Null], front |-> 0, back |-> 0,
              sent |-> 0, queued |-> 0, mailboxAck |-> 1, ppcmsg |-> Null,
              relnchFl |-> FALSE, relnchRpc |-> Null]
    /\ reqKind = [r \in Request |-> "free"]
    /\ reqRet = [r \in Request |-> "none"]
    /\ ipcCall = [c \in IpcCaller |-> [at |-> "out", req |-> Null]]
    /\ taken = {}
    /\ acked = FALSE
    /\ armmsg = Null
    /\ armReady = TRUE
    /\ dropped = {}
    /\ refused = FALSE

(***************************************************************************)
(* The ring, as functions of the driver's state.                           *)
(***************************************************************************)
Waiting(s) == (s.queued - s.sent) % IpcWord

(* The value __ipcQueueRequest computes is not zero. *)
QueueFull(s) ==
    IF s.queued < s.sent THEN Waiting(s) # 0 ELSE Waiting(s) >= IpcCapacity

(* The value __ipcSendRequest computes is not zero. *)
NothingToSend(s) ==
    IF s.queued < s.sent THEN Waiting(s) # 0 ELSE Waiting(s) = 0

Advance(i) == (i + 1) % IpcCapacity

QueueRequest(s, r) ==
    [s EXCEPT !.queue[s.back] = r, !.back = Advance(@), !.queued = (@ + 1) % IpcWord]

SendRequestMutant(s) ==
    LET r == s.queue[s.front]
        reboot == reqKind[r] = "reboot"
    IN  IF NothingToSend(s) \/ r = Null
        THEN s
        ELSE [s EXCEPT !.ppcmsg = r,
                       !.front = Advance(@),
                       !.sent = (@ + 1) % IpcWord,
                       !.mailboxAck = @ - 1,
                       !.relnchFl = IF reboot THEN TRUE ELSE @,
                       !.relnchRpc = IF reboot THEN r ELSE @]
(* __ipcSendRequest: a reboot takes a second acknowledgement. *)
SendRequest(s) ==
    LET r == s.queue[s.front]
        reboot == reqKind[r] = "reboot"
    IN  IF NothingToSend(s) \/ r = Null
        THEN s
        ELSE [s EXCEPT !.ppcmsg = r,
                       !.front = Advance(@),
                       !.sent = (@ + 1) % IpcWord,
                       !.mailboxAck = IF reboot THEN @ - 2 ELSE @ - 1,
                       !.relnchFl = IF reboot THEN TRUE ELSE @,
                       !.relnchRpc = IF reboot THEN r ELSE @]

SendIfReadyOpenMutant(s) == IF s.mailboxAck >= 0 THEN SendRequest(s) ELSE s
SendIfReady(s) == IF s.mailboxAck > 0 THEN SendRequest(s) ELSE s

CountAck(s) == [s EXCEPT !.mailboxAck = IF @ < 1 THEN @ + 1 ELSE @]

(***************************************************************************)
(* The callers.                                                            *)
(***************************************************************************)

(* __ios_Ipc1 and the marshalling of the arguments.  When the heap is      *)
(* exhausted the call fails and changes nothing.                           *)
Prepare(c, kind) ==
    /\ ipcCall[c].at = "out"
    /\ ipc.queued < MaxQueued
    /\ kind = "reboot" => MayReboot
    /\ \E r \in Request :
          /\ reqKind[r] = "free"
          /\ reqKind' = [reqKind EXCEPT ![r] = kind]
          /\ ipcCall' = [ipcCall EXCEPT ![c] = [at |-> "prepared", req |-> r]]
    /\ UNCHANGED <<ipc, reqRet, iosVars>>

Leave(c) == ipcCall' = [ipcCall EXCEPT ![c] = [at |-> "out", req |-> Null]]

(* ipcFree: what a free block holds is never read. *)
Free(r) ==
    /\ reqKind' = [reqKind EXCEPT ![r] = "free"]
    /\ reqRet' = [reqRet EXCEPT ![r] = "none"]

(* __ios_Ipc2 when the ring has no room: the block is freed. *)
SubmitBusy(c) ==
    /\ ipcCall[c].at = "prepared"
    /\ QueueFull(ipc)
    /\ Free(ipcCall[c].req)
    /\ Leave(c)
    /\ UNCHANGED <<ipc, iosVars>>

SubmitMutant(c) ==
    LET r == ipcCall[c].req IN
    /\ ipcCall[c].at = "prepared"
    /\ ~QueueFull(ipc)
    /\ ipc' = SendIfReady(QueueRequest(ipc, r))
    /\ IF reqKind[r] \in Synchronous
       THEN ipcCall' = [ipcCall EXCEPT ![c].at = "asleep"] /\ UNCHANGED <<reqKind, reqRet>>
       ELSE Leave(c) /\ Free(r)
    /\ UNCHANGED iosVars
(* __ios_Ipc2 otherwise; a synchronous caller sleeps with the interrupts   *)
(* still disabled.                                                         *)
Submit(c) ==
    LET r == ipcCall[c].req IN
    /\ ipcCall[c].at = "prepared"
    /\ ~QueueFull(ipc)
    /\ ipc' = SendIfReady(QueueRequest(ipc, r))
    /\ IF reqKind[r] \in Synchronous
       THEN ipcCall' = [ipcCall EXCEPT ![c].at = "asleep"]
       ELSE Leave(c)
    /\ UNCHANGED <<reqKind, reqRet, iosVars>>

(* The woken caller reads reqRet and frees the block. *)
Return(c) ==
    /\ ipcCall[c].at = "woken"
    /\ Free(ipcCall[c].req)
    /\ Leave(c)
    /\ UNCHANGED <<ipc, iosVars>>

(* OSWakeupThread on the queue of a request. *)
Wake(r) ==
    [c \in IpcCaller |-> IF ipcCall[c].at = "asleep" /\ ipcCall[c].req = r
                         THEN [ipcCall[c] EXCEPT !.at = "woken"]
                         ELSE ipcCall[c]]

(***************************************************************************)
(* The interrupt handlers.                                                 *)
(***************************************************************************)

(* The refusal of a reboot gives back the acknowledgement it took. *)
RelaunchRefused(s, r) ==
    IF s.relnchFl /\ s.relnchRpc = r
    THEN CountAck([s EXCEPT !.relnchFl = FALSE])
    ELSE s

(* The callback of an answered request returns, or makes another call with *)
(* a block of its own: __ios_Ipc1 and __ios_Ipc2 without a sleep.  The     *)
(* answered block is freed after it.                                       *)
ReplyAsync(r) ==
    LET s == RelaunchRefused(ipc, r) IN
    /\ reqKind[r] = "async"
    /\ reqRet' = [reqRet EXCEPT ![r] = "none"]
    /\ \/ /\ ipc' = s
          /\ reqKind' = [reqKind EXCEPT ![r] = "free"]
       \/ \E next \in Request :
             /\ s.queued < MaxQueued
             /\ reqKind[next] = "free"
             /\ ~QueueFull(s)
             /\ ipc' = SendIfReady(QueueRequest(s, next))
             /\ reqKind' = [reqKind EXCEPT ![r] = "free", ![next] = "async"]
    /\ UNCHANGED ipcCall

ReplySync(r) ==
    /\ reqKind[r] # "async"
    /\ ipc' = RelaunchRefused(ipc, r)
    /\ ipcCall' = Wake(r)
    /\ UNCHANGED <<reqKind, reqRet>>

(* IpcReplyHandler.  IOS has put the request's type where fd was, which is *)
(* why the handler may switch on it.                                       *)
IpcReplyHandler ==
    /\ armmsg # Null
    /\ ReplyAsync(armmsg) \/ ReplySync(armmsg)
    /\ armmsg' = Null
    /\ armReady' = TRUE
    /\ UNCHANGED <<taken, acked, dropped, refused>>

RelaunchedMutant(s) == FALSE
(* The acknowledgement counted last is the new IOS's. *)
Relaunched(s) == s.mailboxAck > 0 /\ s.relnchFl

(* IpcAckHandler: the new IOS's acknowledgement completes a relaunch. *)
IpcAckHandler ==
    LET s == CountAck(ipc)
        t == IF Relaunched(s) THEN [s EXCEPT !.relnchFl = FALSE] ELSE s
    IN  /\ acked
        /\ acked' = FALSE
        /\ ipc' = SendIfReady(t)
        /\ IF Relaunched(s)
           THEN /\ reqRet' = [reqRet EXCEPT ![s.relnchRpc] = "OK"]
                /\ ipcCall' = Wake(s.relnchRpc)
                /\ armReady' = TRUE
           ELSE UNCHANGED <<reqRet, ipcCall, armReady>>
        /\ UNCHANGED <<reqKind, taken, armmsg, dropped, refused>>

(***************************************************************************)
(* IOS.                                                                    *)
(***************************************************************************)
IosTake ==
    /\ ipc.ppcmsg # Null
    /\ taken' = taken \cup {ipc.ppcmsg}
    /\ ipc' = [ipc EXCEPT !.ppcmsg = Null]
    /\ acked' = TRUE
    /\ UNCHANGED <<reqKind, reqRet, ipcCall, armmsg, armReady, dropped, refused>>

(* A reply to a reboot request is a refusal. *)
IosReply(r) ==
    /\ r \in taken
    /\ armReady
    /\ taken' = taken \ {r}
    /\ armmsg' = r
    /\ armReady' = FALSE
    /\ reqRet' = [reqRet EXCEPT ![r] = "replied"]
    /\ refused' = (refused \/ reqKind[r] = "reboot")
    /\ UNCHANGED <<ipc, reqKind, ipcCall, acked, dropped>>

(* The new IOS announces itself with an acknowledgement, long after the    *)
(* old one's interrupts have been handled, and knows none of its requests. *)
IosRelaunch(r) ==
    /\ r \in taken
    /\ reqKind[r] = "reboot"
    /\ ~acked
    /\ armmsg = Null
    /\ taken' = {}
    /\ dropped' = dropped \cup (taken \ {r})
    /\ acked' = TRUE
    /\ UNCHANGED <<ipc, reqKind, reqRet, ipcCall, armmsg, armReady, refused>>

IpcThread(c) == Submit(c) \/ SubmitBusy(c) \/ Return(c)
IosStep == IosTake \/ \E r \in Request : IosReply(r)

IpcNext ==
    \/ \E c \in IpcCaller : \/ \E kind \in Kind : Prepare(c, kind)
                            \/ IpcThread(c)
    \/ IpcReplyHandler
    \/ IpcAckHandler
    \/ IosTake
    \/ \E r \in Request : IosReply(r) \/ IosRelaunch(r)

IpcSpec == IpcInit /\ [][IpcNext]_ipcVars

(* The processor runs the threads and delivers the interrupts; IOS serves  *)
(* its mailbox and answers every request.                                  *)
IpcFairness ==
    /\ \A c \in IpcCaller : WF_ipcVars(IpcThread(c))
    /\ WF_ipcVars(IpcReplyHandler)
    /\ WF_ipcVars(IpcAckHandler)
    /\ WF_ipcVars(IosTake)
    /\ \A r \in Request : SF_ipcVars(IosReply(r))

IpcFairSpec == IpcSpec /\ IpcFairness

-----------------------------------------------------------------------------
(***************************************************************************)
(* Properties.                                                             *)
(***************************************************************************)
InRing == [i \in 1 .. Waiting(ipc) |-> ipc.queue[(ipc.front + i - 1) % IpcCapacity]]
InMailbox == IF ipc.ppcmsg = Null THEN << >> ELSE <<ipc.ppcmsg>>
InReply == {armmsg} \ {Null}

(* Types: at most one acknowledgement is in hand and a reboot overdraws    *)
(* the account by one at most.                                             *)
IpcTypeOK ==
    /\ ipc \in [queue : [Index -> Request \cup {Null}], front : Index, back : Index,
                sent : 0 .. IpcWord - 1, queued : 0 .. IpcWord - 1, mailboxAck : -1 .. 1,
                ppcmsg : Request \cup {Null}, relnchFl : BOOLEAN, relnchRpc : Request \cup {Null}]
    /\ reqKind \in [Request -> Kind \cup {"free"}]
    /\ reqRet \in [Request -> {"none", "replied", "OK"}]
    /\ ipcCall \in [IpcCaller -> [at : {"out", "prepared", "asleep", "woken"},
                                  req : Request \cup {Null}]]
    /\ taken \subseteq Request
    /\ dropped \subseteq Request
    /\ acked \in BOOLEAN
    /\ armmsg \in Request \cup {Null}
    /\ armReady \in BOOLEAN
    /\ refused \in BOOLEAN

(* The driver never writes a request over one IOS has not taken: the       *)
(* counting of acknowledgements keeps the mailbox to one message, through  *)
(* reboots and their refusal too.                                          *)
MailboxNotOverwritten ==
    [][ipc.ppcmsg # Null => ipc'.ppcmsg \in {ipc.ppcmsg, Null}]_ipcVars

(* No block is free, to be allocated again, while the ring, the mailbox,   *)
(* IOS, the reply register or a pending relaunch still refers to it.       *)
HeldAllocated ==
    \A r \in ToSet(InRing) \cup ToSet(InMailbox) \cup taken \cup InReply
             \cup (IF ipc.relnchFl THEN {ipc.relnchRpc} ELSE {}) :
        reqKind[r] # "free"

(* A caller sleeps only while something can still wake it: its request is  *)
(* on its way or with IOS, or the relaunch it asked for is under way.  The *)
(* relaunch of IOS under somebody else's request is the only exception.    *)
(* When it wakes its result is there.                                      *)
SleepersServed ==
    \A c \in IpcCaller :
        LET r == ipcCall[c].req IN
        /\ ipcCall[c].at = "asleep" =>
             r \in ToSet(InRing) \cup ToSet(InMailbox) \cup taken \cup InReply \cup dropped
                   \cup (IF ipc.relnchFl THEN {ipc.relnchRpc} ELSE {})
        /\ ipcCall[c].at = "woken" => reqRet[r] # "none"

(* A request waits in the ring only while an acknowledgement is due that   *)
(* will send it -- unless a reboot was refused: IpcReplyHandler gives the  *)
(* acknowledgement back and does not look at the ring.                     *)
ReadySends ==
    Waiting(ipc) > 0 /\ ipc.mailboxAck > 0 => refused

(* An IOS that is asked to make way is sent nothing more.                  *)
QuietRelaunch ==
    [][(\E r \in taken : reqKind[r] = "reboot") => taken' \subseteq taken]_ipcVars

(* What the driver and IOS hold is theirs, a caller sleeps on what will     *)
(* wake it, and no acknowledgement in hand is left unused while requests   *)
(* wait: the driver never stalls.                                          *)
RequestsSafe == IpcTypeOK /\ HeldAllocated /\ SleepersServed /\ ReadySends

(* The mailbox carries one request at a time and none under a relaunch.    *)
MailboxSafe == MailboxNotOverwritten /\ QuietRelaunch

(* The requests on their way or with IOS that ask it to make way.          *)
Reboots ==
    {r \in ToSet(InMailbox \o InRing) \cup taken \cup InReply : reqKind[r] = "reboot"}

(* The ring and the registers implement the abstract broker.               *)
Broker == INSTANCE IpcBroker WITH
    waiting <- InMailbox \o InRing,
    serving <- taken \cup InReply,
    reboots <- Reboots
BrokerSpec == Broker!BrokerSpec

(* Every synchronous call returns, unless IOS was relaunched while it      *)
(* served the request or has ever refused a reboot.                        *)
CallersReturn ==
    \A c \in IpcCaller :
        ipcCall[c].at = "asleep" ~>
            \/ ipcCall[c].at # "asleep"
            \/ ipcCall[c].req \in dropped
            \/ refused

(* "Is queue full?" (ipcclt.c:51): a call fails with BUSY only when the    *)
(* ring has no room for it.                                                *)
BusyWhenFull ==
    [][\A c \in IpcCaller :
          /\ ipcCall[c].at = "prepared"
          /\ ipcCall'[c].at = "out"
          /\ ipc'.queued = ipc.queued
          => Waiting(ipc) = IpcCapacity]_ipcVars
=============================================================================
