# A formal model of Rhae

Rhae is a decompilation of *Wii Play* (RHAE01): C and C++ for one PowerPC core,
rebuilt so that it compiles to the original program. The repository has no
tests. What it has is a small operating system (`revolution/OS`), clients of a
second processor that owns the disc, the NAND and the radio, two middleware
layers (`nw4r`, `egg`) and a game framework (`Pack`), all of them concurrent:
threads of fixed priorities, interrupt handlers, callbacks.

This directory holds TLA+ modules translated from the sources, TLC
configurations that check them on small instances, and theorems that TLAPS
proves for every value of the constants. `PROJECT.json` maps each definition to
the lines it stands for.

## 1. Inventory

### The processor and its scheduler: `revolution/OS`

| part | state | operations | what is hard | what makes it correct |
| --- | --- | --- | --- | --- |
| threads, `OSThread.c` | control blocks; `RunQueue[32]`, `RunQueueBits`, `RunQueueHint`; `OS_THREAD_QUEUE`; wait and join queues | create, exit, cancel, join, detach, suspend, resume, sleep, wake, yield, set priority | every wake-up may switch threads in the middle of the caller's loop; a thread may be suspended, cancelled or re-prioritised in any state | a thread is linked in the one queue its state says; the best ready thread runs; no joiner or sleeper is forgotten |
| mutexes, `OSMutex.c` | owner, count, waiters; each thread's `mutexQueue` | lock, try, unlock, release at a thread's end | recursive, with priority inheritance along chains of owners | the owner's list and the mutex agree; priorities are exactly those lent |
| message queues, `OSMessage.c` | ring buffer, `front`, `size`, two thread queues | send, jam, receive, blocking or not | wake all and retry; modular arithmetic | a bounded deque; no lost wake-up |
| alarms, `OSAlarm.c` | sorted list, decrementer | set, set periodic, cancel, decrementer exception, `OSSleepTicks`, shutdown | the decrementer counts 2^31 ticks; handlers set or cancel alarms; a sleeper's alarm is on its stack | alarms ring in order, once, never after a cancel; none is forgotten |
| interrupts, `OSInterrupt.c` | masks, handler table | mask, unmask, dispatch | handlers run with the scheduler disabled | reschedule on return |
| power, state, play record: `OSStateTM.c`, `OSReset.c`, `OSPlayRecord.c` | registered callbacks; the record's state machine | start, step, retry, stop | driven by alarms and NAND callbacks, stopped at any of its states | one thing is awaited at a time; the file is closed before power-off |

### Clients of the I/O processor

| part | state | operations | what is hard | what makes it correct |
| --- | --- | --- | --- | --- |
| IPC, `ipcclt.c` | ring of requests with counters, the mailbox and its acknowledgements, relaunch flag | open, close, read, ioctl, reboot, synchronous and not; two interrupts | interrupts and the callbacks they call share the ring with callers; IOS may be replaced under everybody's requests | each request is sent once, in order, and its caller answered once |
| IPC heap, `IPC/memory.c` | chunk headers, free list | allocate, free | splitting, alignment, joining with both neighbours | chunks tile the heap, no room is lost |
| DVD, `dvd*.c` | queue by priority, executing block, cancel flags, resume point, waits for the cover; the commands IOS has | read, cancel, prepare a reset; a callback per command; alarms | cancels meet errors, an opened cover, a changed disc; the cover is polled late | each read is answered once; one thing drives it; calls return |
| NAND, `nand*.c`, `NANDOpenClose.c`; FS, ESP | library state, command blocks, files with a safe-open temporary | open, read, write, close, safe open and close, move | a request may be refused or fail at each stage; a crash between copy and rename | the old or the new file, never half |
| SC, `sc*.c` | configuration buffer, dirty flag | find, replace, flush | flush is asynchronous | no change is lost by a flush |
| MEM heaps | block lists; frame pointers and recorded states | allocate, free, record and go back, resize, adjust | two ends that meet; states kept in the heap itself | regions are disjoint, going back gives back what it should |
| WPAD, WUD | link states, event queues | connect, disconnect, pair, send | above an asynchronous Bluetooth stack | one device per slot |

### Middleware and game

| part | state | operations | what is hard | what makes it correct |
| --- | --- | --- | --- | --- |
| nw4r::snd task system, `snd_Task*.cpp` | three lists by priority, current task, flags, two thread queues | append, cancel, cancel all, create, destroy | the task thread publishes what it executes without the lock | cancelling returns, and the task is then gone |
| nw4r::snd sound heap, `snd_FrameHeap.cpp` | levels with their blocks | allocate, save and load a level, clear | callbacks of released blocks stop sounds | no callback is missed, a level is whole |
| nw4r::snd players and sound thread | tracks, voices, load tasks | prepare, start, stop, update | the AX interrupt, the sound thread and the task thread share players | nothing touches a stopped player |
| EGG task thread, `eggTaskThread.cpp` | job slots, message queue, end messages | request, run, wait for the end | nothing is locked: `pTask` alone hands a slot over | each accepted task is executed once, in order |
| EGG heaps, display, scenes | | | frame synchronisation | |
| face library, `RVLFaceLib` | the manager (working, errors kept across a close), the access to the file, retry and sum alarms; the database's header in memory and its file | boot, load the Miis of a remote, collect those stored | one operation is a chain of a dozen callbacks in interrupts, each of which may be refused; the console may be switched off | the file's table, links and data agree; a Mii is lost only to make room; the game is told what happened, and told something |
| save data, `RPSysSaveDataMgr.cpp` | `mFlags`, error code, file and banner buffers; two files and a temporary on the NAND | exist, create, delete, save, load; update each frame | two threads change one flag word; any call may fail; the power may go | an error is not lost, a save declared over is on the NAND, every access ends |

### How they interact

    scene ──calls──> RPSysSaveDataMgr ──request──> EGG::TaskThread ──message queue──> its thread
                           ^  mFlags, shared                               │ NAND calls
                           └───────────────────────────────────────────────┘
    StrmPlayer ──append/cancel──> snd TaskManager <──pop── TaskThread ──reads──> DVD
    scene ──asks, polls──> RFL_System ──> RFL_*Database <──callbacks──> RFL_NANDAccess <──> NANDOpenClose
                                               ^  alarms: retry, sum                            │ IPC requests, answers
            all of them ──sleep/wake──> OSThread <── OSMutex, OSMessage; interrupts ──> reschedule

Everything above the OS sleeps and wakes through `OSSleepThread` and
`OSWakeupThread`; the OS modules show what these promise (`WaitSets`), and the
modules above use the promise instead of the scheduler.

What is left aside as not worth a model: rendering, signal processing, codecs and
parsers (sequential, floating point or pure), register-level drivers (what they
do is on the far side of the hardware), and third-party code (the Bluetooth
stack, the FAT file system, MSL, MetroTRK). `PROJECT.json` lists each with its
reason.

## 2. Modules

| module | models | role |
| --- | --- | --- |
| `BoundedDeque` | | what a message queue promises |
| `OSMessage` | `OSMessage.c` | ring buffer, blocking and polling calls |
| `Queues` | thread and task lists | a queue as a sequence: removal, insertion by priority |
| `QueueLemmas` | | lemmas about these and the library's sequences |
| `OSThread` | `OSThread.c` | every operation of the scheduler, as frames of a stack |
| `OSMutex` | `OSMutex.c` | extends it with mutexes |
| `WaitSets` | | what sleeping and waking promise |
| `OSKernel` | `__OSDispatchInterrupt`, `__OSThreadInit` | composes the two under a program of threads and an interrupt; the properties |
| `OSKernel_proofs` | | their theorems |
| `OSPriority_proofs` | | those about priorities |
| `SndTaskManager` | `snd_TaskManager.cpp`, `snd_TaskThread.cpp` and their callers | manager, thread and clients |
| `SndTaskCancelled` | | the same with a history variable |
| `TaskFifo` | | what a task thread promises |
| `EggTaskThread` | `eggTaskThread.cpp` | job slots, requester and thread |
| `WorkerThreads_proofs` | | the theorems about the three and about `DvdDriver` |
| `SaveDataMgr` | `RPSysSaveDataMgr.cpp`, `eggBitFlag.h` | the manager, composed with an instance of `EggTaskThread` |
| `SaveDataMgr_proofs` | | its theorems |
| `AlarmClock` | | what alarms promise |
| `OSAlarm` | `OSAlarm.c`, `OSSleepTicks` | the sorted list, the decrementer, its exception |
| `Services_proofs` | | the theorems about `OSMessage`, `OSAlarm` and `OSPlayRecord` |
| `OSPlayRecord` | `OSPlayRecord.c` | the state machine, its start and its stop |
| `ReadService` | | what the disc driver promises |
| `DvdDriver` | `dvd.c`, `dvdqueue.c`, `dvdfs.c`, `dvd_broadway.c` | reads, cancels, errors, the cover, the drive |
| `NandSafe` | `NANDOpenClose.c`; the file system | safe open and close, and the files under them |
| `FaceAccess` | `RFL_NANDAccess.c` | extends it with the operations of the face library on its file |
| `FaceDatabase` | `RFL_Database.c`, `RFL_HiddenDatabase.c`, `RFL_Controller.c`, `RFL_MiddleDatabase.c`, `RFL_System.c` and their callers | extends it with the database and the game; the properties |
| `IpcBroker` | | what the IPC client promises |
| `IpcClient` | `ipcclt.c` | the ring, the mailbox, two interrupts, IOS |
| `IpcClient_proofs` | | its theorems |
| `IosHeap` | `IPC/memory.c` | the IPC library's heap |
| `MarkRelease` | | what frame heaps promise |
| `FrmHeap` | `mem_frameHeap.c` | head, tail and recorded states |
| `SndFrameHeap` | `snd_FrameHeap.cpp` | levels and blocks, extends `FrmHeap` |
| `FrmHeap_proofs` | | the theorems of both |
| `MCServices` | | the services that share no state, in one run |
| `MCWorkers` | | the snd task system, EGG's task threads, the disc driver |
| `MC...` | | model values and symmetry for TLC |

### OSMessage

A thread's call is a step up to its sleep; each retry after a wake-up is
another. Interrupts are disabled in between, so nothing else interleaves. A
ready thread may run at any later moment, whatever its priority. Init is the
queue as `OSInitMessageQueue` leaves it; a slot never written holds `NoMessage`.

### OSThread, OSMutex, OSKernel

The functions of the scheduler run with interrupts disabled, but a thread switch
inside one lets everything else run before it goes on. The model keeps what a
switched out context has still to run as a stack of frames: one step is one turn
of the innermost frame's loop (one thread woken, one owner followed, one mutex
released), or one dispatch. `OSExitThread` in the middle of
`__OSUnlockAllMutex`, a canceller preempted between two wake-ups and the
reschedule at the end of an interrupt are then ordinary interleavings.

`RunQueueBits` is a set of priorities; a wait queue is indexed by its owner: a
thread, a mutex or the program. Left out: stack contents and checks, the
switch callback, the registers' save and restore (their effect is `Dispatch`).
`OSSleepTicks` is in `OSAlarm`.

The program is arbitrary within `Calls` and `IsrCalls`, under rules its source
needs: a thread that has been reaped is not named and the start-up thread does
not return. (Unlocking another's mutex does nothing and is no step.) A thread in `Disciplined` also ends
itself only once it owns no mutex and is not cancelled while it cancels; the
game's threads never end, so nothing in the repository says whether programs are.
A thread cancelled while it cancels another is not created again (`MayCreate`):
`OSCreateThread` on its block would drop the rest of `OSCancelThread` with the old
stack, and the mutexes of the other thread would stay locked for good. Nothing in
the code prevents it; `EndedThreads` fails without the rule.

### SndTaskManager

Functions under `ut::AutoInterruptLock` are one step up to a sleep. The
thread's loop and `ExecuteTask` take no lock: each access to `mCurrentTask`,
`mFinishFlag` and the wake-up of `mDoneThreadQueue` is a step of its own. A task
may wait for the disc, and the header task appends others. `WorkerFirst` says
the task thread preempts its clients; `SoundSystem` creates it with priority 3
and the sound thread with 4 by default (`snd_SoundSystem.h`).
`Task::mBusyFlag`, which nothing reads, is left out.

### EggTaskThread

`pTask` is the only thing that says whose a slot is, so each access to it is a
step: the search for a blank slot, the filling, the send, the test, the end
message, `pTask = NULL`, and `clearFunctions`, which clears it again. The two
message queues are bounded sequences, used without blocking but for the
thread's receive (what `OSMessage` implements). `ThreadFirst` is the order of
the priorities. The `pOn...` functions, which no user sets, are left out.

### SaveDataMgr

Both threads run the same functions; a thread's program is a sequence of steps,
and what a step does to `mFlags` is left as bit operations, each a load and a
store. A NAND call blocks its thread until the answer, which may be an error,
`BUSY` or another. The files are `none`, `empty`, `torn`, `old` (not what memory
holds now) or `whole`. `PowerCycle` may happen at any moment. The content of the
save (`RPSysSaveData`) is abstracted to this; a torn save is told by its
checksum when it is loaded.

External: the NAND, the player and the scenes. `RPSysSystem` and the scenes are
not part of the repository; they are taken to begin an operation only when
`isAsyncFinish` holds and to call `finishNandAccess` once they have the end
message. `EFlag_13` is only ever reset and is left out. `saveSync` and
`loadSync` are public (`RPSysSaveDataMgr.h:166`, `:170`), but nothing in the
repository calls them from outside the class: they are modelled where the
manager itself calls them, from its tasks and its file operations, and not as
operations a scene begins.

### OSAlarm

Time is a counter that ticks up to `MaxTime`; the decrementer is the tick at
which it passes zero, `MaxDec` ticks away at most where the hardware counts
2^31. The exception may be taken any time after. A handler sets or cancels any
alarm, or does nothing. `OSSetAlarm` is called on an alarm that is not pending
only (the code would link it twice; every caller cancels or creates it first).
`OSSleepTicks` is the alarm and the suspension, with a sleeper that another
thread may resume early; the shutdown pass keeps the drive's alarms, as the code
does. Tags and user data, which are only stored, are left out.

### OSPlayRecord

A callback is one step, with the command it issues: the NAND refuses it at once,
with BUSY or an error, or answers later. `__OSStartPlayRecord` runs the first
callback in a thread, where an interrupt may come before its last assignment;
the stop is cut where it polls. What is written is left out.

### DvdDriver

Everything runs in interrupt handlers or with interrupts disabled, so a handler
with all it calls is a step. The driver's state is one record; its functions are
operators of that record. IOS serves the driver's commands in order: `low` is
the queue of their callbacks, and a step of the drive is the completion of the
oldest with the interrupt that tells it. The drive, the disc in it and the user
are the environment: the cover opens and closes at any time, with the right
disc, a wrong one or none; a command fails as the drive's state makes it, or by
a fault, a read error or a timeout.

Taken as given, from how the program uses the driver: reads are of at least one
byte, and no other command is issued after `OSInit`'s; it is never paused and
the motor never told to stop; the messages about fatal errors stay on, so a
timeout, a security error or the same error twice ends the program (`fatal`);
the drive spins down the way drives of kind 3 do; a file is not read again
until the cancel of its last read has returned; `DVDCancelAsync` is modelled
where it does not refuse, as a refusal changes nothing; nothing is read or
cancelled once `__DVDPrepareReset` has begun. `cancels`, a history variable,
counts the cancels of each file's reads: `ReadService` has it too, so that an
answer `CANCELED` without a call behind it is not one of its steps. IOS refusing a command at once, which the driver
ignores, is left out. The model also ends where the code has gone wrong:
`nullWrite` and `late`, the answer to a poll of the cover after its wait was
cancelled (section 5).

### IpcClient

A caller's step goes up to its sleep; each interrupt handler is a step with the
callback it calls, which may make the next call. IOS takes the mailbox, answers
in any order, and may be relaunched by a reboot or refuse it. It puts the
request's type where `fd` was, on which `IpcReplyHandler` switches. The new IOS
acknowledges long after the old one's interrupts were handled. The counters are
words of `IpcWord` values, of which there are more than requests and callers can
be at a time (`Room`; the code has 2^32, the run 7): each call raises `queued`
before it sleeps. A failed allocation changes nothing and is no step.

### NandSafe, FaceAccess, FaceDatabase

An answer of the file system is an interrupt that goes up three layers:
`nandSafeOpenCallback` or its like, the callback of the access to the file, and
the callback of the operation, which may begin the next. All of it, with the
requests it sends, is one step, so the handlers are operators of one record
(`lib`), composed in `AnswerInterrupt`; the alarms and the calls of the game are
the other steps. `file`, `block`, `working`, `err`, `reason`, `beforeErr`,
`opened`, `args` (the union of `openInfo`, `readInfo` and `writeInfo`) and
`retry` are the code's fields.

The file is a header and one piece of data for each slot; the header is the
table of entries with its list, whether it is isolated, and whether its sum
matches. What is written is what memory holds when the request is sent, so
that the order of the write and of `hidden.crc = crc` counts. A position in the
file is the header or a slot. The file system (external) answers requests in
order, does what is asked, refuses it (`BUSY`, `CORRUPT`), or does a write in
part; the IPC library may refuse a request before it is sent. Switched off
at any moment, a console keeps its file as it is, and has `/tmp` emptied and
the library forgotten when it is on again.

The game is `RPSysKokeshiManager`, the loader of a remote's data and
`RPSysMiddleDB`, each of which waits for its call to end; the boot is repeated
while the NAND is busy. The resources of the faces are given to the library in
memory. Creating the file and formatting it are left out: a boot that
finds no file or a broken one leaves `RFLiGetIsolation` true, and
`validBufferFound_` then writes nothing, so that `RFLiFormatAsync` is not
reached from the game. A Mii is its identity; the checks of a Mii's validity, deleted
ones, the cached copy of the database and random collections are left out. A
remote has a list of Miis, an invalid memory, or does not answer. The sum takes
alarms of 19 ms for each piece and is one alarm here: nothing else runs on the
manager in between but what refuses to while it works.

`spoilt` is a history variable: from the moment a seek or a write was answered
otherwise than done, the file in the making is not claimed to be anything (section
5 says what can become of it).

### IosHeap, FrmHeap, SndFrameHeap

Addresses are in units of a header (16 bytes) or a word (4), so sizes and
alignments keep their rounding; every call is a step. What the clients hold is
a history variable, against which the heap's own structures are checked.
`MEMAdjustFrmHeap` is called only without recorded states, which it would leave
above the end. Sizes near 2^32 and the table of heaps (`iosCreateHeap`) are left
out. What callbacks of sound blocks do to the sounds is left out: that they run
is not.

## 3. What the runs check

| run | instance | shows |
| --- | --- | --- |
| `services` | below | message queue: the ring implements the deque, nobody sleeps on a queue that has what it waits for. Alarms: none forgotten, periods on their grid and what is late skipped (`RingsOnGrid`), the list implements `AlarmClock`. Play record: one continuation at a time, and the stop leaves nothing open. Disc driver: one thing drives each read, and it implements `ReadService`: a read is `CANCELED` by its own cancel, by the shutdown, or once by the flag an earlier cancel left. IPC heap: chunks tile it and free ones never touch. Frame heap: implements `MarkRelease`. Sound heap: levels stay whole. Face library: no Mii is lost whenever the console is switched off (`NoMiiLost`), the game is told what the file holds (`AnswersTruthful`), every boot and call ends (`FacesSettle`) |
| `kernel_inherit` | 3 threads, 2 priorities, 2 mutexes | queues sorted, waiters have owners, inherited priorities exact, the best thread runs; every loop of the scheduler ends, deadlocked owners included |
| `kernel_suspend` | 3 threads, a mutex, a queue, interrupts; suspend and lock counts to 2 | threads are linked exactly where their state says, whoever suspends or resumes them |
| `kernel_end` | 3 threads, 2 mutexes; two of the threads disciplined | mutex lists, active list and joiners survive every way to end a thread; wait queues implement `WaitSets` |
| `workers` | 3 tasks, 2 clients, the code's priorities; 2 tasks, 3 slots, 2 end messages; 2 files | snd: no work slept on, no task linked twice, a cancelled task is gone, cancel and destroy return. EGG: slots have one owner, the thread implements `TaskFifo`, each accepted request is executed. Disc: every read, cancel and shutdown returns (`RequestsServed` is the conjunction of the three) |
| `save_game_first` | 2 slots, 1 end message; game first | an error is kept, a save declared over is on the NAND, exist bits tell the truth, only whole banners are moved home |
| `save_nand_first` | the same, NAND thread first | every access and every save ends |
| `ipc_client` | 2 callers, 3 requests, a ring of 2 | nothing in flight is freed, no sleeper is forgotten, the mailbox is never overwritten nor used under a relaunch, the ring implements `IpcBroker`, where only IOS serving a reboot drops what it serves, calls return |
| `save_error_lost`, `save_access_stuck`, `save_banner_empty`, `ipc_wrap` | | the findings below |

Runs `services` and `workers` hold several parts that share no state; a variable
says which one a behaviour is about, and the others stay as they were. A
property of a part then holds of every behaviour of it, and only of those is it
worth anything.

**Bounds.** Three threads give a waiter, an owner and a third who preempts, a
chain of two owners and a cycle; two mutexes make the chain and the release of
several at an end. Two priorities already separate what is lent from what is
asked for, since a lent priority returns to the lower one. A ring of three slots
makes `front` wrap while it is neither full nor empty. Three tasks are the
one executed, the one queued and the one cancelled. The scenes begin one
operation at a time, so two job slots are one more than they use, and one end
message is enough. `MaxSuspend` and `MaxLock` bound the counters in the guards
of the calls that raise them.

Alarms: a client's, the drive's and a sleeper's, so that one is before, one
after and one between; delays of 1 and 3 ticks under a decrementer of 2 make
exceptions that ring nothing; four ticks hold two periods and a late exception.
IPC heap: 22 units (a header and eleven to twenty-one units of room) hold three
blocks with a free chunk between any two, which is what joining can meet. Frame
heap: 8 words and two states, room for the two ends to meet in every way. Sound
heap: three levels. Disc: two files, one read by a sleeping thread and one not,
two reads of one and two transfers, and two troubles of any kind (cancels,
openings of the cover, errors, shutdowns): a
cancel while the driver deals with an error that follows an opened cover is
among them. Larger instances (three reads, five troubles) were run once and
found nothing more. Face library: two slots are a table that is empty, has room and is full, so that
a remote's first Mii takes the blank entry and its second overwrites the
oldest; two calls (`MaxCalls`) are a load and a collection of what it stored, or
two loads; one switch-off (`MaxCrashes`), one request refused, failed or
written in part (`MaxFailures`), at every place of the chains; one retry
(the code has 30, each of which repeats the one before) and two reads of a
remote (the code has three). With two failures and a third content of the file (an empty
database) the instance was run once and holds too. IPC: a ring of two is empty, half full and full; three
requests are one in the ring, one in the mailbox and one with IOS; four calls
let the indices wrap. The counters' own wrap is `ipc_wrap`.

**Symmetry** is used for safety and with interchangeable threads only.

**Deadlock** is checked but in the kernel's runs, where all threads may sleep
for good (two that wait for each other's mutex, or all suspended), and in
`services` and `ipc_client`, whose bounds end them (the clock, the play record
once stopped, the calls). In `workers` only the disc driver may rest.

**Fairness.** `KernelReturns`: weak fairness of the kernel's own steps: the
processor goes on. `SndTaskManager`: weak for the task thread, the best of all
priorities concerned, with a disc that answers; strong for a woken client, which
runs in the gaps. `EggTaskThread`: the same for thread and requester.
`SaveDataMgr`: weak for the NAND thread and the player; strong for the game
thread, which each frame goes on, looks for the end message and updates the
manager, in the end with the scene displayed.
`IpcClient`: weak for the threads, the interrupts and IOS taking the mailbox;
strong for IOS answering a request, since the reply register is shared.
`DvdDriver`: weak for IOS answering, the alarms, the NAND and the threads.
`FaceDatabase`: requests are answered, alarms fire, the remote answers and the
game's thread runs, whenever one of these is possible for good. It is weak fairness of
`FaceMoves` with the condition under which it can move written out
(`FaceRuns`), which saves TLC the evaluation of whole handlers for it. The
game's retry of the boot and its calls are nobody's duty; that a busy NAND is
not busy for ever is in `MaxFailures`.
Nothing makes the user close the cover: that reads return is claimed once the
right disc is behind a closed cover for good; that cancels and a shutdown
return is claimed whatever the user does.

## 4. What priorities decide

Three components hand data between threads without a lock and rely on who
preempts whom.

* With its clients first, the snd task thread can be preempted between taking a
  task off its list and publishing it: `CancelTask` finds it nowhere and
  returns. `CancelCompletes` holds with the priorities the code sets.
* With its requester first, `TaskThread::run` erases a request that comes
  between lines 117 and 125. With the thread first the theorems below hold.
* `RPSysSaveDataMgr` needs the opposite: the thread first loses errors, the game
  first can erase a request. Which it is, `RPSysSystem` decides.

## 5. Findings

1. `eggTaskThread.cpp:125`: `clearFunctions` clears `pTask` a second time, after
   the slot was freed at line 117. A request in between is accepted and erased;
   `NandAccess` then stays raised with no operation happening
   (`save_access_stuck`).
2. `RPSysSaveDataMgr.cpp:419`: `saveAsync` changes flags after the request. With
   a NAND thread of better priority its store overwrites the error the task has
   raised, and `update` takes the save for a success (`save_error_lost`).
3. `RPSysSaveDataMgr.cpp:712`: with saving disabled `saveBannerFile` does
   nothing, and `createBannerFile` moves an empty banner home
   (`save_banner_empty`). While saving is enabled this cannot happen
   (`EnabledBannerMovedWhole`).

4. `ipcclt.c:49`: once `queued` has wrapped below `sent`, the two tests of the
   ring take any waiting request for a full ring, and for nothing to send
   (`ipc_wrap`, with words of four values; the real ones take 2^32 requests).

Seen while modelling; no document promises anything of these cases:

* `DVDCancelAsync` sets `Breaking` with `Canceling`, and `CheckCancel` resets
  the second only. A read cancelled while the driver asks for an error leaves
  `Breaking` behind, and the next read, that nobody cancelled, is answered
  `CANCELED`. `ReadService` has it as `leftover`: only a cancel sets it, and
  the one read it hits resets it. Everywhere else `CANCELED` takes a cancel of
  that read or the shutdown (a driver that never reset `Breaking` violates
  `ServiceSpec`: `CbBusyMutant`).
* `InsertAlarm` moves a periodic alarm on when `start < time` (`OSAlarm.c:47`).
  If its exception is taken exactly at its start, as it may be when the start
  was beyond the reach of the decrementer and this ran out one tick before, the
  end stays what it is, and the alarm rings for its start a second time. `RingsOnGrid`
  names the case (`StartAgain`) and demands of every other ring that the next
  end is to come.
* The poll of the cover is answered after its wait was cancelled:
  `cbForPrepareCoverRegister` (`dvd.c:1015`) then writes through a null
  `executing`, or takes the next read for the one that waited.
* `__DVDClearWaitingQueue` leaves the links of the waiting blocks: a cancel of
  one after a shutdown has begun would link stale ones. (Nothing is cancelled
  then.)
* `CategorizeError` counts in `NumInternalRetry` and compares it with 2
  (`dvd.c:453`). If the second error of a read meets a cancel, `CheckCancel`
  answers the read before anything resets the count: from then on, until a
  command succeeds, the comparison is false however often the same error comes
  back, and it is retried without bound. `DvdTypeOK` therefore says no more than
  that the count is a number; the two troubles of the run do not reach the case.
* `DvdFileStream::CancelAsync` (`ut_DvdFileStream.cpp:170`) sets a flag when the
  cancel was accepted, and nobody reads it.
* `IpcReplyHandler` gives a refused reboot's acknowledgement back and does not
  look at the ring: what waits there is sent only with the next call.
  `ReadySends` and `CallersReturn` say so.
* A write or a seek of the face library's file that is answered `BUSY` has both a retry
  set and the callback called (`RFL_NANDAccess.c:662` goes on to line 675, as
  does 761): the operation above closes the file while the retry waits. The
  retry then finds a closed descriptor; or, if the close is still under way, it
  overwrites `block->callback`, the answer to the close reaches
  `writecallback_`, and `opened` stays `TRUE`. `spoilt` stands for these.
* `writeCtrl2HDBCallback_` (`RFL_HiddenDatabase.c:150`) closes, which renames
  the temporary home, whether or not the header was written.
* A safe close that fails half-way leaves `mark` at 3, so the next open closes
  the same descriptor again; a safe open that fails leaves its descriptors open
  and its directory in `/tmp/sys`; and the copy of the file does not look at how
  much was written.
* After a boot that read `CORRUPT`, and whose close was refused, the zeroed
  header in memory is taken for a database, and a later load would write it
  over the file. `NoMiiLost` is about boots that could read (`broken`).
* The retry of the boot in `RPSysKokeshiManager.cpp:226` reaches the NAND only
  if `RFLExit` has run: with a manager left, `RFLInitResAsync` answers Success.
* `endWorkingCloseReason_` stores the error kept in `beforeCloseErr` as the
  reason (the source marks it, line 99), and `errorAndReRead_` leaks its buffer
  when the remote refuses another read.
* `MEMAdjustFrmHeap` with recorded states, `CancelAllTask` while the current
  task appends others (`snd_TaskManager.cpp:149`), the AX interrupt walking
  `mPlayerCallbackList` (`snd_SoundThread.cpp:59`) and the order of
  `StrmPlayer::Stop` (`snd_StrmPlayer.cpp:163`) are as delicate; the models do
  not reach them or, in the first case, leave the call out.
* `OSCancelThread` clears `thread->queue` before it follows the owners of a
  mutex (`OSThread.c:573`); from a deadlock among owners the chain may return to
  the cancelled thread, still `SLEEPING`, and `SetEffectivePriority` follows the
  cleared pointer. The model has no step there.

## 6. What is proved

For every value of the constants, under the modules' assumptions:

* `Services_proofs`, about `OSMessage`: `TypeCorrect`, `LostWakeupFree`,
  `ImplementsDeque`. The
  lost wake-up needs that only callers sleep (`SleepersAreCallers`); the
  refinement rests on three lemmas, that `Put`, `PutFront` and `Take` append,
  prepend and drop one element of `Content`, and these on arithmetic modulo the
  capacity (`WrapOnce`).
  About `OSAlarm`: `AlarmsSound`, `AlarmsNeverForgotten` (`AlarmsKept`, until
  the shutdown's last pass, after which nothing runs: which alarms that pass
  keeps is what `SelectSeq` computes, an induction over the list and beyond the
  prover). The timer covers the head
  only if the list and the handlers agree, the list has no duplicates and times
  are naturals; with these, `AlarmInv` is inductive. It rests on what
  `InsertByPriority` and `Without` do to a list (`InsertSet`, `WithoutSet`,
  `WithoutHead`), the former on a set of places having a first one
  (`FirstPlace`). `AlarmsOnGrid` (`RingsOnGrid`) and `AlarmsImplementClock`
  (`ClockSpec`), the last pass included, need `ClockInv` as well: the list is in
  the order of the ends, so that the alarm the exception takes is due first, and
  the end of a pending periodic alarm is its start or whole periods after it.
  That the next end of an alarm that rings is to come, or is `StartAgain`, is
  shown of the exception (`ExceptionRings`) after what an alarm's own handler
  may do (`HandlerAhead`); `AlarmClock` then rings an alarm twice at one time
  only at that time.
  The second part of `ClockInv` is division with remainder (`PeriodEndGrid`,
  `MultipleLeavesNothing`). Every function changes one alarm (`Others`), so a
  step of the clock is that of one alarm set, cancelled or rung (`SetStep`,
  `CancelStep`, `RingStep`).
  About `OSPlayRecord`: `PlayRecordWaitsOnce` (`OneContinuation`) and
  `PlayRecordStops` (`StopLeavesNothing`), from `PlayRecordInvariant`: `RecInv`
  says for each state of the record what its alarm, its command and its file
  are, as long as nobody stops it (`Machine`), when a wait is over and its
  callback has yet to run (`Over`), and for each step of the stop, which must
  know then whether there is a file to close (`MustClose`).
* `WorkerThreads_proofs`, about `SndTaskManager`: `TaskTypeCorrect`,
  `NoWorkSleptOn`, `CancellersWoken`, `ListsDisjoint`, for any priorities. `DoneAwaited` is not inductive: that
  `mCurrentTask` is set exactly while a task is executed, and that only
  cancellers are in the done queue, is added in `DoneInv`.
  `CancelledTasksGone` (`CancelCompletes`) assumes `WorkerFirst`: `CancelInv`
  adds that what the thread executes is then `mCurrentTask` whenever a client
  runs, and that the task a client waits for in `CancelTask` is in no list.
  About `EggTaskThread`: `JobTypeCorrect`, `SlotsOwned`, `ImplementsFifo`,
  each assuming `ThreadFirst`. `SlotOwned` becomes inductive with `JobInv`: the
  current job stays apart from the queue and the request until the thread waits
  again, and a slot filled keeps its task until it is sent.
  About `DvdDriver`: `DvdDrivenAlways` (`DvdDriven`) and `DvdImplementsService`
  (`ServiceSpec`), from `DvdInvariant`, for any files, priorities, cancels and
  faults. All three assume `Contexts >= 3`: a callback, whose own context is
  in use until it returns, gives two commands at most, and `DVD_LOW_CTX_MAX` is 4
  (`dvd_broadway.c:8`). `DvdInv` says that between two handlers the driver rests in one of
  a few ways (`AtRest`: nobody served, the executing read driven by its command or its
  alarm, or the user awaited), each with the commands that can be out then; that
  a read that waits is in one queue, once (`Placed`, `QueuedOnce`); and, until a
  reset is prepared, that a thread sleeps only on a read that is not over
  (`Agree`). A handler, however deep its calls, is one `Turn`: it leaves the
  reads alone (`Unanswered`) or answers the executing one (`Answered`); a
  cancel finds the read over, asks the handlers for it, withdraws it from its
  queue or answers it at once (`AlreadyOver`, `AskedFor`, `Withdrawn`,
  `CanceledNow`). So the refinement has to be shown of these few changes, not of
  the handlers, and there is a lemma for each handler that it is one of them.
  An answer `CANCELED` is part of the step that makes the call or uses up the
  leftover flag; that the shutdown is one step, and its callback never another,
  is `Unprepared`: nobody waits to be called as prepared before a reset began.
* `OSKernel_proofs`: `KernelQueuesExact`, `KernelMutexConsistent`,
  `KernelMutexWaiters`, from `KernelInvariant`, for any threads, priorities,
  mutexes and program. None of these three is inductive alone. `KInv` adds what
  the stacks promise (`StackInv`: which frame may lie on which, that who is
  about to sleep on a mutex is the running thread and somebody else owns it,
  that only the running thread is in the middle of `OSCancelThread`), that a
  running thread no longer `RUNNING` is on its way to a reschedule which finds
  the hint set (`Leaving`), that only the current thread is `RUNNING`
  (`RunningOne`), the bounds of priorities (`PrioOK`), that each thread is
  linked where its fields say and nowhere else, the one being cancelled apart
  (`Placed`), and that a free mutex with waiters is being woken right now
  (`WakeOwed`). There is a lemma for each function, and for each change of a
  queue. `KernelEndedThreads` (`EndedThreads`) rests on `KInv` and `EInv`: a
  wake-up that is not a thread's innermost frame lies under
  `__OSUnlockAllMutex`, so that no thread is switched out in the middle of one
  (`Nested`); what a dead thread owns and who waits for it is owed by some stack
  (`ReleaseOwed`, `JoinersOwed`); and that is not the stack of a disciplined
  thread that is dead and gone, since such a thread ends itself owning nothing,
  so that nothing can preempt it before it wakes its joiners, and is cancelled
  only when it tears nobody down itself (`Orderly`, `CancelOrderly`). `KernelImplementsWaitSets`
  (`WaitSetsSpec`) needs `Nested` too: a queue counts as empty from the call of
  its wake-up on, and nothing else runs before the wake-up ends.
* `OSPriority_proofs`: `KernelInheritedPriority` (`InheritedPriority`), from
  `KInv`, `EInv` and `PInv`. A thread may claim its base and what its lenders
  have (`Claims`): who sleeps on a mutex it owns, or is on the way to that sleep.
  `Settled` says that the priority of every live thread that is not suspended is
  the least it may claim, but for the one thread that the loop of
  `UpdatePriority` is at, and for the one that the loop of `__OSPromoteThread` is
  at, which lacks nothing but the priority this loop carries (`Almost`). So both
  loops hand on one debt at a time along the owners, and the proof needs neither
  paths nor that the owners form no cycle. `Sleeps` and `Shapes` say what this
  takes: a sleeper that has noted a mutex is in its queue, a suspended one has
  the worst priority, a mutex is noted only on the way into or out of a sleep,
  and a promotion carries the priority of the thread that is about to sleep.
  `KernelHighestPriorityRuns` (`HighestPriorityRuns`) rests on these and `HInv`.
  While a ready thread is better than the running one, a reschedule is still to
  come (`Coming`), and it will look at the run queue: the hint is set, or the
  `OSWakeupThread` under way sets it with the next thread it links that is not
  suspended (`Waking`). And a reschedule is due whenever the interrupted
  functions say so, down to the last handler (`IsrEnds`). The hard case is the unlock
  of a mutex, after which the running thread may lose a priority it was lent:
  that it then falls to a value `PInv` knows decides whether the hint is needed.
* `IpcClient_proofs`: `IpcRequestsSafe`, `IpcMailboxSafe`, `IpcImplementsBroker`.
  All assume `Room`, without which a full ring and a wrapped counter are
  taken for one another (finding 4); `CountInv`
  counts the callers that have a request prepared against `MaxQueued`. The
  broker's `reboots` are the requests under way whose block says so
  (`Reboots`); a block's kind changes only while nobody holds it (`KindsKept`,
  `AnsweredKinds`), so a relaunch has one of them being served. `IpcInv`
  has the shape of the ring, the requests the driver and IOS hold, and for each
  caller whether its block is among them.
* `FrmHeap_proofs`: `FrmEndsNeverCross`, `FrmImplementsMarkRelease`,
  `SndLevelsKept`. `FrmInvariant` says that the recorded states nest (each is
  within the heap and within those recorded after it, with its own record in
  between) and that no region handed out overlaps another. The levels of the
  sound heap lie between the recorded states, each with its blocks in order.

* `SaveDataMgr_proofs`: `SaveTypeCorrect`, `SaveFilesExist` (`ExistTruthful`) and
  `SaveBannerMovedWhole` (`EnabledBannerMovedWhole`), whichever thread has the
  better priority; `SaveReportsTrue` (`SaveReported`) and `SaveErrorKept`
  (`ErrorKept`), assuming `ThreadFirst = FALSE`: with the thread first the run
  `MCSaveErrorLost` refutes the latter. All follow from `SaveDataInvariant`.
  `NandAccess` keeps the threads apart (`OneTask`): while a task is requested or
  under way the game is in one of a few phases, each of which says what
  it has yet to do to the flags and which task it has requested (`GameInv`). So
  only the game can hold a loaded word that is out of date, and only in
  `NandError`, in the middle of `saveAsync`, and only if the thread comes first
  (`WordInv`). Whatever a step of a file's function does to the program is one of the
  `Turn`s, so the invariant has to be shown of those only. `TempInv` says that
  what is in `/tmp` is whole when its move is reached without an error or a disabled save,
  `SaveInv` what the NAND holds at each point of a save, and `ExistInv` which
  bit's operation is still to come for a file that is gone. The assumption on the
  constants says that `NULL` is no task, no slot and no set of flags.

`QueueLemmas` has what these share about sequences: removal, insertion by
priority, and what each does to order, to sets and to lengths.

The theorems about the snd task system hold for any priorities (but the one
that says otherwise), the run for the code's; `DoneAwaited` and the types of
the proved modules are not checked by a run any more, since they are proved.
Where a theorem states no property of a run (`KernelInvariant`, `AlarmsSound`,
`PlayRecordInvariant`, `DvdInvariant`, `FrmInvariant`, `SaveDataInvariant`), it is the inductive invariant, which TLC checked before it was
proved.

Only model-checked, and why:

* all liveness, which is beyond the prover, as is what `NextCancelled` and the
  fairness conditions enable;
* the face library's `AnswersTruthful` and `NoMiiLost`: which Miis a file has is
  read by following the links of its table, a recursive function (`Entries`),
  and what it computes after `create_` and `overwrite_` is an induction along
  those links;
* `IosHeap`'s `HeapExact`: that the chunks tile the heap is an induction along the
  list of chunks, and so over data.

## 7. Not modelled, and the plan

Most of the repository's lines are vendored or have no behaviour worth a state
machine: the Bluetooth stack (191 822 lines), the FAT file system, the C runtime
and the debugger stub are third-party code; graphics, signal processing, codecs
and parsers are sequential and pure; register-level drivers do what they do on
the far side of the hardware; `RPSysSceneMgr` and `RPSysSystem` are not
decompiled, and the heart of the expanded heap has no body. The map covers what
the rest does.

What is left that a model would serve, with the most important first:

1. `SaveDataMgr`'s NAND calls on `NandSafe`'s file system; the creation and the
   formatting of the face library's file.
2. `StrmPlayer` and the sound thread, composed with `SndTaskManager`.
3. `SC`: the dirty flag and the flush; `WUD`'s link states; `EGG::AsyncDisplay`.
