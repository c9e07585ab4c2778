---------------------------- MODULE SaveDataMgr -----------------------------
(***************************************************************************)
(* Pack/RPSystem/RPSysSaveDataMgr.cpp: the game's save file and its banner *)
(* on the NAND.  The game thread calls the manager; its Async functions    *)
(* request a task of the NAND thread, an EGG::TaskThread.  Both threads    *)
(* read and write mFlags, an ordinary word: setting or resetting one bit   *)
(* is a load and a store, and the other thread may run between them.       *)
(*                                                                         *)
(* Each thread runs a program: a sequence of steps <<function, file>>,     *)
(* preceded by the bit operations its last step left to do.  A step whose  *)
(* function is in NandCall ends when the NAND answers; until then its      *)
(* thread is blocked.  EFlag_13, which the code only resets, is left out.  *)
(*                                                                         *)
(* The scenes that call the manager are not part of the repository.  They  *)
(* are taken to begin an operation only when isAsyncFinish says so, and to *)
(* call finishNandAccess once they have taken the end message.             *)
(***************************************************************************)
EXTENDS Naturals, Sequences

CONSTANTS NULL, Capacity, EndCapacity,   \* as in EggTaskThread
          ThreadFirst,   \* the NAND thread has a better priority than the game
          Task           \* the tasks the scenes request

Flag == {"NandMemoryExist", "BannerFileExist", "SaveFileExist", "DisableSave",
         "NandAccess", "AsyncSave", "ErrorWindow", "NandError"}

ASSUME SaveDataAssumption ==
    /\ Task \subseteq {"existPackFile", "existNandMemory", "createPackFile", "loadData", "saveData"}
    /\ Capacity \in Nat \ {0} /\ EndCapacity \in Nat \ {0}
    /\ ThreadFirst \in BOOLEAN
    /\ NULL \notin Task /\ NULL \notin 1 .. Capacity /\ \A word \in SUBSET Flag : NULL # word

VARIABLES pTask, mesgQueue, endQueue, pc, currentJob, request,   \* the TaskThread
    flags,   \* mFlags: the set of raised bits
    code,    \* mNandErrorCode: NAND_RESULT_BUSY, or anything else
    window,  \* the system window: what it asks, or the player's answer
    prog,    \* what each thread has left to do
    ops,     \* the bit operations before that
    reg,     \* the word it has loaded, or NULL
    file     \* what the NAND holds, compared with what is in memory

Actor == {"game", "nand"}
File == {"save", "banner", "temp"}
NandCall == {"getType", "create", "delete", "open", "write", "close", "abandon",
             "openToLoad", "read", "closeLoaded", "getHomeDir", "move", "check"}

TT == INSTANCE EggTaskThread WITH JobTask <- Task, None <- NULL, step <- pc

threadVars == <<pTask, mesgQueue, endQueue, pc, currentJob, request>>
machineVars == <<prog, ops, reg>>
nandVars == <<file, code>>
vars == <<threadVars, flags, window, machineVars, nandVars>>

Exists(f) == IF f = "save" THEN "SaveFileExist" ELSE "BannerFileExist"

Init ==
    /\ TT!EggInit
    /\ flags = {}
    /\ code = "other"
    /\ window = "closed"
    /\ prog = [p \in Actor |-> << >>]
    /\ ops = [p \in Actor |-> << >>]
    /\ reg = [p \in Actor |-> NULL]
    /\ file = [f \in File |-> "none"]

(***************************************************************************)
(* Who may run: the better thread always, the other while it is blocked.   *)
(***************************************************************************)
Blocked(p) == prog[p] # << >> /\ ops[p] = << >> /\ Head(prog[p])[1] \in NandCall
GameIdle == prog["game"] = << >> /\ ops["game"] = << >>

Runs(p) ==
    IF p = "nand" THEN pc = "running" /\ (ThreadFirst \/ GameIdle \/ Blocked("game"))
    ELSE ThreadFirst => TT!ThreadBlocked \/ (pc = "running" /\ Blocked("nand"))

(***************************************************************************)
(* One bit of mFlags.                                                      *)
(***************************************************************************)
Set(f) == <<"set", f>>
Reset(f) == <<"reset", f>>
Applied(op, word) == IF op[1] = "set" THEN word \cup {op[2]} ELSE word \ {op[2]}

Load(p) ==
    /\ Runs(p) /\ ops[p] # << >> /\ reg[p] = NULL
    /\ reg' = [reg EXCEPT ![p] = flags]
    /\ UNCHANGED <<threadVars, flags, window, prog, ops, nandVars>>

Store(p) ==
    /\ Runs(p) /\ reg[p] # NULL
    /\ flags' = Applied(Head(ops[p]), reg[p])
    /\ ops' = [ops EXCEPT ![p] = Tail(@)]
    /\ reg' = [reg EXCEPT ![p] = NULL]
    /\ UNCHANGED <<threadVars, window, prog, nandVars>>

(* p is at the step <<fn, f>>; it goes on with bits and then steps. *)
At(p, fn, f) == Runs(p) /\ ops[p] = << >> /\ prog[p] # << >> /\ Head(prog[p]) = <<fn, f>>

Then(p, bits, steps) ==
    /\ ops' = [ops EXCEPT ![p] = bits]
    /\ prog' = [prog EXCEPT ![p] = steps \o Tail(@)]
    /\ UNCHANGED <<threadVars, flags, window, reg>>

Error == <<Set("NandError")>>
NoError == "NandError" \notin flags
MaySave == NoError /\ "DisableSave" \notin flags

(* The NAND answers, or fails because it is busy or for another reason. *)
Fails(p) ==
    /\ code' \in {"BUSY", "other"}
    /\ Then(p, Error, << >>)
    /\ UNCHANGED file

Answers(p, bits, steps) == code' = "other" /\ Then(p, bits, steps)

(***************************************************************************)
(* existSaveFile and existBannerFile, each of which looks for the other    *)
(* one's file.                                                             *)
(***************************************************************************)
ExistFile(p, f) ==
    /\ At(p, "exist", f)
    /\ IF NoError THEN Then(p, <<Reset(Exists(f))>>, << <<"getType", f>> >>)
                  ELSE Then(p, << >>, << >>)
    /\ UNCHANGED nandVars

GetType(p, f) ==
    /\ At(p, "getType", f)
    /\ \/ /\ IF file[f] # "none" THEN Answers(p, <<Set(Exists(f))>>, << >>)
                                 ELSE Answers(p, << >>, << >>)
          /\ UNCHANGED file
       \/ Fails(p)

(* existNandMemorySync: NANDCheck, and whether its answer is 0. *)
ExistNandMemory(p) ==
    /\ At(p, "existNandMemory", NULL)
    /\ IF NoError THEN Then(p, <<Reset("NandMemoryExist")>>, << <<"check", NULL>> >>)
                  ELSE Then(p, << >>, << >>)
    /\ UNCHANGED nandVars

Check(p) ==
    /\ At(p, "check", NULL)
    /\ \/ /\ \E bits \in {<<Set("NandMemoryExist")>>, << >>} : Answers(p, bits, << >>)
          /\ UNCHANGED file
       \/ Fails(p)

(***************************************************************************)
(* createPackFileSync up to its saveSync, and createBannerFile: in /tmp    *)
(* first, then moved to the home directory.                                *)
(***************************************************************************)
CreateFile(p, f) ==
    /\ At(p, "createFile", f)
    /\ IF NoError THEN Then(p, <<Reset(Exists(f))>>, << <<"create", f>> >>)
                  ELSE Then(p, << >>, << >>)
    /\ UNCHANGED nandVars

CreateAnswers(p, f, bits, steps) ==
    IF file[f] = "none"
    THEN /\ Answers(p, bits, steps)
         /\ file' = [file EXCEPT ![f] = "empty"]
    ELSE /\ Answers(p, bits, steps)
         /\ UNCHANGED file

Create(p, f) ==
    /\ At(p, "create", f)
    /\ \/ IF f = "temp" THEN CreateAnswers(p, f, << >>, << <<"save", "temp">>, <<"home", NULL>> >>)
                        ELSE CreateAnswers(p, f, <<Set("SaveFileExist")>>, << >>)
       \/ Fails(p)

HomeMutant(p) ==    \* the error of saveBannerFile is not looked at
    /\ At(p, "home", NULL)
    /\ Then(p, << >>, << <<"getHomeDir", NULL>> >>)
    /\ UNCHANGED nandVars

Home(p) ==
    /\ At(p, "home", NULL)
    /\ Then(p, << >>, IF NoError THEN << <<"getHomeDir", NULL>> >> ELSE << >>)
    /\ UNCHANGED nandVars

GetHomeDir(p) ==
    /\ At(p, "getHomeDir", NULL)
    /\ \/ Answers(p, << >>, << <<"move", NULL>> >>) /\ UNCHANGED file
       \/ Fails(p)

(* A banner that is there already is replaced, or the NAND says EXISTS. *)
Move(p) ==
    /\ At(p, "move", NULL)
    /\ \/ /\ Answers(p, <<Set("BannerFileExist")>>, << >>)
          /\ file' = [file EXCEPT !["banner"] = file["temp"], !["temp"] = "none"]
       \/ /\ file["banner"] # "none"
          /\ Answers(p, <<Set("BannerFileExist")>>, << >>)
          /\ UNCHANGED file
       \/ Fails(p)

(* deleteSaveFile and deleteBannerFile, which no error stops. *)
DeleteMutant(p, f) ==    \* the bit stays raised
    /\ At(p, "delete", f)
    /\ \/ /\ Answers(p, << >>, << >>)
          /\ file' = [file EXCEPT ![f] = "none"]
       \/ Fails(p)

Delete(p, f) ==
    /\ At(p, "delete", f)
    /\ \/ /\ Answers(p, <<Reset(Exists(f))>>, << >>)
          /\ file' = [file EXCEPT ![f] = "none"]
       \/ Fails(p)

(***************************************************************************)
(* saveSync and saveBannerFile.  A short write leaves a torn file, which   *)
(* is closed without looking at the answer.                                *)
(***************************************************************************)
SaveFile(p, f) ==
    /\ At(p, "save", f)
    /\ Then(p, << >>, IF MaySave THEN << <<"open", f>> >> ELSE << >>)
    /\ UNCHANGED nandVars

Open(p, f) ==
    /\ At(p, "open", f)
    /\ \/ /\ IF file[f] = "none" THEN Answers(p, Error, << >>)
                                 ELSE Answers(p, << >>, << <<"write", f>> >>)
          /\ UNCHANGED file
       \/ Fails(p)

WriteMutant(p, f) ==    \* the number of bytes written is not compared
    /\ At(p, "write", f)
    /\ \E content \in {"whole", "torn"} :
          /\ Answers(p, << >>, << <<"close", f>> >>)
          /\ file' = [file EXCEPT ![f] = content]

Write(p, f) ==
    /\ At(p, "write", f)
    /\ \/ /\ Answers(p, << >>, << <<"close", f>> >>)
          /\ file' = [file EXCEPT ![f] = "whole"]
       \/ /\ code' \in {"BUSY", "other"} /\ Then(p, << >>, << <<"abandon", f>> >>)
          /\ file' \in {file, [file EXCEPT ![f] = "torn"]}

Close(p, f) ==
    /\ At(p, "close", f)
    /\ \/ Answers(p, << >>, << >>) /\ UNCHANGED file
       \/ Fails(p)

Abandon(p, f) ==
    /\ At(p, "abandon", f)
    /\ Then(p, Error, << >>)
    /\ UNCHANGED nandVars

(***************************************************************************)
(* loadSync.  The data is read from the buffer even if closing fails; the  *)
(* signature and checksum tell a torn file.                                *)
(***************************************************************************)
LoadFile(p) ==
    /\ At(p, "load", "save")
    /\ Then(p, << >>, IF NoError THEN << <<"openToLoad", "save">> >> ELSE << >>)
    /\ UNCHANGED nandVars

OpenToLoad(p) ==
    /\ At(p, "openToLoad", "save")
    /\ \/ /\ IF file["save"] = "none" THEN Answers(p, Error, << >>)
             ELSE Answers(p, << >>, << <<"read", "save">> >>)
          /\ UNCHANGED file
       \/ Fails(p)

Read(p) ==
    /\ At(p, "read", "save")
    /\ \/ /\ file["save"] # "empty"
          /\ Answers(p, << >>, << <<"closeLoaded", "save">> >>)
       \/ code' \in {"BUSY", "other"} /\ Then(p, << >>, << <<"abandon", "save">> >>)
    /\ UNCHANGED file

CloseLoaded(p) ==
    /\ At(p, "closeLoaded", "save")
    /\ \/ code' = "other" /\ Then(p, << >>, << >>)
       \/ code' \in {"BUSY", "other"} /\ Then(p, Error, << >>)
    /\ file' = [file EXCEPT !["save"] = IF @ = "old" THEN "whole" ELSE @]

FileStep(p) ==
    \/ Load(p)
    \/ Store(p)
    \/ \E f \in {"save", "banner"} : ExistFile(p, f) \/ GetType(p, f) \/ Delete(p, f)
    \/ ExistNandMemory(p) \/ Check(p)
    \/ \E f \in {"save", "temp"} : CreateFile(p, f) \/ Create(p, f)
    \/ Home(p) \/ GetHomeDir(p) \/ Move(p)
    \/ \E f \in File : SaveFile(p, f) \/ Open(p, f) \/ Write(p, f) \/ Close(p, f) \/ Abandon(p, f)
    \/ LoadFile(p) \/ OpenToLoad(p) \/ Read(p) \/ CloseLoaded(p)

(***************************************************************************)
(* The NAND thread: the steps of EGG::TaskThread around those of its task. *)
(***************************************************************************)
TaskSteps ==
    [existPackFile   |-> << <<"exist", "banner">>, <<"exist", "save">> >>,
     existNandMemory |-> << <<"existNandMemory", NULL>> >>,
     createPackFile  |-> << <<"createFile", "save">>, <<"save", "save">>, <<"createFile", "temp">> >>,
     loadData        |-> << <<"load", "save">> >>,
     saveData        |-> << <<"save", "save">>, <<"save", "banner">> >>]

NandRuns == ThreadFirst \/ GameIdle \/ Blocked("game")

BeginTask ==
    /\ TT!TestTask
    /\ prog' = IF TT!Blank(currentJob) THEN prog
               ELSE [prog EXCEPT !["nand"] = TaskSteps[pTask[currentJob]]]

EndTask == TT!TaskReturns /\ prog["nand"] = << >> /\ ops["nand"] = << >> /\ UNCHANGED prog

NandThread ==
    \/ FileStep("nand")
    \/ /\ NandRuns
       /\ \/ BeginTask
          \/ EndTask
          \/ /\ TT!WaitMessageBlock \/ TT!SendEndMessage \/ TT!ClearTask \/ TT!ClearFunctions
             /\ UNCHANGED prog
       /\ UNCHANGED <<flags, window, ops, reg, nandVars>>

(***************************************************************************)
(* The game thread: the public functions.                                  *)
(***************************************************************************)
isAsyncFinish == {"NandAccess", "AsyncSave"} \cap flags = {}
isErrorOccured == "DisableSave" \notin flags /\ "NandError" \in flags

MayCall == Runs("game") /\ GameIdle /\ isAsyncFinish

GameDoes(bits, steps) ==
    /\ ops' = [ops EXCEPT !["game"] = bits]
    /\ prog' = [prog EXCEPT !["game"] = steps]
    /\ UNCHANGED <<threadVars, flags, reg, nandVars>>

(* The Async functions, of a scene that isNandAccessEnable.  saveAsync     *)
(* raises its own bit after the request.                                   *)
Async(t) ==
    /\ MayCall
    /\ GameDoes(<<Set("NandAccess"), Reset("NandError")>>,
                IF t = "saveData" THEN << <<"request", t>>, <<"requested", NULL>> >>
                                  ELSE << <<"request", t>> >>)
    /\ UNCHANGED window

Requested ==
    /\ At("game", "requested", NULL)
    /\ Then("game", <<Set("AsyncSave"), Reset("ErrorWindow")>>, << >>)
    /\ UNCHANGED nandVars

(* request(), whose result nobody looks at. *)
Request(t) ==
    /\ At("game", "request", t)
    /\ \/ (TT!FindBlank(t) \/ TT!FillJob) /\ UNCHANGED prog
       \/ TT!SendJob /\ prog' = [prog EXCEPT !["game"] = Tail(@)]
       \/ /\ request = TT!NoRequest /\ \A s \in TT!Slot : ~TT!Blank(s)
          /\ prog' = [prog EXCEPT !["game"] = Tail(@)]
          /\ UNCHANGED threadVars
    /\ UNCHANGED <<flags, window, ops, reg, nandVars>>

Sync ==
    /\ MayCall
    /\ \/ GameDoes(<<Reset("NandError")>>, TaskSteps["existPackFile"])
       \/ GameDoes(<<Reset("NandError")>>, << <<"delete", "banner">>, <<"delete", "save">> >>)
       \/ GameDoes(<<Reset("NandError")>>, TaskSteps["saveData"])
       \/ GameDoes(<< >>, << <<"createFile", "save">>, <<"save", "save">> >>)
    /\ UNCHANGED window

(* The setters of player and system data: the file lags behind. *)
setPlayerData ==
    /\ MayCall
    /\ file["save"] = "whole"
    /\ file' = [file EXCEPT !["save"] = "old"]
    /\ UNCHANGED <<threadVars, flags, code, window, machineVars>>

setSaveDisable ==
    /\ MayCall
    /\ \E bit \in {Set("DisableSave"), Reset("DisableSave")} : GameDoes(<<bit>>, << >>)
    /\ UNCHANGED window

finishNandAccessMutant ==    \* the wrong bit
    /\ Runs("game") /\ GameIdle
    /\ TT!TakeEndMessage
    /\ ops' = [ops EXCEPT !["game"] = <<Reset("NandError")>>]
    /\ UNCHANGED <<flags, window, prog, reg, nandVars>>

finishNandAccess ==
    /\ Runs("game") /\ GameIdle
    /\ TT!TakeEndMessage
    /\ ops' = [ops EXCEPT !["game"] = <<Reset("NandAccess")>>]
    /\ UNCHANGED <<flags, window, prog, reg, nandVars>>

(***************************************************************************)
(* update(), every frame while a save is on, with checkContinueReject.     *)
(***************************************************************************)
OverMutant == <<Reset("ErrorWindow")>>    \* the save stays on

Over == <<Reset("AsyncSave"), Reset("ErrorWindow")>>

Ask(question) ==
    /\ "ErrorWindow" \notin flags
    /\ window' = question
    /\ GameDoes(<<Set("ErrorWindow")>>, << >>)

Answered(answer, bits) ==
    /\ "ErrorWindow" \in flags
    /\ window = answer
    /\ window' = "closed"
    /\ GameDoes(bits, << >>)

update(display) ==
    /\ Runs("game") /\ GameIdle
    /\ "AsyncSave" \in flags /\ "NandAccess" \notin flags
    /\ \/ /\ isErrorOccured /\ code = "BUSY"
          /\ Ask("continue") \/ Answered("CONTINUE", Over)
       \/ /\ isErrorOccured /\ code # "BUSY" /\ display
          /\ \/ Ask("reject")
             \/ Answered("YES", <<Set("DisableSave")>> \o Over)
             \/ Answered("NO", Over)
       \/ ~isErrorOccured /\ GameDoes(Over, << >>) /\ UNCHANGED window

GameThread ==
    \/ FileStep("game")
    \/ \E t \in Task : Request(t)
    \/ Requested

PlayerAnswers ==
    /\ \/ window = "continue" /\ window' = "CONTINUE"
       \/ window = "reject" /\ window' \in {"YES", "NO"}
    /\ UNCHANGED <<threadVars, flags, machineVars, nandVars>>

(* The power goes, at any moment; a file being written may be torn, what   *)
(* is in /tmp may or may not last, and the data in memory is gone.         *)
PowerCycle ==
    /\ pTask' = [s \in TT!Slot |-> NULL] /\ mesgQueue' = << >> /\ endQueue' = << >>
    /\ pc' = "wait" /\ currentJob' = NULL /\ request' = TT!NoRequest
    /\ flags' = {} /\ code' = "other" /\ window' = "closed"
    /\ prog' = [p \in Actor |-> << >>]
    /\ ops' = [p \in Actor |-> << >>]
    /\ reg' = [p \in Actor |-> NULL]
    /\ LET writing == {f \in File : \E p \in Actor : Blocked(p) /\ Head(prog[p]) = <<"write", f>>}
       IN \E torn \in SUBSET writing, temp \in {"none", file["temp"]} :
             file' = [f \in File |-> IF f \in torn THEN "torn"
                                     ELSE IF f = "temp" THEN temp
                                     ELSE IF f = "save" /\ file[f] = "whole" THEN "old" ELSE file[f]]

Next ==
    \/ NandThread
    \/ GameThread
    \/ \E t \in Task : Async(t)
    \/ Sync
    \/ setPlayerData
    \/ setSaveDisable
    \/ finishNandAccess
    \/ \E display \in BOOLEAN : update(display)
    \/ PlayerAnswers
    \/ PowerCycle

Spec == Init /\ [][Next]_vars

(***************************************************************************)
(* The NAND answers and its thread runs.  The game thread gets to run      *)
(* again and again: it ends what it has begun, and each frame it looks for *)
(* the end message and updates the manager, in the end with the scene      *)
(* displayed.  The player answers.                                         *)
(***************************************************************************)
FairSpec ==
    /\ Spec
    /\ WF_vars(NandThread)
    /\ SF_vars(GameThread \/ finishNandAccess \/ update(TRUE))
    /\ WF_vars(PlayerAnswers)

-----------------------------------------------------------------------------

TypeOK ==
    /\ TT!JobTypeOK
    /\ flags \subseteq Flag
    /\ code \in {"BUSY", "other"}
    /\ window \in {"closed", "continue", "reject", "CONTINUE", "YES", "NO"}
    /\ \A p \in Actor : reg[p] # NULL => reg[p] \subseteq Flag /\ ops[p] # << >>
    /\ file \in [File -> {"none", "empty", "torn", "old", "whole"}]
    /\ pc # "running" => prog["nand"] = << >> /\ ops["nand"] = << >>

(* Neither thread is in the middle of anything. *)
Quiet == GameIdle /\ TT!ThreadBlocked

(***************************************************************************)
(* An error once raised is reported until the next operation begins by     *)
(* resetting it: no interleaving of the two threads' loads and stores      *)
(* drops the bit.                                                          *)
(***************************************************************************)
OperationBegins ==
    reg["game"] # NULL /\ Head(ops["game"]) = Reset("NandError") /\ prog["game"] # << >>

ErrorKept ==
    [][ "NandError" \in flags /\ "NandError" \notin flags' => OperationBegins \/ PowerCycle ]_vars

(* When update is about to declare a save over without an error, the NAND  *)
(* holds the data the game has set, and a whole banner.                    *)
SaveReported ==
    GameIdle /\ "AsyncSave" \in flags /\ {"NandAccess", "NandError", "DisableSave"} \cap flags = {}
    => file["save"] = "whole" /\ file["banner"] = "whole"

(* A file the bits say exists does exist, across failures and power cuts.  *)
ExistTruthful == Quiet => \A f \in {"save", "banner"} : Exists(f) \in flags => file[f] # "none"

(***************************************************************************)
(* Only a whole banner is moved from /tmp to the home directory, whatever  *)
(* fails and whenever the power goes.                                      *)
(***************************************************************************)
BannerMovedWhole ==
    [][\A p \in Actor : Move(p) /\ file' # file => file'["banner"] = "whole"]_vars

(* As BannerMovedWhole, while saving is not disabled. *)
EnabledBannerMovedWhole ==
    [][\A p \in Actor : Move(p) /\ file' # file /\ "DisableSave" \notin flags
                        => file'["banner"] = "whole"]_vars

(* Every access to the NAND comes to its end, and so does every save. *)
OperationsEnd ==
    /\ "NandAccess" \in flags ~> "NandAccess" \notin flags
    /\ "AsyncSave" \in flags ~> "AsyncSave" \notin flags

(***************************************************************************)
(* NandAccess is raised only while an operation is happening on the other  *)
(* thread, or is about to, or its end message has not been taken.          *)
(***************************************************************************)
NandAccessHappening ==
    "NandAccess" \in flags /\ Quiet => endQueue # << >>
=============================================================================
