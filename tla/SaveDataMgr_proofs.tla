------------------------- MODULE SaveDataMgr_proofs -------------------------
(***************************************************************************)
(* Theorems about SaveDataMgr, for any of the tasks, any capacities of the *)
(* thread's queues, and whichever thread has the better priority.  What    *)
(* the flags alone decide, whether files exist and banners are whole, does *)
(* not depend on that; what the two threads tell each other does.          *)
(***************************************************************************)
EXTENDS SaveDataMgr, SequenceTheorems, TLAPS

-----------------------------------------------------------------------------
(* Sequences. *)
LEMMA PushStep ==
    ASSUME NEW S, NEW s \in Seq(S), NEW e \in S
    PROVE  /\ <<e>> \o s \in Seq(S) /\ <<e>> \o s # << >>
           /\ Head(<<e>> \o s) = e /\ Tail(<<e>> \o s) = s
  OBVIOUS

LEMMA PushNone ==
    ASSUME NEW S, NEW s \in Seq(S)
    PROVE  << >> \o s = s
  OBVIOUS

LEMMA OneStep ==
    ASSUME NEW e
    PROVE  <<e>> # << >> /\ Head(<<e>>) = e /\ Tail(<<e>>) = << >>
  OBVIOUS

LEMMA TwoSteps ==
    ASSUME NEW e, NEW f
    PROVE  <<e, f>> # << >> /\ Head(<<e, f>>) = e /\ Tail(<<e, f>>) = <<f>>
  OBVIOUS

LEMMA TailType ==
    ASSUME NEW S, NEW s \in Seq(S), s # << >>
    PROVE  Head(s) \in S /\ Tail(s) \in Seq(S)
  OBVIOUS

-----------------------------------------------------------------------------
(***************************************************************************)
(* The programs.  A step that calls the NAND takes the place of the one    *)
(* that decided to, so what is behind the first step changes seldom.       *)
(***************************************************************************)
SavingSteps(f) == {"save", "open", "write", "close", "abandon"} \X {f}
HomeSteps == {"home", "getHomeDir", "move"} \X {NULL}
TempSteps == SavingSteps("temp") \cup HomeSteps

Ahead(h, t) ==
    \/ h \in {"exist", "getType"} \X {"banner"} /\ t = << <<"exist", "save">> >>
    \/ h \in {"exist", "getType"} \X {"save"} /\ t = << >>
    \/ h \in {"existNandMemory", "check"} \X {NULL} /\ t = << >>
    \/ h \in {"createFile", "create"} \X {"save"}
       /\ t \in {<< <<"save", "save">> >>, << <<"save", "save">>, <<"createFile", "temp">> >>}
    \/ h \in {"createFile", "create"} \X {"temp"} /\ t = << >>
    \/ h \in SavingSteps("save")
       /\ t \in {<< >>, << <<"createFile", "temp">> >>, << <<"save", "banner">> >>}
    \/ h \in SavingSteps("banner") /\ t = << >>
    \/ h \in SavingSteps("temp") /\ t = << <<"home", NULL>> >>
    \/ h \in HomeSteps /\ t = << >>
    \/ h \in {"load", "openToLoad", "read", "closeLoaded"} \X {"save"} /\ t = << >>
    \/ h = <<"delete", "banner">> /\ t = << <<"delete", "save">> >>
    \/ h = <<"delete", "save">> /\ t = << >>

Step == {"exist", "getType", "existNandMemory", "check", "createFile", "create", "save", "open",
         "write", "close", "abandon", "home", "getHomeDir", "move", "load", "openToLoad", "read",
         "closeLoaded", "delete", "request", "requested"} \X (File \cup Task \cup {NULL})
FileProgram(s) == s # << >> /\ Ahead(Head(s), Tail(s))
SavingProgram(s) ==
    \/ s = << >>
    \/ /\ s # << >>
       /\ \/ Head(s) \in SavingSteps("save") /\ Tail(s) = << <<"save", "banner">> >>
          \/ Head(s) \in SavingSteps("banner") /\ Tail(s) = << >>
RequestProgram(s, t) ==
    /\ s # << >> /\ Head(s) = <<"request", t>>
    /\ Tail(s) = IF t = "saveData" THEN << <<"requested", NULL>> >> ELSE << >>

FileOps == {<<Set("NandError")>>, <<Set("NandMemoryExist")>>, <<Reset("NandMemoryExist")>>}
           \cup {<<Set(Exists(f))>> : f \in {"save", "banner"}}
           \cup {<<Reset(Exists(f))>> : f \in {"save", "banner"}}
OwnOps == {<<Set("ErrorWindow")>>, <<Set("DisableSave")>>, <<Reset("DisableSave")>>,
           <<Reset("ErrorWindow")>>, Over, <<Set("DisableSave")>> \o Over}
SaveOnOps == {<<Set("AsyncSave"), Reset("ErrorWindow")>>, <<Reset("ErrorWindow")>>}

(***************************************************************************)
(* The NAND thread: what it has of the one task that was requested.        *)
(***************************************************************************)
Off == pc \in {"wait", "ended", "cleared"}
HasNone == mesgQueue = << >> /\ endQueue = << >> /\ Off
Rests == HasNone /\ request = TT!NoRequest

OneTask ==
    /\ mesgQueue # << >> => Tail(mesgQueue) = << >> /\ endQueue = << >> /\ Off /\ request = TT!NoRequest
    /\ endQueue # << >> => Tail(endQueue) = << >> /\ Off /\ request = TT!NoRequest
    /\ ~Off => request = TT!NoRequest
    /\ pc \in {"running", "returned"} => ~TT!Blank(currentJob)
    /\ prog["nand"] = << >> \/ FileProgram(prog["nand"])
    /\ ops["nand"] \in FileOps \cup {<< >>}
    /\ pc # "running" => prog["nand"] = << >> /\ ops["nand"] = << >>

(* Whatever is left of the task is to save the data. *)
SaveTask(s) == pTask[s] \in {"saveData", NULL}
SaveInHand ==
    /\ request = TT!NoRequest
    /\ mesgQueue # << >> => SaveTask(Head(mesgQueue))
    /\ ~Off => SaveTask(currentJob)
    /\ SavingProgram(prog["nand"])
    /\ ops["nand"] \in {<< >>, Error}

(***************************************************************************)
(* The game thread: what it is in the middle of.                           *)
(***************************************************************************)
GameBegins ==
    /\ "AsyncSave" \notin flags
    /\ \E t \in Task :
          /\ RequestProgram(prog["game"], t)
          /\ \/ ops["game"] = <<Set("NandAccess"), Reset("NandError")>> /\ "NandAccess" \notin flags
             \/ ops["game"] = <<Reset("NandError")>> /\ "NandAccess" \in flags /\ Rests
             \/ /\ ops["game"] = << >> /\ "NandAccess" \in flags /\ HasNone
                /\ request # TT!NoRequest => request.task = t

GameSaves ==
    /\ \/ prog["game"] = << <<"requested", NULL>> >> /\ ops["game"] = << >>
       \/ prog["game"] = << >> /\ ops["game"] \in SaveOnOps
    /\ "NandAccess" \in flags
    /\ SaveInHand
    /\ ~ThreadFirst => Off /\ endQueue = << >>

GameFinishes ==
    prog["game"] = << >> /\ ops["game"] = <<Reset("NandAccess")>> /\ "NandAccess" \in flags /\ Rests

GameOwnFlags ==
    /\ prog["game"] = << >> /\ ops["game"] \in OwnOps
    /\ "NandAccess" \notin flags
    /\ ops["game"] = <<Reset("DisableSave")>> => "AsyncSave" \notin flags

GameFiles ==
    /\ \/ FileProgram(prog["game"]) /\ ops["game"] \in FileOps \cup {<< >>, <<Reset("NandError")>>}
       \/ prog["game"] = << >> /\ ops["game"] \in FileOps
    /\ ops["game"] = <<Reset("NandError")>> => Head(prog["game"]) \notin TempSteps
    /\ {"NandAccess", "AsyncSave"} \cap flags = {}

GameInv ==
    /\ GameIdle \/ GameBegins \/ GameSaves \/ GameFinishes \/ GameOwnFlags \/ GameFiles
    /\ request # TT!NoRequest => GameBegins /\ ops["game"] = << >>
    /\ "NandAccess" \notin flags => Rests
    /\ "AsyncSave" \in flags => SaveInHand

(***************************************************************************)
(* The words loaded: only the game's can be old, and only in one bit.      *)
(***************************************************************************)
WordInv ==
    /\ \A p \in Actor : reg[p] # NULL => ops[p] # << >>
    /\ reg["nand"] # NULL => reg["nand"] = flags
    /\ reg["game"] # NULL =>
          \/ reg["game"] = flags
          \/ ThreadFirst /\ GameSaves /\ reg["game"] \cup {"NandError"} = flags \cup {"NandError"}

(***************************************************************************)
(* The files.                                                              *)
(***************************************************************************)
ExistInv ==
    \A f \in {"save", "banner"} :
       /\ Exists(f) \in flags => file[f] # "none" \/ \E p \in Actor : ops[p] = <<Reset(Exists(f))>>
       /\ \A p \in Actor : ops[p] = <<Set(Exists(f))>> => file[f] # "none"

(* An error is raised, or about to be. *)
Erring(p) == "NandError" \in flags \/ ops[p] = Error

(* What is in /tmp is whole when it is moved, but if saving is disabled. *)
TempAt(h, content, err) ==
    h \in TempSteps =>
       /\ content # "none"
       /\ h = <<"close", "temp">> => content = "whole"
       /\ h = <<"home", NULL>> => err \/ "DisableSave" \in flags \/ content = "whole"
       /\ h \in {<<"getHomeDir", NULL>>, <<"move", NULL>>}
             => "DisableSave" \in flags \/ content = "whole"

TempSafe(p) == prog[p] # << >> => TempAt(Head(prog[p]), file["temp"], Erring(p))

TempInv == \A p \in Actor : TempSafe(p)

Excused(p) == Erring(p) \/ "DisableSave" \in flags

(* What the saving of the data has written is whole. *)
SaveSafe(p) ==
    LET s == prog[p]
    IN /\ s # << >> /\ Head(s) = <<"close", "save">> => file["save"] = "whole"
       /\ s # << >> /\ Head(s) = <<"close", "banner">> => file["banner"] = "whole"
       /\ s = << >> \/ Head(s) \in SavingSteps("banner") => Excused(p) \/ file["save"] = "whole"
       /\ s = << >> => Excused(p) \/ file["banner"] = "whole"

SaveInv ==
    ~ThreadFirst /\ "AsyncSave" \in flags =>
       /\ pc = "running" => SaveSafe("nand")
       /\ \/ pc = "returned" \/ endQueue # << >> \/ "NandAccess" \notin flags
          \/ ops["game"] = <<Reset("NandAccess")>>
          => \/ {"NandError", "DisableSave"} \cap flags # {}
             \/ file["save"] = "whole" /\ file["banner"] = "whole"

(***************************************************************************)
(* Types.                                                                  *)
(***************************************************************************)
BitOp == {"set", "reset"} \X Flag
Content == {"none", "empty", "torn", "old", "whole"}

MachineOK ==
    /\ prog \in [Actor -> Seq(Step)]
    /\ ops \in [Actor -> Seq(BitOp)]
    /\ reg \in [Actor -> (SUBSET Flag) \cup {NULL}]
    /\ flags \subseteq Flag
    /\ file \in [File -> Content]
    /\ code \in {"BUSY", "other"}

ThreadOK ==
    /\ TT!JobTypeOK
    /\ request.at = "filled" => pTask[request.slot] \in {request.task, NULL}
    /\ window \in {"closed", "continue", "reject", "CONTINUE", "YES", "NO"}

SaveDataInv ==
    /\ MachineOK /\ ThreadOK
    /\ OneTask /\ GameInv /\ WordInv
    /\ ExistInv /\ TempInv /\ SaveInv

-----------------------------------------------------------------------------
(* Programs. *)
LEMMA TailProgram ==
    ASSUME NEW s \in Seq(Step), FileProgram(s)
    PROVE  /\ Tail(s) = << >> \/ FileProgram(Tail(s))
           /\ Tail(s) # << >> /\ Head(Tail(s)) \in TempSteps
                 => Head(s) \in SavingSteps("temp") /\ Head(Tail(s)) = <<"home", NULL>>
  <1>1. \/ Tail(s) = << >>
        \/ Tail(s) = << <<"exist", "save">> >>
        \/ Tail(s) \in {<< <<"save", "save">> >>, << <<"save", "save">>, <<"createFile", "temp">> >>}
        \/ Tail(s) = << <<"createFile", "temp">> >>
        \/ Tail(s) = << <<"save", "banner">> >>
        \/ Head(s) \in SavingSteps("temp") /\ Tail(s) = << <<"home", NULL>> >>
        \/ Tail(s) = << <<"delete", "save">> >>
    BY DEF FileProgram, Ahead
  <1>2. Ahead(<<"exist", "save">>, << >>) /\ Ahead(<<"save", "save">>, << >>)
        /\ Ahead(<<"createFile", "temp">>, << >>) /\ Ahead(<<"save", "banner">>, << >>)
        /\ Ahead(<<"home", NULL>>, << >>) /\ Ahead(<<"delete", "save">>, << >>)
        /\ Ahead(<<"save", "save">>, << <<"createFile", "temp">> >>)
    BY DEF Ahead, SavingSteps, HomeSteps
  <1>3. \A t \in {<<"exist", "save">>, <<"save", "save">>, <<"createFile", "temp">>,
                  <<"save", "banner">>, <<"delete", "save">>} : t \notin TempSteps
    BY DEF TempSteps, SavingSteps, HomeSteps
  <1>5. CASE Tail(s) = << <<"save", "save">>, <<"createFile", "temp">> >>
    <2>1. Tail(s) # << >> /\ Head(Tail(s)) = <<"save", "save">>
          /\ Tail(Tail(s)) = << <<"createFile", "temp">> >>
      BY <1>5, TwoSteps
    <2>2. FileProgram(Tail(s))
      BY <2>1, <1>2 DEF FileProgram
    <2>3. QED BY <2>1, <2>2, <1>3
  <1>6. CASE Tail(s) = << <<"save", "save">> >>
    BY <1>2, <1>3, <1>6, OneStep DEF FileProgram
  <1>7. CASE Tail(s) = << <<"exist", "save">> >>
    BY <1>2, <1>3, <1>7, OneStep DEF FileProgram
  <1>8. CASE Tail(s) = << <<"createFile", "temp">> >>
    BY <1>2, <1>3, <1>8, OneStep DEF FileProgram
  <1>9. CASE Tail(s) = << <<"save", "banner">> >>
    BY <1>2, <1>3, <1>9, OneStep DEF FileProgram
  <1>10. CASE Tail(s) = << <<"delete", "save">> >>
    BY <1>2, <1>3, <1>10, OneStep DEF FileProgram
  <1>11. CASE Head(s) \in SavingSteps("temp") /\ Tail(s) = << <<"home", NULL>> >>
    BY <1>2, <1>11, OneStep DEF FileProgram
  <1>12. QED BY <1>1, <1>5, <1>6, <1>7, <1>8, <1>9, <1>10, <1>11

LEMMA TailSaving ==
    ASSUME NEW s \in Seq(Step), s # << >>, SavingProgram(s)
    PROVE  /\ SavingProgram(Tail(s))
           /\ Tail(s) = << >> <=> Head(s) \in SavingSteps("banner")
           /\ Tail(s) # << >> => /\ Head(s) \in SavingSteps("save")
                                 /\ Head(Tail(s)) = <<"save", "banner">>
                                 /\ Tail(s) = << <<"save", "banner">> >>
  <1>1. <<"save", "banner">> \in SavingSteps("banner")
    BY DEF SavingSteps
  <1>2. \A h \in SavingSteps("save") : h \notin SavingSteps("banner")
    BY DEF SavingSteps
  <1>3. QED BY <1>1, <1>2, OneStep DEF SavingProgram

(* The step ahead is replaced by another. *)
LEMMA NextStep ==
    ASSUME NEW p \in Actor, MachineOK, NEW bits, NEW e \in Step, Then(p, bits, <<e>>), prog[p] # << >>
    PROVE  /\ ops'[p] = bits /\ prog'[p] \in Seq(Step)
           /\ prog'[p] # << >> /\ Head(prog'[p]) = e /\ Tail(prog'[p]) = Tail(prog[p])
  BY PushStep, TailType DEF Then, MachineOK

(* The step ahead is done. *)
LEMMA NoStep ==
    ASSUME NEW p \in Actor, MachineOK, NEW bits, Then(p, bits, << >>), prog[p] # << >>
    PROVE  ops'[p] = bits /\ prog'[p] = Tail(prog[p]) /\ prog'[p] \in Seq(Step)
  BY PushNone, TailType DEF Then, MachineOK

(***************************************************************************)
(* What a turn of a file program by p does, of whatever it changes.        *)
(***************************************************************************)
FileChange(p) ==
    /\ file' \in [File -> Content] /\ code' \in {"BUSY", "other"}
    /\ \A f \in {"save", "banner"} :
          /\ file[f] # "none" /\ file'[f] = "none" => ops'[p] = <<Reset(Exists(f))>>
          /\ ops'[p] = <<Set(Exists(f))>> => file'[f] # "none"

Turn(p) ==
    /\ ops[p] = << >> /\ FileProgram(prog[p])
    /\ ops' = [ops EXCEPT ![p] = ops'[p]] /\ ops'[p] \in FileOps \cup {<< >>}
    /\ prog' = [prog EXCEPT ![p] = prog'[p]] /\ prog'[p] \in Seq(Step)
    /\ prog'[p] = << >> \/ FileProgram(prog'[p])
    /\ SavingProgram(prog[p]) => SavingProgram(prog'[p]) /\ ops'[p] \in {<< >>, Error}
    /\ UNCHANGED <<threadVars, flags, window, reg>>
    /\ FileChange(p)
    /\ TempSafe(p) => TempSafe(p)'
    /\ SavingProgram(prog[p]) /\ SaveSafe(p) => SaveSafe(p)'

(* p fails, or is done without touching the files. *)
LEMMA FailsTurn ==
    ASSUME NEW p \in Actor, MachineOK, ops[p] = << >>, FileProgram(prog[p]), Fails(p)
    PROVE  Turn(p)
  <1>1. Then(p, Error, << >>) /\ UNCHANGED <<file, flags>> /\ code' \in {"BUSY", "other"}
    BY DEF Fails, Then
  <1>2. prog[p] # << >> /\ prog[p] \in Seq(Step)
    BY DEF FileProgram, MachineOK
  <1>3. ops'[p] = Error /\ prog'[p] = Tail(prog[p]) /\ prog'[p] \in Seq(Step)
    BY <1>1, <1>2, NoStep
  <1>4. Error \in FileOps
    BY DEF Error, FileOps
  <1>5. \A f \in {"save", "banner"} : Error # <<Set(Exists(f))>>
    BY DEF Error, Set, Exists
  <1>6. FileChange(p)
    BY <1>1, <1>3, <1>5 DEF FileChange, MachineOK
  <1>7. TempSafe(p) => TempSafe(p)'
    <2>1. Head(prog[p]) \in SavingSteps("temp") => Head(prog[p]) \in TempSteps
      BY DEF TempSteps
    <2>2. prog'[p] # << >> /\ Head(prog'[p]) \in TempSteps
             => Head(prog[p]) \in TempSteps /\ Head(prog'[p]) = <<"home", NULL>>
      BY <1>2, <1>3, <2>1, TailProgram
    <2>3. Erring(p)'
      BY <1>3 DEF Erring
    <2>4. <<"home", NULL>> \notin {<<"close", "temp">>, <<"getHomeDir", NULL>>, <<"move", NULL>>}
      OBVIOUS
    <2>5. QED BY <1>1, <1>2, <2>2, <2>3, <2>4 DEF TempSafe, TempAt
  <1>8. SavingProgram(prog[p]) => SavingProgram(prog'[p])
    BY <1>2, <1>3, TailSaving
  <1>9. SavingProgram(prog[p]) => SaveSafe(p)'
    <2>1. Excused(p)'
      BY <1>3 DEF Erring, Excused
    <2>2. SavingProgram(prog[p]) /\ prog'[p] # << >> => Head(prog'[p]) = <<"save", "banner">>
      BY <1>2, <1>3, TailSaving
    <2>3. QED BY <2>1, <2>2 DEF SaveSafe
  <1>10. QED BY <1>1, <1>2, <1>3, <1>4, <1>6, <1>7, <1>8, <1>9, TailProgram
             DEF Turn, Then

LEMMA StepTurn ==
    ASSUME NEW p \in Actor, MachineOK, ops[p] = << >>, FileProgram(prog[p]),
           NEW bits \in FileOps \cup {<< >>}, NEW e \in Step, Then(p, bits, <<e>>),
           FileChange(p), Ahead(e, Tail(prog[p])),
           TempAt(Head(prog[p]), file["temp"], Erring(p))
              => TempAt(e, file'["temp"], "NandError" \in flags \/ bits = Error),
           Head(prog[p]) \in SavingSteps("save")
              => e \in SavingSteps("save") /\ bits = << >>
                 /\ (e = <<"close", "save">> => file'["save"] = "whole"),
           Head(prog[p]) \in SavingSteps("banner")
              => e \in SavingSteps("banner") /\ bits = << >>
                 /\ (e = <<"close", "banner">> => file'["banner"] = "whole")
                 /\ ("NandError" \in flags \/ "DisableSave" \in flags \/ file["save"] = "whole"
                      => "NandError" \in flags \/ "DisableSave" \in flags \/ file'["save"] = "whole")
    PROVE  Turn(p)
  <1>1. prog[p] # << >> /\ prog[p] \in Seq(Step)
    BY DEF FileProgram, MachineOK
  <1>2. /\ ops'[p] = bits /\ prog'[p] \in Seq(Step)
        /\ prog'[p] # << >> /\ Head(prog'[p]) = e /\ Tail(prog'[p]) = Tail(prog[p])
    BY <1>1, NextStep
  <1>3. FileProgram(prog'[p])
    BY <1>2 DEF FileProgram
  <1>4. UNCHANGED flags
    BY DEF Then
  <1>5. TempSafe(p) => TempSafe(p)'
    BY <1>1, <1>2, <1>4 DEF TempSafe, TempAt, Erring
  <1>6. SavingProgram(prog[p]) => SavingProgram(prog'[p]) /\ ops'[p] \in {<< >>, Error}
    BY <1>1, <1>2 DEF SavingProgram
  <1>7. SavingProgram(prog[p]) /\ SaveSafe(p) => SaveSafe(p)'
    <2>1. \A h \in SavingSteps("save") : h \notin SavingSteps("banner") /\ h # <<"close", "banner">>
      BY DEF SavingSteps
    <2>2. \A h \in SavingSteps("banner") : h # <<"close", "save">>
      BY DEF SavingSteps
    <2>3. CASE Head(prog[p]) \in SavingSteps("save")
      BY <1>1, <1>2, <1>4, <2>1, <2>2, <2>3 DEF SavingProgram, SaveSafe
    <2>4. CASE Head(prog[p]) \in SavingSteps("banner")
      <3>1. ops[p] # Error
        BY DEF Error
      <3>2. QED BY <1>1, <1>2, <1>4, <2>2, <2>4, <3>1 DEF SavingProgram, SaveSafe, Excused, Erring
    <2>5. QED BY <1>1, <2>3, <2>4 DEF SavingProgram
  <1>8. QED BY <1>1, <1>2, <1>3, <1>5, <1>6, <1>7 DEF Turn, Then

LEMMA DoneTurn ==
    ASSUME NEW p \in Actor, MachineOK, ops[p] = << >>, FileProgram(prog[p]),
           NEW bits \in FileOps \cup {<< >>}, Then(p, bits, << >>), FileChange(p),
           Head(prog[p]) \in SavingSteps("save") \cup SavingSteps("banner") => bits \in {<< >>, Error},
           Head(prog[p]) \in SavingSteps("temp") /\ TempAt(Head(prog[p]), file["temp"], Erring(p))
              => TempAt(<<"home", NULL>>, file'["temp"], "NandError" \in flags \/ bits = Error),
           Head(prog[p]) \in SavingSteps("save") /\ SaveSafe(p)
              => {"NandError", "DisableSave"} \cap flags # {} \/ bits = Error \/ file'["save"] = "whole",
           Head(prog[p]) \in SavingSteps("banner") /\ SaveSafe(p)
              => \/ {"NandError", "DisableSave"} \cap flags # {} \/ bits = Error
                 \/ file'["save"] = "whole" /\ file'["banner"] = "whole"
    PROVE  Turn(p)
  <1>1. prog[p] # << >> /\ prog[p] \in Seq(Step)
    BY DEF FileProgram, MachineOK
  <1>2. ops'[p] = bits /\ prog'[p] = Tail(prog[p]) /\ prog'[p] \in Seq(Step)
    BY <1>1, NoStep
  <1>3. UNCHANGED flags
    BY DEF Then
  <1>4. TempSafe(p) => TempSafe(p)'
    <2>1. prog'[p] # << >> /\ Head(prog'[p]) \in TempSteps
             => Head(prog[p]) \in SavingSteps("temp") /\ Head(prog'[p]) = <<"home", NULL>>
      BY <1>1, <1>2, TailProgram
    <2>2. QED BY <1>1, <1>2, <1>3, <2>1 DEF TempSafe, TempAt, Erring
  <1>5. SavingProgram(prog[p]) => SavingProgram(prog'[p]) /\ ops'[p] \in {<< >>, Error}
    BY <1>1, <1>2, TailSaving DEF SavingProgram
  <1>6. SavingProgram(prog[p]) /\ SaveSafe(p) => SaveSafe(p)'
    <2> SUFFICES ASSUME SavingProgram(prog[p]), SaveSafe(p) PROVE SaveSafe(p)'
      OBVIOUS
    <2>1. Excused(p)' <=> {"NandError", "DisableSave"} \cap flags # {} \/ bits = Error
      BY <1>2, <1>3 DEF Excused, Erring
    <2>2. CASE Head(prog[p]) \in SavingSteps("banner")
      BY <1>1, <1>2, <2>1, <2>2, TailSaving DEF SaveSafe
    <2>3. CASE Head(prog[p]) \notin SavingSteps("banner")
      <3>1. /\ Head(prog[p]) \in SavingSteps("save") /\ prog'[p] # << >>
            /\ Head(prog'[p]) = <<"save", "banner">>
        BY <1>1, <1>2, <2>3, TailSaving
      <3>2. QED BY <2>1, <3>1 DEF SaveSafe
    <2>4. QED BY <2>2, <2>3
  <1>7. QED BY <1>1, <1>2, <1>4, <1>5, <1>6, TailProgram DEF Turn, Then

LEMMA AheadSwap ==
    ASSUME NEW t
    PROVE  /\ \A f \in {"save", "banner"} : Ahead(<<"exist", f>>, t) => Ahead(<<"getType", f>>, t)
           /\ Ahead(<<"existNandMemory", NULL>>, t) => Ahead(<<"check", NULL>>, t)
           /\ \A f \in {"save", "temp"} : Ahead(<<"createFile", f>>, t) => Ahead(<<"create", f>>, t)
           /\ \A f \in File : \A h, e \in SavingSteps(f) : Ahead(h, t) => Ahead(e, t)
           /\ Ahead(<<"home", NULL>>, t) => Ahead(<<"getHomeDir", NULL>>, t)
           /\ Ahead(<<"getHomeDir", NULL>>, t) => Ahead(<<"move", NULL>>, t)
           /\ Ahead(<<"load", "save">>, t) => Ahead(<<"openToLoad", "save">>, t)
           /\ Ahead(<<"openToLoad", "save">>, t) => Ahead(<<"read", "save">>, t)
           /\ Ahead(<<"read", "save">>, t)
                 => Ahead(<<"closeLoaded", "save">>, t) /\ Ahead(<<"abandon", "save">>, t)
  <1>1. \A f \in {"save", "banner"} : Ahead(<<"exist", f>>, t) => Ahead(<<"getType", f>>, t)
    BY DEF Ahead, SavingSteps, HomeSteps
  <1>2. Ahead(<<"existNandMemory", NULL>>, t) => Ahead(<<"check", NULL>>, t)
    BY DEF Ahead, SavingSteps, HomeSteps
  <1>3. \A f \in {"save", "temp"} : Ahead(<<"createFile", f>>, t) => Ahead(<<"create", f>>, t)
    BY DEF Ahead, SavingSteps, HomeSteps
  <1>4. \A h, e \in SavingSteps("save") : Ahead(h, t) => Ahead(e, t)
    BY DEF Ahead, SavingSteps, HomeSteps
  <1>5. \A h, e \in SavingSteps("banner") : Ahead(h, t) => Ahead(e, t)
    BY DEF Ahead, SavingSteps, HomeSteps
  <1>6. \A h, e \in SavingSteps("temp") : Ahead(h, t) => Ahead(e, t)
    BY DEF Ahead, SavingSteps, HomeSteps
  <1>7. /\ Ahead(<<"home", NULL>>, t) => Ahead(<<"getHomeDir", NULL>>, t)
        /\ Ahead(<<"getHomeDir", NULL>>, t) => Ahead(<<"move", NULL>>, t)
    BY DEF Ahead, SavingSteps, HomeSteps
  <1>8. /\ Ahead(<<"load", "save">>, t) => Ahead(<<"openToLoad", "save">>, t)
        /\ Ahead(<<"openToLoad", "save">>, t) => Ahead(<<"read", "save">>, t)
        /\ Ahead(<<"read", "save">>, t)
              => Ahead(<<"closeLoaded", "save">>, t) /\ Ahead(<<"abandon", "save">>, t)
    BY DEF Ahead, SavingSteps, HomeSteps
  <1>9. QED BY <1>1, <1>2, <1>3, <1>4, <1>5, <1>6, <1>7, <1>8 DEF File

(* No file is touched. *)
LEMMA SameFiles ==
    ASSUME NEW p \in Actor, MachineOK, UNCHANGED file, code' \in {"BUSY", "other"},
           \A f \in {"save", "banner"} : ops'[p] = <<Set(Exists(f))>> => file[f] # "none"
    PROVE  FileChange(p)
  BY DEF FileChange, MachineOK

LEMMA OpsApart ==
    /\ \A f \in {"save", "banner"} :
          /\ <<Reset(Exists(f))>> \in FileOps /\ <<Set(Exists(f))>> \in FileOps
          /\ \A g \in {"save", "banner"} : <<Reset(Exists(f))>> # <<Set(Exists(g))>>
          /\ <<Set(Exists(f))>> # Error /\ <<Reset(Exists(f))>> # Error
          /\ << >> # <<Set(Exists(f))>>
          /\ <<Set("NandMemoryExist")>> # <<Set(Exists(f))>>
          /\ <<Reset("NandMemoryExist")>> # <<Set(Exists(f))>>
    /\ {<<Set("NandMemoryExist")>>, <<Reset("NandMemoryExist")>>, Error} \subseteq FileOps
    /\ <<Set("SaveFileExist")>> = <<Set(Exists("save"))>>
    /\ <<Set("BannerFileExist")>> = <<Set(Exists("banner"))>>
    /\ <<Set(Exists("save"))>> # <<Set(Exists("banner"))>>
    /\ <<Reset(Exists("save"))>> # <<Reset(Exists("banner"))>>
  BY DEF FileOps, Set, Reset, Exists, Error

(* Which steps are in which sets. *)
LEMMA StepsApart ==
    /\ \A f \in File : \A fn \in {"save", "open", "write", "close", "abandon"} :
          <<fn, f>> \in SavingSteps(f) /\ <<fn, f>> \in Step
    /\ \A f, g \in File : f # g => \A h \in SavingSteps(g) : h \notin SavingSteps(f)
    /\ \A fn : fn \notin {"save", "open", "write", "close", "abandon"} =>
          \A g \in File : \A a \in File \cup {NULL} : <<fn, a>> \notin SavingSteps(g)
    /\ \A a \in File \cup {NULL} : \A fn \in {"exist", "getType", "existNandMemory", "check",
          "createFile", "create", "home", "getHomeDir", "move", "load", "openToLoad", "read",
          "closeLoaded", "delete"} : <<fn, a>> \in Step
    /\ \A fn : fn \notin {"save", "open", "write", "close", "abandon", "home", "getHomeDir", "move"} =>
          \A a \in File \cup {NULL} : <<fn, a>> \notin TempSteps
    /\ \A f \in {"save", "banner"} : \A h \in SavingSteps(f) : h \notin TempSteps
    /\ SavingSteps("temp") \subseteq TempSteps
    /\ \A fn \in {"home", "getHomeDir", "move"} : <<fn, NULL>> \in TempSteps
  <1>1. \A f \in File : \A fn \in {"save", "open", "write", "close", "abandon"} :
          <<fn, f>> \in SavingSteps(f) /\ <<fn, f>> \in Step
    BY DEF SavingSteps, Step
  <1>2. \A f, g \in File : f # g => \A h \in SavingSteps(g) : h \notin SavingSteps(f)
    BY DEF SavingSteps
  <1>3. \A fn : fn \notin {"save", "open", "write", "close", "abandon"} =>
          \A g \in File : \A a \in File \cup {NULL} : <<fn, a>> \notin SavingSteps(g)
    BY DEF SavingSteps
  <1>4. \A a \in File \cup {NULL} : \A fn \in {"exist", "getType", "existNandMemory", "check",
          "createFile", "create", "home", "getHomeDir", "move", "load", "openToLoad", "read",
          "closeLoaded", "delete"} : <<fn, a>> \in Step
    BY DEF Step
  <1>5. \A fn : fn \notin {"save", "open", "write", "close", "abandon", "home", "getHomeDir", "move"} =>
          \A a \in File \cup {NULL} : <<fn, a>> \notin TempSteps
    BY DEF TempSteps, SavingSteps, HomeSteps
  <1>6. \A f \in {"save", "banner"} : \A h \in SavingSteps(f) : h \notin TempSteps
    BY DEF TempSteps, SavingSteps, HomeSteps
  <1>7. SavingSteps("temp") \subseteq TempSteps
    BY DEF TempSteps
  <1>8. \A fn \in {"home", "getHomeDir", "move"} : <<fn, NULL>> \in TempSteps
    BY DEF TempSteps, HomeSteps
  <1>9. QED BY <1>1, <1>2, <1>3, <1>4, <1>5, <1>6, <1>7, <1>8

LEMMA ExistFileTurn ==
    ASSUME NEW p \in Actor, MachineOK, FileProgram(prog[p]), NEW f \in {"save", "banner"},
           ExistFile(p, f)
    PROVE  Turn(p)
  <1> DEFINE h == <<"exist", f>>
             e == <<"getType", f>>
  <1>1. ops[p] = << >> /\ Head(prog[p]) = h /\ UNCHANGED <<file, code>>
    BY DEF ExistFile, At, nandVars
  <1>2. /\ h \notin TempSteps /\ e \notin TempSteps /\ e \in Step
        /\ \A g \in File : h \notin SavingSteps(g)
    BY StepsApart DEF File
  <1>3. prog[p] # << >>
    BY DEF FileProgram
  <1>4. CASE Then(p, <<Reset(Exists(f))>>, <<e>>)
    <2>1. ops'[p] = <<Reset(Exists(f))>>
      BY <1>2, <1>3, <1>4, NextStep
    <2>2. FileChange(p)
      BY <1>1, <2>1, OpsApart, SameFiles DEF MachineOK
    <2>3. Ahead(e, Tail(prog[p]))
      BY <1>1, AheadSwap DEF FileProgram
    <2>4. QED BY <1>1, <1>2, <1>4, <2>2, <2>3, OpsApart, StepTurn DEF TempAt, File
  <1>5. CASE Then(p, << >>, << >>)
    <2>1. ops'[p] = << >>
      BY <1>3, <1>5, NoStep
    <2>2. FileChange(p)
      BY <1>1, <2>1, OpsApart, SameFiles DEF MachineOK
    <2>3. QED BY <1>1, <1>2, <1>5, <2>2, DoneTurn DEF File
  <1>6. QED BY <1>4, <1>5 DEF ExistFile

LEMMA GetTypeTurn ==
    ASSUME NEW p \in Actor, MachineOK, FileProgram(prog[p]), NEW f \in {"save", "banner"},
           GetType(p, f)
    PROVE  Turn(p)
  <1>1. ops[p] = << >> /\ Head(prog[p]) = <<"getType", f>> /\ prog[p] # << >>
    BY DEF GetType, At
  <1>2. \A g \in File : <<"getType", f>> \notin SavingSteps(g)
    BY StepsApart DEF File
  <1>3. ASSUME NEW bits \in FileOps \cup {<< >>}, Answers(p, bits, << >>), UNCHANGED file,
               \A g \in {"save", "banner"} : bits = <<Set(Exists(g))>> => file[g] # "none"
        PROVE  Turn(p)
    <2>1. Then(p, bits, << >>) /\ code' \in {"BUSY", "other"}
      BY <1>3 DEF Answers
    <2>2. ops'[p] = bits
      BY <1>1, <2>1, NoStep
    <2>3. FileChange(p)
      BY <1>3, <2>1, <2>2, SameFiles
    <2>4. QED BY <1>1, <1>2, <2>1, <2>3, DoneTurn DEF File
  <1>4. CASE UNCHANGED file /\ IF file[f] # "none" THEN Answers(p, <<Set(Exists(f))>>, << >>)
                                                  ELSE Answers(p, << >>, << >>)
    BY <1>3, <1>4, OpsApart
  <1>5. CASE Fails(p)
    BY <1>1, <1>5, FailsTurn
  <1>6. QED BY <1>4, <1>5 DEF GetType

LEMMA NandMemoryTurn ==
    ASSUME NEW p \in Actor, MachineOK, FileProgram(prog[p]), ExistNandMemory(p) \/ Check(p)
    PROVE  Turn(p)
  <1>1. prog[p] # << >> /\ ops[p] = << >>
    BY DEF FileProgram, ExistNandMemory, Check, At
  <1>2. /\ \A fn \in {"existNandMemory", "check"} :
              <<fn, NULL>> \in Step /\ <<fn, NULL>> \notin TempSteps
        /\ \A g \in File : \A fn \in {"existNandMemory", "check"} : <<fn, NULL>> \notin SavingSteps(g)
    BY StepsApart
  <1>3. ASSUME NEW bits \in FileOps \cup {<< >>}, Then(p, bits, << >>), UNCHANGED file,
               code' \in {"BUSY", "other"},
               Head(prog[p]) = <<"existNandMemory", NULL>> \/ Head(prog[p]) = <<"check", NULL>>,
               \A g \in {"save", "banner"} : bits # <<Set(Exists(g))>>
        PROVE  Turn(p)
    <2>1. ops'[p] = bits
      BY <1>1, <1>3, NoStep
    <2>2. FileChange(p)
      BY <1>3, <2>1, SameFiles
    <2>3. \A g \in File : Head(prog[p]) \notin SavingSteps(g)
      BY <1>2, <1>3
    <2>4. QED BY <1>1, <1>3, <2>2, <2>3, DoneTurn DEF File
  <1>4. CASE ExistNandMemory(p)
    <2>1. Head(prog[p]) = <<"existNandMemory", NULL>> /\ UNCHANGED <<file, code>>
      BY <1>4 DEF ExistNandMemory, At, nandVars
    <2>2. CASE Then(p, <<Reset("NandMemoryExist")>>, << <<"check", NULL>> >>)
      <3>1. ops'[p] = <<Reset("NandMemoryExist")>>
        BY <1>1, <1>2, <2>2, NextStep
      <3>2. FileChange(p)
        BY <2>1, <3>1, OpsApart, SameFiles DEF MachineOK
      <3>3. Ahead(<<"check", NULL>>, Tail(prog[p]))
        BY <2>1, AheadSwap DEF FileProgram
      <3>4. QED BY <1>1, <1>2, <2>1, <2>2, <3>2, <3>3, OpsApart, StepTurn DEF TempAt, File
    <2>3. CASE Then(p, << >>, << >>)
      BY <1>3, <2>1, <2>3, OpsApart DEF MachineOK
    <2>4. QED BY <1>4, <2>2, <2>3 DEF ExistNandMemory
  <1>5. CASE Check(p)
    <2>1. Head(prog[p]) = <<"check", NULL>>
      BY <1>5 DEF Check, At
    <2>2. CASE Fails(p)
      BY <1>1, <2>2, FailsTurn
    <2>3. ASSUME NEW bits \in {<<Set("NandMemoryExist")>>, << >>}, Answers(p, bits, << >>), UNCHANGED file
          PROVE  Turn(p)
      BY <1>3, <2>1, <2>3, OpsApart DEF Answers
    <2>4. QED BY <1>5, <2>2, <2>3 DEF Check
  <1>6. QED BY <1>4, <1>5

LEMMA CreateFileTurn ==
    ASSUME NEW p \in Actor, MachineOK, FileProgram(prog[p]), NEW f \in {"save", "temp"},
           CreateFile(p, f)
    PROVE  Turn(p)
  <1> DEFINE h == <<"createFile", f>>
             e == <<"create", f>>
             bits == <<Reset(Exists(f))>>
  <1>1. ops[p] = << >> /\ Head(prog[p]) = h /\ UNCHANGED <<file, code>> /\ prog[p] # << >>
    BY DEF CreateFile, At, nandVars
  <1>2. /\ h \notin TempSteps /\ e \notin TempSteps /\ e \in Step
        /\ \A g \in File : h \notin SavingSteps(g)
    BY StepsApart DEF File
  <1>3. bits \in FileOps /\ \A g \in {"save", "banner"} : bits # <<Set(Exists(g))>>
    BY DEF FileOps, Reset, Set, Exists
  <1>4. CASE Then(p, bits, <<e>>)
    <2>1. ops'[p] = bits
      BY <1>1, <1>2, <1>4, NextStep
    <2>2. FileChange(p)
      BY <1>1, <1>3, <2>1, SameFiles DEF MachineOK
    <2>3. Ahead(e, Tail(prog[p]))
      BY <1>1, AheadSwap DEF FileProgram
    <2>4. QED BY <1>1, <1>2, <1>3, <1>4, <2>2, <2>3, StepTurn DEF TempAt, File
  <1>5. CASE Then(p, << >>, << >>)
    <2>1. ops'[p] = << >>
      BY <1>1, <1>5, NoStep
    <2>2. FileChange(p)
      BY <1>1, <2>1, OpsApart, SameFiles DEF MachineOK
    <2>3. QED BY <1>1, <1>2, <1>5, <2>2, DoneTurn DEF File
  <1>6. QED BY <1>4, <1>5 DEF CreateFile

LEMMA CreateTurn ==
    ASSUME NEW p \in Actor, MachineOK, FileProgram(prog[p]), NEW f \in {"save", "temp"},
           Create(p, f)
    PROVE  Turn(p)
  <1>1. ops[p] = << >> /\ Head(prog[p]) = <<"create", f>> /\ prog[p] # << >>
        /\ prog[p] \in Seq(Step)
    BY DEF Create, At, MachineOK
  <1>2. /\ <<"create", f>> \notin TempSteps
        /\ \A g \in File : <<"create", f>> \notin SavingSteps(g)
    BY StepsApart DEF File
  <1>3. CASE Fails(p)
    BY <1>1, <1>3, FailsTurn
  <1>4. ASSUME NEW bits, NEW steps, CreateAnswers(p, f, bits, steps)
        PROVE  /\ Then(p, bits, steps) /\ code' \in {"BUSY", "other"}
               /\ file' \in [File -> Content]
               /\ \A g \in File : file[g] # "none" \/ g = f => file'[g] # "none"
    <2>1. Then(p, bits, steps) /\ code' \in {"BUSY", "other"}
      BY <1>4 DEF CreateAnswers, Answers
    <2>2. \/ file' = file /\ file[f] # "none"
          \/ file' = [file EXCEPT ![f] = "empty"]
      BY <1>4 DEF CreateAnswers
    <2>3. QED BY <2>1, <2>2 DEF MachineOK, Content, File
  <1>5. CASE f = "save" /\ CreateAnswers(p, f, <<Set("SaveFileExist")>>, << >>)
    <2>1. /\ Then(p, <<Set("SaveFileExist")>>, << >>) /\ code' \in {"BUSY", "other"}
          /\ file' \in [File -> Content] /\ file'["save"] # "none"
          /\ file["banner"] # "none" => file'["banner"] # "none"
      BY <1>4, <1>5 DEF File
    <2>2. ops'[p] = <<Set("SaveFileExist")>>
      BY <1>1, <2>1, NoStep
    <2>3. FileChange(p)
      BY <2>1, <2>2, OpsApart DEF FileChange
    <2>4. QED BY <1>1, <1>2, <2>1, <2>3, OpsApart, DoneTurn DEF File
  <1>6. CASE f = "temp" /\ CreateAnswers(p, f, << >>, << <<"save", "temp">>, <<"home", NULL>> >>)
    <2> DEFINE steps == << <<"save", "temp">>, <<"home", NULL>> >>
    <2>1. /\ Then(p, << >>, steps) /\ code' \in {"BUSY", "other"}
          /\ file' \in [File -> Content] /\ file'["temp"] # "none"
          /\ \A g \in {"save", "banner"} : file[g] # "none" => file'[g] # "none"
      BY <1>4, <1>6 DEF File
    <2>2. Tail(prog[p]) = << >>
      BY <1>1, <1>6 DEF FileProgram, Ahead, SavingSteps, HomeSteps
    <2>3. steps \o << >> = steps /\ steps \in Seq(Step)
      <3>1. <<"save", "temp">> \in Step /\ <<"home", NULL>> \in Step
        BY DEF Step, File
      <3>2. QED BY <3>1
    <2>4. ops'[p] = << >> /\ prog'[p] = steps
      BY <2>1, <2>2, <2>3 DEF Then, MachineOK
    <2>5. /\ prog'[p] # << >> /\ Head(prog'[p]) = <<"save", "temp">>
          /\ Tail(prog'[p]) = << <<"home", NULL>> >>
      BY <2>4, TwoSteps
    <2>6. FileProgram(prog'[p])
      BY <2>5, StepsApart DEF FileProgram, Ahead, File
    <2>7. FileChange(p)
      BY <2>1, <2>4, OpsApart DEF FileChange
    <2>8. TempSafe(p)'
      BY <2>1, <2>5 DEF TempSafe, TempAt
    <2>9. ~SavingProgram(prog[p])
      BY <1>1, <1>2 DEF SavingProgram, File
    <2>10. QED BY <1>1, <2>1, <2>3, <2>4, <2>6, <2>7, <2>8, <2>9 DEF Turn, Then
  <1>7. QED BY <1>3, <1>5, <1>6 DEF Create

LEMMA HomeTurn ==
    ASSUME NEW p \in Actor, MachineOK, FileProgram(prog[p]), TempSafe(p),
           Home(p) \/ GetHomeDir(p) \/ Move(p)
    PROVE  Turn(p)
  <1>1. ops[p] = << >> /\ prog[p] # << >>
    BY DEF Home, GetHomeDir, Move, At
  <1>2. \A fn \in {"home", "getHomeDir", "move"} :
           /\ <<fn, NULL>> \in TempSteps /\ <<fn, NULL>> \in Step
           /\ \A g \in File : <<fn, NULL>> \notin SavingSteps(g)
    BY StepsApart
  <1>3. CASE Fails(p)
    BY <1>1, <1>3, FailsTurn
  <1>4. CASE Home(p)
    <2>1. Head(prog[p]) = <<"home", NULL>> /\ UNCHANGED <<file, code>>
      BY <1>4 DEF Home, At, nandVars
    <2>2. CASE NoError /\ Then(p, << >>, << <<"getHomeDir", NULL>> >>)
      <3>1. ops'[p] = << >>
        BY <1>1, <1>2, <2>2, NextStep
      <3>2. FileChange(p)
        BY <2>1, <3>1, OpsApart, SameFiles DEF MachineOK
      <3>3. Ahead(<<"getHomeDir", NULL>>, Tail(prog[p]))
        BY <2>1, AheadSwap DEF FileProgram
      <3>4. ~Erring(p)
        BY <1>1, <2>2 DEF Erring, NoError, Error
      <3>5. TempAt(Head(prog[p]), file["temp"], Erring(p))
               => TempAt(<<"getHomeDir", NULL>>, file'["temp"], "NandError" \in flags \/ << >> = Error)
        BY <1>2, <2>1, <3>4 DEF TempAt
      <3>6. QED BY <1>1, <1>2, <2>1, <2>2, <3>2, <3>3, <3>5, StepTurn DEF File
    <2>3. CASE Then(p, << >>, << >>)
      <3>1. ops'[p] = << >>
        BY <1>1, <2>3, NoStep
      <3>2. FileChange(p)
        BY <2>1, <3>1, OpsApart, SameFiles DEF MachineOK
      <3>3. QED BY <1>1, <1>2, <2>1, <2>3, <3>2, DoneTurn DEF File
    <2>4. QED BY <1>4, <2>2, <2>3 DEF Home
  <1>5. CASE GetHomeDir(p)
    <2>1. Head(prog[p]) = <<"getHomeDir", NULL>>
      BY <1>5 DEF GetHomeDir, At
    <2>2. CASE Answers(p, << >>, << <<"move", NULL>> >>) /\ UNCHANGED file
      <3>1. Then(p, << >>, << <<"move", NULL>> >>) /\ code' \in {"BUSY", "other"}
        BY <2>2 DEF Answers
      <3>2. ops'[p] = << >>
        BY <1>1, <1>2, <3>1, NextStep
      <3>3. FileChange(p)
        BY <2>2, <3>1, <3>2, OpsApart, SameFiles
      <3>4. Ahead(<<"move", NULL>>, Tail(prog[p]))
        BY <2>1, AheadSwap DEF FileProgram
      <3>5. TempAt(Head(prog[p]), file["temp"], Erring(p))
               => TempAt(<<"move", NULL>>, file'["temp"], "NandError" \in flags \/ << >> = Error)
        BY <1>2, <2>1, <2>2 DEF TempAt
      <3>6. QED BY <1>1, <1>2, <2>1, <3>1, <3>3, <3>4, <3>5, StepTurn DEF File
    <2>3. QED BY <1>3, <1>5, <2>2 DEF GetHomeDir
  <1>6. CASE Move(p)
    <2>1. Head(prog[p]) = <<"move", NULL>>
      BY <1>6 DEF Move, At
    <2> SUFFICES ASSUME ~Fails(p) PROVE Turn(p)
      BY <1>3
    <2>2. /\ Then(p, <<Set("BannerFileExist")>>, << >>) /\ code' \in {"BUSY", "other"}
          /\ \/ file' = [file EXCEPT !["banner"] = file["temp"], !["temp"] = "none"]
             \/ file["banner"] # "none" /\ UNCHANGED file
      BY <1>6 DEF Move, Answers
    <2>3. ops'[p] = <<Set("BannerFileExist")>>
      BY <1>1, <2>2, NoStep
    <2>4. file["temp"] # "none"
      BY <1>1, <1>2, <2>1 DEF TempSafe, TempAt
    <2>5. file' \in [File -> Content]
      BY <2>2 DEF MachineOK, File, Content
    <2>6. FileChange(p)
      BY <2>2, <2>3, <2>4, <2>5, OpsApart DEF FileChange, MachineOK, File
    <2>7. QED BY <1>1, <1>2, <2>1, <2>2, <2>6, OpsApart, DoneTurn DEF File
  <1>7. QED BY <1>4, <1>5, <1>6

LEMMA DeleteTurn ==
    ASSUME NEW p \in Actor, MachineOK, FileProgram(prog[p]), NEW f \in {"save", "banner"}, Delete(p, f)
    PROVE  Turn(p)
  <1>1. ops[p] = << >> /\ Head(prog[p]) = <<"delete", f>> /\ prog[p] # << >>
    BY DEF Delete, At
  <1>2. \A g \in File : <<"delete", f>> \notin SavingSteps(g)
    BY StepsApart DEF File
  <1>3. CASE Fails(p)
    BY <1>1, <1>3, FailsTurn
  <1>4. CASE Answers(p, <<Reset(Exists(f))>>, << >>) /\ file' = [file EXCEPT ![f] = "none"]
    <2>1. Then(p, <<Reset(Exists(f))>>, << >>) /\ code' \in {"BUSY", "other"}
      BY <1>4 DEF Answers
    <2>2. ops'[p] = <<Reset(Exists(f))>>
      BY <1>1, <2>1, NoStep
    <2>3. file' \in [File -> Content]
      BY <1>4 DEF MachineOK, Content, File
    <2>4. FileChange(p)
      BY <1>4, <2>1, <2>2, <2>3, OpsApart DEF FileChange, MachineOK, File
    <2>5. QED BY <1>1, <1>2, <2>1, <2>4, OpsApart, DoneTurn DEF File
  <1>5. QED BY <1>3, <1>4 DEF Delete

(* The steps of a saving. *)
LEMMA SavingFacts ==
    ASSUME NEW p \in Actor, MachineOK, NEW f \in File, NEW fn \in {"save", "open", "write", "close", "abandon"},
           At(p, fn, f), FileProgram(prog[p])
    PROVE  /\ ops[p] = << >> /\ prog[p] # << >>
           /\ Head(prog[p]) = <<fn, f>> /\ Head(prog[p]) \in SavingSteps(f)
           /\ \A g \in File : g # f => Head(prog[p]) \notin SavingSteps(g)
           /\ f = "temp" <=> Head(prog[p]) \in TempSteps
           /\ \A e \in SavingSteps(f) : Ahead(e, Tail(prog[p])) /\ e \in Step
           /\ Erring(p) <=> "NandError" \in flags
  <1>1. ops[p] = << >> /\ prog[p] # << >> /\ Head(prog[p]) = <<fn, f>>
    BY DEF At
  <1>2. <<fn, f>> \in SavingSteps(f)
    BY DEF SavingSteps
  <1>3. f = "temp" <=> Head(prog[p]) \in TempSteps
    BY <1>1, <1>2, StepsApart DEF File
  <1>4. \A e \in SavingSteps(f) : Ahead(e, Tail(prog[p]))
    BY <1>1, <1>2, AheadSwap DEF FileProgram
  <1>5. \A e \in SavingSteps(f) : e \in Step
    BY DEF SavingSteps, Step
  <1>6. \A g \in File : g # f => <<fn, f>> \notin SavingSteps(g)
    BY DEF SavingSteps
  <1>7. ops[p] # Error
    BY <1>1 DEF Error
  <1>8. QED BY <1>1, <1>2, <1>3, <1>4, <1>5, <1>6, <1>7 DEF Erring

(* A step of a saving that another one follows, which is not the close. *)
LEMMA SavingStep ==
    ASSUME NEW p \in Actor, MachineOK, NEW f \in File, NEW fn \in {"save", "open", "write", "close", "abandon"},
           At(p, fn, f), FileProgram(prog[p]), NEW gn \in {"open", "write", "close", "abandon"},
           Then(p, << >>, << <<gn, f>> >>), code' \in {"BUSY", "other"},
           NEW c \in Content, file' = [file EXCEPT ![f] = c], c = file[f] \/ c # "none",
           gn = "close" => c = "whole"
    PROVE  Turn(p)
  <1> DEFINE e == <<gn, f>>
  <1>1. e \in SavingSteps(f) /\ e \in Step
    BY StepsApart
  <1>2. ops'[p] = << >>
    BY <1>1, SavingFacts, NextStep
  <1>3. FileChange(p)
    BY <1>2, OpsApart DEF FileChange, MachineOK, File
  <1>4. TempAt(Head(prog[p]), file["temp"], Erring(p))
           => TempAt(e, file'["temp"], "NandError" \in flags \/ << >> = Error)
    <2>1. \A fm \in {"home", "getHomeDir", "move"} : e # <<fm, NULL>>
      OBVIOUS
    <2>2. e = <<"close", "temp">> => gn = "close" /\ f = "temp"
      OBVIOUS
    <2>3. e \in TempSteps => f = "temp"
      BY <1>1, StepsApart DEF File
    <2>4. file["temp"] # "none" /\ f = "temp" => file'["temp"] # "none"
      BY DEF MachineOK, File
    <2>5. f = "temp" => file'["temp"] = c
      BY DEF MachineOK, File
    <2>6. QED BY <2>1, <2>2, <2>3, <2>4, <2>5, SavingFacts DEF TempAt
  <1>5. f # "save" => file'["save"] = file["save"]
    BY DEF MachineOK, File
  <1>6. file'[f] = c
    BY DEF MachineOK
  <1>7. \A g \in File : e = <<"close", g>> => g = f /\ c = "whole"
    OBVIOUS
  <1>8. QED BY <1>1, <1>3, <1>4, <1>5, <1>6, <1>7, SavingFacts, StepTurn DEF File

(* A step of a saving that is its last. *)
LEMMA SavingDone ==
    ASSUME NEW p \in Actor, MachineOK, NEW f \in File, NEW fn \in {"save", "open", "write", "close", "abandon"},
           At(p, fn, f), FileProgram(prog[p]), NEW bits \in {<< >>, Error},
           Then(p, bits, << >>), code' \in {"BUSY", "other"}, UNCHANGED file,
           bits = Error \/ ~MaySave \/ fn = "close"
    PROVE  Turn(p)
  <1>1. ops'[p] = bits /\ bits \in FileOps \cup {<< >>}
    BY SavingFacts, OpsApart, NoStep
  <1>2. FileChange(p)
    BY <1>1, OpsApart, SameFiles
  <1>3. ~MaySave <=> {"NandError", "DisableSave"} \cap flags # {}
    BY DEF MaySave, NoError
  <1>4. Head(prog[p]) \in SavingSteps("temp") /\ TempAt(Head(prog[p]), file["temp"], Erring(p))
           => TempAt(<<"home", NULL>>, file'["temp"], "NandError" \in flags \/ bits = Error)
    <2>1. <<"home", NULL>> # <<"close", "temp">> /\ <<"home", NULL>> # <<"getHomeDir", NULL>>
          /\ <<"home", NULL>> # <<"move", NULL>>
      OBVIOUS
    <2>2. Head(prog[p]) \in SavingSteps("temp") => f = "temp"
      BY SavingFacts DEF File
    <2>3. QED BY <1>3, <2>1, <2>2, SavingFacts DEF TempAt
  <1>5. Head(prog[p]) \in SavingSteps("save") /\ SaveSafe(p)
           => {"NandError", "DisableSave"} \cap flags # {} \/ bits = Error \/ file'["save"] = "whole"
    <2>1. Head(prog[p]) \in SavingSteps("save") => f = "save"
      BY SavingFacts DEF File
    <2>2. QED BY <1>3, <2>1, SavingFacts DEF SaveSafe
  <1>6. Head(prog[p]) \in SavingSteps("banner") /\ SaveSafe(p)
           => \/ {"NandError", "DisableSave"} \cap flags # {} \/ bits = Error
              \/ file'["save"] = "whole" /\ file'["banner"] = "whole"
    <2>1. Head(prog[p]) \in SavingSteps("banner") => f = "banner"
      BY SavingFacts DEF File
    <2>2. QED BY <1>3, <2>1, SavingFacts DEF SaveSafe, Excused
  <1>7. QED BY <1>1, <1>2, <1>4, <1>5, <1>6, SavingFacts, DoneTurn

LEMMA SavingTurn ==
    ASSUME NEW p \in Actor, MachineOK, FileProgram(prog[p]), NEW f \in File,
           SaveFile(p, f) \/ Open(p, f) \/ Write(p, f) \/ Close(p, f) \/ Abandon(p, f)
    PROVE  Turn(p)
  <1>1. /\ file[f] \in Content /\ file = [file EXCEPT ![f] = file[f]]
        /\ code \in {"BUSY", "other"} /\ {"whole", "torn"} \subseteq Content
    BY DEF MachineOK, Content
  <1>2. CASE SaveFile(p, f)
    <2>1. At(p, "save", f) /\ UNCHANGED <<file, code>>
      BY <1>2 DEF SaveFile, nandVars
    <2>2. CASE MaySave
      <3>1. Then(p, << >>, << <<"open", f>> >>)
        BY <1>2, <2>2 DEF SaveFile
      <3>2. QED BY <1>1, <2>1, <3>1, SavingStep
    <2>3. CASE ~MaySave
      <3>1. Then(p, << >>, << >>)
        BY <1>2, <2>3 DEF SaveFile
      <3>2. QED BY <1>1, <2>1, <2>3, <3>1, SavingDone
    <2>4. QED BY <2>2, <2>3
  <1>3. CASE Open(p, f)
    <2>1. At(p, "open", f) /\ ops[p] = << >>
      BY <1>3 DEF Open, At
    <2>2. CASE Fails(p)
      BY <2>1, <2>2, FailsTurn
    <2>3. CASE Answers(p, Error, << >>) /\ UNCHANGED file
      <3>1. Then(p, Error, << >>) /\ code' \in {"BUSY", "other"}
        BY <2>3 DEF Answers
      <3>2. QED BY <2>1, <2>3, <3>1, SavingDone
    <2>4. CASE Answers(p, << >>, << <<"write", f>> >>) /\ UNCHANGED file
      <3>1. Then(p, << >>, << <<"write", f>> >>) /\ code' \in {"BUSY", "other"}
        BY <2>4 DEF Answers
      <3>2. QED BY <1>1, <2>1, <2>4, <3>1, SavingStep
    <2>5. QED BY <1>3, <2>2, <2>3, <2>4 DEF Open
  <1>4. CASE Write(p, f)
    <2>1. At(p, "write", f)
      BY <1>4 DEF Write
    <2>2. CASE Answers(p, << >>, << <<"close", f>> >>) /\ file' = [file EXCEPT ![f] = "whole"]
      <3>1. Then(p, << >>, << <<"close", f>> >>) /\ code' \in {"BUSY", "other"}
        BY <2>2 DEF Answers
      <3>2. QED BY <1>1, <2>1, <2>2, <3>1, SavingStep
    <2>3. CASE /\ code' \in {"BUSY", "other"} /\ Then(p, << >>, << <<"abandon", f>> >>)
               /\ file' \in {file, [file EXCEPT ![f] = "torn"]}
      <3>1. CASE file' = file
        BY <1>1, <2>1, <2>3, <3>1, SavingStep
      <3>2. CASE file' = [file EXCEPT ![f] = "torn"]
        BY <1>1, <2>1, <2>3, <3>2, SavingStep
      <3>3. QED BY <2>3, <3>1, <3>2
    <2>4. QED BY <1>4, <2>2, <2>3 DEF Write
  <1>5. CASE Close(p, f)
    <2>1. At(p, "close", f) /\ ops[p] = << >>
      BY <1>5 DEF Close, At
    <2>2. CASE Fails(p)
      BY <2>1, <2>2, FailsTurn
    <2>3. CASE Answers(p, << >>, << >>) /\ UNCHANGED file
      <3>1. Then(p, << >>, << >>) /\ code' \in {"BUSY", "other"}
        BY <2>3 DEF Answers
      <3>2. QED BY <2>1, <2>3, <3>1, SavingDone
    <2>4. QED BY <1>5, <2>2, <2>3 DEF Close
  <1>6. CASE Abandon(p, f)
    <2>1. At(p, "abandon", f) /\ Then(p, Error, << >>) /\ UNCHANGED <<file, code>>
      BY <1>6 DEF Abandon, nandVars
    <2>2. QED BY <1>1, <2>1, SavingDone
  <1>7. QED BY <1>2, <1>3, <1>4, <1>5, <1>6

LEMMA LoadTurn ==
    ASSUME NEW p \in Actor, MachineOK, FileProgram(prog[p]),
           LoadFile(p) \/ OpenToLoad(p) \/ Read(p) \/ CloseLoaded(p)
    PROVE  Turn(p)
  <1> DEFINE Fns == {"load", "openToLoad", "read", "closeLoaded"}
  <1>1. PICK fn \in Fns : At(p, fn, "save")
    BY DEF LoadFile, OpenToLoad, Read, CloseLoaded
  <1>2. ops[p] = << >> /\ Head(prog[p]) = <<fn, "save">> /\ prog[p] # << >>
    BY <1>1 DEF At
  <1>3. \A gn \in Fns : /\ <<gn, "save">> \in Step /\ <<gn, "save">> \notin TempSteps
                        /\ \A g \in File : <<gn, "save">> \notin SavingSteps(g)
    BY StepsApart DEF File
  <1>4. code \in {"BUSY", "other"}
    BY DEF MachineOK
  <1>5. CASE Fails(p)
    BY <1>2, <1>5, FailsTurn
  (* Another step follows, or none; nothing is said to exist. *)
  <1>6. ASSUME NEW gn \in {"openToLoad", "read", "closeLoaded", "abandon"}, UNCHANGED file,
               Ahead(<<gn, "save">>, Tail(prog[p])),
               Then(p, << >>, << <<gn, "save">> >>), code' \in {"BUSY", "other"}
        PROVE  Turn(p)
    <2>1. <<gn, "save">> \in Step /\ <<gn, "save">> \notin TempSteps
      BY <1>3, StepsApart DEF File
    <2>2. ops'[p] = << >>
      BY <1>2, <1>6, <2>1, NextStep
    <2>3. FileChange(p)
      BY <1>6, <2>2, OpsApart, SameFiles
    <2>4. QED BY <1>2, <1>3, <1>6, <2>1, <2>3, StepTurn DEF TempAt, File
  <1>7. ASSUME NEW bits \in {<< >>, Error}, Then(p, bits, << >>), code' \in {"BUSY", "other"},
               file' = [file EXCEPT !["save"] = IF @ = "old" THEN "whole" ELSE @] \/ UNCHANGED file
        PROVE  Turn(p)
    <2>1. ops'[p] = bits /\ bits \in FileOps \cup {<< >>}
      BY <1>2, <1>7, OpsApart, NoStep
    <2>2. file' \in [File -> Content] /\ \A f \in File : file[f] # "none" => file'[f] # "none"
      BY <1>7 DEF MachineOK, Content, File
    <2>3. FileChange(p)
      BY <1>7, <2>1, <2>2, OpsApart DEF FileChange, File
    <2>4. QED BY <1>2, <1>3, <1>7, <2>1, <2>3, DoneTurn DEF File
  <1>8. CASE LoadFile(p)
    <2>1. Head(prog[p]) = <<"load", "save">> /\ UNCHANGED <<file, code>>
      BY <1>8 DEF LoadFile, At, nandVars
    <2>2. Ahead(<<"openToLoad", "save">>, Tail(prog[p]))
      BY <2>1, AheadSwap DEF FileProgram
    <2>3. Then(p, << >>, << <<"openToLoad", "save">> >>) \/ Then(p, << >>, << >>)
      BY <1>8 DEF LoadFile
    <2>4. QED BY <1>4, <1>6, <1>7, <2>1, <2>2, <2>3
  <1>9. CASE OpenToLoad(p)
    <2>1. Head(prog[p]) = <<"openToLoad", "save">>
      BY <1>9 DEF OpenToLoad, At
    <2>2. Ahead(<<"read", "save">>, Tail(prog[p]))
      BY <2>1, AheadSwap DEF FileProgram
    <2>3. \/ Fails(p)
          \/ /\ Then(p, Error, << >>) \/ Then(p, << >>, << <<"read", "save">> >>)
             /\ UNCHANGED file /\ code' = "other"
      BY <1>9 DEF OpenToLoad, Answers
    <2>4. QED BY <1>5, <1>6, <1>7, <2>2, <2>3
  <1>10. CASE Read(p)
    <2>1. Head(prog[p]) = <<"read", "save">> /\ UNCHANGED file
      BY <1>10 DEF Read, At
    <2>2. Ahead(<<"closeLoaded", "save">>, Tail(prog[p])) /\ Ahead(<<"abandon", "save">>, Tail(prog[p]))
      BY <2>1, AheadSwap DEF FileProgram
    <2>3. /\ code' \in {"BUSY", "other"}
          /\ \/ Then(p, << >>, << <<"closeLoaded", "save">> >>)
             \/ Then(p, << >>, << <<"abandon", "save">> >>)
      BY <1>10 DEF Read, Answers
    <2>4. QED BY <1>6, <2>1, <2>2, <2>3
  <1>11. CASE CloseLoaded(p)
    <2>1. /\ code' \in {"BUSY", "other"}
          /\ Then(p, << >>, << >>) \/ Then(p, Error, << >>)
          /\ file' = [file EXCEPT !["save"] = IF @ = "old" THEN "whole" ELSE @]
      BY <1>11 DEF CloseLoaded
    <2>2. QED BY <1>7, <2>1
  <1>12. QED BY <1>8, <1>9, <1>10, <1>11

(* Every step of a file program, but for the loads and stores of mFlags. *)
LEMMA FileStepTurn ==
    ASSUME NEW p \in Actor, MachineOK, FileProgram(prog[p]), TempSafe(p), FileStep(p)
    PROVE  Turn(p) \/ Load(p) \/ Store(p)
  <1>1. CASE \E f \in {"save", "banner"} : ExistFile(p, f) \/ GetType(p, f) \/ Delete(p, f)
    BY <1>1, ExistFileTurn, GetTypeTurn, DeleteTurn
  <1>2. CASE ExistNandMemory(p) \/ Check(p)
    BY <1>2, NandMemoryTurn
  <1>3. CASE \E f \in {"save", "temp"} : CreateFile(p, f) \/ Create(p, f)
    BY <1>3, CreateFileTurn, CreateTurn
  <1>4. CASE Home(p) \/ GetHomeDir(p) \/ Move(p)
    BY <1>4, HomeTurn
  <1>5. CASE \E f \in File : SaveFile(p, f) \/ Open(p, f) \/ Write(p, f) \/ Close(p, f) \/ Abandon(p, f)
    BY <1>5, SavingTurn
  <1>6. CASE LoadFile(p) \/ OpenToLoad(p) \/ Read(p) \/ CloseLoaded(p)
    BY <1>6, LoadTurn
  <1>7. QED BY <1>1, <1>2, <1>3, <1>4, <1>5, <1>6 DEF FileStep

-----------------------------------------------------------------------------
(* Who is in the middle of what. *)

(* Only GameFiles has a file program, or its operations. *)
LEMMA FilesOfGame ==
    ASSUME SaveDataInv,
           \/ FileProgram(prog["game"])
           \/ prog["game"] # << >> /\ Head(prog["game"]) \in TempSteps
           \/ \E f \in {"save", "banner"} : ops["game"] = <<Set(Exists(f))>>
    PROVE  GameFiles
  <1>1. \A h \in TempSteps : h[1] # "request" /\ h[1] # "requested"
    BY DEF TempSteps, SavingSteps, HomeSteps
  <1>2. \A h, t : Ahead(h, t) => h[1] # "request" /\ h[1] # "requested"
    BY DEF Ahead, SavingSteps, HomeSteps
  <1>3. ~GameIdle
    BY DEF GameIdle, FileProgram
  <1>4. ~GameBegins
    <2>1. SUFFICES ASSUME NEW t \in Task, RequestProgram(prog["game"], t),
                          ops["game"] \in {<<Set("NandAccess"), Reset("NandError")>>, <<Reset("NandError")>>, << >>}
                   PROVE  FALSE
      BY DEF GameBegins
    <2>2. Head(prog["game"])[1] = "request"
      BY <2>1 DEF RequestProgram
    <2>3. \A f \in {"save", "banner"} : ops["game"] # <<Set(Exists(f))>>
      BY <2>1 DEF Set, Reset, Exists
    <2>4. QED BY <1>1, <1>2, <2>2, <2>3 DEF FileProgram
  <1>5. ~GameSaves
    <2>1. SUFFICES ASSUME \/ prog["game"] = << <<"requested", NULL>> >> /\ ops["game"] = << >>
                          \/ prog["game"] = << >> /\ ops["game"] \in SaveOnOps
                   PROVE  FALSE
      BY DEF GameSaves
    <2>2. prog["game"] # << >> => Head(prog["game"])[1] = "requested"
      BY <2>1, OneStep
    <2>3. \A f \in {"save", "banner"} : ops["game"] # <<Set(Exists(f))>>
      BY <2>1 DEF SaveOnOps, Set, Reset, Exists
    <2>4. QED BY <1>1, <1>2, <2>2, <2>3 DEF FileProgram
  <1>6. ~GameFinishes
    BY DEF GameFinishes, FileProgram, Set, Reset
  <1>7. ~GameOwnFlags
    <2>1. SUFFICES ASSUME prog["game"] = << >>, ops["game"] \in OwnOps
                   PROVE  FALSE
      BY DEF GameOwnFlags
    <2>2. \A f \in {"save", "banner"} : ops["game"] # <<Set(Exists(f))>>
      <3>1. OwnOps = {<<Set("ErrorWindow")>>, <<Set("DisableSave")>>, <<Reset("DisableSave")>>,
                      <<Reset("ErrorWindow")>>, <<Reset("AsyncSave"), Reset("ErrorWindow")>>,
                      <<Set("DisableSave"), Reset("AsyncSave"), Reset("ErrorWindow")>>}
        BY DEF OwnOps, Over
      <3>2. QED BY <2>1, <3>1 DEF Set, Reset, Exists
    <2>3. QED BY <2>1, <2>2 DEF FileProgram
  <1>8. QED BY <1>3, <1>4, <1>5, <1>6, <1>7 DEF SaveDataInv, GameInv

(* While the NAND thread has a task, or its message, NandAccess is raised. *)
LEMMA TaskMeansAccess ==
    ASSUME SaveDataInv, ~Off \/ mesgQueue # << >> \/ endQueue # << >>
    PROVE  /\ "NandAccess" \in flags
           /\ ~GameFiles /\ ~GameOwnFlags /\ ~GameFinishes /\ ~GameBegins
           /\ GameIdle \/ GameSaves
           /\ \A p \in Actor : prog[p] # << >> /\ Head(prog[p]) \in TempSteps => p = "nand"
           /\ \A p \in Actor, f \in {"save", "banner"} : ops[p] = <<Set(Exists(f))>> => p = "nand"
  <1>1. "NandAccess" \in flags /\ ~HasNone /\ ~Rests
    BY DEF SaveDataInv, GameInv, Rests, HasNone
  <1>2. ~GameFiles /\ ~GameOwnFlags
    BY <1>1 DEF GameFiles, GameOwnFlags
  <1>3. ~GameFinishes /\ ~GameBegins
    BY <1>1 DEF GameFinishes, GameBegins
  <1>4. QED BY <1>1, <1>2, <1>3, FilesOfGame DEF SaveDataInv, GameInv, Actor

(* A step of the NAND thread's task. *)
LEMMA NandTurn ==
    ASSUME SaveDataInv, pc = "running", Turn("nand")
    PROVE  SaveDataInv'
  <1> USE DEF SaveDataInv, threadVars
  <1>1. /\ UNCHANGED <<pTask, mesgQueue, endQueue, pc, currentJob, request, flags, window, reg>>
        /\ prog'["game"] = prog["game"] /\ ops'["game"] = ops["game"]
        /\ "nand" \in Actor /\ "game" \in Actor /\ ~Off
    BY DEF Turn, Actor, MachineOK, Off
  <1>2. FileOps \subseteq Seq(BitOp) /\ << >> \in Seq(BitOp)
    BY DEF FileOps, BitOp, Flag, Set, Reset, Exists
  <1>3. MachineOK' /\ ThreadOK'
    <2>1. prog' \in [Actor -> Seq(Step)] /\ ops' \in [Actor -> Seq(BitOp)]
      BY <1>1, <1>2 DEF MachineOK, Turn
    <2>2. MachineOK'
      BY <1>1, <2>1 DEF MachineOK, Turn, FileChange
    <2>3. ThreadOK'
      BY <1>1 DEF ThreadOK, TT!JobTypeOK, TT!Slot
    <2>4. QED BY <2>2, <2>3
  <1>4. OneTask'
    BY <1>1 DEF OneTask, Turn, Off, TT!NoRequest, TT!Blank
  <1>5. GameInv'
    <2>1. SaveInHand => SaveInHand'
      BY <1>1 DEF SaveInHand, Turn, SaveTask, Off, TT!NoRequest
    <2>2. GameIdle \/ GameSaves
      BY <1>1, TaskMeansAccess
    <2>3. GameIdle' \/ GameSaves'
      BY <1>1, <2>1, <2>2 DEF GameIdle, GameSaves, Off
    <2>4. request = TT!NoRequest /\ "NandAccess" \in flags
      BY <1>1, TaskMeansAccess DEF OneTask
    <2>5. QED BY <1>1, <2>1, <2>3, <2>4 DEF GameInv, TT!NoRequest
  <1>6. WordInv'
    <2>1. reg["nand"] = NULL
      BY DEF WordInv, Turn, Actor
    <2>2. GameSaves => GameSaves'
      BY <1>1 DEF GameSaves, SaveInHand, Turn, SaveTask, Off, TT!NoRequest
    <2>3. QED BY <1>1, <2>1, <2>2 DEF WordInv, Actor
  <1>7. ExistInv'
    <2> SUFFICES ASSUME NEW f \in {"save", "banner"}
                 PROVE  /\ Exists(f) \in flags
                             => file'[f] # "none" \/ \E p \in Actor : ops'[p] = <<Reset(Exists(f))>>
                        /\ \A p \in Actor : ops'[p] = <<Set(Exists(f))>> => file'[f] # "none"
      BY <1>1 DEF ExistInv
    <2>1. ops["game"] # <<Set(Exists(f))>> /\ ops["nand"] = << >>
      BY <1>1, TaskMeansAccess DEF Turn
    <2>2. /\ file[f] # "none" /\ file'[f] = "none" => ops'["nand"] = <<Reset(Exists(f))>>
          /\ ops'["nand"] = <<Set(Exists(f))>> => file'[f] # "none"
      BY DEF Turn, FileChange
    <2>3. << >> # <<Reset(Exists(f))>>
      OBVIOUS
    <2>4. QED BY <1>1, <2>1, <2>2, <2>3 DEF ExistInv, Actor
  <1>8. TempInv'
    <2>1. TempSafe("nand")'
      BY <1>1 DEF TempInv, Turn
    <2>2. TempSafe("game")'
      BY <1>1, TaskMeansAccess DEF TempSafe, TempAt
    <2>3. QED BY <2>1, <2>2 DEF TempInv, Actor
  <1>9. SaveInv'
    <2>1. pc # "returned" /\ endQueue = << >> /\ "NandAccess" \in flags
          /\ ops["game"] # <<Reset("NandAccess")>>
      <3>1. GameIdle \/ GameSaves
        BY <1>1, TaskMeansAccess
      <3>2. ops["game"] # <<Reset("NandAccess")>>
        BY <3>1 DEF GameIdle, GameSaves, SaveOnOps, Set, Reset
      <3>3. QED BY <1>1, <3>2, TaskMeansAccess DEF OneTask
    <2>2. "AsyncSave" \in flags => SavingProgram(prog["nand"])
      BY DEF GameInv, SaveInHand
    <2>3. QED BY <1>1, <2>1, <2>2 DEF SaveInv, Turn
  <1>10. QED BY <1>3, <1>4, <1>5, <1>6, <1>7, <1>8, <1>9

(* While the game has a file program, the NAND thread has nothing to do. *)
LEMMA FilesMeansRest ==
    ASSUME SaveDataInv, "NandAccess" \notin flags
    PROVE  /\ Rests /\ prog["nand"] = << >> /\ ops["nand"] = << >> /\ reg["nand"] = NULL
           /\ ~GameSaves /\ ~GameFinishes
           /\ reg["game"] # NULL => reg["game"] = flags
  <1>1. Rests
    BY DEF SaveDataInv, GameInv
  <1>2. prog["nand"] = << >> /\ ops["nand"] = << >>
    BY <1>1 DEF SaveDataInv, OneTask, Rests, HasNone, Off
  <1>3. ~GameSaves /\ ~GameFinishes
    BY DEF GameSaves, GameFinishes
  <1>4. QED BY <1>1, <1>2, <1>3 DEF SaveDataInv, WordInv, Actor

(* A step of a file program of the game's. *)
LEMMA GameTurn ==
    ASSUME SaveDataInv, Turn("game")
    PROVE  SaveDataInv'
  <1> USE DEF SaveDataInv, threadVars
  <1>1. /\ UNCHANGED <<pTask, mesgQueue, endQueue, pc, currentJob, request, flags, window, reg>>
        /\ prog'["nand"] = prog["nand"] /\ ops'["nand"] = ops["nand"]
        /\ "nand" \in Actor /\ "game" \in Actor
    BY DEF Turn, Actor, MachineOK
  <1>2. FileOps \subseteq Seq(BitOp) /\ << >> \in Seq(BitOp)
    BY DEF FileOps, BitOp, Flag, Set, Reset, Exists
  <1>3. MachineOK' /\ ThreadOK'
    <2>1. prog' \in [Actor -> Seq(Step)] /\ ops' \in [Actor -> Seq(BitOp)]
      BY <1>1, <1>2 DEF MachineOK, Turn
    <2>2. MachineOK'
      BY <1>1, <2>1 DEF MachineOK, Turn, FileChange
    <2>3. ThreadOK'
      BY <1>1 DEF ThreadOK, TT!JobTypeOK, TT!Slot
    <2>4. QED BY <2>2, <2>3
  <1>4. GameFiles
    BY FilesOfGame DEF Turn
  <1>5. /\ {"NandAccess", "AsyncSave"} \cap flags = {}
        /\ Rests /\ prog["nand"] = << >> /\ ops["nand"] = << >> /\ reg["nand"] = NULL
    BY <1>4, FilesMeansRest DEF GameFiles
  <1>6. OneTask'
    BY <1>1 DEF OneTask, Off, TT!NoRequest, TT!Blank
  <1>7. GameInv'
    <2>1. Rests'
      BY <1>1, <1>5 DEF Rests, HasNone, Off, TT!NoRequest
    <2>2. GameIdle' \/ GameFiles'
      <3>1. \A f \in FileOps \cup {<< >>} : f # <<Reset("NandError")>>
        BY DEF FileOps, Set, Reset, Exists
      <3>2. QED BY <1>1, <1>5, <3>1 DEF GameIdle, GameFiles, Turn
    <2>3. QED BY <1>1, <1>5, <2>1, <2>2 DEF GameInv, Rests
  <1>8. WordInv'
    <2>1. reg["game"] = NULL
      BY DEF WordInv, Turn, Actor
    <2>2. QED BY <1>1, <1>5, <2>1 DEF WordInv, Actor
  <1>9. ExistInv'
    <2> SUFFICES ASSUME NEW f \in {"save", "banner"}
                 PROVE  /\ Exists(f) \in flags
                             => file'[f] # "none" \/ \E p \in Actor : ops'[p] = <<Reset(Exists(f))>>
                        /\ \A p \in Actor : ops'[p] = <<Set(Exists(f))>> => file'[f] # "none"
      BY <1>1 DEF ExistInv
    <2>1. /\ file[f] # "none" /\ file'[f] = "none" => ops'["game"] = <<Reset(Exists(f))>>
          /\ ops'["game"] = <<Set(Exists(f))>> => file'[f] # "none"
      BY DEF Turn, FileChange
    <2>2. << >> # <<Reset(Exists(f))>> /\ << >> # <<Set(Exists(f))>> /\ ops["game"] = << >>
      BY DEF Turn
    <2>3. QED BY <1>1, <1>5, <2>1, <2>2 DEF ExistInv, Actor
  <1>10. TempInv'
    <2>1. TempSafe("game")'
      BY <1>1 DEF TempInv, Turn
    <2>2. TempSafe("nand")'
      BY <1>1, <1>5 DEF TempSafe
    <2>3. QED BY <2>1, <2>2 DEF TempInv, Actor
  <1>11. SaveInv'
    BY <1>1, <1>5 DEF SaveInv
  <1>12. QED BY <1>3, <1>6, <1>7, <1>8, <1>9, <1>10, <1>11

(* Nothing of the game thread's phase depends on the words loaded. *)
LEMMA LoadStep ==
    ASSUME SaveDataInv, NEW p \in Actor, Load(p)
    PROVE  SaveDataInv'
  <1> USE DEF SaveDataInv, threadVars, nandVars
  <1>1. /\ UNCHANGED <<pTask, mesgQueue, endQueue, pc, currentJob, request, flags, window, prog, ops>>
        /\ UNCHANGED <<file, code>> /\ ops[p] # << >>
        /\ reg' = [reg EXCEPT ![p] = flags]
    BY DEF Load
  <1>2. MachineOK'
    BY <1>1 DEF MachineOK
  <1>3. ThreadOK'
    BY <1>1 DEF ThreadOK, TT!JobTypeOK, TT!Slot
  <1>4. OneTask'
    BY <1>1 DEF OneTask, Off, TT!NoRequest, TT!Blank
  <1>5. /\ GameSaves => GameSaves'
        /\ GameIdle' <=> GameIdle
        /\ GameBegins => GameBegins'
        /\ GameFinishes => GameFinishes'
        /\ GameOwnFlags => GameOwnFlags'
        /\ GameFiles => GameFiles'
        /\ Rests => Rests'
        /\ SaveInHand => SaveInHand'
    BY <1>1 DEF GameSaves, GameIdle, GameBegins, GameFinishes, GameOwnFlags, GameFiles, Rests, HasNone,
                Off, TT!NoRequest, SaveInHand, SaveTask
  <1>6. GameInv'
    BY <1>1, <1>5 DEF GameInv, TT!NoRequest
  <1>7. WordInv'
    BY <1>1, <1>5 DEF WordInv, MachineOK, Actor
  <1>8. ExistInv'
    BY <1>1 DEF ExistInv
  <1>9. TempInv'
    BY <1>1 DEF TempInv, TempSafe, TempAt, Erring
  <1>10. SaveInv'
    BY <1>1 DEF SaveInv, SaveSafe, Excused, Erring
  <1>11. QED BY <1>2, <1>3, <1>4, <1>6, <1>7, <1>8, <1>9, <1>10

(* One operation on the flags. *)
LEMMA OneBit ==
    ASSUME NEW op \in BitOp, NEW word \in SUBSET Flag
    PROVE  /\ Applied(op, word) \in SUBSET Flag
           /\ \A b : b # op[2] => (b \in Applied(op, word) <=> b \in word)
           /\ op[1] = "set" => op[2] \in Applied(op, word)
           /\ op[1] = "reset" => op[2] \notin Applied(op, word)
  BY DEF Applied, BitOp

LEMMA OpNames ==
    /\ \A b \in Flag : /\ Set(b) \in BitOp /\ Set(b)[1] = "set" /\ Set(b)[2] = b
                       /\ Reset(b) \in BitOp /\ Reset(b)[1] = "reset" /\ Reset(b)[2] = b
    /\ \A a, b \in Flag : Set(a) # Reset(b)
    /\ \A a, b \in Flag : a # b => Set(a) # Set(b) /\ Reset(a) # Reset(b)
  BY DEF Set, Reset, BitOp

LEMMA WordStored ==
    ASSUME SaveDataInv, NEW p \in Actor, Store(p)
    PROVE  /\ ops[p] # << >> /\ Head(ops[p]) \in BitOp /\ reg[p] \in SUBSET Flag
           /\ flags' = Applied(Head(ops[p]), reg[p]) /\ flags' \in SUBSET Flag
           /\ ops' = [ops EXCEPT ![p] = Tail(ops[p])] /\ ops' \in [Actor -> Seq(BitOp)]
           /\ ops'[p] = Tail(ops[p]) /\ \A q \in Actor : q # p => ops'[q] = ops[q]
           /\ reg' = [reg EXCEPT ![p] = NULL] /\ reg'[p] = NULL
           /\ \A q \in Actor : q # p => reg'[q] = reg[q]
           /\ UNCHANGED <<pTask, mesgQueue, endQueue, pc, currentJob, request, window, prog, file, code>>
           /\ MachineOK' /\ ThreadOK'
  <1> USE DEF SaveDataInv, threadVars, nandVars
  <1>1. /\ reg[p] # NULL /\ flags' = Applied(Head(ops[p]), reg[p])
        /\ ops' = [ops EXCEPT ![p] = Tail(ops[p])] /\ reg' = [reg EXCEPT ![p] = NULL]
        /\ UNCHANGED <<pTask, mesgQueue, endQueue, pc, currentJob, request, window, prog, file, code>>
    BY DEF Store
  <1>2. ops[p] # << >> /\ reg[p] \in SUBSET Flag /\ ops[p] \in Seq(BitOp)
    <2>1. ops[p] # << >>
      BY <1>1 DEF WordInv
    <2>2. reg[p] \in (SUBSET Flag) \cup {NULL}
      BY DEF MachineOK
    <2>3. ops[p] \in Seq(BitOp)
      BY DEF MachineOK
    <2>4. QED BY <1>1, <2>1, <2>2, <2>3
  <1>3. Head(ops[p]) \in BitOp /\ Tail(ops[p]) \in Seq(BitOp)
    BY <1>2, TailType
  <1>4. flags' \in SUBSET Flag
    BY <1>1, <1>2, <1>3, OneBit
  <1>5. ops' \in [Actor -> Seq(BitOp)] /\ reg' \in [Actor -> (SUBSET Flag) \cup {NULL}]
    <2>1. ops' \in [Actor -> Seq(BitOp)]
      BY <1>1, <1>3 DEF MachineOK
    <2>2. NULL \in (SUBSET Flag) \cup {NULL}
      OBVIOUS
    <2>3. reg \in [Actor -> (SUBSET Flag) \cup {NULL}]
      BY DEF MachineOK
    <2>4. QED BY <1>1, <2>1, <2>2, <2>3
  <1>6. MachineOK'
    BY <1>1, <1>4, <1>5 DEF MachineOK
  <1>7. ThreadOK'
    BY <1>1 DEF ThreadOK, TT!JobTypeOK, TT!Slot
  <1>8. /\ ops'[p] = Tail(ops[p]) /\ \A q \in Actor : q # p => ops'[q] = ops[q]
        /\ reg'[p] = NULL /\ \A q \in Actor : q # p => reg'[q] = reg[q]
    BY <1>1 DEF MachineOK
  <1>9. QED BY <1>1, <1>2, <1>3, <1>4, <1>5, <1>6, <1>7, <1>8

(* What a file program's operation does to the flags it does not name. *)
LEMMA FileOp ==
    ASSUME NEW s \in FileOps
    PROVE  /\ s # << >> /\ Tail(s) = << >> /\ s = <<Head(s)>>
           /\ Head(s) \in BitOp
           /\ Head(s)[2] \in {"NandError", "NandMemoryExist", "SaveFileExist", "BannerFileExist"}
           /\ Head(s)[2] = "NandError" => s = Error /\ Head(s)[1] = "set"
           /\ \A f \in {"save", "banner"} :
                 Head(s)[2] = Exists(f) => s \in {<<Set(Exists(f))>>, <<Reset(Exists(f))>>}
  <1>1. PICK op \in {Set("NandError"), Set("NandMemoryExist"), Reset("NandMemoryExist"),
                     Set("SaveFileExist"), Reset("SaveFileExist"),
                     Set("BannerFileExist"), Reset("BannerFileExist")} : s = <<op>>
    BY DEF FileOps, Exists
  <1>2. s # << >> /\ Head(s) = op /\ Tail(s) = << >>
    BY <1>1, OneStep
  <1>3. op \in BitOp
    BY OpNames DEF Flag
  <1>4. QED BY <1>1, <1>2, <1>3 DEF Set, Reset, Exists, Error

(* The files' bits under a store by p, whose word is up to date in them.   *)
LEMMA StoreExist ==
    ASSUME SaveDataInv, NEW p \in Actor, Store(p),
           ops[p] \in FileOps,
           \A f \in {"save", "banner"} : Exists(f) \in reg[p] <=> Exists(f) \in flags
    PROVE  ExistInv'
  <1>1. /\ flags' = Applied(Head(ops[p]), reg[p]) /\ reg[p] \in SUBSET Flag
        /\ ops'[p] = Tail(ops[p]) /\ \A q \in Actor : q # p => ops'[q] = ops[q]
        /\ file' = file
    BY WordStored
  <1>2. ops'[p] = << >> /\ ops[p] = <<Head(ops[p])>>
    BY <1>1, FileOp
  <1> SUFFICES ASSUME NEW f \in {"save", "banner"}
               PROVE  /\ Exists(f) \in flags'
                           => file[f] # "none" \/ \E q \in Actor : ops'[q] = <<Reset(Exists(f))>>
                      /\ \A q \in Actor : ops'[q] = <<Set(Exists(f))>> => file[f] # "none"
    BY <1>1 DEF ExistInv
  <1>3. /\ Exists(f) \in flags => file[f] # "none" \/ \E q \in Actor : ops[q] = <<Reset(Exists(f))>>
        /\ \A q \in Actor : ops[q] = <<Set(Exists(f))>> => file[f] # "none"
    BY DEF SaveDataInv, ExistInv
  <1>4. \A q \in Actor : ops'[q] = <<Set(Exists(f))>> => file[f] # "none"
    <2>1. << >> # <<Set(Exists(f))>>
      OBVIOUS
    <2>2. QED BY <1>1, <1>2, <1>3, <2>1
  <1>5. CASE ops[p] = <<Reset(Exists(f))>>
    <2>1. Head(ops[p]) = Reset(Exists(f)) /\ Exists(f) \in Flag
      BY <1>5, OneStep DEF Exists, Flag
    <2>2. Exists(f) \notin flags'
      BY <1>1, <2>1, OneBit, OpNames
    <2>3. QED BY <1>4, <2>2
  <1>6. CASE ops[p] = <<Set(Exists(f))>>
    BY <1>3, <1>4, <1>6
  <1>7. CASE ops[p] \notin {<<Set(Exists(f))>>, <<Reset(Exists(f))>>}
    <2>1. Head(ops[p])[2] # Exists(f) /\ Head(ops[p]) \in BitOp
      BY <1>7, FileOp
    <2>2. Exists(f) \in flags' <=> Exists(f) \in flags
      BY <1>1, <2>1, OneBit
    <2>3. QED BY <1>1, <1>3, <1>4, <1>7, <2>2
  <1>8. QED BY <1>5, <1>6, <1>7

(* The other flags are left alone, so are the files: nothing else changes. *)
LEMMA OtherExist ==
    ASSUME SaveDataInv, NEW p \in Actor, Store(p), ops["nand"] = << >>, p = "game",
           \A f \in {"save", "banner"} : Exists(f) \in reg[p] <=> Exists(f) \in flags,
           Head(ops[p])[2] \notin {"SaveFileExist", "BannerFileExist"},
           \A f \in {"save", "banner"} : Tail(ops[p]) # <<Set(Exists(f))>>
    PROVE  ExistInv'
  <1>1. /\ flags' = Applied(Head(ops[p]), reg[p]) /\ reg[p] \in SUBSET Flag
        /\ ops'[p] = Tail(ops[p]) /\ \A q \in Actor : q # p => ops'[q] = ops[q]
        /\ file' = file /\ Head(ops[p]) \in BitOp /\ ops[p] # << >>
    BY WordStored
  <1> SUFFICES ASSUME NEW f \in {"save", "banner"}
               PROVE  /\ Exists(f) \in flags' => file[f] # "none"
                      /\ \A q \in Actor : ops'[q] = <<Set(Exists(f))>> => file[f] # "none"
    BY <1>1 DEF ExistInv
  <1>2. Exists(f) \in {"SaveFileExist", "BannerFileExist"} /\ Exists(f) \in Flag
    BY DEF Exists, Flag
  <1>3. Exists(f) \in flags' <=> Exists(f) \in flags
    BY <1>1, <1>2, OneBit
  <1>4. \A q \in Actor : ops[q] # <<Reset(Exists(f))>>
    <2>1. ops[p] # <<Reset(Exists(f))>>
      BY <1>2, OneStep, OpNames
    <2>2. ops["nand"] # <<Reset(Exists(f))>>
      OBVIOUS
    <2>3. QED BY <2>1, <2>2 DEF Actor
  <1>5. \A q \in Actor : ops'[q] # <<Set(Exists(f))>>
    <2>1. ops'["nand"] # <<Set(Exists(f))>>
      BY <1>1 DEF Actor
    <2>2. QED BY <1>1, <2>1 DEF Actor
  <1>6. QED BY <1>3, <1>4, <1>5 DEF SaveDataInv, ExistInv

(* The NAND thread stores a word, which is the current one. *)
LEMMA StoreNand ==
    ASSUME SaveDataInv, Store("nand")
    PROVE  SaveDataInv'
  <1> USE DEF SaveDataInv
  <1>1. "nand" \in Actor /\ "game" \in Actor /\ "nand" # "game"
    BY DEF Actor
  <1>2. /\ ops["nand"] # << >> /\ flags' = Applied(Head(ops["nand"]), reg["nand"])
        /\ ops'["nand"] = Tail(ops["nand"]) /\ ops'["game"] = ops["game"]
        /\ reg'["nand"] = NULL /\ reg'["game"] = reg["game"]
        /\ UNCHANGED <<pTask, mesgQueue, endQueue, pc, currentJob, request, window, prog, file, code>>
        /\ MachineOK' /\ ThreadOK'
    BY <1>1, WordStored
  <1>3. /\ pc = "running" /\ ~Off /\ reg["nand"] = flags /\ flags \in SUBSET Flag
        /\ ops["nand"] \in FileOps
    BY <1>1, <1>2 DEF Store, Runs, Off, WordInv, OneTask, MachineOK
  <1> DEFINE op == Head(ops["nand"])
  <1>4. /\ ops'["nand"] = << >> /\ op \in BitOp
        /\ op[2] \in {"NandError", "NandMemoryExist", "SaveFileExist", "BannerFileExist"}
        /\ op[2] = "NandError" => ops["nand"] = Error /\ op[1] = "set"
    BY <1>2, <1>3, FileOp
  <1>5. /\ \A b : b # op[2] => (b \in flags' <=> b \in flags)
        /\ op[1] = "set" => op[2] \in flags'
    BY <1>2, <1>3, <1>4, OneBit
  <1>6. /\ \A b \in {"NandAccess", "AsyncSave", "DisableSave", "ErrorWindow"} :
               b \in flags' <=> b \in flags
        /\ "NandError" \in flags => "NandError" \in flags'
        /\ ops["nand"] = Error => "NandError" \in flags'
    <2>1. Error = <<Set("NandError")>> /\ "NandError" \in Flag
      BY DEF Error, Flag
    <2>2. ops["nand"] = Error => op[1] = "set" /\ op[2] = "NandError"
      BY <2>1, OneStep, OpNames
    <2>3. QED BY <1>4, <1>5, <2>2
  <1>7. "NandAccess" \in flags /\ (GameIdle \/ GameSaves)
        /\ \A p \in Actor : prog[p] # << >> /\ Head(prog[p]) \in TempSteps => p = "nand"
    BY <1>3, TaskMeansAccess
  <1>8. OneTask'
    BY <1>2, <1>4 DEF OneTask, Off, TT!NoRequest, TT!Blank
  <1>9. /\ SaveInHand => SaveInHand'
        /\ GameIdle => GameIdle'
        /\ GameSaves => GameSaves'
    <2>1. SaveInHand => SaveInHand'
      BY <1>2, <1>4 DEF SaveInHand, SaveTask, Off, TT!NoRequest
    <2>2. QED BY <1>2, <1>6, <2>1 DEF GameSaves, GameIdle, Off
  <1>10. GameInv'
    <2>1. request' = request /\ request = TT!NoRequest /\ TT!NoRequest' = TT!NoRequest
      BY <1>2, <1>3 DEF OneTask, TT!NoRequest
    <2>2. "AsyncSave" \in flags => SaveInHand
      BY DEF GameInv
    <2>3. QED BY <1>6, <1>7, <1>9, <2>1, <2>2 DEF GameInv
  <1>11. WordInv'
    <2> SUFFICES ASSUME reg["game"] # NULL
                 PROVE  ThreadFirst /\ GameSaves' /\ reg["game"] \cup {"NandError"} = flags' \cup {"NandError"}
      <3>1. reg["game"] # NULL => ops["game"] # << >>
        BY <1>1 DEF WordInv
      <3>2. QED BY <1>2, <3>1 DEF WordInv, Actor
    <2>1. ops["game"] # << >>
      BY <1>1 DEF WordInv
    <2>2. GameSaves
      BY <1>7, <2>1 DEF GameIdle
    <2>3. ThreadFirst
      BY <1>3, <2>2 DEF GameSaves
    <2>4. ops["nand"] = Error
      BY <1>2, <2>2 DEF GameSaves, SaveInHand
    <2>5. flags' = flags \cup {"NandError"}
      <3>1. op = Set("NandError")
        BY <2>4, OneStep DEF Error
      <3>2. QED BY <1>2, <1>3, <3>1 DEF Applied, Set
    <2>6. reg["game"] \cup {"NandError"} = flags \cup {"NandError"}
      BY DEF WordInv
    <2>7. QED BY <1>9, <2>2, <2>3, <2>5, <2>6
  <1>12. ExistInv'
    BY <1>1, <1>3, StoreExist
  <1>13. TempInv'
    <2>1. Erring("nand") => Erring("nand")'
      BY <1>6 DEF Erring
    <2>2. TempSafe("nand")'
      BY <1>1, <1>2, <1>6, <2>1 DEF TempInv, TempSafe, TempAt
    <2>3. TempSafe("game")'
      BY <1>1, <1>2, <1>7 DEF TempSafe, TempAt
    <2>4. QED BY <2>2, <2>3 DEF TempInv, Actor
  <1>14. SaveInv'
    <2>1. pc' # "returned" /\ endQueue' = << >> /\ "NandAccess" \in flags'
          /\ ops'["game"] # <<Reset("NandAccess")>>
      <3>1. ops["game"] # <<Reset("NandAccess")>>
        BY <1>7 DEF GameIdle, GameSaves, SaveOnOps, Set, Reset
      <3>2. QED BY <1>2, <1>3, <1>6, <1>7, <3>1 DEF OneTask
    <2>2. Excused("nand") => Excused("nand")'
      BY <1>6 DEF Excused, Erring
    <2>3. SaveSafe("nand") => SaveSafe("nand")'
      BY <1>2, <2>2 DEF SaveSafe
    <2>4. QED BY <1>2, <1>3, <1>6, <2>1, <2>3 DEF SaveInv
  <1>15. QED BY <1>2, <1>8, <1>10, <1>11, <1>12, <1>13, <1>14

(* While the game thread runs in the middle of something, the NAND thread  *)
(* has no operation on the flags left.                                     *)
LEMMA GameAlone ==
    ASSUME SaveDataInv, Runs("game"), ~GameIdle
    PROVE  /\ ops["nand"] = << >> /\ reg["nand"] = NULL
           /\ ~ThreadFirst => Off
  <1> USE DEF SaveDataInv
  <1>1. ops["nand"] = << >>
    <2>1. CASE ThreadFirst
      BY <2>1 DEF Runs, TT!ThreadBlocked, OneTask, Blocked
    <2>2. CASE ~ThreadFirst
      BY <2>2, TaskMeansAccess DEF GameSaves, OneTask, Off
    <2>3. QED BY <2>1, <2>2
  <1>2. ~ThreadFirst => Off
    BY TaskMeansAccess DEF GameSaves
  <1>3. QED BY <1>1, <1>2 DEF WordInv, Actor

(* What the game thread stores, whatever it is in the middle of. *)
LEMMA GameStores ==
    ASSUME SaveDataInv, Store("game")
    PROVE  /\ ops["nand"] = << >> /\ (~ThreadFirst => Off) /\ ~GameIdle
           /\ reg["game"] = flags \/ GameSaves
           /\ \A b \in Flag \ {"NandError"} : b \in reg["game"] <=> b \in flags
           /\ OneTask' /\ WordInv'
  <1> USE DEF SaveDataInv
  <1>1. "nand" \in Actor /\ "game" \in Actor /\ "nand" # "game"
    BY DEF Actor
  <1>2. /\ ops["game"] # << >> /\ reg'["game"] = NULL /\ reg'["nand"] = reg["nand"]
        /\ ops'["nand"] = ops["nand"] /\ reg["game"] # NULL
        /\ UNCHANGED <<pTask, mesgQueue, endQueue, pc, currentJob, request, prog>>
    BY <1>1, WordStored DEF Store
  <1>3. ~GameIdle /\ Runs("game")
    BY <1>2 DEF GameIdle, Store
  <1>4. ops["nand"] = << >> /\ reg["nand"] = NULL /\ (~ThreadFirst => Off)
    BY <1>3, GameAlone
  <1>5. OneTask'
    BY <1>2, <1>4 DEF OneTask, Off, TT!NoRequest, TT!Blank
  <1>6. WordInv'
    BY <1>2, <1>4 DEF WordInv, Actor
  <1>7. /\ reg["game"] = flags \/ GameSaves
        /\ \A b \in Flag \ {"NandError"} : b \in reg["game"] <=> b \in flags
    BY <1>2 DEF WordInv
  <1>8. QED BY <1>3, <1>4, <1>5, <1>6, <1>7

(***************************************************************************)
(* A store of the game thread, by what the thread is in the middle of.     *)
(***************************************************************************)
GameStored ==
    /\ ops["game"] # << >> /\ flags' = Applied(Head(ops["game"]), reg["game"])
    /\ reg["game"] \in SUBSET Flag /\ Head(ops["game"]) \in BitOp
    /\ ops'["game"] = Tail(ops["game"]) /\ ops'["nand"] = ops["nand"] /\ ops["nand"] = << >>
    /\ UNCHANGED <<pTask, mesgQueue, endQueue, pc, currentJob, request, window, prog, file, code>>
    /\ \A b \in Flag \ {"NandError"} : b \in reg["game"] <=> b \in flags
    /\ MachineOK' /\ ThreadOK' /\ OneTask' /\ WordInv'

LEMMA GameStoredHolds == ASSUME SaveDataInv, Store("game") PROVE GameStored
  BY WordStored, GameStores DEF GameStored, Actor

(* An operation on a bit that says nothing of the files. *)
LEMMA StoredExist ==
    ASSUME SaveDataInv, Store("game"),
           Head(ops["game"])[2] \notin {"SaveFileExist", "BannerFileExist"},
           \A f \in {"save", "banner"} : Tail(ops["game"]) # <<Set(Exists(f))>>
    PROVE  ExistInv'
  <1>1. \A f \in {"save", "banner"} : Exists(f) \in Flag \ {"NandError"}
    BY DEF Exists, Flag
  <1>2. "game" \in Actor
    BY DEF Actor
  <1>3. QED BY <1>1, <1>2, GameStoredHolds, OtherExist DEF GameStored

LEMMA FlagStored ==
    ASSUME GameStored, NEW b \in Flag, Head(ops["game"]) = Set(b)
    PROVE  b \in flags' /\ \A c \in Flag \ {b, "NandError"} : c \in flags' <=> c \in flags
  BY OneBit, OpNames DEF GameStored

LEMMA FlagReset ==
    ASSUME GameStored, NEW b \in Flag, Head(ops["game"]) = Reset(b)
    PROVE  b \notin flags' /\ \A c \in Flag \ {b, "NandError"} : c \in flags' <=> c \in flags
  BY OneBit, OpNames DEF GameStored

LEMMA StoreBegins ==
    ASSUME SaveDataInv, Store("game"), GameBegins
    PROVE  SaveDataInv'
  <1> USE DEF SaveDataInv
  <1>1. GameStored
    BY GameStoredHolds
  <1>2. PICK t \in Task :
          /\ RequestProgram(prog["game"], t)
          /\ \/ ops["game"] = <<Set("NandAccess"), Reset("NandError")>> /\ "NandAccess" \notin flags
             \/ ops["game"] = <<Reset("NandError")>> /\ "NandAccess" \in flags /\ Rests
    BY <1>1 DEF GameBegins, GameStored
  <1>3. "AsyncSave" \notin flags /\ Rests
    BY <1>2 DEF GameBegins, GameInv
  <1>4. Rests' /\ HasNone' /\ TT!NoRequest' = TT!NoRequest
    BY <1>1, <1>3 DEF GameStored, Rests, HasNone, Off, TT!NoRequest
  <1>5. "NandAccess" \in Flag /\ "NandError" \in Flag /\ "AsyncSave" \in Flag
    BY DEF Flag
  <1>6. /\ "NandAccess" \in flags' /\ "AsyncSave" \notin flags'
        /\ ops'["game"] \in {<<Reset("NandError")>>, << >>}
        /\ Head(ops["game"])[2] \in {"NandAccess", "NandError"}
    <2>1. CASE ops["game"] = <<Set("NandAccess"), Reset("NandError")>>
      <3>1. Head(ops["game"]) = Set("NandAccess") /\ Tail(ops["game"]) = <<Reset("NandError")>>
        BY <2>1, TwoSteps
      <3>2. QED BY <1>1, <1>3, <1>5, <3>1, FlagStored, OpNames DEF GameStored
    <2>2. CASE ops["game"] = <<Reset("NandError")>> /\ "NandAccess" \in flags
      <3>1. Head(ops["game"]) = Reset("NandError") /\ Tail(ops["game"]) = << >>
        BY <2>2, OneStep
      <3>2. QED BY <1>1, <1>3, <1>5, <2>2, <3>1, FlagReset, OpNames DEF GameStored
    <2>3. QED BY <1>2, <2>1, <2>2
  <1>7. GameBegins'
    <2>1. RequestProgram(prog["game"], t)'
      BY <1>1, <1>2 DEF GameStored, RequestProgram
    <2>2. QED BY <1>4, <1>6, <2>1 DEF GameBegins, Rests
  <1>8. GameInv'
    BY <1>4, <1>6, <1>7 DEF GameInv, Rests
  <1>9. ExistInv'
    <2>1. \A f \in {"save", "banner"} : Tail(ops["game"]) # <<Set(Exists(f))>>
      BY <1>1, <1>6 DEF GameStored, Set, Reset, Exists
    <2>2. QED BY <1>6, <2>1, StoredExist
  <1>10. TempInv'
    <2>1. prog["nand"] = << >>
      BY <1>3 DEF OneTask, Rests, HasNone, Off
    <2>2. prog["game"] # << >> => Head(prog["game"]) \notin TempSteps
      BY <1>2 DEF RequestProgram, TempSteps, SavingSteps, HomeSteps
    <2>3. QED BY <1>1, <2>1, <2>2 DEF GameStored, TempInv, TempSafe, TempAt, Actor
  <1>11. SaveInv'
    BY <1>6 DEF SaveInv
  <1>12. QED BY <1>1, <1>8, <1>9, <1>10, <1>11 DEF GameStored

LEMMA StoreSaves ==
    ASSUME SaveDataInv, Store("game"), GameSaves
    PROVE  SaveDataInv'
  <1> USE DEF SaveDataInv
  <1>1. GameStored
    BY GameStoredHolds
  <1>2. prog["game"] = << >> /\ ops["game"] \in SaveOnOps /\ "NandAccess" \in flags /\ SaveInHand
        /\ (~ThreadFirst => Off /\ endQueue = << >>)
    BY <1>1 DEF GameSaves, GameStored
  <1>3. {"NandAccess", "NandError", "AsyncSave", "ErrorWindow"} \subseteq Flag
    BY DEF Flag
  <1>4. /\ "NandAccess" \in flags'
        /\ ops'["game"] \in {<<Reset("ErrorWindow")>>, << >>}
        /\ Head(ops["game"])[2] \in {"AsyncSave", "ErrorWindow"}
    <2>1. CASE ops["game"] = <<Set("AsyncSave"), Reset("ErrorWindow")>>
      <3>1. Head(ops["game"]) = Set("AsyncSave") /\ Tail(ops["game"]) = <<Reset("ErrorWindow")>>
        BY <2>1, TwoSteps
      <3>2. QED BY <1>1, <1>2, <1>3, <3>1, FlagStored, OpNames DEF GameStored
    <2>2. CASE ops["game"] = <<Reset("ErrorWindow")>>
      <3>1. Head(ops["game"]) = Reset("ErrorWindow") /\ Tail(ops["game"]) = << >>
        BY <2>2, OneStep
      <3>2. QED BY <1>1, <1>2, <1>3, <3>1, FlagReset, OpNames DEF GameStored
    <2>3. QED BY <1>2, <2>1, <2>2 DEF SaveOnOps
  <1>5. SaveInHand'
    BY <1>1, <1>2 DEF GameStored, SaveInHand, SaveTask, Off, TT!NoRequest
  <1>6. GameIdle' \/ GameSaves'
    BY <1>1, <1>2, <1>4, <1>5 DEF GameStored, GameIdle, GameSaves, SaveOnOps, Off
  <1>7. GameInv'
    <2>1. request' = TT!NoRequest'
      BY <1>5 DEF SaveInHand
    <2>2. QED BY <1>4, <1>5, <1>6, <2>1 DEF GameInv
  <1>8. ExistInv'
    <2>1. \A f \in {"save", "banner"} : Tail(ops["game"]) # <<Set(Exists(f))>>
      BY <1>1, <1>4 DEF GameStored, Set, Reset, Exists
    <2>2. QED BY <1>4, <2>1, StoredExist
  <1>9. TempInv'
    <2>1. \A h \in SavingSteps("save") \cup SavingSteps("banner") : h \notin TempSteps
      BY DEF SavingSteps, TempSteps, HomeSteps
    <2>2. prog["nand"] # << >> => Head(prog["nand"]) \notin TempSteps
      BY <1>2, <2>1 DEF SaveInHand, SavingProgram
    <2>3. QED BY <1>1, <1>2, <2>2 DEF GameStored, TempInv, TempSafe, TempAt, Actor
  <1>10. SaveInv'
    <2>1. ops'["game"] # <<Reset("NandAccess")>>
      <3>1. Reset("ErrorWindow") # Reset("NandAccess")
        BY DEF Reset
      <3>2. << >> # <<Reset("NandAccess")>>
        OBVIOUS
      <3>3. <<Reset("ErrorWindow")>> # <<Reset("NandAccess")>>
        BY <3>1
      <3>4. QED BY <1>4, <3>2, <3>3
    <2>2. ~ThreadFirst => pc' # "running" /\ pc' # "returned" /\ endQueue' = << >>
      BY <1>1, <1>2 DEF GameStored, Off
    <2>3. QED BY <1>4, <2>1, <2>2 DEF SaveInv
  <1>11. QED BY <1>1, <1>7, <1>8, <1>9, <1>10 DEF GameStored

LEMMA StoreFinishes ==
    ASSUME SaveDataInv, Store("game"), GameFinishes
    PROVE  SaveDataInv'
  <1> USE DEF SaveDataInv
  <1>1. GameStored /\ reg["game"] = flags
    <2>1. ~GameSaves
      BY DEF GameSaves, GameFinishes, SaveOnOps, Set, Reset
    <2>2. QED BY <2>1, GameStoredHolds, GameStores
  <1>2. prog["game"] = << >> /\ ops["game"] = <<Reset("NandAccess")>> /\ "NandAccess" \in flags /\ Rests
    BY DEF GameFinishes
  <1>3. "NandAccess" \in Flag /\ Reset("NandAccess") \in BitOp
    BY OpNames DEF Flag
  <1>4. Head(ops["game"]) = Reset("NandAccess") /\ ops'["game"] = << >>
    BY <1>1, <1>2, OneStep DEF GameStored
  <1>5. "NandAccess" \notin flags' /\ \A b : b # "NandAccess" => (b \in flags' <=> b \in flags)
    BY <1>1, <1>3, <1>4, OneBit, OpNames DEF GameStored
  <1>6. Rests'
    BY <1>1, <1>2 DEF GameStored, Rests, HasNone, Off, TT!NoRequest
  <1>7. GameInv'
    <2>1. SaveInHand => SaveInHand'
      BY <1>1 DEF GameStored, SaveInHand, SaveTask, Off, TT!NoRequest
    <2>2. GameIdle'
      BY <1>1, <1>2, <1>4 DEF GameStored, GameIdle
    <2>3. QED BY <1>5, <1>6, <2>1, <2>2 DEF GameInv, Rests
  <1>8. ExistInv'
    <2>1. \A f \in {"save", "banner"} : Tail(ops["game"]) # <<Set(Exists(f))>>
      <3>1. Tail(ops["game"]) = << >>
        BY <1>1, <1>4 DEF GameStored
      <3>2. \A f \in {"save", "banner"} : << >> # <<Set(Exists(f))>>
        OBVIOUS
      <3>3. QED BY <3>1, <3>2
    <2>2. Head(ops["game"])[2] \notin {"SaveFileExist", "BannerFileExist"}
      BY <1>3, <1>4, OpNames
    <2>3. QED BY <2>1, <2>2, StoredExist
  <1>9. TempInv'
    <2>1. prog["nand"] = << >>
      BY <1>2 DEF OneTask, Rests, HasNone, Off
    <2>2. QED BY <1>1, <1>2, <2>1 DEF GameStored, TempInv, TempSafe, Actor
  <1>10. SaveInv'
    <2>1. pc' # "running"
      BY <1>1, <1>2 DEF GameStored, Rests, HasNone, Off
    <2>2. QED BY <1>1, <1>2, <1>5, <2>1 DEF GameStored, SaveInv
  <1>11. QED BY <1>1, <1>7, <1>8, <1>9, <1>10 DEF GameStored

LEMMA ThreeSteps ==
    ASSUME NEW a, NEW b, NEW c
    PROVE  Head(<<a, b, c>>) = a /\ Tail(<<a, b, c>>) = <<b, c>> /\ <<a>> \o <<b, c>> = <<a, b, c>>
  <1> DEFINE S == {a, b, c}
             s == <<a, b, c>>
             t == <<b, c>>
  <1>1. s \in Seq(S) /\ t \in Seq(S) /\ <<a>> \in Seq(S) /\ Len(s) = 3 /\ Len(t) = 2
    OBVIOUS
  <1>2. Len(Tail(s)) = 2 /\ Tail(s) \in Seq(S)
    BY <1>1
  <1>3. \A i \in 1 .. 2 : Tail(s)[i] = s[i + 1] /\ s[i + 1] = t[i]
    BY <1>1
  <1>4. Tail(s) = t
    BY <1>1, <1>2, <1>3
  <1>5. <<a>> \o t = s
    <2>1. <<a>> \o t \in Seq(S) /\ Len(<<a>> \o t) = 3
      BY <1>1
    <2>2. (<<a>> \o t)[1] = a /\ (<<a>> \o t)[2] = b /\ (<<a>> \o t)[3] = c
      BY <1>1
    <2>3. \A i \in 1 .. 3 : (<<a>> \o t)[i] = s[i]
      BY <2>2
    <2>4. QED BY <1>1, <2>1, <2>3, SeqEqual
  <1>6. Head(s) = a
    OBVIOUS
  <1>7. QED BY <1>4, <1>5, <1>6

LEMMA OwnNames ==
    ASSUME NEW s \in OwnOps
    PROVE  \/ s = <<Set("ErrorWindow")>> /\ Head(s) = Set("ErrorWindow") /\ Tail(s) = << >>
           \/ s = <<Set("DisableSave")>> /\ Head(s) = Set("DisableSave") /\ Tail(s) = << >>
           \/ s = <<Reset("DisableSave")>> /\ Head(s) = Reset("DisableSave") /\ Tail(s) = << >>
           \/ s = <<Reset("ErrorWindow")>> /\ Head(s) = Reset("ErrorWindow") /\ Tail(s) = << >>
           \/ s = Over /\ Head(s) = Reset("AsyncSave") /\ Tail(s) = <<Reset("ErrorWindow")>>
           \/ /\ s = <<Set("DisableSave")>> \o Over
              /\ Head(s) = Set("DisableSave") /\ Tail(s) = Over
  <1>1. Over = <<Reset("AsyncSave"), Reset("ErrorWindow")>>
    BY DEF Over
  <1>2. CASE s \in {<<Set("ErrorWindow")>>, <<Set("DisableSave")>>, <<Reset("DisableSave")>>,
                   <<Reset("ErrorWindow")>>}
    BY <1>2, OneStep
  <1>3. CASE s = Over
    BY <1>1, <1>3, TwoSteps
  <1>4. CASE s = <<Set("DisableSave")>> \o Over
    <2>1. s = <<Set("DisableSave"), Reset("AsyncSave"), Reset("ErrorWindow")>>
      BY <1>1, <1>4, ThreeSteps
    <2>2. Head(s) = Set("DisableSave") /\ Tail(s) = Over
      BY <1>1, <2>1, ThreeSteps
    <2>3. QED BY <1>4, <2>2
  <1>5. QED BY <1>2, <1>3, <1>4 DEF OwnOps

LEMMA StoreOwn ==
    ASSUME SaveDataInv, Store("game"), GameOwnFlags
    PROVE  SaveDataInv'
  <1> USE DEF SaveDataInv
  <1>1. /\ "NandAccess" \notin flags /\ prog["game"] = << >> /\ ops["game"] \in OwnOps
        /\ ops["game"] = <<Reset("DisableSave")>> => "AsyncSave" \notin flags
    BY DEF GameOwnFlags
  <1>2. GameStored /\ reg["game"] = flags
    BY <1>1, GameStoredHolds, GameStores DEF GameSaves
  <1>3. Rests /\ prog["nand"] = << >>
    BY <1>1, FilesMeansRest
  <1> DEFINE s == ops["game"]
             op == Head(s)
  <1>4. \/ op \in {Set("ErrorWindow"), Set("DisableSave"), Reset("ErrorWindow"), Reset("AsyncSave")}
        \/ op = Reset("DisableSave") /\ "AsyncSave" \notin flags
    BY <1>1, OwnNames
  <1>5. Tail(s) \in {<< >>, <<Reset("ErrorWindow")>>, Over}
    BY <1>1, OwnNames
  <1>6. \A b \in {"ErrorWindow", "DisableSave", "AsyncSave"} :
           /\ Set(b)[1] = "set" /\ Set(b)[2] = b /\ Reset(b)[1] = "reset" /\ Reset(b)[2] = b
    BY DEF Set, Reset
  <1>7. \A b : b \notin {"ErrorWindow", "DisableSave", "AsyncSave"} => (b \in flags' <=> b \in flags)
    BY <1>2, <1>4, <1>6, OneBit DEF GameStored
  <1>8. "AsyncSave" \in flags' => "AsyncSave" \in flags /\ ("DisableSave" \in flags => "DisableSave" \in flags')
    <2>1. CASE op = Set("DisableSave")
      BY <1>2, <1>6, <2>1, OneBit DEF GameStored
    <2>2. CASE op \in {Set("ErrorWindow"), Reset("ErrorWindow")}
      BY <1>2, <1>6, <2>2, OneBit DEF GameStored
    <2>3. CASE op = Reset("AsyncSave")
      BY <1>2, <1>6, <2>3, OneBit DEF GameStored
    <2>4. CASE op = Reset("DisableSave") /\ "AsyncSave" \notin flags
      BY <1>2, <1>6, <2>4, OneBit DEF GameStored
    <2>5. QED BY <1>4, <2>1, <2>2, <2>3, <2>4
  <1>9. Rests'
    BY <1>2, <1>3 DEF GameStored, Rests, HasNone, Off, TT!NoRequest
  <1>10. GameInv'
    <2>1. SaveInHand => SaveInHand'
      BY <1>2 DEF GameStored, SaveInHand, SaveTask, Off, TT!NoRequest
    <2>2. GameIdle' \/ GameOwnFlags'
      <3>1. CASE Tail(s) = << >>
        BY <1>1, <1>2, <3>1 DEF GameStored, GameIdle
      <3>2. CASE Tail(s) \in {<<Reset("ErrorWindow")>>, Over}
        <4>1. <<Reset("ErrorWindow")>> # <<Reset("DisableSave")>>
          <5>1. Reset("ErrorWindow") # Reset("DisableSave")
            BY DEF Reset
          <5>2. QED BY <5>1
        <4>2. Over # <<Reset("DisableSave")>>
          BY DEF Over
        <4>3. QED BY <1>1, <1>2, <1>7, <3>2, <4>1, <4>2 DEF GameStored, GameOwnFlags, OwnOps
      <3>3. QED BY <1>5, <3>1, <3>2
    <2>3. QED BY <1>8, <1>9, <2>1, <2>2 DEF GameInv, Rests
  <1>11. ExistInv'
    <2>1. \A f \in {"save", "banner"} : Tail(s) # <<Set(Exists(f))>>
      <3> SUFFICES ASSUME NEW f \in {"save", "banner"} PROVE Tail(s) # <<Set(Exists(f))>>
        OBVIOUS
      <3>1. << >> # <<Set(Exists(f))>>
        OBVIOUS
      <3>2. Over # <<Set(Exists(f))>>
        BY DEF Over
      <3>3. <<Reset("ErrorWindow")>> # <<Set(Exists(f))>>
        <4>1. Reset("ErrorWindow") # Set(Exists(f))
          BY DEF Reset, Set
        <4>2. QED BY <4>1
      <3>4. QED BY <1>5, <3>1, <3>2, <3>3
    <2>2. op[2] \notin {"SaveFileExist", "BannerFileExist"}
      BY <1>4, <1>6
    <2>3. QED BY <2>1, <2>2, StoredExist
  <1>12. TempInv'
    BY <1>1, <1>2, <1>3 DEF GameStored, TempInv, TempSafe, Actor
  <1>13. SaveInv'
    <2>1. pc' # "running"
      BY <1>2, <1>3 DEF GameStored, Rests, HasNone, Off
    <2>2. "NandError" \in flags => "NandError" \in flags'
      BY <1>7
    <2>3. QED BY <1>1, <1>2, <1>8, <2>1, <2>2 DEF GameStored, SaveInv
  <1>14. QED BY <1>2, <1>10, <1>11, <1>12, <1>13 DEF GameStored

LEMMA StoreFiles ==
    ASSUME SaveDataInv, Store("game"), GameFiles
    PROVE  SaveDataInv'
  <1> USE DEF SaveDataInv
  <1> DEFINE s == ops["game"]
             op == Head(s)
  <1>1. "game" \in Actor
    BY DEF Actor
  <1>2. /\ "NandAccess" \notin flags /\ "AsyncSave" \notin flags
        /\ prog["game"] = << >> \/ FileProgram(prog["game"])
        /\ ops["game"] = <<Reset("NandError")>> => Head(prog["game"]) \notin TempSteps
    BY DEF GameFiles
  <1>3. GameStored /\ reg["game"] = flags
    BY <1>2, GameStoredHolds, GameStores DEF GameSaves
  <1>4. s \in FileOps \/ s = <<Reset("NandError")>>
    BY <1>3 DEF GameFiles, GameStored
  <1>5. Rests /\ prog["nand"] = << >>
    BY <1>2, FilesMeansRest
  <1>6. /\ Tail(s) = << >>
        /\ op[2] \in {"NandError", "NandMemoryExist", "SaveFileExist", "BannerFileExist"}
    <2>1. CASE s \in FileOps
      BY <2>1, FileOp
    <2>2. CASE s = <<Reset("NandError")>>
      BY <2>2, OneStep DEF Reset
    <2>3. QED BY <1>4, <2>1, <2>2
  <1>7. \A b : b # op[2] => (b \in flags' <=> b \in flags)
    BY <1>3, OneBit DEF GameStored
  <1>8. /\ "NandAccess" \notin flags' /\ "AsyncSave" \notin flags'
        /\ "DisableSave" \in flags' <=> "DisableSave" \in flags
    BY <1>2, <1>6, <1>7
  <1>9. Rests'
    BY <1>3, <1>5 DEF GameStored, Rests, HasNone, Off, TT!NoRequest
  <1>10. GameInv'
    <2>1. GameIdle' \/ GameFiles'
      <3>1. prog'["game"] = prog["game"] /\ ops'["game"] = << >>
        BY <1>3, <1>6 DEF GameStored
      <3>2. << >> # <<Reset("NandError")>>
        OBVIOUS
      <3>3. QED BY <1>2, <1>8, <3>1, <3>2 DEF GameIdle, GameFiles
    <2>2. QED BY <1>8, <1>9, <2>1 DEF GameInv, Rests
  <1>11. ExistInv'
    <2>1. CASE s \in FileOps
      BY <1>1, <1>3, <2>1, StoreExist
    <2>2. CASE s = <<Reset("NandError")>>
      <3>1. op[2] = "NandError"
        BY <2>2, OneStep DEF Reset
      <3>2. \A f \in {"save", "banner"} : << >> # <<Set(Exists(f))>>
        OBVIOUS
      <3>3. QED BY <1>6, <3>1, <3>2, StoredExist
    <2>3. QED BY <1>4, <2>1, <2>2
  <1>12. TempInv'
    <2>1. TempSafe("nand")'
      BY <1>3, <1>5 DEF GameStored, TempSafe
    <2>2. TempSafe("game")'
      <3>1. CASE s = <<Reset("NandError")>>
        BY <1>2, <1>3, <3>1 DEF GameStored, TempSafe, TempAt
      <3>2. CASE s \in FileOps
        <4>1. Erring("game") => Erring("game")'
          <5>1. op[2] = "NandError" => op[1] = "set"
            BY <3>2, FileOp
          <5>2. s = Error => op[2] = "NandError"
            <6>1. s = Error => op = Set("NandError")
              BY OneStep DEF Error
            <6>2. QED BY <6>1 DEF Set
          <5>3. op[2] = "NandError" => "NandError" \in flags'
            BY <1>3, <5>1, OneBit DEF GameStored
          <5>4. QED BY <1>7, <5>2, <5>3 DEF Erring
        <4>2. QED BY <1>1, <1>3, <1>8, <4>1 DEF GameStored, TempInv, TempSafe, TempAt
      <3>3. QED BY <1>4, <3>1, <3>2
    <2>3. QED BY <2>1, <2>2 DEF TempInv, Actor
  <1>13. SaveInv'
    BY <1>8 DEF SaveInv
  <1>14. QED BY <1>3, <1>10, <1>11, <1>12, <1>13 DEF GameStored

LEMMA StoreGame == ASSUME SaveDataInv, Store("game") PROVE SaveDataInv'
  <1>1. ~GameIdle
    BY GameStores
  <1>2. GameBegins \/ GameSaves \/ GameFinishes \/ GameOwnFlags \/ GameFiles
    BY <1>1 DEF SaveDataInv, GameInv
  <1>3. QED BY <1>2, StoreBegins, StoreSaves, StoreFinishes, StoreOwn, StoreFiles

-----------------------------------------------------------------------------
(* The steps of the programs. *)
LEMMA FileStepAt ==
    ASSUME NEW p \in Actor, FileStep(p)
    PROVE  \/ Load(p) \/ Store(p)
           \/ /\ Runs(p) /\ ops[p] = << >> /\ prog[p] # << >>
              /\ Head(prog[p])[1] \notin {"request", "requested"}
  <1>1. \A fn, f : At(p, fn, f) /\ fn \notin {"request", "requested"} =>
           /\ Runs(p) /\ ops[p] = << >> /\ prog[p] # << >>
           /\ Head(prog[p])[1] \notin {"request", "requested"}
    BY DEF At
  <1>2. \/ Load(p) \/ Store(p)
        \/ \E fn \in {"exist", "getType", "delete", "existNandMemory", "check", "createFile", "create",
                      "home", "getHomeDir", "move", "save", "open", "write", "close", "abandon",
                      "load", "openToLoad", "read", "closeLoaded"}, f \in File \cup {NULL} : At(p, fn, f)
    <2>1. \A f \in {"save", "banner"} : ExistFile(p, f) \/ GetType(p, f) \/ Delete(p, f) =>
             At(p, "exist", f) \/ At(p, "getType", f) \/ At(p, "delete", f)
      BY DEF ExistFile, GetType, Delete
    <2>2. \A f \in {"save", "temp"} : CreateFile(p, f) \/ Create(p, f) =>
             At(p, "createFile", f) \/ At(p, "create", f)
      BY DEF CreateFile, Create
    <2>3. \A f \in File : SaveFile(p, f) \/ Open(p, f) \/ Write(p, f) \/ Close(p, f) \/ Abandon(p, f) =>
             At(p, "save", f) \/ At(p, "open", f) \/ At(p, "write", f) \/ At(p, "close", f)
             \/ At(p, "abandon", f)
      BY DEF SaveFile, Open, Write, Close, Abandon
    <2>4. ExistNandMemory(p) \/ Check(p) => At(p, "existNandMemory", NULL) \/ At(p, "check", NULL)
      BY DEF ExistNandMemory, Check
    <2>5. Home(p) \/ GetHomeDir(p) \/ Move(p) =>
             At(p, "home", NULL) \/ At(p, "getHomeDir", NULL) \/ At(p, "move", NULL)
      BY DEF Home, GetHomeDir, Move
    <2>6. LoadFile(p) \/ OpenToLoad(p) \/ Read(p) \/ CloseLoaded(p) =>
             At(p, "load", "save") \/ At(p, "openToLoad", "save") \/ At(p, "read", "save")
             \/ At(p, "closeLoaded", "save")
      BY DEF LoadFile, OpenToLoad, Read, CloseLoaded
    <2>7. QED BY <2>1, <2>2, <2>3, <2>4, <2>5, <2>6 DEF FileStep, File
  <1>3. QED BY <1>1, <1>2

LEMMA FileStepTurns ==
    ASSUME SaveDataInv, NEW p \in Actor, FileStep(p), ~Load(p), ~Store(p)
    PROVE  Turn(p) /\ Runs(p)
  <1> USE DEF SaveDataInv
  <1>1. /\ Runs(p) /\ ops[p] = << >> /\ prog[p] # << >>
        /\ Head(prog[p])[1] \notin {"request", "requested"}
    BY FileStepAt
  <1>2. FileProgram(prog[p])
    <2>1. CASE p = "nand"
      BY <1>1, <2>1 DEF OneTask
    <2>2. CASE p = "game"
      <3>1. ~GameIdle /\ ~GameFinishes /\ ~GameOwnFlags
        BY <1>1, <2>2 DEF GameIdle, GameFinishes, GameOwnFlags
      <3>2. ~GameBegins
        BY <1>1, <2>2 DEF GameBegins, RequestProgram
      <3>3. ~GameSaves
        BY <1>1, <2>2, OneStep DEF GameSaves
      <3>4. GameFiles
        BY <3>1, <3>2, <3>3 DEF GameInv
      <3>5. QED BY <1>1, <2>2, <3>4 DEF GameFiles
    <2>3. QED BY <2>1, <2>2 DEF Actor
  <1>3. Turn(p)
    BY <1>2, FileStepTurn DEF TempInv
  <1>4. QED BY <1>1, <1>3

LEMMA FileStepHolds ==
    ASSUME SaveDataInv, NEW p \in Actor, FileStep(p)
    PROVE  SaveDataInv'
  <1>1. CASE Load(p)
    BY <1>1, LoadStep
  <1>2. CASE Store(p)
    BY <1>2, StoreNand, StoreGame DEF Actor
  <1>3. CASE ~Load(p) /\ ~Store(p)
    BY <1>3, FileStepTurns, NandTurn, GameTurn DEF Runs, Actor
  <1>4. QED BY <1>1, <1>2, <1>3

-----------------------------------------------------------------------------
(* The thread around its task. *)
LEMMA ThreadStep ==
    ASSUME SaveDataInv, UNCHANGED <<flags, ops, reg, file, code, request>>,
           prog'["game"] = prog["game"], MachineOK', ThreadOK', OneTask',
           Rests => Rests', HasNone => HasNone', SaveInHand => SaveInHand',
           GameSaves => ThreadFirst \/ (Off' /\ endQueue' = << >>),
           prog'["nand"] # << >> => Head(prog'["nand"]) \notin TempSteps,
           SaveInv'
    PROVE  SaveDataInv'
  <1> USE DEF SaveDataInv
  <1>1. /\ GameIdle => GameIdle'
        /\ GameBegins => GameBegins'
        /\ GameSaves => GameSaves'
        /\ GameFinishes => GameFinishes'
        /\ GameOwnFlags => GameOwnFlags'
        /\ GameFiles => GameFiles'
    <2>1. GameIdle => GameIdle'
      BY DEF GameIdle
    <2>2. GameBegins => GameBegins'
      BY DEF GameBegins, TT!NoRequest
    <2>3. GameSaves => GameSaves'
      BY DEF GameSaves
    <2>4. GameFinishes => GameFinishes'
      BY DEF GameFinishes
    <2>5. GameOwnFlags => GameOwnFlags'
      BY DEF GameOwnFlags
    <2>6. GameFiles => GameFiles'
      BY DEF GameFiles
    <2>7. QED BY <2>1, <2>2, <2>3, <2>4, <2>5, <2>6
  <1>2. GameInv'
    BY <1>1 DEF GameInv, TT!NoRequest
  <1>3. WordInv'
    BY <1>1 DEF WordInv
  <1>4. ExistInv'
    BY DEF ExistInv
  <1>5. TempInv'
    <2>1. TempSafe("game")'
      BY DEF TempInv, TempSafe, TempAt, Erring, Actor
    <2>2. TempSafe("nand")'
      BY DEF TempSafe, TempAt
    <2>3. QED BY <2>1, <2>2 DEF TempInv, Actor
  <1>6. QED BY <1>2, <1>3, <1>4, <1>5

(* The thread has the processor only if the game thread is idle, or waits  *)
(* for the NAND, which it does not in the middle of a request.             *)
LEMMA NandRunsFirst ==
    ASSUME SaveDataInv, NandRuns, GameSaves
    PROVE  ThreadFirst
  <1>1. ~GameIdle
    <2>1. << >> \notin SaveOnOps
      BY DEF SaveOnOps
    <2>2. QED BY <2>1 DEF GameSaves, GameIdle
  <1>2. ~Blocked("game")
    <2>1. prog["game"] # << >> => Head(prog["game"])[1] = "requested"
      BY OneStep DEF GameSaves
    <2>2. QED BY <2>1 DEF Blocked, NandCall
  <1>3. QED BY <1>1, <1>2 DEF NandRuns

(* What the thread leaves alone around its task. *)
Around ==
    /\ NandRuns /\ UNCHANGED <<flags, window, ops, reg, file, code, request>>
    /\ prog'["game"] = prog["game"]

LEMMA ThreadTypes ==
    ASSUME SaveDataInv, Around, prog' \in [Actor -> Seq(Step)],
           pTask' \in [TT!Slot -> Task \cup {NULL}],
           \A s \in TT!Slot : pTask'[s] \in {pTask[s], NULL},
           mesgQueue' \in Seq(TT!Slot), endQueue' \in Seq(Task),
           pc' \in {"wait", "received", "running", "returned", "ended", "cleared"},
           currentJob' \in TT!Slot \cup {NULL}, currentJob' = NULL <=> pc' = "wait"
    PROVE  MachineOK' /\ ThreadOK'
  <1> USE DEF SaveDataInv
  <1>1. MachineOK'
    BY DEF MachineOK, Around
  <1>2. request' = request /\ window' = window
    BY DEF Around
  <1>3. TT!Slot' = TT!Slot
    BY DEF TT!Slot
  <1>4. TT!JobTypeOK'
    BY <1>2, <1>3 DEF ThreadOK, TT!JobTypeOK
  <1>5. request.at = "filled" => request.slot \in TT!Slot
    BY DEF ThreadOK, TT!JobTypeOK
  <1>6. (request.at = "filled" => pTask[request.slot] \in {request.task, NULL})'
    BY <1>2, <1>5 DEF ThreadOK
  <1>7. QED BY <1>1, <1>2, <1>4, <1>6 DEF ThreadOK

LEMMA ReceiveStep ==
    ASSUME SaveDataInv, Around, TT!WaitMessageBlock, UNCHANGED prog
    PROVE  SaveDataInv'
  <1> USE DEF SaveDataInv
  <1>1. /\ pc = "wait" /\ mesgQueue # << >> /\ currentJob' = Head(mesgQueue)
        /\ mesgQueue' = Tail(mesgQueue) /\ pc' = "received"
        /\ pTask' = pTask /\ endQueue' = endQueue /\ prog' = prog /\ ops' = ops
    BY DEF TT!WaitMessageBlock, TT!Enter, Around
  <1>2. /\ pTask \in [TT!Slot -> Task \cup {NULL}] /\ mesgQueue \in Seq(TT!Slot)
        /\ endQueue \in Seq(Task) /\ prog \in [Actor -> Seq(Step)]
    BY DEF ThreadOK, TT!JobTypeOK, MachineOK
  <1>3. Head(mesgQueue) \in TT!Slot /\ Tail(mesgQueue) \in Seq(TT!Slot)
    BY <1>1, <1>2, TailType
  <1>4. NULL \notin TT!Slot
    BY SaveDataAssumption DEF TT!Slot
  <1>5. MachineOK' /\ ThreadOK'
    BY <1>1, <1>2, <1>3, <1>4, ThreadTypes
  <1>6. /\ mesgQueue' = << >> /\ endQueue = << >> /\ request = TT!NoRequest /\ request' = TT!NoRequest'
        /\ prog["nand"] = << >> /\ ops["nand"] = << >>
    BY <1>1 DEF OneTask, Around, TT!NoRequest
  <1>7. OneTask'
    BY <1>1, <1>6 DEF OneTask, Off
  <1>8. ~HasNone /\ ~Rests
    BY <1>1 DEF HasNone, Rests
  <1>9. SaveInHand => SaveInHand'
    <2>1. SaveInHand => SaveTask(Head(mesgQueue))
      BY <1>1 DEF SaveInHand
    <2>2. SaveTask(Head(mesgQueue)) => SaveTask(currentJob)'
      BY <1>1 DEF SaveTask
    <2>3. SavingProgram(<< >>)
      BY DEF SavingProgram
    <2>4. QED BY <1>1, <1>6, <2>1, <2>2, <2>3 DEF SaveInHand
  <1>10. SaveInv'
    <2>1. "NandAccess" \in flags' /\ ops'["game"] # <<Reset("NandAccess")>>
      <3>1. GameIdle \/ GameSaves
        BY <1>1, TaskMeansAccess
      <3>2. ops["game"] # <<Reset("NandAccess")>>
        BY <3>1 DEF GameIdle, GameSaves, SaveOnOps, Set, Reset
      <3>3. QED BY <1>1, <3>2, TaskMeansAccess DEF Around
    <2>2. QED BY <1>1, <1>6, <2>1 DEF SaveInv
  <1>11. GameSaves => ThreadFirst
    BY NandRunsFirst DEF Around
  <1>12. QED BY <1>1, <1>5, <1>6, <1>7, <1>8, <1>9, <1>10, <1>11, ThreadStep DEF Around

TaskName == {"existPackFile", "existNandMemory", "createPackFile", "loadData", "saveData"}

LEMMA TaskProgram ==
    ASSUME NEW t \in TaskName
    PROVE  /\ TaskSteps[t] \in Seq(Step) /\ TaskSteps[t] # << >> /\ FileProgram(TaskSteps[t])
           /\ Head(TaskSteps[t]) \notin TempSteps
           /\ t = "saveData" => SavingProgram(TaskSteps[t]) /\ Head(TaskSteps[t]) = <<"save", "save">>
  <1>1. t \in {"existPackFile", "existNandMemory", "createPackFile", "loadData", "saveData"}
    BY DEF TaskName
  <1>2. /\ <<"exist", "banner">> \in Step /\ <<"exist", "save">> \in Step
        /\ <<"existNandMemory", NULL>> \in Step /\ <<"createFile", "save">> \in Step
        /\ <<"save", "save">> \in Step /\ <<"createFile", "temp">> \in Step
        /\ <<"load", "save">> \in Step /\ <<"save", "banner">> \in Step
    BY DEF Step, File
  <1>3. \A h \in {<<"exist", "banner">>, <<"existNandMemory", NULL>>, <<"createFile", "save">>,
                  <<"load", "save">>, <<"save", "save">>} : h \notin TempSteps
    BY DEF TempSteps, SavingSteps, HomeSteps
  <1>4. /\ Ahead(<<"exist", "banner">>, << <<"exist", "save">> >>)
        /\ Ahead(<<"existNandMemory", NULL>>, << >>)
        /\ Ahead(<<"createFile", "save">>, << <<"save", "save">>, <<"createFile", "temp">> >>)
        /\ Ahead(<<"load", "save">>, << >>)
        /\ Ahead(<<"save", "save">>, << <<"save", "banner">> >>)
        /\ <<"save", "save">> \in SavingSteps("save")
    BY DEF Ahead, SavingSteps
  <1>5. CASE t = "existPackFile"
    <2>1. TaskSteps[t] = << <<"exist", "banner">>, <<"exist", "save">> >>
      BY <1>5 DEF TaskSteps
    <2>2. QED BY <1>2, <1>3, <1>4, <1>5, <2>1, TwoSteps DEF FileProgram
  <1>6. CASE t = "existNandMemory"
    <2>1. TaskSteps[t] = << <<"existNandMemory", NULL>> >>
      BY <1>6 DEF TaskSteps
    <2>2. QED BY <1>2, <1>3, <1>4, <1>6, <2>1, OneStep DEF FileProgram
  <1>7. CASE t = "createPackFile"
    <2>1. TaskSteps[t] = << <<"createFile", "save">>, <<"save", "save">>, <<"createFile", "temp">> >>
      BY <1>7 DEF TaskSteps
    <2>2. QED BY <1>2, <1>3, <1>4, <1>7, <2>1, ThreeSteps DEF FileProgram
  <1>8. CASE t = "loadData"
    <2>1. TaskSteps[t] = << <<"load", "save">> >>
      BY <1>8 DEF TaskSteps
    <2>2. QED BY <1>2, <1>3, <1>4, <1>8, <2>1, OneStep DEF FileProgram
  <1>9. CASE t = "saveData"
    <2>1. TaskSteps[t] = << <<"save", "save">>, <<"save", "banner">> >>
      BY <1>9 DEF TaskSteps
    <2>2. QED BY <1>2, <1>3, <1>4, <1>9, <2>1, TwoSteps DEF FileProgram, SavingProgram
  <1>10. QED BY <1>1, <1>5, <1>6, <1>7, <1>8, <1>9

LEMMA BeginStep ==
    ASSUME SaveDataInv, Around, BeginTask
    PROVE  SaveDataInv'
  <1> USE DEF SaveDataInv
  <1>1. /\ pc = "received" /\ pc' = IF pTask[currentJob] = NULL THEN "ended" ELSE "running"
        /\ UNCHANGED <<pTask, mesgQueue, endQueue, currentJob>>
        /\ prog' = IF pTask[currentJob] = NULL THEN prog
                   ELSE [prog EXCEPT !["nand"] = TaskSteps[pTask[currentJob]]]
        /\ ops' = ops
    BY DEF BeginTask, TT!TestTask, TT!Enter, TT!Blank, TT!jobVars, Around
  <1>2. /\ pTask \in [TT!Slot -> Task \cup {NULL}] /\ currentJob \in TT!Slot
        /\ prog \in [Actor -> Seq(Step)] /\ mesgQueue \in Seq(TT!Slot) /\ endQueue \in Seq(Task)
        /\ currentJob # NULL
    BY <1>1 DEF ThreadOK, TT!JobTypeOK, MachineOK
  <1>3. ~Off /\ ~HasNone /\ ~Rests /\ prog["nand"] = << >> /\ ops["nand"] = << >>
        /\ request = TT!NoRequest /\ request' = TT!NoRequest' /\ endQueue = << >> /\ mesgQueue = << >>
    BY <1>1 DEF Off, HasNone, Rests, OneTask, Around, TT!NoRequest
  <1>4. CASE pTask[currentJob] # NULL
    <2>1. PICK t \in Task : t = pTask[currentJob]
      BY <1>2, <1>4
    <2> t \in TaskName
      BY SaveDataAssumption DEF TaskName
    <2>2. /\ pc' = "running" /\ prog' = [prog EXCEPT !["nand"] = TaskSteps[t]]
          /\ prog' \in [Actor -> Seq(Step)] /\ prog'["nand"] = TaskSteps[t]
      BY <1>1, <1>2, <1>4, <2>1, TaskProgram DEF Actor
    <2>3. MachineOK' /\ ThreadOK'
      BY <1>1, <1>2, <2>2, ThreadTypes
    <2>4. OneTask'
      BY <1>1, <1>3, <1>4, <2>2, TaskProgram DEF OneTask, Off, TT!Blank
    <2>5. SaveInHand => t = "saveData"
      BY <1>3, <1>4, <2>1 DEF SaveInHand, SaveTask
    <2>6. SaveInHand => SaveInHand'
      <3>1. SaveInHand => SavingProgram(prog'["nand"])
        BY <2>2, <2>5, TaskProgram
      <3>2. SaveTask(currentJob) => SaveTask(currentJob)'
        BY <1>1 DEF SaveTask
      <3>3. QED BY <1>1, <1>3, <3>1, <3>2 DEF SaveInHand
    <2>7. SaveInv'
      <3>1. "NandAccess" \in flags' /\ ops'["game"] # <<Reset("NandAccess")>>
        <4>1. GameIdle \/ GameSaves
          BY <1>3, TaskMeansAccess
        <4>2. ops["game"] # <<Reset("NandAccess")>>
          BY <4>1 DEF GameIdle, GameSaves, SaveOnOps, Set, Reset
        <4>3. QED BY <1>1, <1>3, <4>2, TaskMeansAccess DEF Around
      <3>2. "AsyncSave" \in flags' => t = "saveData"
        BY <2>5 DEF Around, GameInv
      <3>3. <<"save", "save">> # <<"close", "save">> /\ <<"save", "save">> # <<"close", "banner">>
            /\ <<"save", "save">> \notin SavingSteps("banner")
        BY DEF SavingSteps
      <3>4. t = "saveData" => SaveSafe("nand")'
        BY <2>2, <3>3, TaskProgram DEF SaveSafe
      <3>5. QED BY <1>1, <1>3, <2>2, <3>1, <3>2, <3>4 DEF SaveInv
    <2>8. GameSaves => ThreadFirst
      BY NandRunsFirst DEF Around
    <2>9. Head(prog'["nand"]) \notin TempSteps
      BY <2>2, TaskProgram
    <2>10. QED BY <1>3, <2>3, <2>4, <2>6, <2>7, <2>8, <2>9, ThreadStep DEF Around
  <1>5. CASE pTask[currentJob] = NULL
    <2>1. pc' = "ended" /\ prog' = prog /\ Off'
      BY <1>1, <1>5 DEF Off
    <2>2. MachineOK' /\ ThreadOK'
      BY <1>1, <1>2, <2>1, ThreadTypes
    <2>3. OneTask'
      BY <1>1, <1>3, <2>1 DEF OneTask
    <2>4. SaveInHand => SaveInHand'
      BY <1>1, <1>3, <2>1 DEF SaveInHand
    <2>5. SaveInv'
      <3>1. "NandAccess" \in flags' /\ ops'["game"] # <<Reset("NandAccess")>>
        <4>1. GameIdle \/ GameSaves
          BY <1>3, TaskMeansAccess
        <4>2. ops["game"] # <<Reset("NandAccess")>>
          BY <4>1 DEF GameIdle, GameSaves, SaveOnOps, Set, Reset
        <4>3. QED BY <1>1, <1>3, <4>2, TaskMeansAccess DEF Around
      <3>2. QED BY <1>1, <1>3, <2>1, <3>1 DEF SaveInv
    <2>6. GameSaves => ThreadFirst
      BY NandRunsFirst DEF Around
    <2>7. QED BY <1>3, <2>1, <2>2, <2>3, <2>4, <2>5, <2>6, ThreadStep DEF Around
  <1>6. QED BY <1>4, <1>5

(* While the thread has a task, the game does not take it for ended. *)
LEMMA NotFinishing ==
    ASSUME SaveDataInv, ~Off \/ mesgQueue # << >> \/ endQueue # << >>
    PROVE  "NandAccess" \in flags /\ ops["game"] # <<Reset("NandAccess")>>
  <1>1. GameIdle \/ GameSaves
    BY TaskMeansAccess
  <1>2. ops["game"] # <<Reset("NandAccess")>>
    BY <1>1 DEF GameIdle, GameSaves, SaveOnOps, Set, Reset
  <1>3. QED BY <1>2, TaskMeansAccess

LEMMA EndStep ==
    ASSUME SaveDataInv, Around, EndTask
    PROVE  SaveDataInv'
  <1> USE DEF SaveDataInv
  <1>1. /\ pc = "running" /\ pc' = "returned" /\ prog["nand"] = << >> /\ ops["nand"] = << >>
        /\ UNCHANGED <<pTask, mesgQueue, endQueue, currentJob, prog>> /\ ops' = ops /\ flags' = flags
        /\ file' = file
    BY DEF EndTask, TT!TaskReturns, TT!Enter, TT!jobVars, Around
  <1>2. /\ pTask \in [TT!Slot -> Task \cup {NULL}] /\ currentJob \in TT!Slot /\ currentJob # NULL
        /\ prog \in [Actor -> Seq(Step)] /\ mesgQueue \in Seq(TT!Slot) /\ endQueue \in Seq(Task)
    BY <1>1 DEF ThreadOK, TT!JobTypeOK, MachineOK
  <1>3. ~Off /\ ~HasNone /\ ~Rests
        /\ request = TT!NoRequest /\ request' = TT!NoRequest' /\ endQueue = << >> /\ mesgQueue = << >>
    BY <1>1 DEF Off, HasNone, Rests, OneTask, Around, TT!NoRequest
  <1>4. MachineOK' /\ ThreadOK'
    BY <1>1, <1>2, ThreadTypes
  <1>5. OneTask'
    BY <1>1, <1>3 DEF OneTask, Off, TT!Blank
  <1>6. SaveInHand => SaveInHand'
    BY <1>1, <1>3 DEF SaveInHand, SaveTask, Off
  <1>7. SaveInv'
    <2> SUFFICES ASSUME ~ThreadFirst, "AsyncSave" \in flags
                 PROVE  \/ {"NandError", "DisableSave"} \cap flags # {}
                        \/ file["save"] = "whole" /\ file["banner"] = "whole"
      BY <1>1 DEF SaveInv
    <2>1. SaveSafe("nand")
      BY <1>1 DEF SaveInv
    <2>2. ops["nand"] # Error
      BY <1>1 DEF Error
    <2>3. QED BY <1>1, <2>1, <2>2 DEF SaveSafe, Excused, Erring
  <1>8. GameSaves => ThreadFirst
    BY NandRunsFirst DEF Around
  <1>9. QED BY <1>1, <1>3, <1>4, <1>5, <1>6, <1>7, <1>8, ThreadStep DEF Around

LEMMA AppendTask ==
    ASSUME NEW t \in Task
    PROVE  Append(<< >>, t) = <<t>> /\ <<t>> \in Seq(Task) /\ <<t>> # << >> /\ Tail(<<t>>) = << >>
  OBVIOUS

LEMMA SendStep ==
    ASSUME SaveDataInv, Around, TT!SendEndMessage, UNCHANGED prog
    PROVE  SaveDataInv'
  <1> USE DEF SaveDataInv
  <1>1. /\ pc = "returned" /\ pc' = "ended"
        /\ endQueue' = IF Len(endQueue) < EndCapacity
                       THEN Append(endQueue, pTask[currentJob]) ELSE endQueue
        /\ UNCHANGED <<pTask, mesgQueue, currentJob, prog>> /\ ops' = ops /\ flags' = flags
        /\ file' = file
    BY DEF TT!SendEndMessage, TT!Enter, Around
  <1>2. /\ pTask \in [TT!Slot -> Task \cup {NULL}] /\ currentJob \in TT!Slot /\ currentJob # NULL
        /\ prog \in [Actor -> Seq(Step)] /\ mesgQueue \in Seq(TT!Slot)
    BY <1>1 DEF ThreadOK, TT!JobTypeOK, MachineOK
  <1>3. ~Off /\ ~HasNone /\ ~Rests /\ Off'
        /\ request = TT!NoRequest /\ request' = TT!NoRequest' /\ endQueue = << >> /\ mesgQueue = << >>
        /\ prog["nand"] = << >> /\ ops["nand"] = << >>
    BY <1>1 DEF Off, HasNone, Rests, OneTask, Around, TT!NoRequest
  <1>4. PICK t \in Task : t = pTask[currentJob]
    BY <1>1, <1>2 DEF OneTask, TT!Blank
  <1>5. endQueue' = <<t>>
    <2>1. Len(endQueue) < EndCapacity
      BY <1>3, SaveDataAssumption
    <2>2. QED BY <1>1, <1>3, <1>4, <2>1, AppendTask
  <1>6. endQueue' \in Seq(Task) /\ endQueue' # << >> /\ Tail(endQueue') = << >>
    BY <1>5, AppendTask
  <1>7. MachineOK' /\ ThreadOK'
    BY <1>1, <1>2, <1>6, ThreadTypes
  <1>8. OneTask'
    BY <1>1, <1>3, <1>6 DEF OneTask
  <1>9. SaveInHand => SaveInHand'
    BY <1>1, <1>3 DEF SaveInHand
  <1>10. SaveInv'
    BY <1>1 DEF SaveInv
  <1>11. GameSaves => ThreadFirst
    BY NandRunsFirst DEF Around
  <1>12. QED BY <1>1, <1>3, <1>7, <1>8, <1>9, <1>10, <1>11, ThreadStep DEF Around

(* The slot is given back, and then again. *)
LEMMA ClearStep ==
    ASSUME SaveDataInv, Around, TT!ClearTask \/ TT!ClearFunctions, UNCHANGED prog
    PROVE  SaveDataInv'
  <1> USE DEF SaveDataInv
  <1>1. /\ pc \in {"ended", "cleared"} /\ pc' \in {"cleared", "wait"}
        /\ pTask' = [pTask EXCEPT ![currentJob] = NULL]
        /\ currentJob' = IF pc' = "wait" THEN NULL ELSE currentJob
        /\ UNCHANGED <<mesgQueue, endQueue, prog>> /\ ops' = ops /\ flags' = flags
        /\ file' = file
    BY DEF TT!ClearTask, TT!ClearFunctions, TT!Enter, Around
  <1>2. /\ pTask \in [TT!Slot -> Task \cup {NULL}] /\ currentJob \in TT!Slot /\ currentJob # NULL
        /\ prog \in [Actor -> Seq(Step)] /\ mesgQueue \in Seq(TT!Slot) /\ endQueue \in Seq(Task)
    BY <1>1 DEF ThreadOK, TT!JobTypeOK, MachineOK
  <1>3. /\ pTask' \in [TT!Slot -> Task \cup {NULL}]
        /\ \A s \in TT!Slot : pTask'[s] \in {pTask[s], NULL}
    BY <1>1, <1>2
  <1>4. MachineOK' /\ ThreadOK'
    BY <1>1, <1>2, <1>3, ThreadTypes
  <1>5. Off /\ Off' /\ prog["nand"] = << >> /\ ops["nand"] = << >>
        /\ (request' = TT!NoRequest' <=> request = TT!NoRequest)
    BY <1>1 DEF Off, OneTask, Around, TT!NoRequest
  <1>6. OneTask'
    BY <1>1, <1>5 DEF OneTask
  <1>7. (Rests => Rests') /\ (HasNone => HasNone')
    BY <1>1, <1>5 DEF Rests, HasNone
  <1>8. SaveInHand => SaveInHand'
    <2>1. mesgQueue # << >> => Head(mesgQueue) \in TT!Slot
      BY <1>2, TailType
    <2>2. \A s \in TT!Slot : SaveTask(s) => SaveTask(s)'
      BY <1>3 DEF SaveTask
    <2>3. QED BY <1>1, <1>5, <2>1, <2>2 DEF SaveInHand
  <1>9. SaveInv'
    BY <1>1 DEF SaveInv
  <1>10. GameSaves => ThreadFirst
    BY NandRunsFirst DEF Around
  <1>11. QED BY <1>1, <1>4, <1>5, <1>6, <1>7, <1>8, <1>9, <1>10, ThreadStep DEF Around

LEMMA NandThreadHolds ==
    ASSUME SaveDataInv, NandThread
    PROVE  SaveDataInv'
  <1>1. CASE FileStep("nand")
    BY <1>1, FileStepHolds DEF Actor
  <1>2. CASE /\ NandRuns
             /\ \/ BeginTask
                \/ EndTask
                \/ /\ TT!WaitMessageBlock \/ TT!SendEndMessage \/ TT!ClearTask \/ TT!ClearFunctions
                   /\ UNCHANGED prog
             /\ UNCHANGED <<flags, window, ops, reg, nandVars>>
    <2>1. request' = request
      BY <1>2 DEF BeginTask, EndTask, TT!TestTask, TT!TaskReturns, TT!WaitMessageBlock,
                  TT!SendEndMessage, TT!ClearTask, TT!ClearFunctions
    <2>2. prog'["game"] = prog["game"]
      BY <1>2 DEF BeginTask, EndTask, SaveDataInv, MachineOK, Actor
    <2>3. Around
      BY <1>2, <2>1, <2>2 DEF Around, nandVars
    <2>4. QED BY <1>2, <2>3, BeginStep, EndStep, ReceiveStep, SendStep, ClearStep
  <1>3. QED BY <1>1, <1>2 DEF NandThread

-----------------------------------------------------------------------------
(* The calls of the scenes. *)
Windows == {"closed", "continue", "reject", "CONTINUE", "YES", "NO"}

LEMMA WindowType == ThreadOK => window \in Windows
  BY DEF ThreadOK, Windows

LEMMA CallHolds ==
    ASSUME SaveDataInv, GameIdle, "NandAccess" \notin flags,
           NEW bits \in Seq(BitOp), NEW steps \in Seq(Step), GameDoes(bits, steps), window' \in Windows,
           \/ GameBegins'
           \/ bits \in OwnOps /\ steps = << >> /\ (bits = <<Reset("DisableSave")>> => "AsyncSave" \notin flags)
           \/ /\ FileProgram(steps) /\ bits \in {<< >>, <<Reset("NandError")>>}
              /\ "AsyncSave" \notin flags,
           steps # << >> => Head(steps) \notin TempSteps,
           \A f \in {"save", "banner"} : bits # <<Set(Exists(f))>>
    PROVE  SaveDataInv'
  <1> USE DEF SaveDataInv
  <1>1. "game" \in Actor /\ "nand" \in Actor
    BY DEF Actor
  <1>2. /\ UNCHANGED <<pTask, mesgQueue, endQueue, pc, currentJob, request, flags, reg, file, code>>
        /\ prog'["nand"] = prog["nand"] /\ ops'["nand"] = ops["nand"]
        /\ prog'["game"] = steps /\ ops'["game"] = bits
        /\ prog' \in [Actor -> Seq(Step)] /\ ops' \in [Actor -> Seq(BitOp)]
    BY <1>1 DEF GameDoes, threadVars, nandVars, MachineOK
  <1>3. /\ Rests /\ prog["nand"] = << >> /\ ops["nand"] = << >> /\ reg["nand"] = NULL
        /\ pc # "running"
    BY FilesMeansRest DEF Rests, HasNone, Off
  <1>4. reg["game"] = NULL /\ ops["game"] = << >>
    BY <1>1 DEF GameIdle, WordInv
  <1>5. MachineOK'
    BY <1>2 DEF MachineOK
  <1>6. ThreadOK'
    BY <1>2 DEF ThreadOK, TT!JobTypeOK, TT!Slot, Windows
  <1>7. OneTask'
    BY <1>2, <1>3 DEF OneTask, Off, TT!NoRequest, TT!Blank
  <1>8. GameInv'
    <2>1. Rests' /\ (SaveInHand => SaveInHand')
      BY <1>2, <1>3 DEF Rests, HasNone, Off, TT!NoRequest, SaveInHand, SaveTask
    <2>2. GameIdle' \/ GameBegins' \/ GameOwnFlags' \/ GameFiles'
      <3>1. bits \in OwnOps /\ steps = << >> /\ (bits = <<Reset("DisableSave")>> => "AsyncSave" \notin flags)
               => GameOwnFlags'
        BY <1>2 DEF GameOwnFlags
      <3>2. ASSUME FileProgram(steps), bits \in {<< >>, <<Reset("NandError")>>}, "AsyncSave" \notin flags
            PROVE  GameFiles'
        <4>1. FileProgram(prog["game"])' /\ Head(steps) \notin TempSteps
          BY <1>2, <3>2 DEF FileProgram
        <4>2. ops'["game"] \in FileOps \cup {<< >>, <<Reset("NandError")>>}
          BY <1>2, <3>2
        <4>3. ({"NandAccess", "AsyncSave"} \cap flags = {})'
          BY <1>2, <3>2
        <4>4. QED BY <1>2, <4>1, <4>2, <4>3 DEF GameFiles
      <3>3. QED BY <3>1, <3>2
    <2>3. QED BY <1>2, <2>1, <2>2 DEF GameInv, Rests
  <1>9. WordInv'
    BY <1>2, <1>3, <1>4 DEF WordInv, Actor
  <1>10. ExistInv'
    <2> SUFFICES ASSUME NEW f \in {"save", "banner"}
                 PROVE  /\ Exists(f) \in flags => file[f] # "none"
                        /\ \A p \in Actor : ops'[p] # <<Set(Exists(f))>>
      BY <1>2 DEF ExistInv
    <2>1. \A p \in Actor : ops[p] = << >>
      BY <1>3, <1>4 DEF Actor
    <2>2. << >> # <<Reset(Exists(f))>> /\ << >> # <<Set(Exists(f))>>
      OBVIOUS
    <2>3. QED BY <1>2, <1>3, <2>1, <2>2 DEF ExistInv, Actor
  <1>11. TempInv'
    BY <1>2, <1>3 DEF TempInv, TempSafe, TempAt, Actor
  <1>12. SaveInv'
    BY <1>2, <1>3 DEF SaveInv
  <1>13. QED BY <1>5, <1>6, <1>7, <1>8, <1>9, <1>10, <1>11, <1>12

LEMMA BitLists ==
    /\ \A b \in Flag : <<Set(b)>> \in Seq(BitOp) /\ <<Reset(b)>> \in Seq(BitOp)
    /\ <<Set("NandAccess"), Reset("NandError")>> \in Seq(BitOp)
    /\ \A f \in {"save", "banner"} : <<Set("NandAccess"), Reset("NandError")>> # <<Set(Exists(f))>>
    /\ OwnOps \subseteq Seq(BitOp) /\ Over \in OwnOps /\ <<Set("DisableSave")>> \o Over \in OwnOps
    /\ \A s \in OwnOps, f \in {"save", "banner"} : s # <<Set(Exists(f))>>
    /\ \A f \in {"save", "banner"} : <<Reset("NandError")>> # <<Set(Exists(f))>> /\ << >> # <<Set(Exists(f))>>
  <1>1. \A b \in Flag : Set(b) \in BitOp /\ Reset(b) \in BitOp
    BY OpNames
  <1>2. \A b \in Flag : <<Set(b)>> \in Seq(BitOp) /\ <<Reset(b)>> \in Seq(BitOp)
    BY <1>1
  <1>3. {"NandAccess", "NandError", "AsyncSave", "ErrorWindow", "DisableSave"} \subseteq Flag
    BY DEF Flag
  <1>4. Set("NandAccess") \in BitOp /\ Reset("NandError") \in BitOp
        /\ Reset("AsyncSave") \in BitOp /\ Reset("ErrorWindow") \in BitOp /\ Set("DisableSave") \in BitOp
    BY <1>1, <1>3
  <1>5. <<Set("NandAccess"), Reset("NandError")>> \in Seq(BitOp) /\ Over \in Seq(BitOp)
    BY <1>4 DEF Over
  <1>6. <<Set("DisableSave")>> \o Over \in Seq(BitOp)
    <2>1. <<Set("DisableSave")>> \in Seq(BitOp)
      BY <1>2, <1>3
    <2>2. QED BY <1>5, <2>1
  <1>7. OwnOps \subseteq Seq(BitOp)
    BY <1>2, <1>3, <1>5, <1>6 DEF OwnOps
  <1>8. Over \in OwnOps /\ <<Set("DisableSave")>> \o Over \in OwnOps
    BY DEF OwnOps
  <1>9. ASSUME NEW f \in {"save", "banner"}
        PROVE  /\ <<Set("NandAccess"), Reset("NandError")>> # <<Set(Exists(f))>>
               /\ \A s \in OwnOps : s # <<Set(Exists(f))>>
               /\ <<Reset("NandError")>> # <<Set(Exists(f))>> /\ << >> # <<Set(Exists(f))>>
    <2>1. Exists(f) \in {"SaveFileExist", "BannerFileExist"}
      BY DEF Exists
    <2>2. Head(<<Set(Exists(f))>>) = Set(Exists(f))
      BY OneStep
    <2>3. Set("ErrorWindow") # Set(Exists(f)) /\ Set("DisableSave") # Set(Exists(f))
          /\ Reset("DisableSave") # Set(Exists(f)) /\ Reset("ErrorWindow") # Set(Exists(f))
          /\ Reset("AsyncSave") # Set(Exists(f)) /\ Set("NandAccess") # Set(Exists(f))
          /\ Reset("NandError") # Set(Exists(f))
      BY <2>1 DEF Set, Reset
    <2>4. \A s \in OwnOps : s # <<Set(Exists(f))>>
      BY <2>2, <2>3, OwnNames
    <2>5. Head(<<Set("NandAccess"), Reset("NandError")>>) = Set("NandAccess")
          /\ Head(<<Reset("NandError")>>) = Reset("NandError")
      BY OneStep, TwoSteps
    <2>6. << >> # <<Set(Exists(f))>>
      OBVIOUS
    <2>7. QED BY <2>2, <2>3, <2>4, <2>5, <2>6
  <1>10. QED BY <1>2, <1>5, <1>7, <1>8, <1>9

LEMMA AsyncHolds ==
    ASSUME SaveDataInv, NEW t \in Task, Async(t)
    PROVE  SaveDataInv'
  <1> USE DEF SaveDataInv
  <1> DEFINE bits == <<Set("NandAccess"), Reset("NandError")>>
             steps == IF t = "saveData" THEN << <<"request", t>>, <<"requested", NULL>> >>
                                        ELSE << <<"request", t>> >>
  <1>1. GameIdle /\ {"NandAccess", "AsyncSave"} \cap flags = {} /\ GameDoes(bits, steps) /\ window' = window
    BY DEF Async, MayCall, isAsyncFinish
  <1>2. <<"request", t>> \in Step /\ <<"requested", NULL>> \in Step /\ <<"request", t>> \notin TempSteps
    BY DEF Step, TempSteps, SavingSteps, HomeSteps
  <1>3. /\ steps \in Seq(Step) /\ steps # << >> /\ Head(steps) = <<"request", t>>
        /\ Tail(steps) = IF t = "saveData" THEN << <<"requested", NULL>> >> ELSE << >>
    <2>1. CASE t = "saveData"
      BY <1>2, <2>1, TwoSteps
    <2>2. CASE t # "saveData"
      BY <1>2, <2>2, OneStep
    <2>3. QED BY <2>1, <2>2
  <1>4. bits \in Seq(BitOp) /\ \A f \in {"save", "banner"} : bits # <<Set(Exists(f))>>
    BY BitLists
  <1>5. prog'["game"] = steps /\ ops'["game"] = bits /\ flags' = flags
    BY <1>1 DEF GameDoes, MachineOK, Actor
  <1>6. GameBegins'
    <2>1. RequestProgram(prog["game"], t)'
      BY <1>3, <1>5 DEF RequestProgram
    <2>2. QED BY <1>1, <1>5, <2>1 DEF GameBegins
  <1>7. window' \in Windows
    BY <1>1, WindowType
  <1>8. QED BY <1>1, <1>2, <1>3, <1>4, <1>6, <1>7, CallHolds

LEMMA SyncHolds == ASSUME SaveDataInv, Sync PROVE SaveDataInv'
  <1> USE DEF SaveDataInv
  <1>1. GameIdle /\ {"NandAccess", "AsyncSave"} \cap flags = {} /\ window' = window
    BY DEF Sync, MayCall, isAsyncFinish
  <1>2. window' \in Windows
    BY <1>1, WindowType
  <1>3. "NandError" \in Flag
    BY DEF Flag
  <1>4. \A bits \in {<< >>, <<Reset("NandError")>>} :
           bits \in Seq(BitOp) /\ \A f \in {"save", "banner"} : bits # <<Set(Exists(f))>>
    <2>1. <<Reset("NandError")>> \in Seq(BitOp)
      BY <1>3, BitLists
    <2>2. << >> \in Seq(BitOp)
      OBVIOUS
    <2>3. \A f \in {"save", "banner"} : <<Reset("NandError")>> # <<Set(Exists(f))>> /\ << >> # <<Set(Exists(f))>>
      BY BitLists
    <2>4. QED BY <2>1, <2>2, <2>3
  <1>5. ASSUME NEW bits \in {<< >>, <<Reset("NandError")>>}, NEW steps \in Seq(Step),
               FileProgram(steps), Head(steps) \notin TempSteps, GameDoes(bits, steps)
        PROVE  SaveDataInv'
    BY <1>1, <1>2, <1>4, <1>5, CallHolds
  <1>6. CASE \E t \in {"existPackFile", "saveData"} : GameDoes(<<Reset("NandError")>>, TaskSteps[t])
    BY <1>5, <1>6, TaskProgram DEF TaskName
  <1>7. CASE GameDoes(<<Reset("NandError")>>, << <<"delete", "banner">>, <<"delete", "save">> >>)
    <2> DEFINE s == << <<"delete", "banner">>, <<"delete", "save">> >>
    <2>1. <<"delete", "banner">> \in Step /\ <<"delete", "save">> \in Step
          /\ <<"delete", "banner">> \notin TempSteps
      BY DEF Step, TempSteps, SavingSteps, HomeSteps, File
    <2>2. s \in Seq(Step) /\ s # << >> /\ Head(s) = <<"delete", "banner">>
          /\ Tail(s) = << <<"delete", "save">> >>
      BY <2>1, TwoSteps
    <2>3. FileProgram(s)
      BY <2>2 DEF FileProgram, Ahead
    <2>4. QED BY <1>5, <1>7, <2>1, <2>2, <2>3
  <1>8. CASE GameDoes(<< >>, << <<"createFile", "save">>, <<"save", "save">> >>)
    <2> DEFINE s == << <<"createFile", "save">>, <<"save", "save">> >>
    <2>1. <<"createFile", "save">> \in Step /\ <<"save", "save">> \in Step
          /\ <<"createFile", "save">> \notin TempSteps
      BY DEF Step, TempSteps, SavingSteps, HomeSteps, File
    <2>2. s \in Seq(Step) /\ s # << >> /\ Head(s) = <<"createFile", "save">>
          /\ Tail(s) = << <<"save", "save">> >>
      BY <2>1, TwoSteps
    <2>3. FileProgram(s)
      BY <2>2 DEF FileProgram, Ahead
    <2>4. QED BY <1>5, <1>8, <2>1, <2>2, <2>3
  <1>9. QED BY <1>6, <1>7, <1>8 DEF Sync

LEMMA OwnHolds ==
    ASSUME SaveDataInv, GameIdle, "NandAccess" \notin flags, NEW bits \in OwnOps, GameDoes(bits, << >>),
           bits = <<Reset("DisableSave")>> => "AsyncSave" \notin flags, window' \in Windows
    PROVE  SaveDataInv'
  <1>1. << >> \in Seq(Step)
    OBVIOUS
  <1>2. bits \in Seq(BitOp) /\ \A f \in {"save", "banner"} : bits # <<Set(Exists(f))>>
    BY BitLists
  <1>3. QED BY <1>1, <1>2, CallHolds

LEMMA DisableHolds == ASSUME SaveDataInv, setSaveDisable PROVE SaveDataInv'
  <1>1. GameIdle /\ {"NandAccess", "AsyncSave"} \cap flags = {} /\ window' = window
    BY DEF setSaveDisable, MayCall, isAsyncFinish
  <1>2. PICK bit \in {Set("DisableSave"), Reset("DisableSave")} : GameDoes(<<bit>>, << >>)
    BY DEF setSaveDisable
  <1>3. <<bit>> \in OwnOps
    BY <1>2 DEF OwnOps
  <1>4. window' \in Windows
    BY <1>1, WindowType DEF SaveDataInv
  <1>5. QED BY <1>1, <1>2, <1>3, <1>4, OwnHolds

LEMMA UpdateHolds == ASSUME SaveDataInv, NEW display \in BOOLEAN, update(display) PROVE SaveDataInv'
  <1>1. GameIdle /\ "NandAccess" \notin flags
    BY DEF update
  <1>2. \E bits \in {<<Set("ErrorWindow")>>, Over, <<Set("DisableSave")>> \o Over} : GameDoes(bits, << >>)
    BY DEF update, Ask, Answered
  <1>3. PICK bits \in {<<Set("ErrorWindow")>>, Over, <<Set("DisableSave")>> \o Over} : GameDoes(bits, << >>)
    BY <1>2
  <1>4. bits \in OwnOps
    BY <1>3 DEF OwnOps
  <1>5. bits # <<Reset("DisableSave")>>
    <2>1. Head(<<Reset("DisableSave")>>) = Reset("DisableSave")
      BY OneStep
    <2>2. Set("ErrorWindow") # Reset("DisableSave") /\ Set("DisableSave") # Reset("DisableSave")
          /\ Reset("AsyncSave") # Reset("DisableSave")
      BY DEF Set, Reset
    <2>3. /\ Head(<<Set("ErrorWindow")>>) = Set("ErrorWindow")
          /\ Head(Over) = Reset("AsyncSave")
      BY OneStep, TwoSteps DEF Over
    <2>4. Head(<<Set("DisableSave")>> \o Over) = Set("DisableSave")
      BY ThreeSteps DEF Over
    <2>5. QED BY <1>3, <2>1, <2>2, <2>3, <2>4
  <1>6. window' \in Windows
    <2>1. window \in Windows
      BY WindowType DEF SaveDataInv
    <2>2. QED BY <2>1 DEF update, Ask, Answered, Windows
  <1>7. QED BY <1>1, <1>3, <1>4, <1>5, <1>6, OwnHolds

LEMMA GameMoves ==
    ASSUME SaveDataInv, ops["game"] = << >>,
           UNCHANGED <<flags, window, reg, file, code, pc, currentJob>>,
           prog'["nand"] = prog["nand"], ops'["nand"] = ops["nand"],
           MachineOK', ThreadOK', OneTask',
           prog'["game"] # << >> => Head(prog'["game"]) \notin TempSteps,
           \A f \in {"save", "banner"} : ops'["game"] # <<Set(Exists(f))>>,
           GameInv', SaveInv'
    PROVE  SaveDataInv'
  <1> USE DEF SaveDataInv
  <1>1. WordInv'
    <2>1. reg["game"] = NULL
      BY DEF WordInv, Actor
    <2>2. QED BY <2>1 DEF WordInv, Actor
  <1>2. ExistInv'
    <2> SUFFICES ASSUME NEW f \in {"save", "banner"}
                 PROVE  /\ Exists(f) \in flags
                             => file[f] # "none" \/ \E p \in Actor : ops'[p] = <<Reset(Exists(f))>>
                        /\ \A p \in Actor : ops'[p] = <<Set(Exists(f))>> => file[f] # "none"
      BY DEF ExistInv
    <2>1. ops["game"] # <<Reset(Exists(f))>>
      OBVIOUS
    <2>2. QED BY <2>1 DEF ExistInv, Actor
  <1>3. TempInv'
    <2>1. TempSafe("nand")'
      BY DEF TempInv, TempSafe, TempAt, Erring, Actor
    <2>2. TempSafe("game")'
      BY DEF TempSafe, TempAt
    <2>3. QED BY <2>1, <2>2 DEF TempInv, Actor
  <1>4. QED BY <1>1, <1>2, <1>3

LEMMA RequestedHolds == ASSUME SaveDataInv, Requested PROVE SaveDataInv'
  <1> USE DEF SaveDataInv
  <1> DEFINE bits == <<Set("AsyncSave"), Reset("ErrorWindow")>>
  <1>1. /\ ops["game"] = << >> /\ prog["game"] # << >> /\ Head(prog["game"]) = <<"requested", NULL>>
        /\ Then("game", bits, << >>) /\ UNCHANGED <<file, code>>
    BY DEF Requested, At, nandVars
  <1>2. GameSaves
    <2>1. Head(prog["game"])[1] = "requested"
      BY <1>1
    <2>2. ~GameIdle /\ ~GameFinishes /\ ~GameOwnFlags
      BY <1>1 DEF GameIdle, GameFinishes, GameOwnFlags
    <2>3. ~GameBegins
      BY <2>1 DEF GameBegins, RequestProgram
    <2>4. ~GameFiles
      <3>1. \A h, t : Ahead(h, t) => h[1] # "requested"
        BY DEF Ahead, SavingSteps, HomeSteps
      <3>2. QED BY <1>1, <2>1, <3>1 DEF GameFiles, FileProgram
    <2>5. QED BY <2>2, <2>3, <2>4 DEF GameInv
  <1>3. "game" \in Actor /\ "nand" \in Actor
    BY DEF Actor
  <1>4. prog["game"] = << <<"requested", NULL>> >>
    BY <1>1, <1>2 DEF GameSaves
  <1>5. /\ ops'["game"] = bits /\ prog'["game"] = << >> /\ prog'["nand"] = prog["nand"]
        /\ ops'["nand"] = ops["nand"] /\ prog' \in [Actor -> Seq(Step)]
        /\ UNCHANGED <<pTask, mesgQueue, endQueue, pc, currentJob, request, flags, window, reg>>
    <2>1. ops'["game"] = bits /\ prog'["game"] = Tail(prog["game"]) /\ prog'["game"] \in Seq(Step)
      BY <1>1, <1>3, NoStep
    <2>2. prog'["game"] = << >>
      BY <1>4, <2>1, OneStep
    <2>3. QED BY <1>1, <1>3, <2>1, <2>2 DEF Then, threadVars, MachineOK
  <1>6. bits \in Seq(BitOp)
    <2>1. Set("AsyncSave") \in BitOp /\ Reset("ErrorWindow") \in BitOp
      BY OpNames DEF Flag
    <2>2. QED BY <2>1
  <1>7. ops' \in [Actor -> Seq(BitOp)]
    BY <1>1, <1>6 DEF Then, MachineOK
  <1>8. MachineOK'
    BY <1>1, <1>5, <1>7 DEF MachineOK
  <1>9. ThreadOK'
    BY <1>5 DEF ThreadOK, TT!JobTypeOK, TT!Slot
  <1>10. OneTask'
    BY <1>5 DEF OneTask, Off, TT!NoRequest, TT!Blank
  <1>11. SaveInHand'
    BY <1>2, <1>5 DEF GameSaves, SaveInHand, SaveTask, Off, TT!NoRequest
  <1>12. GameSaves'
    <2>1. bits \in SaveOnOps
      BY DEF SaveOnOps
    <2>2. QED BY <1>2, <1>5, <1>11, <2>1 DEF GameSaves, SaveOnOps, Off
  <1>13. GameInv'
    <2>1. request' = TT!NoRequest'
      BY <1>11 DEF SaveInHand
    <2>2. "NandAccess" \in flags'
      BY <1>12 DEF GameSaves
    <2>3. QED BY <1>11, <1>12, <2>1, <2>2 DEF GameInv
  <1>14. SaveInv'
    <2>1. bits # <<Reset("NandAccess")>> /\ << >> # <<Reset("NandAccess")>>
      <3>1. Set("AsyncSave") # Reset("NandAccess")
        BY DEF Set, Reset
      <3>2. QED BY <3>1, OneStep, TwoSteps
    <2>2. QED BY <1>1, <1>5, <2>1 DEF SaveInv, SaveSafe, Excused, Erring
  <1>15. \A f \in {"save", "banner"} : bits # <<Set(Exists(f))>>
    <2>1. \A f \in {"save", "banner"} : Set("AsyncSave") # Set(Exists(f))
      BY DEF Set, Exists
    <2>2. QED BY <2>1, OneStep, TwoSteps
  <1>16. QED BY <1>1, <1>5, <1>8, <1>9, <1>10, <1>13, <1>14, <1>15, GameMoves

(* The request, in its steps. *)
LEMMA RequestHolds == ASSUME SaveDataInv, NEW t \in Task, Request(t) PROVE SaveDataInv'
  <1> USE DEF SaveDataInv
  <1>1. /\ ops["game"] = << >> /\ prog["game"] # << >> /\ Head(prog["game"]) = <<"request", t>>
        /\ UNCHANGED <<flags, window, ops, reg, file, code>> /\ Runs("game")
    BY DEF Request, At, nandVars
  <1>2. "game" \in Actor /\ "nand" \in Actor
    BY DEF Actor
  <1>3. GameBegins
    <2>1. ~GameIdle /\ ~GameFinishes /\ ~GameOwnFlags
      BY <1>1 DEF GameIdle, GameFinishes, GameOwnFlags
    <2>2. Head(prog["game"])[1] = "request"
      BY <1>1
    <2>3. ~GameFiles
      <3>1. \A h, s : Ahead(h, s) => h[1] # "request"
        BY DEF Ahead, SavingSteps, HomeSteps
      <3>2. QED BY <1>1, <2>2, <3>1 DEF GameFiles, FileProgram
    <2>4. ~GameSaves
      BY <1>1, <2>2, OneStep DEF GameSaves
    <2>5. QED BY <2>1, <2>3, <2>4 DEF GameInv
  <1>4. /\ RequestProgram(prog["game"], t) /\ "NandAccess" \in flags /\ HasNone /\ "AsyncSave" \notin flags
        /\ request # TT!NoRequest => request.task = t
        /\ mesgQueue = << >> /\ endQueue = << >> /\ Off /\ pc # "running"
        /\ prog["nand"] = << >> /\ ops["nand"] = << >>
    <2>1. PICK u \in Task : /\ RequestProgram(prog["game"], u)
                            /\ "NandAccess" \in flags /\ HasNone
                            /\ request # TT!NoRequest => request.task = u
      <3>1. << >> # <<Reset("NandError")>> /\ << >> # <<Set("NandAccess"), Reset("NandError")>>
        OBVIOUS
      <3>2. QED BY <1>1, <1>3, <3>1 DEF GameBegins
    <2>2. u = t
      BY <1>1, <2>1 DEF RequestProgram
    <2>3. QED BY <1>3, <2>1, <2>2 DEF GameBegins, HasNone, Off, OneTask
  <1>5. /\ pTask \in [TT!Slot -> Task \cup {NULL}]
        /\ pc \in {"wait", "received", "running", "returned", "ended", "cleared"}
        /\ currentJob \in TT!Slot \cup {NULL} /\ (currentJob = NULL <=> pc = "wait")
        /\ prog \in [Actor -> Seq(Step)] /\ prog["game"] \in Seq(Step)
        /\ request \in [at : {"none"}, slot : {NULL}, task : {NULL}]
                   \cup [at : {"found", "filled"}, slot : TT!Slot, task : Task]
    BY <1>2 DEF ThreadOK, TT!JobTypeOK, MachineOK
  <1>6. SaveInv' /\ \A f \in {"save", "banner"} : ops'["game"] # <<Set(Exists(f))>>
    <2>1. SaveInv'
      BY <1>1, <1>4 DEF SaveInv
    <2>2. \A f \in {"save", "banner"} : << >> # <<Set(Exists(f))>>
      OBVIOUS
    <2>3. QED BY <1>1, <2>1, <2>2
  <1>7. << >> \in Seq(TT!Slot) /\ << >> \in Seq(Task)
    OBVIOUS
  <1>8. CASE (TT!FindBlank(t) \/ TT!FillJob) /\ UNCHANGED prog
    <2>1. UNCHANGED <<mesgQueue, endQueue, pc, currentJob>> /\ prog' = prog
      BY <1>8 DEF TT!FindBlank, TT!FillJob, TT!jobVars, TT!threadVars
    <2>2. /\ pTask' \in [TT!Slot -> Task \cup {NULL}]
          /\ request' \in [at : {"found", "filled"}, slot : TT!Slot, task : Task] /\ request'.task = t
          /\ request'.at = "filled" => pTask'[request'.slot] = t
      <3>1. CASE TT!FindBlank(t)
        BY <1>5, <3>1 DEF TT!FindBlank, TT!jobVars, TT!threadVars
      <3>2. CASE TT!FillJob
        <4>1. /\ request.at = "found" /\ pTask' = [pTask EXCEPT ![request.slot] = request.task]
              /\ request' = [request EXCEPT !.at = "filled"]
          BY <3>2 DEF TT!FillJob
        <4>2. request \in [at : {"found", "filled"}, slot : TT!Slot, task : Task]
          BY <1>5, <4>1
        <4>3. request # TT!NoRequest
          BY <4>1 DEF TT!NoRequest
        <4>4. request.task = t /\ request.slot \in TT!Slot
          BY <1>4, <4>2, <4>3
        <4>5. request' \in [at : {"found", "filled"}, slot : TT!Slot, task : Task]
              /\ request'.task = t /\ request'.slot = request.slot
          BY <4>1, <4>2, <4>4
        <4>6. pTask' \in [TT!Slot -> Task \cup {NULL}] /\ pTask'[request.slot] = t
          BY <1>5, <4>1, <4>4
        <4>7. QED BY <4>5, <4>6
      <3>3. QED BY <1>8, <3>1, <3>2
    <2>3. request' # TT!NoRequest'
      BY <2>2 DEF TT!NoRequest
    <2>4. MachineOK'
      BY <1>1, <2>1 DEF MachineOK
    <2>5. ThreadOK'
      <3>1. TT!JobTypeOK'
        BY <1>4, <1>5, <1>7, <2>1, <2>2 DEF TT!JobTypeOK, TT!Slot
      <3>2. QED BY <1>1, <2>2, <3>1 DEF ThreadOK
    <2>6. OneTask'
      BY <1>1, <1>4, <2>1 DEF OneTask, Off
    <2>7. GameBegins'
      <3>1. HasNone'
        BY <1>4, <2>1 DEF HasNone, Off
      <3>2. RequestProgram(prog["game"], t)'
        BY <1>4, <2>1 DEF RequestProgram
      <3>3. QED BY <1>1, <1>4, <2>2, <3>1, <3>2 DEF GameBegins
    <2>8. GameInv'
      BY <1>1, <1>4, <2>7 DEF GameInv
    <2>9. Head(prog'["game"]) \notin TempSteps
      BY <1>1, <2>1 DEF TempSteps, SavingSteps, HomeSteps
    <2>10. QED BY <1>1, <1>6, <2>1, <2>4, <2>5, <2>6, <2>8, <2>9, GameMoves
  <1>9. CASE prog' = [prog EXCEPT !["game"] = Tail(@)]
             /\ (TT!SendJob \/ (request = TT!NoRequest /\ UNCHANGED threadVars))
    <2>1. /\ request' = TT!NoRequest' /\ UNCHANGED <<endQueue, pc, currentJob>>
          /\ pTask' \in [TT!Slot -> Task \cup {NULL}]
          /\ \/ mesgQueue' = << >>
             \/ \E s \in TT!Slot : mesgQueue' = <<s>> /\ pTask'[s] \in {t, NULL}
      <3>1. CASE TT!SendJob
        <4>1. /\ request.at = "filled" /\ request' = TT!NoRequest
              /\ UNCHANGED <<endQueue, pc, currentJob>>
              /\ IF Len(mesgQueue) < Capacity
                 THEN mesgQueue' = Append(mesgQueue, request.slot) /\ UNCHANGED pTask
                 ELSE TRUE
          BY <3>1 DEF TT!SendJob, TT!threadVars
        <4>2. Len(mesgQueue) < Capacity
          BY <1>4, SaveDataAssumption
        <4>3. request \in [at : {"found", "filled"}, slot : TT!Slot, task : Task] /\ request # TT!NoRequest
          BY <1>5, <4>1 DEF TT!NoRequest
        <4>4. pTask[request.slot] \in {t, NULL} /\ request.slot \in TT!Slot
          BY <1>4, <4>1, <4>3 DEF ThreadOK
        <4>5. Append(<< >>, request.slot) = <<request.slot>>
          BY <4>4
        <4>6. QED BY <1>4, <1>5, <4>1, <4>2, <4>4, <4>5 DEF TT!NoRequest
      <3>2. CASE request = TT!NoRequest /\ UNCHANGED threadVars
        BY <1>4, <1>5, <3>2 DEF threadVars, TT!NoRequest
      <3>3. QED BY <1>9, <3>1, <3>2
    <2>2. /\ prog'["game"] = Tail(prog["game"]) /\ prog'["nand"] = << >> /\ ops'["nand"] = << >>
          /\ prog' \in [Actor -> Seq(Step)]
          /\ prog'["game"] = IF t = "saveData" THEN << <<"requested", NULL>> >> ELSE << >>
      <3>1. Tail(prog["game"]) \in Seq(Step)
        BY <1>1, <1>5, TailType
      <3>2. QED BY <1>1, <1>2, <1>4, <1>5, <1>9, <3>1 DEF RequestProgram
    <2>3. MachineOK'
      BY <1>1, <2>2 DEF MachineOK
    <2>4. /\ mesgQueue' \in Seq(TT!Slot)
          /\ mesgQueue' # << >> => Tail(mesgQueue') = << >> /\ pTask'[Head(mesgQueue')] \in {t, NULL}
      <3>1. CASE mesgQueue' = << >>
        BY <1>7, <3>1
      <3>2. CASE \E s \in TT!Slot : mesgQueue' = <<s>> /\ pTask'[s] \in {t, NULL}
        <4>1. PICK s \in TT!Slot : mesgQueue' = <<s>> /\ pTask'[s] \in {t, NULL}
          BY <3>2
        <4>2. <<s>> \in Seq(TT!Slot)
          OBVIOUS
        <4>3. Tail(mesgQueue') = << >> /\ Head(mesgQueue') = s
          BY <4>1, OneStep
        <4>4. QED BY <4>1, <4>2, <4>3
      <3>3. QED BY <2>1, <3>1, <3>2
    <2>5. ThreadOK'
      <3>1. request'.at = "none" /\ request' \in [at : {"none"}, slot : {NULL}, task : {NULL}]
        BY <2>1 DEF TT!NoRequest
      <3>2. TT!JobTypeOK'
        BY <1>4, <1>5, <1>7, <2>1, <2>4, <3>1 DEF TT!JobTypeOK, TT!Slot
      <3>3. QED BY <1>1, <3>1, <3>2 DEF ThreadOK
    <2>6. OneTask'
      BY <1>1, <1>4, <2>1, <2>2, <2>4 DEF OneTask, Off
    <2>7. GameIdle' \/ GameSaves'
      <3>1. CASE t # "saveData"
        BY <1>1, <2>2, <3>1 DEF GameIdle
      <3>2. CASE t = "saveData"
        <4>1. SaveInHand'
          <5>1. (mesgQueue # << >> => SaveTask(Head(mesgQueue)))'
            BY <2>4, <3>2 DEF SaveTask
          <5>2. QED BY <1>4, <2>1, <2>2, <5>1 DEF SaveInHand, Off, SavingProgram
        <4>2. QED BY <1>1, <1>4, <2>1, <2>2, <3>2, <4>1 DEF GameSaves, Off
      <3>3. QED BY <3>1, <3>2
    <2>8. GameInv'
      BY <1>1, <1>4, <2>1, <2>7 DEF GameInv
    <2>9. prog'["game"] # << >> => Head(prog'["game"]) \notin TempSteps
      <3>1. <<"requested", NULL>> \notin TempSteps
        BY DEF TempSteps, SavingSteps, HomeSteps
      <3>2. Head(<< <<"requested", NULL>> >>) = <<"requested", NULL>>
        BY OneStep
      <3>3. QED BY <2>2, <3>1, <3>2
    <2>10. QED BY <1>1, <1>4, <1>6, <2>1, <2>2, <2>3, <2>5, <2>6, <2>8, <2>9, GameMoves
  <1>10. QED BY <1>8, <1>9 DEF Request

LEMMA PlayerDataHolds == ASSUME SaveDataInv, setPlayerData PROVE SaveDataInv'
  <1> USE DEF SaveDataInv
  <1>1. /\ GameIdle /\ {"NandAccess", "AsyncSave"} \cap flags = {}
        /\ UNCHANGED <<pTask, mesgQueue, endQueue, pc, currentJob, request, flags, code, window,
                       prog, ops, reg>>
        /\ file' = [file EXCEPT !["save"] = "old"]
    BY DEF setPlayerData, MayCall, isAsyncFinish, threadVars, machineVars
  <1>2. prog["game"] = << >> /\ prog["nand"] = << >>
    BY <1>1, FilesMeansRest DEF GameIdle
  <1>3. MachineOK'
    BY <1>1 DEF MachineOK, Content
  <1>4. ThreadOK'
    BY <1>1 DEF ThreadOK, TT!JobTypeOK, TT!Slot
  <1>5. OneTask'
    BY <1>1 DEF OneTask, Off, TT!NoRequest, TT!Blank
  <1>6. GameInv'
    <2>1. GameIdle' /\ (Rests => Rests') /\ (SaveInHand => SaveInHand')
          /\ (request' = TT!NoRequest' <=> request = TT!NoRequest)
      BY <1>1 DEF GameIdle, Rests, HasNone, Off, TT!NoRequest, SaveInHand, SaveTask
    <2>2. request = TT!NoRequest
      BY <1>1, FilesMeansRest DEF Rests
    <2>3. QED BY <1>1, <2>1, <2>2 DEF GameInv
  <1>7. WordInv'
    <2>1. reg["game"] = NULL
      BY <1>1 DEF GameIdle, WordInv, Actor
    <2>2. QED BY <1>1, <2>1 DEF WordInv, Actor
  <1>8. ExistInv'
    <2>1. \A f \in {"save", "banner"} : file[f] # "none" => file'[f] # "none"
      BY <1>1 DEF MachineOK, File
    <2>2. QED BY <1>1, <2>1 DEF ExistInv
  <1>9. TempInv'
    BY <1>1, <1>2 DEF TempInv, TempSafe, Actor
  <1>10. SaveInv'
    BY <1>1 DEF SaveInv
  <1>11. QED BY <1>3, <1>4, <1>5, <1>6, <1>7, <1>8, <1>9, <1>10

LEMMA FinishHolds == ASSUME SaveDataInv, finishNandAccess PROVE SaveDataInv'
  <1> USE DEF SaveDataInv
  <1>1. /\ GameIdle /\ request = TT!NoRequest /\ endQueue # << >> /\ endQueue' = Tail(endQueue)
        /\ ops' = [ops EXCEPT !["game"] = <<Reset("NandAccess")>>]
        /\ UNCHANGED <<pTask, mesgQueue, pc, currentJob, request, flags, window, prog, reg, file, code>>
    BY DEF finishNandAccess, TT!TakeEndMessage, TT!threadVars, nandVars
  <1>2. /\ endQueue' = << >> /\ mesgQueue = << >> /\ Off /\ "NandAccess" \in flags
        /\ prog["game"] = << >> /\ ops["game"] = << >>
    BY <1>1, TaskMeansAccess DEF OneTask, GameIdle
  <1>3. /\ ops'["game"] = <<Reset("NandAccess")>> /\ ops'["nand"] = ops["nand"]
        /\ ops' \in [Actor -> Seq(BitOp)]
    <2>1. <<Reset("NandAccess")>> \in Seq(BitOp)
      BY BitLists DEF Flag
    <2>2. QED BY <1>1, <2>1 DEF MachineOK, Actor
  <1>4. MachineOK'
    BY <1>1, <1>3 DEF MachineOK
  <1>5. ThreadOK'
    <2>1. endQueue' \in Seq(Task)
      BY <1>1, TailType DEF ThreadOK, TT!JobTypeOK
    <2>2. QED BY <1>1, <2>1 DEF ThreadOK, TT!JobTypeOK, TT!Slot
  <1>6. OneTask'
    BY <1>1, <1>2, <1>3 DEF OneTask, Off, TT!NoRequest, TT!Blank
  <1>7. Rests' /\ GameFinishes'
    BY <1>1, <1>2, <1>3 DEF Rests, HasNone, Off, TT!NoRequest, GameFinishes
  <1>8. GameInv'
    <2>1. SaveInHand => SaveInHand'
      BY <1>1, <1>3 DEF SaveInHand, SaveTask, Off, TT!NoRequest
    <2>2. QED BY <1>1, <1>2, <1>7, <2>1 DEF GameInv, Rests
  <1>9. SaveInv'
    <2>1. pc # "running"
      BY <1>2 DEF Off
    <2>2. QED BY <1>1, <2>1 DEF SaveInv
  <1>10. \A f \in {"save", "banner"} : <<Reset("NandAccess")>> # <<Set(Exists(f))>>
    <2>1. \A f \in {"save", "banner"} : Reset("NandAccess") # Set(Exists(f))
      BY DEF Set, Reset
    <2>2. QED BY <2>1, OneStep
  <1>11. QED BY <1>1, <1>2, <1>3, <1>4, <1>5, <1>6, <1>8, <1>9, <1>10, GameMoves

(* Only the window changes, or nothing. *)
LEMMA OthersHold ==
    ASSUME SaveDataInv, PlayerAnswers \/ UNCHANGED vars
    PROVE  SaveDataInv'
  <1> USE DEF SaveDataInv
  <1>1. /\ UNCHANGED <<pTask, mesgQueue, endQueue, pc, currentJob, request, flags, prog, ops, reg, file, code>>
        /\ window' \in Windows
    BY WindowType DEF PlayerAnswers, vars, threadVars, machineVars, nandVars, Windows
  <1>2. MachineOK'
    BY <1>1 DEF MachineOK
  <1>3. ThreadOK'
    BY <1>1 DEF ThreadOK, TT!JobTypeOK, TT!Slot, Windows
  <1>4. OneTask'
    BY <1>1 DEF OneTask, Off, TT!NoRequest, TT!Blank
  <1>5. /\ GameIdle => GameIdle'
        /\ GameBegins => GameBegins'
        /\ GameSaves => GameSaves'
        /\ GameFinishes => GameFinishes'
        /\ GameOwnFlags => GameOwnFlags'
        /\ GameFiles => GameFiles'
        /\ Rests => Rests'
        /\ SaveInHand => SaveInHand'
    BY <1>1 DEF GameSaves, GameIdle, GameBegins, GameFinishes, GameOwnFlags, GameFiles, Rests, HasNone,
                Off, TT!NoRequest, SaveInHand, SaveTask
  <1>6. GameInv'
    BY <1>1, <1>5 DEF GameInv, TT!NoRequest
  <1>7. WordInv' /\ ExistInv' /\ TempInv' /\ SaveInv'
    <2>1. WordInv' /\ ExistInv'
      BY <1>1, <1>5 DEF WordInv, ExistInv
    <2>2. TempInv'
      BY <1>1 DEF TempInv, TempSafe, TempAt, Erring
    <2>3. SaveInv'
      BY <1>1 DEF SaveInv, SaveSafe, Excused, Erring
    <2>4. QED BY <2>1, <2>2, <2>3
  <1>8. QED BY <1>2, <1>3, <1>4, <1>6, <1>7

(* Nothing is left but the files. *)
Fresh ==
    /\ pTask = [s \in TT!Slot |-> NULL] /\ mesgQueue = << >> /\ endQueue = << >>
    /\ pc = "wait" /\ currentJob = NULL /\ request = TT!NoRequest
    /\ flags = {} /\ code = "other" /\ window = "closed"
    /\ prog = [p \in Actor |-> << >>] /\ ops = [p \in Actor |-> << >>] /\ reg = [p \in Actor |-> NULL]
    /\ file \in [File -> Content]

LEMMA FreshHolds == Fresh => SaveDataInv
  <1> SUFFICES ASSUME Fresh PROVE SaveDataInv
    OBVIOUS
  <1>1. << >> \in Seq(Step) /\ << >> \in Seq(BitOp) /\ << >> \in Seq(TT!Slot) /\ << >> \in Seq(Task)
    OBVIOUS
  <1>2. /\ prog["game"] = << >> /\ prog["nand"] = << >> /\ ops["game"] = << >> /\ ops["nand"] = << >>
        /\ reg["game"] = NULL /\ reg["nand"] = NULL
    BY DEF Fresh, Actor
  <1>3. MachineOK
    BY <1>1 DEF Fresh, MachineOK
  <1>4. ThreadOK
    BY <1>1 DEF Fresh, ThreadOK, TT!JobTypeOK, TT!NoRequest
  <1>5. OneTask
    BY <1>2 DEF Fresh, OneTask, Off
  <1>6. GameInv
    BY <1>2 DEF Fresh, GameInv, GameIdle, Rests, HasNone, Off
  <1>7. WordInv
    BY <1>2 DEF Fresh, WordInv, Actor
  <1>8. ExistInv
    <2>1. \A s \in {"save", "banner"} : << >> # <<Set(Exists(s))>>
      OBVIOUS
    <2>2. QED BY <1>2, <2>1 DEF Fresh, ExistInv, Actor
  <1>9. TempInv
    BY <1>2 DEF TempInv, TempSafe, Actor
  <1>10. SaveInv
    BY DEF Fresh, SaveInv
  <1>11. QED BY <1>3, <1>4, <1>5, <1>6, <1>7, <1>8, <1>9, <1>10 DEF SaveDataInv

LEMMA InitHolds == Init => SaveDataInv
  <1>1. Init => Fresh
    BY DEF Init, TT!EggInit, Fresh, Content, TT!Slot, TT!NoRequest
  <1>2. QED BY <1>1, FreshHolds

LEMMA PowerHolds == ASSUME SaveDataInv, PowerCycle PROVE SaveDataInv'
  <1>1. file' \in [File -> Content]
    <2>1. \A f \in File : file[f] \in Content
      BY DEF SaveDataInv, MachineOK
    <2>2. {"torn", "none", "old"} \subseteq Content /\ "temp" \in File
      BY DEF Content, File
    <2>3. PICK torn \in SUBSET File, temp \in {"none", file["temp"]} :
             file' = [f \in File |-> IF f \in torn THEN "torn"
                                     ELSE IF f = "temp" THEN temp
                                     ELSE IF f = "save" /\ file[f] = "whole" THEN "old" ELSE file[f]]
      BY DEF PowerCycle
    <2>4. temp \in Content
      BY <2>1, <2>2, <2>3
    <2>5. QED BY <2>1, <2>2, <2>3, <2>4
  <1>2. Fresh'
    BY <1>1 DEF PowerCycle, Fresh, TT!Slot, TT!NoRequest
  <1>3. (Fresh => SaveDataInv)'
    BY FreshHolds, PTL
  <1>4. QED BY <1>2, <1>3

LEMMA NextHolds ==
    ASSUME SaveDataInv, [Next]_vars
    PROVE  SaveDataInv'
  <1>1. CASE NandThread
    BY <1>1, NandThreadHolds
  <1>2. CASE GameThread
    BY <1>2, FileStepHolds, RequestHolds, RequestedHolds DEF GameThread, Actor
  <1>3. CASE \E t \in Task : Async(t)
    BY <1>3, AsyncHolds
  <1>4. CASE Sync
    BY <1>4, SyncHolds
  <1>5. CASE setPlayerData
    BY <1>5, PlayerDataHolds
  <1>6. CASE setSaveDisable
    BY <1>6, DisableHolds
  <1>7. CASE finishNandAccess
    BY <1>7, FinishHolds
  <1>8. CASE \E display \in BOOLEAN : update(display)
    BY <1>8, UpdateHolds
  <1>9. CASE PlayerAnswers \/ UNCHANGED vars
    BY <1>9, OthersHold
  <1>10. CASE PowerCycle
    BY <1>10, PowerHolds
  <1>11. QED BY <1>1, <1>2, <1>3, <1>4, <1>5, <1>6, <1>7, <1>8, <1>9, <1>10 DEF Next

(***************************************************************************)
(* The inductive invariant of the manager, for any tasks, capacities of    *)
(* the queues and for either order of the two threads' priorities.         *)
(***************************************************************************)
THEOREM SaveDataInvariant == Spec => []SaveDataInv
  <1>1. Init => SaveDataInv
    BY InitHolds
  <1>2. SaveDataInv /\ [Next]_vars => SaveDataInv'
    BY NextHolds
  <1>3. QED BY <1>1, <1>2, PTL DEF Spec

(* Every variable of the manager and of its thread keeps its type, a       *)
(* thread that has loaded the flags has an operation to store, and the     *)
(* NAND thread has steps left only while its task runs.                    *)
THEOREM SaveTypeCorrect == Spec => []TypeOK
  <1>1. SaveDataInv => TypeOK
    <2> SUFFICES ASSUME SaveDataInv PROVE TypeOK
      OBVIOUS
    <2>1. TT!JobTypeOK /\ flags \subseteq Flag /\ code \in {"BUSY", "other"}
          /\ window \in {"closed", "continue", "reject", "CONTINUE", "YES", "NO"}
      BY DEF SaveDataInv, MachineOK, ThreadOK
    <2>2. \A p \in Actor : reg[p] # NULL => reg[p] \subseteq Flag /\ ops[p] # << >>
      <3>1. \A p \in Actor : reg[p] \in (SUBSET Flag) \cup {NULL}
        BY DEF SaveDataInv, MachineOK
      <3>2. QED BY <3>1 DEF SaveDataInv, WordInv
    <2>3. file \in [File -> {"none", "empty", "torn", "old", "whole"}]
      BY DEF SaveDataInv, MachineOK, Content
    <2>4. pc # "running" => prog["nand"] = << >> /\ ops["nand"] = << >>
      BY DEF SaveDataInv, OneTask
    <2>5. QED BY <2>1, <2>2, <2>3, <2>4 DEF TypeOK
  <1>2. QED BY <1>1, SaveDataInvariant, PTL

(* A file that the bits of existSaveFile, createSaveFile and the like say  *)
(* exists does exist whenever neither thread is in the middle of anything, *)
(* after any failures and power cuts.                                      *)
THEOREM SaveFilesExist == Spec => []ExistTruthful
  <1>1. SaveDataInv => ExistTruthful
    <2> SUFFICES ASSUME SaveDataInv, Quiet, NEW f \in {"save", "banner"}, Exists(f) \in flags
                 PROVE  file[f] # "none"
      BY DEF ExistTruthful
    <2>1. ops["game"] = << >> /\ ops["nand"] = << >>
      BY DEF Quiet, GameIdle, TT!ThreadBlocked, SaveDataInv, OneTask
    <2>2. << >> # <<Reset(Exists(f))>>
      OBVIOUS
    <2>3. QED BY <2>1, <2>2 DEF SaveDataInv, ExistInv, Actor
  <1>2. QED BY <1>1, SaveDataInvariant, PTL

(* Only a whole banner is moved from /tmp to the home directory while      *)
(* saving is not disabled: createBannerFile looks at the error before it   *)
(* moves, and saveBannerFile raises one whenever it wrote too little.      *)
THEOREM SaveBannerMovedWhole == Spec => EnabledBannerMovedWhole
  <1>1. SaveDataInv /\ [Next]_vars =>
           [\A p \in Actor : Move(p) /\ file' # file /\ "DisableSave" \notin flags
                             => file'["banner"] = "whole"]_vars
    <2> SUFFICES ASSUME SaveDataInv, NEW p \in Actor, Move(p), file' # file, "DisableSave" \notin flags
                 PROVE  file'["banner"] = "whole"
      OBVIOUS
    <2>1. prog[p] # << >> /\ Head(prog[p]) = <<"move", NULL>>
      BY DEF Move, At
    <2>2. <<"move", NULL>> \in TempSteps
      BY DEF TempSteps, HomeSteps
    <2>3. TempSafe(p)
      BY DEF SaveDataInv, TempInv
    <2>4. file["temp"] = "whole"
      BY <2>1, <2>2, <2>3 DEF TempSafe, TempAt
    <2>5. file' = [file EXCEPT !["banner"] = file["temp"], !["temp"] = "none"]
      BY DEF Move, Fails
    <2>6. file \in [File -> Content]
      BY DEF SaveDataInv, MachineOK
    <2>7. QED BY <2>4, <2>5, <2>6 DEF File
  <1>2. QED BY <1>1, SaveDataInvariant, PTL DEF Spec, EnabledBannerMovedWhole

(* When update is about to declare a save over without an error, the NAND  *)
(* holds the data the game has set, and a whole banner: the game thread    *)
(* coming first, saveAsync has raised AsyncSave before the task begins.    *)
THEOREM SaveReportsTrue == ASSUME ThreadFirst = FALSE PROVE Spec => []SaveReported
  <1>1. SaveDataInv => SaveReported
    BY DEF SaveDataInv, SaveInv, SaveReported
  <1>2. QED BY <1>1, SaveDataInvariant, PTL

(* No interleaving of the two threads' loads and stores of mFlags drops an *)
(* error, the game thread coming first: the bit goes only when the next    *)
(* operation begins by resetting it, or with the power.                    *)
THEOREM SaveErrorKept == ASSUME ThreadFirst = FALSE PROVE Spec => ErrorKept
  <1>1. SaveDataInv /\ [Next]_vars =>
           ["NandError" \in flags /\ "NandError" \notin flags' => OperationBegins \/ PowerCycle]_vars
    <2> SUFFICES ASSUME SaveDataInv, Next, "NandError" \in flags, "NandError" \notin flags', ~PowerCycle
                 PROVE  OperationBegins
      BY DEF vars
    <2>1. Store("nand") \/ Store("game")
      <3>1. ASSUME NEW p \in Actor, FileStep(p) PROVE Store(p)
        <4>1. CASE Load(p)
          BY <4>1 DEF Load
        <4>2. CASE ~Load(p) /\ ~Store(p)
          <5>1. flags' = flags
            BY <3>1, <4>2, FileStepTurns DEF Turn
          <5>2. QED BY <5>1
        <4>3. QED BY <4>1, <4>2
      <3>2. NandThread => FileStep("nand")
        BY DEF NandThread
      <3>3. GameThread => FileStep("game")
        BY DEF GameThread, Request, Requested, Then
      <3>4. NandThread \/ GameThread
        BY DEF Next, Async, Sync, setPlayerData, setSaveDisable, finishNandAccess, update, PlayerAnswers,
               GameDoes, Ask, Answered
      <3>5. QED BY <3>1, <3>2, <3>3, <3>4 DEF Actor
    <2>2. ~Store("nand")
      <3> SUFFICES ASSUME Store("nand") PROVE FALSE
        OBVIOUS
      <3>1. ops["nand"] # << >> /\ flags' = Applied(Head(ops["nand"]), reg["nand"])
            /\ reg["nand"] \in SUBSET Flag /\ Head(ops["nand"]) \in BitOp
        BY WordStored DEF Actor
      <3>2. reg["nand"] = flags /\ ops["nand"] \in FileOps
        BY <3>1 DEF Store, SaveDataInv, WordInv, OneTask
      <3>3. Head(ops["nand"])[2] = "NandError" => Head(ops["nand"])[1] = "set"
        BY <3>2, FileOp
      <3>4. QED BY <3>1, <3>2, <3>3, OneBit
    <2>3. Store("game")
      BY <2>1, <2>2
    <2>4. /\ ops["game"] # << >> /\ flags' = Applied(Head(ops["game"]), flags)
          /\ flags \in SUBSET Flag /\ Head(ops["game"]) \in BitOp /\ reg["game"] # NULL
      BY <2>3, WordStored DEF Actor, Store, SaveDataInv, WordInv
    <2>5. Head(ops["game"])[1] = "reset" /\ Head(ops["game"])[2] = "NandError"
      BY <2>4, OneBit DEF BitOp
    <2>6. Head(ops["game"]) = Reset("NandError")
      BY <2>4, <2>5 DEF BitOp, Reset
    <2>7. prog["game"] # << >>
      <3>1. ~GameIdle
        BY <2>4 DEF GameIdle
      <3>2. ~GameSaves
        <4>1. ops["game"] \in SaveOnOps => Head(ops["game"]) \in {Set("AsyncSave"), Reset("ErrorWindow")}
          BY OneStep, TwoSteps DEF SaveOnOps
        <4>2. QED BY <2>4, <2>6, <4>1 DEF GameSaves, Set, Reset
      <3>3. ~GameFinishes
        <4>1. ops["game"] = <<Reset("NandAccess")>> => Head(ops["game"]) = Reset("NandAccess")
          BY OneStep
        <4>2. QED BY <2>6, <4>1 DEF GameFinishes, Reset
      <3>4. ~GameOwnFlags
        <4>1. ops["game"] \in OwnOps => Head(ops["game"]) \in {Set("ErrorWindow"), Set("DisableSave"),
                 Reset("DisableSave"), Reset("ErrorWindow"), Reset("AsyncSave")}
          BY OwnNames
        <4>2. QED BY <2>6, <4>1 DEF GameOwnFlags, Set, Reset
      <3>5. CASE GameBegins
        BY <3>5 DEF GameBegins, RequestProgram
      <3>6. CASE GameFiles
        <4>1. ops["game"] \in FileOps => Head(ops["game"])[1] = "set"
                                         \/ Head(ops["game"])[2] # "NandError"
          BY FileOp
        <4>2. QED BY <2>4, <2>5, <3>6, <4>1 DEF GameFiles, FileProgram
      <3>7. QED BY <3>1, <3>2, <3>3, <3>4, <3>5, <3>6 DEF SaveDataInv, GameInv
    <2>8. QED BY <2>4, <2>6, <2>7 DEF OperationBegins
  <1>2. QED BY <1>1, SaveDataInvariant, PTL DEF Spec, ErrorKept
=============================================================================
