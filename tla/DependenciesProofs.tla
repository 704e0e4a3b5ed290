------------------------- MODULE DependenciesProofs -------------------------
(***************************************************************************)
(* The safety properties of Dependencies, proved for every requirements     *)
(* file, any number of handlers and Node.js runs, and any call failing.     *)
(*                                                                          *)
(* None of them is inductive by itself.  What a job has done so far is      *)
(* only known from where it is: a job that registers lines has seen pip3    *)
(* succeed or was misled, a job that copies has found every package          *)
(* installed, a refresh that is about to answer has registered every line.  *)
(***************************************************************************)
EXTENDS Dependencies, SequenceTheorems, TLAPS

Locations == {"new", "call", "write", "fill", "start", "pip", "installing", "register", "copy",
              "reply", "running", "done"}
Dirs == (Jobs \union NodeRuns \union {"server"}) \X Nat
AfterWriting == {"fill", "start", "pip", "installing", "register"}

TypeOK ==
    /\ requirements \in {Lines, <<>>}
    /\ up \in BOOLEAN /\ trouble \in BOOLEAN
    /\ pc \in [Jobs \union NodeRuns -> Locations]
    /\ task \in [Jobs -> {"install", "update", "list"}]
    /\ dir \in Dirs /\ pipDir \in [Jobs -> Dirs]
    /\ calls \in [Jobs -> Nat] /\ next \in [Jobs -> Nat \ {0}]
    /\ installed \subseteq Packages /\ sandboxed \subseteq Packages
    /\ todo \in [Jobs -> SUBSET Packages]
    /\ listed \subseteq Keys
    /\ answer \in [Jobs -> SUBSET (Keys \union NoList)]
    /\ skipped \subseteq Jobs

(* The first n lines have been registered. *)
Registered(n) == \A i \in 1 .. Len(requirements) :
                    i < n => requirements[i] \in listed \union {Blank}

JobPlace(j) ==
    /\ pc[j] \in AfterWriting => task[j] = "install"
    /\ pc[j] = "copy" => task[j] = "update"
    /\ pc[j] \in {"start", "pip"} => Root(j) \in filled
    /\ pc[j] = "register" => Registered(next[j]) /\ (Misled(j) \/ Packages \subseteq installed)

HandlerPlace(h) ==
    /\ pc[h] # "done" => answer[h] = NoList
    /\ task[h] = "install" /\ requirements # <<>> /\ h \notin skipped =>
          /\ pc[h] = "reply" => Keys \subseteq listed
          /\ answer[h] # NoList => Keys \subseteq answer[h]

(* The start-up goroutine installs once and then prepares once.             *)
StartupPlace ==
    LET s == "startup" IN
    /\ pc[s] \in AfterWriting \union {"call", "write", "copy", "done"}
    /\ task[s] \in {"install", "update"}
    /\ pc[s] = "call" /\ task[s] = "install" => calls[s] = 0
    /\ pc[s] \in AfterWriting \union {"write"} /\ task[s] = "install" => calls[s] = 1
    /\ pc[s] \in AfterWriting => Root(s) \in filed
    /\ requirements # <<>> /\ s \notin skipped /\ (\A m \in misled : m[1] # <<s, 1>>) =>
          /\ pc[s] \in {"call", "write", "copy"} /\ task[s] = "update" => Packages \subseteq installed
          /\ pc[s] = "copy" => Packages \subseteq todo[s] \union sandboxed \union missed
          /\ pc[s] = "done" /\ up => Packages \subseteq sandboxed \union missed

(* The list is true of every installation that was not misled, and no       *)
(* installation is misled by the file it wrote itself.                      *)
ListPlace ==
    /\ misled = {} => listed \ Comments \subseteq installed
    /\ \A m \in misled : m[2] # m[1]

Inv ==
    /\ TypeOK
    /\ \A j \in Jobs : JobPlace(j)
    /\ \A h \in Handlers : HandlerPlace(h)
    /\ StartupPlace
    /\ ListPlace /\ InstallCleansUp /\ CrashHasCause

-----------------------------------------------------------------------------
(* Facts about the constants. *)

(* No two kinds of jobs have a name in common.                              *)
LEMMA Names == /\ "startup" \notin Handlers /\ "ticker" \notin Handlers
               /\ \A n \in NodeRuns : n \notin Jobs
BY DependenciesAssumption DEF Jobs

(* Every line is blank or a key of the list, and every key has a line.      *)
LEMMA LinesAreKeys ==
  /\ Lines \in Seq(STRING) /\ Len(Lines) \in Nat
  /\ \A i \in 1 .. Len(Lines) : Lines[i] \in Keys \union {Blank}
  /\ \A i \in 1 .. Len(Lines) : Lines[i] \in Packages \union Comments \union {Blank}
  /\ \A k \in Keys : \E i \in 1 .. Len(Lines) : Lines[i] = k
<1>1. Lines \in Seq(STRING) /\ Len(Lines) \in Nat
  BY DependenciesAssumption, LenProperties
<1>. QED
  BY <1>1 DEF Keys, Packages

(* Two jobs never have the same root. *)
LEMMA RootsDiffer == \A i, j \in Jobs : i # j => Root(i) # Root(j)
BY DEF Root

(* At the start nothing is installed, listed or prepared.                   *)
LEMMA InitInv == Init => Inv
<1>. SUFFICES ASSUME Init PROVE Inv
  OBVIOUS
<1>1. TypeOK
  <2>1. ServerDir \in Dirs
    BY DEF ServerDir, Dirs
  <2>2. NoList \in SUBSET (Keys \union NoList)
    OBVIOUS
  <2>. QED
    <3>1. pc \in [Jobs \union NodeRuns -> Locations]
      BY DEF Init, Locations
    <3>2. /\ task \in [Jobs -> {"install", "update", "list"}]
          /\ calls \in [Jobs -> Nat] /\ next \in [Jobs -> Nat \ {0}]
      BY DEF Init
    <3>3. dir \in Dirs /\ pipDir \in [Jobs -> Dirs]
      BY <2>1 DEF Init
    <3>4. todo \in [Jobs -> SUBSET Packages]
      BY DEF Init
    <3>5. answer \in [Jobs -> SUBSET (Keys \union NoList)]
      BY <2>2 DEF Init
    <3>. QED
      BY <3>1, <3>2, <3>3, <3>4, <3>5 DEF Init, TypeOK
<1>2. ASSUME NEW j \in Jobs PROVE JobPlace(j)
  BY <1>2 DEF Init, JobPlace, AfterWriting
<1>3. ASSUME NEW h \in Handlers PROVE HandlerPlace(h)
  BY <1>3, Names DEF Init, HandlerPlace, Jobs
<1>4. StartupPlace
  BY DEF Init, StartupPlace, AfterWriting, Jobs
<1>. QED
  BY <1>1, <1>2, <1>3, <1>4 DEF Init, Inv, ListPlace, InstallCleansUp,
                                CrashHasCause

-----------------------------------------------------------------------------
(* The steps. *)

(* A step of one job leaves the others alone, but for what all share ...    *)
OnlyFor(j) ==
    /\ \A i \in Jobs \ {j} :
          /\ pc'[i] = pc[i] /\ task'[i] = task[i] /\ next'[i] = next[i]
          /\ todo'[i] = todo[i] /\ calls'[i] = calls[i] /\ pipDir'[i] = pipDir[i]
          /\ answer'[i] = answer[i]
          /\ i \in skipped' <=> i \in skipped
    /\ j # "startup" => up' = up /\ trouble' = trouble
    /\ requirements' = requirements

(* ... which only grows ...                                                 *)
Grows ==
    /\ installed \subseteq installed' /\ listed \subseteq listed' /\ misled \subseteq misled'
    /\ unremoved \subseteq unremoved'
    /\ sandboxed \union missed \subseteq sandboxed' \union missed'

Busy(j) == task[j] = "install" /\ pc[j] \in AfterWriting

(* ... and of the requirements it writes and removes its own alone.         *)
FiledBy(j) ==
    /\ \A r \in filed' \ unremoved' : (r \in filed /\ r # Root(j)) \/ (r = Root(j)' /\ Busy(j)')
    /\ \A r \in filed : r \in filed' \/ r = Root(j)
    /\ \A r \in filled : r \in filled' \/ r = Root(j)

(* A step of one job that only adds to what the others rely on.             *)
LEMMA StepOf ==
  ASSUME Inv, NEW j \in Jobs, OnlyFor(j), Grows, FiledBy(j), TypeOK', JobPlace(j)',
         j \in Handlers => HandlerPlace(j)',
         j = "startup" => StartupPlace' /\ CrashHasCause',
         ListPlace'
  PROVE  Inv'
<1>1. ASSUME NEW i \in Jobs \ {j} PROVE JobPlace(i)'
  <2>1. JobPlace(i)
    BY DEF Inv
  <2>2. Root(i)' = Root(i) /\ Root(i) # Root(j)
    BY RootsDiffer DEF OnlyFor, Root
  <2>. QED
    BY <2>1, <2>2 DEF JobPlace, Misled, Registered, OnlyFor, Grows, FiledBy
<1>2. ASSUME NEW h \in Handlers \ {j} PROVE HandlerPlace(h)'
  <2>1. HandlerPlace(h)
    BY DEF Inv
  <2>. QED
    BY <2>1 DEF HandlerPlace, OnlyFor, Grows, Jobs
<1>3. ASSUME j # "startup" PROVE StartupPlace' /\ CrashHasCause'
  <2>1. StartupPlace /\ CrashHasCause /\ "startup" \in Jobs \ {j}
    BY <1>3 DEF Inv, Jobs
  <2>2. StartupPlace'
    <3>1. Root("startup")' = Root("startup") /\ Root("startup") # Root(j)
      BY <2>1, RootsDiffer DEF OnlyFor, Root
    <3>. QED
      BY <1>3, <2>1, <3>1 DEF StartupPlace, OnlyFor, Grows, FiledBy
  <2>3. CrashHasCause'
    BY <1>3, <2>1 DEF CrashHasCause, OnlyFor
  <2>. QED
    BY <2>2, <2>3
<1>4. InstallCleansUp'
  <2>. SUFFICES ASSUME NEW r \in filed' \ unremoved'
                PROVE  \E i \in Jobs : (r = Root(i) /\ Busy(i))'
    BY DEF InstallCleansUp, Busy, AfterWriting
  <2>1. CASE r = Root(j)' /\ Busy(j)'
    BY <2>1
  <2>2. CASE r \in filed /\ r # Root(j)
    <3>1. PICK i \in Jobs : r = Root(i) /\ Busy(i)
      BY <2>2 DEF Grows, Inv, InstallCleansUp, Busy, AfterWriting
    <3>2. i # j
      BY <2>2, <3>1
    <3>3. r = Root(i)' /\ Busy(i)'
      BY <3>1, <3>2 DEF OnlyFor, Root, Busy
    <3>. QED
      BY <3>3
  <2>. QED
    BY <2>1, <2>2 DEF FiledBy
<1>. QED
  BY <1>1, <1>2, <1>3, <1>4 DEF Inv

(* What holds where a job is. *)
LEMMA Here ==
  ASSUME Inv, NEW j \in Jobs
  PROVE  /\ TypeOK /\ JobPlace(j) /\ (j \in Handlers => HandlerPlace(j))
         /\ (j = "startup" => StartupPlace) /\ (j \in Handlers => j # "startup")
         /\ ListPlace /\ CrashHasCause
         /\ Root(j) \in filed \ unremoved => Busy(j)
<1>1. ASSUME Root(j) \in filed \ unremoved PROVE Busy(j)
  BY <1>1, RootsDiffer DEF Inv, InstallCleansUp, Busy, AfterWriting
<1>. QED
  BY <1>1, Names DEF Inv

(* A step of start-up, of the ticker or of a handler inside an installation. *)
LEMMA JobStepInv == ASSUME Inv, up, NEW j \in Jobs, JobStep(j) PROVE Inv'
<1>. SUFFICES /\ TypeOK' /\ OnlyFor(j) /\ Grows /\ FiledBy(j)
              /\ JobPlace(j)' /\ (j \in Handlers => HandlerPlace(j)')
              /\ (j = "startup" => StartupPlace' /\ CrashHasCause')
              /\ ListPlace'
  BY StepOf
<1>0. /\ TypeOK /\ JobPlace(j) /\ (j \in Handlers => HandlerPlace(j))
      /\ (j = "startup" => StartupPlace) /\ (j \in Handlers => j # "startup")
      /\ ListPlace /\ CrashHasCause
      /\ Root(j) \in filed \ unremoved => Busy(j)
  BY Here
<1>. USE DEF packageVars, rootVars, logVars, jobVars, Go, Succeed, Fail, FailOfItself,
             RemoveRoot, Remove, RemoveFails, TypeOK, Locations, AfterWriting
<1>1. CASE EnterRoot(j)
  <2>1. TypeOK' /\ OnlyFor(j) /\ Grows
    BY <1>0, <1>1 DEF EnterRoot, OnlyFor, Grows, Dirs
  <2>2. FiledBy(j) /\ ListPlace'
    BY <1>0, <1>1 DEF EnterRoot, FiledBy, Busy, Root, ListPlace
  <2>3. JobPlace(j)' /\ (j \in Handlers => HandlerPlace(j)')
    BY <1>0, <1>1 DEF EnterRoot, JobPlace, Misled, Root, HandlerPlace
  <2>4. j = "startup" => StartupPlace' /\ CrashHasCause'
    BY <1>0, <1>1 DEF EnterRoot, JobPlace, StartupPlace, CrashHasCause
  <2>. QED
    BY <2>1, <2>2, <2>3, <2>4
<1>2. CASE EnterFails(j)
  <2>1. TypeOK'
    BY <1>0, <1>2 DEF EnterFails
  <2>2. OnlyFor(j) /\ Grows
    BY <1>0, <1>2 DEF EnterFails, OnlyFor, Grows
  <2>3. FiledBy(j) /\ ListPlace'
    BY <1>0, <1>2 DEF EnterFails, FiledBy, Busy, Root, ListPlace
  <2>4. JobPlace(j)' /\ (j \in Handlers => HandlerPlace(j)')
    BY <1>0, <1>2 DEF EnterFails, JobPlace, Misled, Root, HandlerPlace
  <2>5. j = "startup" => StartupPlace' /\ CrashHasCause'
    BY <1>0, <1>2 DEF EnterFails, JobPlace, StartupPlace, CrashHasCause
  <2>. QED
    BY <2>1, <2>2, <2>3, <2>4, <2>5
<1>3. CASE NothingToInstall(j)
  <2>1. TypeOK' /\ OnlyFor(j) /\ Grows
    BY <1>0, <1>3 DEF NothingToInstall, OnlyFor, Grows
  <2>2. FiledBy(j) /\ ListPlace'
    BY <1>0, <1>3 DEF NothingToInstall, FiledBy, Busy, Root, ListPlace
  <2>3. JobPlace(j)' /\ (j \in Handlers => HandlerPlace(j)')
    BY <1>0, <1>3 DEF NothingToInstall, JobPlace, Misled, Root, HandlerPlace
  <2>4. j = "startup" => StartupPlace' /\ CrashHasCause'
    BY <1>0, <1>3 DEF NothingToInstall, JobPlace, StartupPlace, CrashHasCause
  <2>. QED
    BY <2>1, <2>2, <2>3, <2>4
<1>4a. CASE OpenRequirements(j)
  <2>1. TypeOK' /\ OnlyFor(j) /\ Grows
    BY <1>0, <1>4a DEF OpenRequirements, OnlyFor, Grows
  <2>2. FiledBy(j) /\ ListPlace'
    BY <1>0, <1>4a DEF OpenRequirements, FiledBy, Busy, Root, ListPlace, JobPlace
  <2>3. JobPlace(j)' /\ (j \in Handlers => HandlerPlace(j)')
    BY <1>0, <1>4a DEF OpenRequirements, JobPlace, Misled, Root, HandlerPlace
  <2>4. j = "startup" => StartupPlace' /\ CrashHasCause'
    BY <1>0, <1>4a DEF OpenRequirements, JobPlace, StartupPlace, CrashHasCause, Root
  <2>. QED
    BY <2>1, <2>2, <2>3, <2>4
<1>4. CASE WriteRequirements(j)
  <2>1. TypeOK' /\ OnlyFor(j) /\ Grows
    BY <1>0, <1>4 DEF WriteRequirements, OnlyFor, Grows
  <2>2. FiledBy(j) /\ ListPlace'
    BY <1>0, <1>4 DEF WriteRequirements, FiledBy, Busy, Root, ListPlace
  <2>3. JobPlace(j)' /\ (j \in Handlers => HandlerPlace(j)')
    BY <1>0, <1>4 DEF WriteRequirements, JobPlace, Misled, Root, HandlerPlace
  <2>4. j = "startup" => StartupPlace' /\ CrashHasCause'
    BY <1>0, <1>4 DEF WriteRequirements, JobPlace, StartupPlace, CrashHasCause, Root
  <2>. QED
    BY <2>1, <2>2, <2>3, <2>4
<1>5. CASE WriteRequirementsFails(j)
  <2>1. TypeOK' /\ OnlyFor(j) /\ Grows
    BY <1>0, <1>5 DEF WriteRequirementsFails, OnlyFor, Grows
  <2>2. FiledBy(j) /\ ListPlace'
    BY <1>0, <1>5 DEF WriteRequirementsFails, FiledBy, Busy, Root, ListPlace
  <2>3. JobPlace(j)' /\ (j \in Handlers => HandlerPlace(j)')
    BY <1>0, <1>5 DEF WriteRequirementsFails, JobPlace, Misled, Root, HandlerPlace
  <2>4. j = "startup" => StartupPlace' /\ CrashHasCause'
    BY <1>0, <1>5 DEF WriteRequirementsFails, JobPlace, StartupPlace, CrashHasCause
  <2>. QED
    BY <2>1, <2>2, <2>3, <2>4
<1>6. CASE StartPip(j)
  <2>1. TypeOK' /\ OnlyFor(j) /\ Grows
    BY <1>0, <1>6 DEF StartPip, OnlyFor, Grows
  <2>2. FiledBy(j) /\ ListPlace'
    BY <1>0, <1>6 DEF StartPip, FiledBy, Busy, Root, ListPlace
  <2>3. JobPlace(j)' /\ (j \in Handlers => HandlerPlace(j)')
    BY <1>0, <1>6 DEF StartPip, JobPlace, Misled, Root, HandlerPlace
  <2>4. j = "startup" => StartupPlace' /\ CrashHasCause'
    BY <1>0, <1>6 DEF StartPip, JobPlace, StartupPlace, CrashHasCause, Root
  <2>. QED
    BY <2>1, <2>2, <2>3, <2>4
<1>7. CASE StartPipFails(j)
  <2>1. TypeOK' /\ OnlyFor(j) /\ Grows
    BY <1>0, <1>7 DEF StartPipFails, OnlyFor, Grows
  <2>2. FiledBy(j) /\ ListPlace'
    BY <1>0, <1>7 DEF StartPipFails, FiledBy, Busy, Root, ListPlace
  <2>3. JobPlace(j)' /\ (j \in Handlers => HandlerPlace(j)')
    BY <1>0, <1>7 DEF StartPipFails, JobPlace, Misled, Root, HandlerPlace
  <2>4. j = "startup" => StartupPlace' /\ CrashHasCause'
    BY <1>0, <1>7 DEF StartPipFails, JobPlace, StartupPlace, CrashHasCause
  <2>. QED
    BY <2>1, <2>2, <2>3, <2>4
<1>8. CASE PipReads(j)
  <2>1. TypeOK' /\ OnlyFor(j) /\ Grows
    BY <1>0, <1>8 DEF PipReads, OnlyFor, Grows
  <2>2. FiledBy(j) /\ ListPlace'
    BY <1>0, <1>8 DEF PipReads, FiledBy, Busy, Root, ListPlace
  <2>3. JobPlace(j)' /\ (j \in Handlers => HandlerPlace(j)')
    BY <1>0, <1>8 DEF PipReads, JobPlace, Misled, Root, HandlerPlace
  <2>4. j = "startup" => StartupPlace' /\ CrashHasCause'
    BY <1>0, <1>8 DEF PipReads, JobPlace, StartupPlace, CrashHasCause, Root
  <2>. QED
    BY <2>1, <2>2, <2>3, <2>4
<1>8a. CASE PipReadsPart(j)
  <2>1. TypeOK' /\ OnlyFor(j) /\ Grows
    BY <1>0, <1>8a DEF PipReadsPart, OnlyFor, Grows
  <2>2. FiledBy(j)
    BY <1>0, <1>8a DEF PipReadsPart, FiledBy, Busy, Root
  <2>5. ListPlace'
    <3>. DEFINE m == <<Root(j), pipDir[j]>>
    <3>1. misled' = misled \union {m} /\ m[2] # m[1]
      BY <1>0, <1>8a DEF PipReadsPart, JobPlace
    <3>. HIDE DEF m
    <3>. QED
      BY <1>0, <3>1 DEF ListPlace
  <2>3. JobPlace(j)' /\ (j \in Handlers => HandlerPlace(j)')
    <3>1. Registered(next[j])'
      BY <1>0, <1>8a DEF PipReadsPart, Registered
    <3>2. Misled(j)'
      <4>1. <<Root(j), pipDir[j]>> \in misled' /\ Root(j)' = Root(j)
        BY <1>8a DEF PipReadsPart, Root
      <4>. QED
        BY <4>1 DEF Misled
    <3>. QED
      BY <1>0, <1>8a, <3>1, <3>2 DEF PipReadsPart, JobPlace, Misled, Root, HandlerPlace
  <2>4. j = "startup" => StartupPlace' /\ CrashHasCause'
    BY <1>0, <1>8a DEF PipReadsPart, JobPlace, StartupPlace, CrashHasCause, Root
  <2>. QED
    BY <2>1, <2>2, <2>3, <2>4, <2>5
<1>9. CASE PipFindsNothing(j)
  <2>1. TypeOK' /\ OnlyFor(j) /\ Grows
    BY <1>0, <1>9 DEF PipFindsNothing, OnlyFor, Grows
  <2>2. FiledBy(j) /\ ListPlace'
    BY <1>0, <1>9 DEF PipFindsNothing, FiledBy, Busy, Root, ListPlace
  <2>3. JobPlace(j)' /\ (j \in Handlers => HandlerPlace(j)')
    BY <1>0, <1>9 DEF PipFindsNothing, JobPlace, Misled, Root, HandlerPlace
  <2>4. j = "startup" => StartupPlace' /\ CrashHasCause'
    BY <1>0, <1>9 DEF PipFindsNothing, JobPlace, StartupPlace, CrashHasCause, Root
  <2>. QED
    BY <2>1, <2>2, <2>3, <2>4
<1>10. CASE PipInstalls(j)
  <2>1. TypeOK' /\ OnlyFor(j) /\ Grows
    BY <1>0, <1>10 DEF PipInstalls, OnlyFor, Grows
  <2>2. FiledBy(j) /\ ListPlace'
    BY <1>0, <1>10 DEF PipInstalls, FiledBy, Busy, Root, ListPlace
  <2>3. JobPlace(j)' /\ (j \in Handlers => HandlerPlace(j)')
    <3>1. Registered(next[j])'
      BY <1>0, <1>10 DEF PipInstalls, Registered
    <3>. QED
      BY <1>0, <1>10, <3>1 DEF PipInstalls, JobPlace, Misled, Root, HandlerPlace
  <2>4. j = "startup" => StartupPlace' /\ CrashHasCause'
    BY <1>0, <1>10 DEF PipInstalls, StartupPlace, CrashHasCause, Root
  <2>. QED
    BY <2>1, <2>2, <2>3, <2>4
<1>11. CASE PipFails(j)
  <2>1. TypeOK' /\ OnlyFor(j) /\ Grows
    BY <1>0, <1>11 DEF PipFails, OnlyFor, Grows
  <2>2. FiledBy(j) /\ ListPlace'
    BY <1>0, <1>11 DEF PipFails, FiledBy, Busy, Root, ListPlace
  <2>3. JobPlace(j)' /\ (j \in Handlers => HandlerPlace(j)')
    BY <1>0, <1>11 DEF PipFails, JobPlace, Misled, Root, HandlerPlace
  <2>4. j = "startup" => StartupPlace' /\ CrashHasCause'
    BY <1>0, <1>11 DEF PipFails, JobPlace, StartupPlace, CrashHasCause
  <2>. QED
    BY <2>1, <2>2, <2>3, <2>4
<1>12. CASE Register(j)
  <2>. DEFINE line == requirements[next[j]]
  <2>1. requirements = Lines /\ next[j] \in 1 .. Len(requirements)
    BY <1>0, <1>12 DEF Register
  <2>2. line \in Keys \union {Blank} /\ line \in Packages \union Comments \union {Blank}
    BY <2>1, LinesAreKeys
  <2>3. listed' = listed \union ({line} \ {Blank}) /\ next' = [next EXCEPT ![j] = next[j] + 1]
    BY <1>12 DEF Register
  <2>4. TypeOK'
    BY <1>0, <1>12, <2>2, <2>3 DEF Register
  <2>5. OnlyFor(j) /\ Grows
    BY <1>0, <1>12, <2>3 DEF Register, OnlyFor, Grows
  <2>6. FiledBy(j)
    BY <1>0, <1>12 DEF Register, FiledBy, Busy, Root
  <2>7. ListPlace'
    BY <1>0, <1>12, <2>2, <2>3 DEF Register, JobPlace, Misled, ListPlace
  <2>8. Registered(next[j])'
    <3>1. next'[j] = next[j] + 1 /\ next[j] \in Nat
      BY <1>0, <2>3
    <3>2. \A i \in 1 .. Len(requirements) : i < next[j] + 1 => i < next[j] \/ i = next[j]
      BY <3>1
    <3>3. \A i \in 1 .. Len(requirements) : i < next[j] + 1 => requirements[i] \in listed' \union {Blank}
      BY <1>0, <1>12, <2>3, <3>2 DEF Register, JobPlace, Registered
    <3>. QED
      BY <1>12, <3>1, <3>3 DEF Register, Registered
  <2>9. JobPlace(j)' /\ (j \in Handlers => HandlerPlace(j)')
    BY <1>0, <1>12, <2>8 DEF Register, JobPlace, Misled, Root, HandlerPlace
  <2>10. j = "startup" => StartupPlace' /\ CrashHasCause'
    BY <1>0, <1>12 DEF Register, StartupPlace, CrashHasCause, Root
  <2>. QED
    BY <2>4, <2>5, <2>6, <2>7, <2>9, <2>10
<1>13. CASE InstallReturns(j)
  <2>1. TypeOK' /\ OnlyFor(j) /\ Grows
    BY <1>0, <1>13 DEF InstallReturns, OnlyFor, Grows
  <2>2. FiledBy(j) /\ ListPlace'
    BY <1>0, <1>13 DEF InstallReturns, FiledBy, Busy, Root, ListPlace
  <2>3. requirements # <<>> => Keys \subseteq listed
    <3>. SUFFICES ASSUME requirements # <<>>, NEW k \in Keys PROVE k \in listed
      OBVIOUS
    <3>1. requirements = Lines /\ k # Blank
      BY <1>0 DEF Keys
    <3>2. PICK i \in 1 .. Len(Lines) : Lines[i] = k
      BY LinesAreKeys
    <3>3. i < next[j]
      BY <1>0, <1>13, <3>1, LinesAreKeys DEF InstallReturns
    <3>. QED
      BY <1>0, <1>13, <3>1, <3>2, <3>3 DEF InstallReturns, JobPlace, Registered
  <2>4. JobPlace(j)' /\ (j \in Handlers => HandlerPlace(j)')
    BY <1>0, <1>13, <2>3 DEF InstallReturns, JobPlace, Misled, Root, HandlerPlace
  <2>5. j = "startup" => StartupPlace' /\ CrashHasCause'
    BY <1>0, <1>13 DEF InstallReturns, JobPlace, Misled, Root, StartupPlace, CrashHasCause
  <2>. QED
    BY <2>1, <2>2, <2>4, <2>5
<1>14. CASE WriteScript(j)
  <2>1. TypeOK' /\ OnlyFor(j) /\ Grows
    BY <1>0, <1>14 DEF WriteScript, OnlyFor, Grows
  <2>2. FiledBy(j) /\ ListPlace'
    BY <1>0, <1>14 DEF WriteScript, FiledBy, Busy, Root, ListPlace
  <2>3. JobPlace(j)' /\ (j \in Handlers => HandlerPlace(j)')
    BY <1>0, <1>14 DEF WriteScript, JobPlace, Misled, Root, HandlerPlace
  <2>4. j = "startup" => StartupPlace' /\ CrashHasCause'
    BY <1>0, <1>14 DEF WriteScript, JobPlace, StartupPlace, CrashHasCause
  <2>. QED
    BY <2>1, <2>2, <2>3, <2>4
<1>15. CASE WriteScriptFails(j)
  <2>1. TypeOK' /\ OnlyFor(j) /\ Grows
    BY <1>0, <1>15 DEF WriteScriptFails, OnlyFor, Grows
  <2>2. FiledBy(j) /\ ListPlace'
    BY <1>0, <1>15 DEF WriteScriptFails, FiledBy, Busy, Root, ListPlace
  <2>3. JobPlace(j)' /\ (j \in Handlers => HandlerPlace(j)')
    BY <1>0, <1>15 DEF WriteScriptFails, JobPlace, Misled, Root, HandlerPlace
  <2>4. j = "startup" => StartupPlace' /\ CrashHasCause'
    BY <1>0, <1>15 DEF WriteScriptFails, JobPlace, StartupPlace, CrashHasCause
  <2>. QED
    BY <2>1, <2>2, <2>3, <2>4
<1>16. CASE Copy(j)
  <2>1. TypeOK' /\ OnlyFor(j) /\ Grows
    BY <1>0, <1>16 DEF Copy, OnlyFor, Grows
  <2>2. FiledBy(j) /\ ListPlace'
    BY <1>0, <1>16 DEF Copy, FiledBy, Busy, Root, ListPlace
  <2>3. JobPlace(j)' /\ (j \in Handlers => HandlerPlace(j)')
    BY <1>0, <1>16 DEF Copy, JobPlace, Misled, Root, HandlerPlace
  <2>4. j = "startup" => StartupPlace' /\ CrashHasCause'
    BY <1>0, <1>16 DEF Copy, JobPlace, StartupPlace, CrashHasCause
  <2>. QED
    BY <2>1, <2>2, <2>3, <2>4
<1>16a. CASE CopyMisses(j)
  <2>1. TypeOK' /\ OnlyFor(j) /\ Grows
    BY <1>0, <1>16a DEF CopyMisses, OnlyFor, Grows, LeaveOut
  <2>2. FiledBy(j) /\ ListPlace'
    BY <1>0, <1>16a DEF CopyMisses, FiledBy, Busy, Root, ListPlace, JobPlace
  <2>3. JobPlace(j)' /\ (j \in Handlers => HandlerPlace(j)')
    BY <1>0, <1>16a DEF CopyMisses, JobPlace, Misled, Root, HandlerPlace
  <2>4. j = "startup" => StartupPlace' /\ CrashHasCause'
    BY <1>0, <1>16a DEF CopyMisses, JobPlace, StartupPlace, CrashHasCause, LeaveOut
  <2>. QED
    BY <2>1, <2>2, <2>3, <2>4
<1>17. CASE CopyFails(j)
  <2>1. TypeOK' /\ OnlyFor(j) /\ Grows
    BY <1>0, <1>17 DEF CopyFails, LeaveOut, OnlyFor, Grows
  <2>2. FiledBy(j) /\ ListPlace'
    BY <1>0, <1>17 DEF CopyFails, LeaveOut, FiledBy, Busy, Root, ListPlace
  <2>3. JobPlace(j)' /\ (j \in Handlers => HandlerPlace(j)')
    BY <1>0, <1>17 DEF CopyFails, LeaveOut, JobPlace, Misled, Root, HandlerPlace
  <2>4. j = "startup" => StartupPlace' /\ CrashHasCause'
    BY <1>0, <1>17 DEF CopyFails, LeaveOut, JobPlace, StartupPlace, CrashHasCause
  <2>. QED
    BY <2>1, <2>2, <2>3, <2>4
<1>18. CASE PrepareReturns(j)
  <2>1. TypeOK' /\ OnlyFor(j) /\ Grows
    BY <1>0, <1>18 DEF PrepareReturns, OnlyFor, Grows
  <2>2. FiledBy(j) /\ ListPlace'
    BY <1>0, <1>18 DEF PrepareReturns, FiledBy, Busy, Root, ListPlace
  <2>3. JobPlace(j)' /\ (j \in Handlers => HandlerPlace(j)')
    BY <1>0, <1>18 DEF PrepareReturns, JobPlace, Misled, Root, HandlerPlace
  <2>4. j = "startup" => StartupPlace' /\ CrashHasCause'
    BY <1>0, <1>18 DEF PrepareReturns, JobPlace, StartupPlace, CrashHasCause
  <2>. QED
    BY <2>1, <2>2, <2>3, <2>4
<1>. QED
  BY <1>1, <1>2, <1>3, <1>4, <1>4a, <1>5, <1>6, <1>7, <1>8, <1>8a, <1>9,
     <1>10, <1>11, <1>12, <1>13, <1>14, <1>15, <1>16, <1>16a, <1>17, <1>18
  DEF JobStep, InstallDependencies, PreparePythonDependenciesEnv

(* The ticker begins an update.                                             *)
LEMMA TickInv == ASSUME Inv, Tick PROVE Inv'
<1>. DEFINE j == "ticker"
<1>. USE DEF Tick, Go, packageVars, rootVars, logVars
<1>0. /\ j \in Jobs /\ j \notin Handlers /\ TypeOK /\ JobPlace(j)
      /\ ListPlace /\ (Root(j) \in filed \ unremoved => Busy(j))
  BY Here, Names DEF Jobs
<1>1. TypeOK' /\ OnlyFor(j) /\ Grows
  BY <1>0 DEF TypeOK, Locations, OnlyFor, Grows
<1>2. FiledBy(j) /\ ListPlace'
  BY <1>0 DEF FiledBy, Busy, AfterWriting, Root, ListPlace
<1>3. JobPlace(j)'
  BY <1>0 DEF TypeOK, JobPlace, AfterWriting
<1>. QED
  BY <1>0, <1>1, <1>2, <1>3, StepOf

(* A handler takes a request or answers it.                                 *)
LEMMA HandlerStepInv == ASSUME Inv, NEW h \in Handlers, HandlerStep(h) PROVE Inv'
<1>. USE DEF Go, packageVars, rootVars, logVars
<1>0. /\ h \in Jobs /\ TypeOK /\ JobPlace(h) /\ HandlerPlace(h) /\ h # "startup"
      /\ ListPlace /\ (Root(h) \in filed \ unremoved => Busy(h))
  BY Here, Names DEF Jobs
<1>1. CASE Request(h)
  <2>1. TypeOK' /\ OnlyFor(h) /\ Grows
    BY <1>0, <1>1 DEF Request, TypeOK, Locations, OnlyFor, Grows
  <2>2. FiledBy(h) /\ ListPlace'
    BY <1>0, <1>1 DEF Request, FiledBy, Busy, AfterWriting, Root, ListPlace
  <2>3. JobPlace(h)' /\ HandlerPlace(h)'
    BY <1>0, <1>1 DEF Request, TypeOK, JobPlace, HandlerPlace, AfterWriting
  <2>. QED
    BY <1>0, <2>1, <2>2, <2>3, StepOf
<1>2. CASE Reply(h)
  <2>1. TypeOK' /\ OnlyFor(h) /\ Grows
    BY <1>0, <1>2 DEF Reply, TypeOK, Locations, OnlyFor, Grows
  <2>2. FiledBy(h) /\ ListPlace'
    BY <1>0, <1>2 DEF Reply, FiledBy, Busy, AfterWriting, Root, ListPlace
  <2>3. JobPlace(h)' /\ HandlerPlace(h)'
    BY <1>0, <1>2 DEF Reply, TypeOK, JobPlace, HandlerPlace, AfterWriting
  <2>. QED
    BY <1>0, <2>1, <2>2, <2>3, StepOf
<1>. QED
  BY <1>1, <1>2 DEF HandlerStep

(* A Node.js run only changes the working directory.                        *)
LEMMA NodeEntersInv == ASSUME Inv, NEW n \in NodeRuns, NodeEnters(n) PROVE Inv'
<1>. DEFINE j == "ticker"
<1>. USE DEF Go, packageVars, rootVars, logVars
<1>0. /\ j \in Jobs /\ j \notin Handlers /\ n \notin Jobs /\ TypeOK /\ JobPlace(j)
      /\ ListPlace /\ (Root(j) \in filed \ unremoved => Busy(j))
  BY Here, Names DEF Jobs
<1>1. /\ filed' = filed /\ filled' = filled /\ unremoved' = unremoved /\ requirements' = requirements /\ up' = up
      /\ UNCHANGED <<task, next, todo, pipDir, calls, packageVars, logVars>>
      /\ dir' = dir \/ dir' = <<n, 0>>
      /\ \E l \in Locations : pc' = [pc EXCEPT ![n] = l]
  BY DEF NodeEnters, Locations
<1>2. \A i \in Jobs : pc'[i] = pc[i]
  BY <1>0, <1>1 DEF TypeOK
<1>3. TypeOK'
  <2>1. <<n, 0>> \in Dirs
    BY DEF Dirs
  <2>2. UNCHANGED trouble
    BY <1>1
  <2>. QED
    BY <1>0, <1>1, <2>1 DEF TypeOK
<1>4. OnlyFor(j) /\ Grows
  BY <1>0, <1>1, <1>2 DEF OnlyFor, Grows
<1>5. FiledBy(j) /\ ListPlace' /\ JobPlace(j)'
  BY <1>0, <1>1, <1>2 DEF FiledBy, Busy, Root, ListPlace, JobPlace, Misled, Registered
<1>. QED
  BY <1>0, <1>3, <1>4, <1>5, StepOf

(* Every step keeps the invariant.                                          *)
LEMMA StepInv == Inv /\ [Next]_vars => Inv'
<1>. SUFFICES ASSUME Inv, [Next]_vars PROVE Inv'
  OBVIOUS
<1>1. CASE UNCHANGED vars
  BY <1>1 DEF vars, jobVars, rootVars, packageVars, logVars, Inv, TypeOK, JobPlace,
              Misled, Registered, HandlerPlace, StartupPlace, Root, ListPlace,
              InstallCleansUp, CrashHasCause
<1>2. CASE Next /\ ~UNCHANGED vars
  BY <1>2, JobStepInv, TickInv, HandlerStepInv, NodeEntersInv DEF Next
<1>. QED
  BY <1>1, <1>2

-----------------------------------------------------------------------------

(* What each job has done where it is (setup.go, env.go, server.go:59-93).  *)
THEOREM Invariance == Spec => []Inv
BY InitInv, StepInv, PTL DEF Spec

(* The list names what is installed, unless some job's pip3 read the file   *)
(* another job had not yet written; a job whose own pip3 did not registers  *)
(* only what is installed (setup.go:96-99, 113, 130, 182-192).              *)
THEOREM ListIsTrue == Spec => []ListedIsInstalled
<1>1. Inv => ListedIsInstalled
  BY DEF Inv, ListPlace, JobPlace, ListedIsInstalled
<1>. QED
  BY <1>1, Invariance, PTL

(* A refresh names every requirement (setup.go:182-192, service/python.go). *)
THEOREM RefreshIsComplete == Spec => []RefreshAnswersAll
<1>1. Inv => RefreshAnswersAll
  BY DEF Inv, HandlerPlace, RefreshAnswersAll
<1>. QED
  BY <1>1, Invariance, PTL

(* A server that has started has every requirement in its sandbox but those *)
(* whose last copy failed unseen (env.sh:40-49), unless its own file was    *)
(* not written or its pip3 read another's too early (server.go:59-77).      *)
THEOREM StartupPrepares == Spec => []SandboxHasRequirements
<1>1. Inv => SandboxHasRequirements
  BY DEF Inv, StartupPlace, SandboxHasRequirements
<1>. QED
  BY <1>1, Invariance, PTL

(* No requirements.txt outlives the installation it was written for, unless *)
(* its removal failed (setup.go:110-111).                                   *)
THEOREM RootsAreRemoved == Spec => []InstallCleansUp
<1>1. Inv => InstallCleansUp
  BY DEF Inv
<1>. QED
  BY <1>1, Invariance, PTL

(* The server ends by a failure of its own, or by the shared working        *)
(* directory (server.go:62-66, setup.go:123-138).                           *)
THEOREM CrashIsExplained == Spec => []CrashHasCause
<1>1. Inv => CrashHasCause
  BY DEF Inv
<1>. QED
  BY <1>1, Invariance, PTL
=============================================================================
