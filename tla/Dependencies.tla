---------------------------- MODULE Dependencies ----------------------------
(***************************************************************************)
(* The Python packages of the sandbox: who installs them (pip3), who lists *)
(* them (the preload map) and who copies them under LIB_PATH.              *)
(*                                                                         *)
(* InstallDependencies (internal/core/runner/python/setup.go) and          *)
(* PreparePythonDependenciesEnv (env.go) are called by the start-up        *)
(* goroutine and then by the ticker (internal/server/server.go), and by    *)
(* the handlers of the dependency routes (internal/service/python.go),     *)
(* while the server already serves runs.  Both work in a root made by      *)
(* WithTempDir, which changes the working directory of the whole process;  *)
(* pip3 is given the relative name requirements.txt.                       *)
(***************************************************************************)
EXTENDS Integers, Sequences, FiniteSets

CONSTANTS
    Handlers,      \* requests to the dependency routes
    NodeRuns,      \* Node.js runs: WithTempDir in the service
    Lines,         \* python-requirements.txt, as the names its lines are split into
    Comments,      \* lines that name no package for pip but are taken for one
    Blank,         \* the name ExtractOnelineDepency gives to a line without one
    MaxTicks,      \* bound: ticks of the update ticker that are served
    CallsMayFail,  \* a file operation or the start of a command may fail
    PipMayFail,    \* pip3 may fail although it was given the requirements
    CopyMayFail    \* env.sh may fail to copy a file

ASSUME DependenciesAssumption ==
    /\ Lines \in Seq(STRING) /\ Comments \subseteq STRING
    /\ MaxTicks \in Nat
    /\ {CallsMayFail, PipMayFail, CopyMayFail} \subseteq BOOLEAN
    /\ {"startup", "ticker"} \intersect (Handlers \union NodeRuns) = {}
    /\ Handlers \intersect NodeRuns = {}

VARIABLES
    requirements, \* runnerDependencies.PythonRequirements
    up,           \* FALSE once the start-up goroutine has panicked
    pc,           \* per job: its location
    task,         \* per job: "install", "update" (prepare only), "list"
    dir,          \* the working directory of the process
    calls,        \* per job: its calls of WithTempDir
    filed,        \* roots that hold a requirements.txt
    filled,       \* those of them whose requirements.txt has been written
    unremoved,    \* those that could not be removed
    pipDir,       \* per job: the directory its pip3 was started in
    installed,    \* packages that pip3 has installed
    ticks,        \* ticks served so far
    next,         \* per job: the next line to be registered
    listed,       \* the keys of preload_script_map
    todo,         \* per job: packages env.sh has yet to copy
    sandboxed,    \* packages under LIB_PATH
    answer,       \* per job: the list its handler replied with
    skipped,      \* jobs whose requirements.txt could not be written
    misled,       \* <<root, directory>> of an installation whose pip3 read a file
                  \* not yet written
    missed,       \* packages whose last copy failed
    trouble       \* a call of the start-up goroutine has failed by itself

jobVars == <<pc, task, next, todo, pipDir>>
rootVars == <<dir, calls, filed, filled, unremoved>>
packageVars == <<installed, listed, sandboxed>>
logVars == <<answer, skipped, trouble, misled, missed>>
vars == <<requirements, up, ticks, jobVars, rootVars, packageVars, logVars>>

Jobs == {"startup", "ticker"} \union Handlers
Packages == {Lines[i] : i \in 1 .. Len(Lines)} \ (Comments \union {Blank})
Keys == {Lines[i] : i \in 1 .. Len(Lines)} \ {Blank}
Root(j) == <<j, calls[j]>>
ServerDir == <<"server", 0>>
NoList == {"no list"}

(* SetupRunnerDependencies: an unreadable file is only logged and leaves    *)
(* the requirements empty.                                                  *)
Init ==
    /\ requirements \in {Lines, <<>>}
    /\ up = TRUE
    /\ ticks = 0
    /\ pc = [j \in Jobs \union NodeRuns |-> IF j = "startup" THEN "call" ELSE "new"]
    /\ task = [j \in Jobs |-> "install"]
    /\ dir = ServerDir
    /\ filed = {} /\ filled = {} /\ unremoved = {}
    /\ calls = [j \in Jobs |-> 0]
    /\ pipDir = [j \in Jobs |-> ServerDir]
    /\ next = [j \in Jobs |-> 1]
    /\ todo = [j \in Jobs |-> {}]
    /\ installed = {} /\ listed = {} /\ sandboxed = {}
    /\ answer = [j \in Jobs |-> NoList]
    /\ skipped = {} /\ trouble = FALSE /\ misled = {} /\ missed = {}

-----------------------------------------------------------------------------
(* Who calls.                                                               *)

Go(j, from, to) == pc[j] = from /\ pc' = [pc EXCEPT ![j] = to]

(* After InstallDependencies the start-up goroutine and the ticker prepare  *)
(* the sandbox, the refresh handler lists the packages.                     *)
Succeed(j) ==
    /\ task' = [task EXCEPT ![j] = IF j \in Handlers THEN @ ELSE
                                  IF @ = "install" THEN "update" ELSE "install"]
    /\ pc' = [pc EXCEPT ![j] = IF task[j] = "install"
                               THEN IF j \in Handlers THEN "reply" ELSE "call"
                               ELSE IF j = "ticker" THEN "new" ELSE "done"]

(* An error is logged by the ticker and by the handlers; the start-up       *)
(* goroutine panics, and nobody recovers there: the process ends.           *)
Fail(j) ==
    /\ task' = [task EXCEPT ![j] = IF j \in Handlers THEN @ ELSE "install"]
    /\ pc' = [pc EXCEPT ![j] = IF j = "ticker" THEN "new" ELSE "done"]
    /\ up' = (j # "startup")

(* The error comes from a call that failed by itself. *)
FailOfItself(j) == Fail(j) /\ trouble' = (trouble \/ j = "startup")

(* The ticker is started once start-up is over. *)
Tick ==
    /\ pc["startup"] = "done"
    /\ ticks < MaxTicks
    /\ ticks' = ticks + 1
    /\ Go("ticker", "new", "call")
    /\ UNCHANGED <<requirements, up, task, next, todo, pipDir, rootVars, packageVars, logVars>>

(* GET refresh, POST update and GET of the dependency routes. *)
Request(h) ==
    /\ \E t \in {"install", "update", "list"} :
          /\ task' = [task EXCEPT ![h] = t]
          /\ Go(h, "new", IF t = "list" THEN "reply" ELSE "call")
    /\ UNCHANGED <<requirements, up, ticks, next, todo, pipDir, rootVars, packageVars, logVars>>

(* ListDependencies, under the read lock of the map. *)
Reply(h) ==
    /\ Go(h, "reply", "done")
    /\ answer' = [answer EXCEPT ![h] = listed]
    /\ UNCHANGED <<requirements, up, ticks, task, next, todo, pipDir, rootVars, packageVars, skipped, trouble, misled, missed>>

-----------------------------------------------------------------------------
(* WithTempDir.                                                             *)

EnterRoot(j) ==
    /\ task[j] = "install" => requirements # <<>>
    /\ Go(j, "call", "write")
    /\ calls' = [calls EXCEPT ![j] = @ + 1]
    /\ dir' = <<j, calls[j] + 1>>
    /\ UNCHANGED <<requirements, up, ticks, task, next, todo, pipDir, filed, filled, unremoved, packageVars, logVars>>

(* Mkdir fails, or Chdir does and an empty directory stays. *)
EnterFails(j) ==
    /\ CallsMayFail
    /\ pc[j] = "call"
    /\ task[j] = "install" => requirements # <<>>
    /\ FailOfItself(j)
    /\ calls' = [calls EXCEPT ![j] = @ + 1]
    /\ UNCHANGED <<requirements, ticks, next, todo, pipDir, dir, filed, filled, unremoved, packageVars,
                   answer, skipped, misled, missed>>

(* A Node.js run enters a root of its own. *)
NodeEnters(n) ==
    /\ Go(n, "new", "done")
    /\ dir' = <<n, 0>>
    /\ UNCHANGED <<requirements, up, ticks, task, next, todo, pipDir, calls, filed, filled, unremoved,
                   packageVars, logVars>>

Remove(r) == /\ filed' = filed \ {r} /\ filled' = filled \ {r}
             /\ UNCHANGED unremoved

(* The error of os.RemoveAll is ignored and the file stays. *)
RemoveFails(r) == /\ CallsMayFail
                  /\ unremoved' = unremoved \union ({r} \intersect filed)
                  /\ UNCHANGED <<filed, filled>>

(* Mutant: the current directory is removed. *)
RemoveWorkdir(j) == Remove(dir) \/ RemoveFails(dir)

(* os.RemoveAll(root_path). *)
RemoveRoot(j) == Remove(Root(j)) \/ RemoveFails(Root(j))

-----------------------------------------------------------------------------
(* InstallDependencies.                                                     *)

NothingToInstall(j) ==
    /\ pc[j] = "call" /\ task[j] = "install"
    /\ requirements = <<>>
    /\ Succeed(j)
    /\ UNCHANGED <<requirements, up, ticks, next, todo, pipDir, rootVars, packageVars, logVars>>

(* os.WriteFile opens the file, which makes it or empties it, ...           *)
OpenRequirements(j) ==
    /\ task[j] = "install"
    /\ Go(j, "write", "fill")
    /\ filed' = filed \union {Root(j)}
    /\ UNCHANGED <<requirements, up, ticks, task, next, todo, pipDir, dir, calls, filled, unremoved,
                   packageVars, logVars>>

(* ... and then writes the requirements.                                    *)
WriteRequirements(j) ==
    /\ Go(j, "fill", "start")
    /\ filled' = filled \union {Root(j)}
    /\ UNCHANGED <<requirements, up, ticks, task, next, todo, pipDir, dir, calls, filed, unremoved,
                   packageVars, logVars>>

(* The error is swallowed: InstallDependencies returns nil. *)
WriteRequirementsFails(j) ==
    /\ CallsMayFail
    /\ pc[j] \in {"write", "fill"} /\ task[j] = "install"
    /\ Succeed(j)
    /\ RemoveRoot(j)
    /\ skipped' = skipped \union {j}
    /\ UNCHANGED <<requirements, up, ticks, next, todo, pipDir, dir, calls, packageVars, answer, trouble,
                   misled, missed>>

(* cmd.Dir is empty: pip3 starts wherever the process is by now. *)
StartPip(j) ==
    /\ Go(j, "start", "pip")
    /\ pipDir' = [pipDir EXCEPT ![j] = dir]
    /\ UNCHANGED <<requirements, up, ticks, task, next, todo, rootVars, packageVars, logVars>>

StartPipFails(j) ==
    /\ CallsMayFail
    /\ pc[j] = "start"
    /\ FailOfItself(j)
    /\ RemoveRoot(j)
    /\ UNCHANGED <<requirements, ticks, next, todo, pipDir, dir, calls, packageVars, answer, skipped,
                   misled, missed>>

(* pip3 opens requirements.txt. *)
PipReads(j) ==
    /\ Go(j, "pip", "installing")
    /\ pipDir[j] \in filled
    /\ UNCHANGED <<requirements, up, ticks, task, next, todo, pipDir, rootVars, packageVars, logVars>>

(* The file is there but not yet written, which is no error to pip3: it     *)
(* installs nothing, or what the first lines name.                          *)
PipReadsPart(j) ==
    /\ Go(j, "pip", "register")
    /\ pipDir[j] \in filed \ filled
    /\ \E some \in SUBSET Packages : installed' = installed \union some
    /\ next' = [next EXCEPT ![j] = 1]
    /\ misled' = misled \union {<<Root(j), pipDir[j]>>}
    /\ UNCHANGED <<requirements, up, ticks, task, todo, pipDir, rootVars, listed, sandboxed, answer,
                   skipped, trouble, missed>>

PipFindsNothing(j) ==
    /\ pc[j] = "pip"
    /\ pipDir[j] \notin filed
    /\ Fail(j)
    /\ RemoveRoot(j)
    /\ UNCHANGED <<requirements, ticks, next, todo, pipDir, dir, calls, packageVars, logVars>>

PipInstalls(j) ==
    /\ Go(j, "installing", "register")
    /\ installed' = installed \union Packages
    /\ next' = [next EXCEPT ![j] = 1]
    /\ UNCHANGED <<requirements, up, ticks, task, todo, pipDir, rootVars, listed, sandboxed, logVars>>

(* Mutant: the result of cmd.Wait is only logged. *)
PipFailsUnseen(j) ==
    /\ PipMayFail
    /\ Go(j, "installing", "register")
    /\ next' = [next EXCEPT ![j] = 1]
    /\ UNCHANGED <<requirements, up, ticks, task, todo, pipDir, rootVars, packageVars, logVars>>

(* Mutant: no deferred removal of the root. *)
PipFailsKeepsRoot(j) ==
    /\ PipMayFail
    /\ pc[j] = "installing"
    /\ FailOfItself(j)
    /\ UNCHANGED <<requirements, ticks, next, todo, pipDir, rootVars, packageVars, answer, skipped,
                   misled, missed>>

(* pip3 fails, with some of the packages installed. *)
PipFails(j) ==
    /\ PipMayFail
    /\ pc[j] = "installing"
    /\ FailOfItself(j)
    /\ \E some \in SUBSET Packages : installed' = installed \union some
    /\ RemoveRoot(j)
    /\ UNCHANGED <<requirements, ticks, next, todo, pipDir, dir, calls, listed, sandboxed, answer, skipped,
                   misled, missed>>

(* Mutant: "continue" in a loop that advances at its end. *)
RegisterStays(j) ==
    /\ pc[j] = "register" /\ next[j] <= Len(requirements)
    /\ listed' = listed \union ({requirements[next[j]]} \ {Blank})
    /\ next' = [next EXCEPT ![j] = IF requirements[@] = Blank THEN @ ELSE @ + 1]
    /\ UNCHANGED <<requirements, up, ticks, pc, task, todo, pipDir, rootVars, installed, sandboxed, logVars>>

(* SetupDependency for one line, under the lock of the map. *)
Register(j) ==
    /\ pc[j] = "register" /\ next[j] <= Len(requirements)
    /\ listed' = listed \union ({requirements[next[j]]} \ {Blank})
    /\ next' = [next EXCEPT ![j] = @ + 1]
    /\ UNCHANGED <<requirements, up, ticks, pc, task, todo, pipDir, rootVars, installed, sandboxed, logVars>>

(* Mutant: the last line is left out. *)
InstallReturnsEarly(j) ==
    /\ pc[j] = "register" /\ next[j] >= Len(requirements)
    /\ Succeed(j)
    /\ RemoveRoot(j)
    /\ UNCHANGED <<requirements, up, ticks, next, todo, pipDir, dir, calls, packageVars, logVars>>

InstallReturns(j) ==
    /\ pc[j] = "register" /\ next[j] > Len(requirements)
    /\ Succeed(j)
    /\ RemoveRoot(j)
    /\ UNCHANGED <<requirements, up, ticks, next, todo, pipDir, dir, calls, packageVars, logVars>>

-----------------------------------------------------------------------------
(* PreparePythonDependenciesEnv: env.sh copies or links every file below    *)
(* the library paths it finds.  It is given absolute paths.                 *)

WriteScript(j) ==
    /\ task[j] = "update"
    /\ Go(j, "write", "copy")
    /\ todo' = [todo EXCEPT ![j] = installed]
    /\ UNCHANGED <<requirements, up, ticks, task, next, pipDir, rootVars, packageVars, logVars>>

(* No deferred removal here: the root stays. *)
WriteScriptFails(j) ==
    /\ CallsMayFail
    /\ pc[j] = "write" /\ task[j] = "update"
    /\ FailOfItself(j)
    /\ UNCHANGED <<requirements, ticks, next, todo, pipDir, rootVars, packageVars, answer, skipped,
                   misled, missed>>

Copy(j) ==
    /\ pc[j] = "copy"
    /\ \E p \in todo[j] :
          /\ todo' = [todo EXCEPT ![j] = @ \ {p}]
          /\ sandboxed' = sandboxed \union {p}
          /\ missed' = missed \ {p}
    /\ UNCHANGED <<requirements, up, ticks, pc, task, next, pipDir, rootVars, installed, listed, answer,
                   skipped, trouble, misled>>

(* A file that cannot be copied; what was there may be lost with it.        *)
LeaveOut(p) ==
    /\ missed' = missed \union {p}
    /\ sandboxed' = sandboxed \ {p}

(* Nobody sees it: env.sh has no "set -e", its loop goes on and only the    *)
(* last file decides about its exit status; and a library path that is not  *)
(* found is skipped.                                                        *)
CopyMisses(j) ==
    /\ CopyMayFail
    /\ pc[j] = "copy"
    /\ \E p \in todo[j] :
          /\ todo' = [todo EXCEPT ![j] = @ \ {p}]
          /\ LeaveOut(p)
    /\ UNCHANGED <<requirements, up, ticks, pc, task, next, pipDir, rootVars, installed, listed, answer,
                   skipped, trouble, misled>>

(* Mutant: the result of env.sh is only logged. *)
CopyFailsUnseen(j) ==
    /\ CopyMayFail
    /\ pc[j] = "copy"
    /\ Succeed(j)
    /\ UNCHANGED <<requirements, up, ticks, next, todo, pipDir, rootVars, packageVars, logVars>>

(* The last file of a library path, or env.sh as a whole: the rest of the   *)
(* library paths is given up.                                               *)
CopyFails(j) ==
    /\ CopyMayFail
    /\ pc[j] = "copy"
    /\ FailOfItself(j)
    /\ \/ UNCHANGED <<sandboxed, missed>>
       \/ \E p \in todo[j] : LeaveOut(p)
    /\ UNCHANGED <<requirements, ticks, next, todo, pipDir, rootVars, installed, listed, answer, skipped,
                   misled>>

PrepareReturns(j) ==
    /\ pc[j] = "copy" /\ todo[j] = {}
    /\ Succeed(j)
    /\ RemoveRoot(j)
    /\ UNCHANGED <<requirements, up, ticks, next, todo, pipDir, dir, calls, packageVars, logVars>>

-----------------------------------------------------------------------------

InstallDependencies(j) ==
    \/ NothingToInstall(j)
    \/ OpenRequirements(j) \/ WriteRequirements(j) \/ WriteRequirementsFails(j)
    \/ StartPip(j) \/ StartPipFails(j) \/ PipReads(j) \/ PipReadsPart(j) \/ PipFindsNothing(j)
    \/ PipInstalls(j) \/ PipFails(j) \/ Register(j) \/ InstallReturns(j)
PreparePythonDependenciesEnv(j) ==
    \/ WriteScript(j) \/ WriteScriptFails(j)
    \/ Copy(j) \/ CopyMisses(j) \/ CopyFails(j) \/ PrepareReturns(j)
JobStep(j) == \/ EnterRoot(j) \/ EnterFails(j)
              \/ InstallDependencies(j) \/ PreparePythonDependenciesEnv(j)
HandlerStep(h) == Request(h) \/ Reply(h)

(* The process has ended, or the start-up is over and nothing is asked.     *)
Quiet == \/ ~up
         \/ /\ \A j \in {"startup"} \union Handlers \union NodeRuns : pc[j] = "done"
            /\ pc["ticker"] = "new" /\ ticks = MaxTicks

Next ==
    \/ up /\ \/ \E j \in Jobs : JobStep(j)
             \/ Tick
             \/ \E h \in Handlers : HandlerStep(h)
             \/ \E n \in NodeRuns : NodeEnters(n)
    \/ Quiet /\ UNCHANGED vars

Spec == Init /\ [][Next]_vars

(* Every goroutine runs on, and pip3 and env.sh end. *)
FairSpec == Spec /\ \A j \in Jobs : WF_vars(up /\ (JobStep(j) \/ Reply(j)))

-----------------------------------------------------------------------------
(* Properties. *)

(* The pip3 of the job's present installation read a file not yet written. *)
Misled(j) == \E m \in misled : m[1] = Root(j)

(* What the list of dependencies names is installed, but for comment lines, *)
(* which are taken for names (setup.go:96-99).  It matters little whose     *)
(* requirements.txt pip3 reads, since all jobs write the same text; but a   *)
(* job whose pip3 finds one that another job has opened and not yet written *)
(* (setup.go:113) lists packages that nobody has installed.  This is the    *)
(* only way: a job that was not misled so registers lines only when all     *)
(* packages are installed, and nobody is misled by its own file             *)
(* (setup.go:110-175).                                                      *)
ListedIsInstalled ==
    /\ misled = {} => listed \ Comments \subseteq installed
    /\ \A j \in Jobs : pc[j] = "register" /\ ~Misled(j) => Packages \subseteq installed
    /\ \A m \in misled : m[2] # m[1]

(* A refresh that answers with a list names every requirement, unless the   *)
(* requirements could not be written (setup.go:182-192).                    *)
RefreshAnswersAll ==
    \A h \in Handlers \ skipped :
        task[h] = "install" /\ answer[h] # NoList /\ requirements # <<>> => Keys \subseteq answer[h]

(* When start-up reports success and the ticker begins, every requirement   *)
(* is in the sandbox (server.go:59-77), but for what start-up is not told   *)
(* of: its requirements could not be written (setup.go:114-117), its pip3   *)
(* read another job's file too early, or env.sh failed to copy a file that  *)
(* was not the last of its library path (env.sh, env.go:43).                *)
SandboxHasRequirements ==
    (/\ pc["startup"] = "done" /\ up /\ requirements # <<>>
     /\ "startup" \notin skipped /\ \A m \in misled : m[1] # <<"startup", 1>>)
        => Packages \ missed \subseteq sandboxed

(* A root with requirements exists only while InstallDependencies works in  *)
(* it: the deferred removal runs on every path (setup.go:110-111).  A       *)
(* removal that fails leaves it behind.                                     *)
InstallCleansUp ==
    \A r \in filed \ unremoved : \E j \in Jobs :
        /\ r = Root(j) /\ task[j] = "install"
        /\ pc[j] \in {"fill", "start", "pip", "installing", "register"}

(* When no call of its own has failed, the start-up goroutine can still end *)
(* the server in one way only: another job or a Node.js run has changed the *)
(* working directory before its pip3 was started (server.go:62-66,          *)
(* setup.go:123-138).                                                       *)
CrashHasCause == ~up => trouble \/ pipDir["startup"] # <<"startup", 1>>

(* Every request to the dependency routes is answered, unless the server    *)
(* ends.                                                                    *)
EveryHandlerAnswers == \A h \in Handlers : pc[h] # "new" ~> (pc[h] = "done" \/ ~up)
=============================================================================
