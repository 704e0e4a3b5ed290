----------------------------- MODULE LibRelease -----------------------------
(***************************************************************************)
(* The release of the embedded libraries: releaseLibBinary of              *)
(* internal/core/runner/python/setup.go and nodejs/setup.go, called by the *)
(* init functions of the server and again by every run that misses its     *)
(* library, and the use of what was released: WithTempDir's copy into the  *)
(* root of a Node.js run, the working directory the child starts in, and   *)
(* the load in the child.                                                  *)
(*                                                                         *)
(* On disk: python.so, nodejs.so and the Node.js project.  A file is       *)
(* absent, partial or whole, and a project directory may be empty.  "by"   *)
(* is who has truncated or filled it last: the write of an earlier one     *)
(* goes to a file that is gone or is done over by the last one.            *)
(***************************************************************************)
EXTENDS Naturals, FiniteSets

CONSTANTS Runs, Boot, Nobody

ASSUME ActorsAssumption == Boot \notin Runs /\ Nobody \notin Runs \union {Boot}

VARIABLES
    py, lib, proj,  \* python.so, nodejs.so, the project: [is, by]
    pc,             \* the step of Boot and of every run
    lang,           \* the language of a run
    jail,           \* the copies in the root of a Node.js run
    cwd,            \* the working directory of the server: a run's root
    dir,            \* the directory a run's child was started in
    sound,          \* everything was whole when the run began, and no file
                    \* has been removed from outside since
    damaged,        \* a file has been removed from outside since the start
    contested,      \* two Node.js releases have overlapped since the start
    hit             \* a call has failed in a run since the start

disk == <<py, lib, proj>>
runVars == <<lang, jail, cwd, dir, sound>>
flags == <<damaged, contested, hit>>
vars == <<disk, pc, runVars, flags>>

Actors == Runs \union {Boot}
Languages == {"python3", "nodejs"}
File(is, by) == [is |-> is, by |-> by]
Absent == File("absent", Nobody)
Left == {File(is, Nobody) : is \in {"absent", "partial", "whole"}}
NoJail == [lib |-> "absent", proj |-> "absent"]

NodeRelease == {"removeNode", "openNode", "writeNode", "project", "temp", "fill"}
PythonRelease == {"statPy", "openPy", "writePy"}

(* Ends of an actor: a call of its own has failed; what others have left    *)
(* behind stops it; its child finds no library; its code is reached.        *)
Over == {"idle", "failed", "stopped", "lost", "done"}

AllWhole == py.is = "whole" /\ lib.is = "whole" /\ proj.is = "whole"
Releasing == {a \in Actors : pc[a] \in NodeRelease \union PythonRelease}
Up == pc[Boot] = "up"

(* The start of the process, whatever an earlier one has left behind. *)
Init ==
    /\ py \in Left /\ lib \in Left
    /\ proj \in Left \union {File("empty", Nobody)}
    /\ pc = [a \in Actors |-> IF a = Boot THEN "removeNode" ELSE "idle"]
    /\ lang = [r \in Runs |-> "python3"]
    /\ jail = [r \in Runs |-> NoJail]
    /\ cwd = Nobody
    /\ dir = [r \in Runs |-> Nobody]
    /\ sound = [r \in Runs |-> FALSE]
    /\ damaged = FALSE /\ contested = FALSE /\ hit = FALSE

Go(a, from, to) == pc[a] = from /\ pc' = [pc EXCEPT ![a] = to]

-----------------------------------------------------------------------------
(* releaseLibBinary of Node.js. *)

(* The error of RemoveAll is ignored: a part may be left, or all.  It also  *)
(* fails where another release makes files in the same tree.                *)
RemoveNode(a) ==
    /\ Go(a, "removeNode", "openNode")
    /\ lib' \in {lib, Absent}
    /\ proj' \in {proj, Absent} \union
            (IF proj.is \in {"partial", "whole"}
             THEN {File("empty", Nobody), File("partial", Nobody)} ELSE {})
    /\ contested' = (contested \/ \E b \in Actors \ {a} : pc[b] \in NodeRelease)
    /\ hit' = (hit \/ (a # Boot /\ ~contested' /\ ~(lib' = Absent /\ proj' = Absent)))
    /\ UNCHANGED <<py, runVars, damaged>>

OpenNode(a) ==
    /\ Go(a, "openNode", "writeNode")
    /\ lib' = File("partial", a)
    /\ UNCHANGED <<py, proj, runVars, flags>>

WriteNode(a) ==
    /\ Go(a, "writeNode", "project")
    /\ lib' = IF lib.by = a THEN File("whole", a) ELSE lib
    /\ UNCHANGED <<py, proj, runVars, flags>>

(* MkdirAll *)
MakeProject(a) ==
    /\ Go(a, "project", "temp")
    /\ proj' = IF proj.is = "absent" THEN File("empty", Nobody) ELSE proj
    /\ UNCHANGED <<py, lib, runVars, flags>>

(* Mutant: a directory that is there already is accepted. *)
MakeTempAnyway(a) ==
    /\ Go(a, "temp", "fill")
    /\ proj' = IF proj.is = "empty" THEN File("partial", a) ELSE proj
    /\ UNCHANGED <<py, lib, runVars, flags>>

(* Mkdir: not without its parent, and not over an old one.  Either is a     *)
(* panic.                                                                   *)
MakeTemp(a) ==
    /\ \/ Go(a, "temp", "fill") /\ proj.is = "empty" /\ proj' = File("partial", a)
       \/ Go(a, "temp", "stopped") /\ proj.is # "empty" /\ UNCHANGED proj
    /\ UNCHANGED <<py, lib, runVars, flags>>

Fill(a) ==
    /\ Go(a, "fill", IF a = Boot THEN "statPy" ELSE "script")
    /\ proj' = IF proj.by = a THEN File("whole", a) ELSE proj
    /\ UNCHANGED <<py, lib, runVars, flags>>

(* Of two releases one removes or makes the directories of the other. *)
Trip(a) ==
    /\ contested
    /\ \E step \in {"openNode", "fill"} : Go(a, step, "stopped")
    /\ UNCHANGED <<disk, runVars, flags>>

NodeStep(a) ==
    RemoveNode(a) \/ OpenNode(a) \/ WriteNode(a) \/ MakeProject(a) \/ MakeTemp(a) \/ Fill(a) \/ Trip(a)

-----------------------------------------------------------------------------
(* releaseLibBinary of Python: Boot removes the old library, a run leaves   *)
(* one that has appeared in the meantime.                                   *)

StatPy(a) ==
    /\ IF a # Boot /\ py.is # "absent" THEN Go(a, "statPy", "start") ELSE Go(a, "statPy", "openPy")
    /\ py' = IF a = Boot THEN Absent ELSE py
    /\ UNCHANGED <<lib, proj, runVars, flags>>

OpenPy(a) ==
    /\ Go(a, "openPy", "writePy")
    /\ py' = File("partial", a)
    /\ UNCHANGED <<lib, proj, runVars, flags>>

WritePy(a) ==
    /\ Go(a, "writePy", IF a = Boot THEN "up" ELSE "start")
    /\ py' = IF py.by = a THEN File("whole", a) ELSE py
    /\ UNCHANGED <<lib, proj, runVars, flags>>

PythonStep(a) == StatPy(a) \/ OpenPy(a) \/ WritePy(a)

-----------------------------------------------------------------------------
(* A run. *)

(* A root that is used again is another one: its name is a new UUID. *)
Arrive(r, l) ==
    /\ Up /\ pc[r] \in Over
    /\ pc' = [pc EXCEPT ![r] = IF l = "nodejs" THEN "copyProject" ELSE "check"]
    /\ lang' = [lang EXCEPT ![r] = l]
    /\ jail' = [jail EXCEPT ![r] = NoJail]
    /\ cwd' = IF cwd = r THEN Nobody ELSE cwd
    /\ dir' = [q \in Runs |-> IF q = r \/ dir[q] = r THEN Nobody ELSE dir[q]]
    /\ sound' = [sound EXCEPT ![r] = AllWhole /\ Releasing = {}]
    /\ UNCHANGED <<disk, flags>>

(* What is missing is skipped. *)
CopyProject(r) ==
    /\ Go(r, "copyProject", "copyLib")
    /\ jail' = [jail EXCEPT ![r].proj = IF proj.is = "empty" THEN "absent" ELSE proj.is]
    /\ UNCHANGED <<disk, lang, cwd, dir, sound, flags>>

CopyLib(r) ==
    /\ Go(r, "copyLib", "chdir")
    /\ jail' = [jail EXCEPT ![r].lib = lib.is]
    /\ UNCHANGED <<disk, lang, cwd, dir, sound, flags>>

Chdir(r) ==
    /\ Go(r, "chdir", "check")
    /\ cwd' = r
    /\ UNCHANGED <<disk, lang, jail, dir, sound, flags>>

(* Mutant: a Node.js run releases the library without a look. *)
ReleaseAlways(r) ==
    /\ IF lang[r] = "nodejs" THEN Go(r, "check", "removeNode")
       ELSE Go(r, "check", IF py.is = "absent" THEN "statPy" ELSE "start")
    /\ UNCHANGED <<disk, runVars, flags>>

(* checkLibAvaliable asks only whether the file is there. *)
CheckLib(r) ==
    /\ IF lang[r] = "nodejs"
       THEN Go(r, "check", IF lib.is = "absent" THEN "removeNode" ELSE "script")
       ELSE Go(r, "check", IF py.is = "absent" THEN "statPy" ELSE "start")
    /\ UNCHANGED <<disk, runVars, flags>>

(* test.js is written into the copy of the project. *)
WriteScript(r) ==
    /\ Go(r, "script", IF jail[r].proj = "absent" THEN "stopped" ELSE "start")
    /\ UNCHANGED <<disk, runVars, flags>>

(* Python's child starts in the directory of its library, a Node.js one     *)
(* wherever the server is.                                                  *)
StartChild(r) ==
    /\ Go(r, "start", "load")
    /\ dir' = [dir EXCEPT ![r] = IF lang[r] = "nodejs" THEN cwd ELSE r]
    /\ UNCHANGED <<disk, lang, jail, cwd, sound, flags>>

(* The directory of a run is removed when it is over. *)
Loads(r) ==
    IF lang[r] = "python3" THEN py.is = "whole"
    ELSE /\ jail[r].proj = "whole"
         /\ dir[r] # Nobody /\ pc[dir[r]] \notin Over /\ jail[dir[r]].lib = "whole"

LoadLib(r) ==
    /\ Go(r, "load", IF Loads(r) THEN "done" ELSE "lost")
    /\ UNCHANGED <<disk, runVars, flags>>

RunStep(r) ==
    CopyProject(r) \/ CopyLib(r) \/ Chdir(r) \/ CheckLib(r) \/ WriteScript(r) \/ StartChild(r) \/ LoadLib(r)

-----------------------------------------------------------------------------
(* Faults. *)

(* A call fails: init functions and runs panic or return an error. *)
Fail(a) ==
    /\ pc[a] \notin Over \union {"up"}
    /\ pc' = [pc EXCEPT ![a] = "failed"]
    /\ hit' = (hit \/ a # Boot)
    /\ UNCHANGED <<disk, runVars, damaged, contested>>

(* Something else on the host removes a library, or Node.js' whole          *)
(* directory: once in a life of the server.                                 *)
Vanish ==
    /\ Up /\ ~damaged /\ damaged' = TRUE
    /\ \/ py' = Absent /\ UNCHANGED <<lib, proj>>
       \/ lib' = Absent /\ proj' \in {proj, Absent} /\ UNCHANGED py
    /\ sound' = [r \in Runs |-> FALSE]
    /\ UNCHANGED <<pc, lang, jail, cwd, dir, contested, hit>>

(* The server ends anywhere and is started again. *)
Restart ==
    /\ pc' = [a \in Actors |-> IF a = Boot THEN "removeNode" ELSE "idle"]
    /\ py' = File(py.is, Nobody) /\ lib' = File(lib.is, Nobody) /\ proj' = File(proj.is, Nobody)
    /\ lang' = [r \in Runs |-> "python3"]
    /\ jail' = [r \in Runs |-> NoJail]
    /\ cwd' = Nobody
    /\ dir' = [r \in Runs |-> Nobody]
    /\ sound' = [r \in Runs |-> FALSE]
    /\ damaged' = FALSE /\ contested' = FALSE /\ hit' = FALSE

Next ==
    \/ \E a \in Actors : NodeStep(a) \/ PythonStep(a) \/ Fail(a)
    \/ \E r \in Runs : RunStep(r) \/ \E l \in Languages : Arrive(r, l)
    \/ Vanish
    \/ Restart

Spec == Init /\ [][Next]_vars

-----------------------------------------------------------------------------
(* Properties. *)

(* A server that has come up has released all three completely, whatever an *)
(* earlier one left behind and although RemoveAll's error is ignored        *)
(* (nodejs/setup.go:31, 62).  When a file was removed since, the repairs of *)
(* concurrent runs end with a whole library or none, and a Node.js library  *)
(* never stands without its project, for that one would not be repaired any *)
(* more (nodejs/setup.go:93): unless two of them met or a call failed.      *)
RepairIsComplete ==
    /\ Up /\ ~damaged => AllWhole
    /\ Up /\ Releasing = {} /\ ~hit =>
          /\ py.is \in {"absent", "whole"} /\ lib.is \in {"absent", "whole"}
          /\ lib.is = "whole" /\ ~contested => proj.is = "whole"

(* A run that began with everything whole reaches its own code: nothing     *)
(* that other runs release, copy, remove or fail to do takes the library    *)
(* away from it (python/setup.go:73, temp_dir.go:26-57), unless one of its  *)
(* own calls fails or its child starts in the root of another run           *)
(* (nodejs.go:86); before its child is started only the former ends it.     *)
StopHasCause ==
    \A r \in Runs : sound[r] =>
        /\ pc[r] # "stopped"
        /\ pc[r] = "lost" => lang[r] = "nodejs" /\ dir[r] # r
=============================================================================
