-------------------------- MODULE LibReleaseProofs --------------------------
(***************************************************************************)
(* The invariants of LibRelease, for any number of runs.                    *)
(***************************************************************************)
EXTENDS LibRelease, TLAPS

Steps ==
    NodeRelease \union PythonRelease \union Over
    \union {"up", "copyProject", "copyLib", "chdir", "check", "script", "start", "load"}
Is == {"absent", "partial", "whole"}

TypeOK ==
    /\ py \in [is : Is, by : Actors \union {Nobody}]
    /\ lib \in [is : Is, by : Actors \union {Nobody}]
    /\ proj \in [is : Is \union {"empty"}, by : Actors \union {Nobody}]
    /\ pc \in [Actors -> Steps]
    /\ lang \in [Runs -> Languages]
    /\ jail \in [Runs -> [lib : Is, proj : Is]]
    /\ cwd \in Runs \union {Nobody}
    /\ dir \in [Runs -> Runs \union {Nobody}]
    /\ sound \in [Runs -> BOOLEAN]
    /\ damaged \in BOOLEAN /\ contested \in BOOLEAN /\ hit \in BOOLEAN

(* Before the server is up there is no run, and each file is what the steps *)
(* that are behind have made of it.                                         *)
Booting ==
    ~Up =>
        /\ pc[Boot] \in NodeRelease \union PythonRelease \union {"stopped", "failed"}
        /\ \A r \in Runs : pc[r] = "idle"
        /\ ~damaged /\ ~contested /\ ~hit
        /\ pc[Boot] = "writeNode" => lib = File("partial", Boot)
        /\ pc[Boot] \in {"project", "temp", "fill"} \union PythonRelease => lib.is = "whole"
        /\ pc[Boot] = "fill" => proj = File("partial", Boot)
        /\ pc[Boot] \in PythonRelease => proj.is = "whole"
        /\ pc[Boot] = "writePy" => py = File("partial", Boot)

(* Nothing is released while nothing is missing. *)
Intact == Up /\ ~damaged => AllWhole /\ Releasing = {} /\ ~contested

(* An unfinished file has a run that will finish it. *)
Unfinished ==
    Up /\ ~hit =>
        /\ py.is = "partial" => \E r \in Runs : py.by = r /\ pc[r] = "writePy"
        /\ lib.is = "partial" => \E r \in Runs : lib.by = r /\ pc[r] = "writeNode"

(* Releases of Node.js that do not meet are one at a time ... *)
Begun == NodeRelease \ {"removeNode"}
Alone ==
    Up /\ ~contested => \A q, r \in Runs : pc[q] \in Begun /\ pc[r] \in Begun => q = r

(* ... and find what their own steps have left.                             *)
Releases(r) ==
    /\ pc[r] = "openNode" => lib.is = "absent"
    /\ pc[r] = "writeNode" => lib = File("partial", r)
    /\ pc[r] \in {"openNode", "writeNode", "project"} => proj.is = "absent"
    /\ pc[r] = "temp" => proj.is = "empty"
    /\ pc[r] = "fill" => proj = File("partial", r)
Paired ==
    Up /\ ~contested /\ ~hit =>
        /\ \A r \in Runs : Releases(r)
        /\ lib.is = "whole" =>
              proj.is = "whole" \/ \E r \in Runs : pc[r] \in {"project", "temp", "fill"}

(* While a run that found everything whole is counted on, nothing changes   *)
(* on the disk, so that its copies are whole.                               *)
Sound(r) ==
    sound[r] =>
        /\ Up /\ AllWhole /\ Releasing = {} /\ pc[r] # "idle"
        /\ pc[r] \in {"copyProject", "copyLib", "chdir", "script"} => lang[r] = "nodejs"
        /\ lang[r] = "nodejs" /\ pc[r] \in {"copyLib", "chdir", "check", "script", "start", "load"} =>
              jail[r].proj = "whole"
        /\ lang[r] = "nodejs" /\ pc[r] \in {"chdir", "check", "script", "start", "load"} =>
              jail[r].lib = "whole"
        /\ pc[r] # "stopped"
        /\ pc[r] = "lost" => lang[r] = "nodejs" /\ dir[r] # r
Counted == \A r \in Runs : Sound(r)

Inv == TypeOK /\ Booting /\ Intact /\ Unfinished /\ Alone /\ Paired /\ Counted

-----------------------------------------------------------------------------
(* A server that starts has nothing to keep, whatever is on the disk.       *)
LEMMA InitInv == Init => Inv
<1>. USE ActorsAssumption DEF Actors
<1>. SUFFICES ASSUME Init PROVE Inv
  OBVIOUS
<1>1. /\ py \in [is : Is, by : {Nobody}] /\ lib \in [is : Is, by : {Nobody}]
      /\ proj \in [is : Is \union {"empty"}, by : {Nobody}]
  BY DEF Init, Left, File, Is
<1>2. TypeOK
  BY <1>1 DEF Init, TypeOK, Is, Steps, NodeRelease, PythonRelease, Over, Languages, NoJail
<1>3. Booting /\ Intact /\ Unfinished /\ Alone /\ Paired
  BY DEF Init, Booting, Intact, Unfinished, Alone, Paired, Up, NodeRelease, PythonRelease
<1>4. Counted
  BY DEF Init, Counted, Sound
<1>. QED  BY <1>2, <1>3, <1>4 DEF Inv

(* A step of a release of Node.js, by the starting server or by a run.      *)
LEMMA NodeInv == ASSUME NEW a \in Actors, Inv, NodeStep(a) PROVE Inv'
<1>. USE ActorsAssumption DEF Inv, Actors, Steps, NodeRelease, PythonRelease, Over, Is,
                              File, Absent, Up, Releasing, AllWhole, runVars, flags,
                              disk, Go, Languages, Begun
<1>1. CASE RemoveNode(a)
  <2>1. TypeOK' /\ Booting' /\ Intact'
    BY <1>1 DEF RemoveNode, TypeOK, Booting, Intact
  <2>2. Unfinished' /\ Alone'
    BY <1>1 DEF RemoveNode, TypeOK, Booting, Intact, Unfinished, Alone
  <2>3. Paired'
    BY <1>1 DEF RemoveNode, TypeOK, Booting, Intact, Alone, Paired, Releases
  <2>4. Counted'
    BY <1>1 DEF RemoveNode, TypeOK, Booting, Counted, Sound
  <2>. QED  BY <2>1, <2>2, <2>3, <2>4
<1>2. CASE OpenNode(a)
  <2>1. TypeOK' /\ Booting' /\ Intact'
    BY <1>2 DEF OpenNode, TypeOK, Booting, Intact
  <2>2. Unfinished' /\ Alone'
    BY <1>2 DEF OpenNode, TypeOK, Booting, Intact, Unfinished, Alone
  <2>3. Paired'
    BY <1>2 DEF OpenNode, TypeOK, Booting, Intact, Alone, Paired, Releases
  <2>4. Counted'
    BY <1>2 DEF OpenNode, TypeOK, Booting, Counted, Sound
  <2>. QED  BY <2>1, <2>2, <2>3, <2>4
<1>3. CASE WriteNode(a)
  <2>1. TypeOK' /\ Booting' /\ Intact'
    BY <1>3 DEF WriteNode, TypeOK, Booting, Intact
  <2>2. Unfinished' /\ Alone'
    BY <1>3 DEF WriteNode, TypeOK, Booting, Intact, Unfinished, Alone
  <2>3. Paired'
    BY <1>3 DEF WriteNode, TypeOK, Booting, Intact, Alone, Paired, Releases
  <2>4. Counted'
    BY <1>3 DEF WriteNode, TypeOK, Booting, Counted, Sound
  <2>. QED  BY <2>1, <2>2, <2>3, <2>4
<1>4. CASE MakeProject(a)
  <2>1. TypeOK' /\ Booting' /\ Intact'
    BY <1>4 DEF MakeProject, TypeOK, Booting, Intact
  <2>2. Unfinished' /\ Alone'
    BY <1>4 DEF MakeProject, TypeOK, Booting, Intact, Unfinished, Alone
  <2>3. Paired'
    BY <1>4 DEF MakeProject, TypeOK, Booting, Intact, Alone, Paired, Releases
  <2>4. Counted'
    BY <1>4 DEF MakeProject, TypeOK, Booting, Counted, Sound
  <2>. QED  BY <2>1, <2>2, <2>3, <2>4
<1>5. CASE MakeTemp(a)
  <2>1. TypeOK' /\ Booting' /\ Intact'
    BY <1>5 DEF MakeTemp, TypeOK, Booting, Intact
  <2>2. Unfinished' /\ Alone'
    BY <1>5 DEF MakeTemp, TypeOK, Booting, Intact, Unfinished, Alone
  <2>3. Paired'
    BY <1>5 DEF MakeTemp, TypeOK, Booting, Intact, Alone, Paired, Releases
  <2>4. Counted'
    BY <1>5 DEF MakeTemp, TypeOK, Booting, Counted, Sound
  <2>. QED  BY <2>1, <2>2, <2>3, <2>4
<1>6. CASE Fill(a)
  <2>1. TypeOK' /\ Booting' /\ Intact'
    BY <1>6 DEF Fill, TypeOK, Booting, Intact
  <2>2. Unfinished' /\ Alone'
    BY <1>6 DEF Fill, TypeOK, Booting, Intact, Unfinished, Alone
  <2>3. Paired'
    BY <1>6 DEF Fill, TypeOK, Booting, Intact, Alone, Paired, Releases
  <2>4. Counted'
    BY <1>6 DEF Fill, TypeOK, Booting, Counted, Sound
  <2>. QED  BY <2>1, <2>2, <2>3, <2>4
<1>7. CASE Trip(a)
  <2>1. TypeOK' /\ Booting' /\ Intact'
    BY <1>7 DEF Trip, TypeOK, Booting, Intact
  <2>2. Unfinished' /\ Alone'
    BY <1>7 DEF Trip, TypeOK, Booting, Intact, Unfinished, Alone
  <2>3. Paired'
    BY <1>7 DEF Trip, TypeOK, Booting, Intact, Alone, Paired, Releases
  <2>4. Counted'
    BY <1>7 DEF Trip, TypeOK, Booting, Counted, Sound
  <2>. QED  BY <2>1, <2>2, <2>3, <2>4
<1>. QED  BY <1>1, <1>2, <1>3, <1>4, <1>5, <1>6, <1>7 DEF NodeStep

(* The same for Python.                                                     *)
LEMMA PythonInv == ASSUME NEW a \in Actors, Inv, PythonStep(a) PROVE Inv'
<1>. USE ActorsAssumption DEF Inv, Actors, Steps, NodeRelease, PythonRelease, Over, Is,
                              File, Absent, Up, Releasing, AllWhole, runVars, flags,
                              disk, Go, Languages, Begun
<1>1. CASE StatPy(a)
  <2>1. TypeOK' /\ Booting' /\ Intact'
    BY <1>1 DEF StatPy, TypeOK, Booting, Intact
  <2>2. Unfinished' /\ Alone'
    <3>1. Unfinished'
      BY <1>1 DEF StatPy, TypeOK, Booting, Intact, Unfinished
    <3>2. Alone'
      BY <1>1 DEF StatPy, TypeOK, Booting, Alone
    <3>. QED  BY <3>1, <3>2
  <2>3. Paired'
    BY <1>1 DEF StatPy, TypeOK, Booting, Intact, Alone, Paired, Releases
  <2>4. Counted'
    BY <1>1 DEF StatPy, TypeOK, Booting, Counted, Sound
  <2>. QED  BY <2>1, <2>2, <2>3, <2>4
<1>2. CASE OpenPy(a)
  <2>1. TypeOK' /\ Booting' /\ Intact'
    BY <1>2 DEF OpenPy, TypeOK, Booting, Intact
  <2>2. Unfinished' /\ Alone'
    BY <1>2 DEF OpenPy, TypeOK, Booting, Intact, Unfinished, Alone
  <2>3. Paired'
    BY <1>2 DEF OpenPy, TypeOK, Booting, Intact, Alone, Paired, Releases
  <2>4. Counted'
    BY <1>2 DEF OpenPy, TypeOK, Booting, Counted, Sound
  <2>. QED  BY <2>1, <2>2, <2>3, <2>4
<1>3. CASE WritePy(a)
  <2>1. TypeOK' /\ Booting' /\ Intact'
    BY <1>3 DEF WritePy, TypeOK, Booting, Intact
  <2>2. Unfinished' /\ Alone'
    BY <1>3 DEF WritePy, TypeOK, Booting, Intact, Unfinished, Alone
  <2>3. Paired'
    BY <1>3 DEF WritePy, TypeOK, Booting, Intact, Alone, Paired, Releases
  <2>4. Counted'
    BY <1>3 DEF WritePy, TypeOK, Booting, Counted, Sound
  <2>. QED  BY <2>1, <2>2, <2>3, <2>4
<1>. QED  BY <1>1, <1>2, <1>3 DEF PythonStep

(* A step of a run that leaves the disk alone and has no part in a release  *)
(* disturbs nothing but, perhaps, what is known of that run.                *)
LEMMA QuietInv ==
    ASSUME NEW r \in Runs, NEW to \in Steps \ (NodeRelease \union PythonRelease), Inv, TypeOK',
           pc[r] \notin NodeRelease \union PythonRelease, Up,
           pc' = [pc EXCEPT ![r] = to], UNCHANGED <<disk, damaged, contested>>, hit => hit'
    PROVE  Booting' /\ Intact' /\ Unfinished' /\ Alone' /\ Paired'
<1>. USE ActorsAssumption DEF Inv, Actors, Steps, NodeRelease, PythonRelease, Over, Is,
                              File, Absent, Up, Releasing, AllWhole, runVars, flags,
                              disk, Go, Languages, Begun
<1>1. Booting' /\ Intact'
  BY DEF TypeOK, Booting, Intact
<1>2. Unfinished' /\ Alone'
  BY DEF TypeOK, Unfinished, Alone
<1>3. Paired'
  BY DEF TypeOK, Paired, Releases
<1>. QED  BY <1>1, <1>2, <1>3

(* A step of a run outside the releases.                                    *)
LEMMA RunInv == ASSUME NEW r \in Runs, Inv, RunStep(r) PROVE Inv'
<1>. USE ActorsAssumption DEF Inv, Actors, Steps, NodeRelease, PythonRelease, Over, Is,
                              File, Absent, Up, Releasing, AllWhole, runVars, flags,
                              disk, Go, Languages, Begun
<1>0. pc[r] \in Steps /\ pc[r] # "idle" => Up
  BY DEF TypeOK, Booting
<1>1. CASE CopyProject(r)
  <2>1. TypeOK'
    BY <1>1 DEF CopyProject, TypeOK
  <2>2. Booting' /\ Intact' /\ Unfinished' /\ Alone' /\ Paired'
    BY <1>0, <1>1, <2>1, QuietInv DEF CopyProject
  <2>3. Counted'
    BY <1>0, <1>1 DEF CopyProject, TypeOK, Counted, Sound
  <2>. QED  BY <2>1, <2>2, <2>3
<1>2. CASE CopyLib(r)
  <2>1. TypeOK'
    BY <1>2 DEF CopyLib, TypeOK
  <2>2. Booting' /\ Intact' /\ Unfinished' /\ Alone' /\ Paired'
    BY <1>0, <1>2, <2>1, QuietInv DEF CopyLib
  <2>3. Counted'
    BY <1>0, <1>2 DEF CopyLib, TypeOK, Counted, Sound
  <2>. QED  BY <2>1, <2>2, <2>3
<1>3. CASE Chdir(r)
  <2>1. TypeOK'
    BY <1>3 DEF Chdir, TypeOK
  <2>2. Booting' /\ Intact' /\ Unfinished' /\ Alone' /\ Paired'
    BY <1>0, <1>3, <2>1, QuietInv DEF Chdir
  <2>3. Counted'
    BY <1>0, <1>3 DEF Chdir, TypeOK, Counted, Sound
  <2>. QED  BY <2>1, <2>2, <2>3
<1>4. CASE CheckLib(r)
  <2>1. TypeOK'
    BY <1>4 DEF CheckLib, TypeOK
  <2>2. Booting' /\ Intact' /\ Unfinished' /\ Alone' /\ Paired'
    BY <1>4, <2>1 DEF CheckLib, TypeOK, Booting, Intact, Unfinished, Alone, Paired,
                      Counted, Releases
  <2>3. Counted'
    BY <1>0, <1>4 DEF CheckLib, TypeOK, Counted, Sound
  <2>. QED  BY <2>1, <2>2, <2>3
<1>5. CASE WriteScript(r)
  <2>1. TypeOK'
    BY <1>5 DEF WriteScript, TypeOK
  <2>2. Booting' /\ Intact' /\ Unfinished' /\ Alone' /\ Paired'
    BY <1>0, <1>5, <2>1, QuietInv DEF WriteScript
  <2>3. Counted'
    BY <1>0, <1>5 DEF WriteScript, TypeOK, Counted, Sound
  <2>. QED  BY <2>1, <2>2, <2>3
<1>6. CASE StartChild(r)
  <2>1. TypeOK'
    BY <1>6 DEF StartChild, TypeOK
  <2>2. Booting' /\ Intact' /\ Unfinished' /\ Alone' /\ Paired'
    BY <1>0, <1>6, <2>1, QuietInv DEF StartChild
  <2>3. Counted'
    BY <1>0, <1>6 DEF StartChild, TypeOK, Counted, Sound
  <2>. QED  BY <2>1, <2>2, <2>3
<1>7. CASE LoadLib(r)
  <2>1. TypeOK'
    BY <1>7 DEF LoadLib, TypeOK
  <2>2. Booting' /\ Intact' /\ Unfinished' /\ Alone' /\ Paired'
    BY <1>0, <1>7, <2>1, QuietInv DEF LoadLib
  <2>3. Counted'
    BY <1>0, <1>7 DEF LoadLib, Loads, TypeOK, Counted, Sound
  <2>. QED  BY <2>1, <2>2, <2>3
<1>. QED  BY <1>1, <1>2, <1>3, <1>4, <1>5, <1>6, <1>7 DEF RunStep

(* A new run finds a server that is up and takes nothing from another.      *)
LEMMA ArriveInv == ASSUME NEW r \in Runs, NEW l \in Languages, Inv, Arrive(r, l) PROVE Inv'
<1>. USE ActorsAssumption DEF Inv, Actors, Steps, NodeRelease, PythonRelease, Over, Is,
                              File, Absent, Up, Releasing, AllWhole, runVars, flags,
                              disk, Go, Languages, Begun
<1>1. TypeOK'
  BY DEF Arrive, TypeOK, NoJail
<1>2. Booting' /\ Intact' /\ Unfinished' /\ Alone' /\ Paired'
  BY <1>1, QuietInv DEF Arrive
<1>3. Counted'
  BY DEF Arrive, TypeOK, Counted, Sound
<1>. QED  BY <1>1, <1>2, <1>3

(* A call that fails ends its actor and is remembered.                      *)
LEMMA FailInv == ASSUME NEW a \in Actors, Inv, Fail(a) PROVE Inv'
<1>. USE ActorsAssumption DEF Inv, Actors, Steps, NodeRelease, PythonRelease, Over, Is,
                              File, Absent, Up, Releasing, AllWhole, runVars, flags,
                              disk, Go, Languages, Begun
<1>1. TypeOK' /\ Booting' /\ Intact'
  BY DEF Fail, TypeOK, Booting, Intact
<1>2. Unfinished' /\ Alone' /\ Paired'
  BY DEF Fail, TypeOK, Booting, Unfinished, Alone, Paired
<1>3. Counted'
  BY DEF Fail, TypeOK, Booting, Counted, Sound
<1>. QED  BY <1>1, <1>2, <1>3

(* A file that is removed from outside while nothing is being released ends *)
(* what the runs were promised.                                             *)
LEMMA VanishInv == ASSUME Inv, Vanish PROVE Inv'
<1>. USE ActorsAssumption DEF Inv, Actors, Steps, NodeRelease, PythonRelease, Over, Is,
                              File, Absent, Up, Releasing, AllWhole, runVars, flags,
                              disk, Go, Languages, Begun
<1>1. TypeOK' /\ Booting' /\ Intact'
  BY DEF Vanish, TypeOK, Booting, Intact
<1>2. Unfinished' /\ Alone' /\ Paired'
  BY DEF Vanish, TypeOK, Booting, Intact, Unfinished, Alone, Paired, Releases
<1>3. Counted'
  BY DEF Vanish, TypeOK, Counted, Sound
<1>. QED  BY <1>1, <1>2, <1>3

(* A server that starts again keeps only what is on the disk.               *)
LEMMA RestartInv == ASSUME Inv, Restart PROVE Inv'
<1>. USE ActorsAssumption DEF Inv, Actors, Steps, NodeRelease, PythonRelease, Over, Is,
                              File, Absent, Up, Releasing, AllWhole, runVars, flags,
                              disk, Go, Languages, Begun
<1>1. TypeOK'
  BY DEF Restart, TypeOK, NoJail
<1>2. Booting' /\ Intact' /\ Unfinished' /\ Alone' /\ Paired'
  BY DEF Restart, TypeOK, Booting, Intact, Unfinished, Alone, Paired
<1>3. Counted'
  BY DEF Restart, TypeOK, Counted, Sound
<1>. QED  BY <1>1, <1>2, <1>3

(* Every step keeps the invariant.                                          *)
LEMMA StepInv == Inv /\ [Next]_vars => Inv'
<1>. SUFFICES ASSUME Inv, [Next]_vars PROVE Inv'
  OBVIOUS
<1>1. CASE UNCHANGED vars
  BY <1>1 DEF vars, disk, runVars, flags, Inv, TypeOK, Booting, Intact, Unfinished,
              Alone, Paired, Counted, Sound, Releases, Releasing, AllWhole, Up
<1>2. CASE Next
  BY <1>2, NodeInv, PythonInv, RunInv, ArriveInv, FailInv, VanishInv, RestartInv DEF Next
<1>. QED  BY <1>1, <1>2

-----------------------------------------------------------------------------
(* Theorems. *)

(* What is on the disk at each step of a starting server and of the repairs *)
(* of its runs (python/setup.go:29-90, nodejs/setup.go:29-105).             *)
THEOREM Invariance == Spec => []Inv
  BY InitInv, StepInv, PTL DEF Spec

(* Every file, every actor's step and every copy in a root is one of those  *)
(* the code knows.                                                          *)
THEOREM TypeCorrect == Spec => []TypeOK
<1>1. Inv => TypeOK
  BY DEF Inv
<1>. QED  BY <1>1, Invariance, PTL

(* A server that is up has all three libraries whole until something        *)
(* outside removes one, and then the repairs of any number of concurrent    *)
(* runs end with a whole library or none, and a Node.js library never       *)
(* without its project, unless two of them met or a call failed             *)
(* (nodejs/setup.go:31, 62, 93).                                            *)
THEOREM RepairsEndWhole == Spec => []RepairIsComplete
<1>1. Inv => RepairIsComplete
  <2>. SUFFICES ASSUME Inv PROVE RepairIsComplete
    OBVIOUS
  <2>. USE DEF Inv, Actors
  <2>1. Up /\ ~damaged => AllWhole
    BY DEF Intact
  <2>2. ASSUME Up, Releasing = {}, ~hit
        PROVE  /\ py.is \in {"absent", "whole"} /\ lib.is \in {"absent", "whole"}
               /\ lib.is = "whole" /\ ~contested => proj.is = "whole"
    BY <2>2 DEF TypeOK, Is, Unfinished, Paired, Releasing, NodeRelease, PythonRelease
  <2>. QED  BY <2>1, <2>2 DEF RepairIsComplete
<1>. QED  BY <1>1, Invariance, PTL

(* A run that began with everything whole reaches its own code, however     *)
(* many others are served and whatever fails in them, unless one of its own *)
(* calls fails or its child starts in the root of another run               *)
(* (nodejs.go:86, temp_dir.go:26-57): a run that has not started its child  *)
(* is ended by a failed call of its own only.                               *)
THEOREM StopsForCauseOnly == Spec => []StopHasCause
<1>1. Inv => StopHasCause
  BY DEF Inv, Counted, Sound, StopHasCause
<1>. QED  BY <1>1, Invariance, PTL
=============================================================================
