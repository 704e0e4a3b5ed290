------------------------------ MODULE Startup -------------------------------
(***************************************************************************)
(* The server from its start to its first run request: the sandbox user     *)
(* (internal/core/runner/init.go), the configuration, the routes, the       *)
(* start-up goroutine and the update ticker (internal/server/server.go),    *)
(* the two limits (internal/middleware/cocrrent.go) and the child of the    *)
(* request, for every file, environment and host.                           *)
(*                                                                          *)
(* A panic of the main goroutine, of the start-up goroutine or of the       *)
(* ticker ends the process; so does the return of r.Run.  The one request   *)
(* runs one child (ChildSetup) under what the configuration says.           *)
(***************************************************************************)
EXTENDS SandboxConfig, ChildSetup

CONSTANTS
    Machines,     \* the machines: a host by its name
    Inputs,       \* records: the file, the environment, the name of the host
                  \* and the set of calls outside the server that fail (broken)
    Unparsable,   \* strings that url.Parse and time.ParseDuration refuse
    NonPositive   \* durations of zero or less

(* Numbers are integers of Go, of which Unset and Junk are none, a list     *)
(* that holds no nonsense is one of Lists, and the default of the interval  *)
(* is positive.                                                             *)
ASSUME InputsAssumption == \A i \in Inputs :
    /\ {i.file.max_workers, i.file.port} \subseteq Int \ {Unset, Junk}
    /\ {i.env.MAX_WORKERS, i.env.SANDBOX_PORT} \subseteq Int
    /\ i.file.readable \in BOOLEAN
    /\ i.file.allowed_syscalls \in Lists
    /\ i.env.ALLOWED_SYSCALLS \in Lists \/ NotANumber \in i.env.ALLOWED_SYSCALLS
    /\ i.env.SYSTEM_LIB_REQUIREMENTS \in Seq(Path)
    /\ i.host \in DOMAIN Machines
ASSUME MachinesAssumption == \A name \in DOMAIN Machines :
    LET machine == Machines[name]
    IN  /\ IsFileSystem(machine) /\ NoPath \notin DOMAIN machine.install
        /\ \A python \in DOMAIN machine.install : IsReport(machine, machine.install[python])
ASSUME SystemAssumption == SystemRequirements \in Seq(Path)
ASSUME DefaultsStandAssumption == {"", "30m"} \intersect NonPositive = {}

VARIABLES
    input,        \* what this start of the server finds
    phase,        \* the main goroutine
    config,       \* the global configuration
    requirements, \* runnerDependencies is not empty
    starter,      \* the start-up goroutine, then the ticker
    strayed,      \* a Node.js run has taken the process's working directory
                  \* away from an installation that had not started pip3
    request,      \* one request to POST /v1/sandbox/run
    descendant    \* a process started by the code holds the child's pipes

serverVars == <<input, phase, config, requirements, starter, strayed, request, descendant>>
vars == <<serverVars, childVars>>

Init ==
    /\ input \in Inputs
    /\ phase = "user"
    /\ config = [ok |-> FALSE]
    /\ requirements = FALSE
    /\ starter = "none" /\ strayed = FALSE
    /\ request = "none" /\ descendant = FALSE
    /\ ChildInit

host == Machines[input.host]
Ports == 0 .. 65535
Broken(call) == call \in input.broken
Up == phase # "down"

(* The user exists or can be added, and has a group. *)
FindUser ==
    /\ phase = "user"
    /\ phase' = (IF Broken("user") THEN "down" ELSE "config")
    /\ UNCHANGED <<input, config, requirements, starter, strayed, request, descendant>>

ReadConfig ==
    /\ phase = "config"
    /\ config' = InitConfig(input.file, input.env, host)
    /\ phase' = (IF config'.ok THEN "log" ELSE "down")
    /\ UNCHANGED <<input, requirements, starter, strayed, request, descendant>>

(* The log file, then the requirements: a file that cannot be read is only  *)
(* logged.  The start-up goroutine begins.                                  *)
OpenLog ==
    /\ phase = "log"
    /\ IF config.LogPath # "" /\ Broken("log")
       THEN phase' = "down" /\ UNCHANGED <<requirements, starter>>
       ELSE /\ phase' = "routes"
            /\ requirements' \in BOOLEAN
            /\ starter' = "install"
    /\ UNCHANGED <<input, config, strayed, request, descendant>>

(* controller.Setup: MaxWorker makes its channel, of any size but a         *)
(* negative one: its elements need no memory.                               *)
SetUpRoutes ==
    /\ phase = "routes"
    /\ phase' = (IF config.MaxWorkers >= 0 THEN "listen" ELSE "down")
    /\ UNCHANGED <<input, config, requirements, starter, strayed, request, descendant>>

(* r.Run returns only when it cannot listen, and nobody reads its error.    *)
Listen ==
    /\ phase = "listen"
    /\ phase' = (IF config.Port \in Ports /\ ~Broken("bind") THEN "serving" ELSE "down")
    /\ UNCHANGED <<input, config, requirements, starter, strayed, request, descendant>>

(* InstallDependencies has nothing to do, or makes its root and takes the   *)
(* working directory of the whole process there ...                         *)
EnterRoot ==
    /\ Up /\ starter = "install"
    /\ starter' = IF requirements THEN "pip" ELSE "prepare"
    /\ UNCHANGED <<input, phase, config, requirements, strayed, request, descendant>>

(* ... and starts pip3 there, which is told "requirements.txt" and finds    *)
(* none in the root of a Node.js run.  Without parsedUrl there is no Host   *)
(* to read.                                                                 *)
Install ==
    /\ Up /\ starter = "pip"
    /\ IF config.PythonPipMirrorURL \in Unparsable \/ Broken("pip") \/ strayed
       THEN phase' = "down" /\ starter' = "dead"
       ELSE starter' = "prepare" /\ UNCHANGED phase
    /\ UNCHANGED <<input, config, requirements, strayed, request, descendant>>

Prepare ==
    /\ Up /\ starter = "prepare"
    /\ IF Broken("copy")
       THEN phase' = "down" /\ starter' = "dead"
       ELSE starter' = "ticker" /\ UNCHANGED phase
    /\ UNCHANGED <<input, config, requirements, strayed, request, descendant>>

(* Mutant: an interval that cannot be read is taken for a fatal error. *)
StartTickerPanics ==
    /\ Up /\ starter = "ticker"
    /\ IF config.PythonDepsUpdateInterval \in NonPositive \union Unparsable
       THEN phase' = "down" /\ starter' = "dead"
       ELSE starter' = "ticking" /\ UNCHANGED phase
    /\ UNCHANGED <<input, config, requirements, strayed, request, descendant>>

(* An interval that cannot be read means no updates; one that is not        *)
(* positive makes time.NewTicker panic.                                     *)
StartTicker ==
    /\ Up /\ starter = "ticker"
    /\ IF config.PythonDepsUpdateInterval \in NonPositive
       THEN phase' = "down" /\ starter' = "dead"
       ELSE /\ starter' = IF config.PythonDepsUpdateInterval \in Unparsable
                          THEN "skipped" ELSE "ticking"
            /\ UNCHANGED phase
    /\ UNCHANGED <<input, config, requirements, strayed, request, descendant>>

(* A run request that passes Auth meets MaxRequest ... *)
Arrive ==
    /\ phase = "serving" /\ request = "none"
    /\ request' = IF config.MaxRequests > 0 THEN "waiting" ELSE "refused"
    /\ UNCHANGED <<input, phase, config, requirements, starter, strayed, descendant>>

(* Mutant: one slot is kept free. *)
GetSpareWorker ==
    /\ phase = "serving" /\ request = "waiting"
    /\ config.MaxWorkers > 1
    /\ request' = "working"
    /\ UNCHANGED <<input, phase, config, requirements, starter, strayed, descendant>>

(* ... and MaxWorker.  Nobody receives from a channel without a buffer.     *)
GetWorker ==
    /\ phase = "serving" /\ request = "waiting"
    /\ config.MaxWorkers > 0
    /\ request' = "working"
    /\ UNCHANGED <<input, phase, config, requirements, starter, strayed, descendant>>

(* checkOptions: the client asks for the network and the operator has not   *)
(* enabled it.                                                              *)
Refused(network) == network /\ ~config.EnableNetwork

(* The service refuses, or the runner starts the child with the configured  *)
(* list in its environment, a Node.js one after os.Chdir to its root.       *)
RunCode(lang, network) ==
    /\ phase = "serving" /\ request = "working"
    /\ IF Refused(network)
       THEN request' = "answered" /\ UNCHANGED <<strayed, childVars>>
       ELSE /\ request' = "running"
            /\ strayed' = IF lang = "nodejs" /\ starter = "pip" THEN TRUE ELSE strayed
            /\ Fork([lang |-> lang, list |-> config.AllowedSyscalls, network |-> network])
    /\ UNCHANGED <<input, phase, config, requirements, starter, descendant>>

ChildRuns == request = "running" /\ (ChildStep \/ ChildEnds) /\ UNCHANGED serverVars

(* The timer kills the child.  One of no time may fire before the child is  *)
(* started, and then there is no limit.                                     *)
TimeoutEnds == request = "running" /\ config.WorkerTimeout > 0 /\ ChildEnds /\ UNCHANGED serverVars

(* The code starts a process of its own, which inherits stdout and stderr   *)
(* and which the timer does not kill ...                                    *)
Descend ==
    /\ phase = "serving" /\ request = "running"
    /\ at = "code" /\ "clone" \in made
    /\ descendant' = TRUE
    /\ UNCHANGED <<input, phase, config, requirements, starter, strayed, request>>

(* ... and which ends when it likes. *)
DescendantEnds ==
    /\ descendant /\ descendant' = FALSE
    /\ UNCHANGED <<input, phase, config, requirements, starter, strayed, request>>

(* CaptureOutput waits for the end of both pipes, then for the child.       *)
EndRun ==
    /\ phase = "serving" /\ request = "running"
    /\ at \in {"stopped", "ended"} /\ ~descendant
    /\ request' = "answered"
    /\ UNCHANGED <<input, phase, config, requirements, starter, strayed, descendant>>

MainStep == FindUser \/ ReadConfig \/ OpenLog \/ SetUpRoutes \/ Listen
StarterStep == EnterRoot \/ Install \/ Prepare \/ StartTicker
Next ==
    \/ (MainStep \/ StarterStep \/ Arrive \/ GetWorker \/ EndRun) /\ UNCHANGED childVars
    \/ (Descend \/ DescendantEnds) /\ UNCHANGED childVars
    \/ \E lang \in Languages, network \in BOOLEAN : RunCode(lang, network)
    \/ ChildRuns

(* The goroutine of a request runs on, and so does the timer; nobody has to *)
(* send a request, and neither a child nor a descendant of it has to end by *)
(* itself.                                                                  *)
Spec ==
    /\ Init /\ [][Next]_vars
    /\ WF_vars(GetWorker /\ UNCHANGED childVars)
    /\ WF_vars(\E lang \in Languages, network \in BOOLEAN : RunCode(lang, network))
    /\ WF_vars(TimeoutEnds)
    /\ WF_vars(EndRun /\ UNCHANGED childVars)

-----------------------------------------------------------------------------
(* What the operator has given, told from the inputs alone. *)

Given(v, cur) == IF v = Unset THEN cur ELSE v
GivenWorkers == Given(input.env.MAX_WORKERS, input.file.max_workers)
GivenTime == Given(input.env.WORKER_TIMEOUT, input.file.worker_timeout)
GivenPort == Given(input.env.SANDBOX_PORT, input.file.port)
GivenMirror == IF input.env.PIP_MIRROR_URL # "" THEN input.env.PIP_MIRROR_URL
               ELSE input.file.python_pip_mirror_url
GivenInterval == IF input.env.PYTHON_DEPS_UPDATE_INTERVAL # ""
                 THEN input.env.PYTHON_DEPS_UPDATE_INTERVAL
                 ELSE input.file.python_deps_update_interval

(* The interpreter the operator has named, as it reports itself when no     *)
(* variable redirects it.                                                   *)
Named == IF input.env.PYTHON_PATH # NoPath THEN input.env.PYTHON_PATH
         ELSE IF input.file.python_path # NoPath THEN input.file.python_path
         ELSE DefaultPython
Program == IF IsAbs(Named) THEN Clean(Named)
           ELSE IF Named \in DOMAIN host.lookPath THEN host.lookPath[Named] ELSE NoPath
IsInterpreter ==
    /\ Program \in DOMAIN host.install
    /\ host.install[Program].runs
    /\ ~IsAbs(Named) \/ (Named \in DOMAIN host.kind /\ host.kind[Named] = "program")
Reported == host.install[Program]
Existing(paths) == {p \in paths : IsAbs(p) /\ p \in DOMAIN host.files}
RealPath(p) == IF p \in DOMAIN host.files THEN host.files[p] ELSE p

(* Directories and zip files of the interpreter's own standard library. *)
OwnRoots ==
    LET dirs == Existing({Reported.stdlib, Reported.platstdlib})
    IN  dirs \union {z \in Existing(ToSet(Reported.sysPath)) :
                        Last(z) \in Zips /\ \E d \in dirs : Front(RealPath(z)) = Front(RealPath(d))}

Discoverable ==
    /\ IsInterpreter
    /\ Existing({Reported.stdlib}) # {}
    /\ IsAbs(Reported.json)
    /\ \E root \in OwnRoots : \E name \in {Clean(root), RealPath(root)} :
          JsonUnder(RealPath(Reported.json), name)

-----------------------------------------------------------------------------
(* Properties. *)

(* InitConfig accepts an interpreter exactly when json is part of its own   *)
(* standard library (python_lib_discovery.go:166-169): not a package of     *)
(* that name in site-packages or in PYTHONPATH, and not a zip file from     *)
(* elsewhere, but through symbolic links and from a standard library zip.   *)
DiscoveryDecides ==
    phase \notin {"user", "config"} /\ "PythonPath" \in DOMAIN config =>
        (config.PythonLibPaths # <<>> <=> Discoverable)

(* The list that is copied into the sandbox names existing, clean, absolute *)
(* paths, none twice, under the names the interpreter uses: all it searches *)
(* and one that holds json (python_lib_discovery.go:170-172, 201-204).      *)
LibPathsUsable ==
    phase \notin {"user", "config"} /\ config.ok =>
        LET paths == config.PythonLibPaths
        IN  /\ \A i, j \in DOMAIN paths : paths[i] = paths[j] => i = j
            /\ \A i \in DOMAIN paths : Clean(paths[i]) = paths[i] /\ Existing({paths[i]}) # {}
            /\ {Clean(p) : p \in Existing(ToSet(Reported.sysPath) \union {Reported.stdlib})}
                 \subseteq ToSet(paths)
            /\ \E i \in DOMAIN paths : JsonUnder(RealPath(Reported.json), RealPath(paths[i]))
                                       \/ JsonUnder(Reported.json, paths[i])

(* Reasons for which the server may not come up or may go down again: all   *)
(* but the last are told from the inputs, that one is a Node.js run served  *)
(* while the installation is between its Chdir and its pip3.  The libraries *)
(* the runners' packages release in their init functions are not among      *)
(* them: LibRelease says when those end the process.                        *)
Fatal ==
    \/ Broken("user") \/ Broken("bind") \/ Broken("copy")
    \/ Broken("log") /\ input.file.log_path # ""
    \/ ~input.file.readable
    \/ ~Discoverable
    \/ NotANumber \in input.env.ALLOWED_SYSCALLS
    \/ GivenWorkers # Junk /\ GivenWorkers < 0
    \/ GivenPort # Junk /\ GivenPort \notin Ports
    \/ requirements /\ (Broken("pip") \/ GivenMirror \in Unparsable)
    \/ strayed
    \/ GivenInterval \in NonPositive

(* The process ends for one of these reasons only, and with none of them    *)
(* left it serves with the start-up goroutine through: every other value,   *)
(* a number or an interval that cannot be read included, is survived, and   *)
(* so is every run served during the installation but that one              *)
(* (server.go:15-40, 77-92, cocrrent.go:12, setup.go:127-130).              *)
DownIffFatal ==
    /\ phase = "down" => Fatal
    /\ phase = "serving" /\ starter \in {"skipped", "ticking"} => ~Fatal

(* A request that is let in gets its worker and an answer if the operator   *)
(* has given a number of workers and a time above zero, however long its    *)
(* code runs, unless a process that code has started holds its pipes for    *)
(* ever: the timer kills the child alone, the answer waits for the end of   *)
(* both pipes (output_capture.go:110-119, 193), and only a list that grants *)
(* clone lets the code start one.  MAX_WORKERS that cannot be read counts   *)
(* as zero, and then it waits for ever (config.go:43-46, 59-62,             *)
(* cocrrent.go:14-17).                                                      *)
RequestSettles ==
    request = "waiting" /\ GivenWorkers > 0 /\ GivenTime > 0
        ~> request = "answered" \/ ~Up \/ []descendant
=============================================================================
