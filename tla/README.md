# A TLA+ model of dify-sandbox

dify-sandbox is an HTTP server that runs untrusted Python and Node.js code. Each
run gets a UID of its own, a child process confined by chroot and seccomp, and a
timeout; the response carries what the child wrote and how it ended. These
modules model how the server gets from a request to that response: they are
translated from the Go code under `src/`, checked by TLC on small instances and,
where marked, proved with TLAPS for every instance.

1. [The system](#1-the-system)
2. [Modules](#2-modules)
3. [What the runs check](#3-what-the-runs-check)
4. [Where the code and its documentation disagree](#4-where-the-code-and-its-documentation-disagree)
5. [Fairness](#5-fairness)
6. [What is proved](#6-what-is-proved)
7. [What is left out](#7-what-is-left-out)
8. [Plan](#8-plan)

## 1. The system

A request passes `Auth`, `MaxRequest`, `MaxWorker`, the controller, a service and
a runner; the runner starts one child and `CaptureOutput` follows it to its end.

    client -> Auth -> MaxRequest -> MaxWorker -> RunSandboxController
                      (counter)     (semaphore)        |
                                              RunPython3Code / RunNodeJsCode
                                                       |
              UIDPool <-- AcquireUID / ReleaseUID -- Run ---- WithTempDir
                                                       |      (os.Chdir: whole process)
                                                 CaptureOutput
                      timer, two readers, one waiter --+-- child process
                             |  stdout, stderr, execError, done
                             v
                   collectRunCodeResponse -> response

| Component (source under `src/`) | State it keeps | Operations | What is hard |
|---|---|---|---|
| Output capture (`internal/core/runner/output_capture.go`, `internal/service/run_code.go`) | exit code, four unbuffered channels, one timer, two pipes, a child | `CaptureOutput`, its timer callback, two readers and waiting goroutine, `collectRunCodeResponse` | seven concurrent actors per run; a timer racing the end of the child; a buffer shared between a reader and the collector; end of output before end of process |
| UID pool (`internal/core/runner/uidpool/uid_pool.go`) | a channel of free UIDs | `Acquire`, `Release` | a UID shared or lost; a receiver that waits for ever; a send that blocks |
| Limits (`internal/middleware/cocrrent.go`) | a counter under a lock, a channel as semaphore | `MaxRequest`, `MaxWorker` and their deferred calls | exact admission, order of release, waking the right request |
| Route, services (`internal/controller`, `internal/service`) | none of their own | `POST /v1/sandbox/run`, the dependency routes, `/health` | every error path must undo what was done |
| Runners (`internal/core/runner/python/python.go`, `nodejs/nodejs.go`, `temp_dir.go`) | the bootstrap file or root directory of a run, the working directory of the process | `Run`, `InitializeEnvironment`, `WithTempDir`, the exit hook | who owns UID and files while something can still fail; `os.Chdir` is process-wide |
| Python dependencies (`python/setup.go`, `env.go`, `dependencies`, `internal/server/server.go`) | a map of preload scripts, `requirements.txt`, the installed packages, temporary roots | start-up goroutine, ticker, `update`, `refresh`, `list` | runs served during the installation, several installations at once, relative paths while others change the working directory |
| Library release (`python/setup.go`, `nodejs/setup.go`, `temp_dir.go`) | `python.so`, `nodejs.so` and the Node.js project on disk | the `init` functions, `checkLibAvaliable`, `releaseLibBinary` | check-then-write by concurrent requests; leftovers of an earlier server; a removal whose error is ignored |
| Start-up (`internal/core/runner/init.go`, `internal/server/server.go`, `controller.Setup`) | the phase of the main goroutine, the start-up goroutine, the ticker | `Run`, `initConfig`, `initDependencies` | which value of the configuration ends the server, and when |
| Child set-up (`internal/core/lib`, `prescript.py`, `prescript.js`) | credentials, root, filter of the child | `InitSeccomp` | order and partial failure; a filter program of at most 4096 bytes; a list that forbids what is still to be done |
| Configuration (`internal/static/config.go`) | one global record, written once | `InitConfig` | precedence and values that do not parse |
| Library discovery (`internal/static/python_lib_discovery.go`) | none | the Python script and the checks of its output | links, zip files, a `json` from elsewhere, an environment that redirects the interpreter |
| Tracing, logging (`internal/utils/log`, `internal/middleware/trace.go`) | identifiers in a context | parse and print | a malformed `traceparent` |

What makes each modelled component correct:

* *Output capture*: nothing the child wrote to stdout is lost; the exit hook,
  which frees the UID and the files, runs exactly once and only after the child
  has ended; a kill is reported as a timeout; every launched run is answered.
* *UID pool*: a UID has one holder at a time, none disappears, nobody waits while
  one is free, the order of waiting is kept, `Release` never blocks.
* *Python dependencies*: what is listed is installed unless `pip3` read a file that was not yet
  written, what start-up promises is in the sandbox but for the copies whose failure `env.sh` does
  not report, every handler answers.
* *Library release*: a server that is up has whole libraries; a repair ends with a whole
  library; a run that began with whole libraries reaches its code, whatever other runs do or fail to do.
* *Start-up, configuration, discovery*: the interpreter is accepted exactly when its own
  standard library holds `json`; the server goes down for the known reasons only; a request
  that is let in is answered when the numbers allow it, unless a process its code has started
  holds its pipes for ever.
* *Child set-up*: client code runs only in a completely confined process, and a sound list
  of system calls never stops a child before its code.
* *Limits*: the counter is the number of requests inside, at most `max_workers`
  are in the handler, and a slot goes to the request that waited longest.
* *Service and runners*: while a child runs, and until the removal of its files has been
  tried, nobody else can get its UID; on every return path the UID is back and the removal tried
  before the client has its response; every request leaves, and while one waits somebody who holds a
  slot goes on.

`PROJECT.json` lists the hazards line by line, with the properties that cover
them.

## 2. Modules

| Module | Models | Correspondence |
|---|---|---|
| `RunContract` | what one run promises to the runner that launched it (abstract) | refused, or launched, ended, settled (exit hook called once) and answered, in that order |
| `OutputCapture` | `CaptureOutput` and `collectRunCodeResponse` | one variable per goroutine for its location (`caller`, `timer`, `reader`, `waiter`, `collector`), `exitCode` for the field under the lock, `got`/`gotErr` for the string builders. A send on an unbuffered channel is one step with its receive; a goroutine at location `send` is parked on it |
| `OutputCaptureProofs` | the inductive invariant of `OutputCapture` and its theorems | see section 6 |
| `UidLease` | what the pool promises (abstract) | one holder per UID, at most one UID per client |
| `UidPool` | `UIDPool` | `avail` is the buffer of the channel, `waiting` its queue of parked receivers, `lease` the value a client received |
| `UidPoolProofs` | the theorems of `UidPool` | see section 6 |
| `Limits` | `MaxRequest` and `MaxWorker` | `current` is the counter; `working` the tokens in the channel, `parked` its queue of parked senders; `leaving` a request between its two deferred calls |
| `LimitsProofs` | the theorems of `Limits` | see section 6 |
| `SandboxService` | the route, the handlers and both runners | composes `Limits`, `UidPool` and one `RunContract` per request; `pc` is the location of the request's goroutine, `uid` the local variable of `Run`, `files` the bootstrap file or root of a run, `cwd` the process's working directory |
| `SandboxServiceProofs` | the theorems of `SandboxService`, on top of those of `Limits` and `UidPool` | see section 6 |
| `MCSandboxService` | the symmetry set of `SandboxService` | |
| `Dependencies` | `InstallDependencies`, `PreparePythonDependenciesEnv`, the start-up goroutine, the update ticker, the dependency routes, and a Node.js run as another user of `WithTempDir`; `env.sh` | `pc` is the location of each job's goroutine, `task` what it has called, `dir` the working directory of the process, `listed` the keys of the preload map, `filed` the roots that hold a `requirements.txt`, `filled` those where it has been written; `misled` and `missed` record a `pip3` that read an unwritten file and a package whose last copy failed |
| `DependenciesProofs` | the theorems of `Dependencies` | see section 6 |
| `MCDependencies` | the requirements file used in `dependencies` | |
| `LibRelease` | both `releaseLibBinary` functions, called by `init` and by runs; `WithTempDir`'s copy; the directory and the load of a child | `pc` is the step of the starting server (`Boot`) and of every run; `py`, `lib` and `proj` are the files with how much of them is there (`is`) and whose write is the last (`by`); `jail` is the copy a Node.js run has made |
| `LibReleaseProofs` | the theorems of `LibRelease` | see section 6 |
| `MCLibRelease` | the symmetry set of `LibRelease` | |
| `LibDiscovery` | `python_lib_discovery.go`: the script, `resolvePythonPath`, `buildPythonLibPaths`, `normalizeAbsolutePath` | pure operators over paths (sequences of names) and a host (files and links, interpreters, environment) |
| `LibDiscoveryProofs` | what the operators of `LibDiscovery` compute, for inputs of every size | see section 6 |
| `SandboxConfig` | `InitConfig` | an operator from file, environment and host to the global record |
| `SyscallFilter` | the amd64 lists, the choice among them, `Seccomp` | operators: what a loaded filter answers to a call (`Verdicts`), whether its program fits (`Fits`) |
| `ChildSetup` | `DifySeccomp`, `InitSeccomp`, the prescripts | `at` is the next step of the child, `held` the restrictions in force, `made` the calls its code got through |
| `Startup` | the sandbox user, `initConfig`, `controller.Setup`, `r.Run`, the start-up goroutine up to the ticker, and one run request | composes `SandboxConfig` (the configuration it reads) and `ChildSetup` (the child its request runs); `phase` is the main goroutine, `starter` the start-up goroutine; `strayed` records a Node.js run that changed the working directory between the installation's `os.Chdir` and its `pip3`, `descendant` a process of the code that holds the child's pipes |
| `StartupProofs` | the theorems of `ChildSetup` and of `Startup`, on top of those of `LibDiscovery` | see section 6 |
| `MCStartup` | the machines, files and environments of `startup` | |

Some modelling decisions:

* **Chunks.** A chunk is what one `Read` returns. Chunks are numbered in the order
  the child writes them, so that loss, reordering and alteration show. The stdout
  reader makes a buffer per `Read`, the stderr reader one for the whole stream;
  the collector receives a *slice* of it and copies later, which is why
  `RecvStderr` and `CopyStderr` are two steps. A buffer overwritten during the copy
  gives the new chunk or a mixture (`Torn`).
* **Exit status.** The four ends of a child (`ok`, `fail`, `sigsys`, `sigkill`) are
  the ones the code tells apart.
* **Channels.** Go serves the parked goroutines of a channel in order, and hands a
  value to a parked receiver directly: `Release` of `UidPool` and `Leave` of `Limits`
  are one step for that reason.
* **Contexts.** `UidPool` models the whole of `Acquire`, the end of its context
  included. The context the runner receives is the `gin.Context` itself; with gin
  1.10 its `Done` channel is nil unless the engine enables
  `ContextWithFallback`, which this server does not. `SandboxService` therefore
  instantiates the pool with nobody cancelled: a request that waits for a UID waits
  until it gets one, and the reply -429 is never sent.
* **Panics.** `releaseLibBinary` panics when a library cannot be written. The
  deferred calls of the middlewares and of `WithTempDir` run and `gin.Recovery`
  answers 500; nothing gives the UID back. `MayPanic` switches this on.
* **Requirements.** A line of `python-requirements.txt` is the name it is split into.
  `pip3` ignores a comment line; `ExtractOnelineDepency` takes it for a package name, so it is
  listed (`Comments`); a blank line is skipped (`Blank`). Versions are left out: the list is keyed by name.
  The requirements may be empty, because an unreadable file is only logged.
* **Temporary roots.** `os.Mkdir` and `os.Chdir` of `WithTempDir` are one step
  (`EnterRoot`), between which nothing reads the directory; what matters is that another job's
  `EnterRoot` may come before `pip3` or the child is started. `WithTempDir` never changes back.
* **The requirements file in two steps.** `os.WriteFile` (`setup.go:113`) opens, which makes the file or empties it,
  and then writes. Between the two another job's `pip3` that was started in that root reads an empty file, reports
  success, and that job lists packages nobody has installed (`PipReadsPart`, `misled`). `ListedIsInstalled` says that
  this is the only way, and that nobody is misled by a file of its own.
* **Copies that fail unseen.** `env.sh` has neither `set -e` nor `pipefail`: the loop goes on after a file it could not
  copy (`CopyMisses`), and its exit status is that of the last file (`CopyFails`, which `env.go:43` sees). `missed` records the
  packages whose last copy failed, and `SandboxHasRequirements` promises the others.
* **Removals whose error is ignored.** `os.Remove` and `os.RemoveAll` of the exit hooks, of the error paths and of
  the installation may leave everything behind (`Remove`, `RemoveFails`), and the code goes on as if they had not:
  the UID is released and the reply sent. `unremoved` records it. A file left behind belongs to whoever gets the UID
  next, so the properties speak of files until their removal has been tried.
* **Pipes held by descendants.** The answer waits for the end of both pipes and then for the child
  (`output_capture.go:193`), and the timer kills the child alone. In `Startup` code that got through `clone`, which
  only a list of the operator grants, may leave a process behind that holds the pipes for as long as it likes
  (`Descend`); `RequestSettles` excepts the requests this happens to for ever. In `OutputCapture`, `MayFork` does the same.
* **Ends of a run.** `LibRelease` tells apart a run that a failed call of its own ends (`failed`), one that is stopped by
  what others have left on the disk before its child is started (`stopped`), and one whose child finds no
  library (`lost`), so that `StopHasCause` excuses a run by what happened to that run only.
* **A swallowed error.** When `requirements.txt` cannot be written,
  `InstallDependencies` returns nil. `skipped` records the jobs this happened to; the
  properties of a finished installation except them.
* **The timer's early return.** A callback that finds `cmd.Process == nil` returns,
  and that run has no timeout any more. `EarlyTimer` switches it on; it needs a
  timeout that passes before the child is started.
* **Files that are written by two.** `os.WriteFile` truncates and then writes, which are two steps
  of `LibRelease` too. A file is whole once its last writer has written; the write of an earlier writer
  goes to a file that is gone, or is done over. `RemoveAll` is one step that may leave a part
  or all behind, for its error is ignored.
* **Contested repairs.** When two Node.js repairs overlap, one removes or creates the
  directories of the other. `contested` records it. Then `nodejs.so` may stand whole without its
  project, and no later run repairs that, because `checkLibAvaliable` asks for the library only
  (`nodejs/setup.go:93`); `RepairIsComplete` states what holds without such a meeting.
* **Paths.** A path is the sequence of its names, so that `Clean`, prefixes and suffixes are real
  operations on it. A host maps each existing path to the path it resolves to. The loops that copy some
  elements of a list are `Keep`, a recursive function that selects the elements of a set.
* **Machines and interpreters.** `IsFileSystem` says what every file system guarantees: a real path is absolute and
  goes through no link. `IsReport` says what CPython guarantees: `sysconfig` and `site` report
  normalised paths, so that cleaning a path once more does not change the file it names. (It
  could: `x/..` is not the directory of `x` when `x` is a link.) Every machine of `MCStartup` is of
  this kind, which TLC evaluates as `MachinesAssumption`.
* **Configuration values.** A number that cannot be parsed is `Junk` and becomes 0, as
  `x, _ = strconv.Atoi(v)` makes it. Proxies given in the file are used even when the network is
  disabled, those of the environment are not; a custom list of system calls drops Node.js's
  list of calls that are answered with an error, but not Python's.
* **A filter that is too long.** A program is read with one `Read` of 4096 bytes; one that is cut
  off ends in the middle and the kernel refuses it. `Fits` compares the number of rules with
  `MaxRules` in place of bytes.
* **Preload.** With `enable_preload` the preload of a client runs before the child confines
  itself. `ChildSetup` takes it to be off, as `conf/config.yaml` has it.
* **Mutants.** Definitions whose comment begins with "Mutant:" are not part of the
  model. Each is a plausible fault in the definition that follows it, and
  `PROJECT.json` names the property that catches it.

## 3. What the runs check

| Run | Module, configuration | Question and bounds |
|---|---|---|
| `capture_safety` | `OutputCapture`, `OutputCapture_safety.cfg` | All safety properties of a run, with every call failing whenever it likes, an early timer and descendants that keep pipes open. Two chunks per stream and a pipe that holds one: the second chunk is needed for a buffer to be overwritten, the full pipe for a child that is killed while it is blocked. 334,948 states |
| `capture_liveness` | `OutputCapture`, `OutputCapture_liveness.cfg` | `Process.Wait` does not fail, no early timer, no descendants: `OutputCapture` implements `RunContract` with its fairness, so every run is decided (`KeepsContract`, `DecidesEveryRun`) |
| `pool` | `UidPool`, `UidPool.cfg` | Five clients, two UIDs: up to three clients wait, in every order, with contexts ending at any time |
| `limits` | `Limits`, `Limits.cfg` | Five requests, four admitted, two workers: two requests are parked, so that an order can be violated, and one is refused |
| `service_safety` | `MCSandboxService`, `SandboxService_safety.cfg` | Three requests, two admitted, two UIDs, any call fails or panics, any file may refuse to be removed. After a panic one UID is left for two workers. Deadlock is not checked: with all UIDs lost the server really stops serving. 501,816 states |
| `service_liveness` | `SandboxService`, `SandboxService_liveness.cfg` | Three requests, two workers, one UID, no failure: one request waits at the semaphore and one at the pool, every request leaves (`EveryRequestLeaves`), and whenever one waits in either queue another holds a slot and waits in neither (`SomebodyGoesOn`). 17,371 states |
| `dependencies` | `MCDependencies`, `Dependencies.cfg` | Two packages, a comment line and a blank line; start-up, one tick, one request to any dependency route and one Node.js run, in every order, any file operation, `pip3` or `env.sh` failing. Two installations meet (start-up or ticker against the handler), each with the other's and with the run's working directory, and one may read the file the other has opened and not yet written. 589,137 states |
| `library_release` | `MCLibRelease`, `LibRelease.cfg` | A server that starts over anything an earlier one left, is killed and restarted anywhere, and loses a library once (`Vanish`) in a life; two runs of any language. Two are enough for two repairs to meet, and for one run to repair what another has copied; a run that is over may be taken up again as a new one. 370,623 states |
| `startup` | `MCStartup`, `Startup.cfg` | One machine with an interpreter for every way a standard library can be laid out, and files and environments that differ from a working configuration in one or two values; one run request with its child. `MaxRules` is 68, exactly what Python's default list with the network needs: one more rule is refused, and no default list is. The lists of an operator are none, a good one that also grants `clone`, so that the code leaves processes behind, one without `setuid`, and one with too many calls. Deadlock is not checked: the server goes down. 102,700 states |
| `capture_stderr`, `capture_success`, `service_workdir` | | see section 4 |

Three requests are enough for `SandboxService` because its requests meet only in
the limits, in the pool and in the working directory, and any disagreement between
two of them needs at most a third one that waits; `Limits` and `UidPool` are checked
with five on their own. Symmetry over the requests is used in `service_safety` only,
where no property distinguishes one request from another and none is a liveness
property.

The properties, and the line of the code each one is about, are stated in the
comments of the modules. The ones that say most:

* `StdoutExact`, `StderrSlipsByOne` (`OutputCapture`): a response without a read
  error holds every stdout chunk in order; its stderr has the right number of chunks, each exact
  or confused with its successor, and the last exact. The order "readers, then
  `Process.Wait`, then `done`" is what makes it true.
* `HookReleasesOnce`, `KillIsReported`: the exit hook and the report of a timeout
  against all interleavings of timer, child and waiting goroutine.
* `KeepsContract`: everything the runners rely on when they hand UID and files to
  the exit hook. It fails when `Process.Wait` fails: the hook then frees the UID
  while the child may still run. That is why the run and the theorem assume
  that it does not; the operating system gives it no reason to.
* `UidOutlivesRun`, `RunsApart`, `UidAccounted`, `ReplyAfterCleanup`, `RestoredWhenIdle`
  (`SandboxService`): the ownership discipline over all return paths of `Run`, removals that
  fail included.
* `SomebodyGoesOn`: the semaphore and the pool never block each other; only a worker channel without room
  and a pool that panics have emptied leave everybody waiting.
* `UidAlwaysThere`: with no more workers than UIDs the worker limit keeps a run from
  ever waiting for a UID, as long as no run has panicked.
* `ListedIsInstalled`, `SandboxHasRequirements`, `CrashHasCause` (`Dependencies`): what
  the list and the end of start-up promise, although `pip3` may read another job's
  file, a file not yet written or none, and `env.sh` may leave files out. The last one names the only way in which start-up can end the
  server although none of its own calls has failed: another job changed the working directory.
* `KeepsLease` (`UidPool`): the pool implements `UidLease`.
* `RepairIsComplete`, `StopHasCause` (`LibRelease`): what start-up and concurrent repairs leave
  on the disk, and that nothing other runs release, remove or fail to do takes the library from a run.
* `DiscoveryDecides`, `LibPathsUsable` (`Startup`): the discovery against a definition that is
  stated from the inputs alone, which does not follow the steps of the script.
* `DownIffFatal` (`Startup`): the complete list of reasons for which the server goes down, in both
  directions, a run served at the wrong moment of the installation among them; `RequestSettles` says
  which numbers let a request be answered, and what alone can keep its answer back.
* `CodeIsConfined`, `StopsForCause` (`ChildSetup`): no order of failures lets code run with
  a restriction missing, and no sound list stops a child. Which directory a Node.js child is confined
  to is not part of them: with two runs it may be the other one's (`NodeStartsInItsRoot`, section 4).

## 4. Where the code and its documentation disagree

Three runs state what a comment or the README says and are expected to fail.

| Run | Statement | What the counterexample shows |
|---|---|---|
| `capture_stderr` | "stderr carries the user/runtime stderr stream exactly as emitted by the process" (`output_capture.go:15-16`) | the stderr reader reads the next chunk into the buffer the collector still copies from (`output_capture.go:170`): the first chunk is lost, the second appears twice |
| `capture_success` | "Successful executions keep Error empty" (`run_code.go:19`) | the timer callback is between its two steps when the child ends by itself: exit code 0 and "error: timeout" in one response (`output_capture.go:208`) |
| `service_workdir` | a sandbox for "a multi-tenant environment" (`README.md:3`), whose `prescript.js:5` loads its library relative to its directory | `os.Chdir` of a second Node.js run falls between `os.Chdir` and `cmd.Start` of the first: the child starts in the other run's root (`nodejs.go:86`, `temp_dir.go:54`) |

## 5. Fairness

`OutputCapture`: every goroutine that can run is run, armed timers expire, a `Read` or a
`Wait` that can return does, and the collector keeps serving ready channels. Nothing
is assumed of the child or its descendants, and no failing alternative is ever
forced: where a step may succeed or fail, only the success is fair. One fairness condition covers the
collector as a whole, because Go's `select` chooses at random among ready
cases; this is enough because the child writes at most `MaxChunks` chunks. That the
timeout is what bounds a run is checked by the mutant that reports without killing.

`UidPool`: a client that holds a UID releases it (`RunContract` promises that), nobody
has to acquire or to cancel. `Limits` and `LibRelease` are
checked for safety only. `SandboxService`: the goroutine of every request runs on, and every
child ends, which is what `DecidesEveryRun` shows for `OutputCapture`.
`Dependencies`: the goroutine of every job runs on, and `pip3` and `env.sh` end; nobody
has to send a request, no tick has to come, and no run has to start or end.
`Startup`: a parked request that can get a worker gets one, its goroutine runs on, and the
timer of a run expires; nobody has to send a request, and neither a child nor a process its code has
started has to end by itself.

## 6. What is proved

`tlapm` checks every step of the following theorems; they hold for every value of the
constants that satisfies the named assumptions.

| Module | Theorems | Assumptions |
|---|---|---|
| `OutputCaptureProofs` | `TypeCorrect`, `StdoutCorrect`, `StderrBounded`, `HookCorrect`, `KillCorrect`, `StatusCorrect`, `CaptureImplementsContract` | `BoundsAssumption` (any number of chunks, a pipe that holds at least one), `SwitchesAssumption` (the switches are Boolean). The last theorem also assumes `WaitMayFail = FALSE` |
| `UidPoolProofs` | `Invariance`, `TypeCorrect`, `UidsAreSafe`, `WaitingIsNeeded`, `ReleaseIsFree`, `WaitingIsFair`, `WaitersMoveUp`, `WaitersHaveReason`, `PoolImplementsLease` | `RangeAssumption` (`MinUid <= MaxUid`, natural numbers); the set of clients is arbitrary |
| `LimitsProofs` | `Invariance`, `CounterIsExact`, `SlotsAreExact`, `InOrder`, `ParkedMoveUp`, `ParkedHaveReason` | `LimitsAssumption` (finitely many requests; `MaxWorkers` is natural, `MaxRequests` any integer) |
| `SandboxServiceProofs` | `Invariance`, `TypeCorrect`, `UidIsHeldLongEnough`, `NoUidIsLost`, `RepliesComeLast`, `IdleServerIsRestored`, `UidsSuffice`, `NoRunHasAnothersUid`, `ChildrenHaveSlots`, `NoCircularWait`, `RunsKeepContract` | `ServiceAssumption`: the assumptions of `Limits` and `UidPool` about the same constants, and switches that are Boolean |
| `DependenciesProofs` | `Invariance`, `ListIsTrue`, `RefreshIsComplete`, `StartupPrepares`, `RootsAreRemoved`, `CrashIsExplained` | `DependenciesAssumption`: the requirements are a sequence of strings, any comment lines among them; jobs and Node.js runs have different names; the switches are Boolean |
| `LibReleaseProofs` | `Invariance`, `TypeCorrect`, `RepairsEndWhole`, `StopsForCauseOnly` | `ActorsAssumption` (`Boot` and `Nobody` are no runs); any number of runs |
| `LibDiscoveryProofs` | `CleanOnce`, `FinalChecksPass`, `Discovered` | none for the first two; the last is about any host and report that satisfy `IsFileSystem` and `IsReport` |
| `StartupProofs` (`ChildSetup`) | `ChildInvariance`, `ChildTypeCorrect`, `Confinement`, `StopsOnlyForCause` | `ListsAssumption` (finite lists, otherwise arbitrary), `CodeReadsAssumption` (an interpreter reads its code with calls of the default lists), `RulesAssumption`, `DefaultsAssumption` (the default lists fit; only `StopsOnlyForCause` needs it) |
| `StartupProofs` (`Startup`) | `DiscoveryIsExact`, `SandboxHasLibrary`, `DownForListedReasons`, `ServerRunsChild`, `ServerConfinesCode`, `ServerStopsForCause` | `InputsAssumption` (what is given as a number is an integer, and one in the file is not one of the two codes for a missing or unreadable value; a list without nonsense is one of `Lists`; paths hold no "/" after the first name), `MachinesAssumption` (every machine satisfies `IsFileSystem` and every interpreter on it `IsReport`), `SystemAssumption` (the default system paths are paths), `DefaultsStandAssumption` (`30m` is positive); the last two theorems also those of `ChildSetup` |

**Output capture.** None of the safety properties is inductive: whether the stdout in a
response is complete depends on where each of the six goroutines stands. The invariant
`IInv` strengthens them to five parts, each a statement about what a location of one
goroutine implies about the others:

* `TypeOK`;
* `Stages`: what has happened once `waiter` and `collector` have reached each of their
  locations (the child is started before the goroutines, both readers are over before
  `Wait`, the hook is called before `done` is closed), and where a failed `Wait` leads;
* `Streaming`: per stream, the chunks in the builder, with the collector, with the reader
  and in the pipe add up to what the child wrote, in order; for stderr, what the
  buffer holds while the collector copies;
* `Killing`: a kill by the timer implies that the timeout has been reported and that -1
  was stored before, which nothing stores over;
* `Status`: which end of a child goes with which exit code, unless the timer has fired,
  and that a denied system call is reported exactly when there was one.

Every action preserves each part; the properties follow from the conjunction.
`CaptureImplementsContract` maps each step to a step of `RunContract` or to a stutter
under the same invariant; without `WaitMayFail = FALSE` it is false: a failed
`Wait` lets the hook run before the child has ended.

**UID pool.** The conjunction of `TypeOK`, `EveryUidOnce` and `WaitOnlyWhenEmpty` is
inductive as it stands, and neither of the last two is without the other: a release hands its UID
to the head of the queue, which keeps every UID in one place only if that
client has none; and a client at the head has none because whoever
waits does so while the channel is empty. That `Release` finds room is a counting
argument: the buffer holds distinct UIDs, and not the one being released.

**Limits.** `CounterExact` and `SlotsExact` are inductive together with `TypeOK` and `OnePlace`,
that no request is in two places: a slot that is handed on neither gets lost nor counts twice
only because the request at the head of the queue holds none. `InOrder` follows from the
same: of the parked requests only the first can be handed a slot.

**Child set-up.** `CodeIsConfined` speaks of the last step and `StopsForCause` of a child that is
gone, so neither is inductive. The invariant says for every step which restrictions are in
force by then (`HeldSoFar`), that there is no filter before it is loaded, and that every call the
code got through is granted by the list or the network. `StopsOnlyForCause` counts
rules: a custom list gets at most four calls more (`Accepted`), and it lacks none of
those the child still makes (`Allows`).

**Service and runners.** The proof is compositional. The lemmas `LimitStep` and `PoolStep` note that
each step of a request is a step of `Limits` or of `UidPool`, or leaves their variables alone;
the invariants proved in `LimitsProofs` and `UidPoolProofs` therefore hold of the server too
(`LimitInv`, `PoolInv`) and are not proved a second time. What is left is who holds what. `Places`
says it for each location of a request: the slot it has (`SlotPlace`), whether the UID in
its local variable is the one the pool leased to it (`UidPlace`), its files, its child and its
reply. A release wakes another request, so that every step is shown to change
at most the place of the one that takes it, and of the one at the head of a queue only as far as that
one is then the holder (`SlotsElsewhere`, `UidsElsewhere`). The properties need `Places` because a
UID is safe only through the order of the return paths: `UidOutlivesRun` is not inductive, as it does not say
that a request at `return` has no file left. Two theorems count: `IdleServerIsRestored` (with no
lease left the buffer is a bijection with the range of UIDs) and `UidsSuffice` (each holder of a UID
other than the one that asks has a slot of its own, so that there are fewer holders than UIDs).
`NoRunHasAnothersUid` and `ChildrenHaveSlots` say what an operator relies on, two consequences of `Places` with the
invariants of the pool and of the limits: no two runs have the same UID while a child of theirs lives or the removal of their files is still to come, and no more children are
alive than there are workers.

**Dependencies.** What a job has done is known only from where it is: one that registers lines
has seen `pip3` succeed and has registered those before `next` (`JobPlace`), a refresh that is
about to answer has registered all (`HandlerPlace`), and the start-up goroutine that copies has found every
package installed (`StartupPlace`). Other jobs only add to what is installed, listed and in the sandbox
(`Grows`), so that they do not disturb it, although they may change the working directory between any two
steps; but a failed copy of another job may take a package out of the sandbox again, which `missed`
records, and a `pip3` that was misled has installed nothing, so the places of a job hold unless it was. A job whose `pip3` runs has
written its own file, so that only the file of another can mislead it. `ListIsTrue` holds for every requirements file, with lines repeated, blank or commented.

**Library release.** Neither property is inductive: both speak of a disk on which nothing is being released.
`Booting` says what each step of a starting server has made whole; `Intact` that nothing is
released while nothing is missing, which makes the copies of concurrent runs whole; `Unfinished`
that a partial file has a run that will finish it; `Alone` and `Paired` that repairs which do not
meet are one at a time and find what their own steps have left, so that the library never stands without its
project. `Counted` carries a run that began with everything whole from step to step: as long as it is counted
on nothing is released, so that no failure of another run reaches it.

**Library discovery.** `Keep` and `Clean` are recursive functions over sequences, and what they return for
every input needs induction. The induction theorems of the library take an operator as a parameter, which
the provers cannot instantiate; `WFMin`, that a well-founded relation has minimal elements, does
not. From it comes `Least` (a set of numbers that is not empty has a least element), and
`UpTo` (what holds at 0 and passes from each number to the next holds up to `n`) for any *set* of positions.
`Recursion` builds the function a recursive definition asks for, so that `KeepSteps` and `CleanSteps`
can say how each runs from one position to the next. The rest goes up
along the code: what `Keep` returns and that `dedupePaths` drops only repetitions (`Kept`, `Deduped`); that
`Clean` gives a normal path, which a second `Clean` leaves alone (`CleanOnce`), so that the names of the script's
`normpath` are those of Go's `filepath.Clean`; what `buildPythonLibPaths` accepts of *any* result of a script (`Built`),
which roots the script takes, where it finds `json` and what it prints (`DirRoots`, `ZipRoots`, `Home`, `Script`);
and from both what the two accept together (`Discovered`). `FinalChecksPass` shows that the
last two checks of the code never fail, whatever a script prints.

**Start-up.** `DiscoveryIsExact` and `SandboxHasLibrary` follow from `Discovered` and from
`InterpreterIsItsOwn`, that no variable of the server redirects the interpreter. Without `IsReport`
the first is false: the script looks at a path as it is reported and Go at the cleaned one, so that Go refuses
an interpreter whose library exists only under the reported spelling. The
invariant of the server lists the checks that are behind the main goroutine at each phase and behind the
start-up goroutine at each of its steps, and that the configuration is the one `InitConfig` has made of the inputs.
Together with `DiscoveryIsExact` it makes the reasons for which the server goes down
complete in both directions for all inputs (`DownForListedReasons`). A Node.js run can change what the start-up goroutine
depends on at one step only, when it has entered its root and not yet started `pip3`. `ServerRunsChild` shows that the child of a
configured server is a child of `ChildSetup`, with the job that the configuration gives it, so that
`Confinement` and `StopsOnlyForCause` carry over to the server.

**Waiting.** Liveness is out of reach, but what makes it true is mostly safety, and that is proved. In each
queue no step sends anybody back, and each `Release` (of `UidPool`) or `Leave` (of `Limits`) serves the first and moves up all
others (`WaitersMoveUp`, `ParkedMoveUp`); while somebody waits there is a holder who owes that
step (`WaitersHaveReason`, `ParkedHaveReason`). In `SandboxService`, where a request takes a slot and then a UID,
`NoCircularWait` shows that the two queues do not block each other: as long as anybody waits, somebody who holds
a slot waits in neither. The two exceptions are the ones the code has: a worker channel without room and a pool whose UIDs were all lost to
panics. What is left to TLC is that those who do not wait go on and reach their release.

Each inductive invariant was first checked by TLC, as an invariant of the run of its module,
on that run's bounds (`SandboxServiceProofs!Inv` without symmetry on 2,999,856 states, `LibReleaseProofs!Inv` on
370,623, `StartupProofs!ServerInv` on 102,700, `DependenciesProofs!Inv` on 589,137), and so were the
statements on waiting (`WaitersAdvance` on 10,624, `ParkedAdvance` on 936).

Theorems state all the invariants and action properties of the runs. Only model-checked are the
properties under fairness (`DecidesEveryRun`, `EveryRequestLeaves`, `EveryHandlerAnswers`,
`RequestSettles`, `WaiterServed`), which are outside the reach of the prover.

## 7. What is left out

* **Preloads** (`enable_preload`) and the preload scripts of packages: not interpreted.
* **Truncation of a library that a running child has mapped**: `LibRelease` follows a child up to
  the load of its library.
* **Tracing**: `ParseTraceparent` accepts or replaces a header; it is sequential and pure, and
  nothing but the log records depends on it.
* **Logging**, the command-line test programs, `/health`: no state that the modelled parts share.
* **arm64** lists of system calls: the amd64 ones are modelled.
* Within modelled parts: contents of the bootstrap file, the environment and
  arguments of the child, entries in `/etc/passwd`, package versions, the wording of errors.

## 8. Plan

What could be added, in this order:

1. The safety part of `EveryHandlerAnswers`: a job in `Dependencies` waits for nobody, stated without `ENABLED` as a
   condition on the state, as `NoCircularWait` does for `SandboxService`.
2. Preloads: with `enable_preload`, what a client's preload may do before the child confines itself.
3. The arm64 lists of system calls, as a second instance of `SyscallFilter`.
