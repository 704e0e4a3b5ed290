--------------------------- MODULE SandboxService ---------------------------
(***************************************************************************)
(* POST /v1/sandbox/run from its arrival to its response: the middleware   *)
(* chain (internal/controller/router.go, internal/middleware), the handler *)
(* (internal/controller/run.go, internal/service/python.go, nodejs.go) and *)
(* the two runners (internal/core/runner/python/python.go,                 *)
(* nodejs/nodejs.go, temp_dir.go).                                         *)
(*                                                                         *)
(* It composes Limits (the two limits of the route), UidPool (the shared   *)
(* pool) and, per request, RunContract (what CaptureOutput promises).  The *)
(* working directory belongs to the process, so all requests share it.     *)
(*                                                                         *)
(* The context a runner gets is the gin.Context itself, whose Done channel *)
(* is nil: no request of the pool is ever cancelled.                       *)
(***************************************************************************)
EXTENDS Integers, Sequences, FiniteSets

CONSTANTS
    Requests,        \* the requests that arrive
    MaxRequests, MaxWorkers,
    MinUid, MaxUid,
    CallsMayFail,    \* a file operation, os.Pipe or CaptureOutput may fail
    MayPanic         \* releaseLibBinary may panic

(* What Limits and UidPool assume of the same constants, and the switches.  *)
ASSUME ServiceAssumption ==
    /\ IsFiniteSet(Requests) /\ MaxRequests \in Int /\ MaxWorkers \in Nat
    /\ MinUid \in Nat /\ MaxUid \in Nat /\ MinUid <= MaxUid
    /\ {CallsMayFail, MayPanic} \subseteq BOOLEAN

VARIABLES
    pc,        \* per request: its location
    lang,      \* per request: "python3" or "nodejs", "none" before it is bound
    reply,     \* per request: what the client is told
    current, admitted, parked, working, leaving,  \* Limits
    avail, waiting, lease,                        \* UidPool
    uid,       \* per request: Run's local variable uid
    files,     \* requests whose bootstrap file or root directory is in use
    litter,    \* requests whose failed preparation left files behind
    unremoved, \* requests whose files could not be removed
    cwd,       \* the working directory of the server process
    startDir,  \* per request: the working directory its child started in
    run, alive, hooks                             \* RunContract, per request

limitVars == <<current, admitted, parked, working, leaving>>
poolVars == <<avail, waiting, lease>>
runVars == <<run, alive, hooks>>
fileVars == <<files, litter, unremoved>>
dirVars == <<cwd, startDir>>
reqVars == <<pc, lang, reply, uid>>
vars == <<reqVars, limitVars, poolVars, fileVars, dirVars, runVars>>

L == INSTANCE Limits
Pool == INSTANCE UidPool WITH Clients <- Requests, cancelled <- {}
Contract(r) == INSTANCE RunContract WITH
                  phase <- run[r], alive <- alive[r], hooks <- hooks[r]

ServerDir == "server"
Languages == {"python3", "nodejs"}

Init ==
    /\ pc = [r \in Requests |-> "new"]
    /\ lang = [r \in Requests |-> "none"]
    /\ reply = [r \in Requests |-> "none"]
    /\ uid = [r \in Requests |-> Pool!NoUid]
    /\ L!Init
    /\ avail = [i \in 1 .. Pool!Capacity |-> MinUid + i - 1]
    /\ waiting = <<>>
    /\ lease = [r \in Requests |-> Pool!NoUid]
    /\ files = {} /\ litter = {} /\ unremoved = {}
    /\ cwd = ServerDir
    /\ startDir = [r \in Requests |-> ServerDir]
    /\ run = [r \in Requests |-> "idle"]
    /\ alive = [r \in Requests |-> FALSE]
    /\ hooks = [r \in Requests |-> 0]

Go(r, from, to) == pc[r] = from /\ pc' = [pc EXCEPT ![r] = to]
Reply(r, what) == reply' = [reply EXCEPT ![r] = what]

-----------------------------------------------------------------------------
(* The middleware chain. *)

(* Auth: the key in X-Api-Key is not the configured one (401). *)
Unauthorized(r) ==
    /\ Go(r, "new", "done")
    /\ Reply(r, "unauthorized")
    /\ UNCHANGED <<lang, uid, limitVars, poolVars, fileVars, dirVars, runVars>>

(* MaxRequest lets the request in or answers 503. *)
Admit(r) ==
    /\ Go(r, "new", "worker")
    /\ L!TryAcquire(r)
    /\ UNCHANGED <<lang, reply, uid, poolVars, fileVars, dirVars, runVars>>

TooManyRequests(r) ==
    /\ L!Full
    /\ Go(r, "new", "done")
    /\ Reply(r, "busy")
    /\ UNCHANGED <<lang, uid, limitVars, poolVars, fileVars, dirVars, runVars>>

(* MaxWorker: a slot at once, or a place in the queue. *)
WantWorker(r) ==
    /\ pc[r] = "worker"
    /\ L!Enter(r) \/ L!Park(r)
    /\ UNCHANGED <<reqVars, poolVars, fileVars, dirVars, runVars>>

(* The two deferred calls, innermost first; a panic runs them too. *)
LeaveWorker(r) ==
    /\ Go(r, "leave", "leaving")
    /\ L!Leave(r)
    /\ UNCHANGED <<lang, reply, uid, poolVars, fileVars, dirVars, runVars>>

LeaveRequest(r) ==
    /\ Go(r, "leaving", "done")
    /\ L!Release(r)
    /\ UNCHANGED <<lang, reply, uid, poolVars, fileVars, dirVars, runVars>>

-----------------------------------------------------------------------------
(* RunSandboxController and the service. *)

(* BindRequest fails, the language is unknown, or checkOptions refuses the  *)
(* network: -400.                                                           *)
InvalidRequest(r) ==
    /\ r \in working
    /\ Go(r, "worker", "leave")
    /\ Reply(r, "invalid")
    /\ UNCHANGED <<lang, uid, limitVars, poolVars, fileVars, dirVars, runVars>>

StartRun(r, l) ==
    /\ r \in working
    /\ Go(r, "worker", "uid")
    /\ lang' = [lang EXCEPT ![r] = l]
    /\ UNCHANGED <<reply, uid, limitVars, poolVars, fileVars, dirVars, runVars>>

(* Mutant: a UID is handed out and stays in the pool. *)
WantUidPeeks(r) ==
    /\ pc[r] = "uid" /\ lease[r] = Pool!NoUid
    /\ Pool!AcquirePeeks(r) \/ Pool!Park(r)
    /\ UNCHANGED <<reqVars, limitVars, fileVars, dirVars, runVars>>

(* AcquireUID: the receive succeeds or parks the goroutine ... *)
WantUid(r) ==
    /\ pc[r] = "uid" /\ lease[r] = Pool!NoUid
    /\ Pool!Acquire(r) \/ Pool!Park(r)
    /\ UNCHANGED <<reqVars, limitVars, fileVars, dirVars, runVars>>

(* ... and returns once the UID is there. *)
GotUid(r) ==
    /\ Go(r, "uid", "prepare")
    /\ lease[r] # Pool!NoUid
    /\ uid' = [uid EXCEPT ![r] = lease[r]]
    /\ UNCHANGED <<lang, reply, limitVars, poolVars, fileVars, dirVars, runVars>>

-----------------------------------------------------------------------------
(* os.Remove or os.RemoveAll: its error is ignored, what could not be       *)
(* removed stays.                                                           *)
Remove(r) ==
    /\ files' = files \ {r}
    /\ \/ unremoved' = unremoved
       \/ CallsMayFail /\ unremoved' = unremoved \union ({r} \intersect files)
    /\ litter' = litter

(* PythonRunner.InitializeEnvironment. *)

(* The bootstrap file is written and given to the UID. *)
WriteBootstrap(r) ==
    /\ lang[r] = "python3"
    /\ Go(r, "prepare", "ready")
    /\ files' = files \union {r}
    /\ UNCHANGED <<lang, reply, uid, limitVars, poolVars, litter, unremoved, dirVars, runVars>>

(* MkdirAll, WriteFile or chown fails; a file that WriteFile began to write *)
(* is not removed, one that chown refused is, or os.Remove fails as well.   *)
BootstrapFails(r) ==
    /\ CallsMayFail
    /\ lang[r] = "python3"
    /\ Go(r, "prepare", "return")
    /\ litter' \in {litter, litter \union {r}}
    /\ UNCHANGED <<lang, reply, uid, limitVars, poolVars, files, unremoved, dirVars, runVars>>

-----------------------------------------------------------------------------
(* NodeJsRunner: WithTempDir and InitializeEnvironment. *)

MakeRoot(r) ==
    /\ lang[r] = "nodejs"
    /\ Go(r, "prepare", "copy")
    /\ files' = files \union {r}
    /\ UNCHANGED <<lang, reply, uid, limitVars, poolVars, litter, unremoved, dirVars, runVars>>

MakeRootFails(r) ==
    /\ CallsMayFail
    /\ lang[r] = "nodejs"
    /\ Go(r, "prepare", "return")
    /\ UNCHANGED <<lang, reply, uid, limitVars, poolVars, fileVars, dirVars, runVars>>

(* A copy or os.Chdir fails: WithTempDir returns and the root stays. *)
CopyFails(r) ==
    /\ CallsMayFail
    /\ Go(r, "copy", "return")
    /\ files' = files \ {r}
    /\ litter' = litter \union {r}
    /\ UNCHANGED <<lang, reply, uid, limitVars, poolVars, unremoved, dirVars, runVars>>

(* The required files are copied, then os.Chdir(tmpDir): process-wide. *)
ChangeDir(r) ==
    /\ Go(r, "copy", "enter")
    /\ cwd' = r
    /\ UNCHANGED <<lang, reply, uid, limitVars, poolVars, fileVars, startDir, runVars>>

WriteScript(r) ==
    /\ Go(r, "enter", "ready")
    /\ UNCHANGED <<lang, reply, uid, limitVars, poolVars, fileVars, dirVars, runVars>>

ScriptFails(r) ==
    /\ CallsMayFail
    /\ Go(r, "enter", "remove")
    /\ UNCHANGED <<lang, reply, uid, limitVars, poolVars, fileVars, dirVars, runVars>>

(* Mutant: without the deferred removal. *)
PanicsKeepRoot(r) ==
    /\ MayPanic
    /\ \/ lang[r] = "python3" /\ Go(r, "prepare", "leave")
       \/ Go(r, "enter", "leave")
    /\ Reply(r, "panic")
    /\ UNCHANGED <<lang, uid, limitVars, poolVars, fileVars, dirVars, runVars>>

(* checkLibAvaliable fails and releaseLibBinary panics: the deferred        *)
(* removal of the root runs, nothing gives the UID back, gin.Recovery       *)
(* answers 500.                                                             *)
Panics(r) ==
    /\ MayPanic
    /\ \/ lang[r] = "python3" /\ Go(r, "prepare", "leave")
       \/ Go(r, "enter", "leave")
    /\ Reply(r, "panic")
    /\ Remove(r)
    /\ UNCHANGED <<lang, uid, limitVars, poolVars, dirVars, runVars>>

-----------------------------------------------------------------------------
(* The run itself. *)

(* CaptureOutput starts the child: a Python child in LIB_PATH (cmd.Dir), a  *)
(* Node.js child, for which cmd.Dir is empty, where the server happens to be. *)
Launch(r) ==
    /\ Go(r, "ready", "running")
    /\ run' = [run EXCEPT ![r] = "running"]
    /\ alive' = [alive EXCEPT ![r] = TRUE]
    /\ startDir' = IF lang[r] = "nodejs" THEN [startDir EXCEPT ![r] = cwd] ELSE startDir
    /\ UNCHANGED <<lang, reply, uid, limitVars, poolVars, fileVars, cwd, hooks>>

(* os.Pipe or CaptureOutput returns an error. *)
Refuse(r) ==
    /\ CallsMayFail
    /\ Go(r, "ready", "remove")
    /\ run' = [run EXCEPT ![r] = "refused"]
    /\ UNCHANGED <<lang, reply, uid, limitVars, poolVars, fileVars, dirVars, alive, hooks>>

(* Mutant: this error path forgets the files. *)
CleanUpForgets(r) ==
    /\ Go(r, "remove", "return")
    /\ UNCHANGED <<lang, reply, uid, limitVars, poolVars, fileVars, dirVars, runVars>>

(* The error path of Run: the files first, then the UID.                    *)
CleanUp(r) ==
    /\ Go(r, "remove", "return")
    /\ Remove(r)
    /\ UNCHANGED <<lang, reply, uid, limitVars, poolVars, dirVars, runVars>>

(* Mutant: this error path forgets the UID. *)
ReturnUidForgets(r) ==
    /\ Go(r, "return", "leave")
    /\ Reply(r, "error")
    /\ UNCHANGED <<lang, uid, limitVars, poolVars, fileVars, dirVars, runVars>>

(* ReleaseUID, and the -500 response. *)
ReturnUid(r) ==
    /\ Go(r, "return", "leave")
    /\ Pool!Release(r)
    /\ Reply(r, "error")
    /\ UNCHANGED <<lang, uid, limitVars, fileVars, dirVars, runVars>>

ChildEnds(r) ==
    /\ run[r] = "running" /\ alive[r]
    /\ alive' = [alive EXCEPT ![r] = FALSE]
    /\ UNCHANGED <<reqVars, limitVars, poolVars, fileVars, dirVars, run, hooks>>

(* The exit hook, called by CaptureOutput once the child has ended: it      *)
(* removes the bootstrap file or the root, if it can, ...                   *)
HookRemoves(r) ==
    /\ run[r] = "running" /\ ~alive[r]
    /\ r \in files
    /\ Remove(r)
    /\ UNCHANGED <<reqVars, limitVars, poolVars, dirVars, runVars>>

(* Mutant: the hook forgets the UID. *)
HookForgetsUid(r) ==
    /\ run[r] = "running" /\ ~alive[r]
    /\ r \notin files
    /\ run' = [run EXCEPT ![r] = "settled"]
    /\ hooks' = [hooks EXCEPT ![r] = @ + 1]
    /\ UNCHANGED <<reqVars, limitVars, poolVars, fileVars, dirVars, alive>>

(* Mutant: the UID is given back first. *)
HookReleasesFirst(r) ==
    /\ run[r] = "running" /\ ~alive[r]
    /\ Pool!Release(r)
    /\ run' = [run EXCEPT ![r] = "settled"]
    /\ hooks' = [hooks EXCEPT ![r] = @ + 1]
    /\ UNCHANGED <<reqVars, limitVars, fileVars, dirVars, alive>>

(* ... and gives the UID back. *)
HookReleases(r) ==
    /\ run[r] = "running" /\ ~alive[r]
    /\ r \notin files
    /\ Pool!Release(r)
    /\ run' = [run EXCEPT ![r] = "settled"]
    /\ hooks' = [hooks EXCEPT ![r] = @ + 1]
    /\ UNCHANGED <<reqVars, limitVars, fileVars, dirVars, alive>>

(* Mutant: the response does not wait for the hook. *)
AnswerAtOnce(r) ==
    /\ run[r] \in {"running", "settled"} /\ ~alive[r]
    /\ Go(r, "running", "leave")
    /\ Reply(r, "ok")
    /\ run' = [run EXCEPT ![r] = "answered"]
    /\ UNCHANGED <<lang, uid, limitVars, poolVars, fileVars, dirVars, alive, hooks>>

(* collectRunCodeResponse returns. *)
Answer(r) ==
    /\ run[r] = "settled"
    /\ Go(r, "running", "leave")
    /\ Reply(r, "ok")
    /\ run' = [run EXCEPT ![r] = "answered"]
    /\ UNCHANGED <<lang, uid, limitVars, poolVars, fileVars, dirVars, alive, hooks>>

-----------------------------------------------------------------------------

Route(r) == \/ Unauthorized(r) \/ Admit(r) \/ TooManyRequests(r) \/ WantWorker(r)
            \/ LeaveWorker(r) \/ LeaveRequest(r)
Handler(r) == \/ InvalidRequest(r) \/ \E l \in Languages : StartRun(r, l)
              \/ WantUid(r) \/ GotUid(r)
Prepare(r) == \/ WriteBootstrap(r) \/ BootstrapFails(r)
              \/ MakeRoot(r) \/ MakeRootFails(r) \/ CopyFails(r) \/ ChangeDir(r)
              \/ WriteScript(r) \/ ScriptFails(r) \/ Panics(r)
RunStep(r) == \/ Launch(r) \/ Refuse(r) \/ CleanUp(r) \/ ReturnUid(r)
              \/ HookRemoves(r) \/ HookReleases(r) \/ Answer(r)
ServerStep(r) == Route(r) \/ Handler(r) \/ Prepare(r) \/ RunStep(r)

AllDone == \A r \in Requests : pc[r] = "done"

Next == (\E r \in Requests : ServerStep(r) \/ ChildEnds(r)) \/ (AllDone /\ UNCHANGED vars)

Spec == Init /\ [][Next]_vars

(* Every goroutine runs on, and every child ends: the timeout of            *)
(* CaptureOutput sees to it (OutputCapture, DecidesEveryRun).               *)
FairSpec == Spec /\ \A r \in Requests : WF_vars(ServerStep(r)) /\ WF_vars(ChildEnds(r))

-----------------------------------------------------------------------------
(* Properties. *)

(* Something of the run is still tied to its UID. *)
InUse(r) == alive[r] \/ r \in files

(* While a child runs, and until the removal of a run's files has been      *)
(* tried, the run holds its UID: the pool can give it to nobody else        *)
(* (python.go:44-64, 107-114, nodejs.go:60-83, 110-129: every path removes  *)
(* first and releases last).  A file whose removal fails is left to the     *)
(* next holder of the UID: the error is ignored (python.go:62,              *)
(* nodejs.go:81).                                                           *)
UidOutlivesRun == \A r \in Requests : InUse(r) => lease[r] = uid[r] /\ uid[r] \in Pool!Uids

(* No two runs that have a child or a file in use have the same UID: none   *)
(* can signal the processes or read the files of another by it, whatever    *)
(* order the requests of all clients come in (uid_pool.go:20-46,            *)
(* python.go:44-64, nodejs.go:60-83).                                       *)
RunsApart == \A r, q \in Requests : r # q /\ InUse(r) /\ InUse(q) => uid[r] # uid[q]

(* No UID is lost on any return path: one that is not in the pool is held   *)
(* by a run that goes on, or by one that panicked.                          *)
UidAccounted ==
    \A r \in Requests : lease[r] # Pool!NoUid =>
        \/ pc[r] \in {"uid", "prepare", "copy", "enter", "ready", "running", "remove", "return"}
        \/ reply[r] = "panic"

(* When a client has its response, its UID is back, its child has ended and *)
(* the removal of its files has been tried: what is left of a run is what   *)
(* could not be removed or, after an error, what a failed preparation left. *)
ReplyAfterCleanup ==
    \A r \in Requests : reply[r] \in {"ok", "error"} =>
        /\ lease[r] = Pool!NoUid /\ ~InUse(r)
        /\ r \in litter => reply[r] = "error"

(* When all requests are done, both limits are back at zero and, unless a   *)
(* run panicked, the pool is full; every file has been removed, or its      *)
(* removal tried.                                                           *)
RestoredWhenIdle ==
    AllDone =>
        /\ current = 0 /\ working = {} /\ parked = <<>> /\ files = {}
        /\ (\A r \in Requests : reply[r] # "panic") => Len(avail) = Pool!Capacity

(* With no more workers than UIDs, and no panic, a run never waits for a    *)
(* UID: the worker limit keeps the pool from running dry.                   *)
UidAlwaysThere ==
    MaxWorkers <= Pool!Capacity /\ (\A r \in Requests : reply[r] # "panic") =>
        \A r \in Requests : pc[r] = "uid" /\ lease[r] = Pool!NoUid => avail # <<>>

(* Every run is used the way RunContract allows.                            *)
RunsFollowContract ==
    [][\A r \in Requests : Contract(r)!Next \/ UNCHANGED <<run[r], alive[r], hooks[r]>>]_vars

(* While anybody waits for a slot or a UID, some worker waits for neither,  *)
(* unless there are no workers or panics have left all UIDs behind: the two *)
(* limits and the pool, taken one inside the other, are never waited for in *)
(* a circle, and no path keeps a UID for ever (router.go:26-31,             *)
(* cocrrent.go:14-20, uid_pool.go:33-46).                                   *)
Waits(r) == L!IsParked(r) \/ Pool!IsWaiting(r)
LostToPanics == \A u \in Pool!Uids : \E q \in Requests : lease[q] = u /\ reply[q] = "panic"
SomebodyGoesOn ==
    (\E r \in Requests : Waits(r)) =>
        MaxWorkers = 0 \/ LostToPanics \/ \E q \in working : ~Waits(q)

(* Every request that arrives is answered and leaves the server.            *)
EveryRequestLeaves == \A r \in Requests : pc[r] # "new" ~> pc[r] = "done"

(* A Node.js child starts in the root that was prepared for it: prescript.js *)
(* loads its library relative to it and the sandbox is confined to it.      *)
NodeStartsInItsRoot ==
    \A r \in Requests : alive[r] /\ lang[r] = "nodejs" => startDir[r] = r
=============================================================================
