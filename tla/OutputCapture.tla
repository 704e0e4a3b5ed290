--------------------------- MODULE OutputCapture ---------------------------
(***************************************************************************)
(* One sandboxed run: CaptureOutput (internal/core/runner/                 *)
(* output_capture.go) and the HTTP handler that collects its result        *)
(* (collectRunCodeResponse, internal/service/run_code.go).                 *)
(*                                                                         *)
(* Seven actors run concurrently: the caller of CaptureOutput, the timer   *)
(* callback, the two pipe readers, the waiting goroutine, the collecting   *)
(* handler and the child process (with, possibly, a descendant that        *)
(* inherited its pipes).  The four result channels are unbuffered: a send  *)
(* is one step with the collector's receive, and a goroutine at a "send"   *)
(* location is parked until that step.                                     *)
(*                                                                         *)
(* A chunk is what one Read returns; the chunks of a stream are numbered   *)
(* 1, 2, ... in the order the child writes them, so a pipe's content is    *)
(* the interval taken+1 .. wrote.  The text of a message is abstracted to  *)
(* its kind, an exit status to the four that the code tells apart.         *)
(***************************************************************************)
EXTENDS Integers, Sequences

CONSTANTS
    MaxChunks,     \* bound: chunks the child writes to each stream
    PipeCap,       \* chunks a kernel pipe holds before a writer blocks
    EarlyTimer,    \* the deadline may pass before cmd.Start returns
    LaunchMayFail, \* a pipe or cmd.Start may return an error
    ReadMayFail,   \* a pipe Read may fail with an error other than EOF
    WaitMayFail,   \* Process.Wait may return an error
    MayFork        \* the syscall list in force lets the child fork

ASSUME BoundsAssumption == MaxChunks \in Nat /\ PipeCap \in Nat \ {0}
ASSUME SwitchesAssumption ==
    {EarlyTimer, LaunchMayFail, ReadMayFail, WaitMayFail, MayFork} \subseteq BOOLEAN

VARIABLES
    caller,    \* CaptureOutput itself, then Run's return
    timer,     \* the time.AfterFunc timer and its callback
    proc,      \* the child as the kernel sees it
    end,       \* how the child ended
    writers,   \* per stream: who holds the write end of the pipe
    wrote,     \* per stream: chunks written so far
    taken,     \* per stream: chunks the reader has read
    reader,    \* per stream: location of the reading goroutine
    buf,       \* per stream: the chunk in the reader's buffer
    waiter,    \* location of the waiting goroutine
    waitErr,   \* Process.Wait has failed
    hookRuns,  \* calls of after_exit_hook
    exitCode,  \* OutputCaptureResult.exitCode
    collector, \* location of collectRunCodeResponse
    lent,      \* stderr slice received and not yet copied (0: none)
    got,       \* per stream: what the collector's builder holds
    gotErr,    \* what the execError builder holds
    exitSeen   \* the exit code put into the response

callVars == <<caller, waitErr, hookRuns>>
procVars == <<proc, end, writers, wrote>>
readVars == <<taken, reader, buf>>
collVars == <<collector, lent, got, gotErr, exitSeen>>
vars == <<callVars, timer, procVars, readVars, waiter, exitCode, collVars>>

Streams == {"stdout", "stderr"}

(* A chunk of stderr whose buffer was overwritten while it was copied. *)
Torn == -1

Chunks == {Torn} \union 1 .. MaxChunks
Ends == {"ok", "fail", "sigsys", "sigkill"}

(* Mutant: the shell's convention for a child that a signal ended. *)
ExitCodeShell(e) == CASE e = "ok" -> 0
                      [] e = "fail" -> 1
                      [] OTHER -> 137

(* ProcessState.ExitCode: -1 for a child that a signal ended. *)
ExitCode(e) == CASE e = "ok" -> 0
                 [] e = "fail" -> 1
                 [] OTHER -> -1

Messages == {"timeout", "read", "wait", "denied"}

-----------------------------------------------------------------------------
(* The caller. *)

Init ==
    /\ caller = "arm" /\ timer = "unset"
    /\ proc = "none" /\ end = "none"
    /\ writers = [s \in Streams |-> {}]
    /\ wrote = [s \in Streams |-> 0]
    /\ taken = [s \in Streams |-> 0]
    /\ reader = [s \in Streams |-> "off"]
    /\ buf = [s \in Streams |-> 0]
    /\ waiter = "off" /\ waitErr = FALSE
    /\ hookRuns = 0
    /\ exitCode = 0
    /\ collector = "off" /\ lent = 0
    /\ got = [s \in Streams |-> <<>>] /\ gotErr = <<>>
    /\ exitSeen = 0

(* time.AfterFunc, before the pipes are made and the child is started. *)
ArmTimer ==
    /\ caller = "arm"
    /\ caller' = "launch"
    /\ timer' = "armed"
    /\ UNCHANGED <<waitErr, hookRuns, procVars, readVars, waiter, exitCode, collVars>>

(* timer.Stop: no effect once the callback has begun. *)
StopTimer == timer' = IF timer = "armed" THEN "stopped" ELSE timer

(* Both pipes and the child exist: the three goroutines are spawned and     *)
(* CaptureOutput returns nil.                                               *)
Launch ==
    /\ caller = "launch"
    /\ caller' = "returned"
    /\ proc' = "running"
    /\ writers' = [s \in Streams |-> {"child"}]
    /\ reader' = [s \in Streams |-> "read"]
    /\ waiter' = "join"
    /\ UNCHANGED <<timer, waitErr, hookRuns, end, wrote, taken, buf, exitCode, collVars>>

(* Mutant: the error path calls the exit hook as well. *)
LaunchFailsRunsHook ==
    /\ LaunchMayFail
    /\ caller = "launch"
    /\ caller' = "failed"
    /\ hookRuns' = hookRuns + 1
    /\ StopTimer
    /\ UNCHANGED <<waitErr, procVars, readVars, waiter, exitCode, collVars>>

(* A pipe or cmd.Start fails: whatever was opened is closed again. *)
LaunchFails ==
    /\ LaunchMayFail
    /\ caller = "launch"
    /\ caller' = "failed"
    /\ StopTimer
    /\ UNCHANGED <<waitErr, hookRuns, procVars, readVars, waiter, exitCode, collVars>>

-----------------------------------------------------------------------------
(* The timer callback.  It does nothing when cmd.Process is still nil.      *)

TimerFires ==
    /\ timer = "armed"
    /\ EarlyTimer \/ proc # "none"
    /\ timer' = IF proc = "none" THEN "done" ELSE "fired"
    /\ UNCHANGED <<callVars, procVars, readVars, waiter, exitCode, collVars>>

TimerSetsCode ==
    /\ timer = "fired"
    /\ timer' = "coded"
    /\ exitCode' = -1
    /\ UNCHANGED <<callVars, procVars, readVars, waiter, collVars>>

(* Mutant: the kill comes before the message. *)
TimerParksKilled ==
    /\ timer = "coded"
    /\ timer' = "send"
    /\ IF proc = "running"
       THEN /\ proc' = "zombie"
            /\ end' = "sigkill"
            /\ writers' = [s \in Streams |-> writers[s] \ {"child"}]
       ELSE UNCHANGED <<proc, end, writers>>
    /\ UNCHANGED <<callVars, wrote, readVars, waiter, exitCode, collVars>>

(* The callback reaches the send on execError and parks there. *)
TimerParks ==
    /\ timer = "coded"
    /\ timer' = "send"
    /\ UNCHANGED <<callVars, procVars, readVars, waiter, exitCode, collVars>>

(* Mutant: the callback only reports. *)
TimerReportsOnly ==
    /\ timer = "kill"
    /\ timer' = "done"
    /\ UNCHANGED <<callVars, procVars, readVars, waiter, exitCode, collVars>>

(* The message was received; only now is the child killed. *)
TimerKills ==
    /\ timer = "kill"
    /\ timer' = "done"
    /\ IF proc = "running"
       THEN /\ proc' = "zombie"
            /\ end' = "sigkill"
            /\ writers' = [s \in Streams |-> writers[s] \ {"child"}]
       ELSE UNCHANGED <<proc, end, writers>>
    /\ UNCHANGED <<callVars, wrote, readVars, waiter, exitCode, collVars>>

-----------------------------------------------------------------------------
(* The child process.                                                       *)

(* A write blocks on a full pipe and fails once the read end is closed. *)
Write(s) ==
    /\ writers[s] # {}
    /\ reader[s] # "done"
    /\ wrote[s] < MaxChunks
    /\ wrote[s] - taken[s] < PipeCap
    /\ wrote' = [wrote EXCEPT ![s] = @ + 1]
    /\ UNCHANGED <<callVars, timer, proc, end, writers, readVars, waiter, exitCode, collVars>>

(* The child closes one of its standard streams and goes on running. *)
CloseStream(s) ==
    /\ "child" \in writers[s]
    /\ writers' = [writers EXCEPT ![s] = @ \ {"child"}]
    /\ UNCHANGED <<callVars, timer, proc, end, wrote, readVars, waiter, exitCode, collVars>>

(* A descendant inherits the write ends the child still has. *)
Fork ==
    /\ MayFork
    /\ proc = "running"
    /\ writers' = [s \in Streams |->
                     IF "child" \in writers[s] THEN {"child", "descendant"} ELSE writers[s]]
    /\ UNCHANGED <<callVars, timer, proc, end, wrote, readVars, waiter, exitCode, collVars>>

DescendantEnds ==
    /\ \E s \in Streams : "descendant" \in writers[s]
    /\ writers' = [s \in Streams |-> writers[s] \ {"descendant"}]
    /\ UNCHANGED <<callVars, timer, proc, end, wrote, readVars, waiter, exitCode, collVars>>

(* The child exits, or a syscall outside the filter kills it. *)
ChildEnds(e) ==
    /\ proc = "running"
    /\ proc' = "zombie"
    /\ end' = e
    /\ writers' = [s \in Streams |-> writers[s] \ {"child"}]
    /\ UNCHANGED <<callVars, timer, wrote, readVars, waiter, exitCode, collVars>>

-----------------------------------------------------------------------------
(* The two reading goroutines. *)

ReadChunk(s) ==
    /\ reader[s] = "read"
    /\ taken[s] < wrote[s]
    /\ taken' = [taken EXCEPT ![s] = @ + 1]
    /\ buf' = [buf EXCEPT ![s] = taken[s] + 1]
    /\ reader' = [reader EXCEPT ![s] = "send"]
    /\ UNCHANGED <<callVars, timer, procVars, waiter, exitCode, collVars>>

(* Mutant: the pipe is closed as soon as nobody can write to it. *)
ReadEofUndrained(s) ==
    /\ reader[s] = "read"
    /\ writers[s] = {}
    /\ reader' = [reader EXCEPT ![s] = "done"]
    /\ UNCHANGED <<callVars, timer, procVars, taken, buf, waiter, exitCode, collVars>>

(* io.EOF: the pipe is empty and nobody holds its write end. *)
ReadEof(s) ==
    /\ reader[s] = "read"
    /\ taken[s] = wrote[s]
    /\ writers[s] = {}
    /\ reader' = [reader EXCEPT ![s] = "done"]
    /\ UNCHANGED <<callVars, timer, procVars, taken, buf, waiter, exitCode, collVars>>

(* Any other error is sent on execError before the reader stops. *)
ReadFails(s) ==
    /\ ReadMayFail
    /\ reader[s] = "read"
    /\ reader' = [reader EXCEPT ![s] = "fail"]
    /\ UNCHANGED <<callVars, timer, procVars, taken, buf, waiter, exitCode, collVars>>

-----------------------------------------------------------------------------
(* The waiting goroutine. *)

(* Mutant: wg.Add(1), one reader is waited for. *)
JoinOne ==
    /\ waiter = "join"
    /\ \E s \in Streams : reader[s] = "done"
    /\ waiter' = "wait"
    /\ UNCHANGED <<callVars, timer, procVars, readVars, exitCode, collVars>>

(* wg.Wait: both readers have returned. *)
Join ==
    /\ waiter = "join"
    /\ \A s \in Streams : reader[s] = "done"
    /\ waiter' = "wait"
    /\ UNCHANGED <<callVars, timer, procVars, readVars, exitCode, collVars>>

Reap ==
    /\ waiter = "wait"
    /\ proc = "zombie"
    /\ proc' = "reaped"
    /\ waiter' = "code"
    /\ UNCHANGED <<callVars, timer, end, writers, wrote, readVars, exitCode, collVars>>

WaitFails ==
    /\ WaitMayFail
    /\ waiter = "wait"
    /\ waiter' = "waitfail"
    /\ waitErr' = TRUE
    /\ exitCode' = IF exitCode = 0 THEN -1 ELSE exitCode
    /\ UNCHANGED <<caller, hookRuns, timer, procVars, readVars, collVars>>

(* Mutant: the text of a denied system call is not recognised. *)
SetExitCodeOnly ==
    /\ waiter = "code"
    /\ exitCode' = ExitCode(end)
    /\ waiter' = "hook"
    /\ UNCHANGED <<callVars, timer, procVars, readVars, collVars>>

(* Overwrites whatever the timer callback has stored. *)
SetExitCode ==
    /\ waiter = "code"
    /\ exitCode' = ExitCode(end)
    /\ waiter' = IF end = "sigsys" THEN "denied" ELSE "hook"
    /\ UNCHANGED <<callVars, timer, procVars, readVars, collVars>>

RunHook ==
    /\ waiter = "hook"
    /\ hookRuns' = hookRuns + 1
    /\ waiter' = "send"
    /\ UNCHANGED <<caller, waitErr, timer, procVars, readVars, exitCode, collVars>>

(* The deferred timer.Stop: after the collector has taken the done signal. *)
WaiterReturns ==
    /\ waiter = "stop"
    /\ waiter' = "gone"
    /\ StopTimer
    /\ UNCHANGED <<callVars, procVars, readVars, exitCode, collVars>>

-----------------------------------------------------------------------------
(* The collecting handler. *)

StartCollecting ==
    /\ caller = "returned"
    /\ collector = "off"
    /\ collector' = "loop"
    /\ UNCHANGED <<callVars, timer, procVars, readVars, waiter, exitCode, lent, got, gotErr, exitSeen>>

Receiving == collector \in {"loop", "drain"} /\ lent = 0

(* The stdout reader allocates a buffer per Read: what is copied into the   *)
(* builder is what was read.                                                *)
RecvStdout ==
    /\ Receiving
    /\ reader["stdout"] = "send"
    /\ got' = [got EXCEPT !["stdout"] = Append(@, buf["stdout"])]
    /\ reader' = [reader EXCEPT !["stdout"] = "read"]
    /\ UNCHANGED <<callVars, timer, procVars, taken, buf, waiter, exitCode, collector, lent, gotErr, exitSeen>>

(* The stderr reader has one buffer for the whole stream: the collector     *)
(* holds a slice of it, and the reader is free to read into it again ...    *)
RecvStderr ==
    /\ Receiving
    /\ reader["stderr"] = "send"
    /\ lent' = buf["stderr"]
    /\ reader' = [reader EXCEPT !["stderr"] = "read"]
    /\ UNCHANGED <<callVars, timer, procVars, taken, buf, waiter, exitCode, collector, got, gotErr, exitSeen>>

(* ... while stderrStr.Write copies it.  The copy of a buffer that was      *)
(* overwritten is the new chunk or a mixture of the two.                    *)
CopyStderr ==
    /\ lent # 0
    /\ \E c \in IF buf["stderr"] = lent THEN {lent} ELSE {buf["stderr"], Torn} :
          got' = [got EXCEPT !["stderr"] = Append(@, c)]
    /\ lent' = 0
    /\ UNCHANGED <<callVars, timer, procVars, readVars, waiter, exitCode, collector, gotErr, exitSeen>>

RecvExecError(m) ==
    /\ Receiving
    /\ gotErr' = Append(gotErr, m)
    /\ UNCHANGED <<callVars, procVars, taken, buf, exitCode, collector, lent, got, exitSeen>>

RecvTimeout ==
    /\ timer = "send"
    /\ timer' = "kill"
    /\ RecvExecError("timeout")
    /\ UNCHANGED <<reader, waiter>>

RecvReadError(s) ==
    /\ reader[s] = "fail"
    /\ reader' = [reader EXCEPT ![s] = "done"]
    /\ RecvExecError("read")
    /\ UNCHANGED <<timer, waiter>>

RecvWaitError ==
    /\ waiter \in {"waitfail", "denied"}
    /\ waiter' = "hook"
    /\ RecvExecError(IF waiter = "denied" THEN "denied" ELSE "wait")
    /\ UNCHANGED <<timer, reader>>

RecvDone ==
    /\ collector = "loop" /\ lent = 0
    /\ waiter = "send"
    /\ waiter' = "stop"
    /\ collector' = "drain"
    /\ UNCHANGED <<callVars, timer, procVars, readVars, exitCode, lent, got, gotErr, exitSeen>>

(* Some goroutine is parked on a channel of the inner select. *)
Parked == \/ \E s \in Streams : reader[s] \in {"send", "fail"}
          \/ waiter \in {"waitfail", "denied"}
          \/ timer = "send"

(* The default case of the inner select. *)
Respond ==
    /\ collector = "drain" /\ lent = 0
    /\ ~Parked
    /\ collector' = "answered"
    /\ exitSeen' = exitCode
    /\ UNCHANGED <<callVars, timer, procVars, readVars, waiter, exitCode, lent, got, gotErr>>

Answered == collector = "answered"

(* buildExecutionError: what the Error field is put together from. *)
ExecutionError ==
    IF exitSeen = 0 THEN gotErr
    ELSE <<"exit code">> \o gotErr
           \o (IF got["stderr"] = <<>> THEN <<>> ELSE <<"stderr">>)

-----------------------------------------------------------------------------

CallerStep == ArmTimer \/ Launch \/ LaunchFails
TimerStep == TimerFires \/ TimerSetsCode \/ TimerParks \/ TimerKills
ChildStep == \/ \E s \in Streams : Write(s) \/ CloseStream(s)
             \/ Fork \/ DescendantEnds
             \/ \E e \in Ends \ {"sigkill"} : ChildEnds(e)
ReaderStep(s) == ReadChunk(s) \/ ReadEof(s) \/ ReadFails(s)
WaiterStep == Join \/ Reap \/ WaitFails \/ SetExitCode \/ RunHook \/ WaiterReturns
CollectorStep == \/ StartCollecting
                 \/ RecvStdout \/ RecvStderr \/ CopyStderr
                 \/ RecvTimeout \/ RecvWaitError
                 \/ \E s \in Streams : RecvReadError(s)
                 \/ RecvDone \/ Respond

(* Where a run may stop for good: refused, or answered with every goroutine *)
(* gone but, possibly, a timer callback parked for ever on execError.       *)
Finished ==
    \/ caller = "failed" /\ timer # "armed"
    \/ Answered /\ waiter = "gone" /\ timer \in {"stopped", "done", "send"}

Idle == Finished /\ UNCHANGED vars

Next == CallerStep \/ TimerStep \/ ChildStep \/ WaiterStep \/ CollectorStep
        \/ (\E s \in Streams : ReaderStep(s)) \/ Idle

Spec == Init /\ [][Next]_vars

(* The Go scheduler runs every goroutine that can run, timers expire, reads *)
(* and waits return, and a select keeps serving ready channels.  Nothing is *)
(* assumed of the child or of its descendants, and no call has to fail.     *)
Fairness ==
    /\ WF_vars(ArmTimer \/ Launch)
    /\ WF_vars(TimerStep)
    /\ \A s \in Streams : WF_vars(ReadChunk(s) \/ ReadEof(s))
    /\ WF_vars(Join \/ Reap \/ SetExitCode \/ RunHook \/ WaiterReturns)
    /\ WF_vars(CollectorStep)

FairSpec == Spec /\ Fairness

-----------------------------------------------------------------------------
(* Properties. *)

TypeOK ==
    /\ caller \in {"arm", "launch", "returned", "failed"}
    /\ timer \in {"unset", "armed", "fired", "coded", "send", "kill", "stopped", "done"}
    /\ proc \in {"none", "running", "zombie", "reaped"}
    /\ end \in Ends \union {"none"}
    /\ writers \in [Streams -> SUBSET {"child", "descendant"}]
    /\ wrote \in [Streams -> 0 .. MaxChunks]
    /\ taken \in [Streams -> 0 .. MaxChunks]
    /\ reader \in [Streams -> {"off", "read", "send", "fail", "done"}]
    /\ buf \in [Streams -> 0 .. MaxChunks]
    /\ waiter \in {"off", "join", "wait", "code", "waitfail", "denied", "hook", "send", "stop", "gone"}
    /\ waitErr \in BOOLEAN
    /\ hookRuns \in Nat
    /\ exitCode \in {-1, 0, 1}
    /\ collector \in {"off", "loop", "drain", "answered"}
    /\ lent \in 0 .. MaxChunks
    /\ got \in [Streams -> Seq(Chunks)]
    /\ gotErr \in Seq(Messages)
    /\ exitSeen \in {-1, 0, 1}

Reported(m) == \E i \in 1 .. Len(gotErr) : gotErr[i] = m

(* The response carries the child's whole stdout, in order and unaltered,   *)
(* unless it says that a pipe could not be read (output_capture.go:149-166, *)
(* 193 and run_code.go:33-62: nothing is lost when done is signalled).      *)
StdoutExact ==
    Answered /\ ~Reported("read") =>
        /\ Len(got["stdout"]) = wrote["stdout"]
        /\ \A i \in 1 .. Len(got["stdout"]) : got["stdout"][i] = i

(* The most the shared stderr buffer can do: every stderr chunk arrives and *)
(* is at worst confused with its successor; the last one is exact           *)
(* (output_capture.go:169-186).                                             *)
StderrSlipsByOne ==
    Answered /\ ~Reported("read") =>
        /\ Len(got["stderr"]) = wrote["stderr"]
        /\ \A i \in 1 .. Len(got["stderr"]) :
              \/ got["stderr"][i] = i
              \/ i < Len(got["stderr"]) /\ got["stderr"][i] \in {i + 1, Torn}

(* The exit hook frees the UID and the files of the run.  It is called at   *)
(* most once, never while the child runs or a pipe is still being read, and *)
(* always before the response (output_capture.go:193-222).                  *)
HookReleasesOnce ==
    /\ hookRuns <= 1
    /\ hookRuns = 1 => /\ proc = "reaped" \/ waitErr
                       /\ \A s \in Streams : reader[s] = "done"
    /\ Answered => hookRuns = 1

(* A child killed by the timeout is always reported as such: the message    *)
(* is delivered before the kill, and the exit code is -1                    *)
(* (output_capture.go:112-119, 207-208).                                    *)
KillIsReported ==
    end = "sigkill" => /\ Reported("timeout")
                       /\ Answered => exitSeen = -1

(* As long as the timer has not fired, the response carries the child's own *)
(* exit status, and a child stopped by the syscall filter is reported as    *)
(* not permitted (output_capture.go:207-215).                               *)
StatusWithoutTimeout ==
    Answered /\ ~waitErr /\ timer \in {"armed", "stopped"} =>
        /\ exitSeen = ExitCode(end)
        /\ end = "sigsys" <=> Reported("denied")

(* run_code.go:19: "Successful executions keep Error empty".                *)
SuccessKeepsErrorEmpty == Answered /\ exitSeen = 0 => ExecutionError = <<>>

(* output_capture.go:15: "stderr carries the user/runtime stderr stream     *)
(* exactly as emitted by the process".                                      *)
StderrExact ==
    Answered /\ ~Reported("read") =>
        \A i \in 1 .. Len(got["stderr"]) : got["stderr"][i] = i

-----------------------------------------------------------------------------
(* A run as the runner that launched it sees it. *)

Contract == INSTANCE RunContract WITH
    phase <- IF caller = "failed" THEN "refused"
             ELSE IF caller # "returned" THEN "idle"
             ELSE IF Answered THEN "answered"
             ELSE IF hookRuns > 0 THEN "settled" ELSE "running",
    alive <- proc = "running",
    hooks <- hookRuns

(* CaptureOutput and its collector keep the promise of RunContract. *)
KeepsContract == Contract!Spec

(* ... and, when nothing but the child can delay them, decide every run:    *)
(* however long the child would go on, the timeout kills it, its pipes      *)
(* reach end of file, and no goroutine on the way to the response stays     *)
(* parked.                                                                  *)
DecidesEveryRun == Contract!FairSpec
=============================================================================
