------------------------ MODULE OutputCaptureProofs ------------------------
(***************************************************************************)
(* The safety properties of OutputCapture, proved for every number of      *)
(* chunks, every pipe capacity and every choice of the calls that may      *)
(* fail; and, when Process.Wait does not fail, that OutputCapture          *)
(* implements RunContract.                                                 *)
(*                                                                         *)
(* The inductive invariant has four parts.  Stages ties the locations of   *)
(* the actors together, Streaming says where each chunk of a stream is,    *)
(* Killing follows the timer and the kill, Status follows the exit code    *)
(* and the report of a denied system call.                                 *)
(***************************************************************************)
EXTENDS OutputCapture, TLAPS

(* The waiting goroutine is past Process.Wait and its report. *)
Settling == waiter \in {"hook", "send", "stop", "gone"}

(* Nothing has been launched. *)
Unlaunched ==
    /\ proc = "none" /\ end = "none"
    /\ timer \in {"unset", "armed", "stopped", "done"}
    /\ exitCode = 0 /\ hookRuns = 0 /\ waitErr = FALSE
    /\ collector = "off" /\ lent = 0 /\ gotErr = <<>>
    /\ \A s \in Streams : /\ reader[s] = "off" /\ writers[s] = {}
                          /\ wrote[s] = 0 /\ taken[s] = 0 /\ buf[s] = 0
                          /\ got[s] = <<>>

Stages ==
    /\ waiter = "off" <=> caller # "returned"
    /\ waiter = "off" => Unlaunched
    /\ waiter # "off" => proc # "none" /\ \A s \in Streams : reader[s] # "off"
    /\ waiter \notin {"off", "join"} => \A s \in Streams : reader[s] = "done"
    /\ hookRuns = IF waiter \in {"send", "stop", "gone"} THEN 1 ELSE 0
    /\ waiter = "waitfail" => waitErr
    /\ waitErr => WaitMayFail /\ (waiter = "waitfail" \/ Settling)
    /\ waiter \in {"code", "denied"} => proc = "reaped"
    /\ Settling => proc = "reaped" \/ waitErr
    /\ collector \in {"drain", "answered"} => waiter \in {"stop", "gone"}
    /\ collector = "answered" => lent = 0

(* Every chunk read is in the builder, with the collector or in the hand of *)
(* the reader.                                                              *)
InHand(s) == IF reader[s] = "send" THEN 1 ELSE 0
WithCollector == IF lent # 0 THEN 1 ELSE 0

Counted ==
    /\ \A s \in Streams : buf[s] = taken[s] /\ taken[s] <= wrote[s]
    /\ taken["stdout"] = Len(got["stdout"]) + InHand("stdout")
    /\ taken["stderr"] = Len(got["stderr"]) + WithCollector + InHand("stderr")
    /\ lent # 0 => lent = Len(got["stderr"]) + 1

StdoutCopied == \A i \in 1 .. Len(got["stdout"]) : got["stdout"][i] = i

StderrCopied ==
    \A i \in 1 .. Len(got["stderr"]) :
       got["stderr"][i] = i \/ (i < taken["stderr"] /\ got["stderr"][i] \in {i + 1, Torn})

Drained ==
    \A s \in Streams : reader[s] = "done" => taken[s] = wrote[s] \/ Reported("read")

Streaming == Counted /\ StdoutCopied /\ StderrCopied /\ Drained

Killing ==
    /\ timer = "kill" => Reported("timeout")
    /\ end = "sigkill" => Reported("timeout") /\ timer = "done"
    /\ proc \in {"none", "running"} <=> end = "none"
    /\ waiter \in {"join", "wait"} => exitCode \in {-1, 0}
    /\ waitErr => exitCode = -1
    /\ end = "sigkill" /\ (waiter = "denied" \/ Settling) => exitCode = -1
    /\ Answered /\ waitErr => exitSeen = -1
    /\ Answered /\ end = "sigkill" => exitSeen = -1

Status ==
    /\ timer \in {"armed", "stopped"} /\ ~waitErr /\ (waiter = "denied" \/ Settling)
         => exitCode = ExitCode(end)
    /\ timer \in {"armed", "stopped"} /\ ~waitErr /\ Answered => exitSeen = ExitCode(end)
    /\ waiter = "denied" => end = "sigsys"
    /\ ~Settling => ~Reported("denied")
    /\ Settling /\ ~waitErr => (end = "sigsys" <=> Reported("denied"))

IInv == TypeOK /\ Stages /\ Streaming /\ Killing /\ Status

-----------------------------------------------------------------------------

(* A receive on execError adds one message to what is reported.             *)
LEMMA ReportGrows ==
  ASSUME TypeOK, NEW m \in Messages, gotErr' = Append(gotErr, m), NEW CONSTANT k
  PROVE  Reported(k)' <=> Reported(k) \/ k = m
<1>1. gotErr \in Seq(Messages)
  BY DEF TypeOK
<1>2. /\ Len(gotErr') = Len(gotErr) + 1
      /\ gotErr'[Len(gotErr) + 1] = m
      /\ \A i \in 1 .. Len(gotErr) : gotErr'[i] = gotErr[i]
      /\ Len(gotErr) \in Nat
  BY <1>1
<1>3. 1 .. Len(gotErr') = (1 .. Len(gotErr)) \union {Len(gotErr) + 1}
  BY <1>2
<1>. QED
  BY <1>2, <1>3 DEF Reported

-----------------------------------------------------------------------------

(* Every step keeps the types.  Streaming is needed because a buffer that   *)
(* is copied must hold a chunk.                                             *)
LEMMA TypeStep == TypeOK /\ Streaming /\ [Next]_vars => TypeOK'
<1>. SUFFICES ASSUME TypeOK, Streaming, [Next]_vars PROVE TypeOK'
  OBVIOUS
<1>. USE BoundsAssumption DEF TypeOK, Streams, Ends, Chunks, Torn, Messages, callVars, procVars, readVars, collVars
<1>1. CASE ArmTimer
  BY <1>1 DEF ArmTimer
<1>2. CASE Launch
  BY <1>2 DEF Launch
<1>3. CASE LaunchFails
  BY <1>3 DEF LaunchFails, StopTimer
<1>4. CASE TimerFires
  BY <1>4 DEF TimerFires
<1>5. CASE TimerSetsCode
  BY <1>5 DEF TimerSetsCode
<1>6. CASE TimerParks
  BY <1>6 DEF TimerParks
<1>7. CASE TimerKills
  BY <1>7 DEF TimerKills
<1>8. ASSUME NEW s \in Streams, Write(s) PROVE TypeOK'
  BY <1>8 DEF Write
<1>9. ASSUME NEW s \in Streams, CloseStream(s) PROVE TypeOK'
  BY <1>9 DEF CloseStream
<1>10. CASE Fork
  BY <1>10 DEF Fork
<1>11. CASE DescendantEnds
  BY <1>11 DEF DescendantEnds
<1>12. ASSUME NEW e \in Ends \ {"sigkill"}, ChildEnds(e) PROVE TypeOK'
  BY <1>12 DEF ChildEnds
<1>13. ASSUME NEW s \in Streams, ReadChunk(s) PROVE TypeOK'
  BY <1>13 DEF ReadChunk
<1>14. ASSUME NEW s \in Streams, ReadEof(s) PROVE TypeOK'
  BY <1>14 DEF ReadEof
<1>15. ASSUME NEW s \in Streams, ReadFails(s) PROVE TypeOK'
  BY <1>15 DEF ReadFails
<1>16. CASE Join
  BY <1>16 DEF Join
<1>17. CASE Reap
  BY <1>17 DEF Reap
<1>18. CASE WaitFails
  BY <1>18 DEF WaitFails
<1>19. CASE SetExitCode
  BY <1>19 DEF SetExitCode, ExitCode
<1>20. CASE RunHook
  BY <1>20 DEF RunHook
<1>21. CASE WaiterReturns
  BY <1>21 DEF WaiterReturns, StopTimer
<1>22. CASE StartCollecting
  BY <1>22 DEF StartCollecting
<1>23. CASE RecvStdout
  <2>1. buf["stdout"] \in Chunks
    BY <1>23 DEF RecvStdout, Streaming, Counted, InHand
  <2>. QED
    BY <1>23, <2>1 DEF RecvStdout
<1>24. CASE RecvStderr
  BY <1>24 DEF RecvStderr, Receiving
<1>25. CASE CopyStderr
  <2>1. buf["stderr"] \in Chunks /\ lent \in Chunks
    BY <1>25 DEF CopyStderr, Streaming, Counted, InHand, WithCollector
  <2>. QED
    BY <1>25, <2>1 DEF CopyStderr
<1>26. CASE RecvTimeout
  BY <1>26 DEF RecvTimeout, Receiving, RecvExecError
<1>27. CASE RecvWaitError
  BY <1>27 DEF RecvWaitError, Receiving, RecvExecError
<1>28. ASSUME NEW s \in Streams, RecvReadError(s) PROVE TypeOK'
  BY <1>28 DEF RecvReadError, Receiving, RecvExecError
<1>29. CASE RecvDone
  BY <1>29 DEF RecvDone
<1>30. CASE Respond
  BY <1>30 DEF Respond
<1>31. CASE UNCHANGED vars
  BY <1>31 DEF vars
<1>. QED
  BY <1>1, <1>2, <1>3, <1>4, <1>5, <1>6, <1>7, <1>8, <1>9, <1>10, <1>11, <1>12, <1>13, <1>14, <1>15, <1>16, <1>17, <1>18, <1>19, <1>20, <1>21, <1>22, <1>23, <1>24, <1>25, <1>26, <1>27, <1>28, <1>29, <1>30, <1>31
     DEF Next, CallerStep, TimerStep, ChildStep, ReaderStep, WaiterStep, CollectorStep, Idle

(* Every step keeps the locations of the actors consistent.                 *)
LEMMA StagesStep == TypeOK /\ Stages /\ [Next]_vars => Stages'
<1>. SUFFICES ASSUME TypeOK, Stages, [Next]_vars PROVE Stages'
  OBVIOUS
<1>. USE BoundsAssumption DEF TypeOK, Streams, Ends, Chunks, Torn, Messages, callVars, procVars, readVars, collVars
<1>. USE DEF Stages, Settling, Unlaunched
<1>1. CASE ArmTimer
  BY <1>1 DEF ArmTimer
<1>2. CASE Launch
  BY <1>2 DEF Launch
<1>3. CASE LaunchFails
  BY <1>3 DEF LaunchFails, StopTimer
<1>4. CASE TimerFires
  BY <1>4 DEF TimerFires
<1>5. CASE TimerSetsCode
  BY <1>5 DEF TimerSetsCode
<1>6. CASE TimerParks
  BY <1>6 DEF TimerParks
<1>7. CASE TimerKills
  BY <1>7 DEF TimerKills
<1>8. ASSUME NEW s \in Streams, Write(s) PROVE Stages'
  BY <1>8 DEF Write
<1>9. ASSUME NEW s \in Streams, CloseStream(s) PROVE Stages'
  BY <1>9 DEF CloseStream
<1>10. CASE Fork
  BY <1>10 DEF Fork
<1>11. CASE DescendantEnds
  BY <1>11 DEF DescendantEnds
<1>12. ASSUME NEW e \in Ends \ {"sigkill"}, ChildEnds(e) PROVE Stages'
  BY <1>12 DEF ChildEnds
<1>13. ASSUME NEW s \in Streams, ReadChunk(s) PROVE Stages'
  BY <1>13 DEF ReadChunk
<1>14. ASSUME NEW s \in Streams, ReadEof(s) PROVE Stages'
  BY <1>14 DEF ReadEof
<1>15. ASSUME NEW s \in Streams, ReadFails(s) PROVE Stages'
  BY <1>15 DEF ReadFails
<1>16. CASE Join
  BY <1>16 DEF Join
<1>17. CASE Reap
  BY <1>17 DEF Reap
<1>18. CASE WaitFails
  BY <1>18 DEF WaitFails
<1>19. CASE SetExitCode
  BY <1>19 DEF SetExitCode, ExitCode
<1>20. CASE RunHook
  BY <1>20 DEF RunHook
<1>21. CASE WaiterReturns
  BY <1>21 DEF WaiterReturns, StopTimer
<1>22. CASE StartCollecting
  BY <1>22 DEF StartCollecting
<1>23. CASE RecvStdout
  BY <1>23 DEF RecvStdout, Receiving
<1>24. CASE RecvStderr
  BY <1>24 DEF RecvStderr, Receiving
<1>25. CASE CopyStderr
  BY <1>25 DEF CopyStderr
<1>26. CASE RecvTimeout
  BY <1>26 DEF RecvTimeout, Receiving, RecvExecError
<1>27. CASE RecvWaitError
  BY <1>27 DEF RecvWaitError, Receiving, RecvExecError
<1>28. ASSUME NEW s \in Streams, RecvReadError(s) PROVE Stages'
  BY <1>28 DEF RecvReadError, Receiving, RecvExecError
<1>29. CASE RecvDone
  BY <1>29 DEF RecvDone
<1>30. CASE Respond
  BY <1>30 DEF Respond
<1>31. CASE UNCHANGED vars
  BY <1>31 DEF vars
<1>. QED
  BY <1>1, <1>2, <1>3, <1>4, <1>5, <1>6, <1>7, <1>8, <1>9, <1>10, <1>11, <1>12, <1>13, <1>14, <1>15, <1>16, <1>17, <1>18, <1>19, <1>20, <1>21, <1>22, <1>23, <1>24, <1>25, <1>26, <1>27, <1>28, <1>29, <1>30, <1>31
     DEF Next, CallerStep, TimerStep, ChildStep, ReaderStep, WaiterStep, CollectorStep, Idle

(* What the type invariant says of the counters.                            *)
LEMMA Numbers ==
  ASSUME TypeOK
  PROVE  /\ \A s \in Streams : taken[s] \in Nat /\ wrote[s] \in Nat /\ Len(got[s]) \in Nat
         /\ lent \in Nat
<1>1. \A s \in Streams : taken[s] \in Nat /\ wrote[s] \in Nat
  BY BoundsAssumption DEF TypeOK
<1>2. \A s \in Streams : got[s] \in Seq(Chunks)
  BY DEF TypeOK
<1>3. lent \in Nat
  BY BoundsAssumption DEF TypeOK
<1>. QED
  BY <1>1, <1>2, <1>3

(* A reader takes the next chunk: it is in the reader's hand afterwards, and *)
(* a slice of stderr that the collector still holds may be overwritten.     *)
LEMMA ReadChunkStreams ==
  ASSUME TypeOK, Streaming, NEW s \in Streams, ReadChunk(s)
  PROVE  Streaming'
<1>1. /\ taken' = [taken EXCEPT ![s] = @ + 1]
      /\ buf' = [buf EXCEPT ![s] = taken[s] + 1]
      /\ reader' = [reader EXCEPT ![s] = "send"]
      /\ reader[s] = "read" /\ taken[s] < wrote[s]
      /\ UNCHANGED <<got, lent, wrote, gotErr>>
  BY DEF ReadChunk, procVars, collVars
<1>2. /\ taken \in [Streams -> 0 .. MaxChunks]
      /\ buf \in [Streams -> 0 .. MaxChunks]
      /\ reader \in [Streams -> {"off", "read", "send", "fail", "done"}]
  BY DEF TypeOK
<1>3. /\ taken'[s] = taken[s] + 1 /\ buf'[s] = taken[s] + 1 /\ reader'[s] = "send"
      /\ \A r \in Streams : r # s => /\ taken'[r] = taken[r]
                                    /\ buf'[r] = buf[r]
                                    /\ reader'[r] = reader[r]
  BY <1>1, <1>2
<1>4. "stdout" \in Streams /\ "stderr" \in Streams
  BY DEF Streams
<1>5. InHand(s) = 0 /\ InHand(s)' = 1 /\ \A r \in Streams : r # s => InHand(r)' = InHand(r)
  BY <1>1, <1>3 DEF InHand
<1>6. WithCollector' = WithCollector /\ WithCollector \in {0, 1}
  BY <1>1 DEF WithCollector
<1>7. Counted'
  <2>1. \A r \in Streams : buf'[r] = taken'[r] /\ taken'[r] <= wrote'[r]
    BY <1>1, <1>3, Numbers DEF Streaming, Counted
  <2>2. taken'["stdout"] = Len(got["stdout"]) + InHand("stdout")'
    BY <1>1, <1>3, <1>4, <1>5, Numbers DEF Streaming, Counted
  <2>3. taken'["stderr"] = Len(got["stderr"]) + WithCollector + InHand("stderr")'
    BY <1>1, <1>3, <1>4, <1>5, <1>6, Numbers DEF Streaming, Counted
  <2>. QED
    BY <1>1, <1>6, <2>1, <2>2, <2>3 DEF Streaming, Counted
<1>8. StdoutCopied'
  BY <1>1 DEF Streaming, StdoutCopied
<1>9. StderrCopied'
  <2>1. taken'["stderr"] >= taken["stderr"] /\ taken'["stderr"] \in Nat
    BY <1>3, <1>4, Numbers
  <2>. QED
    BY <1>1, <2>1, <1>4, Numbers DEF Streaming, StderrCopied
<1>10. Drained'
  BY <1>1, <1>3 DEF Streaming, Drained, Reported
<1>. QED
  BY <1>7, <1>8, <1>9, <1>10 DEF Streaming

(* Every step keeps track of every chunk.                                   *)
LEMMA StreamingStep == TypeOK /\ Stages /\ Streaming /\ [Next]_vars => Streaming'
<1>. SUFFICES ASSUME TypeOK, Stages, Streaming, [Next]_vars PROVE Streaming'
  OBVIOUS
<1>. USE BoundsAssumption DEF TypeOK, Streams, Ends, Chunks, Torn, Messages, callVars, procVars, readVars, collVars
<1>. USE DEF Streaming, Counted, InHand, WithCollector, StdoutCopied, StderrCopied, Drained, Reported
<1>1. CASE ArmTimer
  BY <1>1 DEF ArmTimer, Unlaunched, Stages
<1>2. CASE Launch
  BY <1>2 DEF Launch, Unlaunched, Stages
<1>3. CASE LaunchFails
  BY <1>3 DEF LaunchFails, StopTimer
<1>4. CASE TimerFires
  BY <1>4 DEF TimerFires
<1>5. CASE TimerSetsCode
  BY <1>5 DEF TimerSetsCode
<1>6. CASE TimerParks
  BY <1>6 DEF TimerParks
<1>7. CASE TimerKills
  BY <1>7 DEF TimerKills
<1>8. ASSUME NEW s \in Streams, Write(s) PROVE Streaming'
  <2>1. \A r \in Streams : buf'[r] = taken'[r] /\ taken'[r] <= wrote'[r]
    BY <1>8 DEF Write
  <2>2. \A r \in Streams : reader'[r] = "done" => taken'[r] = wrote'[r] \/ Reported("read")'
    BY <1>8 DEF Write
  <2>3. UNCHANGED <<taken, got, reader, lent>>
    BY <1>8 DEF Write
  <2>. QED
    BY <2>1, <2>2, <2>3
<1>9. ASSUME NEW s \in Streams, CloseStream(s) PROVE Streaming'
  BY <1>9 DEF CloseStream
<1>10. CASE Fork
  BY <1>10 DEF Fork
<1>11. CASE DescendantEnds
  BY <1>11 DEF DescendantEnds
<1>12. ASSUME NEW e \in Ends \ {"sigkill"}, ChildEnds(e) PROVE Streaming'
  BY <1>12 DEF ChildEnds
<1>13. ASSUME NEW s \in Streams, ReadChunk(s) PROVE Streaming'
  BY <1>13, ReadChunkStreams
<1>14. ASSUME NEW s \in Streams, ReadEof(s) PROVE Streaming'
  BY <1>14 DEF ReadEof
<1>15. ASSUME NEW s \in Streams, ReadFails(s) PROVE Streaming'
  BY <1>15 DEF ReadFails
<1>16. CASE Join
  BY <1>16 DEF Join
<1>17. CASE Reap
  BY <1>17 DEF Reap
<1>18. CASE WaitFails
  BY <1>18 DEF WaitFails
<1>19. CASE SetExitCode
  BY <1>19 DEF SetExitCode, ExitCode
<1>20. CASE RunHook
  BY <1>20 DEF RunHook
<1>21. CASE WaiterReturns
  BY <1>21 DEF WaiterReturns, StopTimer
<1>22. CASE StartCollecting
  BY <1>22 DEF StartCollecting
<1>23. CASE RecvStdout
  BY <1>23 DEF RecvStdout, Receiving
<1>24. CASE RecvStderr
  BY <1>24 DEF RecvStderr, Receiving
<1>25. CASE CopyStderr
  BY <1>25 DEF CopyStderr
<1>26. CASE RecvTimeout
  BY <1>26 DEF RecvTimeout, Receiving, RecvExecError
<1>27. CASE RecvWaitError
  BY <1>27 DEF RecvWaitError, Receiving, RecvExecError
<1>28. ASSUME NEW s \in Streams, RecvReadError(s) PROVE Streaming'
  <2>1. gotErr' = Append(gotErr, "read")
    BY <1>28 DEF RecvReadError, RecvExecError
  <2>2. Reported("read")'
    BY <2>1, ReportGrows
  <2>3. UNCHANGED <<taken, wrote, buf, got, lent>>
    BY <1>28 DEF RecvReadError, RecvExecError
  <2>4. \A r \in Streams : reader'[r] = "send" <=> reader[r] = "send"
    BY <1>28 DEF RecvReadError
  <2>. QED
    BY <2>2, <2>3, <2>4
<1>29. CASE RecvDone
  BY <1>29 DEF RecvDone
<1>30. CASE Respond
  BY <1>30 DEF Respond
<1>31. CASE UNCHANGED vars
  BY <1>31 DEF vars
<1>. QED
  BY <1>1, <1>2, <1>3, <1>4, <1>5, <1>6, <1>7, <1>8, <1>9, <1>10, <1>11, <1>12, <1>13, <1>14, <1>15, <1>16, <1>17, <1>18, <1>19, <1>20, <1>21, <1>22, <1>23, <1>24, <1>25, <1>26, <1>27, <1>28, <1>29, <1>30, <1>31
     DEF Next, CallerStep, TimerStep, ChildStep, ReaderStep, WaiterStep, CollectorStep, Idle

(* Every step keeps the kill after its report.                              *)
LEMMA KillingStep == TypeOK /\ Stages /\ Killing /\ [Next]_vars => Killing'
<1>. SUFFICES ASSUME TypeOK, Stages, Killing, [Next]_vars PROVE Killing'
  OBVIOUS
<1>. USE BoundsAssumption DEF TypeOK, Streams, Ends, Chunks, Torn, Messages, callVars, procVars, readVars, collVars
<1>. USE DEF Stages, Settling, Killing, Answered, Reported
<1>1. CASE ArmTimer
  BY <1>1 DEF ArmTimer, Unlaunched, Stages
<1>2. CASE Launch
  BY <1>2 DEF Launch, Unlaunched, Stages
<1>3. CASE LaunchFails
  BY <1>3 DEF LaunchFails, StopTimer
<1>4. CASE TimerFires
  BY <1>4 DEF TimerFires
<1>5. CASE TimerSetsCode
  BY <1>5 DEF TimerSetsCode
<1>6. CASE TimerParks
  BY <1>6 DEF TimerParks
<1>7. CASE TimerKills
  BY <1>7 DEF TimerKills
<1>8. ASSUME NEW s \in Streams, Write(s) PROVE Killing'
  BY <1>8 DEF Write
<1>9. ASSUME NEW s \in Streams, CloseStream(s) PROVE Killing'
  BY <1>9 DEF CloseStream
<1>10. CASE Fork
  BY <1>10 DEF Fork
<1>11. CASE DescendantEnds
  BY <1>11 DEF DescendantEnds
<1>12. ASSUME NEW e \in Ends \ {"sigkill"}, ChildEnds(e) PROVE Killing'
  BY <1>12 DEF ChildEnds
<1>13. ASSUME NEW s \in Streams, ReadChunk(s) PROVE Killing'
  BY <1>13 DEF ReadChunk
<1>14. ASSUME NEW s \in Streams, ReadEof(s) PROVE Killing'
  BY <1>14 DEF ReadEof
<1>15. ASSUME NEW s \in Streams, ReadFails(s) PROVE Killing'
  BY <1>15 DEF ReadFails
<1>16. CASE Join
  BY <1>16 DEF Join
<1>17. CASE Reap
  BY <1>17 DEF Reap
<1>18. CASE WaitFails
  BY <1>18 DEF WaitFails
<1>19. CASE SetExitCode
  BY <1>19 DEF SetExitCode, ExitCode
<1>20. CASE RunHook
  BY <1>20 DEF RunHook
<1>21. CASE WaiterReturns
  BY <1>21 DEF WaiterReturns, StopTimer
<1>22. CASE StartCollecting
  BY <1>22 DEF StartCollecting
<1>23. CASE RecvStdout
  BY <1>23 DEF RecvStdout, Receiving
<1>24. CASE RecvStderr
  BY <1>24 DEF RecvStderr, Receiving
<1>25. CASE CopyStderr
  BY <1>25 DEF CopyStderr
<1>26. CASE RecvTimeout
  BY <1>26 DEF RecvTimeout, Receiving, RecvExecError
<1>27. CASE RecvWaitError
  BY <1>27 DEF RecvWaitError, Receiving, RecvExecError
<1>28. ASSUME NEW s \in Streams, RecvReadError(s) PROVE Killing'
  BY <1>28 DEF RecvReadError, Receiving, RecvExecError
<1>29. CASE RecvDone
  BY <1>29 DEF RecvDone
<1>30. CASE Respond
  BY <1>30 DEF Respond
<1>31. CASE UNCHANGED vars
  BY <1>31 DEF vars
<1>. QED
  BY <1>1, <1>2, <1>3, <1>4, <1>5, <1>6, <1>7, <1>8, <1>9, <1>10, <1>11, <1>12, <1>13, <1>14, <1>15, <1>16, <1>17, <1>18, <1>19, <1>20, <1>21, <1>22, <1>23, <1>24, <1>25, <1>26, <1>27, <1>28, <1>29, <1>30, <1>31
     DEF Next, CallerStep, TimerStep, ChildStep, ReaderStep, WaiterStep, CollectorStep, Idle

(* Every step keeps the exit code of a run without timeout.                 *)
LEMMA StatusStep == TypeOK /\ Stages /\ Killing /\ Status /\ [Next]_vars => Status'
<1>. SUFFICES ASSUME TypeOK, Stages, Killing, Status, [Next]_vars PROVE Status'
  OBVIOUS
<1>. USE BoundsAssumption DEF TypeOK, Streams, Ends, Chunks, Torn, Messages, callVars, procVars, readVars, collVars
<1>. USE DEF Stages, Settling, Killing, Status, Answered, ExitCode, Reported
<1>1. CASE ArmTimer
  BY <1>1 DEF ArmTimer
<1>2. CASE Launch
  BY <1>2 DEF Launch
<1>3. CASE LaunchFails
  BY <1>3 DEF LaunchFails, StopTimer
<1>4. CASE TimerFires
  BY <1>4 DEF TimerFires
<1>5. CASE TimerSetsCode
  BY <1>5 DEF TimerSetsCode
<1>6. CASE TimerParks
  BY <1>6 DEF TimerParks
<1>7. CASE TimerKills
  BY <1>7 DEF TimerKills
<1>8. ASSUME NEW s \in Streams, Write(s) PROVE Status'
  BY <1>8 DEF Write
<1>9. ASSUME NEW s \in Streams, CloseStream(s) PROVE Status'
  BY <1>9 DEF CloseStream
<1>10. CASE Fork
  BY <1>10 DEF Fork
<1>11. CASE DescendantEnds
  BY <1>11 DEF DescendantEnds
<1>12. ASSUME NEW e \in Ends \ {"sigkill"}, ChildEnds(e) PROVE Status'
  BY <1>12 DEF ChildEnds
<1>13. ASSUME NEW s \in Streams, ReadChunk(s) PROVE Status'
  BY <1>13 DEF ReadChunk
<1>14. ASSUME NEW s \in Streams, ReadEof(s) PROVE Status'
  BY <1>14 DEF ReadEof
<1>15. ASSUME NEW s \in Streams, ReadFails(s) PROVE Status'
  BY <1>15 DEF ReadFails
<1>16. CASE Join
  BY <1>16 DEF Join
<1>17. CASE Reap
  BY <1>17 DEF Reap
<1>18. CASE WaitFails
  BY <1>18 DEF WaitFails
<1>19. CASE SetExitCode
  BY <1>19 DEF SetExitCode, ExitCode
<1>20. CASE RunHook
  BY <1>20 DEF RunHook
<1>21. CASE WaiterReturns
  BY <1>21 DEF WaiterReturns, StopTimer
<1>22. CASE StartCollecting
  BY <1>22 DEF StartCollecting
<1>23. CASE RecvStdout
  BY <1>23 DEF RecvStdout, Receiving
<1>24. CASE RecvStderr
  BY <1>24 DEF RecvStderr, Receiving
<1>25. CASE CopyStderr
  BY <1>25 DEF CopyStderr
<1>26. CASE RecvTimeout
  BY <1>26 DEF RecvTimeout, Receiving, RecvExecError
<1>27. CASE RecvWaitError
  <2>1. CASE waiter = "denied"
    <3>1. gotErr' = Append(gotErr, "denied")
      BY <1>27, <2>1 DEF RecvWaitError, RecvExecError
    <3>2. Reported("denied")'
      BY <3>1, ReportGrows
    <3>. QED
      BY <1>27, <2>1, <3>2 DEF RecvWaitError, Receiving, RecvExecError
  <2>2. CASE waiter = "waitfail"
    BY <1>27, <2>2 DEF RecvWaitError, Receiving, RecvExecError
  <2>. QED
    BY <1>27, <2>1, <2>2 DEF RecvWaitError
<1>28. ASSUME NEW s \in Streams, RecvReadError(s) PROVE Status'
  BY <1>28 DEF RecvReadError, Receiving, RecvExecError
<1>29. CASE RecvDone
  BY <1>29 DEF RecvDone
<1>30. CASE Respond
  BY <1>30 DEF Respond
<1>31. CASE UNCHANGED vars
  BY <1>31 DEF vars
<1>. QED
  BY <1>1, <1>2, <1>3, <1>4, <1>5, <1>6, <1>7, <1>8, <1>9, <1>10, <1>11, <1>12, <1>13, <1>14, <1>15, <1>16, <1>17, <1>18, <1>19, <1>20, <1>21, <1>22, <1>23, <1>24, <1>25, <1>26, <1>27, <1>28, <1>29, <1>30, <1>31
     DEF Next, CallerStep, TimerStep, ChildStep, ReaderStep, WaiterStep, CollectorStep, Idle

(* The four parts hold of a new OutputCaptureRunner.                        *)
LEMMA Start == Init => IInv
<1>. SUFFICES ASSUME Init PROVE IInv
  OBVIOUS
<1>. USE BoundsAssumption DEF Init
<1>1. TypeOK
  <2>1. <<>> \in Seq(Chunks) /\ <<>> \in Seq(Messages)
    OBVIOUS
  <2>2. got \in [Streams -> Seq(Chunks)] /\ gotErr \in Seq(Messages)
    BY <2>1
  <2>3. 0 \in 0 .. MaxChunks
    OBVIOUS
  <2>4. /\ wrote \in [Streams -> 0 .. MaxChunks]
        /\ taken \in [Streams -> 0 .. MaxChunks]
        /\ buf \in [Streams -> 0 .. MaxChunks]
        /\ reader \in [Streams -> {"off", "read", "send", "fail", "done"}]
        /\ writers \in [Streams -> SUBSET {"child", "descendant"}]
    BY <2>3
  <2>. QED
    BY <2>2, <2>3, <2>4 DEF TypeOK, Ends
<1>2. Stages
  BY DEF Stages, Settling, Unlaunched, Streams
<1>3. Streaming
  BY DEF Streaming, Counted, InHand, WithCollector, StdoutCopied, StderrCopied, Drained, Streams
<1>4. Killing /\ Status
  BY DEF Killing, Status, Settling, Answered, Reported
<1>. QED
  BY <1>1, <1>2, <1>3, <1>4 DEF IInv

-----------------------------------------------------------------------------

(* The four parts together hold in every reachable state.                   *)
THEOREM Invariance == Spec => []IInv
<1>1. IInv /\ [Next]_vars => IInv'
  BY TypeStep, StagesStep, StreamingStep, KillingStep, StatusStep DEF IInv
<1>. QED
  BY Start, <1>1, PTL DEF Spec

(* Every variable keeps to its type (output_capture.go, run_code.go).       *)
THEOREM TypeCorrect == Spec => []TypeOK
<1>1. IInv => TypeOK
  BY DEF IInv
<1>. QED
  BY Invariance, <1>1, PTL

(* A response without a read error carries the whole of stdout, whatever    *)
(* the child does and however the goroutines of CaptureOutput interleave.   *)
THEOREM StdoutCorrect == Spec => []StdoutExact
<1>1. IInv => StdoutExact
  <2>. SUFFICES ASSUME IInv, Answered, ~Reported("read") PROVE StdoutExact
    BY DEF StdoutExact
  <2>1. "stdout" \in Streams /\ reader["stdout"] = "done"
    BY DEF IInv, Stages, Answered, Streams
  <2>2. Len(got["stdout"]) = wrote["stdout"]
    BY <2>1, Numbers DEF IInv, Streaming, Counted, InHand, Drained
  <2>. QED
    BY <2>2 DEF IInv, Streaming, StdoutCopied, StdoutExact
<1>. QED
  BY Invariance, <1>1, PTL

(* A response without a read error carries as many chunks of stderr as the  *)
(* child wrote, each of them exact or confused with its successor.          *)
THEOREM StderrBounded == Spec => []StderrSlipsByOne
<1>1. IInv => StderrSlipsByOne
  <2>. SUFFICES ASSUME IInv, Answered, ~Reported("read") PROVE StderrSlipsByOne
    BY DEF StderrSlipsByOne
  <2>1. "stderr" \in Streams /\ reader["stderr"] = "done" /\ lent = 0
    BY DEF IInv, Stages, Answered, Streams
  <2>2. Len(got["stderr"]) = taken["stderr"] /\ taken["stderr"] = wrote["stderr"]
    BY <2>1, Numbers DEF IInv, Streaming, Counted, InHand, WithCollector, Drained
  <2>. QED
    BY <2>2 DEF IInv, Streaming, StderrCopied, StderrSlipsByOne
<1>. QED
  BY Invariance, <1>1, PTL

(* The exit hook runs at most once, after the child has been reaped (or     *)
(* Wait has failed) and the pipes are read, and before the response.        *)
THEOREM HookCorrect == Spec => []HookReleasesOnce
<1>1. IInv => HookReleasesOnce
  BY DEF IInv, Stages, Settling, Answered, HookReleasesOnce
<1>. QED
  BY Invariance, <1>1, PTL

(* A child that the timeout killed is always reported as timed out, with    *)
(* exit code -1.                                                            *)
THEOREM KillCorrect == Spec => []KillIsReported
<1>1. IInv => KillIsReported
  BY DEF IInv, Killing, KillIsReported
<1>. QED
  BY Invariance, <1>1, PTL

(* A run whose timer has not fired reports the child's own status, and a    *)
(* system call that the filter denied.                                      *)
THEOREM StatusCorrect == Spec => []StatusWithoutTimeout
<1>1. IInv => StatusWithoutTimeout
  BY DEF IInv, Stages, Settling, Status, Answered, StatusWithoutTimeout
<1>. QED
  BY Invariance, <1>1, PTL

-----------------------------------------------------------------------------

(* A new run is an idle run of RunContract.                                 *)
LEMMA ContractStart == Init => Contract!Init
BY DEF Init, Contract!Init, Answered

(* Every step of the capture is a step of RunContract or none.              *)
LEMMA ContractStep ==
  ASSUME WaitMayFail = FALSE
  PROVE  IInv /\ [Next]_vars => [Contract!Next]_(Contract!vars)
<1>. SUFFICES ASSUME IInv, [Next]_vars PROVE [Contract!Next]_(Contract!vars)
  OBVIOUS
<1>0. Stages /\ waitErr = FALSE /\ TypeOK
  BY DEF IInv, Stages, TypeOK
<1>. USE <1>0 DEF Stages, Settling, Answered, callVars, procVars, readVars, collVars,
            Contract!vars, Contract!Next
<1>1. CASE ArmTimer
  BY <1>1 DEF ArmTimer
<1>2. CASE Launch
  BY <1>2 DEF Launch, Contract!Launch, Unlaunched
<1>3. CASE LaunchFails
  BY <1>3 DEF LaunchFails, StopTimer, Contract!Refuse, Unlaunched
<1>4. CASE TimerFires
  BY <1>4 DEF TimerFires
<1>5. CASE TimerSetsCode
  BY <1>5 DEF TimerSetsCode
<1>6. CASE TimerParks
  BY <1>6 DEF TimerParks
<1>7. CASE TimerKills
  BY <1>7 DEF TimerKills, Contract!End, Unlaunched
<1>8. ASSUME NEW s \in Streams, Write(s) PROVE [Contract!Next]_(Contract!vars)
  BY <1>8 DEF Write
<1>9. ASSUME NEW s \in Streams, CloseStream(s) PROVE [Contract!Next]_(Contract!vars)
  BY <1>9 DEF CloseStream
<1>10. CASE Fork
  BY <1>10 DEF Fork
<1>11. CASE DescendantEnds
  BY <1>11 DEF DescendantEnds
<1>12. ASSUME NEW e \in Ends \ {"sigkill"}, ChildEnds(e) PROVE [Contract!Next]_(Contract!vars)
  BY <1>12 DEF ChildEnds, Contract!End, Unlaunched
<1>13. ASSUME NEW s \in Streams, ReadChunk(s) PROVE [Contract!Next]_(Contract!vars)
  BY <1>13 DEF ReadChunk
<1>14. ASSUME NEW s \in Streams, ReadEof(s) PROVE [Contract!Next]_(Contract!vars)
  BY <1>14 DEF ReadEof
<1>15. ASSUME NEW s \in Streams, ReadFails(s) PROVE [Contract!Next]_(Contract!vars)
  BY <1>15 DEF ReadFails
<1>16. CASE Join
  BY <1>16 DEF Join
<1>17. CASE Reap
  BY <1>17 DEF Reap
<1>18. CASE WaitFails
  BY <1>18 DEF WaitFails
<1>19. CASE SetExitCode
  BY <1>19 DEF SetExitCode, ExitCode
<1>20. CASE RunHook
  BY <1>20 DEF RunHook, Contract!Settle, Unlaunched
<1>21. CASE WaiterReturns
  BY <1>21 DEF WaiterReturns, StopTimer
<1>22. CASE StartCollecting
  BY <1>22 DEF StartCollecting
<1>23. CASE RecvStdout
  BY <1>23 DEF RecvStdout, Receiving
<1>24. CASE RecvStderr
  BY <1>24 DEF RecvStderr, Receiving
<1>25. CASE CopyStderr
  BY <1>25 DEF CopyStderr
<1>26. CASE RecvTimeout
  BY <1>26 DEF RecvTimeout, Receiving, RecvExecError
<1>27. CASE RecvWaitError
  BY <1>27 DEF RecvWaitError, Receiving, RecvExecError
<1>28. ASSUME NEW s \in Streams, RecvReadError(s) PROVE [Contract!Next]_(Contract!vars)
  BY <1>28 DEF RecvReadError, Receiving, RecvExecError
<1>29. CASE RecvDone
  BY <1>29 DEF RecvDone
<1>30. CASE Respond
  BY <1>30 DEF Respond, Contract!Answer
<1>31. CASE UNCHANGED vars
  BY <1>31 DEF vars
<1>. QED
  BY <1>1, <1>2, <1>3, <1>4, <1>5, <1>6, <1>7, <1>8, <1>9, <1>10, <1>11, <1>12, <1>13, <1>14, <1>15, <1>16, <1>17, <1>18, <1>19, <1>20, <1>21, <1>22, <1>23, <1>24, <1>25, <1>26, <1>27, <1>28, <1>29, <1>30, <1>31
     DEF Next, CallerStep, TimerStep, ChildStep, ReaderStep, WaiterStep, CollectorStep, Idle

(* When Process.Wait does not fail, CaptureOutput and its collector are an  *)
(* implementation of RunContract: what the runners rely on when they leave  *)
(* the UID and the files of a run to the exit hook.                         *)
THEOREM CaptureImplementsContract ==
  ASSUME WaitMayFail = FALSE
  PROVE  Spec => KeepsContract
<1>1. IInv /\ [Next]_vars => [Contract!Next]_(Contract!vars)
  BY ContractStep
<1>. QED
  BY ContractStart, <1>1, Invariance, PTL DEF Spec, KeepsContract, Contract!Spec

=============================================================================
