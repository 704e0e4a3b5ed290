------------------------ MODULE SandboxServiceProofs ------------------------
(***************************************************************************)
(* The ownership discipline of SandboxService, proved for every number of   *)
(* requests, every limit and every range of UIDs, with any call failing or  *)
(* panicking.                                                               *)
(*                                                                          *)
(* Every step of a request is a step of Limits and a step of UidPool, or    *)
(* leaves them alone, so that their invariants, proved in modules of their  *)
(* own, hold here.  On top of them, Places says of each location of a       *)
(* request what it holds there: its slot, its UID, its files, its child     *)
(* and its reply.                                                           *)
(***************************************************************************)
EXTENDS SandboxService, FiniteSetTheorems, SequenceTheorems, TLAPS

LP == INSTANCE LimitsProofs
PP == INSTANCE UidPoolProofs WITH Clients <- Requests, cancelled <- {}

Early == {"new", "worker", "uid", "prepare", "copy", "enter", "ready"}
Owning == {"prepare", "copy", "enter", "ready", "remove", "return"}
Served == Owning \union {"uid", "running"}
Leaving == {"leave", "leaving", "done"}
Locations == Early \union Served \union Leaving

Phases == {"idle", "running", "settled", "answered", "refused"}

TypeOK ==
    /\ pc \in [Requests -> Locations]
    /\ lang \in [Requests -> Languages \union {"none"}]
    /\ reply \in [Requests -> {"none", "unauthorized", "busy", "invalid", "panic", "error", "ok"}]
    /\ uid \in [Requests -> Pool!Uids \union {Pool!NoUid}]
    /\ files \subseteq Requests /\ litter \subseteq Requests /\ unremoved \subseteq Requests
    /\ run \in [Requests -> Phases]
    /\ alive \in [Requests -> BOOLEAN] /\ hooks \in [Requests -> Nat]

(* Its place in the two limits. *)
SlotPlace(r) ==
    /\ r \in admitted <=> pc[r] \notin {"new", "done"}
    /\ r \in leaving <=> pc[r] = "leaving"
    /\ pc[r] \in Served \union {"leave"} => r \in working
    /\ r \in working => pc[r] \in Served \union {"worker", "leave"}
    /\ L!IsParked(r) => pc[r] = "worker"

(* The run goes on under its UID, or has left it behind in a panic. *)
HoldsUid(r) ==
    \/ pc[r] \in Owning
    \/ pc[r] = "running" /\ run[r] = "running"
    \/ reply[r] = "panic"

UidPlace(r) ==
    /\ Pool!IsWaiting(r) => pc[r] = "uid"
    /\ HoldsUid(r) => lease[r] = uid[r] /\ uid[r] \in Pool!Uids
    /\ lease[r] # Pool!NoUid => pc[r] = "uid" \/ HoldsUid(r)

FilePlace(r) ==
    /\ r \in files => \/ pc[r] \in {"copy", "enter", "ready", "remove"}
                      \/ pc[r] = "running" /\ run[r] = "running"
    /\ r \in litter => pc[r] = "return" \/ reply[r] = "error"

RunPlace(r) ==
    /\ pc[r] \in Early => run[r] = "idle"
    /\ pc[r] = "running" <=> run[r] \in {"running", "settled"}
    /\ alive[r] => run[r] = "running"

ReplyPlace(r) == reply[r] \in {"ok", "error", "panic"} => pc[r] \in Leaving

Place(r) == SlotPlace(r) /\ UidPlace(r) /\ FilePlace(r) /\ RunPlace(r) /\ ReplyPlace(r)

Places == \A r \in Requests : Place(r)

Inv == TypeOK /\ Places

-----------------------------------------------------------------------------
(* The limits and the pool. *)

(* Every step of the route is a step of the limits or none of theirs.       *)
LEMMA LimitStep == [Next]_vars => [L!Next]_limitVars
<1>. SUFFICES ASSUME Next, limitVars' # limitVars PROVE L!Next
  BY DEF vars
<1>1. PICK r \in Requests : ServerStep(r) \/ ChildEnds(r)
  BY DEF Next, vars
<1>2. Admit(r) \/ WantWorker(r) \/ LeaveWorker(r) \/ LeaveRequest(r)
  BY <1>1 DEF ServerStep, Route, Handler, Prepare, RunStep, ChildEnds, Unauthorized,
     TooManyRequests, InvalidRequest, StartRun, WantUid, GotUid, WriteBootstrap,
     BootstrapFails, MakeRoot, MakeRootFails, CopyFails, ChangeDir, WriteScript,
     ScriptFails, Panics, Launch, Refuse, CleanUp, ReturnUid, HookRemoves,
     HookReleases, Answer
<1>3. L!TryAcquire(r) \/ L!Enter(r) \/ L!Park(r) \/ L!Leave(r) \/ L!Release(r)
  BY <1>2 DEF Admit, WantWorker, LeaveWorker, LeaveRequest
<1>. QED
  BY <1>3 DEF L!Next

(* Every step of the route is a step of the pool or none of its.            *)
LEMMA PoolStep == [Next]_vars => [Pool!Next]_poolVars
<1>. SUFFICES ASSUME Next, poolVars' # poolVars PROVE Pool!Next
  BY DEF vars
<1>1. PICK r \in Requests : ServerStep(r) \/ ChildEnds(r)
  BY DEF Next, vars
<1>2. WantUid(r) \/ ReturnUid(r) \/ HookReleases(r)
  BY <1>1 DEF ServerStep, Route, Handler, Prepare, RunStep, ChildEnds, Unauthorized,
     Admit, TooManyRequests, WantWorker, LeaveWorker, LeaveRequest, InvalidRequest,
     StartRun, GotUid, WriteBootstrap, BootstrapFails, MakeRoot, MakeRootFails,
     CopyFails, ChangeDir, WriteScript, ScriptFails, Panics, Launch, Refuse, CleanUp,
     HookRemoves, Answer
<1>3. Pool!Acquire(r) \/ Pool!Park(r) \/ Pool!Release(r)
  BY <1>2 DEF WantUid, ReturnUid, HookReleases
<1>. QED
  BY <1>3 DEF Pool!Next

(* What Limits and UidPool assume of the constants. *)
LEMMA Assumptions ==
  /\ LP!IsFiniteSet(Requests) /\ MaxRequests \in Int /\ MaxWorkers \in Nat
  /\ MinUid \in Nat /\ MaxUid \in Nat /\ MinUid <= MaxUid
<1>1. LP!IsFiniteSet(Requests)
  BY ServiceAssumption DEF IsFiniteSet, LP!IsFiniteSet
<1>. QED
  BY <1>1, ServiceAssumption

(* So the invariant of the limits holds here ...                            *)
LEMMA LimitInv == Spec => []LP!Inv
<1>1. Init => LP!Inv
  <2>1. Init => LP!Init
    BY DEF Init, L!Init, LP!Init
  <2>. QED
    BY <2>1, LP!InitInv, Assumptions
<1>2. LP!Inv /\ [Next]_vars => LP!Inv'
  <2>1. [L!Next]_limitVars => [LP!Next]_LP!vars
    BY DEF limitVars, LP!vars, L!Next, LP!Next, L!TryAcquire, LP!TryAcquire,
       L!Enter, LP!Enter, L!Park, LP!Park, L!Leave, LP!Leave, L!Release, LP!Release,
       L!AtDoor, LP!AtDoor, L!IsParked, LP!IsParked, L!Cardinality, LP!Cardinality
  <2>. QED
    BY <2>1, LimitStep, LP!StepInv, Assumptions
<1>. QED
  BY <1>1, <1>2, PTL DEF Spec

(* ... and that of the pool.                                                *)
LEMMA PoolInv == Spec => []PP!Inv
<1>1. Init => PP!Inv
  <2>1. Init => PP!Init
    BY DEF Init, PP!Init, Pool!Capacity, PP!Capacity, Pool!NoUid, PP!NoUid
  <2>. QED
    BY <2>1, PP!InitInv, Assumptions
<1>2. PP!Inv /\ [Next]_vars => PP!Inv'
  <2>1. [Pool!Next]_poolVars => [PP!Next]_PP!vars
    BY DEF poolVars, PP!vars, Pool!Next, PP!Next, Pool!Acquire, PP!Acquire,
       Pool!Park, PP!Park, Pool!Cancel, PP!Cancel, Pool!GiveUp, PP!GiveUp,
       Pool!Release, PP!Release, Pool!Idle, PP!Idle, Pool!IsWaiting, PP!IsWaiting,
       Pool!Without, PP!Without, Pool!Uids, PP!Uids, Pool!NoUid, PP!NoUid,
       Pool!Capacity, PP!Capacity
  <2>. QED
    BY <2>1, PoolStep, PP!StepInv, Assumptions
<1>. QED
  BY <1>1, <1>2, PTL DEF Spec

-----------------------------------------------------------------------------
(* What the two invariants say here. *)

(* Of the limits ...                                                        *)
LEMMA LimitFacts ==
  ASSUME LP!Inv
  PROVE  /\ current = Cardinality(admitted) /\ admitted \subseteq Requests
         /\ working \subseteq admitted /\ leaving \subseteq admitted
         /\ working \intersect leaving = {} /\ Cardinality(working) <= MaxWorkers
         /\ parked \in Seq(Requests)
         /\ \A i \in 1 .. Len(parked) : parked[i] \in admitted \ (working \union leaving)
BY DEF LP!Inv, LP!TypeOK, LP!CounterExact, LP!SlotsExact, LP!OnePlace,
       LP!Cardinality, Cardinality

(* Somebody waits for a slot only while all slots are taken. *)
LEMMA Crowded ==
  ASSUME LP!Inv, parked # <<>>, MaxWorkers # 0
  PROVE  working # {}
<1>1. Cardinality(working) = MaxWorkers
  BY DEF LP!Inv, LP!SlotsExact, LP!Cardinality, Cardinality
<1>. QED
  BY <1>1, FS_EmptySet

(* ... and of the pool.                                                     *)
LEMMA PoolFacts ==
  ASSUME PP!Inv
  PROVE  /\ avail \in Seq(Pool!Uids) /\ waiting \in Seq(Requests)
         /\ lease \in [Requests -> Pool!Uids \union {Pool!NoUid}]
         /\ waiting # <<>> => avail = <<>>
         /\ \A i, j \in 1 .. Len(waiting) : i # j => waiting[i] # waiting[j]
         /\ \A i \in 1 .. Len(waiting) : lease[waiting[i]] = Pool!NoUid
         /\ \A u \in Pool!Uids :
               (\E i \in 1 .. Len(avail) : avail[i] = u) \/ (\E r \in Requests : lease[r] = u)
         /\ \A i, j \in 1 .. Len(avail) : i # j => avail[i] # avail[j]
         /\ \A r, q \in Requests : r # q /\ lease[r] \in Pool!Uids => lease[r] # lease[q]
BY DEF PP!Inv, PP!TypeOK, PP!EveryUidOnce, PP!WaitOnlyWhenEmpty, PP!Buffered, PP!Leased,
       PP!Uids, Pool!Uids, PP!NoUid, Pool!NoUid

(* The range of UIDs: natural numbers, and as many as the pool holds.       *)
LEMMA UidsAreNat == Pool!Uids \subseteq Nat /\ Pool!NoUid \notin Pool!Uids /\ Pool!Capacity \in Nat
BY Assumptions DEF Pool!Uids, Pool!NoUid, Pool!Capacity

(* There are as many UIDs as the channel has room for.                      *)
LEMMA UidCount == Cardinality(Pool!Uids) = Pool!Capacity
<1>. DEFINE top == MaxUid - 1
<1>1. /\ MinUid \in Int /\ top \in Int
      /\ (IF MinUid > top THEN 0 ELSE top - MinUid + 1) = MaxUid - MinUid
  BY Assumptions
<1>2. Cardinality(MinUid .. top) = MaxUid - MinUid
  <2>. HIDE DEF top
  <2>1. Cardinality(MinUid .. top) = IF MinUid > top THEN 0 ELSE top - MinUid + 1
    BY <1>1, FS_Interval
  <2>. QED
    BY <1>1, <2>1
<1>. QED
  BY <1>2 DEF Pool!Uids, Pool!Capacity

(* Who is in a queue, after a send and after a receive.                     *)
LEMMA Queued ==
  ASSUME NEW S, NEW q \in Seq(S), NEW x \in S
  PROVE  /\ (\E i \in 1 .. Len(Append(q, x)) : Append(q, x)[i] = x)
         /\ \A y : y # x => (  (\E i \in 1 .. Len(Append(q, x)) : Append(q, x)[i] = y)
                            <=> (\E i \in 1 .. Len(q) : q[i] = y))
<1>1. /\ Len(q) \in Nat /\ Len(Append(q, x)) = Len(q) + 1
      /\ \A i \in 1 .. Len(q) : Append(q, x)[i] = q[i]
      /\ Append(q, x)[Len(q) + 1] = x
  BY PP!Sent
<1>. QED
  BY <1>1

(* What is left of a queue was not its head.                                *)
LEMMA Dequeued ==
  ASSUME NEW S, NEW q \in Seq(S), q # <<>>, NEW y,
         \E i \in 1 .. Len(Tail(q)) : Tail(q)[i] = y
  PROVE  \E i \in 1 .. Len(q) : i # 1 /\ q[i] = y
<1>1. /\ Len(q) \in Nat \ {0} /\ Len(Tail(q)) = Len(q) - 1
      /\ \A i \in 1 .. Len(q) - 1 : Tail(q)[i] = q[i + 1]
  BY PP!Received
<1>2. PICK i \in 1 .. Len(Tail(q)) : Tail(q)[i] = y
  OBVIOUS
<1>3. i + 1 \in 1 .. Len(q) /\ i + 1 # 1 /\ q[i + 1] = y
  BY <1>1, <1>2
<1>. QED
  BY <1>3

-----------------------------------------------------------------------------
(* The steps. *)

(* A server without requests.                                               *)
LEMMA InitInv == Init => Inv
<1>. SUFFICES ASSUME Init PROVE Inv
  OBVIOUS
<1>1. TypeOK
  BY DEF Init, TypeOK, Locations, Early, Phases
<1>2. ASSUME NEW r \in Requests PROVE Place(r)
  BY UidsAreNat DEF Init, L!Init, Place, SlotPlace, L!IsParked, UidPlace, HoldsUid,
     Pool!IsWaiting, FilePlace, RunPlace, ReplyPlace, Early, Owning, Served, Leaving
<1>. QED
  BY <1>1, <1>2 DEF Inv, Places

(* A step of r leaves what concerns the other requests alone, but that it   *)
(* may hand on its slot or its UID to one that waits for it.                *)
OnlyFor(r) == \A q \in Requests \ {r} :
    /\ pc'[q] = pc[q] /\ reply'[q] = reply[q] /\ uid'[q] = uid[q]
    /\ run'[q] = run[q] /\ alive'[q] = alive[q]
    /\ q \in files' <=> q \in files
    /\ q \in litter' <=> q \in litter

SlotsElsewhere(r) == \A q \in Requests \ {r} :
    /\ q \in admitted' <=> q \in admitted
    /\ q \in leaving' <=> q \in leaving
    /\ q \in working => q \in working'
    /\ q \in working' => q \in working \/ pc[q] = "worker"
    /\ L!IsParked(q)' => L!IsParked(q)

UidsElsewhere(r) == \A q \in Requests \ {r} :
    /\ lease'[q] = lease[q] \/ pc[q] = "uid"
    /\ Pool!IsWaiting(q)' => Pool!IsWaiting(q)

(* Then only the place of r is in question.                                 *)
LEMMA StepOf ==
  ASSUME Inv, NEW r \in Requests, OnlyFor(r), SlotsElsewhere(r), UidsElsewhere(r),
         TypeOK', Place(r)'
  PROVE  Inv'
<1>1. ASSUME NEW q \in Requests \ {r} PROVE Place(q)'
  <2>1. Place(q)
    BY DEF Inv, Places
  <2>2. SlotPlace(q)'
    BY <2>1 DEF OnlyFor, SlotsElsewhere, Place, SlotPlace, Served
  <2>3. UidPlace(q)'
    BY <2>1 DEF OnlyFor, UidsElsewhere, Place, UidPlace, HoldsUid, ReplyPlace, Owning,
                Leaving
  <2>4. FilePlace(q)' /\ RunPlace(q)' /\ ReplyPlace(q)'
    BY <2>1 DEF OnlyFor, Place, FilePlace, RunPlace, ReplyPlace
  <2>. QED
    BY <2>2, <2>3, <2>4 DEF Place
<1>. QED
  BY <1>1 DEF Inv, Places

(* A step that touches neither the limits nor the pool concerns nobody else. *)
LEMMA QuietSlots ==
  ASSUME UNCHANGED limitVars, NEW r PROVE SlotsElsewhere(r)
BY DEF limitVars, SlotsElsewhere, L!IsParked

(* ... nor the UID of another.                                              *)
LEMMA QuietUids ==
  ASSUME UNCHANGED poolVars, NEW r PROVE UidsElsewhere(r)
BY DEF poolVars, UidsElsewhere, Pool!IsWaiting

(* The steps that take and give back neither a slot nor a UID.              *)
LEMMA QuietInv ==
  ASSUME Inv, LP!Inv, PP!Inv, NEW r \in Requests, UNCHANGED <<limitVars, poolVars>>,
         \/ Unauthorized(r) \/ TooManyRequests(r) \/ InvalidRequest(r)
         \/ (\E l \in Languages : StartRun(r, l)) \/ GotUid(r) \/ WriteBootstrap(r)
         \/ BootstrapFails(r) \/ MakeRoot(r) \/ MakeRootFails(r)
         \/ CopyFails(r) \/ ChangeDir(r) \/ WriteScript(r)
         \/ ScriptFails(r) \/ Panics(r) \/ Launch(r)
         \/ Refuse(r) \/ CleanUp(r) \/ ChildEnds(r)
         \/ HookRemoves(r) \/ Answer(r)
  PROVE  Inv'
<1>. USE DEF Go, Reply, OnlyFor
<1>0. /\ TypeOK /\ Place(r) /\ lease \in [Requests -> Pool!Uids \union {Pool!NoUid}]
      /\ L!IsParked(r)' => pc[r] = "worker" /\ r \notin working
      /\ Pool!IsWaiting(r)' => pc[r] = "uid" /\ lease[r] = Pool!NoUid
      /\ limitVars' = limitVars /\ poolVars' = poolVars
  <2>1. TypeOK /\ Place(r) /\ lease \in [Requests -> Pool!Uids \union {Pool!NoUid}]
    BY PoolFacts DEF Inv, Places
  <2>2. L!IsParked(r)' => pc[r] = "worker" /\ r \notin working
    BY <2>1, LimitFacts DEF limitVars, L!IsParked, Place, SlotPlace
  <2>3. Pool!IsWaiting(r)' => pc[r] = "uid" /\ lease[r] = Pool!NoUid
    BY <2>1, PoolFacts DEF poolVars, Pool!IsWaiting, Place, UidPlace
  <2>4. limitVars' = limitVars /\ poolVars' = poolVars
    OBVIOUS
  <2>. QED
    BY <2>1, <2>2, <2>3, <2>4
<1>. SUFFICES TypeOK' /\ OnlyFor(r) /\ Place(r)'
  BY QuietSlots, QuietUids, StepOf
<1>. USE UidsAreNat DEF Remove, TypeOK, Place, SlotPlace, UidPlace, HoldsUid, FilePlace, RunPlace,
       ReplyPlace, Locations, Early, Owning, Served, Leaving, Phases, reqVars, fileVars,
       limitVars, poolVars, runVars
<1>1. CASE Unauthorized(r)
  BY <1>0, <1>1 DEF Unauthorized
<1>2. CASE TooManyRequests(r)
  BY <1>0, <1>2 DEF TooManyRequests
<1>3. CASE InvalidRequest(r)
  BY <1>0, <1>3 DEF InvalidRequest
<1>4. ASSUME NEW l \in Languages, StartRun(r, l) PROVE TypeOK' /\ OnlyFor(r) /\ Place(r)'
  BY <1>0, <1>4 DEF StartRun
<1>5. CASE GotUid(r)
  BY <1>0, <1>5 DEF GotUid
<1>6. CASE WriteBootstrap(r)
  BY <1>0, <1>6 DEF WriteBootstrap
<1>7. CASE BootstrapFails(r)
  BY <1>0, <1>7 DEF BootstrapFails
<1>8. CASE MakeRoot(r)
  BY <1>0, <1>8 DEF MakeRoot
<1>9. CASE MakeRootFails(r)
  BY <1>0, <1>9 DEF MakeRootFails
<1>10. CASE CopyFails(r)
  BY <1>0, <1>10 DEF CopyFails
<1>11. CASE ChangeDir(r)
  BY <1>0, <1>11 DEF ChangeDir
<1>12. CASE WriteScript(r)
  BY <1>0, <1>12 DEF WriteScript
<1>13. CASE ScriptFails(r)
  BY <1>0, <1>13 DEF ScriptFails
<1>14. CASE Panics(r)
  BY <1>0, <1>14 DEF Panics
<1>15. CASE Launch(r)
  BY <1>0, <1>15 DEF Launch
<1>16. CASE Refuse(r)
  BY <1>0, <1>16 DEF Refuse
<1>17. CASE CleanUp(r)
  BY <1>0, <1>17 DEF CleanUp
<1>18. CASE ChildEnds(r)
  BY <1>0, <1>18 DEF ChildEnds
<1>19. CASE HookRemoves(r)
  BY <1>0, <1>19 DEF HookRemoves
<1>20. CASE Answer(r)
  BY <1>0, <1>20 DEF Answer
<1>. QED
  BY <1>1, <1>2, <1>3, <1>4, <1>5, <1>6, <1>7, <1>8, <1>9, <1>10, <1>11,
     <1>12, <1>13, <1>14, <1>15, <1>16, <1>17, <1>18, <1>19, <1>20

(* The request limit lets a request in.                                     *)
LEMMA AdmitInv == ASSUME Inv, LP!Inv, NEW r \in Requests, Admit(r) PROVE Inv'
<1>. USE DEF Admit, Go, L!TryAcquire
<1>1. TypeOK /\ Place(r) /\ working \subseteq admitted
  BY LimitFacts DEF Inv, Places
<1>2. TypeOK' /\ OnlyFor(r)
  BY <1>1 DEF OnlyFor, TypeOK, Locations, Early, runVars, fileVars
<1>3. SlotsElsewhere(r) /\ UidsElsewhere(r)
  BY QuietUids DEF SlotsElsewhere, L!IsParked
<1>4. SlotPlace(r)'
  BY <1>1 DEF TypeOK, Place, SlotPlace, L!IsParked, Served, Owning
<1>5. UidPlace(r)'
  BY <1>1 DEF TypeOK, Place, UidPlace, HoldsUid, ReplyPlace, Pool!IsWaiting, poolVars,
              runVars, Owning, Leaving
<1>6. FilePlace(r)' /\ RunPlace(r)' /\ ReplyPlace(r)'
  BY <1>1 DEF TypeOK, Place, FilePlace, RunPlace, ReplyPlace, runVars, fileVars, Early,
              Leaving
<1>. QED
  BY <1>2, <1>3, <1>4, <1>5, <1>6, StepOf DEF Place

(* A request gets a worker slot or queues for one.                          *)
LEMMA WantWorkerInv == ASSUME Inv, LP!Inv, NEW r \in Requests, WantWorker(r) PROVE Inv'
<1>. USE DEF WantWorker
<1>1. /\ TypeOK /\ Place(r) /\ pc[r] = "worker"
      /\ r \in admitted /\ r \notin working /\ r \notin leaving
      /\ parked \in Seq(Requests)
  BY LimitFacts DEF Inv, Places, L!Enter, L!Park, L!AtDoor
<1>2. TypeOK' /\ OnlyFor(r)
  BY <1>1 DEF OnlyFor, TypeOK, runVars, fileVars, reqVars
<1>3. UidsElsewhere(r)
  BY QuietUids
<1>4. SlotsElsewhere(r)
  <2>1. CASE L!Enter(r)
    BY <2>1 DEF L!Enter, SlotsElsewhere, L!IsParked
  <2>2. CASE L!Park(r)
    BY <1>1, <2>2, Queued DEF L!Park, SlotsElsewhere, L!IsParked
  <2>. QED
    BY <2>1, <2>2
<1>5. SlotPlace(r)'
  BY <1>1 DEF L!Enter, L!Park, reqVars, Place, SlotPlace, Served, Owning
<1>6. UidPlace(r)' /\ FilePlace(r)' /\ RunPlace(r)' /\ ReplyPlace(r)'
  BY <1>1 DEF Place, UidPlace, HoldsUid, FilePlace, RunPlace, ReplyPlace, Pool!IsWaiting,
              poolVars, runVars, fileVars, reqVars
<1>. QED
  BY <1>2, <1>3, <1>4, <1>5, <1>6, StepOf DEF Place

(* A request gives its slot back, and the first that waits gets it.         *)
LEMMA LeaveWorkerInv == ASSUME Inv, LP!Inv, NEW r \in Requests, LeaveWorker(r) PROVE Inv'
<1>. USE DEF LeaveWorker, Go, L!Leave
<1>1. /\ TypeOK /\ Place(r) /\ r \in working /\ pc[r] = "leave" /\ r \in admitted
      /\ parked \in Seq(Requests)
  BY LimitFacts DEF Inv, Places
<1>2. TypeOK' /\ OnlyFor(r)
  BY <1>1 DEF OnlyFor, TypeOK, Locations, Leaving, runVars, fileVars
<1>3. UidsElsewhere(r)
  BY QuietUids
<1>4. ASSUME NEW q, L!IsParked(q)' PROVE L!IsParked(q)
  <2>1. CASE parked = <<>>
    BY <1>4, <2>1 DEF L!IsParked
  <2>2. CASE parked # <<>>
    <3>1. \E i \in 1 .. Len(Tail(parked)) : Tail(parked)[i] = q
      BY <1>4, <2>2 DEF L!IsParked
    <3>. QED
      BY <1>1, <2>2, <3>1, Dequeued DEF L!IsParked
  <2>. QED
    BY <2>1, <2>2
<1>5. parked # <<>> => Head(parked) \in Requests \ {r} /\ pc[Head(parked)] = "worker"
  <2>. SUFFICES ASSUME parked # <<>>
                PROVE  Head(parked) \in Requests \ {r} /\ pc[Head(parked)] = "worker"
    OBVIOUS
  <2>1. 1 \in 1 .. Len(parked) /\ parked[1] = Head(parked) /\ Head(parked) \in Requests
    BY <1>1, PP!Received
  <2>2. Head(parked) # r
    BY <1>1, <2>1, LimitFacts
  <2>3. L!IsParked(Head(parked))
    BY <2>1 DEF L!IsParked
  <2>. QED
    BY <2>1, <2>2, <2>3 DEF Inv, Places, Place, SlotPlace
<1>6. SlotsElsewhere(r)
  BY <1>4, <1>5 DEF SlotsElsewhere
<1>7. SlotPlace(r)'
  BY <1>1, <1>4, <1>5 DEF TypeOK, Place, SlotPlace, Served, Owning
<1>8. UidPlace(r)' /\ FilePlace(r)' /\ RunPlace(r)' /\ ReplyPlace(r)'
  BY <1>1 DEF TypeOK, Place, UidPlace, HoldsUid, FilePlace, RunPlace, ReplyPlace,
              Pool!IsWaiting, poolVars, runVars, fileVars, Early, Owning, Leaving
<1>. QED
  BY <1>2, <1>3, <1>6, <1>7, <1>8, StepOf DEF Place

(* A request leaves the server.                                             *)
LEMMA LeaveRequestInv == ASSUME Inv, LP!Inv, NEW r \in Requests, LeaveRequest(r) PROVE Inv'
<1>. USE DEF LeaveRequest, Go, L!Release
<1>1. TypeOK /\ Place(r) /\ r \in leaving /\ r \notin working /\ pc[r] = "leaving"
  BY LimitFacts DEF Inv, Places
<1>2. TypeOK' /\ OnlyFor(r)
  BY <1>1 DEF OnlyFor, TypeOK, Locations, Leaving, runVars, fileVars
<1>3. SlotsElsewhere(r) /\ UidsElsewhere(r)
  BY QuietUids DEF SlotsElsewhere, L!IsParked
<1>4. SlotPlace(r)'
  BY <1>1 DEF TypeOK, Place, SlotPlace, L!IsParked, Served, Owning
<1>5. UidPlace(r)' /\ FilePlace(r)' /\ RunPlace(r)' /\ ReplyPlace(r)'
  BY <1>1 DEF TypeOK, Place, UidPlace, HoldsUid, FilePlace, RunPlace, ReplyPlace,
              Pool!IsWaiting, poolVars, runVars, fileVars, Early, Owning, Leaving
<1>. QED
  BY <1>2, <1>3, <1>4, <1>5, StepOf DEF Place

(* A run gets a UID or queues for one.                                      *)
LEMMA WantUidInv == ASSUME Inv, PP!Inv, NEW r \in Requests, WantUid(r) PROVE Inv'
<1>. USE DEF WantUid
<1>1. /\ TypeOK /\ Place(r) /\ pc[r] = "uid" /\ waiting \in Seq(Requests)
      /\ lease \in [Requests -> Pool!Uids \union {Pool!NoUid}]
  BY PoolFacts DEF Inv, Places
<1>2. TypeOK' /\ OnlyFor(r)
  BY <1>1 DEF OnlyFor, TypeOK, runVars, fileVars, reqVars
<1>3. SlotsElsewhere(r)
  BY QuietSlots
<1>4. UidsElsewhere(r)
  <2>1. CASE Pool!Acquire(r)
    BY <1>1, <2>1 DEF Pool!Acquire, UidsElsewhere, Pool!IsWaiting
  <2>2. CASE Pool!Park(r)
    BY <1>1, <2>2, Queued DEF Pool!Park, UidsElsewhere, Pool!IsWaiting
  <2>. QED
    BY <2>1, <2>2
<1>5. UidPlace(r)'
  BY <1>1 DEF reqVars, runVars, Place, UidPlace, HoldsUid, ReplyPlace, Owning, Leaving
<1>6. SlotPlace(r)' /\ FilePlace(r)' /\ RunPlace(r)' /\ ReplyPlace(r)'
  BY <1>1 DEF Place, SlotPlace, FilePlace, RunPlace, ReplyPlace, L!IsParked,
              limitVars, runVars, fileVars, reqVars
<1>. QED
  BY <1>2, <1>3, <1>4, <1>5, <1>6, StepOf DEF Place

(* A UID that is given back goes to the first run that waits, or is free.   *)
LEMMA ReleaseSteps ==
  ASSUME Inv, PP!Inv, NEW r \in Requests, Pool!Release(r), pc[r] # "uid"
  PROVE  UidsElsewhere(r) /\ lease'[r] = Pool!NoUid /\ ~Pool!IsWaiting(r)'
<1>. USE DEF Pool!Release
<1>1. /\ TypeOK /\ Place(r) /\ waiting \in Seq(Requests)
      /\ lease \in [Requests -> Pool!Uids \union {Pool!NoUid}]
  BY PoolFacts DEF Inv, Places
<1>2. waiting # <<>> => Head(waiting) \in Requests \ {r} /\ pc[Head(waiting)] = "uid"
  <2>. SUFFICES ASSUME waiting # <<>>
                PROVE  Head(waiting) \in Requests \ {r} /\ pc[Head(waiting)] = "uid"
    OBVIOUS
  <2>1. 1 \in 1 .. Len(waiting) /\ waiting[1] = Head(waiting) /\ Head(waiting) \in Requests
    BY <1>1, PP!Received
  <2>2. Pool!IsWaiting(Head(waiting))
    BY <2>1 DEF Pool!IsWaiting
  <2>. QED
    BY <2>1, <2>2 DEF Inv, Places, Place, UidPlace
<1>3. ASSUME NEW q, Pool!IsWaiting(q)' PROVE Pool!IsWaiting(q)
  <2>1. CASE waiting = <<>>
    BY <1>3, <2>1 DEF Pool!IsWaiting
  <2>2. CASE waiting # <<>>
    <3>1. \E i \in 1 .. Len(Tail(waiting)) : Tail(waiting)[i] = q
      BY <1>3, <2>2 DEF Pool!IsWaiting
    <3>. QED
      BY <1>1, <2>2, <3>1, Dequeued DEF Pool!IsWaiting
  <2>. QED
    BY <2>1, <2>2
<1>4. ~Pool!IsWaiting(r)'
  BY <1>1, <1>3 DEF Place, UidPlace
<1>5. lease'[r] = Pool!NoUid /\ \A q \in Requests \ {r} : lease'[q] = lease[q] \/ pc[q] = "uid"
  <2>1. CASE waiting = <<>>
    BY <1>1, <2>1
  <2>2. CASE waiting # <<>>
    BY <1>1, <1>2, <2>2
  <2>. QED
    BY <2>1, <2>2
<1>. QED
  BY <1>3, <1>4, <1>5 DEF UidsElsewhere

(* The error path of a run gives the UID back.                              *)
LEMMA ReturnUidInv == ASSUME Inv, PP!Inv, NEW r \in Requests, ReturnUid(r) PROVE Inv'
<1>. USE DEF ReturnUid, Go, Reply
<1>1. TypeOK /\ Place(r) /\ pc[r] = "return"
  BY DEF Inv, Places
<1>2. TypeOK' /\ OnlyFor(r)
  BY <1>1 DEF OnlyFor, TypeOK, Locations, Leaving, runVars, fileVars
<1>3. SlotsElsewhere(r)
  BY QuietSlots
<1>4. UidsElsewhere(r) /\ lease'[r] = Pool!NoUid /\ ~Pool!IsWaiting(r)'
  BY <1>1, ReleaseSteps
<1>5. UidPlace(r)'
  BY <1>1, <1>4 DEF TypeOK, UidPlace, HoldsUid, Owning
<1>6. SlotPlace(r)' /\ FilePlace(r)' /\ RunPlace(r)' /\ ReplyPlace(r)'
  BY <1>1 DEF TypeOK, Place, SlotPlace, FilePlace, RunPlace, ReplyPlace, L!IsParked,
              limitVars, runVars, fileVars, Early, Owning, Served, Leaving
<1>. QED
  BY <1>2, <1>3, <1>4, <1>5, <1>6, StepOf DEF Place

(* The exit hook gives the UID back.                                        *)
LEMMA HookReleasesInv == ASSUME Inv, PP!Inv, NEW r \in Requests, HookReleases(r) PROVE Inv'
<1>. USE DEF HookReleases
<1>1. TypeOK /\ Place(r) /\ pc[r] = "running" /\ reply[r] # "panic"
  BY DEF Inv, Places, Place, RunPlace, ReplyPlace, Leaving
<1>2. TypeOK' /\ OnlyFor(r)
  BY <1>1 DEF OnlyFor, TypeOK, Phases, reqVars, fileVars
<1>3. SlotsElsewhere(r)
  BY QuietSlots
<1>4. UidsElsewhere(r) /\ lease'[r] = Pool!NoUid /\ ~Pool!IsWaiting(r)'
  BY <1>1, ReleaseSteps
<1>5. UidPlace(r)'
  BY <1>1, <1>4 DEF TypeOK, UidPlace, HoldsUid, Owning, reqVars
<1>6. SlotPlace(r)' /\ FilePlace(r)' /\ RunPlace(r)' /\ ReplyPlace(r)'
  BY <1>1 DEF TypeOK, Place, SlotPlace, FilePlace, RunPlace, ReplyPlace, L!IsParked,
              limitVars, reqVars, fileVars, Early
<1>. QED
  BY <1>2, <1>3, <1>4, <1>5, <1>6, StepOf DEF Place

(* Every step keeps the invariant. *)
LEMMA StepInv == Inv /\ LP!Inv /\ PP!Inv /\ [Next]_vars => Inv'
<1>. SUFFICES ASSUME Inv, LP!Inv, PP!Inv, [Next]_vars PROVE Inv'
  OBVIOUS
<1>1. ASSUME NEW r \in Requests, ServerStep(r) \/ ChildEnds(r) PROVE Inv'
  <2>1. CASE Admit(r) \/ WantWorker(r) \/ LeaveWorker(r) \/ LeaveRequest(r)
    BY <2>1, AdmitInv, WantWorkerInv, LeaveWorkerInv, LeaveRequestInv
  <2>2. CASE WantUid(r) \/ ReturnUid(r) \/ HookReleases(r)
    BY <2>2, WantUidInv, ReturnUidInv, HookReleasesInv
  <2>3. CASE \/ Unauthorized(r) \/ TooManyRequests(r) \/ InvalidRequest(r)
             \/ (\E l \in Languages : StartRun(r, l)) \/ GotUid(r) \/ WriteBootstrap(r)
             \/ BootstrapFails(r) \/ MakeRoot(r) \/ MakeRootFails(r)
             \/ CopyFails(r) \/ ChangeDir(r) \/ WriteScript(r)
             \/ ScriptFails(r) \/ Panics(r) \/ Launch(r)
             \/ Refuse(r) \/ CleanUp(r) \/ ChildEnds(r)
             \/ HookRemoves(r) \/ Answer(r)
    <3>1. UNCHANGED <<limitVars, poolVars>>
      BY <2>3 DEF Unauthorized, TooManyRequests, InvalidRequest, StartRun, GotUid,
         WriteBootstrap, BootstrapFails, MakeRoot, MakeRootFails, CopyFails, ChangeDir,
         WriteScript, ScriptFails, Panics, Launch, Refuse, CleanUp, ChildEnds,
         HookRemoves, Answer
    <3>. QED
      BY <2>3, <3>1, QuietInv
  <2>. QED
    BY <1>1, <2>1, <2>2, <2>3 DEF ServerStep, Route, Handler, Prepare, RunStep
<1>2. CASE UNCHANGED vars
  <2>. USE <1>2 DEF vars, reqVars, limitVars, poolVars, fileVars, dirVars, runVars, Inv
  <2>1. TypeOK'
    BY DEF TypeOK
  <2>2. ASSUME NEW r \in Requests PROVE Place(r)'
    <3>1. Place(r)
      BY DEF Places
    <3>. QED
      BY <3>1 DEF Place, SlotPlace, L!IsParked, UidPlace, HoldsUid, Pool!IsWaiting, FilePlace,
         RunPlace, ReplyPlace
  <2>. QED
    BY <2>1, <2>2 DEF Places
<1>. QED
  BY <1>1, <1>2 DEF Next

-----------------------------------------------------------------------------

(* What a request holds at each of its locations (run.go, python.go,        *)
(* nodejs.go, temp_dir.go, cocrrent.go).                                    *)
THEOREM Invariance == Spec => []Inv
BY InitInv, StepInv, LimitInv, PoolInv, PTL DEF Spec

(* The variables of the route keep their types.                             *)
THEOREM TypeCorrect == Spec => []TypeOK
<1>1. Inv => TypeOK
  BY DEF Inv
<1>. QED
  BY <1>1, Invariance, PTL

(* While a child of a run exists, or files whose removal has not been tried *)
(* yet, its UID is its own (python.go:44-64, 107-114, nodejs.go:60-83,      *)
(* 110-129).                                                                *)
THEOREM UidIsHeldLongEnough == Spec => []UidOutlivesRun
<1>1. Inv => UidOutlivesRun
  BY DEF Inv, Places, Place, UidPlace, HoldsUid, FilePlace, RunPlace, Owning,
         UidOutlivesRun, InUse
<1>. QED
  BY <1>1, Invariance, PTL

(* A UID that is out is held by a run that goes on or by one that panicked. *)
THEOREM NoUidIsLost == Spec => []UidAccounted
<1>1. Inv => UidAccounted
  BY DEF Inv, Places, Place, UidPlace, HoldsUid, Owning, UidAccounted
<1>. QED
  BY <1>1, Invariance, PTL

(* A response means that the child is gone, the removal of the files tried  *)
(* and the UID given back, in any order of failures (python.go:107-121,     *)
(* nodejs.go:122-136).                                                      *)
THEOREM RepliesComeLast == Spec => []ReplyAfterCleanup
<1>1. Inv => ReplyAfterCleanup
  <2>. SUFFICES ASSUME Inv, NEW r \in Requests, reply[r] \in {"ok", "error"}
                PROVE  /\ lease[r] = Pool!NoUid /\ ~InUse(r)
                       /\ r \in litter => reply[r] = "error"
    BY DEF ReplyAfterCleanup
  <2>1. Place(r) /\ pc[r] \in Leaving
    BY DEF Inv, Places, Place, ReplyPlace
  <2>. QED
    BY <2>1 DEF Place, UidPlace, HoldsUid, FilePlace, RunPlace, Owning, Leaving, InUse
<1>. QED
  BY <1>1, Invariance, PTL

(* Nobody is in the server, and everything is back where it was: nothing is *)
(* lost in any order of failures, but what a panic keeps.                   *)
THEOREM IdleServerIsRestored == Spec => []RestoredWhenIdle
<1>1. Inv /\ LP!Inv /\ PP!Inv => RestoredWhenIdle
  <2>. SUFFICES ASSUME Inv, LP!Inv, PP!Inv, AllDone PROVE RestoredWhenIdle
    BY DEF RestoredWhenIdle
  <2>1. \A r \in Requests : pc[r] = "done" /\ Place(r)
    BY DEF AllDone, Inv, Places
  <2>2. admitted = {} /\ working = {}
    BY <2>1, LimitFacts DEF Place, SlotPlace
  <2>3. current = 0
    BY <2>2, LimitFacts, FS_EmptySet
  <2>4. parked = <<>>
    <3>1. ASSUME parked # <<>> PROVE FALSE
      BY <2>2, <3>1, LimitFacts, PP!Received
    <3>. QED
      BY <3>1
  <2>5. files = {}
    BY <2>1 DEF Inv, TypeOK, Place, FilePlace
  <2>6. ASSUME \A r \in Requests : reply[r] # "panic" PROVE Len(avail) = Pool!Capacity
    <3>1. \A r \in Requests : lease[r] = Pool!NoUid
      BY <2>1, <2>6 DEF Place, UidPlace, HoldsUid, Owning
    <3>2. /\ avail \in Seq(Pool!Uids)
          /\ \A u \in Pool!Uids : \E i \in 1 .. Len(avail) : avail[i] = u
          /\ \A i, j \in 1 .. Len(avail) : i # j => avail[i] # avail[j]
      BY <3>1, PoolFacts, UidsAreNat
    <3>3. Len(avail) \in Nat /\ avail \in [1 .. Len(avail) -> Pool!Uids]
      BY <3>2, LenProperties
    <3>4. avail \in Injection(1 .. Len(avail), Pool!Uids)
      BY <3>2, <3>3 DEF Injection, IsInjective
    <3>5. avail \in Surjection(1 .. Len(avail), Pool!Uids)
      BY <3>2, <3>3 DEF Surjection
    <3>6. IsFiniteSet(1 .. Len(avail)) /\ Cardinality(1 .. Len(avail)) = Len(avail)
      BY <3>3, FS_Interval
    <3>. QED
      BY <3>4, <3>5, <3>6, UidCount, FS_Surjection
  <2>. QED
    BY <2>2, <2>3, <2>4, <2>5, <2>6 DEF RestoredWhenIdle
<1>. QED
  BY <1>1, Invariance, LimitInv, PoolInv, PTL

(* No run waits for a UID when there are as many UIDs as workers: each UID  *)
(* that is out is held by a worker, and the one that asks is a worker too.  *)
THEOREM UidsSuffice == Spec => []UidAlwaysThere
<1>1. Inv /\ LP!Inv /\ PP!Inv => UidAlwaysThere
  <2>. SUFFICES ASSUME Inv, LP!Inv, PP!Inv, MaxWorkers <= Pool!Capacity,
                       \A q \in Requests : reply[q] # "panic",
                       NEW r \in Requests, pc[r] = "uid", lease[r] = Pool!NoUid, avail = <<>>
                PROVE  FALSE
    BY DEF UidAlwaysThere
  <2>. DEFINE holder == [u \in Pool!Uids |-> CHOOSE q \in Requests : lease[q] = u]
  <2>1. \A q \in Requests : lease[q] # Pool!NoUid => q \in working \ {r}
    BY DEF Inv, Places, Place, SlotPlace, UidPlace, HoldsUid, Owning, Served
  <2>2. ASSUME NEW u \in Pool!Uids
        PROVE  holder[u] \in working \ {r} /\ lease[holder[u]] = u
    <3>1. \E q \in Requests : lease[q] = u
      BY PoolFacts
    <3>2. holder[u] \in Requests /\ lease[holder[u]] = u
      BY <3>1
    <3>. QED
      BY <2>1, <3>2, UidsAreNat
  <2>3. holder \in Injection(Pool!Uids, working \ {r})
    BY <2>2 DEF Injection, IsInjective
  <2>4. /\ IsFiniteSet(working) /\ r \in working
        /\ Cardinality(working) \in Nat /\ Cardinality(working) <= MaxWorkers
    <3>1. IsFiniteSet(working)
      BY LimitFacts, ServiceAssumption, FS_Subset
    <3>2. r \in working
      BY DEF Inv, Places, Place, SlotPlace, Served
    <3>. QED
      BY <3>1, <3>2, LimitFacts, FS_CardinalityType
  <2>5. IsFiniteSet(working \ {r}) /\ Cardinality(working \ {r}) = Cardinality(working) - 1
    BY <2>4, FS_RemoveElement
  <2>6. Cardinality(Pool!Uids) <= Cardinality(working \ {r})
    <3>. HIDE DEF holder
    <3>. QED
      BY <2>3, <2>5, FS_Injection
  <2>. QED
    BY <2>4, <2>5, <2>6, UidCount, UidsAreNat, Assumptions
<1>. QED
  BY <1>1, Invariance, LimitInv, PoolInv, PTL

(* The runners drive each run the way RunContract allows, and so may rely   *)
(* on what CaptureOutput promises (python.go:85-121, nodejs.go:90-136).     *)
THEOREM RunsKeepContract == Spec => RunsFollowContract
<1>. DEFINE Kept == \A r \in Requests :
               Contract(r)!Next \/ UNCHANGED <<run[r], alive[r], hooks[r]>>
<1>1. Inv /\ [Next]_vars => [Kept]_vars
  <2>. SUFFICES ASSUME Inv, Next, NEW q \in Requests
                PROVE  Contract(q)!Next \/ UNCHANGED <<run[q], alive[q], hooks[q]>>
    OBVIOUS
  <2>1. CASE UNCHANGED runVars
    BY <2>1 DEF runVars
  <2>2. ASSUME NEW r \in Requests,
               \/ Launch(r) \/ Refuse(r) \/ ChildEnds(r) \/ HookReleases(r) \/ Answer(r)
        PROVE  Contract(q)!Next \/ UNCHANGED <<run[q], alive[q], hooks[q]>>
    <3>1. /\ run \in [Requests -> Phases] /\ alive \in [Requests -> BOOLEAN]
          /\ hooks \in [Requests -> Nat]
          /\ pc[r] = "ready" => run[r] = "idle"
      BY DEF Inv, TypeOK, Places, Place, RunPlace, Early
    <3>2. CASE q = r
      BY <2>2, <3>1, <3>2 DEF Launch, Refuse, ChildEnds, HookReleases, Answer, Go,
         Contract!Next, Contract!Launch, Contract!Refuse, Contract!End, Contract!Settle,
         Contract!Answer
    <3>3. CASE q # r
      BY <2>2, <3>1, <3>3 DEF Launch, Refuse, ChildEnds, HookReleases, Answer
    <3>. QED
      BY <3>2, <3>3
  <2>3. \/ UNCHANGED runVars
        \/ \E r \in Requests :
              \/ Launch(r) \/ Refuse(r) \/ ChildEnds(r) \/ HookReleases(r) \/ Answer(r)
    BY DEF Next, ServerStep, Route, Handler, Prepare, RunStep, vars, Unauthorized, Admit,
       TooManyRequests, WantWorker, LeaveWorker, LeaveRequest, InvalidRequest, StartRun,
       WantUid, GotUid, WriteBootstrap, BootstrapFails, MakeRoot, MakeRootFails,
       CopyFails, ChangeDir, WriteScript, ScriptFails, Panics, CleanUp, ReturnUid,
       HookRemoves
  <2>. QED
    BY <2>1, <2>2, <2>3
<1>. QED
  BY <1>1, Invariance, PTL DEF Spec, RunsFollowContract

-----------------------------------------------------------------------------
(* What follows from the three invariants together. *)

(* No run can signal the processes or read the files of another by having   *)
(* its UID, whatever order the requests of all clients come in              *)
(* (uid_pool.go:20-46, python.go:44-64, nodejs.go:60-83).                   *)
THEOREM NoRunHasAnothersUid == Spec => []RunsApart
<1>1. Inv /\ PP!Inv => RunsApart
  <2>. SUFFICES ASSUME Inv, PP!Inv, NEW r \in Requests, NEW q \in Requests,
                       r # q, InUse(r), InUse(q), uid[r] = uid[q]
                PROVE  FALSE
    BY DEF RunsApart
  <2>1. /\ lease[r] = uid[r] /\ uid[r] \in Pool!Uids
        /\ lease[q] = uid[q]
    BY DEF Inv, Places, Place, UidPlace, HoldsUid, FilePlace, RunPlace, Owning, InUse
  <2>. QED
    BY <2>1, PoolFacts
<1>. QED
  BY <1>1, Invariance, PoolInv, PTL

(* As many children as workers. *)
ChildrenBounded == Cardinality({r \in Requests : alive[r]}) <= MaxWorkers

(* However many requests there are, at most max_workers sandboxed processes *)
(* run at once: a slot is not given up before its child has ended, on no    *)
(* return path (cocrrent.go:14-20).                                         *)
THEOREM ChildrenHaveSlots == Spec => []ChildrenBounded
<1>1. Inv /\ LP!Inv => ChildrenBounded
  <2>. SUFFICES ASSUME Inv, LP!Inv PROVE ChildrenBounded
    OBVIOUS
  <2>. DEFINE children == {r \in Requests : alive[r]}
  <2>1. children \subseteq working
    BY DEF Inv, Places, Place, SlotPlace, RunPlace, Served
  <2>2. IsFiniteSet(working)
    BY LimitFacts, ServiceAssumption, FS_Subset
  <2>3. IsFiniteSet(children) /\ Cardinality(children) <= Cardinality(working)
    BY <2>1, <2>2, FS_Subset
  <2>4. Cardinality(children) \in Nat /\ Cardinality(working) \in Nat
    BY <2>2, <2>3, FS_CardinalityType
  <2>. QED
    BY <2>3, <2>4, LimitFacts, Assumptions DEF ChildrenBounded
<1>. QED
  BY <1>1, Invariance, LimitInv, PTL

(* The two limits and the pool, taken one inside the other, are never       *)
(* waited for in a circle: who waits for a slot has no UID, and who has a   *)
(* UID has a slot (router.go:26-31, cocrrent.go:14-20, uid_pool.go:33-46).  *)
THEOREM NoCircularWait == Spec => []SomebodyGoesOn
<1>1. Inv /\ LP!Inv /\ PP!Inv => SomebodyGoesOn
  <2>. SUFFICES ASSUME Inv, LP!Inv, PP!Inv, NEW r \in Requests, Waits(r), MaxWorkers # 0, ~LostToPanics
                PROVE  \E q \in working : ~Waits(q)
    BY DEF SomebodyGoesOn
  <2>1. ASSUME NEW q \in working PROVE ~L!IsParked(q)
    BY LimitFacts DEF L!IsParked
  <2>2. CASE \E q \in Requests : Pool!IsWaiting(q)
    <3>1. avail = <<>>
      <4>1. waiting # <<>> /\ waiting \in Seq(Requests)
        BY <2>2, PoolFacts DEF Pool!IsWaiting
      <4>. QED
        BY <4>1, PoolFacts
    <3>2. PICK u \in Pool!Uids : \A q \in Requests : lease[q] = u => reply[q] # "panic"
      BY DEF LostToPanics
    <3>3. PICK q \in Requests : lease[q] = u
      BY <3>1, PoolFacts
    <3>4. lease[q] # Pool!NoUid
      BY <3>3, UidsAreNat
    <3>5. q \in working
      BY <3>2, <3>3, <3>4 DEF Inv, Places, Place, SlotPlace, UidPlace, HoldsUid,
                              Owning, Served
    <3>6. ~Pool!IsWaiting(q)
      BY <3>4, PoolFacts DEF Pool!IsWaiting
    <3>. QED
      BY <2>1, <3>5, <3>6 DEF Waits
  <2>3. CASE \A q \in Requests : ~Pool!IsWaiting(q)
    <3>1. L!IsParked(r)
      BY <2>3 DEF Waits
    <3>2. parked # <<>> /\ parked \in Seq(Requests)
      BY <3>1, LimitFacts DEF L!IsParked
    <3>3. PICK q : q \in working
      BY <3>2, Crowded, Assumptions
    <3>4. q \in Requests
      BY <3>3, LimitFacts
    <3>. QED
      BY <2>1, <2>3, <3>3, <3>4 DEF Waits
  <2>. QED
    BY <2>2, <2>3
<1>. QED
  BY <1>1, Invariance, LimitInv, PoolInv, PTL
=============================================================================
