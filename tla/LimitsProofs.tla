---------------------------- MODULE LimitsProofs ----------------------------
(***************************************************************************)
(* The limits of POST /v1/sandbox/run, proved for every number of requests *)
(* and both limits.                                                        *)
(*                                                                         *)
(* CounterExact and SlotsExact are not inductive by themselves: that a     *)
(* slot handed on is neither lost nor counted twice needs OnePlace, that a *)
(* parked request holds no slot.                                           *)
(***************************************************************************)
EXTENDS Limits, FiniteSetTheorems, SequenceTheorems, TLAPS

Inv == TypeOK /\ CounterExact /\ SlotsExact /\ OnePlace

(* The sets of requests are finite, and so have a size. *)
LEMMA Sizes ==
  ASSUME TypeOK
  PROVE  /\ IsFiniteSet(admitted) /\ Cardinality(admitted) \in Nat
         /\ IsFiniteSet(working) /\ Cardinality(working) \in Nat
<1>1. IsFiniteSet(admitted)
  BY LimitsAssumption, FS_Subset DEF TypeOK
<1>2. IsFiniteSet(working)
  BY <1>1, FS_Subset DEF TypeOK
<1>. QED
  BY <1>1, <1>2, FS_CardinalityType

(* A server without requests.                                               *)
LEMMA InitInv == Init => Inv
BY FS_EmptySet, LimitsAssumption, EmptySeq DEF Init, Inv, TypeOK, CounterExact,
                                               SlotsExact, OnePlace

(* The counter and the set of the admitted grow by one.                     *)
LEMMA TryAcquireInv == ASSUME Inv, NEW r \in Requests, TryAcquire(r) PROVE Inv'
<1>. USE DEF Inv, TryAcquire
<1>1. CounterExact'
  <2>1. Cardinality(admitted \union {r}) = Cardinality(admitted) + 1
    BY Sizes, FS_AddElement
  <2>. QED
    BY <2>1, Sizes, LimitsAssumption DEF CounterExact
<1>2. TypeOK' /\ OnePlace'
  BY DEF TypeOK, OnePlace
<1>3. SlotsExact'
  BY DEF SlotsExact
<1>. QED
  BY <1>1, <1>2, <1>3

(* A request takes a slot nobody has.                                       *)
LEMMA EnterInv == ASSUME Inv, NEW r \in Requests, Enter(r) PROVE Inv'
<1>. USE DEF Inv, Enter
<1>1. r \in admitted \ (working \union leaving) /\ \A i \in 1 .. Len(parked) : parked[i] # r
  BY DEF AtDoor, IsParked
<1>2. Cardinality(working \union {r}) = Cardinality(working) + 1
  BY <1>1, Sizes, FS_AddElement
<1>3. parked = <<>>
  BY Sizes, LimitsAssumption DEF SlotsExact
<1>4. SlotsExact'
  BY <1>2, <1>3, Sizes, LimitsAssumption DEF SlotsExact
<1>5. TypeOK' /\ OnePlace' /\ CounterExact'
  BY <1>1 DEF TypeOK, OnePlace, CounterExact
<1>. QED
  BY <1>4, <1>5

(* A request queues up once, with every slot taken.                         *)
LEMMA ParkInv == ASSUME Inv, NEW r \in Requests, Park(r) PROVE Inv'
<1>. USE DEF Inv, Park
<1>1. r \in admitted \ (working \union leaving) /\ \A i \in 1 .. Len(parked) : parked[i] # r
  BY DEF AtDoor, IsParked
<1>2. /\ parked' \in Seq(Requests) /\ Len(parked') = Len(parked) + 1 /\ Len(parked) \in Nat
      /\ \A i \in 1 .. Len(parked) : parked'[i] = parked[i]
      /\ parked'[Len(parked) + 1] = r
  BY DEF TypeOK
<1>3. OnePlace'
  BY <1>1, <1>2 DEF OnePlace
<1>4. SlotsExact'
  BY Sizes, LimitsAssumption DEF SlotsExact
<1>5. TypeOK' /\ CounterExact'
  BY <1>2 DEF TypeOK, CounterExact
<1>. QED
  BY <1>3, <1>4, <1>5

(* A slot is freed, or the first of the parked requests has it. *)
LEMMA LeaveInv == ASSUME Inv, NEW r \in Requests, Leave(r) PROVE Inv'
<1>. USE DEF Inv, Leave
<1>1. Cardinality(working \ {r}) = Cardinality(working) - 1 /\ IsFiniteSet(working \ {r})
  BY Sizes, FS_RemoveElement
<1>2. CASE parked = <<>>
  <2>1. SlotsExact'
    BY <1>1, <1>2, Sizes, LimitsAssumption DEF SlotsExact
  <2>2. TypeOK' /\ OnePlace' /\ CounterExact'
    BY <1>2 DEF TypeOK, OnePlace, CounterExact
  <2>. QED
    BY <2>1, <2>2
<1>3. CASE parked # <<>>
  <2>1. /\ parked \in Seq(Requests) /\ Len(parked) \in Nat /\ Len(parked) > 0
        /\ parked' \in Seq(Requests) /\ Len(parked') = Len(parked) - 1
        /\ \A i \in 1 .. Len(parked') : parked'[i] = parked[i + 1]
        /\ Head(parked) = parked[1]
    BY <1>3 DEF TypeOK
  <2>2. Head(parked) \in admitted \ (working \union leaving)
    BY <2>1 DEF OnePlace
  <2>3. working' = (working \ {r}) \union {Head(parked)} /\ leaving' = leaving \union {r}
    BY <1>3
  <2>4. Cardinality(working') = Cardinality(working)
    <3>1. Cardinality((working \ {r}) \union {Head(parked)}) = Cardinality(working \ {r}) + 1
      <4>. HIDE DEF Leave, Inv
      <4>. QED
        BY <1>1, <2>2, FS_AddElement
    <3>. QED
      BY <1>1, <2>3, <3>1, Sizes
  <2>5. SlotsExact'
    BY <1>3, <2>4 DEF SlotsExact
  <2>6. \A i \in 1 .. Len(parked') : parked'[i] = parked[i + 1] /\ i + 1 \in 1 .. Len(parked) /\ i + 1 # 1
    BY <2>1
  <2>7. \A i \in 1 .. Len(parked') : parked'[i] \in admitted' \ (working' \union leaving')
    <3>1. \A i \in 1 .. Len(parked') : parked'[i] # Head(parked)
      BY <2>1, <2>6 DEF OnePlace
    <3>2. \A i \in 1 .. Len(parked') : parked'[i] \in admitted \ (working \union leaving)
      BY <2>6 DEF OnePlace
    <3>. QED
      BY <3>1, <3>2, <2>3
  <2>8. \A i, j \in 1 .. Len(parked') : i # j => parked'[i] # parked'[j]
    BY <2>1, <2>6 DEF OnePlace
  <2>9. OnePlace'
    BY <2>2, <2>3, <2>7, <2>8 DEF OnePlace
  <2>10. TypeOK' /\ CounterExact'
    BY <2>1, <2>2, <2>3 DEF TypeOK, CounterExact
  <2>. QED
    BY <2>5, <2>9, <2>10
<1>. QED
  BY <1>2, <1>3

(* The counter and the set of the admitted shrink by one.                   *)
LEMMA ReleaseInv == ASSUME Inv, NEW r \in Requests, Release(r) PROVE Inv'
<1>. USE DEF Inv, Release
<1>1. r \in admitted /\ r \notin working /\ \A i \in 1 .. Len(parked) : parked[i] # r
  BY DEF TypeOK, OnePlace
<1>2. Cardinality(admitted \ {r}) = Cardinality(admitted) - 1
  BY <1>1, Sizes, FS_RemoveElement
<1>3. CounterExact'
  BY <1>2, Sizes, LimitsAssumption DEF CounterExact
<1>4. TypeOK' /\ OnePlace' /\ SlotsExact'
  BY <1>1 DEF TypeOK, OnePlace, SlotsExact
<1>. QED
  BY <1>3, <1>4

(* Every step of the two middlewares.                                       *)
LEMMA StepInv == Inv /\ [Next]_vars => Inv'
<1>. SUFFICES ASSUME Inv, [Next]_vars PROVE Inv'
  OBVIOUS
<1>1. CASE UNCHANGED vars
  BY <1>1 DEF vars, Inv, TypeOK, CounterExact, SlotsExact, OnePlace
<1>. QED
  BY <1>1, TryAcquireInv, EnterInv, ParkInv, LeaveInv, ReleaseInv DEF Next

(* Only the first of the parked requests is handed a slot. *)
LEMMA StepNoOvertaking ==
  ASSUME Inv, [Next]_vars, NEW i \in 1 .. Len(parked), NEW j \in 1 .. Len(parked),
         i < j, parked[j] \in working'
  PROVE  parked[i] \in working'
<1>1. parked[j] \notin working
  BY DEF Inv, OnePlace
<1>2. ASSUME NEW r \in Requests, Leave(r) PROVE FALSE
  <2>1. parked # <<>> /\ parked[j] = Head(parked) /\ Head(parked) = parked[1]
    BY <1>1, <1>2 DEF Leave, Inv, TypeOK
  <2>2. 1 \in 1 .. Len(parked) /\ j # 1 /\ Len(parked) \in Nat
    BY DEF Inv, TypeOK
  <2>. QED
    BY <2>1, <2>2 DEF Inv, OnePlace
<1>3. ASSUME NEW r \in Requests, Enter(r) PROVE FALSE
  BY <1>1, <1>3 DEF Enter, AtDoor, IsParked
<1>4. CASE UNCHANGED working
  BY <1>1, <1>4
<1>. QED
  BY <1>2, <1>3, <1>4 DEF Next, TryAcquire, Park, Release, vars

-----------------------------------------------------------------------------

(* The invariant of the two middlewares (cocrrent.go:12-66). *)
THEOREM Invariance == Spec => []Inv
BY InitInv, StepInv, PTL DEF Spec

(* The counter is the number of requests that are in, and within the limit, *)
(* however many arrive at once (cocrrent.go:30-47, 57-62).                  *)
THEOREM CounterIsExact == Spec => []CounterExact
<1>1. Inv => CounterExact
  BY DEF Inv
<1>. QED
  BY Invariance, <1>1, PTL

(* No slot is lost or used twice: a request waits only while every slot is  *)
(* taken (cocrrent.go:14-20).                                               *)
THEOREM SlotsAreExact == Spec => []SlotsExact
<1>1. Inv => SlotsExact
  BY DEF Inv
<1>. QED
  BY Invariance, <1>1, PTL

(* The worker slots are handed on in order of arrival (cocrrent.go:14-20).  *)
THEOREM InOrder == Spec => NoOvertaking
<1>1. Inv /\ [Next]_vars => [\A i, j \in 1 .. Len(parked) :
          i < j /\ parked[j] \in working' => parked[i] \in working']_vars
  BY StepNoOvertaking
<1>. QED
  BY Invariance, <1>1, PTL DEF Spec, NoOvertaking
-----------------------------------------------------------------------------

(* What a step does for the i-th parked request: a slot that is handed on   *)
(* goes to the first and moves up every other; any other step leaves it     *)
(* where it is.                                                             *)
Advances(i) ==
    IF \E r \in Requests : Leave(r)
    THEN \/ i = 1 /\ parked[i] \in working'
         \/ i - 1 \in 1 .. Len(parked') /\ parked'[i - 1] = parked[i]
    ELSE i \in 1 .. Len(parked') /\ parked'[i] = parked[i]

(* Nothing sends a parked request back, and each Leave brings it nearer.    *)
ParkedAdvance == [][\A i \in 1 .. Len(parked) : Advances(i)]_vars

(* What is parked waits for a Leave that is due.                            *)
ParkedAwaitLeave == parked # <<>> /\ MaxWorkers > 0 => \E r \in Requests : r \in working

(* Only Leave and Park touch the queue, Park at its end.                    *)
LEMMA StepAdvances ==
  ASSUME Inv, [Next]_vars, ~UNCHANGED vars, NEW i \in 1 .. Len(parked)
  PROVE  Advances(i)
<1>1. parked \in Seq(Requests) /\ Len(parked) \in Nat /\ parked # <<>>
  BY LenProperties, EmptySeq DEF Inv, TypeOK
<1>2. ASSUME NEW r \in Requests, Leave(r) PROVE Advances(i)
  <2>1. /\ Head(parked) = parked[1] /\ Len(Tail(parked)) = Len(parked) - 1
        /\ \A k \in 1 .. Len(parked) - 1 : Tail(parked)[k] = parked[k + 1]
    BY <1>1, HeadTailProperties
  <2>2. Head(parked) \in working' /\ parked' = Tail(parked)
    BY <1>1, <1>2 DEF Leave
  <2>3. CASE i = 1
    BY <1>2, <2>1, <2>2, <2>3 DEF Advances
  <2>4. CASE i # 1
    <3>1. i - 1 \in 1 .. Len(parked') /\ parked'[i - 1] = parked[i]
      BY <1>1, <2>1, <2>2, <2>4
    <3>. QED
      BY <1>2, <3>1 DEF Advances
  <2>. QED
    BY <2>3, <2>4
<1>3. ASSUME ~\E r \in Requests : Leave(r), NEW r \in Requests,
             TryAcquire(r) \/ Enter(r) \/ Park(r) \/ Release(r)
      PROVE  Advances(i)
  <2>1. CASE parked' = parked
    BY <1>3, <2>1 DEF Advances
  <2>2. CASE Park(r)
    <3>1. Len(parked') = Len(parked) + 1 /\ parked'[i] = parked[i]
      BY <1>1, <2>2, AppendProperties DEF Park
    <3>2. i \in 1 .. Len(parked')
      BY <1>1, <3>1
    <3>. QED
      BY <1>3, <3>1, <3>2 DEF Advances
  <2>. QED
    BY <1>3, <2>1, <2>2 DEF TryAcquire, Enter, Release
<1>. QED
  BY <1>2, <1>3 DEF Next

(* The safety half of what EveryRequestLeaves needs of the workers: each    *)
(* request that leaves brings a parked one nearer (cocrrent.go:14-20).      *)
THEOREM ParkedMoveUp == Spec => ParkedAdvance
<1>1. Inv /\ [Next]_vars => [\A i \in 1 .. Len(parked) : Advances(i)]_vars
  BY StepAdvances
<1>. QED
  BY <1>1, Invariance, PTL DEF Spec, ParkedAdvance

(* ... and while one is parked, some request in the handler owes that step, *)
(* unless max_workers is 0 (cocrrent.go:12-20).                             *)
THEOREM ParkedHaveReason == Spec => []ParkedAwaitLeave
<1>1. Inv => ParkedAwaitLeave
  <2>. SUFFICES ASSUME Inv, parked # <<>>, MaxWorkers > 0
                PROVE  \E r \in Requests : r \in working
    BY DEF ParkedAwaitLeave
  <2>1. Cardinality(working) = MaxWorkers /\ working \subseteq Requests
    BY DEF Inv, TypeOK, SlotsExact
  <2>2. working # {}
    BY <2>1, FS_EmptySet
  <2>. QED
    BY <2>1, <2>2
<1>. QED
  BY <1>1, Invariance, PTL
=============================================================================
