--------------------------- MODULE UidPoolProofs ---------------------------
(***************************************************************************)
(* The safety properties of UidPool, proved for every set of clients and   *)
(* every range of UIDs, and that the pool implements UidLease.             *)
(*                                                                         *)
(* The invariant is inductive as it stands: that every UID is in one place *)
(* needs that nobody waits while a UID is free and that a waiting client   *)
(* has none, and the other way round.                                      *)
(***************************************************************************)
EXTENDS UidPool, FiniteSetTheorems, SequenceTheorems, TLAPS

Inv == TypeOK /\ EveryUidOnce /\ WaitOnlyWhenEmpty

(* What a receive leaves in a channel that is not empty.                    *)
LEMMA Received ==
  ASSUME NEW S, NEW s \in Seq(S), s # <<>>
  PROVE  /\ Len(s) \in Nat \ {0}
         /\ Head(s) = s[1] /\ Head(s) \in S
         /\ Tail(s) \in Seq(S) /\ Len(Tail(s)) = Len(s) - 1
         /\ \A i \in 1 .. Len(s) - 1 : Tail(s)[i] = s[i + 1]
<1>1. Len(s) \in Nat \ {0}
  BY EmptySeq
<1>2. Head(s) = s[1] /\ Head(s) \in S
  BY HeadTailProperties
<1>. QED
  BY <1>1, <1>2, HeadTailProperties

(* What a send adds to a channel.                                           *)
LEMMA Sent ==
  ASSUME NEW S, NEW s \in Seq(S), NEW x \in S
  PROVE  /\ Append(s, x) \in Seq(S) /\ Len(s) \in Nat
         /\ Len(Append(s, x)) = Len(s) + 1
         /\ \A i \in 1 .. Len(s) : Append(s, x)[i] = s[i]
         /\ Append(s, x)[Len(s) + 1] = x
  BY AppendProperties, LenProperties

(* What is left of the queue when a client leaves it.                       *)
LEMMA Removed ==
  ASSUME TypeOK, NEW k \in 1 .. Len(waiting)
  PROVE  /\ Without(k) \in Seq(Clients)
         /\ Len(waiting) \in Nat \ {0} /\ Len(Without(k)) = Len(waiting) - 1
         /\ \A i \in 1 .. Len(waiting) - 1 :
               Without(k)[i] = waiting[IF i < k THEN i ELSE i + 1]
<1>. DEFINE n == Len(waiting) - 1
<1>1. Len(waiting) \in Nat \ {0} /\ n \in Nat
  BY LenProperties DEF TypeOK
<1>2. \A i \in 1 .. n : waiting[IF i < k THEN i ELSE i + 1] \in Clients
  BY <1>1, ElementOfSeq DEF TypeOK
<1>3. Without(k) \in [1 .. n -> Clients]
  BY <1>2 DEF Without
<1>4. Without(k) \in Seq(Clients)
  BY <1>1, <1>3, SeqDef
<1>5. Len(Without(k)) = n
  BY <1>1, <1>3, <1>4, LenProperties DEF Without
<1>. QED
  BY <1>1, <1>4, <1>5 DEF Without

(* No UID is the value that means "none".                                   *)
LEMMA UidsAreNat == Uids \subseteq Nat /\ NoUid \notin Uids /\ Capacity \in Nat
  BY RangeAssumption DEF Uids, NoUid, Capacity

-----------------------------------------------------------------------------

(* A new pool holds every UID once, in order.                               *)
LEMMA InitInv == Init => Inv
<1>. SUFFICES ASSUME Init PROVE Inv
  OBVIOUS
<1>. USE UidsAreNat DEF Init
<1>1. avail \in [1 .. Capacity -> Uids]
  BY RangeAssumption DEF Uids, Capacity
<1>2. avail \in Seq(Uids) /\ Len(avail) = Capacity
  BY <1>1, SeqDef, LenProperties
<1>3. TypeOK
  BY <1>2 DEF TypeOK
<1>4. ASSUME NEW u \in Uids PROVE Buffered(u)
  <2>1. u - MinUid + 1 \in 1 .. Capacity /\ avail[u - MinUid + 1] = u
    BY RangeAssumption DEF Uids, Capacity
  <2>. QED
    BY <1>2, <2>1 DEF Buffered
<1>5. ASSUME NEW u \in Uids PROVE ~Leased(u)
  BY DEF Leased
<1>6. EveryUidOnce
  BY <1>2, <1>4, <1>5, RangeAssumption DEF EveryUidOnce, Capacity
<1>7. WaitOnlyWhenEmpty
  BY DEF WaitOnlyWhenEmpty
<1>. QED
  BY <1>3, <1>6, <1>7 DEF Inv

(* Acquire moves the oldest UID from the channel to the client.             *)
LEMMA AcquireInv == ASSUME Inv, NEW c \in Clients, Acquire(c) PROVE Inv'
<1>. USE UidsAreNat DEF Inv
<1>. DEFINE u == Head(avail)
<1>1. avail \in Seq(Uids) /\ avail # <<>> /\ waiting = <<>> /\ waiting' = <<>>
  BY DEF TypeOK, Acquire, WaitOnlyWhenEmpty
<1>2. /\ Len(avail) \in Nat \ {0} /\ u = avail[1] /\ u \in Uids
      /\ avail' \in Seq(Uids) /\ Len(avail') = Len(avail) - 1
      /\ \A i \in 1 .. Len(avail) - 1 : avail'[i] = avail[i + 1]
  BY <1>1, Received DEF Acquire
<1>3. /\ lease \in [Clients -> Uids \union {NoUid}] /\ lease[c] = NoUid
      /\ lease' = [lease EXCEPT ![c] = u]
  BY DEF TypeOK, Acquire, Idle
<1>4. TypeOK'
  BY <1>1, <1>2, <1>3 DEF TypeOK, Acquire
<1>5. \A i, j \in 1 .. Len(avail) : i # j => avail[i] # avail[j]
  BY DEF EveryUidOnce
<1>6. Buffered(u) /\ ~Leased(u)
  <2>1. 1 \in 1 .. Len(avail) /\ avail[1] = u
    BY <1>2
  <2>2. Buffered(u)
    BY <2>1 DEF Buffered
  <2>. QED
    BY <1>2, <2>2 DEF EveryUidOnce
<1>7. ASSUME NEW v \in Uids PROVE Buffered(v)' <=> Buffered(v) /\ v # u
  <2>1. ASSUME Buffered(v)' PROVE Buffered(v) /\ v # u
    <3>1. PICK i \in 1 .. Len(avail') : avail'[i] = v
      BY <2>1 DEF Buffered
    <3>2. i + 1 \in 1 .. Len(avail) /\ avail[i + 1] = v /\ 1 \in 1 .. Len(avail) /\ i + 1 # 1
      BY <1>2, <3>1
    <3>. QED
      BY <1>2, <1>5, <3>2 DEF Buffered
  <2>2. ASSUME Buffered(v), v # u PROVE Buffered(v)'
    <3>1. PICK i \in 1 .. Len(avail) : avail[i] = v
      BY <2>2 DEF Buffered
    <3>2. i # 1
      BY <1>2, <2>2, <3>1
    <3>3. i - 1 \in 1 .. Len(avail') /\ avail'[i - 1] = v
      BY <1>2, <3>1, <3>2
    <3>. QED
      BY <3>3 DEF Buffered
  <2>. QED
    BY <2>1, <2>2
<1>8. ASSUME NEW v \in Uids PROVE Leased(v)' <=> Leased(v) \/ v = u
  BY <1>3 DEF Leased
<1>9. \A v \in Uids : Buffered(v)' <=> ~Leased(v)'
  BY <1>6, <1>7, <1>8 DEF EveryUidOnce
<1>10. \A i, j \in 1 .. Len(avail') : i # j => avail'[i] # avail'[j]
  BY <1>2, <1>5
<1>11. \A a, b \in Clients : a # b /\ lease'[a] \in Uids => lease'[a] # lease'[b]
  BY <1>2, <1>3, <1>6 DEF EveryUidOnce, Leased
<1>12. WaitOnlyWhenEmpty'
  BY <1>1 DEF WaitOnlyWhenEmpty
<1>. QED
  BY <1>4, <1>9, <1>10, <1>11, <1>12 DEF EveryUidOnce

(* A client that finds no UID joins the queue at its end.                   *)
LEMMA ParkInv == ASSUME Inv, NEW c \in Clients, Park(c) PROVE Inv'
<1>. USE UidsAreNat DEF Inv
<1>1. /\ waiting \in Seq(Clients) /\ Len(waiting) \in Nat
      /\ waiting' \in Seq(Clients) /\ Len(waiting') = Len(waiting) + 1
      /\ \A i \in 1 .. Len(waiting) : waiting'[i] = waiting[i]
      /\ waiting'[Len(waiting) + 1] = c
  BY Sent DEF TypeOK, Park
<1>2. TypeOK'
  BY <1>1 DEF TypeOK, Park
<1>3. EveryUidOnce'
  BY DEF Park, EveryUidOnce, Buffered, Leased
<1>4. \A i \in 1 .. Len(waiting) : waiting[i] # c
  BY DEF Park, Idle, IsWaiting
<1>5. \A i, j \in 1 .. Len(waiting') : i # j => waiting'[i] # waiting'[j]
  BY <1>1, <1>4 DEF WaitOnlyWhenEmpty
<1>6. \A i \in 1 .. Len(waiting') : lease[waiting'[i]] = NoUid
  BY <1>1 DEF WaitOnlyWhenEmpty, Park, Idle
<1>. QED
  BY <1>2, <1>3, <1>5, <1>6 DEF Park, WaitOnlyWhenEmpty

(* A client whose context ends leaves the queue.                            *)
LEMMA GiveUpInv == ASSUME Inv, NEW c \in Clients, GiveUp(c) PROVE Inv'
<1>. USE DEF Inv
<1>1. CASE UNCHANGED waiting
  BY <1>1 DEF GiveUp, TypeOK, EveryUidOnce, Buffered, Leased, WaitOnlyWhenEmpty
<1>2. ASSUME NEW k \in 1 .. Len(waiting), waiting' = Without(k) PROVE Inv'
  <2>1. /\ waiting' \in Seq(Clients)
        /\ Len(waiting) \in Nat \ {0} /\ Len(waiting') = Len(waiting) - 1
        /\ \A i \in 1 .. Len(waiting) - 1 : waiting'[i] = waiting[IF i < k THEN i ELSE i + 1]
    BY <1>2, Removed
  <2>2. TypeOK'
    BY <2>1 DEF GiveUp, TypeOK
  <2>3. EveryUidOnce'
    BY DEF GiveUp, EveryUidOnce, Buffered, Leased
  <2>4. \A i, j \in 1 .. Len(waiting') : i # j => waiting'[i] # waiting'[j]
    BY <2>1 DEF WaitOnlyWhenEmpty
  <2>5. \A i \in 1 .. Len(waiting') : lease[waiting'[i]] = NoUid
    BY <2>1 DEF WaitOnlyWhenEmpty
  <2>6. avail' = avail /\ lease' = lease /\ waiting # <<>>
    BY <1>2 DEF GiveUp
  <2>. QED
    BY <2>2, <2>3, <2>4, <2>5, <2>6 DEF WaitOnlyWhenEmpty
<1>. QED
  BY <1>1, <1>2 DEF GiveUp

(* A UID that is given back goes to the client that has waited longest ...  *)
LEMMA HandOverInv ==
  ASSUME Inv, NEW c \in Clients, Release(c), waiting # <<>> PROVE Inv'
<1>. USE UidsAreNat DEF Inv
<1>. DEFINE d == Head(waiting)
<1>1. /\ Len(waiting) \in Nat \ {0} /\ d = waiting[1] /\ d \in Clients
      /\ waiting' \in Seq(Clients) /\ Len(waiting') = Len(waiting) - 1
      /\ \A i \in 1 .. Len(waiting) - 1 : waiting'[i] = waiting[i + 1]
  <2>1. waiting \in Seq(Clients) /\ waiting # <<>> /\ waiting' = Tail(waiting)
    BY DEF TypeOK, Release
  <2>. QED
    BY <2>1, Received
<1>2. avail' = avail /\ avail = <<>>
  BY DEF Release, WaitOnlyWhenEmpty
<1>3. lease[d] = NoUid /\ lease[c] \in Uids /\ c # d
  BY <1>1 DEF Release, WaitOnlyWhenEmpty
<1>4. /\ lease \in [Clients -> Uids \union {NoUid}]
      /\ lease' = [lease EXCEPT ![c] = NoUid, ![d] = lease[c]]
  BY DEF TypeOK, Release
<1>5. TypeOK'
  BY <1>1, <1>2, <1>3, <1>4 DEF TypeOK, Release
<1>6. \A a \in Clients : lease'[a] = IF a = d THEN lease[c] ELSE IF a = c THEN NoUid ELSE lease[a]
  BY <1>1, <1>3, <1>4
<1>7. \A v \in Uids : Leased(v)' <=> Leased(v)
  BY <1>1, <1>3, <1>6 DEF Leased
<1>8. \A v \in Uids : Buffered(v)' <=> Buffered(v)
  BY <1>2 DEF Buffered
<1>9. \A a, b \in Clients : a # b /\ lease'[a] \in Uids => lease'[a] # lease'[b]
  BY <1>3, <1>4, <1>6 DEF EveryUidOnce
<1>10. EveryUidOnce'
  BY <1>2, <1>7, <1>8, <1>9 DEF EveryUidOnce
<1>11. \A i \in 1 .. Len(waiting') : waiting'[i] # d /\ waiting'[i] \in Clients
  BY <1>1, ElementOfSeq DEF WaitOnlyWhenEmpty, TypeOK
<1>12. \A i \in 1 .. Len(waiting') : lease'[waiting'[i]] = NoUid
  BY <1>1, <1>6, <1>11 DEF WaitOnlyWhenEmpty
<1>13. WaitOnlyWhenEmpty'
  BY <1>1, <1>2, <1>12 DEF WaitOnlyWhenEmpty
<1>. QED
  BY <1>5, <1>10, <1>13

(* ... and into the channel when nobody waits.                              *)
LEMMA ReturnInv ==
  ASSUME Inv, NEW c \in Clients, Release(c), waiting = <<>> PROVE Inv'
<1>. USE UidsAreNat DEF Inv
<1>. DEFINE u == lease[c]
<1>1. /\ avail \in Seq(Uids) /\ u \in Uids /\ waiting' = <<>>
      /\ avail' = Append(avail, u) /\ lease' = [lease EXCEPT ![c] = NoUid]
      /\ lease \in [Clients -> Uids \union {NoUid}]
  BY DEF TypeOK, Release
<1>2. /\ avail' \in Seq(Uids) /\ Len(avail) \in Nat
      /\ Len(avail') = Len(avail) + 1
      /\ \A i \in 1 .. Len(avail) : avail'[i] = avail[i]
      /\ avail'[Len(avail) + 1] = u
  BY <1>1, Sent
<1>3. TypeOK'
  BY <1>1, <1>2 DEF TypeOK, Release
<1>4. Leased(u) /\ ~Buffered(u)
  BY <1>1 DEF Leased, EveryUidOnce
<1>5. \A v \in Uids : Buffered(v)' <=> Buffered(v) \/ v = u
  BY <1>2 DEF Buffered
<1>6. \A v \in Uids : Leased(v)' <=> Leased(v) /\ v # u
  BY <1>1 DEF Leased, EveryUidOnce
<1>7. \A i, j \in 1 .. Len(avail') : i # j => avail'[i] # avail'[j]
  BY <1>2, <1>4 DEF EveryUidOnce, Buffered
<1>8. \A a, b \in Clients : a # b /\ lease'[a] \in Uids => lease'[a] # lease'[b]
  BY <1>1 DEF EveryUidOnce
<1>9. EveryUidOnce'
  BY <1>4, <1>5, <1>6, <1>7, <1>8 DEF EveryUidOnce
<1>10. WaitOnlyWhenEmpty'
  BY <1>1 DEF WaitOnlyWhenEmpty
<1>. QED
  BY <1>3, <1>9, <1>10

(* Every step keeps the invariant.                                          *)
LEMMA StepInv == Inv /\ [Next]_vars => Inv'
<1>. SUFFICES ASSUME Inv, [Next]_vars PROVE Inv'
  OBVIOUS
<1>1. ASSUME NEW c \in Clients, Acquire(c) PROVE Inv'
  BY <1>1, AcquireInv
<1>2. ASSUME NEW c \in Clients, Park(c) PROVE Inv'
  BY <1>2, ParkInv
<1>3. ASSUME NEW c \in Clients, Cancel(c) PROVE Inv'
  BY <1>3 DEF Inv, Cancel, TypeOK, EveryUidOnce, Buffered, Leased, WaitOnlyWhenEmpty
<1>4. ASSUME NEW c \in Clients, GiveUp(c) PROVE Inv'
  BY <1>4, GiveUpInv
<1>5. ASSUME NEW c \in Clients, Release(c) PROVE Inv'
  BY <1>5, HandOverInv, ReturnInv
<1>6. CASE UNCHANGED vars
  BY <1>6 DEF vars, Inv, TypeOK, EveryUidOnce, Buffered, Leased, WaitOnlyWhenEmpty
<1>. QED
  BY <1>1, <1>2, <1>3, <1>4, <1>5, <1>6 DEF Next

(* The invariant holds in every reachable state.                            *)
THEOREM Invariance == Spec => []Inv
  BY InitInv, StepInv, PTL DEF Spec

(* The pool's variables keep their types.                                   *)
THEOREM TypeCorrect == Spec => []TypeOK
<1>1. Inv => TypeOK
  BY DEF Inv
<1>. QED
  BY <1>1, Invariance, PTL

(* A UID is never shared and never lost (uid_pool.go:20-46).                *)
THEOREM UidsAreSafe == Spec => []EveryUidOnce
<1>1. Inv => EveryUidOnce
  BY DEF Inv
<1>. QED
  BY <1>1, Invariance, PTL

(* Nobody waits while a UID is free (uid_pool.go:33-40).                    *)
THEOREM WaitingIsNeeded == Spec => []WaitOnlyWhenEmpty
<1>1. Inv => WaitOnlyWhenEmpty
  BY DEF Inv
<1>. QED
  BY <1>1, Invariance, PTL

-----------------------------------------------------------------------------

(* A channel that holds distinct UIDs, and not all of them, is not full.    *)
LEMMA NotFull ==
  ASSUME Inv, NEW u \in Uids, ~Buffered(u) PROVE Len(avail) < Capacity
<1>. DEFINE rest == Uids \ {u}
<1>1. avail \in Seq(Uids) /\ Len(avail) \in Nat /\ avail \in [1 .. Len(avail) -> Uids]
  BY LenProperties DEF Inv, TypeOK
<1>2. avail \in [1 .. Len(avail) -> rest]
  BY <1>1 DEF Buffered
<1>3. avail \in Injection(1 .. Len(avail), rest)
  BY <1>1, <1>2 DEF Injection, IsInjective, Inv, EveryUidOnce
<1>4. IsFiniteSet(Uids) /\ Cardinality(Uids) = Capacity
  BY FS_Interval, RangeAssumption DEF Uids, Capacity
<1>5. IsFiniteSet(rest) /\ Cardinality(rest) = Capacity - 1
  BY <1>4, FS_RemoveElement
<1>6. Cardinality(1 .. Len(avail)) <= Cardinality(rest)
  BY <1>3, <1>5, FS_Injection
<1>7. Cardinality(1 .. Len(avail)) = Len(avail)
  BY <1>1, FS_Interval
<1>. QED
  BY <1>1, <1>5, <1>6, <1>7, UidsAreNat

(* The unconditional send of Release always finds a receiver or room        *)
(* (uid_pool.go:44).                                                        *)
THEOREM ReleaseIsFree == Spec => []ReleaseNeverBlocks
<1>1. Inv => ReleaseNeverBlocks
  <2>. SUFFICES ASSUME Inv, NEW c \in Clients, lease[c] \in Uids
                PROVE  Len(avail) < Capacity
    BY DEF ReleaseNeverBlocks
  <2>1. ~Buffered(lease[c])
    BY DEF Inv, EveryUidOnce, Leased
  <2>. QED
    BY <2>1, NotFull
<1>. QED
  BY <1>1, Invariance, PTL

(* Only the head of the queue is served (uid_pool.go:33-46).                *)
THEOREM WaitingIsFair == Spec => NoOvertaking
<1>. DEFINE Order == \A i, j \in 1 .. Len(waiting) :
                        i < j /\ lease'[waiting[j]] # NoUid => lease'[waiting[i]] # NoUid
<1>1. Inv /\ [Next]_vars => [Order]_vars
  <2>. SUFFICES ASSUME Inv, [Next]_vars PROVE Order \/ UNCHANGED vars
    OBVIOUS
  <2>1. /\ waiting \in Seq(Clients) /\ Len(waiting) \in Nat
        /\ \A i \in 1 .. Len(waiting) : waiting[i] \in Clients /\ lease[waiting[i]] = NoUid
    BY LenProperties, ElementOfSeq DEF Inv, TypeOK, WaitOnlyWhenEmpty
  <2>2. ASSUME NEW c \in Clients, Acquire(c) PROVE Order
    <3>1. waiting = <<>>
      BY <2>2 DEF Inv, WaitOnlyWhenEmpty, Acquire
    <3>. QED
      BY <3>1
  <2>3. ASSUME lease' = lease PROVE Order
    BY <2>1, <2>3
  <2>4. ASSUME NEW c \in Clients, Release(c) PROVE Order
    <3>1. lease \in [Clients -> Uids \union {NoUid}]
      BY DEF Inv, TypeOK
    <3>2. CASE waiting = <<>>
      BY <3>2
    <3>3. CASE waiting # <<>>
      <4>1. Head(waiting) = waiting[1] /\ Head(waiting) \in Clients
        BY <2>1, <3>3, Received
      <4>2. lease' = [lease EXCEPT ![c] = NoUid, ![Head(waiting)] = lease[c]] /\ lease[c] # NoUid
        BY <2>4, <3>3, UidsAreNat DEF Release
      <4>3. \A j \in 1 .. Len(waiting) : j # 1 => waiting[j] # waiting[1]
        BY <2>1 DEF Inv, WaitOnlyWhenEmpty
      <4>4. \A j \in 1 .. Len(waiting) : j # 1 => lease'[waiting[j]] = NoUid
        BY <2>1, <3>1, <4>1, <4>2, <4>3
      <4>. QED
        BY <2>1, <4>4
    <3>. QED
      BY <3>2, <3>3
  <2>. QED
    BY <2>2, <2>3, <2>4 DEF Next, Park, Cancel, GiveUp
<1>. QED
  BY <1>1, Invariance, PTL DEF Spec, NoOvertaking

-----------------------------------------------------------------------------

(* What a step does for the i-th client that waits: its context ended and   *)
(* it leaves; it is the first and gets a UID; or it keeps its place, moves  *)
(* up behind one that left, and moves up by one for certain when a UID is   *)
(* given back.                                                              *)
Advances(i) ==
    \/ waiting[i] \in cancelled /\ \A j \in 1 .. Len(waiting') : waiting'[j] # waiting[i]
    \/ i = 1 /\ lease'[waiting[i]] \in Uids
    \/ \E j \in 1 .. Len(waiting') :
          /\ waiting'[j] = waiting[i]
          /\ j \in {i - 1, i}
          /\ (\E c \in Clients : Release(c)) => j = i - 1

(* No step sends a waiting client back, and each Release serves the first   *)
(* and moves up everybody else.                                             *)
WaitersAdvance == [][\A i \in 1 .. Len(waiting) : Advances(i)]_vars

(* Who waits, waits for a Release that is due.                              *)
WaitersAwaitRelease ==
    waiting # <<>> /\ Capacity > 0 => \E c \in Clients : lease[c] \in Uids

(* A receiver that parks or is woken never moves one that is parked already *)
(* behind it (uid_pool.go:33-46).                                           *)
LEMMA StepAdvances ==
  ASSUME Inv, [Next]_vars, ~UNCHANGED vars, NEW i \in 1 .. Len(waiting)
  PROVE  Advances(i)
<1>1. /\ waiting \in Seq(Clients) /\ Len(waiting) \in Nat /\ waiting # <<>>
      /\ waiting[i] \in Clients /\ lease[waiting[i]] = NoUid /\ avail = <<>>
  BY LenProperties, ElementOfSeq, EmptySeq DEF Inv, TypeOK, WaitOnlyWhenEmpty
<1>2. ASSUME NEW c \in Clients, Release(c) PROVE Advances(i)
  <2>1. /\ Head(waiting) = waiting[1] /\ Len(Tail(waiting)) = Len(waiting) - 1
        /\ \A k \in 1 .. Len(waiting) - 1 : Tail(waiting)[k] = waiting[k + 1]
    BY <1>1, Received
  <2>2. /\ waiting' = Tail(waiting) /\ lease[c] \in Uids
        /\ lease' = [lease EXCEPT ![c] = NoUid, ![Head(waiting)] = lease[c]]
    BY <1>1, <1>2 DEF Release
  <2>3. CASE i = 1
    <3>1. lease \in [Clients -> Uids \union {NoUid}]
      BY DEF Inv, TypeOK
    <3>2. lease'[waiting[1]] = lease[c]
      BY <1>1, <2>1, <2>2, <2>3, <3>1
    <3>. QED
      BY <2>2, <2>3, <3>2 DEF Advances
  <2>4. CASE i # 1
    <3>1. i - 1 \in 1 .. Len(waiting') /\ waiting'[i - 1] = waiting[i]
      BY <1>1, <2>1, <2>2, <2>4
    <3>. QED
      BY <3>1 DEF Advances
  <2>. QED
    BY <2>3, <2>4
<1>3. ASSUME ~\E c \in Clients : Release(c), NEW c \in Clients,
             Acquire(c) \/ Park(c) \/ Cancel(c) \/ GiveUp(c)
      PROVE  Advances(i)
  <2>1. ASSUME waiting' = waiting PROVE Advances(i)
    BY <1>3, <2>1 DEF Advances
  <2>2. CASE Park(c)
    <3>1. Len(waiting') = Len(waiting) + 1 /\ waiting'[i] = waiting[i]
      BY <1>1, <2>2, Sent DEF Park
    <3>2. i \in 1 .. Len(waiting')
      BY <1>1, <3>1
    <3>. QED
      BY <1>3, <3>1, <3>2 DEF Advances
  <2>3. ASSUME c \in cancelled, NEW k \in 1 .. Len(waiting), waiting[k] = c,
               waiting' = Without(k)
        PROVE  Advances(i)
    <3>1. /\ Len(waiting') = Len(waiting) - 1
          /\ \A j \in 1 .. Len(waiting) - 1 :
                waiting'[j] = waiting[IF j < k THEN j ELSE j + 1]
      BY <2>3, Removed DEF Inv
    <3>2. CASE i = k
      <4>1. ASSUME NEW j \in 1 .. Len(waiting') PROVE waiting'[j] # waiting[i]
        <5>1. \E h \in 1 .. Len(waiting) : h # i /\ waiting'[j] = waiting[h]
          BY <1>1, <3>1, <3>2, <4>1
        <5>. QED
          BY <5>1 DEF Inv, WaitOnlyWhenEmpty
      <4>. QED
        BY <2>3, <3>2, <4>1 DEF Advances
    <3>3. CASE i < k
      <4>1. i \in 1 .. Len(waiting') /\ waiting'[i] = waiting[i]
        BY <1>1, <3>1, <3>3
      <4>. QED
        BY <1>3, <4>1 DEF Advances
    <3>4. CASE k < i
      <4>1. i - 1 \in 1 .. Len(waiting') /\ waiting'[i - 1] = waiting[i]
        BY <1>1, <3>1, <3>4
      <4>. QED
        BY <4>1 DEF Advances
    <3>. QED
      BY <1>1, <3>2, <3>3, <3>4
  <2>4. CASE Acquire(c) \/ Cancel(c)
    BY <1>1, <2>1, <2>4 DEF Acquire, Cancel
  <2>5. CASE GiveUp(c)
    BY <2>1, <2>3, <2>5 DEF GiveUp
  <2>. QED
    BY <1>3, <2>2, <2>4, <2>5
<1>. QED
  BY <1>2, <1>3 DEF Next

(* The safety half of WaiterServed: a waiting client comes nearer with each *)
(* Release, and nothing takes it back (uid_pool.go:33-46).                  *)
THEOREM WaitersMoveUp == Spec => WaitersAdvance
<1>1. Inv /\ [Next]_vars => [\A i \in 1 .. Len(waiting) : Advances(i)]_vars
  BY StepAdvances
<1>. QED
  BY <1>1, Invariance, PTL DEF Spec, WaitersAdvance

(* ... and the Release it needs is always one that some run owes: the pool  *)
(* never has a waiting client and no UID out (uid_pool.go:33-46).           *)
THEOREM WaitersHaveReason == Spec => []WaitersAwaitRelease
<1>1. Inv => WaitersAwaitRelease
  <2>. SUFFICES ASSUME Inv, waiting # <<>>, Capacity > 0
                PROVE  \E c \in Clients : lease[c] \in Uids
    BY DEF WaitersAwaitRelease
  <2>1. MinUid \in Uids
    BY RangeAssumption DEF Uids, Capacity
  <2>2. avail = <<>> /\ ~Buffered(MinUid)
    BY EmptySeq DEF Inv, WaitOnlyWhenEmpty, Buffered
  <2>. QED
    BY <2>1, <2>2 DEF Inv, EveryUidOnce, Leased
<1>. QED
  BY <1>1, Invariance, PTL

-----------------------------------------------------------------------------

Holders == [u \in Uids |-> {c \in Clients : lease[c] = u}]

(* A client without a UID holds none of UidLease.                           *)
LEMMA NoneHeld ==
  ASSUME NEW c \in Clients, lease[c] = NoUid PROVE Lease!Empty(c)
  BY UidsAreNat DEF Lease!Empty

(* The UID that a client has is held by that client alone.                  *)
LEMMA HeldAlone ==
  ASSUME Inv, NEW c \in Clients, lease[c] \in Uids PROVE Holders[lease[c]] = {c}
  BY DEF Inv, EveryUidOnce, Holders

(* The steps of UidLease, in terms of the holders.                          *)
LEMMA LeaseSteps ==
  ASSUME NEW u \in Uids, NEW c \in Clients
  PROVE  /\ Holders[u] = {} /\ lease[c] = NoUid /\ Holders' = [Holders EXCEPT ![u] = {c}]
            => Lease!Take(u, c)
         /\ Holders[u] = {c} /\ Holders' = [Holders EXCEPT ![u] = {}]
            => Lease!Return(u, c)
         /\ \A d \in Clients :
               Holders[u] = {c} /\ lease[d] = NoUid /\ Holders' = [Holders EXCEPT ![u] = {d}]
               => Lease!HandOver(u, c, d)
<1>1. ASSUME Holders[u] = {}, lease[c] = NoUid, Holders' = [Holders EXCEPT ![u] = {c}]
      PROVE  Lease!Take(u, c)
  <2>1. Lease!Empty(c)
    BY <1>1, NoneHeld
  <2>. QED
    BY <1>1, <2>1 DEF Lease!Take, Holders
<1>2. ASSUME Holders[u] = {c}, Holders' = [Holders EXCEPT ![u] = {}]
      PROVE  Lease!Return(u, c)
  BY <1>2 DEF Lease!Return, Holders
<1>3. ASSUME NEW d \in Clients,
             Holders[u] = {c}, lease[d] = NoUid, Holders' = [Holders EXCEPT ![u] = {d}]
      PROVE  Lease!HandOver(u, c, d)
  <2>1. Lease!Empty(d)
    BY <1>3, NoneHeld
  <2>. QED
    BY <1>3, <2>1 DEF Lease!HandOver, Holders
<1>. QED
  BY <1>1, <1>2, <1>3

(* Every step of the pool is a step of UidLease or leaves the holders.      *)
LEMMA LeaseStep == Inv /\ [Next]_vars => [Lease!Next]_Holders
<1>. SUFFICES ASSUME Inv, [Next]_vars PROVE Lease!Next \/ Holders' = Holders
  BY DEF Holders
<1>. USE UidsAreNat
<1>0. lease \in [Clients -> Uids \union {NoUid}]
  BY DEF Inv, TypeOK
<1>1. ASSUME NEW c \in Clients, Acquire(c) PROVE Lease!Next
  <2>1. avail \in Seq(Uids) /\ avail # <<>>
    BY <1>1 DEF Inv, TypeOK, Acquire
  <2>2. PICK u \in Uids : u = Head(avail) /\ 1 \in 1 .. Len(avail) /\ avail[1] = u
    <3>1. Head(avail) \in Uids /\ 1 \in 1 .. Len(avail) /\ avail[1] = Head(avail)
      BY <2>1, Received
    <3>. QED
      BY <3>1
  <2>3. ~Leased(u)
    BY <2>2 DEF Inv, EveryUidOnce, Buffered
  <2>4. lease' = [lease EXCEPT ![c] = u] /\ lease[c] = NoUid
    BY <1>1, <2>2 DEF Acquire, Idle
  <2>5. Holders[u] = {}
    BY <2>2, <2>3 DEF Holders, Leased
  <2>6. Holders' = [Holders EXCEPT ![u] = {c}]
    BY <1>0, <2>2, <2>4, <2>5 DEF Holders
  <2>7. Lease!Take(u, c)
    BY <2>2, <2>4, <2>5, <2>6, LeaseSteps
  <2>. QED
    BY <2>2, <2>7 DEF Lease!Next
<1>2. ASSUME lease' = lease PROVE Holders' = Holders
  BY <1>2 DEF Holders
<1>3. ASSUME NEW c \in Clients, Release(c) PROVE Lease!Next
  <2>1. PICK u \in Uids : u = lease[c] /\ Holders[u] = {c}
    BY <1>3, HeldAlone DEF Release
  <2>2. CASE waiting = <<>>
    <3>1. lease' = [lease EXCEPT ![c] = NoUid]
      BY <1>3, <2>2 DEF Release
    <3>2. Holders' = [Holders EXCEPT ![u] = {}]
      <4>1. \A a \in Clients : lease'[a] = IF a = c THEN NoUid ELSE lease[a]
        BY <1>0, <3>1
      <4>2. \A a \in Clients : lease[a] = u <=> a = c
        BY <2>1 DEF Holders
      <4>3. \A v \in Uids : Holders'[v] = IF v = u THEN {} ELSE Holders[v]
        BY <2>1, <4>1, <4>2 DEF Holders
      <4>. QED
        BY <2>1, <4>3 DEF Holders
    <3>3. Lease!Return(u, c)
      BY <2>1, <3>2, LeaseSteps
    <3>. QED
      BY <2>1, <3>3 DEF Lease!Next
  <2>3. CASE waiting # <<>>
    <3>1. waiting \in Seq(Clients)
      BY DEF Inv, TypeOK
    <3>2. PICK d \in Clients :
             d = Head(waiting) /\ 1 \in 1 .. Len(waiting) /\ waiting[1] = d
      BY <2>3, <3>1, Received
    <3>3. lease[d] = NoUid /\ c # d
      BY <2>1, <3>2 DEF Inv, WaitOnlyWhenEmpty
    <3>4. lease' = [lease EXCEPT ![c] = NoUid, ![d] = u]
      BY <1>3, <2>1, <2>3, <3>2 DEF Release
    <3>5. Holders' = [Holders EXCEPT ![u] = {d}]
      <4>1. \A a \in Clients :
               lease'[a] = IF a = d THEN u ELSE IF a = c THEN NoUid ELSE lease[a]
        BY <1>0, <3>2, <3>3, <3>4
      <4>2. \A a \in Clients : lease[a] = u <=> a = c
        BY <2>1 DEF Holders
      <4>3. \A v \in Uids : Holders'[v] = IF v = u THEN {d} ELSE Holders[v]
        BY <2>1, <3>2, <3>3, <4>1, <4>2 DEF Holders
      <4>. QED
        BY <2>1, <4>3 DEF Holders
    <3>6. Lease!HandOver(u, c, d)
      BY <2>1, <3>2, <3>3, <3>5, LeaseSteps
    <3>. QED
      BY <2>1, <3>2, <3>6 DEF Lease!Next
  <2>. QED
    BY <2>2, <2>3
<1>. QED
  BY <1>1, <1>2, <1>3 DEF Next, Park, Cancel, GiveUp, vars

(* The pool implements the lease of single UIDs (uid_pool.go:20-46).        *)
THEOREM PoolImplementsLease == Spec => KeepsLease
<1>1. Init => Lease!Init
  BY UidsAreNat DEF Init, Lease!Init
<1>2. Inv /\ [Next]_vars => [Lease!Next]_Holders
  BY LeaseStep
<1>. QED
  BY <1>1, <1>2, Invariance, PTL DEF Spec, KeepsLease, Lease!Spec, Holders
=============================================================================
