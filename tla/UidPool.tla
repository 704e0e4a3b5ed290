------------------------------ MODULE UidPool ------------------------------
(***************************************************************************)
(* The pool of sandbox UIDs (internal/core/runner/uidpool/uid_pool.go).    *)
(*                                                                         *)
(* The pool is a buffered Go channel that holds the free UIDs.  Receivers  *)
(* of an empty channel are parked in order of arrival, and a send hands    *)
(* its value to the first of them without passing through the buffer.      *)
(*                                                                         *)
(* A client stands for one run: it acquires a UID or is refused because    *)
(* its context ended, and gives the UID back once.                         *)
(***************************************************************************)
EXTENDS Integers, Sequences

CONSTANTS
    Clients,         \* runs that share the pool
    MinUid, MaxUid   \* NewUIDPool(min, max): the UIDs min .. max - 1

ASSUME RangeAssumption == MinUid \in Nat /\ MaxUid \in Nat /\ MinUid <= MaxUid

VARIABLES
    avail,     \* the UIDs in the channel, oldest first
    waiting,   \* the clients parked in Acquire, in order of arrival
    lease,     \* per client: its UID, or NoUid
    cancelled  \* clients whose context is done

vars == <<avail, waiting, lease, cancelled>>

Uids == MinUid .. MaxUid - 1
Capacity == MaxUid - MinUid
NoUid == -1

IsWaiting(c) == \E i \in 1 .. Len(waiting) : waiting[i] = c
Idle(c) == lease[c] = NoUid /\ ~IsWaiting(c)

Init ==
    /\ avail = [i \in 1 .. Capacity |-> MinUid + i - 1]
    /\ waiting = <<>>
    /\ lease = [c \in Clients |-> NoUid]
    /\ cancelled = {}

(* Mutant: the head is read but not taken off the channel. *)
AcquirePeeks(c) ==
    /\ Idle(c)
    /\ avail # <<>>
    /\ lease' = [lease EXCEPT ![c] = Head(avail)]
    /\ UNCHANGED <<avail, waiting, cancelled>>

(* The receive case of Acquire's select.  It may be taken even when the     *)
(* context is done as well: select chooses among the ready cases.           *)
Acquire(c) ==
    /\ Idle(c)
    /\ avail # <<>>
    /\ lease' = [lease EXCEPT ![c] = Head(avail)]
    /\ avail' = Tail(avail)
    /\ UNCHANGED <<waiting, cancelled>>

(* Neither case is ready. *)
Park(c) ==
    /\ Idle(c)
    /\ avail = <<>> /\ c \notin cancelled
    /\ waiting' = Append(waiting, c)
    /\ UNCHANGED <<avail, lease, cancelled>>

(* The context of the request ends. *)
Cancel(c) ==
    /\ c \notin cancelled
    /\ cancelled' = cancelled \union {c}
    /\ UNCHANGED <<avail, waiting, lease>>

(* The queue without its k-th client. *)
Without(k) == [i \in 1 .. Len(waiting) - 1 |-> waiting[IF i < k THEN i ELSE i + 1]]

(* The Done case: ErrUIDPoolExhausted.  The client's next run brings a new  *)
(* context.                                                                 *)
GiveUp(c) ==
    /\ c \in cancelled
    /\ lease[c] = NoUid
    /\ \/ ~IsWaiting(c) /\ UNCHANGED waiting
       \/ \E k \in 1 .. Len(waiting) : waiting[k] = c /\ waiting' = Without(k)
    /\ cancelled' = cancelled \ {c}
    /\ UNCHANGED <<avail, lease>>

(* Mutant: the UID is always buffered, nobody is woken. *)
ReleaseBuffers(c) ==
    /\ lease[c] \in Uids
    /\ Len(avail) < Capacity
    /\ avail' = Append(avail, lease[c])
    /\ lease' = [lease EXCEPT ![c] = NoUid]
    /\ cancelled' = cancelled \ {c}
    /\ UNCHANGED waiting

(* Mutant: the woken client receives the zero value of a closed channel. *)
ReleaseUnparks(c) ==
    /\ lease[c] \in Uids
    /\ IF waiting # <<>>
       THEN /\ lease' = [lease EXCEPT ![c] = NoUid, ![Head(waiting)] = 0]
            /\ waiting' = Tail(waiting)
            /\ UNCHANGED avail
       ELSE /\ Len(avail) < Capacity
            /\ lease' = [lease EXCEPT ![c] = NoUid]
            /\ avail' = Append(avail, lease[c])
            /\ UNCHANGED waiting
    /\ cancelled' = cancelled \ {c}

(* Mutant: the client that came last is served first. *)
ReleaseToLast(c) ==
    /\ lease[c] \in Uids
    /\ IF waiting # <<>>
       THEN /\ lease' = [lease EXCEPT ![c] = NoUid, ![waiting[Len(waiting)]] = lease[c]]
            /\ waiting' = SubSeq(waiting, 1, Len(waiting) - 1)
            /\ UNCHANGED avail
       ELSE /\ Len(avail) < Capacity
            /\ lease' = [lease EXCEPT ![c] = NoUid]
            /\ avail' = Append(avail, lease[c])
            /\ UNCHANGED waiting
    /\ cancelled' = cancelled \ {c}

(* Mutant: "uid > p.min": the lowest UID is not taken back. *)
ReleaseAboveMin(c) ==
    /\ lease[c] \in Uids
    /\ lease' = [lease EXCEPT ![c] = NoUid]
    /\ avail' = IF lease[c] > MinUid THEN Append(avail, lease[c]) ELSE avail
    /\ cancelled' = cancelled \ {c}
    /\ UNCHANGED waiting

(* Release of an in-range UID (the range check ignores any other value):    *)
(* the send completes when a receiver waits or the buffer has room.         *)
Release(c) ==
    /\ lease[c] \in Uids
    /\ IF waiting # <<>>
       THEN /\ lease' = [lease EXCEPT ![c] = NoUid, ![Head(waiting)] = lease[c]]
            /\ waiting' = Tail(waiting)
            /\ UNCHANGED avail
       ELSE /\ Len(avail) < Capacity
            /\ lease' = [lease EXCEPT ![c] = NoUid]
            /\ avail' = Append(avail, lease[c])
            /\ UNCHANGED waiting
    /\ cancelled' = cancelled \ {c}

Next == \E c \in Clients :
          Acquire(c) \/ Park(c) \/ Cancel(c) \/ GiveUp(c) \/ Release(c)

Spec == Init /\ [][Next]_vars

(* Runs end (RunContract), so what was acquired is released; nobody has to  *)
(* start a run or to cancel one.                                            *)
FairSpec == Spec /\ \A c \in Clients : WF_vars(Release(c))

-----------------------------------------------------------------------------
(* Properties. *)

TypeOK ==
    /\ avail \in Seq(Uids)
    /\ waiting \in Seq(Clients)
    /\ lease \in [Clients -> Uids \union {NoUid}]
    /\ cancelled \subseteq Clients

Buffered(u) == \E i \in 1 .. Len(avail) : avail[i] = u
Leased(u) == \E c \in Clients : lease[c] = u

(* Every UID is in the channel or leased, never both, and never twice: no   *)
(* two runs share a UID and none is lost (uid_pool.go:20-46).               *)
EveryUidOnce ==
    /\ \A u \in Uids : Buffered(u) <=> ~Leased(u)
    /\ \A i, j \in 1 .. Len(avail) : i # j => avail[i] # avail[j]
    /\ \A c, d \in Clients : c # d /\ lease[c] \in Uids => lease[c] # lease[d]

(* Nobody waits while a UID is free, nobody waits twice, and who waits has  *)
(* no UID (the channel's receive queue, uid_pool.go:33-40).                 *)
WaitOnlyWhenEmpty ==
    /\ waiting # <<>> => avail = <<>>
    /\ \A i, j \in 1 .. Len(waiting) : i # j => waiting[i] # waiting[j]
    /\ \A i \in 1 .. Len(waiting) : lease[waiting[i]] = NoUid

(* A client that waits is served before every client that came later: only  *)
(* the head of the queue gets a UID.                                        *)
NoOvertaking ==
    [][\A i, j \in 1 .. Len(waiting) :
          i < j /\ lease'[waiting[j]] # NoUid => lease'[waiting[i]] # NoUid]_vars

(* Giving back a leased UID never blocks: there is always room for it       *)
(* (uid_pool.go:44, an unconditional send).                                 *)
ReleaseNeverBlocks ==
    \A c \in Clients : lease[c] \in Uids => waiting # <<>> \/ Len(avail) < Capacity

(* A waiting client is served or its context ends.                          *)
WaiterServed ==
    \A c \in Clients : IsWaiting(c) ~> (lease[c] \in Uids \/ c \in cancelled)

(* The pool implements the lease of single UIDs.                            *)
Lease == INSTANCE UidLease WITH
    holder <- [u \in Uids |-> {c \in Clients : lease[c] = u}]

KeepsLease == Lease!Spec
=============================================================================
