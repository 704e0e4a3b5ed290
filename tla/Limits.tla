------------------------------- MODULE Limits -------------------------------
(***************************************************************************)
(* The two limits on POST /v1/sandbox/run (internal/middleware/            *)
(* cocrrent.go): MaxRequest, a counter under a lock that refuses at once,  *)
(* and behind it MaxWorker, a buffered channel used as a semaphore that    *)
(* makes a request wait.                                                   *)
(*                                                                         *)
(* A sender of a full channel is parked in order of arrival.  A receive    *)
(* takes a token and puts the first parked sender's token in its place, so *)
(* a slot passes from the request that leaves to the one that waits.       *)
(***************************************************************************)
EXTENDS Integers, Sequences, FiniteSets

CONSTANTS
    Requests,     \* the requests that may be in the server
    MaxRequests,  \* max_requests
    MaxWorkers    \* max_workers

(* MaxWorker panics on a negative size; MaxRequest takes any integer.       *)
ASSUME LimitsAssumption ==
    MaxRequests \in Int /\ MaxWorkers \in Nat /\ IsFiniteSet(Requests)

VARIABLES
    current,   \* MaxRequestIface.current
    admitted,  \* requests that tryAcquire let in and that have not released
    parked,    \* requests parked on the worker channel, in order of arrival
    working,   \* requests that hold a worker slot
    leaving    \* requests between the two deferred calls

vars == <<current, admitted, parked, working, leaving>>

IsParked(r) == \E i \in 1 .. Len(parked) : parked[i] = r

(* Admitted and not yet at the worker channel. *)
AtDoor(r) == r \in admitted \ (working \union leaving) /\ ~IsParked(r)

Init == current = 0 /\ admitted = {} /\ parked = <<>>
        /\ working = {} /\ leaving = {}

(* Mutant: "m.current > max". *)
TryAcquireOneMore(r) ==
    /\ r \notin admitted
    /\ current <= MaxRequests
    /\ current' = current + 1
    /\ admitted' = admitted \union {r}
    /\ UNCHANGED <<parked, working, leaving>>

(* tryAcquire: test and increment under the lock. *)
TryAcquire(r) ==
    /\ r \notin admitted
    /\ current < MaxRequests
    /\ current' = current + 1
    /\ admitted' = admitted \union {r}
    /\ UNCHANGED <<parked, working, leaving>>

(* tryAcquire fails: 503 (-503), the chain is aborted. *)
Full == current >= MaxRequests

(* The send on the worker channel finds room ... *)
Enter(r) ==
    /\ AtDoor(r)
    /\ Cardinality(working) < MaxWorkers
    /\ working' = working \union {r}
    /\ UNCHANGED <<current, admitted, parked, leaving>>

(* ... or parks the request. *)
Park(r) ==
    /\ AtDoor(r)
    /\ Cardinality(working) >= MaxWorkers
    /\ parked' = Append(parked, r)
    /\ UNCHANGED <<current, admitted, working, leaving>>

(* Mutant: the token is taken and nobody is woken. *)
LeaveAsleep(r) ==
    /\ r \in working
    /\ leaving' = leaving \union {r}
    /\ working' = working \ {r}
    /\ UNCHANGED <<current, admitted, parked>>

(* Mutant: the request that came last is served first. *)
LeaveToLast(r) ==
    /\ r \in working
    /\ leaving' = leaving \union {r}
    /\ IF parked # <<>>
       THEN /\ working' = (working \ {r}) \union {parked[Len(parked)]}
            /\ parked' = SubSeq(parked, 1, Len(parked) - 1)
       ELSE /\ working' = working \ {r}
            /\ UNCHANGED parked
    /\ UNCHANGED <<current, admitted>>

(* The deferred receive of MaxWorker: a slot is freed or handed on.         *)
Leave(r) ==
    /\ r \in working
    /\ leaving' = leaving \union {r}
    /\ IF parked # <<>>
       THEN /\ working' = (working \ {r}) \union {Head(parked)}
            /\ parked' = Tail(parked)
       ELSE /\ working' = working \ {r}
            /\ UNCHANGED parked
    /\ UNCHANGED <<current, admitted>>

(* The deferred release of MaxRequest. *)
Release(r) ==
    /\ r \in leaving
    /\ leaving' = leaving \ {r}
    /\ current' = current - 1
    /\ admitted' = admitted \ {r}
    /\ UNCHANGED <<parked, working>>

Next == \E r \in Requests :
          TryAcquire(r) \/ Enter(r) \/ Park(r) \/ Leave(r) \/ Release(r)

Spec == Init /\ [][Next]_vars

-----------------------------------------------------------------------------
(* Properties. *)

TypeOK ==
    /\ current \in Int
    /\ admitted \subseteq Requests
    /\ parked \in Seq(Requests)
    /\ working \subseteq admitted
    /\ leaving \subseteq admitted

(* The counter is exactly the number of requests that are in, and never     *)
(* above the limit (cocrrent.go:30-47, 57-62): every increment meets one    *)
(* decrement.                                                               *)
CounterExact == current = Cardinality(admitted) /\ (current > 0 => current <= MaxRequests)

(* At most max_workers requests are in the handler, and a request waits     *)
(* only while all of them are (cocrrent.go:14-20).                          *)
SlotsExact ==
    /\ Cardinality(working) <= MaxWorkers
    /\ parked # <<>> => Cardinality(working) = MaxWorkers

(* A request is at one place only: it never waits for a second slot.        *)
OnePlace ==
    /\ working \intersect leaving = {}
    /\ \A i \in 1 .. Len(parked) : parked[i] \in admitted \ (working \union leaving)
    /\ \A i, j \in 1 .. Len(parked) : i # j => parked[i] # parked[j]

(* A slot goes to the request that has waited longest.                      *)
NoOvertaking ==
    [][\A i, j \in 1 .. Len(parked) :
          i < j /\ parked[j] \in working' => parked[i] \in working']_vars

=============================================================================
