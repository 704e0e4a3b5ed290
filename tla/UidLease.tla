------------------------------ MODULE UidLease ------------------------------
(***************************************************************************)
(* What the UID pool promises: a UID has at most one holder, a client at   *)
(* most one UID, and a UID passes from one holder to the next only by      *)
(* being given back.                                                       *)
(***************************************************************************)
CONSTANTS
    Uids,     \* the sandbox UIDs
    Clients   \* who may hold one

VARIABLE holder  \* holder[u]: {c} while c runs under u, {} while u is free

Init == holder = [u \in Uids |-> {}]

Empty(c) == \A u \in Uids : c \notin holder[u]

Take(u, c) == /\ holder[u] = {} /\ Empty(c)
              /\ holder' = [holder EXCEPT ![u] = {c}]

Return(u, c) == /\ holder[u] = {c}
                /\ holder' = [holder EXCEPT ![u] = {}]

(* A UID that is given back goes straight to a client that waits for one. *)
HandOver(u, c, d) == /\ holder[u] = {c} /\ Empty(d)
                     /\ holder' = [holder EXCEPT ![u] = {d}]

Next == \E u \in Uids, c \in Clients :
          Take(u, c) \/ Return(u, c) \/ \E d \in Clients : HandOver(u, c, d)

Spec == Init /\ [][Next]_holder
=============================================================================
