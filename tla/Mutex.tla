------------------------------- MODULE Mutex -------------------------------
(* What a lock of synch.h promises: a thread at a time owns it, and only     *)
(* the owner gives it up.                                                    *)
CONSTANTS Threads, Locks, None
VARIABLE owner

Init == owner = [l \in Locks |-> None]

Acquire(t, l) == owner[l] = None /\ owner' = [owner EXCEPT ![l] = t]
Release(t, l) == owner[l] = t /\ owner' = [owner EXCEPT ![l] = None]

Next == \E t \in Threads, l \in Locks : Acquire(t, l) \/ Release(t, l)

Spec == Init /\ [][Next]_owner
=============================================================================
