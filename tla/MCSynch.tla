------------------------------ MODULE MCSynch ------------------------------
(* Locks, semaphores and condition variables for the initial thread, idle   *)
(* and one or two more threads.                                             *)
EXTENDS Synch

CONSTANTS main, idle, a, b, l1, l2, s1, c1

TwoThreads == {main, idle, a}
ThreeThreads == {main, idle, a, b}
NoSleep == {}
Sleep1 == {1}
OneLock == {l1}
TwoLocks == {l1, l2}
NoSema == {}
OneSema == {s1}
NoCond == {}
OneCond == {c1}
CondLock == [c \in Conds |-> l1]
SemaInit == [s \in Semaphores |-> 0]
=============================================================================
