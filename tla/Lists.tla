------------------------------- MODULE Lists -------------------------------
(***************************************************************************)
(* The operations of lib/kernel/list.c that the kernel's queues use, over  *)
(* sequences, and the two list scans of the scheduler: the first element   *)
(* of greatest priority, and the sub-list of the elements in a set.        *)
(* The definitions are not recursive, so that TLAPS can reason about them. *)
(***************************************************************************)
EXTENDS Integers, Sequences, FiniteSets, SequencesExt

\* Faulty variant: the head of the list, whatever its priority.
FirstMax_Head(s, pri) == 1

\* The scan of next_thread_to_run and sema_up_internal: `>' against the best
\* so far keeps the earliest of the elements with the greatest priority.
FirstMax(s, pri) ==
  CHOOSE i \in DOMAIN s :
    /\ \A j \in DOMAIN s : pri[s[j]] <= pri[s[i]]
    /\ \A j \in DOMAIN s : j < i => pri[s[j]] < pri[s[i]]

\* How many of the first i elements of s are in S.
Rank(s, S, i) == Cardinality({j \in 1..i : s[j] \in S})

\* The elements of s that are in S, in the order of s: what a pass over the
\* list that unlinks the others leaves behind.
Sublist(s, S) ==
  [k \in 1..Rank(s, S, Len(s)) |->
     s[CHOOSE i \in DOMAIN s : s[i] \in S /\ Rank(s, S, i) = k]]

\* list_remove of the one link that holds x.
Unlink(s, x) == RemoveAt(s, CHOOSE i \in DOMAIN s : s[i] = x)
=============================================================================
