-------------------------------- MODULE Intq --------------------------------
(***************************************************************************)
(* The ring buffer of proj2/src/devices/intq.c and intq.h: its operations  *)
(* on a queue that is not at its limit.  Who waits at a limit, and who     *)
(* wakes him, is module Chars.                                             *)
(***************************************************************************)
EXTENDS Integers, Sequences, FiniteSets

CONSTANT Vacant          \* what a slot without a character is taken to hold

NextPos(q, p) == (p + 1) % Cardinality(DOMAIN q.buf)
Empty(q) == q.head = q.tail

\* Faulty variant: all slots are used, and a full queue looks empty.
Full_AllSlots(q) == FALSE

Full(q) == NextPos(q, q.head) = q.tail

\* intq_putc() and intq_getc() of a queue that is not full, not empty.  A slot
\* that has been read is vacant: what it still holds is never read again.
Put(q, c) == [q EXCEPT !.buf[q.head] = c, !.head = NextPos(q, q.head)]
Oldest(q) == q.buf[q.tail]

Get(q) == [q EXCEPT !.tail = NextPos(q, q.tail), !.buf[q.tail] = Vacant]

\* The characters in q, oldest first.
Queued(q) ==
  LET n == Cardinality(DOMAIN q.buf)
  IN [i \in 1..((q.head - q.tail + n) % n) |-> q.buf[(q.tail + i - 1) % n]]

\* intq_init() of a queue with n slots.
EmptyQueue(n) == [buf |-> [i \in 0..(n - 1) |-> Vacant], head |-> 0, tail |-> 0]

-----------------------------------------------------------------------------
\* intq_putc() of c and intq_getc(), as interrupt handlers call them: not past
\* the limits.
QueueStep(q, call, c) ==
  IF call = "put" THEN IF Full(q) THEN q ELSE Put(q, c)
                  ELSE IF Empty(q) THEN q ELSE Get(q)

\* The same calls on a queue of at most max characters that is a sequence.
FifoStep(s, call, c, max) ==
  IF call = "put" THEN IF Len(s) = max THEN s ELSE Append(s, c)
                  ELSE IF s = <<>> THEN s ELSE Tail(s)

\* Through every sequence of calls, also when head and tail have gone around,
\* a queue of n slots holds what a sequence of at most n - 1 characters would,
\* in order, and is full, empty and read where the sequence is.
QueueIsFifo(n, calls) ==
  LET ring[i \in 0..Len(calls)] ==
        IF i = 0 THEN EmptyQueue(n) ELSE QueueStep(ring[i - 1], calls[i], i)
      fifo[i \in 0..Len(calls)] ==
        IF i = 0 THEN <<>> ELSE FifoStep(fifo[i - 1], calls[i], i, n - 1)
  IN \A i \in 0..Len(calls) :
       /\ Queued(ring[i]) = fifo[i]
       /\ Full(ring[i]) <=> Len(fifo[i]) = n - 1
       /\ Empty(ring[i]) <=> fifo[i] = <<>>
       /\ fifo[i] # <<>> => Oldest(ring[i]) = Head(fifo[i])
=============================================================================
