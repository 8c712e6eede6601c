------------------------------ MODULE MCChars ------------------------------
(***************************************************************************)
(* Module Chars with the initial thread and one other thread, which print  *)
(* and read.                                                               *)
(***************************************************************************)
EXTENDS Chars

CONSTANTS main, idle, t1, console_lock, tx_lock, in_lock

AllThreads == {main, idle, t1}
\* Both also read.  The only call of input_getc() is in SYS_READ, which has
\* IOLock down until it returns (syscall.c:298-303), so system calls put at most
\* one thread into intq_getc().  (In this code not even one: the call is behind a
\* search for descriptor 0, which no process has, syscall.c:290 and thread.c:612.)
\* intq.c itself takes a lock to serve several, and that is what is checked.
Both == {main, t1}

Locks == {console_lock, tx_lock, in_lock}
Off == {"console", "put", "put_lock", "put_woken", "get", "get_lock", "get_woken"}
=============================================================================
