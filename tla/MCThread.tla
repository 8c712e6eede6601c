----------------------------- MODULE MCThread -----------------------------
(* The scheduler and the alarm clock with the initial thread, idle and two  *)
(* more threads.  The slice of 2 ticks lets a sleeper become overdue, and   *)
(* the negative argument is timer_sleep()'s other branch.                   *)
EXTENDS Thread

CONSTANTS main, idle, a, b

MCThreads == {main, idle, a, b}
MCSleepArgs == {-1, 1, 2}
=============================================================================
