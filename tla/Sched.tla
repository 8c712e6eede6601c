------------------------------- MODULE Sched -------------------------------
(***************************************************************************)
(* The round-robin kernel of project 2 that the device drivers run on:     *)
(* proj2/src/threads/thread.c, the semaphores and locks of                 *)
(* threads/synch.c, and the timer interrupt of threads/interrupt.c and     *)
(* devices/timer.c, on one CPU.                                            *)
(*                                                                         *)
(* Code that runs with interrupts off is one step, up to the switch in     *)
(* schedule().  at[t] names the point where thread t stands: "run" its own *)
(* code, "hlt" the idle thread after `sti; hlt', "sleep" timer_sleep()     *)
(* between timer_ticks() and the sleep; the drivers add their own points.  *)
(* Only differences of the clock are used, so the clock is not a variable: *)
(* left[t] is endTick - ticks, no less than 0.                             *)
(***************************************************************************)
EXTENDS Lists

CONSTANTS
  Threads,      \* the pages that can hold a struct thread
  Main,         \* initial_thread
  Idle,         \* idle_thread
  Semas,        \* the semaphores of the drivers, those in locks included
  LockSemas,    \* the ones that are in a struct lock
  TIME_SLICE,   \* ticks a thread runs before it is preempted
  IntrOff       \* the points at which a thread stands with interrupts off

ASSUME SchedAssumption ==
  /\ Main \in Threads /\ Idle \in Threads /\ Main # Idle
  /\ LockSemas \subseteq Semas
  /\ TIME_SLICE \in Nat \ {0}
  /\ {"run", "hlt", "sleep"} \cap IntrOff = {}

VARIABLES
  cur,            \* running_thread ()
  status,         \* struct thread: status; "FREE" is a page without a thread
  ready_list, sleep_list,
  left,           \* struct thread: endTick, as ticks to go
  thread_ticks,   \* ticks since the last schedule ()
  value, waiters, \* struct semaphore
  at              \* where each thread stands

schedVars == <<cur, status, ready_list, sleep_list, left, thread_ticks>>
semaVars == <<value, waiters>>
kernelVars == <<schedVars, semaVars, at>>

Goto(point) == at' = [at EXCEPT ![cur] = point]

-----------------------------------------------------------------------------
(* thread.c.                                                               *)

\* schedule() and thread_schedule_tail(), entered with statuses st, the lists
\* rl and sl and the times lf: wake the sleepers whose tick has come, switch to
\* the head of the ready list, start a time slice, destroy a dying thread.
Schedule(st, rl, sl, lf) ==
  \E woken \in {{t \in Range(sl) : lf[t] = 0}} :
  \E ready \in {rl \o Sublist(sl, woken)} :
  \E next \in {IF ready = <<>> THEN Idle ELSE Head(ready)} :
     /\ sleep_list' = Sublist(sl, Range(sl) \ woken)
     /\ ready_list' = IF ready = <<>> THEN <<>> ELSE Tail(ready)
     /\ cur' = next
     /\ status' = [t \in Threads |->
                     IF t = next THEN "RUNNING"
                     ELSE IF t \in woken THEN "READY"
                     ELSE IF t = cur /\ t # Main /\ st[t] = "DYING" THEN "FREE"
                     ELSE st[t]]
     /\ left' = lf
     /\ thread_ticks' = 0

ThreadBlock == Schedule([status EXCEPT ![cur] = "BLOCKED"], ready_list, sleep_list, left)

\* thread_yield() at a time that leaves lf to go.
ThreadYield(lf) ==
  Schedule([status EXCEPT ![cur] = "READY"],
           IF cur = Idle THEN ready_list ELSE Append(ready_list, cur), sleep_list, lf)

\* thread_unblock() of the threads in ts, one after the other: no preemption.
ThreadUnblock(ts) ==
  /\ \A i \in DOMAIN ts : status[ts[i]] = "BLOCKED"
  /\ status' = [t \in Threads |-> IF t \in Range(ts) THEN "READY" ELSE status[t]]
  /\ ready_list' = ready_list \o ts
  /\ UNCHANGED <<cur, sleep_list, left, thread_ticks>>

\* thread_create() up to its thread_unblock(); nobody can see t before.
ThreadCreate(t) ==
  /\ status[t] = "FREE"
  /\ status' = [status EXCEPT ![t] = "READY"]
  /\ ready_list' = Append(ready_list, t)
  /\ at' = [at EXCEPT ![t] = "run"]
  /\ left' = [left EXCEPT ![t] = 0]
  /\ UNCHANGED <<cur, sleep_list, thread_ticks, semaVars>>

\* thread_exit() of a thread without a parent.
ThreadExit ==
  /\ Schedule([status EXCEPT ![cur] = "DYING"], ready_list, sleep_list, left)
  /\ UNCHANGED <<semaVars, at>>

\* thread_yield_for_seconds(), called at the point "sleep", with the tick that
\* timer_sleep() has computed; afterwards the thread stands at point.
ThreadYieldForSeconds(point) ==
  /\ Goto(point)
  /\ Schedule([status EXCEPT ![cur] = "BLOCKED"], ready_list, Append(sleep_list, cur), left)
  /\ UNCHANGED semaVars

\* timer_sleep(n) reads the clock; a tick may pass before it sleeps.
TimerSleep(n, point) ==
  /\ left' = [left EXCEPT ![cur] = n]
  /\ Goto(point)
  /\ UNCHANGED <<cur, status, ready_list, sleep_list, thread_ticks, semaVars>>

\* One round of idle(): thread_block(), after which it stands at `sti; hlt'.
IdleBlock ==
  /\ cur = Idle /\ at[Idle] = "run"
  /\ Goto("hlt")
  /\ ThreadBlock
  /\ UNCHANGED semaVars

-----------------------------------------------------------------------------
(* synch.c.                                                                *)

\* sema_up(), of a thread or of an interrupt handler.
SemaUp(s) ==
  /\ value' = [value EXCEPT ![s] = @ + 1]
  /\ \/ waiters[s] = <<>> /\ UNCHANGED <<waiters, schedVars>>
     \/ /\ waiters[s] # <<>>
        /\ waiters' = [waiters EXCEPT ![s] = Tail(@)]
        /\ ThreadUnblock(<<Head(waiters[s])>>)

\* Faulty variant: the value is not tested again after the wakeup.
SemaDown_NoRetest(s, point) ==
  \/ /\ value[s] > 0
     /\ value' = [value EXCEPT ![s] = @ - 1]
     /\ Goto(point)
     /\ UNCHANGED <<waiters, schedVars>>
  \/ /\ value[s] = 0
     /\ waiters' = [waiters EXCEPT ![s] = Append(@, cur)]
     /\ Goto(point)
     /\ ThreadBlock
     /\ UNCHANGED value

\* The loop of sema_down(), at a point with interrupts off; afterwards the
\* thread stands at point.
SemaDown(s, point) ==
  \/ /\ value[s] > 0
     /\ value' = [value EXCEPT ![s] = @ - 1]
     /\ Goto(point)
     /\ UNCHANGED <<waiters, schedVars>>
  \/ /\ value[s] = 0
     /\ waiters' = [waiters EXCEPT ![s] = Append(@, cur)]
     /\ ThreadBlock
     /\ UNCHANGED <<value, at>>

-----------------------------------------------------------------------------
(* interrupt.c and timer.c.                                                *)

IntrOn == at[cur] \notin IntrOff

\* An external interrupt is taken: interrupts are on, and it ends idle's hlt.
InterruptEntry ==
  /\ IntrOn
  /\ at' = [at EXCEPT ![Idle] = IF cur = Idle THEN "run" ELSE @]

\* intr_handler() for the timer: timer_interrupt(), thread_tick(), and the
\* yield on return when the time slice is used up.
TimerInterrupt ==
  /\ InterruptEntry
  /\ \E lf \in {[t \in Threads |-> IF left[t] > 0 THEN left[t] - 1 ELSE 0]} :
       \/ /\ thread_ticks + 1 >= TIME_SLICE
          /\ ThreadYield(lf)
       \/ /\ thread_ticks + 1 < TIME_SLICE
          /\ thread_ticks' = thread_ticks + 1
          /\ left' = lf
          /\ UNCHANGED <<cur, status, ready_list, sleep_list>>
  /\ UNCHANGED semaVars

-----------------------------------------------------------------------------
\* The state after thread_init() and thread_start(): the initial thread runs, at
\* point, and idle has been scheduled once and has blocked.
SchedInit(point) ==
  /\ cur = Main
  /\ status = [t \in Threads |-> CASE t = Main -> "RUNNING"
                                   [] t = Idle -> "BLOCKED"
                                   [] OTHER -> "FREE"]
  /\ ready_list = <<>> /\ sleep_list = <<>>
  /\ left = [t \in Threads |-> 0]
  /\ thread_ticks = 0
  /\ value = [s \in Semas |-> IF s \in LockSemas THEN 1 ELSE 0]
  /\ waiters = [s \in Semas |-> <<>>]
  /\ at = [t \in Threads |-> CASE t = Idle -> "hlt" [] t = Main -> point [] OTHER -> "run"]

\* Every live thread is in one place: it runs, it is once on the ready list, or
\* it sleeps and is once on the sleep list or on one list of waiters; only idle
\* may be blocked and on no list.  (The extra members are threads a driver has
\* blocked with thread_block() itself.)
ThreadsAccounted(extra) ==
  LET places(t) == Cardinality({i \in DOMAIN ready_list : ready_list[i] = t})
                 + Cardinality({i \in DOMAIN sleep_list : sleep_list[i] = t})
                 + Cardinality(UNION {{s} \X {i \in DOMAIN waiters[s] : waiters[s][i] = t} :
                                      s \in Semas})
                 + (IF t \in extra THEN 1 ELSE 0)
  IN /\ status[cur] = "RUNNING"
     /\ \A t \in Threads :
          /\ places(t) = IF t # Idle /\ status[t] \in {"READY", "BLOCKED"} THEN 1 ELSE 0
          /\ t \in Range(ready_list) <=> (status[t] = "READY" /\ t # Idle)
          /\ status[t] = "RUNNING" => t = cur
=============================================================================
