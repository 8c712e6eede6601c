------------------------------- MODULE Thread -------------------------------
(***************************************************************************)
(* proj1/src/threads/thread.c with devices/timer.c: the priority scheduler *)
(* and the alarm clock of project 1, on one CPU.                           *)
(*                                                                         *)
(* A thread runs until it calls into the kernel or an interrupt arrives.   *)
(* Code that runs with interrupts off is one step, up to the switch in     *)
(* schedule(); a step boundary is a point where the code has interrupts on *)
(* or has just been switched in.  at[t] names the point where t stands:    *)
(*   "run"    its own code, interrupts on                                  *)
(*   "yield"  thread_create() before its thread_yield()                    *)
(*   "sleep"  timer_sleep() between timer_ticks() and the sleep            *)
(*   "hlt"    the idle thread after `sti; hlt'                             *)
(* Module Synch uses the remaining points.                                 *)
(***************************************************************************)
EXTENDS Lists

CONSTANTS
  Threads,      \* the pages that can hold a struct thread
  Main,         \* initial_thread
  Idle,         \* idle_thread
  PRI_MAX,      \* priorities are PRI_MIN = 0 .. PRI_MAX
  PRI_DEFAULT,
  TIME_SLICE,   \* ticks a thread runs before it is preempted
  MaxTicks,     \* bound: the clock stops here
  SleepArgs     \* the arguments timer_sleep() is called with

ASSUME ThreadAssumption ==
  /\ IsFiniteSet(Threads)
  /\ Main \in Threads /\ Idle \in Threads /\ Main # Idle
  /\ PRI_MAX \in Nat /\ PRI_DEFAULT \in 0..PRI_MAX
  /\ TIME_SLICE \in Nat \ {0}
  /\ MaxTicks \in Nat
  /\ SleepArgs \subseteq Int

VARIABLES
  cur,            \* running_thread ()
  status,         \* struct thread: status; "FREE" is a page without a thread
  ready_list, sleep_list,
  endTick,        \* struct thread: endTick
  priority, base_priority,
  ticks,          \* timer.c: ticks
  thread_ticks,   \* ticks since the last schedule ()
  at,             \* where each thread stands (above)
  end             \* timer_sleep()'s local variable end

schedVars == <<cur, status, ready_list, sleep_list, endTick, thread_ticks>>
priVars == <<priority, base_priority>>
threadVars == <<schedVars, priVars, ticks, at, end>>

Priorities == 0..PRI_MAX
Status == {"FREE", "BLOCKED", "READY", "RUNNING", "DYING"}
Points == {"run", "yield", "sleep", "hlt", "donate", "down", "try",
           "cw_release", "cw_down", "cw_acquire", "broadcast"}

-----------------------------------------------------------------------------
(* The scheduler.  schedule() is entered with statuses st, the lists rl and *)
(* sl and the wake-up times et; it reads the clock and the priorities as    *)
(* its caller leaves them.  It wakes the sleepers whose tick has come, runs *)
(* the first ready thread of greatest priority and, in                      *)
(* thread_schedule_tail(), starts a time slice and destroys a dying thread. *)

\* Faulty variants: a sleeper is due a tick too late, or too early.
Due_Late(e) == e < ticks'
Due_Early(e) == e <= ticks' + 1

\* schedule()'s test whether a sleeper with endTick e is to be woken.
Due(e) == e <= ticks'

Schedule(st, rl, sl, et) ==
  \E woken \in {{t \in Range(sl) : Due(et[t])}} :
  \E ready \in {rl \o Sublist(sl, woken)} :
  \E next \in {IF ready = <<>> THEN Idle ELSE ready[FirstMax(ready, priority')]} :
     /\ sleep_list' = Sublist(sl, Range(sl) \ woken)
     /\ endTick' = [t \in Threads |-> IF t \in woken THEN -1 ELSE et[t]]
     /\ ready_list' = IF ready = <<>> THEN <<>> ELSE Unlink(ready, next)
     /\ cur' = next
     /\ status' = [t \in Threads |->
                     IF t = next THEN "RUNNING"
                     ELSE IF t \in woken THEN "READY"
                     ELSE IF t = cur /\ t # Main /\ st[t] = "DYING" THEN "FREE"
                     ELSE st[t]]
     /\ thread_ticks' = 0

\* Faulty variant: the idle thread is put on the ready list too.
ThreadYield_QueuesIdle(st, rl) ==
  Schedule([st EXCEPT ![cur] = "READY"], Append(rl, cur), sleep_list, endTick)

\* thread_yield(), where the caller has already made st and rl.
ThreadYield(st, rl) ==
  Schedule([st EXCEPT ![cur] = "READY"],
           IF cur = Idle THEN rl ELSE Append(rl, cur),
           sleep_list, endTick)

\* thread_block(), where the caller has already made sl and et.
ThreadBlock(sl, et) ==
  Schedule([status EXCEPT ![cur] = "BLOCKED"], ready_list, sl, et)

-----------------------------------------------------------------------------
(* Interrupts and the idle thread.                                         *)

IntrOn == at[cur] \notin {"donate", "down"}

\* Faulty variant: no slice is ever used up.
SliceUsed_Never == thread_ticks + 1 = 0

\* thread_tick()'s test whether the slice is used up.
SliceUsed == thread_ticks + 1 >= TIME_SLICE

\* intr_handler() for the timer: timer_interrupt(), thread_tick() and the
\* yield on return once the time slice is used up.  It ends idle's hlt.
TimerInterrupt ==
  /\ IntrOn
  /\ ticks < MaxTicks
  /\ ticks' = ticks + 1
  /\ at' = [at EXCEPT ![Idle] = IF cur = Idle THEN "run" ELSE @]
  /\ UNCHANGED <<priVars, end>>
  /\ \/ /\ SliceUsed
        /\ ThreadYield(status, ready_list)
     \/ /\ ~SliceUsed
        /\ thread_ticks' = thread_ticks + 1
        /\ UNCHANGED <<cur, status, ready_list, sleep_list, endTick>>

\* One round of idle(): thread_block(), after which it stands at `sti; hlt'.
IdleBlock ==
  /\ cur = Idle
  /\ at[Idle] = "run"
  /\ at' = [at EXCEPT ![Idle] = "hlt"]
  /\ UNCHANGED <<priVars, ticks, end>>
  /\ ThreadBlock(sleep_list, endTick)

\* The running thread is in its own code and may call the kernel.
Calls == cur # Idle /\ at[cur] = "run"

-----------------------------------------------------------------------------
(* The operations a thread calls.                                          *)

YieldCall ==
  /\ Calls
  /\ UNCHANGED <<priVars, ticks, at, end>>
  /\ ThreadYield(status, ready_list)

\* thread_create() up to its thread_unblock(); nobody can see t before.
ThreadCreate(t, p) ==
  /\ Calls
  /\ status[t] = "FREE"
  /\ status' = [status EXCEPT ![t] = "READY"]
  /\ ready_list' = Append(ready_list, t)
  /\ priority' = [priority EXCEPT ![t] = p]
  /\ base_priority' = [base_priority EXCEPT ![t] = p]
  /\ endTick' = [endTick EXCEPT ![t] = -1]
  /\ at' = [at EXCEPT ![cur] = "yield", ![t] = "run"]
  /\ UNCHANGED <<cur, sleep_list, ticks, thread_ticks, end>>

\* The thread_yield() at the end of thread_create().
CreateYield ==
  /\ at[cur] = "yield"
  /\ at' = [at EXCEPT ![cur] = "run"]
  /\ UNCHANGED <<priVars, ticks, end>>
  /\ ThreadYield(status, ready_list)

ThreadExit ==
  /\ Calls
  /\ UNCHANGED <<priVars, ticks, at, end>>
  /\ Schedule([status EXCEPT ![cur] = "DYING"], ready_list, sleep_list, endTick)

\* A donated priority is kept if it is the greater one.
ThreadSetPriority(p) ==
  /\ Calls
  /\ priority' = [priority EXCEPT ![cur] =
                    IF @ > base_priority[cur] /\ @ > p THEN @ ELSE p]
  /\ base_priority' = [base_priority EXCEPT ![cur] = p]
  /\ UNCHANGED <<ticks, at, end>>
  /\ ThreadYield(status, ready_list)

\* timer_sleep() reads the clock; a tick may pass before it sleeps.
TimerSleep(n) ==
  /\ Calls
  /\ end' = [end EXCEPT ![cur] = ticks + (IF n > 0 THEN n ELSE 0)]
  /\ end'[cur] + TIME_SLICE <= MaxTicks   \* bound: the clock gets that far
  /\ at' = [at EXCEPT ![cur] = "sleep"]
  /\ UNCHANGED <<schedVars, priVars, ticks>>

\* thread_yield_for_seconds(): enter the sleep list and block.
ThreadYieldForSeconds ==
  /\ at[cur] = "sleep"
  /\ at' = [at EXCEPT ![cur] = "run"]
  /\ end' = [end EXCEPT ![cur] = 0]
  /\ UNCHANGED <<priVars, ticks>>
  /\ ThreadBlock(Append(sleep_list, cur), [endTick EXCEPT ![cur] = end[cur]])

-----------------------------------------------------------------------------
\* The state in which thread_start() returns: the initial thread runs, and
\* idle has run up to its sema_up(), in which it yielded.
ThreadInit ==
  /\ cur = Main
  /\ status = [t \in Threads |-> CASE t = Main -> "RUNNING"
                                   [] t = Idle -> "READY"
                                   [] OTHER -> "FREE"]
  /\ ready_list = <<>> /\ sleep_list = <<>>
  /\ endTick = [t \in Threads |-> IF t = Main THEN 0 ELSE -1]
  /\ priority = [t \in Threads |-> IF t = Main THEN PRI_DEFAULT ELSE 0]
  /\ base_priority = priority
  /\ ticks = 0 /\ thread_ticks = 0
  /\ at = [t \in Threads |-> "run"]
  /\ end = [t \in Threads |-> 0]

ThreadNext ==
  \/ TimerInterrupt
  \/ IdleBlock
  \/ YieldCall
  \/ \E t \in Threads, p \in Priorities : ThreadCreate(t, p)
  \/ CreateYield
  \/ ThreadExit
  \/ \E p \in Priorities : ThreadSetPriority(p)
  \/ \E n \in SleepArgs : TimerSleep(n)
  \/ ThreadYieldForSeconds

ThreadSpec == ThreadInit /\ [][ThreadNext]_threadVars

\* The scheduler runs the thread it has chosen, the clock ticks, and a thread
\* inside the kernel leaves it; no thread has to call anything.
ThreadFairness ==
  /\ WF_threadVars(TimerInterrupt)
  /\ WF_threadVars(IdleBlock)
  /\ WF_threadVars(CreateYield)
  /\ WF_threadVars(ThreadYieldForSeconds)

ThreadFairSpec == ThreadSpec /\ ThreadFairness

-----------------------------------------------------------------------------
ThreadTypeOK ==
  /\ cur \in Threads
  /\ status \in [Threads -> Status]
  /\ ready_list \in Seq(Threads) /\ sleep_list \in Seq(Threads)
  /\ endTick \in [Threads -> Int]
  /\ priority \in [Threads -> Priorities]
  /\ base_priority \in [Threads -> Priorities]
  /\ ticks \in Nat
  /\ thread_ticks \in 0..(TIME_SLICE - 1)
  /\ at \in [Threads -> Points]
  /\ end \in [Threads -> Nat]

\* thread.h:77-82: `elem' links a thread into one list at a time, and the list
\* agrees with its status; exactly the current thread is RUNNING; the idle
\* thread is on no list.  thread_unblock()'s ASSERT is a part of it: whoever
\* schedule() wakes is BLOCKED.
ListsMatchStatus ==
  /\ IsInjective(ready_list) /\ IsInjective(sleep_list)
  /\ \A t \in Threads \ {Idle} : status[t] = "READY" <=> t \in Range(ready_list)
  /\ \A t \in Range(sleep_list) : status[t] = "BLOCKED"
  /\ \A t \in Threads : status[t] = "RUNNING" <=> t = cur
  /\ Idle \notin Range(ready_list) \cup Range(sleep_list)

\* A blocked thread can be found again: it is asleep, with a wake-up time.
NoThreadLost ==
  \A t \in Threads \ {Idle} :
    status[t] = "BLOCKED" => t \in Range(sleep_list) /\ endTick[t] >= 0

\* Sleepers are only looked at in schedule(), which runs at the latest when a
\* time slice ends: no sleeper is ever overdue by a whole slice.
AlarmBound ==
  \A t \in Range(sleep_list) : ticks - thread_ticks < endTick[t]

\* Whoever leaves the sleep list in a step is due, for less than a time slice.
WakesInTime ==
  \A t \in Range(sleep_list) \ Range(sleep_list') :
    endTick[t] <= ticks' /\ ticks' < endTick[t] + TIME_SLICE

\* schedule() never wakes a sleeper before its tick nor a time slice after it.
WakeWindow == [][WakesInTime]_threadVars

\* Wherever interrupts are on, no ready thread has a greater priority than the
\* running one, but for the gap between thread_unblock() and thread_yield() in
\* thread_create(); and idle runs only when nobody is ready.
HighestPriorityRuns ==
  IntrOn /\ at[cur] # "yield" =>
    /\ \A t \in Range(ready_list) : priority[t] <= priority[cur]
    /\ cur = Idle => ready_list = <<>>

\* timer_sleep() is not forever: every sleeper becomes ready again, whatever
\* the other threads do.
SleeperWakes ==
  \A t \in Threads : t \in Range(sleep_list) ~> t \notin Range(sleep_list)
=============================================================================
