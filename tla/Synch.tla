------------------------------- MODULE Synch -------------------------------
(***************************************************************************)
(* proj1/src/threads/synch.c on top of the scheduler of module Thread:     *)
(* semaphores, locks with priority donation, and condition variables.      *)
(*                                                                         *)
(* Points of at[t] used here:                                              *)
(*   "donate"      the loop of lock_acquire(), interrupts off              *)
(*   "down"        the loop of sema_down_internal(), interrupts off        *)
(*   "try"         lock_try_acquire() between sema_try_down() and holder   *)
(*   "cw_release", "cw_down", "cw_acquire"                                 *)
(*                 cond_wait() before each of its three calls              *)
(*   "broadcast"   the loop of cond_broadcast()                            *)
(*                                                                         *)
(* A semaphore is identified by what embeds it: a lock, a thread (the      *)
(* semaphore_elem on the stack of its cond_wait()), or nothing.            *)
(***************************************************************************)
EXTENDS Thread

CONSTANTS
  Locks, Semaphores, Conds,
  LockOf,        \* the lock each condition variable is used with
  InitValue,     \* the values the semaphores are initialised with
  MaxValue,      \* bound: sema_up() is not called on a greater value
  None           \* NULL

Semas == Locks \cup Semaphores \cup Threads

ASSUME SynchAssumption ==
  /\ LockOf \in [Conds -> Locks]
  /\ InitValue \in [Semaphores -> Nat]
  /\ MaxValue \in Nat
  /\ None \notin Locks \cup Semaphores \cup Threads \cup Conds
  /\ Locks \cap Semaphores = {} /\ Locks \cap Threads = {}
  /\ Semaphores \cap Threads = {}

VARIABLES
  value, waiters,             \* struct semaphore
  holder, max_waiter_priority,   \* struct lock
  held_locks, waiting_lock,   \* struct thread
  cond_waiters,               \* struct condition: waiters
  waiter_priority,            \* semaphore_elem: priority
  arg,                        \* the object of the call a thread is in
  monitor,                    \* the lock argument of a cond_wait() in progress
  tempLock                    \* lock_acquire()'s local variable

semaVars == <<value, waiters>>
lockVars == <<holder, max_waiter_priority, held_locks, waiting_lock>>
condVars == <<cond_waiters, waiter_priority, monitor>>
synchVars == <<semaVars, lockVars, condVars, arg, tempLock>>
vars == <<threadVars, synchVars>>

-----------------------------------------------------------------------------
(* Semaphores.                                                             *)

\* update_lock_max_priority() with waiters ws.
MaxPriority(ws, pri) == Max({-1} \cup {pri[t] : t \in Range(ws)})

\* Faulty variants: the woken thread stays on the waiters list; nobody is
\* woken; the caller does not yield.
SemaUpInternal_StaysLinked(s) ==
  /\ value' = [value EXCEPT ![s] = @ + 1]
  /\ UNCHANGED <<waiters, max_waiter_priority>>
  /\ \/ waiters[s] = <<>> /\ ThreadYield(status, ready_list)
     \/ /\ waiters[s] # <<>>
        /\ \E top \in {waiters[s][FirstMax(waiters[s], priority')]} :
             ThreadYield([status EXCEPT ![top] = "READY"], Append(ready_list, top))
SemaUpInternal_NoWake(s) ==
  /\ value' = [value EXCEPT ![s] = @ + 1]
  /\ UNCHANGED <<waiters, max_waiter_priority>>
  /\ ThreadYield(status, ready_list)
SemaUpInternal_NoYield(s) ==
  /\ value' = [value EXCEPT ![s] = @ + 1]
  /\ UNCHANGED <<cur, sleep_list, endTick, thread_ticks, max_waiter_priority>>
  /\ \/ waiters[s] = <<>> /\ UNCHANGED <<waiters, status, ready_list>>
     \/ /\ waiters[s] # <<>>
        /\ \E top \in {waiters[s][FirstMax(waiters[s], priority')]} :
             /\ waiters' = [waiters EXCEPT ![s] = Unlink(@, top)]
             /\ status' = [status EXCEPT ![top] = "READY"]
             /\ ready_list' = Append(ready_list, top)

\* sema_up_internal() on s: wake the first waiter of greatest priority, count
\* up, yield.  The caller gives priority' before it.
SemaUpInternal(s) ==
  /\ value' = [value EXCEPT ![s] = @ + 1]
  /\ \/ /\ waiters[s] = <<>>
        /\ UNCHANGED <<waiters, max_waiter_priority>>
        /\ ThreadYield(status, ready_list)
     \/ /\ waiters[s] # <<>>
        /\ \E top \in {waiters[s][FirstMax(waiters[s], priority')]} :
             /\ waiters' = [waiters EXCEPT ![s] = Unlink(@, top)]
             /\ max_waiter_priority' =
                  [l \in Locks |-> IF l = s THEN MaxPriority(waiters'[s], priority')
                                   ELSE max_waiter_priority[l]]
             /\ ThreadYield([status EXCEPT ![top] = "READY"],
                            Append(ready_list, top))

SemaUp(s) ==
  /\ Calls
  /\ value[s] < MaxValue
  /\ UNCHANGED <<priVars, ticks, at, end, holder, held_locks, waiting_lock,
                 condVars, arg, tempLock>>
  /\ SemaUpInternal(s)

\* sema_down() enters the loop of sema_down_internal().
SemaDown(s) ==
  /\ Calls
  /\ at' = [at EXCEPT ![cur] = "down"]
  /\ arg' = [arg EXCEPT ![cur] = s]
  /\ UNCHANGED <<schedVars, priVars, ticks, end, semaVars, lockVars, condVars,
                 tempLock>>

\* sema_try_down(); on a value of 0 it only returns false.
SemaTryDown(s) ==
  /\ Calls
  /\ value[s] > 0
  /\ value' = [value EXCEPT ![s] = @ - 1]
  /\ UNCHANGED <<threadVars, waiters, lockVars, condVars, arg, tempLock>>

\* Faulty variant: blocks without entering the waiters list.
DownWait_NotListed ==
  /\ at[cur] = "down"
  /\ value[arg[cur]] = 0
  /\ UNCHANGED <<priVars, ticks, at, end, semaVars, lockVars, condVars, arg,
                 tempLock>>
  /\ ThreadBlock(sleep_list, endTick)

\* One round of the loop of sema_down_internal() that finds the value 0.
DownWait ==
  /\ at[cur] = "down"
  /\ value[arg[cur]] = 0
  /\ waiters' = [waiters EXCEPT ![arg[cur]] = Append(@, cur)]
  /\ \/ /\ arg[cur] \in Locks
        /\ waiting_lock' = [waiting_lock EXCEPT ![cur] = arg[cur]]
        /\ max_waiter_priority' =
             [max_waiter_priority EXCEPT ![arg[cur]] =
                MaxPriority(waiters'[arg[cur]], priority)]
     \/ /\ arg[cur] \notin Locks
        /\ UNCHANGED <<waiting_lock, max_waiter_priority>>
  /\ UNCHANGED <<priVars, ticks, at, end, value, holder, held_locks, condVars,
                 arg, tempLock>>
  /\ ThreadBlock(sleep_list, endTick)

\* sema_down_internal()'s loop condition, negated.  Faulty variant: `if' in
\* place of `while', so that a woken thread does not look again.
Available_NoRecheck ==
  value[arg[cur]] > 0 \/ waiting_lock[cur] # None
Available == value[arg[cur]] > 0

\* sema_down_internal() leaves its loop.  For a lock, lock_acquire() then sets
\* the holder; in cond_wait() the next call is due.
DownTake ==
  /\ at[cur] = "down"
  /\ Available
  /\ value' = [value EXCEPT ![arg[cur]] = @ - 1]
  /\ at' = [at EXCEPT ![cur] = IF arg[cur] = cur THEN "cw_acquire" ELSE "run"]
  /\ arg' = [arg EXCEPT ![cur] = None]
  /\ \/ /\ arg[cur] \in Locks
        /\ waiting_lock' = [waiting_lock EXCEPT ![cur] = None]
        /\ holder' = [holder EXCEPT ![arg[cur]] = cur]
        /\ held_locks' = [held_locks EXCEPT ![cur] = Append(@, arg[cur])]
        /\ monitor' = [monitor EXCEPT ![cur] = None]
     \/ /\ arg[cur] \notin Locks
        /\ UNCHANGED <<waiting_lock, holder, held_locks, monitor>>
  /\ UNCHANGED <<schedVars, priVars, ticks, end, waiters, max_waiter_priority,
                 cond_waiters, waiter_priority, tempLock>>

-----------------------------------------------------------------------------
(* Locks.                                                                  *)

\* lock_acquire() enters its donation loop with interrupts off.
EnterAcquire(l) ==
  /\ at' = [at EXCEPT ![cur] = "donate"]
  /\ arg' = [arg EXCEPT ![cur] = l]
  /\ tempLock' = l
  /\ UNCHANGED <<schedVars, priVars, ticks, end, semaVars, lockVars, condVars>>

LockAcquire(l) ==
  /\ Calls
  /\ holder[l] # cur
  /\ EnterAcquire(l)

\* A round of the loop that finds a holder of smaller priority: donate, and
\* go on to the lock the holder waits for.
DonateRaise ==
  /\ at[cur] = "donate"
  /\ tempLock # None /\ holder[tempLock] # None
  /\ priority[holder[tempLock]] < priority[cur]
  /\ max_waiter_priority' = [max_waiter_priority EXCEPT ![tempLock] = priority[cur]]
  /\ priority' = [priority EXCEPT ![holder[tempLock]] = priority[cur]]
  /\ tempLock' = waiting_lock[holder[tempLock]]
  /\ UNCHANGED <<schedVars, base_priority, ticks, at, end, semaVars, holder,
                 held_locks, waiting_lock, condVars, arg>>

\* A round that finds a holder of the same or a greater priority changes
\* nothing: not even tempLock, so that the same round follows.
DonateSpin ==
  /\ at[cur] = "donate"
  /\ tempLock # None /\ holder[tempLock] # None
  /\ priority[holder[tempLock]] >= priority[cur]
  /\ UNCHANGED vars

\* The loop ends and sema_down_internal() begins.
DonateDone ==
  /\ at[cur] = "donate"
  /\ tempLock # None => holder[tempLock] = None
  /\ at' = [at EXCEPT ![cur] = "down"]
  /\ tempLock' = None
  /\ UNCHANGED <<schedVars, priVars, ticks, end, semaVars, lockVars, condVars, arg>>

\* Faulty variant: sema_try_down()'s result is ignored.
LockTryAcquire_Ignored(l) ==
  /\ Calls
  /\ holder[l] # cur
  /\ value' = [value EXCEPT ![l] = IF @ > 0 THEN @ - 1 ELSE 0]
  /\ at' = [at EXCEPT ![cur] = "try"]
  /\ arg' = [arg EXCEPT ![cur] = l]
  /\ UNCHANGED <<schedVars, priVars, ticks, end, waiters, lockVars, condVars,
                 tempLock>>

\* lock_try_acquire() restores the interrupts before it sets the holder, and
\* does not enter the lock in held_locks.
LockTryAcquire(l) ==
  /\ Calls
  /\ holder[l] # cur
  /\ value[l] > 0
  /\ value' = [value EXCEPT ![l] = @ - 1]
  /\ at' = [at EXCEPT ![cur] = "try"]
  /\ arg' = [arg EXCEPT ![cur] = l]
  /\ UNCHANGED <<schedVars, priVars, ticks, end, waiters, lockVars, condVars,
                 tempLock>>

TrySetHolder ==
  /\ at[cur] = "try"
  /\ holder' = [holder EXCEPT ![arg[cur]] = cur]
  /\ at' = [at EXCEPT ![cur] = "run"]
  /\ arg' = [arg EXCEPT ![cur] = None]
  /\ UNCHANGED <<schedVars, priVars, ticks, end, semaVars, max_waiter_priority,
                 held_locks, waiting_lock, condVars, tempLock>>

\* Faulty variant: the donated priority is kept.
ReleasedPriority_Kept(ls) ==
  Max({priority[cur]} \cup {max_waiter_priority[l] : l \in ls})

\* What is left of a donation when the locks in the set ls are still held.
ReleasedPriority(ls) ==
  Max({base_priority[cur]} \cup {max_waiter_priority[l] : l \in ls})

\* lock_release(), after which its caller stands at point p.
ReleaseAndGoTo(l, p) ==
  /\ priority' = [priority EXCEPT ![cur] =
                    ReleasedPriority(Range(held_locks[cur]) \ {l})]
  /\ held_locks' = [held_locks EXCEPT ![cur] =
                      IF l \in Range(@) THEN Unlink(@, l) ELSE @]
  /\ holder' = [holder EXCEPT ![l] = None]
  /\ at' = [at EXCEPT ![cur] = p]
  /\ UNCHANGED <<base_priority, ticks, end, waiting_lock, condVars, arg, tempLock>>
  /\ SemaUpInternal(l)

LockRelease(l) ==
  /\ Calls
  /\ holder[l] = cur
  /\ ReleaseAndGoTo(l, "run")

-----------------------------------------------------------------------------
(* Condition variables.                                                    *)

\* cond_wait() queues its semaphore_elem, with the priority of this moment.
CondWait(c) ==
  /\ Calls
  /\ holder[LockOf[c]] = cur
  /\ value' = [value EXCEPT ![cur] = 0]
  /\ waiters' = [waiters EXCEPT ![cur] = <<>>]
  /\ waiter_priority' = [waiter_priority EXCEPT ![cur] = priority[cur]]
  /\ cond_waiters' = [cond_waiters EXCEPT ![c] = Append(@, cur)]
  /\ monitor' = [monitor EXCEPT ![cur] = LockOf[c]]
  /\ at' = [at EXCEPT ![cur] = "cw_release"]
  /\ UNCHANGED <<schedVars, priVars, ticks, end, lockVars, arg, tempLock>>

CondWaitRelease ==
  /\ at[cur] = "cw_release"
  /\ ReleaseAndGoTo(monitor[cur], "cw_down")

CondWaitDown ==
  /\ at[cur] = "cw_down"
  /\ at' = [at EXCEPT ![cur] = "down"]
  /\ arg' = [arg EXCEPT ![cur] = cur]
  /\ UNCHANGED <<schedVars, priVars, ticks, end, semaVars, lockVars, condVars,
                 tempLock>>

CondWaitAcquire ==
  /\ at[cur] = "cw_acquire"
  /\ EnterAcquire(monitor[cur])

\* The body of cond_signal() when somebody waits: sema_up() of the first
\* semaphore_elem of greatest recorded priority.
SignalOne(c) ==
  \E top \in {cond_waiters[c][FirstMax(cond_waiters[c], waiter_priority)]} :
    /\ cond_waiters' = [cond_waiters EXCEPT ![c] = Unlink(@, top)]
    /\ UNCHANGED <<priVars, ticks, end, holder, held_locks, waiting_lock,
                   waiter_priority, monitor, tempLock>>
    /\ SemaUpInternal(top)

CondSignal(c) ==
  /\ Calls
  /\ holder[LockOf[c]] = cur
  /\ cond_waiters[c] # <<>>
  /\ UNCHANGED <<at, arg>>
  /\ SignalOne(c)

\* cond_broadcast() signals until nobody waits.
CondBroadcast(c) ==
  /\ \/ Calls /\ holder[LockOf[c]] = cur
     \/ at[cur] = "broadcast" /\ arg[cur] = c
  /\ cond_waiters[c] # <<>>
  /\ at' = [at EXCEPT ![cur] = "broadcast"]
  /\ arg' = [arg EXCEPT ![cur] = c]
  /\ SignalOne(c)

CondBroadcastDone ==
  /\ at[cur] = "broadcast"
  /\ cond_waiters[arg[cur]] = <<>>
  /\ at' = [at EXCEPT ![cur] = "run"]
  /\ arg' = [arg EXCEPT ![cur] = None]
  /\ UNCHANGED <<schedVars, priVars, ticks, end, semaVars, lockVars, condVars,
                 tempLock>>

-----------------------------------------------------------------------------
(* The thread operations; what init_thread() resets is reset already, as a  *)
(* thread that exits holds no lock (the obligation of lock_release()).      *)
ThreadStep ==
  /\ \/ TimerInterrupt
     \/ IdleBlock
     \/ YieldCall
     \/ \E t \in Threads, p \in Priorities : ThreadCreate(t, p)
     \/ CreateYield
     \/ (\A l \in Locks : holder[l] # cur) /\ ThreadExit
     \/ \E p \in Priorities : ThreadSetPriority(p)
     \/ \E n \in SleepArgs : TimerSleep(n)
     \/ ThreadYieldForSeconds
  /\ UNCHANGED synchVars

Init ==
  /\ ThreadInit
  /\ value = [s \in Semas |-> IF s \in Locks THEN 1
                              ELSE IF s \in Semaphores THEN InitValue[s] ELSE 0]
  /\ waiters = [s \in Semas |-> <<>>]
  /\ holder = [l \in Locks |-> None]
  /\ max_waiter_priority = [l \in Locks |-> -1]
  /\ held_locks = [t \in Threads |-> <<>>]
  /\ waiting_lock = [t \in Threads |-> None]
  /\ cond_waiters = [c \in Conds |-> <<>>]
  /\ waiter_priority = [t \in Threads |-> 0]
  /\ arg = [t \in Threads |-> None]
  /\ monitor = [t \in Threads |-> None]
  /\ tempLock = None

SemaStep ==
  \/ \E s \in Semaphores : SemaUp(s) \/ SemaDown(s) \/ SemaTryDown(s)
  \/ DownWait
  \/ DownTake

LockStep ==
  \/ \E l \in Locks : LockAcquire(l) \/ LockTryAcquire(l) \/ LockRelease(l)
  \/ DonateRaise \/ DonateSpin \/ DonateDone
  \/ TrySetHolder

CondStep ==
  \/ \E c \in Conds : CondWait(c) \/ CondSignal(c) \/ CondBroadcast(c)
  \/ CondWaitRelease \/ CondWaitDown \/ CondWaitAcquire
  \/ CondBroadcastDone

Next == ThreadStep \/ SemaStep \/ LockStep \/ CondStep

Spec == Init /\ [][Next]_vars

-----------------------------------------------------------------------------
TypeOK ==
  /\ ThreadTypeOK
  /\ value \in [Semas -> Nat]
  /\ waiters \in [Semas -> Seq(Threads)]
  /\ holder \in [Locks -> Threads \cup {None}]
  /\ max_waiter_priority \in [Locks -> Priorities \cup {-1}]
  /\ held_locks \in [Threads -> Seq(Locks)]
  /\ waiting_lock \in [Threads -> Locks \cup {None}]
  /\ cond_waiters \in [Conds -> Seq(Threads)]
  /\ waiter_priority \in [Threads -> Priorities]
  /\ arg \in [Threads -> Semas \cup Conds \cup {None}]
  /\ monitor \in [Threads -> Locks \cup {None}]
  /\ tempLock \in Locks \cup {None}

\* thread.h:77-82, for the semaphores: `elem' links a thread into at most one
\* waiters list, once, and then the thread is BLOCKED in sema_down_internal()
\* of that semaphore and asleep on no other list.
WaitersMatchStatus ==
  /\ TypeOK
  /\ \A s \in Semas :
       /\ IsInjective(waiters[s])
       /\ \A t \in Range(waiters[s]) :
            /\ status[t] = "BLOCKED" /\ at[t] = "down" /\ arg[t] = s
            /\ t \notin Range(sleep_list)

\* Whoever is blocked is on the list from which it will be woken.
NoWaiterLost ==
  \A t \in Threads \ {Idle} :
    status[t] = "BLOCKED" =>
      \/ t \in Range(sleep_list) /\ endTick[t] >= 0
      \/ at[t] = "down" /\ t \in Range(waiters[arg[t]])

\* The threads that own lock l: its holder, and a thread that has taken the
\* semaphore in lock_try_acquire() and not yet recorded itself.
Owners(l) == {t \in Threads : holder[l] = t \/ (at[t] = "try" /\ arg[t] = l)}

\* A lock's semaphore is 1 or 0, and it is 0 exactly when one thread owns it;
\* held_locks lists only locks its thread owns, each once.
LockExclusion ==
  /\ \A l \in Locks :
       \/ value[l] = 1 /\ Owners(l) = {}
       \/ value[l] = 0 /\ \E t \in Threads : Owners(l) = {t}
  /\ \A t \in Threads :
       /\ IsInjective(held_locks[t])
       /\ \A l \in Range(held_locks[t]) : holder[l] = t

\* The threads sema_up_internal() has woken from s that have not run since.
Woken(s) == {t \in Threads : at[t] = "down" /\ arg[t] = s /\ t \notin Range(waiters[s])}

\* No wake-up is lost: while threads queue at a semaphore, each unit of its
\* value has a woken thread on its way to take it.
NoLostWakeup ==
  \A s \in Semas : waiters[s] # <<>> => value[s] <= Cardinality(Woken(s))

\* A donation ends with the locks it was made for: a thread's priority is
\* never below its base, and is its base when it owns no lock.
DonationReturned ==
  \A t \in Threads :
    /\ base_priority[t] <= priority[t]
    /\ base_priority[t] < priority[t] => \E l \in Locks : holder[l] = t

\* The locks implement the abstract mutex (module Mutex): its owner is the thread that has
\* taken the lock's semaphore, whether or not it has got to `holder' yet.
lock_owner == [l \in Locks |-> IF Owners(l) = {} THEN None ELSE CHOOSE t \in Owners(l) : TRUE]
AbstractMutex == INSTANCE Mutex WITH owner <- lock_owner
MutexSpec == AbstractMutex!Spec

\* The code with interrupts off runs on, and so does the rest of a call that
\* has begun; the clock ticks.  No thread has to call anything.
Fairness ==
  /\ WF_vars(TimerInterrupt /\ UNCHANGED synchVars)
  /\ WF_vars(DonateRaise) /\ WF_vars(DonateDone)
  /\ WF_vars(DownWait) /\ WF_vars(DownTake)

FairSpec == Spec /\ Fairness

\* synch.c:216-217: lock_acquire() gets the lock or sleeps; it does not stay in
\* its donation loop, where the interrupts are off.
AcquireLeavesLoop ==
  \A t \in Threads : at[t] = "donate" ~> at[t] # "donate"
=============================================================================
