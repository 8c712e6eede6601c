---------------------------- MODULE SynchProofs ----------------------------
(***************************************************************************)
(* The safety properties of module Thread, for every set of threads, every *)
(* range of priorities and every time slice, and those of module Synch,    *)
(* for every set of locks, semaphores and condition variables besides:     *)
(* nobody is lost on a waiters list, no wake-up is lost, locks exclude and *)
(* implement the abstract mutex, and donations end with the locks they     *)
(* were made for.                                                          *)
(*                                                                         *)
(* All operations that give up the CPU end in schedule().  ScheduleCorrect *)
(* says what schedule() establishes from any state its callers may prepare *)
(* (Prepared); an operation's proof only shows that it prepares one.  The  *)
(* set Suspended of the threads that are blocked but not asleep links the  *)
(* scheduler's invariant ThreadInv to the semaphores' waiters lists.       *)
(***************************************************************************)
EXTENDS Synch, ListLemmas

(***************************************************************************)
(* The scheduler and the alarm clock: module Thread.                       *)
(***************************************************************************)


\* What holds when schedule() is entered: the running thread has left the
\* status RUNNING and is on the list that its new status calls for.
Prepared(st, rl, sl, et) ==
  /\ st \in [Threads -> Status]
  /\ rl \in Seq(Threads) /\ sl \in Seq(Threads)
  /\ et \in [Threads -> Int]
  /\ IsInjective(rl) /\ IsInjective(sl)
  /\ \A t \in Threads \ {Idle} : st[t] = "READY" <=> t \in Range(rl)
  /\ \A t \in Range(sl) : st[t] = "BLOCKED"
  /\ \A t \in Threads : st[t] # "RUNNING"
  /\ Idle \notin Range(rl) \cup Range(sl)
  /\ st[Idle] \notin {"FREE", "DYING"}

\* Whatever its callers prepare, schedule() leaves lists that match the
\* statuses, sleepers that are not due, and a running thread of greatest
\* priority; and it takes from the sleep list only threads that are due.
LEMMA ScheduleCorrect ==
  ASSUME cur \in Threads, ticks' \in Nat, priority' \in [Threads -> Priorities],
         NEW st, NEW rl, NEW sl, NEW et,
         Prepared(st, rl, sl, et),
         Schedule(st, rl, sl, et)
  PROVE  /\ cur' \in Threads
         /\ status' \in [Threads -> Status]
         /\ ready_list' \in Seq(Threads) /\ sleep_list' \in Seq(Threads)
         /\ endTick' \in [Threads -> Int]
         /\ thread_ticks' = 0
         /\ ListsMatchStatus'
         /\ \A t \in Range(sleep_list') : ticks' < endTick'[t]
         /\ \A t \in Range(ready_list') : priority'[t] <= priority'[cur']
         /\ cur' = Idle => ready_list' = <<>>
         /\ Range(sleep_list') \subseteq Range(sl)
         /\ \A t \in Range(sl) \ Range(sleep_list') : et[t] <= ticks'
         /\ \A t \in Range(sleep_list') : endTick'[t] = et[t]
         /\ \A t \in Threads \ {Idle} :
              (status'[t] = "BLOCKED" /\ t \notin Range(sleep_list'))
                 <=> (st[t] = "BLOCKED" /\ t \notin Range(sl))
         /\ status'[Idle] \notin {"FREE", "DYING"}
<1> DEFINE woken == {t \in Range(sl) : Due(et[t])}
           ready == rl \o Sublist(sl, woken)
           next == IF ready = <<>> THEN Idle ELSE ready[FirstMax(ready, priority')]
           Effect(w, r, n) ==
             /\ sleep_list' = Sublist(sl, Range(sl) \ w)
             /\ endTick' = [t \in Threads |-> IF t \in w THEN -1 ELSE et[t]]
             /\ ready_list' = IF r = <<>> THEN <<>> ELSE Unlink(r, n)
             /\ cur' = n
             /\ status' = [t \in Threads |->
                             IF t = n THEN "RUNNING"
                             ELSE IF t \in w THEN "READY"
                             ELSE IF t = cur /\ t # Main /\ st[t] = "DYING" THEN "FREE"
                             ELSE st[t]]
             /\ thread_ticks' = 0
<1>0. Effect(woken, ready, next)
  <2>1. \E w \in {woken} :
        \E r \in {rl \o Sublist(sl, w)} :
        \E n \in {IF r = <<>> THEN Idle ELSE r[FirstMax(r, priority')]} : Effect(w, r, n)
    BY DEF Schedule
  <2> HIDE DEF Effect
  <2> QED
    BY <2>1
<1>1. /\ sleep_list' = Sublist(sl, Range(sl) \ woken)
      /\ endTick' = [t \in Threads |-> IF t \in woken THEN -1 ELSE et[t]]
      /\ ready_list' = IF ready = <<>> THEN <<>> ELSE Unlink(ready, next)
      /\ cur' = next
      /\ status' = [t \in Threads |->
                      IF t = next THEN "RUNNING"
                      ELSE IF t \in woken THEN "READY"
                      ELSE IF t = cur /\ t # Main /\ st[t] = "DYING" THEN "FREE"
                      ELSE st[t]]
      /\ thread_ticks' = 0
  <2> HIDE DEF woken, ready, next
  <2> QED
    BY <1>0
<1>2. /\ rl \in Seq(Threads) /\ sl \in Seq(Threads)
      /\ st \in [Threads -> Status] /\ et \in [Threads -> Int]
      /\ IsInjective(rl) /\ IsInjective(sl)
  BY DEF Prepared
<1>3. Range(rl) \subseteq Threads /\ Range(sl) \subseteq Threads
  BY <1>2, ElementOfSeq, LenProperties DEF Range
<1>4. woken \subseteq Range(sl) /\ \A t \in Range(sl) : t \in woken <=> et[t] <= ticks'
  BY DEF Due
<1>5. /\ Sublist(sl, woken) \in Seq(Threads)
      /\ Range(Sublist(sl, woken)) = woken
      /\ IsInjective(Sublist(sl, woken))
  <2>1. Range(sl) \cap woken = woken
    BY <1>4
  <2> HIDE DEF woken
  <2> QED
    BY <2>1, <1>2, SublistList
<1>6. /\ sleep_list' \in Seq(Threads)
      /\ Range(sleep_list') = Range(sl) \ woken
      /\ IsInjective(sleep_list')
  <2> DEFINE kept == Range(sl) \ woken
  <2>1. sleep_list' = Sublist(sl, kept) /\ Range(sl) \cap kept = Range(sl) \ woken
    BY <1>1
  <2> HIDE DEF woken, kept
  <2> QED
    BY <2>1, <1>2, SublistList
<1>7. Range(rl) \cap woken = {}
  <2> HIDE DEF woken
  <2> QED
    BY <1>3, <1>4 DEF Prepared
<1>8. /\ ready \in Seq(Threads)
      /\ Range(ready) = Range(rl) \cup woken
      /\ IsInjective(ready)
  <2> HIDE DEF woken
  <2> QED
    BY <1>2, <1>5, <1>7, ConcatList
<1> HIDE DEF woken, ready
<1>9. ASSUME ready # <<>>
      PROVE  /\ next \in Range(ready)
             /\ \A t \in Range(ready) : priority'[t] <= priority'[next]
  BY <1>8, <1>9, FirstMaxList, ThreadAssumption DEF Priorities
<1>10. ready = <<>> => Range(ready) = {}
  BY DEF Range
<1>11. next \in Threads /\ (next = Idle <=> ready = <<>>)
  <2>1. Idle \notin Range(ready) /\ Range(ready) \subseteq Threads
    BY <1>3, <1>4, <1>8 DEF Prepared
  <2> QED
    BY <2>1, <1>9, ThreadAssumption
<1> HIDE DEF next
<1>12. /\ ready_list' \in Seq(Threads)
       /\ Range(ready_list') = Range(ready) \ {next}
       /\ IsInjective(ready_list')
  <2>1. CASE ready = <<>>
    BY <2>1, <1>1, <1>10, EmptySeq DEF Range, IsInjective
  <2>2. CASE ready # <<>>
    BY <2>2, <1>1, <1>8, <1>9, UnlinkList
  <2> QED
    BY <2>1, <2>2
<1>13. status' \in [Threads -> Status] /\ endTick' \in [Threads -> Int]
  BY <1>1, <1>2 DEF Status
<1>14. ListsMatchStatus'
  <2>1. \A t \in Threads \ {Idle} : status'[t] = "READY" <=> t \in Range(ready_list')
    BY <1>1, <1>3, <1>8, <1>12 DEF Prepared
  <2>2. \A t \in Range(sleep_list') : status'[t] = "BLOCKED"
    <3> SUFFICES ASSUME NEW t \in Range(sleep_list') PROVE status'[t] = "BLOCKED"
      OBVIOUS
    <3>1. t \in Threads /\ st[t] = "BLOCKED" /\ t \notin woken
      BY <1>3, <1>6 DEF Prepared
    <3>2. t \notin Range(rl) /\ t # Idle
      BY <3>1, <1>3, <1>6 DEF Prepared
    <3>3. t # next
      <4>1. CASE ready = <<>>
        BY <4>1, <3>2, <1>11
      <4>2. CASE ready # <<>>
        BY <4>2, <3>1, <3>2, <1>8, <1>9
      <4> QED
        BY <4>1, <4>2
    <3> QED
      BY <3>1, <3>3, <1>1
  <2>3. \A t \in Threads : status'[t] = "RUNNING" <=> t = cur'
    BY <1>1 DEF Prepared
  <2>4. Idle \notin Range(ready_list') \cup Range(sleep_list')
    BY <1>4, <1>6, <1>8, <1>12 DEF Prepared
  <2> QED
    BY <2>1, <2>2, <2>3, <2>4, <1>6, <1>12 DEF ListsMatchStatus
<1>15. /\ \A t \in Range(sleep_list') : ticks' < endTick'[t] /\ endTick'[t] = et[t]
       /\ \A t \in Range(sl) \ Range(sleep_list') : et[t] <= ticks'
  <2>1. ASSUME NEW t \in Range(sleep_list')
        PROVE  ticks' < endTick'[t] /\ endTick'[t] = et[t]
    <3>1. t \in Threads /\ t \notin woken /\ t \in Range(sl)
      BY <1>3, <1>6
    <3>2. endTick'[t] = et[t] /\ et[t] \in Int /\ ~(et[t] <= ticks')
      BY <3>1, <1>1, <1>2, <1>4
    <3> QED
      BY <3>2
  <2>2. ASSUME NEW t \in Range(sl) \ Range(sleep_list')
        PROVE  et[t] <= ticks'
    BY <2>2, <1>4, <1>6
  <2> QED
    BY <2>1, <2>2
<1>16. /\ \A t \in Range(ready_list') : priority'[t] <= priority'[cur']
       /\ cur' = Idle => ready_list' = <<>>
  BY <1>1, <1>9, <1>10, <1>11, <1>12
<1>17. ASSUME NEW t \in Threads \ {Idle}
       PROVE  (status'[t] = "BLOCKED" /\ t \notin Range(sleep_list'))
                 <=> (st[t] = "BLOCKED" /\ t \notin Range(sl))
  <2>1. ASSUME status'[t] = "BLOCKED", t \notin Range(sleep_list')
        PROVE  st[t] = "BLOCKED" /\ t \notin Range(sl)
    BY <2>1, <1>1, <1>6
  <2>2. ASSUME st[t] = "BLOCKED", t \notin Range(sl)
        PROVE  status'[t] = "BLOCKED" /\ t \notin Range(sleep_list')
    <3>1. t \notin Range(ready)
      BY <2>2, <1>4, <1>8 DEF Prepared
    <3>2. t # next
      BY <3>1, <1>9, <1>11
    <3> QED
      BY <2>2, <3>2, <1>1, <1>4, <1>6
  <2> QED
    BY <2>1, <2>2
<1>18. status'[Idle] \notin {"FREE", "DYING"}
  BY <1>1, ThreadAssumption DEF Prepared
<1> QED
  BY <1>1, <1>6, <1>11, <1>12, <1>13, <1>14, <1>15, <1>16, <1>17, <1>18

-----------------------------------------------------------------------------
\* The idle thread is never inside another call, and never ends.
IdlePoint ==
  /\ at[Idle] \in {"run", "hlt"}
  /\ status[Idle] \notin {"FREE", "DYING"}

\* Whoever is on the sleep list has a wake-up time.
SleepersTimed == \A t \in Range(sleep_list) : endTick[t] >= 0

\* HighestPriorityRuns wherever a step ends, with interrupts on or off.
RunsHighest ==
  at[cur] # "yield" =>
    /\ \A t \in Range(ready_list) : priority[t] <= priority[cur]
    /\ cur = Idle => ready_list = <<>>

\* The inductive invariant: the properties hold together, each needing others.
\* It says nothing of who may be blocked, so that module Synch's steps keep it.
ThreadInv ==
  /\ ThreadTypeOK
  /\ ListsMatchStatus
  /\ SleepersTimed
  /\ AlarmBound
  /\ RunsHighest
  /\ IdlePoint

\* The threads that are blocked, and not by the alarm clock.
Suspended ==
  {t \in Threads \ {Idle} : status[t] = "BLOCKED" /\ t \notin Range(sleep_list)}

\* A yield of the running thread prepares schedule(), from every pair of
\* statuses and ready list that match (a caller may just have unblocked).
LEMMA YieldPrepares ==
  ASSUME cur \in Threads, sleep_list \in Seq(Threads), endTick \in [Threads -> Int],
         IsInjective(sleep_list), Idle \notin Range(sleep_list),
         NEW st \in [Threads -> Status], NEW rl \in Seq(Threads), IsInjective(rl),
         \A t \in Threads \ {Idle} : st[t] = "READY" <=> t \in Range(rl),
         \A t \in Range(sleep_list) : st[t] = "BLOCKED",
         \A t \in Threads : st[t] = "RUNNING" <=> t = cur,
         Idle \notin Range(rl), st[Idle] \notin {"FREE", "DYING"}
  PROVE  Prepared([st EXCEPT ![cur] = "READY"],
                  IF cur = Idle THEN rl ELSE Append(rl, cur), sleep_list, endTick)
<1> DEFINE st2 == [st EXCEPT ![cur] = "READY"]
           rl2 == IF cur = Idle THEN rl ELSE Append(rl, cur)
<1>1. cur \notin Range(sleep_list)
  OBVIOUS
<1>2. cur # Idle => cur \notin Range(rl)
  OBVIOUS
<1>3. /\ rl2 \in Seq(Threads) /\ IsInjective(rl2)
      /\ cur = Idle => Range(rl2) = Range(rl)
      /\ cur # Idle => Range(rl2) = Range(rl) \cup {cur}
  <2>1. CASE cur = Idle
    BY <2>1
  <2>2. CASE cur # Idle
    <3>1. rl2 = Append(rl, cur)
      BY <2>2
    <3> HIDE DEF rl2
    <3> QED
      BY <2>2, <3>1, <1>2, AppendList
  <2> QED
    BY <2>1, <2>2
<1>range. Range(sleep_list) \subseteq Threads
  BY RangeSeq
<1>4. /\ st2 \in [Threads -> Status]
      /\ \A t \in Threads : st2[t] = IF t = cur THEN "READY" ELSE st[t]
  BY DEF Status
<1> HIDE DEF st2, rl2
<1>5. Prepared(st2, rl2, sleep_list, endTick)
  <2>1. \A t \in Threads \ {Idle} : st2[t] = "READY" <=> t \in Range(rl2)
    BY <1>3, <1>4
  <2>2. \A t \in Range(sleep_list) : st2[t] = "BLOCKED"
    BY <1>1, <1>range, <1>4
  <2>3. /\ \A t \in Threads : st2[t] # "RUNNING"
        /\ Idle \notin Range(rl2) \cup Range(sleep_list)
        /\ st2[Idle] \notin {"FREE", "DYING"}
    BY <1>3, <1>4, ThreadAssumption
  <2> QED
    BY <2>1, <2>2, <2>3, <1>3, <1>4 DEF Prepared
<1> QED
  BY <1>5 DEF st2, rl2

\* Every step that ends in schedule() keeps the invariant, if it keeps the
\* types of the rest; it wakes sleepers in time, if it left them to schedule()
\* as they were; and schedule() itself suspends and resumes nobody.
LEMMA ScheduleInv ==
  ASSUME ThreadInv,
         ticks' \in {ticks, ticks + 1}, priority' \in [Threads -> Priorities],
         base_priority' \in [Threads -> Priorities],
         at' \in [Threads -> Points], at'[Idle] \in {"run", "hlt"},
         end' \in [Threads -> Nat],
         NEW st, NEW rl, NEW sl, NEW et,
         Prepared(st, rl, sl, et),
         Schedule(st, rl, sl, et),
         \A t \in Range(sl) : et[t] >= 0,
         \A t \in Range(sleep_list) : t \in Range(sl) /\ et[t] = endTick[t]
  PROVE  /\ ThreadInv' /\ WakesInTime
         /\ Suspended' = {t \in Threads \ {Idle} : st[t] = "BLOCKED" /\ t \notin Range(sl)}
<1>1. cur \in Threads /\ ticks' \in Nat
  BY DEF ThreadInv, ThreadTypeOK
<1>2. /\ cur' \in Threads
      /\ status' \in [Threads -> Status]
      /\ ready_list' \in Seq(Threads) /\ sleep_list' \in Seq(Threads)
      /\ endTick' \in [Threads -> Int]
      /\ thread_ticks' = 0
      /\ ListsMatchStatus'
      /\ \A t \in Range(sleep_list') : ticks' < endTick'[t]
      /\ \A t \in Range(ready_list') : priority'[t] <= priority'[cur']
      /\ cur' = Idle => ready_list' = <<>>
      /\ Range(sleep_list') \subseteq Range(sl)
      /\ \A t \in Range(sl) \ Range(sleep_list') : et[t] <= ticks'
      /\ \A t \in Range(sleep_list') : endTick'[t] = et[t]
      /\ \A t \in Threads \ {Idle} :
           (status'[t] = "BLOCKED" /\ t \notin Range(sleep_list'))
              <=> (st[t] = "BLOCKED" /\ t \notin Range(sl))
      /\ status'[Idle] \notin {"FREE", "DYING"}
  BY <1>1, ScheduleCorrect
<1>3. ThreadTypeOK'
  BY <1>1, <1>2, ThreadAssumption, SMTT(30) DEF ThreadTypeOK
<1>4. SleepersTimed'
  BY <1>2 DEF SleepersTimed
<1>5. AlarmBound'
  BY <1>1, <1>2 DEF AlarmBound
<1>6. RunsHighest'
  BY <1>2 DEF RunsHighest
<1>7. WakesInTime
  <2> SUFFICES ASSUME NEW t \in Range(sleep_list) \ Range(sleep_list')
               PROVE  endTick[t] <= ticks' /\ ticks' < endTick[t] + TIME_SLICE
    BY DEF WakesInTime
  <2>1. endTick[t] <= ticks'
    BY <1>2
  <2>2. ticks - thread_ticks < endTick[t]
    BY DEF ThreadInv, AlarmBound
  <2>3. /\ endTick[t] \in Int /\ ticks \in Nat
        /\ thread_ticks \in 0..(TIME_SLICE - 1) /\ TIME_SLICE \in Nat
    BY RangeSeq, ThreadAssumption DEF ThreadInv, ThreadTypeOK
  <2> QED
    BY <2>1, <2>2, <2>3
<1>8. Suspended' = {t \in Threads \ {Idle} : st[t] = "BLOCKED" /\ t \notin Range(sl)}
  BY <1>2 DEF Suspended
<1> QED
  BY <1>2, <1>3, <1>4, <1>5, <1>6, <1>7, <1>8 DEF ThreadInv, IdlePoint

\* thread_yield() as such keeps the invariant and suspends nobody.
LEMMA YieldInv ==
  ASSUME ThreadInv,
         ticks' \in {ticks, ticks + 1}, priority' \in [Threads -> Priorities],
         base_priority' \in [Threads -> Priorities],
         at' \in [Threads -> Points], at'[Idle] \in {"run", "hlt"},
         end' \in [Threads -> Nat],
         ThreadYield(status, ready_list)
  PROVE  ThreadInv' /\ WakesInTime /\ Suspended' = Suspended
<1> DEFINE st2 == [status EXCEPT ![cur] = "READY"]
           rl2 == IF cur = Idle THEN ready_list ELSE Append(ready_list, cur)
<1>1. Prepared(st2, rl2, sleep_list, endTick)
  BY YieldPrepares DEF ThreadInv, ThreadTypeOK, ListsMatchStatus, IdlePoint
<1>2. Schedule(st2, rl2, sleep_list, endTick)
  BY DEF ThreadYield
<1>3. \A t \in Range(sleep_list) : endTick[t] >= 0
  BY DEF ThreadInv, SleepersTimed
<1>4. Suspended = {t \in Threads \ {Idle} : st2[t] = "BLOCKED" /\ t \notin Range(sleep_list)}
  BY DEF ThreadInv, ThreadTypeOK, ListsMatchStatus, Suspended
<1> HIDE DEF st2, rl2
<1> QED
  BY <1>1, <1>2, <1>3, <1>4, ScheduleInv

\* thread_unblock() of a suspended thread and the thread_yield() after it.
LEMMA WakeInv ==
  ASSUME ThreadInv,
         ticks' \in {ticks, ticks + 1}, priority' \in [Threads -> Priorities],
         base_priority' \in [Threads -> Priorities],
         at' \in [Threads -> Points], at'[Idle] \in {"run", "hlt"},
         end' \in [Threads -> Nat],
         NEW top \in Suspended,
         ThreadYield([status EXCEPT ![top] = "READY"], Append(ready_list, top))
  PROVE  ThreadInv' /\ WakesInTime /\ Suspended' = Suspended \ {top}
<1> DEFINE st == [status EXCEPT ![top] = "READY"]
           rl == Append(ready_list, top)
           st2 == [st EXCEPT ![cur] = "READY"]
           rl2 == IF cur = Idle THEN rl ELSE Append(rl, cur)
<1>1. /\ top \in Threads \ {Idle} /\ status[top] = "BLOCKED"
      /\ top \notin Range(sleep_list)
  BY DEF Suspended
<1>2. top \notin Range(ready_list) /\ top # cur
  BY <1>1 DEF ThreadInv, ListsMatchStatus
<1>3. /\ rl \in Seq(Threads) /\ IsInjective(rl)
      /\ Range(rl) = Range(ready_list) \cup {top}
  BY <1>1, <1>2, AppendList DEF ThreadInv, ThreadTypeOK, ListsMatchStatus
<1>4. /\ st \in [Threads -> Status]
      /\ \A t \in Threads : st[t] = IF t = top THEN "READY" ELSE status[t]
  BY DEF ThreadInv, ThreadTypeOK, Status
<1>5. Range(sleep_list) \subseteq Threads
  BY RangeSeq DEF ThreadInv, ThreadTypeOK
<1> HIDE DEF st, rl
<1>6. /\ \A t \in Threads \ {Idle} : st[t] = "READY" <=> t \in Range(rl)
      /\ \A t \in Range(sleep_list) : st[t] = "BLOCKED"
      /\ \A t \in Threads : st[t] = "RUNNING" <=> t = cur
      /\ Idle \notin Range(rl) /\ st[Idle] \notin {"FREE", "DYING"}
  BY <1>1, <1>2, <1>3, <1>4, <1>5, ThreadAssumption
     DEF ThreadInv, ListsMatchStatus, IdlePoint
<1>7. Prepared(st2, rl2, sleep_list, endTick)
  BY <1>3, <1>4, <1>6, YieldPrepares DEF ThreadInv, ThreadTypeOK, ListsMatchStatus
<1>8. Schedule(st2, rl2, sleep_list, endTick)
  BY DEF ThreadYield, st, rl
<1>9. /\ \A t \in Range(sleep_list) : endTick[t] >= 0
      /\ Suspended \ {top} =
           {t \in Threads \ {Idle} : st2[t] = "BLOCKED" /\ t \notin Range(sleep_list)}
  BY <1>4, <1>6, SMTT(30) DEF ThreadInv, ThreadTypeOK, ListsMatchStatus, SleepersTimed, Suspended
<1> HIDE DEF st2, rl2
<1> QED
  BY <1>7, <1>8, <1>9, ScheduleInv

\* thread_block() of a thread other than idle, which enters no sleep list.
LEMMA BlockInv ==
  ASSUME ThreadInv, cur # Idle,
         ticks' \in {ticks, ticks + 1}, priority' \in [Threads -> Priorities],
         base_priority' \in [Threads -> Priorities],
         at' \in [Threads -> Points], at'[Idle] \in {"run", "hlt"},
         end' \in [Threads -> Nat],
         ThreadBlock(sleep_list, endTick)
  PROVE  ThreadInv' /\ WakesInTime /\ Suspended' = Suspended \cup {cur}
<1> DEFINE st2 == [status EXCEPT ![cur] = "BLOCKED"]
<1>1. /\ cur \in Threads /\ status[cur] = "RUNNING"
      /\ cur \notin Range(ready_list) /\ cur \notin Range(sleep_list)
  BY DEF ThreadInv, ThreadTypeOK, ListsMatchStatus
<1>2. Schedule(st2, ready_list, sleep_list, endTick)
  BY DEF ThreadBlock
<1>3. Range(sleep_list) \subseteq Threads
  BY RangeSeq DEF ThreadInv, ThreadTypeOK
<1>4. Prepared(st2, ready_list, sleep_list, endTick)
  BY <1>1, <1>3, ThreadAssumption
     DEF Prepared, ThreadInv, ThreadTypeOK, ListsMatchStatus, IdlePoint, Status
<1>5. /\ \A t \in Range(sleep_list) : endTick[t] >= 0
      /\ Suspended \cup {cur} =
           {t \in Threads \ {Idle} : st2[t] = "BLOCKED" /\ t \notin Range(sleep_list)}
  BY <1>1 DEF ThreadInv, ThreadTypeOK, ListsMatchStatus, SleepersTimed, Suspended
<1> HIDE DEF st2
<1> QED
  BY <1>2, <1>4, <1>5, ScheduleInv

-----------------------------------------------------------------------------
\* The state that thread_start() leaves satisfies the invariant.
LEMMA ThreadInitInv == ThreadInit => ThreadInv /\ Suspended = {}
<1> SUFFICES ASSUME ThreadInit PROVE ThreadInv /\ Suspended = {}
  OBVIOUS
<1>1. ready_list = <<>> /\ sleep_list = <<>> /\ Range(<<>>) = {} /\ IsInjective(<<>>)
  BY DEF ThreadInit, Range, IsInjective
<1>2. ThreadTypeOK
  BY <1>1, ThreadAssumption, EmptySeq
     DEF ThreadInit, ThreadTypeOK, Status, Points, Priorities
<1>3. ListsMatchStatus
  BY <1>1, ThreadAssumption DEF ThreadInit, ListsMatchStatus
<1>4. SleepersTimed /\ Suspended = {}
  BY <1>1, ThreadAssumption DEF ThreadInit, SleepersTimed, Suspended
<1>5. AlarmBound /\ RunsHighest /\ IdlePoint
  BY <1>1, ThreadAssumption DEF ThreadInit, AlarmBound, RunsHighest, IdlePoint
<1> QED
  BY <1>2, <1>3, <1>4, <1>5 DEF ThreadInv

\* Every step keeps the invariant, wakes sleepers in time and suspends nobody:
\* one case per operation.
LEMMA ThreadNextInv ==
  ThreadInv /\ [ThreadNext]_threadVars
    => ThreadInv' /\ WakesInTime /\ Suspended' = Suspended
<1> SUFFICES ASSUME ThreadInv, [ThreadNext]_threadVars
             PROVE  ThreadInv' /\ WakesInTime /\ Suspended' = Suspended
  OBVIOUS
<1>type. ThreadTypeOK /\ IdlePoint
  BY DEF ThreadInv
<1>same. sleep_list' = sleep_list => WakesInTime
  BY DEF WakesInTime
<1>1. CASE TimerInterrupt
  <2>1. /\ ticks' \in {ticks, ticks + 1} /\ priority' \in [Threads -> Priorities]
        /\ base_priority' \in [Threads -> Priorities]
        /\ end' \in [Threads -> Nat]
    BY <1>1, <1>type DEF TimerInterrupt, ThreadTypeOK, priVars
  <2>2. at' \in [Threads -> Points] /\ at'[Idle] \in {"run", "hlt"}
    BY <1>1, <1>type, ThreadAssumption DEF TimerInterrupt, ThreadTypeOK, IdlePoint, Points
  <2>3. CASE ThreadYield(status, ready_list)
    BY <2>1, <2>2, <2>3, YieldInv
  <2>4. CASE /\ ~SliceUsed
             /\ thread_ticks' = thread_ticks + 1
             /\ UNCHANGED <<cur, status, ready_list, sleep_list, endTick>>
    <3>1. ThreadTypeOK'
      BY <2>1, <2>2, <2>4, <1>type, ThreadAssumption DEF ThreadTypeOK, SliceUsed
    <3>2. ListsMatchStatus' /\ SleepersTimed' /\ Suspended' = Suspended
      BY <2>4 DEF ThreadInv, ListsMatchStatus, SleepersTimed, Suspended
    <3>3. AlarmBound'
      BY <1>1, <2>4, <1>type DEF ThreadInv, AlarmBound, TimerInterrupt, ThreadTypeOK
    <3>4. RunsHighest'
      <4>1. at[cur] # "yield" \/ at'[cur] = "yield"
        BY <1>1, <1>type, ThreadAssumption DEF TimerInterrupt, ThreadTypeOK, IdlePoint
      <4> QED
        BY <1>1, <2>4, <4>1 DEF ThreadInv, RunsHighest, TimerInterrupt, priVars
    <3> QED
      BY <1>type, <1>same, <2>2, <2>4, <3>1, <3>2, <3>3, <3>4 DEF ThreadInv, IdlePoint
  <2> QED
    BY <1>1, <2>3, <2>4 DEF TimerInterrupt
<1>2. CASE IdleBlock
  <2> DEFINE st2 == [status EXCEPT ![cur] = "BLOCKED"]
  <2>1. /\ ticks' \in {ticks, ticks + 1} /\ priority' \in [Threads -> Priorities]
        /\ base_priority' \in [Threads -> Priorities]
        /\ end' \in [Threads -> Nat]
        /\ at' \in [Threads -> Points] /\ at'[Idle] \in {"run", "hlt"}
    BY <1>2, <1>type, ThreadAssumption DEF IdleBlock, ThreadTypeOK, priVars, Points
  <2>2. Schedule(st2, ready_list, sleep_list, endTick) /\ cur = Idle
    BY <1>2 DEF IdleBlock, ThreadBlock
  <2>3. Prepared(st2, ready_list, sleep_list, endTick)
    BY <2>2, ThreadAssumption DEF Prepared, ThreadInv, ThreadTypeOK, ListsMatchStatus, Status
  <2>4. /\ \A t \in Range(sleep_list) : endTick[t] >= 0
        /\ Suspended = {t \in Threads \ {Idle} : st2[t] = "BLOCKED" /\ t \notin Range(sleep_list)}
    BY <2>2 DEF ThreadInv, SleepersTimed, ThreadTypeOK, Suspended
  <2> HIDE DEF st2
  <2> QED
    BY <2>1, <2>2, <2>3, <2>4, ScheduleInv
<1>3. CASE YieldCall
  BY <1>3, <1>type, YieldInv DEF YieldCall, ThreadTypeOK, IdlePoint, priVars
<1>4. ASSUME NEW t \in Threads, NEW p \in Priorities, ThreadCreate(t, p)
      PROVE  ThreadInv' /\ WakesInTime /\ Suspended' = Suspended
  <2>1. status[t] = "FREE" /\ t # cur /\ t # Idle /\ cur # Idle
    BY <1>4, <1>type DEF ThreadCreate, Calls, ThreadInv, ListsMatchStatus, IdlePoint
  <2>2. /\ cur' = cur /\ sleep_list' = sleep_list /\ ticks' = ticks
        /\ thread_ticks' = thread_ticks /\ end' = end
        /\ ready_list' = Append(ready_list, t)
        /\ status' = [status EXCEPT ![t] = "READY"]
        /\ endTick' = [endTick EXCEPT ![t] = -1]
        /\ at' = [at EXCEPT ![cur] = "yield", ![t] = "run"]
    BY <1>4 DEF ThreadCreate
  <2>3. t \notin Range(ready_list) /\ t \notin Range(sleep_list)
    BY <2>1 DEF ThreadInv, ListsMatchStatus
  <2>4. /\ ready_list' \in Seq(Threads) /\ IsInjective(ready_list')
        /\ Range(ready_list') = Range(ready_list) \cup {t}
    BY <2>2, <2>3, AppendList DEF ThreadInv, ThreadTypeOK, ListsMatchStatus
  <2>5. ThreadTypeOK'
    <3>1. priority' \in [Threads -> Priorities] /\ base_priority' \in [Threads -> Priorities]
      BY <1>4, <1>type DEF ThreadCreate, ThreadTypeOK
    <3>2. at' \in [Threads -> Points]
      BY <1>type, <2>2 DEF ThreadTypeOK, Points
    <3>3. status' \in [Threads -> Status] /\ endTick' \in [Threads -> Int]
      BY <1>type, <2>2 DEF ThreadTypeOK, Status
    <3> QED
      BY <3>1, <3>2, <3>3, <1>type, <2>2, <2>4 DEF ThreadTypeOK
  <2>6. Range(sleep_list) \subseteq Threads
    BY <1>type, RangeSeq DEF ThreadTypeOK
  <2>7. ListsMatchStatus'
    <3>1. /\ \A u \in Threads \ {Idle} : status'[u] = "READY" <=> u \in Range(ready_list')
          /\ \A u \in Threads : status'[u] = "RUNNING" <=> u = cur'
          /\ Idle \notin Range(ready_list') \cup Range(sleep_list')
      BY <1>type, <2>1, <2>2, <2>4 DEF ThreadInv, ListsMatchStatus, ThreadTypeOK
    <3>2. \A u \in Range(sleep_list') : status'[u] = "BLOCKED"
      BY <1>type, <2>2, <2>3, <2>6 DEF ThreadInv, ListsMatchStatus, ThreadTypeOK
    <3>3. IsInjective(sleep_list')
      BY <2>2 DEF ThreadInv, ListsMatchStatus
    <3> QED
      BY <2>4, <3>1, <3>2, <3>3 DEF ListsMatchStatus
  <2>8. SleepersTimed' /\ Suspended' = Suspended
    BY <1>type, <2>1, <2>2, <2>3, <2>6
       DEF ThreadInv, SleepersTimed, Suspended, ThreadTypeOK
  <2>9. AlarmBound'
    BY <1>type, <2>2, <2>3, <2>6 DEF ThreadInv, AlarmBound, ThreadTypeOK
  <2>10. RunsHighest'
    BY <1>type, <2>1, <2>2 DEF RunsHighest, ThreadTypeOK
  <2>11. IdlePoint'
    BY <1>type, <2>1, <2>2, ThreadAssumption DEF IdlePoint, ThreadTypeOK
  <2> QED
    BY <1>same, <2>2, <2>5, <2>7, <2>8, <2>9, <2>10, <2>11 DEF ThreadInv
<1>5. CASE CreateYield
  <2>1. cur # Idle
    BY <1>5, <1>type DEF CreateYield, IdlePoint
  <2> QED
    BY <2>1, <1>5, <1>type, YieldInv DEF CreateYield, ThreadTypeOK, IdlePoint, priVars, Points
<1>6. CASE ThreadExit
  <2> DEFINE st2 == [status EXCEPT ![cur] = "DYING"]
  <2>1. /\ ticks' \in {ticks, ticks + 1} /\ priority' \in [Threads -> Priorities]
        /\ base_priority' \in [Threads -> Priorities]
        /\ end' \in [Threads -> Nat]
        /\ at' \in [Threads -> Points] /\ at'[Idle] \in {"run", "hlt"}
    BY <1>6, <1>type DEF ThreadExit, ThreadTypeOK, IdlePoint, priVars
  <2>2. Schedule(st2, ready_list, sleep_list, endTick) /\ cur # Idle
    BY <1>6 DEF ThreadExit, Calls
  <2>3. cur \notin Range(ready_list) /\ cur \notin Range(sleep_list)
    BY <1>type, <2>2 DEF ThreadInv, ListsMatchStatus, ThreadTypeOK
  <2>4. Range(sleep_list) \subseteq Threads
    BY <1>type, RangeSeq DEF ThreadTypeOK
  <2>5. Prepared(st2, ready_list, sleep_list, endTick)
    BY <1>type, <2>2, <2>3, <2>4, ThreadAssumption
       DEF Prepared, ThreadInv, ThreadTypeOK, ListsMatchStatus, IdlePoint, Status
  <2>6. /\ \A t \in Range(sleep_list) : endTick[t] >= 0
        /\ Suspended = {t \in Threads \ {Idle} : st2[t] = "BLOCKED" /\ t \notin Range(sleep_list)}
    BY DEF ThreadInv, SleepersTimed, ListsMatchStatus, ThreadTypeOK, Suspended
  <2> HIDE DEF st2
  <2> QED
    BY <2>1, <2>2, <2>5, <2>6, ScheduleInv
<1>7. ASSUME NEW p \in Priorities, ThreadSetPriority(p)
      PROVE  ThreadInv' /\ WakesInTime /\ Suspended' = Suspended
  <2>1. /\ priority' \in [Threads -> Priorities]
        /\ base_priority' \in [Threads -> Priorities]
    BY <1>7, <1>type DEF ThreadSetPriority, ThreadTypeOK
  <2> QED
    BY <2>1, <1>7, <1>type, YieldInv DEF ThreadSetPriority, ThreadTypeOK, IdlePoint
<1>8. ASSUME NEW n \in SleepArgs, TimerSleep(n)
      PROVE  ThreadInv' /\ WakesInTime /\ Suspended' = Suspended
  <2>1. /\ UNCHANGED <<schedVars, priVars, ticks>>
        /\ at' = [at EXCEPT ![cur] = "sleep"]
        /\ at[cur] = "run" /\ cur # Idle
    BY <1>8 DEF TimerSleep, Calls
  <2>2. end' \in [Threads -> Nat]
    <3>1. n \in Int
      BY ThreadAssumption
    <3>2. ticks + (IF n > 0 THEN n ELSE 0) \in Nat
      BY <3>1, <1>type DEF ThreadTypeOK
    <3> QED
      BY <3>2, <1>8, <1>type DEF TimerSleep, ThreadTypeOK
  <2>3. ThreadTypeOK'
    BY <2>1, <2>2, <1>type DEF ThreadTypeOK, schedVars, priVars, Points
  <2>4. /\ ListsMatchStatus' /\ SleepersTimed' /\ AlarmBound'
        /\ Suspended' = Suspended
    BY <2>1 DEF ThreadInv, ListsMatchStatus, SleepersTimed, AlarmBound, Suspended, schedVars
  <2>5. RunsHighest'
    BY <2>1 DEF ThreadInv, RunsHighest, schedVars, priVars
  <2>6. IdlePoint'
    BY <2>1, <1>type DEF IdlePoint, schedVars
  <2> QED
    BY <1>same, <2>1, <2>3, <2>4, <2>5, <2>6 DEF ThreadInv, schedVars
<1>9. CASE ThreadYieldForSeconds
  <2> DEFINE st2 == [status EXCEPT ![cur] = "BLOCKED"]
             sl2 == Append(sleep_list, cur)
             et2 == [endTick EXCEPT ![cur] = end[cur]]
  <2>1. cur # Idle
    BY <1>9, <1>type DEF ThreadYieldForSeconds, IdlePoint
  <2>2. /\ ticks' \in {ticks, ticks + 1} /\ priority' \in [Threads -> Priorities]
        /\ base_priority' \in [Threads -> Priorities]
        /\ end' \in [Threads -> Nat]
        /\ at' \in [Threads -> Points] /\ at'[Idle] \in {"run", "hlt"}
    BY <1>9, <1>type, <2>1
       DEF ThreadYieldForSeconds, ThreadTypeOK, IdlePoint, priVars, Points
  <2>3. Schedule(st2, ready_list, sl2, et2)
    BY <1>9 DEF ThreadYieldForSeconds, ThreadBlock
  <2>4. cur \notin Range(ready_list) /\ cur \notin Range(sleep_list)
    BY <1>type, <2>1 DEF ThreadInv, ListsMatchStatus, ThreadTypeOK
  <2>5. /\ sl2 \in Seq(Threads) /\ IsInjective(sl2)
        /\ Range(sl2) = Range(sleep_list) \cup {cur}
    BY <2>4, AppendList DEF ThreadInv, ThreadTypeOK, ListsMatchStatus
  <2>6. Range(sleep_list) \subseteq Threads
    BY <1>type, RangeSeq DEF ThreadTypeOK
  <2>7. /\ et2 \in [Threads -> Int] /\ et2[cur] \in Nat
        /\ \A t \in Threads \ {cur} : et2[t] = endTick[t]
    BY <1>type DEF ThreadTypeOK
  <2> HIDE DEF sl2, et2
  <2>8. Prepared(st2, ready_list, sl2, et2)
    BY <1>type, <2>1, <2>4, <2>5, <2>6, <2>7, ThreadAssumption
       DEF Prepared, ThreadInv, ThreadTypeOK, ListsMatchStatus, IdlePoint, Status
  <2>9. /\ \A t \in Range(sl2) : et2[t] >= 0
        /\ Suspended = {t \in Threads \ {Idle} : st2[t] = "BLOCKED" /\ t \notin Range(sl2)}
    BY <1>type, <2>5, <2>6, <2>7
       DEF ThreadInv, SleepersTimed, ListsMatchStatus, ThreadTypeOK, Suspended
  <2>10. \A t \in Range(sleep_list) : t \in Range(sl2) /\ et2[t] = endTick[t]
    BY <2>4, <2>5, <2>6, <2>7
  <2> HIDE DEF st2
  <2> QED
    BY <2>2, <2>3, <2>8, <2>9, <2>10, ScheduleInv
<1>10. CASE UNCHANGED threadVars
  BY <1>10, <1>same DEF threadVars, schedVars, priVars, ThreadInv, ThreadTypeOK, ListsMatchStatus,
               SleepersTimed, AlarmBound, RunsHighest, IdlePoint, Suspended
<1> QED
  BY <1>1, <1>2, <1>3, <1>4, <1>5, <1>6, <1>7, <1>8, <1>9, <1>10 DEF ThreadNext

-----------------------------------------------------------------------------
\* Every variable keeps its type; the slice counter of thread_tick() stays
\* below TIME_SLICE.
THEOREM ThreadTyping == ThreadSpec => []ThreadTypeOK
<1>1. ThreadInv => ThreadTypeOK
  BY DEF ThreadInv
<1> QED
  BY <1>1, ThreadInitInv, ThreadNextInv, PTL DEF ThreadSpec

\* thread.h:77-82: a thread's `elem' is in one list at a time, the one that its
\* status calls for, and only the current thread is RUNNING.
THEOREM ThreadLists == ThreadSpec => []ListsMatchStatus
<1>1. ThreadInv => ListsMatchStatus
  BY DEF ThreadInv
<1> QED
  BY <1>1, ThreadInitInv, ThreadNextInv, PTL DEF ThreadSpec

\* A thread blocked by timer_sleep() stays in the sleep list until schedule()
\* wakes it.
THEOREM ThreadKept == ThreadSpec => []NoThreadLost
<1>1. ThreadInv /\ Suspended = {} => NoThreadLost
  BY DEF ThreadInv, SleepersTimed, Suspended, NoThreadLost
<1>2. (ThreadInv /\ Suspended = {}) /\ [ThreadNext]_threadVars
        => (ThreadInv /\ Suspended = {})'
  BY ThreadNextInv
<1> QED
  BY <1>1, <1>2, ThreadInitInv, PTL DEF ThreadSpec

\* No sleeper is overdue by more ticks than the current slice has run.
THEOREM AlarmOnTime == ThreadSpec => []AlarmBound
<1>1. ThreadInv => AlarmBound
  BY DEF ThreadInv
<1> QED
  BY <1>1, ThreadInitInv, ThreadNextInv, PTL DEF ThreadSpec

\* With interrupts on, no ready thread has a greater priority than the running
\* one, except between thread_unblock() and thread_yield() in thread_create().
THEOREM PriorityScheduling == ThreadSpec => []HighestPriorityRuns
<1>1. ThreadInv => HighestPriorityRuns
  BY DEF ThreadInv, RunsHighest, HighestPriorityRuns
<1> QED
  BY <1>1, ThreadInitInv, ThreadNextInv, PTL DEF ThreadSpec

\* timer_sleep() never ends before its tick, nor a time slice or more after it.
THEOREM AlarmWindow == ThreadSpec => WakeWindow
<1>1. ThreadInv /\ [ThreadNext]_threadVars => [WakesInTime]_threadVars
  BY ThreadNextInv
<1> QED
  BY <1>1, ThreadInitInv, ThreadNextInv, PTL DEF ThreadSpec, WakeWindow

(***************************************************************************)
(* Semaphores, locks and condition variables: module Synch.                *)
(***************************************************************************)


\* What the place p of thread t in a call says about the object x of the call
\* and the lock m of a cond_wait().
CallFits(t, p, x, m) ==
  /\ p \in {"try", "donate"} => x \in Locks
  /\ p = "down" => x \in Semas /\ (x \in Threads => x = t /\ m \in Locks)
  /\ p = "broadcast" => x \in Conds
  /\ p \in {"cw_release", "cw_down", "cw_acquire"} => m \in Locks

\* A thread's place in a call fits the call's arguments; cond_wait() still
\* holds the lock it is about to release; and a thread that does not exist is
\* in no call.
CallPoints ==
  \A t \in Threads :
    /\ CallFits(t, at[t], arg[t], monitor[t])
    /\ at[t] = "cw_release" => holder[monitor[t]] = t
    /\ status[t] \in {"FREE", "DYING"} => at[t] = "run"

\* The waiters lists hold exactly the suspended threads, each on the list of
\* the semaphore it is in sema_down_internal() of.
WaitQueues ==
  /\ \A s \in Semas :
       /\ IsInjective(waiters[s])
       /\ \A t \in Range(waiters[s]) : t \in Suspended /\ at[t] = "down" /\ arg[t] = s
  /\ \A t \in Suspended : at[t] = "down" /\ t \in Range(waiters[arg[t]])

\* A semaphore_elem is on the stack of the cond_wait() that queues it: while
\* it is on a condition's list, which it is once, that call is not over and
\* its semaphore has not been upped.
CondQueues ==
  \A c \in Conds :
    /\ IsInjective(cond_waiters[c])
    /\ \A t \in Range(cond_waiters[c]) :
         /\ value[t] = 0
         /\ \/ at[t] \in {"cw_release", "cw_down"}
            \/ at[t] = "down" /\ arg[t] = t
         /\ \A d \in Conds : t \in Range(cond_waiters[d]) => d = c

\* The inductive invariant.
SynchInv ==
  /\ TypeOK
  /\ ThreadInv
  /\ CallPoints
  /\ WaitQueues
  /\ CondQueues
  /\ NoLostWakeup
  /\ LockExclusion
  /\ DonationReturned

-----------------------------------------------------------------------------
(* The operators of the model.                                             *)

\* update_lock_max_priority() computes a priority, or -1 for no waiter.
LEMMA MaxPriorityType ==
  ASSUME NEW ws \in Seq(Threads), NEW pri \in [Threads -> Priorities]
  PROVE  MaxPriority(ws, pri) \in Priorities \cup {-1}
<1> DEFINE T == {-1} \cup {pri[t] : t \in Range(ws)}
<1>1. Range(ws) \subseteq Threads
  BY RangeSeq
<1>2. /\ T \in SUBSET (Priorities \cup {-1}) /\ T # {}
      /\ Priorities \cup {-1} \subseteq Int
      /\ PRI_MAX \in Int /\ \A x \in Priorities \cup {-1} : x <= PRI_MAX
  BY <1>1, ThreadAssumption DEF Priorities
<1> HIDE DEF T
<1>3. Max(T) \in T
  BY <1>2, MaxBounded
<1> QED
  BY <1>2, <1>3 DEF MaxPriority, T

\* lock_release() leaves a priority that is not below the base, and above it
\* only for a lock that is still held.
LEMMA ReleasedPriorityBase ==
  ASSUME TypeOK, NEW ls \in SUBSET Locks
  PROVE  /\ ReleasedPriority(ls) \in Priorities
         /\ base_priority[cur] <= ReleasedPriority(ls)
         /\ base_priority[cur] < ReleasedPriority(ls) => ls # {}
<1> DEFINE b == base_priority[cur]
           T == {b} \cup {max_waiter_priority[l] : l \in ls}
<1>1. b \in Priorities /\ \A l \in ls : max_waiter_priority[l] \in Priorities \cup {-1}
  BY DEF TypeOK, ThreadTypeOK
<1>2. /\ T \in SUBSET (Priorities \cup {-1}) /\ T # {}
      /\ Priorities \cup {-1} \subseteq Int
      /\ PRI_MAX \in Int /\ \A x \in Priorities \cup {-1} : x <= PRI_MAX
  BY <1>1, ThreadAssumption DEF Priorities
<1>3. b \in T /\ (ls = {} => T = {b})
  OBVIOUS
<1>4. ReleasedPriority(ls) = Max(T)
  BY DEF ReleasedPriority
<1> HIDE DEF T, b
<1>5. Max(T) \in T /\ \A x \in T : x <= Max(T)
  BY <1>2, MaxBounded
<1>6. b <= Max(T) /\ Max(T) \in Priorities
  <2>1. b <= Max(T) /\ Max(T) \in Priorities \cup {-1}
    BY <1>2, <1>3, <1>5
  <2>2. b >= 0
    BY <1>1, ThreadAssumption DEF Priorities
  <2> QED
    BY <1>1, <1>2, <2>1, <2>2
<1>7. ls = {} => Max(T) = b
  BY <1>3, <1>5
<1>8. b \in Int
  BY <1>1, <1>2
<1> QED
  BY <1>4, <1>6, <1>7, <1>8 DEF b

-----------------------------------------------------------------------------
(* The scheduler's part of a step.                                         *)

\* A step in which the running thread keeps the CPU and only moves on.
LEMMA MovesOn ==
  ASSUME ThreadInv, UNCHANGED <<schedVars, priVars, ticks, end>>,
         cur # Idle, at[cur] # "yield",
         NEW p \in Points, at' = [at EXCEPT ![cur] = p]
  PROVE  ThreadInv' /\ WakesInTime /\ Suspended' = Suspended
<1>1. ThreadTypeOK'
  BY DEF ThreadInv, ThreadTypeOK, schedVars, priVars
<1>2. /\ ListsMatchStatus' /\ SleepersTimed' /\ AlarmBound' /\ WakesInTime
      /\ Suspended' = Suspended
  BY DEF ThreadInv, ListsMatchStatus, SleepersTimed, AlarmBound, WakesInTime,
         Suspended, schedVars
<1>3. RunsHighest'
  BY DEF ThreadInv, RunsHighest, schedVars, priVars
<1>4. IdlePoint'
  BY DEF ThreadInv, IdlePoint, ThreadTypeOK, schedVars
<1> QED
  BY <1>1, <1>2, <1>3, <1>4 DEF ThreadInv

\* The threads that have ended.
Ended(st) == {t \in Threads : st[t] \in {"FREE", "DYING"}}

\* schedule() ends only a thread that its caller has made DYING.
LEMMA ScheduleEnds ==
  ASSUME NEW st, NEW rl, NEW sl, NEW et, Schedule(st, rl, sl, et)
  PROVE  Ended(status') \subseteq Ended(st)
  BY DEF Schedule, Ended

\* thread_yield() and thread_block() end nobody.
LEMMA YieldEnds ==
  ASSUME NEW st \in [Threads -> Status], NEW rl, cur \in Threads, ThreadYield(st, rl)
  PROVE  Ended(status') \subseteq Ended(st)
<1> DEFINE st2 == [st EXCEPT ![cur] = "READY"]
           rl2 == IF cur = Idle THEN rl ELSE Append(rl, cur)
<1>1. Schedule(st2, rl2, sleep_list, endTick)
  BY DEF ThreadYield
<1>2. Ended(st2) \subseteq Ended(st)
  BY DEF Ended
<1> HIDE DEF st2, rl2
<1> QED
  BY <1>1, <1>2, ScheduleEnds

\* Nor does thread_block().
LEMMA BlockEnds ==
  ASSUME status \in [Threads -> Status], cur \in Threads, NEW sl, NEW et,
         ThreadBlock(sl, et)
  PROVE  Ended(status') \subseteq Ended(status)
<1> DEFINE st2 == [status EXCEPT ![cur] = "BLOCKED"]
<1>1. Schedule(st2, ready_list, sl, et)
  BY DEF ThreadBlock
<1>2. Ended(st2) \subseteq Ended(status)
  BY DEF Ended
<1> HIDE DEF st2
<1> QED
  BY <1>1, <1>2, ScheduleEnds

\* What sema_up_internal() on s leaves when it has woken the threads in W.
Resumed(s, W) ==
  /\ ThreadInv' /\ WakesInTime
  /\ Suspended' = Suspended \ W
  /\ Ended(status') \subseteq Ended(status)
  /\ value' = [value EXCEPT ![s] = @ + 1]
  /\ waiters' \in [Semas -> Seq(Threads)]
  /\ \A u \in Semas :
       /\ IsInjective(waiters'[u])
       /\ Range(waiters'[u]) = IF u = s THEN Range(waiters[s]) \ W ELSE Range(waiters[u])
  /\ max_waiter_priority' \in [Locks -> Priorities \cup {-1}]
  /\ \/ waiters[s] = <<>> /\ W = {} /\ waiters'[s] = <<>>
     \/ \E top \in Range(waiters[s]) : W = {top}

\* sema_up_internal() wakes one waiter, if there is one.
LEMMA SemaUpWakes ==
  ASSUME TypeOK, ThreadInv, WaitQueues, NEW s \in Semas,
         ticks' = ticks, priority' \in [Threads -> Priorities],
         base_priority' \in [Threads -> Priorities],
         at' \in [Threads -> Points], at'[Idle] \in {"run", "hlt"},
         end' \in [Threads -> Nat],
         SemaUpInternal(s)
  PROVE  \E W \in SUBSET Threads : Resumed(s, W)
<1>1. waiters \in [Semas -> Seq(Threads)] /\ waiters[s] \in Seq(Threads)
  BY DEF TypeOK
<1>2. \A u \in Semas : IsInjective(waiters[u])
  BY DEF WaitQueues
<1>3. ASSUME waiters[s] = <<>>, UNCHANGED <<waiters, max_waiter_priority>>,
             value' = [value EXCEPT ![s] = @ + 1],
             ThreadYield(status, ready_list)
      PROVE  Resumed(s, {})
  <2>1. ThreadInv' /\ WakesInTime /\ Suspended' = Suspended
    BY <1>3, YieldInv
  <2>2. Ended(status') \subseteq Ended(status)
    BY <1>3, YieldEnds DEF TypeOK, ThreadTypeOK
  <2> QED
    BY <2>1, <2>2, <1>1, <1>2, <1>3 DEF Resumed, TypeOK
<1>4. ASSUME waiters[s] # <<>>,
             value' = [value EXCEPT ![s] = @ + 1],
             NEW top, top = waiters[s][FirstMax(waiters[s], priority')],
             waiters' = [waiters EXCEPT ![s] = Unlink(@, top)],
             max_waiter_priority' =
               [l \in Locks |-> IF l = s THEN MaxPriority(waiters'[s], priority')
                                ELSE max_waiter_priority[l]],
             ThreadYield([status EXCEPT ![top] = "READY"], Append(ready_list, top))
      PROVE  Resumed(s, {top}) /\ top \in Threads
  <2>1. top \in Range(waiters[s])
    BY <1>1, <1>4, FirstMaxList, ThreadAssumption DEF Priorities
  <2>2. top \in Suspended /\ top \in Threads
    BY <2>1 DEF WaitQueues, Suspended
  <2>3. ThreadInv' /\ WakesInTime /\ Suspended' = Suspended \ {top}
    BY <2>2, <1>4, WakeInv
  <2>4. /\ Unlink(waiters[s], top) \in Seq(Threads)
        /\ Range(Unlink(waiters[s], top)) = Range(waiters[s]) \ {top}
        /\ IsInjective(Unlink(waiters[s], top))
    BY <2>1, <1>1, <1>2, UnlinkList
  <2>5. /\ waiters' \in [Semas -> Seq(Threads)]
        /\ waiters'[s] = Unlink(waiters[s], top)
        /\ \A u \in Semas \ {s} : waiters'[u] = waiters[u]
    BY <2>4, <1>1, <1>4
  <2>6. max_waiter_priority' \in [Locks -> Priorities \cup {-1}]
    <3>1. MaxPriority(waiters'[s], priority') \in Priorities \cup {-1}
      BY <2>5, <2>4, MaxPriorityType
    <3> QED
      BY <3>1, <1>4 DEF TypeOK
  <2>7. Ended(status') \subseteq Ended(status)
    <3> DEFINE st == [status EXCEPT ![top] = "READY"]
    <3>1. st \in [Threads -> Status] /\ Ended(st) \subseteq Ended(status)
      BY DEF TypeOK, ThreadTypeOK, Status, Ended
    <3>2. ThreadYield(st, Append(ready_list, top))
      BY <1>4
    <3> HIDE DEF st
    <3> QED
      BY <3>1, <3>2, YieldEnds DEF TypeOK, ThreadTypeOK
  <2> QED
    BY <2>1, <2>2, <2>3, <2>4, <2>5, <2>6, <2>7, <1>2, <1>4 DEF Resumed
<1> QED
  BY <1>3, <1>4 DEF SemaUpInternal

-----------------------------------------------------------------------------
(* Parts of the invariant under a step that leaves them alone.             *)

\* The running thread waits on no list.
LEMMA CurrentRuns ==
  ASSUME SynchInv
  PROVE  /\ cur \in Threads /\ status[cur] = "RUNNING" /\ cur \notin Suspended
         /\ \A s \in Semas : cur \notin Range(waiters[s])
         /\ at[cur] \notin {"run", "hlt"} => cur # Idle
<1>1. /\ cur \in Threads /\ status[cur] = "RUNNING"
      /\ at[cur] \notin {"run", "hlt"} => cur # Idle
  BY DEF SynchInv, ThreadInv, ThreadTypeOK, ListsMatchStatus, IdlePoint
<1>2. cur \notin Suspended
  BY <1>1 DEF Suspended
<1> QED
  BY <1>1, <1>2 DEF SynchInv, WaitQueues

\* The lists stay right while the suspended threads stay where they are.
LEMMA QueuesKept ==
  ASSUME WaitQueues, waiters' = waiters, Suspended' = Suspended,
         \A t \in Suspended : at'[t] = at[t] /\ arg'[t] = arg[t]
  PROVE  WaitQueues'
  BY DEF WaitQueues

\* sema_up_internal() keeps the lists right.
LEMMA QueuesAfterUp ==
  ASSUME WaitQueues, CallPoints,
         NEW s \in Semas, NEW W \in SUBSET Threads, Resumed(s, W),
         \A t \in Suspended : at'[t] = at[t] /\ arg'[t] = arg[t]
  PROVE  WaitQueues'
<1>1. W \subseteq Range(waiters[s])
  BY DEF Resumed
<1>2. ASSUME NEW u \in Semas, NEW t \in Range(waiters'[u])
      PROVE  t \in Suspended' /\ at'[t] = "down" /\ arg'[t] = u
  <2>1. t \in Range(waiters[u]) /\ (u = s => t \notin W)
    BY <1>2 DEF Resumed
  <2>2. t \in Suspended /\ at[t] = "down" /\ arg[t] = u
    BY <2>1, <1>2 DEF WaitQueues
  <2>3. t \notin W
    BY <1>1, <2>1, <2>2 DEF WaitQueues
  <2> QED
    BY <2>2, <2>3 DEF Resumed
<1>3. ASSUME NEW t \in Suspended'
      PROVE  at'[t] = "down" /\ t \in Range(waiters'[arg'[t]])
  <2>1. t \in Suspended /\ t \notin W
    BY <1>3 DEF Resumed
  <2>2. at[t] = "down" /\ t \in Range(waiters[arg[t]]) /\ at'[t] = at[t] /\ arg'[t] = arg[t]
    BY <2>1 DEF WaitQueues
  <2>3. arg[t] \in Semas
    BY <2>1, <2>2 DEF CallPoints, CallFits, Suspended
  <2> QED
    BY <2>1, <2>2, <2>3 DEF Resumed
<1> QED
  BY <1>2, <1>3 DEF WaitQueues, Resumed

\* Woken(s) is a finite set of threads.
LEMMA WokenFinite ==
  ASSUME NEW s
  PROVE  /\ IsFiniteSet(Woken(s)) /\ Cardinality(Woken(s)) \in Nat
         /\ IsFiniteSet(Woken(s)') /\ Cardinality(Woken(s)') \in Nat
<1>1. Woken(s) \in SUBSET Threads /\ Woken(s)' \in SUBSET Threads /\ IsFiniteSet(Threads)
  BY ThreadAssumption DEF Woken
<1> HIDE DEF Woken
<1>2. IsFiniteSet(Woken(s)) /\ IsFiniteSet(Woken(s)')
  BY <1>1, FS_Subset
<1> QED
  BY <1>2, FS_CardinalityType

\* Wake-ups stay accounted for at a semaphore that gains no value and loses no
\* woken thread.
LEMMA WakeupsKept ==
  ASSUME TypeOK, TypeOK', NoLostWakeup, NEW s \in Semas,
         waiters'[s] # <<>>, waiters[s] # <<>>,
         value'[s] <= value[s], Woken(s) \subseteq Woken(s)'
  PROVE  value'[s] <= Cardinality(Woken(s)')
<1>1. value[s] \in Nat /\ value'[s] \in Nat /\ value[s] <= Cardinality(Woken(s))
  BY DEF TypeOK, NoLostWakeup
<1>2. Cardinality(Woken(s)) <= Cardinality(Woken(s)')
  BY WokenFinite, FS_Subset
<1> QED
  BY <1>1, <1>2, WokenFinite

\* sema_up_internal() gives the value it adds to a woken thread.
LEMMA WakeupsAfterUp ==
  ASSUME SynchInv, TypeOK', WaitQueues',
         NEW s \in Semas, NEW W \in SUBSET Threads, Resumed(s, W),
         \A t \in Threads : at[t] = "down" => at'[t] = "down" /\ arg'[t] = arg[t]
  PROVE  NoLostWakeup'
<1> SUFFICES ASSUME NEW u \in Semas, waiters'[u] # <<>>
             PROVE  value'[u] <= Cardinality(Woken(u)')
  BY DEF NoLostWakeup
<1>1. TypeOK /\ NoLostWakeup /\ WaitQueues
  BY DEF SynchInv
<1>2. Woken(u) \subseteq Woken(u)'
  BY DEF Woken, Resumed
<1>3. waiters[u] # <<>>
  <2>1. waiters'[u] \in Seq(Threads) /\ waiters[u] \in Seq(Threads)
    BY <1>1 DEF TypeOK
  <2>2. Range(waiters'[u]) # {}
    <3>1. 1 \in DOMAIN waiters'[u]
      BY <2>1, EmptySeq, LenProperties
    <3> QED
      BY <3>1 DEF Range
  <2>3. Range(waiters[u]) # {}
    BY <2>2 DEF Resumed
  <2> QED
    BY <2>3 DEF Range
<1>4. CASE u # s
  <2>1. value'[u] <= value[u]
    BY <1>1, <1>4 DEF Resumed, TypeOK
  <2> QED
    BY <2>1, <1>1, <1>2, <1>3, WakeupsKept
<1>5. CASE u = s
  <2>1. PICK top \in Range(waiters[s]) : W = {top}
    BY <1>3, <1>5 DEF Resumed
  <2>2. top \in Threads /\ at[top] = "down" /\ arg[top] = s
    BY <2>1, <1>1 DEF WaitQueues, Suspended
  <2>3. top \in Woken(s)' /\ top \notin Woken(s)
    BY <2>1, <2>2 DEF Woken, Resumed
  <2>4. Cardinality(Woken(s) \cup {top}) = Cardinality(Woken(s)) + 1
    BY <2>3, WokenFinite, FS_AddElement
  <2>5. Cardinality(Woken(s) \cup {top}) <= Cardinality(Woken(s)')
    BY <2>3, <1>2, <1>5, WokenFinite, FS_Subset
  <2>6. value'[s] = value[s] + 1 /\ value[s] \in Nat /\ value[s] <= Cardinality(Woken(s))
    BY <1>1, <1>3, <1>5 DEF Resumed, TypeOK, NoLostWakeup
  <2> QED
    BY <2>4, <2>5, <2>6, <1>5, WokenFinite
<1> QED
  BY <1>4, <1>5

\* Nothing about locks changes in a step that leaves their semaphores, their
\* holders and the threads in lock_try_acquire() alone.
LocksKept ==
  /\ UNCHANGED <<holder, held_locks>>
  /\ \A l \in Locks : value'[l] = value[l]
  /\ \A t \in Threads, l \in Locks :
       (at'[t] = "try" /\ arg'[t] = l) <=> (at[t] = "try" /\ arg[t] = l)

\* The refinement mapping: a change of one lock's owner, or of none.
LEMMA OwnerMapped ==
  /\ (\A l \in Locks : Owners(l)' = Owners(l)) => lock_owner' = lock_owner
  /\ \A l \in Locks, t \in Threads :
       /\ \A k \in Locks \ {l} : Owners(k)' = Owners(k)
       /\ Owners(l) = {} /\ Owners(l)' = {t}
       => AbstractMutex!Acquire(t, l)
  /\ \A l \in Locks, t \in Threads :
       /\ \A k \in Locks \ {l} : Owners(k)' = Owners(k)
       /\ Owners(l) = {t} /\ Owners(l)' = {}
       => AbstractMutex!Release(t, l)
<1> DEFINE who(S) == IF S = {} THEN None ELSE CHOOSE t \in S : TRUE
<1>1. /\ lock_owner = [l \in Locks |-> who(Owners(l))]
      /\ lock_owner' = [l \in Locks |-> who(Owners(l)')]
  BY DEF lock_owner
<1>2. who({}) = None /\ \A t : who({t}) = t
  OBVIOUS
<1> HIDE DEF who
<1>3. ASSUME \A l \in Locks : Owners(l)' = Owners(l)
      PROVE  lock_owner' = lock_owner
  BY <1>1, <1>3
<1>4. ASSUME NEW l \in Locks, NEW t \in Threads,
             Owners(l) = {}, Owners(l)' = {t},
             \A k \in Locks \ {l} : Owners(k)' = Owners(k)
      PROVE  AbstractMutex!Acquire(t, l)
  BY <1>1, <1>2, <1>4 DEF AbstractMutex!Acquire
<1>5. ASSUME NEW l \in Locks, NEW t \in Threads,
             Owners(l) = {t}, Owners(l)' = {},
             \A k \in Locks \ {l} : Owners(k)' = Owners(k)
      PROVE  AbstractMutex!Release(t, l)
  BY <1>1, <1>2, <1>5 DEF AbstractMutex!Release
<1> QED
  BY <1>3, <1>4, <1>5

\* A step that leaves the locks alone keeps them exclusive and their owners.
LEMMA OwnersKept ==
  ASSUME LockExclusion, LocksKept
  PROVE  LockExclusion' /\ lock_owner' = lock_owner
<1>1. \A l \in Locks : Owners(l)' = Owners(l)
  BY DEF LocksKept, Owners
<1>2. lock_owner' = lock_owner
  BY <1>1, OwnerMapped
<1>3. LockExclusion'
  BY <1>1 DEF LockExclusion, LocksKept
<1> QED
  BY <1>2, <1>3

\* A lock's semaphore tells whether the lock has an owner.
LEMMA OwnerValue ==
  ASSUME TypeOK, LockExclusion, NEW l \in Locks
  PROVE  /\ value[l] > 0 => value[l] = 1 /\ Owners(l) = {} /\ holder[l] = None
         /\ \A t \in Owners(l) : Owners(l) = {t} /\ value[l] = 0
<1>1. \/ value[l] = 1 /\ Owners(l) = {}
      \/ value[l] = 0 /\ \E t \in Threads : Owners(l) = {t}
  BY DEF LockExclusion
<1>2. holder[l] \in Threads => holder[l] \in Owners(l)
  BY DEF Owners
<1>3. holder[l] \in Threads \cup {None}
  BY DEF TypeOK
<1> QED
  BY <1>1, <1>2, <1>3

-----------------------------------------------------------------------------
(* The steps.  Each keeps the invariant, wakes sleepers in time, and is a   *)
(* step of the abstract mutex or none.                                      *)
MutexStep == [AbstractMutex!Next]_lock_owner
StepRight == SynchInv' /\ WakesInTime /\ MutexStep

\* The operations of thread.c and timer.c move no thread that is in a call of
\* synch.c.
LEMMA ThreadStepRight ==
  ASSUME SynchInv, ThreadStep
  PROVE  StepRight
<1> DEFINE Own == {"run", "yield", "sleep", "hlt"}
<1>inv. /\ TypeOK /\ ThreadInv /\ CallPoints /\ WaitQueues /\ CondQueues
        /\ NoLostWakeup /\ LockExclusion /\ DonationReturned
  BY DEF SynchInv
<1>type. ThreadTypeOK /\ IdlePoint
  BY <1>inv DEF ThreadInv
<1>cur. cur \in Threads /\ status[cur] = "RUNNING"
  BY CurrentRuns
<1>1. ThreadInv' /\ WakesInTime /\ Suspended' = Suspended
  BY <1>inv, ThreadNextInv DEF ThreadStep, ThreadNext
<1>2. UNCHANGED synchVars
  BY DEF ThreadStep
<1>3. \A t \in Threads : at'[t] # at[t] => at[t] \in Own /\ at'[t] \in Own
  <2>1. CASE TimerInterrupt
    BY <2>1, <1>type, ThreadAssumption DEF TimerInterrupt, ThreadTypeOK, IdlePoint
  <2>2. CASE IdleBlock
    BY <2>2, <1>type DEF IdleBlock, ThreadTypeOK
  <2>3. ASSUME NEW u \in Threads, NEW p \in Priorities, ThreadCreate(u, p)
        PROVE  \A t \in Threads : at'[t] # at[t] => at[t] \in Own /\ at'[t] \in Own
    BY <2>3, <1>type, <1>inv DEF ThreadCreate, Calls, ThreadTypeOK, CallPoints
  <2>4. CASE CreateYield \/ ThreadYieldForSeconds
    BY <2>4, <1>type DEF CreateYield, ThreadYieldForSeconds, ThreadTypeOK
  <2>5. ASSUME NEW n \in SleepArgs, TimerSleep(n)
        PROVE  \A t \in Threads : at'[t] # at[t] => at[t] \in Own /\ at'[t] \in Own
    BY <2>5, <1>type DEF TimerSleep, Calls, ThreadTypeOK
  <2>6. CASE at' = at
    BY <2>6
  <2> QED
    BY <2>1, <2>2, <2>3, <2>4, <2>5, <2>6
       DEF ThreadStep, YieldCall, ThreadExit, ThreadSetPriority
<1>4. ASSUME NEW t \in Threads, status'[t] \in {"FREE", "DYING"}
      PROVE  at'[t] = "run"
  <2>old. t \in Ended(status) => at[t] = "run" /\ t # cur /\ t # Idle
    BY <1>cur, <1>type, <1>inv DEF Ended, CallPoints, IdlePoint
  <2>1. CASE t \in Ended(status)
    <3>1. at'[t] = at[t] \/ at'[t] = "run"
      BY <2>1, <2>old, <1>type
         DEF ThreadStep, TimerInterrupt, IdleBlock, YieldCall, ThreadCreate, CreateYield,
             ThreadExit, ThreadSetPriority, TimerSleep, ThreadYieldForSeconds, ThreadTypeOK
    <3> QED
      BY <2>1, <2>old, <3>1
  <2>2. CASE t \notin Ended(status)
    <3>1. ~(Ended(status') \subseteq Ended(status))
      BY <2>2, <1>4 DEF Ended
    <3>2. ~TimerInterrupt /\ ~IdleBlock /\ ~YieldCall /\ ~CreateYield /\ ~ThreadYieldForSeconds
      BY <3>1, <1>type, YieldEnds, BlockEnds
         DEF TimerInterrupt, IdleBlock, YieldCall, CreateYield, ThreadYieldForSeconds,
             ThreadTypeOK
    <3>3. ~ \E u \in Threads, p \in Priorities : ThreadCreate(u, p)
      BY <3>1, <1>type DEF ThreadCreate, Ended, ThreadTypeOK
    <3>4. ~ \E p \in Priorities : ThreadSetPriority(p)
      BY <3>1, <1>type, YieldEnds DEF ThreadSetPriority, ThreadTypeOK
    <3>5. ~ \E n \in SleepArgs : TimerSleep(n)
      BY <3>1 DEF TimerSleep, schedVars
    <3>6. ThreadExit
      BY <3>2, <3>3, <3>4, <3>5 DEF ThreadStep
    <3> DEFINE st2 == [status EXCEPT ![cur] = "DYING"]
    <3>7. Schedule(st2, ready_list, sleep_list, endTick) /\ Ended(st2) \subseteq Ended(status) \cup {cur}
      BY <3>6, <1>type DEF ThreadExit, Ended, ThreadTypeOK
    <3>8. t \in Ended(status')
      BY <1>4 DEF Ended
    <3> HIDE DEF st2
    <3>9. t = cur
      BY <2>2, <3>7, <3>8, ScheduleEnds
    <3> QED
      BY <3>6, <3>9 DEF ThreadExit, Calls
  <2> QED
    BY <2>1, <2>2
<1>5. TypeOK'
  BY <1>1, <1>2, <1>inv
     DEF TypeOK, ThreadInv, synchVars, semaVars, lockVars, condVars
<1>6. CallPoints'
  BY <1>2, <1>3, <1>4, <1>inv
     DEF CallPoints, CallFits, synchVars, semaVars, lockVars, condVars
<1>7. WaitQueues'
  BY <1>1, <1>2, <1>3, <1>inv, QueuesKept
     DEF WaitQueues, Suspended, synchVars, semaVars
<1>8. CondQueues'
  <2>1. Conds = {} \/ \A c \in Conds : Range(cond_waiters[c]) \subseteq Threads
    BY <1>inv, RangeSeq DEF TypeOK
  <2> QED
    BY <2>1, <1>2, <1>3, <1>inv DEF CondQueues, synchVars, semaVars, condVars
<1>9. NoLostWakeup'
  <2>1. \A s : Woken(s)' = Woken(s)
    BY <1>2, <1>3 DEF Woken, synchVars, semaVars
  <2> QED
    BY <2>1, <1>2, <1>inv DEF NoLostWakeup, synchVars, semaVars
<1>10. LockExclusion' /\ lock_owner' = lock_owner
  <2>1. LocksKept
    BY <1>2, <1>3 DEF LocksKept, synchVars, semaVars, lockVars
  <2> QED
    BY <2>1, <1>inv, OwnersKept
<1>11. DonationReturned'
  <2>1. holder' = holder
    BY <1>2 DEF synchVars, lockVars
  <2>2. ASSUME NEW u \in Threads, NEW p \in Priorities, ThreadCreate(u, p)
        PROVE  DonationReturned'
    BY <2>1, <2>2, <1>type, <1>inv, ThreadAssumption
       DEF ThreadCreate, DonationReturned, ThreadTypeOK, Priorities
  <2>3. ASSUME NEW p \in Priorities, ThreadSetPriority(p)
        PROVE  DonationReturned'
    <3>1. /\ \A t \in Threads : priority[t] \in Int /\ base_priority[t] \in Int
          /\ p \in Int
      BY <1>type, ThreadAssumption DEF ThreadTypeOK, Priorities
    <3>2. /\ priority' = [priority EXCEPT ![cur] =
                            IF @ > base_priority[cur] /\ @ > p THEN @ ELSE p]
          /\ base_priority' = [base_priority EXCEPT ![cur] = p]
      BY <2>3 DEF ThreadSetPriority
    <3>3. \A t \in Threads \ {cur} : priority'[t] = priority[t] /\ base_priority'[t] = base_priority[t]
      BY <3>2, <1>type DEF ThreadTypeOK
    <3>4. /\ base_priority'[cur] = p
          /\ \/ priority'[cur] = p
             \/ priority'[cur] = priority[cur] /\ priority[cur] > base_priority[cur] /\ priority[cur] > p
      BY <3>2, <1>type DEF ThreadTypeOK
    <3>5. base_priority[cur] < priority[cur] => \E l \in Locks : holder[l] = cur
      BY <1>cur, <1>inv DEF DonationReturned
    <3>6. base_priority'[cur] <= priority'[cur]
      BY <3>1, <3>4, <1>cur
    <3>7. base_priority'[cur] < priority'[cur] => \E l \in Locks : holder[l] = cur
      BY <3>1, <3>4, <3>5, <1>cur
    <3> QED
      BY <2>1, <3>3, <3>6, <3>7, <1>inv DEF DonationReturned
  <2>4. CASE UNCHANGED priVars
    BY <2>1, <2>4, <1>inv DEF priVars, DonationReturned
  <2> QED
    BY <2>2, <2>3, <2>4
       DEF ThreadStep, TimerInterrupt, IdleBlock, YieldCall, CreateYield, ThreadExit,
           TimerSleep, ThreadYieldForSeconds
<1> QED
  BY <1>1, <1>5, <1>6, <1>7, <1>8, <1>9, <1>10, <1>11 DEF SynchInv, StepRight, MutexStep

\* A step in which the running thread enters or leaves a call, or goes on to
\* the next part of one, and does nothing else.
LEMMA CallMoves ==
  ASSUME SynchInv, cur # Idle, at[cur] \notin {"yield", "try", "down"},
         NEW p \in Points \ {"try", "cw_release"}, NEW x \in Semas \cup Conds \cup {None},
         at' = [at EXCEPT ![cur] = p], arg' = [arg EXCEPT ![cur] = x],
         tempLock' \in Locks \cup {None},
         UNCHANGED <<schedVars, priVars, ticks, end, semaVars, lockVars, condVars>>,
         CallFits(cur, p, x, monitor[cur]),
         at[cur] \in {"cw_release", "cw_down"} => p = "down" /\ x = cur
  PROVE  StepRight
<1>inv. /\ TypeOK /\ ThreadInv /\ CallPoints /\ WaitQueues /\ CondQueues
        /\ NoLostWakeup /\ LockExclusion /\ DonationReturned
  BY DEF SynchInv
<1>cur. /\ cur \in Threads /\ status[cur] = "RUNNING" /\ cur \notin Suspended
        /\ \A s \in Semas : cur \notin Range(waiters[s])
  BY CurrentRuns
<1>at. /\ at'[cur] = p /\ arg'[cur] = x
       /\ \A t \in Threads \ {cur} : at'[t] = at[t] /\ arg'[t] = arg[t]
       /\ arg' \in [Threads -> Semas \cup Conds \cup {None}]
  BY <1>cur, <1>inv DEF TypeOK, ThreadTypeOK
<1>1. ThreadInv' /\ WakesInTime /\ Suspended' = Suspended
  BY <1>inv, MovesOn
<1>2. TypeOK'
  BY <1>1, <1>at, <1>inv DEF TypeOK, ThreadInv, semaVars, lockVars, condVars
<1>3. CallPoints'
  BY <1>cur, <1>at, <1>inv DEF CallPoints, CallFits, schedVars, lockVars, condVars
<1>4. WaitQueues'
  BY <1>1, <1>cur, <1>at, <1>inv, QueuesKept DEF Suspended, semaVars
<1>5. CondQueues'
  <2>1. \A c \in Conds : Range(cond_waiters[c]) \subseteq Threads
    BY <1>inv, RangeSeq DEF TypeOK
  <2> QED
    BY <2>1, <1>cur, <1>at, <1>inv DEF CondQueues, semaVars, condVars
<1>6. NoLostWakeup'
  <2> SUFFICES ASSUME NEW s \in Semas, waiters'[s] # <<>>
               PROVE  value'[s] <= Cardinality(Woken(s)')
    BY DEF NoLostWakeup
  <2>1. Woken(s) \subseteq Woken(s)'
    BY <1>at DEF Woken, semaVars
  <2>2. waiters[s] # <<>> /\ value'[s] <= value[s]
    BY <1>inv DEF semaVars, TypeOK
  <2> QED
    BY <2>1, <2>2, <1>2, <1>inv, WakeupsKept
<1>7. LockExclusion' /\ lock_owner' = lock_owner
  <2>1. LocksKept
    BY <1>at DEF LocksKept, semaVars, lockVars
  <2> QED
    BY <2>1, <1>inv, OwnersKept
<1>8. DonationReturned'
  BY <1>inv DEF DonationReturned, priVars, lockVars
<1> QED
  BY <1>1, <1>2, <1>3, <1>4, <1>5, <1>6, <1>7, <1>8 DEF SynchInv, StepRight, MutexStep

\* The steps of that kind: the entries of sema_down(), lock_acquire() and the
\* calls of cond_wait(), and the ends of the loops.
LEMMA CallMovesRight ==
  ASSUME SynchInv,
         \/ \E s \in Semaphores : SemaDown(s)
         \/ \E l \in Locks : LockAcquire(l)
         \/ DonateDone \/ CondWaitDown \/ CondWaitAcquire \/ CondBroadcastDone
  PROVE  StepRight
<1>inv. TypeOK /\ CallPoints
  BY DEF SynchInv
<1>cur. cur \in Threads /\ (at[cur] \notin {"run", "hlt"} => cur # Idle)
  BY CurrentRuns
<1>fit. CallFits(cur, at[cur], arg[cur], monitor[cur]) /\ None \notin Semas
  BY <1>cur, <1>inv, SynchAssumption DEF CallPoints, Semas
<1>1. ASSUME NEW s \in Semaphores, SemaDown(s) PROVE StepRight
  <2>1. CallFits(cur, "down", s, monitor[cur]) /\ s \in Semas
    BY SynchAssumption DEF CallFits, Semas
  <2>2. tempLock' \in Locks \cup {None}
    BY <1>1, <1>inv DEF SemaDown, TypeOK
  <2> QED
    BY <1>1, <2>1, <2>2, CallMoves DEF SemaDown, Calls, Points
<1>2. ASSUME NEW l \in Locks, LockAcquire(l) PROVE StepRight
  <2>1. CallFits(cur, "donate", l, monitor[cur]) /\ l \in Semas
    BY DEF CallFits, Semas
  <2> QED
    BY <1>2, <2>1, CallMoves DEF LockAcquire, EnterAcquire, Calls, Points
<1>3. CASE DonateDone
  <2>1. arg[cur] \in Locks /\ CallFits(cur, "down", arg[cur], monitor[cur]) /\ arg[cur] \in Semas
    BY <1>3, <1>fit, SynchAssumption DEF DonateDone, CallFits, Semas
  <2>2. arg' = [arg EXCEPT ![cur] = arg[cur]]
    BY <1>3, <1>inv DEF DonateDone, TypeOK
  <2> QED
    BY <1>3, <2>1, <2>2, <1>cur, CallMoves DEF DonateDone, Points
<1>4. CASE CondWaitDown
  <2>1. CallFits(cur, "down", cur, monitor[cur]) /\ cur \in Semas
    BY <1>4, <1>cur, <1>fit DEF CondWaitDown, CallFits, Semas
  <2>2. tempLock' \in Locks \cup {None}
    BY <1>4, <1>inv DEF CondWaitDown, TypeOK
  <2> QED
    BY <1>4, <2>1, <2>2, <1>cur, CallMoves DEF CondWaitDown, Points
<1>5. CASE CondWaitAcquire
  <2>1. /\ monitor[cur] \in Locks /\ monitor[cur] \in Semas
        /\ CallFits(cur, "donate", monitor[cur], monitor[cur])
    BY <1>5, <1>fit DEF CondWaitAcquire, CallFits, Semas
  <2> QED
    BY <1>5, <2>1, <1>cur, CallMoves DEF CondWaitAcquire, EnterAcquire, Points
<1>6. CASE CondBroadcastDone
  <2>1. CallFits(cur, "run", None, monitor[cur])
    BY DEF CallFits
  <2>2. tempLock' \in Locks \cup {None}
    BY <1>6, <1>inv DEF CondBroadcastDone, TypeOK
  <2> QED
    BY <1>6, <2>1, <2>2, <1>cur, CallMoves DEF CondBroadcastDone, Points
<1> QED
  BY <1>1, <1>2, <1>3, <1>4, <1>5, <1>6

\* sema_try_down() takes a unit of value and nothing else.
LEMMA SemaTryDownRight ==
  ASSUME SynchInv, NEW s \in Semaphores, SemaTryDown(s)
  PROVE  StepRight
<1>inv. /\ TypeOK /\ ThreadInv /\ CallPoints /\ WaitQueues /\ CondQueues
        /\ NoLostWakeup /\ LockExclusion /\ DonationReturned
  BY DEF SynchInv
<1>un. /\ UNCHANGED <<threadVars, waiters, lockVars, condVars, arg, tempLock>>
       /\ value[s] > 0 /\ value' = [value EXCEPT ![s] = @ - 1]
  BY DEF SemaTryDown
<1>val. /\ s \in Semas /\ s \notin Locks /\ s \notin Threads
        /\ value' \in [Semas -> Nat]
        /\ \A u \in Semas \ {s} : value'[u] = value[u]
        /\ value'[s] <= value[s]
  BY <1>un, <1>inv, SynchAssumption DEF Semas, TypeOK
<1>1. ThreadInv' /\ WakesInTime /\ Suspended' = Suspended
  BY <1>un, <1>inv, ThreadNextInv
<1>2. TypeOK'
  BY <1>1, <1>un, <1>val, <1>inv DEF TypeOK, ThreadInv, lockVars, condVars
<1>3. CallPoints'
  BY <1>un, <1>inv DEF CallPoints, threadVars, schedVars, lockVars, condVars
<1>4. WaitQueues'
  BY <1>1, <1>un, <1>inv, QueuesKept DEF threadVars
<1>5. CondQueues'
  <2>1. \A c \in Conds : Range(cond_waiters[c]) \subseteq Threads
    BY <1>inv, RangeSeq DEF TypeOK
  <2> QED
    BY <2>1, <1>un, <1>val, <1>inv DEF CondQueues, condVars, threadVars, Semas
<1>6. NoLostWakeup'
  <2> SUFFICES ASSUME NEW u \in Semas, waiters'[u] # <<>>
               PROVE  value'[u] <= Cardinality(Woken(u)')
    BY DEF NoLostWakeup
  <2>1. Woken(u) \subseteq Woken(u)'
    BY <1>un DEF Woken, threadVars
  <2>2. waiters[u] # <<>> /\ value'[u] <= value[u]
    BY <1>un, <1>val, <1>inv DEF TypeOK
  <2> QED
    BY <2>1, <2>2, <1>2, <1>inv, WakeupsKept
<1>7. LockExclusion' /\ lock_owner' = lock_owner
  <2>1. LocksKept
    BY <1>un, <1>val DEF LocksKept, lockVars, threadVars, Semas
  <2> QED
    BY <2>1, <1>inv, OwnersKept
<1>8. DonationReturned'
  BY <1>un, <1>inv DEF DonationReturned, priVars, lockVars, threadVars
<1> QED
  BY <1>1, <1>2, <1>3, <1>4, <1>5, <1>6, <1>7, <1>8 DEF SynchInv, StepRight, MutexStep

\* sema_down_internal() takes its unit of value; in lock_acquire() the thread
\* becomes the lock's owner.
LEMMA DownTakeRight ==
  ASSUME SynchInv, DownTake
  PROVE  StepRight
<1>def. PICK s, p : s = arg[cur] /\ p = IF s = cur THEN "cw_acquire" ELSE "run"
  OBVIOUS
<1>inv. /\ TypeOK /\ ThreadInv /\ CallPoints /\ WaitQueues /\ CondQueues
        /\ NoLostWakeup /\ LockExclusion /\ DonationReturned
  BY DEF SynchInv
<1>cur. /\ cur \in Threads /\ status[cur] = "RUNNING" /\ cur \notin Suspended
        /\ \A u \in Semas : cur \notin Range(waiters[u])
        /\ cur # Idle /\ at[cur] = "down"
  BY CurrentRuns DEF DownTake
<1>un. /\ UNCHANGED <<schedVars, priVars, ticks, end, waiters, max_waiter_priority,
                      cond_waiters, waiter_priority, tempLock>>
       /\ value[s] > 0 /\ value' = [value EXCEPT ![s] = @ - 1]
       /\ at' = [at EXCEPT ![cur] = p] /\ arg' = [arg EXCEPT ![cur] = None]
  BY <1>def DEF DownTake, Available
<1>s. s \in Semas /\ (s \in Threads => s = cur /\ monitor[cur] \in Locks)
  BY <1>def, <1>cur, <1>inv DEF CallPoints, CallFits
<1>disj. (s \in Locks => s # cur) /\ None \notin Threads
  BY <1>cur, SynchAssumption
<1>val. /\ value' \in [Semas -> Nat]
        /\ \A u \in Semas \ {s} : value'[u] = value[u]
        /\ value'[s] = value[s] - 1
  BY <1>s, <1>un, <1>inv DEF TypeOK
<1>at. /\ p \in Points /\ at'[cur] = p /\ arg'[cur] = None
       /\ \A t \in Threads \ {cur} : at'[t] = at[t] /\ arg'[t] = arg[t]
       /\ arg' \in [Threads -> Semas \cup Conds \cup {None}]
  BY <1>def, <1>cur, <1>un, <1>inv DEF TypeOK, ThreadTypeOK, Points
<1>1. ThreadInv' /\ WakesInTime /\ Suspended' = Suspended
  BY <1>cur, <1>un, <1>at, <1>inv, MovesOn
<1>lock. ASSUME s \in Locks
         PROVE  /\ waiting_lock' = [waiting_lock EXCEPT ![cur] = None]
                /\ holder' = [holder EXCEPT ![s] = cur]
                /\ held_locks' = [held_locks EXCEPT ![cur] = Append(@, s)]
                /\ monitor' = [monitor EXCEPT ![cur] = None]
                /\ value[s] = 1 /\ Owners(s) = {} /\ holder[s] = None
  BY <1>lock, <1>un, <1>inv, OwnerValue, <1>def DEF DownTake
<1>sema. s \notin Locks => UNCHANGED <<waiting_lock, holder, held_locks, monitor>>
  BY <1>def DEF DownTake
<1>held. ASSUME s \in Locks
         PROVE  /\ Append(held_locks[cur], s) \in Seq(Locks)
                /\ IsInjective(Append(held_locks[cur], s))
                /\ Range(Append(held_locks[cur], s)) = Range(held_locks[cur]) \cup {s}
  <2>1. held_locks[cur] \in Seq(Locks) /\ IsInjective(held_locks[cur])
    BY <1>cur, <1>inv DEF TypeOK, LockExclusion
  <2>2. s \notin Range(held_locks[cur])
    BY <1>cur, <1>held, <1>lock, <1>disj, <1>inv DEF LockExclusion
  <2> QED
    BY <2>1, <2>2, <1>held, AppendList
<1>2. TypeOK'
  <2>1. /\ waiting_lock' \in [Threads -> Locks \cup {None}]
        /\ holder' \in [Locks -> Threads \cup {None}]
        /\ held_locks' \in [Threads -> Seq(Locks)]
        /\ monitor' \in [Threads -> Locks \cup {None}]
    <3>1. CASE s \in Locks
      <4>1. held_locks' = [held_locks EXCEPT ![cur] = Append(held_locks[cur], s)]
        BY <3>1, <1>lock
      <4>2. held_locks' \in [Threads -> Seq(Locks)]
        BY <3>1, <4>1, <1>cur, <1>held, <1>inv DEF TypeOK
      <4> QED
        BY <3>1, <4>2, <1>cur, <1>lock, <1>inv DEF TypeOK
    <3>2. CASE s \notin Locks
      BY <3>2, <1>sema, <1>inv DEF TypeOK
    <3> QED
      BY <3>1, <3>2
  <2> QED
    BY <2>1, <1>1, <1>un, <1>val, <1>at, <1>inv DEF TypeOK, ThreadInv
<1>3. CallPoints'
  <2>1. ASSUME NEW t \in Threads \ {cur}
        PROVE  /\ CallFits(t, at'[t], arg'[t], monitor'[t])
               /\ at'[t] = "cw_release" => holder'[monitor'[t]] = t
               /\ status'[t] \in {"FREE", "DYING"} => at'[t] = "run"
    <3>1. monitor'[t] = monitor[t]
      BY <1>lock, <1>sema, <1>inv DEF TypeOK
    <3>2. /\ CallFits(t, at[t], arg[t], monitor[t])
          /\ at[t] = "cw_release" => holder[monitor[t]] = t /\ monitor[t] \in Locks
      BY <1>inv DEF CallPoints, CallFits
    <3>3. at[t] = "cw_release" => holder'[monitor[t]] = t
      <4>1. CASE s \in Locks
        BY <4>1, <3>2, <1>lock, <1>disj, <1>inv DEF TypeOK
      <4>2. CASE s \notin Locks
        BY <4>2, <3>2, <1>sema
      <4> QED
        BY <4>1, <4>2
    <3> QED
      BY <3>1, <3>2, <3>3, <1>at, <1>un, <1>inv DEF CallPoints, schedVars
  <2>2. CallFits(cur, at'[cur], arg'[cur], monitor'[cur]) /\ at'[cur] \in {"run", "cw_acquire"}
    BY <1>cur, <1>s, <1>at, <1>sema, <1>disj, <1>def DEF CallFits
  <2>3. status'[cur] = "RUNNING"
    BY <1>cur, <1>un DEF schedVars
  <2> QED
    BY <2>1, <2>2, <2>3 DEF CallPoints
<1>4. WaitQueues'
  BY <1>1, <1>cur, <1>at, <1>un, <1>inv, QueuesKept DEF Suspended
<1>5. CondQueues'
  <2>1. \A c \in Conds : Range(cond_waiters[c]) \subseteq Threads
    BY <1>inv, RangeSeq DEF TypeOK
  <2>2. ASSUME NEW c \in Conds, NEW t \in Range(cond_waiters[c])
        PROVE  t # cur /\ value'[t] = value[t]
    <3>1. t \in Threads /\ t \in Semas /\ value[t] = 0
      BY <2>1, <2>2, <1>inv DEF CondQueues, Semas
    <3>2. t # cur
      <4>1. CASE t = cur
        BY <4>1, <2>2, <3>1, <1>cur, <1>un, <1>inv, <1>def DEF CondQueues
      <4> QED
        BY <4>1
    <3> QED
      BY <3>1, <3>2, <1>s, <1>val
  <2> QED
    BY <2>1, <2>2, <1>at, <1>un, <1>inv DEF CondQueues
<1>6. NoLostWakeup'
  <2> SUFFICES ASSUME NEW u \in Semas, waiters'[u] # <<>>
               PROVE  value'[u] <= Cardinality(Woken(u)')
    BY DEF NoLostWakeup
  <2>1. waiters[u] # <<>>
    BY <1>un
  <2>2. CASE u # s
    <3>1. Woken(u) \subseteq Woken(u)'
      BY <2>2, <1>cur, <1>at, <1>un, <1>def DEF Woken
    <3>2. value'[u] <= value[u]
      BY <2>2, <1>val, <1>inv DEF TypeOK
    <3> QED
      BY <2>1, <3>1, <3>2, <1>2, <1>inv, WakeupsKept
  <2>3. CASE u = s
    <3>1. cur \in Woken(s) /\ Woken(s)' = Woken(s) \ {cur}
      BY <1>cur, <1>s, <1>at, <1>un, <1>def DEF Woken
    <3>2. Cardinality(Woken(s)') = Cardinality(Woken(s)) - 1
      BY <3>1, WokenFinite, FS_RemoveElement
    <3>3. value[s] <= Cardinality(Woken(s)) /\ value[s] \in Nat
      BY <2>1, <2>3, <1>inv DEF NoLostWakeup, TypeOK
    <3> QED
      BY <2>3, <3>2, <3>3, <1>val, WokenFinite
  <2> QED
    BY <2>2, <2>3
<1>7. LockExclusion' /\ MutexStep
  <2>1. CASE s \notin Locks
    <3>1. LocksKept
      BY <2>1, <1>cur, <1>at, <1>sema, <1>val, <1>def DEF LocksKept, Semas
    <3> QED
      BY <3>1, <1>inv, OwnersKept DEF MutexStep
  <2>2. CASE s \in Locks
    <3>1. Owners(s)' = {cur}
      <4>1. holder'[s] = cur
        BY <2>2, <1>lock, <1>inv DEF TypeOK
      <4>2. \A t \in Threads : ~(at[t] = "try" /\ arg[t] = s)
        BY <2>2, <1>lock DEF Owners
      <4>3. \A t \in Threads : ~(at'[t] = "try" /\ arg'[t] = s)
        BY <2>2, <4>2, <1>at, <1>def
      <4> QED
        BY <4>1, <4>3, <1>cur DEF Owners
    <3>2. \A k \in Locks \ {s} : Owners(k)' = Owners(k)
      BY <2>2, <1>cur, <1>lock, <1>at, <1>inv, <1>def DEF Owners, TypeOK
    <3>3. value'[s] = 0
      BY <2>2, <1>lock, <1>val
    <3>4. \A l \in Locks :
            \/ value'[l] = 1 /\ Owners(l)' = {}
            \/ value'[l] = 0 /\ \E t \in Threads : Owners(l)' = {t}
      BY <3>1, <3>2, <3>3, <1>cur, <1>val, <1>inv DEF LockExclusion, Semas
    <3>5. ASSUME NEW t \in Threads
          PROVE  /\ IsInjective(held_locks'[t])
                 /\ \A l \in Range(held_locks'[t]) : holder'[l] = t
      <4>1. held_locks[t] \in Seq(Locks) /\ Range(held_locks[t]) \subseteq Locks
        BY <1>inv, RangeSeq DEF TypeOK
      <4>2. \A l \in Range(held_locks[t]) : l # s
        BY <2>2, <1>lock, <1>disj, <1>inv DEF LockExclusion
      <4>3. /\ held_locks'[t] = IF t = cur THEN Append(held_locks[cur], s) ELSE held_locks[t]
            /\ holder'[s] = cur
            /\ \A l \in Locks \ {s} : holder'[l] = holder[l]
        BY <2>2, <1>lock, <1>inv DEF TypeOK
      <4>4. IsInjective(held_locks[t]) /\ \A l \in Range(held_locks[t]) : holder[l] = t
        BY <1>inv DEF LockExclusion
      <4>5. CASE t = cur
        BY <2>2, <4>1, <4>2, <4>5, <4>3, <4>4, <1>held
      <4>6. CASE t # cur
        BY <4>1, <4>2, <4>6, <4>3, <4>4
      <4> QED
        BY <4>5, <4>6
    <3>6. AbstractMutex!Acquire(cur, s)
      BY <2>2, <3>1, <3>2, <1>cur, <1>lock, OwnerMapped
    <3> QED
      BY <2>2, <3>4, <3>5, <3>6, <1>cur DEF LockExclusion, MutexStep, AbstractMutex!Next
  <2> QED
    BY <2>1, <2>2
<1>8. DonationReturned'
  <2>1. \A t \in Threads : (\E l \in Locks : holder[l] = t) => (\E l \in Locks : holder'[l] = t)
    BY <1>lock, <1>sema, <1>disj, <1>inv DEF TypeOK
  <2> QED
    BY <2>1, <1>un, <1>inv DEF DonationReturned, priVars
<1> QED
  BY <1>1, <1>2, <1>3, <1>4, <1>5, <1>6, <1>7, <1>8 DEF SynchInv, StepRight

\* lock_try_acquire() takes the semaphore: from there on the thread owns the
\* lock, although the lock does not know its holder yet.
LEMMA LockTryAcquireRight ==
  ASSUME SynchInv, NEW l \in Locks, LockTryAcquire(l)
  PROVE  StepRight
<1>inv. /\ TypeOK /\ ThreadInv /\ CallPoints /\ WaitQueues /\ CondQueues
        /\ NoLostWakeup /\ LockExclusion /\ DonationReturned
  BY DEF SynchInv
<1>un. /\ UNCHANGED <<schedVars, priVars, ticks, end, waiters, lockVars, condVars, tempLock>>
       /\ value[l] > 0 /\ value' = [value EXCEPT ![l] = @ - 1]
       /\ at' = [at EXCEPT ![cur] = "try"] /\ arg' = [arg EXCEPT ![cur] = l]
  BY DEF LockTryAcquire
<1>cur. /\ cur \in Threads /\ status[cur] = "RUNNING" /\ cur \notin Suspended
        /\ cur # Idle /\ at[cur] = "run"
  BY CurrentRuns DEF LockTryAcquire, Calls
<1>free. value[l] = 1 /\ Owners(l) = {} /\ holder[l] = None
  BY <1>un, <1>inv, OwnerValue
<1>val. /\ l \in Semas /\ l \notin Threads /\ None \notin Threads
        /\ value' \in [Semas -> Nat] /\ value'[l] = 0
        /\ \A u \in Semas \ {l} : value'[u] = value[u]
  BY <1>un, <1>free, <1>inv, SynchAssumption DEF Semas, TypeOK
<1>at. /\ "try" \in Points /\ at'[cur] = "try" /\ arg'[cur] = l
       /\ \A t \in Threads \ {cur} : at'[t] = at[t] /\ arg'[t] = arg[t]
       /\ arg' \in [Threads -> Semas \cup Conds \cup {None}]
  BY <1>cur, <1>un, <1>val, <1>inv DEF TypeOK, ThreadTypeOK, Points
<1>1. ThreadInv' /\ WakesInTime /\ Suspended' = Suspended
  BY <1>cur, <1>un, <1>at, <1>inv, MovesOn
<1>2. TypeOK'
  BY <1>1, <1>un, <1>val, <1>at, <1>inv DEF TypeOK, ThreadInv, lockVars, condVars
<1>3. CallPoints'
  BY <1>un, <1>cur, <1>at, <1>inv DEF CallPoints, CallFits, schedVars, lockVars, condVars
<1>4. WaitQueues'
  BY <1>1, <1>cur, <1>un, <1>at, <1>inv, QueuesKept DEF Suspended
<1>5. CondQueues'
  <2>1. \A c \in Conds : Range(cond_waiters[c]) \subseteq Threads
    BY <1>inv, RangeSeq DEF TypeOK
  <2> QED
    BY <2>1, <1>un, <1>cur, <1>at, <1>val, <1>inv DEF CondQueues, condVars, Semas
<1>6. NoLostWakeup'
  <2> SUFFICES ASSUME NEW u \in Semas, waiters'[u] # <<>>
               PROVE  value'[u] <= Cardinality(Woken(u)')
    BY DEF NoLostWakeup
  <2>1. Woken(u) \subseteq Woken(u)'
    BY <1>cur, <1>at, <1>un DEF Woken
  <2>2. waiters[u] # <<>> /\ value'[u] <= value[u]
    BY <1>un, <1>val, <1>free, <1>inv DEF TypeOK
  <2> QED
    BY <2>1, <2>2, <1>2, <1>inv, WakeupsKept
<1>7. LockExclusion' /\ MutexStep
  <2>1. holder' = holder /\ held_locks' = held_locks
    BY <1>un DEF lockVars
  <2>2. Owners(l)' = {cur}
    <3>1. \A t \in Threads : ~(at[t] = "try" /\ arg[t] = l)
      BY <1>free DEF Owners
    <3> QED
      BY <2>1, <3>1, <1>free, <1>at, <1>cur, <1>val DEF Owners
  <2>3. \A k \in Locks \ {l} : Owners(k)' = Owners(k)
    BY <2>1, <1>cur, <1>at DEF Owners
  <2>4. \A k \in Locks :
          \/ value'[k] = 1 /\ Owners(k)' = {}
          \/ value'[k] = 0 /\ \E t \in Threads : Owners(k)' = {t}
    BY <2>2, <2>3, <1>cur, <1>val, <1>inv DEF LockExclusion, Semas
  <2>5. AbstractMutex!Acquire(cur, l)
    BY <2>2, <2>3, <1>cur, <1>free, OwnerMapped
  <2> QED
    BY <2>1, <2>4, <2>5, <1>cur, <1>inv DEF LockExclusion, MutexStep, AbstractMutex!Next
<1>8. DonationReturned'
  BY <1>un, <1>inv DEF DonationReturned, priVars, lockVars
<1> QED
  BY <1>1, <1>2, <1>3, <1>4, <1>5, <1>6, <1>7, <1>8 DEF SynchInv, StepRight

\* lock_try_acquire() records the holder, which the thread is already.
LEMMA TrySetHolderRight ==
  ASSUME SynchInv, TrySetHolder
  PROVE  StepRight
<1>inv. /\ TypeOK /\ ThreadInv /\ CallPoints /\ WaitQueues /\ CondQueues
        /\ NoLostWakeup /\ LockExclusion /\ DonationReturned
  BY DEF SynchInv
<1>def. PICK l : l = arg[cur]
  OBVIOUS
<1>un. /\ UNCHANGED <<schedVars, priVars, ticks, end, semaVars, max_waiter_priority,
                      held_locks, waiting_lock, condVars, tempLock>>
       /\ at' = [at EXCEPT ![cur] = "run"] /\ arg' = [arg EXCEPT ![cur] = None]
       /\ holder' = [holder EXCEPT ![l] = cur]
  BY <1>def DEF TrySetHolder
<1>cur. /\ cur \in Threads /\ status[cur] = "RUNNING" /\ cur \notin Suspended
        /\ cur # Idle /\ at[cur] = "try"
  BY CurrentRuns DEF TrySetHolder
<1>own. /\ l \in Locks /\ Owners(l) = {cur} /\ value[l] = 0
        /\ None \notin Threads /\ None \notin Locks
        /\ \A t \in Threads : holder[l] = t => t = cur
  <2>1. l \in Locks
    BY <1>cur, <1>inv, <1>def DEF CallPoints, CallFits
  <2>2. cur \in Owners(l)
    BY <1>cur, <1>def DEF Owners
  <2>3. Owners(l) = {cur} /\ value[l] = 0
    BY <2>1, <2>2, <1>inv, OwnerValue
  <2> QED
    BY <2>1, <2>3, SynchAssumption DEF Owners
<1>at. /\ "run" \in Points /\ at'[cur] = "run" /\ arg'[cur] = None
       /\ \A t \in Threads \ {cur} : at'[t] = at[t] /\ arg'[t] = arg[t]
       /\ arg' \in [Threads -> Semas \cup Conds \cup {None}]
  BY <1>cur, <1>un, <1>inv DEF TypeOK, ThreadTypeOK, Points
<1>hold. /\ holder' \in [Locks -> Threads \cup {None}] /\ holder'[l] = cur
         /\ \A k \in Locks \ {l} : holder'[k] = holder[k]
  BY <1>cur, <1>un, <1>own, <1>inv DEF TypeOK
<1>1. ThreadInv' /\ WakesInTime /\ Suspended' = Suspended
  BY <1>cur, <1>un, <1>at, <1>inv, MovesOn
<1>2. TypeOK'
  BY <1>1, <1>un, <1>hold, <1>at, <1>inv DEF TypeOK, ThreadInv, semaVars, condVars
<1>3. CallPoints'
  <2>1. \A t \in Threads \ {cur} : at[t] = "cw_release" => holder'[monitor[t]] = t
    BY <1>own, <1>hold, <1>inv DEF CallPoints, CallFits
  <2> QED
    BY <2>1, <1>un, <1>cur, <1>at, <1>inv DEF CallPoints, CallFits, schedVars, condVars
<1>4. WaitQueues'
  BY <1>1, <1>cur, <1>un, <1>at, <1>inv, QueuesKept DEF Suspended, semaVars
<1>5. CondQueues'
  <2>1. \A c \in Conds : Range(cond_waiters[c]) \subseteq Threads
    BY <1>inv, RangeSeq DEF TypeOK
  <2> QED
    BY <2>1, <1>un, <1>cur, <1>at, <1>inv DEF CondQueues, condVars, semaVars
<1>6. NoLostWakeup'
  <2> SUFFICES ASSUME NEW u \in Semas, waiters'[u] # <<>>
               PROVE  value'[u] <= Cardinality(Woken(u)')
    BY DEF NoLostWakeup
  <2>1. Woken(u) \subseteq Woken(u)'
    BY <1>cur, <1>at, <1>un DEF Woken, semaVars
  <2>2. waiters[u] # <<>> /\ value'[u] <= value[u]
    BY <1>un, <1>inv DEF TypeOK, semaVars
  <2> QED
    BY <2>1, <2>2, <1>2, <1>inv, WakeupsKept
<1>7. LockExclusion' /\ lock_owner' = lock_owner
  <2>1. Owners(l)' = {cur}
    <3>1. \A t \in Threads : at[t] = "try" /\ arg[t] = l => t = cur
      BY <1>own DEF Owners
    <3> QED
      BY <3>1, <1>cur, <1>at, <1>hold, <1>own DEF Owners
  <2>2. \A k \in Locks \ {l} : Owners(k)' = Owners(k)
    BY <1>cur, <1>at, <1>hold, <1>def, <1>own DEF Owners
  <2>3. \A k \in Locks : Owners(k)' = Owners(k)
    BY <2>1, <2>2, <1>own
  <2>4. ASSUME NEW t \in Threads
        PROVE  /\ IsInjective(held_locks'[t])
               /\ \A k \in Range(held_locks'[t]) : holder'[k] = t
    <3>1. /\ IsInjective(held_locks[t]) /\ Range(held_locks[t]) \subseteq Locks
          /\ \A k \in Range(held_locks[t]) : holder[k] = t
      BY <1>inv, RangeSeq DEF LockExclusion, TypeOK
    <3> QED
      BY <3>1, <1>un, <1>hold, <1>own
  <2>5. LockExclusion'
    BY <2>3, <2>4, <1>un, <1>inv DEF LockExclusion, semaVars
  <2> QED
    BY <2>3, <2>5, OwnerMapped
<1>8. DonationReturned'
  <2>1. \A t \in Threads : (\E k \in Locks : holder[k] = t) => (\E k \in Locks : holder'[k] = t)
    BY <1>hold, <1>own
  <2> QED
    BY <2>1, <1>un, <1>inv DEF DonationReturned, priVars
<1> QED
  BY <1>1, <1>2, <1>3, <1>4, <1>5, <1>6, <1>7, <1>8 DEF SynchInv, StepRight, MutexStep

\* A round of lock_acquire()'s donation loop raises the holder to the priority
\* of the running thread, and no further.
LEMMA DonateRaiseRight ==
  ASSUME SynchInv, DonateRaise
  PROVE  StepRight
<1>inv. /\ TypeOK /\ ThreadInv /\ CallPoints /\ WaitQueues /\ CondQueues
        /\ NoLostWakeup /\ LockExclusion /\ DonationReturned
  BY DEF SynchInv
<1>def. PICK l, h : l = tempLock /\ h = holder[tempLock]
  OBVIOUS
<1>un. /\ UNCHANGED <<schedVars, base_priority, ticks, at, end, semaVars, holder,
                      held_locks, waiting_lock, condVars, arg>>
       /\ max_waiter_priority' = [max_waiter_priority EXCEPT ![l] = priority[cur]]
       /\ priority' = [priority EXCEPT ![h] = priority[cur]]
       /\ tempLock' = waiting_lock[h]
       /\ priority[h] < priority[cur] /\ at[cur] = "donate"
  BY <1>def DEF DonateRaise
<1>h. l \in Locks /\ h \in Threads /\ holder[l] = h
  BY <1>def, <1>inv DEF DonateRaise, TypeOK
<1>pri. /\ cur \in Threads /\ h # cur
        /\ \A t \in Threads : priority[t] \in Int /\ base_priority[t] \in Int
        /\ priority' \in [Threads -> Priorities]
        /\ priority'[h] = priority[cur]
        /\ \A t \in Threads \ {h} : priority'[t] = priority[t]
  <2>1. cur \in Threads /\ priority \in [Threads -> Priorities] /\ base_priority \in [Threads -> Priorities]
    BY <1>inv DEF TypeOK, ThreadTypeOK
  <2>2. Priorities \subseteq Int
    BY ThreadAssumption DEF Priorities
  <2>3. h # cur
    <3>1. priority[cur] \in Int /\ priority[h] < priority[cur]
      BY <2>1, <2>2, <1>un
    <3>2. CASE h = cur
      BY <3>1, <3>2
    <3> QED
      BY <3>2
  <2> QED
    BY <2>1, <2>2, <2>3, <1>un, <1>h
<1>1. ThreadInv' /\ WakesInTime /\ Suspended' = Suspended
  <2>1. ThreadTypeOK'
    BY <1>pri, <1>un, <1>inv DEF TypeOK, ThreadTypeOK, schedVars
  <2>2. /\ ListsMatchStatus' /\ SleepersTimed' /\ AlarmBound' /\ IdlePoint' /\ WakesInTime
        /\ Suspended' = Suspended
    BY <1>un, <1>inv DEF ThreadInv, ListsMatchStatus, SleepersTimed, AlarmBound, IdlePoint,
                         WakesInTime, Suspended, schedVars
  <2>3. RunsHighest'
    <3>1. ready_list' = ready_list /\ cur' = cur /\ Range(ready_list) \subseteq Threads
      BY <1>un, <1>inv, RangeSeq DEF schedVars, TypeOK, ThreadTypeOK
    <3>2. /\ \A t \in Range(ready_list) : priority[t] <= priority[cur]
          /\ cur = Idle => ready_list = <<>>
      BY <1>un, <1>inv DEF ThreadInv, RunsHighest
    <3> QED
      BY <3>1, <3>2, <1>pri DEF RunsHighest
  <2> QED
    BY <2>1, <2>2, <2>3 DEF ThreadInv
<1>2. TypeOK'
  <2>1. /\ max_waiter_priority' \in [Locks -> Priorities \cup {-1}]
        /\ tempLock' \in Locks \cup {None}
    BY <1>un, <1>h, <1>pri, <1>inv DEF TypeOK, ThreadTypeOK
  <2> QED
    BY <2>1, <1>1, <1>un, <1>inv DEF TypeOK, ThreadInv, semaVars, condVars
<1>3. CallPoints'
  BY <1>un, <1>inv DEF CallPoints, schedVars, condVars
<1>4. WaitQueues'
  BY <1>1, <1>un, <1>inv, QueuesKept DEF semaVars
<1>5. CondQueues'
  BY <1>un, <1>inv DEF CondQueues, condVars, semaVars
<1>6. NoLostWakeup'
  <2>1. \A s : Woken(s)' = Woken(s)
    BY <1>un DEF Woken, semaVars
  <2> QED
    BY <2>1, <1>un, <1>inv DEF NoLostWakeup, semaVars
<1>7. LockExclusion' /\ lock_owner' = lock_owner
  <2>1. LocksKept
    BY <1>un DEF LocksKept, semaVars
  <2> QED
    BY <2>1, <1>inv, OwnersKept
<1>8. DonationReturned'
  <2> SUFFICES ASSUME NEW t \in Threads
               PROVE  /\ base_priority[t] <= priority'[t]
                      /\ base_priority[t] < priority'[t] => \E k \in Locks : holder[k] = t
    BY <1>un DEF DonationReturned
  <2>1. base_priority[t] <= priority[t]
    BY <1>inv DEF DonationReturned
  <2>2. CASE t = h
    BY <2>1, <2>2, <1>h, <1>pri, <1>un
  <2>3. CASE t # h
    BY <2>1, <2>3, <1>pri, <1>inv DEF DonationReturned
  <2> QED
    BY <2>2, <2>3
<1> QED
  BY <1>1, <1>2, <1>3, <1>4, <1>5, <1>6, <1>7, <1>8 DEF SynchInv, StepRight, MutexStep

\* cond_wait() queues its semaphore_elem.  Nobody can be waiting on that
\* semaphore, as it is new: the reset of its list loses nobody.
LEMMA CondWaitRight ==
  ASSUME SynchInv, NEW c \in Conds, CondWait(c)
  PROVE  StepRight
<1>inv. /\ TypeOK /\ ThreadInv /\ CallPoints /\ WaitQueues /\ CondQueues
        /\ NoLostWakeup /\ LockExclusion /\ DonationReturned
  BY DEF SynchInv
<1>un. /\ UNCHANGED <<schedVars, priVars, ticks, end, lockVars, arg, tempLock>>
       /\ value' = [value EXCEPT ![cur] = 0]
       /\ waiters' = [waiters EXCEPT ![cur] = <<>>]
       /\ waiter_priority' = [waiter_priority EXCEPT ![cur] = priority[cur]]
       /\ cond_waiters' = [cond_waiters EXCEPT ![c] = Append(cond_waiters[c], cur)]
       /\ monitor' = [monitor EXCEPT ![cur] = LockOf[c]]
       /\ at' = [at EXCEPT ![cur] = "cw_release"]
       /\ holder[LockOf[c]] = cur
  BY DEF CondWait
<1>cur. /\ cur \in Threads /\ status[cur] = "RUNNING" /\ cur \notin Suspended
        /\ \A s \in Semas : cur \notin Range(waiters[s])
        /\ cur # Idle /\ at[cur] = "run"
  BY CurrentRuns DEF CondWait, Calls
<1>cons. LockOf[c] \in Locks /\ cur \in Semas /\ cur \notin Locks
  BY <1>cur, SynchAssumption DEF Semas
<1>val. /\ value' \in [Semas -> Nat] /\ value'[cur] = 0
        /\ \A u \in Semas \ {cur} : value'[u] = value[u] /\ waiters'[u] = waiters[u]
        /\ waiters' \in [Semas -> Seq(Threads)] /\ waiters'[cur] = <<>>
  BY <1>un, <1>cons, <1>inv, EmptySeq DEF TypeOK
<1>at. /\ "cw_release" \in Points /\ at'[cur] = "cw_release"
       /\ \A t \in Threads \ {cur} : at'[t] = at[t] /\ monitor'[t] = monitor[t]
       /\ monitor' \in [Threads -> Locks \cup {None}] /\ monitor'[cur] = LockOf[c]
  BY <1>cur, <1>cons, <1>un, <1>inv DEF TypeOK, ThreadTypeOK, Points
<1>out. \A d \in Conds : cur \notin Range(cond_waiters[d])
  BY <1>cur, <1>inv DEF CondQueues
<1>que. /\ cond_waiters' \in [Conds -> Seq(Threads)]
        /\ IsInjective(cond_waiters'[c])
        /\ Range(cond_waiters'[c]) = Range(cond_waiters[c]) \cup {cur}
        /\ \A d \in Conds \ {c} : cond_waiters'[d] = cond_waiters[d]
  <2>1. /\ Append(cond_waiters[c], cur) \in Seq(Threads)
        /\ IsInjective(Append(cond_waiters[c], cur))
        /\ Range(Append(cond_waiters[c], cur)) = Range(cond_waiters[c]) \cup {cur}
    BY <1>cur, <1>out, <1>inv, AppendList DEF CondQueues, TypeOK
  <2> QED
    BY <2>1, <1>un, <1>inv DEF TypeOK
<1>1. ThreadInv' /\ WakesInTime /\ Suspended' = Suspended
  BY <1>cur, <1>un, <1>at, <1>inv, MovesOn
<1>2. TypeOK'
  <2>1. waiter_priority' \in [Threads -> Priorities]
    BY <1>un, <1>cur, <1>inv DEF TypeOK, ThreadTypeOK
  <2> QED
    BY <2>1, <1>1, <1>un, <1>val, <1>at, <1>que, <1>inv DEF TypeOK, ThreadInv, lockVars
<1>3. CallPoints'
  BY <1>un, <1>cur, <1>cons, <1>at, <1>inv DEF CallPoints, CallFits, schedVars, lockVars
<1>4. WaitQueues'
  <2>1. Range(waiters[cur]) = {}
    <3>1. ASSUME NEW t \in Range(waiters[cur]) PROVE FALSE
      <4>1. t \in Threads /\ at[t] = "down" /\ arg[t] = cur
        BY <3>1, <1>cons, <1>inv DEF WaitQueues, Suspended
      <4>2. t = cur
        BY <4>1, <1>cur, <1>inv DEF CallPoints, CallFits
      <4> QED
        BY <3>1, <4>2, <1>cur, <1>cons
    <3> QED
      BY <3>1
  <2>2. Range(<<>>) = {} /\ IsInjective(<<>>)
    BY DEF Range, IsInjective
  <2>3. \A s \in Semas : IsInjective(waiters'[s]) /\ Range(waiters'[s]) = Range(waiters[s])
    BY <2>1, <2>2, <1>val, <1>inv DEF WaitQueues
  <2>4. \A t \in Suspended : t \in Threads \ {cur} /\ at[t] = "down" /\ arg[t] \in Semas
    BY <1>cur, <1>inv DEF WaitQueues, Suspended, CallPoints, CallFits
  <2> QED
    BY <2>3, <2>4, <1>1, <1>un, <1>at, <1>inv DEF WaitQueues
<1>5. CondQueues'
  <2>1. \A d \in Conds : Range(cond_waiters[d]) \subseteq Threads
    BY <1>inv, RangeSeq DEF TypeOK
  <2>2. ASSUME NEW d \in Conds, NEW t \in Range(cond_waiters'[d]), t # cur
        PROVE  /\ t \in Range(cond_waiters[d]) /\ t \in Threads /\ t \in Semas
               /\ at'[t] = at[t] /\ arg'[t] = arg[t] /\ value'[t] = value[t]
    BY <2>1, <2>2, <1>que, <1>at, <1>un, <1>val DEF Semas
  <2>3. ASSUME NEW d \in Conds, cur \in Range(cond_waiters'[d]) PROVE d = c
    BY <2>3, <1>que, <1>out
  <2>4. ASSUME NEW d \in Conds PROVE IsInjective(cond_waiters'[d])
    BY <1>que, <1>inv DEF CondQueues
  <2>5. ASSUME NEW d \in Conds, NEW t \in Range(cond_waiters'[d])
        PROVE  /\ value'[t] = 0
               /\ \/ at'[t] \in {"cw_release", "cw_down"}
                  \/ at'[t] = "down" /\ arg'[t] = t
               /\ \A e \in Conds : t \in Range(cond_waiters'[e]) => e = d
    <3>1. CASE t = cur
      BY <2>3, <2>5, <3>1, <1>at, <1>val
    <3>2. CASE t # cur
      BY <2>2, <2>5, <3>2, <1>inv DEF CondQueues
    <3> QED
      BY <3>1, <3>2
  <2> QED
    BY <2>4, <2>5 DEF CondQueues
<1>6. NoLostWakeup'
  <2> SUFFICES ASSUME NEW u \in Semas, waiters'[u] # <<>>
               PROVE  value'[u] <= Cardinality(Woken(u)')
    BY DEF NoLostWakeup
  <2>1. u # cur
    BY <1>val
  <2>2. Woken(u) \subseteq Woken(u)'
    BY <2>1, <1>cur, <1>at, <1>un, <1>val DEF Woken
  <2>3. waiters[u] # <<>> /\ value'[u] <= value[u]
    BY <2>1, <1>val, <1>inv DEF TypeOK
  <2> QED
    BY <2>2, <2>3, <1>2, <1>inv, WakeupsKept
<1>7. LockExclusion' /\ lock_owner' = lock_owner
  <2>1. LocksKept
    BY <1>un, <1>cur, <1>cons, <1>at, <1>val DEF LocksKept, lockVars, Semas
  <2> QED
    BY <2>1, <1>inv, OwnersKept
<1>8. DonationReturned'
  BY <1>un, <1>inv DEF DonationReturned, priVars, lockVars
<1> QED
  BY <1>1, <1>2, <1>3, <1>4, <1>5, <1>6, <1>7, <1>8 DEF SynchInv, StepRight, MutexStep

\* sema_down_internal() finds the value 0: the thread enters the waiters list
\* and blocks, in one step.
LEMMA DownWaitRight ==
  ASSUME SynchInv, DownWait
  PROVE  StepRight
<1>inv. /\ TypeOK /\ ThreadInv /\ CallPoints /\ WaitQueues /\ CondQueues
        /\ NoLostWakeup /\ LockExclusion /\ DonationReturned
  BY DEF SynchInv
<1>def. PICK s, me : s = arg[cur] /\ me = cur
  OBVIOUS
<1>cur. /\ me \in Threads /\ status[me] = "RUNNING" /\ me \notin Suspended
        /\ \A u \in Semas : me \notin Range(waiters[u])
        /\ me # Idle /\ at[me] = "down"
  BY <1>def, CurrentRuns DEF DownWait
<1>un. /\ UNCHANGED <<priVars, ticks, at, end, value, holder, held_locks, condVars,
                      arg, tempLock>>
       /\ value[s] = 0
       /\ waiters' = [waiters EXCEPT ![s] = Append(waiters[s], me)]
       /\ ThreadBlock(sleep_list, endTick)
  BY <1>def DEF DownWait
<1>s. s \in Semas
  BY <1>def, <1>cur, <1>inv DEF CallPoints, CallFits
<1>1. ThreadInv' /\ WakesInTime /\ Suspended' = Suspended \cup {me}
  BY <1>def, <1>cur, <1>un, <1>inv, BlockInv
     DEF TypeOK, ThreadTypeOK, ThreadInv, IdlePoint, priVars
<1>end. Ended(status') \subseteq Ended(status)
  BY <1>un, <1>inv, BlockEnds DEF TypeOK, ThreadTypeOK
<1>que. /\ waiters' \in [Semas -> Seq(Threads)]
        /\ IsInjective(waiters'[s])
        /\ Range(waiters'[s]) = Range(waiters[s]) \cup {me}
        /\ \A u \in Semas \ {s} : waiters'[u] = waiters[u]
  <2>1. /\ Append(waiters[s], me) \in Seq(Threads)
        /\ IsInjective(Append(waiters[s], me))
        /\ Range(Append(waiters[s], me)) = Range(waiters[s]) \cup {me}
    BY <1>cur, <1>s, <1>inv, AppendList DEF WaitQueues, TypeOK
  <2> QED
    BY <2>1, <1>un, <1>s, <1>inv DEF TypeOK
<1>2. TypeOK'
  <2>1. /\ waiting_lock' \in [Threads -> Locks \cup {None}]
        /\ max_waiter_priority' \in [Locks -> Priorities \cup {-1}]
    <3>1. CASE s \in Locks
      <4>1. MaxPriority(waiters'[s], priority) \in Priorities \cup {-1}
        BY <1>que, <1>s, <1>inv, MaxPriorityType DEF TypeOK, ThreadTypeOK
      <4>2. /\ waiting_lock' = [waiting_lock EXCEPT ![me] = s]
            /\ max_waiter_priority' =
                 [max_waiter_priority EXCEPT ![s] = MaxPriority(waiters'[s], priority)]
        BY <3>1, <1>def DEF DownWait
      <4> QED
        BY <3>1, <4>1, <4>2, <1>cur, <1>inv DEF TypeOK
    <3>2. CASE s \notin Locks
      BY <3>2, <1>def, <1>inv DEF DownWait, TypeOK
    <3> QED
      BY <3>1, <3>2
  <2> QED
    BY <2>1, <1>1, <1>que, <1>un, <1>inv DEF TypeOK, ThreadInv, condVars
<1>3. CallPoints'
  BY <1>un, <1>end, <1>inv DEF CallPoints, Ended, condVars
<1>4. WaitQueues'
  <2>1. ASSUME NEW u \in Semas
        PROVE  /\ IsInjective(waiters'[u])
               /\ \A t \in Range(waiters'[u]) : t \in Suspended' /\ at'[t] = "down" /\ arg'[t] = u
    BY <1>1, <1>que, <1>un, <1>cur, <1>def, <1>inv DEF WaitQueues
  <2>2. ASSUME NEW t \in Suspended'
        PROVE  at'[t] = "down" /\ t \in Range(waiters'[arg'[t]])
    <3>1. CASE t = me
      BY <3>1, <1>un, <1>cur, <1>def, <1>que
    <3>2. CASE t # me
      <4>1. t \in Suspended /\ at[t] = "down" /\ t \in Range(waiters[arg[t]]) /\ arg[t] \in Semas
        BY <2>2, <3>2, <1>1, <1>inv DEF WaitQueues, Suspended, CallPoints, CallFits
      <4> QED
        BY <4>1, <1>un, <1>que
    <3> QED
      BY <3>1, <3>2
  <2> QED
    BY <2>1, <2>2 DEF WaitQueues
<1>5. CondQueues'
  BY <1>un, <1>inv DEF CondQueues, condVars
<1>6. NoLostWakeup'
  <2> SUFFICES ASSUME NEW u \in Semas, waiters'[u] # <<>>
               PROVE  value'[u] <= Cardinality(Woken(u)')
    BY DEF NoLostWakeup
  <2>1. CASE u = s
    BY <2>1, <1>un, WokenFinite
  <2>2. CASE u # s
    <3>1. Woken(u) \subseteq Woken(u)'
      BY <2>2, <1>un, <1>que DEF Woken
    <3>2. waiters[u] # <<>> /\ value'[u] <= value[u]
      BY <2>2, <1>un, <1>que, <1>inv DEF TypeOK
    <3> QED
      BY <3>1, <3>2, <1>2, <1>inv, WakeupsKept
  <2> QED
    BY <2>1, <2>2
<1>7. LockExclusion' /\ lock_owner' = lock_owner
  <2>1. LocksKept
    BY <1>un DEF LocksKept
  <2> QED
    BY <2>1, <1>inv, OwnersKept
<1>8. DonationReturned'
  BY <1>un, <1>inv DEF DonationReturned, priVars
<1> QED
  BY <1>1, <1>2, <1>3, <1>4, <1>5, <1>6, <1>7, <1>8 DEF SynchInv, StepRight, MutexStep

\* sema_up() on a semaphore that is neither a lock's nor on a stack.
LEMMA SemaUpRight ==
  ASSUME SynchInv, NEW s \in Semaphores, SemaUp(s)
  PROVE  StepRight
<1>inv. /\ TypeOK /\ ThreadInv /\ CallPoints /\ WaitQueues /\ CondQueues
        /\ NoLostWakeup /\ LockExclusion /\ DonationReturned
  BY DEF SynchInv
<1>un. /\ UNCHANGED <<priVars, ticks, at, end, holder, held_locks, waiting_lock,
                      condVars, arg, tempLock>>
       /\ SemaUpInternal(s)
  BY DEF SemaUp
<1>s. s \in Semas /\ s \notin Locks /\ s \notin Threads
  BY SynchAssumption DEF Semas
<1>res. PICK W \in SUBSET Threads : Resumed(s, W)
  BY <1>un, <1>s, <1>inv, SemaUpWakes
     DEF TypeOK, ThreadTypeOK, ThreadInv, IdlePoint, priVars
<1>val. value' \in [Semas -> Nat] /\ \A u \in Semas \ {s} : value'[u] = value[u]
  BY <1>res, <1>s, <1>inv DEF Resumed, TypeOK
<1>2. TypeOK'
  BY <1>res, <1>val, <1>un, <1>inv DEF Resumed, TypeOK, ThreadInv, condVars
<1>3. CallPoints'
  BY <1>res, <1>un, <1>inv DEF Resumed, CallPoints, Ended, condVars
<1>4. WaitQueues'
  BY <1>res, <1>s, <1>un, <1>inv, QueuesAfterUp
<1>5. CondQueues'
  <2>1. \A c \in Conds : Range(cond_waiters[c]) \subseteq Threads
    BY <1>inv, RangeSeq DEF TypeOK
  <2> QED
    BY <2>1, <1>un, <1>s, <1>val, <1>inv DEF CondQueues, condVars, Semas
<1>6. NoLostWakeup'
  BY <1>res, <1>s, <1>un, <1>2, <1>4, WakeupsAfterUp
<1>7. LockExclusion' /\ lock_owner' = lock_owner
  <2>1. LocksKept
    BY <1>un, <1>s, <1>val DEF LocksKept, Semas
  <2> QED
    BY <2>1, <1>inv, OwnersKept
<1>8. DonationReturned'
  BY <1>un, <1>inv DEF DonationReturned, priVars
<1> QED
  BY <1>res, <1>2, <1>3, <1>4, <1>5, <1>6, <1>7, <1>8 DEF Resumed, SynchInv, StepRight, MutexStep

\* cond_signal() and a round of cond_broadcast(): the semaphore_elem leaves
\* the list in the step that ups its semaphore.
LEMMA SignalRight ==
  ASSUME SynchInv, NEW c \in Conds, cond_waiters[c] # <<>>, SignalOne(c),
         cur # Idle, at[cur] \in {"run", "broadcast"},
         NEW p \in {"run", "broadcast"}, NEW x \in Semas \cup Conds \cup {None},
         at' = [at EXCEPT ![cur] = p], arg' = [arg EXCEPT ![cur] = x],
         p = "broadcast" => x = c
  PROVE  StepRight
<1>inv. /\ TypeOK /\ ThreadInv /\ CallPoints /\ WaitQueues /\ CondQueues
        /\ NoLostWakeup /\ LockExclusion /\ DonationReturned
  BY DEF SynchInv
<1>def. PICK top, me : top = cond_waiters[c][FirstMax(cond_waiters[c], waiter_priority)] /\ me = cur
  OBVIOUS
<1>un. /\ cond_waiters' = [cond_waiters EXCEPT ![c] = Unlink(cond_waiters[c], top)]
       /\ UNCHANGED <<priVars, ticks, end, holder, held_locks, waiting_lock,
                      waiter_priority, monitor, tempLock>>
       /\ SemaUpInternal(top)
  BY <1>def DEF SignalOne
<1>cur. me \in Threads /\ status[me] = "RUNNING" /\ me \notin Suspended /\ me # Idle
  BY <1>def, CurrentRuns
<1>top. /\ top \in Range(cond_waiters[c]) /\ top \in Threads /\ top \in Semas /\ top \notin Locks
        /\ cond_waiters[c] \in Seq(Threads)
  <2>1. cond_waiters[c] \in Seq(Threads) /\ waiter_priority \in [Threads -> 0..PRI_MAX]
    BY <1>inv DEF TypeOK, Priorities
  <2>2. top \in Range(cond_waiters[c])
    BY <2>1, <1>def, FirstMaxList, ThreadAssumption
  <2>3. top \in Threads
    BY <2>1, <2>2, RangeSeq
  <2> QED
    BY <2>1, <2>2, <2>3, SynchAssumption DEF Semas
<1>que. /\ cond_waiters' \in [Conds -> Seq(Threads)]
        /\ IsInjective(cond_waiters'[c])
        /\ Range(cond_waiters'[c]) = Range(cond_waiters[c]) \ {top}
        /\ \A d \in Conds \ {c} : cond_waiters'[d] = cond_waiters[d]
  <2>1. /\ Unlink(cond_waiters[c], top) \in Seq(Threads)
        /\ IsInjective(Unlink(cond_waiters[c], top))
        /\ Range(Unlink(cond_waiters[c], top)) = Range(cond_waiters[c]) \ {top}
    BY <1>top, <1>inv, UnlinkList DEF CondQueues
  <2> QED
    BY <2>1, <1>un, <1>inv DEF TypeOK
<1>at. /\ at' \in [Threads -> Points] /\ at'[Idle] \in {"run", "hlt"}
       /\ at'[me] = p /\ arg'[me] = x
       /\ \A t \in Threads \ {me} : at'[t] = at[t] /\ arg'[t] = arg[t]
       /\ arg' \in [Threads -> Semas \cup Conds \cup {None}]
  BY <1>def, <1>cur, <1>inv, ThreadAssumption
     DEF TypeOK, ThreadInv, ThreadTypeOK, IdlePoint, Points
<1>res. PICK W \in SUBSET Threads : Resumed(top, W)
  BY <1>un, <1>top, <1>at, <1>inv, SemaUpWakes DEF TypeOK, ThreadTypeOK, priVars
<1>val. value' \in [Semas -> Nat] /\ \A u \in Semas \ {top} : value'[u] = value[u]
  BY <1>res, <1>top, <1>inv DEF Resumed, TypeOK
<1>2. TypeOK'
  BY <1>res, <1>val, <1>que, <1>at, <1>un, <1>inv DEF Resumed, TypeOK, ThreadInv
<1>3. CallPoints'
  <2>1. Ended(status') \subseteq Ended(status) /\ me \notin Ended(status)
    BY <1>res, <1>cur DEF Resumed, Ended
  <2>2. ASSUME NEW t \in Threads \ {me}
        PROVE  /\ CallFits(t, at'[t], arg'[t], monitor'[t])
               /\ at'[t] = "cw_release" => holder'[monitor'[t]] = t
               /\ status'[t] \in {"FREE", "DYING"} => at'[t] = "run"
    BY <2>1, <1>at, <1>un, <1>inv DEF CallPoints, Ended
  <2>3. CallFits(me, at'[me], arg'[me], monitor'[me]) /\ at'[me] # "cw_release"
    BY <1>at DEF CallFits
  <2>4. status'[me] \notin {"FREE", "DYING"}
    BY <2>1, <1>cur DEF Ended
  <2> QED
    BY <2>2, <2>3, <2>4 DEF CallPoints
<1>4. WaitQueues'
  <2>1. \A t \in Suspended : at'[t] = at[t] /\ arg'[t] = arg[t]
    BY <1>at, <1>cur DEF Suspended
  <2> QED
    BY <2>1, <1>res, <1>top, <1>inv, QueuesAfterUp
<1>5. CondQueues'
  <2>1. \A d \in Conds : Range(cond_waiters[d]) \subseteq Threads
    BY <1>inv, RangeSeq DEF TypeOK
  <2>2. ASSUME NEW d \in Conds, NEW t \in Range(cond_waiters'[d])
        PROVE  t \in Range(cond_waiters[d]) /\ t # top /\ t \in Semas /\ t \in Threads
    <3>1. t \in Range(cond_waiters[d]) /\ (d = c => t # top)
      BY <2>2, <1>que
    <3>2. t # top
      BY <3>1, <1>top, <1>inv DEF CondQueues
    <3> QED
      BY <3>1, <3>2, <2>1 DEF Semas
  <2>3. ASSUME NEW d \in Conds, NEW t \in Range(cond_waiters'[d])
        PROVE  /\ value'[t] = 0
               /\ \/ at'[t] \in {"cw_release", "cw_down"}
                  \/ at'[t] = "down" /\ arg'[t] = t
               /\ \A e \in Conds : t \in Range(cond_waiters'[e]) => e = d
    <3>1. /\ value[t] = 0
          /\ \/ at[t] \in {"cw_release", "cw_down"}
             \/ at[t] = "down" /\ arg[t] = t
          /\ \A e \in Conds : t \in Range(cond_waiters[e]) => e = d
      BY <2>2, <2>3, <1>inv DEF CondQueues
    <3>2. t # me
      BY <3>1, <1>def
    <3> QED
      BY <2>2, <2>3, <3>1, <3>2, <1>at, <1>val
  <2>4. ASSUME NEW d \in Conds PROVE IsInjective(cond_waiters'[d])
    BY <1>que, <1>inv DEF CondQueues
  <2> QED
    BY <2>3, <2>4 DEF CondQueues
<1>6. NoLostWakeup'
  <2>1. \A t \in Threads : at[t] = "down" => at'[t] = "down" /\ arg'[t] = arg[t]
    BY <1>at, <1>def
  <2> QED
    BY <2>1, <1>res, <1>top, <1>2, <1>4, WakeupsAfterUp
<1>7. LockExclusion' /\ lock_owner' = lock_owner
  <2>1. LocksKept
    BY <1>un, <1>def, <1>at, <1>top, <1>val DEF LocksKept, Semas
  <2> QED
    BY <2>1, <1>inv, OwnersKept
<1>8. DonationReturned'
  BY <1>un, <1>inv DEF DonationReturned, priVars
<1> QED
  BY <1>res, <1>2, <1>3, <1>4, <1>5, <1>6, <1>7, <1>8 DEF Resumed, SynchInv, StepRight, MutexStep

\* lock_release(), called by the owner or from cond_wait().
LEMMA ReleaseRight ==
  ASSUME SynchInv, NEW l \in Locks, holder[l] = cur, cur # Idle,
         NEW p, ReleaseAndGoTo(l, p),
         \/ at[cur] = "run" /\ p = "run"
         \/ at[cur] = "cw_release" /\ p = "cw_down"
  PROVE  StepRight
<1>inv. /\ TypeOK /\ ThreadInv /\ CallPoints /\ WaitQueues /\ CondQueues
        /\ NoLostWakeup /\ LockExclusion /\ DonationReturned
  BY DEF SynchInv
<1>def. PICK me, ls : me = cur /\ ls = Range(held_locks[cur]) \ {l}
  OBVIOUS
<1>un. /\ UNCHANGED <<base_priority, ticks, end, waiting_lock, condVars, arg, tempLock>>
       /\ priority' = [priority EXCEPT ![me] = ReleasedPriority(ls)]
       /\ held_locks' = [held_locks EXCEPT ![me] =
                           IF l \in Range(held_locks[me]) THEN Unlink(held_locks[me], l)
                           ELSE held_locks[me]]
       /\ holder' = [holder EXCEPT ![l] = None]
       /\ at' = [at EXCEPT ![me] = p]
       /\ SemaUpInternal(l)
  BY <1>def DEF ReleaseAndGoTo
<1>cur. me \in Threads /\ status[me] = "RUNNING" /\ me \notin Suspended /\ me # Idle
  BY <1>def, CurrentRuns
<1>cons. l \in Semas /\ l \notin Threads /\ None \notin Threads
  BY SynchAssumption DEF Semas
<1>own. Owners(l) = {me} /\ value[l] = 0
  <2>1. me \in Owners(l)
    BY <1>def, <1>cur DEF Owners
  <2> QED
    BY <2>1, <1>inv, OwnerValue
<1>pri. /\ ReleasedPriority(ls) \in Priorities
        /\ base_priority[me] <= ReleasedPriority(ls)
        /\ base_priority[me] < ReleasedPriority(ls) => ls # {}
        /\ priority' \in [Threads -> Priorities]
        /\ priority'[me] = ReleasedPriority(ls)
        /\ \A t \in Threads \ {me} : priority'[t] = priority[t]
  <2>1. ls \in SUBSET Locks
    BY <1>def, <1>cur, <1>inv, RangeSeq DEF TypeOK
  <2>2. /\ ReleasedPriority(ls) \in Priorities
        /\ base_priority[me] <= ReleasedPriority(ls)
        /\ base_priority[me] < ReleasedPriority(ls) => ls # {}
    BY <2>1, <1>def, <1>inv, ReleasedPriorityBase
  <2> QED
    BY <2>2, <1>un, <1>cur, <1>inv DEF TypeOK, ThreadTypeOK
<1>held. /\ held_locks' \in [Threads -> Seq(Locks)]
         /\ IsInjective(held_locks'[me]) /\ Range(held_locks'[me]) = ls
         /\ \A t \in Threads \ {me} : held_locks'[t] = held_locks[t]
  <2>1. held_locks \in [Threads -> Seq(Locks)] /\ IsInjective(held_locks[me])
    BY <1>cur, <1>inv DEF TypeOK, LockExclusion
  <2>2. CASE l \in Range(held_locks[me])
    <3>1. /\ Unlink(held_locks[me], l) \in Seq(Locks)
          /\ Range(Unlink(held_locks[me], l)) = Range(held_locks[me]) \ {l}
          /\ IsInjective(Unlink(held_locks[me], l))
      BY <2>1, <2>2, <1>cur, UnlinkList
    <3>2. held_locks' = [held_locks EXCEPT ![me] = Unlink(held_locks[me], l)]
      BY <2>2, <1>un
    <3> QED
      BY <2>1, <3>1, <3>2, <1>cur, <1>def
  <2>3. CASE l \notin Range(held_locks[me])
    <3>1. held_locks' = held_locks /\ ls = Range(held_locks[me])
      BY <2>1, <2>3, <1>un, <1>def
    <3> QED
      BY <2>1, <3>1
  <2> QED
    BY <2>2, <2>3
<1>hold. /\ holder' \in [Locks -> Threads \cup {None}] /\ holder'[l] = None
         /\ \A k \in Locks \ {l} : holder'[k] = holder[k]
  BY <1>un, <1>inv DEF TypeOK
<1>at. /\ at' \in [Threads -> Points] /\ at'[Idle] \in {"run", "hlt"}
       /\ at'[me] = p
       /\ \A t \in Threads \ {me} : at'[t] = at[t]
  BY <1>un, <1>cur, <1>inv, ThreadAssumption
     DEF TypeOK, ThreadInv, ThreadTypeOK, IdlePoint, Points
<1>res. PICK W \in SUBSET Threads : Resumed(l, W)
  BY <1>un, <1>cons, <1>pri, <1>at, <1>inv, SemaUpWakes DEF TypeOK, ThreadTypeOK
<1>val. value' \in [Semas -> Nat] /\ value'[l] = 1 /\ \A u \in Semas \ {l} : value'[u] = value[u]
  BY <1>res, <1>cons, <1>own, <1>inv DEF Resumed, TypeOK
<1>2. TypeOK'
  BY <1>res, <1>val, <1>held, <1>hold, <1>un, <1>inv DEF Resumed, TypeOK, ThreadInv, condVars
<1>3. CallPoints'
  <2>1. Ended(status') \subseteq Ended(status) /\ me \notin Ended(status)
    BY <1>res, <1>cur DEF Resumed, Ended
  <2>2. ASSUME NEW t \in Threads \ {me}
        PROVE  /\ CallFits(t, at'[t], arg'[t], monitor'[t])
               /\ at'[t] = "cw_release" => holder'[monitor'[t]] = t
               /\ status'[t] \in {"FREE", "DYING"} => at'[t] = "run"
    <3>1. /\ CallFits(t, at[t], arg[t], monitor[t])
          /\ at[t] = "cw_release" => monitor[t] \in Locks /\ holder[monitor[t]] = t
      BY <1>inv DEF CallPoints, CallFits
    <3>2. at[t] = "cw_release" => holder'[monitor[t]] = t
      BY <3>1, <1>hold, <1>def
    <3> QED
      BY <2>1, <3>1, <3>2, <1>at, <1>un, <1>inv DEF CallPoints, Ended, condVars
  <2>3. CallFits(me, at'[me], arg'[me], monitor'[me]) /\ at'[me] # "cw_release"
    BY <1>at, <1>un, <1>def, <1>cur, <1>inv DEF CallPoints, CallFits, condVars
  <2>4. status'[me] \notin {"FREE", "DYING"}
    BY <2>1, <1>cur DEF Ended
  <2> QED
    BY <2>2, <2>3, <2>4 DEF CallPoints
<1>4. WaitQueues'
  <2>1. \A t \in Suspended : at'[t] = at[t] /\ arg'[t] = arg[t]
    BY <1>at, <1>un, <1>cur DEF Suspended
  <2> QED
    BY <2>1, <1>res, <1>cons, <1>inv, QueuesAfterUp
<1>5. CondQueues'
  <2>1. \A c \in Conds : Range(cond_waiters[c]) \subseteq Threads
    BY <1>inv, RangeSeq DEF TypeOK
  <2> QED
    BY <2>1, <1>un, <1>at, <1>def, <1>cons, <1>val, <1>inv DEF CondQueues, condVars, Semas
<1>6. NoLostWakeup'
  <2>1. \A t \in Threads : at[t] = "down" => at'[t] = "down" /\ arg'[t] = arg[t]
    BY <1>at, <1>un, <1>def
  <2> QED
    BY <2>1, <1>res, <1>cons, <1>2, <1>4, WakeupsAfterUp
<1>7. LockExclusion' /\ MutexStep
  <2>1. Owners(l)' = {}
    <3>1. \A t \in Threads : at[t] = "try" /\ arg[t] = l => t = me
      BY <1>own DEF Owners
    <3>2. \A t \in Threads : ~(at'[t] = "try" /\ arg'[t] = l)
      BY <3>1, <1>at, <1>un
    <3> QED
      BY <3>2, <1>hold, <1>cons DEF Owners
  <2>2. \A k \in Locks \ {l} : Owners(k)' = Owners(k)
    BY <1>at, <1>un, <1>hold, <1>def DEF Owners
  <2>3. \A k \in Locks :
          \/ value'[k] = 1 /\ Owners(k)' = {}
          \/ value'[k] = 0 /\ \E t \in Threads : Owners(k)' = {t}
    BY <2>1, <2>2, <1>val, <1>inv DEF LockExclusion, Semas
  <2>4. ASSUME NEW t \in Threads
        PROVE  /\ IsInjective(held_locks'[t])
               /\ \A k \in Range(held_locks'[t]) : holder'[k] = t
    <3>1. /\ IsInjective(held_locks[t]) /\ Range(held_locks[t]) \subseteq Locks
          /\ \A k \in Range(held_locks[t]) : holder[k] = t
      BY <1>inv, RangeSeq DEF LockExclusion, TypeOK
    <3>2. CASE t = me
      BY <3>1, <3>2, <1>held, <1>hold, <1>def
    <3>3. CASE t # me
      BY <3>1, <3>3, <1>held, <1>hold, <1>def
    <3> QED
      BY <3>2, <3>3
  <2>5. AbstractMutex!Release(me, l)
    BY <2>1, <2>2, <1>cur, <1>own, OwnerMapped
  <2> QED
    BY <2>3, <2>4, <2>5, <1>cur DEF LockExclusion, MutexStep, AbstractMutex!Next
<1>8. DonationReturned'
  <2> SUFFICES ASSUME NEW t \in Threads
               PROVE  /\ base_priority[t] <= priority'[t]
                      /\ base_priority[t] < priority'[t] => \E k \in Locks : holder'[k] = t
    BY <1>un DEF DonationReturned
  <2>1. CASE t = me
    <3>1. ls # {} => \E k \in Locks : holder'[k] = me
      <4>1. \A k \in ls : k \in Locks /\ k # l /\ holder[k] = me
        BY <1>def, <1>cur, <1>inv, RangeSeq DEF LockExclusion, TypeOK
      <4> QED
        BY <4>1, <1>hold
    <3> QED
      BY <2>1, <3>1, <1>pri
  <2>2. CASE t # me
    <3>1. \A k \in Locks : holder[k] = t => holder'[k] = t
      BY <2>2, <1>hold, <1>def
    <3> QED
      BY <2>2, <3>1, <1>pri, <1>inv DEF DonationReturned
  <2> QED
    BY <2>1, <2>2
<1> QED
  BY <1>res, <1>2, <1>3, <1>4, <1>5, <1>6, <1>7, <1>8 DEF Resumed, SynchInv, StepRight

-----------------------------------------------------------------------------
\* The initial state.
LEMMA SynchInitInv == Init => SynchInv /\ AbstractMutex!Init
<1> SUFFICES ASSUME Init PROVE SynchInv /\ AbstractMutex!Init
  OBVIOUS
<1>1. ThreadInv /\ Suspended = {}
  BY ThreadInitInv DEF Init
<1>2. TypeOK
  BY <1>1, EmptySeq, SynchAssumption, ThreadAssumption
     DEF Init, ThreadInv, TypeOK, Semas, Priorities
<1>3. Range(<<>>) = {} /\ IsInjective(<<>>)
  BY DEF Range, IsInjective
<1>4. \A t \in Threads : at[t] = "run" /\ priority[t] = base_priority[t] /\ priority[t] \in Int
  BY <1>2, ThreadAssumption DEF Init, ThreadInit, TypeOK, ThreadTypeOK, Priorities
<1>5. CallPoints
  BY <1>4 DEF CallPoints, CallFits
<1>6. WaitQueues /\ CondQueues /\ NoLostWakeup
  BY <1>1, <1>3 DEF Init, WaitQueues, CondQueues, NoLostWakeup
<1>7. \A l \in Locks : Owners(l) = {}
  BY <1>4, SynchAssumption DEF Init, Owners
<1>8. LockExclusion
  BY <1>3, <1>7 DEF Init, LockExclusion, Semas
<1>9. DonationReturned
  BY <1>4 DEF DonationReturned
<1>10. AbstractMutex!Init
  BY <1>7 DEF AbstractMutex!Init, lock_owner
<1> QED
  BY <1>1, <1>2, <1>5, <1>6, <1>8, <1>9, <1>10 DEF SynchInv

\* Every step keeps the invariant, wakes sleepers in time and maps to a step
\* of the abstract mutex: one case per operation.
LEMMA SynchNextInv == SynchInv /\ [Next]_vars => StepRight
<1> SUFFICES ASSUME SynchInv, [Next]_vars PROVE StepRight
  OBVIOUS
<1>inv. TypeOK /\ CallPoints
  BY DEF SynchInv
<1>cur. cur \in Threads /\ (at[cur] \notin {"run", "hlt"} => cur # Idle)
  BY CurrentRuns
<1>1. CASE ThreadStep
  BY <1>1, ThreadStepRight
<1>2. CASE SemaStep
  BY <1>2, SemaUpRight, CallMovesRight, SemaTryDownRight, DownWaitRight, DownTakeRight
     DEF SemaStep
<1>same. CASE UNCHANGED vars
  <2>1. ThreadInv' /\ WakesInTime /\ Suspended' = Suspended
    BY <1>same, ThreadNextInv DEF vars, SynchInv
  <2>2. /\ TypeOK' /\ CallPoints' /\ WaitQueues' /\ CondQueues' /\ NoLostWakeup'
        /\ DonationReturned'
    BY <1>same, <2>1 DEF vars, threadVars, schedVars, priVars, synchVars, semaVars, lockVars,
       condVars, SynchInv, TypeOK, ThreadTypeOK, CallPoints, WaitQueues, CondQueues,
       NoLostWakeup, Woken, DonationReturned
  <2>3. LocksKept
    BY <1>same DEF vars, threadVars, synchVars, semaVars, lockVars, LocksKept
  <2> QED
    BY <2>1, <2>2, <2>3, OwnersKept DEF SynchInv, StepRight, MutexStep
<1>3. CASE LockStep
  <2>1. ASSUME NEW l \in Locks, LockRelease(l) PROVE StepRight
    BY <2>1, ReleaseRight DEF LockRelease, Calls
  <2>2. CASE DonateSpin
    BY <2>2, <1>same DEF DonateSpin
  <2> QED
    BY <1>3, <2>1, <2>2, CallMovesRight, LockTryAcquireRight, DonateRaiseRight, TrySetHolderRight
       DEF LockStep
<1>4. CASE CondStep
  <2>1. ASSUME NEW c \in Conds, CondSignal(c) PROVE StepRight
    <3>1. at' = [at EXCEPT ![cur] = "run"] /\ arg' = [arg EXCEPT ![cur] = arg[cur]]
      BY <2>1, <1>inv DEF CondSignal, Calls, TypeOK, ThreadTypeOK
    <3>2. arg[cur] \in Semas \cup Conds \cup {None}
      BY <1>cur, <1>inv DEF TypeOK
    <3> QED
      BY <2>1, <3>1, <3>2, SignalRight DEF CondSignal, Calls
  <2>2. ASSUME NEW c \in Conds, CondBroadcast(c) PROVE StepRight
    <3>1. cur # Idle /\ at[cur] \in {"run", "broadcast"}
      BY <2>2, <1>cur DEF CondBroadcast, Calls
    <3> QED
      BY <2>2, <3>1, SignalRight DEF CondBroadcast
  <2>3. CASE CondWaitRelease
    <3>1. monitor[cur] \in Locks /\ holder[monitor[cur]] = cur /\ cur # Idle
      BY <2>3, <1>cur, <1>inv DEF CondWaitRelease, CallPoints, CallFits
    <3> QED
      BY <2>3, <3>1, ReleaseRight DEF CondWaitRelease
  <2> QED
    BY <1>4, <2>1, <2>2, <2>3, CallMovesRight, CondWaitRight DEF CondStep
<1> QED
  BY <1>1, <1>2, <1>3, <1>4, <1>same DEF Next

-----------------------------------------------------------------------------
\* The invariant holds throughout: what every theorem below starts from.
LEMMA SynchInvariant == Spec => []SynchInv
<1>1. SynchInv /\ [Next]_vars => SynchInv'
  BY SynchNextInv DEF StepRight
<1> QED
  BY <1>1, SynchInitInv, PTL DEF Spec

\* thread.h:77-82: a thread is on at most one waiters list, once, and is then
\* BLOCKED in sema_down_internal() of that semaphore and asleep on no list.
THEOREM SemaphoreLists == Spec => []WaitersMatchStatus
<1>1. SynchInv => WaitersMatchStatus
  BY DEF SynchInv, WaitQueues, WaitersMatchStatus, Suspended
<1> QED
  BY <1>1, SynchInvariant, PTL

\* A blocked thread is on the list from which it will be woken: the sleep list
\* with its tick, or the waiters list of the semaphore it is downing.
THEOREM WaitersKept == Spec => []NoWaiterLost
<1>1. SynchInv => NoWaiterLost
  BY DEF SynchInv, WaitQueues, NoWaiterLost, Suspended, ThreadInv, SleepersTimed
<1> QED
  BY <1>1, SynchInvariant, PTL

\* synch.c: while threads queue at a semaphore, each unit of its value has a
\* thread on its way that sema_up_internal() has woken for it.
THEOREM WakeupsArrive == Spec => []NoLostWakeup
<1>1. SynchInv => NoLostWakeup
  BY DEF SynchInv
<1> QED
  BY <1>1, SynchInvariant, PTL

\* A lock has one owner at most, its semaphore is 0 exactly while it has one,
\* and held_locks lists only locks its thread holds, each once.
THEOREM LocksExclude == Spec => []LockExclusion
<1>1. SynchInv => LockExclusion
  BY DEF SynchInv
<1> QED
  BY <1>1, SynchInvariant, PTL

\* A donated priority never falls below the base priority and is given back
\* with the last lock it was made for.
THEOREM DonationsEnd == Spec => []DonationReturned
<1>1. SynchInv => DonationReturned
  BY DEF SynchInv
<1> QED
  BY <1>1, SynchInvariant, PTL

\* Donations and the wake-ups of the semaphores keep the scheduler's promise:
\* with interrupts on, no ready thread is above the running one.
THEOREM PriorityWithLocks == Spec => []HighestPriorityRuns
<1>1. SynchInv => HighestPriorityRuns
  BY DEF SynchInv, ThreadInv, RunsHighest, HighestPriorityRuns
<1> QED
  BY <1>1, SynchInvariant, PTL

\* synch.c:366-383: the semaphore_elem that cond_wait() queues lives on the
\* stack of its caller; it is never on a condition's list after that call's
\* sema_down() has returned, nor on two lists, nor upped twice.
THEOREM StackElementsLive == Spec => []CondQueues
<1>1. SynchInv => CondQueues
  BY DEF SynchInv
<1> QED
  BY <1>1, SynchInvariant, PTL

\* Blocking on semaphores, locks and conditions delays no sleeper: it still
\* leaves the sleep list at its tick or less than TIME_SLICE ticks after it.
THEOREM AlarmWithLocks == Spec => WakeWindow
<1>1. SynchInv /\ [Next]_vars => [WakesInTime]_threadVars
  BY SynchNextInv DEF StepRight
<1> QED
  BY <1>1, SynchInvariant, PTL DEF Spec, WakeWindow

\* lock_acquire(), lock_try_acquire() and lock_release(), with every step in
\* between, implement the abstract mutex: a free lock gets one owner, and only
\* that owner gives it up.
THEOREM LocksAreMutexes == Spec => MutexSpec
<1>1. SynchInv /\ [Next]_vars => [AbstractMutex!Next]_lock_owner
  BY SynchNextInv DEF StepRight, MutexStep
<1>2. Init => AbstractMutex!Init
  BY SynchInitInv
<1> QED
  BY <1>1, <1>2, SynchInvariant, PTL DEF Spec, MutexSpec, AbstractMutex!Spec
=============================================================================
