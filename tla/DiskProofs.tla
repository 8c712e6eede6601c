----------------------------- MODULE DiskProofs -----------------------------
(***************************************************************************)
(* The safety properties of module Disk, for every set of threads, disks   *)
(* and partitions of every size, and any number of failing commands and of *)
(* interrupts that belong to none.                                         *)
(*                                                                         *)
(* The first part is about the kernel of module Sched alone: what its      *)
(* operations do to the lists of threads (KernelInv, Queues).  The second  *)
(* is about the driver, one lemma per action.                              *)
(***************************************************************************)
EXTENDS Disk, ListLemmas

\* Where a thread can stand.
Points == {"run", "hlt", "check", "identify", "acquire", "select", "command", "complete",
           "busy", "nap", "input", "output", "release"}

\* The types of the kernel's variables.
KernelTypes ==
  /\ cur \in Threads
  /\ status \in [Threads -> {"RUNNING", "READY", "BLOCKED", "FREE"}]
  /\ ready_list \in Seq(Threads) /\ sleep_list \in Seq(Threads)
  /\ left \in [Threads -> Nat] /\ thread_ticks \in Nat
  /\ value \in [Semas -> Nat] /\ waiters \in [Semas -> Seq(Threads)]
  /\ at \in [Threads -> Points]

\* The lists are those of the statuses, without duplicates; one thread runs.
KernelLists ==
  /\ IsInjective(ready_list) /\ IsInjective(sleep_list)
  /\ Range(ready_list) = {t \in Threads \ {Idle} : status[t] = "READY"}
  /\ Range(sleep_list) \subseteq {t \in Threads \ {Idle} : status[t] = "BLOCKED"}
  /\ \A t \in Threads : status[t] = "RUNNING" <=> t = cur
  /\ status[Idle] # "FREE" /\ at[Idle] \in {"run", "hlt"}

KernelInv == KernelTypes /\ KernelLists

\* The threads that are blocked, and not by timer_sleep().
Suspended ==
  {t \in Threads \ {Idle} : status[t] = "BLOCKED" /\ t \notin Range(sleep_list)}

\* The threads in sus are those on the lists w of waiters, each on one, once.
Queues(sus, w) ==
  /\ sus = UNION {Range(w[s]) : s \in Semas}
  /\ \A s \in Semas : IsInjective(w[s])
  /\ \A r, s \in Semas : r # s => Range(w[r]) \cap Range(w[s]) = {}

\* What holds when schedule() is entered: the running thread has a new status
\* and is on the list that goes with it.
Prepared(st, rl, sl, lf) ==
  /\ st \in [Threads -> {"READY", "BLOCKED", "FREE", "DYING"}]
  /\ rl \in Seq(Threads) /\ sl \in Seq(Threads) /\ lf \in [Threads -> Nat]
  /\ IsInjective(rl) /\ IsInjective(sl)
  /\ Range(rl) = {t \in Threads \ {Idle} : st[t] = "READY"}
  /\ Range(sl) \subseteq {t \in Threads \ {Idle} : st[t] = "BLOCKED"}
  /\ \A t \in Threads : st[t] = "DYING" => t = cur /\ t # Main
  /\ st[Idle] \notin {"FREE", "DYING"}

\* From whatever its callers prepare, schedule() establishes the kernel's
\* invariant; it suspends and resumes nobody, and frees what was dying.
LEMMA ScheduleKernel ==
  ASSUME cur \in Threads, at' \in [Threads -> Points], at'[Idle] \in {"run", "hlt"},
         value' \in [Semas -> Nat], waiters' \in [Semas -> Seq(Threads)],
         NEW st, NEW rl, NEW sl, NEW lf, Prepared(st, rl, sl, lf),
         Schedule(st, rl, sl, lf)
  PROVE  /\ KernelInv'
         /\ Suspended' = {t \in Threads \ {Idle} : st[t] = "BLOCKED" /\ t \notin Range(sl)}
         /\ \A t \in Threads : status'[t] = "FREE" <=> st[t] \in {"FREE", "DYING"}
<1> DEFINE woken == {t \in Range(sl) : lf[t] = 0}
           ready == rl \o Sublist(sl, woken)
           next == IF ready = <<>> THEN Idle ELSE Head(ready)
           Effect(w, r, n) ==
             /\ sleep_list' = Sublist(sl, Range(sl) \ w)
             /\ ready_list' = IF r = <<>> THEN <<>> ELSE Tail(r)
             /\ cur' = n
             /\ status' = [t \in Threads |->
                             IF t = n THEN "RUNNING"
                             ELSE IF t \in w THEN "READY"
                             ELSE IF t = cur /\ t # Main /\ st[t] = "DYING" THEN "FREE"
                             ELSE st[t]]
             /\ left' = lf
             /\ thread_ticks' = 0
<1>1. Effect(woken, ready, next)
  <2>1. \E w \in {woken} :
        \E r \in {rl \o Sublist(sl, w)} :
        \E n \in {IF r = <<>> THEN Idle ELSE Head(r)} : Effect(w, r, n)
    BY DEF Schedule
  <2> HIDE DEF Effect
  <2> QED
    BY <2>1
<1>2. woken \subseteq Range(sl) /\ Range(rl) \cap Range(sl) = {}
  BY DEF Prepared
<1>3. Idle \in Threads /\ Main # Idle
  BY SchedAssumption
<1> HIDE DEF woken
<1>4. /\ next \in Threads
      /\ ready_list' \in Seq(Threads) /\ sleep_list' \in Seq(Threads)
      /\ IsInjective(ready_list') /\ IsInjective(sleep_list')
      /\ Range(ready_list') = (Range(rl) \cup woken) \ {next}
      /\ Range(sleep_list') = Range(sl) \ woken
      /\ next \in Range(rl) \cup woken \/ (next = Idle /\ Range(rl) \cup woken = {})
  <2>1. /\ ready_list' = IF ready = <<>> THEN <<>> ELSE Tail(ready)
        /\ sleep_list' = Sublist(sl, Range(sl) \ woken)
    BY <1>1
  <2>2. /\ rl \in Seq(Threads) /\ sl \in Seq(Threads) /\ IsInjective(rl) /\ IsInjective(sl)
    BY DEF Prepared
  <2>3. ready = rl \o Sublist(sl, woken) /\ next = IF ready = <<>> THEN Idle ELSE Head(ready)
    OBVIOUS
  <2> HIDE DEF ready, next
  <2>4. /\ Sublist(sl, woken) \in Seq(Threads) /\ IsInjective(Sublist(sl, woken))
        /\ Range(Sublist(sl, woken)) = woken
    <3>1. Range(sl) \cap woken = woken
      BY <1>2
    <3> QED
      BY <3>1, <2>2, SublistList
  <2>5. ready \in Seq(Threads) /\ IsInjective(ready) /\ Range(ready) = Range(rl) \cup woken
    BY <2>2, <2>3, <2>4, <1>2, ConcatList
  <2>6. /\ sleep_list' \in Seq(Threads) /\ IsInjective(sleep_list')
        /\ Range(sleep_list') = Range(sl) \ woken
    <3> DEFINE kept == Range(sl) \ woken
    <3>1. sleep_list' = Sublist(sl, kept) /\ Range(sl) \cap kept = kept
      BY <2>1
    <3> HIDE DEF kept
    <3>2. /\ sleep_list' \in Seq(Threads) /\ IsInjective(sleep_list')
          /\ Range(sleep_list') = kept
      BY <3>1, <2>2, SublistList
    <3> QED
      BY <3>2 DEF kept
  <2>7. CASE ready = <<>>
    <3>1. Range(ready) = {} /\ IsInjective(ready)
      BY <2>7 DEF Range, IsInjective
    <3> QED
      BY <3>1, <2>1, <2>3, <2>5, <2>6, <2>7, <1>3
  <2>8. CASE ready # <<>>
    <3>1. /\ Head(ready) \in Threads /\ Head(ready) \in Range(ready)
          /\ Tail(ready) \in Seq(Threads) /\ IsInjective(Tail(ready))
          /\ Range(Tail(ready)) = Range(ready) \ {Head(ready)}
      BY <2>5, <2>8, TailList
    <3> QED
      BY <3>1, <2>1, <2>3, <2>5, <2>6, <2>8
  <2> QED
    BY <2>7, <2>8
<1> HIDE DEF ready, next
<1>5. /\ cur' = next /\ left' = lf /\ thread_ticks' = 0
      /\ status' = [t \in Threads |->
                      IF t = next THEN "RUNNING"
                      ELSE IF t \in woken THEN "READY"
                      ELSE IF t = cur /\ t # Main /\ st[t] = "DYING" THEN "FREE"
                      ELSE st[t]]
  BY <1>1
<1>6. status' \in [Threads -> {"RUNNING", "READY", "BLOCKED", "FREE"}]
  BY <1>5 DEF Prepared
<1>7. KernelTypes'
  BY <1>4, <1>5, <1>6 DEF KernelTypes, Prepared
<1>8. /\ woken \subseteq {t \in Threads \ {Idle} : st[t] = "BLOCKED"}
      /\ Range(rl) = {t \in Threads \ {Idle} : st[t] = "READY"}
      /\ next \in {t \in Threads \ {Idle} : st[t] \in {"READY", "BLOCKED"}} \/ next = Idle
  BY <1>2, <1>4 DEF Prepared
<1>9. Range(ready_list') = {t \in Threads \ {Idle} : status'[t] = "READY"}
  BY <1>4, <1>5, <1>8 DEF Prepared
<1>10. Range(sleep_list') \subseteq {t \in Threads \ {Idle} : status'[t] = "BLOCKED"}
  <2> SUFFICES ASSUME NEW t \in Range(sleep_list')
               PROVE  t \in Threads \ {Idle} /\ status'[t] = "BLOCKED"
    OBVIOUS
  <2>1. t \in Threads \ {Idle} /\ st[t] = "BLOCKED" /\ t \notin woken
    BY <1>4 DEF Prepared
  <2>2. t # next
    BY <2>1, <1>4, <1>8
  <2> QED
    BY <2>1, <2>2, <1>5
<1>11. \A t \in Threads : status'[t] = "RUNNING" <=> t = cur'
  BY <1>5 DEF Prepared
<1>12. status'[Idle] # "FREE"
  BY <1>3, <1>5 DEF Prepared
<1>13. KernelLists'
  BY <1>4, <1>9, <1>10, <1>11, <1>12 DEF KernelLists
<1>14. ASSUME NEW t \in Threads \ {Idle}
       PROVE  (status'[t] = "BLOCKED" /\ t \notin Range(sleep_list'))
                <=> (st[t] = "BLOCKED" /\ t \notin Range(sl))
  <2>1. ASSUME st[t] = "BLOCKED", t \notin Range(sl)
        PROVE  t # next /\ t \notin woken
    BY <2>1, <1>2, <1>4, <1>8
  <2>2. ASSUME status'[t] = "BLOCKED", t \notin Range(sleep_list')
        PROVE  st[t] = "BLOCKED" /\ t \notin Range(sl)
    BY <2>2, <1>4, <1>5
  <2>3. ASSUME st[t] = "BLOCKED", t \notin Range(sl)
        PROVE  status'[t] = "BLOCKED" /\ t \notin Range(sleep_list')
    BY <2>1, <2>3, <1>4, <1>5
  <2> QED
    BY <2>2, <2>3
<1>15. ASSUME NEW t \in Threads
       PROVE  status'[t] = "FREE" <=> st[t] \in {"FREE", "DYING"}
  <2>1. t = next \/ t \in woken => st[t] \notin {"FREE", "DYING"}
    BY <1>8 DEF Prepared
  <2> QED
    BY <2>1, <1>5, <1>15 DEF Prepared
<1> QED
  BY <1>7, <1>13, <1>14, <1>15 DEF KernelInv, Suspended

\* A thread that is on no list of waiters is appended to one.
LEMMA QueuesAppend ==
  ASSUME NEW S, NEW w \in [Semas -> Seq(Threads)], Queues(S, w),
         NEW s \in Semas, NEW x \in Threads, x \notin S
  PROVE  LET w2 == [w EXCEPT ![s] = Append(@, x)]
         IN  w2 \in [Semas -> Seq(Threads)] /\ Queues(S \cup {x}, w2)
<1> DEFINE w2 == [w EXCEPT ![s] = Append(@, x)]
<1>1. \A r \in Semas : Range(w[r]) \subseteq S
  BY DEF Queues
<1>2. /\ Append(w[s], x) \in Seq(Threads) /\ IsInjective(Append(w[s], x))
      /\ Range(Append(w[s], x)) = Range(w[s]) \cup {x}
  BY <1>1, AppendList DEF Queues
<1>3. \A r \in Semas : w2[r] = IF r = s THEN Append(w[s], x) ELSE w[r]
  OBVIOUS
<1>4. w2 \in [Semas -> Seq(Threads)]
  BY <1>2
<1> HIDE DEF w2
<1>5. \A r \in Semas : Range(w2[r]) = IF r = s THEN Range(w[s]) \cup {x} ELSE Range(w[r])
  BY <1>2, <1>3
<1>6. \A r \in Semas : IsInjective(w2[r])
  BY <1>2, <1>3 DEF Queues
<1>7. S \cup {x} = UNION {Range(w2[r]) : r \in Semas}
  BY <1>5 DEF Queues
<1>8. \A r, q \in Semas : r # q => Range(w2[r]) \cap Range(w2[q]) = {}
  BY <1>1, <1>5 DEF Queues
<1>9. Queues(S \cup {x}, w2)
  BY <1>6, <1>7, <1>8 DEF Queues
<1> QED
  BY <1>4, <1>9 DEF w2

\* The first waiter is taken off its list.
LEMMA QueuesTail ==
  ASSUME NEW S, NEW w \in [Semas -> Seq(Threads)], Queues(S, w),
         NEW s \in Semas, w[s] # <<>>
  PROVE  LET w2 == [w EXCEPT ![s] = Tail(@)]
         IN  /\ w2 \in [Semas -> Seq(Threads)] /\ Queues(S \ {Head(w[s])}, w2)
             /\ Head(w[s]) \in S /\ Head(w[s]) \in Threads /\ Head(w[s]) \in Range(w[s])
<1> DEFINE w2 == [w EXCEPT ![s] = Tail(@)]
           x == Head(w[s])
<1>1. /\ x \in Threads /\ x \in Range(w[s])
      /\ Tail(w[s]) \in Seq(Threads) /\ IsInjective(Tail(w[s]))
      /\ Range(Tail(w[s])) = Range(w[s]) \ {x}
  BY TailList DEF Queues
<1>2. \A r \in Semas : w2[r] = IF r = s THEN Tail(w[s]) ELSE w[r]
  OBVIOUS
<1>3. w2 \in [Semas -> Seq(Threads)]
  BY <1>1
<1> HIDE DEF w2, x
<1>4. \A r \in Semas : Range(w2[r]) = Range(w[r]) \ {x}
  <2>1. \A r \in Semas \ {s} : x \notin Range(w[r])
    BY <1>1 DEF Queues
  <2> QED
    BY <2>1, <1>1, <1>2
<1>5. \A r \in Semas : IsInjective(w2[r])
  BY <1>1, <1>2 DEF Queues
<1>6. S \ {x} = UNION {Range(w2[r]) : r \in Semas} /\ x \in S
  BY <1>1, <1>4 DEF Queues
<1>7. \A r, q \in Semas : r # q => Range(w2[r]) \cap Range(w2[q]) = {}
  BY <1>4 DEF Queues
<1>8. Queues(S \ {x}, w2)
  BY <1>5, <1>6, <1>7 DEF Queues
<1> QED
  BY <1>1, <1>3, <1>6, <1>8 DEF w2, x

\* A step creates no thread and ends none.
FreeKept == \A t \in Threads : status'[t] = "FREE" <=> status[t] = "FREE"

\* thread_block() of the running thread prepares schedule().
LEMMA BlockPrepares ==
  ASSUME KernelInv
  PROVE  LET st == [status EXCEPT ![cur] = "BLOCKED"]
         IN  /\ Prepared(st, ready_list, sleep_list, left)
             /\ {t \in Threads \ {Idle} : st[t] = "BLOCKED" /\ t \notin Range(sleep_list)}
                  = Suspended \cup ({cur} \ {Idle})
             /\ cur \notin Suspended /\ cur \notin Range(sleep_list)
             /\ \A t \in Threads : st[t] \in {"FREE", "DYING"} <=> status[t] = "FREE"
<1> DEFINE st == [status EXCEPT ![cur] = "BLOCKED"]
<1>1. /\ \A t \in Threads : st[t] = IF t = cur THEN "BLOCKED" ELSE status[t]
      /\ st \in [Threads -> {"RUNNING", "READY", "BLOCKED", "FREE"}]
      /\ DOMAIN st = Threads
      /\ cur \in Threads /\ Idle \in Threads
  BY SchedAssumption DEF KernelInv, KernelTypes
<1> HIDE DEF st
<1>2. /\ \A t \in Threads : st[t] # "RUNNING" /\ st[t] # "DYING"
      /\ status[cur] = "RUNNING"
  BY <1>1 DEF KernelInv, KernelLists
<1>3. st \in [Threads -> {"READY", "BLOCKED", "FREE", "DYING"}]
  BY <1>1, <1>2
<1>4. /\ Range(ready_list) = {t \in Threads \ {Idle} : st[t] = "READY"}
      /\ Range(sleep_list) \subseteq {t \in Threads \ {Idle} : st[t] = "BLOCKED"}
      /\ cur \notin Range(sleep_list)
  BY <1>1, <1>2 DEF KernelInv, KernelLists
<1>5. Prepared(st, ready_list, sleep_list, left)
  BY <1>1, <1>2, <1>3, <1>4 DEF Prepared, KernelInv, KernelTypes, KernelLists
<1>6. {t \in Threads \ {Idle} : st[t] = "BLOCKED" /\ t \notin Range(sleep_list)}
        = Suspended \cup ({cur} \ {Idle})
  BY <1>1, <1>4 DEF Suspended
<1>7. cur \notin Suspended /\ \A t \in Threads : st[t] \in {"FREE", "DYING"} <=> status[t] = "FREE"
  BY <1>1, <1>2 DEF Suspended
<1> QED
  BY <1>4, <1>5, <1>6, <1>7 DEF st

\* sema_down() of the running thread goes through, or queues it.
LEMMA DownKernel ==
  ASSUME KernelInv, Queues(Suspended, waiters), cur # Idle,
         NEW s \in Semas, NEW p \in Points, SemaDown(s, p)
  PROVE  /\ KernelInv' /\ Queues(Suspended', waiters') /\ FreeKept
         /\ \/ /\ value[s] > 0 /\ value' = [value EXCEPT ![s] = @ - 1]
               /\ at' = [at EXCEPT ![cur] = p] /\ waiters' = waiters
            \/ /\ value[s] = 0 /\ value' = value /\ at' = at
               /\ waiters' = [waiters EXCEPT ![s] = Append(@, cur)]
<1>1. /\ cur \in Threads /\ at \in [Threads -> Points] /\ value \in [Semas -> Nat]
      /\ waiters \in [Semas -> Seq(Threads)]
  BY DEF KernelInv, KernelTypes
<1>2. CASE /\ value[s] > 0
           /\ value' = [value EXCEPT ![s] = @ - 1]
           /\ Goto(p)
           /\ UNCHANGED <<waiters, schedVars>>
  <2>1. /\ at' = [at EXCEPT ![cur] = p] /\ at' \in [Threads -> Points] /\ at'[Idle] = at[Idle]
        /\ value' \in [Semas -> Nat] /\ waiters' = waiters
    BY <1>1, <1>2, SchedAssumption DEF Goto
  <2>2. /\ cur' = cur /\ status' = status /\ ready_list' = ready_list
        /\ sleep_list' = sleep_list /\ left' = left /\ thread_ticks' = thread_ticks
    BY <1>2 DEF schedVars
  <2>3. KernelInv'
    BY <2>1, <2>2 DEF KernelInv, KernelTypes, KernelLists
  <2>4. Suspended' = Suspended /\ FreeKept
    BY <2>2 DEF Suspended, FreeKept
  <2> QED
    BY <2>1, <2>3, <2>4, <1>2
<1>3. CASE /\ value[s] = 0
           /\ waiters' = [waiters EXCEPT ![s] = Append(@, cur)]
           /\ ThreadBlock
           /\ UNCHANGED <<value, at>>
  <2> DEFINE st == [status EXCEPT ![cur] = "BLOCKED"]
  <2>1. /\ Prepared(st, ready_list, sleep_list, left)
        /\ {t \in Threads \ {Idle} : st[t] = "BLOCKED" /\ t \notin Range(sleep_list)}
             = Suspended \cup ({cur} \ {Idle})
        /\ cur \notin Suspended
        /\ \A t \in Threads : st[t] \in {"FREE", "DYING"} <=> status[t] = "FREE"
    BY BlockPrepares
  <2>2. Schedule(st, ready_list, sleep_list, left)
    BY <1>3 DEF ThreadBlock
  <2> HIDE DEF st
  <2>3. waiters' \in [Semas -> Seq(Threads)] /\ Queues(Suspended \cup {cur}, waiters')
    BY <1>1, <1>3, <2>1, QueuesAppend
  <2>4. at' = at /\ value' = value /\ at'[Idle] \in {"run", "hlt"}
    BY <1>3 DEF KernelInv, KernelLists
  <2>5. /\ KernelInv'
        /\ Suspended' = {t \in Threads \ {Idle} : st[t] = "BLOCKED" /\ t \notin Range(sleep_list)}
        /\ \A t \in Threads : status'[t] = "FREE" <=> st[t] \in {"FREE", "DYING"}
    BY <1>1, <2>1, <2>2, <2>3, <2>4, ScheduleKernel
  <2>6. Suspended' = Suspended \cup {cur}
    BY <2>1, <2>5
  <2> QED
    BY <2>1, <2>3, <2>4, <2>5, <2>6, <1>3 DEF FreeKept
<1> QED
  BY <1>2, <1>3 DEF SemaDown

\* sema_up(), of a thread or a handler, wakes the first waiter, if there is one.
LEMMA UpKernel ==
  ASSUME KernelInv, Queues(Suspended, waiters),
         at' \in [Threads -> Points], at'[Idle] \in {"run", "hlt"},
         NEW s \in Semas, SemaUp(s)
  PROVE  /\ KernelInv' /\ Queues(Suspended', waiters') /\ FreeKept
         /\ value' = [value EXCEPT ![s] = @ + 1]
         /\ waiters' = [waiters EXCEPT ![s] = IF @ = <<>> THEN @ ELSE Tail(@)]
<1>1. /\ cur \in Threads /\ value \in [Semas -> Nat] /\ waiters \in [Semas -> Seq(Threads)]
      /\ value' = [value EXCEPT ![s] = @ + 1] /\ value' \in [Semas -> Nat]
  BY DEF KernelInv, KernelTypes, SemaUp
<1>2. CASE waiters[s] = <<>> /\ UNCHANGED <<waiters, schedVars>>
  <2>1. /\ cur' = cur /\ status' = status /\ ready_list' = ready_list
        /\ sleep_list' = sleep_list /\ left' = left /\ thread_ticks' = thread_ticks
        /\ waiters' = waiters
    BY <1>2 DEF schedVars
  <2>2. KernelInv'
    BY <2>1, <1>1 DEF KernelInv, KernelTypes, KernelLists
  <2>3. Suspended' = Suspended /\ FreeKept
    BY <2>1 DEF Suspended, FreeKept
  <2>4. waiters' = [waiters EXCEPT ![s] = IF @ = <<>> THEN @ ELSE Tail(@)]
    BY <2>1, <1>1, <1>2
  <2> QED
    BY <2>1, <2>2, <2>3, <2>4, <1>1
<1>3. CASE /\ waiters[s] # <<>>
           /\ waiters' = [waiters EXCEPT ![s] = Tail(@)]
           /\ ThreadUnblock(<<Head(waiters[s])>>)
  <2> DEFINE x == Head(waiters[s])
  <2>1. /\ waiters' \in [Semas -> Seq(Threads)] /\ Queues(Suspended \ {x}, waiters')
        /\ x \in Suspended /\ x \in Threads
    BY <1>1, <1>3, QueuesTail
  <2>2. /\ status' = [t \in Threads |-> IF t \in Range(<<x>>) THEN "READY" ELSE status[t]]
        /\ ready_list' = ready_list \o <<x>>
        /\ cur' = cur /\ sleep_list' = sleep_list /\ left' = left /\ thread_ticks' = thread_ticks
    BY <1>3 DEF ThreadUnblock
  <2> HIDE DEF x
  <2>3. Range(<<x>>) = {x} /\ <<x>> \in Seq(Threads) /\ IsInjective(<<x>>)
    BY <2>1 DEF Range, IsInjective
  <2>4. /\ x \in Threads \ {Idle} /\ status[x] = "BLOCKED" /\ x \notin Range(sleep_list)
        /\ x \notin Range(ready_list)
    BY <2>1 DEF Suspended, KernelInv, KernelLists
  <2>5. /\ ready_list' \in Seq(Threads) /\ IsInjective(ready_list')
        /\ Range(ready_list') = Range(ready_list) \cup {x}
    <3>1. ready_list \in Seq(Threads) /\ IsInjective(ready_list)
          /\ Range(ready_list) \cap Range(<<x>>) = {}
      BY <2>3, <2>4 DEF KernelInv, KernelTypes, KernelLists
    <3> DEFINE y == <<x>>
    <3>2. /\ ready_list' = ready_list \o y /\ y \in Seq(Threads) /\ IsInjective(y)
          /\ Range(y) = {x} /\ Range(ready_list) \cap Range(y) = {}
      BY <3>1, <2>2, <2>3
    <3> HIDE DEF y
    <3> QED
      BY <3>1, <3>2, ConcatList
  <2>6. \A t \in Threads : status'[t] = IF t = x THEN "READY" ELSE status[t]
    BY <2>2, <2>3
  <2>7. status' \in [Threads -> {"RUNNING", "READY", "BLOCKED", "FREE"}]
    BY <2>2 DEF KernelInv, KernelTypes
  <2>8. KernelTypes'
    BY <2>1, <2>2, <2>5, <2>7, <1>1 DEF KernelInv, KernelTypes
  <2>9. KernelLists'
    <3>1. Range(ready_list') = {t \in Threads \ {Idle} : status'[t] = "READY"}
      BY <2>4, <2>5, <2>6 DEF KernelInv, KernelLists
    <3>2. Range(sleep_list') \subseteq {t \in Threads \ {Idle} : status'[t] = "BLOCKED"}
      BY <2>2, <2>4, <2>6 DEF KernelInv, KernelLists
    <3>3. \A t \in Threads : status'[t] = "RUNNING" <=> t = cur'
      BY <2>2, <2>4, <2>6 DEF KernelInv, KernelLists
    <3>4. status'[Idle] # "FREE"
      BY <2>6, SchedAssumption DEF KernelInv, KernelLists
    <3> QED
      BY <3>1, <3>2, <3>3, <3>4, <2>2, <2>5 DEF KernelInv, KernelLists
  <2>10. Suspended' = Suspended \ {x}
    BY <2>2, <2>4, <2>6 DEF Suspended
  <2>11. FreeKept
    BY <2>4, <2>6 DEF FreeKept
  <2>12. waiters' = [waiters EXCEPT ![s] = IF @ = <<>> THEN @ ELSE Tail(@)]
    BY <1>1, <1>3
  <2> QED
    BY <2>1, <2>8, <2>9, <2>10, <2>11, <2>12, <1>1 DEF KernelInv
<1> QED
  BY <1>2, <1>3 DEF SemaUp

\* A step that only moves the thread, or that only sets its tick to wake up.
LEMMA MoveKernel ==
  ASSUME KernelInv, Queues(Suspended, waiters),
         at' \in [Threads -> Points], at'[Idle] \in {"run", "hlt"},
         UNCHANGED <<cur, status, ready_list, sleep_list, thread_ticks, semaVars>>,
         left' \in [Threads -> Nat]
  PROVE  /\ KernelInv' /\ Queues(Suspended', waiters') /\ FreeKept
         /\ value' = value /\ waiters' = waiters
<1>1. KernelInv'
  BY DEF KernelInv, KernelTypes, KernelLists, semaVars
<1>2. Suspended' = Suspended /\ FreeKept /\ waiters' = waiters /\ value' = value
  BY DEF Suspended, FreeKept, semaVars
<1> QED
  BY <1>1, <1>2

\* thread_yield_for_seconds(): to the sleep list, and from there to the ready
\* list at once when the tick has come.
LEMMA SleepKernel ==
  ASSUME KernelInv, Queues(Suspended, waiters), cur # Idle,
         NEW p \in Points, ThreadYieldForSeconds(p)
  PROVE  /\ KernelInv' /\ Queues(Suspended', waiters') /\ FreeKept
         /\ value' = value /\ waiters' = waiters /\ at' = [at EXCEPT ![cur] = p]
<1> DEFINE st == [status EXCEPT ![cur] = "BLOCKED"]
           sl == Append(sleep_list, cur)
<1>1. /\ Prepared(st, ready_list, sleep_list, left)
      /\ {t \in Threads \ {Idle} : st[t] = "BLOCKED" /\ t \notin Range(sleep_list)}
           = Suspended \cup ({cur} \ {Idle})
      /\ cur \notin Suspended /\ cur \notin Range(sleep_list)
      /\ \A t \in Threads : st[t] \in {"FREE", "DYING"} <=> status[t] = "FREE"
  BY BlockPrepares
<1>2. /\ cur \in Threads /\ at \in [Threads -> Points] /\ sleep_list \in Seq(Threads)
      /\ IsInjective(sleep_list) /\ st[cur] = "BLOCKED"
      /\ value \in [Semas -> Nat] /\ waiters \in [Semas -> Seq(Threads)]
      /\ at[Idle] \in {"run", "hlt"}
  BY DEF KernelInv, KernelTypes, KernelLists
<1>3. /\ Schedule(st, ready_list, sl, left) /\ at' = [at EXCEPT ![cur] = p]
      /\ value' = value /\ waiters' = waiters
  BY DEF ThreadYieldForSeconds, Goto, semaVars
<1> HIDE DEF st
<1>4. sl \in Seq(Threads) /\ IsInjective(sl) /\ Range(sl) = Range(sleep_list) \cup {cur}
  BY <1>1, <1>2, AppendList
<1> HIDE DEF sl
<1>5. Prepared(st, ready_list, sl, left)
  BY <1>1, <1>2, <1>4 DEF Prepared
<1>6. at' \in [Threads -> Points] /\ at'[Idle] \in {"run", "hlt"}
  BY <1>2, <1>3, SchedAssumption
<1>7. /\ KernelInv'
      /\ Suspended' = {t \in Threads \ {Idle} : st[t] = "BLOCKED" /\ t \notin Range(sl)}
      /\ \A t \in Threads : status'[t] = "FREE" <=> st[t] \in {"FREE", "DYING"}
  BY <1>2, <1>3, <1>5, <1>6, ScheduleKernel
<1>8. Suspended' = Suspended
  BY <1>1, <1>4, <1>7
<1> QED
  BY <1>1, <1>3, <1>7, <1>8 DEF FreeKept

\* The timer interrupt: ticks go by, and the running thread may be preempted.
LEMMA TickKernel ==
  ASSUME KernelInv, Queues(Suspended, waiters), TimerInterrupt
  PROVE  /\ KernelInv' /\ Queues(Suspended', waiters') /\ FreeKept
         /\ value' = value /\ waiters' = waiters
         /\ at' = [at EXCEPT ![Idle] = IF cur = Idle THEN "run" ELSE @]
<1> DEFINE lf == [t \in Threads |-> IF left[t] > 0 THEN left[t] - 1 ELSE 0]
           st == [status EXCEPT ![cur] = "READY"]
           rl == IF cur = Idle THEN ready_list ELSE Append(ready_list, cur)
<1>1. /\ at' = [at EXCEPT ![Idle] = IF cur = Idle THEN "run" ELSE @]
      /\ value' = value /\ waiters' = waiters
  BY DEF TimerInterrupt, InterruptEntry, semaVars
<1>2. /\ cur \in Threads /\ Idle \in Threads /\ at \in [Threads -> Points]
      /\ sleep_list \in Seq(Threads) /\ IsInjective(sleep_list)
      /\ ready_list \in Seq(Threads) /\ IsInjective(ready_list)
      /\ value \in [Semas -> Nat] /\ waiters \in [Semas -> Seq(Threads)]
      /\ at[Idle] \in {"run", "hlt"} /\ thread_ticks \in Nat /\ left \in [Threads -> Nat]
  BY SchedAssumption DEF KernelInv, KernelTypes, KernelLists
<1>3. lf \in [Threads -> Nat] /\ at' \in [Threads -> Points] /\ at'[Idle] \in {"run", "hlt"}
  <2>1. lf \in [Threads -> Nat]
    BY <1>2
  <2>2. at'[Idle] = IF cur = Idle THEN "run" ELSE at[Idle]
    BY <1>1, <1>2
  <2>3. at' \in [Threads -> Points]
    <3>1. (IF cur = Idle THEN "run" ELSE at[Idle]) \in Points
      BY <1>2 DEF Points
    <3> QED
      BY <3>1, <1>1, <1>2
  <2> QED
    BY <2>1, <2>2, <2>3, <1>2
<1>4. CASE ThreadYield(lf)
  <2>1. Schedule(st, rl, sleep_list, lf)
    BY <1>4 DEF ThreadYield
  <2> HIDE DEF lf
  <2>2. /\ \A t \in Threads : st[t] = IF t = cur THEN "READY" ELSE status[t]
        /\ status[cur] = "RUNNING"
        /\ \A t \in Threads : st[t] \in {"READY", "BLOCKED", "FREE"} /\ st[t] # "DYING"
    BY <1>2 DEF KernelInv, KernelTypes, KernelLists
  <2>3. st \in [Threads -> {"READY", "BLOCKED", "FREE", "DYING"}]
    <3>1. DOMAIN st = Threads /\ st = [t \in Threads |-> st[t]]
      BY DEF KernelInv, KernelTypes
    <3> QED
      BY <3>1, <2>2
  <2> HIDE DEF st
  <2>4. /\ rl \in Seq(Threads) /\ IsInjective(rl)
        /\ Range(rl) = Range(ready_list) \cup ({cur} \ {Idle})
    <3>1. CASE cur = Idle
      BY <3>1, <1>2
    <3>2. CASE cur # Idle
      <4>1. cur \notin Range(ready_list)
        BY <2>2 DEF KernelInv, KernelLists
      <4> QED
        BY <4>1, <3>2, <1>2, AppendList
    <3> QED
      BY <3>1, <3>2
  <2> HIDE DEF rl
  <2>5. /\ Range(rl) = {t \in Threads \ {Idle} : st[t] = "READY"}
        /\ Range(sleep_list) \subseteq {t \in Threads \ {Idle} : st[t] = "BLOCKED"}
        /\ st[Idle] \notin {"FREE", "DYING"}
    BY <1>2, <2>2, <2>4 DEF KernelInv, KernelLists
  <2>6. Prepared(st, rl, sleep_list, lf)
    BY <1>2, <1>3, <2>2, <2>3, <2>4, <2>5 DEF Prepared
  <2>7. /\ KernelInv'
        /\ Suspended' = {t \in Threads \ {Idle} : st[t] = "BLOCKED" /\ t \notin Range(sleep_list)}
        /\ \A t \in Threads : status'[t] = "FREE" <=> st[t] \in {"FREE", "DYING"}
    BY <1>1, <1>2, <1>3, <2>1, <2>6, ScheduleKernel
  <2>8. Suspended' = Suspended /\ FreeKept
    BY <2>2, <2>7 DEF Suspended, FreeKept
  <2> QED
    BY <1>1, <2>7, <2>8
<1>5. CASE /\ thread_ticks' = thread_ticks + 1 /\ left' = lf
           /\ UNCHANGED <<cur, status, ready_list, sleep_list>>
  <2>1. KernelInv'
    BY <1>1, <1>2, <1>3, <1>5 DEF KernelInv, KernelTypes, KernelLists
  <2>2. Suspended' = Suspended /\ FreeKept
    BY <1>5 DEF Suspended, FreeKept
  <2> QED
    BY <1>1, <2>1, <2>2
<1> QED
  BY <1>4, <1>5 DEF TimerInterrupt

\* The idle thread blocks.
LEMMA IdleKernel ==
  ASSUME KernelInv, Queues(Suspended, waiters), IdleBlock
  PROVE  /\ KernelInv' /\ Queues(Suspended', waiters') /\ FreeKept
         /\ value' = value /\ waiters' = waiters
         /\ at' = [at EXCEPT ![Idle] = "hlt"]
<1> DEFINE st == [status EXCEPT ![cur] = "BLOCKED"]
<1>1. /\ Prepared(st, ready_list, sleep_list, left)
      /\ {t \in Threads \ {Idle} : st[t] = "BLOCKED" /\ t \notin Range(sleep_list)}
           = Suspended \cup ({cur} \ {Idle})
      /\ \A t \in Threads : st[t] \in {"FREE", "DYING"} <=> status[t] = "FREE"
  BY BlockPrepares
<1>2. /\ Schedule(st, ready_list, sleep_list, left) /\ cur = Idle
      /\ at' = [at EXCEPT ![Idle] = "hlt"] /\ value' = value /\ waiters' = waiters
  BY DEF IdleBlock, ThreadBlock, Goto, semaVars
<1> HIDE DEF st
<1>3. /\ cur \in Threads /\ Idle \in Threads /\ at \in [Threads -> Points]
      /\ value \in [Semas -> Nat] /\ waiters \in [Semas -> Seq(Threads)]
  BY SchedAssumption DEF KernelInv, KernelTypes
<1>4. at' \in [Threads -> Points] /\ at'[Idle] = "hlt"
  BY <1>2, <1>3 DEF Points
<1>5. /\ KernelInv'
      /\ Suspended' = {t \in Threads \ {Idle} : st[t] = "BLOCKED" /\ t \notin Range(sleep_list)}
      /\ \A t \in Threads : status'[t] = "FREE" <=> st[t] \in {"FREE", "DYING"}
  BY <1>1, <1>2, <1>3, <1>4, ScheduleKernel
<1>6. Suspended' = Suspended
  BY <1>1, <1>2, <1>5
<1> QED
  BY <1>1, <1>2, <1>5, <1>6 DEF FreeKept

\* thread_exit() of a thread that is not the initial one.
LEMMA ExitKernel ==
  ASSUME KernelInv, Queues(Suspended, waiters), cur # Idle, cur # Main, ThreadExit
  PROVE  /\ KernelInv' /\ Queues(Suspended', waiters')
         /\ \A t \in Threads : status'[t] = "FREE" <=> status[t] = "FREE" \/ t = cur
         /\ value' = value /\ waiters' = waiters /\ at' = at
<1> DEFINE st == [status EXCEPT ![cur] = "DYING"]
<1>1. /\ Schedule(st, ready_list, sleep_list, left)
      /\ at' = at /\ value' = value /\ waiters' = waiters
  BY DEF ThreadExit, semaVars
<1>2. /\ cur \in Threads /\ Idle \in Threads /\ at \in [Threads -> Points]
      /\ value \in [Semas -> Nat] /\ waiters \in [Semas -> Seq(Threads)]
      /\ at[Idle] \in {"run", "hlt"} /\ status[cur] = "RUNNING" /\ DOMAIN status = Threads
  BY SchedAssumption DEF KernelInv, KernelTypes, KernelLists
<1>3. /\ \A t \in Threads : st[t] = IF t = cur THEN "DYING" ELSE status[t]
      /\ st = [t \in Threads |-> st[t]]
  BY <1>2
<1> HIDE DEF st
<1>4. \A t \in Threads : st[t] \in {"READY", "BLOCKED", "FREE", "DYING"}
  BY <1>3 DEF KernelInv, KernelTypes, KernelLists
<1>5. st \in [Threads -> {"READY", "BLOCKED", "FREE", "DYING"}]
  BY <1>3, <1>4
<1>6. /\ Range(ready_list) = {t \in Threads \ {Idle} : st[t] = "READY"}
      /\ Range(sleep_list) \subseteq {t \in Threads \ {Idle} : st[t] = "BLOCKED"}
      /\ \A t \in Threads : st[t] = "DYING" => t = cur /\ t # Main
      /\ st[Idle] \notin {"FREE", "DYING"}
  BY <1>2, <1>3, ZenonT(30) DEF KernelInv, KernelTypes, KernelLists
<1>7. Prepared(st, ready_list, sleep_list, left)
  BY <1>5, <1>6 DEF Prepared, KernelInv, KernelTypes, KernelLists
<1>8. /\ KernelInv'
      /\ Suspended' = {t \in Threads \ {Idle} : st[t] = "BLOCKED" /\ t \notin Range(sleep_list)}
      /\ \A t \in Threads : status'[t] = "FREE" <=> st[t] \in {"FREE", "DYING"}
  BY <1>1, <1>2, <1>7, ScheduleKernel
<1>9. Suspended' = Suspended
  BY <1>2, <1>3, <1>8 DEF Suspended
<1>10. \A t \in Threads : status'[t] = "FREE" <=> status[t] = "FREE" \/ t = cur
  BY <1>3, <1>6, <1>8 DEF KernelInv, KernelTypes
<1> QED
  BY <1>1, <1>8, <1>9, <1>10

\* thread_create() makes a thread out of a free page.
LEMMA CreateKernel ==
  ASSUME KernelInv, Queues(Suspended, waiters), NEW t \in Threads, ThreadCreate(t)
  PROVE  /\ KernelInv' /\ Queues(Suspended', waiters')
         /\ status[t] = "FREE" /\ t # Idle
         /\ \A u \in Threads : status'[u] = "FREE" <=> status[u] = "FREE" /\ u # t
         /\ value' = value /\ waiters' = waiters /\ at' = [at EXCEPT ![t] = "run"]
<1>1. /\ status[t] = "FREE" /\ status' = [status EXCEPT ![t] = "READY"]
      /\ ready_list' = Append(ready_list, t)
      /\ at' = [at EXCEPT ![t] = "run"] /\ left' = [left EXCEPT ![t] = 0]
      /\ cur' = cur /\ sleep_list' = sleep_list /\ thread_ticks' = thread_ticks
      /\ value' = value /\ waiters' = waiters
  BY DEF ThreadCreate, semaVars
<1>2. /\ t # Idle /\ t # cur /\ t \notin Range(ready_list) /\ t \notin Range(sleep_list)
      /\ Idle \in Threads
  BY <1>1, SchedAssumption DEF KernelInv, KernelLists
<1>3. /\ ready_list' \in Seq(Threads) /\ IsInjective(ready_list')
      /\ Range(ready_list') = Range(ready_list) \cup {t}
  BY <1>1, <1>2, AppendList DEF KernelInv, KernelTypes, KernelLists
<1>4. \A u \in Threads : status'[u] = IF u = t THEN "READY" ELSE status[u]
  BY <1>1 DEF KernelInv, KernelTypes
<1>5. KernelTypes'
  <2>1. status' \in [Threads -> {"RUNNING", "READY", "BLOCKED", "FREE"}]
    BY <1>1 DEF KernelInv, KernelTypes
  <2>2. at' \in [Threads -> Points] /\ left' \in [Threads -> Nat]
    BY <1>1 DEF KernelInv, KernelTypes, Points
  <2> QED
    BY <2>1, <2>2, <1>1, <1>3 DEF KernelInv, KernelTypes
<1>6. KernelLists'
  <2>1. Range(ready_list') = {u \in Threads \ {Idle} : status'[u] = "READY"}
    BY <1>2, <1>3, <1>4 DEF KernelInv, KernelLists
  <2>2. Range(sleep_list') \subseteq {u \in Threads \ {Idle} : status'[u] = "BLOCKED"}
    BY <1>1, <1>2, <1>4 DEF KernelInv, KernelLists
  <2>3. \A u \in Threads : status'[u] = "RUNNING" <=> u = cur'
    BY <1>1, <1>2, <1>4 DEF KernelInv, KernelLists
  <2>4. status'[Idle] # "FREE" /\ at'[Idle] = at[Idle]
    BY <1>1, <1>2, <1>4 DEF KernelInv, KernelTypes, KernelLists
  <2> QED
    BY <2>1, <2>2, <2>3, <2>4, <1>1, <1>3 DEF KernelInv, KernelLists
<1>7. Suspended' = Suspended
  BY <1>1, <1>2, <1>4 DEF Suspended
<1> QED
  BY <1>1, <1>2, <1>4, <1>5, <1>6, <1>7 DEF KernelInv

-----------------------------------------------------------------------------
(* The driver.                                                             *)

DeviceStates == {"idle", "error", "stuck", "reading", "writing", "storing", "drq_in", "drq_out"}
Data == Values \cup {"none"}

\* The types of the driver's and of the disk's variables.
DiskTypes ==
  /\ op \in [Threads -> [kind : {"none", "identify", "scan", "read", "write"},
                         disk : DiskSet, sec : Nat, val : Data]]
  /\ \A t \in Threads : op[t].sec < Size[op[t].disk]
  /\ DOMAIN buffer = Threads
  /\ expecting_interrupt \in BOOLEAN
  /\ is_ata \in [DiskSet -> BOOLEAN]
  /\ dev \in [state : DeviceStates, intrq : BOOLEAN, disk : DiskSet, sec : Nat, data : Data]
  /\ dev.sec < Size[dev.disk]
  /\ faults \in Nat /\ spurious \in Nat
  /\ DOMAIN media = DiskSet /\ DOMAIN written = DiskSet
  /\ \A d \in DiskSet : /\ DOMAIN media[d] = 0..(Size[d] - 1)
                        /\ DOMAIN written[d] = 0..(Size[d] - 1)

\* The initial thread is in ide_init().
Booting == at[Main] \in {"check", "identify"} \/ op[Main].kind \in {"identify", "scan"}

\* A thread's point goes with its request.  While the initial thread is in
\* ide_init() there is no other.
CallPoint(t) ==
  /\ at[t] \in {"run", "hlt", "check"} => op[t].kind = "none"
  /\ at[t] = "identify" => op[t].kind \in {"none", "identify"}
  /\ at[t] \in {"acquire", "release"} => op[t].kind \in {"read", "write", "scan"}
  /\ at[t] \in {"select", "command", "complete", "busy", "nap"} => op[t].kind # "none"
  /\ at[t] = "input" => op[t].kind \in {"read", "scan", "identify"}
  /\ at[t] = "output" => op[t].kind = "write"
  /\ t # Main => at[t] \notin {"check", "identify"} /\ op[t].kind \notin {"identify", "scan"}
  /\ status[t] = "FREE" => at[t] = "run"

CallPoints ==
  /\ \A t \in Threads : CallPoint(t)
  /\ Booting => \A t \in Threads \ {Main, Idle} : status[t] = "FREE"

\* A thread on a list of waiters is in the sema_down() of that semaphore.
WaitPoints ==
  /\ \A t \in Range(waiters[Lock]) : at[t] = "acquire"
  /\ \A t \in Range(waiters[Completion]) : at[t] = "complete"

\* The channel has one user, who has its lock, unless it is ide_init().
LockHeld ==
  /\ \A t, u \in Threads : InRequest(t) /\ InRequest(u) => t = u
  /\ \A t \in Threads : InRequest(t) /\ op[t].kind # "identify" => value[Lock] = 0
  /\ value[Lock] <= 1

\* The points between the selection of a sector and the end of its transfer.
Engaged == {"command", "complete", "busy", "nap", "input", "output"}

\* Thread t's request may be mixed up with a store that was still going on.
Mixed(t) == written[op[t].disk][op[t].sec] = "unknown"

\* What the disk can be doing when thread t is at one of them.
DeviceAt(t) ==
  /\ at[t] = "command" =>
       \/ dev.state \in {"idle", "error", "stuck"}
       \/ dev.state = "storing" /\ Mixed(t) /\ written[dev.disk][dev.sec] = "unknown"
  /\ at[t] = "complete" /\ op[t].kind = "write" =>
       dev.state \in {"storing", "idle", "error", "stuck"}
  /\ at[t] \in {"complete", "busy", "nap"} /\ op[t].kind # "write" =>
       \/ dev.state \in {"reading", "drq_in", "error", "stuck"}
       \/ dev.state \in {"storing", "idle"} /\ Mixed(t)
  /\ at[t] \in {"busy", "nap"} /\ op[t].kind = "write" =>
       \/ dev.state \in {"writing", "drq_out", "error", "stuck"}
       \/ dev.state \in {"storing", "idle"} /\ Mixed(t)
  /\ at[t] = "input" => dev.state = "drq_in"
  /\ at[t] = "output" => dev.state = "drq_out"
  /\ at[t] \in Engaged => \/ dev.disk = op[t].disk /\ dev.sec = op[t].sec
                          \/ Mixed(t) /\ written[dev.disk][dev.sec] = "unknown"
  /\ at[t] \in Engaged \ {"command"} => expecting_interrupt

DeviceRight ==
  /\ \A t \in Threads : DeviceAt(t)
  /\ (\A t \in Threads : at[t] \notin Engaged) =>
       dev.state \in {"idle", "error", "stuck", "storing"}
  /\ dev.state \in {"error", "stuck"} => faults > 0

\* Thread t has given a command and not yet downed its completion.
Owed(t) == at[t] = "complete" \/ (op[t].kind = "write" /\ at[t] \in {"busy", "nap", "output"})

\* CompletionsMatch, counted from the command on: the interrupt that the disk
\* is going to raise is one of them.
Completions ==
  value[Completion] + (IF dev.intrq THEN 1 ELSE 0)
    + (IF dev.state \in {"reading", "writing", "drq_out", "storing"} THEN 1 ELSE 0)
  <= spurious + (IF \E t \in Threads : Owed(t) THEN 1 ELSE 0)

\* The completion that a thread is about to down is there or will come.
CompletionDue ==
  /\ \A t \in Threads : at[t] = "complete" =>
       value[Completion] > 0 \/ dev.intrq \/ dev.state \in {"reading", "storing", "stuck"}
  /\ waiters[Completion] # <<>> => value[Completion] = 0

\* A sector holds what was last written to it, except for the one being stored
\* and those of which it is not known.
MediaRight ==
  /\ \A d \in DiskSet : \A s \in 0..(Size[d] - 1) :
       \/ written[d][s] \in {media[d][s], "unknown"}
       \/ dev.state = "storing" /\ d = dev.disk /\ s = dev.sec
  /\ dev.state = "storing" => written[dev.disk][dev.sec] \in {dev.data, "unknown"}
  /\ ReadsLastWrite

\* What is registered is a small disk or lies on its disk; what is identified is
\* a disk.
BlocksRight ==
  /\ \A d \in DiskSet : is_ata[d] => kind[d] \in {"ata", "huge"}
  /\ \A t \in Threads : op[t].kind = "identify" /\ at[t] # "identify" => is_ata[op[t].disk]
  /\ \A d \in DiskSet \cap all_blocks : kind[d] = "ata"
  /\ \A p \in Parts \cap all_blocks : FoundPartition(p)
  /\ panic # "raw"

DriverInv ==
  /\ DiskTypes /\ CallPoints /\ WaitPoints /\ LockHeld
  /\ DeviceRight /\ Completions /\ CompletionDue /\ MediaRight /\ BlocksRight

\* The inductive invariant.
DiskInv == KernelInv /\ Queues(Suspended, waiters) /\ DriverInv

\* The constants.
LEMMA DiskConstants ==
  /\ DiskSet = {"hda", "hdb"} /\ Disks[1] = "hda" /\ Disks \in Seq(DiskSet)
  /\ Semas = {Lock, Completion} /\ Lock \in Semas /\ Completion \in Semas /\ Lock # Completion
  /\ \A d \in DiskSet : Size[d] \in Nat /\ Size[d] > 0
  /\ Main \in Threads /\ Idle \in Threads /\ Main # Idle
<1>1. DiskSet = {"hda", "hdb"} /\ Disks[1] = "hda" /\ Disks \in Seq(DiskSet)
  BY DEF DiskSet, Disks, Range
<1> QED
  BY <1>1, DiskAssumption, SchedAssumption

\* Where idle stands it has no request.
LEMMA IdleRests ==
  ASSUME KernelInv, CallPoints
  PROVE  /\ at[Idle] \in {"run", "hlt"} /\ op[Idle].kind = "none"
         /\ ~InRequest(Idle) /\ ~Owed(Idle) /\ at[Idle] \notin Engaged
  BY DiskConstants DEF KernelInv, KernelLists, CallPoints, CallPoint, InRequest, Owed, Engaged

\* The thread at a point of a request is the only one: the disk works for it
\* alone.
LEMMA SoleRequest ==
  ASSUME LockHeld, CallPoints, NEW t \in Threads, InRequest(t)
  PROVE  \A u \in Threads \ {t} :
           /\ ~InRequest(u) /\ ~Owed(u) /\ at[u] \notin Engaged
           /\ at[u] \notin {"select", "release"}
<1> SUFFICES ASSUME NEW u \in Threads \ {t}
             PROVE  /\ ~InRequest(u) /\ ~Owed(u) /\ at[u] \notin Engaged
                    /\ at[u] \notin {"select", "release"}
  OBVIOUS
<1>1. ~InRequest(u)
  BY DEF LockHeld
<1>2. CallPoint(u)
  BY DEF CallPoints
<1> QED
  BY <1>1, <1>2 DEF InRequest, CallPoint, Owed, Engaged

\* When at most idle moves and no thread comes or goes, the points stay right.
LEMMA PointsFrame ==
  ASSUME DiskInv, KernelInv', op' = op, FreeKept, \A t \in Threads \ {Idle} : at'[t] = at[t]
  PROVE  CallPoints'
<1>1. /\ at[Idle] \in {"run", "hlt"} /\ at'[Idle] \in {"run", "hlt"} /\ op[Idle].kind = "none"
      /\ Idle \in Threads /\ Main \in Threads /\ Main # Idle /\ status'[Idle] # "FREE"
  BY IdleRests, DiskConstants DEF DiskInv, DriverInv, KernelInv, KernelLists
<1>2. \A t \in Threads \ {Idle} : CallPoint(t)'
  BY DEF DiskInv, DriverInv, CallPoints, CallPoint, FreeKept
<1>3. CallPoint(Idle)'
  BY <1>1 DEF CallPoint
<1>4. Booting' <=> Booting
  BY <1>1 DEF Booting
<1> QED
  BY <1>2, <1>3, <1>4 DEF DiskInv, DriverInv, CallPoints, FreeKept

\* A step of the kernel alone: at most idle moves.
LEMMA DriverFrame ==
  ASSUME DiskInv, KernelInv', UNCHANGED <<diskVars, hwVars, panic, written>>,
         value' = value, waiters' = waiters, CallPoints',
         \A t \in Threads \ {Idle} : at'[t] = at[t]
  PROVE  DriverInv'
<1>1. /\ op' = op /\ buffer' = buffer /\ expecting_interrupt' = expecting_interrupt
      /\ is_ata' = is_ata /\ all_blocks' = all_blocks /\ dev' = dev /\ kind' = kind
      /\ media' = media /\ faults' = faults /\ spurious' = spurious /\ panic' = panic
      /\ written' = written
  BY DEF diskVars, hwVars
<1>2. /\ at[Idle] \in {"run", "hlt"} /\ at'[Idle] \in {"run", "hlt"} /\ op[Idle].kind = "none"
      /\ Idle \in Threads /\ Main \in Threads /\ Main # Idle /\ status'[Idle] # "FREE"
  BY IdleRests, DiskConstants DEF DiskInv, DriverInv, KernelInv, KernelLists
<1>3. \A t \in Threads : /\ InRequest(t)' <=> InRequest(t)
                         /\ Owed(t)' <=> Owed(t)
                         /\ at'[t] \in Engaged <=> at[t] \in Engaged
                         /\ \A p \in {"complete", "release", "acquire", "identify"} :
                              at'[t] = p <=> at[t] = p
  BY <1>1, <1>2 DEF InRequest, Owed, Engaged
<1>4. DiskTypes'
  BY <1>1 DEF DiskInv, DriverInv, DiskTypes
<1>6. WaitPoints'
  <2>1. \A s \in Semas : Range(waiters[s]) \subseteq Threads
    BY RangeSeq DEF DiskInv, KernelInv, KernelTypes
  <2> QED
    BY <2>1, <1>3, DiskConstants DEF DiskInv, DriverInv, WaitPoints
<1>7. LockHeld'
  BY <1>1, <1>3 DEF DiskInv, DriverInv, LockHeld
<1>8. DeviceRight'
  <2>1. \A t \in Threads \ {Idle} : DeviceAt(t)'
    BY <1>1 DEF DiskInv, DriverInv, DeviceRight, DeviceAt, Mixed
  <2>2. DeviceAt(Idle)'
    BY <1>2 DEF DeviceAt, Mixed, Engaged
  <2> QED
    BY <1>1, <1>3, <2>1, <2>2 DEF DiskInv, DriverInv, DeviceRight
<1>9. Completions'
  <2>1. (\E t \in Threads : Owed(t)') <=> (\E t \in Threads : Owed(t))
    BY <1>3
  <2> QED
    BY <1>1, <2>1 DEF DiskInv, DriverInv, Completions
<1>10. CompletionDue'
  BY <1>1, <1>3 DEF DiskInv, DriverInv, CompletionDue
<1>11. MediaRight'
  BY <1>1, <1>3 DEF DiskInv, DriverInv, MediaRight, ReadsLastWrite
<1>12. BlocksRight'
  BY <1>1, <1>3 DEF DiskInv, DriverInv, BlocksRight
<1> QED
  BY <1>4, <1>6, <1>7, <1>8, <1>9, <1>10, <1>11, <1>12 DEF DriverInv

\* A timer interrupt keeps the invariant: it moves nobody but idle.
LEMMA TickInv ==
  ASSUME DiskInv, Tick
  PROVE  DiskInv'
<1>1. /\ KernelInv' /\ Queues(Suspended', waiters') /\ FreeKept
      /\ value' = value /\ waiters' = waiters
      /\ at' = [at EXCEPT ![Idle] = IF cur = Idle THEN "run" ELSE @]
  BY TickKernel DEF DiskInv, Tick
<1>2. \A t \in Threads \ {Idle} : at'[t] = at[t]
  BY <1>1 DEF DiskInv, KernelInv, KernelTypes
<1>3. CallPoints'
  BY <1>1, <1>2, PointsFrame DEF Tick, diskVars
<1>4. DriverInv'
  BY <1>1, <1>2, <1>3, DriverFrame DEF Tick
<1> QED
  BY <1>1, <1>4 DEF DiskInv

\* So does a round of the idle thread.
LEMMA IdleStepInv ==
  ASSUME DiskInv, IdleStep
  PROVE  DiskInv'
<1>1. /\ KernelInv' /\ Queues(Suspended', waiters') /\ FreeKept
      /\ value' = value /\ waiters' = waiters
      /\ at' = [at EXCEPT ![Idle] = "hlt"]
  BY IdleKernel DEF DiskInv, IdleStep
<1>2. \A t \in Threads \ {Idle} : at'[t] = at[t]
  BY <1>1 DEF DiskInv, KernelInv, KernelTypes
<1>3. CallPoints'
  BY <1>1, <1>2, PointsFrame DEF IdleStep, diskVars
<1>4. DriverInv'
  BY <1>1, <1>2, <1>3, DriverFrame DEF IdleStep
<1> QED
  BY <1>1, <1>4 DEF DiskInv

\* The sectors of requests and registers are on the disks.
LEMMA SectorsOnDisk ==
  ASSUME DiskTypes
  PROVE  /\ \A t \in Threads : op[t].disk \in DiskSet /\ op[t].sec \in 0..(Size[op[t].disk] - 1)
         /\ dev.disk \in DiskSet /\ dev.sec \in 0..(Size[dev.disk] - 1)
<1>1. ASSUME NEW d \in DiskSet, NEW n \in Nat, n < Size[d]
      PROVE  n \in 0..(Size[d] - 1)
  BY <1>1, DiskConstants
<1>2. ASSUME NEW t \in Threads
      PROVE  op[t].disk \in DiskSet /\ op[t].sec \in Nat /\ op[t].sec < Size[op[t].disk]
  BY DEF DiskTypes
<1>3. dev.disk \in DiskSet /\ dev.sec \in Nat /\ dev.sec < Size[dev.disk]
  BY DEF DiskTypes
<1> QED
  BY <1>1, <1>2, <1>3

\* What a mix-up or a failed store does to written.
LEMMA DoubtWritten ==
  ASSUME NEW sectors, Doubt(sectors)
  PROVE  /\ DOMAIN written' = DiskSet /\ \A d \in DiskSet : DOMAIN written'[d] = 0..(Size[d] - 1)
         /\ \A d \in DiskSet : \A s \in 0..(Size[d] - 1) :
              written'[d][s] = IF <<d, s>> \in sectors THEN "unknown" ELSE written[d][s]
  BY DEF Doubt

\* A step of the disk alone.
LEMMA DeviceFrame ==
  ASSUME DiskInv, UNCHANGED <<kernelVars, diskVars, kind, panic>>
  PROVE  /\ KernelInv' /\ Queues(Suspended', waiters')
         /\ CallPoints' /\ WaitPoints' /\ LockHeld' /\ BlocksRight'
         /\ \A t \in Threads : InRequest(t)' = InRequest(t) /\ Owed(t)' = Owed(t)
         /\ op' = op /\ at' = at /\ value' = value /\ waiters' = waiters /\ buffer' = buffer
         /\ expecting_interrupt' = expecting_interrupt /\ is_ata' = is_ata
<1>1. /\ op' = op /\ buffer' = buffer /\ expecting_interrupt' = expecting_interrupt
      /\ is_ata' = is_ata /\ all_blocks' = all_blocks /\ kind' = kind /\ panic' = panic
      /\ at' = at /\ value' = value /\ waiters' = waiters
      /\ cur' = cur /\ status' = status /\ ready_list' = ready_list
      /\ sleep_list' = sleep_list /\ left' = left /\ thread_ticks' = thread_ticks
  BY DEF diskVars, kernelVars, schedVars, semaVars
<1>2. KernelInv' /\ Suspended' = Suspended
  BY <1>1 DEF DiskInv, KernelInv, KernelTypes, KernelLists, Suspended
<1>3. \A t \in Threads : InRequest(t)' = InRequest(t) /\ Owed(t)' = Owed(t)
  BY <1>1 DEF InRequest, Owed
<1>4. CallPoints' /\ WaitPoints' /\ LockHeld'
  <2>1. CallPoints'
    BY <1>1 DEF DiskInv, DriverInv, CallPoints, CallPoint, Booting
  <2>2. WaitPoints' /\ LockHeld'
    BY <1>1, <1>3 DEF DiskInv, DriverInv, WaitPoints, LockHeld
  <2> QED
    BY <2>1, <2>2
<1>5. BlocksRight'
  BY <1>1 DEF DiskInv, DriverInv, BlocksRight
<1> QED
  BY <1>1, <1>2, <1>3, <1>4, <1>5 DEF DiskInv

\* The disk finishes a step: the interrupt it raises is the one that was counted
\* for the command, and what it stores is what ide_write() put out.
LEMMA DeviceStepInv ==
  ASSUME DiskInv, DeviceStep
  PROVE  DiskInv'
<1>1. /\ KernelInv' /\ Queues(Suspended', waiters')
      /\ CallPoints' /\ WaitPoints' /\ LockHeld' /\ BlocksRight'
      /\ \A t \in Threads : InRequest(t)' = InRequest(t) /\ Owed(t)' = Owed(t)
      /\ op' = op /\ at' = at /\ value' = value /\ waiters' = waiters /\ buffer' = buffer
      /\ expecting_interrupt' = expecting_interrupt /\ is_ata' = is_ata
  BY DeviceFrame DEF DeviceStep
<1>2. faults' = faults /\ spurious' = spurious /\ panic' = panic /\ written' = written
  BY DEF DeviceStep
<1>3. /\ DiskTypes /\ DeviceRight /\ Completions /\ CompletionDue /\ MediaRight
      /\ value \in [Semas -> Nat]
  BY DEF DiskInv, DriverInv, KernelInv, KernelTypes
<1>4. /\ dev.state \in {"reading", "writing", "storing"}
      /\ dev'.state = IF dev.state = "reading" THEN "drq_in"
                      ELSE IF dev.state = "writing" THEN "drq_out" ELSE "idle"
      /\ dev'.intrq = (dev.intrq \/ dev.state \in {"reading", "storing"})
      /\ dev'.disk = dev.disk /\ dev'.sec = dev.sec /\ dev'.data = dev.data
      /\ dev' \in [state : DeviceStates, intrq : BOOLEAN, disk : DiskSet, sec : Nat, data : Data]
  BY <1>3 DEF DeviceStep, Raise, DiskTypes, DeviceStates
<1>5. media' = IF dev.state = "storing"
               THEN [media EXCEPT ![dev.disk][dev.sec] = dev.data] ELSE media
  BY DEF DeviceStep
<1>6. DiskTypes'
  <2>1. DOMAIN media' = DiskSet /\ \A d \in DiskSet : DOMAIN media'[d] = 0..(Size[d] - 1)
    BY <1>3, <1>5 DEF DiskTypes
  <2> QED
    BY <2>1, <1>1, <1>2, <1>3, <1>4 DEF DiskTypes
<1>7. DeviceRight'
  <2>1. ASSUME NEW t \in Threads PROVE DeviceAt(t)'
    BY <1>1, <1>2, <1>3, <1>4 DEF DeviceRight, DeviceAt, Mixed
  <2>2. (\A t \in Threads : at'[t] \notin Engaged) =>
          dev'.state \in {"idle", "error", "stuck", "storing"}
    BY <1>1, <1>3, <1>4 DEF DeviceRight
  <2> QED
    BY <2>1, <2>2, <1>1, <1>2, <1>3, <1>4 DEF DeviceRight
<1>8. Completions'
  <2>1. (\E t \in Threads : Owed(t)') <=> (\E t \in Threads : Owed(t))
    BY <1>1
  <2>2. /\ value[Completion] \in Nat /\ spurious \in Nat
    BY <1>3, DiskConstants DEF DiskTypes
  <2> QED
    BY <2>1, <2>2, <1>1, <1>2, <1>3, <1>4 DEF Completions
<1>9. CompletionDue'
  BY <1>1, <1>3, <1>4 DEF CompletionDue, DeviceRight, DeviceAt, Mixed
<1>10. MediaRight'
  <2>1. ReadsLastWrite'
    BY <1>1, <1>2, <1>3 DEF MediaRight, ReadsLastWrite
  <2>2. CASE dev.state = "storing"
    <3>1. \A d \in DiskSet : \A s \in 0..(Size[d] - 1) :
            media'[d][s] = IF d = dev.disk /\ s = dev.sec THEN dev.data ELSE media[d][s]
      BY <2>2, <1>3, <1>5 DEF DiskTypes
    <3> QED
      BY <3>1, <2>1, <2>2, <1>2, <1>3, <1>4 DEF MediaRight
  <2>3. CASE dev.state # "storing"
    BY <2>1, <2>3, <1>2, <1>3, <1>4, <1>5 DEF MediaRight
  <2> QED
    BY <2>2, <2>3
<1> QED
  BY <1>1, <1>6, <1>7, <1>8, <1>9, <1>10 DEF DiskInv, DriverInv

\* A command fails or the disk hangs: its completion is raised or stays away, and
\* faults tells of it.
LEMMA DeviceFaultInv ==
  ASSUME DiskInv, DeviceFault
  PROVE  DiskInv'
<1>1. /\ KernelInv' /\ Queues(Suspended', waiters')
      /\ CallPoints' /\ WaitPoints' /\ LockHeld' /\ BlocksRight'
      /\ \A t \in Threads : InRequest(t)' = InRequest(t) /\ Owed(t)' = Owed(t)
      /\ op' = op /\ at' = at /\ value' = value /\ waiters' = waiters /\ buffer' = buffer
      /\ expecting_interrupt' = expecting_interrupt /\ is_ata' = is_ata
  BY DeviceFrame DEF DeviceFault
<1>2. /\ faults' = faults + 1 /\ spurious' = spurious /\ panic' = panic
      /\ media' = media
  BY DEF DeviceFault
<1>3. /\ DiskTypes /\ DeviceRight /\ Completions /\ CompletionDue /\ MediaRight
      /\ value \in [Semas -> Nat]
  BY DEF DiskInv, DriverInv, KernelInv, KernelTypes
<1>10. /\ DOMAIN written' = DiskSet /\ \A d \in DiskSet : DOMAIN written'[d] = 0..(Size[d] - 1)
       /\ \A d \in DiskSet : \A s \in 0..(Size[d] - 1) :
            written'[d][s] = IF dev.state = "storing" /\ d = dev.disk /\ s = dev.sec
                             THEN "unknown" ELSE written[d][s]
       /\ \A t \in Threads : Mixed(t) => Mixed(t)'
       /\ written[dev.disk][dev.sec] = "unknown" => written'[dev.disk][dev.sec] = "unknown"
  <2> PICK sectors : sectors = IF dev.state = "storing" THEN {<<dev.disk, dev.sec>>} ELSE {}
    OBVIOUS
  <2>1. Doubt(sectors) /\ op' = op /\ DiskTypes
    BY <1>1, <1>3 DEF DeviceFault
  <2>2. /\ DOMAIN written' = DiskSet /\ \A d \in DiskSet : DOMAIN written'[d] = 0..(Size[d] - 1)
        /\ \A d \in DiskSet : \A s \in 0..(Size[d] - 1) :
             written'[d][s] = IF <<d, s>> \in sectors THEN "unknown" ELSE written[d][s]
    BY <2>1, DoubtWritten
  <2>3. \A t \in Threads : Mixed(t) => Mixed(t)'
    BY <2>1, <2>2, SectorsOnDisk DEF Mixed
  <2>4. ASSUME NEW d \in DiskSet, NEW s \in 0..(Size[d] - 1)
        PROVE  <<d, s>> \in sectors <=> dev.state = "storing" /\ d = dev.disk /\ s = dev.sec
    OBVIOUS
  <2>5. /\ DOMAIN written' = DiskSet /\ \A d \in DiskSet : DOMAIN written'[d] = 0..(Size[d] - 1)
        /\ \A d \in DiskSet : \A s \in 0..(Size[d] - 1) :
             written'[d][s] = IF dev.state = "storing" /\ d = dev.disk /\ s = dev.sec
                              THEN "unknown" ELSE written[d][s]
    BY <2>2, <2>4
  <2> QED
    BY <2>3, <2>5, <1>3, SectorsOnDisk
<1>4. /\ dev.state \in {"reading", "writing", "storing"}
      /\ dev'.state \in {"error", "stuck"}
      /\ dev'.intrq = (dev.intrq \/ dev'.state = "error")
      /\ dev'.disk = dev.disk /\ dev'.sec = dev.sec /\ dev'.data = dev.data
      /\ dev' \in [state : DeviceStates, intrq : BOOLEAN, disk : DiskSet, sec : Nat, data : Data]
  BY <1>3 DEF DeviceFault, Raise, DiskTypes, DeviceStates
<1>5. DiskTypes'
  BY <1>1, <1>2, <1>3, <1>4, <1>10 DEF DiskTypes
<1>6. DeviceRight'
  <2>1. ASSUME NEW t \in Threads PROVE DeviceAt(t)'
    BY <1>1, <1>3, <1>4, <1>10 DEF DeviceRight, DeviceAt
  <2>2. faults' > 0
    BY <1>2, <1>3 DEF DiskTypes
  <2> QED
    BY <2>1, <2>2, <1>1, <1>2, <1>3, <1>4 DEF DeviceRight
<1>7. Completions'
  <2>1. (\E t \in Threads : Owed(t)') <=> (\E t \in Threads : Owed(t))
    BY <1>1
  <2>2. /\ value[Completion] \in Nat /\ spurious \in Nat
    BY <1>3, DiskConstants DEF DiskTypes
  <2> QED
    BY <2>1, <2>2, <1>1, <1>2, <1>3, <1>4 DEF Completions
<1>8. CompletionDue'
  BY <1>1, <1>3, <1>4 DEF CompletionDue, DeviceRight, DeviceAt, Mixed
<1>9. MediaRight'
  <2>1. ReadsLastWrite'
    BY <1>1, <1>3, <1>10, SectorsOnDisk DEF MediaRight, ReadsLastWrite
  <2> QED
    BY <2>1, <1>2, <1>3, <1>4, <1>10 DEF MediaRight
<1> QED
  BY <1>1, <1>5, <1>6, <1>7, <1>8, <1>9 DEF DiskInv, DriverInv

\* An interrupt for no command is counted in spurious.
LEMMA SpuriousInterruptInv ==
  ASSUME DiskInv, SpuriousInterrupt
  PROVE  DiskInv'
<1>1. /\ KernelInv' /\ Queues(Suspended', waiters')
      /\ CallPoints' /\ WaitPoints' /\ LockHeld' /\ BlocksRight'
      /\ \A t \in Threads : InRequest(t)' = InRequest(t) /\ Owed(t)' = Owed(t)
      /\ op' = op /\ at' = at /\ value' = value /\ waiters' = waiters /\ buffer' = buffer
      /\ expecting_interrupt' = expecting_interrupt /\ is_ata' = is_ata
  BY DeviceFrame DEF SpuriousInterrupt
<1>2. /\ faults' = faults /\ spurious' = spurious + 1 /\ panic' = panic /\ written' = written
      /\ media' = media
  BY DEF SpuriousInterrupt
<1>3. /\ DiskTypes /\ DeviceRight /\ Completions /\ CompletionDue /\ MediaRight
      /\ value \in [Semas -> Nat]
  BY DEF DiskInv, DriverInv, KernelInv, KernelTypes
<1>4. /\ ~dev.intrq /\ dev'.intrq /\ dev'.state = dev.state
      /\ dev'.disk = dev.disk /\ dev'.sec = dev.sec /\ dev'.data = dev.data
      /\ dev' \in [state : DeviceStates, intrq : BOOLEAN, disk : DiskSet, sec : Nat, data : Data]
  BY <1>3 DEF SpuriousInterrupt, DiskTypes
<1>5. DiskTypes'
  BY <1>1, <1>2, <1>3, <1>4 DEF DiskTypes
<1>6. DeviceRight'
  <2>1. ASSUME NEW t \in Threads PROVE DeviceAt(t)'
    BY <1>1, <1>2, <1>3, <1>4 DEF DeviceRight, DeviceAt, Mixed
  <2> QED
    BY <2>1, <1>1, <1>2, <1>3, <1>4 DEF DeviceRight
<1>7. Completions'
  <2>1. (\E t \in Threads : Owed(t)') <=> (\E t \in Threads : Owed(t))
    BY <1>1
  <2>2. /\ value[Completion] \in Nat /\ spurious \in Nat
    BY <1>3, DiskConstants DEF DiskTypes
  <2> QED
    BY <2>1, <2>2, <1>1, <1>2, <1>3, <1>4 DEF Completions
<1>8. CompletionDue'
  BY <1>1, <1>3, <1>4 DEF CompletionDue
<1>9. MediaRight'
  BY <1>1, <1>2, <1>3, <1>4 DEF MediaRight, ReadsLastWrite
<1> QED
  BY <1>1, <1>5, <1>6, <1>7, <1>8, <1>9 DEF DiskInv, DriverInv

\* A thread that waits for the completion is the only one that does.
LEMMA OneWaiter ==
  ASSUME DiskInv, waiters[Completion] # <<>>
  PROVE  Tail(waiters[Completion]) = <<>>
<1> DEFINE w == waiters[Completion]
<1>1. w \in Seq(Threads) /\ IsInjective(w) /\ w # <<>>
  BY DiskConstants DEF DiskInv, KernelInv, KernelTypes, Queues
<1>2. \A t \in Range(w) : t \in Threads /\ at[t] = "complete"
  BY <1>1, RangeSeq DEF DiskInv, DriverInv, WaitPoints
<1>3. \A t \in Range(w) : InRequest(t)
  BY <1>2 DEF DiskInv, DriverInv, CallPoints, CallPoint, InRequest
<1>4. \A t, u \in Range(w) : t = u
  BY <1>2, <1>3 DEF DiskInv, DriverInv, LockHeld
<1> HIDE DEF w
<1>5. /\ Head(w) \in Range(w) /\ Tail(w) \in Seq(Threads)
      /\ Range(Tail(w)) = Range(w) \ {Head(w)}
  BY <1>1, TailList
<1>6. Range(Tail(w)) = {}
  BY <1>4, <1>5
<1>7. Tail(w) # <<>> => Head(Tail(w)) \in Range(Tail(w))
  BY <1>5, TailList
<1> QED
  BY <1>6, <1>7 DEF w

\* interrupt_handler() turns the pending interrupt into a completion, and wakes
\* the only thread that can wait for one.
LEMMA DiskInterruptInv ==
  ASSUME DiskInv, DiskInterrupt
  PROVE  DiskInv'
<1>1. /\ op' = op /\ buffer' = buffer /\ expecting_interrupt' = expecting_interrupt
      /\ is_ata' = is_ata /\ all_blocks' = all_blocks /\ kind' = kind
      /\ media' = media /\ faults' = faults /\ spurious' = spurious /\ panic' = panic
      /\ written' = written /\ dev.intrq
      /\ at' = [at EXCEPT ![Idle] = IF cur = Idle THEN "run" ELSE @]
      /\ dev' = [dev EXCEPT !.intrq = FALSE]
  BY DEF DiskInterrupt, InterruptEntry, HandleInterrupt, diskVars
<1>2. /\ DiskTypes /\ CallPoints /\ WaitPoints /\ LockHeld /\ DeviceRight /\ Completions
      /\ CompletionDue /\ MediaRight /\ BlocksRight /\ KernelInv /\ Queues(Suspended, waiters)
      /\ value \in [Semas -> Nat] /\ at \in [Threads -> Points] /\ cur \in Threads
      /\ waiters \in [Semas -> Seq(Threads)]
  BY DEF DiskInv, DriverInv, KernelInv, KernelTypes
<1>3. /\ at[Idle] \in {"run", "hlt"} /\ op[Idle].kind = "none" /\ Idle \in Threads
      /\ Main \in Threads /\ Main # Idle
      /\ Lock \in Semas /\ Completion \in Semas /\ Lock # Completion
  BY <1>2, IdleRests, DiskConstants
<1>4. /\ at'[Idle] \in {"run", "hlt"} /\ \A t \in Threads \ {Idle} : at'[t] = at[t]
      /\ at' \in [Threads -> Points]
  <2>1. (IF cur = Idle THEN "run" ELSE at[Idle]) \in Points
    BY <1>2, <1>3 DEF Points
  <2> QED
    BY <2>1, <1>1, <1>2, <1>3
<1>5. /\ KernelInv' /\ Queues(Suspended', waiters') /\ FreeKept
      /\ \/ /\ expecting_interrupt /\ value' = [value EXCEPT ![Completion] = @ + 1]
            /\ waiters' = [waiters EXCEPT ![Completion] = IF @ = <<>> THEN @ ELSE Tail(@)]
         \/ ~expecting_interrupt /\ value' = value /\ waiters' = waiters
  <2>1. CASE expecting_interrupt /\ SemaUp(Completion)
    BY <2>1, <1>2, <1>3, <1>4, UpKernel
  <2>2. CASE ~expecting_interrupt /\ UNCHANGED <<schedVars, semaVars>>
    <3>1. left' \in [Threads -> Nat]
      BY <2>2 DEF DiskInv, KernelInv, KernelTypes, schedVars
    <3>2. UNCHANGED <<cur, status, ready_list, sleep_list, thread_ticks, semaVars>>
      BY <2>2 DEF schedVars
    <3> QED
      BY <3>1, <3>2, <2>2, <1>2, <1>4, MoveKernel
  <2> QED
    BY <2>1, <2>2 DEF DiskInterrupt, HandleInterrupt
<1>6. /\ ~dev'.intrq /\ dev'.state = dev.state
      /\ dev'.disk = dev.disk /\ dev'.sec = dev.sec /\ dev'.data = dev.data
      /\ dev' \in [state : DeviceStates, intrq : BOOLEAN, disk : DiskSet, sec : Nat, data : Data]
  BY <1>1, <1>2 DEF DiskTypes
<1>7. \A t \in Threads : /\ InRequest(t)' <=> InRequest(t)
                         /\ Owed(t)' <=> Owed(t)
                         /\ at'[t] \in Engaged <=> at[t] \in Engaged
                         /\ \A p \in {"complete", "release", "acquire", "identify"} :
                              at'[t] = p <=> at[t] = p
  BY <1>1, <1>3, <1>4 DEF InRequest, Owed, Engaged
<1>8. DiskTypes'
  BY <1>1, <1>2, <1>6 DEF DiskTypes
<1>9. CallPoints'
  <2>1. \A t \in Threads \ {Idle} : CallPoint(t)'
    BY <1>1, <1>2, <1>4, <1>5 DEF CallPoints, CallPoint, FreeKept
  <2>2. CallPoint(Idle)'
    BY <1>1, <1>3, <1>4, <1>5 DEF CallPoint, KernelInv, KernelLists
  <2>3. Booting' <=> Booting
    BY <1>1, <1>3, <1>4 DEF Booting
  <2> QED
    BY <2>1, <2>2, <2>3, <1>2, <1>5 DEF CallPoints, FreeKept
<1>10. /\ waiters'[Lock] = waiters[Lock] /\ value'[Lock] = value[Lock]
       /\ Range(waiters'[Completion]) \subseteq Range(waiters[Completion])
       /\ \A s \in Semas : Range(waiters[s]) \subseteq Threads
  <2>1. \A s \in Semas : Range(waiters[s]) \subseteq Threads
    BY <1>2, RangeSeq
  <2>2. waiters[Completion] # <<>> =>
          Range(Tail(waiters[Completion])) \subseteq Range(waiters[Completion])
    BY <1>2, <1>3, TailList
  <2> QED
    BY <2>1, <2>2, <1>2, <1>3, <1>5
<1>11. WaitPoints'
  BY <1>2, <1>3, <1>7, <1>10 DEF WaitPoints
<1>12. LockHeld'
  BY <1>1, <1>2, <1>7, <1>10 DEF LockHeld
<1>13. DeviceRight'
  <2>1. \A t \in Threads \ {Idle} : DeviceAt(t)'
    BY <1>1, <1>2, <1>4, <1>6 DEF DeviceRight, DeviceAt, Mixed
  <2>2. DeviceAt(Idle)'
    BY <1>4 DEF DeviceAt, Mixed, Engaged
  <2> QED
    BY <1>1, <1>2, <1>6, <1>7, <2>1, <2>2 DEF DeviceRight
<1>14. Completions'
  <2>1. (\E t \in Threads : Owed(t)') <=> (\E t \in Threads : Owed(t))
    BY <1>7
  <2>2. /\ value[Completion] \in Nat /\ spurious \in Nat
        /\ value'[Completion] \in {value[Completion], value[Completion] + 1}
    BY <1>2, <1>3, <1>5 DEF DiskTypes
  <2> QED
    BY <2>1, <2>2, <1>1, <1>2, <1>6 DEF Completions
<1>15. CompletionDue'
  <2>1. CASE expecting_interrupt
    <3>1. value'[Completion] > 0
      BY <2>1, <1>2, <1>3, <1>5
    <3>2. waiters'[Completion] = <<>>
      BY <2>1, <1>2, <1>3, <1>5, OneWaiter
    <3> QED
      BY <3>1, <3>2 DEF CompletionDue
  <2>2. CASE ~expecting_interrupt
    <3>1. \A t \in Threads : at[t] # "complete"
      BY <2>2, <1>2 DEF DeviceRight, DeviceAt, Mixed, Engaged
    <3> QED
      BY <3>1, <2>2, <1>2, <1>5, <1>7 DEF CompletionDue
  <2> QED
    BY <2>1, <2>2
<1>16. MediaRight'
  BY <1>1, <1>2, <1>6, <1>7 DEF MediaRight, ReadsLastWrite
<1>17. BlocksRight'
  BY <1>1, <1>2, <1>7 DEF BlocksRight
<1> QED
  BY <1>5, <1>8, <1>9, <1>11, <1>12, <1>13, <1>14, <1>15, <1>16, <1>17 DEF DiskInv, DriverInv

\* A step that leaves the lists of waiters alone and moves only the running
\* thread leaves every waiter where it stands.
LEMMA WaitersStand ==
  ASSUME DiskInv, cur \in Threads, waiters' = waiters,
         \A t \in Threads \ {cur} : at'[t] = at[t]
  PROVE  /\ WaitPoints'
         /\ \A s \in Semas : Range(waiters[s]) \subseteq Threads \ {cur}
<1>1. \A s \in Semas : Range(waiters[s]) \subseteq Threads \ {cur}
  <2>1. cur \notin Suspended
    BY DEF DiskInv, KernelInv, KernelLists, Suspended
  <2>2. \A s \in Semas : Range(waiters[s]) \subseteq Suspended
    BY DEF DiskInv, Queues
  <2> QED
    BY <2>1, <2>2 DEF Suspended
<1> QED
  BY <1>1, DiskConstants DEF DiskInv, DriverInv, WaitPoints

\* The running thread moves to point p, and nothing else happens in the kernel.
LEMMA MovesKernel ==
  ASSUME DiskInv, cur # Idle, NEW p \in Points, Moves(p)
  PROVE  /\ KernelInv' /\ Queues(Suspended', waiters') /\ FreeKept /\ WaitPoints'
         /\ value' = value /\ waiters' = waiters
         /\ cur \in Threads /\ at'[cur] = p /\ \A t \in Threads \ {cur} : at'[t] = at[t]
<1>1. /\ at' = [at EXCEPT ![cur] = p] /\ left' = left /\ value' = value /\ waiters' = waiters
      /\ UNCHANGED <<cur, status, ready_list, sleep_list, thread_ticks, semaVars>>
  BY DEF Moves, Goto, schedVars, semaVars
<1>2. /\ KernelInv /\ Queues(Suspended, waiters) /\ cur \in Threads /\ at \in [Threads -> Points]
      /\ left \in [Threads -> Nat] /\ at[Idle] \in {"run", "hlt"} /\ Idle \in Threads
  BY SchedAssumption DEF DiskInv, KernelInv, KernelTypes, KernelLists
<1>3. /\ at'[cur] = p /\ \A t \in Threads \ {cur} : at'[t] = at[t]
      /\ at' \in [Threads -> Points] /\ at'[Idle] = at[Idle]
  BY <1>1, <1>2
<1>4. KernelInv' /\ Queues(Suspended', waiters') /\ FreeKept
  BY <1>1, <1>2, <1>3, MoveKernel
<1>6. WaitPoints'
  BY <1>1, <1>2, <1>3, WaitersStand
<1> QED
  BY <1>1, <1>2, <1>3, <1>4, <1>6

\* The thread in a request goes on in it: nobody else comes in.
LEMMA RequestStep ==
  ASSUME DiskInv, NEW c \in Threads, c = cur, InRequest(cur), op' = op, FreeKept,
         \A t \in Threads \ {cur} : at'[t] = at[t],
         value'[Lock] = value[Lock],
         at'[cur] \notin {"acquire", "run"}, CallPoint(c)', Booting' => Booting
  PROVE  /\ CallPoints' /\ LockHeld'
         /\ \A u \in Threads \ {cur} :
              /\ ~Owed(u) /\ ~Owed(u)' /\ at'[u] = at[u]
              /\ at[u] \notin Engaged /\ at[u] \notin {"select", "release"}
         /\ (\E t \in Threads : Owed(t)) <=> Owed(cur)
         /\ (\E t \in Threads : Owed(t)') <=> Owed(c)'
<1>1. LockHeld /\ CallPoints
  BY DEF DiskInv, DriverInv
<1>2. \A u \in Threads \ {cur} : /\ ~InRequest(u) /\ ~Owed(u) /\ at[u] \notin Engaged
                                 /\ at[u] \notin {"select", "release"}
  BY <1>1, SoleRequest
<1>3. \A u \in Threads \ {cur} : ~InRequest(u)' /\ ~Owed(u)'
  BY <1>2 DEF InRequest, Owed
<1>4. InRequest(c)'
  BY DEF InRequest
<1>5. LockHeld'
  BY <1>1, <1>3, <1>4 DEF LockHeld
<1>6. CallPoints'
  <2>1. \A t \in Threads \ {cur} : CallPoint(t)'
    BY <1>1 DEF CallPoints, CallPoint, FreeKept
  <2> QED
    BY <2>1, <1>1 DEF CallPoints, FreeKept
<1> QED
  BY <1>2, <1>3, <1>5, <1>6

\* What every step inside a request starts from.
LEMMA Parts1 ==
  ASSUME DiskInv
  PROVE  /\ DiskTypes /\ CallPoints /\ WaitPoints /\ LockHeld /\ DeviceRight /\ Completions
         /\ CompletionDue /\ MediaRight /\ BlocksRight /\ KernelInv /\ Queues(Suspended, waiters)
         /\ value \in [Semas -> Nat] /\ at \in [Threads -> Points] /\ cur \in Threads
         /\ value[Lock] \in Nat /\ value[Completion] \in Nat /\ spurious \in Nat
         /\ waiters \in [Semas -> Seq(Threads)] /\ left \in [Threads -> Nat]
         /\ status[cur] = "RUNNING" /\ CallPoint(cur) /\ DeviceAt(cur)
  BY DiskConstants DEF DiskInv, DriverInv, KernelInv, KernelTypes, KernelLists, DiskTypes,
     CallPoints, DeviceRight

\* select_sector(): a pending interrupt that the status read clears belonged to
\* nobody who waits.  After an idle timeout the disk can only be storing or stuck,
\* and written no longer vouches for the two sectors.
LEMMA SelectSectorInv ==
  ASSUME DiskInv, SelectSector
  PROVE  DiskInv'
<1> PICK c \in Threads : c = cur
  BY Parts1
<1>1. /\ cur # Idle /\ at[cur] = "select"
      /\ Moves("command")
      /\ op' = op /\ buffer' = buffer /\ expecting_interrupt' = expecting_interrupt
      /\ is_ata' = is_ata /\ all_blocks' = all_blocks /\ kind' = kind
      /\ media' = media /\ faults' = faults /\ spurious' = spurious /\ panic' = panic
  BY DEF SelectSector, At, diskVars
<1>2. /\ DiskTypes /\ CallPoints /\ WaitPoints /\ LockHeld /\ DeviceRight /\ Completions
      /\ CompletionDue /\ MediaRight /\ BlocksRight
      /\ cur \in Threads /\ CallPoint(cur) /\ value[Completion] \in Nat /\ spurious \in Nat
  BY Parts1
<1>3. /\ KernelInv' /\ Queues(Suspended', waiters') /\ FreeKept /\ WaitPoints'
      /\ value' = value /\ waiters' = waiters
      /\ at'[cur] = "command" /\ \A t \in Threads \ {cur} : at'[t] = at[t]
  BY <1>1, MovesKernel DEF Points
<1>4. InRequest(cur)
  BY <1>1, <1>2 DEF InRequest, CallPoint
<1>5. /\ CallPoints' /\ LockHeld'
      /\ \A u \in Threads \ {cur} :
           /\ ~Owed(u) /\ ~Owed(u)' /\ at'[u] = at[u]
           /\ at[u] \notin Engaged /\ at[u] \notin {"select", "release"}
      /\ (\E t \in Threads : Owed(t)) <=> Owed(cur)
      /\ (\E t \in Threads : Owed(t)') <=> Owed(c)'
  <2>1. CallPoint(c)'
    BY <1>1, <1>2, <1>3 DEF CallPoint, FreeKept
  <2>2. Booting' => Booting
    BY <1>1, <1>3, DiskConstants DEF Booting
  <2> QED
    BY <2>1, <2>2, <1>1, <1>2, <1>3, <1>4, RequestStep
<1>6. /\ dev'.state = dev.state /\ ~dev'.intrq /\ dev'.data = dev.data
      /\ \/ dev'.disk = op[cur].disk /\ dev'.sec = op[cur].sec
         \/ dev'.disk = dev.disk /\ dev'.sec = dev.sec /\ ~Idles
      /\ dev' \in [state : DeviceStates, intrq : BOOLEAN, disk : DiskSet, sec : Nat, data : Data]
      /\ dev'.sec < Size[dev'.disk]
  <2>1. \/ dev' = [dev EXCEPT !.disk = op[cur].disk, !.sec = op[cur].sec, !.intrq = FALSE]
        \/ dev' = [dev EXCEPT !.intrq = FALSE] /\ ~Idles
    BY DEF SelectSector
  <2> QED
    BY <2>1, <1>2 DEF DiskTypes
<1>13. /\ DOMAIN written' = DiskSet /\ \A d \in DiskSet : DOMAIN written'[d] = 0..(Size[d] - 1)
       /\ \A d \in DiskSet : \A s \in 0..(Size[d] - 1) :
            \/ written'[d][s] = written[d][s] /\ (Idles \/ d # dev.disk \/ s # dev.sec)
            \/ written'[d][s] = "unknown"
       /\ ~Idles => Mixed(c)' /\ written'[dev.disk][dev.sec] = "unknown"
       /\ ~Idles => written'[op[cur].disk][op[cur].sec] = "unknown"
  <2>1. CASE Idles /\ written' = written
    BY <2>1, <1>2 DEF DiskTypes
  <2>2. CASE ~Idles /\ Doubt({<<dev.disk, dev.sec>>, <<op[cur].disk, op[cur].sec>>})
    <3> PICK sectors : sectors = {<<dev.disk, dev.sec>>, <<op[cur].disk, op[cur].sec>>}
      OBVIOUS
    <3>1. /\ DOMAIN written' = DiskSet /\ \A d \in DiskSet : DOMAIN written'[d] = 0..(Size[d] - 1)
          /\ \A d \in DiskSet : \A s \in 0..(Size[d] - 1) :
               written'[d][s] = IF <<d, s>> \in sectors THEN "unknown" ELSE written[d][s]
      <4>1. Doubt(sectors)
        BY <2>2
      <4> QED
        BY <4>1 DEF Doubt
    <3>2. Mixed(c)'
      BY <3>1, <1>1, <1>2, SectorsOnDisk DEF Mixed
    <3> QED
      BY <3>1, <3>2, <1>2, SectorsOnDisk
  <2> QED
    BY <2>1, <2>2 DEF SelectSector
<1>7. DiskTypes'
  BY <1>1, <1>2, <1>6, <1>13 DEF DiskTypes
<1>8. DeviceRight'
  <2>1. ASSUME NEW t \in Threads PROVE DeviceAt(t)'
    <3>1. CASE t = c
      <4>1. dev.state \in {"idle", "error", "stuck", "storing"}
        BY <1>1, <1>2, <1>5 DEF DeviceRight, Engaged
      <4>2. ~Idles \/ dev.state \in {"idle", "error"}
        BY DEF Idles
      <4>3. written'[dev'.disk][dev'.sec] = "unknown" \/ Idles
        BY <1>6, <1>13
      <4> QED
        BY <3>1, <4>1, <4>2, <4>3, <1>1, <1>3, <1>6, <1>13 DEF DeviceAt, Engaged
    <3>2. CASE t # c
      BY <3>2, <1>3, <1>5 DEF DeviceAt, Engaged
    <3> QED
      BY <3>1, <3>2
  <2> QED
    BY <2>1, <1>1, <1>2, <1>5, <1>6 DEF DeviceRight, Engaged
<1>9. Completions'
  BY <1>1, <1>2, <1>3, <1>5, <1>6 DEF Completions, Owed
<1>10. CompletionDue'
  BY <1>2, <1>3, <1>5 DEF CompletionDue, Engaged
<1>11. MediaRight'
  <2>1. ReadsLastWrite'
    BY <1>3, <1>5 DEF ReadsLastWrite
  <2>2. dev.state = "storing" => ~Idles
    BY DEF Idles
  <2>3. dev'.state = "storing" => written'[dev'.disk][dev'.sec] = "unknown"
    BY <2>2, <1>6, <1>13
  <2>4. ASSUME NEW d \in DiskSet, NEW s \in 0..(Size[d] - 1)
        PROVE  written'[d][s] \in {media[d][s], "unknown"}
    BY <2>2, <1>2, <1>13 DEF MediaRight
  <2> QED
    BY <2>1, <2>3, <2>4, <1>1 DEF MediaRight
<1>12. BlocksRight'
  BY <1>1, <1>2, <1>3 DEF BlocksRight
<1> QED
  BY <1>3, <1>5, <1>7, <1>8, <1>9, <1>10, <1>11, <1>12 DEF DiskInv, DriverInv

\* issue_pio_command() starts the disk: from here on a completion is owed.
LEMMA IssuePioCommandInv ==
  ASSUME DiskInv, IssuePioCommand
  PROVE  DiskInv'
<1> PICK c \in Threads : c = cur
  BY Parts1
<1> DEFINE p == IF op[cur].kind = "write" THEN "busy" ELSE "complete"
<1>1. /\ cur # Idle /\ at[cur] = "command"
      /\ Starts(op[cur].kind)
      /\ Moves(p)
      /\ op' = op /\ buffer' = buffer /\ expecting_interrupt' = TRUE
      /\ is_ata' = is_ata /\ all_blocks' = all_blocks /\ kind' = kind
      /\ media' = media /\ faults' = faults /\ spurious' = spurious /\ panic' = panic
      /\ written' = written
  BY DEF IssuePioCommand, At
<1>2. /\ DiskTypes /\ CallPoints /\ WaitPoints /\ LockHeld /\ DeviceRight /\ Completions
      /\ CompletionDue /\ MediaRight /\ BlocksRight
      /\ cur \in Threads /\ CallPoint(cur) /\ DeviceAt(cur)
      /\ value[Completion] \in Nat /\ spurious \in Nat
  BY Parts1
<1>3. /\ KernelInv' /\ Queues(Suspended', waiters') /\ FreeKept /\ WaitPoints'
      /\ value' = value /\ waiters' = waiters
      /\ at'[cur] = p /\ \A t \in Threads \ {cur} : at'[t] = at[t]
  <2>1. p \in Points
    BY DEF Points
  <2> HIDE DEF p
  <2> QED
    BY <2>1, <1>1, MovesKernel
<1>4. InRequest(cur)
  BY <1>1, <1>2 DEF InRequest, CallPoint
<1>5. /\ CallPoints' /\ LockHeld'
      /\ \A u \in Threads \ {cur} :
           /\ ~Owed(u) /\ ~Owed(u)' /\ at'[u] = at[u]
           /\ at[u] \notin Engaged /\ at[u] \notin {"select", "release"}
      /\ (\E t \in Threads : Owed(t)) <=> Owed(cur)
      /\ (\E t \in Threads : Owed(t)') <=> Owed(c)'
  <2>1. CallPoint(c)'
    BY <1>1, <1>2, <1>3 DEF CallPoint, FreeKept
  <2>2. Booting' => Booting
    BY <1>1, <1>3, DiskConstants DEF Booting
  <2> QED
    BY <2>1, <2>2, <1>1, <1>2, <1>3, <1>4, RequestStep
<1>6. /\ \/ /\ dev.state \in {"idle", "error", "storing"}
            /\ dev'.state = IF op[cur].kind = "write" THEN "writing" ELSE "reading"
         \/ dev.state \in {"stuck", "storing"} /\ dev'.state = dev.state
      /\ dev.state = "storing" => Mixed(cur) /\ written[dev.disk][dev.sec] = "unknown"
      /\ \/ dev.disk = op[cur].disk /\ dev.sec = op[cur].sec
         \/ Mixed(cur) /\ written[dev.disk][dev.sec] = "unknown"
      /\ dev'.intrq = dev.intrq
      /\ dev'.disk = dev.disk /\ dev'.sec = dev.sec /\ dev'.data = dev.data
      /\ dev' \in [state : DeviceStates, intrq : BOOLEAN, disk : DiskSet, sec : Nat, data : Data]
  <2>1. /\ dev.state \in {"idle", "error", "stuck", "storing"}
        /\ dev.state = "storing" => Mixed(cur) /\ written[dev.disk][dev.sec] = "unknown"
        /\ \/ dev.disk = op[cur].disk /\ dev.sec = op[cur].sec
           \/ Mixed(cur) /\ written[dev.disk][dev.sec] = "unknown"
    BY <1>1, <1>2 DEF DeviceAt, Engaged
  <2>2. \/ /\ dev.state # "stuck"
           /\ dev' = [dev EXCEPT !.state = IF op[cur].kind = "write" THEN "writing" ELSE "reading"]
        \/ dev.state \notin {"idle", "error"} /\ dev' = dev
    BY <1>1 DEF Starts
  <2> QED
    BY <2>1, <2>2, <1>2 DEF DiskTypes, DeviceStates
<1>7. DiskTypes'
  BY <1>1, <1>2, <1>6 DEF DiskTypes
<1>8. DeviceRight'
  <2>1. ASSUME NEW t \in Threads PROVE DeviceAt(t)'
    <3>1. Mixed(c)' <=> Mixed(c)
      BY <1>1 DEF Mixed
    <3>2. CASE t = c
      BY <3>1, <3>2, <1>1, <1>2, <1>3, <1>6 DEF DeviceAt, Engaged
    <3>3. CASE t # c
      BY <3>3, <1>3, <1>5 DEF DeviceAt, Engaged
    <3> QED
      BY <3>2, <3>3
  <2>2. at'[cur] \in Engaged
    BY <1>3 DEF Engaged
  <2> QED
    BY <2>1, <2>2, <1>1, <1>2, <1>6 DEF DeviceRight
<1>9. Completions'
  <2>1. ~Owed(cur) /\ Owed(c)'
    BY <1>1, <1>3 DEF Owed
  <2> QED
    BY <2>1, <1>1, <1>2, <1>3, <1>5, <1>6 DEF Completions
<1>10. CompletionDue'
  BY <1>2, <1>3, <1>5, <1>6 DEF CompletionDue, Engaged
<1>11. MediaRight'
  <2>1. ReadsLastWrite'
    BY <1>1, <1>3, <1>5 DEF ReadsLastWrite
  <2>2. dev'.state = "storing" => dev.state = "storing"
    BY <1>6
  <2> QED
    BY <2>1, <2>2, <1>1, <1>2, <1>6 DEF MediaRight
<1>12. BlocksRight'
  BY <1>1, <1>2, <1>3 DEF BlocksRight
<1> QED
  BY <1>3, <1>5, <1>7, <1>8, <1>9, <1>10, <1>11, <1>12 DEF DiskInv, DriverInv

\* The thread goes from one point of wait_while_busy() and the transfer to
\* another, and does nothing to the disk.
LEMMA QuietStep ==
  ASSUME DiskInv, NEW c \in Threads, c = cur, c # Idle, InRequest(cur),
         UNCHANGED <<diskVars, hwVars, panic, written>>,
         KernelInv', Queues(Suspended', waiters'), FreeKept, WaitPoints',
         value' = value, waiters' = waiters,
         \A t \in Threads \ {c} : at'[t] = at[t],
         at[c] \in Engaged, at'[c] \in Engaged \ {"command", "complete"},
         Owed(c)' <=> Owed(c), CallPoint(c)', DeviceAt(c)'
  PROVE  DiskInv'
<1>1. /\ op' = op /\ buffer' = buffer /\ expecting_interrupt' = expecting_interrupt
      /\ is_ata' = is_ata /\ all_blocks' = all_blocks /\ dev' = dev /\ kind' = kind
      /\ media' = media /\ faults' = faults /\ spurious' = spurious /\ panic' = panic
      /\ written' = written
  BY DEF diskVars, hwVars
<1>2. /\ DiskTypes /\ CallPoints /\ WaitPoints /\ LockHeld /\ DeviceRight /\ Completions
      /\ CompletionDue /\ MediaRight /\ BlocksRight
  BY Parts1
<1>3. /\ CallPoints' /\ LockHeld'
      /\ \A u \in Threads \ {cur} :
           /\ ~Owed(u) /\ ~Owed(u)' /\ at'[u] = at[u]
           /\ at[u] \notin Engaged /\ at[u] \notin {"select", "release"}
      /\ (\E t \in Threads : Owed(t)) <=> Owed(cur)
      /\ (\E t \in Threads : Owed(t)') <=> Owed(c)'
  <2>1. Booting' => Booting
    BY <1>1, DiskConstants DEF Booting, Engaged
  <2>2. at'[cur] \notin {"acquire", "run"} /\ value'[Lock] = value[Lock]
    BY DEF Engaged
  <2> QED
    BY <2>1, <2>2, <1>1, RequestStep
<1>4. DiskTypes'
  BY <1>1, <1>2 DEF DiskTypes
<1>5. DeviceRight'
  <2>1. \A t \in Threads \ {c} : DeviceAt(t)'
    BY <1>1, <1>2 DEF DeviceRight, DeviceAt, Mixed
  <2> QED
    BY <2>1, <1>1, <1>2 DEF DeviceRight
<1>6. Completions'
  BY <1>1, <1>2, <1>3 DEF Completions
<1>7. CompletionDue'
  BY <1>2, <1>3 DEF CompletionDue, Engaged
<1>8. MediaRight'
  BY <1>1, <1>2 DEF MediaRight, ReadsLastWrite, Engaged
<1>9. BlocksRight'
  BY <1>1, <1>2 DEF BlocksRight, Engaged
<1> QED
  BY <1>3, <1>4, <1>5, <1>6, <1>7, <1>8, <1>9 DEF DiskInv, DriverInv

\* wait_while_busy() finds BSY set and computes its tick to wake up.
LEMMA BusyPollInv ==
  ASSUME DiskInv, BusyPoll
  PROVE  DiskInv'
<1> PICK c \in Threads : c = cur
  BY Parts1
<1>1. /\ cur # Idle /\ at[cur] = "busy" /\ dev.state \in Busy
      /\ TimerSleep(1, "nap") /\ UNCHANGED <<diskVars, hwVars, panic, written>>
      /\ op' = op /\ dev' = dev /\ expecting_interrupt' = expecting_interrupt
  BY DEF BusyPoll, At, diskVars, hwVars
<1>2. /\ KernelInv /\ Queues(Suspended, waiters) /\ at \in [Threads -> Points]
      /\ left \in [Threads -> Nat] /\ CallPoint(cur) /\ DeviceAt(cur) /\ WaitPoints
      /\ status[cur] = "RUNNING"
  BY Parts1
<1>3. /\ at' = [at EXCEPT ![cur] = "nap"] /\ left' = [left EXCEPT ![cur] = 1]
      /\ UNCHANGED <<cur, status, ready_list, sleep_list, thread_ticks, semaVars>>
  BY <1>1 DEF TimerSleep, Goto
<1>4. /\ at'[cur] = "nap" /\ \A t \in Threads \ {cur} : at'[t] = at[t]
      /\ at' \in [Threads -> Points] /\ left' \in [Threads -> Nat]
      /\ at'[Idle] \in {"run", "hlt"}
  BY <1>1, <1>2, <1>3, DiskConstants DEF Points, KernelInv, KernelLists
<1>5. /\ KernelInv' /\ Queues(Suspended', waiters') /\ FreeKept
      /\ value' = value /\ waiters' = waiters
  BY <1>2, <1>3, <1>4, MoveKernel
<1>6. WaitPoints'
  BY <1>1, <1>2, <1>4, <1>5, WaitersStand
<1>7. InRequest(cur)
  BY <1>1, <1>2 DEF InRequest, CallPoint
<1>8. at'[c] \in Engaged \ {"command", "complete"} /\ at[c] \in Engaged
  BY <1>1, <1>4 DEF Engaged
<1>9. (Owed(c)' <=> Owed(c)) /\ CallPoint(c)' /\ DeviceAt(c)'
  BY <1>1, <1>2, <1>4, <1>5 DEF Owed, CallPoint, DeviceAt, Mixed, Engaged, FreeKept
<1> QED
  BY <1>1, <1>4, <1>5, <1>6, <1>7, <1>8, <1>9, QuietStep

\* wait_while_busy() sleeps for a tick.
LEMMA BusyNapInv ==
  ASSUME DiskInv, BusyNap
  PROVE  DiskInv'
<1> PICK c \in Threads : c = cur
  BY Parts1
<1>1. /\ cur # Idle /\ at[cur] = "nap"
      /\ ThreadYieldForSeconds("busy") /\ UNCHANGED <<diskVars, hwVars, panic, written>>
      /\ op' = op /\ dev' = dev /\ expecting_interrupt' = expecting_interrupt
  BY DEF BusyNap, At, diskVars, hwVars
<1>2. /\ KernelInv /\ Queues(Suspended, waiters) /\ at \in [Threads -> Points]
      /\ CallPoint(cur) /\ DeviceAt(cur) /\ WaitPoints /\ status[cur] = "RUNNING"
  BY Parts1
<1>3. /\ KernelInv' /\ Queues(Suspended', waiters') /\ FreeKept
      /\ value' = value /\ waiters' = waiters /\ at' = [at EXCEPT ![cur] = "busy"]
  BY <1>1, <1>2, SleepKernel DEF Points
<1>4. at'[cur] = "busy" /\ \A t \in Threads \ {cur} : at'[t] = at[t]
  BY <1>2, <1>3
<1>5. WaitPoints'
  BY <1>1, <1>2, <1>3, <1>4, WaitersStand
<1>6. InRequest(cur)
  BY <1>1, <1>2 DEF InRequest, CallPoint
<1>7. at'[c] \in Engaged \ {"command", "complete"} /\ at[c] \in Engaged
  BY <1>1, <1>4 DEF Engaged
<1>8. (Owed(c)' <=> Owed(c)) /\ CallPoint(c)' /\ DeviceAt(c)'
  BY <1>1, <1>2, <1>3, <1>4 DEF Owed, CallPoint, DeviceAt, Mixed, Engaged, FreeKept
<1> QED
  BY <1>1, <1>3, <1>4, <1>5, <1>6, <1>7, <1>8, QuietStep

\* wait_while_busy() finds the data ready.
LEMMA BusyReadyInv ==
  ASSUME DiskInv, BusyReady
  PROVE  DiskInv'
<1> PICK c \in Threads : c = cur
  BY Parts1
<1> DEFINE p == IF op[cur].kind = "write" THEN "output" ELSE "input"
<1>1. /\ cur # Idle /\ at[cur] = "busy" /\ dev.state \in {"drq_in", "drq_out"}
      /\ Moves(p) /\ UNCHANGED <<diskVars, hwVars, panic, written>>
      /\ op' = op /\ dev' = dev /\ expecting_interrupt' = expecting_interrupt
  BY DEF BusyReady, At, diskVars, hwVars
<1>2. /\ CallPoint(cur) /\ DeviceAt(cur) /\ DiskTypes
  BY Parts1
<1>3. /\ KernelInv' /\ Queues(Suspended', waiters') /\ FreeKept /\ WaitPoints'
      /\ value' = value /\ waiters' = waiters
      /\ at'[cur] = p /\ \A t \in Threads \ {cur} : at'[t] = at[t]
  <2>1. p \in Points
    BY DEF Points
  <2> HIDE DEF p
  <2> QED
    BY <2>1, <1>1, MovesKernel
<1>4. InRequest(cur)
  BY <1>1, <1>2 DEF InRequest, CallPoint
<1>5. at'[c] \in Engaged \ {"command", "complete"} /\ at[c] \in Engaged
  BY <1>1, <1>3 DEF Engaged
<1>6. (Owed(c)' <=> Owed(c)) /\ CallPoint(c)' /\ DeviceAt(c)'
  <2>1. op[c].kind \in {"none", "identify", "scan", "read", "write"}
    BY <1>2 DEF DiskTypes
  <2> QED
    BY <2>1, <1>1, <1>2, <1>3 DEF Owed, CallPoint, DeviceAt, Mixed, Engaged, FreeKept
<1> QED
  BY <1>1, <1>3, <1>4, <1>5, <1>6, QuietStep

\* The kernel stops, for a reason that the invariant allows.
LEMMA PanicsInv ==
  ASSUME DiskInv, NEW why, Panics(why), why # "raw"
  PROVE  DiskInv'
<1>1. /\ UNCHANGED <<kernelVars, diskVars, hwVars, written>> /\ panic' = why
  BY DEF Panics
<1>2. /\ op' = op /\ buffer' = buffer /\ expecting_interrupt' = expecting_interrupt
      /\ is_ata' = is_ata /\ all_blocks' = all_blocks /\ dev' = dev /\ kind' = kind
      /\ media' = media /\ faults' = faults /\ spurious' = spurious /\ written' = written
      /\ at' = at /\ value' = value /\ waiters' = waiters
      /\ cur' = cur /\ status' = status /\ ready_list' = ready_list
      /\ sleep_list' = sleep_list /\ left' = left /\ thread_ticks' = thread_ticks
  BY <1>1 DEF diskVars, hwVars, kernelVars, schedVars, semaVars
<1>3. KernelInv' /\ Suspended' = Suspended
  BY <1>2 DEF DiskInv, KernelInv, KernelTypes, KernelLists, Suspended
<1>4. DiskTypes' /\ CallPoints' /\ WaitPoints'
  BY <1>2 DEF DiskInv, DriverInv, DiskTypes, CallPoints, CallPoint, Booting, WaitPoints
<1>5. \A t \in Threads : InRequest(t)' = InRequest(t) /\ Owed(t)' = Owed(t)
                         /\ DeviceAt(t)' = DeviceAt(t)
  BY <1>2 DEF InRequest, Owed, DeviceAt, Mixed
<1>6. LockHeld' /\ CompletionDue'
  BY <1>2, <1>5 DEF DiskInv, DriverInv, LockHeld, CompletionDue
<1>7. DeviceRight'
  BY <1>1, <1>2, <1>5 DEF DiskInv, DriverInv, DeviceRight
<1>8. Completions'
  <2>1. (\E t \in Threads : Owed(t)') <=> (\E t \in Threads : Owed(t))
    BY <1>5
  <2> QED
    BY <1>2, <2>1 DEF DiskInv, DriverInv, Completions
<1>9. MediaRight' /\ BlocksRight'
  BY <1>1, <1>2 DEF DiskInv, DriverInv, MediaRight, ReadsLastWrite, BlocksRight
<1> QED
  BY <1>2, <1>3, <1>4, <1>6, <1>7, <1>8, <1>9 DEF DiskInv, DriverInv

\* identify_ata_device() gives up on the device: wait_while_busy() has failed,
\* or the disk is too large.
LEMMA DismissInv ==
  ASSUME DiskInv, cur # Idle, at[cur] \in {"busy", "input"}, op[cur].kind = "identify",
         Moves("identify"), is_ata' = [is_ata EXCEPT ![op[cur].disk] = FALSE],
         UNCHANGED <<op, buffer, expecting_interrupt, all_blocks, kind, media, faults,
                     spurious, panic, written>>,
         dev' \in [state : DeviceStates, intrq : BOOLEAN, disk : DiskSet, sec : Nat, data : Data],
         dev'.state \in {"idle", "error", "stuck"},
         dev'.state \in {"error", "stuck"} => dev.state = dev'.state,
         dev'.intrq = dev.intrq, dev'.disk = dev.disk, dev'.sec = dev.sec,
         dev.state # "storing"
  PROVE  DiskInv'
<1> PICK c \in Threads : c = cur
  BY Parts1
<1>1. /\ op' = op /\ buffer' = buffer /\ expecting_interrupt' = expecting_interrupt
      /\ all_blocks' = all_blocks /\ kind' = kind
      /\ media' = media /\ faults' = faults /\ spurious' = spurious /\ panic' = panic
      /\ written' = written
  OBVIOUS
<1>2. /\ DiskTypes /\ CallPoints /\ WaitPoints /\ LockHeld /\ DeviceRight /\ Completions
      /\ CompletionDue /\ MediaRight /\ BlocksRight
      /\ cur \in Threads /\ CallPoint(cur) /\ DeviceAt(cur)
      /\ value[Completion] \in Nat /\ spurious \in Nat
  BY Parts1
<1>3. /\ KernelInv' /\ Queues(Suspended', waiters') /\ FreeKept /\ WaitPoints'
      /\ value' = value /\ waiters' = waiters
      /\ at'[cur] = "identify" /\ \A t \in Threads \ {cur} : at'[t] = at[t]
  BY MovesKernel DEF Points
<1>4. InRequest(cur) /\ cur = Main
  BY <1>2 DEF InRequest, CallPoint
<1>5. /\ CallPoints' /\ LockHeld'
      /\ \A u \in Threads \ {cur} :
           /\ ~Owed(u) /\ ~Owed(u)' /\ at'[u] = at[u]
           /\ at[u] \notin Engaged /\ at[u] \notin {"select", "release"}
      /\ (\E t \in Threads : Owed(t)) <=> Owed(cur)
      /\ (\E t \in Threads : Owed(t)') <=> Owed(c)'
  <2>1. CallPoint(c)'
    BY <1>1, <1>2, <1>3, <1>4 DEF CallPoint, FreeKept
  <2>2. Booting' => Booting
    BY <1>4 DEF Booting
  <2> QED
    BY <2>1, <2>2, <1>1, <1>2, <1>3, <1>4, RequestStep
<1>6. DiskTypes'
  BY <1>1, <1>2 DEF DiskTypes
<1>7. DeviceRight'
  <2>1. ASSUME NEW t \in Threads PROVE DeviceAt(t)'
    BY <1>3, <1>5 DEF DeviceAt, Mixed, Engaged
  <2> QED
    BY <2>1, <1>1, <1>2 DEF DeviceRight
<1>8. Completions'
  <2>1. ~Owed(cur) /\ ~Owed(c)'
    BY <1>3 DEF Owed
  <2>2. value[Completion] + (IF dev.intrq THEN 1 ELSE 0) <= spurious
    BY <2>1, <1>2, <1>5 DEF Completions
  <2> QED
    BY <2>1, <2>2, <1>1, <1>2, <1>3, <1>5 DEF Completions
<1>9. CompletionDue'
  BY <1>2, <1>3, <1>5 DEF CompletionDue, Engaged
<1>10. MediaRight'
  <2>1. dev.state # "storing" /\ dev'.state # "storing"
    BY <1>2 DEF DeviceAt, Mixed
  <2> QED
    BY <2>1, <1>1, <1>2, <1>3, <1>5 DEF MediaRight, ReadsLastWrite
<1>11. BlocksRight'
  <2>1. \A t \in Threads : op[t].kind = "identify" => t = cur
    BY <1>2, <1>4 DEF CallPoints, CallPoint
  <2>2. \A d \in DiskSet : is_ata'[d] => is_ata[d]
    BY <1>2 DEF DiskTypes
  <2> QED
    BY <2>1, <2>2, <1>1, <1>2, <1>3 DEF BlocksRight
<1> QED
  BY <1>3, <1>5, <1>6, <1>7, <1>8, <1>9, <1>10, <1>11 DEF DiskInv, DriverInv

\* wait_while_busy() fails only when a command has.
LEMMA BusyFailsInv ==
  ASSUME DiskInv, BusyFails
  PROVE  DiskInv'
<1>1. /\ cur # Idle /\ at[cur] = "busy" /\ dev.state \in {"idle", "error", "stuck"}
  BY DEF BusyFails, At
<1>2. /\ DiskTypes /\ DeviceRight /\ DeviceAt(cur) /\ cur \in Threads
  BY Parts1
<1>3. CASE /\ op[cur].kind = "identify"
           /\ is_ata' = [is_ata EXCEPT ![op[cur].disk] = FALSE]
           /\ Moves("identify")
           /\ UNCHANGED <<op, buffer, expecting_interrupt, all_blocks, hwVars, panic, written>>
  <2>1. UNCHANGED <<op, buffer, expecting_interrupt, all_blocks, kind, media, faults,
                    spurious, panic, written>> /\ dev' = dev
    BY <1>3 DEF hwVars
  <2> QED
    BY <2>1, <1>1, <1>2, <1>3, DismissInv DEF DiskTypes
<1>4. CASE op[cur].kind # "identify" /\ Panics("failed")
  BY <1>4, PanicsInv
<1> QED
  BY <1>3, <1>4 DEF BusyFails

\* ide_read() has the sector's data.
LEMMA InputReadInv ==
  ASSUME DiskInv, InputSector, op[cur].kind \in {"read", "scan"}
  PROVE  DiskInv'
<1> PICK c \in Threads : c = cur
  BY Parts1
<1>1. /\ cur # Idle /\ at[cur] = "input" /\ dev' = [dev EXCEPT !.state = "idle"]
      /\ buffer' = [buffer EXCEPT ![cur] = media[dev.disk][dev.sec]]
      /\ Moves("release")
      /\ op' = op /\ expecting_interrupt' = expecting_interrupt
      /\ is_ata' = is_ata /\ all_blocks' = all_blocks /\ kind' = kind
      /\ media' = media /\ faults' = faults /\ spurious' = spurious /\ panic' = panic
      /\ written' = written
  BY DEF InputSector, At
<1>2. /\ DiskTypes /\ CallPoints /\ WaitPoints /\ LockHeld /\ DeviceRight /\ Completions
      /\ CompletionDue /\ MediaRight /\ BlocksRight
      /\ cur \in Threads /\ CallPoint(cur) /\ DeviceAt(cur)
      /\ value[Completion] \in Nat /\ spurious \in Nat
  BY Parts1
<1>3. /\ KernelInv' /\ Queues(Suspended', waiters') /\ FreeKept /\ WaitPoints'
      /\ value' = value /\ waiters' = waiters
      /\ at'[cur] = "release" /\ \A t \in Threads \ {cur} : at'[t] = at[t]
  BY <1>1, MovesKernel DEF Points
<1>4. InRequest(cur)
  BY <1>1, <1>2 DEF InRequest, CallPoint
<1>5. /\ CallPoints' /\ LockHeld'
      /\ \A u \in Threads \ {cur} :
           /\ ~Owed(u) /\ ~Owed(u)' /\ at'[u] = at[u]
           /\ at[u] \notin Engaged /\ at[u] \notin {"select", "release"}
      /\ (\E t \in Threads : Owed(t)) <=> Owed(cur)
      /\ (\E t \in Threads : Owed(t)') <=> Owed(c)'
  <2>1. CallPoint(c)'
    BY <1>1, <1>2, <1>3 DEF CallPoint, FreeKept
  <2>2. Booting' => Booting
    BY <1>1, <1>3, DiskConstants DEF Booting
  <2> QED
    BY <2>1, <2>2, <1>1, <1>2, <1>3, <1>4, RequestStep
<1>6. /\ dev.state = "drq_in" /\ dev'.state = "idle" /\ dev'.intrq = dev.intrq
      /\ dev'.disk = dev.disk /\ dev'.sec = dev.sec /\ dev'.data = dev.data
      /\ ~Mixed(cur) => dev.disk = op[cur].disk /\ dev.sec = op[cur].sec
      /\ dev' \in [state : DeviceStates, intrq : BOOLEAN, disk : DiskSet, sec : Nat, data : Data]
  BY <1>1, <1>2 DEF DiskTypes, DeviceAt, DeviceStates, Engaged
<1>7. DiskTypes'
  BY <1>1, <1>2, <1>6 DEF DiskTypes
<1>8. DeviceRight'
  <2>1. ASSUME NEW t \in Threads PROVE DeviceAt(t)'
    BY <1>1, <1>3, <1>5, <1>6 DEF DeviceAt, Mixed, Engaged
  <2> QED
    BY <2>1, <1>1, <1>2, <1>6 DEF DeviceRight
<1>9. Completions'
  <2>1. ~Owed(cur) /\ ~Owed(c)'
    BY <1>1, <1>3 DEF Owed
  <2> QED
    BY <2>1, <1>1, <1>2, <1>3, <1>5, <1>6 DEF Completions
<1>10. CompletionDue'
  BY <1>2, <1>3, <1>5 DEF CompletionDue, Engaged
<1>11. MediaRight'
  <2>1. written[op[cur].disk][op[cur].sec] \in {buffer'[cur], "unknown"}
    <3>1. CASE Mixed(cur)
      BY <3>1 DEF Mixed
    <3>2. CASE ~Mixed(cur)
      <4>1. buffer'[cur] = media[op[cur].disk][op[cur].sec]
        BY <3>2, <1>1, <1>2, <1>6 DEF DiskTypes
      <4>2. op[cur].disk \in DiskSet /\ op[cur].sec \in 0..(Size[op[cur].disk] - 1)
        BY <1>2, SectorsOnDisk
      <4> QED
        BY <4>1, <4>2, <1>2, <1>6 DEF MediaRight
    <3> QED
      BY <3>1, <3>2
  <2>2. ReadsLastWrite'
    BY <2>1, <1>1, <1>3, <1>5 DEF ReadsLastWrite
  <2> QED
    BY <2>2, <1>1, <1>2, <1>6 DEF MediaRight
<1>12. BlocksRight'
  BY <1>1, <1>2, <1>3 DEF BlocksRight
<1> QED
  BY <1>3, <1>5, <1>7, <1>8, <1>9, <1>10, <1>11, <1>12 DEF DiskInv, DriverInv

\* identify_ata_device() has found a disk: it is registered, and its
\* partition table is going to be read.
LEMMA InputRegisterInv ==
  ASSUME DiskInv, InputSector, op[cur].kind = "identify", kind[op[cur].disk] # "huge"
  PROVE  DiskInv'
<1> PICK c \in Threads : c = cur
  BY Parts1
<1>1. /\ cur # Idle /\ at[cur] = "input" /\ dev' = [dev EXCEPT !.state = "idle"]
      /\ all_blocks' = all_blocks \cup {op[cur].disk}
      /\ op' = [op EXCEPT ![cur].kind = "scan"]
      /\ Moves("acquire")
      /\ buffer' = buffer /\ expecting_interrupt' = expecting_interrupt
      /\ is_ata' = is_ata /\ kind' = kind
      /\ media' = media /\ faults' = faults /\ spurious' = spurious /\ panic' = panic
      /\ written' = written
  BY DEF InputSector, At, BlockRegister
<1>2. /\ DiskTypes /\ CallPoints /\ WaitPoints /\ LockHeld /\ DeviceRight /\ Completions
      /\ CompletionDue /\ MediaRight /\ BlocksRight
      /\ cur \in Threads /\ CallPoint(cur) /\ DeviceAt(cur)
      /\ value[Completion] \in Nat /\ spurious \in Nat
  BY Parts1
<1>3. /\ KernelInv' /\ Queues(Suspended', waiters') /\ FreeKept /\ WaitPoints'
      /\ value' = value /\ waiters' = waiters
      /\ at'[cur] = "acquire" /\ \A t \in Threads \ {cur} : at'[t] = at[t]
  BY <1>1, MovesKernel DEF Points
<1>4. InRequest(cur) /\ cur = Main /\ Booting
  BY <1>1, <1>2 DEF InRequest, CallPoint, Booting
<1>5. \A u \in Threads \ {cur} : /\ ~InRequest(u) /\ ~Owed(u) /\ at[u] \notin Engaged
                                 /\ at[u] \notin {"select", "release"}
  BY <1>2, <1>4, SoleRequest
<1>6. /\ op'[cur].kind = "scan" /\ op'[cur].disk = op[cur].disk /\ op'[cur].sec = op[cur].sec
      /\ \A t \in Threads \ {cur} : op'[t] = op[t]
      /\ op' \in [Threads -> [kind : {"none", "identify", "scan", "read", "write"},
                              disk : DiskSet, sec : Nat, val : Data]]
  BY <1>1, <1>2 DEF DiskTypes
<1>7. CallPoints'
  <2>1. \A t \in Threads \ {c} : CallPoint(t)'
    BY <1>2, <1>3, <1>6 DEF CallPoints, CallPoint, FreeKept
  <2>2. CallPoint(c)'
    BY <1>1, <1>2, <1>3, <1>4, <1>6 DEF CallPoint, FreeKept
  <2> QED
    BY <2>1, <2>2, <1>2, <1>3, <1>4 DEF CallPoints, FreeKept
<1>8. \A t \in Threads : ~InRequest(t)' /\ ~Owed(t)' /\ at'[t] \notin Engaged
  BY <1>3, <1>5, <1>6 DEF InRequest, Owed, Engaged
<1>9. LockHeld'
  BY <1>2, <1>3, <1>8 DEF LockHeld
<1>10. /\ dev.state = "drq_in" /\ dev'.state = "idle" /\ dev'.intrq = dev.intrq
       /\ dev'.disk = dev.disk /\ dev'.sec = dev.sec /\ dev'.data = dev.data
       /\ dev' \in [state : DeviceStates, intrq : BOOLEAN, disk : DiskSet, sec : Nat, data : Data]
  BY <1>1, <1>2 DEF DiskTypes, DeviceAt, Mixed, DeviceStates
<1>11. DiskTypes'
  BY <1>1, <1>2, <1>6, <1>10 DEF DiskTypes
<1>12. DeviceRight'
  <2>1. ASSUME NEW t \in Threads PROVE DeviceAt(t)'
    BY <1>8 DEF DeviceAt, Mixed, Engaged
  <2> QED
    BY <2>1, <1>1, <1>2, <1>10 DEF DeviceRight
<1>13. Completions'
  <2>1. ~Owed(cur)
    BY <1>1 DEF Owed
  <2>2. \A t \in Threads : ~Owed(t)
    BY <2>1, <1>5
  <2> QED
    BY <2>2, <1>1, <1>2, <1>3, <1>8, <1>10 DEF Completions
<1>14. CompletionDue'
  BY <1>2, <1>3, <1>8 DEF CompletionDue, Engaged
<1>15. MediaRight'
  <2>1. ReadsLastWrite'
    BY <1>3, <1>5 DEF ReadsLastWrite
  <2> QED
    BY <2>1, <1>1, <1>2, <1>10 DEF MediaRight
<1>16. BlocksRight'
  <2>1. op[cur].disk \in DiskSet /\ is_ata[op[cur].disk]
    BY <1>1, <1>2 DEF BlocksRight, DiskTypes
  <2>2. kind[op[cur].disk] = "ata"
    BY <2>1, <1>2 DEF BlocksRight
  <2>3. Parts \cap all_blocks' = Parts \cap all_blocks
    BY <2>1, <1>1, DiskAssumption
  <2> QED
    BY <2>2, <2>3, <1>1, <1>2, <1>3, <1>6 DEF BlocksRight
<1> QED
  BY <1>3, <1>7, <1>9, <1>11, <1>12, <1>13, <1>14, <1>15, <1>16 DEF DiskInv, DriverInv

\* input_sector(), of ide_read() and of identify_ata_device().
LEMMA InputSectorInv ==
  ASSUME DiskInv, InputSector
  PROVE  DiskInv'
<1>1. CASE op[cur].kind \in {"read", "scan"}
  BY <1>1, InputReadInv
<1>2. CASE op[cur].kind = "identify" /\ kind[op[cur].disk] # "huge"
  BY <1>2, InputRegisterInv
<1>3. CASE op[cur].kind = "identify" /\ kind[op[cur].disk] = "huge"
  <2>1. /\ cur # Idle /\ at[cur] = "input" /\ dev' = [dev EXCEPT !.state = "idle"]
        /\ is_ata' = [is_ata EXCEPT ![op[cur].disk] = FALSE] /\ Moves("identify")
        /\ UNCHANGED <<op, buffer, expecting_interrupt, all_blocks, kind, media, faults,
                       spurious, panic, written>>
    BY <1>3 DEF InputSector, At
  <2>2. DiskTypes /\ DeviceAt(cur)
    BY Parts1
  <2>3. /\ dev'.state = "idle" /\ dev'.intrq = dev.intrq
        /\ dev'.disk = dev.disk /\ dev'.sec = dev.sec
        /\ dev' \in [state : DeviceStates, intrq : BOOLEAN, disk : DiskSet, sec : Nat, data : Data]
    BY <2>1, <2>2 DEF DiskTypes, DeviceStates
  <2>4. dev.state # "storing"
    BY <2>1, <2>2 DEF DeviceAt
  <2> QED
    BY <2>1, <2>3, <2>4, <1>3, DismissInv
<1> QED
  BY <1>1, <1>2, <1>3 DEF InputSector

\* output_sector(): the sector is now the one being stored.
LEMMA OutputSectorInv ==
  ASSUME DiskInv, OutputSector
  PROVE  DiskInv'
<1> PICK c \in Threads : c = cur
  BY Parts1
<1>1. /\ cur # Idle /\ at[cur] = "output"
      /\ dev' = [dev EXCEPT !.state = "storing", !.data = op[cur].val]
      /\ written' = IF dev.disk = op[cur].disk /\ dev.sec = op[cur].sec
                    THEN [written EXCEPT ![op[cur].disk][op[cur].sec] = op[cur].val]
                    ELSE written
      /\ Moves("complete")
      /\ op' = op /\ buffer' = buffer /\ expecting_interrupt' = expecting_interrupt
      /\ is_ata' = is_ata /\ all_blocks' = all_blocks /\ kind' = kind
      /\ media' = media /\ faults' = faults /\ spurious' = spurious /\ panic' = panic
  BY DEF OutputSector, At, diskVars
<1>2. /\ DiskTypes /\ CallPoints /\ WaitPoints /\ LockHeld /\ DeviceRight /\ Completions
      /\ CompletionDue /\ MediaRight /\ BlocksRight
      /\ cur \in Threads /\ CallPoint(cur) /\ DeviceAt(cur)
      /\ value[Completion] \in Nat /\ spurious \in Nat
  BY Parts1
<1>3. /\ KernelInv' /\ Queues(Suspended', waiters') /\ FreeKept /\ WaitPoints'
      /\ value' = value /\ waiters' = waiters
      /\ at'[cur] = "complete" /\ \A t \in Threads \ {cur} : at'[t] = at[t]
  BY <1>1, MovesKernel DEF Points
<1>4. InRequest(cur) /\ op[cur].kind = "write"
  BY <1>1, <1>2 DEF InRequest, CallPoint
<1>5. /\ CallPoints' /\ LockHeld'
      /\ \A u \in Threads \ {cur} :
           /\ ~Owed(u) /\ ~Owed(u)' /\ at'[u] = at[u]
           /\ at[u] \notin Engaged /\ at[u] \notin {"select", "release"}
      /\ (\E t \in Threads : Owed(t)) <=> Owed(cur)
      /\ (\E t \in Threads : Owed(t)') <=> Owed(c)'
  <2>1. CallPoint(c)'
    BY <1>1, <1>2, <1>3, <1>4 DEF CallPoint, FreeKept
  <2>2. Booting' => Booting
    BY <1>1, <1>3, DiskConstants DEF Booting
  <2> QED
    BY <2>1, <2>2, <1>1, <1>2, <1>3, <1>4, RequestStep
<1>6. /\ dev.state = "drq_out" /\ dev'.state = "storing" /\ dev'.intrq = dev.intrq
      /\ dev'.disk = dev.disk /\ dev'.sec = dev.sec /\ dev'.data = op[cur].val
      /\ ~Mixed(cur) => dev.disk = op[cur].disk /\ dev.sec = op[cur].sec
      /\ expecting_interrupt
      /\ dev' \in [state : DeviceStates, intrq : BOOLEAN, disk : DiskSet, sec : Nat, data : Data]
  BY <1>1, <1>2 DEF DiskTypes, DeviceAt, DeviceStates, Engaged
<1>7. /\ op[cur].disk \in DiskSet /\ op[cur].sec \in 0..(Size[op[cur].disk] - 1)
  BY <1>2, SectorsOnDisk
<1>8. /\ DOMAIN written' = DiskSet
      /\ \A d \in DiskSet : DOMAIN written'[d] = 0..(Size[d] - 1)
      /\ \A d \in DiskSet : \A s \in 0..(Size[d] - 1) :
           written'[d][s] = IF /\ d = op[cur].disk /\ s = op[cur].sec
                               /\ dev.disk = op[cur].disk /\ dev.sec = op[cur].sec
                            THEN op[cur].val ELSE written[d][s]
  BY <1>1, <1>2, <1>7 DEF DiskTypes
<1>9. DiskTypes'
  BY <1>1, <1>2, <1>6, <1>8 DEF DiskTypes
<1>10. DeviceRight'
  <2>1. ASSUME NEW t \in Threads PROVE DeviceAt(t)'
    <3>1. CASE t = c
      <4>1. \/ dev.disk = op[cur].disk /\ dev.sec = op[cur].sec
            \/ Mixed(cur) /\ written[dev.disk][dev.sec] = "unknown" /\ written' = written
        BY <1>1, <1>2 DEF DeviceAt, Engaged
      <4>2. written' = written => (Mixed(cur) <=> Mixed(c)')
        BY <1>1 DEF Mixed
      <4> QED
        BY <3>1, <4>1, <4>2, <1>1, <1>3, <1>4, <1>6 DEF DeviceAt, Engaged
    <3>2. CASE t # c
      BY <3>2, <1>3, <1>5 DEF DeviceAt, Engaged
    <3> QED
      BY <3>1, <3>2
  <2> QED
    BY <2>1, <1>1, <1>2, <1>6 DEF DeviceRight
<1>11. Completions'
  <2>1. Owed(cur) /\ Owed(c)'
    BY <1>1, <1>3, <1>4 DEF Owed
  <2> QED
    BY <2>1, <1>1, <1>2, <1>3, <1>5, <1>6 DEF Completions
<1>12. CompletionDue'
  BY <1>2, <1>3, <1>5, <1>6 DEF CompletionDue, Engaged
<1>13. MediaRight'
  <2>1. ReadsLastWrite'
    BY <1>3, <1>5 DEF ReadsLastWrite
  <2>2. written'[dev.disk][dev.sec] \in {op[cur].val, "unknown"}
    <3>1. CASE dev.disk = op[cur].disk /\ dev.sec = op[cur].sec
      BY <3>1, <1>7, <1>8
    <3>2. CASE ~(dev.disk = op[cur].disk /\ dev.sec = op[cur].sec)
      BY <3>2, <1>1, <1>2, <1>6 DEF DeviceAt, Engaged
    <3> QED
      BY <3>1, <3>2
  <2>3. ASSUME NEW d \in DiskSet, NEW s \in 0..(Size[d] - 1), d # dev.disk \/ s # dev.sec
        PROVE  written'[d][s] \in {media[d][s], "unknown"}
    BY <2>3, <1>2, <1>6, <1>8 DEF MediaRight
  <2> QED
    BY <2>1, <2>2, <2>3, <1>1, <1>6 DEF MediaRight
<1>14. BlocksRight'
  BY <1>1, <1>2, <1>3 DEF BlocksRight
<1> QED
  BY <1>3, <1>5, <1>9, <1>10, <1>11, <1>12, <1>13, <1>14 DEF DiskInv, DriverInv

\* sema_down (&c->completion_wait) takes the completion, or sleeps for it.
LEMMA AwaitCompletionInv ==
  ASSUME DiskInv, AwaitCompletion
  PROVE  DiskInv'
<1> PICK c \in Threads : c = cur
  BY Parts1
<1> DEFINE p == IF op[cur].kind = "write" THEN "release" ELSE "busy"
<1>1. /\ cur # Idle /\ at[cur] = "complete" /\ SemaDown(Completion, p)
      /\ op' = op /\ buffer' = buffer /\ expecting_interrupt' = expecting_interrupt
      /\ is_ata' = is_ata /\ all_blocks' = all_blocks /\ dev' = dev /\ kind' = kind
      /\ media' = media /\ faults' = faults /\ spurious' = spurious /\ panic' = panic
      /\ written' = written
  BY DEF AwaitCompletion, At, diskVars, hwVars
<1>2. /\ DiskTypes /\ CallPoints /\ WaitPoints /\ LockHeld /\ DeviceRight /\ Completions
      /\ CompletionDue /\ MediaRight /\ BlocksRight /\ KernelInv /\ Queues(Suspended, waiters)
      /\ cur \in Threads /\ CallPoint(cur) /\ DeviceAt(cur) /\ status[cur] = "RUNNING"
      /\ value[Completion] \in Nat /\ spurious \in Nat /\ value \in [Semas -> Nat]
      /\ at \in [Threads -> Points] /\ waiters \in [Semas -> Seq(Threads)]
  BY Parts1
<1>3. /\ KernelInv' /\ Queues(Suspended', waiters') /\ FreeKept
      /\ \/ /\ value[Completion] > 0 /\ value' = [value EXCEPT ![Completion] = @ - 1]
            /\ at' = [at EXCEPT ![cur] = p] /\ waiters' = waiters
         \/ /\ value[Completion] = 0 /\ value' = value /\ at' = at
            /\ waiters' = [waiters EXCEPT ![Completion] = Append(@, cur)]
  <2>1. p \in Points
    BY DEF Points
  <2> HIDE DEF p
  <2> QED
    BY <2>1, <1>1, <1>2, DiskConstants, DownKernel
<1>4. InRequest(cur)
  BY <1>1, <1>2 DEF InRequest, CallPoint
<1>5. /\ at'[cur] \in {p, "complete"} /\ \A t \in Threads \ {cur} : at'[t] = at[t]
      /\ value'[Lock] = value[Lock]
  BY <1>1, <1>2, <1>3, DiskConstants
<1>6. /\ CallPoints' /\ LockHeld'
      /\ \A u \in Threads \ {cur} :
           /\ ~Owed(u) /\ ~Owed(u)' /\ at'[u] = at[u]
           /\ at[u] \notin Engaged /\ at[u] \notin {"select", "release"}
      /\ (\E t \in Threads : Owed(t)) <=> Owed(cur)
      /\ (\E t \in Threads : Owed(t)') <=> Owed(c)'
  <2>1. CallPoint(c)'
    BY <1>1, <1>2, <1>3, <1>5 DEF CallPoint, FreeKept
  <2>2. Booting' => Booting
    BY <1>1, <1>5, DiskConstants DEF Booting
  <2>3. at'[cur] \notin {"acquire", "run"}
    BY <1>5
  <2> QED
    BY <2>1, <2>2, <2>3, <1>1, <1>2, <1>3, <1>4, <1>5, RequestStep
<1>7. WaitPoints'
  <2>1. CASE waiters' = waiters
    BY <2>1, <1>2, <1>5, WaitersStand
  <2>2. CASE at' = at /\ waiters' = [waiters EXCEPT ![Completion] = Append(@, cur)]
    <3>1. /\ waiters'[Lock] = waiters[Lock]
          /\ waiters'[Completion] = Append(waiters[Completion], cur)
      BY <2>2, <1>2, DiskConstants
    <3>2. Range(waiters'[Completion]) = Range(waiters[Completion]) \cup {cur}
      BY <3>1, <1>2, DiskConstants, AppendList
    <3> QED
      BY <3>1, <3>2, <2>2, <1>1, <1>2 DEF WaitPoints
  <2> QED
    BY <2>1, <2>2, <1>3
<1>8. DiskTypes'
  BY <1>1, <1>2 DEF DiskTypes
<1>9. DeviceRight'
  <2>1. ASSUME NEW t \in Threads PROVE DeviceAt(t)'
    <3>1. CASE t = c
      <4>1. CASE at'[c] = "complete"
        BY <3>1, <4>1, <1>1, <1>2 DEF DeviceAt, Mixed, Engaged
      <4>2. CASE at'[c] = p /\ op[c].kind = "write"
        BY <3>1, <4>2 DEF DeviceAt, Mixed, Engaged
      <4>3. CASE at'[c] = p /\ op[c].kind # "write"
        BY <3>1, <4>3, <1>1, <1>2 DEF DeviceAt, Mixed, Engaged
      <4> QED
        BY <4>1, <4>2, <4>3, <1>5
    <3>2. CASE t # c
      BY <3>2, <1>1, <1>2, <1>5 DEF DeviceRight, DeviceAt, Mixed
    <3> QED
      BY <3>1, <3>2
  <2>2. at'[c] \notin Engaged => dev'.state \in {"storing", "idle", "error", "stuck"}
    BY <1>1, <1>2, <1>5 DEF DeviceAt, Engaged
  <2> QED
    BY <2>1, <2>2, <1>1, <1>2 DEF DeviceRight
<1>10. Completions'
  <2>1. Owed(cur)
    BY <1>1 DEF Owed
  <2>2. CASE value[Completion] > 0 /\ value' = [value EXCEPT ![Completion] = @ - 1]
    <3>1. value'[Completion] = value[Completion] - 1
      BY <2>2, <1>2, DiskConstants
    <3> QED
      BY <2>1, <3>1, <1>1, <1>2, <1>6 DEF Completions
  <2>3. CASE value' = value /\ at' = at
    <3>1. Owed(c)'
      BY <2>3, <1>1 DEF Owed
    <3> QED
      BY <2>1, <2>3, <3>1, <1>1, <1>2, <1>6 DEF Completions
  <2> QED
    BY <2>2, <2>3, <1>3
<1>11. CompletionDue'
  <2>1. CASE at' = [at EXCEPT ![cur] = p] /\ value[Completion] > 0 /\ waiters' = waiters
    <3>1. \A t \in Threads : at'[t] # "complete"
      BY <2>1, <1>2, <1>6 DEF Engaged
    <3> QED
      BY <3>1, <2>1, <1>2 DEF CompletionDue
  <2>2. CASE at' = at /\ value[Completion] = 0 /\ value' = value
    BY <2>2, <1>1, <1>2 DEF CompletionDue
  <2> QED
    BY <2>1, <2>2, <1>3
<1>12. MediaRight'
  BY <1>1, <1>2, <1>5, <1>6 DEF MediaRight, ReadsLastWrite
<1>13. BlocksRight'
  BY <1>1, <1>2, <1>5 DEF BlocksRight
<1> QED
  BY <1>3, <1>6, <1>7, <1>8, <1>9, <1>10, <1>11, <1>12, <1>13 DEF DiskInv, DriverInv

\* lock_acquire (&c->lock) goes through only when nobody is in a request: the
\* lock is free, and ide_init() is over or has no other thread beside it.
LEMMA AcquireChannelInv ==
  ASSUME DiskInv, AcquireChannel
  PROVE  DiskInv'
<1> PICK c \in Threads : c = cur
  BY Parts1
<1>1. /\ cur # Idle /\ at[cur] = "acquire" /\ SemaDown(Lock, "select")
      /\ op' = op /\ buffer' = buffer /\ expecting_interrupt' = expecting_interrupt
      /\ is_ata' = is_ata /\ all_blocks' = all_blocks /\ dev' = dev /\ kind' = kind
      /\ media' = media /\ faults' = faults /\ spurious' = spurious /\ panic' = panic
      /\ written' = written
  BY DEF AcquireChannel, At, diskVars, hwVars
<1>2. /\ DiskTypes /\ CallPoints /\ WaitPoints /\ LockHeld /\ DeviceRight /\ Completions
      /\ CompletionDue /\ MediaRight /\ BlocksRight /\ KernelInv /\ Queues(Suspended, waiters)
      /\ cur \in Threads /\ CallPoint(cur) /\ DeviceAt(cur) /\ status[cur] = "RUNNING"
      /\ value[Lock] \in Nat /\ value \in [Semas -> Nat]
      /\ at \in [Threads -> Points] /\ waiters \in [Semas -> Seq(Threads)]
  BY Parts1
<1>3. /\ KernelInv' /\ Queues(Suspended', waiters') /\ FreeKept
      /\ \/ /\ value[Lock] > 0 /\ value' = [value EXCEPT ![Lock] = @ - 1]
            /\ at' = [at EXCEPT ![cur] = "select"] /\ waiters' = waiters
         \/ /\ value[Lock] = 0 /\ value' = value /\ at' = at
            /\ waiters' = [waiters EXCEPT ![Lock] = Append(@, cur)]
  BY <1>1, <1>2, DiskConstants, DownKernel DEF Points
<1>4. /\ at'[cur] \in {"select", "acquire"} /\ \A t \in Threads \ {cur} : at'[t] = at[t]
      /\ value'[Completion] = value[Completion]
      /\ waiters'[Completion] = waiters[Completion]
  BY <1>1, <1>2, <1>3, DiskConstants
<1>5. /\ op[cur].kind \in {"read", "write", "scan"}
      /\ ~InRequest(cur) /\ ~Owed(cur) /\ ~Owed(c)'
      /\ at[cur] \notin Engaged /\ at'[cur] \notin Engaged
  BY <1>1, <1>2, <1>4 DEF InRequest, Owed, Engaged, CallPoint
<1>6. \A t \in Threads \ {cur} : (InRequest(t)' <=> InRequest(t)) /\ (Owed(t)' <=> Owed(t))
  BY <1>1, <1>4 DEF InRequest, Owed
<1>7. CallPoints'
  <2>1. \A t \in Threads \ {c} : CallPoint(t)'
    BY <1>1, <1>2, <1>3, <1>4 DEF CallPoints, CallPoint, FreeKept
  <2>2. CallPoint(c)'
    BY <1>1, <1>2, <1>3, <1>4 DEF CallPoint, FreeKept
  <2>3. Booting' => Booting
    BY <1>1, <1>4, DiskConstants DEF Booting
  <2> QED
    BY <2>1, <2>2, <2>3, <1>2, <1>3 DEF CallPoints, FreeKept
<1>8. LockHeld'
  <2>1. CASE value[Lock] > 0 /\ value' = [value EXCEPT ![Lock] = @ - 1]
    <3>1. value'[Lock] = 0
      BY <2>1, <1>2, DiskConstants DEF LockHeld
    <3>2. \A t \in Threads : InRequest(t) => op[t].kind = "identify"
      BY <2>1, <1>2 DEF LockHeld
    <3>3. \A t \in Threads \ {cur} : ~InRequest(t)
      <4> SUFFICES ASSUME NEW t \in Threads \ {cur}, InRequest(t) PROVE FALSE
        OBVIOUS
      <4>1. op[t].kind = "identify" /\ t = Main
        BY <3>2, <1>2 DEF CallPoints, CallPoint
      <4>2. cur \in Threads \ {Main, Idle} /\ Booting
        BY <4>1, <1>1, <1>2 DEF Booting
      <4> QED
        BY <4>2, <1>2 DEF CallPoints
    <3> QED
      BY <3>1, <3>3, <1>6 DEF LockHeld
  <2>2. CASE value' = value /\ at' = at
    <3>1. \A t \in Threads : InRequest(t)' <=> InRequest(t)
      BY <2>2, <1>1 DEF InRequest
    <3> QED
      BY <3>1, <2>2, <1>1, <1>2 DEF LockHeld
  <2> QED
    BY <2>1, <2>2, <1>3
<1>9. WaitPoints'
  <2>1. CASE waiters' = waiters
    BY <2>1, <1>2, <1>4, WaitersStand
  <2>2. CASE at' = at /\ waiters' = [waiters EXCEPT ![Lock] = Append(@, cur)]
    <3>1. waiters'[Lock] = Append(waiters[Lock], cur)
      BY <2>2, <1>2, DiskConstants
    <3>2. Range(waiters'[Lock]) = Range(waiters[Lock]) \cup {cur}
      BY <3>1, <1>2, DiskConstants, AppendList
    <3> QED
      BY <3>2, <2>2, <1>1, <1>2, <1>4 DEF WaitPoints
  <2> QED
    BY <2>1, <2>2, <1>3
<1>10. DiskTypes'
  BY <1>1, <1>2 DEF DiskTypes
<1>11. DeviceRight'
  <2>1. \A t \in Threads \ {c} : DeviceAt(t)'
    BY <1>1, <1>2, <1>4 DEF DeviceRight, DeviceAt, Mixed
  <2>2. DeviceAt(c)'
    BY <1>4 DEF DeviceAt, Mixed, Engaged
  <2> QED
    BY <2>1, <2>2, <1>1, <1>2, <1>4, <1>5 DEF DeviceRight
<1>12. Completions'
  <2>1. (\E t \in Threads : Owed(t)') <=> (\E t \in Threads : Owed(t))
    BY <1>5, <1>6
  <2> QED
    BY <2>1, <1>1, <1>2, <1>4 DEF Completions
<1>13. CompletionDue'
  BY <1>1, <1>2, <1>4 DEF CompletionDue
<1>14. MediaRight'
  BY <1>1, <1>2, <1>4 DEF MediaRight, ReadsLastWrite
<1>15. BlocksRight'
  BY <1>1, <1>2, <1>4 DEF BlocksRight
<1> QED
  BY <1>3, <1>7, <1>8, <1>9, <1>10, <1>11, <1>12, <1>13, <1>14, <1>15 DEF DiskInv, DriverInv

\* lock_release (&c->lock) ends the request; the partitions that are registered
\* are no disks.
LEMMA ReleaseChannelInv ==
  ASSUME DiskInv, ReleaseChannel
  PROVE  DiskInv'
<1> PICK c \in Threads : c = cur
  BY Parts1
<1> DEFINE p == IF op[cur].kind = "scan" THEN "identify" ELSE "run"
<1>1. /\ cur # Idle /\ at[cur] = "release" /\ SemaUp(Lock) /\ at' = [at EXCEPT ![cur] = p]
      /\ all_blocks' \subseteq all_blocks \cup Parts
      /\ op' = [op EXCEPT ![cur] = NoOp] /\ buffer' = [buffer EXCEPT ![cur] = "none"]
      /\ expecting_interrupt' = expecting_interrupt
      /\ is_ata' = is_ata /\ dev' = dev /\ kind' = kind
      /\ media' = media /\ faults' = faults /\ spurious' = spurious /\ panic' = panic
      /\ written' = written
  BY DEF ReleaseChannel, At, Goto, BlockRegister, hwVars
<1>2. /\ DiskTypes /\ CallPoints /\ WaitPoints /\ LockHeld /\ DeviceRight /\ Completions
      /\ CompletionDue /\ MediaRight /\ BlocksRight /\ KernelInv /\ Queues(Suspended, waiters)
      /\ cur \in Threads /\ CallPoint(cur) /\ status[cur] = "RUNNING"
      /\ value[Lock] \in Nat /\ value \in [Semas -> Nat]
      /\ at \in [Threads -> Points] /\ waiters \in [Semas -> Seq(Threads)]
  BY Parts1
<1>3. /\ at'[cur] = p /\ \A t \in Threads \ {cur} : at'[t] = at[t]
      /\ at' \in [Threads -> Points] /\ at'[Idle] \in {"run", "hlt"}
  <2>1. p \in Points
    BY DEF Points
  <2> HIDE DEF p
  <2> QED
    BY <2>1, <1>1, <1>2, DiskConstants DEF KernelInv, KernelLists
<1>4. /\ KernelInv' /\ Queues(Suspended', waiters') /\ FreeKept
      /\ value' = [value EXCEPT ![Lock] = @ + 1]
      /\ waiters' = [waiters EXCEPT ![Lock] = IF @ = <<>> THEN @ ELSE Tail(@)]
  BY <1>1, <1>2, <1>3, DiskConstants, UpKernel
<1>5. /\ NoOp.kind = "none" /\ op'[cur] = NoOp
      /\ \A t \in Threads \ {cur} : op'[t] = op[t] /\ buffer'[t] = buffer[t]
      /\ DOMAIN buffer' = Threads
  BY <1>1, <1>2 DEF DiskTypes, NoOp
<1>6. InRequest(cur) /\ op[cur].kind \in {"read", "write", "scan"}
  BY <1>1, <1>2 DEF InRequest, CallPoint
<1>7. \A u \in Threads \ {cur} : /\ ~InRequest(u) /\ ~Owed(u) /\ at[u] \notin Engaged
                                 /\ at[u] \notin {"select", "release"}
  BY <1>2, <1>6, SoleRequest
<1>8. \A t \in Threads : ~InRequest(t)' /\ ~Owed(t)' /\ ~Owed(t) /\ at'[t] \notin Engaged
                         /\ at[t] \notin Engaged /\ at'[t] # "release"
  BY <1>1, <1>3, <1>5, <1>7 DEF InRequest, Owed, Engaged
<1>9. DiskTypes'
  <2>1. NoOp \in [kind : {"none", "identify", "scan", "read", "write"},
                  disk : DiskSet, sec : Nat, val : Data]
    BY DiskConstants DEF NoOp, Data
  <2>2. NoOp.sec < Size[NoOp.disk]
    BY DiskConstants DEF NoOp
  <2>3. op' \in [Threads -> [kind : {"none", "identify", "scan", "read", "write"},
                             disk : DiskSet, sec : Nat, val : Data]]
    BY <2>1, <1>1, <1>2 DEF DiskTypes
  <2>4. \A t \in Threads : op'[t].sec < Size[op'[t].disk]
    BY <2>2, <1>2, <1>5 DEF DiskTypes
  <2> QED
    BY <2>3, <2>4, <1>1, <1>2, <1>5 DEF DiskTypes
<1>10. CallPoints'
  <2>1. \A t \in Threads \ {c} : CallPoint(t)'
    BY <1>2, <1>3, <1>4, <1>5 DEF CallPoints, CallPoint, FreeKept
  <2>2. CallPoint(c)'
    BY <1>2, <1>3, <1>4, <1>5 DEF CallPoint, FreeKept
  <2>3. Booting' => Booting
    <3>1. CASE c = Main
      BY <3>1, <1>3, <1>5 DEF Booting
    <3>2. CASE c # Main
      BY <3>2, <1>3, <1>5, DiskConstants DEF Booting
    <3> QED
      BY <3>1, <3>2
  <2> QED
    BY <2>1, <2>2, <2>3, <1>2, <1>4 DEF CallPoints, FreeKept
<1>11. /\ waiters'[Completion] = waiters[Completion] /\ value'[Completion] = value[Completion]
       /\ Range(waiters'[Lock]) \subseteq Range(waiters[Lock])
       /\ value'[Lock] = value[Lock] + 1
  <2>1. waiters[Lock] # <<>> => Range(Tail(waiters[Lock])) \subseteq Range(waiters[Lock])
    BY <1>2, DiskConstants, TailList
  <2> QED
    BY <2>1, <1>2, <1>4, DiskConstants
<1>12. WaitPoints'
  <2>1. \A s \in Semas : Range(waiters[s]) \subseteq Threads
    BY <1>2, RangeSeq
  <2>2. cur \notin Range(waiters[Lock]) /\ cur \notin Range(waiters[Completion])
    BY <1>1, <1>2 DEF WaitPoints
  <2> QED
    BY <2>1, <2>2, <1>2, <1>3, <1>11, DiskConstants DEF WaitPoints
<1>13. LockHeld'
  <2>1. value[Lock] = 0
    BY <1>2, <1>6 DEF LockHeld
  <2> QED
    BY <2>1, <1>8, <1>11 DEF LockHeld
<1>14. DeviceRight'
  <2>1. ASSUME NEW t \in Threads PROVE DeviceAt(t)'
    BY <1>8 DEF DeviceAt, Mixed, Engaged
  <2> QED
    BY <2>1, <1>1, <1>2, <1>8 DEF DeviceRight
<1>15. Completions'
  BY <1>1, <1>2, <1>8, <1>11 DEF Completions
<1>16. CompletionDue'
  BY <1>2, <1>8, <1>11 DEF CompletionDue, Engaged
<1>17. MediaRight'
  <2>1. ReadsLastWrite'
    BY <1>8 DEF ReadsLastWrite
  <2> QED
    BY <2>1, <1>1, <1>2 DEF MediaRight
<1>18. BlocksRight'
  <2>1. DiskSet \cap all_blocks' \subseteq DiskSet \cap all_blocks
    BY <1>1, DiskAssumption
  <2>3. \A q \in Parts \cap all_blocks' : q \in all_blocks \/ FoundPartition(q)
    BY DEF ReleaseChannel, BlockRegister
  <2>2. \A t \in Threads : op'[t].kind = "identify" /\ at'[t] # "identify" =>
                             is_ata'[op'[t].disk]
    BY <1>1, <1>2, <1>3, <1>5 DEF BlocksRight
  <2> QED
    BY <2>1, <2>2, <2>3, <1>1, <1>2 DEF BlocksRight
<1> QED
  BY <1>4, <1>9, <1>10, <1>12, <1>13, <1>14, <1>15, <1>16, <1>17, <1>18 DEF DiskInv, DriverInv

\* A request, as op records it.
Requests == [kind : {"none", "identify", "scan", "read", "write"},
             disk : DiskSet, sec : Nat, val : Data]

\* The thread that is in no request starts one, or goes on in ide_init().
LEMMA StartInv ==
  ASSUME DiskInv, NEW c \in Threads, c = cur, c # Idle,
         at[c] \in {"check", "identify", "run"},
         NEW p \in {"identify", "select", "run", "acquire"}, Moves(p),
         NEW o \in Requests, o.sec < Size[o.disk], op' = [op EXCEPT ![c] = o],
         is_ata' \in [DiskSet -> BOOLEAN],
         \A d \in DiskSet : is_ata'[d] => kind[d] \in {"ata", "huge"},
         at[c] = "run" => is_ata' = is_ata,
         o.kind = "identify" => is_ata'[o.disk] /\ p = "select",
         p = "identify" => o.kind = "none", p = "select" => o.kind = "identify",
         p = "acquire" => o.kind \in {"read", "write"}, p = "run" => o.kind = "none",
         at[c] = "run" => p = "acquire",
         UNCHANGED <<buffer, expecting_interrupt, all_blocks, hwVars, panic, written>>
  PROVE  DiskInv'
<1>1. /\ buffer' = buffer /\ expecting_interrupt' = expecting_interrupt
      /\ all_blocks' = all_blocks /\ dev' = dev /\ kind' = kind
      /\ media' = media /\ faults' = faults /\ spurious' = spurious /\ panic' = panic
      /\ written' = written
  BY DEF hwVars
<1>2. /\ DiskTypes /\ CallPoints /\ WaitPoints /\ LockHeld /\ DeviceRight /\ Completions
      /\ CompletionDue /\ MediaRight /\ BlocksRight /\ KernelInv
      /\ CallPoint(c) /\ status[c] = "RUNNING" /\ Main \in Threads
  BY Parts1, DiskConstants
<1>3. /\ KernelInv' /\ Queues(Suspended', waiters') /\ FreeKept /\ WaitPoints'
      /\ value' = value /\ waiters' = waiters
      /\ at'[c] = p /\ \A t \in Threads \ {c} : at'[t] = at[t]
  <2>1. p \in Points
    BY DEF Points
  <2> QED
    BY <2>1, MovesKernel
<1>4. /\ op'[c] = o /\ \A t \in Threads \ {c} : op'[t] = op[t]
      /\ op' \in [Threads -> Requests]
  BY <1>2 DEF DiskTypes, Requests
<1>5. at[c] # "run" => c = Main /\ Booting
  BY <1>2 DEF CallPoint, Booting
<1>6. CallPoints'
  <2>1. \A t \in Threads \ {c} : CallPoint(t)'
    BY <1>2, <1>3, <1>4 DEF CallPoints, CallPoint, FreeKept
  <2>2. CallPoint(c)'
    BY <1>2, <1>3, <1>4, <1>5 DEF CallPoint, FreeKept
  <2>3. Booting' => Booting
    BY <1>2, <1>3, <1>4, <1>5 DEF Booting
  <2> QED
    BY <2>1, <2>2, <2>3, <1>2, <1>3 DEF CallPoints, FreeKept
<1>7. \A t \in Threads \ {c} : (InRequest(t)' <=> InRequest(t)) /\ (Owed(t)' <=> Owed(t))
  BY <1>3, <1>4 DEF InRequest, Owed
<1>8. /\ ~Owed(c) /\ ~Owed(c)' /\ at[c] \notin Engaged /\ at'[c] \notin Engaged
      /\ at'[c] \notin {"release", "complete"}
  BY <1>3, <1>4 DEF Owed, Engaged
<1>9. LockHeld'
  <2>1. CASE p = "select"
    <3>1. \A t \in Threads \ {c} : ~InRequest(t)
      <4> SUFFICES ASSUME NEW t \in Threads \ {c} PROVE ~InRequest(t)
        OBVIOUS
      <4>1. CASE t = Idle
        BY <4>1, <1>2, IdleRests
      <4>2. CASE t # Idle
        <5>1. status[t] = "FREE"
          BY <2>1, <4>2, <1>2, <1>5 DEF CallPoints
        <5> QED
          BY <5>1, <1>2 DEF CallPoints, CallPoint, InRequest
      <4> QED
        BY <4>1, <4>2
    <3> QED
      BY <2>1, <3>1, <1>2, <1>3, <1>4, <1>7 DEF LockHeld
  <2>2. CASE p # "select"
    <3>1. ~InRequest(c)'
      BY <2>2, <1>3, <1>4 DEF InRequest
    <3> QED
      BY <3>1, <1>2, <1>3, <1>4, <1>7 DEF LockHeld
  <2> QED
    BY <2>1, <2>2
<1>10. DiskTypes'
  <2>1. \A t \in Threads : op'[t].sec < Size[op'[t].disk]
    BY <1>2, <1>4 DEF DiskTypes
  <2> QED
    BY <2>1, <1>1, <1>2, <1>4 DEF DiskTypes, Requests
<1>11. DeviceRight'
  <2>1. \A t \in Threads \ {c} : DeviceAt(t)'
    BY <1>1, <1>2, <1>3, <1>4 DEF DeviceRight, DeviceAt, Mixed
  <2>2. DeviceAt(c)'
    BY <1>8 DEF DeviceAt, Mixed, Engaged
  <2> QED
    BY <2>1, <2>2, <1>1, <1>2, <1>3, <1>8 DEF DeviceRight
<1>12. Completions'
  <2>1. (\E t \in Threads : Owed(t)') <=> (\E t \in Threads : Owed(t))
    BY <1>7, <1>8
  <2> QED
    BY <2>1, <1>1, <1>2, <1>3 DEF Completions
<1>13. CompletionDue'
  BY <1>1, <1>2, <1>3, <1>8 DEF CompletionDue
<1>14. MediaRight'
  <2>1. ReadsLastWrite'
    BY <1>1, <1>2, <1>3, <1>4, <1>8 DEF MediaRight, ReadsLastWrite
  <2> QED
    BY <2>1, <1>1, <1>2 DEF MediaRight
<1>15. BlocksRight'
  <2>1. ASSUME NEW t \in Threads, op'[t].kind = "identify", at'[t] # "identify"
        PROVE  is_ata'[op'[t].disk]
    <3>1. CASE t = c
      BY <2>1, <3>1, <1>4
    <3>2. CASE t # c
      <4>1. t = Main /\ op[t].kind = "identify" /\ at[t] # "identify" /\ op'[t] = op[t]
        BY <2>1, <3>2, <1>2, <1>3, <1>4 DEF CallPoints, CallPoint
      <4>2. is_ata' = is_ata
        BY <4>1, <3>2, <1>5
      <4> QED
        BY <4>1, <4>2, <1>2 DEF BlocksRight
    <3> QED
      BY <3>1, <3>2
  <2> QED
    BY <2>1, <1>1, <1>2 DEF BlocksRight
<1> QED
  BY <1>3, <1>6, <1>9, <1>10, <1>11, <1>12, <1>13, <1>14, <1>15 DEF DiskInv, DriverInv

\* check_device_type() of the two devices.
LEMMA CheckDevicesInv ==
  ASSUME DiskInv, CheckDevices
  PROVE  DiskInv'
<1> PICK c \in Threads : c = cur
  BY Parts1
<1>1. /\ c # Idle /\ at[c] = "check" /\ Moves("identify") /\ op' = op
      /\ is_ata' = [d \in DiskSet |->
                      IsAta(d) /\ (d = Disks[1] \/ kind[Disks[1]] # "no_slave")]
      /\ UNCHANGED <<buffer, expecting_interrupt, all_blocks, hwVars, panic, written>>
  BY DEF CheckDevices, At
<1>2. op[c] \in Requests /\ op[c].sec < Size[op[c].disk] /\ op[c].kind = "none"
  BY <1>1, Parts1 DEF DiskTypes, Requests, CallPoint
<1>3. op' = [op EXCEPT ![c] = op[c]]
  BY <1>1, Parts1 DEF DiskTypes
<1>4. /\ is_ata' \in [DiskSet -> BOOLEAN]
      /\ \A d \in DiskSet : is_ata'[d] => kind[d] \in {"ata", "huge"}
  BY <1>1 DEF IsAta
<1> QED
  BY <1>1, <1>2, <1>3, <1>4, StartInv

\* The loop of ide_init() goes on to the next disk, or ends.
LEMMA IdentifyAtaDeviceInv ==
  ASSUME DiskInv, IdentifyAtaDevice
  PROVE  DiskInv'
<1> PICK c \in Threads : c = cur
  BY Parts1
<1> DEFINE rest == {d \in DiskSet : is_ata[d] /\ d \notin all_blocks}
           todo == Sublist(Disks, rest)
           o == [NoOp EXCEPT !.kind = "identify", !.disk = todo[1]]
<1>1. /\ c # Idle /\ at[c] = "identify" /\ is_ata' = is_ata
      /\ \/ todo # <<>> /\ op' = [op EXCEPT ![c] = o] /\ Moves("select")
         \/ todo = <<>> /\ op' = [op EXCEPT ![c] = NoOp] /\ Moves("run")
      /\ UNCHANGED <<buffer, expecting_interrupt, all_blocks, hwVars, panic, written>>
  BY DEF IdentifyAtaDevice, At
<1>2. /\ is_ata \in [DiskSet -> BOOLEAN]
      /\ \A d \in DiskSet : is_ata[d] => kind[d] \in {"ata", "huge"}
  BY Parts1 DEF DiskTypes, BlocksRight
<1>3. NoOp \in Requests /\ NoOp.kind = "none" /\ NoOp.sec < Size[NoOp.disk]
  BY DiskConstants DEF NoOp, Requests, Data
<1>4. CASE todo # <<>>
  <2> HIDE DEF rest
  <2>1. todo \in Seq(DiskSet) /\ Range(todo) = DiskSet \cap rest
    BY DiskConstants, SublistList DEF DiskSet
  <2>2. Head(todo) \in DiskSet \cap rest
    BY <1>4, <2>1, TailList
  <2>3. Head(todo) = todo[1]
    BY <1>4, <2>1
  <2> HIDE DEF todo
  <2>4. todo[1] \in DiskSet /\ is_ata[todo[1]]
    BY <2>2, <2>3 DEF rest
  <2>5. o \in Requests /\ o.kind = "identify" /\ o.disk = todo[1] /\ o.sec < Size[o.disk]
    BY <2>4, DiskConstants DEF NoOp, Requests, Data
  <2> HIDE DEF o
  <2> QED
    BY <1>1, <1>2, <1>4, <2>4, <2>5, StartInv
<1>5. CASE todo = <<>>
  <2> HIDE DEF todo
  <2> QED
    BY <1>1, <1>2, <1>3, <1>5, StartInv
<1> QED
  BY <1>4, <1>5

\* check_sector() has let the access through, and it is on the disk d.
LEMMA AccessInv ==
  ASSUME DiskInv, At("run"), NEW d \in DiskSet, NEW sec \in Nat, sec < Size[d],
         NEW k \in {"read", "write"}, NEW v \in Data,
         op' = [op EXCEPT ![cur] = [kind |-> k, disk |-> d, sec |-> sec, val |-> v]],
         Moves("acquire"), is_ata' = is_ata,
         UNCHANGED <<buffer, expecting_interrupt, all_blocks, hwVars, panic, written>>
  PROVE  DiskInv'
<1> PICK c \in Threads : c = cur
  BY Parts1
<1> DEFINE o == [kind |-> k, disk |-> d, sec |-> sec, val |-> v]
<1>1. /\ is_ata \in [DiskSet -> BOOLEAN]
      /\ \A e \in DiskSet : is_ata[e] => kind[e] \in {"ata", "huge"}
  BY Parts1 DEF DiskTypes, BlocksRight
<1>2. o \in Requests /\ o.kind \in {"read", "write"} /\ o.sec < Size[o.disk]
  BY DEF Requests
<1>3. op' = [op EXCEPT ![c] = o] /\ c # Idle /\ at[c] = "run"
  BY DEF At
<1> HIDE DEF o
<1> QED
  BY <1>1, <1>2, <1>3, StartInv

\* found_partition()'s test: what it lets through ends on the disk, although the
\* sum that it tests wraps.
LEMMA PartitionFits ==
  ASSUME NEW p \in Parts, FoundPartition(p)
  PROVE  /\ PartOf[p].start + PartOf[p].size <= Size[PartOf[p].disk]
         /\ PartOf[p].start \in Nat /\ PartOf[p].size \in Nat /\ PartOf[p].disk \in DiskSet
<1>1. PartOf[p].disk \in DiskSet
  BY DiskAssumption
<1> PICK start \in Nat, size \in Nat : /\ start = PartOf[p].start /\ size = PartOf[p].size
                                     /\ start < WORD /\ size < WORD
  BY DiskAssumption
<1> PICK n \in Nat, w \in Nat : n = Size[PartOf[p].disk] /\ w = WORD
  BY <1>1, DiskAssumption, DiskConstants
<1>2. start + size <= n
  <2>1. WordSum(start, size) >= start /\ WordSum(start, size) <= n
    BY DEF FoundPartition
  <2>2. WordSum(start, size) = IF start + size < w THEN start + size ELSE start + size - w
    BY DEF WordSum
  <2> QED
    BY <2>1, <2>2
<1> QED
  BY <1>1, <1>2

\* block_read() and block_write(): what a partition accepts is in range on its
\* disk.
LEMMA BlockAccessInv ==
  ASSUME DiskInv, NEW b, NEW sec \in Nat, NEW k \in {"read", "write"}, NEW v \in Data,
         BlockAccess(b, sec, k, v)
  PROVE  DiskInv'
<1>1. At("run") /\ b \in all_blocks
  BY DEF BlockAccess
<1>2. CASE Panics("sector") \/ Panics("foreign")
  BY <1>2, PanicsInv
<1>3. CASE /\ b \in DiskSet /\ ~CheckSector(sec, Size[b])
           /\ op' = [op EXCEPT ![cur] = [kind |-> k, disk |-> b, sec |-> sec, val |-> v]]
           /\ Moves("acquire")
           /\ UNCHANGED <<buffer, expecting_interrupt, is_ata, all_blocks, hwVars,
                          panic, written>>
  <2>1. sec < Size[b]
    BY <1>3, DiskConstants DEF CheckSector
  <2> QED
    BY <2>1, <1>1, <1>3, AccessInv
<1>4. CASE /\ b \in Parts
           /\ ~CheckSector(sec, PartOf[b].size)
           /\ CheckSector(PartOf[b].start + sec, Size[PartOf[b].disk])
  <2>1. /\ PartOf[b].start + PartOf[b].size <= Size[PartOf[b].disk]
        /\ PartOf[b].start \in Nat /\ PartOf[b].size \in Nat /\ PartOf[b].disk \in DiskSet
    BY <1>1, <1>4, Parts1, PartitionFits DEF BlocksRight
  <2>2. Size[PartOf[b].disk] \in Nat
    BY <2>1, DiskConstants
  <2> QED
    BY <2>1, <2>2, <1>4 DEF CheckSector
<1>5. CASE /\ b \in Parts
           /\ ~CheckSector(PartOf[b].start + sec, Size[PartOf[b].disk])
           /\ op' = [op EXCEPT ![cur] = [kind |-> k, disk |-> PartOf[b].disk,
                                         sec |-> PartOf[b].start + sec, val |-> v]]
           /\ Moves("acquire")
           /\ UNCHANGED <<buffer, expecting_interrupt, is_ata, all_blocks, hwVars,
                          panic, written>>
  <2> DEFINE d == PartOf[b].disk
             raw == PartOf[b].start + sec
  <2>1. d \in DiskSet /\ raw \in Nat
    BY <1>5, DiskAssumption
  <2>2. raw < Size[d]
    BY <2>1, <1>5, DiskConstants DEF CheckSector
  <2>3. op' = [op EXCEPT ![cur] = [kind |-> k, disk |-> d, sec |-> raw, val |-> v]]
    BY <1>5
  <2> HIDE DEF d, raw
  <2> QED
    BY <2>1, <2>2, <2>3, <1>1, <1>5, AccessInv
<1> QED
  BY <1>2, <1>3, <1>4, <1>5 DEF BlockAccess

\* thread_create(), which the initial thread calls after ide_init() only.
LEMMA CreateInv ==
  ASSUME DiskInv, NEW t \in Threads, Create(t)
  PROVE  DiskInv'
<1>1. /\ cur # Idle /\ at[cur] = "run" /\ ThreadCreate(t) /\ op' = op
      /\ UNCHANGED <<diskVars, hwVars, panic, written>>
  BY DEF Create, At, diskVars
<1>2. /\ KernelInv /\ Queues(Suspended, waiters) /\ CallPoints /\ cur \in Threads
      /\ at \in [Threads -> Points] /\ status[cur] = "RUNNING" /\ CallPoint(cur)
  BY Parts1
<1>3. /\ KernelInv' /\ Queues(Suspended', waiters') /\ status[t] = "FREE"
      /\ \A u \in Threads : status'[u] = "FREE" <=> status[u] = "FREE" /\ u # t
      /\ value' = value /\ waiters' = waiters /\ at' = [at EXCEPT ![t] = "run"]
  BY <1>1, <1>2, CreateKernel
<1>4. at' = at
  <2>1. at[t] = "run"
    BY <1>2, <1>3 DEF CallPoints, CallPoint
  <2> QED
    BY <2>1, <1>2, <1>3
<1>5. ~Booting
  BY <1>1, <1>2 DEF CallPoints, CallPoint, Booting
<1>6. CallPoints'
  BY <1>1, <1>2, <1>3, <1>4, <1>5 DEF CallPoints, CallPoint, Booting
<1>7. DriverInv'
  BY <1>1, <1>3, <1>4, <1>6, DriverFrame
<1> QED
  BY <1>3, <1>7 DEF DiskInv

\* thread_exit().
LEMMA ExitInv ==
  ASSUME DiskInv, Exit
  PROVE  DiskInv'
<1>1. /\ cur # Idle /\ cur # Main /\ at[cur] = "run" /\ ThreadExit /\ op' = op
      /\ UNCHANGED <<diskVars, hwVars, panic, written>>
  BY DEF Exit, At, diskVars
<1>2. /\ KernelInv /\ Queues(Suspended, waiters) /\ CallPoints
  BY Parts1
<1>3. /\ KernelInv' /\ Queues(Suspended', waiters')
      /\ \A t \in Threads : status'[t] = "FREE" <=> status[t] = "FREE" \/ t = cur
      /\ value' = value /\ waiters' = waiters /\ at' = at
  BY <1>1, <1>2, ExitKernel
<1>4. CallPoints'
  BY <1>1, <1>2, <1>3 DEF CallPoints, CallPoint, Booting
<1>5. DriverInv'
  BY <1>1, <1>3, <1>4, DriverFrame
<1> QED
  BY <1>3, <1>5 DEF DiskInv

\* The invariant holds when ide_init() has reset the channel.
LEMMA InitInv ==
  ASSUME Init
  PROVE  DiskInv
<1> USE DiskConstants
<1>1. /\ cur = Main /\ ready_list = <<>> /\ sleep_list = <<>>
      /\ status = [t \in Threads |-> CASE t = Main -> "RUNNING"
                                       [] t = Idle -> "BLOCKED" [] OTHER -> "FREE"]
      /\ left = [t \in Threads |-> 0] /\ thread_ticks = 0
      /\ value = [s \in Semas |-> IF s \in LockSemas THEN 1 ELSE 0]
      /\ waiters = [s \in Semas |-> <<>>]
      /\ at = [t \in Threads |-> CASE t = Idle -> "hlt" [] t = Main -> "check"
                                   [] OTHER -> "run"]
  BY DEF Init, SchedInit
<1>2. \A t \in Threads : /\ status[t] = IF t = Main THEN "RUNNING"
                                        ELSE IF t = Idle THEN "BLOCKED" ELSE "FREE"
                         /\ at[t] = IF t = Idle THEN "hlt"
                                    ELSE IF t = Main THEN "check" ELSE "run"
  BY <1>1
<1>3. Range(<<>>) = {} /\ IsInjective(<<>>)
  BY EmptySeq DEF Range, IsInjective
<1>4. KernelInv
  <2>1. status \in [Threads -> {"RUNNING", "READY", "BLOCKED", "FREE"}]
    BY <1>1, <1>2
  <2>2. at \in [Threads -> Points]
    BY <1>1, <1>2 DEF Points
  <2>3. value \in [Semas -> Nat] /\ waiters \in [Semas -> Seq(Threads)]
    BY <1>1
  <2>4. KernelTypes
    BY <2>1, <2>2, <2>3, <1>1 DEF KernelTypes
  <2>5. KernelLists
    BY <1>1, <1>2, <1>3 DEF KernelLists
  <2> QED
    BY <2>4, <2>5 DEF KernelInv
<1>5. Queues(Suspended, waiters)
  <2>1. Suspended = {} /\ \A s \in Semas : waiters[s] = <<>>
    BY <1>1, <1>2 DEF Suspended
  <2> QED
    BY <2>1, <1>3 DEF Queues
<1>6. /\ value[Lock] = 1 /\ value[Completion] = 0
      /\ waiters[Lock] = <<>> /\ waiters[Completion] = <<>>
  BY <1>1, DiskAssumption
<1>7. /\ op = [t \in Threads |-> NoOp] /\ buffer = [t \in Threads |-> "none"]
      /\ expecting_interrupt = FALSE /\ is_ata = [d \in DiskSet |-> FALSE] /\ all_blocks = {}
      /\ dev = [state |-> "idle", intrq |-> FALSE, disk |-> Disks[1], sec |-> 0, data |-> "none"]
      /\ media = [d \in DiskSet |-> [s \in 0..(Size[d] - 1) |-> "none"]]
      /\ faults = 0 /\ spurious = 0 /\ panic = "no" /\ written = media
  BY DEF Init
<1>8. /\ NoOp \in [kind : {"none", "identify", "scan", "read", "write"},
                   disk : DiskSet, sec : Nat, val : Data]
      /\ NoOp.sec < Size[NoOp.disk] /\ NoOp.kind = "none"
  BY DEF NoOp, Data
<1>9. \A t \in Threads : op[t].kind = "none" /\ ~InRequest(t) /\ ~Owed(t) /\ at[t] \notin Engaged
                         /\ at[t] \notin {"release", "complete"}
  BY <1>2, <1>7, <1>8 DEF InRequest, Owed, Engaged
<1>10. DiskTypes
  <2>1. op \in [Threads -> [kind : {"none", "identify", "scan", "read", "write"},
                            disk : DiskSet, sec : Nat, val : Data]]
    BY <1>7, <1>8
  <2>2. dev \in [state : DeviceStates, intrq : BOOLEAN, disk : DiskSet, sec : Nat, data : Data]
    BY <1>7 DEF DeviceStates, Data
  <2> QED
    BY <2>1, <2>2, <1>7, <1>8 DEF DiskTypes
<1>11. CallPoints
  BY <1>2, <1>9 DEF CallPoints, CallPoint
<1>12. WaitPoints /\ LockHeld
  BY <1>3, <1>6, <1>9 DEF WaitPoints, LockHeld
<1>13. DeviceRight
  <2>1. ASSUME NEW t \in Threads PROVE DeviceAt(t)
    BY <1>9 DEF DeviceAt, Mixed, Engaged
  <2> QED
    BY <2>1, <1>7 DEF DeviceRight
<1>14. Completions /\ CompletionDue
  BY <1>6, <1>7, <1>9 DEF Completions, CompletionDue
<1>15. MediaRight
  BY <1>7, <1>9 DEF MediaRight, ReadsLastWrite
<1>16. BlocksRight
  BY <1>7, <1>9 DEF BlocksRight
<1> QED
  BY <1>4, <1>5, <1>10, <1>11, <1>12, <1>13, <1>14, <1>15, <1>16 DEF DiskInv, DriverInv

\* Every step keeps the invariant.
LEMMA NextInv ==
  ASSUME DiskInv, Next
  PROVE  DiskInv'
<1>1. CASE ThreadStep
  BY <1>1, AcquireChannelInv, SelectSectorInv, IssuePioCommandInv, AwaitCompletionInv,
     BusyPollInv, BusyNapInv, BusyReadyInv, BusyFailsInv, InputSectorInv, OutputSectorInv,
     ReleaseChannelInv, CheckDevicesInv, IdentifyAtaDeviceInv DEF ThreadStep
<1>2. CASE Call
  <2>1. ASSUME NEW b \in DiskSet \cup Parts, NEW sec \in 0..Max({Size[d] : d \in DiskSet}),
               BlockRead(b, sec) \/ \E v \in Values : BlockWrite(b, sec, v)
        PROVE  DiskInv'
    <3>1. sec \in Nat
      OBVIOUS
    <3>2. CASE BlockRead(b, sec)
      BY <3>1, <3>2, BlockAccessInv DEF BlockRead, Data
    <3>3. ASSUME NEW v \in Values, BlockWrite(b, sec, v) PROVE DiskInv'
      BY <3>1, <3>3, BlockAccessInv DEF BlockWrite, Data
    <3> QED
      BY <2>1, <3>2, <3>3
  <2> QED
    BY <1>2, <2>1, CreateInv, ExitInv DEF Call
<1> QED
  BY <1>1, <1>2, IdleStepInv, TickInv, DiskInterruptInv, DeviceStepInv, DeviceFaultInv,
     SpuriousInterruptInv DEF Next

\* So does a step of something else.
LEMMA StutterInv ==
  ASSUME DiskInv, UNCHANGED vars
  PROVE  DiskInv'
<1>1. UNCHANGED <<diskVars, hwVars, panic, written>>
  BY DEF vars
<1>2. /\ cur' = cur /\ status' = status /\ ready_list' = ready_list /\ at' = at
      /\ sleep_list' = sleep_list /\ left' = left /\ thread_ticks' = thread_ticks
      /\ value' = value /\ waiters' = waiters /\ op' = op
  BY DEF vars, kernelVars, schedVars, semaVars, diskVars
<1>3. KernelInv' /\ Suspended' = Suspended /\ FreeKept
  BY <1>2 DEF DiskInv, KernelInv, KernelTypes, KernelLists, Suspended, FreeKept
<1>4. CallPoints'
  BY <1>2, <1>3, PointsFrame
<1>5. DriverInv'
  BY <1>1, <1>2, <1>3, <1>4, DriverFrame
<1> QED
  BY <1>2, <1>3, <1>5 DEF DiskInv

-----------------------------------------------------------------------------
(* What the invariant says of the properties.                              *)

\* A list without duplicates holds an element at one position or at none.
LEMMA Positions ==
  ASSUME NEW S, NEW s \in Seq(S), IsInjective(s), NEW x
  PROVE  Cardinality({i \in DOMAIN s : s[i] = x}) = IF x \in Range(s) THEN 1 ELSE 0
<1>1. CASE x \in Range(s)
  <2>1. PICK k \in DOMAIN s : s[k] = x
    BY <1>1 DEF Range
  <2>2. {i \in DOMAIN s : s[i] = x} = {k}
    BY <2>1 DEF IsInjective
  <2> QED
    BY <1>1, <2>2, FS_Singleton
<1>2. CASE x \notin Range(s)
  <2>1. {i \in DOMAIN s : s[i] = x} = {}
    BY <1>2 DEF Range
  <2> QED
    BY <1>2, <2>1, FS_EmptySet
<1> QED
  BY <1>1, <1>2

\* The places of thread t on the lists w of waiters.
Spots(w, t) == UNION {{s} \X {i \in DOMAIN w[s] : w[s][i] = t} : s \in Semas}

\* A thread is once on the lists of waiters when it is suspended, and else not.
LEMMA QueuePositions ==
  ASSUME NEW S, NEW w \in [Semas -> Seq(Threads)], Queues(S, w), NEW t
  PROVE  Cardinality(Spots(w, t)) = IF t \in S THEN 1 ELSE 0
<1> DEFINE U == Spots(w, t)
<1>1. \A z : z \in U <=> \E s \in Semas : \E i \in DOMAIN w[s] : w[s][i] = t /\ z = <<s, i>>
  BY DEF Spots
<1>2. CASE t \in S
  <2>1. PICK r \in Semas : t \in Range(w[r])
    BY <1>2 DEF Queues
  <2>2. PICK k \in DOMAIN w[r] : w[r][k] = t
    BY <2>1 DEF Range
  <2>3. \A s \in Semas : \A i \in DOMAIN w[s] : w[s][i] = t => s = r /\ i = k
    <3> SUFFICES ASSUME NEW s \in Semas, NEW i \in DOMAIN w[s], w[s][i] = t
                 PROVE  s = r /\ i = k
      OBVIOUS
    <3>1. t \in Range(w[s])
      BY DEF Range
    <3>2. s = r
      BY <3>1, <2>1 DEF Queues
    <3> QED
      BY <3>2, <2>2 DEF Queues, IsInjective
  <2>4. \A z : z \in U <=> z = <<r, k>>
    BY <1>1, <2>2, <2>3
  <2> HIDE DEF U
  <2>5. U = {<<r, k>>}
    BY <2>4
  <2>6. Cardinality(U) = 1
    BY <2>5, FS_Singleton
  <2> QED
    BY <2>6, <1>2 DEF U
<1>3. CASE t \notin S
  <2>1. \A s \in Semas : \A i \in DOMAIN w[s] : w[s][i] # t
    BY <1>3 DEF Queues, Range
  <2>2. \A z : z \notin U
    BY <1>1, <2>1
  <2> HIDE DEF U
  <2>3. U = {}
    BY <2>2
  <2>4. Cardinality(U) = 0
    BY <2>3, FS_EmptySet
  <2> QED
    BY <2>4, <1>3 DEF U
<1> QED
  BY <1>2, <1>3

\* The kernel's invariant gives the account of the threads.
LEMMA KernelAccounts ==
  ASSUME KernelInv, Queues(Suspended, waiters)
  PROVE  ThreadsAccounted({})
<1>1. /\ ready_list \in Seq(Threads) /\ sleep_list \in Seq(Threads)
      /\ IsInjective(ready_list) /\ IsInjective(sleep_list)
      /\ waiters \in [Semas -> Seq(Threads)] /\ cur \in Threads
  BY DEF KernelInv, KernelTypes, KernelLists
<1>2. status[cur] = "RUNNING"
  BY <1>1 DEF KernelInv, KernelLists
<1>3. ASSUME NEW t \in Threads
      PROVE  /\ Cardinality({i \in DOMAIN ready_list : ready_list[i] = t})
                  + Cardinality({i \in DOMAIN sleep_list : sleep_list[i] = t})
                  + Cardinality(UNION {{s} \X {i \in DOMAIN waiters[s] : waiters[s][i] = t} :
                                       s \in Semas})
                  + (IF t \in {} THEN 1 ELSE 0)
                = IF t # Idle /\ status[t] \in {"READY", "BLOCKED"} THEN 1 ELSE 0
             /\ t \in Range(ready_list) <=> (status[t] = "READY" /\ t # Idle)
             /\ status[t] = "RUNNING" => t = cur
  <2> DEFINE a == Cardinality({i \in DOMAIN ready_list : ready_list[i] = t})
             b == Cardinality({i \in DOMAIN sleep_list : sleep_list[i] = t})
             d == Cardinality(Spots(waiters, t))
  <2>1. a = IF t \in Range(ready_list) THEN 1 ELSE 0
    BY <1>1, Positions
  <2>2. b = IF t \in Range(sleep_list) THEN 1 ELSE 0
    BY <1>1, Positions
  <2>3. d = IF t \in Suspended THEN 1 ELSE 0
    BY <1>1, QueuePositions
  <2> HIDE DEF a, b, d
  <2>4. /\ t \in Range(ready_list) <=> (status[t] = "READY" /\ t # Idle)
        /\ status[t] = "RUNNING" => t = cur
    BY DEF KernelInv, KernelLists
  <2>5. /\ t \in Range(sleep_list) => t # Idle /\ status[t] = "BLOCKED"
        /\ t \in Suspended <=> t # Idle /\ status[t] = "BLOCKED" /\ t \notin Range(sleep_list)
    BY DEF KernelInv, KernelLists, Suspended
  <2>6. a + b + d = IF t # Idle /\ status[t] \in {"READY", "BLOCKED"} THEN 1 ELSE 0
    BY <2>1, <2>2, <2>3, <2>4, <2>5
  <2> QED
    BY <2>1, <2>2, <2>3, <2>4, <2>6 DEF a, b, d, Spots
<1> QED
  BY <1>2, <1>3 DEF ThreadsAccounted

\* The invariant says that one request is on the channel.
LEMMA InvOneRequest ==
  ASSUME DiskInv
  PROVE  OneRequest
<1>1. ThreadsAccounted({})
  BY KernelAccounts DEF DiskInv
<1>2. LockHeld
  BY Parts1
<1>3. Cardinality({t \in Threads : InRequest(t)}) <= 1
  <2>1. CASE \E t \in Threads : InRequest(t)
    <3>1. PICK t \in Threads : InRequest(t)
      BY <2>1
    <3>2. {u \in Threads : InRequest(u)} = {t}
      BY <3>1, <1>2 DEF LockHeld
    <3> QED
      BY <3>2, FS_Singleton
  <2>2. CASE ~\E t \in Threads : InRequest(t)
    <3>1. {u \in Threads : InRequest(u)} = {}
      BY <2>2
    <3> QED
      BY <3>1, FS_EmptySet
  <2> QED
    BY <2>1, <2>2
<1> QED
  BY <1>1, <1>2, <1>3 DEF OneRequest, LockHeld

\* A request fails on a disk that has failed, or one that it is mixed up with.
FailCause == panic = "failed" => faults > 0 \/ Mixed(cur)

\* The kernel panics in block.c's checks and where wait_while_busy() has failed.
LEMMA CauseInv ==
  ASSUME DiskInv, FailCause, [Next]_vars
  PROVE  FailCause'
<1>1. CASE BusyFails
  <2>1. at[cur] = "busy" /\ dev.state \in {"idle", "error", "stuck"} /\ panic = "no"
    BY <1>1 DEF BusyFails, At
  <2>2. DeviceAt(cur) /\ DeviceRight
    BY Parts1
  <2>3. faults > 0 \/ Mixed(cur)
    BY <2>1, <2>2 DEF DeviceAt, DeviceRight
  <2>4. CASE panic' = panic
    BY <2>1, <2>4 DEF FailCause
  <2>5. CASE Panics("failed")
    <3>1. faults' = faults /\ cur' = cur /\ op' = op /\ written' = written
      BY <2>5 DEF Panics, hwVars, kernelVars, schedVars, diskVars
    <3> QED
      BY <3>1, <2>3 DEF FailCause, Mixed
  <2> QED
    BY <2>4, <2>5, <1>1 DEF BusyFails
<1>2. CASE UNCHANGED vars
  BY <1>2 DEF FailCause, Mixed, vars, hwVars, diskVars, kernelVars, schedVars
<1>3. CASE panic' \in {"no", "sector", "foreign", "raw"}
  BY <1>3 DEF FailCause
<1>4. ASSUME Next, ~BusyFails
      PROVE  panic' \in {"no", "sector", "foreign", "raw"}
  <2>1. CASE Call
    <3>1. ASSUME NEW b, NEW sec, NEW k, NEW v, BlockAccess(b, sec, k, v)
          PROVE  panic' \in {"no", "sector", "foreign", "raw"}
      BY <3>1 DEF BlockAccess, At, Panics
    <3> QED
      BY <2>1, <3>1 DEF Call, BlockRead, BlockWrite, Create, Exit, At
  <2>2. CASE ThreadStep
    BY <1>4, <2>2 DEF ThreadStep, AcquireChannel, SelectSector, IssuePioCommand, AwaitCompletion,
       BusyPoll, BusyNap, BusyReady, InputSector, OutputSector, ReleaseChannel, CheckDevices,
       IdentifyAtaDevice, At
  <2>3. CASE IdleStep \/ Tick \/ DiskInterrupt \/ DeviceStep \/ DeviceFault \/ SpuriousInterrupt
    BY <2>3 DEF IdleStep, Tick, DiskInterrupt, DeviceStep, DeviceFault, SpuriousInterrupt
  <2> QED
    BY <1>4, <2>1, <2>2, <2>3 DEF Next
<1> QED
  BY <1>1, <1>2, <1>3, <1>4

\* The invariant says that requests come to their end.
LEMMA InvRequestsEnd ==
  ASSUME DiskInv, FailCause
  PROVE  RequestsEnd
<1>1. /\ DiskTypes /\ CallPoints /\ WaitPoints /\ LockHeld /\ DeviceRight /\ Completions
      /\ CompletionDue /\ BlocksRight /\ waiters \in [Semas -> Seq(Threads)]
      /\ value[Completion] \in Nat /\ spurious \in Nat
  BY Parts1
<1>2. CompletionComes
  <2> SUFFICES ASSUME waiters[Completion] # <<>>
               PROVE  dev.intrq \/ dev.state \in {"reading", "storing", "stuck"}
    BY DEF CompletionComes
  <2>1. /\ Head(waiters[Completion]) \in Threads
        /\ Head(waiters[Completion]) \in Range(waiters[Completion])
    BY <1>1, DiskConstants, TailList
  <2>2. at[Head(waiters[Completion])] = "complete"
    BY <2>1, <1>1 DEF WaitPoints
  <2> QED
    BY <2>1, <2>2, <1>1 DEF CompletionDue
<1>3. CompletionsMatch
  <2>1. \A t \in Threads : Owed(t) => InRequest(t)
    BY <1>1 DEF CallPoints, CallPoint, Owed, InRequest
  <2>2. (\E t \in Threads : Owed(t)) => \E t \in Threads : InRequest(t)
    BY <2>1
  <2> QED
    BY <2>2, <1>1 DEF Completions, CompletionsMatch
<1>4. PanicsOnlyForCause
  BY <1>1 DEF PanicsOnlyForCause, FailCause, Mixed, BlocksRight
<1>5. WriteAcknowledged
  <2> SUFFICES ASSUME spurious = 0, NEW t \in Threads, at[t] = "release", op[t].kind = "write",
                      dev.state = "storing"
               PROVE  FALSE
    BY DEF WriteAcknowledged
  <2>1. InRequest(t) /\ ~Owed(t)
    BY DEF InRequest, Owed
  <2>2. \A u \in Threads : Owed(u) => InRequest(u)
    BY <1>1 DEF CallPoints, CallPoint, Owed, InRequest
  <2>3. ~\E u \in Threads : Owed(u)
    BY <2>1, <2>2, <1>1 DEF LockHeld
  <2> QED
    BY <2>3, <1>1 DEF Completions
<1> QED
  BY <1>2, <1>3, <1>4, <1>5 DEF RequestsEnd

-----------------------------------------------------------------------------
(* The theorems.                                                           *)

\* The inductive invariant of the channel holds: the kernel's lists are right,
\* and the driver, the disk and the count of completions agree at every point of
\* ide_read(), ide_write() and ide_init().
THEOREM DiskInvariant == Spec => []DiskInv
<1>1. Init => DiskInv
  BY InitInv
<1>2. DiskInv /\ [Next]_vars => DiskInv'
  BY NextInv, StutterInv
<1> QED
  BY <1>1, <1>2, PTL DEF Spec

\* One request at a time is on the channel, and it holds the lock: the commands
\* of two threads never mix, however interrupts and preemptions fall.
THEOREM ChannelServesOne == Spec => []OneRequest
<1>1. DiskInv => OneRequest
  BY InvOneRequest
<1> QED
  BY <1>1, DiskInvariant, PTL

\* ide_read() hands out what the last ide_write() of the sector put in, also when
\* spurious interrupts let sema_down (&completion_wait) through too early: an idle
\* timeout or a failed store spoils no sector but those of its own requests.
THEOREM ReadsSeeLastWrite == Spec => []ReadsLastWrite
<1>1. DiskInv => ReadsLastWrite
  BY DEF DiskInv, DriverInv, MediaRight
<1> QED
  BY <1>1, DiskInvariant, PTL

\* Every sleeper for a completion is owed one, also after idle timeouts; no
\* completion is counted twice; a write returns when the disk has stored it, or
\* after an interrupt that belonged to no command; and the kernel panics for a disk only when a
\* command has failed or the request went on after an idle timeout.
THEOREM RequestsComeToEnd == Spec => []RequestsEnd
<1>1. Init => FailCause
  BY DEF Init, FailCause
<1>2. DiskInv /\ FailCause /\ [Next]_vars => FailCause'
  BY CauseInv
<1>3. DiskInv /\ FailCause => RequestsEnd
  BY InvRequestsEnd
<1> QED
  BY <1>1, <1>2, <1>3, DiskInvariant, PTL DEF Spec
=============================================================================
