------------------------------ MODULE Process ------------------------------
(***************************************************************************)
(* proj2/src/userprog/process.c with the parts of threads/thread.c that    *)
(* keep the family: exec, load, wait, exit and kill of user processes.     *)
(*                                                                         *)
(* A process is the page that holds its struct thread; a page is used      *)
(* again after its thread has died.  The scheduler of project 2 is FIFO    *)
(* with preemption, so between two statements of a process with interrupts *)
(* on any other process may run: the model interleaves their steps.  What  *)
(* thread_exit() does with interrupts off is one step.  pc[p] is           *)
(*   "free"     no thread in the page                                      *)
(*   "start"    start_process() before load()                              *)
(*   "loaded"   start_process() after load()                               *)
(*   "user"     user mode                                                  *)
(*   "exec"     SYS_EXEC at its sema_down (&waiting2)                      *)
(*   "flag"     process_wait() has seen childElem->t != NULL               *)
(*   "wait"     process_wait() at its sema_down (&waiting)                 *)
(*   "exit"     thread_exit() before intr_disable ()                       *)
(*   "boot", "task"          the initial thread in run_task()              *)
(*   "off"      the initial thread is gone; its page is not used again     *)
(***************************************************************************)
EXTENDS Integers, FiniteSets

CONSTANTS
  Pages,      \* the pages that can hold a struct thread
  Main,       \* initial_thread
  MaxTid,     \* bound: no process is created after the one with this tid
  Statuses,   \* the arguments of exit()
  None        \* NULL

ASSUME ProcessAssumption ==
  /\ Main \in Pages
  /\ MaxTid \in Nat
  /\ Statuses \subseteq Int
  /\ None \notin Pages /\ None \notin Int

Tids == 1..MaxTid

VARIABLES
  pc,
  thread,      \* struct thread, as far as the family goes
  arg,         \* pid of a SYS_EXEC, child_tid of a process_wait()
  ptr,         \* childElem->t as process_wait() has read it
  elem,        \* struct childListElem of each tid, with the list it is in
  next_tid,
  died,        \* history: the status a process ended with
  loads,       \* history: the result of its load()
  result,      \* history: the last result of an exec or a wait
  collected,   \* history: how often a wait has returned a child's status
  struck       \* history: the tids of processes that a parent other than their
               \* own has flagged, through a pointer into a page used again

historyVars == <<died, loads, result, collected, struck>>
vars == <<pc, thread, arg, ptr, elem, next_tid, historyVars>>

Points == {"free", "start", "loaded", "user", "exec", "flag", "wait", "exit",
           "boot", "task", "off"}

\* The fields of struct thread; `success' is start_process()'s local variable.
Thread ==
  [tid : Tids \cup {0}, parent : Pages \cup {None}, isParentWaiting : BOOLEAN,
   exitStatus : Statuses \cup {-1}, waiting : Nat, waiting2 : Nat,
   childLoadStatus : BOOLEAN, success : BOOLEAN]

\* What init_thread() and thread_create_with_parent() make of a page.
NewThread(t, p) ==
  [tid |-> t, parent |-> p, isParentWaiting |-> FALSE, exitStatus |-> -1,
   waiting |-> 0, waiting2 |-> 0, childLoadStatus |-> FALSE, success |-> FALSE]

\* struct childListElem, and the process in whose childList it is.
ChildElem ==
  [list : Pages \cup {None}, t : Pages \cup {None}, exitStatus : Statuses \cup {-1}]
NoElem == [list |-> None, t |-> None, exitStatus |-> -1]

NoResult == [call |-> "none", of |-> 0, value |-> 0, own |-> FALSE, misled |-> FALSE]

Alive(p) == pc[p] \notin {"free", "off"}
Goes(p, point) == pc' = [pc EXCEPT ![p] = point]

\* A child of p was struck.  A child stays in the list until its parent exits.
Misled(p) == \E t \in Tids : t \in struck /\ elem[t].list = p

\* The end of a call that returns v; the initial thread is through with its
\* task and exits.
Return(p, c, of, v) ==
  /\ Goes(p, IF p = Main THEN "exit" ELSE "user")
  /\ arg' = [arg EXCEPT ![p] = 0]
  /\ result' = [call |-> c, of |-> of, value |-> v,
                own |-> of \in Tids /\ elem[of].list = p, misled |-> Misled(p)]
  /\ collected' = [t \in Tids |-> IF c = "wait" /\ v # -1 /\ t = of
                                  THEN collected[t] + 1 ELSE collected[t]]

-----------------------------------------------------------------------------
(* exec.                                                                   *)

\* process_execute() with thread_create_with_parent() up to thread_unblock(),
\* before which nobody else sees the new thread; its caller p goes on at point.
ProcessExecute(p, q, point) ==
  /\ pc[q] = "free"
  /\ next_tid <= MaxTid
  /\ pc' = [pc EXCEPT ![p] = point, ![q] = "start"]
  /\ thread' = [thread EXCEPT ![q] = NewThread(next_tid, p)]
  /\ elem' = [elem EXCEPT ![next_tid] = [list |-> p, t |-> q, exitStatus |-> -1]]
  /\ arg' = [arg EXCEPT ![p] = next_tid]
  /\ next_tid' = next_tid + 1
  /\ UNCHANGED <<ptr, historyVars>>

SysExec(p, q) == pc[p] = "user" /\ ProcessExecute(p, q, "exec")

\* process_execute() returns TID_ERROR for want of a page; SYS_EXEC does not
\* look at it and waits for a child all the same.
SysExecNoPage(p) ==
  /\ pc[p] = "user"
  /\ Goes(p, "exec")
  /\ arg' = [arg EXCEPT ![p] = -1]
  /\ UNCHANGED <<thread, ptr, elem, next_tid, historyVars>>

\* start_process() finds no page for its copy of the name: it returns, and
\* kernel_thread() calls thread_exit().
StartNoPage(q) ==
  /\ pc[q] = "start"
  /\ Goes(q, "exit")
  /\ UNCHANGED <<thread, arg, ptr, elem, next_tid, historyVars>>

\* Faulty variant: load() reports success whatever happens.
Load_Optimist(q, ok) ==
  /\ pc[q] = "start"
  /\ Goes(q, "loaded")
  /\ thread' = [thread EXCEPT ![q].success = TRUE]
  /\ loads' = [loads EXCEPT ![thread[q].tid] = IF ok THEN "ok" ELSE "failed"]
  /\ UNCHANGED <<arg, ptr, elem, next_tid, died, result, collected, struck>>

\* load() succeeds or not.
Load(q, ok) ==
  /\ pc[q] = "start"
  /\ Goes(q, "loaded")
  /\ thread' = [thread EXCEPT ![q].success = ok]
  /\ loads' = [loads EXCEPT ![thread[q].tid] = IF ok THEN "ok" ELSE "failed"]
  /\ UNCHANGED <<arg, ptr, elem, next_tid, died, result, collected, struck>>

\* Faulty variant: a failure is reported, but nobody is woken for it.
Loaded_OnlySuccess(q) ==
  /\ pc[q] = "loaded"
  /\ Goes(q, IF thread[q].success THEN "user" ELSE "exit")
  /\ thread' = IF thread[q].parent = None THEN thread
               ELSE [thread EXCEPT ![thread[q].parent].childLoadStatus = thread[q].success,
                                   ![thread[q].parent].waiting2 =
                                     IF thread[q].success THEN @ + 1 ELSE @]
  /\ UNCHANGED <<arg, ptr, elem, next_tid, historyVars>>

\* start_process() tells its parent, if it still has one.
Loaded(q) ==
  /\ pc[q] = "loaded"
  /\ Goes(q, IF thread[q].success THEN "user" ELSE "exit")
  /\ thread' = IF thread[q].parent = None THEN thread
               ELSE [thread EXCEPT ![thread[q].parent].childLoadStatus = thread[q].success,
                                   ![thread[q].parent].waiting2 = @ + 1]
  /\ UNCHANGED <<arg, ptr, elem, next_tid, historyVars>>

\* SYS_EXEC after its sema_down (&waiting2).
ExecReturns(p) ==
  /\ pc[p] = "exec"
  /\ thread[p].waiting2 > 0
  /\ thread' = [thread EXCEPT ![p].waiting2 = @ - 1]
  /\ Return(p, "exec", arg[p], IF thread[p].childLoadStatus THEN arg[p] ELSE -1)
  /\ UNCHANGED <<ptr, elem, next_tid, died, loads, struck>>

-----------------------------------------------------------------------------
(* wait.                                                                   *)

\* The list has no element for t, or t is no tid at all.
WaitStranger(p, t) ==
  /\ t \in Tids => elem[t].list # p
  /\ Return(p, "wait", t, -1)
  /\ UNCHANGED <<thread, ptr, elem, next_tid, died, loads, struck>>

\* Faulty variant: the element keeps its status.
CollectStatus_Keep(t) == UNCHANGED elem

\* process_wait() takes the status out of the element.
CollectStatus(t) == elem' = [elem EXCEPT ![t].exitStatus = -1]

\* The child has died already.
WaitDead(p, t) ==
  /\ t \in Tids /\ elem[t].list = p /\ elem[t].t = None
  /\ Return(p, "wait", t, elem[t].exitStatus)
  /\ CollectStatus(t)
  /\ UNCHANGED <<thread, ptr, next_tid, died, loads, struck>>

\* The child is alive: its address is read here and used in WaitFlag.
WaitAlive(p, t) ==
  /\ t \in Tids /\ elem[t].list = p /\ elem[t].t # None
  /\ Goes(p, "flag")
  /\ arg' = [arg EXCEPT ![p] = t]
  /\ ptr' = [ptr EXCEPT ![p] = elem[t].t]
  /\ UNCHANGED <<thread, elem, next_tid, historyVars>>

ProcessWait(p, t) == WaitStranger(p, t) \/ WaitDead(p, t) \/ WaitAlive(p, t)

SysWait(p, t) == pc[p] = "user" /\ ProcessWait(p, t)

\* childElem->t->isParentWaiting = true, in whatever thread has the page that
\* ptr points to; in a free page nobody will see it.
WaitFlag(p) ==
  /\ pc[p] = "flag"
  /\ Goes(p, "wait")
  /\ thread' = IF Alive(ptr[p]) THEN [thread EXCEPT ![ptr[p]].isParentWaiting = TRUE]
               ELSE thread
  /\ ptr' = [ptr EXCEPT ![p] = None]
  /\ struck' = IF Alive(ptr[p]) /\ thread[ptr[p]].tid # arg[p]
               THEN struck \cup {thread[ptr[p]].tid} ELSE struck
  /\ UNCHANGED <<arg, elem, next_tid, died, loads, result, collected>>

\* process_wait() after its sema_down (&waiting).
WaitReturns(p) ==
  /\ pc[p] = "wait"
  /\ thread[p].waiting > 0
  /\ thread' = [thread EXCEPT ![p].waiting = @ - 1]
  /\ Return(p, "wait", arg[p], elem[arg[p]].exitStatus)
  /\ CollectStatus(arg[p])
  /\ UNCHANGED <<ptr, next_tid, died, loads, struck>>

-----------------------------------------------------------------------------
(* The end of a process.                                                   *)

\* SYS_EXIT.
SysExit(p, s) ==
  /\ pc[p] = "user"
  /\ Goes(p, "exit")
  /\ thread' = [thread EXCEPT ![p].exitStatus = s]
  /\ UNCHANGED <<arg, ptr, elem, next_tid, historyVars>>

\* doBadExit() and kill(): the exit status stays -1.
Kill(p) ==
  /\ pc[p] = "user"
  /\ Goes(p, "exit")
  /\ UNCHANGED <<thread, arg, ptr, elem, next_tid, historyVars>>

\* Faulty variant: the children keep their pointer to the dead parent.
Orphans_Keep(p) == {}

\* The children that the dying process p cuts off.
Orphans(p) == {elem[t].t : t \in {u \in Tids : elem[u].list = p}} \ {None}

\* The elements that thread_do_child_dying() finds for the dying process p.
Dying(p) ==
  {t \in Tids : thread[p].parent # None /\ elem[t].list = thread[p].parent /\ elem[t].t = p}

\* thread_exit() from intr_disable() on, with thread_do_child_dying(); the
\* next thread frees the page, and its contents are gone.
ThreadExit(p) ==
  /\ pc[p] = "exit"
  /\ Goes(p, IF p = Main THEN "off" ELSE "free")
  /\ elem' = [t \in Tids |->
                IF elem[t].list = p THEN NoElem
                ELSE IF t \in Dying(p)
                THEN [elem[t] EXCEPT !.t = None, !.exitStatus = thread[p].exitStatus]
                ELSE elem[t]]
  /\ thread' = [q \in Pages |->
                  IF q = p THEN NewThread(0, None)
                  ELSE [thread[q] EXCEPT
                          !.waiting = IF q = thread[p].parent /\ thread[p].isParentWaiting
                                      THEN @ + 1 ELSE @,
                          !.parent = IF q \in Orphans(p) THEN None ELSE @]]
  /\ died' = [t \in Tids |-> IF t = thread[p].tid THEN thread[p].exitStatus ELSE died[t]]
  /\ UNCHANGED <<arg, ptr, next_tid, loads, result, collected, struck>>

-----------------------------------------------------------------------------
(* The initial thread: process_wait (process_execute (task)).              *)

RunTask(q) == pc[Main] = "boot" /\ ProcessExecute(Main, q, "task")

\* process_execute() fails, and -1 is waited for.
RunTaskNoPage ==
  /\ pc[Main] = "boot"
  /\ Goes(Main, "task")
  /\ arg' = [arg EXCEPT ![Main] = -1]
  /\ UNCHANGED <<thread, ptr, elem, next_tid, historyVars>>

RunTaskWait == pc[Main] = "task" /\ ProcessWait(Main, arg[Main])

Init ==
  /\ pc = [p \in Pages |-> IF p = Main THEN "boot" ELSE "free"]
  /\ thread = [p \in Pages |-> NewThread(0, None)]
  /\ arg = [p \in Pages |-> 0]
  /\ ptr = [p \in Pages |-> None]
  /\ elem = [t \in Tids |-> NoElem]
  /\ next_tid = 1
  /\ died = [t \in Tids |-> None]
  /\ loads = [t \in Tids |-> "none"]
  /\ result = NoResult
  /\ collected = [t \in Tids |-> 0]
  /\ struck = {}

Starting(q) ==
  \/ \E ok \in BOOLEAN : Load(q, ok)
  \/ Loaded(q)
  \/ StartNoPage(q)

Calling(p) ==
  \/ \E q \in Pages : SysExec(p, q)
  \/ SysExecNoPage(p)
  \/ \E t \in Tids : SysWait(p, t)
  \/ \E s \in Statuses : SysExit(p, s)
  \/ Kill(p)

Inside(p) ==
  \/ ExecReturns(p)
  \/ WaitFlag(p)
  \/ WaitReturns(p)
  \/ ThreadExit(p)

Next ==
  \/ \E p \in Pages : Starting(p) \/ Calling(p) \/ Inside(p)
  \/ \E q \in Pages : RunTask(q)
  \/ RunTaskNoPage
  \/ RunTaskWait

Spec == Init /\ [][Next]_vars

\* The round-robin scheduler runs every process again, so a process inside the
\* kernel goes on; in user mode it may run forever.
Fairness ==
  /\ \A p \in Pages : WF_vars(Starting(p)) /\ WF_vars(Inside(p))
  /\ WF_vars(RunTaskWait)

FairSpec == Spec /\ Fairness

-----------------------------------------------------------------------------
TypeOK ==
  /\ pc \in [Pages -> Points]
  /\ thread \in [Pages -> Thread]
  /\ arg \in [Pages -> Tids \cup {0, -1}]
  /\ ptr \in [Pages -> Pages \cup {None}]
  /\ elem \in [Tids -> ChildElem]
  /\ next_tid \in 1..(MaxTid + 1)
  /\ collected \in [Tids -> Nat]
  /\ struck \subseteq Tids \cup {0}

\* The two directions of the family agree, whoever exits first: a live process
\* with a parent is the live child of one element of a live parent's list, and
\* an element that points to a page points to that child.  So thread_exit()
\* and start_process() never follow a pointer into a page that is free or has
\* been used again.
FamilyLinks ==
  /\ TypeOK
  /\ \A p \in Pages : Alive(p) /\ thread[p].parent # None =>
       /\ Alive(thread[p].parent)
       /\ elem[thread[p].tid].list = thread[p].parent /\ elem[thread[p].tid].t = p
  /\ \A t \in Tids : elem[t].list # None =>
       /\ Alive(elem[t].list)
       /\ elem[t].t # None =>
            /\ Alive(elem[t].t) /\ thread[elem[t].t].tid = t
            /\ thread[elem[t].t].parent = elem[t].list

\* userprog.texi:618-622: exec returns the pid of a child that has loaded, and
\* -1 only if its child's load has failed.
ExecTellsTruth ==
  result.call = "exec" =>
    \/ result.value = result.of /\ loads[result.of] = "ok"
    \/ result.value = -1 /\ loads[result.of] = "failed"

\* process.c:106-111: wait returns the status its child died with, or -1, and
\* no second wait gets the status of a child, whichever way the first one went.
\* -1 for a child of the caller's own means that the child has died with -1 or
\* that an earlier wait has had its status: only a parent one of whose children
\* was struck through another's stale pointer may be told -1 too early.
WaitTellsTruth ==
  /\ result.call = "wait" /\ result.value # -1 => died[result.of] = result.value
  /\ \A t \in Tids : collected[t] <= 1
  /\ result.call = "wait" /\ result.value = -1 /\ result.own /\ ~result.misled =>
       died[result.of] = -1 \/ collected[result.of] = 1

\* process.c:106, userprog.texi:618-620: the caller of exec whose child has
\* come back from load() gets its answer, and so does a parent that has got its
\* flag into the child it waits for before that child is through with
\* thread_exit(), whatever the rest of the family does.  (A child that leaves
\* before either point leaves its parent asleep for good.)
CallsAnswered ==
  \A p \in Pages :
    (\E q \in Pages : /\ thread[q].parent = p
                      /\ \/ pc[p] = "exec" /\ pc[q] = "loaded"
                         \/ pc[p] = "wait" /\ pc[q] = "exit" /\ thread[q].isParentWaiting)
      ~> pc[p] \notin {"exec", "wait"}
=============================================================================
