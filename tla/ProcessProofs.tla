--------------------------- MODULE ProcessProofs ---------------------------
(***************************************************************************)
(* The safety properties of module Process, for every set of pages, every  *)
(* range of statuses and every number of processes: the two directions of  *)
(* the family agree whoever dies first, exec and wait tell the truth, and  *)
(* a status is handed out once.                                            *)
(***************************************************************************)
EXTENDS Process, TLAPS

\* The history variables.
HistoryOK ==
  /\ died \in [Tids -> Statuses \cup {-1, None}]
  /\ loads \in [Tids -> {"none", "ok", "failed"}]
  /\ result \in [call : {"none", "exec", "wait"}, of : Tids \cup {0, -1}, value : Int,
                  own : BOOLEAN, misled : BOOLEAN]
  /\ result.call = "wait" /\ result.value # -1 => result.of \in Tids

\* WaitTellsTruth but for what -1 means, which is proved after the rest.
StatusTold ==
  /\ result.call = "wait" /\ result.value # -1 => died[result.of] = result.value
  /\ \A t \in Tids : collected[t] <= 1

\* The initial thread is no user process: it has no tid and no parent, never
\* is in SYS_EXEC, and its page is not used again.  A user process has a tid.
MainApart ==
  /\ pc[Main] \in {"boot", "task", "flag", "wait", "exit", "off"}
  /\ thread[Main].tid = 0 /\ thread[Main].parent = None
  /\ \A p \in Pages \ {Main} :
       /\ pc[p] \notin {"boot", "task", "off"}
       /\ Alive(p) => thread[p].tid \in 1..(next_tid - 1)

\* A tid is given once: no two live processes share one, no element or history
\* exists for one that has not been given, and a dead process's tid is not
\* used again.
TidsUnique ==
  /\ \A p, q \in Pages : Alive(p) /\ Alive(q) /\ thread[p].tid = thread[q].tid => p = q
  /\ \A t \in Tids : t >= next_tid =>
       elem[t] = NoElem /\ died[t] = None /\ loads[t] = "none" /\ collected[t] = 0
  /\ \A p \in Pages : Alive(p) /\ thread[p].tid \in Tids => died[thread[p].tid] = None

\* An element that is in no list is gone.  One that is has the status its
\* child died with, unless a wait has taken that out, which no wait can undo.
StatusesKept ==
  \A t \in Tids :
    /\ elem[t].list = None => elem[t] = NoElem
    /\ elem[t].exitStatus # -1 => died[t] = elem[t].exitStatus
    /\ collected[t] <= 1
    /\ collected[t] = 1 => died[t] # None /\ elem[t].exitStatus = -1

\* process_wait() is about a child of its caller, whose element stays in the
\* caller's list to the end of the call.
WaitsForChild ==
  \A p \in Pages :
    /\ pc[p] \in {"flag", "wait"} => arg[p] \in Tids /\ elem[arg[p]].list = p
    /\ pc[p] = "flag" => ptr[p] \in Pages

\* A process has at most one child on its way through load(): the one its
\* SYS_EXEC waits for.  waiting2 is up only for that child's answer, which
\* childLoadStatus holds.
ExecPending ==
  /\ \A q \in Pages :
       /\ pc[q] = "start" => loads[thread[q].tid] = "none"
       /\ pc[q] = "loaded" =>
            loads[thread[q].tid] = IF thread[q].success THEN "ok" ELSE "failed"
       /\ pc[q] \in {"start", "loaded"} /\ thread[q].parent \notin {None, Main} =>
            /\ pc[thread[q].parent] = "exec" /\ arg[thread[q].parent] = thread[q].tid
            /\ thread[thread[q].parent].waiting2 = 0
  /\ \A p \in Pages \ {Main} : Alive(p) /\ thread[p].waiting2 # 0 =>
       /\ thread[p].waiting2 = 1
       /\ pc[p] = "exec" /\ arg[p] \in Tids
       /\ loads[arg[p]] = IF thread[p].childLoadStatus THEN "ok" ELSE "failed"

\* The inductive invariant.
ProcessInv ==
  /\ FamilyLinks
  /\ HistoryOK
  /\ MainApart
  /\ TidsUnique
  /\ StatusesKept
  /\ WaitsForChild
  /\ ExecPending
  /\ ExecTellsTruth
  /\ StatusTold

\* The invariant but for the calls of single processes.
Records == HistoryOK /\ StatusesKept /\ ExecTellsTruth /\ StatusTold

\* A step that neither starts nor ends a process and gives out no tid.
SameFamily ==
  /\ \A p \in Pages :
       /\ thread'[p].tid = thread[p].tid /\ thread'[p].parent = thread[p].parent
       /\ pc'[p] \in {"free", "off"} <=> pc[p] \in {"free", "off"}
       /\ pc'[p] \in {"boot", "task", "off"} => pc[p] \in {"boot", "task", "off"}
  /\ pc'[Main] \in {"boot", "task", "flag", "wait", "exit", "off"}
  /\ \A t \in Tids :
       /\ elem'[t].list = elem[t].list /\ elem'[t].t = elem[t].t
       /\ t >= next_tid => /\ elem'[t] = elem[t] /\ loads'[t] = loads[t]
                           /\ collected'[t] = collected[t]
  /\ next_tid' = next_tid
  /\ died' = died

-----------------------------------------------------------------------------
\* A live process with a parent has a tid, and the parent lives.
LEMMA ParentLives ==
  ASSUME ProcessInv, NEW q \in Pages, Alive(q), thread[q].parent # None
  PROVE  /\ thread[q].parent \in Pages /\ Alive(thread[q].parent)
         /\ q # Main /\ thread[q].tid \in Tids
         /\ elem[thread[q].tid].list = thread[q].parent
         /\ elem[thread[q].tid].t = q
<1>1. thread[q] \in Thread /\ next_tid \in 1..(MaxTid + 1) /\ MaxTid \in Nat
  BY ProcessAssumption DEF ProcessInv, FamilyLinks, TypeOK
<1>2. q # Main
  BY DEF ProcessInv, MainApart
<1>3. thread[q].tid \in 1..(next_tid - 1)
  BY <1>2 DEF ProcessInv, MainApart
<1>4. thread[q].tid \in Tids
  BY <1>1, <1>3 DEF Tids
<1> QED
  BY <1>1, <1>2, <1>4 DEF ProcessInv, FamilyLinks, Thread

\* Such a step keeps the links of the family and the tids.
LEMMA FamilyStays ==
  ASSUME ProcessInv, TypeOK', SameFamily
  PROVE  FamilyLinks' /\ MainApart' /\ TidsUnique'
<1>1. \A p \in Pages : Alive(p)' <=> Alive(p)
  BY DEF SameFamily, Alive
<1>2. \A p \in Pages : /\ thread'[p].tid = thread[p].tid /\ thread'[p].parent = thread[p].parent
  BY DEF SameFamily
<1>3. \A t \in Tids : elem'[t].list = elem[t].list /\ elem'[t].t = elem[t].t
  BY DEF SameFamily
<1>4. FamilyLinks'
  <2>1. ASSUME NEW p \in Pages, Alive(p)', thread'[p].parent # None
        PROVE  /\ pc'[thread'[p].parent] \notin {"free", "off"}
               /\ elem'[thread'[p].tid].list = thread'[p].parent /\ elem'[thread'[p].tid].t = p
    <3>1. Alive(p) /\ thread[p].parent # None
      BY <2>1, <1>1, <1>2
    <3> QED
      BY <3>1, <1>1, <1>2, <1>3, ParentLives DEF Alive
  <2>2. ASSUME NEW t \in Tids, elem'[t].list # None
        PROVE  /\ pc'[elem'[t].list] \notin {"free", "off"}
               /\ elem'[t].t # None =>
                    /\ pc'[elem'[t].t] \notin {"free", "off"} /\ thread'[elem'[t].t].tid = t
                    /\ thread'[elem'[t].t].parent = elem'[t].list
    <3>1. /\ elem[t].list \in Pages \cup {None} /\ elem[t].t \in Pages \cup {None}
          /\ elem[t].list # None
      BY <2>2, <1>3 DEF ProcessInv, FamilyLinks, TypeOK, ChildElem
    <3> QED
      BY <3>1, <1>1, <1>2, <1>3 DEF ProcessInv, FamilyLinks, Alive
  <2> QED
    BY <2>1, <2>2 DEF FamilyLinks, Alive
<1>5. MainApart'
  BY <1>1, <1>2, ProcessAssumption DEF ProcessInv, MainApart, SameFamily
<1>6. TidsUnique'
  <2>1. /\ next_tid' = next_tid /\ died' = died
        /\ \A t \in Tids : t >= next_tid =>
             elem'[t] = elem[t] /\ loads'[t] = loads[t] /\ collected'[t] = collected[t]
    BY DEF SameFamily
  <2> QED
    BY <2>1, <1>1, <1>2 DEF ProcessInv, TidsUnique
<1> QED
  BY <1>4, <1>5, <1>6

\* A step that touches no element and no history keeps the records.
LEMMA RecordsStay ==
  ASSUME ProcessInv, UNCHANGED <<elem, died, loads, result, collected>>
  PROVE  Records'
BY DEF ProcessInv, Records, HistoryOK, StatusesKept, ExecTellsTruth, StatusTold

\* The fields through which a child answers exec.
SameAnswers ==
  \A q \in Pages : /\ thread'[q].success = thread[q].success
                   /\ thread'[q].waiting2 = thread[q].waiting2
                   /\ thread'[q].childLoadStatus = thread[q].childLoadStatus

\* A step of process p that does not end an exec and is no part of load()
\* keeps what holds of the calls, if it enters process_wait() with a child's
\* element in its hand.
LEMMA CallsStay ==
  ASSUME ProcessInv, SameFamily, SameAnswers, NEW p \in Pages,
         UNCHANGED loads,
         \A q \in Pages \ {p} : pc'[q] = pc[q] /\ arg'[q] = arg[q] /\ ptr'[q] = ptr[q],
         pc[p] # "exec", pc'[p] \notin {"start", "loaded"},
         pc'[p] \in {"flag", "wait"} => arg'[p] \in Tids /\ elem[arg'[p]].list = p,
         pc'[p] = "flag" => ptr'[p] \in Pages
  PROVE  WaitsForChild' /\ ExecPending'
<1>1. WaitsForChild'
  BY DEF ProcessInv, WaitsForChild, SameFamily
<1>2. /\ \A q \in Pages : /\ thread'[q].tid = thread[q].tid
                          /\ thread'[q].parent = thread[q].parent
                          /\ Alive(q)' <=> Alive(q)
      /\ loads' = loads
  BY DEF SameFamily, Alive
<1>3. ASSUME NEW q \in Pages
      PROVE  /\ pc'[q] = "start" => loads'[thread'[q].tid] = "none"
             /\ pc'[q] = "loaded" =>
                  loads'[thread'[q].tid] = IF thread'[q].success THEN "ok" ELSE "failed"
             /\ pc'[q] \in {"start", "loaded"} /\ thread'[q].parent \notin {None, Main} =>
                  /\ pc'[thread'[q].parent] = "exec" /\ arg'[thread'[q].parent] = thread'[q].tid
                  /\ thread'[thread'[q].parent].waiting2 = 0
  <2>1. CASE pc'[q] \in {"start", "loaded"}
    <3>1. q # p /\ pc'[q] = pc[q] /\ Alive(q)
      BY <2>1 DEF Alive
    <3>2. CASE thread[q].parent \in {None, Main}
      BY <2>1, <3>1, <3>2, <1>2 DEF ProcessInv, ExecPending, SameAnswers
    <3>3. CASE thread[q].parent \notin {None, Main}
      <4>1. /\ thread[q].parent \in Pages
        BY <3>1, <3>3, ParentLives
      <4>2. /\ pc[thread[q].parent] = "exec" /\ arg[thread[q].parent] = thread[q].tid
            /\ thread[thread[q].parent].waiting2 = 0
        BY <2>1, <3>1, <3>3 DEF ProcessInv, ExecPending
      <4> QED
        BY <2>1, <3>1, <4>1, <4>2, <1>2 DEF ProcessInv, ExecPending, SameAnswers
    <3> QED
      BY <3>2, <3>3
  <2> QED
    BY <2>1
<1>4. ASSUME NEW q \in Pages \ {Main}, Alive(q)', thread'[q].waiting2 # 0
      PROVE  /\ thread'[q].waiting2 = 1
             /\ pc'[q] = "exec" /\ arg'[q] \in Tids
             /\ loads'[arg'[q]] = IF thread'[q].childLoadStatus THEN "ok" ELSE "failed"
  <2>1. Alive(q) /\ thread[q].waiting2 # 0
    BY <1>2, <1>4 DEF SameAnswers
  <2> QED
    BY <2>1, <1>2 DEF ProcessInv, ExecPending, SameAnswers
<1>5. ExecPending'
  BY <1>3, <1>4 DEF ExecPending, Alive
<1> QED
  BY <1>1, <1>5

\* SYS_EXIT, doBadExit() and kill(), the exec that gets no page, and a start
\* that gets none keep the invariant.
LEMMA LeaveInv ==
  ASSUME ProcessInv, NEW p \in Pages,
         \/ \E s \in Statuses : SysExit(p, s)
         \/ Kill(p)
         \/ StartNoPage(p)
         \/ SysExecNoPage(p)
         \/ RunTaskNoPage /\ p = Main
  PROVE  ProcessInv'
<1>type. TypeOK /\ thread \in [Pages -> Thread]
  BY DEF ProcessInv, FamilyLinks, TypeOK
<1>1. TypeOK'
  BY <1>type DEF TypeOK, Points, Thread, SysExit, Kill, StartNoPage, SysExecNoPage,
     RunTaskNoPage, Goes, historyVars
<1>2. SameFamily
  <2>1. \A q \in Pages : thread'[q].tid = thread[q].tid /\ thread'[q].parent = thread[q].parent
    BY <1>type DEF Thread, SysExit, Kill, StartNoPage, SysExecNoPage, RunTaskNoPage
  <2>2. /\ pc' = [pc EXCEPT ![p] = pc'[p]]
        /\ \/ pc[p] \in {"user", "start"} /\ pc'[p] \in {"exec", "exit"}
           \/ p = Main /\ pc[p] = "boot" /\ pc'[p] = "task"
    BY <1>type DEF TypeOK, SysExit, Kill, StartNoPage, SysExecNoPage, RunTaskNoPage, Goes
  <2>3. UNCHANGED <<elem, next_tid, died, loads, collected>>
    BY DEF SysExit, Kill, StartNoPage, SysExecNoPage, RunTaskNoPage, historyVars
  <2>4. pc[Main] \in {"boot", "task", "flag", "wait", "exit", "off"} /\ Main \in Pages
    BY ProcessAssumption DEF ProcessInv, MainApart
  <2> QED
    BY <1>type, <2>1, <2>2, <2>3, <2>4 DEF SameFamily, TypeOK
<1>3. SameAnswers
  BY <1>type DEF SameAnswers, Thread, SysExit, Kill, StartNoPage, SysExecNoPage, RunTaskNoPage
<1>4. UNCHANGED <<elem, died, loads, result, collected>>
  BY DEF SysExit, Kill, StartNoPage, SysExecNoPage, RunTaskNoPage, historyVars
<1>5. /\ \A q \in Pages \ {p} : pc'[q] = pc[q] /\ arg'[q] = arg[q] /\ ptr'[q] = ptr[q]
      /\ pc[p] # "exec" /\ pc'[p] \notin {"start", "loaded", "flag", "wait"}
  BY <1>type DEF TypeOK, SysExit, Kill, StartNoPage, SysExecNoPage, RunTaskNoPage, Goes
<1>6. WaitsForChild' /\ ExecPending'
  BY <1>2, <1>3, <1>4, <1>5, CallsStay DEF historyVars
<1> QED
  BY <1>1, <1>2, <1>4, <1>6, FamilyStays, RecordsStay DEF ProcessInv, Records

\* The end of a call: what Return changes, and that it fits the types.
LEMMA ReturnTyped ==
  ASSUME ProcessInv, NEW p \in Pages, pc[p] \notin {"free", "off"},
         NEW c \in {"exec", "wait"}, NEW of \in Tids \cup {0, -1}, NEW v \in Int,
         Return(p, c, of, v)
  PROVE  /\ pc' \in [Pages -> Points] /\ arg' \in [Pages -> Tids \cup {0, -1}]
         /\ collected' \in [Tids -> Nat]
         /\ result' \in [call : {"none", "exec", "wait"}, of : Tids \cup {0, -1}, value : Int,
                  own : BOOLEAN, misled : BOOLEAN]
         /\ result'.call = c /\ result'.of = of /\ result'.value = v
         /\ \A q \in Pages \ {p} : pc'[q] = pc[q] /\ arg'[q] = arg[q]
         /\ pc'[p] \in {"exit", "user"} /\ (p = Main => pc'[p] = "exit")
         /\ c = "exec" \/ v = -1 => collected' = collected
<1>type. TypeOK
  BY DEF ProcessInv, FamilyLinks
<1>1. /\ pc' \in [Pages -> Points] /\ arg' \in [Pages -> Tids \cup {0, -1}]
      /\ \A q \in Pages \ {p} : pc'[q] = pc[q] /\ arg'[q] = arg[q]
      /\ pc'[p] \in {"exit", "user"} /\ (p = Main => pc'[p] = "exit")
  BY <1>type DEF Return, Goes, TypeOK, Points
<1>2. collected' \in [Tids -> Nat]
  BY <1>type DEF Return, TypeOK
<1>3. /\ result' \in [call : {"none", "exec", "wait"}, of : Tids \cup {0, -1}, value : Int,
                      own : BOOLEAN, misled : BOOLEAN]
      /\ result'.call = c /\ result'.of = of /\ result'.value = v
  <2>1. PICK o \in BOOLEAN : o = (of \in Tids /\ elem[of].list = p)
    OBVIOUS
  <2>2. PICK m \in BOOLEAN : m = Misled(p)
    BY DEF Misled
  <2>3. result' = [call |-> c, of |-> of, value |-> v, own |-> o, misled |-> m]
    BY <2>1, <2>2 DEF Return
  <2> QED
    BY <2>3
<1>4. c = "exec" \/ v = -1 => collected' = collected
  BY <1>type DEF Return, TypeOK
<1> QED
  BY <1>1, <1>2, <1>3, <1>4

\* What every wait that ends does to the processes: its caller leaves the
\* call, and the family and the execs under way stay as they are.
LEMMA WaitEnds ==
  ASSUME ProcessInv, NEW p \in Pages, pc[p] \notin {"free", "off", "exec"},
         NEW of \in Tids \cup {0, -1}, NEW v \in Int, Return(p, "wait", of, v),
         v # -1 => of \in Tids,
         TypeOK', SameAnswers, UNCHANGED <<ptr, next_tid, died, loads>>,
         \A q \in Pages : thread'[q].tid = thread[q].tid /\ thread'[q].parent = thread[q].parent,
         \A t \in Tids : elem'[t].list = elem[t].list /\ elem'[t].t = elem[t].t,
         \A t \in Tids : t >= next_tid => elem'[t] = elem[t] /\ collected'[t] = collected[t]
  PROVE  /\ FamilyLinks' /\ MainApart' /\ TidsUnique' /\ WaitsForChild' /\ ExecPending'
         /\ HistoryOK' /\ ExecTellsTruth'
<1>1. /\ \A q \in Pages \ {p} : pc'[q] = pc[q] /\ arg'[q] = arg[q]
      /\ pc'[p] \in {"exit", "user"} /\ (p = Main => pc'[p] = "exit")
      /\ result' \in [call : {"none", "exec", "wait"}, of : Tids \cup {0, -1}, value : Int,
                  own : BOOLEAN, misled : BOOLEAN]
      /\ result'.call = "wait" /\ result'.of = of /\ result'.value = v
  BY ReturnTyped
<1>2. SameFamily
  <2>1. pc[Main] \in {"boot", "task", "flag", "wait", "exit", "off"} /\ Main \in Pages
    BY ProcessAssumption DEF ProcessInv, MainApart
  <2> QED
    BY <1>1, <2>1 DEF SameFamily
<1>3. WaitsForChild' /\ ExecPending'
  BY <1>1, <1>2, CallsStay
<1>4. HistoryOK' /\ ExecTellsTruth'
  BY <1>1 DEF ProcessInv, HistoryOK, ExecTellsTruth
<1> QED
  BY <1>2, <1>3, <1>4, FamilyStays

\* process_wait() finds no element: -1 is returned, and nothing is taken out.
LEMMA WaitStrangerInv ==
  ASSUME ProcessInv, NEW p \in Pages, pc[p] \notin {"free", "off", "exec"},
         NEW t \in Tids \cup {0, -1}, WaitStranger(p, t)
  PROVE  ProcessInv'
<1>1. /\ Return(p, "wait", t, -1) /\ UNCHANGED <<thread, ptr, elem, next_tid, died, loads, struck>>
      /\ -1 \in Int
  BY DEF WaitStranger
<1>2. /\ pc' \in [Pages -> Points] /\ arg' \in [Pages -> Tids \cup {0, -1}]
      /\ collected' = collected /\ result'.call = "wait" /\ result'.value = -1
  BY <1>1, ReturnTyped
<1>3. TypeOK' /\ SameAnswers
  BY <1>1, <1>2 DEF ProcessInv, FamilyLinks, TypeOK, SameAnswers
<1>4. StatusesKept' /\ StatusTold'
  BY <1>1, <1>2 DEF ProcessInv, StatusesKept, StatusTold
<1> QED
  BY <1>1, <1>2, <1>3, <1>4, WaitEnds DEF ProcessInv

\* Taking the status out of an element fits the types.
LEMMA CollectTyped ==
  ASSUME ProcessInv, NEW p \in Pages, pc[p] \notin {"free", "off"}, NEW t \in Tids,
         Return(p, "wait", t, elem[t].exitStatus), CollectStatus(t),
         thread' \in [Pages -> Thread], UNCHANGED <<ptr, next_tid, struck>>
  PROVE  TypeOK'
<1>1. TypeOK
  BY DEF ProcessInv, FamilyLinks
<1>2. elem[t].exitStatus \in Int
  <2>1. elem[t].exitStatus \in Statuses \cup {-1}
    BY <1>1 DEF TypeOK, ChildElem
  <2>2. Statuses \cup {-1} \subseteq Int
    BY ProcessAssumption
  <2> QED
    BY <2>1, <2>2
<1>3. elem' \in [Tids -> ChildElem]
  BY <1>1 DEF CollectStatus, TypeOK, ChildElem
<1>4. /\ pc' \in [Pages -> Points] /\ arg' \in [Pages -> Tids \cup {0, -1}]
      /\ collected' \in [Tids -> Nat]
  BY <1>2, ReturnTyped
<1> QED
  BY <1>1, <1>3, <1>4 DEF TypeOK

\* process_wait() returns the status in the element of its child t and takes
\* it out: it is the one t died with, and no wait has returned it before.
LEMMA CollectInv ==
  ASSUME ProcessInv, NEW p \in Pages, pc[p] \notin {"free", "off", "exec"},
         NEW t \in Tids, elem[t].list = p, TypeOK', SameAnswers,
         \A q \in Pages : thread'[q].tid = thread[q].tid /\ thread'[q].parent = thread[q].parent,
         Return(p, "wait", t, elem[t].exitStatus), CollectStatus(t),
         UNCHANGED <<ptr, next_tid, died, loads>>
  PROVE  ProcessInv'
<1> DEFINE v == elem[t].exitStatus
<1>1. /\ elem \in [Tids -> ChildElem] /\ elem[t].exitStatus \in Int
      /\ collected \in [Tids -> Nat] /\ next_tid \in Int /\ MaxTid \in Nat
  <2>1. /\ elem \in [Tids -> ChildElem] /\ collected \in [Tids -> Nat]
        /\ next_tid \in 1..(MaxTid + 1) /\ MaxTid \in Nat
    BY ProcessAssumption DEF ProcessInv, FamilyLinks, TypeOK
  <2>2. elem[t].exitStatus \in Statuses \cup {-1}
    BY <2>1 DEF ChildElem
  <2>3. Statuses \cup {-1} \subseteq Int
    BY ProcessAssumption
  <2> QED
    BY <2>1, <2>2, <2>3
<1>2. /\ result'.call = "wait" /\ result'.of = t /\ result'.value = v
      /\ v = -1 => collected' = collected
  BY <1>1, ReturnTyped
<1>3. collected' = [u \in Tids |-> IF v # -1 /\ u = t THEN collected[u] + 1 ELSE collected[u]]
  BY DEF Return
<1>4. /\ \A u \in Tids \ {t} : elem'[u] = elem[u]
      /\ elem'[t].list = p /\ elem'[t].t = elem[t].t /\ elem'[t].exitStatus = -1
  BY <1>1 DEF CollectStatus, ChildElem
<1>5. t < next_tid
  BY <1>1, ProcessAssumption DEF ProcessInv, TidsUnique, NoElem, Tids
<1>6. v # -1 => died[t] = v /\ died[t] # None /\ collected[t] = 0
  <2>1. v # -1 => died[t] = v
    BY DEF ProcessInv, StatusesKept
  <2>2. v # None
    BY <1>1, ProcessAssumption
  <2>3. v # -1 => collected[t] <= 1 /\ collected[t] # 1 /\ collected[t] \in Nat
    BY <1>1 DEF ProcessInv, StatusesKept
  <2> HIDE DEF v
  <2> QED
    BY <2>1, <2>2, <2>3
<1>7. StatusesKept'
  <2> SUFFICES ASSUME NEW u \in Tids
               PROVE  /\ elem'[u].list = None => elem'[u] = NoElem
                      /\ elem'[u].exitStatus # -1 => died'[u] = elem'[u].exitStatus
                      /\ collected'[u] <= 1
                      /\ collected'[u] = 1 => died'[u] # None /\ elem'[u].exitStatus = -1
    BY DEF StatusesKept
  <2>1. CASE u = t
    <3>1. collected'[t] = IF v # -1 THEN collected[t] + 1 ELSE collected[t]
      BY <1>3
    <3>2. /\ collected'[t] <= 1 /\ (collected'[t] = 1 => died[t] # None)
      BY <3>1, <1>6 DEF ProcessInv, StatusesKept
    <3>3. p # None
      BY ProcessAssumption
    <3> QED
      BY <2>1, <3>2, <3>3, <1>4
  <2>2. CASE u # t
    <3>1. collected'[u] = collected[u]
      BY <2>2, <1>3
    <3> QED
      BY <2>2, <3>1, <1>4 DEF ProcessInv, StatusesKept
  <2> QED
    BY <2>1, <2>2
<1>8. StatusTold'
  BY <1>2, <1>6, <1>7 DEF StatusTold, StatusesKept
<1>9. \A u \in Tids : /\ elem'[u].list = elem[u].list /\ elem'[u].t = elem[u].t
                      /\ u >= next_tid => elem'[u] = elem[u] /\ collected'[u] = collected[u]
  <2>1. \A u \in Tids : u >= next_tid => u # t
    BY <1>1, <1>5 DEF Tids
  <2> QED
    BY <2>1, <1>3, <1>4
<1>10. /\ FamilyLinks' /\ MainApart' /\ TidsUnique' /\ WaitsForChild' /\ ExecPending'
       /\ HistoryOK' /\ ExecTellsTruth'
  BY <1>1, <1>9, WaitEnds
<1> QED
  BY <1>7, <1>8, <1>10 DEF ProcessInv

\* process_wait() with its child alive, and the flag it then sets through the
\* pointer it has read, wherever that points by then.
LEMMA WaitGoesOn ==
  ASSUME ProcessInv, NEW p \in Pages, pc[p] \notin {"free", "off", "exec"},
         WaitFlag(p) \/ \E t \in Tids : WaitAlive(p, t)
  PROVE  ProcessInv'
<1>type. TypeOK /\ thread \in [Pages -> Thread] /\ None \notin Pages
  BY ProcessAssumption DEF ProcessInv, FamilyLinks, TypeOK
<1>1. UNCHANGED <<elem, next_tid, died, loads, result, collected>>
  BY DEF WaitFlag, WaitAlive, historyVars
<1>s. struck' \subseteq Tids \cup {0}
  <2>1. struck \subseteq Tids \cup {0} /\ \A q \in Pages : thread[q].tid \in Tids \cup {0}
    BY <1>type DEF TypeOK, Thread
  <2>2. CASE WaitFlag(p)
    <3>1. ptr[p] \in Pages
      BY <2>2 DEF WaitFlag, ProcessInv, WaitsForChild
    <3> QED
      BY <2>1, <2>2, <3>1 DEF WaitFlag
  <2> QED
    BY <2>1, <2>2 DEF WaitAlive, historyVars
<1>2. /\ thread' \in [Pages -> Thread] /\ SameAnswers
      /\ \A q \in Pages : thread'[q].tid = thread[q].tid /\ thread'[q].parent = thread[q].parent
  <2>1. CASE thread' = thread
    BY <2>1, <1>type DEF SameAnswers
  <2>2. CASE WaitFlag(p)
    <3>1. ptr[p] \in Pages
      BY <2>2 DEF WaitFlag, ProcessInv, WaitsForChild
    <3>2. CASE thread' = [thread EXCEPT ![ptr[p]].isParentWaiting = TRUE]
      <4>1. thread' \in [Pages -> Thread]
        BY <3>1, <3>2, <1>type, ZenonT(30) DEF Thread
      <4> QED
        BY <3>1, <3>2, <4>1, <1>type DEF SameAnswers, Thread
    <3> QED
      BY <2>2, <2>1, <3>2 DEF WaitFlag
  <2> QED
    BY <2>2, <2>1 DEF WaitAlive
<1>3. /\ pc' = [pc EXCEPT ![p] = pc'[p]] /\ arg' = [arg EXCEPT ![p] = arg'[p]]
      /\ ptr' = [ptr EXCEPT ![p] = ptr'[p]]
      /\ \/ pc'[p] = "wait" /\ pc[p] = "flag" /\ arg'[p] = arg[p] /\ ptr'[p] = None
         \/ /\ pc'[p] = "flag" /\ arg'[p] \in Tids
            /\ elem[arg'[p]].list = p /\ ptr'[p] = elem[arg'[p]].t /\ ptr'[p] # None
  BY <1>type DEF WaitFlag, WaitAlive, Goes, TypeOK
<1>4. /\ arg'[p] \in Tids /\ elem[arg'[p]].list = p /\ ptr'[p] \in Pages \cup {None}
      /\ pc'[p] = "flag" => ptr'[p] \in Pages
  <2>1. \A t \in Tids : elem[t].t \in Pages \cup {None}
    BY <1>type DEF TypeOK, ChildElem
  <2> QED
    BY <1>3, <2>1 DEF ProcessInv, WaitsForChild
<1>5. TypeOK'
  <2>1. pc'[p] \in Points
    BY <1>3 DEF Points
  <2> QED
    BY <1>type, <1>1, <1>s, <1>2, <1>3, <1>4, <2>1 DEF TypeOK
<1>6. SameFamily
  <2>1. pc[Main] \in {"boot", "task", "flag", "wait", "exit", "off"} /\ Main \in Pages
    BY ProcessAssumption DEF ProcessInv, MainApart
  <2>2. \A q \in Pages : pc'[q] = pc[q] \/ (q = p /\ pc'[q] \in {"flag", "wait"})
    BY <1>3, <1>type DEF TypeOK
  <2> QED
    BY <1>1, <1>2, <2>1, <2>2 DEF SameFamily, historyVars
<1>7. WaitsForChild' /\ ExecPending'
  <2>1. \A q \in Pages \ {p} : pc'[q] = pc[q] /\ arg'[q] = arg[q] /\ ptr'[q] = ptr[q]
    BY <1>3, <1>type DEF TypeOK
  <2> QED
    BY <2>1, <1>1, <1>2, <1>3, <1>4, <1>6, CallsStay DEF historyVars
<1> QED
  BY <1>1, <1>5, <1>6, <1>7, FamilyStays, RecordsStay DEF ProcessInv, Records

\* process_wait(), from its call to its end, keeps the invariant.
LEMMA WaitInv ==
  ASSUME ProcessInv, NEW p \in Pages,
         \/ \E t \in Tids : SysWait(p, t)
         \/ RunTaskWait /\ p = Main
         \/ WaitFlag(p)
         \/ WaitReturns(p)
  PROVE  ProcessInv'
<1>type. TypeOK /\ thread \in [Pages -> Thread]
  BY DEF ProcessInv, FamilyLinks, TypeOK
<1>1. ASSUME NEW t \in Tids, WaitDead(p, t), pc[p] \notin {"free", "off", "exec"}
      PROVE  ProcessInv'
  <2>1. /\ elem[t].list = p /\ Return(p, "wait", t, elem[t].exitStatus) /\ CollectStatus(t)
        /\ UNCHANGED <<thread, ptr, next_tid, died, loads, struck>>
    BY <1>1 DEF WaitDead
  <2> QED
    BY <1>1, <1>type, <2>1, CollectTyped, CollectInv DEF SameAnswers
<1>2. CASE WaitReturns(p)
  <2>1. /\ pc[p] = "wait" /\ arg[p] \in Tids /\ elem[arg[p]].list = p
        /\ Return(p, "wait", arg[p], elem[arg[p]].exitStatus) /\ CollectStatus(arg[p])
        /\ UNCHANGED <<ptr, next_tid, died, loads, struck>>
    BY <1>2 DEF WaitReturns, ProcessInv, WaitsForChild
  <2>2. thread' = [thread EXCEPT ![p].waiting = thread[p].waiting - 1] /\ thread[p].waiting > 0
    BY <1>2 DEF WaitReturns
  <2>3. thread[p].waiting - 1 \in Nat
    BY <2>2, <1>type DEF Thread
  <2>4. /\ thread' \in [Pages -> Thread] /\ SameAnswers
        /\ \A q \in Pages : thread'[q].tid = thread[q].tid /\ thread'[q].parent = thread[q].parent
    BY <2>2, <2>3, <1>type DEF SameAnswers, Thread
  <2> QED
    BY <2>1, <2>4, CollectTyped, CollectInv
<1>3. ASSUME NEW t \in Tids \cup {0, -1}, ProcessWait(p, t), pc[p] \notin {"free", "off", "exec"}
      PROVE  ProcessInv'
  BY <1>1, <1>3, WaitStrangerInv, WaitGoesOn DEF ProcessWait, WaitDead, WaitAlive
<1>4. CASE RunTaskWait /\ p = Main
  <2>1. arg[Main] \in Tids \cup {0, -1}
    BY <1>type, ProcessAssumption DEF TypeOK
  <2> QED
    BY <1>3, <1>4, <2>1 DEF RunTaskWait
<1>5. CASE WaitFlag(p)
  BY <1>5, WaitGoesOn DEF WaitFlag
<1> QED
  BY <1>2, <1>3, <1>4, <1>5 DEF SysWait

\* load() of q: its result is recorded before q tells anybody.
LEMMA LoadInv ==
  ASSUME ProcessInv, NEW q \in Pages, NEW ok \in BOOLEAN, Load(q, ok)
  PROVE  ProcessInv'
<1> DEFINE tid == thread[q].tid
<1>type. TypeOK /\ thread \in [Pages -> Thread] /\ loads \in [Tids -> {"none", "ok", "failed"}]
  BY DEF ProcessInv, FamilyLinks, TypeOK, HistoryOK
<1>1. /\ pc[q] = "start" /\ Alive(q) /\ q # Main
      /\ pc' = [pc EXCEPT ![q] = "loaded"]
      /\ thread' = [thread EXCEPT ![q].success = ok]
      /\ loads' = [loads EXCEPT ![tid] = IF ok THEN "ok" ELSE "failed"]
      /\ UNCHANGED <<arg, ptr, elem, next_tid, died, result, collected, struck>>
  BY DEF Load, Goes, Alive, ProcessInv, MainApart
<1>2. tid \in Tids /\ tid < next_tid /\ next_tid \in Int /\ MaxTid \in Nat
  <2>1. next_tid \in 1..(MaxTid + 1) /\ MaxTid \in Nat /\ tid \in 1..(next_tid - 1)
    BY <1>1, <1>type, ProcessAssumption DEF TypeOK, ProcessInv, MainApart
  <2> HIDE DEF tid
  <2> QED
    BY <2>1 DEF Tids
<1>3. /\ thread' \in [Pages -> Thread]
      /\ \A p \in Pages : /\ thread'[p].tid = thread[p].tid
                          /\ thread'[p].parent = thread[p].parent
                          /\ thread'[p].waiting2 = thread[p].waiting2
                          /\ thread'[p].childLoadStatus = thread[p].childLoadStatus
                          /\ p # q => thread'[p].success = thread[p].success
      /\ thread'[q].success = ok
  <2>1. thread' \in [Pages -> Thread]
    BY <1>1, <1>type DEF Thread
  <2> QED
    BY <1>1, <1>type, <2>1 DEF Thread
<1>4. /\ loads' \in [Tids -> {"none", "ok", "failed"}]
      /\ loads[tid] = "none" /\ loads'[tid] = IF ok THEN "ok" ELSE "failed"
      /\ \A t \in Tids \ {tid} : loads'[t] = loads[t]
  BY <1>1, <1>2, <1>type DEF ProcessInv, ExecPending
<1>5. TypeOK'
  BY <1>1, <1>3, <1>type DEF TypeOK, Points
<1>6. SameFamily
  <2>1. \A p \in Pages : pc'[p] = pc[p] \/ (p = q /\ pc'[p] = "loaded" /\ pc[p] = "start")
    BY <1>1, <1>type DEF TypeOK
  <2>2. \A t \in Tids : t >= next_tid => loads'[t] = loads[t]
    BY <1>2, <1>4 DEF Tids
  <2>3. pc[Main] \in {"boot", "task", "flag", "wait", "exit", "off"} /\ Main \in Pages
    BY ProcessAssumption DEF ProcessInv, MainApart
  <2> QED
    BY <1>1, <1>3, <2>1, <2>2, <2>3 DEF SameFamily
<1>7. HistoryOK' /\ StatusesKept' /\ StatusTold' /\ ExecTellsTruth'
  <2>1. HistoryOK' /\ StatusesKept' /\ StatusTold'
    BY <1>1, <1>4 DEF ProcessInv, HistoryOK, StatusesKept, StatusTold
  <2>2. result.call = "exec" => loads[result.of] \in {"ok", "failed"} /\ result.of # tid
    BY <1>4 DEF ProcessInv, ExecTellsTruth
  <2>3. result.call = "exec" => loads'[result.of] = loads[result.of]
    BY <1>1, <1>type, <2>2
  <2> QED
    BY <1>1, <2>1, <2>3 DEF ProcessInv, ExecTellsTruth
<1>8. WaitsForChild'
  BY <1>1, <1>type DEF ProcessInv, WaitsForChild, TypeOK
<1>9. ExecPending'
  <2>1. ASSUME NEW p \in Pages
        PROVE  /\ pc'[p] = "start" => loads'[thread'[p].tid] = "none"
               /\ pc'[p] = "loaded" =>
                    loads'[thread'[p].tid] = IF thread'[p].success THEN "ok" ELSE "failed"
    <3>1. CASE p = q
      BY <1>1, <1>3, <1>4, <1>type, <3>1 DEF TypeOK
    <3>2. CASE p # q /\ pc[p] \in {"start", "loaded"}
      <4>1. thread[p].tid # tid
        BY <3>2, <1>1 DEF ProcessInv, TidsUnique, Alive
      <4>2. loads'[thread[p].tid] = loads[thread[p].tid]
        BY <4>1, <1>1, <1>type
      <4> QED
        BY <1>1, <1>3, <1>type, <3>2, <4>2 DEF TypeOK, ProcessInv, ExecPending
    <3> QED
      BY <1>1, <1>type, <3>1, <3>2 DEF TypeOK
  <2>2. ASSUME NEW p \in Pages, pc'[p] \in {"start", "loaded"},
               thread'[p].parent \notin {None, Main}
        PROVE  /\ pc'[thread'[p].parent] = "exec" /\ arg'[thread'[p].parent] = thread'[p].tid
               /\ thread'[thread'[p].parent].waiting2 = 0
    <3>1. pc[p] \in {"start", "loaded"} /\ thread[p].parent \notin {None, Main} /\ Alive(p)
      BY <2>2, <1>1, <1>3, <1>type DEF TypeOK, Alive
    <3>2. /\ thread[p].parent \in Pages /\ pc[thread[p].parent] = "exec"
          /\ arg[thread[p].parent] = thread[p].tid /\ thread[thread[p].parent].waiting2 = 0
      BY <3>1, ParentLives DEF ProcessInv, ExecPending
    <3> QED
      BY <3>2, <1>1, <1>3, <1>type DEF TypeOK
  <2>3. ASSUME NEW p \in Pages \ {Main}, Alive(p)', thread'[p].waiting2 # 0
        PROVE  /\ thread'[p].waiting2 = 1
               /\ pc'[p] = "exec" /\ arg'[p] \in Tids
               /\ loads'[arg'[p]] = IF thread'[p].childLoadStatus THEN "ok" ELSE "failed"
    <3>1. Alive(p) /\ thread[p].waiting2 # 0
      BY <2>3, <1>1, <1>3, <1>type DEF TypeOK, Alive
    <3>2. /\ thread[p].waiting2 = 1 /\ pc[p] = "exec" /\ arg[p] \in Tids
          /\ loads[arg[p]] = IF thread[p].childLoadStatus THEN "ok" ELSE "failed"
      BY <3>1 DEF ProcessInv, ExecPending
    <3>3. arg[p] # tid /\ p # q
      BY <3>2, <1>1, <1>4
    <3> QED
      BY <3>2, <3>3, <1>1, <1>3, <1>4, <1>type DEF TypeOK
  <2> QED
    BY <2>1, <2>2, <2>3 DEF ExecPending, Alive
<1> QED
  BY <1>5, <1>6, <1>7, <1>8, <1>9, FamilyStays DEF ProcessInv

\* start_process() answers the parent that still waits for it.
LEMMA LoadedInv ==
  ASSUME ProcessInv, NEW q \in Pages, Loaded(q)
  PROVE  ProcessInv'
<1> DEFINE par == thread[q].parent
<1>type. TypeOK /\ thread \in [Pages -> Thread]
  BY DEF ProcessInv, FamilyLinks, TypeOK
<1>1. /\ pc[q] = "loaded" /\ Alive(q) /\ q # Main
      /\ pc' = [pc EXCEPT ![q] = pc'[q]] /\ pc'[q] \in {"user", "exit"}
      /\ UNCHANGED <<arg, ptr, elem, next_tid, historyVars>>
  BY <1>type DEF Loaded, Goes, Alive, ProcessInv, MainApart, TypeOK
<1>2. /\ \A p \in Pages \ {q} : pc'[p] = pc[p]
      /\ par # None => par \in Pages /\ Alive(par) /\ thread[q].tid \in Tids
  BY <1>1, <1>type, ParentLives DEF TypeOK
<1>3. par # None =>
        thread' = [thread EXCEPT ![par].childLoadStatus = thread[q].success,
                                 ![par].waiting2 = thread[par].waiting2 + 1]
  BY <1>2, <1>type DEF Loaded, Thread
<1>4. par = None => thread' = thread
  BY DEF Loaded
<1>5. thread' \in [Pages -> Thread]
  <2>1. CASE par = None
    BY <2>1, <1>4, <1>type
  <2>2. CASE par # None
    <3>1. thread[q].success \in BOOLEAN /\ thread[par].waiting2 + 1 \in Nat
      BY <2>2, <1>2, <1>type DEF Thread
    <3> QED
      BY <2>2, <3>1, <1>2, <1>3, <1>type DEF Thread
  <2> QED
    BY <2>1, <2>2
<1>6. \A p \in Pages :
        /\ thread'[p].tid = thread[p].tid /\ thread'[p].parent = thread[p].parent
        /\ thread'[p].success = thread[p].success
        /\ p # par => /\ thread'[p].waiting2 = thread[p].waiting2
                      /\ thread'[p].childLoadStatus = thread[p].childLoadStatus
        /\ p = par => /\ thread'[p].waiting2 = thread[p].waiting2 + 1
                      /\ thread'[p].childLoadStatus = thread[q].success
  <2>1. CASE par = None
    BY <2>1, <1>4, ProcessAssumption
  <2>2. CASE par # None
    BY <2>2, <1>2, <1>3, <1>type DEF Thread
  <2> QED
    BY <2>1, <2>2
<1>7. TypeOK'
  BY <1>1, <1>5, <1>type DEF TypeOK, Points, historyVars
<1>8. SameFamily
  <2>1. pc[Main] \in {"boot", "task", "flag", "wait", "exit", "off"} /\ Main \in Pages
    BY ProcessAssumption DEF ProcessInv, MainApart
  <2> QED
    BY <1>1, <1>2, <1>6, <2>1 DEF SameFamily, historyVars
<1>9. WaitsForChild'
  BY <1>1, <1>2 DEF ProcessInv, WaitsForChild
<1>10. ExecPending'
  <2>1. loads' = loads /\ arg' = arg
    BY <1>1 DEF historyVars
  <2>2. ASSUME NEW p \in Pages, pc'[p] \in {"start", "loaded"}
        PROVE  p # q /\ pc[p] = pc'[p] /\ Alive(p)
    BY <2>2, <1>1, <1>2 DEF Alive
  <2>3. ASSUME NEW p \in Pages, pc'[p] \in {"start", "loaded"},
               thread'[p].parent \notin {None, Main}
        PROVE  /\ pc'[thread'[p].parent] = "exec" /\ arg'[thread'[p].parent] = thread'[p].tid
               /\ thread'[thread'[p].parent].waiting2 = 0
    <3>1. p # q /\ pc[p] = pc'[p] /\ Alive(p) /\ thread[p].parent \notin {None, Main}
      BY <2>2, <2>3, <1>6
    <3>2. /\ thread[p].parent \in Pages /\ pc[thread[p].parent] = "exec"
          /\ arg[thread[p].parent] = thread[p].tid /\ thread[thread[p].parent].waiting2 = 0
      BY <2>3, <3>1, ParentLives DEF ProcessInv, ExecPending
    <3>3. thread[p].parent # par
      <4> SUFFICES ASSUME thread[p].parent = par PROVE FALSE
        OBVIOUS
      <4>1. arg[par] = thread[q].tid
        BY <1>1, <3>1 DEF ProcessInv, ExecPending
      <4> QED
        BY <4>1, <3>1, <3>2, <1>1 DEF ProcessInv, TidsUnique
    <3>4. thread[p].parent # q
      BY <3>2, <1>1
    <3> QED
      BY <3>2, <3>3, <3>4, <1>2, <1>6, <2>1
  <2>4. ASSUME NEW p \in Pages \ {Main}, Alive(p)', thread'[p].waiting2 # 0
        PROVE  /\ thread'[p].waiting2 = 1
               /\ pc'[p] = "exec" /\ arg'[p] \in Tids
               /\ loads'[arg'[p]] = IF thread'[p].childLoadStatus THEN "ok" ELSE "failed"
    <3>0. Alive(p)
      BY <2>4, <1>1, <1>2 DEF Alive
    <3>1. CASE p = par
      <4>1. /\ pc[par] = "exec" /\ arg[par] = thread[q].tid /\ thread[par].waiting2 = 0
            /\ thread[q].tid \in Tids /\ par \in Pages /\ par # q
        BY <3>1, <1>1, <1>2, ProcessAssumption DEF ProcessInv, ExecPending
      <4>2. loads[thread[q].tid] = IF thread[q].success THEN "ok" ELSE "failed"
        BY <1>1 DEF ProcessInv, ExecPending
      <4>3. pc'[par] = "exec" /\ arg'[par] = thread[q].tid
        BY <4>1, <1>2, <2>1
      <4>4. thread'[par].waiting2 = 1 /\ thread'[par].childLoadStatus = thread[q].success
        BY <4>1, <1>6
      <4> QED
        BY <3>1, <4>1, <4>2, <4>3, <4>4, <2>1
    <3>2. CASE p # par
      <4>1. thread[p].waiting2 # 0
        BY <2>4, <3>2, <1>6
      <4>2. /\ thread[p].waiting2 = 1 /\ pc[p] = "exec" /\ arg[p] \in Tids
            /\ loads[arg[p]] = IF thread[p].childLoadStatus THEN "ok" ELSE "failed"
        BY <3>0, <4>1 DEF ProcessInv, ExecPending
      <4>3. p # q
        BY <4>2, <1>1
      <4> QED
        BY <3>2, <4>2, <4>3, <1>2, <1>6, <2>1
    <3> QED
      BY <3>1, <3>2
  <2>5. ASSUME NEW p \in Pages
        PROVE  /\ pc'[p] = "start" => loads'[thread'[p].tid] = "none"
               /\ pc'[p] = "loaded" =>
                    loads'[thread'[p].tid] = IF thread'[p].success THEN "ok" ELSE "failed"
    BY <2>1, <2>2, <1>6 DEF ProcessInv, ExecPending
  <2> QED
    BY <2>3, <2>4, <2>5 DEF ExecPending, Alive
<1> QED
  BY <1>1, <1>7, <1>8, <1>9, <1>10, FamilyStays, RecordsStay DEF ProcessInv, Records, historyVars

\* SYS_EXEC returns what its child has answered.
LEMMA ExecReturnsInv ==
  ASSUME ProcessInv, NEW p \in Pages, ExecReturns(p)
  PROVE  ProcessInv'
<1> DEFINE v == IF thread[p].childLoadStatus THEN arg[p] ELSE -1
<1>type. TypeOK /\ thread \in [Pages -> Thread]
  BY DEF ProcessInv, FamilyLinks, TypeOK
<1>1. /\ pc[p] = "exec" /\ Alive(p) /\ p # Main
      /\ thread[p].waiting2 > 0
      /\ thread' = [thread EXCEPT ![p].waiting2 = thread[p].waiting2 - 1]
      /\ Return(p, "exec", arg[p], v)
      /\ UNCHANGED <<ptr, elem, next_tid, died, loads, struck>>
  BY DEF ExecReturns, Alive, ProcessInv, MainApart
<1>2. /\ thread[p].waiting2 = 1 /\ arg[p] \in Tids
      /\ loads[arg[p]] = IF thread[p].childLoadStatus THEN "ok" ELSE "failed"
  <2>1. thread[p].waiting2 # 0
    BY <1>1, <1>type DEF Thread
  <2> QED
    BY <2>1, <1>1 DEF ProcessInv, ExecPending
<1>3. v \in Int /\ arg[p] \in Tids \cup {0, -1} /\ "exec" \in {"exec", "wait"}
  BY <1>2 DEF Tids
<1>4. /\ pc' \in [Pages -> Points] /\ arg' \in [Pages -> Tids \cup {0, -1}]
      /\ collected' = collected
      /\ result' \in [call : {"none", "exec", "wait"}, of : Tids \cup {0, -1}, value : Int,
                  own : BOOLEAN, misled : BOOLEAN]
      /\ result'.call = "exec" /\ result'.of = arg[p] /\ result'.value = v
      /\ \A q \in Pages \ {p} : pc'[q] = pc[q] /\ arg'[q] = arg[q]
      /\ pc'[p] \in {"exit", "user"}
  <2> HIDE DEF v
  <2> QED
    BY <1>1, <1>3, ReturnTyped DEF Alive
<1>5. /\ thread' \in [Pages -> Thread]
      /\ \A q \in Pages : /\ thread'[q].tid = thread[q].tid
                          /\ thread'[q].parent = thread[q].parent
                          /\ thread'[q].success = thread[q].success
                          /\ thread'[q].childLoadStatus = thread[q].childLoadStatus
                          /\ q # p => thread'[q].waiting2 = thread[q].waiting2
      /\ thread'[p].waiting2 = 0
  <2>1. thread' = [thread EXCEPT ![p].waiting2 = 0]
    BY <1>1, <1>2
  <2>2. thread' \in [Pages -> Thread]
    BY <2>1, <1>type DEF Thread
  <2> QED
    BY <2>1, <2>2, <1>type DEF Thread
<1>6. TypeOK'
  BY <1>1, <1>4, <1>5, <1>type DEF TypeOK
<1>7. SameFamily
  <2>1. pc[Main] \in {"boot", "task", "flag", "wait", "exit", "off"} /\ Main \in Pages
    BY ProcessAssumption DEF ProcessInv, MainApart
  <2> QED
    BY <1>1, <1>4, <1>5, <2>1 DEF SameFamily
<1>8. HistoryOK' /\ StatusesKept' /\ StatusTold'
  BY <1>1, <1>4 DEF ProcessInv, HistoryOK, StatusesKept, StatusTold
<1>9. ExecTellsTruth'
  BY <1>1, <1>2, <1>4 DEF ExecTellsTruth
<1>10. WaitsForChild'
  BY <1>1, <1>4 DEF ProcessInv, WaitsForChild
<1>11. ExecPending'
  <2>1. ASSUME NEW q \in Pages, pc'[q] \in {"start", "loaded"}
        PROVE  q # p /\ pc[q] = pc'[q] /\ Alive(q)
    BY <2>1, <1>4 DEF Alive
  <2>2. ASSUME NEW q \in Pages, pc'[q] \in {"start", "loaded"},
               thread'[q].parent \notin {None, Main}
        PROVE  /\ pc'[thread'[q].parent] = "exec" /\ arg'[thread'[q].parent] = thread'[q].tid
               /\ thread'[thread'[q].parent].waiting2 = 0
    <3>1. pc[q] = pc'[q] /\ Alive(q) /\ thread[q].parent \notin {None, Main}
      BY <2>1, <2>2, <1>5
    <3>2. /\ thread[q].parent \in Pages /\ pc[thread[q].parent] = "exec"
          /\ arg[thread[q].parent] = thread[q].tid /\ thread[thread[q].parent].waiting2 = 0
      BY <2>2, <3>1, ParentLives DEF ProcessInv, ExecPending
    <3>3. thread[q].parent # p
      BY <3>2, <1>2
    <3> QED
      BY <3>2, <3>3, <1>4, <1>5
  <2>3. ASSUME NEW q \in Pages \ {Main}, Alive(q)', thread'[q].waiting2 # 0
        PROVE  /\ thread'[q].waiting2 = 1
               /\ pc'[q] = "exec" /\ arg'[q] \in Tids
               /\ loads'[arg'[q]] = IF thread'[q].childLoadStatus THEN "ok" ELSE "failed"
    <3>1. q # p /\ Alive(q) /\ thread[q].waiting2 # 0
      BY <2>3, <1>4, <1>5 DEF Alive
    <3> QED
      BY <3>1, <1>1, <1>4, <1>5 DEF ProcessInv, ExecPending
  <2>4. ASSUME NEW q \in Pages
        PROVE  /\ pc'[q] = "start" => loads'[thread'[q].tid] = "none"
               /\ pc'[q] = "loaded" =>
                    loads'[thread'[q].tid] = IF thread'[q].success THEN "ok" ELSE "failed"
    BY <2>1, <1>1, <1>5 DEF ProcessInv, ExecPending
  <2> QED
    BY <2>2, <2>3, <2>4 DEF ExecPending, Alive
<1> QED
  BY <1>6, <1>7, <1>8, <1>9, <1>10, <1>11, FamilyStays DEF ProcessInv

\* process_execute(): the new process gets a page and a tid that nobody has,
\* and an element in its parent's list.
LEMMA ExecuteInv ==
  ASSUME ProcessInv, NEW p \in Pages, NEW q \in Pages, NEW point,
         ProcessExecute(p, q, point),
         \/ pc[p] = "user" /\ point = "exec"
         \/ p = Main /\ pc[p] = "boot" /\ point = "task"
  PROVE  ProcessInv'
<1>type. /\ TypeOK /\ thread \in [Pages -> Thread] /\ MaxTid \in Nat /\ None \notin Pages
         /\ HistoryOK /\ Main \in Pages
  BY ProcessAssumption DEF ProcessInv, FamilyLinks, TypeOK
<1>1. /\ pc[q] = "free" /\ next_tid <= MaxTid
      /\ pc' = [pc EXCEPT ![p] = point, ![q] = "start"]
      /\ thread' = [thread EXCEPT ![q] = NewThread(next_tid, p)]
      /\ elem' = [elem EXCEPT ![next_tid] = [list |-> p, t |-> q, exitStatus |-> -1]]
      /\ arg' = [arg EXCEPT ![p] = next_tid]
      /\ next_tid' = next_tid + 1
      /\ UNCHANGED <<ptr, historyVars>>
  BY DEF ProcessExecute
<1>2. next_tid \in Tids /\ next_tid \in Nat /\ next_tid + 1 \in 1..(MaxTid + 1)
  BY <1>1, <1>type DEF TypeOK, Tids
<1>3. /\ p # q /\ Alive(p) /\ ~Alive(q) /\ q # Main
      /\ pc'[p] = point /\ pc'[q] = "start" /\ \A r \in Pages \ {p, q} : pc'[r] = pc[r]
  BY <1>1, <1>type DEF Alive, TypeOK, ProcessInv, MainApart
<1>4. /\ thread' \in [Pages -> Thread]
      /\ thread'[q].tid = next_tid /\ thread'[q].parent = p
      /\ thread'[q].waiting2 = 0
      /\ \A r \in Pages \ {q} : thread'[r] = thread[r]
  <2>1. NewThread(next_tid, p) \in Thread
    BY <1>2 DEF NewThread, Thread
  <2> QED
    BY <2>1, <1>1, <1>type DEF NewThread
<1>5. /\ elem' \in [Tids -> ChildElem]
      /\ elem'[next_tid].list = p /\ elem'[next_tid].t = q /\ elem'[next_tid].exitStatus = -1
      /\ \A t \in Tids \ {next_tid} : elem'[t] = elem[t]
  <2>1. [list |-> p, t |-> q, exitStatus |-> -1] \in ChildElem
    BY DEF ChildElem
  <2> QED
    BY <2>1, <1>1, <1>2, <1>type DEF TypeOK
<1>6. /\ elem[next_tid] = NoElem /\ died[next_tid] = None /\ loads[next_tid] = "none"
      /\ collected[next_tid] = 0
  BY <1>2 DEF ProcessInv, TidsUnique
<1>7. \A r \in Pages : Alive(r) => thread[r].tid # next_tid /\ thread[r].tid < next_tid
  <2> SUFFICES ASSUME NEW r \in Pages, Alive(r)
               PROVE  thread[r].tid # next_tid /\ thread[r].tid < next_tid
    OBVIOUS
  <2>1. CASE r = Main
    BY <2>1, <1>2, <1>type DEF ProcessInv, MainApart, Tids
  <2>2. CASE r # Main
    <3>1. thread[r].tid \in 1..(next_tid - 1)
      BY <2>2 DEF ProcessInv, MainApart
    <3> QED
      BY <3>1, <1>2
  <2> QED
    BY <2>1, <2>2
<1>8. TypeOK'
  <2>1. point \in Points /\ "start" \in Points
    BY DEF Points
  <2> QED
    BY <1>1, <1>2, <1>4, <1>5, <2>1, <1>type DEF TypeOK, historyVars
<1>9. \A r \in Pages : r # q => (Alive(r)' <=> Alive(r))
  BY <1>3 DEF Alive
<1>10. FamilyLinks'
  <2>1. ASSUME NEW r \in Pages, Alive(r)', thread'[r].parent # None
        PROVE  /\ pc'[thread'[r].parent] \notin {"free", "off"}
               /\ elem'[thread'[r].tid].list = thread'[r].parent
               /\ elem'[thread'[r].tid].t = r
    <3>1. CASE r = q
      BY <3>1, <1>3, <1>4, <1>5 DEF Alive
    <3>2. CASE r # q
      <4>1. Alive(r) /\ thread[r].parent # None /\ thread'[r] = thread[r]
        BY <2>1, <3>2, <1>4, <1>9
      <4>2. /\ thread[r].parent \in Pages /\ Alive(thread[r].parent)
            /\ thread[r].tid \in Tids \ {next_tid}
            /\ elem[thread[r].tid].list = thread[r].parent
            /\ elem[thread[r].tid].t = r
        BY <4>1, <1>7, ParentLives
      <4> QED
        BY <4>1, <4>2, <1>3, <1>5, <1>9 DEF Alive
    <3> QED
      BY <3>1, <3>2
  <2>2. ASSUME NEW t \in Tids, elem'[t].list # None
        PROVE  /\ pc'[elem'[t].list] \notin {"free", "off"}
               /\ elem'[t].t # None =>
                    /\ pc'[elem'[t].t] \notin {"free", "off"} /\ thread'[elem'[t].t].tid = t
                    /\ thread'[elem'[t].t].parent = elem'[t].list
    <3>1. CASE t = next_tid
      BY <3>1, <1>3, <1>4, <1>5 DEF Alive
    <3>2. CASE t # next_tid
      <4>1. /\ elem'[t] = elem[t] /\ elem[t].list \in Pages /\ Alive(elem[t].list)
            /\ elem[t].t # None => /\ elem[t].t \in Pages /\ Alive(elem[t].t)
                                   /\ thread[elem[t].t].tid = t
                                   /\ thread[elem[t].t].parent = elem[t].list
        BY <2>2, <3>2, <1>5, <1>type DEF TypeOK, ChildElem, ProcessInv, FamilyLinks
      <4> QED
        BY <4>1, <1>3, <1>4, <1>9 DEF Alive
    <3> QED
      BY <3>1, <3>2
  <2> QED
    BY <2>1, <2>2, <1>8 DEF FamilyLinks, Alive
<1>11. MainApart'
  <2>1. /\ pc'[Main] \in {"boot", "task", "flag", "wait", "exit", "off"}
        /\ thread'[Main].tid = 0 /\ thread'[Main].parent = None
    BY <1>3, <1>4, <1>type DEF ProcessInv, MainApart
  <2>2. ASSUME NEW r \in Pages \ {Main}
        PROVE  /\ pc'[r] \notin {"boot", "task", "off"}
               /\ Alive(r)' => thread'[r].tid \in 1..(next_tid' - 1)
    <3>1. pc'[r] \notin {"boot", "task", "off"}
      BY <1>3 DEF ProcessInv, MainApart
    <3>2. CASE r = q
      <4>1. next_tid \in 1..(next_tid' - 1)
        BY <1>1, <1>2 DEF Tids
      <4> QED
        BY <3>1, <3>2, <4>1, <1>4
    <3>3. CASE r # q /\ Alive(r)
      <4>1. thread'[r].tid = thread[r].tid /\ thread[r].tid \in 1..(next_tid - 1)
        BY <3>3, <1>4 DEF ProcessInv, MainApart
      <4> QED
        BY <3>1, <4>1, <1>1, <1>2
    <3>4. CASE r # q /\ ~Alive(r)
      BY <3>1, <3>4, <1>9
    <3> QED
      BY <3>2, <3>3, <3>4
  <2> QED
    BY <2>1, <2>2 DEF MainApart
<1>12. TidsUnique'
  <2>1. ASSUME NEW r \in Pages, NEW s \in Pages, Alive(r)', Alive(s)',
               thread'[r].tid = thread'[s].tid
        PROVE  r = s
    BY <2>1, <1>4, <1>7, <1>9 DEF ProcessInv, TidsUnique
  <2>2. ASSUME NEW t \in Tids, t >= next_tid'
        PROVE  elem'[t] = NoElem /\ died'[t] = None /\ loads'[t] = "none" /\ collected'[t] = 0
    <3>1. t >= next_tid /\ t # next_tid
      BY <2>2, <1>1, <1>2 DEF Tids
    <3> QED
      BY <3>1, <1>1, <1>5 DEF ProcessInv, TidsUnique, historyVars
  <2>3. ASSUME NEW r \in Pages, Alive(r)', thread'[r].tid \in Tids
        PROVE  died'[thread'[r].tid] = None
    <3>1. CASE r = q
      BY <3>1, <1>1, <1>4, <1>6 DEF historyVars
    <3>2. CASE r # q
      BY <2>3, <3>2, <1>1, <1>4, <1>9 DEF ProcessInv, TidsUnique, historyVars
    <3> QED
      BY <3>1, <3>2
  <2> QED
    BY <2>1, <2>2, <2>3 DEF TidsUnique
<1>13. StatusesKept'
  <2> SUFFICES ASSUME NEW t \in Tids
               PROVE  /\ elem'[t].list = None => elem'[t] = NoElem
                      /\ elem'[t].exitStatus # -1 => died'[t] = elem'[t].exitStatus
                      /\ collected'[t] <= 1
                      /\ collected'[t] = 1 => died'[t] # None /\ elem'[t].exitStatus = -1
    BY DEF StatusesKept
  <2>1. CASE t = next_tid
    BY <2>1, <1>1, <1>5, <1>6, <1>type DEF historyVars
  <2>2. CASE t # next_tid
    BY <2>2, <1>1, <1>5 DEF ProcessInv, StatusesKept, historyVars
  <2> QED
    BY <2>1, <2>2
<1>14. HistoryOK' /\ ExecTellsTruth' /\ StatusTold'
  BY <1>1 DEF ProcessInv, HistoryOK, ExecTellsTruth, StatusTold, historyVars
<1>15. WaitsForChild'
  <2> SUFFICES ASSUME NEW r \in Pages
               PROVE  /\ pc'[r] \in {"flag", "wait"} => arg'[r] \in Tids /\ elem'[arg'[r]].list = r
                      /\ pc'[r] = "flag" => ptr'[r] \in Pages
    BY DEF WaitsForChild
  <2>1. CASE pc'[r] \in {"flag", "wait"}
    <3>1. r # p /\ r # q /\ pc[r] = pc'[r] /\ arg'[r] = arg[r] /\ ptr' = ptr
      BY <2>1, <1>1, <1>3, <1>type DEF TypeOK
    <3>2. arg[r] \in Tids /\ elem[arg[r]].list = r /\ (pc[r] = "flag" => ptr[r] \in Pages)
      BY <2>1, <3>1 DEF ProcessInv, WaitsForChild
    <3>3. arg[r] # next_tid
      BY <3>2, <1>6, <1>type DEF NoElem
    <3> QED
      BY <3>1, <3>2, <3>3, <1>5
  <2> QED
    BY <2>1
<1>16. ExecPending'
  <2>1. loads' = loads /\ arg'[p] = next_tid /\ \A r \in Pages \ {p} : arg'[r] = arg[r]
    BY <1>1, <1>type DEF historyVars, TypeOK
  <2>2. thread[p].waiting2 = 0 \/ p = Main
    BY <1>3 DEF ProcessInv, ExecPending
  <2>3. ASSUME NEW r \in Pages, pc'[r] \in {"start", "loaded"}, r # q
        PROVE  pc[r] = pc'[r] /\ Alive(r) /\ thread'[r] = thread[r]
    BY <2>3, <1>3, <1>4 DEF Alive
  <2>4. ASSUME NEW r \in Pages
        PROVE  /\ pc'[r] = "start" => loads'[thread'[r].tid] = "none"
               /\ pc'[r] = "loaded" =>
                    loads'[thread'[r].tid] = IF thread'[r].success THEN "ok" ELSE "failed"
    BY <2>1, <2>3, <1>3, <1>4, <1>6 DEF ProcessInv, ExecPending
  <2>5. ASSUME NEW r \in Pages, pc'[r] \in {"start", "loaded"},
               thread'[r].parent \notin {None, Main}
        PROVE  /\ pc'[thread'[r].parent] = "exec" /\ arg'[thread'[r].parent] = thread'[r].tid
               /\ thread'[thread'[r].parent].waiting2 = 0
    <3>1. CASE r = q
      BY <2>1, <2>2, <2>5, <3>1, <1>3, <1>4
    <3>2. CASE r # q
      <4>1. pc[r] = pc'[r] /\ Alive(r) /\ thread'[r] = thread[r]
        BY <2>3, <2>5, <3>2
      <4>2. /\ thread[r].parent \in Pages /\ pc[thread[r].parent] = "exec"
            /\ arg[thread[r].parent] = thread[r].tid /\ thread[thread[r].parent].waiting2 = 0
        BY <2>5, <4>1, ParentLives DEF ProcessInv, ExecPending
      <4>3. thread[r].parent \notin {p, q}
        BY <4>2, <1>1
      <4> QED
        BY <4>1, <4>2, <4>3, <2>1, <1>3, <1>4
    <3> QED
      BY <3>1, <3>2
  <2>6. ASSUME NEW r \in Pages \ {Main}, Alive(r)', thread'[r].waiting2 # 0
        PROVE  /\ thread'[r].waiting2 = 1
               /\ pc'[r] = "exec" /\ arg'[r] \in Tids
               /\ loads'[arg'[r]] = IF thread'[r].childLoadStatus THEN "ok" ELSE "failed"
    <3>1. r # q /\ r # p /\ Alive(r) /\ thread'[r] = thread[r]
      BY <2>2, <2>6, <1>4, <1>9
    <3> QED
      BY <3>1, <2>1, <2>6, <1>3 DEF ProcessInv, ExecPending
  <2> QED
    BY <2>4, <2>5, <2>6 DEF ExecPending, Alive
<1> QED
  BY <1>10, <1>11, <1>12, <1>13, <1>14, <1>15, <1>16 DEF ProcessInv

\* What thread_exit() does to the processes and to the elements, with the sets
\* Dying and Orphans worked out.
LEMMA ExitStep ==
  ASSUME ProcessInv, NEW p \in Pages, ThreadExit(p)
  PROVE  /\ thread' \in [Pages -> Thread] /\ thread'[p] = NewThread(0, None)
         /\ \A q \in Pages \ {p} :
              /\ thread'[q].tid = thread[q].tid
              /\ thread'[q].parent = IF Alive(q) /\ thread[q].parent = p THEN None
                                     ELSE thread[q].parent
              /\ thread'[q].success = thread[q].success
              /\ thread'[q].waiting2 = thread[q].waiting2
              /\ thread'[q].childLoadStatus = thread[q].childLoadStatus
              /\ thread'[q].isParentWaiting = thread[q].isParentWaiting
              /\ thread'[q].waiting = IF q = thread[p].parent /\ thread[p].isParentWaiting
                                      THEN thread[q].waiting + 1 ELSE thread[q].waiting
         /\ elem' \in [Tids -> ChildElem]
         /\ \A t \in Tids :
              /\ elem[t].list = p => elem'[t] = NoElem
              /\ elem[t].list # p => elem'[t].list = elem[t].list
              /\ elem[t].list # p /\ thread[p].parent # None /\ t = thread[p].tid =>
                   elem'[t].t = None /\ elem'[t].exitStatus = thread[p].exitStatus
              /\ elem[t].list # p /\ (thread[p].parent = None \/ t # thread[p].tid) =>
                   elem'[t] = elem[t]
<1> DEFINE par == thread[p].parent
           tid == thread[p].tid
<1>type. /\ TypeOK /\ thread \in [Pages -> Thread] /\ MaxTid \in Nat /\ None \notin Pages
         /\ HistoryOK /\ Main \in Pages /\ Statuses \cup {-1} \subseteq Int /\ None \notin Int
  BY ProcessAssumption DEF ProcessInv, FamilyLinks, TypeOK
<1>1. /\ pc[p] = "exit" /\ Alive(p)
      /\ pc' = [pc EXCEPT ![p] = IF p = Main THEN "off" ELSE "free"]
      /\ died' = [t \in Tids |-> IF t = tid THEN thread[p].exitStatus ELSE died[t]]
      /\ UNCHANGED <<arg, ptr, next_tid, loads, result, collected, struck>>
  BY DEF ThreadExit, Goes, Alive
<1>2. /\ pc' \in [Pages -> Points] /\ ~(Alive(p)')
      /\ \A q \in Pages \ {p} : pc'[q] = pc[q] /\ (Alive(q)' <=> Alive(q))
  BY <1>1, <1>type DEF TypeOK, Points, Alive
<1>3. Dying(p) = IF par = None THEN {} ELSE {tid}
  <2>1. ASSUME NEW t \in Dying(p) PROVE par # None /\ t = tid
    BY <2>1, <1>type DEF Dying, ProcessInv, FamilyLinks
  <2>2. par # None => tid \in Dying(p)
    BY <1>1, ParentLives DEF Dying
  <2> QED
    BY <2>1, <2>2
<1>4. \A q \in Pages : q \in Orphans(p) <=> Alive(q) /\ thread[q].parent = p
  <2> SUFFICES ASSUME NEW q \in Pages
               PROVE  q \in Orphans(p) <=> Alive(q) /\ thread[q].parent = p
    OBVIOUS
  <2>1. ASSUME q \in Orphans(p) PROVE Alive(q) /\ thread[q].parent = p
    <3>1. PICK t \in Tids : elem[t].list = p /\ elem[t].t = q
      BY <2>1 DEF Orphans
    <3> QED
      BY <3>1, <1>type DEF ProcessInv, FamilyLinks
  <2>2. ASSUME Alive(q), thread[q].parent = p PROVE q \in Orphans(p)
    <3>1. thread[q].tid \in Tids /\ elem[thread[q].tid].list = p /\ elem[thread[q].tid].t = q
      BY <2>2, <1>type, ParentLives
    <3> QED
      BY <3>1, <1>type DEF Orphans
  <2> QED
    BY <2>1, <2>2
<1>5. /\ thread'[p] = NewThread(0, None)
      /\ \A q \in Pages \ {p} :
           thread'[q] = [thread[q] EXCEPT
                          !.waiting = IF q = par /\ thread[p].isParentWaiting
                                      THEN thread[q].waiting + 1 ELSE thread[q].waiting,
                          !.parent = IF Alive(q) /\ thread[q].parent = p THEN None
                                     ELSE thread[q].parent]
      /\ DOMAIN thread' = Pages
      /\ thread' = [q \in Pages |-> thread'[q]]
  BY <1>4, <1>type DEF ThreadExit, Thread
<1>6. /\ thread' \in [Pages -> Thread] /\ thread'[p] = NewThread(0, None)
      /\ \A q \in Pages \ {p} :
           /\ thread'[q].tid = thread[q].tid
           /\ thread'[q].parent = IF Alive(q) /\ thread[q].parent = p THEN None
                                  ELSE thread[q].parent
           /\ thread'[q].success = thread[q].success
           /\ thread'[q].waiting2 = thread[q].waiting2
           /\ thread'[q].childLoadStatus = thread[q].childLoadStatus
           /\ thread'[q].isParentWaiting = thread[q].isParentWaiting
           /\ thread'[q].waiting = IF q = par /\ thread[p].isParentWaiting
                                   THEN thread[q].waiting + 1 ELSE thread[q].waiting
  <2>1. thread'[p] \in Thread
    <3>1. NewThread(0, None) \in Thread
      BY DEF NewThread, Thread
    <3> QED
      BY <1>5, <3>1
  <2>2. ASSUME NEW q \in Pages \ {p}
        PROVE  /\ thread'[q] \in Thread
               /\ thread'[q].tid = thread[q].tid
               /\ thread'[q].parent = IF Alive(q) /\ thread[q].parent = p THEN None
                                      ELSE thread[q].parent
               /\ thread'[q].success = thread[q].success
               /\ thread'[q].waiting2 = thread[q].waiting2
               /\ thread'[q].childLoadStatus = thread[q].childLoadStatus
               /\ thread'[q].isParentWaiting = thread[q].isParentWaiting
               /\ thread'[q].waiting = IF q = par /\ thread[p].isParentWaiting
                                       THEN thread[q].waiting + 1 ELSE thread[q].waiting
    <3> DEFINE w == IF q = par /\ thread[p].isParentWaiting
                    THEN thread[q].waiting + 1 ELSE thread[q].waiting
               r == IF Alive(q) /\ thread[q].parent = p THEN None ELSE thread[q].parent
    <3>1. thread[q] \in Thread
      BY <1>type
    <3>2. w \in Nat /\ r \in Pages \cup {None}
      BY <3>1 DEF Thread
    <3>3. thread'[q] = [thread[q] EXCEPT !.waiting = w, !.parent = r]
      BY <1>5
    <3>4. /\ r = IF Alive(q) /\ thread[q].parent = p THEN None ELSE thread[q].parent
          /\ w = IF q = par /\ thread[p].isParentWaiting
                  THEN thread[q].waiting + 1 ELSE thread[q].waiting
      OBVIOUS
    <3> HIDE DEF w, r
    <3>5. /\ thread'[q] \in Thread
          /\ thread'[q].tid = thread[q].tid /\ thread'[q].parent = r
          /\ thread'[q].success = thread[q].success
          /\ thread'[q].waiting2 = thread[q].waiting2
          /\ thread'[q].childLoadStatus = thread[q].childLoadStatus
          /\ thread'[q].isParentWaiting = thread[q].isParentWaiting
          /\ thread'[q].waiting = w
      BY <3>1, <3>2, <3>3 DEF Thread
    <3> QED
      BY <3>4, <3>5
  <2>3. \A q \in Pages : thread'[q] \in Thread
    BY <2>1, <2>2
  <2> QED
    BY <1>5, <2>2, <2>3
<1>7. \A t \in Tids :
        /\ elem[t].list = p => elem'[t] = NoElem
        /\ elem[t].list # p /\ par # None /\ t = tid =>
             elem'[t] = [elem[t] EXCEPT !.t = None, !.exitStatus = thread[p].exitStatus]
        /\ elem[t].list # p /\ (par = None \/ t # tid) => elem'[t] = elem[t]
  BY <1>3 DEF ThreadExit
<1>8. /\ elem' \in [Tids -> ChildElem]
      /\ \A t \in Tids :
           /\ elem[t].list = p => elem'[t] = NoElem
           /\ elem[t].list # p => elem'[t].list = elem[t].list
           /\ elem[t].list # p /\ par # None /\ t = tid =>
                elem'[t].t = None /\ elem'[t].exitStatus = thread[p].exitStatus
           /\ elem[t].list # p /\ (par = None \/ t # tid) => elem'[t] = elem[t]
  <2>1. DOMAIN elem' = Tids /\ elem' = [t \in Tids |-> elem'[t]]
    BY DEF ThreadExit
  <2>2. thread[p].exitStatus \in Statuses \cup {-1}
    BY <1>type DEF Thread
  <2>3. \A t \in Tids : elem[t] \in ChildElem
    BY <1>type DEF TypeOK
  <2>4. \A t \in Tids : elem'[t] \in ChildElem
    <3> SUFFICES ASSUME NEW t \in Tids PROVE elem'[t] \in ChildElem
      OBVIOUS
    <3>1. NoElem \in ChildElem
      BY DEF ChildElem, NoElem
    <3>2. [elem[t] EXCEPT !.t = None, !.exitStatus = thread[p].exitStatus] \in ChildElem
      BY <2>2, <2>3 DEF ChildElem
    <3> QED
      BY <1>7, <2>3, <3>1, <3>2
  <2> QED
    BY <1>7, <2>1, <2>2, <2>3, <2>4, ZenonT(30) DEF ChildElem
<1> QED
  BY <1>6, <1>8

\* thread_exit(): the children of the dying process lose their parent, its
\* own element gets its status, and nobody is left with a pointer to it.
LEMMA ExitInv ==
  ASSUME ProcessInv, NEW p \in Pages, ThreadExit(p)
  PROVE  ProcessInv'
<1> DEFINE par == thread[p].parent
           tid == thread[p].tid
<1>type. /\ TypeOK /\ thread \in [Pages -> Thread] /\ MaxTid \in Nat /\ None \notin Pages
         /\ HistoryOK /\ Main \in Pages /\ Statuses \cup {-1} \subseteq Int /\ None \notin Int
  BY ProcessAssumption DEF ProcessInv, FamilyLinks, TypeOK
<1>1. /\ pc[p] = "exit" /\ Alive(p)
      /\ pc' = [pc EXCEPT ![p] = IF p = Main THEN "off" ELSE "free"]
      /\ died' = [t \in Tids |-> IF t = tid THEN thread[p].exitStatus ELSE died[t]]
      /\ UNCHANGED <<arg, ptr, next_tid, loads, result, collected, struck>>
  BY DEF ThreadExit, Goes, Alive
<1>2. /\ pc' \in [Pages -> Points] /\ ~(Alive(p)')
      /\ \A q \in Pages \ {p} : pc'[q] = pc[q] /\ (Alive(q)' <=> Alive(q))
  BY <1>1, <1>type DEF TypeOK, Points, Alive
<1>6. /\ thread' \in [Pages -> Thread] /\ thread'[p] = NewThread(0, None)
      /\ \A q \in Pages \ {p} :
           /\ thread'[q].tid = thread[q].tid
           /\ thread'[q].parent = IF Alive(q) /\ thread[q].parent = p THEN None
                                  ELSE thread[q].parent
           /\ thread'[q].success = thread[q].success
           /\ thread'[q].waiting2 = thread[q].waiting2
           /\ thread'[q].childLoadStatus = thread[q].childLoadStatus
           /\ thread'[q].isParentWaiting = thread[q].isParentWaiting
           /\ thread'[q].waiting = IF q = thread[p].parent /\ thread[p].isParentWaiting
                                   THEN thread[q].waiting + 1 ELSE thread[q].waiting
  BY ExitStep
<1>8. /\ elem' \in [Tids -> ChildElem]
      /\ \A t \in Tids :
           /\ elem[t].list = p => elem'[t] = NoElem
           /\ elem[t].list # p => elem'[t].list = elem[t].list
           /\ elem[t].list # p /\ thread[p].parent # None /\ t = thread[p].tid =>
                elem'[t].t = None /\ elem'[t].exitStatus = thread[p].exitStatus
           /\ elem[t].list # p /\ (thread[p].parent = None \/ t # thread[p].tid) =>
                elem'[t] = elem[t]
  BY ExitStep
<1>9. TypeOK'
  BY <1>1, <1>2, <1>6, <1>8, <1>type DEF TypeOK

<1>10. FamilyLinks'
  <2>1. ASSUME NEW r \in Pages, Alive(r)', thread'[r].parent # None
        PROVE  /\ pc'[thread'[r].parent] \notin {"free", "off"}
               /\ elem'[thread'[r].tid].list = thread'[r].parent
               /\ elem'[thread'[r].tid].t = r
    <3>1. /\ r # p /\ Alive(r) /\ thread[r].parent # p
          /\ thread'[r].parent = thread[r].parent /\ thread'[r].tid = thread[r].tid
          /\ thread[r].parent # None
      BY <2>1, <1>2, <1>6
    <3>2. /\ thread[r].parent \in Pages /\ Alive(thread[r].parent)
          /\ thread[r].tid \in Tids
          /\ elem[thread[r].tid].list = thread[r].parent
          /\ elem[thread[r].tid].t = r
      BY <3>1, ParentLives
    <3>3. thread[r].tid # tid
      BY <3>1, <1>1 DEF ProcessInv, TidsUnique
    <3>4. elem'[thread[r].tid] = elem[thread[r].tid]
      BY <3>1, <3>2, <3>3, <1>8
    <3> QED
      BY <3>1, <3>2, <3>4, <1>2 DEF Alive
  <2>2. ASSUME NEW t \in Tids, elem'[t].list # None
        PROVE  /\ pc'[elem'[t].list] \notin {"free", "off"}
               /\ elem'[t].t # None =>
                    /\ pc'[elem'[t].t] \notin {"free", "off"} /\ thread'[elem'[t].t].tid = t
                    /\ thread'[elem'[t].t].parent = elem'[t].list
    <3>1. elem[t].list # p /\ elem'[t].list = elem[t].list
      BY <2>2, <1>8 DEF NoElem
    <3>2. elem[t].list \in Pages /\ Alive(elem[t].list) /\ elem[t].t \in Pages \cup {None}
      BY <2>2, <3>1, <1>type DEF TypeOK, ChildElem, ProcessInv, FamilyLinks
    <3>3. pc'[elem'[t].list] \notin {"free", "off"}
      BY <3>1, <3>2, <1>2 DEF Alive
    <3>4. ASSUME elem'[t].t # None
          PROVE  /\ pc'[elem'[t].t] \notin {"free", "off"} /\ thread'[elem'[t].t].tid = t
                 /\ thread'[elem'[t].t].parent = elem'[t].list
      <4>1. elem'[t] = elem[t] /\ (par = None \/ t # tid)
        BY <3>1, <3>4, <1>8
      <4>2. /\ elem[t].t \in Pages /\ Alive(elem[t].t) /\ thread[elem[t].t].tid = t
            /\ thread[elem[t].t].parent = elem[t].list
        BY <2>2, <3>1, <3>2, <3>4, <4>1 DEF ProcessInv, FamilyLinks
      <4>3. elem[t].t # p
        BY <4>1, <4>2, <3>2, <1>type
      <4> QED
        BY <4>1, <4>2, <4>3, <3>1, <1>2, <1>6 DEF Alive
    <3> QED
      BY <3>3, <3>4
  <2> QED
    BY <2>1, <2>2, <1>9 DEF FamilyLinks, Alive
<1>11. MainApart'
  <2>1. /\ pc'[Main] \in {"boot", "task", "flag", "wait", "exit", "off"}
        /\ thread'[Main].tid = 0 /\ thread'[Main].parent = None
    <3>1. CASE p = Main
      <4>1. pc'[Main] = "off"
        BY <3>1, <1>1, <1>type DEF TypeOK
      <4>2. thread'[Main] = NewThread(0, None)
        BY <3>1, <1>6
      <4>3. NewThread(0, None).tid = 0 /\ NewThread(0, None).parent = None
        BY DEF NewThread
      <4> QED
        BY <4>1, <4>2, <4>3
    <3>2. CASE p # Main
      <4>1. /\ pc[Main] \in {"boot", "task", "flag", "wait", "exit", "off"}
            /\ thread[Main].tid = 0 /\ thread[Main].parent = None
        BY DEF ProcessInv, MainApart
      <4>2. thread[Main].parent # p
        BY <4>1, <1>type
      <4> QED
        BY <3>2, <4>1, <4>2, <1>2, <1>6, <1>type
    <3> QED
      BY <3>1, <3>2
  <2>2. ASSUME NEW r \in Pages \ {Main}
        PROVE  /\ pc'[r] \notin {"boot", "task", "off"}
               /\ Alive(r)' => thread'[r].tid \in 1..(next_tid' - 1)
    <3>1. CASE r = p
      BY <3>1, <1>1, <1>2, <1>type DEF TypeOK
    <3>2. CASE r # p
      BY <3>2, <1>1, <1>2, <1>6 DEF ProcessInv, MainApart
    <3> QED
      BY <3>1, <3>2
  <2> QED
    BY <2>1, <2>2 DEF MainApart
<1>12. TidsUnique'
  <2>1. ASSUME NEW r \in Pages, NEW s \in Pages, Alive(r)', Alive(s)',
               thread'[r].tid = thread'[s].tid
        PROVE  r = s
    BY <2>1, <1>2, <1>6 DEF ProcessInv, TidsUnique
  <2>2. ASSUME NEW t \in Tids, t >= next_tid'
        PROVE  elem'[t] = NoElem /\ died'[t] = None /\ loads'[t] = "none" /\ collected'[t] = 0
    <3>1. elem[t] = NoElem /\ died[t] = None /\ loads[t] = "none" /\ collected[t] = 0
      BY <2>2, <1>1 DEF ProcessInv, TidsUnique
    <3>2. t # tid
      <4>1. CASE p = Main
        BY <4>1 DEF ProcessInv, MainApart, Tids
      <4>2. CASE p # Main
        <5>1. tid \in 1..(next_tid - 1) /\ next_tid \in 1..(MaxTid + 1)
          BY <4>2, <1>1, <1>type DEF ProcessInv, MainApart, TypeOK
        <5> HIDE DEF tid
        <5> QED
          BY <5>1, <2>2, <1>1, <1>type DEF Tids
      <4> QED
        BY <4>1, <4>2
    <3>3. elem[t].list # p
      BY <3>1, <1>type DEF NoElem
    <3>4. elem'[t] = elem[t]
      BY <3>2, <3>3, <1>8
    <3> QED
      BY <3>1, <3>2, <3>4, <1>1
  <2>3. ASSUME NEW r \in Pages, Alive(r)', thread'[r].tid \in Tids
        PROVE  died'[thread'[r].tid] = None
    <3>1. r # p /\ Alive(r) /\ thread'[r].tid = thread[r].tid
      BY <2>3, <1>2, <1>6
    <3>2. thread[r].tid # tid /\ died[thread[r].tid] = None
      BY <2>3, <3>1, <1>1 DEF ProcessInv, TidsUnique
    <3> QED
      BY <2>3, <3>1, <3>2, <1>1
  <2> QED
    BY <2>1, <2>2, <2>3 DEF TidsUnique
<1>13. /\ HistoryOK' /\ thread[p].exitStatus \in Statuses \cup {-1}
       /\ thread[p].exitStatus # None
       /\ \A t \in Tids : died[t] # None => died'[t] = died[t]
       /\ tid \in Tids => died'[tid] = thread[p].exitStatus
  <2>1. thread[p].exitStatus \in Statuses \cup {-1}
    BY <1>type DEF Thread
  <2>2. thread[p].exitStatus # None
    BY <2>1, <1>type
  <2>3. tid \in Tids => died[tid] = None
    BY <1>1 DEF ProcessInv, TidsUnique
  <2> HIDE DEF tid
  <2>4. \A t \in Tids : died[t] # None => died'[t] = died[t]
    BY <2>3, <1>1
  <2>5. HistoryOK'
    BY <2>1, <1>1, <1>type DEF HistoryOK
  <2> QED
    BY <2>1, <2>2, <2>4, <2>5, <1>1
<1>14. StatusesKept'
  <2> SUFFICES ASSUME NEW t \in Tids
               PROVE  /\ elem'[t].list = None => elem'[t] = NoElem
                      /\ elem'[t].exitStatus # -1 => died'[t] = elem'[t].exitStatus
                      /\ collected'[t] <= 1
                      /\ collected'[t] = 1 => died'[t] # None /\ elem'[t].exitStatus = -1
    BY DEF StatusesKept
  <2>0. /\ elem[t].list = None => elem[t] = NoElem
        /\ elem[t].exitStatus # -1 => died[t] = elem[t].exitStatus
        /\ collected[t] <= 1
        /\ collected[t] = 1 => died[t] # None /\ elem[t].exitStatus = -1
    BY DEF ProcessInv, StatusesKept
  <2>1. CASE elem[t].list = p
    BY <2>0, <2>1, <1>1, <1>8, <1>13 DEF NoElem
  <2>2. CASE elem[t].list # p /\ par # None /\ t = tid
    <3>1. died[t] = None /\ elem[t].list = par
      BY <2>2, <1>1, ParentLives DEF ProcessInv, TidsUnique
    <3> QED
      BY <2>0, <2>2, <3>1, <1>1, <1>8, <1>13
  <2>3. CASE elem[t].list # p /\ (par = None \/ t # tid)
    <3>1. elem[t].exitStatus \in Int
      <4>1. elem[t].exitStatus \in Statuses \cup {-1}
        BY <1>type DEF TypeOK, ChildElem
      <4> QED
        BY <4>1, <1>type
    <3>2. elem'[t] = elem[t] /\ collected' = collected
      BY <2>3, <1>1, <1>8
    <3>3. elem[t].exitStatus # None
      BY <3>1, <1>type
    <3> QED
      BY <2>0, <3>2, <3>3, <1>13
  <2> QED
    BY <2>1, <2>2, <2>3
<1>15. ExecTellsTruth'
  BY <1>1 DEF ProcessInv, ExecTellsTruth
<1>16. StatusTold'
  <2>1. \A t \in Tids : collected'[t] <= 1
    BY <1>14 DEF StatusesKept
  <2>2. ASSUME result.call = "wait", result.value # -1 PROVE died'[result.of] = result.value
    <3>1. died[result.of] = result.value /\ result.value \in Int /\ result.of \in Tids
      BY <2>2, <1>type DEF ProcessInv, StatusTold, HistoryOK
    <3>2. died[result.of] # None
      BY <3>1, <1>type
    <3> QED
      BY <3>1, <3>2, <1>13
  <2> QED
    BY <2>1, <2>2, <1>1 DEF StatusTold
<1>17. WaitsForChild'
  <2> SUFFICES ASSUME NEW r \in Pages, pc'[r] \in {"flag", "wait"}
               PROVE  /\ arg'[r] \in Tids /\ elem'[arg'[r]].list = r
                      /\ pc'[r] = "flag" => ptr'[r] \in Pages
    BY DEF WaitsForChild
  <2>1. r # p /\ pc[r] = pc'[r]
    BY <1>2 DEF Alive, Points
  <2>2. arg[r] \in Tids /\ elem[arg[r]].list = r /\ (pc[r] = "flag" => ptr[r] \in Pages)
    BY <2>1 DEF ProcessInv, WaitsForChild
  <2> QED
    BY <2>1, <2>2, <1>1, <1>8
<1>18. ExecPending'
  <2>1. ASSUME NEW r \in Pages, pc'[r] \in {"start", "loaded"}
        PROVE  r # p /\ pc[r] = pc'[r] /\ Alive(r)
    <3>1. r # p
      BY <2>1, <1>1, <1>type DEF TypeOK
    <3> QED
      BY <2>1, <3>1, <1>2 DEF Alive
  <2>2. ASSUME NEW r \in Pages
        PROVE  /\ pc'[r] = "start" => loads'[thread'[r].tid] = "none"
               /\ pc'[r] = "loaded" =>
                    loads'[thread'[r].tid] = IF thread'[r].success THEN "ok" ELSE "failed"
    BY <2>1, <1>1, <1>6 DEF ProcessInv, ExecPending
  <2>3. ASSUME NEW r \in Pages, pc'[r] \in {"start", "loaded"},
               thread'[r].parent \notin {None, Main}
        PROVE  /\ pc'[thread'[r].parent] = "exec" /\ arg'[thread'[r].parent] = thread'[r].tid
               /\ thread'[thread'[r].parent].waiting2 = 0
    <3>1. r # p /\ pc[r] = pc'[r] /\ Alive(r)
      BY <2>1, <2>3
    <3>2. /\ thread'[r].parent = thread[r].parent /\ thread'[r].tid = thread[r].tid
          /\ thread[r].parent \notin {None, Main, p}
      BY <2>3, <3>1, <1>6
    <3>3. /\ thread[r].parent \in Pages /\ pc[thread[r].parent] = "exec"
          /\ arg[thread[r].parent] = thread[r].tid /\ thread[thread[r].parent].waiting2 = 0
      BY <2>3, <3>1, <3>2, ParentLives DEF ProcessInv, ExecPending
    <3> QED
      BY <3>2, <3>3, <1>1, <1>2, <1>6
  <2>4. ASSUME NEW r \in Pages \ {Main}, Alive(r)', thread'[r].waiting2 # 0
        PROVE  /\ thread'[r].waiting2 = 1
               /\ pc'[r] = "exec" /\ arg'[r] \in Tids
               /\ loads'[arg'[r]] = IF thread'[r].childLoadStatus THEN "ok" ELSE "failed"
    <3>1. r # p /\ Alive(r) /\ thread[r].waiting2 # 0
      BY <2>4, <1>2, <1>6
    <3> QED
      BY <3>1, <1>1, <1>2, <1>6 DEF ProcessInv, ExecPending
  <2> QED
    BY <2>2, <2>3, <2>4 DEF ExecPending, Alive
<1> QED
  BY <1>10, <1>11, <1>12, <1>13, <1>14, <1>15, <1>16, <1>17, <1>18 DEF ProcessInv

-----------------------------------------------------------------------------
\* The system starts with the initial thread alone.
LEMMA ProcessInitInv == Init => ProcessInv
<1> SUFFICES ASSUME Init PROVE ProcessInv
  OBVIOUS
<1>a. /\ Main \in Pages /\ MaxTid \in Nat /\ None \notin Pages /\ None \notin Int
      /\ Statuses \subseteq Int
  BY ProcessAssumption
<1>1. TypeOK
  <2>1. NewThread(0, None) \in Thread /\ NoElem \in ChildElem
    BY DEF NewThread, Thread, NoElem, ChildElem
  <2>2. 1 \in 1..(MaxTid + 1)
    BY <1>a
  <2> QED
    BY <2>1, <2>2 DEF Init, TypeOK, Points
<1>2. /\ NewThread(0, None).tid = 0 /\ NewThread(0, None).parent = None
      /\ NewThread(0, None).waiting2 = 0
      /\ NoElem.list = None /\ NoElem.exitStatus = -1
  BY DEF NewThread, NoElem
<1>3. /\ \A p \in Pages : /\ thread[p].tid = 0 /\ thread[p].parent = None
                          /\ thread[p].waiting2 = 0
                          /\ pc[p] = IF p = Main THEN "boot" ELSE "free"
      /\ \A t \in Tids : /\ elem[t] = NoElem /\ elem[t].list = None /\ elem[t].exitStatus = -1
                         /\ died[t] = None /\ loads[t] = "none" /\ collected[t] = 0
      /\ result = NoResult
  BY <1>2 DEF Init
<1>4. FamilyLinks
  BY <1>1, <1>3 DEF FamilyLinks
<1>5. HistoryOK /\ ExecTellsTruth /\ StatusTold
  BY <1>3 DEF Init, HistoryOK, NoResult, ExecTellsTruth, StatusTold
<1>6. MainApart /\ TidsUnique
  <2>1. 0 \notin Tids
    BY DEF Tids
  <2> QED
    BY <1>a, <1>3, <2>1 DEF MainApart, TidsUnique, Alive
<1>7. StatusesKept /\ WaitsForChild /\ ExecPending
  BY <1>3 DEF StatusesKept, WaitsForChild, ExecPending
<1> QED
  BY <1>4, <1>5, <1>6, <1>7 DEF ProcessInv

\* Every step keeps the invariant: one case per operation.
LEMMA ProcessNextInv == ProcessInv /\ [Next]_vars => ProcessInv'
<1> SUFFICES ASSUME ProcessInv, [Next]_vars PROVE ProcessInv'
  OBVIOUS
<1>m. Main \in Pages
  BY ProcessAssumption
<1>1. ASSUME NEW p \in Pages, Starting(p) PROVE ProcessInv'
  BY <1>1, LoadInv, LoadedInv, LeaveInv DEF Starting
<1>2. ASSUME NEW p \in Pages, Calling(p) PROVE ProcessInv'
  <2>1. ASSUME NEW q \in Pages, SysExec(p, q) PROVE ProcessInv'
    BY <2>1, ExecuteInv DEF SysExec
  <2> QED
    BY <1>2, <2>1, LeaveInv, WaitInv DEF Calling
<1>3. ASSUME NEW p \in Pages, Inside(p) PROVE ProcessInv'
  BY <1>3, ExecReturnsInv, WaitInv, ExitInv DEF Inside
<1>4. ASSUME NEW q \in Pages, RunTask(q) PROVE ProcessInv'
  BY <1>4, <1>m, ExecuteInv DEF RunTask
<1>5. CASE RunTaskNoPage
  BY <1>5, <1>m, LeaveInv
<1>6. CASE RunTaskWait
  BY <1>6, <1>m, WaitInv
<1>7. CASE UNCHANGED vars
  BY <1>7 DEF vars, historyVars, ProcessInv, FamilyLinks, TypeOK, Alive, HistoryOK, MainApart,
     TidsUnique, StatusesKept, WaitsForChild, ExecPending, ExecTellsTruth, StatusTold
<1> QED
  BY <1>1, <1>2, <1>3, <1>4, <1>5, <1>6, <1>7 DEF Next

\* The invariant holds throughout.
LEMMA ProcessInvariant == Spec => []ProcessInv
BY ProcessInitInv, ProcessNextInv, PTL DEF Spec

-----------------------------------------------------------------------------
(* What -1 means.  The flag of a parent that waits is in its own child, and *)
(* a surplus of `waiting' comes from a stale flag only.                     *)

\* A child has its flag because its parent is asleep in process_wait() for it,
\* unless a stale pointer has struck one of the parent's children.
FlagsMeant ==
  \A q \in Pages : Alive(q) /\ thread[q].isParentWaiting /\ thread[q].parent # None =>
    \/ Misled(thread[q].parent)
    \/ pc[thread[q].parent] = "wait" /\ arg[thread[q].parent] = thread[q].tid

\* `waiting' is up because the child that its process waits for has died.
UpsMeant ==
  \A p \in Pages : thread[p].waiting # 0 =>
    \/ Misled(p)
    \/ thread[p].waiting = 1 /\ pc[p] = "wait" /\ elem[arg[p]].t = None

\* The element of a dead child has its status until a wait has returned it.
DeadKept ==
  \A t \in Tids : elem[t].list # None /\ elem[t].t = None =>
    /\ died[t] # None
    /\ elem[t].exitStatus = died[t] \/ collected[t] = 1

\* The last conjunct of WaitTellsTruth.
RefusalTold ==
  result.call = "wait" /\ result.value = -1 /\ result.own /\ ~result.misled =>
    /\ result.of \in Tids
    /\ died[result.of] = -1 \/ collected[result.of] = 1

\* What is inductive beside ProcessInv.
NoSurplus == FlagsMeant /\ UpsMeant /\ DeadKept /\ RefusalTold

\* A step that sets no flag, ups nobody, wakes nobody and ends no process.
CalmStep ==
  /\ \A q \in Pages : pc'[q] \notin {"free", "off"} /\ thread'[q].isParentWaiting =>
       /\ pc[q] \notin {"free", "off"} /\ thread[q].isParentWaiting
       /\ thread'[q].parent = thread[q].parent /\ thread'[q].tid = thread[q].tid
  /\ \A p \in Pages : thread'[p].waiting # 0 => thread'[p].waiting = thread[p].waiting
  /\ \A p \in Pages : pc[p] = "wait" => pc'[p] = "wait" /\ arg'[p] = arg[p]
  /\ \A t \in Tids : elem[t].list # None =>
       elem'[t].list = elem[t].list /\ elem'[t].t = elem[t].t
  /\ struck \subseteq struck'

\* A parent that was misled stays so while its list does.
LEMMA MisledStays ==
  ASSUME struck \subseteq struck', NEW p \in Pages, None \notin Pages, Misled(p),
         \A t \in Tids : elem[t].list = p => elem'[t].list = p
  PROVE  Misled(p)'
BY DEF Misled

\* A calm step keeps what holds of flags and ups.
LEMMA WaitersStay ==
  ASSUME ProcessInv, NoSurplus, CalmStep
  PROVE  FlagsMeant' /\ UpsMeant'
<1>0. None \notin Pages
  BY ProcessAssumption
<1>1. \A p \in Pages : Misled(p) => Misled(p)'
  BY <1>0, MisledStays DEF CalmStep
<1>2. FlagsMeant'
  <2> SUFFICES ASSUME NEW q \in Pages, pc'[q] \notin {"free", "off"},
                      thread'[q].isParentWaiting, thread'[q].parent # None
               PROVE  \/ \E t \in Tids : t \in struck' /\ elem'[t].list = thread'[q].parent
                      \/ /\ pc'[thread'[q].parent] = "wait"
                         /\ arg'[thread'[q].parent] = thread'[q].tid
    BY DEF FlagsMeant, Alive, Misled
  <2>1. /\ Alive(q) /\ thread[q].isParentWaiting
        /\ thread'[q].parent = thread[q].parent /\ thread'[q].tid = thread[q].tid
    BY DEF CalmStep, Alive
  <2>2. PICK p \in Pages : p = thread[q].parent
    BY <2>1, ParentLives
  <2>3. Misled(p) \/ (pc[p] = "wait" /\ arg[p] = thread[q].tid)
    BY <2>1, <2>2, <1>0 DEF NoSurplus, FlagsMeant
  <2>4. Misled(p)' \/ (pc'[p] = "wait" /\ arg'[p] = thread[q].tid)
    BY <2>3, <1>1 DEF CalmStep
  <2>5. p = thread'[q].parent
    BY <2>1, <2>2
  <2> QED
    BY <2>1, <2>4, <2>5 DEF Misled
<1>3. UpsMeant'
  <2> SUFFICES ASSUME NEW p \in Pages, thread'[p].waiting # 0
               PROVE  \/ Misled(p)'
                      \/ thread'[p].waiting = 1 /\ pc'[p] = "wait" /\ elem'[arg'[p]].t = None
    BY DEF UpsMeant
  <2>1. /\ thread'[p].waiting = thread[p].waiting
        /\ \/ Misled(p)
           \/ thread[p].waiting = 1 /\ pc[p] = "wait" /\ elem[arg[p]].t = None
    BY DEF CalmStep, NoSurplus, UpsMeant
  <2>2. pc[p] = "wait" => arg[p] \in Tids /\ elem[arg[p]].list # None
    BY <1>0 DEF ProcessInv, WaitsForChild
  <2> QED
    BY <2>1, <2>2, <1>1 DEF CalmStep
<1> QED
  BY <1>2, <1>3

\* What a step without history keeps.
LEMMA DeadStay ==
  ASSUME NoSurplus, UNCHANGED <<elem, died, result, collected>>
  PROVE  DeadKept' /\ RefusalTold'
BY DEF NoSurplus, DeadKept, RefusalTold

\* Steps outside process_wait() and thread_exit(), and the read of childElem->t.
LEMMA QuietSurplus ==
  ASSUME ProcessInv, NoSurplus, NEW p \in Pages,
         \/ \E s \in Statuses : SysExit(p, s)
         \/ Kill(p)
         \/ StartNoPage(p)
         \/ SysExecNoPage(p)
         \/ RunTaskNoPage /\ p = Main
         \/ \E ok \in BOOLEAN : Load(p, ok)
         \/ Loaded(p)
         \/ \E t \in Tids : WaitAlive(p, t) /\ pc[p] \in {"user", "task"}
  PROVE  NoSurplus'
<1>type. TypeOK /\ thread \in [Pages -> Thread] /\ pc \in [Pages -> Points] /\ Main \in Pages
         /\ arg \in [Pages -> Tids \cup {0, -1}]
  BY ProcessAssumption DEF ProcessInv, FamilyLinks, TypeOK
<1>1. UNCHANGED <<elem, died, result, collected, struck>>
  BY DEF SysExit, Kill, StartNoPage, SysExecNoPage, RunTaskNoPage, Load, Loaded, WaitAlive,
     historyVars
<1>2. /\ pc' = [pc EXCEPT ![p] = pc'[p]] /\ \A q \in Pages \ {p} : arg'[q] = arg[q]
      /\ pc[p] \in {"user", "start", "loaded", "task", "boot"}
  BY <1>type DEF SysExit, Kill, StartNoPage, SysExecNoPage, RunTaskNoPage, Load, Loaded, WaitAlive,
     Goes
<1>3. \A q \in Pages : /\ thread'[q].isParentWaiting = thread[q].isParentWaiting
                       /\ thread'[q].parent = thread[q].parent /\ thread'[q].tid = thread[q].tid
                       /\ thread'[q].waiting = thread[q].waiting
  <2>1. CASE thread' = thread
    BY <2>1
  <2>2. CASE \E s \in Statuses : SysExit(p, s)
    BY <2>2, <1>type DEF SysExit, Thread
  <2>3. CASE \E ok \in BOOLEAN : Load(p, ok)
    BY <2>3, <1>type DEF Load, Thread
  <2>4. CASE Loaded(p) /\ thread[p].parent # None
    <3>1. /\ thread[p].parent \in Pages
          /\ thread' = [thread EXCEPT ![thread[p].parent].childLoadStatus = thread[p].success,
                                      ![thread[p].parent].waiting2 = @ + 1]
      BY <2>4, <1>type DEF Loaded, Thread
    <3>2. PICK r \in Pages : r = thread[p].parent
      BY <3>1
    <3>3. \A q \in Pages \ {r} : thread'[q] = thread[q]
      BY <3>1, <3>2, <1>type
    <3>4. thread[r] \in Thread
      BY <1>type
    <3>5. thread'[r] = [thread[r] EXCEPT !.childLoadStatus = thread[p].success,
                                         !.waiting2 = thread[r].waiting2 + 1]
      BY <3>1, <3>2, <3>4, <1>type DEF Thread
    <3>6. PICK mid : mid = [thread[r] EXCEPT !.childLoadStatus = thread[p].success]
      OBVIOUS
    <3>7. thread'[r] = [mid EXCEPT !.waiting2 = thread[r].waiting2 + 1]
      BY <3>4, <3>5, <3>6 DEF Thread
    <3>8. /\ mid \in Thread
          /\ mid.isParentWaiting = thread[r].isParentWaiting /\ mid.parent = thread[r].parent
          /\ mid.tid = thread[r].tid /\ mid.waiting = thread[r].waiting
      <4>1. thread[p].success \in BOOLEAN
        BY <1>type DEF Thread
      <4> QED
        BY <4>1, <3>4, <3>6 DEF Thread
    <3>9. /\ thread'[r].isParentWaiting = thread[r].isParentWaiting
          /\ thread'[r].parent = thread[r].parent /\ thread'[r].tid = thread[r].tid
          /\ thread'[r].waiting = thread[r].waiting
      BY <3>7, <3>8 DEF Thread
    <3> QED
      BY <3>3, <3>9
  <2>5. CASE Loaded(p) /\ thread[p].parent = None
    BY <2>1, <2>5 DEF Loaded
  <2>6. CASE \E t \in Tids : WaitAlive(p, t)
    BY <2>1, <2>6 DEF WaitAlive
  <2> QED
    <3>1. CASE Kill(p) \/ StartNoPage(p) \/ SysExecNoPage(p) \/ RunTaskNoPage
      BY <2>1, <3>1 DEF Kill, StartNoPage, SysExecNoPage, RunTaskNoPage
    <3> HIDE DEF Thread
    <3> QED
      BY <2>2, <2>3, <2>4, <2>5, <2>6, <3>1
<1>4. CalmStep
  <2>1. pc[p] \notin {"free", "off", "wait"}
    BY <1>2
  <2> QED
    BY <1>1, <1>2, <1>3, <1>type, <2>1 DEF CalmStep
<1> QED
  BY <1>1, <1>4, WaitersStay, DeadStay DEF NoSurplus

\* process_execute(): the new page has no flag and no ups, its element is new.
LEMMA ExecuteSurplus ==
  ASSUME ProcessInv, NoSurplus, NEW p \in Pages, NEW q \in Pages, NEW point,
         ProcessExecute(p, q, point),
         \/ pc[p] = "user" /\ point = "exec"
         \/ p = Main /\ pc[p] = "boot" /\ point = "task"
  PROVE  NoSurplus'
<1>type. /\ thread \in [Pages -> Thread] /\ pc \in [Pages -> Points] /\ MaxTid \in Nat
         /\ arg \in [Pages -> Tids \cup {0, -1}] /\ elem \in [Tids -> ChildElem]
         /\ next_tid \in 1..(MaxTid + 1) /\ None \notin Pages
  BY ProcessAssumption DEF ProcessInv, FamilyLinks, TypeOK
<1>1. /\ pc[q] = "free" /\ next_tid \in Tids
      /\ pc' = [pc EXCEPT ![p] = point, ![q] = "start"]
      /\ thread' = [thread EXCEPT ![q] = NewThread(next_tid, p)]
      /\ elem' = [elem EXCEPT ![next_tid] = [list |-> p, t |-> q, exitStatus |-> -1]]
      /\ arg' = [arg EXCEPT ![p] = next_tid]
      /\ UNCHANGED <<died, result, collected, struck>>
  BY <1>type DEF ProcessExecute, historyVars, Tids
<1>2. /\ \A r \in Pages \ {q} : thread'[r] = thread[r]
      /\ ~thread'[q].isParentWaiting /\ thread'[q].waiting = 0
  BY <1>1, <1>type DEF NewThread
<1>3. elem[next_tid].list = None /\ elem'[next_tid].t = q
      /\ \A t \in Tids \ {next_tid} : elem'[t] = elem[t]
  <2>1. elem[next_tid] = NoElem
    BY <1>1, <1>type DEF ProcessInv, TidsUnique
  <2> QED
    BY <2>1, <1>1, <1>type DEF NoElem
<1>4. \A r \in Pages \ {q} : r # p => pc'[r] = pc[r] /\ arg'[r] = arg[r]
  BY <1>1, <1>type
<1>5. CalmStep
  <2>1. pc[p] \notin {"free", "off", "wait"} /\ pc[q] = "free"
    BY <1>1
  <2> QED
    BY <1>1, <1>2, <1>3, <1>4, <2>1 DEF CalmStep
<1>6. DeadKept'
  BY <1>1, <1>3, <1>type DEF NoSurplus, DeadKept
<1>7. RefusalTold'
  BY <1>1 DEF NoSurplus, RefusalTold
<1> QED
  BY <1>5, <1>6, <1>7, WaitersStay DEF NoSurplus

\* exec's end and the wait for a stranger: only the result is new.
LEMMA ReturnSurplus ==
  ASSUME ProcessInv, NoSurplus, NEW p \in Pages,
         \/ ExecReturns(p)
         \/ \E t \in Tids \cup {0, -1} : WaitStranger(p, t) /\ pc[p] \in {"user", "task"}
  PROVE  NoSurplus'
<1>type. /\ thread \in [Pages -> Thread] /\ pc \in [Pages -> Points] /\ Main \in Pages
         /\ arg \in [Pages -> Tids \cup {0, -1}] /\ collected \in [Tids -> Nat]
  BY ProcessAssumption DEF ProcessInv, FamilyLinks, TypeOK
<1>1. /\ UNCHANGED <<elem, died, struck>> /\ pc[p] \in {"exec", "user", "task"}
      /\ pc' = [pc EXCEPT ![p] = pc'[p]] /\ \A q \in Pages \ {p} : arg'[q] = arg[q]
  BY <1>type DEF ExecReturns, WaitStranger, Return, Goes
<1>2. \A q \in Pages : /\ thread'[q].isParentWaiting = thread[q].isParentWaiting
                       /\ thread'[q].parent = thread[q].parent /\ thread'[q].tid = thread[q].tid
                       /\ thread'[q].waiting = thread[q].waiting
  BY <1>type DEF ExecReturns, WaitStranger, Thread
<1>3. CalmStep
  BY <1>1, <1>2, <1>type DEF CalmStep
<1>4. collected' = collected
  BY <1>type DEF ExecReturns, WaitStranger, Return
<1>5. RefusalTold'
  <2>1. CASE ExecReturns(p)
    <3>1. result'.call = "exec"
      BY <2>1 DEF ExecReturns, Return
    <3> QED
      BY <3>1 DEF RefusalTold
  <2>2. ASSUME NEW t \in Tids \cup {0, -1}, WaitStranger(p, t) PROVE RefusalTold'
    <3>1. result'.own = (t \in Tids /\ elem[t].list = p)
      BY <2>2 DEF WaitStranger, Return
    <3>2. ~result'.own
      BY <3>1, <2>2 DEF WaitStranger
    <3> QED
      BY <3>2 DEF RefusalTold
  <2> QED
    BY <2>1, <2>2
<1>6. DeadKept'
  BY <1>1, <1>4 DEF NoSurplus, DeadKept
<1> QED
  BY <1>3, <1>5, <1>6, WaitersStay DEF NoSurplus

\* A wait for a child that has died, or whose death has woken the parent, says
\* what became of the child, unless the parent is misled.
LEMMA CollectSurplus ==
  ASSUME ProcessInv, NoSurplus, NEW p \in Pages, NEW t \in Tids,
         elem[t].list = p, elem[t].t = None \/ Misled(p),
         Return(p, "wait", t, elem[t].exitStatus), CollectStatus(t), UNCHANGED died
  PROVE  DeadKept' /\ RefusalTold'
<1>type. /\ elem \in [Tids -> ChildElem] /\ collected \in [Tids -> Nat] /\ None \notin Pages
         /\ None \notin Int /\ Statuses \cup {-1} \subseteq Int
  BY ProcessAssumption DEF ProcessInv, FamilyLinks, TypeOK
<1> DEFINE v == elem[t].exitStatus
<1>1. /\ elem[t].exitStatus \in Int /\ collected[t] \in {0, 1}
      /\ collected[t] = 1 => v = -1
  <2>1. elem[t].exitStatus \in Statuses \cup {-1}
    BY <1>type DEF ChildElem
  <2> QED
    BY <2>1, <1>type DEF ProcessInv, StatusesKept
<1>2. /\ \A u \in Tids : /\ elem'[u].list = elem[u].list /\ elem'[u].t = elem[u].t
                         /\ u # t => elem'[u] = elem[u]
      /\ elem'[t].exitStatus = -1
  BY <1>type DEF CollectStatus, ChildElem
<1>3. /\ \A u \in Tids \ {t} : collected'[u] = collected[u]
      /\ collected'[t] = IF v # -1 THEN collected[t] + 1 ELSE collected[t]
  BY DEF Return
<1>4. /\ result'.call = "wait" /\ result'.of = t /\ result'.value = v
      /\ result'.misled = Misled(p)
  BY DEF Return
<1>5. elem[t].t = None => died[t] # None /\ (v = died[t] \/ collected[t] = 1)
  BY <1>type DEF NoSurplus, DeadKept
<1>6. elem[t].t = None => -1 = died[t] \/ collected'[t] = 1
  BY <1>1, <1>3, <1>5
<1>7. DeadKept'
  BY <1>2, <1>3, <1>5, <1>6 DEF NoSurplus, DeadKept
<1>8. RefusalTold'
  BY <1>4, <1>6 DEF RefusalTold
<1> QED
  BY <1>7, <1>8

\* process_wait() finds its child dead.
LEMMA WaitDeadSurplus ==
  ASSUME ProcessInv, NoSurplus, NEW p \in Pages, NEW t \in Tids, WaitDead(p, t),
         pc[p] \in {"user", "task"}
  PROVE  NoSurplus'
<1>type. /\ thread \in [Pages -> Thread] /\ pc \in [Pages -> Points]
         /\ arg \in [Pages -> Tids \cup {0, -1}] /\ elem \in [Tids -> ChildElem]
  BY DEF ProcessInv, FamilyLinks, TypeOK
<1>1. /\ UNCHANGED <<thread, died, struck>> /\ elem[t].list = p /\ elem[t].t = None
      /\ Return(p, "wait", t, elem[t].exitStatus) /\ CollectStatus(t)
  BY DEF WaitDead
<1>2. /\ pc' = [pc EXCEPT ![p] = pc'[p]] /\ \A q \in Pages \ {p} : arg'[q] = arg[q]
  BY <1>1, <1>type DEF Return, Goes
<1>3. \A u \in Tids : elem'[u].list = elem[u].list /\ elem'[u].t = elem[u].t
  BY <1>1, <1>type DEF CollectStatus, ChildElem
<1>4. CalmStep
  BY <1>1, <1>2, <1>3, <1>type DEF CalmStep
<1> QED
  BY <1>1, <1>4, WaitersStay, CollectSurplus DEF NoSurplus

\* process_wait() wakes up: if its process is not misled, its child has died,
\* no other child has its flag, and the one up is used.
LEMMA WaitReturnsSurplus ==
  ASSUME ProcessInv, NoSurplus, NEW p \in Pages, WaitReturns(p)
  PROVE  NoSurplus'
<1>type. /\ thread \in [Pages -> Thread] /\ pc \in [Pages -> Points]
         /\ arg \in [Pages -> Tids \cup {0, -1}] /\ elem \in [Tids -> ChildElem]
         /\ None \notin Pages
  BY ProcessAssumption DEF ProcessInv, FamilyLinks, TypeOK
<1>1. PICK t \in Tids : t = arg[p] /\ elem[t].list = p
  BY DEF WaitReturns, ProcessInv, WaitsForChild
<1>2. /\ pc[p] = "wait" /\ thread[p].waiting > 0 /\ UNCHANGED <<died, struck>>
      /\ Return(p, "wait", t, elem[t].exitStatus) /\ CollectStatus(t)
      /\ thread' = [thread EXCEPT ![p].waiting = thread[p].waiting - 1]
  BY <1>1 DEF WaitReturns
<1>3. /\ \A q \in Pages \ {p} : pc'[q] = pc[q] /\ arg'[q] = arg[q]
      /\ pc'[p] \in {"exit", "user"}
  BY <1>2, <1>type DEF Return, Goes
<1>4. \A u \in Tids : elem'[u].list = elem[u].list /\ elem'[u].t = elem[u].t
  BY <1>2, <1>type DEF CollectStatus, ChildElem
<1>5. /\ \A q \in Pages : /\ thread'[q].isParentWaiting = thread[q].isParentWaiting
                          /\ thread'[q].parent = thread[q].parent /\ thread'[q].tid = thread[q].tid
                          /\ q # p => thread'[q].waiting = thread[q].waiting
      /\ thread'[p].waiting = thread[p].waiting - 1
  BY <1>2, <1>type DEF Thread
<1>6. \A q \in Pages : Misled(q) <=> Misled(q)'
  BY <1>2, <1>4 DEF Misled
<1>7. Misled(p) \/ (thread[p].waiting = 1 /\ elem[t].t = None)
  <2>1. thread[p].waiting # 0
    BY <1>2
  <2> QED
    BY <2>1, <1>1 DEF NoSurplus, UpsMeant
<1>8. FlagsMeant'
  <2> SUFFICES ASSUME NEW q \in Pages, pc'[q] \notin {"free", "off"},
                      thread'[q].isParentWaiting, thread'[q].parent # None
               PROVE  \/ \E u \in Tids : u \in struck' /\ elem'[u].list = thread'[q].parent
                      \/ /\ pc'[thread'[q].parent] = "wait"
                         /\ arg'[thread'[q].parent] = thread'[q].tid
    BY DEF FlagsMeant, Alive, Misled
  <2>1. Alive(q) /\ thread[q].isParentWaiting /\ thread[q].parent # None
    BY <1>2, <1>3, <1>5 DEF Alive
  <2>2. PICK r \in Pages : r = thread[q].parent /\ r = thread'[q].parent
    BY <2>1, <1>5, ParentLives
  <2>3. elem[thread[q].tid].t = q
    BY <2>1, ParentLives
  <2>4. Misled(r) \/ (pc[r] = "wait" /\ arg[r] = thread[q].tid)
    BY <2>1, <2>2 DEF NoSurplus, FlagsMeant
  <2>5. Misled(r)' \/ (pc'[r] = "wait" /\ arg'[r] = thread[q].tid)
    <3>1. CASE r = p
      BY <3>1, <2>3, <2>4, <1>1, <1>6, <1>7, <1>type
    <3> QED
      BY <3>1, <2>4, <1>3, <1>6
  <2> QED
    BY <2>2, <2>5, <1>5 DEF Misled
<1>9. UpsMeant'
  <2> SUFFICES ASSUME NEW q \in Pages, thread'[q].waiting # 0
               PROVE  \/ Misled(q)'
                      \/ thread'[q].waiting = 1 /\ pc'[q] = "wait" /\ elem'[arg'[q]].t = None
    BY DEF UpsMeant
  <2>1. CASE q = p
    BY <2>1, <1>5, <1>6, <1>7
  <2>2. CASE q # p
    <3>1. \/ Misled(q)
          \/ thread[q].waiting = 1 /\ pc[q] = "wait" /\ elem[arg[q]].t = None
      BY <2>2, <1>5 DEF NoSurplus, UpsMeant
    <3>2. pc[q] = "wait" => arg[q] \in Tids
      BY DEF ProcessInv, WaitsForChild
    <3> QED
      BY <2>2, <3>1, <3>2, <1>3, <1>4, <1>5, <1>6
  <2> QED
    BY <2>1, <2>2
<1>10. DeadKept' /\ RefusalTold'
  BY <1>1, <1>2, <1>7, CollectSurplus
<1> QED
  BY <1>8, <1>9, <1>10 DEF NoSurplus

\* The flag goes into the child that is waited for, or strikes another one.
LEMMA FlagSurplus ==
  ASSUME ProcessInv, NoSurplus, NEW p \in Pages, WaitFlag(p)
  PROVE  NoSurplus'
<1>type. /\ thread \in [Pages -> Thread] /\ pc \in [Pages -> Points] /\ None \notin Pages
  BY ProcessAssumption DEF ProcessInv, FamilyLinks, TypeOK
<1>1. /\ pc[p] = "flag" /\ UNCHANGED <<arg, elem, died, result, collected>>
      /\ pc' = [pc EXCEPT ![p] = "wait"]
  BY DEF WaitFlag, Goes
<1>2. PICK x \in Pages : x = ptr[p]
  BY <1>1 DEF ProcessInv, WaitsForChild
<1>3. /\ thread' = IF Alive(x) THEN [thread EXCEPT ![x].isParentWaiting = TRUE] ELSE thread
      /\ struck' = IF Alive(x) /\ thread[x].tid # arg[p]
                   THEN struck \cup {thread[x].tid} ELSE struck
  BY <1>2 DEF WaitFlag
<1>4. /\ \A q \in Pages : /\ thread'[q].parent = thread[q].parent /\ thread'[q].tid = thread[q].tid
                          /\ thread'[q].waiting = thread[q].waiting
                          /\ q # x => thread'[q].isParentWaiting = thread[q].isParentWaiting
  <2>1. CASE Alive(x)
    BY <2>1, <1>3, <1>type DEF Thread
  <2>2. CASE ~Alive(x)
    BY <2>2, <1>3
  <2> QED
    BY <2>1, <2>2
<1>5. \A q \in Pages : Misled(q) => Misled(q)'
  BY <1>1, <1>3 DEF Misled
<1>6. \A q \in Pages : q # p => pc'[q] = pc[q]
  BY <1>1, <1>type
<1>7. FlagsMeant'
  <2> SUFFICES ASSUME NEW q \in Pages, pc'[q] \notin {"free", "off"},
                      thread'[q].isParentWaiting, thread'[q].parent # None
               PROVE  \/ \E u \in Tids : u \in struck' /\ elem'[u].list = thread'[q].parent
                      \/ /\ pc'[thread'[q].parent] = "wait"
                         /\ arg'[thread'[q].parent] = thread'[q].tid
    BY DEF FlagsMeant, Alive, Misled
  <2>1. Alive(q) /\ thread[q].parent # None
    BY <1>1, <1>4, <1>6 DEF Alive
  <2>2. PICK r \in Pages : r = thread[q].parent /\ r = thread'[q].parent
    BY <2>1, <1>4, ParentLives
  <2>3. thread[q].tid \in Tids /\ elem[thread[q].tid].list = r
    BY <2>1, <2>2, ParentLives
  <2>4. CASE q = x /\ thread[x].tid # arg[p]
    BY <2>1, <2>2, <2>3, <2>4, <1>1, <1>3
  <2>5. CASE q = x /\ thread[x].tid = arg[p]
    <3>1. r = p
      BY <2>3, <2>5, <1>1 DEF ProcessInv, WaitsForChild
    <3> QED
      BY <3>1, <2>2, <2>5, <1>1, <1>4, <1>type
  <2>6. CASE q # x
    <3>1. Misled(r) \/ (pc[r] = "wait" /\ arg[r] = thread[q].tid)
      BY <2>1, <2>2, <2>6, <1>4 DEF NoSurplus, FlagsMeant
    <3>2. Misled(r)' \/ (pc'[r] = "wait" /\ arg'[r] = thread[q].tid)
      BY <3>1, <1>1, <1>5, <1>6
    <3> QED
      BY <3>2, <2>2, <1>4 DEF Misled
  <2> QED
    BY <2>4, <2>5, <2>6
<1>8. UpsMeant'
  <2> SUFFICES ASSUME NEW q \in Pages, thread'[q].waiting # 0
               PROVE  \/ Misled(q)'
                      \/ thread'[q].waiting = 1 /\ pc'[q] = "wait" /\ elem'[arg'[q]].t = None
    BY DEF UpsMeant
  <2>1. \/ Misled(q)
        \/ thread[q].waiting = 1 /\ pc[q] = "wait" /\ elem[arg[q]].t = None
    BY <1>4 DEF NoSurplus, UpsMeant
  <2> QED
    BY <2>1, <1>1, <1>4, <1>5, <1>6
<1> QED
  BY <1>1, <1>7, <1>8, DeadStay DEF NoSurplus

\* thread_exit() ups the parent that waits for this child, and nobody else.
LEMMA ExitSurplus ==
  ASSUME ProcessInv, NoSurplus, NEW p \in Pages, ThreadExit(p)
  PROVE  NoSurplus'
<1> DEFINE par == thread[p].parent
           tid == thread[p].tid
<1>type. /\ thread \in [Pages -> Thread] /\ pc \in [Pages -> Points] /\ None \notin Pages
         /\ elem \in [Tids -> ChildElem] /\ None \notin Int /\ Statuses \cup {-1} \subseteq Int
  BY ProcessAssumption DEF ProcessInv, FamilyLinks, TypeOK
<1>1. /\ Alive(p) /\ pc[p] = "exit" /\ pc'[p] \in {"off", "free"}
      /\ \A q \in Pages \ {p} : pc'[q] = pc[q]
      /\ \A t \in Tids : died'[t] = IF t = tid THEN thread[p].exitStatus ELSE died[t]
      /\ UNCHANGED <<arg, result, collected, struck>>
  BY <1>type DEF ThreadExit, Goes, Alive
<1>2. /\ thread'[p].waiting = 0
      /\ \A q \in Pages \ {p} :
           /\ thread'[q].tid = thread[q].tid
           /\ thread'[q].parent = IF Alive(q) /\ thread[q].parent = p THEN None
                                  ELSE thread[q].parent
           /\ thread'[q].isParentWaiting = thread[q].isParentWaiting
           /\ thread'[q].waiting = IF q = par /\ thread[p].isParentWaiting
                                   THEN thread[q].waiting + 1 ELSE thread[q].waiting
  BY ExitStep DEF NewThread
<1>3. \A t \in Tids :
        /\ elem[t].list = p => elem'[t].list = None
        /\ elem[t].list # p => elem'[t].list = elem[t].list
        /\ elem[t].list # p /\ par # None /\ t = tid =>
             elem'[t].t = None /\ elem'[t].exitStatus = thread[p].exitStatus
        /\ elem[t].list # p /\ (par = None \/ t # tid) => elem'[t] = elem[t]
  BY ExitStep DEF NoElem
<1>4. \A q \in Pages \ {p} : Misled(q) => Misled(q)'
  BY <1>1, <1>3 DEF Misled
<1>5. FlagsMeant'
  <2> SUFFICES ASSUME NEW q \in Pages, pc'[q] \notin {"free", "off"},
                      thread'[q].isParentWaiting, thread'[q].parent # None
               PROVE  \/ \E u \in Tids : u \in struck' /\ elem'[u].list = thread'[q].parent
                      \/ /\ pc'[thread'[q].parent] = "wait"
                         /\ arg'[thread'[q].parent] = thread'[q].tid
    BY DEF FlagsMeant, Alive, Misled
  <2>1. q # p /\ Alive(q)
    BY <1>1 DEF Alive
  <2>2. /\ thread[q].parent # p /\ thread'[q].parent = thread[q].parent
        /\ thread[q].parent # None /\ thread'[q].tid = thread[q].tid /\ thread[q].isParentWaiting
    BY <2>1, <1>2
  <2>3. PICK r \in Pages \ {p} : r = thread[q].parent /\ r = thread'[q].parent
    BY <2>1, <2>2, ParentLives
  <2>4. Misled(r) \/ (pc[r] = "wait" /\ arg[r] = thread[q].tid)
    BY <2>1, <2>2, <2>3 DEF NoSurplus, FlagsMeant
  <2>5. Misled(r)' \/ (pc'[r] = "wait" /\ arg'[r] = thread'[q].tid)
    BY <2>2, <2>4, <1>1, <1>4
  <2> QED
    BY <2>3, <2>5 DEF Misled
<1>6. UpsMeant'
  <2> SUFFICES ASSUME NEW q \in Pages, thread'[q].waiting # 0
               PROVE  \/ Misled(q)'
                      \/ thread'[q].waiting = 1 /\ pc'[q] = "wait" /\ elem'[arg'[q]].t = None
    BY DEF UpsMeant
  <2>1. q # p
    BY <1>2
  <2>2. pc[q] = "wait" => arg[q] \in Tids /\ elem[arg[q]].list = q
    BY DEF ProcessInv, WaitsForChild
  <2>3. thread[q].waiting # 0 =>
          \/ Misled(q)
          \/ thread[q].waiting = 1 /\ pc[q] = "wait" /\ elem[arg[q]].t = None
    BY DEF NoSurplus, UpsMeant
  <2>4. CASE q = par /\ thread[p].isParentWaiting
    <3>1. /\ thread[p].parent # None /\ tid \in Tids /\ elem[tid].t = p /\ elem[tid].list = q
      BY <2>4, <1>1, <1>type, ParentLives
    <3>2. Misled(q) \/ (pc[q] = "wait" /\ arg[q] = tid)
      BY <2>4, <3>1, <1>1 DEF NoSurplus, FlagsMeant
    <3>3. CASE ~Misled(q)
      <4>1. pc[q] = "wait" /\ arg[q] = tid /\ thread[q].waiting = 0
        BY <2>3, <3>1, <3>2, <3>3, <1>type
      <4>2. thread'[q].waiting = 1
        BY <4>1, <2>1, <2>4, <1>2
      <4>3. elem'[tid].t = None
        BY <2>1, <3>1, <1>3
      <4> QED
        BY <4>1, <4>2, <4>3, <2>1, <1>1
    <3> QED
      BY <3>3, <2>1, <1>4
  <2>5. CASE ~(q = par /\ thread[p].isParentWaiting)
    <3>1. thread'[q].waiting = thread[q].waiting
      BY <2>1, <2>5, <1>2
    <3>2. \/ Misled(q)
          \/ thread[q].waiting = 1 /\ pc[q] = "wait" /\ elem[arg[q]].t = None
      BY <2>3, <3>1
    <3>3. CASE pc[q] = "wait" /\ elem[arg[q]].t = None
      <4>1. elem'[arg[q]].t = None
        BY <3>3, <2>1, <2>2, <1>3
      <4> QED
        BY <4>1, <3>1, <3>2, <2>1, <1>1, <1>4
    <3> QED
      BY <3>1, <3>2, <3>3, <2>1, <1>4
  <2> QED
    BY <2>4, <2>5
<1>7. tid \in Tids => died[tid] = None
  BY <1>1 DEF ProcessInv, TidsUnique
<1>8. DeadKept'
  <2> SUFFICES ASSUME NEW t \in Tids, elem'[t].list # None, elem'[t].t = None
               PROVE  died'[t] # None /\ (elem'[t].exitStatus = died'[t] \/ collected'[t] = 1)
    BY DEF DeadKept
  <2>1. elem[t].list # p
    BY <1>3
  <2>2. CASE par # None /\ t = tid
    <3>1. thread[p].exitStatus \in Statuses \cup {-1}
      BY <1>type DEF Thread
    <3> QED
      BY <2>1, <2>2, <3>1, <1>1, <1>3, <1>type
  <2>3. CASE par = None \/ t # tid
    <3>1. elem'[t] = elem[t]
      BY <2>1, <2>3, <1>3
    <3>2. died[t] # None /\ (elem[t].exitStatus = died[t] \/ collected[t] = 1)
      BY <3>1 DEF NoSurplus, DeadKept
    <3> QED
      BY <3>1, <3>2, <1>1, <1>7
  <2> QED
    BY <2>2, <2>3
<1>9. RefusalTold'
  <2>1. -1 # None
    BY <1>type
  <2> QED
    BY <2>1, <1>1, <1>7 DEF NoSurplus, RefusalTold
<1> QED
  BY <1>5, <1>6, <1>8, <1>9 DEF NoSurplus

\* There is no flag, no up, no element and no result in the beginning.
LEMMA SurplusInit == Init => NoSurplus
<1> SUFFICES ASSUME Init PROVE NoSurplus
  OBVIOUS
<1>1. /\ \A p \in Pages : thread[p].waiting = 0 /\ ~thread[p].isParentWaiting
      /\ \A t \in Tids : elem[t].list = None
      /\ result.call = "none"
  BY DEF Init, NewThread, NoElem, NoResult
<1> QED
  BY <1>1 DEF NoSurplus, FlagsMeant, UpsMeant, DeadKept, RefusalTold

\* Every step keeps it.
LEMMA SurplusNext == ProcessInv /\ NoSurplus /\ [Next]_vars => NoSurplus'
<1> SUFFICES ASSUME ProcessInv, NoSurplus, [Next]_vars PROVE NoSurplus'
  OBVIOUS
<1>m. Main \in Pages /\ arg[Main] \in Tids \cup {0, -1}
  BY ProcessAssumption DEF ProcessInv, FamilyLinks, TypeOK
<1>1. ASSUME NEW p \in Pages, Starting(p) PROVE NoSurplus'
  BY <1>1, QuietSurplus DEF Starting
<1>2. ASSUME NEW p \in Pages, NEW t \in Tids \cup {0, -1}, ProcessWait(p, t),
             pc[p] \in {"user", "task"}
      PROVE  NoSurplus'
  <2>1. CASE WaitStranger(p, t)
    BY <1>2, <2>1, ReturnSurplus
  <2>2. CASE WaitDead(p, t)
    <3>1. t \in Tids
      BY <2>2 DEF WaitDead
    <3> QED
      BY <1>2, <2>2, <3>1, WaitDeadSurplus
  <2>3. CASE WaitAlive(p, t)
    <3>1. t \in Tids
      BY <2>3 DEF WaitAlive
    <3> QED
      BY <1>2, <2>3, <3>1, QuietSurplus
  <2> QED
    BY <1>2, <2>1, <2>2, <2>3 DEF ProcessWait
<1>3. ASSUME NEW p \in Pages, Calling(p) PROVE NoSurplus'
  <2>1. ASSUME NEW q \in Pages, SysExec(p, q) PROVE NoSurplus'
    BY <2>1, ExecuteSurplus DEF SysExec
  <2>2. ASSUME NEW t \in Tids, SysWait(p, t) PROVE NoSurplus'
    BY <2>2, <1>2 DEF SysWait
  <2> QED
    BY <1>3, <2>1, <2>2, QuietSurplus DEF Calling
<1>4. ASSUME NEW p \in Pages, Inside(p) PROVE NoSurplus'
  BY <1>4, ReturnSurplus, FlagSurplus, WaitReturnsSurplus, ExitSurplus DEF Inside
<1>5. ASSUME NEW q \in Pages, RunTask(q) PROVE NoSurplus'
  BY <1>5, <1>m, ExecuteSurplus DEF RunTask
<1>6. CASE RunTaskNoPage
  BY <1>6, <1>m, QuietSurplus
<1>7. CASE RunTaskWait
  BY <1>7, <1>m, <1>2 DEF RunTaskWait
<1>8. CASE UNCHANGED vars
  BY <1>8 DEF vars, historyVars, NoSurplus, FlagsMeant, UpsMeant, DeadKept, RefusalTold, Alive, Misled
<1> QED
  BY <1>1, <1>3, <1>4, <1>5, <1>6, <1>7, <1>8 DEF Next

\* It holds throughout.
LEMMA SurplusInvariant == Spec => []NoSurplus
BY ProcessInvariant, SurplusInit, SurplusNext, PTL DEF Spec

\* process.c, thread.c: whoever exits first, `parent' and childList agree, and
\* no pointer of the family leads into a page that is free or used again.
THEOREM FamilyConsistent == Spec => []FamilyLinks
<1>1. ProcessInv => FamilyLinks
  BY DEF ProcessInv
<1> QED
  BY <1>1, ProcessInvariant, PTL

\* userprog.texi:618-622: exec returns the pid of a child that has loaded, and
\* -1 only for a child whose load has failed.
THEOREM ExecTruthful == Spec => []ExecTellsTruth
<1>1. ProcessInv => ExecTellsTruth
  BY DEF ProcessInv
<1> QED
  BY <1>1, ProcessInvariant, PTL

\* process.c:106-111: wait returns the status its child died with, or -1; a
\* child's status is returned at most once; and -1 for a child of the caller's
\* own means that it died with -1 or was waited for before, unless a stale
\* pointer of another parent has struck one of the caller's children.
THEOREM WaitTruthful == Spec => []WaitTellsTruth
<1>1. ProcessInv /\ NoSurplus => WaitTellsTruth
  BY DEF ProcessInv, StatusTold, NoSurplus, RefusalTold, WaitTellsTruth
<1> QED
  BY <1>1, ProcessInvariant, SurplusInvariant, PTL

\* process.c:127-130, thread_do_child_dying(): outside a parent that was misled
\* in that way, a child's isParentWaiting is set only while its parent sleeps
\* in process_wait() for that very child, and `waiting' is up only for the
\* death of the child that its process waits for.
THEOREM UpsAreForTheChild == Spec => [](FlagsMeant /\ UpsMeant)
<1>1. NoSurplus => FlagsMeant /\ UpsMeant
  BY DEF NoSurplus
<1> QED
  BY <1>1, SurplusInvariant, PTL

\* process.c:115-140: a process in process_wait() waits for a child in its own
\* list, whose element stays there for the whole call, also while the child
\* dies between the two reads of childElem->t.
THEOREM WaitElementStays == Spec => []WaitsForChild
<1>1. ProcessInv => WaitsForChild
  BY DEF ProcessInv
<1> QED
  BY <1>1, ProcessInvariant, PTL
=============================================================================
