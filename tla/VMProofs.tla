------------------------------ MODULE VMProofs ------------------------------
(***************************************************************************)
(* The safety properties of module VM when the kernel runs its tasks in    *)
(* turn (MaxLive = 1), for every executable, every number of frames, swap  *)
(* slots and processes: frames are neither lost nor shared, a page holds   *)
(* what its process last wrote wherever it is, the victim of an eviction   *)
(* is the oldest page, and a panic has its cause.                          *)
(***************************************************************************)
EXTENDS VM, ListLemmas

\* One process at a time.
OneLive == \A p, q \in Procs : Live(p) /\ Live(q) => p = q

\* The frames in use are those that are mapped, once, by a process that has a
\* page directory, and the copies of the command lines.
FramesMapped ==
  /\ used = copies \cup UNION {Mapped(p) : p \in Procs}
  /\ \A p, q \in Procs, u, w \in Upages :
       pagedir[p][u] # None /\ pagedir[p][u] = pagedir[q][w] => p = q /\ u = w
  /\ \A p \in Procs, u \in Upages :
       pagedir[p][u] # None => HasPagedir(p) /\ pagedir[p][u] \notin copies

\* The frame table lists the mapped frames but those of the stack tops, each
\* once and under the page it is mapped at.
TableRight ==
  /\ IsInjective(frame_table)
  /\ \A e \in Range(frame_table) :
       /\ Live(e.owner) /\ e.aux \in DOMAIN page_table[e.owner]
       /\ HasPagedir(e.owner) => pagedir[e.owner][Entry(e).uservaddr] = e.frame
       /\ \A d \in Range(frame_table) : d.frame = e.frame => d = e
  /\ \A p \in Procs, u \in Upages \ {Top} :
       pagedir[p][u] # None =>
         \E e \in Range(frame_table) : e.owner = p /\ e.frame = pagedir[p][u]

\* What load_segment() has yet to load is in neither table, nor is the stack;
\* the page that page_fault() is about stays unmapped, and the lock taken.
StepsRight ==
  \A p \in Procs :
    /\ pc[p] \in {"load", "stack"} =>
         /\ \A u \in Upages : pagedir[p][u] # None => u \in Image \ todo[p]
         /\ \A i \in DOMAIN page_table[p] : page_table[p][i].uservaddr \in Image \ todo[p]
    /\ pc[p] = "fault" => pagedir[p][need[p]] = None /\ exception_lock = 0

\* A page without a slot is in the frame table.
SlotsRight ==
  /\ SlotsDistinct
  /\ \A p \in Procs : HasPagedir(p) => \A i \in DOMAIN page_table[p] :
       page_table[p][i].block_index = -1 =>
         \E e \in Range(frame_table) : e.owner = p /\ e.aux = i

\* Entry i is the only one for page u.
Sole(table, u, i) ==
  /\ i \in DOMAIN table /\ table[i].uservaddr = u
  /\ \A j \in DOMAIN table : table[j].uservaddr = u => j = i

\* PageData, with the entry of the page named.
DataRight ==
  \A p \in Procs : HasPagedir(p) => \A u \in Upages, i \in DOMAIN page_table[p] :
    Sole(page_table[p], u, i) =>
      \/ pagedir[p][u] # None /\ data[pagedir[p][u]] = written[p][u]
      \/ /\ pagedir[p][u] = None
         /\ page_table[p][i].block_index # -1
         /\ swap[page_table[p][i].block_index] = written[p][u]

\* The frame table is in the order of the access times, none of which lies
\* ahead.
AgesRight ==
  /\ OldestFirst
  /\ \A p \in Procs : \A i \in DOMAIN page_table[p] : page_table[p][i].access_time <= ticks

\* PanicsExplained but for the causes, which are proved after the rest.
FreesRight == panic \notin {"freed", "slot"}

\* The inductive invariant.
VMInv ==
  /\ TypeOK /\ OneLive /\ FramesMapped /\ TableRight /\ StepsRight
  /\ SlotsRight /\ DataRight /\ AgesRight /\ FreesRight

\* An entry of a page table and of the frame table, as TypeOK has them.
PageEntry == [uservaddr : Upages, access_time : 0..MaxTicks, block_index : -1..(Slots - 1)]
FrameEntry == [frame : Frames, owner : Procs, aux : Nat \ {0}]

-----------------------------------------------------------------------------
(* The tables.                                                             *)

\* The types, in a form that the steps below use.
LEMMA Types ==
  ASSUME TypeOK
  PROVE  /\ \A p \in Procs : page_table[p] \in Seq(PageEntry)
         /\ \A p \in Procs : \A i \in DOMAIN page_table[p] :
              /\ page_table[p][i] \in PageEntry /\ page_table[p][i].uservaddr \in Upages
              /\ page_table[p][i].access_time \in 0..MaxTicks
              /\ page_table[p][i].block_index \in -1..(Slots - 1)
         /\ page_table \in [Procs -> Seq(PageEntry)]
         /\ frame_table \in Seq(FrameEntry)
         /\ \A e \in Range(frame_table) : /\ e \in FrameEntry
                                          /\ e.owner \in Procs /\ e.frame \in Frames
                                          /\ e.aux \in Nat \ {0}
<1>1. page_table \in [Procs -> Seq(PageEntry)] /\ frame_table \in Seq(FrameEntry)
  BY DEF TypeOK, PageEntry, FrameEntry
<1>2. \A p \in Procs : \A i \in DOMAIN page_table[p] : page_table[p][i] \in PageEntry
  BY <1>1, ElementOfSeq, LenProperties
<1>3. \A e \in Range(frame_table) : e \in FrameEntry
  BY <1>1, RangeSeq
<1> QED
  BY <1>1, <1>2, <1>3 DEF PageEntry, FrameEntry

\* Whatever is in the frame table belongs to the process that is there.
LEMMA OneOwner ==
  ASSUME VMInv, NEW p \in Procs, Live(p)
  PROVE  \A e \in Range(frame_table) : e.owner = p
<1>1. \A e \in Range(frame_table) : e.owner \in Procs /\ Live(e.owner)
  BY Types DEF VMInv, TableRight
<1> QED
  BY <1>1 DEF VMInv, OneLive

\* And is a frame in use, mapped where the entry says, while that process has
\* its page directory.
LEMMA EntryMapped ==
  ASSUME VMInv, NEW p \in Procs, HasPagedir(p), NEW e \in Range(frame_table)
  PROVE  /\ e.owner = p /\ e.aux \in DOMAIN page_table[p]
         /\ page_table[p][e.aux].uservaddr \in Upages
         /\ pagedir[p][page_table[p][e.aux].uservaddr] = e.frame
         /\ e.frame # None /\ e.frame \in used /\ e.frame \in Frames
<1>1. e.owner = p
  BY OneOwner DEF Live, HasPagedir
<1>2. e.aux \in DOMAIN page_table[p] /\ pagedir[p][page_table[p][e.aux].uservaddr] = e.frame
  BY <1>1 DEF VMInv, TableRight, Entry
<1>3. /\ page_table[p][e.aux].uservaddr \in Upages /\ e.frame \in Frames /\ e.frame # None
  BY <1>1, <1>2, Types, VMAssumption DEF VMInv
<1>4. e.frame \in Mapped(p)
  BY <1>2, <1>3 DEF Mapped
<1> QED
  BY <1>1, <1>2, <1>3, <1>4 DEF VMInv, FramesMapped

\* A mapped frame is in use.
LEMMA MappedUsed ==
  ASSUME VMInv, NEW p \in Procs
  PROVE  /\ \A u \in Upages : pagedir[p][u] # None =>
              pagedir[p][u] \in used /\ pagedir[p][u] \in Mapped(p)
         /\ Mapped(p) \subseteq used /\ used \subseteq Frames
<1>1. \A u \in Upages : pagedir[p][u] # None => pagedir[p][u] \in Mapped(p)
  BY DEF Mapped
<1> QED
  BY <1>1 DEF VMInv, FramesMapped, TypeOK

\* evict_frame() finds an entry.
LEMMA VictimThere ==
  ASSUME VMInv, frame_table # << >>
  PROVE  Victim \in DOMAIN frame_table
<1> DEFINE age(i) == Entry(frame_table[i]).access_time
           D == DOMAIN frame_table
           T == {age(i) : i \in D}
<1>1. D = 1..Len(frame_table) /\ D # {} /\ D \in SUBSET Nat
  <2>1. frame_table \in Seq(FrameEntry)
    BY Types DEF VMInv
  <2>2. D = 1..Len(frame_table) /\ Len(frame_table) \in Nat /\ Len(frame_table) # 0
    BY <2>1, EmptySeq, LenProperties
  <2> QED
    BY <2>2
<1>2. \A i \in D : age(i) \in Nat
  <2> SUFFICES ASSUME NEW i \in D PROVE age(i) \in Nat
    OBVIOUS
  <2>1. frame_table[i] \in Range(frame_table)
    BY DEF Range
  <2>2. Entry(frame_table[i]).access_time \in 0..MaxTicks
    BY <2>1, Types DEF VMInv, TableRight, Entry
  <2> QED
    BY <2>2
<1> HIDE DEF age
<1>3. T \in SUBSET Nat /\ T # {}
  BY <1>1, <1>2
<1>4. PICK m \in T : \A n \in T : m <= n
  BY <1>3, LeastNat
<1> DEFINE I == {i \in D : age(i) = m}
<1>5. I \in SUBSET Nat /\ I # {}
  BY <1>1, <1>4
<1>6. PICK i \in I : \A j \in I : i <= j
  BY <1>5, LeastNat
<1>7. \A j \in D : age(i) <= age(j)
  BY <1>4, <1>6
<1>8. \A j \in 1..(i - 1) : age(i) < age(j)
  <2> SUFFICES ASSUME NEW j \in 1..(i - 1) PROVE age(i) < age(j)
    OBVIOUS
  <2>1. i \in D /\ j \in D /\ ~(i <= j)
    BY <1>1, <1>6
  <2>2. j \notin I
    BY <1>6, <2>1
  <2>3. age(j) # age(i)
    BY <1>6, <2>1, <2>2
  <2> QED
    BY <1>2, <1>7, <2>1, <2>3
<1>9. \E k \in DOMAIN frame_table :
        /\ \A j \in DOMAIN frame_table :
             Entry(frame_table[k]).access_time <= Entry(frame_table[j]).access_time
        /\ \A j \in 1..(k - 1) :
             Entry(frame_table[k]).access_time < Entry(frame_table[j]).access_time
  BY <1>6, <1>7, <1>8 DEF age
<1> QED
  BY <1>9 DEF Victim

-----------------------------------------------------------------------------
(* Steps that leave memory and the tables alone.                           *)

\* A step of the process that is there, on its way from load() to exit.
LEMMA Moves ==
  ASSUME VMInv, NEW p \in Procs, HasPagedir(p), NEW x \in Points \ {"none", "forget"},
         Goes(p, x)
  PROVE  /\ pc' \in [Procs -> Points] /\ pc'[p] = x
         /\ \A q \in Procs : q # p => pc'[q] = pc[q] /\ pc[q] = "none"
         /\ \A q \in Procs : (HasPagedir(q)' <=> HasPagedir(q)) /\ (Live(q)' <=> Live(q))
<1>1. pc \in [Procs -> Points]
  BY DEF VMInv, TypeOK
<1>2. pc'[p] = x /\ pc' \in [Procs -> Points] /\ \A q \in Procs : q # p => pc'[q] = pc[q]
  BY <1>1 DEF Goes
<1>3. Live(p)
  BY DEF Live, HasPagedir
<1>4. \A q \in Procs : q # p => pc[q] = "none"
  BY <1>3 DEF VMInv, OneLive, Live
<1>5. HasPagedir(p)' /\ Live(p)'
  BY <1>2 DEF HasPagedir, Live, Points
<1> QED
  BY <1>2, <1>3, <1>4, <1>5 DEF HasPagedir, Live

\* The invariants about memory, when neither it nor the tables change.
LEMMA Unmoved ==
  ASSUME VMInv, UNCHANGED <<pagedir, tableVars, memVars, historyVars>>,
         \A q \in Procs : (HasPagedir(q)' <=> HasPagedir(q)) /\ (Live(q)' <=> Live(q)),
         ticks' \in Nat, ticks <= ticks'
  PROVE  OneLive' /\ FramesMapped' /\ TableRight' /\ SlotsRight' /\ DataRight' /\ AgesRight'
<1>1. /\ pagedir' = pagedir /\ page_table' = page_table /\ frame_table' = frame_table
      /\ used' = used /\ data' = data /\ swap' = swap /\ curr_index' = curr_index
      /\ written' = written /\ copies' = copies
  BY DEF tableVars, memVars, historyVars
<1>2. OneLive'
  BY DEF VMInv, OneLive
<1>3. FramesMapped'
  <2>1. \A q \in Procs : Mapped(q)' = Mapped(q)
    BY <1>1 DEF Mapped
  <2> QED
    BY <1>1, <2>1 DEF VMInv, FramesMapped
<1>4. \A e \in Range(frame_table) : Entry(e)' = Entry(e) /\ e.owner \in Procs
  BY <1>1, Types DEF Entry, VMInv
<1>5. TableRight'
  BY <1>1, <1>4 DEF VMInv, TableRight
<1>6. SlotsRight'
  BY <1>1 DEF VMInv, SlotsRight, SlotsDistinct
<1>7. DataRight'
  BY <1>1 DEF VMInv, DataRight
<1>8. AgesRight'
  <2>1. OldestFirst'
    BY <1>1 DEF VMInv, AgesRight, OldestFirst, Entry
  <2>2. ASSUME NEW q \in Procs, NEW i \in DOMAIN page_table[q]
        PROVE  page_table[q][i].access_time <= ticks'
    <3>1. page_table[q][i].access_time \in 0..MaxTicks
      BY Types DEF VMInv
    <3>2. page_table[q][i].access_time <= ticks /\ ticks \in 0..MaxTicks /\ MaxTicks \in Nat
      BY VMAssumption DEF VMInv, AgesRight, TypeOK
    <3> QED
      BY <3>1, <3>2
  <2> QED
    BY <1>1, <2>1, <2>2 DEF AgesRight
<1> QED
  BY <1>2, <1>3, <1>5, <1>6, <1>7, <1>8

\* A panic for want of memory.
LEMMA PanicInv ==
  ASSUME VMInv, NEW why \in {"memory", "buffer", "swap", "lock"}, Panics(why)
  PROVE  VMInv'
<1>1. /\ UNCHANGED <<pc, need, tried, todo, pagedir, readonly, page_table, frame_table, used, data>>
      /\ UNCHANGED <<swap, curr_index, exception_lock, swap_IO_lock, ticks, written, copies>>
      /\ panic' = why
  BY DEF Panics, procVars, mapVars, tableVars, memVars, lockVars, historyVars
<1>2. TypeOK'
  BY <1>1 DEF VMInv, TypeOK
<1>3. StepsRight' /\ FreesRight'
  BY <1>1 DEF VMInv, StepsRight, FreesRight
<1>4. ticks \in Nat
  BY DEF VMInv, TypeOK
<1>5. OneLive' /\ FramesMapped' /\ TableRight' /\ SlotsRight' /\ DataRight' /\ AgesRight'
  BY <1>1, <1>4, Unmoved DEF HasPagedir, Live, tableVars, memVars, historyVars
<1> QED
  BY <1>2, <1>3, <1>5 DEF VMInv

\* A step in the course of a process that changes nothing but where it is.
LEMMA MoveInv ==
  ASSUME VMInv, NEW p \in Procs, HasPagedir(p), NEW x \in {"user", "fault", "exit"},
         Goes(p, x), panic' = panic, panic = "no",
         UNCHANGED <<todo, mapVars, tableVars, memVars, swap_IO_lock, ticks, historyVars>>,
         need' \in [Procs -> Upages], tried' \in [Procs -> {"no", "done", "failed"}],
         exception_lock' \in {0, 1},
         x = "fault" => pagedir[p][need'[p]] = None /\ exception_lock' = 0
  PROVE  VMInv'
<1>0. /\ UNCHANGED <<pagedir, readonly, page_table, frame_table, used, data, swap, curr_index>>
      /\ UNCHANGED <<todo, swap_IO_lock, ticks, written, copies, panic>>
  BY DEF mapVars, tableVars, memVars, historyVars
<1>1. x \in Points \ {"none", "forget"}
  BY DEF Points
<1>2. /\ pc' \in [Procs -> Points] /\ pc'[p] = x
      /\ \A q \in Procs : q # p => pc'[q] = pc[q] /\ pc[q] = "none"
      /\ \A q \in Procs : (HasPagedir(q)' <=> HasPagedir(q)) /\ (Live(q)' <=> Live(q))
  BY <1>1, Moves
<1>3. TypeOK'
  BY <1>0, <1>2 DEF VMInv, TypeOK
<1>4. StepsRight'
  BY <1>0, <1>2 DEF StepsRight
<1>5. FreesRight'
  BY <1>0 DEF VMInv, FreesRight
<1>6. ticks \in Nat
  BY DEF VMInv, TypeOK
<1>7. OneLive' /\ FramesMapped' /\ TableRight' /\ SlotsRight' /\ DataRight' /\ AgesRight'
  BY <1>0, <1>2, <1>6, Unmoved DEF tableVars, memVars, historyVars
<1> QED
  BY <1>3, <1>4, <1>5, <1>7 DEF VMInv

\* load() that fails, setup_stack() without its copy, the calls that end a
\* process, and page_fault() up to its first wait for memory.
LEMMA MoveSteps ==
  ASSUME VMInv, NEW p \in Procs
  PROVE  /\ LoadFails(p) => VMInv'
         /\ NoArgs(p) => VMInv'
         /\ \A u \in Upages : PageFault(p, u) => VMInv'
         /\ PageFaultKill(p) => VMInv'
         /\ Exit(p) => VMInv'
         /\ FaultNoMemory(p) => VMInv'
<1>0. /\ need \in [Procs -> Upages] /\ tried \in [Procs -> {"no", "done", "failed"}]
      /\ exception_lock \in {0, 1}
  BY DEF VMInv, TypeOK
<1>1. ASSUME LoadFails(p) PROVE VMInv'
  BY <1>0, <1>1, MoveInv DEF LoadFails, At, HasPagedir, lockVars
<1>2. ASSUME NoArgs(p) PROVE VMInv'
  <2>1. CASE tried[p] = "failed" /\ Goes(p, "user")
             /\ tried' = [tried EXCEPT ![p] = "no"]
             /\ UNCHANGED <<need, todo, mapVars, tableVars, memVars, lockVars, ticks, panic,
                            historyVars>>
    BY <1>0, <1>2, <2>1, MoveInv DEF NoArgs, At, HasPagedir, lockVars
  <2>2. CASE Panics("memory")
    BY <2>2, PanicInv
  <2> QED
    BY <1>2, <2>1, <2>2 DEF NoArgs
<1>3. ASSUME NEW u \in Upages, PageFault(p, u) PROVE VMInv'
  <2>1. /\ need' = [need EXCEPT ![p] = u] /\ pagedir[p][u] = None /\ Goes(p, "fault")
        /\ exception_lock > 0 /\ exception_lock' = exception_lock - 1
        /\ HasPagedir(p) /\ panic = "no" /\ panic' = panic
        /\ UNCHANGED <<tried, todo, mapVars, tableVars, memVars, swap_IO_lock, ticks, historyVars>>
    BY <1>3 DEF PageFault, At, HasPagedir
  <2>2. exception_lock' = 0 /\ need' \in [Procs -> Upages] /\ need'[p] = u
    BY <1>0, <2>1
  <2> QED
    BY <1>0, <2>1, <2>2, MoveInv
<1>4. ASSUME PageFaultKill(p) PROVE VMInv'
  <2>1. exception_lock' \in {0, 1}
    BY <1>0, <1>4 DEF PageFaultKill
  <2> QED
    BY <1>0, <1>4, <2>1, MoveInv DEF PageFaultKill, At, HasPagedir
<1>5. ASSUME Exit(p) PROVE VMInv'
  BY <1>0, <1>5, MoveInv DEF Exit, At, HasPagedir, lockVars
<1>6. ASSUME FaultNoMemory(p) PROVE VMInv'
  BY <1>6, PanicInv DEF FaultNoMemory
<1> QED
  BY <1>1, <1>2, <1>3, <1>4, <1>5, <1>6

\* The timer interrupt.
LEMMA TickInv == ASSUME VMInv, Tick PROVE VMInv'
<1>1. /\ UNCHANGED <<pc, need, tried, todo, pagedir, readonly, page_table, frame_table, used, data>>
      /\ UNCHANGED <<swap, curr_index, exception_lock, swap_IO_lock, panic, written, copies>>
      /\ ticks' = ticks + 1 /\ ticks < MaxTicks
  BY DEF Tick, procVars, mapVars, tableVars, memVars, lockVars, historyVars
<1>2. ticks \in 0..MaxTicks /\ MaxTicks \in Nat
  BY VMAssumption DEF VMInv, TypeOK
<1>3. ticks' \in 0..MaxTicks /\ ticks' \in Nat /\ ticks <= ticks'
  BY <1>1, <1>2
<1>4. TypeOK'
  BY <1>1, <1>3 DEF VMInv, TypeOK
<1>5. StepsRight' /\ FreesRight'
  BY <1>1 DEF VMInv, StepsRight, FreesRight
<1>6. OneLive' /\ FramesMapped' /\ TableRight' /\ SlotsRight' /\ DataRight' /\ AgesRight'
  BY <1>1, <1>3, Unmoved DEF HasPagedir, Live, tableVars, memVars, historyVars
<1> QED
  BY <1>4, <1>5, <1>6 DEF VMInv

-----------------------------------------------------------------------------
(* Steps that map a page.                                                  *)

\* Frame f with contents c becomes page u of p, which is not mapped.
MapsPage(p, u, f, c) ==
  /\ p \in Procs /\ u \in Upages /\ f \in Frames \ used /\ HasPagedir(p)
  /\ pagedir[p][u] = None
  /\ \A q \in Procs, w \in Upages :
       pagedir'[q][w] = IF q = p /\ w = u THEN f ELSE pagedir[q][w]
  /\ used' = used \cup {f}
  /\ \A g \in Frames : data'[g] = IF g = f THEN c ELSE data[g]
  /\ \A q \in Procs : (HasPagedir(q)' <=> HasPagedir(q)) /\ (Live(q)' <=> Live(q))
  /\ UNCHANGED <<swap, curr_index, ticks, copies>>
  /\ \A q \in Procs, w \in Upages : q # p \/ w # u => written'[q][w] = written[q][w]

\* And is entered in the frame table as e, whose page table entry is new or
\* has its access time refreshed.
EntersPage(p, u, f, e) ==
  /\ e \in FrameEntry /\ e.owner = p /\ e.frame = f
  /\ frame_table' = Append(frame_table, e)
  /\ \A q \in Procs : q # p => page_table'[q] = page_table[q]
  /\ \A i \in DOMAIN page_table[p] :
       /\ i \in DOMAIN page_table'[p]
       /\ page_table'[p][i].uservaddr = page_table[p][i].uservaddr
       /\ page_table'[p][i].block_index = page_table[p][i].block_index
       /\ i # e.aux => page_table'[p][i].access_time = page_table[p][i].access_time
  /\ \A i \in DOMAIN page_table'[p] :
       i \in DOMAIN page_table[p] \/ (i = e.aux /\ page_table'[p][i].block_index = -1)
  /\ e.aux \in DOMAIN page_table'[p]
  /\ page_table'[p][e.aux].uservaddr = u /\ page_table'[p][e.aux].access_time = ticks

\* palloc_get_page() and install_page().
LEMMA Installs ==
  ASSUME VMInv, NEW p \in Procs, NEW u \in Upages, NEW f \in Free, NEW c \in Contents,
         InstallPage(p, u, f, c)
  PROVE  /\ f \in Frames \ used
         /\ \A q \in Procs, w \in Upages :
              pagedir'[q][w] = IF q = p /\ w = u THEN f ELSE pagedir[q][w]
         /\ used' = used \cup {f}
         /\ \A g \in Frames : data'[g] = IF g = f THEN c ELSE data[g]
         /\ pagedir' \in [Procs -> [Upages -> Frames \cup {None}]]
         /\ data' \in [Frames -> Contents] /\ used' \subseteq Frames
<1>1. /\ pagedir \in [Procs -> [Upages -> Frames \cup {None}]]
      /\ data \in [Frames -> Contents] /\ used \subseteq Frames /\ f \in Frames \ used
  BY DEF VMInv, TypeOK, Free
<1>2. /\ used' = used \cup {f} /\ data' = [data EXCEPT ![f] = c]
      /\ pagedir' = [pagedir EXCEPT ![p] = [pagedir[p] EXCEPT ![u] = f]]
  BY DEF InstallPage
<1> QED
  BY <1>1, <1>2

\* No frame is shared or lost by it.
LEMMA MapsFrames ==
  ASSUME VMInv, NEW p, NEW u, NEW f, NEW c, MapsPage(p, u, f, c)
  PROVE  OneLive' /\ FramesMapped'
<1>0. /\ p \in Procs /\ u \in Upages /\ f \in Frames \ used /\ HasPagedir(p)
      /\ pagedir[p][u] = None /\ f # None
      /\ \A q \in Procs, w \in Upages :
           pagedir'[q][w] = IF q = p /\ w = u THEN f ELSE pagedir[q][w]
      /\ used' = used \cup {f} /\ copies' = copies
      /\ \A q \in Procs : (HasPagedir(q)' <=> HasPagedir(q)) /\ (Live(q)' <=> Live(q))
  BY VMAssumption DEF MapsPage
<1>1. OneLive'
  BY <1>0 DEF VMInv, OneLive
<1>2. \A q \in Procs : q # p => Mapped(q)' = Mapped(q)
  BY <1>0 DEF Mapped
<1>3. Mapped(p)' = Mapped(p) \cup {f}
  BY <1>0 DEF Mapped
<1>4. /\ used = copies \cup UNION {Mapped(q) : q \in Procs}
      /\ \A q, r \in Procs, v, w \in Upages :
           pagedir[q][v] # None /\ pagedir[q][v] = pagedir[r][w] => q = r /\ v = w
      /\ \A q \in Procs, w \in Upages :
           pagedir[q][w] # None => HasPagedir(q) /\ pagedir[q][w] \notin copies
  BY DEF VMInv, FramesMapped
<1>5. used' = copies' \cup UNION {Mapped(q)' : q \in Procs}
  BY <1>0, <1>2, <1>3, <1>4
<1>6. \A q \in Procs, w \in Upages : pagedir[q][w] # f
  BY <1>0, MappedUsed
<1>7. ASSUME NEW q \in Procs, NEW r \in Procs, NEW v \in Upages, NEW w \in Upages,
             pagedir'[q][v] # None, pagedir'[q][v] = pagedir'[r][w]
      PROVE  q = r /\ v = w
  BY <1>0, <1>4, <1>6, <1>7
<1>8. ASSUME NEW q \in Procs, NEW w \in Upages, pagedir'[q][w] # None
      PROVE  HasPagedir(q)' /\ pagedir'[q][w] \notin copies'
  <2>1. f \notin copies
    <3>1. used = copies \cup UNION {Mapped(r) : r \in Procs}
      BY <1>4
    <3>2. copies \subseteq used
      BY <3>1
    <3> QED
      BY <1>0, <3>2
  <2>2. CASE q = p /\ w = u
    BY <1>0, <2>1, <2>2
  <2>3. CASE ~(q = p /\ w = u)
    BY <1>0, <1>4, <1>8, <2>3
  <2> QED
    BY <2>2, <2>3
<1>9. FramesMapped'
  BY <1>5, <1>7, <1>8 DEF FramesMapped
<1> QED
  BY <1>1, <1>9

\* The tables stay right.
LEMMA MapsTables ==
  ASSUME VMInv, NEW p, NEW u, NEW f, NEW c, NEW e, MapsPage(p, u, f, c), EntersPage(p, u, f, e)
  PROVE  TableRight' /\ SlotsRight' /\ AgesRight'
<1>0. /\ p \in Procs /\ u \in Upages /\ f \in Frames \ used /\ HasPagedir(p)
      /\ pagedir[p][u] = None /\ f # None
      /\ \A q \in Procs, w \in Upages :
           pagedir'[q][w] = IF q = p /\ w = u THEN f ELSE pagedir[q][w]
      /\ \A q \in Procs : (HasPagedir(q)' <=> HasPagedir(q)) /\ (Live(q)' <=> Live(q))
      /\ ticks' = ticks /\ curr_index' = curr_index
  BY VMAssumption DEF MapsPage
<1>1. /\ e \in FrameEntry /\ e.owner = p /\ e.frame = f
      /\ frame_table' = Append(frame_table, e)
      /\ \A q \in Procs : q # p => page_table'[q] = page_table[q]
      /\ \A i \in DOMAIN page_table[p] :
           /\ i \in DOMAIN page_table'[p]
           /\ page_table'[p][i].uservaddr = page_table[p][i].uservaddr
           /\ page_table'[p][i].block_index = page_table[p][i].block_index
           /\ i # e.aux => page_table'[p][i].access_time = page_table[p][i].access_time
      /\ \A i \in DOMAIN page_table'[p] :
           i \in DOMAIN page_table[p] \/ (i = e.aux /\ page_table'[p][i].block_index = -1)
      /\ e.aux \in DOMAIN page_table'[p]
      /\ page_table'[p][e.aux].uservaddr = u /\ page_table'[p][e.aux].access_time = ticks
  BY DEF EntersPage
<1>2. \A d \in Range(frame_table) :
        /\ d.owner = p /\ d.aux \in DOMAIN page_table[p]
        /\ pagedir[p][page_table[p][d.aux].uservaddr] = d.frame
        /\ page_table[p][d.aux].uservaddr \in Upages
        /\ d.frame # None /\ d.frame # f
  BY <1>0, EntryMapped
<1>3. \A d \in Range(frame_table) : d.aux # e.aux /\ page_table[p][d.aux].uservaddr # u /\ d # e
  BY <1>0, <1>1, <1>2
<1>4. /\ IsInjective(frame_table')
      /\ Range(frame_table') = Range(frame_table) \cup {e}
  <2>1. frame_table \in Seq(FrameEntry) /\ IsInjective(frame_table) /\ e \notin Range(frame_table)
    BY <1>3, Types DEF VMInv, TableRight
  <2> QED
    BY <1>1, <2>1, AppendList
<1>5. Live(p)'
  BY <1>0 DEF Live, HasPagedir
<1>6. TableRight'
  <2>1. ASSUME NEW d \in Range(frame_table')
        PROVE  /\ Live(d.owner)' /\ d.aux \in DOMAIN page_table'[d.owner]
               /\ pagedir'[d.owner][page_table'[d.owner][d.aux].uservaddr] = d.frame
               /\ \A g \in Range(frame_table') : g.frame = d.frame => g = d
    <3>1. CASE d = e
      BY <1>0, <1>1, <1>2, <1>4, <1>5, <3>1
    <3>2. CASE d \in Range(frame_table)
      <4>1. \A g \in Range(frame_table) : g.frame = d.frame => g = d
        BY <3>2 DEF VMInv, TableRight
      <4>2. pagedir'[p][page_table'[p][d.aux].uservaddr] = d.frame
        BY <1>0, <1>1, <1>2, <1>3, <3>2
      <4> QED
        BY <1>1, <1>2, <1>4, <1>5, <3>2, <4>1, <4>2
    <3> QED
      BY <1>4, <3>1, <3>2
  <2>2. ASSUME NEW q \in Procs, NEW w \in Upages \ {Top}, pagedir'[q][w] # None
        PROVE  \E d \in Range(frame_table') : d.owner = q /\ d.frame = pagedir'[q][w]
    <3>1. CASE q = p /\ w = u
      BY <1>0, <1>1, <1>4, <3>1
    <3>2. CASE ~(q = p /\ w = u)
      <4>1. pagedir'[q][w] = pagedir[q][w]
        BY <1>0, <3>2
      <4>2. \E d \in Range(frame_table) : d.owner = q /\ d.frame = pagedir[q][w]
        BY <2>2, <4>1 DEF VMInv, TableRight
      <4> QED
        BY <1>4, <4>1, <4>2
    <3> QED
      BY <3>1, <3>2
  <2> QED
    BY <1>4, <2>1, <2>2 DEF TableRight, Entry
<1>7. SlotsRight'
  <2>1. ASSUME NEW q \in Procs, NEW i \in DOMAIN page_table'[q], page_table'[q][i].block_index # -1
        PROVE  /\ i \in DOMAIN page_table[q]
               /\ page_table'[q][i].block_index = page_table[q][i].block_index
    BY <1>1, <2>1
  <2>2. SlotsDistinct
    BY DEF VMInv, SlotsRight
  <2>3. ASSUME NEW q \in Procs, NEW r \in Procs, NEW i \in DOMAIN page_table'[q],
               NEW j \in DOMAIN page_table'[r], page_table'[q][i].block_index # -1
        PROVE  /\ page_table'[q][i].block_index < curr_index
               /\ page_table'[q][i].block_index = page_table'[r][j].block_index => q = r /\ i = j
    BY <2>1, <2>2, <2>3 DEF SlotsDistinct
  <2>4. SlotsDistinct'
    BY <1>0, <2>3 DEF SlotsDistinct
  <2>5. ASSUME NEW q \in Procs, HasPagedir(q)', NEW i \in DOMAIN page_table'[q],
               page_table'[q][i].block_index = -1
        PROVE  \E d \in Range(frame_table') : d.owner = q /\ d.aux = i
    <3>1. q = p
      BY <1>0, <2>5 DEF VMInv, OneLive, HasPagedir, Live
    <3>2. CASE i = e.aux
      BY <1>1, <1>4, <3>1, <3>2
    <3>3. CASE i # e.aux
      <4>1. i \in DOMAIN page_table[p] /\ page_table[p][i].block_index = -1
        BY <1>1, <2>5, <3>1, <3>3
      <4>2. \E d \in Range(frame_table) : d.owner = p /\ d.aux = i
        BY <1>0, <4>1 DEF VMInv, SlotsRight
      <4> QED
        BY <1>4, <3>1, <4>2
    <3> QED
      BY <3>2, <3>3
  <2> QED
    BY <2>4, <2>5 DEF SlotsRight
<1>8. AgesRight'
  <2>0. /\ OldestFirst /\ \A q \in Procs : \A i \in DOMAIN page_table[q] :
                            page_table[q][i].access_time <= ticks
        /\ ticks \in Nat
    BY DEF VMInv, AgesRight, TypeOK
  <2>1. /\ frame_table \in Seq(FrameEntry) /\ Len(frame_table) \in Nat
        /\ DOMAIN frame_table = 1..Len(frame_table)
        /\ DOMAIN frame_table' = 1..(Len(frame_table) + 1)
        /\ \A k \in 1..Len(frame_table) : frame_table'[k] = frame_table[k]
        /\ frame_table'[Len(frame_table) + 1] = e
    <3>1. frame_table \in Seq(FrameEntry)
      BY Types DEF VMInv
    <3> QED
      BY <1>1, <3>1, AppendProperties, LenProperties
  <2>2. ASSUME NEW k \in 1..Len(frame_table)
        PROVE  /\ page_table'[frame_table'[k].owner][frame_table'[k].aux].access_time =
                    page_table[frame_table[k].owner][frame_table[k].aux].access_time
               /\ page_table[frame_table[k].owner][frame_table[k].aux].access_time <= ticks
    <3>1. frame_table[k] \in Range(frame_table)
      BY <2>1 DEF Range
    <3> QED
      BY <1>0, <1>1, <1>2, <1>3, <2>0, <2>1, <3>1
  <2>3. ASSUME NEW i \in DOMAIN frame_table', NEW j \in DOMAIN frame_table', i < j
        PROVE  page_table'[frame_table'[i].owner][frame_table'[i].aux].access_time <=
                 page_table'[frame_table'[j].owner][frame_table'[j].aux].access_time
    <3>1. CASE j = Len(frame_table) + 1
      <4>1. i \in 1..Len(frame_table)
        BY <2>1, <2>3, <3>1
      <4> QED
        BY <1>1, <2>1, <2>2, <3>1, <4>1
    <3>2. CASE j # Len(frame_table) + 1
      <4>1. i \in 1..Len(frame_table) /\ j \in 1..Len(frame_table)
        BY <2>1, <2>3, <3>2
      <4>2. page_table[frame_table[i].owner][frame_table[i].aux].access_time <=
              page_table[frame_table[j].owner][frame_table[j].aux].access_time
        BY <2>0, <2>1, <2>3, <4>1 DEF OldestFirst, Entry
      <4> QED
        BY <2>2, <4>1, <4>2
    <3> QED
      BY <3>1, <3>2
  <2>4. OldestFirst'
    BY <2>3 DEF OldestFirst, Entry
  <2>5. ASSUME NEW q \in Procs, NEW i \in DOMAIN page_table'[q]
        PROVE  page_table'[q][i].access_time <= ticks'
    <3>1. CASE q = p /\ i = e.aux
      BY <1>0, <1>1, <2>0, <3>1
    <3>2. CASE ~(q = p /\ i = e.aux)
      BY <1>0, <1>1, <2>0, <3>2
    <3> QED
      BY <3>1, <3>2
  <2> QED
    BY <2>4, <2>5 DEF AgesRight
<1> QED
  BY <1>6, <1>7, <1>8

\* And so do the contents of the pages, if c is what the process has last put
\* into this one.
LEMMA MapsData ==
  ASSUME VMInv, NEW p, NEW u, NEW f, NEW c, NEW e, MapsPage(p, u, f, c), EntersPage(p, u, f, e),
         \A i : Sole(page_table'[p], u, i) => c = written'[p][u]
  PROVE  DataRight'
<1>0. /\ p \in Procs /\ u \in Upages /\ f \in Frames \ used /\ HasPagedir(p)
      /\ pagedir[p][u] = None /\ f # None
      /\ \A q \in Procs, w \in Upages :
           pagedir'[q][w] = IF q = p /\ w = u THEN f ELSE pagedir[q][w]
      /\ \A q \in Procs : (HasPagedir(q)' <=> HasPagedir(q)) /\ (Live(q)' <=> Live(q))
      /\ \A g \in Frames : data'[g] = IF g = f THEN c ELSE data[g]
      /\ \A q \in Procs, w \in Upages : q # p \/ w # u => written'[q][w] = written[q][w]
      /\ swap' = swap
  BY VMAssumption DEF MapsPage
<1>1. /\ \A i \in DOMAIN page_table[p] :
           /\ i \in DOMAIN page_table'[p]
           /\ page_table'[p][i].uservaddr = page_table[p][i].uservaddr
           /\ page_table'[p][i].block_index = page_table[p][i].block_index
      /\ \A i \in DOMAIN page_table'[p] : i \in DOMAIN page_table[p] \/ i = e.aux
      /\ page_table'[p][e.aux].uservaddr = u
  BY DEF EntersPage
<1>2. ASSUME NEW q \in Procs, HasPagedir(q)', NEW w \in Upages, NEW i \in DOMAIN page_table'[q],
             Sole(page_table'[q], w, i)
      PROVE  \/ pagedir'[q][w] # None /\ data'[pagedir'[q][w]] = written'[q][w]
             \/ /\ pagedir'[q][w] = None
                /\ page_table'[q][i].block_index # -1
                /\ swap'[page_table'[q][i].block_index] = written'[q][w]
  <2>1. q = p
    BY <1>0, <1>2 DEF VMInv, OneLive, HasPagedir, Live
  <2>2. CASE w = u
    BY <1>0, <1>2, <2>1, <2>2
  <2>3. CASE w # u
    <3>1. i \in DOMAIN page_table[p] /\ Sole(page_table[p], w, i)
      BY <1>1, <1>2, <2>1, <2>3 DEF Sole
    <3>2. \/ pagedir[p][w] # None /\ data[pagedir[p][w]] = written[p][w]
          \/ /\ pagedir[p][w] = None
             /\ page_table[p][i].block_index # -1
             /\ swap[page_table[p][i].block_index] = written[p][w]
      BY <1>0, <3>1 DEF VMInv, DataRight
    <3>3. pagedir'[p][w] = pagedir[p][w] /\ written'[p][w] = written[p][w]
      BY <1>0, <2>3
    <3>4. pagedir[p][w] # None => pagedir[p][w] # f /\ pagedir[p][w] \in Frames
      BY <1>0, MappedUsed
    <3> QED
      BY <1>0, <1>1, <2>1, <3>1, <3>2, <3>3, <3>4
  <2> QED
    BY <2>2, <2>3
<1> QED
  BY <1>2 DEF DataRight

\* sup_page_table_insert() and frame_table_insert().
LEMMA NewEntryEnters ==
  ASSUME VMInv, NEW p \in Procs, NEW u \in Upages, NEW f \in Frames, NewEntry(p, u, f)
  PROVE  /\ page_table' \in [Procs -> Seq(PageEntry)] /\ frame_table' \in Seq(FrameEntry)
         /\ EntersPage(p, u, f, [frame |-> f, owner |-> p, aux |-> Len(page_table[p]) + 1])
         /\ \A i \in DOMAIN page_table'[p] :
              i \in DOMAIN page_table[p] \/ page_table'[p][i].uservaddr = u
<1>n. PICK n : n = Len(page_table[p])
  OBVIOUS
<1>e. PICK e : e = [frame |-> f, owner |-> p, aux |-> n + 1]
  OBVIOUS
<1>r. PICK r : r = [uservaddr |-> u, access_time |-> ticks, block_index |-> -1]
  OBVIOUS
<1>0. /\ page_table' = [page_table EXCEPT ![p] = Append(page_table[p], r)]
      /\ frame_table' = Append(frame_table, e)
  BY <1>n, <1>e, <1>r DEF NewEntry
<1>1. /\ page_table \in [Procs -> Seq(PageEntry)] /\ page_table[p] \in Seq(PageEntry)
      /\ frame_table \in Seq(FrameEntry)
  BY Types DEF VMInv
<1>2. r \in PageEntry /\ r.uservaddr = u /\ r.access_time = ticks /\ r.block_index = -1
  <2>1. ticks \in 0..MaxTicks /\ -1 \in -1..(Slots - 1)
    BY VMAssumption DEF VMInv, TypeOK
  <2> QED
    BY <1>r, <2>1 DEF PageEntry
<1>3. /\ n \in Nat /\ DOMAIN page_table[p] = 1..n
      /\ Append(page_table[p], r) \in Seq(PageEntry)
      /\ DOMAIN Append(page_table[p], r) = 1..(n + 1)
      /\ \A i \in 1..n : Append(page_table[p], r)[i] = page_table[p][i]
      /\ Append(page_table[p], r)[n + 1] = r
  BY <1>n, <1>1, <1>2, AppendProperties, LenProperties
<1>4. e \in FrameEntry /\ e.owner = p /\ e.frame = f /\ e.aux = n + 1
  BY <1>e, <1>3 DEF FrameEntry
<1>5. /\ page_table' \in [Procs -> Seq(PageEntry)] /\ frame_table' \in Seq(FrameEntry)
      /\ page_table'[p] = Append(page_table[p], r)
      /\ \A q \in Procs : q # p => page_table'[q] = page_table[q]
  BY <1>0, <1>1, <1>3, <1>4, AppendProperties
<1>6. /\ \A i \in DOMAIN page_table[p] : /\ i \in DOMAIN page_table'[p]
                                         /\ page_table'[p][i] = page_table[p][i]
      /\ \A i \in DOMAIN page_table'[p] : i \in DOMAIN page_table[p] \/ i = n + 1
      /\ n + 1 \in DOMAIN page_table'[p] /\ page_table'[p][n + 1] = r
  BY <1>3, <1>5
<1>7. EntersPage(p, u, f, e)
  BY <1>0, <1>2, <1>4, <1>5, <1>6 DEF EntersPage
<1> QED
  BY <1>n, <1>e, <1>2, <1>5, <1>6, <1>7

\* A page that has been in the page table before, at i.
LEMMA RefreshEnters ==
  ASSUME VMInv, NEW p \in Procs, NEW u \in Upages, NEW f \in Frames,
         NEW i \in DOMAIN page_table[p], page_table[p][i].uservaddr = u, Refresh(p, i),
         frame_table' = Append(frame_table, [frame |-> f, owner |-> p, aux |-> i])
  PROVE  /\ page_table' \in [Procs -> Seq(PageEntry)] /\ frame_table' \in Seq(FrameEntry)
         /\ EntersPage(p, u, f, [frame |-> f, owner |-> p, aux |-> i])
         /\ \A j : Sole(page_table'[p], u, j) => j = i /\ Sole(page_table[p], u, i)
<1>e. PICK e : e = [frame |-> f, owner |-> p, aux |-> i]
  OBVIOUS
<1>t. PICK t : t = page_table[p]
  OBVIOUS
<1>r. PICK r : r = [t[i] EXCEPT !.access_time = ticks]
  OBVIOUS
<1>1. /\ page_table \in [Procs -> Seq(PageEntry)] /\ t \in Seq(PageEntry)
      /\ frame_table \in Seq(FrameEntry) /\ t[i] \in PageEntry
  BY <1>t, Types DEF VMInv
<1>2. DOMAIN t = 1..Len(t) /\ Len(t) \in Nat /\ i \in 1..Len(t) /\ i \in Nat \ {0}
  BY <1>t, <1>1, LenProperties
<1>3. page_table' = [page_table EXCEPT ![p] = [t EXCEPT ![i] = r]] /\ frame_table' = Append(frame_table, e)
  BY <1>e, <1>t, <1>r DEF Refresh
<1>4. /\ r \in PageEntry /\ r.uservaddr = t[i].uservaddr /\ r.access_time = ticks
      /\ r.block_index = t[i].block_index
  <2>1. ticks \in 0..MaxTicks
    BY DEF VMInv, TypeOK
  <2> QED
    BY <1>r, <1>1, <2>1 DEF PageEntry
<1>5. [t EXCEPT ![i] = r] \in Seq(PageEntry)
  BY <1>1, <1>2, <1>3, <1>4, ExceptSeq
<1>6. e \in FrameEntry /\ e.owner = p /\ e.frame = f /\ e.aux = i
  BY <1>e, <1>2 DEF FrameEntry
<1>7. /\ page_table' \in [Procs -> Seq(PageEntry)] /\ frame_table' \in Seq(FrameEntry)
      /\ page_table'[p] = [t EXCEPT ![i] = r]
      /\ \A q \in Procs : q # p => page_table'[q] = page_table[q]
  BY <1>1, <1>3, <1>5, <1>6, AppendProperties
<1>8. /\ DOMAIN page_table'[p] = DOMAIN t /\ page_table'[p][i] = r
      /\ \A j \in DOMAIN t : j # i => page_table'[p][j] = t[j]
  BY <1>7, <1>2
<1>9. EntersPage(p, u, f, e)
  BY <1>t, <1>3, <1>4, <1>6, <1>7, <1>8 DEF EntersPage
<1>10. \A j : Sole(page_table'[p], u, j) => j = i /\ Sole(t, u, i)
  BY <1>t, <1>4, <1>8 DEF Sole
<1> QED
  BY <1>e, <1>t, <1>7, <1>9, <1>10

\* load_segment().
LEMMA LoadSegmentInv ==
  ASSUME VMInv, NEW p \in Procs, NEW u \in Image, NEW f \in Frames, LoadSegment(p, u, f)
  PROVE  VMInv'
<1>0. /\ pc[p] = "load" /\ HasPagedir(p) /\ panic = "no" /\ u \in todo[p] /\ f \in Free
      /\ InstallPage(p, u, f, "image") /\ NewEntry(p, u, f)
      /\ readonly' = [readonly EXCEPT ![p] = IF u \in ReadOnly THEN @ \cup {u} ELSE @]
      /\ todo' = [todo EXCEPT ![p] = todo[p] \ {u}]
      /\ Goes(p, IF todo'[p] = {} THEN "stack" ELSE "load")
      /\ tried' = [tried EXCEPT ![p] = "no"]
      /\ written' = [written EXCEPT ![p] = [written[p] EXCEPT ![u] = "image"]]
      /\ UNCHANGED <<need, swap, curr_index, exception_lock, swap_IO_lock, ticks, panic, copies>>
      /\ u \in Upages /\ "image" \in Contents
  BY DEF LoadSegment, At, HasPagedir, lockVars, Upages, Contents
<1>e. PICK e : e = [frame |-> f, owner |-> p, aux |-> Len(page_table[p]) + 1]
  OBVIOUS
<1>1. /\ TypeOK /\ written \in [Procs -> [Upages -> Contents]] /\ StepsRight
      /\ todo \in [Procs -> SUBSET Image]
  BY DEF VMInv, TypeOK
<1>x. PICK x : x = IF todo'[p] = {} THEN "stack" ELSE "load"
  OBVIOUS
<1>2. /\ pc' \in [Procs -> Points] /\ pc'[p] = x /\ x \in {"stack", "load"}
      /\ \A q \in Procs : q # p => pc'[q] = pc[q] /\ pc[q] = "none"
      /\ \A q \in Procs : (HasPagedir(q)' <=> HasPagedir(q)) /\ (Live(q)' <=> Live(q))
  <2>1. x \in Points \ {"none", "forget"} /\ Goes(p, x)
    BY <1>0, <1>x DEF Points
  <2> QED
    BY <1>0, <1>x, <2>1, Moves
<1>3. /\ f \in Frames \ used
      /\ \A q \in Procs, w \in Upages :
           pagedir'[q][w] = IF q = p /\ w = u THEN f ELSE pagedir[q][w]
      /\ used' = used \cup {f}
      /\ \A g \in Frames : data'[g] = IF g = f THEN "image" ELSE data[g]
      /\ pagedir' \in [Procs -> [Upages -> Frames \cup {None}]]
      /\ data' \in [Frames -> Contents] /\ used' \subseteq Frames
  BY <1>0, Installs
<1>4. /\ page_table' \in [Procs -> Seq(PageEntry)] /\ frame_table' \in Seq(FrameEntry)
      /\ EntersPage(p, u, f, e)
      /\ \A i \in DOMAIN page_table'[p] :
           i \in DOMAIN page_table[p] \/ page_table'[p][i].uservaddr = u
  BY <1>0, <1>e, NewEntryEnters
<1>5. /\ written' \in [Procs -> [Upages -> Contents]] /\ written'[p][u] = "image"
      /\ \A q \in Procs, w \in Upages : q # p \/ w # u => written'[q][w] = written[q][w]
  BY <1>0, <1>1
<1>6. pagedir[p][u] = None
  BY <1>0, <1>1 DEF StepsRight
<1>7. MapsPage(p, u, f, "image")
  BY <1>0, <1>2, <1>3, <1>5, <1>6 DEF MapsPage
<1>8. TypeOK'
  <2>1. todo' \in [Procs -> SUBSET Image] /\ tried' \in [Procs -> {"no", "done", "failed"}]
        /\ readonly' \in [Procs -> SUBSET ReadOnly]
    BY <1>0, <1>1 DEF TypeOK
  <2> QED
    BY <1>0, <1>1, <1>2, <1>3, <1>4, <1>5, <2>1 DEF TypeOK, PageEntry, FrameEntry
<1>9. StepsRight'
  <2>1. todo'[p] = todo[p] \ {u}
    BY <1>0, <1>1
  <2>2. \A w \in Upages : pagedir'[p][w] # None => w \in Image \ todo'[p]
    BY <1>0, <1>1, <1>3, <2>1 DEF StepsRight
  <2>3. \A i \in DOMAIN page_table'[p] : page_table'[p][i].uservaddr \in Image \ todo'[p]
    <3> TAKE i \in DOMAIN page_table'[p]
    <3>1. CASE i \in DOMAIN page_table[p]
      <4>1. page_table'[p][i].uservaddr = page_table[p][i].uservaddr
        BY <1>4, <3>1 DEF EntersPage
      <4> QED
        BY <1>0, <1>1, <2>1, <3>1, <4>1 DEF StepsRight
    <3>2. CASE page_table'[p][i].uservaddr = u
      BY <2>1, <3>2
    <3> QED
      BY <1>4, <3>1, <3>2
  <2> QED
    BY <1>2, <2>2, <2>3 DEF StepsRight
<1>10. FreesRight'
  BY <1>0 DEF FreesRight
<1> QED
  BY <1>4, <1>5, <1>7, <1>8, <1>9, <1>10, MapsFrames, MapsTables, MapsData DEF VMInv

\* page_fault() and SYS_READ, once the page has its frame.
LEMMA GrowsInv ==
  ASSUME VMInv, NEW p \in Procs, NEW u \in Upages, NEW f \in Free, NEW c \in Contents, NEW e,
         HasPagedir(p), pagedir[p][u] = None, InstallPage(p, u, f, c), EntersPage(p, u, f, e),
         page_table' \in [Procs -> Seq(PageEntry)], frame_table' \in Seq(FrameEntry),
         readonly' = [readonly EXCEPT ![p] = @ \ {u}], Goes(p, "user"),
         tried' \in [Procs -> {"no", "done", "failed"}], exception_lock' \in {0, 1},
         written' \in [Procs -> [Upages -> Contents]],
         \A q \in Procs, w \in Upages : q # p \/ w # u => written'[q][w] = written[q][w],
         \A i : Sole(page_table'[p], u, i) => c = written'[p][u],
         UNCHANGED <<need, todo, swap, curr_index, swap_IO_lock, ticks, panic, copies>>
  PROVE  VMInv'
<1>0. TypeOK /\ FreesRight
  BY DEF VMInv
<1>1. "user" \in Points \ {"none", "forget"}
  BY DEF Points
<1>2. /\ pc' \in [Procs -> Points] /\ pc'[p] = "user"
      /\ \A q \in Procs : q # p => pc'[q] = pc[q] /\ pc[q] = "none"
      /\ \A q \in Procs : (HasPagedir(q)' <=> HasPagedir(q)) /\ (Live(q)' <=> Live(q))
  BY <1>1, Moves
<1>3. /\ f \in Frames \ used
      /\ \A q \in Procs, w \in Upages :
           pagedir'[q][w] = IF q = p /\ w = u THEN f ELSE pagedir[q][w]
      /\ used' = used \cup {f}
      /\ \A g \in Frames : data'[g] = IF g = f THEN c ELSE data[g]
      /\ pagedir' \in [Procs -> [Upages -> Frames \cup {None}]]
      /\ data' \in [Frames -> Contents] /\ used' \subseteq Frames
  BY Installs
<1>4. MapsPage(p, u, f, c)
  BY <1>2, <1>3 DEF MapsPage
<1>5. TypeOK'
  <2>1. readonly' \in [Procs -> SUBSET ReadOnly]
    BY <1>0 DEF TypeOK
  <2> QED
    BY <1>0, <1>2, <1>3, <2>1 DEF TypeOK, PageEntry, FrameEntry
<1>6. StepsRight'
  BY <1>2 DEF StepsRight
<1>7. FreesRight'
  BY <1>0 DEF FreesRight
<1> QED
  BY <1>4, <1>5, <1>6, <1>7, MapsFrames, MapsTables, MapsData DEF VMInv

\* page_fault() for a page that is new.
LEMMA FaultNewInv ==
  ASSUME VMInv, NEW p \in Procs, NEW f \in Frames, FaultNew(p, f)
  PROVE  VMInv'
<1>u. PICK u : u = need[p]
  OBVIOUS
<1>e. PICK e : e = [frame |-> f, owner |-> p, aux |-> Len(page_table[p]) + 1]
  OBVIOUS
<1>0. /\ pc[p] = "fault" /\ HasPagedir(p) /\ f \in Free /\ NewEntry(p, u, f)
      /\ InstallPage(p, u, f, "zero") /\ readonly' = [readonly EXCEPT ![p] = @ \ {u}]
      /\ exception_lock' = exception_lock + 1 /\ Goes(p, "user")
      /\ tried' = [tried EXCEPT ![p] = "no"]
      /\ written' = [written EXCEPT ![p] = [written[p] EXCEPT ![u] = "zero"]]
      /\ UNCHANGED <<need, todo, swap, curr_index, swap_IO_lock, ticks, panic, copies>>
      /\ "zero" \in Contents
  BY <1>u DEF FaultNew, FaultEnds, At, HasPagedir, ExceptionUp, Contents
<1>1. /\ u \in Upages /\ pagedir[p][u] = None /\ exception_lock = 0
      /\ tried \in [Procs -> {"no", "done", "failed"}]
      /\ written \in [Procs -> [Upages -> Contents]]
  BY <1>u, <1>0 DEF VMInv, TypeOK, StepsRight
<1>2. /\ exception_lock' \in {0, 1} /\ tried' \in [Procs -> {"no", "done", "failed"}]
      /\ written' \in [Procs -> [Upages -> Contents]] /\ written'[p][u] = "zero"
      /\ \A q \in Procs, w \in Upages : q # p \/ w # u => written'[q][w] = written[q][w]
  BY <1>0, <1>1
<1>3. /\ page_table' \in [Procs -> Seq(PageEntry)] /\ frame_table' \in Seq(FrameEntry)
      /\ EntersPage(p, u, f, e)
  BY <1>0, <1>1, <1>e, NewEntryEnters
<1> QED
  BY <1>0, <1>1, <1>2, <1>3, GrowsInv, ZenonT(30)

\* SYS_READ into a stack page.
LEMMA ReadGrowsInv ==
  ASSUME VMInv, NEW p \in Procs, NEW u \in StackPages, NEW v \in Values, ReadGrows(p, u, v)
  PROVE  VMInv'
<1>1. CASE Panics("buffer")
  BY <1>1, PanicInv
<1>2. CASE ~Panics("buffer")
  <2>1. PICK f \in Free :
          /\ InstallPage(p, u, f, v)
          /\ readonly' = [readonly EXCEPT ![p] = @ \ {u}]
          /\ NewEntry(p, u, f)
          /\ written' = [written EXCEPT ![p] = [written[p] EXCEPT ![u] = v]]
          /\ UNCHANGED <<procVars, swap, curr_index, lockVars, ticks, panic, copies>>
    BY <1>2 DEF ReadGrows
  <2>e. PICK e : e = [frame |-> f, owner |-> p, aux |-> Len(page_table[p]) + 1]
    OBVIOUS
  <2>2. /\ UNCHANGED <<pc, need, tried, todo, swap, curr_index, exception_lock, swap_IO_lock>>
        /\ UNCHANGED <<ticks, panic, copies>>
    BY <2>1 DEF procVars, lockVars
  <2>3. /\ pc[p] = "user" /\ HasPagedir(p) /\ pagedir[p][u] = None
        /\ u \in Upages /\ v \in Contents /\ f \in Frames
    BY VMAssumption DEF ReadGrows, At, HasPagedir, Upages, Contents, Free
  <2>4. /\ pc \in [Procs -> Points] /\ tried \in [Procs -> {"no", "done", "failed"}]
        /\ exception_lock \in {0, 1} /\ written \in [Procs -> [Upages -> Contents]]
    BY DEF VMInv, TypeOK
  <2>5. Goes(p, "user")
    BY <2>2, <2>3, <2>4 DEF Goes
  <2>6. /\ written' \in [Procs -> [Upages -> Contents]] /\ written'[p][u] = v
        /\ \A q \in Procs, w \in Upages : q # p \/ w # u => written'[q][w] = written[q][w]
    BY <2>1, <2>3, <2>4
  <2>7. /\ page_table' \in [Procs -> Seq(PageEntry)] /\ frame_table' \in Seq(FrameEntry)
        /\ EntersPage(p, u, f, e)
    BY <2>1, <2>3, <2>e, NewEntryEnters
  <2> QED
    BY <2>1, <2>2, <2>3, <2>4, <2>5, <2>6, <2>7, GrowsInv, ZenonT(30)
<1> QED
  BY <1>1, <1>2

\* The entry that page_fault() finds.
LEMMA FoundEntry ==
  ASSUME VMInv, NEW p \in Procs, NEW u
  PROVE  /\ Found(p, u) # 0 => /\ Found(p, u) \in DOMAIN page_table[p]
                               /\ page_table[p][Found(p, u)].uservaddr = u
         /\ \A i : Sole(page_table[p], u, i) => Found(p, u) = i
<1> DEFINE D == {i \in DOMAIN page_table[p] : page_table[p][i].uservaddr = u}
<1>1. /\ D \in SUBSET Int /\ Len(page_table[p]) \in Int /\ \A i \in D : i <= Len(page_table[p])
  <2>1. page_table[p] \in Seq(PageEntry)
    BY Types DEF VMInv
  <2> QED
    BY <2>1, LenProperties
<1>2. Found(p, u) = IF D = {} THEN 0 ELSE CHOOSE i \in D : \A j \in D : j <= i
  BY DEF Found
<1>3. ASSUME D # {} PROVE Found(p, u) \in D
  <2>1. Max(D) \in D /\ \A j \in D : j <= Max(D)
    BY <1>1, <1>3, MaxBounded
  <2>2. \E i \in D : \A j \in D : j <= i
    BY <2>1
  <2> QED
    BY <1>2, <1>3, <2>2
<1>4. ASSUME NEW i, Sole(page_table[p], u, i) PROVE Found(p, u) = i
  <2>1. D = {i}
    BY <1>4 DEF Sole
  <2> QED
    BY <1>3, <2>1
<1>5. Found(p, u) # 0 => Found(p, u) \in D
  BY <1>2, <1>3
<1> QED
  BY <1>4, <1>5

\* A page that is not mapped has its slot.
LEMMA UnmappedHasSlot ==
  ASSUME VMInv, NEW p \in Procs, HasPagedir(p), NEW i \in DOMAIN page_table[p],
         pagedir[p][page_table[p][i].uservaddr] = None
  PROVE  page_table[p][i].block_index \in 0..(Slots - 1)
<1>1. page_table[p][i].block_index # -1
  <2> SUFFICES ASSUME page_table[p][i].block_index = -1 PROVE FALSE
    OBVIOUS
  <2>1. PICK e \in Range(frame_table) : e.owner = p /\ e.aux = i
    BY DEF VMInv, SlotsRight
  <2> QED
    BY <2>1, EntryMapped
<1>2. page_table[p][i].block_index \in -1..(Slots - 1) /\ Slots \in Nat
  BY Types, VMAssumption DEF VMInv
<1> QED
  BY <1>1, <1>2

\* page_fault() for a page that has been evicted.
LEMMA FaultBackInv ==
  ASSUME VMInv, NEW p \in Procs, NEW f \in Frames, FaultBack(p, f)
  PROVE  VMInv'
<1>u. PICK u : u = need[p]
  OBVIOUS
<1>i. PICK i : i = Found(p, u)
  OBVIOUS
<1>s. PICK slot : slot = page_table[p][i].block_index
  OBVIOUS
<1>e. PICK e : e = [frame |-> f, owner |-> p, aux |-> i]
  OBVIOUS
<1>1. /\ pc[p] = "fault" /\ HasPagedir(p) /\ f \in Free /\ i # 0
  BY <1>u, <1>i DEF FaultBack, At, HasPagedir
<1>2. /\ u \in Upages /\ pagedir[p][u] = None /\ exception_lock = 0
      /\ tried \in [Procs -> {"no", "done", "failed"}]
      /\ written \in [Procs -> [Upages -> Contents]]
      /\ swap \in [0..(Slots - 1) -> Contents]
  BY <1>u, <1>1 DEF VMInv, TypeOK, StepsRight
<1>3. i \in DOMAIN page_table[p] /\ page_table[p][i].uservaddr = u
  BY <1>i, <1>1, FoundEntry
<1>4. slot \in 0..(Slots - 1) /\ slot # -1
  BY <1>s, <1>1, <1>2, <1>3, UnmappedHasSlot
<1>5. CASE Panics("lock")
  BY <1>5, PanicInv
<1>6. CASE ~Panics("lock")
  <2>1. /\ Refresh(p, i) /\ frame_table' = Append(frame_table, e)
        /\ FaultEnds(p, f, swap[slot]) /\ written' = written
    BY <1>u, <1>i, <1>s, <1>e, <1>4, <1>6 DEF FaultBack, LoadFrame
  <2>2. /\ InstallPage(p, u, f, swap[slot]) /\ readonly' = [readonly EXCEPT ![p] = @ \ {u}]
        /\ exception_lock' = exception_lock + 1 /\ Goes(p, "user")
        /\ tried' = [tried EXCEPT ![p] = "no"]
        /\ UNCHANGED <<need, todo, swap, curr_index, swap_IO_lock, ticks, panic, copies>>
    BY <1>u, <2>1 DEF FaultEnds, ExceptionUp
  <2>3. /\ exception_lock' \in {0, 1} /\ tried' \in [Procs -> {"no", "done", "failed"}]
        /\ written' \in [Procs -> [Upages -> Contents]] /\ swap[slot] \in Contents
        /\ \A q \in Procs, w \in Upages : q # p \/ w # u => written'[q][w] = written[q][w]
    BY <1>2, <1>4, <2>1, <2>2
  <2>4. /\ page_table' \in [Procs -> Seq(PageEntry)] /\ frame_table' \in Seq(FrameEntry)
        /\ EntersPage(p, u, f, e)
        /\ \A j : Sole(page_table'[p], u, j) => j = i /\ Sole(page_table[p], u, i)
    BY <1>e, <1>2, <1>3, <2>1, RefreshEnters
  <2>5. Sole(page_table[p], u, i) => swap[slot] = written[p][u]
    BY <1>s, <1>1, <1>2, <1>3 DEF VMInv, DataRight
  <2>6. \A j : Sole(page_table'[p], u, j) => swap[slot] = written'[p][u]
    BY <2>1, <2>4, <2>5
  <2>c. PICK c : c = swap[slot]
    OBVIOUS
  <2> QED
    BY <1>1, <1>2, <2>2, <2>3, <2>4, <2>6, <2>c, GrowsInv
<1> QED
  BY <1>5, <1>6

\* setup_stack() maps a page that is in neither table.
LEMMA SetupStackInv ==
  ASSUME VMInv, NEW p \in Procs, NEW f \in Frames, SetupStack(p, f)
  PROVE  VMInv'
<1>0. /\ pc[p] = "stack" /\ HasPagedir(p) /\ panic = "no" /\ f \in Free
      /\ InstallPage(p, Top, f, "zero") /\ Goes(p, "args")
      /\ tried' = [tried EXCEPT ![p] = "no"]
      /\ written' = [written EXCEPT ![p] = [written[p] EXCEPT ![Top] = "zero"]]
      /\ UNCHANGED <<need, todo, readonly, page_table, frame_table, swap, curr_index>>
      /\ UNCHANGED <<exception_lock, swap_IO_lock, ticks, panic, copies>>
      /\ Top \in Upages /\ "zero" \in Contents /\ "args" \in Points \ {"none", "forget"}
      /\ Top \notin Image
  BY VMAssumption DEF SetupStack, At, HasPagedir, tableVars, lockVars, Upages, Contents, Points
<1>1. /\ TypeOK /\ written \in [Procs -> [Upages -> Contents]]
      /\ tried \in [Procs -> {"no", "done", "failed"}]
      /\ \A w \in Upages : pagedir[p][w] # None => w \in Image
      /\ \A i \in DOMAIN page_table[p] : page_table[p][i].uservaddr \in Image
  BY <1>0 DEF VMInv, TypeOK, StepsRight
<1>2. /\ pc' \in [Procs -> Points] /\ pc'[p] = "args"
      /\ \A q \in Procs : q # p => pc'[q] = pc[q] /\ pc[q] = "none"
      /\ \A q \in Procs : (HasPagedir(q)' <=> HasPagedir(q)) /\ (Live(q)' <=> Live(q))
  BY <1>0, Moves
<1>3. /\ f \in Frames \ used
      /\ \A q \in Procs, w \in Upages :
           pagedir'[q][w] = IF q = p /\ w = Top THEN f ELSE pagedir[q][w]
      /\ used' = used \cup {f}
      /\ \A g \in Frames : data'[g] = IF g = f THEN "zero" ELSE data[g]
      /\ pagedir' \in [Procs -> [Upages -> Frames \cup {None}]]
      /\ data' \in [Frames -> Contents] /\ used' \subseteq Frames
  BY <1>0, Installs
<1>4. /\ written' \in [Procs -> [Upages -> Contents]]
      /\ \A q \in Procs, w \in Upages : q # p \/ w # Top => written'[q][w] = written[q][w]
  BY <1>0, <1>1
<1>5. MapsPage(p, Top, f, "zero")
  BY <1>0, <1>1, <1>2, <1>3, <1>4 DEF MapsPage
<1>6. TypeOK'
  BY <1>0, <1>1, <1>2, <1>3, <1>4 DEF TypeOK
<1>7. StepsRight' /\ FreesRight'
  BY <1>0, <1>2 DEF StepsRight, FreesRight
<1>8. TableRight'
  <2>1. ASSUME NEW d \in Range(frame_table)
        PROVE  /\ Live(d.owner)' /\ d.aux \in DOMAIN page_table'[d.owner]
               /\ pagedir'[d.owner][page_table'[d.owner][d.aux].uservaddr] = d.frame
    <3>1. /\ d.owner = p /\ d.aux \in DOMAIN page_table[p]
          /\ pagedir[p][page_table[p][d.aux].uservaddr] = d.frame
          /\ page_table[p][d.aux].uservaddr \in Upages
      BY <1>0, EntryMapped
    <3>2. page_table[p][d.aux].uservaddr # Top /\ Live(p)'
      BY <1>0, <1>1, <1>2, <3>1 DEF Live
    <3> QED
      BY <1>0, <1>3, <3>1, <3>2
  <2>2. /\ IsInjective(frame_table)
        /\ \A d, g \in Range(frame_table) : g.frame = d.frame => g = d
        /\ \A q \in Procs, w \in Upages \ {Top} : pagedir[q][w] # None =>
             \E d \in Range(frame_table) : d.owner = q /\ d.frame = pagedir[q][w]
    BY DEF VMInv, TableRight
  <2>3. \A q \in Procs, w \in Upages \ {Top} : pagedir'[q][w] = pagedir[q][w]
    BY <1>3
  <2> QED
    BY <1>0, <2>1, <2>2, <2>3 DEF TableRight, Entry
<1>9. SlotsRight'
  BY <1>0, <1>2 DEF VMInv, SlotsRight, SlotsDistinct
<1>10. DataRight'
  <2>1. ASSUME NEW q \in Procs, HasPagedir(q)', NEW w \in Upages, NEW i \in DOMAIN page_table[q],
               Sole(page_table[q], w, i)
        PROVE  \/ pagedir'[q][w] # None /\ data'[pagedir'[q][w]] = written'[q][w]
               \/ /\ pagedir'[q][w] = None
                  /\ page_table[q][i].block_index # -1
                  /\ swap[page_table[q][i].block_index] = written'[q][w]
    <3>1. q = p
      BY <1>0, <1>2, <2>1 DEF HasPagedir
    <3>2. w # Top
      BY <1>0, <1>1, <2>1, <3>1 DEF Sole
    <3>3. pagedir'[p][w] = pagedir[p][w] /\ written'[p][w] = written[p][w]
      BY <1>3, <1>4, <3>2
    <3>4. pagedir[p][w] # None => pagedir[p][w] # f /\ pagedir[p][w] \in Frames
      BY <1>3, MappedUsed
    <3>5. \/ pagedir[p][w] # None /\ data[pagedir[p][w]] = written[p][w]
          \/ /\ pagedir[p][w] = None
             /\ page_table[p][i].block_index # -1
             /\ swap[page_table[p][i].block_index] = written[p][w]
      BY <1>0, <2>1, <3>1 DEF VMInv, DataRight
    <3> QED
      BY <1>3, <3>1, <3>3, <3>4, <3>5
  <2> QED
    BY <1>0, <2>1 DEF DataRight
<1>11. AgesRight'
  BY <1>0 DEF VMInv, AgesRight, OldestFirst, Entry
<1> QED
  BY <1>5, <1>6, <1>7, <1>8, <1>9, <1>10, <1>11, MapsFrames DEF VMInv

\* The copy of the command line, and a write of the process.
LEMMA DataStep ==
  ASSUME VMInv, UNCHANGED <<pagedir, tableVars, swap, curr_index, ticks>>,
         \A q \in Procs : (HasPagedir(q)' <=> HasPagedir(q)) /\ (Live(q)' <=> Live(q)),
         \A q \in Procs, w \in Upages : pagedir[q][w] # None =>
           \/ data'[pagedir[q][w]] = data[pagedir[q][w]] /\ written'[q][w] = written[q][w]
           \/ data'[pagedir[q][w]] = written'[q][w],
         \A q \in Procs, w \in Upages : pagedir[q][w] = None => written'[q][w] = written[q][w]
  PROVE  OneLive' /\ TableRight' /\ SlotsRight' /\ DataRight' /\ AgesRight'
<1>1. /\ pagedir' = pagedir /\ page_table' = page_table /\ frame_table' = frame_table
      /\ swap' = swap /\ curr_index' = curr_index /\ ticks' = ticks
  BY DEF tableVars
<1>2. OneLive'
  BY DEF VMInv, OneLive
<1>3. \A e \in Range(frame_table) : Entry(e)' = Entry(e) /\ e.owner \in Procs
  BY <1>1, Types DEF Entry, VMInv
<1>4. TableRight'
  BY <1>1, <1>3 DEF VMInv, TableRight
<1>5. SlotsRight'
  BY <1>1 DEF VMInv, SlotsRight, SlotsDistinct
<1>6. AgesRight'
  BY <1>1 DEF VMInv, AgesRight, OldestFirst, Entry
<1>7. ASSUME NEW q \in Procs, HasPagedir(q), NEW w \in Upages, NEW i \in DOMAIN page_table[q],
             Sole(page_table[q], w, i)
      PROVE  \/ pagedir[q][w] # None /\ data'[pagedir[q][w]] = written'[q][w]
             \/ /\ pagedir[q][w] = None
                /\ page_table[q][i].block_index # -1
                /\ swap[page_table[q][i].block_index] = written'[q][w]
  BY <1>7 DEF VMInv, DataRight
<1>8. DataRight'
  BY <1>1, <1>7 DEF DataRight
<1> QED
  BY <1>2, <1>4, <1>5, <1>6, <1>8

\* setup_stack() takes a frame for its copy.
LEMMA CopyArgsInv ==
  ASSUME VMInv, NEW p \in Procs, NEW f \in Frames, CopyArgs(p, f)
  PROVE  VMInv'
<1>0. /\ pc[p] = "args" /\ HasPagedir(p) /\ panic = "no" /\ f \in Frames \ used
      /\ used' = used \cup {f} /\ data' = [data EXCEPT ![f] = "junk"]
      /\ copies' = copies \cup {f} /\ Goes(p, "user")
      /\ tried' = [tried EXCEPT ![p] = "no"]
      /\ UNCHANGED <<need, todo, pagedir, readonly, page_table, frame_table, swap, curr_index>>
      /\ UNCHANGED <<exception_lock, swap_IO_lock, ticks, panic, written>>
      /\ "junk" \in Contents /\ "user" \in Points \ {"none", "forget"}
  BY DEF CopyArgs, At, HasPagedir, Free, mapVars, tableVars, lockVars, Contents, Points
<1>1. TypeOK
  BY DEF VMInv
<1>2. /\ pc' \in [Procs -> Points] /\ pc'[p] = "user"
      /\ \A q \in Procs : q # p => pc'[q] = pc[q] /\ pc[q] = "none"
      /\ \A q \in Procs : (HasPagedir(q)' <=> HasPagedir(q)) /\ (Live(q)' <=> Live(q))
  BY <1>0, Moves
<1>3. TypeOK'
  BY <1>0, <1>1, <1>2 DEF TypeOK
<1>4. StepsRight' /\ FreesRight'
  BY <1>0, <1>2 DEF StepsRight, FreesRight
<1>5. \A q \in Procs, w \in Upages : pagedir[q][w] # f
  BY <1>0, MappedUsed, VMAssumption
<1>6. FramesMapped'
  <2>1. \A q \in Procs : Mapped(q)' = Mapped(q)
    BY <1>0 DEF Mapped
  <2>2. used' = copies' \cup UNION {Mapped(q)' : q \in Procs}
    BY <1>0, <2>1 DEF VMInv, FramesMapped
  <2> QED
    BY <1>0, <1>2, <1>5, <2>2 DEF VMInv, FramesMapped
<1>7. OneLive' /\ TableRight' /\ SlotsRight' /\ DataRight' /\ AgesRight'
  <2>1. \A q \in Procs, w \in Upages : pagedir[q][w] # None =>
          data'[pagedir[q][w]] = data[pagedir[q][w]]
    BY <1>0, <1>1, <1>5 DEF TypeOK
  <2> QED
    BY <1>0, <1>2, <2>1, DataStep DEF tableVars
<1> QED
  BY <1>3, <1>4, <1>6, <1>7 DEF VMInv

\* A process writes to its memory.
LEMMA WriteInv ==
  ASSUME VMInv, NEW p \in Procs, NEW u \in Upages, NEW v \in Values, Write(p, u, v)
  PROVE  VMInv'
<1>f. PICK f : f = pagedir[p][u]
  OBVIOUS
<1>0. /\ f # None /\ data' = [data EXCEPT ![f] = v]
      /\ written' = [written EXCEPT ![p] = [written[p] EXCEPT ![u] = v]]
      /\ UNCHANGED <<pc, need, tried, todo, pagedir, readonly, page_table, frame_table, used>>
      /\ UNCHANGED <<swap, curr_index, exception_lock, swap_IO_lock, ticks, panic, copies>>
      /\ v \in Contents
  BY <1>f DEF Write, procVars, mapVars, tableVars, lockVars, Contents
<1>1. TypeOK /\ written \in [Procs -> [Upages -> Contents]] /\ data \in [Frames -> Contents]
  BY DEF VMInv, TypeOK
<1>2. f \in Frames
  BY <1>f, <1>0, MappedUsed
<1>3. /\ written' \in [Procs -> [Upages -> Contents]] /\ written'[p][u] = v
      /\ \A q \in Procs, w \in Upages : q # p \/ w # u => written'[q][w] = written[q][w]
  BY <1>0, <1>1
<1>4. TypeOK'
  BY <1>0, <1>1, <1>3 DEF TypeOK
<1>5. StepsRight' /\ FreesRight'
  BY <1>0 DEF VMInv, StepsRight, FreesRight
<1>6. FramesMapped'
  <2>1. \A q \in Procs : Mapped(q)' = Mapped(q)
    BY <1>0 DEF Mapped
  <2> QED
    BY <1>0, <2>1 DEF VMInv, FramesMapped, HasPagedir
<1>7. ASSUME NEW q \in Procs, NEW w \in Upages, pagedir[q][w] # None
      PROVE  \/ data'[pagedir[q][w]] = data[pagedir[q][w]] /\ written'[q][w] = written[q][w]
             \/ data'[pagedir[q][w]] = written'[q][w]
  <2>1. CASE q = p /\ w = u
    BY <1>f, <1>0, <1>1, <1>2, <1>3, <2>1
  <2>2. CASE ~(q = p /\ w = u)
    <3>1. pagedir[q][w] # f
      BY <1>f, <1>7, <2>2 DEF VMInv, FramesMapped
    <3>2. pagedir[q][w] \in Frames
      BY <1>7, MappedUsed
    <3> QED
      BY <1>0, <1>1, <1>3, <2>2, <3>1, <3>2
  <2> QED
    BY <2>1, <2>2
<1>8. \A q \in Procs, w \in Upages : pagedir[q][w] = None => written'[q][w] = written[q][w]
  BY <1>f, <1>0, <1>3
<1>9. OneLive' /\ TableRight' /\ SlotsRight' /\ DataRight' /\ AgesRight'
  BY <1>0, <1>7, <1>8, DataStep DEF tableVars, HasPagedir, Live
<1> QED
  BY <1>4, <1>5, <1>6, <1>9 DEF VMInv

-----------------------------------------------------------------------------
(* Eviction.                                                               *)

\* The slot that write_frame_to_block() chooses is in range and no other
\* page's, and the next slot is behind it.
LEMMA SlotChosen ==
  ASSUME VMInv, NEW p \in Procs, NEW k \in DOMAIN page_table[p], NEW slot,
         slot = IF page_table[p][k].block_index = -1 THEN curr_index ELSE page_table[p][k].block_index,
         slot < Slots
  PROVE  /\ slot \in 0..(Slots - 1) /\ slot < NextIndex /\ curr_index <= NextIndex
         /\ NextIndex \in 0..Slots
         /\ \A q \in Procs : \A j \in DOMAIN page_table[q] :
              page_table[q][j].block_index = slot => q = p /\ j = k
<1>1. /\ curr_index \in 0..Slots /\ Slots \in Nat
      /\ \A q \in Procs : \A j \in DOMAIN page_table[q] :
           page_table[q][j].block_index \in -1..(Slots - 1)
  BY Types, VMAssumption DEF VMInv, TypeOK
<1>2. \A q, r \in Procs : \A i \in DOMAIN page_table[q], j \in DOMAIN page_table[r] :
        page_table[q][i].block_index # -1 =>
          /\ page_table[q][i].block_index < curr_index
          /\ page_table[q][i].block_index = page_table[r][j].block_index => q = r /\ i = j
  BY DEF VMInv, SlotsRight, SlotsDistinct
<1>3. CASE page_table[p][k].block_index = -1
  <2>1. slot = curr_index /\ slot \in 0..(Slots - 1) /\ NextIndex = curr_index + 1
    BY <1>1, <1>3 DEF NextIndex
  <2>2. \A q \in Procs : \A j \in DOMAIN page_table[q] : page_table[q][j].block_index # slot
    BY <1>1, <1>2, <2>1
  <2> QED
    BY <1>1, <2>1, <2>2
<1>4. CASE page_table[p][k].block_index # -1
  <2>1. slot = page_table[p][k].block_index /\ slot \in 0..(Slots - 1) /\ slot < curr_index
    BY <1>1, <1>2, <1>4
  <2>2. \A q \in Procs : \A j \in DOMAIN page_table[q] :
          page_table[q][j].block_index = slot => q = p /\ j = k
    BY <1>2, <1>4, <2>1
  <2>3. curr_index <= NextIndex /\ NextIndex \in 0..Slots
    BY <1>1 DEF NextIndex
  <2> QED
    BY <1>1, <2>1, <2>2, <2>3
<1> QED
  BY <1>3, <1>4

\* The page table entry of the victim learns its slot.
LEMMA SetsSlot ==
  ASSUME VMInv, NEW p \in Procs, NEW k \in DOMAIN page_table[p], NEW slot \in 0..(Slots - 1),
         NEW r, r = [page_table[p][k] EXCEPT !.block_index = slot],
         NEW s, s = [page_table[p] EXCEPT ![k] = r],
         page_table' = [page_table EXCEPT ![p] = s]
  PROVE  /\ page_table' \in [Procs -> Seq(PageEntry)]
         /\ \A q \in Procs : DOMAIN page_table'[q] = DOMAIN page_table[q]
         /\ \A q \in Procs : \A j \in DOMAIN page_table[q] :
              /\ page_table'[q][j].uservaddr = page_table[q][j].uservaddr
              /\ page_table'[q][j].access_time = page_table[q][j].access_time
              /\ q = p /\ j = k => page_table'[q][j].block_index = slot
              /\ ~(q = p /\ j = k) =>
                   page_table'[q][j].block_index = page_table[q][j].block_index
<1>t. PICK t : t = page_table[p]
  OBVIOUS
<1>1. /\ page_table \in [Procs -> Seq(PageEntry)] /\ t \in Seq(PageEntry) /\ t[k] \in PageEntry
  BY <1>t, Types DEF VMInv
<1>2. DOMAIN t = 1..Len(t) /\ Len(t) \in Nat /\ k \in 1..Len(t)
  BY <1>t, <1>1, LenProperties
<1>3. s = [t EXCEPT ![k] = r]
  BY <1>t
<1>4. /\ r \in PageEntry /\ r.uservaddr = t[k].uservaddr /\ r.access_time = t[k].access_time
      /\ r.block_index = slot
  <2>1. slot \in -1..(Slots - 1)
    BY VMAssumption
  <2> QED
    BY <1>t, <1>1, <2>1 DEF PageEntry
<1>5. s \in Seq(PageEntry)
  BY <1>1, <1>2, <1>4, ExceptSeq
<1>6. /\ page_table' \in [Procs -> Seq(PageEntry)] /\ page_table'[p] = s
      /\ \A q \in Procs : q # p => page_table'[q] = page_table[q]
  BY <1>1, <1>5
<1>7. /\ DOMAIN page_table'[p] = DOMAIN t /\ page_table'[p][k] = r
      /\ \A j \in DOMAIN t : j # k => page_table'[p][j] = t[j]
  BY <1>2, <1>3, <1>6
<1> QED
  BY <1>t, <1>4, <1>6, <1>7

\* evict_frame() takes the victim's page out, whose contents go to its slot.
LEMMA EvictedInv ==
  ASSUME VMInv, NEW p \in Procs, HasPagedir(p), NEW i \in DOMAIN frame_table,
         NEW v, v = frame_table[i], NEW k, k = v.aux, NEW f, f = v.frame,
         NEW u, u = page_table[p][k].uservaddr, NEW slot,
         slot = IF page_table[p][k].block_index = -1 THEN curr_index
                ELSE page_table[p][k].block_index,
         slot < Slots,
         pagedir' = [pagedir EXCEPT ![p] = [pagedir[p] EXCEPT ![u] = None]],
         page_table' = [page_table EXCEPT ![p] = [page_table[p] EXCEPT ![k] =
                          [page_table[p][k] EXCEPT !.block_index = slot]]],
         swap' = [swap EXCEPT ![slot] = data[f]],
         curr_index' = NextIndex,
         used' = used \ {f},
         data' = [data EXCEPT ![f] = "junk"],
         frame_table' = RemoveAt(frame_table, i),
         tried' = [tried EXCEPT ![p] = "done"],
         UNCHANGED <<pc, need, todo, readonly, exception_lock, swap_IO_lock, ticks, panic,
                     written, copies>>
  PROVE  VMInv'
<1>0. /\ TypeOK /\ "junk" \in Contents /\ pc' = pc
      /\ pagedir \in [Procs -> [Upages -> Frames \cup {None}]] /\ data \in [Frames -> Contents]
      /\ swap \in [0..(Slots - 1) -> Contents] /\ tried \in [Procs -> {"no", "done", "failed"}]
      /\ \A q \in Procs : (HasPagedir(q)' <=> HasPagedir(q)) /\ (Live(q)' <=> Live(q))
  BY DEF VMInv, TypeOK, Contents, HasPagedir, Live
<1>1. /\ v \in Range(frame_table) /\ v.owner = p /\ k \in DOMAIN page_table[p]
      /\ u \in Upages /\ pagedir[p][u] = f /\ f # None /\ f \in used /\ f \in Frames
  <2>1. v \in Range(frame_table)
    BY DEF Range
  <2> QED
    BY <2>1, EntryMapped
<1>2. /\ slot \in 0..(Slots - 1) /\ slot < NextIndex /\ curr_index <= NextIndex
      /\ NextIndex \in 0..Slots /\ slot # -1
      /\ \A q \in Procs : \A j \in DOMAIN page_table[q] :
           page_table[q][j].block_index = slot => q = p /\ j = k
  BY <1>1, SlotChosen
<1>3. /\ page_table' \in [Procs -> Seq(PageEntry)]
      /\ \A q \in Procs : DOMAIN page_table'[q] = DOMAIN page_table[q]
      /\ \A q \in Procs : \A j \in DOMAIN page_table[q] :
           /\ page_table'[q][j].uservaddr = page_table[q][j].uservaddr
           /\ page_table'[q][j].access_time = page_table[q][j].access_time
           /\ q = p /\ j = k => page_table'[q][j].block_index = slot
           /\ ~(q = p /\ j = k) =>
                page_table'[q][j].block_index = page_table[q][j].block_index
  <2>1. VMInv /\ p \in Procs
    OBVIOUS
  <2>r. PICK r : r = [page_table[p][k] EXCEPT !.block_index = slot]
    OBVIOUS
  <2>s. PICK s : s = [page_table[p] EXCEPT ![k] = r]
    OBVIOUS
  <2>2. page_table' = [page_table EXCEPT ![p] = s]
    BY <2>r, <2>s
  <2>3. k \in DOMAIN page_table[p] /\ slot \in 0..(Slots - 1)
    BY <1>1, <1>2
  <2> QED
    BY ONLY <2>1, <2>2, <2>3, <2>r, <2>s, SetsSlot
<1>4. /\ pagedir' \in [Procs -> [Upages -> Frames \cup {None}]]
      /\ \A q \in Procs, w \in Upages :
           pagedir'[q][w] = IF q = p /\ w = u THEN None ELSE pagedir[q][w]
  BY <1>0, <1>1
<1>5. /\ frame_table' \in Seq(FrameEntry) /\ DOMAIN frame_table' = 1..(Len(frame_table) - 1)
      /\ DOMAIN frame_table = 1..Len(frame_table) /\ Len(frame_table) \in Nat
      /\ \A n \in 1..(Len(frame_table) - 1) :
           frame_table'[n] = IF n < i THEN frame_table[n] ELSE frame_table[n + 1]
      /\ Range(frame_table') = Range(frame_table) \ {v} /\ IsInjective(frame_table')
  <2>1. frame_table \in Seq(FrameEntry) /\ IsInjective(frame_table)
    BY Types DEF VMInv, TableRight
  <2> QED
    BY <2>1, RemoveAtList, LenProperties
<1>6. \A d \in Range(frame_table) : d # v =>
        /\ d.owner = p /\ d.aux \in DOMAIN page_table[p] /\ d.frame # f /\ d.aux # k
        /\ page_table[p][d.aux].uservaddr # u /\ page_table[p][d.aux].uservaddr \in Upages
        /\ pagedir[p][page_table[p][d.aux].uservaddr] = d.frame
  <2>1. \A d \in Range(frame_table) : d.frame = v.frame => d = v
    BY <1>1 DEF VMInv, TableRight
  <2> QED
    BY <1>1, <2>1, EntryMapped
<1>7. /\ used = copies \cup UNION {Mapped(q) : q \in Procs}
      /\ \A q, r \in Procs, w, x \in Upages :
           pagedir[q][w] # None /\ pagedir[q][w] = pagedir[r][x] => q = r /\ w = x
      /\ \A q \in Procs, w \in Upages :
           pagedir[q][w] # None => HasPagedir(q) /\ pagedir[q][w] \notin copies
  BY DEF VMInv, FramesMapped
<1>8. \A q \in Procs, w \in Upages : pagedir[q][w] = f => q = p /\ w = u
  BY <1>1, <1>7
<1>9. TypeOK'
  <2>1. /\ used' \subseteq Frames /\ data' \in [Frames -> Contents]
        /\ tried' \in [Procs -> {"no", "done", "failed"}]
    BY <1>0 DEF TypeOK
  <2>2. swap' \in [0..(Slots - 1) -> Contents]
    BY <1>0, <1>1, <1>2
  <2> QED
    BY <1>0, <1>2, <1>3, <1>4, <1>5, <2>1, <2>2 DEF TypeOK, PageEntry, FrameEntry
<1>10. OneLive' /\ FreesRight'
  BY <1>0 DEF VMInv, OneLive, FreesRight
<1>11. FramesMapped'
  <2>1. \A q \in Procs : q # p => Mapped(q)' = Mapped(q) /\ f \notin Mapped(q)
    BY <1>4, <1>8 DEF Mapped
  <2>2. Mapped(p)' = Mapped(p) \ {f}
    BY <1>1, <1>4, <1>8 DEF Mapped
  <2>3. f \notin copies
    BY <1>1, <1>7
  <2>4. used' = copies' \cup UNION {Mapped(q)' : q \in Procs}
    BY <1>7, <2>1, <2>2, <2>3
  <2>5. ASSUME NEW q \in Procs, NEW w \in Upages, pagedir'[q][w] # None
        PROVE  /\ pagedir[q][w] = pagedir'[q][w] /\ HasPagedir(q)' /\ pagedir'[q][w] \notin copies'
    <3>1. pagedir'[q][w] = pagedir[q][w]
      BY <1>4, <2>5
    <3> QED
      BY <1>0, <1>7, <2>5, <3>1
  <2>6. \A q, r \in Procs, w, x \in Upages :
          pagedir'[q][w] # None /\ pagedir'[q][w] = pagedir'[r][x] => q = r /\ w = x
    <3> SUFFICES ASSUME NEW q \in Procs, NEW r \in Procs, NEW w \in Upages, NEW x \in Upages,
                        pagedir'[q][w] # None, pagedir'[q][w] = pagedir'[r][x]
                 PROVE  q = r /\ w = x
      OBVIOUS
    <3>1. pagedir[q][w] = pagedir'[q][w] /\ pagedir[r][x] = pagedir'[r][x]
      BY <2>5
    <3> QED
      BY <1>7, <3>1
  <2> QED
    BY <2>4, <2>5, <2>6 DEF FramesMapped
<1>12. TableRight'
  <2>1. ASSUME NEW d \in Range(frame_table')
        PROVE  /\ Live(d.owner)' /\ d.aux \in DOMAIN page_table'[d.owner]
               /\ pagedir'[d.owner][page_table'[d.owner][d.aux].uservaddr] = d.frame
               /\ \A g \in Range(frame_table') : g.frame = d.frame => g = d
    <3>1. d \in Range(frame_table) /\ d # v
      BY <1>5
    <3>2. Live(p)'
      BY <1>0 DEF Live, HasPagedir
    <3>3. \A g \in Range(frame_table) : g.frame = d.frame => g = d
      BY <3>1 DEF VMInv, TableRight
    <3>w. PICK w : w = page_table[p][d.aux].uservaddr
      OBVIOUS
    <3>4. /\ d.owner = p /\ d.aux \in DOMAIN page_table[p] /\ w # u /\ w \in Upages
          /\ pagedir[p][w] = d.frame
      BY <1>6, <3>1, <3>w
    <3>5. d.aux \in DOMAIN page_table'[p] /\ page_table'[p][d.aux].uservaddr = w
      BY <1>3, <3>4, <3>w
    <3>6. pagedir'[p][w] = d.frame
      BY <1>4, <3>4
    <3>7. \A g \in Range(frame_table') : g.frame = d.frame => g = d
      BY <1>5, <3>3
    <3> QED
      BY <3>2, <3>4, <3>5, <3>6, <3>7
  <2>2. ASSUME NEW q \in Procs, NEW w \in Upages \ {Top}, pagedir'[q][w] # None
        PROVE  \E d \in Range(frame_table') : d.owner = q /\ d.frame = pagedir'[q][w]
    <3>1. pagedir'[q][w] = pagedir[q][w] /\ ~(q = p /\ w = u)
      BY <1>4, <2>2
    <3>2. PICK d \in Range(frame_table) : d.owner = q /\ d.frame = pagedir[q][w]
      BY <2>2, <3>1 DEF VMInv, TableRight
    <3>3. d # v
      BY <1>8, <3>1, <3>2
    <3> QED
      BY <1>5, <3>1, <3>2, <3>3
  <2> QED
    BY <1>5, <2>1, <2>2 DEF TableRight, Entry
<1>13. StepsRight'
  <2>1. StepsRight
    BY DEF VMInv
  <2>2. ASSUME NEW q \in Procs, pc'[q] \in {"load", "stack"}
        PROVE  /\ \A w \in Upages : pagedir'[q][w] # None => w \in Image \ todo'[q]
               /\ \A j \in DOMAIN page_table'[q] : page_table'[q][j].uservaddr \in Image \ todo'[q]
    BY <1>3, <1>4, <2>1, <2>2 DEF StepsRight
  <2>3. ASSUME NEW q \in Procs, pc'[q] = "fault"
        PROVE  pagedir'[q][need'[q]] = None /\ exception_lock' = 0
    <3>1. need[q] \in Upages /\ pagedir[q][need[q]] = None /\ exception_lock = 0
      BY <1>0, <2>1, <2>3 DEF StepsRight, TypeOK
    <3> QED
      BY <1>4, <3>1
  <2> QED
    BY <2>2, <2>3 DEF StepsRight
<1>14. SlotsRight'
  <2>1. \A q, r \in Procs : \A m \in DOMAIN page_table[q], j \in DOMAIN page_table[r] :
          page_table[q][m].block_index # -1 =>
            /\ page_table[q][m].block_index < curr_index
            /\ page_table[q][m].block_index = page_table[r][j].block_index => q = r /\ m = j
    BY DEF VMInv, SlotsRight, SlotsDistinct
  <2>2. ASSUME NEW q \in Procs, NEW m \in DOMAIN page_table[q],
               page_table'[q][m].block_index # -1
        PROVE  page_table'[q][m].block_index < curr_index'
    <3>1. CASE q = p /\ m = k
      BY <1>2, <1>3, <3>1
    <3>2. CASE ~(q = p /\ m = k)
      <4>1. page_table'[q][m].block_index = page_table[q][m].block_index
        BY <1>3, <3>2
      <4>2. page_table[q][m].block_index < curr_index
        BY <2>1, <2>2, <4>1
      <4>3. /\ page_table[q][m].block_index \in -1..(Slots - 1)
            /\ curr_index \in 0..Slots /\ Slots \in Nat
        BY Types, VMAssumption DEF VMInv, TypeOK
      <4> QED
        BY <1>2, <4>1, <4>2, <4>3
    <3> QED
      BY <3>1, <3>2
  <2>3. ASSUME NEW q \in Procs, NEW r \in Procs, NEW m \in DOMAIN page_table[q],
               NEW j \in DOMAIN page_table[r], page_table'[q][m].block_index # -1,
               page_table'[q][m].block_index = page_table'[r][j].block_index
        PROVE  q = r /\ m = j
    <3>1. CASE q = p /\ m = k
      BY <1>2, <1>3, <2>3, <3>1, SMTT(30)
    <3>2. CASE r = p /\ j = k
      BY <1>2, <1>3, <2>3, <3>2, SMTT(30)
    <3>3. CASE ~(q = p /\ m = k) /\ ~(r = p /\ j = k)
      BY <1>3, <2>1, <2>3, <3>3, SMTT(30)
    <3> QED
      BY <3>1, <3>2, <3>3
  <2>4. SlotsDistinct'
    BY <1>3, <2>2, <2>3, SMTT(30) DEF SlotsDistinct
  <2>5. ASSUME NEW q \in Procs, HasPagedir(q)', NEW j \in DOMAIN page_table'[q],
               page_table'[q][j].block_index = -1
        PROVE  \E d \in Range(frame_table') : d.owner = q /\ d.aux = j
    <3>1. j \in DOMAIN page_table[q] /\ ~(q = p /\ j = k) /\ page_table[q][j].block_index = -1
      BY <1>2, <1>3, <2>5, SMTT(30)
    <3>2. PICK d \in Range(frame_table) : d.owner = q /\ d.aux = j
      BY <1>0, <2>5, <3>1 DEF VMInv, SlotsRight
    <3>3. d # v
      BY <1>1, <3>1, <3>2
    <3> QED
      BY <1>5, <3>2, <3>3
  <2> QED
    BY <2>4, <2>5 DEF SlotsRight
<1>15. DataRight'
  <2>1. ASSUME NEW q \in Procs, HasPagedir(q)', NEW w \in Upages, NEW j \in DOMAIN page_table'[q],
               Sole(page_table'[q], w, j)
        PROVE  \/ pagedir'[q][w] # None /\ data'[pagedir'[q][w]] = written[q][w]
               \/ /\ pagedir'[q][w] = None
                  /\ page_table'[q][j].block_index # -1
                  /\ swap'[page_table'[q][j].block_index] = written[q][w]
    <3>1. q = p
      BY <1>0, <2>1 DEF VMInv, OneLive, HasPagedir, Live
    <3>2. Sole(page_table[p], w, j) /\ j \in DOMAIN page_table[p]
      BY <1>3, <2>1, <3>1 DEF Sole
    <3>3. \/ pagedir[p][w] # None /\ data[pagedir[p][w]] = written[p][w]
          \/ /\ pagedir[p][w] = None
             /\ page_table[p][j].block_index # -1
             /\ swap[page_table[p][j].block_index] = written[p][w]
      BY <3>2 DEF VMInv, DataRight
    <3>4. CASE w = u
      <4>1. j = k
        BY <1>1, <3>2, <3>4 DEF Sole
      <4>2. data[f] = written[p][u]
        BY <1>1, <3>3, <3>4
      <4>3. page_table'[p][k].block_index = slot
        BY <1>1, <1>3
      <4>4. swap'[slot] = written[p][u]
        BY <1>0, <1>2, <4>2
      <4>5. pagedir'[p][u] = None
        BY <1>1, <1>4
      <4>6. slot # -1
        BY <1>2
      <4> QED
        BY <3>1, <3>4, <4>1, <4>3, <4>4, <4>5, <4>6
    <3>5. CASE w # u
      <4>1. pagedir'[p][w] = pagedir[p][w] /\ pagedir[p][w] # f
        BY <1>4, <1>8, <3>5
      <4>2. j # k
        BY <3>2, <3>5 DEF Sole
      <4>3. page_table'[p][j].block_index = page_table[p][j].block_index
            /\ page_table[p][j].block_index # slot
        BY <1>2, <1>3, <3>2, <4>2
      <4>4. CASE pagedir[p][w] # None
        <5>1. pagedir[p][w] \in Frames
          BY <4>4, MappedUsed
        <5> QED
          BY <1>0, <3>1, <3>3, <4>1, <4>4, <5>1
      <4>5. CASE pagedir[p][w] = None
        <5>1. page_table[p][j].block_index \in 0..(Slots - 1)
          BY <3>2, <4>5, UnmappedHasSlot DEF Sole
        <5>2. swap'[page_table[p][j].block_index] = swap[page_table[p][j].block_index]
          BY <1>0, <4>3, <5>1
        <5> QED
          BY <3>1, <3>3, <4>1, <4>3, <4>5, <5>2
      <4> QED
        BY <4>4, <4>5
    <3> QED
      BY <3>4, <3>5
  <2>2. written' = written
    OBVIOUS
  <2> QED
    BY ONLY <2>1, <2>2 DEF DataRight
<1>16. AgesRight'
  <2>0. /\ OldestFirst /\ \A q \in Procs : \A j \in DOMAIN page_table[q] :
                            page_table[q][j].access_time <= ticks
    BY DEF VMInv, AgesRight
  <2>1. ASSUME NEW n \in DOMAIN frame_table
        PROVE  page_table'[frame_table[n].owner][frame_table[n].aux].access_time =
                 Entry(frame_table[n]).access_time
    <3>1. frame_table[n] \in Range(frame_table)
      BY DEF Range
    <3>2. frame_table[n].owner = p /\ frame_table[n].aux \in DOMAIN page_table[p]
      BY <3>1, EntryMapped
    <3> QED
      BY <1>3, <3>2 DEF Entry
  <2>2. ASSUME NEW m \in DOMAIN frame_table', NEW n \in DOMAIN frame_table', m < n
        PROVE  page_table'[frame_table'[m].owner][frame_table'[m].aux].access_time <=
                 page_table'[frame_table'[n].owner][frame_table'[n].aux].access_time
    <3>1. PICK m2 \in DOMAIN frame_table : /\ frame_table'[m] = frame_table[m2]
                                           /\ m2 = IF m < i THEN m ELSE m + 1
      BY <1>5
    <3>2. PICK n2 \in DOMAIN frame_table : /\ frame_table'[n] = frame_table[n2]
                                           /\ n2 = IF n < i THEN n ELSE n + 1
      BY <1>5
    <3>3. m2 < n2
      BY <1>5, <2>2, <3>1, <3>2
    <3>4. Entry(frame_table[m2]).access_time <= Entry(frame_table[n2]).access_time
      BY <2>0, <3>1, <3>2, <3>3 DEF OldestFirst
    <3> QED
      BY <2>1, <3>1, <3>2, <3>4
  <2>3. OldestFirst'
    BY <2>2 DEF OldestFirst, Entry
  <2> QED
    BY <1>3, <2>0, <2>3 DEF AgesRight
<1> QED
  BY <1>9, <1>10, <1>11, <1>12, <1>13, <1>14, <1>15, <1>16 DEF VMInv

\* evict_frame().
LEMMA EvictFrameInv ==
  ASSUME VMInv, NEW p \in Procs, EvictFrame(p)
  PROVE  VMInv'
<1>1. HasPagedir(p)
  BY DEF EvictFrame, HasPagedir
<1>2. CASE Panics("lock")
  BY <1>2, PanicInv
<1>3. CASE /\ swap_IO_lock' = p /\ tried' = [tried EXCEPT ![p] = "failed"]
           /\ UNCHANGED <<pc, need, todo, mapVars, tableVars, memVars, exception_lock,
                          ticks, panic, historyVars>>
  <2>1. /\ UNCHANGED <<pc, need, todo, pagedir, readonly, page_table, frame_table, used, data>>
        /\ UNCHANGED <<swap, curr_index, exception_lock, ticks, panic, written, copies>>
    BY <1>3 DEF mapVars, tableVars, memVars, historyVars
  <2>2. TypeOK'
    BY <1>3, <2>1 DEF VMInv, TypeOK
  <2>3. StepsRight' /\ FreesRight'
    BY <2>1 DEF VMInv, StepsRight, FreesRight
  <2>4. ticks \in Nat
    BY DEF VMInv, TypeOK
  <2>5. OneLive' /\ FramesMapped' /\ TableRight' /\ SlotsRight' /\ DataRight' /\ AgesRight'
    BY <2>1, <2>4, Unmoved DEF HasPagedir, Live, tableVars, memVars, historyVars
  <2> QED
    BY <2>2, <2>3, <2>5 DEF VMInv
<1>4. CASE frame_table # << >> /\ EvictEntry(p, Victim, frame_table[Victim])
  <2>i. PICK i : i = Victim
    OBVIOUS
  <2>v. PICK v : v = frame_table[i]
    OBVIOUS
  <2>1. i \in DOMAIN frame_table
    BY <1>4, <2>i, VictimThere
  <2>2. v \in Range(frame_table)
    BY <2>v, <2>1 DEF Range
  <2>3. v.owner = p /\ v.frame \in used
    BY <1>1, <2>2, EntryMapped
  <2>4. Entry(v) = page_table[p][v.aux]
    BY <2>3 DEF Entry
  <2>s. PICK slot : slot = IF Entry(v).block_index = -1 THEN curr_index ELSE Entry(v).block_index
    OBVIOUS
  <2>5. EvictEntry(p, i, v)
    BY <1>4, <2>i, <2>v
  <2>6. CASE Panics("swap")
    BY <2>6, PanicInv
  <2>7. CASE ~Panics("swap")
    <3>1. /\ slot < Slots
          /\ ClearPage(p, Entry(v).uservaddr)
          /\ SetBlockIndex(v, slot)
          /\ swap' = [swap EXCEPT ![slot] = data[v.frame]]
          /\ curr_index' = NextIndex
          /\ used' = used \ {v.frame}
          /\ data' = [data EXCEPT ![v.frame] = "junk"]
          /\ frame_table' = RemoveAt(frame_table, i)
          /\ tried' = [tried EXCEPT ![p] = "done"]
          /\ UNCHANGED <<pc, need, todo, readonly, lockVars, ticks, panic, historyVars>>
      BY <2>3, <2>5, <2>7, <2>s DEF EvictEntry
    <3>2. /\ pagedir' = [pagedir EXCEPT ![p] = [pagedir[p] EXCEPT ![page_table[p][v.aux].uservaddr] = None]]
          /\ page_table' = [page_table EXCEPT ![p] = [page_table[p] EXCEPT ![v.aux] =
                            [page_table[p][v.aux] EXCEPT !.block_index = slot]]]
          /\ UNCHANGED <<pc, need, todo, readonly, exception_lock, swap_IO_lock, ticks, panic,
                         written, copies>>
      BY <2>3, <2>4, <3>1 DEF ClearPage, SetBlockIndex, lockVars, historyVars
    <3> QED
      BY <1>1, <2>1, <2>v, <2>4, <2>s, <3>1, <3>2, EvictedInv
  <2> QED
    BY <2>6, <2>7
<1> QED
  BY <1>2, <1>3, <1>4 DEF EvictFrame

-----------------------------------------------------------------------------
(* The beginning and the end of a process.                                 *)

\* A process starts when there is none: nothing is mapped.
LEMMA NobodyThere ==
  ASSUME VMInv, MaxLive = 1, Cardinality({q \in Procs : Live(q)}) < MaxLive
  PROVE  /\ \A q \in Procs : pc[q] = "none" /\ ~HasPagedir(q)
         /\ Range(frame_table) = {}
         /\ \A q \in Procs, w \in Upages : pagedir[q][w] = None
<1>1. \A q \in Procs : ~Live(q)
  <2> SUFFICES ASSUME NEW q \in Procs, Live(q) PROVE FALSE
    OBVIOUS
  <2>1. {r \in Procs : Live(r)} = {q}
    BY DEF VMInv, OneLive
  <2>2. Cardinality({q}) = 1
    BY FS_Singleton
  <2> QED
    BY <2>1, <2>2
<1>2. \A q \in Procs : pc[q] = "none" /\ ~HasPagedir(q)
  BY <1>1 DEF Live, HasPagedir
<1>3. \A e \in Range(frame_table) : e.owner \in Procs /\ Live(e.owner)
  BY Types DEF VMInv, TableRight
<1>4. \A q \in Procs, w \in Upages : pagedir[q][w] = None
  BY <1>2 DEF VMInv, FramesMapped
<1> QED
  BY <1>1, <1>2, <1>3, <1>4

\* init_thread() gives the new process a page table of its own.
LEMMA StartInv ==
  ASSUME VMInv, MaxLive = 1, NEW p \in Procs, Start(p)
  PROVE  VMInv'
<1>0. /\ pc[p] = "none" /\ pc' = [pc EXCEPT ![p] = "load"]
      /\ Cardinality({q \in Procs : Live(q)}) < MaxLive
      /\ todo' = [todo EXCEPT ![p] = Image] /\ tried' = [tried EXCEPT ![p] = "no"]
      /\ page_table' = [page_table EXCEPT ![p] = << >>]
      /\ UNCHANGED <<need, pagedir, readonly, frame_table, used, data, swap, curr_index>>
      /\ UNCHANGED <<exception_lock, swap_IO_lock, ticks, panic, written, copies>>
  BY DEF Start, At, Goes, mapVars, memVars, lockVars, historyVars
<1>1. /\ \A q \in Procs : pc[q] = "none" /\ ~HasPagedir(q)
      /\ Range(frame_table) = {}
      /\ \A q \in Procs, w \in Upages : pagedir[q][w] = None
  BY <1>0, NobodyThere
<1>2. /\ pc' \in [Procs -> Points] /\ pc'[p] = "load"
      /\ \A q \in Procs : q # p => pc'[q] = "none"
  <2>1. pc \in [Procs -> Points] /\ "load" \in Points
    BY DEF VMInv, TypeOK, Points
  <2> QED
    BY <1>0, <1>1, <2>1
<1>3. /\ page_table' \in [Procs -> Seq(PageEntry)] /\ page_table'[p] = << >>
      /\ DOMAIN page_table'[p] = {}
      /\ \A q \in Procs : q # p => page_table'[q] = page_table[q]
  <2>1. page_table \in [Procs -> Seq(PageEntry)] /\ << >> \in Seq(PageEntry)
    BY Types, EmptySeq DEF VMInv
  <2>2. page_table' \in [Procs -> Seq(PageEntry)] /\ page_table'[p] = << >>
    BY <1>0, <2>1
  <2>3. DOMAIN << >> = {}
    OBVIOUS
  <2> QED
    BY <1>0, <2>1, <2>2, <2>3
<1>4. todo' \in [Procs -> SUBSET Image] /\ todo'[p] = Image
  <2>1. todo \in [Procs -> SUBSET Image]
    BY DEF VMInv, TypeOK
  <2> QED
    BY <1>0, <2>1
<1>5. TypeOK'
  <2>1. tried' \in [Procs -> {"no", "done", "failed"}]
    BY <1>0 DEF VMInv, TypeOK
  <2> QED
    BY <1>0, <1>2, <1>3, <1>4, <2>1 DEF VMInv, TypeOK, PageEntry
<1>6. OneLive' /\ FreesRight'
  BY <1>0, <1>2 DEF VMInv, OneLive, FreesRight, Live
<1>7. FramesMapped'
  <2>1. \A q \in Procs : Mapped(q)' = Mapped(q)
    BY <1>0 DEF Mapped
  <2> QED
    BY <1>0, <1>1, <2>1 DEF VMInv, FramesMapped
<1>8. TableRight'
  BY <1>0, <1>1 DEF VMInv, TableRight
<1>9. StepsRight'
  BY <1>0, <1>1, <1>2, <1>3 DEF StepsRight
<1>10. SlotsRight'
  <2>1. SlotsDistinct'
    <3>1. \A q \in Procs : \A i \in DOMAIN page_table'[q] :
            i \in DOMAIN page_table[q] /\ page_table'[q][i] = page_table[q][i]
      BY <1>3
    <3>2. SlotsDistinct /\ curr_index' = curr_index
      BY <1>0 DEF VMInv, SlotsRight
    <3> QED
      BY <3>1, <3>2 DEF SlotsDistinct
  <2>2. \A q \in Procs : HasPagedir(q)' => q = p
    BY <1>2 DEF HasPagedir
  <2> QED
    BY <1>3, <2>1, <2>2 DEF SlotsRight
<1>11. DataRight'
  <2>1. \A q \in Procs : HasPagedir(q)' => q = p
    BY <1>2 DEF HasPagedir
  <2> QED
    BY <1>3, <2>1 DEF DataRight
<1>12. AgesRight'
  <2>1. OldestFirst'
    BY <1>0, <1>1 DEF OldestFirst, Range
  <2> QED
    BY <1>0, <1>3, <2>1 DEF VMInv, AgesRight
<1> QED
  BY <1>5, <1>6, <1>7, <1>8, <1>9, <1>10, <1>11, <1>12 DEF VMInv

\* pagedir_destroy(): the frames are all in use, and all go.
LEMMA PagedirDestroyInv ==
  ASSUME VMInv, NEW p \in Procs, PagedirDestroy(p)
  PROVE  VMInv'
<1>0. /\ pc[p] = "exit" /\ used' = used \ Mapped(p)
      /\ data' = [f \in Frames |-> IF f \in Mapped(p) THEN "junk" ELSE data[f]]
      /\ pagedir' = [pagedir EXCEPT ![p] = [u \in Upages |-> None]]
      /\ readonly' = [readonly EXCEPT ![p] = {}] /\ pc' = [pc EXCEPT ![p] = "forget"]
      /\ UNCHANGED <<need, tried, todo, page_table, frame_table, swap, curr_index>>
      /\ UNCHANGED <<exception_lock, swap_IO_lock, ticks, panic, written, copies>>
  <2>1. Mapped(p) \subseteq used
    BY MappedUsed
  <2> QED
    BY <2>1 DEF PagedirDestroy, At, Goes, tableVars, lockVars, historyVars
<1>1. Live(p) /\ \A q \in Procs : q # p => pc[q] = "none"
  BY <1>0 DEF Live, VMInv, OneLive
<1>2. /\ pc' \in [Procs -> Points] /\ pc'[p] = "forget"
      /\ \A q \in Procs : q # p => pc'[q] = "none"
  <2>1. pc \in [Procs -> Points] /\ "forget" \in Points
    BY DEF VMInv, TypeOK, Points
  <2> QED
    BY <1>0, <1>1, <2>1
<1>3. /\ pagedir' \in [Procs -> [Upages -> Frames \cup {None}]]
      /\ \A q \in Procs, w \in Upages : pagedir'[q][w] = None
  <2>1. pagedir \in [Procs -> [Upages -> Frames \cup {None}]]
    BY DEF VMInv, TypeOK
  <2>2. \A q \in Procs, w \in Upages : q # p => pagedir[q][w] = None
    BY <1>1 DEF VMInv, FramesMapped, HasPagedir
  <2> QED
    BY <1>0, <2>1, <2>2
<1>4. TypeOK'
  <2>1. /\ used' \subseteq Frames /\ data' \in [Frames -> Contents]
    BY <1>0 DEF VMInv, TypeOK, Contents
  <2>2. readonly' \in [Procs -> SUBSET ReadOnly]
    BY <1>0 DEF VMInv, TypeOK
  <2> QED
    BY <1>0, <1>2, <1>3, <2>1, <2>2 DEF VMInv, TypeOK
<1>5. OneLive' /\ FreesRight'
  BY <1>0, <1>2 DEF VMInv, OneLive, FreesRight, Live
<1>6. FramesMapped'
  <2>1. \A q \in Procs : Mapped(q)' = {} /\ (q # p => Mapped(q) = {})
    <3>1. \A q \in Procs, w \in Upages : q # p => pagedir[q][w] = None
      BY <1>1 DEF VMInv, FramesMapped, HasPagedir
    <3> QED
      BY <1>3, <3>1 DEF Mapped
  <2>2. used = copies \cup UNION {Mapped(q) : q \in Procs}
    BY DEF VMInv, FramesMapped
  <2>3. used = copies \cup Mapped(p)
    BY <2>1, <2>2
  <2>4. copies \cap Mapped(p) = {}
    BY DEF VMInv, FramesMapped, Mapped
  <2>5. used' = copies'
    BY <1>0, <2>3, <2>4
  <2>6. UNION {Mapped(q)' : q \in Procs} = {}
    BY <2>1
  <2> QED
    BY <1>3, <2>5, <2>6 DEF FramesMapped
<1>7. TableRight'
  <2>1. \A e \in Range(frame_table) : e.owner = p /\ e.aux \in DOMAIN page_table[e.owner]
    BY <1>1, OneOwner DEF VMInv, TableRight
  <2>2. Live(p)' /\ ~HasPagedir(p)'
    BY <1>2 DEF Live, HasPagedir
  <2>3. /\ IsInjective(frame_table)
        /\ \A e, d \in Range(frame_table) : d.frame = e.frame => d = e
    BY DEF VMInv, TableRight
  <2> QED
    BY <1>0, <1>3, <2>1, <2>2, <2>3 DEF TableRight
<1>8. StepsRight'
  BY <1>2 DEF StepsRight
<1>9. \A q \in Procs : ~HasPagedir(q)'
  BY <1>2 DEF HasPagedir
<1>10. SlotsRight' /\ DataRight'
  BY <1>0, <1>9 DEF VMInv, SlotsRight, SlotsDistinct, DataRight
<1>11. AgesRight'
  BY <1>0 DEF VMInv, AgesRight, OldestFirst, Entry
<1> QED
  BY <1>4, <1>5, <1>6, <1>7, <1>8, <1>10, <1>11 DEF VMInv

\* process_exit() empties the frame table, which was all its own.
LEMMA ForgetFramesInv ==
  ASSUME VMInv, NEW p \in Procs, ForgetFrames(p)
  PROVE  VMInv'
<1>0. /\ pc[p] = "forget"
      /\ frame_table' = Sublist(frame_table, {e \in Range(frame_table) : e.owner # p})
      /\ pc' = [pc EXCEPT ![p] = "none"]
      /\ UNCHANGED <<need, tried, todo, pagedir, readonly, page_table, used, data, swap>>
      /\ UNCHANGED <<curr_index, exception_lock, swap_IO_lock, ticks, panic, written, copies>>
  BY DEF ForgetFrames, At, Goes, mapVars, memVars, lockVars, historyVars
<1>1. Live(p) /\ \A q \in Procs : q # p => pc[q] = "none"
  BY <1>0 DEF Live, VMInv, OneLive
<1>2. pc' \in [Procs -> Points] /\ \A q \in Procs : pc'[q] = "none"
  <2>1. pc \in [Procs -> Points] /\ "none" \in Points
    BY DEF VMInv, TypeOK, Points
  <2> QED
    BY <1>0, <1>1, <2>1
<1>3. /\ frame_table' \in Seq(FrameEntry) /\ Range(frame_table') = {}
      /\ IsInjective(frame_table')
  <2>1. frame_table \in Seq(FrameEntry) /\ IsInjective(frame_table)
    BY Types DEF VMInv, TableRight
  <2>2. {e \in Range(frame_table) : e.owner # p} = {}
    BY <1>1, OneOwner
  <2> QED
    BY <1>0, <2>1, <2>2, SublistList
<1>4. TypeOK'
  BY <1>0, <1>2, <1>3 DEF VMInv, TypeOK, FrameEntry
<1>5. \A q \in Procs : ~HasPagedir(q)' /\ ~HasPagedir(q)
  BY <1>0, <1>1, <1>2 DEF HasPagedir
<1>6. \A q \in Procs, w \in Upages : pagedir[q][w] = None
  BY <1>5 DEF VMInv, FramesMapped
<1>7. OneLive' /\ FreesRight' /\ StepsRight'
  BY <1>0, <1>2 DEF VMInv, OneLive, FreesRight, StepsRight, Live
<1>8. FramesMapped'
  <2>1. \A q \in Procs : Mapped(q)' = Mapped(q)
    BY <1>0 DEF Mapped
  <2> QED
    BY <1>0, <1>6, <2>1 DEF VMInv, FramesMapped
<1>9. TableRight'
  BY <1>0, <1>3, <1>6 DEF TableRight
<1>10. SlotsRight' /\ DataRight'
  BY <1>0, <1>5 DEF VMInv, SlotsRight, SlotsDistinct, DataRight
<1>11. AgesRight'
  <2>1. OldestFirst'
    BY <1>3 DEF OldestFirst, Range
  <2> QED
    BY <1>0, <2>1 DEF VMInv, AgesRight
<1> QED
  BY <1>4, <1>7, <1>8, <1>9, <1>10, <1>11 DEF VMInv

-----------------------------------------------------------------------------
(* The invariant, and what it says.                                        *)

\* A kernel that has just started has no process.
LEMMA InitVM == Init => VMInv
<1> SUFFICES ASSUME Init PROVE VMInv
  OBVIOUS
<1>1. /\ << >> \in Seq(PageEntry) /\ << >> \in Seq(FrameEntry) /\ DOMAIN << >> = {}
      /\ "none" \in Points /\ "junk" \in Contents /\ "zero" \in Contents /\ Top \in Upages
      /\ Slots \in Nat /\ MaxTicks \in Nat
  BY EmptySeq, VMAssumption DEF Points, Contents, Upages
<1>2. /\ \A p \in Procs : pc[p] = "none" /\ page_table[p] = << >>
      /\ \A p \in Procs, u \in Upages : pagedir[p][u] = None
      /\ frame_table = << >> /\ used = {} /\ copies = {} /\ panic = "no"
  BY DEF Init
<1>3. TypeOK
  <2>1. /\ pc \in [Procs -> Points] /\ need \in [Procs -> Upages]
        /\ tried \in [Procs -> {"no", "done", "failed"}] /\ todo \in [Procs -> SUBSET Image]
        /\ pagedir \in [Procs -> [Upages -> Frames \cup {None}]]
        /\ readonly \in [Procs -> SUBSET ReadOnly]
    BY <1>1 DEF Init
  <2>2. page_table \in [Procs -> Seq(PageEntry)] /\ frame_table \in Seq(FrameEntry)
    BY <1>1 DEF Init
  <2>3. /\ data \in [Frames -> Contents] /\ swap \in [0..(Slots - 1) -> Contents]
        /\ written \in [Procs -> [Upages -> Contents]]
    BY <1>1 DEF Init
  <2>4. /\ used \subseteq Frames /\ curr_index \in 0..Slots /\ exception_lock \in {0, 1}
        /\ swap_IO_lock \in Procs \cup {None} /\ ticks \in 0..MaxTicks
        /\ panic \in {"no", "memory", "swap", "lock", "slot", "freed"} /\ copies \subseteq Frames
    BY <1>1 DEF Init
  <2> QED
    BY <2>1, <2>2, <2>3, <2>4 DEF TypeOK, PageEntry, FrameEntry
<1>4. \A p \in Procs : ~Live(p) /\ ~HasPagedir(p) /\ Mapped(p) = {}
  BY <1>2 DEF Live, HasPagedir, Mapped
<1>5. Range(frame_table) = {} /\ DOMAIN frame_table = {} /\ IsInjective(frame_table)
  BY <1>1, <1>2 DEF Range, IsInjective
<1>6. FramesMapped
  <2>1. UNION {Mapped(p) : p \in Procs} = {}
    BY <1>4
  <2> QED
    BY <1>2, <2>1 DEF FramesMapped
<1>7. TableRight /\ StepsRight
  BY <1>2, <1>5 DEF TableRight, StepsRight
<1>8. SlotsRight /\ DataRight
  BY <1>1, <1>2, <1>4 DEF SlotsRight, SlotsDistinct, DataRight
<1>9. AgesRight
  BY <1>1, <1>2, <1>5 DEF AgesRight, OldestFirst
<1>10. OneLive /\ FreesRight
  BY <1>2, <1>4 DEF OneLive, FreesRight
<1> QED
  BY <1>3, <1>6, <1>7, <1>8, <1>9, <1>10 DEF VMInv

\* Every step keeps the invariant when the kernel runs its tasks in turn.
LEMMA NextVM ==
  ASSUME MaxLive = 1, VMInv, [Next]_vars
  PROVE  VMInv'
<1>1. ASSUME NEW p \in Procs, Loading(p) PROVE VMInv'
  BY <1>1, StartInv, LoadSegmentInv, SetupStackInv, CopyArgsInv, MoveSteps DEF Loading
<1>2. ASSUME NEW p \in Procs, Storing(p) \/ Faulting(p) PROVE VMInv'
  <2>1. StackPages \subseteq Upages
    BY VMAssumption DEF Upages
  <2> QED
    BY <1>2, <2>1, MoveSteps, WriteInv, ReadGrowsInv, FaultNewInv, FaultBackInv
       DEF Storing, Faulting
<1>3. ASSUME NEW p \in Procs, Exiting(p) PROVE VMInv'
  BY <1>3, MoveSteps, PagedirDestroyInv, ForgetFramesInv DEF Exiting
<1>4. CASE UNCHANGED vars
  <2>1. /\ UNCHANGED <<pc, need, tried, todo, pagedir, readonly, page_table, frame_table, used>>
        /\ UNCHANGED <<data, swap, curr_index, exception_lock, swap_IO_lock, ticks, panic>>
        /\ UNCHANGED <<written, copies>>
    BY <1>4 DEF vars, procVars, mapVars, tableVars, memVars, lockVars, historyVars
  <2>2. TypeOK' /\ StepsRight' /\ FreesRight'
    BY <2>1 DEF VMInv, TypeOK, StepsRight, FreesRight
  <2>3. ticks \in Nat
    BY DEF VMInv, TypeOK
  <2>4. OneLive' /\ FramesMapped' /\ TableRight' /\ SlotsRight' /\ DataRight' /\ AgesRight'
    BY <2>1, <2>3, Unmoved DEF HasPagedir, Live, tableVars, memVars, historyVars
  <2> QED
    BY <2>2, <2>4 DEF VMInv
<1> QED
  BY <1>1, <1>2, <1>3, <1>4, EvictFrameInv, TickInv DEF Next

\* The invariant holds in every state.
LEMMA VMInvariant ==
  ASSUME MaxLive = 1
  PROVE  Spec => []VMInv
<1>1. Init => VMInv
  BY InitVM
<1>2. VMInv /\ [Next]_vars => VMInv'
  BY NextVM
<1> QED
  BY <1>1, <1>2, PTL DEF Spec

\* Whatever the executable and the order of its accesses, a frame that the
\* kernel has given out is mapped once or is the copy of a command line, and
\* the frame table knows every frame that evict_frame() may take and no other
\* (frame_table_insert(), evict_frame(), pagedir_destroy(), process_exit()).
THEOREM FramesNeitherLostNorShared ==
  ASSUME MaxLive = 1
  PROVE  Spec => []FramesAccounted
<1>1. VMInv => FramesAccounted
  <2> SUFFICES ASSUME VMInv PROVE FramesAccounted
    OBVIOUS
  <2>1. \A i \in DOMAIN frame_table : frame_table[i] \in Range(frame_table)
    BY DEF Range
  <2>2. ASSUME NEW p \in Procs, NEW u \in Upages \ {Top}, pagedir[p][u] # None
        PROVE  \E i \in DOMAIN frame_table :
                 frame_table[i].frame = pagedir[p][u] /\ frame_table[i].owner = p
    <3>1. PICK e \in Range(frame_table) : e.owner = p /\ e.frame = pagedir[p][u]
      BY <2>2 DEF VMInv, TableRight
    <3> QED
      BY <3>1 DEF Range
  <2>3. ASSUME NEW i \in DOMAIN frame_table
        PROVE  /\ Live(frame_table[i].owner)
               /\ HasPagedir(frame_table[i].owner) =>
                    pagedir[frame_table[i].owner][Entry(frame_table[i]).uservaddr] =
                      frame_table[i].frame
    BY <2>1 DEF VMInv, TableRight
  <2>4. ASSUME NEW i \in DOMAIN frame_table, NEW j \in DOMAIN frame_table,
               frame_table[i].frame = frame_table[j].frame
        PROVE  i = j
    <3>1. frame_table[j] = frame_table[i] /\ IsInjective(frame_table)
      BY <2>1, <2>4 DEF VMInv, TableRight
    <3> QED
      BY <3>1 DEF IsInjective
  <2>5. TypeOK /\ FramesMapped
    BY DEF VMInv
  <2> QED
    BY <2>2, <2>3, <2>4, <2>5 DEF FramesAccounted, FramesMapped
<1>2. Spec => []VMInv
  BY VMInvariant
<1> QED
  BY <1>1, <1>2, PTL

\* A page that has one entry holds what its process last wrote to it, in its
\* frame or in the slot that eviction gave it (write_frame_to_block(),
\* load_frame_from_block()); no two entries of any process share a slot.
THEOREM PagesKeepTheirData ==
  ASSUME MaxLive = 1
  PROVE  Spec => []PageData
<1>1. VMInv => PageData
  <2> SUFFICES ASSUME VMInv PROVE PageData
    OBVIOUS
  <2>1. SlotsDistinct
    BY DEF VMInv, SlotsRight
  <2>2. ASSUME NEW p \in Procs, HasPagedir(p), NEW u \in Upages,
               Cardinality({i \in DOMAIN page_table[p] : page_table[p][i].uservaddr = u}) = 1
        PROVE  \/ pagedir[p][u] # None /\ data[pagedir[p][u]] = written[p][u]
               \/ /\ pagedir[p][u] = None
                  /\ page_table[p][Found(p, u)].block_index # -1
                  /\ swap[page_table[p][Found(p, u)].block_index] = written[p][u]
    <3>d. PICK D : D = {i \in DOMAIN page_table[p] : page_table[p][i].uservaddr = u}
      OBVIOUS
    <3>1. IsFiniteSet(D)
      <4>1. /\ DOMAIN page_table[p] = 1..Len(page_table[p]) /\ Len(page_table[p]) \in Nat
        BY Types, LenProperties DEF VMInv
      <4>2. IsFiniteSet(1..Len(page_table[p]))
        BY <4>1, FS_Interval
      <4>3. D \in SUBSET (1..Len(page_table[p]))
        BY <3>d, <4>1
      <4> QED
        BY <4>2, <4>3, FS_Subset
    <3>2. PICK i : D = {i}
      BY <2>2, <3>d, <3>1, FS_Singleton
    <3>3. Sole(page_table[p], u, i) /\ i \in DOMAIN page_table[p]
      BY <3>d, <3>2 DEF Sole
    <3>4. Found(p, u) = i
      BY <3>3, FoundEntry
    <3> QED
      BY <2>2, <3>3, <3>4 DEF VMInv, DataRight
  <2> QED
    BY <2>1, <2>2 DEF PageData
<1>2. Spec => []VMInv
  BY VMInvariant
<1> QED
  BY <1>1, <1>2, PTL

\* The frame table stays in the order of the access times, although
\* page_fault() changes them under it, so the page that evict_frame() takes
\* has been in memory longest.
THEOREM EvictionIsFifo ==
  ASSUME MaxLive = 1
  PROVE  Spec => []OldestFirst
<1>1. VMInv => OldestFirst
  BY DEF VMInv, AgesRight
<1>2. Spec => []VMInv
  BY VMInvariant
<1> QED
  BY <1>1, <1>2, PTL

-----------------------------------------------------------------------------
(* The causes of a panic.                                                  *)

\* Whoever keeps swap_IO_lock has found nothing to evict, when the copies had
\* eaten the user pool; an eviction that succeeds leaves a frame for the process
\* that asked, which is alone.
CausesRight ==
  /\ swap_IO_lock # None => Starved
  /\ \A p \in Procs :
       /\ tried[p] = "failed" => swap_IO_lock # None
       /\ pc[p] = "user" => tried[p] = "no"
       /\ pc[p] \in {"load", "stack", "args", "fault"} /\ tried[p] = "done" => Free # {}
  /\ panic = "swap" => curr_index = Slots
  /\ panic \in {"lock", "memory"} => Starved

\* A step that neither panics, evicts nor ends with less free memory than p needs.
LEMMA CausesStay ==
  ASSUME VMInv, CausesRight, NEW p \in Procs, panic = "no", panic' = "no",
         \A q \in Procs : q # p => pc'[q] = "none" /\ tried'[q] = tried[q],
         copies \subseteq copies', swap_IO_lock' = swap_IO_lock,
         \/ tried'[p] = "no"
         \/ tried'[p] = tried[p] /\ pc'[p] \in {"exit", "forget", "none"}
         \/ tried'[p] = tried[p] /\ pc'[p] = pc[p] /\ used' = used
  PROVE  CausesRight'
<1>1. Starved => Starved'
  BY DEF Starved
<1> QED
  BY <1>1 DEF CausesRight, Free

\* A panic for want of a slot, of a lock or of memory has its cause.
LEMMA CausesPanic ==
  ASSUME VMInv, CausesRight, NEW why \in {"memory", "buffer", "swap", "lock"}, Panics(why),
         why = "swap" => curr_index = Slots,
         why \in {"lock", "memory"} => Starved
  PROVE  CausesRight'
<1>1. /\ UNCHANGED <<pc, tried, swap_IO_lock, curr_index, copies, used>> /\ panic' = why
  BY DEF Panics, procVars, memVars, lockVars, historyVars
<1>2. Starved => Starved'
  BY <1>1 DEF Starved
<1> QED
  BY <1>1, <1>2 DEF CausesRight, Free

\* No frame is free and the frame table is empty: the copies have the rest.
LEMMA NothingToEvict ==
  ASSUME VMInv, NEW p \in Procs, HasPagedir(p), Free = {}, frame_table = <<>>
  PROVE  Starved
<1>1. \A u \in Upages \ {Top} : pagedir[p][u] = None
  <2>1. Range(frame_table) = {}
    BY DEF Range
  <2> QED
    BY <2>1 DEF VMInv, TableRight
<1>2. \A q \in Procs, u \in Upages : q # p => pagedir[q][u] = None
  <2>1. \A q \in Procs : Live(q) => q = p
    BY DEF VMInv, OneLive, Live, HasPagedir
  <2> QED
    BY <2>1 DEF VMInv, FramesMapped, HasPagedir, Live
<1>3. /\ Frames \subseteq used /\ used = copies \cup UNION {Mapped(q) : q \in Procs}
  BY DEF Free, VMInv, FramesMapped
<1>4. \A g \in Frames : g \in copies \/ g = pagedir[p][Top]
  <2> TAKE g \in Frames
  <2>1. CASE g \notin copies
    <3>1. PICK q \in Procs : g \in Mapped(q)
      BY <2>1, <1>3
    <3>2. PICK u \in Upages : g = pagedir[q][u] /\ g # None
      BY <3>1 DEF Mapped
    <3> QED
      BY <3>2, <1>1, <1>2
  <2> QED
    BY <2>1
<1> QED
  BY <1>4 DEF Starved

\* evict_frame(): what it returns, keeps or panics for.
LEMMA EvictCauses ==
  ASSUME VMInv, CausesRight, NEW p \in Procs, EvictFrame(p)
  PROVE  CausesRight'
<1>1. /\ panic = "no" /\ HasPagedir(p) /\ Free = {} /\ pc \in [Procs -> Points]
      /\ tried \in [Procs -> {"no", "done", "failed"}] /\ None \notin Procs
      /\ curr_index \in 0..Slots /\ Slots \in Nat
  BY VMAssumption DEF EvictFrame, HasPagedir, VMInv, TypeOK
<1>2. \A q \in Procs : q # p => pc[q] = "none"
  BY <1>1 DEF VMInv, OneLive, Live, HasPagedir
<1>3. CASE swap_IO_lock = p /\ Panics("lock")
  <2>1. Starved
    BY <1>1, <1>3 DEF CausesRight
  <2> QED
    BY <1>3, <2>1, CausesPanic
<1>4. CASE /\ frame_table = <<>> /\ swap_IO_lock' = p /\ tried' = [tried EXCEPT ![p] = "failed"]
           /\ UNCHANGED <<pc, need, todo, mapVars, tableVars, memVars, exception_lock,
                          ticks, panic, historyVars>>
  <2>1. Starved
    BY <1>1, <1>4, NothingToEvict
  <2>2. Starved' /\ UNCHANGED <<pc, panic>>
    BY <2>1, <1>4 DEF Starved, historyVars
  <2>3. pc[p] # "user"
    BY DEF EvictFrame
  <2> QED
    BY <1>1, <1>2, <1>4, <2>2, <2>3 DEF CausesRight
<1>5. CASE swap_IO_lock = None /\ frame_table # <<>> /\ EvictEntry(p, Victim, frame_table[Victim])
  <2>i. PICK i : i = Victim
    OBVIOUS
  <2>1. i \in DOMAIN frame_table
    BY <1>5, <2>i, VictimThere
  <2>v. PICK v \in Range(frame_table) : v = frame_table[i]
    BY <2>1 DEF Range
  <2>2. v.owner \in Procs /\ v.frame \in Frames /\ v.aux \in DOMAIN page_table[v.owner]
    BY Types DEF VMInv, TableRight
  <2>3. page_table[v.owner][v.aux].block_index \in -1..(Slots - 1)
    BY <2>2, Types DEF VMInv
  <2>s. PICK slot : slot = IF Entry(v).block_index = -1 THEN curr_index ELSE Entry(v).block_index
    OBVIOUS
  <2>4. EvictEntry(p, i, v)
    BY <1>5, <2>i, <2>v
  <2>5. CASE slot >= Slots /\ Panics("swap")
    <3>1. curr_index = Slots
      BY <2>3, <2>5, <2>s, <1>1 DEF Entry
    <3> QED
      BY <2>5, <3>1, CausesPanic
  <2>6. CASE v.frame \notin used
    <3>1. v.frame \in used
      BY <1>1, <2>2, EntryMapped, OneOwner, MappedUsed DEF Live, HasPagedir
    <3> QED
      BY <2>6, <3>1
  <2>7. CASE /\ used' = used \ {v.frame} /\ tried' = [tried EXCEPT ![p] = "done"]
             /\ UNCHANGED <<pc, lockVars, panic, historyVars>>
    <3>1. v.frame \in Free'
      BY <2>2, <2>7 DEF Free
    <3>2. swap_IO_lock' = swap_IO_lock /\ copies' = copies /\ pc' = pc /\ panic' = "no"
      BY <1>1, <2>7 DEF lockVars, historyVars
    <3>3. pc[p] # "user"
      BY DEF EvictFrame
    <3> QED
      BY <1>1, <1>2, <2>7, <3>1, <3>2, <3>3 DEF CausesRight, Starved
  <2> QED
    BY <2>4, <2>5, <2>6, <2>7, <2>s DEF EvictEntry
<1> QED
  BY <1>3, <1>4, <1>5 DEF EvictFrame

\* Every other step keeps the causes.
LEMMA NextCauses ==
  ASSUME MaxLive = 1, VMInv, CausesRight, [Next]_vars
  PROVE  CausesRight'
<1>0. /\ pc \in [Procs -> Points] /\ tried \in [Procs -> {"no", "done", "failed"}]
      /\ None \notin Procs
  BY VMAssumption DEF VMInv, TypeOK
<1>alone. ASSUME NEW p \in Procs, pc[p] # "none" PROVE \A q \in Procs : q # p => pc[q] = "none"
  BY <1>alone DEF VMInv, OneLive, Live
<1>1. ASSUME NEW p \in Procs, Start(p) PROVE CausesRight'
  <2>1. /\ pc' = [pc EXCEPT ![p] = "load"] /\ tried' = [tried EXCEPT ![p] = "no"]
        /\ Cardinality({q \in Procs : Live(q)}) < MaxLive
        /\ panic = "no" /\ panic' = "no" /\ UNCHANGED <<copies, swap_IO_lock>>
    BY <1>1 DEF Start, At, Goes, lockVars, historyVars
  <2>2. \A q \in Procs : pc[q] = "none"
    BY <2>1, NobodyThere
  <2> QED
    BY <1>0, <2>1, <2>2, CausesStay
<1>2. ASSUME NEW p \in Procs,
             \/ \E f \in Frames, u \in Image : LoadSegment(p, u, f)
             \/ \E f \in Frames : SetupStack(p, f)
             \/ \E f \in Frames : CopyArgs(p, f)
             \/ \E f \in Frames : FaultNew(p, f)
      PROVE  CausesRight'
  <2>1. /\ pc[p] # "none" /\ pc' = [pc EXCEPT ![p] = pc'[p]]
        /\ tried' = [tried EXCEPT ![p] = "no"]
        /\ panic = "no" /\ panic' = "no" /\ copies \subseteq copies' /\ UNCHANGED swap_IO_lock
    BY <1>0, <1>2 DEF LoadSegment, SetupStack, CopyArgs, FaultNew, FaultEnds, At, Goes, lockVars
  <2> QED
    BY <1>0, <1>alone, <2>1, CausesStay
<1>3. ASSUME NEW p \in Procs, LoadFails(p) \/ Exit(p) \/ PageFaultKill(p) PROVE CausesRight'
  <2>1. /\ pc[p] # "none" /\ pc' = [pc EXCEPT ![p] = "exit"] /\ tried' = tried
        /\ panic = "no" /\ panic' = "no" /\ UNCHANGED <<copies, swap_IO_lock>>
    BY <1>3 DEF LoadFails, Exit, PageFaultKill, At, Goes, lockVars, historyVars
  <2> QED
    BY <1>0, <1>alone, <2>1, CausesStay
<1>4. ASSUME NEW p \in Procs, NoArgs(p) PROVE CausesRight'
  <2>1. CASE Panics("memory")
    <3>1. CASE tried[p] = "done" /\ Free = {}
      BY <1>4, <3>1 DEF NoArgs, At, CausesRight
    <3>2. CASE tried[p] = "failed"
      <4>1. Starved
        BY <3>2 DEF CausesRight
      <4> QED
        BY <2>1, <4>1, CausesPanic
    <3> QED
      BY <1>4, <3>1, <3>2 DEF NoArgs
  <2>2. CASE /\ Goes(p, "user") /\ tried' = [tried EXCEPT ![p] = "no"]
             /\ UNCHANGED <<need, todo, mapVars, tableVars, memVars, lockVars, ticks, panic,
                            historyVars>>
    <3>1. /\ pc[p] # "none" /\ pc' = [pc EXCEPT ![p] = "user"]
          /\ panic = "no" /\ panic' = "no" /\ UNCHANGED <<copies, swap_IO_lock>>
      BY <1>4, <2>2 DEF NoArgs, At, Goes, lockVars, historyVars
    <3> QED
      BY <1>0, <1>alone, <2>2, <3>1, CausesStay
  <2> QED
    BY <1>4, <2>1, <2>2 DEF NoArgs
<1>5. ASSUME NEW p \in Procs, NEW u \in Upages, PageFault(p, u) PROVE CausesRight'
  <2>1. /\ pc[p] = "user" /\ pc' = [pc EXCEPT ![p] = "fault"] /\ tried' = tried
        /\ panic = "no" /\ panic' = "no" /\ UNCHANGED <<copies, swap_IO_lock>>
    BY <1>5 DEF PageFault, At, Goes, historyVars
  <2>2. tried[p] = "no"
    BY <2>1 DEF CausesRight
  <2> QED
    BY <1>0, <1>alone, <2>1, <2>2, CausesStay
<1>6. ASSUME NEW p \in Procs, NEW u \in Upages, NEW v \in Values, Write(p, u, v)
      PROVE  CausesRight'
  <2>1. /\ pc[p] = "user" /\ UNCHANGED <<pc, tried, used, copies, swap_IO_lock>>
        /\ panic = "no" /\ panic' = "no"
    BY <1>6 DEF Write, At, procVars, lockVars
  <2> QED
    BY <1>0, <1>alone, <2>1, CausesStay
<1>7. ASSUME NEW p \in Procs, NEW f \in Frames, FaultBack(p, f) PROVE CausesRight'
  <2>1. CASE Panics("lock") /\ swap_IO_lock = p
    <3>1. Starved
      BY <1>0, <2>1 DEF CausesRight
    <3> QED
      BY <2>1, <3>1, CausesPanic
  <2>2. CASE Panics("slot")
    <3>1. VMInv'
      BY <1>7, FaultBackInv
    <3> QED
      BY <2>2, <3>1 DEF VMInv, FreesRight, Panics
  <2>3. CASE \E c : FaultEnds(p, f, c)
    <3>1. /\ pc[p] # "none" /\ pc' = [pc EXCEPT ![p] = "user"]
          /\ tried' = [tried EXCEPT ![p] = "no"]
          /\ panic = "no" /\ panic' = "no" /\ UNCHANGED <<copies, swap_IO_lock>>
      BY <1>7, <2>3 DEF FaultBack, FaultEnds, At, Goes
    <3> QED
      BY <1>0, <1>alone, <3>1, CausesStay
  <2> QED
    BY <1>7, <2>1, <2>2, <2>3 DEF FaultBack
<1>8. ASSUME NEW p \in Procs, FaultNoMemory(p) PROVE CausesRight'
  <2>1. /\ pc[p] = "fault" /\ Free = {} /\ tried[p] \in {"done", "failed"} /\ Panics("memory")
    BY <1>0, <1>8 DEF FaultNoMemory, At
  <2>2. Starved
    BY <2>1 DEF CausesRight
  <2> QED
    BY <2>1, <2>2, CausesPanic
<1>9. ASSUME NEW p \in Procs, NEW u \in StackPages, NEW v \in Values, ReadGrows(p, u, v)
      PROVE  CausesRight'
  <2>1. CASE Panics("buffer")
    BY <2>1, CausesPanic
  <2>2. CASE UNCHANGED <<procVars, swap, curr_index, lockVars, ticks, panic, copies>>
    <3>1. /\ pc[p] = "user" /\ UNCHANGED <<pc, tried, copies, swap_IO_lock>>
          /\ panic = "no" /\ panic' = "no"
      BY <1>9, <2>2 DEF ReadGrows, At, procVars, lockVars
    <3>2. tried[p] = "no"
      BY <3>1 DEF CausesRight
    <3> QED
      BY <1>0, <1>alone, <3>1, <3>2, CausesStay
  <2> QED
    BY <1>9, <2>1, <2>2 DEF ReadGrows
<1>10. ASSUME NEW p \in Procs, PagedirDestroy(p) \/ ForgetFrames(p) PROVE CausesRight'
  <2>1. CASE Panics("freed")
    <3>1. VMInv'
      BY <1>10, PagedirDestroyInv, ForgetFramesInv
    <3> QED
      BY <2>1, <3>1 DEF VMInv, FreesRight, Panics
  <2>2. CASE ~Panics("freed")
    <3>1. /\ pc[p] # "none" /\ pc' = [pc EXCEPT ![p] = pc'[p]] /\ pc'[p] \in {"forget", "none"}
          /\ tried' = tried
          /\ panic = "no" /\ panic' = "no" /\ UNCHANGED <<copies, swap_IO_lock>>
      BY <1>0, <1>10, <2>2 DEF PagedirDestroy, ForgetFrames, At, Goes, lockVars, historyVars
    <3> QED
      BY <1>0, <1>alone, <3>1, CausesStay
  <2> QED
    BY <2>1, <2>2
<1>11. CASE Tick \/ UNCHANGED vars
  <2>1. UNCHANGED <<pc, tried, used, copies, swap_IO_lock, curr_index, panic>>
    BY <1>11 DEF Tick, vars, procVars, memVars, lockVars, historyVars
  <2> QED
    BY <2>1 DEF CausesRight, Starved, Free
<1>12. ASSUME NEW p \in Procs, Loading(p) PROVE CausesRight'
  BY <1>12, <1>1, <1>2, <1>3, <1>4 DEF Loading
<1>13. ASSUME NEW p \in Procs, Storing(p) \/ Faulting(p) PROVE CausesRight'
  BY <1>13, <1>2, <1>3, <1>5, <1>6, <1>7, <1>8, <1>9 DEF Storing, Faulting
<1>14. ASSUME NEW p \in Procs, Exiting(p) PROVE CausesRight'
  BY <1>14, <1>3, <1>10 DEF Exiting
<1> QED
  BY <1>11, <1>12, <1>13, <1>14, EvictCauses DEF Next

\* swap.c:30, :66-70, process.c:571: when processes run one after another, no
\* frame is freed twice and no page is missed that has no slot; the swap device
\* is overrun only after as many evictions as it has slots; and swap_IO_lock is
\* taken twice, or page_fault() finds no frame, only after the copies of command
\* lines that are never freed have eaten the user pool.
THEOREM PanicsHaveCauses ==
  ASSUME MaxLive = 1
  PROVE  Spec => []PanicsExplained
<1>1. VMInv /\ CausesRight => PanicsExplained
  BY DEF VMInv, FreesRight, CausesRight, PanicsExplained
<1>2. Spec => []VMInv
  BY VMInvariant
<1>3. Init => CausesRight
  BY VMAssumption DEF Init, CausesRight
<1>4. VMInv /\ CausesRight /\ [Next]_vars => CausesRight'
  BY NextCauses
<1> QED
  BY <1>1, <1>2, <1>3, <1>4, PTL DEF Spec
=============================================================================
