-------------------------------- MODULE VM --------------------------------
(***************************************************************************)
(* proj2's virtual memory: the frame table (vm/frame.c), the supplemental  *)
(* page tables (vm/page.c), eviction and swap (vm/swap.c), page_fault()    *)
(* (userprog/exception.c), and load_segment(), setup_stack() and           *)
(* process_exit() (userprog/process.c), which take and give back frames.   *)
(*                                                                         *)
(* Interrupts are on in all of it, so a process can be preempted between   *)
(* getting no frame, evicting one and asking again; the model breaks the   *)
(* operations there.  What follows palloc_get_page() concerns a frame that *)
(* nobody else knows of and is one step.  A swap slot is 8 sectors; the    *)
(* contents of a page are one value.  A process is at                      *)
(*   "none"    not started or gone  "user"   user mode                     *)
(*   "load"    load_segment()       "fault"  page_fault(), lock taken      *)
(*   "stack"   setup_stack()        "exit"   process_exit()                *)
(*   "args"    setup_stack(), copy  "forget" process_exit(), frame table   *)
(*             of the command line                                         *)
(***************************************************************************)
EXTENDS Lists

CONSTANTS
  Procs, Frames,  \* pages of struct threads; the frames of the user pool
  Image,          \* the pages of the executable
  ReadOnly,       \* those that are mapped read-only
  Grown,          \* other user pages, which the first access brings about
  StackPages,     \* those of them at or above esp - 32
  Top,            \* the page setup_stack() maps
  Values,         \* what a process writes
  Slots,          \* the size of the swap device
  MaxTicks,       \* bound: the clock stops here
  MaxLive,        \* how many processes there may be at once: 1 when the
                  \* kernel runs its tasks in turn, more when they call exec
  None

\* Top \notin Image leaves out an executable with a segment in the page below
\* PHYS_BASE, for which setup_stack() would fail in install_page().
ASSUME VMAssumption ==
  /\ ReadOnly \subseteq Image /\ StackPages \subseteq Grown
  /\ Image \cap Grown = {} /\ Top \notin Image \cup Grown
  /\ Slots \in Nat /\ MaxTicks \in Nat /\ MaxLive \in Nat
  /\ None \notin Procs \cup Frames

Upages == Image \cup Grown \cup {Top}
Contents == Values \cup {"zero", "image", "junk"}

VARIABLES
  pc, need,         \* `need' is the page that page_fault() is about
  tried,            \* evict_frame() in this attempt: "no", "done", "failed"
  todo,             \* the pages load_segment() has yet to load
  pagedir,          \* the frame each page is mapped to
  readonly,         \* the pages mapped without PTE_W
  page_table,       \* of each process, entries are never removed
  frame_table,      \* aux is the index of an entry of the owner's page_table
  used,             \* used_map of the user pool
  data, swap,       \* what is in the frames and in the slots
  curr_index,
  exception_lock,   \* value of the semaphore
  swap_IO_lock,     \* holder
  ticks,
  panic,            \* why the kernel has panicked, or "no"
  written,          \* history: what each page was last given by its process
  copies            \* history: the fn_copy of every setup_stack()

procVars == <<pc, need, tried, todo>>
mapVars == <<pagedir, readonly>>
tableVars == <<page_table, frame_table>>
memVars == <<used, data, swap, curr_index>>
lockVars == <<exception_lock, swap_IO_lock>>
historyVars == <<written, copies>>
vars == <<procVars, mapVars, tableVars, memVars, lockVars, ticks, panic, historyVars>>

Live(p) == pc[p] # "none"
HasPagedir(p) == pc[p] \in {"load", "stack", "args", "user", "fault", "exit"}
Free == Frames \ used
At(p, point) == panic = "no" /\ pc[p] = point
Goes(p, point) == pc' = [pc EXCEPT ![p] = point]

\* PANIC or a failed ASSERT: nothing happens any more.
Panics(why) ==
  /\ panic' = why
  /\ UNCHANGED <<procVars, mapVars, tableVars, memVars, lockVars, ticks, historyVars>>

-----------------------------------------------------------------------------
(* Frames and entries.                                                     *)

\* palloc_get_page() and install_page(): frame f with contents c becomes page
\* u of p.
InstallPage(p, u, f, c) ==
  /\ used' = used \cup {f}
  /\ data' = [data EXCEPT ![f] = c]
  /\ pagedir' = [pagedir EXCEPT ![p][u] = f]

\* sup_page_table_insert() and frame_table_insert().
NewEntry(p, u, f) ==
  /\ page_table' = [page_table EXCEPT ![p] =
       Append(@, [uservaddr |-> u, access_time |-> ticks, block_index |-> -1])]
  /\ frame_table' = Append(frame_table,
       [frame |-> f, owner |-> p, aux |-> Len(page_table[p]) + 1])

Entry(fte) == page_table[fte.owner][fte.aux]

\* The entry evict_frame() takes: the first of least access_time.
Victim ==
  CHOOSE i \in DOMAIN frame_table :
    /\ \A j \in DOMAIN frame_table :
         Entry(frame_table[i]).access_time <= Entry(frame_table[j]).access_time
    /\ \A j \in 1..(i - 1) :
         Entry(frame_table[i]).access_time < Entry(frame_table[j]).access_time

\* Faulty variant: the mapping stays.
ClearPage_Not(p, u) == UNCHANGED pagedir

\* pagedir_clear_page (cur->pagedir, ...): in the page directory of the process
\* that evicts, whoever owns the page.
ClearPage(p, u) == pagedir' = [pagedir EXCEPT ![p][u] = None]

\* write_frame_to_block() moves on even if it has written to an old slot.  All
\* values from Slots on are past the end of the device and count as Slots.
NextIndex == IF curr_index < Slots THEN curr_index + 1 ELSE Slots

\* Faulty variant: the entry does not learn where its page went.
SetBlockIndex_Not(v, slot) == UNCHANGED page_table

SetBlockIndex(v, slot) ==
  page_table' = [page_table EXCEPT ![v.owner][v.aux].block_index = slot]

\* evict_frame() with an entry v of the frame table, at index i, for process p.
EvictEntry(p, i, v) ==
  LET slot == IF Entry(v).block_index = -1 THEN curr_index ELSE Entry(v).block_index
  IN \/ /\ slot >= Slots      \* check_sector()
        /\ Panics("swap")
     \/ /\ slot < Slots /\ v.frame \notin used
        /\ Panics("freed")     \* ASSERT in palloc_free_page()
     \/ /\ slot < Slots /\ v.frame \in used
        /\ ClearPage(p, Entry(v).uservaddr)
        /\ SetBlockIndex(v, slot)
        /\ swap' = [swap EXCEPT ![slot] = data[v.frame]]
        /\ curr_index' = NextIndex
        /\ used' = used \ {v.frame}
        /\ data' = [data EXCEPT ![v.frame] = "junk"]
        /\ frame_table' = RemoveAt(frame_table, i)
        /\ tried' = [tried EXCEPT ![p] = "done"]
        /\ UNCHANGED <<pc, need, todo, readonly, lockVars, ticks, panic, historyVars>>

\* evict_frame(), called when palloc_get_page() has found nothing.
EvictFrame(p) ==
  /\ panic = "no" /\ pc[p] \in {"load", "stack", "args", "fault"}
  /\ Free = {} /\ tried[p] = "no"
  /\ \/ /\ swap_IO_lock = p   \* ASSERT in lock_acquire()
        /\ Panics("lock")
     \/ /\ swap_IO_lock = None /\ frame_table = <<>>
        /\ swap_IO_lock' = p  \* returns false without lock_release()
        /\ tried' = [tried EXCEPT ![p] = "failed"]
        /\ UNCHANGED <<pc, need, todo, mapVars, tableVars, memVars, exception_lock,
                       ticks, panic, historyVars>>
     \/ /\ swap_IO_lock = None /\ frame_table # <<>>
        /\ EvictEntry(p, Victim, frame_table[Victim])

-----------------------------------------------------------------------------
(* load().                                                                 *)

\* init_thread() and load() of a new process.
Start(p) ==
  /\ At(p, "none")
  /\ Cardinality({q \in Procs : Live(q)}) < MaxLive
  /\ Goes(p, "load")
  /\ todo' = [todo EXCEPT ![p] = Image]
  /\ tried' = [tried EXCEPT ![p] = "no"]
  /\ page_table' = [page_table EXCEPT ![p] = <<>>]
  /\ UNCHANGED <<need, mapVars, frame_table, memVars, lockVars, ticks, panic,
                 historyVars>>

\* One round of load_segment().
LoadSegment(p, u, f) ==
  /\ At(p, "load") /\ tried[p] # "failed"
  /\ u \in todo[p] /\ f \in Free
  /\ InstallPage(p, u, f, "image")
  /\ readonly' = [readonly EXCEPT ![p] = IF u \in ReadOnly THEN @ \cup {u} ELSE @]
  /\ NewEntry(p, u, f)
  /\ todo' = [todo EXCEPT ![p] = @ \ {u}]
  /\ Goes(p, IF todo'[p] = {} THEN "stack" ELSE "load")
  /\ tried' = [tried EXCEPT ![p] = "no"]
  /\ written' = [written EXCEPT ![p][u] = "image"]
  /\ UNCHANGED <<need, swap, curr_index, lockVars, ticks, panic, copies>>

\* load() fails: anywhere in load_segment(), in setup_stack() for want of a frame.
LoadFails(p) ==
  /\ \/ At(p, "load")
     \/ At(p, "stack") /\ (tried[p] = "failed" \/ (tried[p] = "done" /\ Free = {}))
  /\ Goes(p, "exit")
  /\ UNCHANGED <<need, tried, todo, mapVars, tableVars, memVars, lockVars, ticks,
                 panic, historyVars>>

\* setup_stack() maps a page that is in neither table.
SetupStack(p, f) ==
  /\ At(p, "stack") /\ tried[p] # "failed" /\ f \in Free
  /\ InstallPage(p, Top, f, "zero")
  /\ Goes(p, "args")
  /\ tried' = [tried EXCEPT ![p] = "no"]
  /\ written' = [written EXCEPT ![p][Top] = "zero"]
  /\ UNCHANGED <<need, todo, readonly, tableVars, swap, curr_index, lockVars, ticks,
                 panic, copies>>

\* Its copy of the command line has a frame of the user pool, never given back.
CopyArgs(p, f) ==
  /\ At(p, "args") /\ tried[p] # "failed" /\ f \in Free
  /\ used' = used \cup {f}
  /\ data' = [data EXCEPT ![f] = "junk"]
  /\ copies' = copies \cup {f}
  /\ Goes(p, "user")
  /\ tried' = [tried EXCEPT ![p] = "no"]
  /\ UNCHANGED <<need, todo, mapVars, tableVars, swap, curr_index, lockVars, ticks,
                 panic, written>>

\* No copy: `return TID_ERROR' is true for a bool; without eviction's help the
\* kernel writes through a null pointer.
NoArgs(p) ==
  /\ At(p, "args")
  /\ \/ /\ tried[p] = "failed"
        /\ Goes(p, "user")
        /\ tried' = [tried EXCEPT ![p] = "no"]
        /\ UNCHANGED <<need, todo, mapVars, tableVars, memVars, lockVars, ticks, panic,
                       historyVars>>
     \/ /\ tried[p] = "done" /\ Free = {}
        /\ Panics("memory")

-----------------------------------------------------------------------------
(* Accesses and page faults.                                               *)

\* The process, or the kernel in SYS_READ, writes v into a mapped page.
Write(p, u, v) ==
  /\ At(p, "user") /\ pagedir[p][u] # None /\ u \notin readonly[p]
  /\ data' = [data EXCEPT ![pagedir[p][u]] = v]
  /\ written' = [written EXCEPT ![p][u] = v]
  /\ UNCHANGED <<procVars, mapVars, tableVars, used, swap, curr_index, lockVars, ticks,
                 panic, copies>>

\* page_fault() for a page that is not present.
PageFault(p, u) ==
  /\ At(p, "user") /\ pagedir[p][u] = None
  /\ exception_lock > 0
  /\ exception_lock' = exception_lock - 1
  /\ Goes(p, "fault")
  /\ need' = [need EXCEPT ![p] = u]
  /\ UNCHANGED <<tried, todo, mapVars, tableVars, memVars, swap_IO_lock, ticks, panic,
                 historyVars>>

\* page_fault() for an address out of bounds or a write to a read-only page:
\* thread_exit() or kill(), and no sema_up (&exception_lock).
PageFaultKill(p) ==
  /\ At(p, "user")
  /\ exception_lock > 0
  /\ exception_lock' = exception_lock - 1
  /\ Goes(p, "exit")
  /\ UNCHANGED <<need, tried, todo, mapVars, tableVars, memVars, swap_IO_lock, ticks,
                 panic, historyVars>>

\* The entry that page_fault()'s search ends with: the last for the page, or 0.
Found(p, u) ==
  LET found == {i \in DOMAIN page_table[p] : page_table[p][i].uservaddr = u}
  IN IF found = {} THEN 0 ELSE CHOOSE i \in found : \A j \in found : j <= i

\* sema_up (&exception_lock).
ExceptionUp == exception_lock + 1

\* The end of page_fault() after frame f has been mapped, with the contents c.
FaultEnds(p, f, c) ==
  /\ InstallPage(p, need[p], f, c)
  /\ readonly' = [readonly EXCEPT ![p] = @ \ {need[p]}]
  /\ exception_lock' = ExceptionUp
  /\ Goes(p, "user")
  /\ tried' = [tried EXCEPT ![p] = "no"]
  /\ UNCHANGED <<need, todo, swap, curr_index, swap_IO_lock, ticks, panic, copies>>

\* A page that the process has not had before.
FaultNew(p, f) ==
  /\ At(p, "fault") /\ f \in Free
  /\ Found(p, need[p]) = 0
  /\ NewEntry(p, need[p], f)
  /\ FaultEnds(p, f, "zero")
  /\ written' = [written EXCEPT ![p][need[p]] = "zero"]

\* Faulty variant: the page does not become the youngest.
Refresh_Not(p, i) == UNCHANGED page_table

\* curr_page->access_time = timer_ticks ().
Refresh(p, i) == page_table' = [page_table EXCEPT ![p][i].access_time = ticks]

\* Faulty variant: the page comes back zeroed.
LoadFrame_Not(slot) == "zero"

\* load_frame_from_block().
LoadFrame(slot) == swap[slot]

\* A page that has been evicted; an entry without a slot makes block_read()
\* panic, and lock_acquire() panics when p has kept the lock.
FaultBack(p, f) ==
  LET i == Found(p, need[p])
      slot == page_table[p][i].block_index
  IN /\ At(p, "fault") /\ f \in Free
     /\ i # 0
     /\ \/ swap_IO_lock = p /\ Panics("lock")
        \/ swap_IO_lock = None /\ slot = -1 /\ Panics("slot")
        \/ /\ swap_IO_lock = None /\ slot # -1
           /\ Refresh(p, i)
           /\ frame_table' = Append(frame_table, [frame |-> f, owner |-> p, aux |-> i])
           /\ FaultEnds(p, f, LoadFrame(slot))
           /\ UNCHANGED written

\* page_fault() got nothing after its eviction either.
FaultNoMemory(p) ==
  /\ At(p, "fault") /\ Free = {} /\ tried[p] # "no"
  /\ Panics("memory")

\* SYS_READ into a stack page that is not mapped: a new zeroed page and a new
\* entry, though the page may have been evicted and be in the table already,
\* and no eviction.  `written' is what the buffer gets; what the process had in
\* the rest of an evicted page is lost.
ReadGrows(p, u, v) ==
  /\ At(p, "user") /\ u \in StackPages /\ pagedir[p][u] = None
  /\ \/ Free = {} /\ Panics("buffer")
     \/ \E f \in Free :
          /\ InstallPage(p, u, f, v)
          /\ readonly' = [readonly EXCEPT ![p] = @ \ {u}]
          /\ NewEntry(p, u, f)
          /\ written' = [written EXCEPT ![p][u] = v]
          /\ UNCHANGED <<procVars, swap, curr_index, lockVars, ticks, panic, copies>>

-----------------------------------------------------------------------------
(* The end of a process.                                                   *)

\* SYS_EXIT, doBadExit() and the exceptions that go to kill() directly.
Exit(p) ==
  /\ At(p, "user")
  /\ Goes(p, "exit")
  /\ UNCHANGED <<need, tried, todo, mapVars, tableVars, memVars, lockVars, ticks,
                 panic, historyVars>>

Mapped(p) == {pagedir[p][u] : u \in Upages} \ {None}

\* pagedir_destroy() frees what is mapped; palloc_free_page() asserts that the frame is in use.
PagedirDestroy(p) ==
  /\ At(p, "exit")
  /\ \/ /\ ~(Mapped(p) \subseteq used)
        /\ Panics("freed")
     \/ /\ Mapped(p) \subseteq used
        /\ used' = used \ Mapped(p)
        /\ data' = [f \in Frames |-> IF f \in Mapped(p) THEN "junk" ELSE data[f]]
        /\ pagedir' = [pagedir EXCEPT ![p] = [u \in Upages |-> None]]
        /\ readonly' = [readonly EXCEPT ![p] = {}]
        /\ Goes(p, "forget")
        /\ UNCHANGED <<need, tried, todo, tableVars, swap, curr_index, lockVars, ticks,
                       panic, historyVars>>

\* process_exit() takes its entries out of the frame table.
ForgetFrames(p) ==
  /\ At(p, "forget")
  /\ frame_table' = Sublist(frame_table, {e \in Range(frame_table) : e.owner # p})
  /\ Goes(p, "none")
  /\ UNCHANGED <<need, tried, todo, mapVars, page_table, memVars, lockVars, ticks,
                 panic, historyVars>>

\* The timer interrupt.
Tick ==
  /\ panic = "no" /\ ticks < MaxTicks
  /\ ticks' = ticks + 1
  /\ UNCHANGED <<procVars, mapVars, tableVars, memVars, lockVars, panic, historyVars>>

Init ==
  /\ pc = [p \in Procs |-> "none"]
  /\ need = [p \in Procs |-> Top]
  /\ tried = [p \in Procs |-> "no"]
  /\ todo = [p \in Procs |-> {}]
  /\ pagedir = [p \in Procs |-> [u \in Upages |-> None]]
  /\ readonly = [p \in Procs |-> {}]
  /\ page_table = [p \in Procs |-> <<>>]
  /\ frame_table = <<>>
  /\ used = {}
  /\ data = [f \in Frames |-> "junk"]
  /\ swap = [s \in 0..(Slots - 1) |-> "junk"]
  /\ curr_index = 0
  /\ exception_lock = 1
  /\ swap_IO_lock = None
  /\ ticks = 0
  /\ panic = "no"
  /\ written = [p \in Procs |-> [u \in Upages |-> "zero"]]
  /\ copies = {}

Loading(p) ==
  \/ Start(p)
  \/ \E f \in Frames : (\E u \in Image : LoadSegment(p, u, f)) \/ SetupStack(p, f)
                       \/ CopyArgs(p, f)
  \/ LoadFails(p)
  \/ NoArgs(p)

Storing(p) == \E u \in Upages, v \in Values : Write(p, u, v)

Faulting(p) ==
  \/ \E u \in Upages : PageFault(p, u)
  \/ \E u \in StackPages, v \in Values : ReadGrows(p, u, v)
  \/ \E f \in Frames : FaultNew(p, f) \/ FaultBack(p, f)
  \/ FaultNoMemory(p)
  \/ PageFaultKill(p)

Exiting(p) == Exit(p) \/ PagedirDestroy(p) \/ ForgetFrames(p)

Next ==
  \/ \E p \in Procs : Loading(p) \/ EvictFrame(p) \/ Storing(p) \/ Faulting(p) \/ Exiting(p)
  \/ Tick

Spec == Init /\ [][Next]_vars

-----------------------------------------------------------------------------
Points == {"none", "load", "stack", "args", "user", "fault", "exit", "forget"}

TypeOK ==
  /\ pc \in [Procs -> Points]
  /\ need \in [Procs -> Upages]
  /\ tried \in [Procs -> {"no", "done", "failed"}]
  /\ todo \in [Procs -> SUBSET Image]
  /\ pagedir \in [Procs -> [Upages -> Frames \cup {None}]]
  /\ readonly \in [Procs -> SUBSET ReadOnly]
  /\ page_table \in [Procs -> Seq([uservaddr : Upages, access_time : 0..MaxTicks,
                                  block_index : -1..(Slots - 1)])]
  /\ frame_table \in Seq([frame : Frames, owner : Procs, aux : Nat \ {0}])
  /\ used \subseteq Frames
  /\ data \in [Frames -> Contents]
  /\ swap \in [0..(Slots - 1) -> Contents]
  /\ curr_index \in 0..Slots
  /\ exception_lock \in {0, 1}
  /\ swap_IO_lock \in Procs \cup {None}
  /\ ticks \in 0..MaxTicks
  /\ panic \in {"no", "memory", "buffer", "swap", "lock", "slot", "freed"}
  /\ written \in [Procs -> [Upages -> Contents]]
  /\ copies \subseteq Frames

\* Frames are neither lost nor shared.  A frame in use is mapped by one page of
\* one process, or is the copy of a command line; the frame table lists the
\* mapped frames but those of the stack tops, each once and under the page it
\* is mapped at, until its process forgets them.
FramesAccounted ==
  /\ TypeOK
  /\ used = copies \cup UNION {Mapped(p) : p \in Procs}
  /\ \A p, q \in Procs, u, w \in Upages :
       pagedir[p][u] # None /\ pagedir[p][u] = pagedir[q][w] => p = q /\ u = w
  /\ \A p \in Procs : HasPagedir(p) => \A u \in Upages \ {Top} :
       pagedir[p][u] # None =>
         \E i \in DOMAIN frame_table :
           frame_table[i].frame = pagedir[p][u] /\ frame_table[i].owner = p
  /\ \A i \in DOMAIN frame_table :
       /\ Live(frame_table[i].owner)
       /\ HasPagedir(frame_table[i].owner) =>
            pagedir[frame_table[i].owner][Entry(frame_table[i]).uservaddr] =
              frame_table[i].frame
       /\ \A j \in DOMAIN frame_table : frame_table[i].frame = frame_table[j].frame => i = j

\* No two entries have the same slot, and the next slot is none of them.
SlotsDistinct ==
  \A p, q \in Procs : \A i \in DOMAIN page_table[p], j \in DOMAIN page_table[q] :
    page_table[p][i].block_index # -1 =>
      /\ page_table[p][i].block_index < curr_index
      /\ page_table[p][i].block_index = page_table[q][j].block_index => p = q /\ i = j

\* A page that is in the table once holds what the process last wrote to it,
\* in its frame or, when it is not mapped, in its slot, which is no other page's.
\* (SYS_READ makes a second entry for a stack page that is swapped out, and
\* what was in the slot of the first is lost: such pages are left out here.)
PageData ==
  /\ SlotsDistinct
  /\ \A p \in Procs : HasPagedir(p) => \A u \in Upages :
       Cardinality({i \in DOMAIN page_table[p] : page_table[p][i].uservaddr = u}) = 1 =>
         \/ pagedir[p][u] # None /\ data[pagedir[p][u]] = written[p][u]
         \/ /\ pagedir[p][u] = None
            /\ page_table[p][Found(p, u)].block_index # -1
            /\ swap[page_table[p][Found(p, u)].block_index] = written[p][u]

\* swap.c:52-65: the frame table is in the order of the access times, also
\* after pages have come back: the first entry is the victim, and it is the page
\* that has been in memory longest.  access_time is set when a page comes in and
\* not when it is used, so eviction is first in, first out, and not the "LRU
\* algorithm" over the time each page was "last accessed" of vm/DESIGNDOC:105-107.
OldestFirst ==
  \A i, j \in DOMAIN frame_table :
    i < j => Entry(frame_table[i]).access_time <= Entry(frame_table[j]).access_time

\* The copies of command lines, which setup_stack() takes from the user pool and
\* nobody gives back, have eaten all the frames but at most one.
Starved == \A f, g \in Frames \ copies : f = g

\* What can make the kernel panic when processes run one after another.  No
\* frame is freed twice, and no page is missed that has no slot.  "swap" comes
\* only after as many evictions as the device has slots, though it may have
\* slots that no page uses (swap.c:30); the failed ASSERT of lock_acquire()
\* after an eviction that found nothing and kept swap_IO_lock, and page_fault()
\* left without a frame, only when the copies have eaten the user pool.
PanicsExplained ==
  /\ panic \notin {"freed", "slot"}
  /\ panic = "swap" => curr_index = Slots
  /\ panic \in {"lock", "memory"} => Starved

\* vm/DESIGNDOC:73-76 (A3): a page that was switched out of memory faults when
\* its process accesses it; so no frame is mapped by two processes.
Isolation ==
  \A p, q \in Procs : p # q => Mapped(p) \cap Mapped(q) = {}
=============================================================================
