------------------------------ MODULE Loading ------------------------------
(***************************************************************************)
(* Project 1's user programs: process_execute(), load() and process_exit() *)
(* (proj1/src/userprog/process.c), the page tables they build (pagedir.c), *)
(* what the processor caches of them, and the exceptions that end a        *)
(* program (exception.c, syscall.c).  Interrupts are on nearly throughout, *)
(* so another thread may run between any two steps; cur is the one that    *)
(* runs.                                                                   *)
(*                                                                         *)
(* A kernel page holds a thread, a file name, a page directory or a page   *)
(* table; a user page (a frame) the bytes of a program.  An executable is  *)
(* [ok, length, readable, phdrs]: whether its ELF header is accepted, its  *)
(* length, how many program headers lie within it, and the headers         *)
(* [type, offset, vaddr, filesz, memsz, w].  The byte at offset o is       *)
(* o + 1.                                                                  *)
(*                                                                         *)
(* Points of at[p]: "none"; load() before pagedir_create() "load", before  *)
(* a program header "header", in load_segment() "segment", before          *)
(* setup_stack() "stack", at its end "loaded" or "failed"; "user";         *)
(* process_exit() at its beginning "exit", without cur->pagedir "forgot",  *)
(* on init_page_dir "left"; "dying".                                       *)
(***************************************************************************)
EXTENDS Integers, FiniteSets, FiniteSetsExt, SequencesExt

CONSTANTS
  Procs, Main,      \* the threads of programs, and the one that starts them
  Executables,
  Touched,          \* bound: the pages that programs and callers of pagedir.c touch
  KernelPages, UserPages,   \* the two pools of palloc.c
  InitPageDir,      \* init_page_dir
  PGSIZE,
  PtEntries,        \* entries of a page table
  PhysBase,         \* PHYS_BASE
  AddrMod,          \* values of a uint32_t
  None

\* An executable: what load() looks at of struct Elf32_Phdr and struct Elf32_Ehdr.
Elf32_Word == 0..(AddrMod - 1)
Phdr == [type : {"load", "ignore", "refuse"}, offset : Elf32_Word, vaddr : Elf32_Word,
         filesz : Elf32_Word, memsz : Elf32_Word, w : BOOLEAN]
Ehdr == [ok : BOOLEAN, length : Nat, readable : Nat, phdrs : Seq(Phdr)]

ASSUME LoadingAssumption ==
  /\ Executables \subseteq Ehdr
  /\ Main \notin Procs /\ None \notin KernelPages /\ InitPageDir \notin KernelPages
  /\ KernelPages \subseteq Nat \ {0} /\ UserPages \subseteq Nat \ {0}
  /\ KernelPages \cap UserPages = {}
  /\ PGSIZE \in Nat \ {0} /\ PtEntries \in Nat \ {0}
  /\ PhysBase \in Nat \ {0} /\ AddrMod \in Nat
  /\ PhysBase % (PGSIZE * PtEntries) = 0 /\ PhysBase < AddrMod
  /\ Touched \subseteq 0..(PhysBase \div PGSIZE - 1)

VARIABLES
  cur,            \* the running thread
  at,
  exe,            \* the executable of each program
  free,           \* the free pages of both pools
  thread_page, fn_copy, pagedir,     \* the kernel pages of each program
  pde,            \* directories: the page table of each index, or 0
  pte,            \* page tables: their entries
  bytes,          \* frames: their contents
  seg,            \* load(): header number, and the variables of load_segment()
  cr3, tlb,       \* the processor: the active directory and what it cached of it
  esp0,           \* tss->esp0: whose kernel stack interrupts use
  used,           \* history: pages read or written since told otherwise
  panic           \* a failed ASSERT

memVars == <<free, pde, pte, bytes>>
cpuVars == <<cr3, tlb, esp0>>
vars == <<cur, at, exe, memVars, thread_page, fn_copy, pagedir, seg, cpuVars, used, panic>>

PageNos == 0..(PhysBase \div PGSIZE - 1)
Tables == 0..(PhysBase \div (PGSIZE * PtEntries) - 1)
pd_no(v) == v \div PtEntries
pt_no(v) == v % PtEntries
NoPte == [p |-> FALSE, frame |-> 0, w |-> FALSE, a |-> FALSE, d |-> FALSE]
NoSeg == [i |-> 0, upage |-> 0, pos |-> 0, read |-> 0, zero |-> 0, w |-> FALSE]
EmptyTlb == [v \in {} |-> 0]

Running(p, point) == ~panic /\ cur = p /\ at[p] = point
Goto(p, point) == at' = [at EXCEPT ![p] = point]

\* palloc_get_page() takes the first free page of a pool; there is one.
Available(pool) == free \cap pool # {}
FirstFree(pool) == Min(free \cap pool)

-----------------------------------------------------------------------------
(* pagedir.c.                                                              *)

\* lookup_page() without CREATE: whether there is an entry, and the entry.
HasEntry(pd, v) == pde[pd][pd_no(v)] # 0
Entry(pd, v) == pte[pde[pd][pd_no(v)]][pt_no(v)]
\* pagedir_get_page() is not null.
Mapped(pd, v) == HasEntry(pd, v) /\ Entry(pd, v).p

SetEntry(pd, v, e) == pte' = [pte EXCEPT ![pde[pd][pd_no(v)]][pt_no(v)] = e]

\* pagedir_activate().
PagedirActivate(pd) ==
  /\ cr3' = IF pd = None THEN InitPageDir ELSE pd
  /\ tlb' = EmptyTlb

\* Faulty variant: the processor keeps what it knows.
Invalidate_Never(pd) == UNCHANGED <<cr3, tlb>>

\* invalidate_pagedir(), with active_pd().
Invalidate(pd) == IF cr3 = pd THEN PagedirActivate(pd) ELSE UNCHANGED <<cr3, tlb>>

\* The pages pagedir_destroy() frees.
TablesOf(pd) == {pde[pd][i] : i \in Tables} \ {0}
FramesOf(pd) == {e.frame : e \in {f \in UNION {Range(pte[t]) : t \in TablesOf(pd)} : f.p}}
PagesOf(pd) == {pd} \cup TablesOf(pd) \cup FramesOf(pd)

\* install_page() can succeed: v is not mapped, and there is a page for the page table
\* if it needs one.
Installable(pd, v) == ~Mapped(pd, v) /\ (HasEntry(pd, v) \/ Available(KernelPages))

\* install_page() of a frame: pagedir_get_page(), pagedir_set_page(), lookup_page().
Install(pd, v, frame, w) ==
  LET e == [NoPte EXCEPT !.p = TRUE, !.frame = frame, !.w = w]
      table == FirstFree(KernelPages)
  IN \/ /\ HasEntry(pd, v)
        /\ SetEntry(pd, v, e)
        /\ free' = free \ {frame}
        /\ UNCHANGED pde
     \/ /\ ~HasEntry(pd, v)
        /\ pde' = [pde EXCEPT ![pd][pd_no(v)] = table]
        /\ pte' = [pte EXCEPT ![table] = [j \in 0..(PtEntries - 1) |->
                                            IF j = pt_no(v) THEN e ELSE NoPte]]
        /\ free' = free \ {frame, table}

-----------------------------------------------------------------------------
(* Threads.                                                                *)

\* process_activate(), with tss_update().
ProcessActivate(t, pd) == PagedirActivate(pd) /\ esp0' = t

Dying(t) == t \in Procs /\ at[t] = "dying"
PagedirOf(t) == IF t = Main THEN None ELSE pagedir[t]

\* A switch from one thread to another, by the timer or by thread_exit().
\* thread_schedule_tail() activates the new one and frees a dying one.
Switch(t) ==
  /\ ~panic /\ t # cur
  /\ t \in Procs => at[t] # "none"
  /\ cur' = t
  /\ ProcessActivate(t, PagedirOf(t))
  /\ \/ /\ ~Dying(cur)
        /\ UNCHANGED <<at, free, thread_page>>
     \/ /\ Dying(cur)
        /\ Goto(cur, "none")
        /\ free' = free \cup {thread_page[cur]}
        /\ thread_page' = [thread_page EXCEPT ![cur] = None]
  /\ UNCHANGED <<exe, pde, pte, bytes, fn_copy, pagedir, seg, used, panic>>

\* process_execute(): a page for the name, and thread_create(), which needs another;
\* with fewer nothing remains.
ProcessExecute(p, x) ==
  LET name == FirstFree(KernelPages)
  IN /\ ~panic /\ cur = Main /\ at[p] = "none"
     /\ Cardinality(free \cap KernelPages) >= 2
     /\ fn_copy' = [fn_copy EXCEPT ![p] = name]
     /\ thread_page' = [thread_page EXCEPT ![p] = Min((free \cap KernelPages) \ {name})]
     /\ free' = free \ {fn_copy'[p], thread_page'[p]}
     /\ exe' = [exe EXCEPT ![p] = x]
     /\ seg' = [seg EXCEPT ![p] = [NoSeg EXCEPT !.i = 1]]
     /\ Goto(p, "load")
     /\ UNCHANGED <<cur, pde, pte, bytes, pagedir, cpuVars, used, panic>>

-----------------------------------------------------------------------------
(* load().                                                                 *)

\* pagedir_create(), process_activate(), filesys_open() and the ELF header.
LoadCreate(p) ==
  LET d == FirstFree(KernelPages)
  IN /\ Running(p, "load")
     /\ \/ /\ ~Available(KernelPages)
           /\ Goto(p, "failed")
           /\ UNCHANGED <<memVars, pagedir, cpuVars>>
        \/ /\ Available(KernelPages)
           /\ free' = free \ {d}
           /\ pde' = [pde EXCEPT ![d] = [i \in Tables |-> 0]]
           /\ pagedir' = [pagedir EXCEPT ![p] = d]
           /\ ProcessActivate(p, d)
           /\ Goto(p, IF exe[p].ok THEN "header" ELSE "failed")
           /\ UNCHANGED <<pte, bytes>>
     /\ UNCHANGED <<cur, exe, thread_page, fn_copy, seg, used, panic>>

kernelVars == <<cur, exe, memVars, thread_page, fn_copy, pagedir, cpuVars, used, panic>>

\* Faulty variant: the region may wrap around.
ValidRegion_Wraps(ph) ==
  /\ ph.vaddr < PhysBase /\ (ph.vaddr + ph.memsz) % AddrMod < PhysBase
  /\ ph.vaddr >= PGSIZE

\* The checks of validate_segment() on the region.
ValidRegion(ph) ==
  LET end == (ph.vaddr + ph.memsz) % AddrMod
  IN ph.vaddr < PhysBase /\ end < PhysBase /\ end >= ph.vaddr /\ ph.vaddr >= PGSIZE

\* validate_segment().
ValidateSegment(x, ph) ==
  /\ ph.offset % PGSIZE = ph.vaddr % PGSIZE
  /\ ph.offset <= x.length
  /\ ph.memsz >= ph.filesz /\ ph.memsz # 0
  /\ ValidRegion(ph)

RoundUp(n) == ((n + PGSIZE - 1) \div PGSIZE) * PGSIZE

\* The arguments that load() gives load_segment().
SegmentOf(i, ph) ==
  LET page_offset == ph.vaddr % PGSIZE
      read == IF ph.filesz > 0 THEN page_offset + ph.filesz ELSE 0
  IN [i |-> i, upage |-> ph.vaddr \div PGSIZE, pos |-> ph.offset - (ph.offset % PGSIZE),
      read |-> read, zero |-> RoundUp(page_offset + ph.memsz) - read, w |-> ph.w]

\* The next program header.
LoadHeader(p) ==
  LET x == exe[p]
      i == seg[p].i
      ph == x.phdrs[i]
  IN /\ Running(p, "header")
     /\ \/ i > Len(x.phdrs) /\ Goto(p, "stack") /\ UNCHANGED seg
        \/ /\ i \in (x.readable + 1)..Len(x.phdrs)
           /\ Goto(p, "failed") /\ UNCHANGED seg
        \/ /\ i <= Len(x.phdrs) /\ i <= x.readable
           /\ \/ /\ ph.type = "ignore"
                 /\ seg' = [seg EXCEPT ![p].i = i + 1] /\ UNCHANGED at
              \/ /\ ph.type = "refuse" \/ (ph.type = "load" /\ ~ValidateSegment(x, ph))
                 /\ Goto(p, "failed") /\ UNCHANGED seg
              \/ /\ ph.type = "load" /\ ValidateSegment(x, ph)
                 /\ seg' = [seg EXCEPT ![p] = SegmentOf(i, ph)]
                 /\ Goto(p, "segment")
     /\ UNCHANGED kernelVars

\* Faulty variant: the frame is not given back when it cannot be installed.
GivenBack_Never(frame) == free' = free \ {frame}

\* palloc_free_page() of the frame that was taken in this step.
GivenBack(frame) == UNCHANGED free

PageContents(s) ==
  [b \in 0..(PGSIZE - 1) |-> IF b < s.read THEN s.pos + b + 1 ELSE 0]

\* One round of load_segment()'s loop, and its end.
LoadPage(p) ==
  LET s == seg[p]
      n == IF s.read < PGSIZE THEN s.read ELSE PGSIZE
      frame == FirstFree(UserPages)
  IN /\ Running(p, "segment")
     /\ \/ /\ s.read = 0 /\ s.zero = 0
           /\ Goto(p, "header") /\ seg' = [seg EXCEPT ![p] = [NoSeg EXCEPT !.i = s.i + 1]]
           /\ UNCHANGED <<memVars, panic>>
        \/ /\ s.read > 0 \/ s.zero > 0
           /\ s.upage \notin PageNos
           /\ panic' = TRUE /\ UNCHANGED <<at, seg, memVars>>
        \/ /\ s.read > 0 \/ s.zero > 0
           /\ s.upage \in PageNos
           /\ \/ /\ ~Available(UserPages)
                 /\ Goto(p, "failed") /\ UNCHANGED <<seg, memVars>>
              \/ /\ Available(UserPages)
                 /\ s.pos + n > exe[p].length /\ n > 0
                 /\ GivenBack(frame)
                 /\ Goto(p, "failed") /\ UNCHANGED <<seg, pde, pte, bytes>>
              \/ /\ Available(UserPages)
                 /\ s.pos + n <= exe[p].length \/ n = 0
                 /\ bytes' = [bytes EXCEPT ![frame] = PageContents(s)]
                 /\ \/ /\ ~Installable(pagedir[p], s.upage)
                       /\ GivenBack(frame)
                       /\ Goto(p, "failed") /\ UNCHANGED <<seg, pde, pte>>
                    \/ /\ Installable(pagedir[p], s.upage)
                       /\ Install(pagedir[p], s.upage, frame, s.w)
                       /\ seg' = [seg EXCEPT ![p].read = @ - n, ![p].zero = @ - (PGSIZE - n),
                                             ![p].upage = @ + 1, ![p].pos = @ + n]
                       /\ UNCHANGED at
           /\ UNCHANGED panic
     /\ UNCHANGED <<cur, exe, thread_page, fn_copy, pagedir, cpuVars, used>>

StackPage == PhysBase \div PGSIZE - 1

\* setup_stack().
SetupStack(p) ==
  LET frame == FirstFree(UserPages)
  IN /\ Running(p, "stack")
     /\ \/ /\ ~Available(UserPages)
           /\ Goto(p, "failed") /\ UNCHANGED memVars
        \/ /\ Available(UserPages) /\ ~Installable(pagedir[p], StackPage)
           /\ GivenBack(frame)
           /\ Goto(p, "failed") /\ UNCHANGED <<pde, pte, bytes>>
        \/ /\ Available(UserPages) /\ Installable(pagedir[p], StackPage)
           /\ bytes' = [bytes EXCEPT ![frame] = [b \in 0..(PGSIZE - 1) |-> 0]]
           /\ Install(pagedir[p], StackPage, frame, TRUE)
           /\ Goto(p, "loaded")
     /\ UNCHANGED <<cur, exe, thread_page, fn_copy, pagedir, seg, cpuVars, used, panic>>

\* start_process() after load(): into user mode, or thread_exit().
StartProcess(p) ==
  /\ Running(p, "loaded") \/ Running(p, "failed")
  /\ free' = free \cup {fn_copy[p]}
  /\ fn_copy' = [fn_copy EXCEPT ![p] = None]
  /\ Goto(p, IF at[p] = "loaded" THEN "user" ELSE "exit")
  /\ UNCHANGED <<cur, exe, pde, pte, bytes, thread_page, pagedir, seg, cpuVars, used, panic>>

-----------------------------------------------------------------------------
(* User code.  The processor walks the active directory for a page that    *)
(* it has not cached, and sets the dirty bit the first time it writes.     *)

Allowed(e, write) == e.p /\ (write => e.w)
\* What the processor takes for the entry of a page.
CachedEntry(v) == IF v \in DOMAIN tlb THEN tlb[v]
                  ELSE IF HasEntry(cr3, v) THEN Entry(cr3, v) ELSE NoPte

Access(p, v, write) ==
  LET e == CachedEntry(v)
      marked == [e EXCEPT !.a = TRUE, !.d = @ \/ write]
  IN /\ Running(p, "user") /\ cr3 # InitPageDir
     /\ Allowed(e, write)
     /\ tlb' = [w \in DOMAIN tlb \cup {v} |-> IF w = v THEN marked ELSE tlb[w]]
     /\ IF v \in DOMAIN tlb /\ e.d = marked.d THEN UNCHANGED pte
        ELSE SetEntry(cr3, v, [Entry(cr3, v) EXCEPT !.a = @ \/ v \notin DOMAIN tlb,
                                                    !.d = @ \/ write])
     /\ used' = used \cup {<<p, v, b>> : b \in IF write THEN {"a", "d"} ELSE {"a"}}
     /\ UNCHANGED <<cur, at, exe, free, pde, bytes, thread_page, fn_copy, pagedir, seg, cr3, esp0, panic>>

\* thread_exit() of a program in user mode.
ThreadExit(p) ==
  /\ Running(p, "user")
  /\ Goto(p, "exit")
  /\ UNCHANGED <<cur, exe, memVars, thread_page, fn_copy, pagedir, seg, cpuVars, used, panic>>

\* page_fault(), from the user's code segment, is as fatal as the other exceptions.
PageFault(p, v, write) == ThreadExit(p) /\ ~Allowed(CachedEntry(v), write)
Kill(p) == ThreadExit(p)
\* syscall_handler().
SysCall(p) == ThreadExit(p)

\* A caller of pagedir.c that takes a page away from a program: pagedir_clear_page() and
\* palloc_free_page().
TakePage(q, v) ==
  LET pd == pagedir[q]
  IN /\ ~panic /\ at[q] = "user" /\ Mapped(pd, v)
     /\ SetEntry(pd, v, [Entry(pd, v) EXCEPT !.p = FALSE])
     /\ Invalidate(pd)
     /\ free' = free \cup {Entry(pd, v).frame}
     /\ used' = used \ {<<q, v, "a">>, <<q, v, "d">>}
     /\ UNCHANGED <<cur, at, exe, pde, bytes, thread_page, fn_copy, pagedir, seg, esp0, panic>>

\* pagedir_set_accessed() (bit "a") and pagedir_set_dirty() (bit "d") to false.
ResetBit(q, v, bit) ==
  LET pd == pagedir[q]
  IN /\ ~panic /\ at[q] = "user" /\ Mapped(pd, v)
     /\ SetEntry(pd, v, [Entry(pd, v) EXCEPT !.a = @ /\ bit # "a", !.d = @ /\ bit # "d"])
     /\ Invalidate(pd)
     /\ used' = used \ {<<q, v, bit>>}
     /\ UNCHANGED <<cur, at, exe, free, pde, bytes, thread_page, fn_copy, pagedir, seg, esp0, panic>>

-----------------------------------------------------------------------------
(* process_exit().                                                         *)

\* Faulty variant: cur->pagedir still points to the directory that goes.
Forgotten_Never(p) == pagedir

\* cur->pagedir = NULL.
Forgotten(p) == [pagedir EXCEPT ![p] = None]

\* pd = cur->pagedir is kept in seg[p].pos.
ExitForget(p) ==
  /\ Running(p, "exit")
  /\ \/ pagedir[p] = None /\ Goto(p, "dying") /\ UNCHANGED <<pagedir, seg>>
     \/ /\ pagedir[p] # None
        /\ seg' = [seg EXCEPT ![p] = [NoSeg EXCEPT !.pos = pagedir[p]]]
        /\ pagedir' = Forgotten(p)
        /\ Goto(p, "forgot")
  /\ UNCHANGED <<cur, exe, memVars, thread_page, fn_copy, cpuVars, used, panic>>

ExitLeave(p) ==
  /\ Running(p, "forgot")
  /\ PagedirActivate(None)
  /\ Goto(p, "left")
  /\ UNCHANGED <<cur, exe, memVars, thread_page, fn_copy, pagedir, seg, esp0, used, panic>>

\* pagedir_destroy(); no page of it is touched once it is freed.
ExitDestroy(p) ==
  /\ Running(p, "left")
  /\ free' = free \cup PagesOf(seg[p].pos)
  /\ seg' = [seg EXCEPT ![p] = NoSeg]
  /\ used' = {u \in used : u[1] # p}
  /\ Goto(p, "dying")
  /\ UNCHANGED <<cur, exe, pde, pte, bytes, thread_page, fn_copy, pagedir, cpuVars, panic>>

Init ==
  /\ cur = Main
  /\ at = [p \in Procs |-> "none"]
  /\ exe = [p \in Procs |-> None]
  /\ free = KernelPages \cup UserPages
  /\ thread_page = [p \in Procs |-> None] /\ fn_copy = [p \in Procs |-> None]
  /\ pagedir = [p \in Procs |-> None]
  /\ pde = [d \in KernelPages |-> [i \in Tables |-> 0]]
  /\ pte = [t \in KernelPages |-> [j \in 0..(PtEntries - 1) |-> NoPte]]
  /\ bytes = [f \in UserPages |-> [b \in 0..(PGSIZE - 1) |-> 0]]
  /\ seg = [p \in Procs |-> NoSeg]
  /\ cr3 = InitPageDir /\ tlb = EmptyTlb /\ esp0 = Main
  /\ used = {} /\ panic = FALSE

Next ==
  \/ \E t \in Procs \cup {Main} : Switch(t)
  \/ \E p \in Procs, x \in Executables : ProcessExecute(p, x)
  \/ \E p \in Procs :
       \/ LoadCreate(p) \/ LoadHeader(p) \/ LoadPage(p) \/ SetupStack(p)
       \/ StartProcess(p) \/ Kill(p) \/ SysCall(p) \/ ExitForget(p) \/ ExitLeave(p) \/ ExitDestroy(p)
       \/ \E v \in Touched :
            \/ \E write \in BOOLEAN : Access(p, v, write) \/ PageFault(p, v, write)
            \/ TakePage(p, v)
            \/ \E bit \in {"a", "d"} : ResetBit(p, v, bit)

Spec == Init /\ [][Next]_vars

-----------------------------------------------------------------------------
(* Properties.                                                             *)

\* The directory of a program, until pagedir_destroy() has freed it.
DirectoryOf(p) == IF at[p] \in {"forgot", "left"} THEN seg[p].pos ELSE pagedir[p]
OwnPages(p) ==
  ({thread_page[p], fn_copy[p]} \ {None})
  \cup (IF DirectoryOf(p) = None THEN {} ELSE PagesOf(DirectoryOf(p)))

\* On every way through load() and process_exit(), with every allocation and every read
\* that can fail, each page is free or belongs to one program, to one use there:
\* nothing leaks and nothing is freed twice.
PagesOwned ==
  /\ KernelPages \cup UserPages = free \cup UNION {OwnPages(p) : p \in Procs}
  /\ \A p \in Procs : OwnPages(p) \cap free = {}
  /\ \A p, q \in Procs : p # q => OwnPages(p) \cap OwnPages(q) = {}
  /\ \A p \in Procs : DirectoryOf(p) # None =>
       \A v, w \in PageNos : v # w /\ Mapped(DirectoryOf(p), v) /\ Mapped(DirectoryOf(p), w) =>
          Entry(DirectoryOf(p), v).frame # Entry(DirectoryOf(p), w).frame

\* "Correct ordering here is crucial" (process_exit()): the processor never works with a
\* directory that has been freed, a program in user mode works with its own and its own
\* kernel stack, whenever the timer interrupts.
DirectoryLive ==
  /\ cr3 # InitPageDir => cr3 \notin free /\ cur \in Procs /\ DirectoryOf(cur) = cr3
  /\ \A p \in Procs : Running(p, "user") => cr3 = pagedir[p] /\ esp0 = p

\* What the processor has cached lets it do nothing that the page tables do not, and the
\* accessed and dirty bits tell of every access since they were reset: the calls
\* of invalidate_pagedir() are enough, and pagedir_set_page() needs none.
TlbInSync ==
  /\ \A v \in DOMAIN tlb :
       /\ Mapped(cr3, v)
       /\ Entry(cr3, v).frame = tlb[v].frame /\ Entry(cr3, v).w = tlb[v].w
  /\ \A u \in used : pagedir[u[1]] # None /\ Mapped(pagedir[u[1]], u[2]) =>
       LET e == Entry(pagedir[u[1]], u[2]) IN IF u[3] = "a" THEN e.a ELSE e.d

Segments(x) == {x.phdrs[i] : i \in {j \in DOMAIN x.phdrs : x.phdrs[j].type = "load"}}
\* The byte that a segment puts at an address of one of its pages.
SegmentByte(ph, a) ==
  IF ph.filesz > 0 /\ a < ph.vaddr + ph.filesz THEN ph.offset + (a - ph.vaddr) + 1 ELSE 0
SegmentPages(ph) == (ph.vaddr \div PGSIZE)..((ph.vaddr + ph.memsz - 1) \div PGSIZE)

\* A program that has been loaded has the pages of its segments and a stack, none shared
\* between segments, with the file's bytes as far as the segment has them and zeros
\* behind, and may write those it should; no ASSERT fails whatever the headers say.
ImageLoaded ==
  /\ ~panic
  /\ \A p \in Procs : at[p] = "loaded" =>
       LET x == exe[p]
           pages == UNION {SegmentPages(ph) : ph \in Segments(x)}
       IN /\ {v \in PageNos : Mapped(pagedir[p], v)} = pages \cup {StackPage}
          /\ StackPage \notin pages
          /\ \A ph \in Segments(x) : \A v \in SegmentPages(ph) :
               LET e == Entry(pagedir[p], v)
               IN /\ e.w = ph.w
                  /\ \A b \in 0..(PGSIZE - 1) : bytes[e.frame][b] = SegmentByte(ph, v * PGSIZE + b)
=============================================================================
