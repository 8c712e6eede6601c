---------------------------- MODULE MemoryProofs ----------------------------
(***************************************************************************)
(* The page allocator and malloc() give no memory out twice and lose none, *)
(* for every number of threads and of pages and every size of an arena,    *)
(* although palloc_free_multiple() clears bits without the lock under      *)
(* which bitmap_scan() looks for them.                                     *)
(***************************************************************************)
EXTENDS Memory, ListLemmas

\* What is allocated: runs of pages, and blocks of an arena.
Runs == {b \in [kind : {"pages", "big"}, page : Pages, n : 1..PageCnt] : b.page + b.n <= PageCnt}
SmallBlocks == UNION {Blocks(p) : p \in Pages}
Allocations == Runs \cup SmallBlocks

Getting == {"get", "scan", "mark", "got"}
Points == {"run", "malloc", "take", "free", "clear"} \cup Getting
Jobs == [ret : {"none", "pages", "big", "arena", "run", "unlock"}, cnt : Nat, i : Int, j : Nat]

TypesRight ==
  /\ used_map \in [Pages -> BOOLEAN]
  /\ pool_lock \in Threads \cup {None} /\ desc_lock \in Threads \cup {None}
  /\ free_list \in Seq(SmallBlocks)
  /\ arena \in [Pages -> [desc : {None, "small", "big"}, free_cnt : Nat]]
  /\ pc \in [Threads -> Points] /\ job \in [Threads -> Jobs]
  /\ held \in [Threads -> SUBSET Allocations]
  /\ old \in [Threads -> Allocations \cup {None}]

\* A run of pages that lies in the pool.
InPool(i, cnt) == i >= 0 /\ cnt > 0 /\ i + cnt <= PageCnt

\* A palloc_get_multiple() in progress.  The bits that the scan has found free
\* stay free: others may clear bits, but only the lock's holder sets any.
Asking(t) ==
  /\ job[t].ret \in {"pages", "big", "arena"} /\ job[t].cnt > 0
  /\ job[t].ret = "arena" => job[t].cnt = 1 /\ desc_lock = t /\ free_list = <<>>
  /\ job[t].ret = "pages" => old[t] = None

Scanning(t) ==
  /\ pc[t] = "get" => job[t].i = 0 /\ job[t].j = 0
  /\ pc[t] \in {"scan", "mark", "got"} => pool_lock = t
  /\ pc[t] = "scan" =>
       /\ job[t].i >= 0 /\ job[t].j <= job[t].cnt
       /\ InPool(job[t].i, job[t].cnt) =>
            \A p \in job[t].i..(job[t].i + job[t].j - 1) : ~used_map[p]
  /\ pc[t] = "mark" =>
       /\ InPool(job[t].i, job[t].cnt) /\ job[t].j < job[t].cnt
       /\ \A p \in (job[t].i + job[t].j)..(job[t].i + job[t].cnt - 1) : ~used_map[p]
  /\ pc[t] = "got" /\ job[t].i # -1 => InPool(job[t].i, job[t].cnt)

\* A bitmap_set_multiple() that clears the bits of what has been freed.
Clearing(t) ==
  /\ job[t].ret \in {"run", "unlock"} /\ (job[t].ret = "unlock" => desc_lock = t)
  /\ InPool(job[t].i, job[t].cnt) /\ job[t].j < job[t].cnt

\* The block that free() or realloc() is going to free is the thread's own.
OldRight(t) ==
  /\ pc[t] \in {"run", "clear"} => old[t] = None
  /\ pc[t] = "free" => old[t] # None
  /\ old[t] # None => old[t] \in held[t] /\ old[t].kind # "pages"

\* Where thread t stands, with the locks it needs there.
CallRight(t) ==
  /\ pc[t] \in Getting => Asking(t)
  /\ Scanning(t)
  /\ pc[t] = "clear" => Clearing(t)
  /\ pc[t] = "take" => desc_lock = t /\ free_list # <<>>
  /\ OldRight(t)

\* A page is in one use: an arena, in a call of one thread, or in a run that
\* one thread has; and its bit says whether it is in use at all.
Moving(t, p) == p \in InTransit(t)
Holding(t, b, p) == b \in held[t] /\ b.kind # "block" /\ p \in PagesOf(b)

PageRight(p) ==
  /\ used_map[p] <=> \/ p \in Arenas
                     \/ \E t \in Threads : Moving(t, p)
                     \/ \E t \in Threads : \E b : Holding(t, b, p)
  /\ \A t, u \in Threads : Moving(t, p) /\ Moving(u, p) => t = u
  /\ \A t, u \in Threads : \A b : ~(Moving(t, p) /\ Holding(u, b, p))
  /\ \A t, u \in Threads : \A a, b : Holding(t, a, p) /\ Holding(u, b, p) => t = u /\ a = b
  /\ p \in Arenas => /\ \A t \in Threads : ~Moving(t, p)
                     /\ \A t \in Threads : \A b : ~Holding(t, b, p)

\* A block is free or one thread's; what free() reads from the arena is true
\* of the block it is given.
BlocksRight ==
  /\ IsInjective(free_list)
  /\ \A b \in Range(free_list) : b.page \in Arenas
  /\ \A t, u \in Threads : \A b \in held[t] \cap held[u] : b.kind = "block" => t = u
  /\ \A t \in Threads : \A b \in held[t] :
       /\ b.kind = "block" => b.page \in Arenas
       /\ b.kind = "big" => arena[b.page] = [desc |-> "big", free_cnt |-> b.n]

\* The free blocks of the arena in page p.
FreeOf(p) == Blocks(p) \cap Range(free_list)
InUse == UNION {held[t] : t \in Threads}

\* An arena that is all free is the one malloc() has just made, and its blocks
\* are all there is on the free list.
ArenaRight(p) ==
  /\ arena[p].free_cnt = Cardinality(FreeOf(p))
  /\ FreeOf(p) = Blocks(p) \ InUse
  /\ arena[p].free_cnt = BlocksPerArena =>
       (\E t \in Threads : pc[t] = "take") /\ Range(free_list) \subseteq Blocks(p)

MemoryInv ==
  /\ TypesRight
  /\ \A t \in Threads : CallRight(t)
  /\ \A p \in Pages : PageRight(p)
  /\ BlocksRight
  /\ \A p \in Arenas : ArenaRight(p)

-----------------------------------------------------------------------------
(* Blocks, runs and what is in transit.                                    *)

\* What kind an allocation is of, and the pages it is in.
LEMMA AllocationFacts ==
  /\ \A p \in Pages : \A b \in Blocks(p) :
       b.kind = "block" /\ b.page = p /\ b \in SmallBlocks
  /\ \A b \in SmallBlocks : b.kind = "block" /\ b.page \in Pages /\ b \in Blocks(b.page)
  /\ \A b \in Runs : /\ b.kind \in {"pages", "big"} /\ b.page \in Pages /\ InPool(b.page, b.n)
                     /\ b.n \in Nat
                     /\ PagesOf(b) = b.page..(b.page + b.n - 1)
                     /\ PagesOf(b) \subseteq Pages /\ b.page \in PagesOf(b)
  /\ \A b \in Allocations : b.kind # "block" <=> b \in Runs
  /\ None \notin Allocations
<1>1. \A p \in Pages : \A b \in Blocks(p) : b.kind = "block" /\ b.page = p /\ b \in SmallBlocks
  BY DEF Blocks, SmallBlocks
<1>2. \A b \in SmallBlocks : b.kind = "block" /\ b.page \in Pages /\ b \in Blocks(b.page)
  BY <1>1 DEF SmallBlocks
<1>3. ASSUME NEW b \in Runs
      PROVE  /\ b.kind \in {"pages", "big"} /\ b.page \in Pages /\ InPool(b.page, b.n)
             /\ b.n \in Nat /\ PagesOf(b) = b.page..(b.page + b.n - 1)
             /\ PagesOf(b) \subseteq Pages /\ b.page \in PagesOf(b)
  <2>1. /\ b.kind \in {"pages", "big"} /\ b.page \in Pages /\ b.n \in 1..PageCnt
        /\ b.page + b.n <= PageCnt
    BY DEF Runs
  <2>2. PagesOf(b) = b.page..(b.page + b.n - 1)
    BY <2>1 DEF PagesOf
  <2> QED
    BY <2>1, <2>2, MemoryAssumption DEF InPool, Pages
<1>4. None \notin Allocations
  <2>1. None \notin Runs
    BY MemoryAssumption DEF Runs, Pages
  <2>2. None \notin SmallBlocks
    <3>1. \A p \in Pages : \A b \in Blocks(p) :
            b \in [kind : {"pages", "big", "block"}, page : Int, n : Int]
      BY MemoryAssumption DEF Blocks, Pages
    <3> QED
      BY <3>1, MemoryAssumption DEF SmallBlocks
  <2> QED
    BY <2>1, <2>2 DEF Allocations
<1> QED
  BY <1>1, <1>2, <1>3, <1>4 DEF Allocations

\* A pool has as many blocks in a page as the descriptor says.
LEMMA BlockCount ==
  ASSUME NEW p \in Pages
  PROVE  IsFiniteSet(Blocks(p)) /\ Cardinality(Blocks(p)) = BlocksPerArena
<1> DEFINE f == [i \in 0..(BlocksPerArena - 1) |-> [kind |-> "block", page |-> p, n |-> i]]
<1>1. f \in Bijection(0..(BlocksPerArena - 1), Blocks(p))
  <2>1. f \in [0..(BlocksPerArena - 1) -> Blocks(p)]
    BY DEF Blocks
  <2>2. \A i, j \in 0..(BlocksPerArena - 1) : f[i] = f[j] => i = j
    <3> SUFFICES ASSUME NEW i \in 0..(BlocksPerArena - 1), NEW j \in 0..(BlocksPerArena - 1), f[i] = f[j]
                 PROVE  i = j
      OBVIOUS
    <3>1. f[i].n = i /\ f[j].n = j
      OBVIOUS
    <3> QED
      BY <3>1
  <2>3. \A b \in Blocks(p) : \E i \in 0..(BlocksPerArena - 1) : f[i] = b
    BY DEF Blocks
  <2> HIDE DEF f
  <2> QED
    BY <2>1, <2>2, <2>3 DEF Bijection, Injection, Surjection, IsInjective
<1>2. IsFiniteSet(0..(BlocksPerArena - 1)) /\ Cardinality(0..(BlocksPerArena - 1)) = BlocksPerArena
  BY FS_Interval, MemoryAssumption
<1> QED
  BY <1>1, <1>2, FS_Bijection DEF ExistsBijection

\* What is in transit, point by point.
LEMMA TransitAt ==
  ASSUME NEW t \in Threads
  PROVE  /\ pc[t] = "mark" => InTransit(t) = job[t].i..(job[t].i + job[t].j - 1)
         /\ pc[t] = "got" /\ job[t].i # -1 =>
              InTransit(t) = job[t].i..(job[t].i + job[t].cnt - 1)
         /\ pc[t] = "clear" => InTransit(t) = (job[t].i + job[t].j)..(job[t].i + job[t].cnt - 1)
         /\ pc[t] \notin {"mark", "got", "clear"} => InTransit(t) = {}
         /\ pc[t] = "got" /\ job[t].i = -1 => InTransit(t) = {}
  BY DEF InTransit

\* The step of one thread leaves the call of another as it is, if it takes
\* away no lock and, while the other holds the lock, sets no bit and leaves
\* the free list.
LEMMA OtherCall ==
  ASSUME NEW u \in Threads, TypesRight, CallRight(u),
         pc'[u] = pc[u], job'[u] = job[u], old'[u] = old[u], held'[u] = held[u],
         pool_lock = u => pool_lock' = u /\ \A p \in Pages : used_map'[p] => used_map[p],
         desc_lock = u => desc_lock' = u /\ free_list' = free_list
  PROVE  CallRight(u)' /\ InTransit(u)' = InTransit(u)
<1>1. job[u] \in Jobs
  BY DEF TypesRight
<1>2. InTransit(u)' = InTransit(u)
  BY DEF InTransit
<1>3. pc[u] \in Getting => Asking(u)'
  BY DEF CallRight, Asking
<1>4. Scanning(u)'
  <2>1. \A a, c : InPool(a, c)' <=> InPool(a, c)
    BY DEF InPool
  <2>2. Scanning(u) /\ job[u].i \in Int /\ job[u].j \in Nat /\ job[u].cnt \in Nat
    BY <1>1 DEF CallRight, Jobs
  <2>3. ASSUME pc[u] = "scan", InPool(job[u].i, job[u].cnt),
               NEW p \in job[u].i..(job[u].i + job[u].j - 1)
        PROVE  ~used_map'[p]
    BY <2>2, <2>3, MemoryAssumption DEF Scanning, InPool, Pages
  <2>4. ASSUME pc[u] = "mark", NEW p \in (job[u].i + job[u].j)..(job[u].i + job[u].cnt - 1)
        PROVE  ~used_map'[p]
    BY <2>2, <2>4, MemoryAssumption DEF Scanning, InPool, Pages
  <2> QED
    BY <2>1, <2>2, <2>3, <2>4 DEF Scanning
<1>5. pc[u] = "clear" => Clearing(u)'
  BY DEF CallRight, Clearing, InPool
<1>6. OldRight(u)' /\ (pc[u] = "take" => desc_lock' = u /\ free_list' # <<>>)
  BY DEF CallRight, OldRight
<1> QED
  BY <1>2, <1>3, <1>4, <1>5, <1>6 DEF CallRight

\* A page whose uses stay the same.
LEMMA PageSame ==
  ASSUME NEW p, PageRight(p), used_map'[p] = used_map[p],
         (p \in Arenas)' <=> p \in Arenas,
         \A t \in Threads : Moving(t, p)' <=> Moving(t, p),
         \A t \in Threads : \A b : Holding(t, b, p)' <=> Holding(t, b, p)
  PROVE  PageRight(p)'
  BY DEF PageRight

\* No block changes hands, and a thread that is about to take one stays there.
LEMMA BlocksSame ==
  ASSUME BlocksRight, \A p \in Arenas : ArenaRight(p), UNCHANGED <<held, free_list, arena>>,
         \A t \in Threads : pc[t] = "take" => pc'[t] = "take"
  PROVE  BlocksRight' /\ (\A p \in Arenas : ArenaRight(p))'
<1>1. Arenas' = Arenas /\ InUse' = InUse /\ \A p : FreeOf(p)' = FreeOf(p)
  BY DEF Arenas, InUse, FreeOf, Blocks
<1>2. BlocksRight'
  BY <1>1 DEF BlocksRight
<1>3. ASSUME NEW p \in Arenas PROVE ArenaRight(p)'
  BY <1>1, <1>3 DEF ArenaRight, Blocks
<1> QED
  BY <1>1, <1>2, <1>3

-----------------------------------------------------------------------------
(* Steps that move no memory.                                              *)

\* What the other threads keep when thread t makes a step.
OthersKept(t) ==
  \A u \in Threads \ {t} :
    /\ pc'[u] = pc[u] /\ job'[u] = job[u] /\ old'[u] = old[u] /\ held'[u] = held[u]
    /\ pool_lock = u => pool_lock' = u
    /\ desc_lock = u => desc_lock' = u

\* A step of t that changes only where t stands and which locks it has.
LEMMA QuietStep ==
  ASSUME MemoryInv, NEW t \in Threads, UNCHANGED <<used_map, free_list, arena, held>>,
         OthersKept(t), TypesRight', CallRight(t)', InTransit(t)' = InTransit(t), pc[t] # "take"
  PROVE  MemoryInv'
<1>1. ASSUME NEW u \in Threads PROVE CallRight(u)' /\ InTransit(u)' = InTransit(u)
  <2>1. CASE u = t
    BY <2>1
  <2>2. CASE u # t
    BY <2>2, OtherCall DEF MemoryInv, OthersKept
  <2> QED
    BY <2>1, <2>2
<1>2. ASSUME NEW p \in Pages PROVE PageRight(p)'
  <2>1. \A u \in Threads : Moving(u, p)' <=> Moving(u, p)
    BY <1>1 DEF Moving
  <2>2. \A u \in Threads : \A b : Holding(u, b, p)' <=> Holding(u, b, p)
    BY DEF Holding, PagesOf
  <2>3. (p \in Arenas)' <=> p \in Arenas
    BY DEF Arenas
  <2> QED
    BY <2>1, <2>2, <2>3, PageSame DEF MemoryInv
<1>3. BlocksRight' /\ (\A p \in Arenas : ArenaRight(p))'
  <2>1. \A u \in Threads : pc[u] = "take" => pc'[u] = "take"
    BY DEF OthersKept
  <2> QED
    BY <2>1, BlocksSame DEF MemoryInv
<1> QED
  BY <1>1, <1>2, <1>3 DEF MemoryInv

\* palloc_get_multiple() is called.
LEMMA PallocCallStep ==
  ASSUME MemoryInv, NEW t \in Threads, NEW cnt \in Counts, PallocCall(t, cnt)
  PROVE  MemoryInv'
<1>1. cnt \in Nat /\ cnt > 0
  BY MemoryAssumption
<1>2. /\ pc' = [pc EXCEPT ![t] = "get"] /\ pc[t] = "run"
      /\ job' = [job EXCEPT ![t] = [ret |-> "pages", cnt |-> cnt, i |-> 0, j |-> 0]]
      /\ UNCHANGED <<used_map, pool_lock, free_list, desc_lock, arena, held, old>>
  BY DEF PallocCall, PallocGet, Goto
<1>3. TypesRight' /\ OthersKept(t)
  BY <1>1, <1>2 DEF MemoryInv, TypesRight, OthersKept, Jobs, Points, Getting
<1>4. pc'[t] = "get" /\ job'[t] = [ret |-> "pages", cnt |-> cnt, i |-> 0, j |-> 0]
  BY <1>2 DEF MemoryInv, TypesRight
<1>5. CallRight(t)'
  BY <1>1, <1>2, <1>4 DEF MemoryInv, CallRight, Asking, Scanning, OldRight
<1>6. InTransit(t)' = InTransit(t)
  BY <1>2, <1>4 DEF InTransit
<1> QED
  BY <1>2, <1>3, <1>5, <1>6, QuietStep

\* malloc() or realloc() begins.
LEMMA MallocSmallStep ==
  ASSUME MemoryInv, NEW t \in Threads, NEW b, MallocSmall(t, b)
  PROVE  MemoryInv'
<1>1. /\ pc' = [pc EXCEPT ![t] = "malloc"] /\ pc[t] = "run" /\ old' = [old EXCEPT ![t] = b]
      /\ b \in held[t] \cup {None} /\ (b # None => b.kind # "pages")
      /\ UNCHANGED <<used_map, pool_lock, free_list, desc_lock, arena, held, job>>
  BY DEF MallocSmall, Goto
<1>2. TypesRight' /\ OthersKept(t)
  BY <1>1 DEF MemoryInv, TypesRight, OthersKept, Points
<1>3. pc'[t] = "malloc" /\ old'[t] = b
  BY <1>1 DEF MemoryInv, TypesRight
<1>4. CallRight(t)'
  BY <1>1, <1>3 DEF MemoryInv, CallRight, Scanning, OldRight, Getting
<1>5. InTransit(t)' = InTransit(t)
  BY <1>1, <1>3 DEF InTransit
<1> QED
  BY <1>1, <1>2, <1>4, <1>5, QuietStep

\* malloc() or realloc() of a big block begins, and asks for its pages.
LEMMA MallocBigStep ==
  ASSUME MemoryInv, NEW t \in Threads, NEW b, NEW cnt \in Counts, MallocBig(t, b, cnt)
  PROVE  MemoryInv'
<1>1. cnt \in Nat /\ cnt > 0
  BY MemoryAssumption
<1>2. /\ pc' = [pc EXCEPT ![t] = "get"] /\ pc[t] = "run" /\ old' = [old EXCEPT ![t] = b]
      /\ job' = [job EXCEPT ![t] = [ret |-> "big", cnt |-> cnt, i |-> 0, j |-> 0]]
      /\ b \in held[t] \cup {None} /\ (b # None => b.kind # "pages")
      /\ UNCHANGED <<used_map, pool_lock, free_list, desc_lock, arena, held>>
  BY DEF MallocBig, PallocGet, Goto
<1>3. TypesRight' /\ OthersKept(t)
  BY <1>1, <1>2 DEF MemoryInv, TypesRight, OthersKept, Jobs, Points, Getting
<1>4. /\ pc'[t] = "get" /\ old'[t] = b
      /\ job'[t] = [ret |-> "big", cnt |-> cnt, i |-> 0, j |-> 0]
  BY <1>2 DEF MemoryInv, TypesRight
<1>5. CallRight(t)'
  BY <1>1, <1>2, <1>4 DEF MemoryInv, CallRight, Asking, Scanning, OldRight
<1>6. InTransit(t)' = InTransit(t)
  BY <1>2, <1>4 DEF InTransit
<1> QED
  BY <1>2, <1>3, <1>5, <1>6, QuietStep

\* free() begins.
LEMMA FreeCallStep ==
  ASSUME MemoryInv, NEW t \in Threads, NEW b, FreeCall(t, b)
  PROVE  MemoryInv'
<1>1. /\ pc' = [pc EXCEPT ![t] = "free"] /\ pc[t] = "run" /\ old' = [old EXCEPT ![t] = b]
      /\ b \in held[t] /\ b.kind # "pages"
      /\ UNCHANGED <<used_map, pool_lock, free_list, desc_lock, arena, held, job>>
  BY DEF FreeCall, Goto
<1>2. TypesRight' /\ OthersKept(t)
  BY <1>1 DEF MemoryInv, TypesRight, OthersKept, Points
<1>3. pc'[t] = "free" /\ old'[t] = b /\ b # None
  BY <1>1, AllocationFacts DEF MemoryInv, TypesRight
<1>4. CallRight(t)'
  BY <1>1, <1>3 DEF MemoryInv, CallRight, Scanning, OldRight, Getting
<1>5. InTransit(t)' = InTransit(t)
  BY <1>1, <1>3 DEF InTransit
<1> QED
  BY <1>1, <1>2, <1>4, <1>5, QuietStep

\* The pool's lock is taken.
LEMMA PallocLockStep ==
  ASSUME MemoryInv, NEW t \in Threads, PallocLock(t)
  PROVE  MemoryInv'
<1>1. /\ pc' = [pc EXCEPT ![t] = "scan"] /\ pc[t] = "get" /\ pool_lock = None /\ pool_lock' = t
      /\ UNCHANGED <<used_map, free_list, desc_lock, arena, held, job, old>>
  BY DEF PallocLock, PoolLocked, Goto
<1>2. TypesRight' /\ OthersKept(t)
  BY <1>1, MemoryAssumption DEF MemoryInv, TypesRight, OthersKept, Points, Getting
<1>3. pc'[t] = "scan" /\ job[t] \in Jobs
  BY <1>1 DEF MemoryInv, TypesRight
<1>4. CallRight(t)'
  <2>1. Asking(t) /\ job[t].i = 0 /\ job[t].j = 0 /\ OldRight(t)
    BY <1>1 DEF MemoryInv, CallRight, Scanning, Getting
  <2>2. Scanning(t)'
    <3>1. job'[t].i = 0 /\ job'[t].j = 0 /\ job'[t].cnt \in Nat /\ pool_lock' = t
      BY <1>1, <1>3, <2>1 DEF Jobs
    <3>2. \A p : p \notin job'[t].i..(job'[t].i + job'[t].j - 1)
      BY <3>1
    <3> QED
      BY <1>3, <3>1, <3>2 DEF Scanning
  <2> QED
    BY <1>1, <1>3, <2>1, <2>2 DEF CallRight, Asking, OldRight
<1>5. InTransit(t)' = InTransit(t)
  BY <1>1, <1>3 DEF InTransit
<1> QED
  BY <1>1, <1>2, <1>4, <1>5, QuietStep

\* The descriptor's lock is taken, for a block or for a new arena.
LEMMA MallocLockStep ==
  ASSUME MemoryInv, NEW t \in Threads, MallocLock(t)
  PROVE  MemoryInv'
<1>1. /\ pc[t] = "malloc" /\ desc_lock = None /\ desc_lock' = t
      /\ UNCHANGED <<used_map, pool_lock, free_list, arena, held, old>>
  BY DEF MallocLock
<1>2. OldRight(t)
  BY DEF MemoryInv, CallRight
<1>3. CASE free_list # <<>> /\ Goto(t, "take") /\ UNCHANGED job
  <2>1. pc' = [pc EXCEPT ![t] = "take"] /\ job' = job /\ free_list # <<>>
    BY <1>3 DEF Goto
  <2>2. TypesRight' /\ OthersKept(t)
    BY <1>1, <2>1, MemoryAssumption DEF MemoryInv, TypesRight, OthersKept, Points
  <2>3. pc'[t] = "take"
    BY <2>1 DEF MemoryInv, TypesRight
  <2>4. CallRight(t)'
    BY <1>1, <1>2, <2>1, <2>3 DEF CallRight, Scanning, OldRight, Getting
  <2>5. InTransit(t)' = InTransit(t)
    BY <1>1, <2>3 DEF InTransit
  <2> QED
    BY <1>1, <2>2, <2>4, <2>5, QuietStep
<1>4. CASE free_list = <<>> /\ PallocGet(t, 1, "arena")
  <2>1. /\ pc' = [pc EXCEPT ![t] = "get"]
        /\ job' = [job EXCEPT ![t] = [ret |-> "arena", cnt |-> 1, i |-> 0, j |-> 0]]
    BY <1>4 DEF PallocGet, Goto
  <2>2. TypesRight' /\ OthersKept(t)
    BY <1>1, <2>1, MemoryAssumption DEF MemoryInv, TypesRight, OthersKept, Points, Getting, Jobs
  <2>3. pc'[t] = "get" /\ job'[t] = [ret |-> "arena", cnt |-> 1, i |-> 0, j |-> 0]
    BY <2>1 DEF MemoryInv, TypesRight
  <2>4. CallRight(t)'
    BY <1>1, <1>2, <1>4, <2>1, <2>3 DEF CallRight, Asking, Scanning, OldRight
  <2>5. InTransit(t)' = InTransit(t)
    BY <1>1, <2>3 DEF InTransit
  <2> QED
    BY <1>1, <2>2, <2>4, <2>5, QuietStep
<1> QED
  BY <1>3, <1>4 DEF MallocLock

\* One step of bitmap_scan(), under the lock: the bits it has found free are
\* still free, as other threads at most clear bits.
LEMMA BitmapScanStep ==
  ASSUME MemoryInv, NEW t \in Threads, BitmapScan(t)
  PROVE  MemoryInv'
<1>b. PICK b : b = job[t]
  OBVIOUS
<1>1. /\ pc[t] = "scan"
      /\ UNCHANGED <<used_map, pool_lock, free_list, desc_lock, arena, held, old>>
      /\ \/ /\ b.i + b.cnt > PageCnt
            /\ job' = [job EXCEPT ![t].i = -1]
            /\ pc' = [pc EXCEPT ![t] = "got"]
         \/ /\ b.i + b.cnt <= PageCnt /\ b.j = b.cnt
            /\ job' = [job EXCEPT ![t].j = 0]
            /\ pc' = [pc EXCEPT ![t] = "mark"]
         \/ /\ b.i + b.cnt <= PageCnt /\ b.j # b.cnt
            /\ job' = [job EXCEPT ![t] = IF used_map[b.i + b.j]
                                         THEN [b EXCEPT !.i = b.i + 1, !.j = 0]
                                         ELSE [b EXCEPT !.j = b.j + 1]]
            /\ pc' = pc
  BY <1>b DEF BitmapScan, GroupFound, Goto
<1>2. /\ b \in Jobs /\ b.i \in Int /\ b.j \in Nat /\ b.cnt \in Nat /\ PageCnt \in Nat
      /\ pc \in [Threads -> Points] /\ job \in [Threads -> Jobs]
  BY <1>b, MemoryAssumption DEF MemoryInv, TypesRight, Jobs
<1>3. Asking(t) /\ Scanning(t) /\ OldRight(t) /\ b.cnt > 0
  BY <1>b, <1>1 DEF MemoryInv, CallRight, Getting, Asking
<1>4. /\ pool_lock = t /\ b.i >= 0 /\ b.j <= b.cnt
      /\ InPool(b.i, b.cnt) => \A p \in b.i..(b.i + b.j - 1) : ~used_map[p]
  BY <1>b, <1>1, <1>3 DEF Scanning
<1>5. PICK c : c = job'[t]
  OBVIOUS
<1>6. /\ c \in Jobs /\ c.ret = b.ret /\ c.cnt = b.cnt
      /\ \/ pc'[t] = "got" /\ c.i = -1 /\ b.i + b.cnt > PageCnt
         \/ pc'[t] = "mark" /\ c.i = b.i /\ c.j = 0 /\ b.i + b.cnt <= PageCnt /\ b.j = b.cnt
         \/ /\ pc'[t] = "scan" /\ b.i + b.cnt <= PageCnt /\ b.j # b.cnt
            /\ \/ c.i = b.i + 1 /\ c.j = 0
               \/ c.i = b.i /\ c.j = b.j + 1 /\ ~used_map[b.i + b.j]
  <2>1. CASE /\ b.i + b.cnt > PageCnt
             /\ job' = [job EXCEPT ![t].i = -1]
             /\ pc' = [pc EXCEPT ![t] = "got"]
    <3>1. c = [b EXCEPT !.i = -1] /\ pc'[t] = "got"
      BY <1>b, <1>2, <1>5, <2>1
    <3> QED
      BY <1>2, <2>1, <3>1 DEF Jobs
  <2>2. CASE /\ b.i + b.cnt <= PageCnt /\ b.j = b.cnt
             /\ job' = [job EXCEPT ![t].j = 0]
             /\ pc' = [pc EXCEPT ![t] = "mark"]
    <3>1. c = [b EXCEPT !.j = 0] /\ pc'[t] = "mark"
      BY <1>b, <1>2, <1>5, <2>2
    <3> QED
      BY <1>2, <2>2, <3>1 DEF Jobs
  <2>3. CASE /\ b.i + b.cnt <= PageCnt /\ b.j # b.cnt
             /\ job' = [job EXCEPT ![t] = IF used_map[b.i + b.j]
                                          THEN [b EXCEPT !.i = b.i + 1, !.j = 0]
                                          ELSE [b EXCEPT !.j = b.j + 1]]
             /\ pc' = pc
    <3>1. /\ c = IF used_map[b.i + b.j] THEN [b EXCEPT !.i = b.i + 1, !.j = 0]
                                       ELSE [b EXCEPT !.j = b.j + 1]
          /\ pc'[t] = "scan"
      BY <1>1, <1>2, <1>5, <2>3
    <3>2. CASE used_map[b.i + b.j]
      <4>1. c = [b EXCEPT !.i = b.i + 1, !.j = 0]
        BY <3>1, <3>2
      <4>d. PICK d : d = [b EXCEPT !.i = b.i + 1]
        OBVIOUS
      <4>2. d \in Jobs /\ d.ret = b.ret /\ d.cnt = b.cnt /\ d.i = b.i + 1
        BY <1>2, <4>d DEF Jobs
      <4>3. c = [d EXCEPT !.j = 0]
        BY <4>d, <4>1
      <4>4. c \in Jobs /\ c.ret = b.ret /\ c.cnt = b.cnt /\ c.i = b.i + 1 /\ c.j = 0
        BY <4>2, <4>3 DEF Jobs
      <4> QED
        BY <2>3, <3>1, <4>4
    <3>3. CASE ~used_map[b.i + b.j]
      <4>1. c = [b EXCEPT !.j = b.j + 1]
        BY <3>1, <3>3
      <4>2. c \in Jobs /\ c.ret = b.ret /\ c.cnt = b.cnt /\ c.i = b.i /\ c.j = b.j + 1
        BY <1>2, <4>1 DEF Jobs
      <4> QED
        BY <2>3, <3>1, <3>3, <4>2
    <3> QED
      BY <3>2, <3>3
  <2> QED
    BY <1>1, <2>1, <2>2, <2>3
<1>7. TypesRight' /\ OthersKept(t)
  <2>1. job' \in [Threads -> Jobs]
    BY <1>b, <1>1, <1>2, <1>5, <1>6
  <2>2. pc' \in [Threads -> Points]
    BY <1>1, <1>2 DEF Points, Getting
  <2>3. OthersKept(t)
    BY <1>1, <1>2 DEF OthersKept
  <2> QED
    BY <1>1, <2>1, <2>2, <2>3 DEF MemoryInv, TypesRight
<1>8. Scanning(t)'
  <2>1. CASE pc'[t] = "got"
    BY <1>1, <1>4, <1>5, <1>6, <2>1 DEF Scanning
  <2>2. CASE pc'[t] = "mark"
    <3>1. InPool(b.i, b.cnt)
      BY <1>2, <1>3, <1>4, <1>6, <2>2 DEF InPool
    <3>2. \A p \in (c.i + c.j)..(c.i + c.cnt - 1) : ~used_map[p]
      BY <1>2, <1>4, <1>6, <2>2, <3>1
    <3> QED
      BY <1>1, <1>2, <1>3, <1>4, <1>5, <1>6, <2>2, <3>1, <3>2 DEF Scanning, InPool
  <2>3. CASE pc'[t] = "scan"
    <3>1. /\ c.i >= 0 /\ c.j <= c.cnt
          /\ InPool(c.i, c.cnt) => \A p \in c.i..(c.i + c.j - 1) : ~used_map[p]
      <4>1. CASE c.i = b.i + 1 /\ c.j = 0
        BY <1>2, <1>4, <1>6, <4>1
      <4>2. CASE c.i = b.i /\ c.j = b.j + 1 /\ ~used_map[b.i + b.j] /\ b.j # b.cnt
        <5>1. c.i >= 0 /\ c.j <= c.cnt
          BY <1>2, <1>4, <1>6, <4>2
        <5>2. ASSUME InPool(c.i, c.cnt), NEW p \in c.i..(c.i + c.j - 1) PROVE ~used_map[p]
          <6>1. p = b.i + b.j \/ p \in b.i..(b.i + b.j - 1)
            BY <1>2, <4>2, <5>2
          <6> QED
            BY <1>4, <1>6, <4>2, <5>2, <6>1
        <5> QED
          BY <5>1, <5>2
      <4> QED
        BY <1>6, <2>3, <4>1, <4>2
    <3> QED
      BY <1>1, <1>4, <1>5, <2>3, <3>1 DEF Scanning, InPool
  <2> QED
    BY <1>6, <2>1, <2>2, <2>3
<1>9. CallRight(t)'
  <2>1. pc'[t] \in {"got", "mark", "scan"} /\ job'[t].ret = job[t].ret /\ job'[t].cnt = job[t].cnt
    BY <1>b, <1>5, <1>6
  <2> QED
    BY <1>1, <1>3, <1>8, <2>1 DEF CallRight, Asking, OldRight
<1>10. InTransit(t)' = InTransit(t)
  <2>1. InTransit(t) = {}
    BY <1>1, TransitAt
  <2>2. InTransit(t)' = {}
    <3>1. CASE pc'[t] = "mark"
      <4>1. InTransit(t)' = c.i..(c.i + c.j - 1)
        BY <1>5, <3>1 DEF InTransit
      <4> QED
        BY <1>2, <1>6, <3>1, <4>1
    <3>2. CASE pc'[t] = "got"
      BY <1>5, <1>6, <3>2 DEF InTransit
    <3>3. CASE pc'[t] = "scan"
      BY <3>3 DEF InTransit
    <3> QED
      BY <1>6, <3>1, <3>2, <3>3
  <2> QED
    BY <2>1, <2>2
<1> QED
  BY <1>1, <1>7, <1>9, <1>10, QuietStep

-----------------------------------------------------------------------------
(* Steps that set and clear bits.                                          *)

\* The other threads' calls after a step of t, and what they have in transit.
LEMMA OtherCalls ==
  ASSUME MemoryInv, NEW t \in Threads, OthersKept(t),
         pool_lock = t \/ \A p \in Pages : used_map'[p] => used_map[p],
         desc_lock \in {t, None} \/ free_list' = free_list
  PROVE  \A u \in Threads \ {t} : CallRight(u)' /\ InTransit(u)' = InTransit(u)
<1> SUFFICES ASSUME NEW u \in Threads, u # t
             PROVE  CallRight(u)' /\ InTransit(u)' = InTransit(u)
  OBVIOUS
<1>1. /\ TypesRight /\ CallRight(u) /\ u # None
      /\ pc'[u] = pc[u] /\ job'[u] = job[u] /\ old'[u] = old[u] /\ held'[u] = held[u]
      /\ pool_lock = u => pool_lock' = u
      /\ desc_lock = u => desc_lock' = u
  BY MemoryAssumption DEF MemoryInv, OthersKept
<1> QED
  BY <1>1, OtherCall

\* One bit of a group that the scan has found is set.
LEMMA BitmapMarkStep ==
  ASSUME MemoryInv, NEW t \in Threads, BitmapMark(t)
  PROVE  MemoryInv'
<1>b. PICK b : b = job[t]
  OBVIOUS
<1>p. PICK p : p = b.i + b.j
  OBVIOUS
<1>1. /\ pc[t] = "mark" /\ used_map' = [used_map EXCEPT ![p] = TRUE]
      /\ job' = [job EXCEPT ![t].j = b.j + 1]
      /\ pc' = [pc EXCEPT ![t] = IF b.j + 1 = b.cnt THEN "got" ELSE "mark"]
      /\ UNCHANGED <<pool_lock, free_list, desc_lock, arena, held, old>>
  BY <1>b, <1>p DEF BitmapMark, Goto
<1>2. /\ b \in Jobs /\ b.i \in Int /\ b.j \in Nat /\ b.cnt \in Nat /\ PageCnt \in Nat
      /\ pc \in [Threads -> Points] /\ job \in [Threads -> Jobs]
  BY <1>b, MemoryAssumption DEF MemoryInv, TypesRight, Jobs
<1>3. /\ Asking(t) /\ Scanning(t) /\ OldRight(t)
  BY <1>1 DEF MemoryInv, CallRight, Getting
<1>4. /\ pool_lock = t /\ InPool(b.i, b.cnt) /\ b.j < b.cnt
      /\ \A q \in (b.i + b.j)..(b.i + b.cnt - 1) : ~used_map[q]
  BY <1>b, <1>1, <1>3 DEF Scanning
<1>5. p \in Pages /\ ~used_map[p]
  BY <1>p, <1>2, <1>4 DEF InPool, Pages
<1>6. PICK c : c = job'[t]
  OBVIOUS
<1>7. /\ c \in Jobs /\ c.ret = b.ret /\ c.cnt = b.cnt /\ c.i = b.i /\ c.j = b.j + 1
      /\ pc'[t] = IF b.j + 1 = b.cnt THEN "got" ELSE "mark"
  BY <1>b, <1>1, <1>2, <1>6 DEF Jobs
<1>8. TypesRight' /\ OthersKept(t)
  <2>1. job' \in [Threads -> Jobs]
    BY <1>b, <1>1, <1>2, <1>6, <1>7
  <2>2. pc' \in [Threads -> Points]
    BY <1>1, <1>2 DEF Points, Getting
  <2>3. OthersKept(t)
    BY <1>1, <1>2 DEF OthersKept
  <2>4. used_map' \in [Pages -> BOOLEAN]
    BY <1>1, <1>5 DEF MemoryInv, TypesRight
  <2> QED
    BY <1>1, <2>1, <2>2, <2>3, <2>4 DEF MemoryInv, TypesRight
<1>9. CallRight(t)'
  <2>1. Scanning(t)'
    <3>1. ASSUME pc'[t] = "mark", NEW q \in (c.i + c.j)..(c.i + c.cnt - 1) PROVE ~used_map'[q]
      <4>1. q \in (b.i + b.j)..(b.i + b.cnt - 1) /\ q # p /\ q \in Pages
        BY <1>p, <1>2, <1>4, <1>7, <3>1 DEF InPool, Pages
      <4> QED
        BY <1>1, <1>4, <4>1 DEF MemoryInv, TypesRight
    <3>2. pc'[t] = "mark" => c.j < c.cnt
      BY <1>2, <1>4, <1>7
    <3> QED
      BY <1>1, <1>4, <1>6, <1>7, <3>1, <3>2 DEF Scanning, InPool
  <2>2. pc'[t] \in {"got", "mark"} /\ job'[t].ret = job[t].ret /\ job'[t].cnt = job[t].cnt
    BY <1>b, <1>6, <1>7
  <2> QED
    BY <1>1, <1>3, <2>1, <2>2 DEF CallRight, Asking, OldRight
<1>10. \A u \in Threads \ {t} : CallRight(u)' /\ InTransit(u)' = InTransit(u)
  BY <1>1, <1>4, <1>8, OtherCalls
<1>11. InTransit(t)' = InTransit(t) \cup {p}
  <2>1. InTransit(t) = b.i..(b.i + b.j - 1)
    BY <1>b, <1>1, TransitAt
  <2>2. InTransit(t)' = b.i..(b.i + b.j)
    <3>1. CASE pc'[t] = "mark"
      <4>1. InTransit(t)' = c.i..(c.i + c.j - 1)
        BY <1>6, <3>1 DEF InTransit
      <4> QED
        BY <1>2, <1>7, <4>1
    <3>2. CASE pc'[t] = "got"
      <4>1. c.i # -1
        BY <1>2, <1>4, <1>7 DEF InPool
      <4>2. InTransit(t)' = c.i..(c.i + c.cnt - 1)
        BY <1>6, <3>2, <4>1 DEF InTransit
      <4>3. c.cnt - 1 = b.j
        BY <1>2, <1>7, <3>2
      <4> QED
        BY <1>7, <4>2, <4>3
    <3> QED
      BY <1>7, <3>1, <3>2
  <2> QED
    BY <1>p, <1>2, <1>4, <2>1, <2>2 DEF InPool
<1>12. ASSUME NEW q \in Pages PROVE PageRight(q)'
  <2>1. \A u \in Threads : \A a : Holding(u, a, q)' <=> Holding(u, a, q)
    BY <1>1 DEF Holding, PagesOf
  <2>2. (q \in Arenas)' <=> q \in Arenas
    BY <1>1 DEF Arenas
  <2>3. \A u \in Threads \ {t} : Moving(u, q)' <=> Moving(u, q)
    BY <1>10 DEF Moving
  <2>4. PageRight(q)
    BY DEF MemoryInv
  <2>5. CASE q = p
    <3>1. Moving(t, q)' /\ used_map'[q]
      BY <1>1, <1>5, <1>11, <2>5 DEF Moving, MemoryInv, TypesRight
    <3> QED
      BY <1>5, <2>1, <2>2, <2>3, <2>4, <2>5, <3>1 DEF PageRight
  <2>6. CASE q # p
    <3>1. (Moving(t, q)' <=> Moving(t, q)) /\ used_map'[q] = used_map[q]
      BY <1>1, <1>11, <2>6 DEF Moving, MemoryInv, TypesRight
    <3> QED
      BY <2>1, <2>2, <2>3, <2>4, <3>1, PageSame
  <2> QED
    BY <2>5, <2>6
<1>13. BlocksRight' /\ (\A q \in Arenas : ArenaRight(q))'
  <2>1. \A u \in Threads : pc[u] = "take" => pc'[u] = "take"
    BY <1>1, <1>8 DEF OthersKept
  <2> QED
    BY <1>1, <2>1, BlocksSame DEF MemoryInv
<1> QED
  BY <1>8, <1>9, <1>10, <1>12, <1>13 DEF MemoryInv

\* One bit of what has been freed is cleared, without the lock.
LEMMA BitmapClearStep ==
  ASSUME MemoryInv, NEW t \in Threads, BitmapClear(t)
  PROVE  MemoryInv'
<1>b. PICK b : b = job[t]
  OBVIOUS
<1>p. PICK p : p = b.i + b.j
  OBVIOUS
<1>1. /\ pc[t] = "clear" /\ used_map' = [used_map EXCEPT ![p] = FALSE]
      /\ UNCHANGED <<pool_lock, free_list, arena, held, old>>
      /\ \/ /\ b.j + 1 < b.cnt /\ job' = [job EXCEPT ![t].j = b.j + 1] /\ UNCHANGED <<desc_lock, pc>>
         \/ /\ b.j + 1 = b.cnt /\ desc_lock' = IF b.ret = "unlock" THEN None ELSE desc_lock
            /\ job' = [job EXCEPT ![t] = NoJob] /\ pc' = [pc EXCEPT ![t] = "run"]
  BY <1>b, <1>p DEF BitmapClear, Goto
<1>2. /\ b \in Jobs /\ b.i \in Int /\ b.j \in Nat /\ b.cnt \in Nat /\ PageCnt \in Nat
      /\ pc \in [Threads -> Points] /\ job \in [Threads -> Jobs] /\ used_map \in [Pages -> BOOLEAN]
  BY <1>b, MemoryAssumption DEF MemoryInv, TypesRight, Jobs
<1>3. Clearing(t) /\ OldRight(t) /\ old[t] = None
  BY <1>1 DEF MemoryInv, CallRight, OldRight
<1>4. /\ b.ret \in {"run", "unlock"} /\ (b.ret = "unlock" => desc_lock = t)
      /\ InPool(b.i, b.cnt) /\ b.j < b.cnt
  BY <1>b, <1>3 DEF Clearing
<1>5. p \in Pages
  BY <1>p, <1>2, <1>4 DEF InPool, Pages
<1>6. InTransit(t) = p..(b.i + b.cnt - 1)
  BY <1>b, <1>p, <1>1, TransitAt
<1>7. /\ TypesRight' /\ OthersKept(t) /\ CallRight(t)' /\ InTransit(t)' = InTransit(t) \ {p}
      /\ \A u \in Threads : pc[u] = "take" => pc'[u] = "take"
  <2>1. used_map' \in [Pages -> BOOLEAN]
    BY <1>1, <1>2, <1>5
  <2>2. CASE b.j + 1 < b.cnt /\ job' = [job EXCEPT ![t].j = b.j + 1] /\ UNCHANGED <<desc_lock, pc>>
    <3>c. PICK c : c = job'[t]
      OBVIOUS
    <3>1. c \in Jobs /\ c.ret = b.ret /\ c.cnt = b.cnt /\ c.i = b.i /\ c.j = b.j + 1
      BY <1>b, <1>2, <2>2, <3>c DEF Jobs
    <3>2. job' \in [Threads -> Jobs]
      BY <1>b, <1>2, <2>2, <3>c, <3>1
    <3>3. TypesRight' /\ OthersKept(t)
      BY <1>1, <1>2, <2>1, <2>2, <3>2 DEF MemoryInv, TypesRight, OthersKept
    <3>4. CallRight(t)'
      <4>1. Clearing(t)'
        BY <1>4, <2>2, <3>c, <3>1 DEF Clearing, InPool
      <4> QED
        BY <1>1, <1>3, <2>2, <4>1 DEF CallRight, Scanning, OldRight, Getting
    <3>5. InTransit(t)' = (c.i + c.j)..(c.i + c.cnt - 1)
      BY <1>1, <2>2, <3>c DEF InTransit
    <3>6. InTransit(t)' = InTransit(t) \ {p}
      BY <1>p, <1>2, <1>4, <1>6, <3>1, <3>5
    <3> QED
      BY <2>2, <3>3, <3>4, <3>6
  <2>3. CASE /\ b.j + 1 = b.cnt /\ desc_lock' = IF b.ret = "unlock" THEN None ELSE desc_lock
             /\ job' = [job EXCEPT ![t] = NoJob] /\ pc' = [pc EXCEPT ![t] = "run"]
    <3>1. NoJob \in Jobs
      BY DEF NoJob, Jobs
    <3>2. TypesRight'
      BY <1>1, <1>2, <2>1, <2>3, <3>1 DEF MemoryInv, TypesRight, Points
    <3>3. OthersKept(t)
      BY <1>1, <1>2, <1>4, <2>3 DEF OthersKept
    <3>4. pc'[t] = "run"
      BY <1>2, <2>3
    <3>5. CallRight(t)'
      BY <1>1, <1>3, <3>4 DEF CallRight, Scanning, OldRight, Getting
    <3>6. InTransit(t)' = {}
      BY <3>4 DEF InTransit
    <3>7. InTransit(t) = {p}
      BY <1>p, <1>2, <1>6, <2>3
    <3>8. \A u \in Threads : pc[u] = "take" => pc'[u] = "take"
      BY <1>1, <1>2, <2>3
    <3> QED
      BY <3>2, <3>3, <3>5, <3>6, <3>7, <3>8
  <2> QED
    BY <1>1, <2>2, <2>3
<1>8. \A u \in Threads \ {t} : CallRight(u)' /\ InTransit(u)' = InTransit(u)
  BY <1>1, <1>2, <1>7, OtherCalls
<1>9. Moving(t, p)
  BY <1>p, <1>2, <1>4, <1>6 DEF Moving
<1>10. ASSUME NEW q \in Pages PROVE PageRight(q)'
  <2>1. \A u \in Threads : \A a : Holding(u, a, q)' <=> Holding(u, a, q)
    BY <1>1 DEF Holding, PagesOf
  <2>2. (q \in Arenas)' <=> q \in Arenas
    BY <1>1 DEF Arenas
  <2>3. \A u \in Threads \ {t} : Moving(u, q)' <=> Moving(u, q)
    BY <1>8 DEF Moving
  <2>4. PageRight(q)
    BY DEF MemoryInv
  <2>5. CASE q = p
    <3>1. ~Moving(t, q)' /\ ~used_map'[q] /\ Moving(t, q)
      BY <1>1, <1>2, <1>7, <1>9, <2>5 DEF Moving
    <3> QED
      BY <2>1, <2>2, <2>3, <2>4, <3>1 DEF PageRight
  <2>6. CASE q # p
    <3>1. (Moving(t, q)' <=> Moving(t, q)) /\ used_map'[q] = used_map[q]
      BY <1>1, <1>2, <1>7, <2>6 DEF Moving
    <3> QED
      BY <2>1, <2>2, <2>3, <2>4, <3>1, PageSame
  <2> QED
    BY <2>5, <2>6
<1>11. BlocksRight' /\ (\A q \in Arenas : ArenaRight(q))'
  BY <1>1, <1>7, BlocksSame DEF MemoryInv
<1> QED
  BY <1>7, <1>8, <1>10, <1>11 DEF MemoryInv

-----------------------------------------------------------------------------
(* Runs of pages change hands.                                             *)

\* Runs are taken or given back; the blocks, and the arenas they are in, stay.
LEMMA RunsMoved ==
  ASSUME MemoryInv, NEW t \in Threads, TypesRight', free_list' = free_list,
         \A u \in Threads \ {t} : held'[u] = held[u],
         \A b \in SmallBlocks : b \in held'[t] <=> b \in held[t],
         Arenas' = Arenas, \A p \in Arenas : arena'[p] = arena[p],
         \A u \in Threads : \A b \in held'[u] :
           b.kind = "big" => arena'[b.page] = [desc |-> "big", free_cnt |-> b.n],
         \A u \in Threads : pc[u] = "take" => pc'[u] = "take"
  PROVE  BlocksRight' /\ (\A p \in Arenas : ArenaRight(p))'
<1>1. \A b : \A u \in Threads : b \in held'[u] /\ b.kind = "block" => b \in SmallBlocks
  BY AllocationFacts DEF TypesRight, Allocations
<1>2. \A b \in SmallBlocks : \A u \in Threads : b \in held'[u] <=> b \in held[u]
  OBVIOUS
<1>3. BlocksRight'
  BY <1>1, <1>2 DEF MemoryInv, BlocksRight
<1>4. ASSUME NEW p \in Arenas PROVE ArenaRight(p)'
  <2>1. ArenaRight(p) /\ p \in Pages /\ Blocks(p)' = Blocks(p)
    BY <1>4 DEF MemoryInv, Arenas, Blocks
  <2>2. FreeOf(p)' = FreeOf(p)
    BY DEF FreeOf, Blocks
  <2>3. Blocks(p) \ InUse' = Blocks(p) \ InUse
    BY <1>2, <2>1, AllocationFacts DEF InUse
  <2> QED
    BY <1>4, <2>1, <2>2, <2>3 DEF ArenaRight
<1> QED
  BY <1>3, <1>4

\* A run that thread t had is in transit from now on: it is still marked.
LEMMA RunGiven ==
  ASSUME MemoryInv, NEW t \in Threads, NEW r \in Runs, r \in held[t],
         held' = [held EXCEPT ![t] = held[t] \ {r}], used_map' = used_map, Arenas' = Arenas,
         InTransit(t) = {}, InTransit(t)' = PagesOf(r),
         \A u \in Threads \ {t} : InTransit(u)' = InTransit(u)
  PROVE  \A q \in Pages : PageRight(q)'
<1> SUFFICES ASSUME NEW q \in Pages PROVE PageRight(q)'
  OBVIOUS
<1>1. \A u \in Threads : \A a : Holding(u, a, q)' <=> Holding(u, a, q) /\ ~(u = t /\ a = r)
  <2>1. \A a : PagesOf(a)' = PagesOf(a)
    BY DEF PagesOf
  <2>2. held'[t] = held[t] \ {r} /\ \A u \in Threads \ {t} : held'[u] = held[u]
    BY DEF MemoryInv, TypesRight
  <2> QED
    BY <2>1, <2>2 DEF Holding
<1>2. PageRight(q)
  BY DEF MemoryInv
<1>3. /\ ~Moving(t, q) /\ (Moving(t, q)' <=> q \in PagesOf(r))
      /\ \A u \in Threads \ {t} : Moving(u, q)' <=> Moving(u, q)
  BY DEF Moving
<1>4. Holding(t, r, q) <=> q \in PagesOf(r)
  BY AllocationFacts DEF Holding
<1> QED
  BY <1>1, <1>2, <1>3, <1>4 DEF PageRight

\* palloc_free_multiple() begins: the run is no longer the thread's, and still
\* marked.
LEMMA PallocFreeStep ==
  ASSUME MemoryInv, NEW t \in Threads, NEW b, PallocFree(t, b)
  PROVE  MemoryInv'
<1>1. /\ pc[t] = "run" /\ b \in held[t] /\ b.kind = "pages"
      /\ held' = [held EXCEPT ![t] = held[t] \ {b}]
      /\ job' = [job EXCEPT ![t] = [ret |-> "run", cnt |-> b.n, i |-> b.page, j |-> 0]]
      /\ pc' = [pc EXCEPT ![t] = "clear"]
      /\ UNCHANGED <<used_map, pool_lock, free_list, desc_lock, arena, old>>
  BY DEF PallocFree, Goto
<1>2. /\ b \in Runs /\ b.page \in Nat /\ b.n \in Nat /\ InPool(b.page, b.n)
      /\ PagesOf(b) = b.page..(b.page + b.n - 1)
  BY <1>1, AllocationFacts DEF MemoryInv, TypesRight, Pages
<1>3. /\ TypesRight' /\ OthersKept(t)
  <2>1. [ret |-> "run", cnt |-> b.n, i |-> b.page, j |-> 0] \in Jobs
    BY <1>2 DEF Jobs
  <2> QED
    BY <1>1, <2>1 DEF MemoryInv, TypesRight, OthersKept, Points
<1>4. /\ pc'[t] = "clear" /\ job'[t] = [ret |-> "run", cnt |-> b.n, i |-> b.page, j |-> 0]
      /\ held'[t] = held[t] \ {b} /\ old[t] = None
  BY <1>1 DEF MemoryInv, TypesRight, CallRight, OldRight
<1>5. CallRight(t)'
  <2>1. Clearing(t)'
    BY <1>2, <1>4 DEF Clearing, InPool
  <2> QED
    BY <1>1, <1>4, <2>1 DEF CallRight, Scanning, OldRight, Getting
<1>6. \A u \in Threads \ {t} : CallRight(u)' /\ InTransit(u)' = InTransit(u)
  BY <1>1, <1>3, OtherCalls
<1>7. InTransit(t) = {} /\ InTransit(t)' = PagesOf(b)
  <2>1. InTransit(t)' = (b.page + 0)..(b.page + b.n - 1)
    BY <1>4 DEF InTransit
  <2> QED
    BY <1>1, <1>2, <2>1, TransitAt
<1>8. Arenas' = Arenas
  BY <1>1 DEF Arenas
<1>9. \A q \in Pages : PageRight(q)'
  BY <1>1, <1>2, <1>6, <1>7, <1>8, RunGiven
<1>10. BlocksRight' /\ (\A q \in Arenas : ArenaRight(q))'
  <2>1. \A c \in SmallBlocks : c \in held'[t] <=> c \in held[t]
    BY <1>1, <1>4, AllocationFacts
  <2>2. \A p \in Arenas : arena'[p] = arena[p]
    BY <1>1
  <2>3. \A u \in Threads : \A c \in held'[u] :
          c.kind = "big" => arena'[c.page] = [desc |-> "big", free_cnt |-> c.n]
    BY <1>1, <1>3, <1>4 DEF MemoryInv, BlocksRight, OthersKept
  <2>4. \A u \in Threads : pc[u] = "take" => pc'[u] = "take"
    BY <1>1, <1>3 DEF OthersKept
  <2>5. \A u \in Threads \ {t} : held'[u] = held[u]
    BY <1>1, <1>3 DEF MemoryInv, TypesRight
  <2> QED
    BY <1>1, <1>3, <1>8, <2>1, <2>2, <2>3, <2>4, <2>5, RunsMoved
<1> QED
  BY <1>3, <1>5, <1>6, <1>9, <1>10 DEF MemoryInv

\* What the four ways out of palloc_get_multiple() have in common.
LEMMA ReturnFrom ==
  ASSUME MemoryInv, NEW t \in Threads, PallocReturn(t)
  PROVE  /\ pc[t] = "got" /\ pool_lock = t /\ pool_lock' = None /\ used_map' = used_map
         /\ job' = [job EXCEPT ![t] = NoJob] /\ NoJob \in Jobs
         /\ Asking(t) /\ OldRight(t) /\ job[t].cnt \in Nat /\ job[t].i \in Int
         /\ job[t].i # -1 => /\ InPool(job[t].i, job[t].cnt) /\ job[t].i \in Pages
                             /\ InTransit(t) = job[t].i..(job[t].i + job[t].cnt - 1)
<1>1. pc[t] = "got" /\ used_map' = used_map /\ job' = [job EXCEPT ![t] = NoJob] /\ NoJob \in Jobs
  BY DEF PallocReturn, NoJob, Jobs
<1>2. Asking(t) /\ OldRight(t) /\ Scanning(t) /\ job[t].cnt \in Nat /\ job[t].i \in Int
  BY <1>1 DEF MemoryInv, CallRight, Getting, TypesRight, Jobs
<1>3. pool_lock = t /\ (job[t].i # -1 => InPool(job[t].i, job[t].cnt))
  BY <1>1, <1>2 DEF Scanning
<1>4. pool_lock' = None
  BY <1>3 DEF PallocReturn
<1>5. job[t].i # -1 => job[t].i \in Pages
  BY <1>2, <1>3, MemoryAssumption DEF InPool, Pages
<1> QED
  BY <1>1, <1>2, <1>3, <1>4, <1>5, TransitAt

\* There was no group of pages: the caller gets a null pointer, and malloc()
\* gives its lock back.
LEMMA NothingFound ==
  ASSUME MemoryInv, NEW t \in Threads, PallocReturn(t), job[t].i = -1
  PROVE  MemoryInv'
<1>1. /\ pc' = [pc EXCEPT ![t] = "run"] /\ old' = [old EXCEPT ![t] = None]
      /\ desc_lock' = IF job[t].ret = "arena" THEN None ELSE desc_lock
      /\ UNCHANGED <<free_list, arena, held, used_map>>
  BY DEF PallocReturn, Goto
<1>2. TypesRight'
  BY <1>1, ReturnFrom DEF MemoryInv, TypesRight, Points
<1>3. job[t].ret = "arena" => desc_lock = t
  BY ReturnFrom DEF Asking
<1>4. OthersKept(t)
  BY <1>1, <1>3, ReturnFrom DEF OthersKept, MemoryInv, TypesRight
<1>5. pc'[t] = "run" /\ old'[t] = None
  BY <1>1 DEF MemoryInv, TypesRight
<1>6. CallRight(t)'
  BY <1>5 DEF CallRight, Scanning, OldRight, Getting
<1>7. InTransit(t)' = InTransit(t) /\ pc[t] # "take"
  <2>1. InTransit(t) = {}
    BY ReturnFrom, TransitAt
  <2>2. InTransit(t)' = {}
    BY <1>5 DEF InTransit
  <2> QED
    BY <2>1, <2>2, ReturnFrom
<1> QED
  BY <1>1, <1>2, <1>4, <1>6, <1>7, QuietStep

\* A run has been found and becomes the thread's: a page that was in transit
\* is now in the run.
LEMMA RunTaken ==
  ASSUME MemoryInv, NEW t \in Threads, NEW r \in Runs,
         held' = [held EXCEPT ![t] = held[t] \cup {r}], used_map' = used_map, Arenas' = Arenas,
         InTransit(t) = PagesOf(r), InTransit(t)' = {},
         \A u \in Threads \ {t} : InTransit(u)' = InTransit(u)
  PROVE  \A q \in Pages : PageRight(q)'
<1> SUFFICES ASSUME NEW q \in Pages PROVE PageRight(q)'
  OBVIOUS
<1>1. \A u \in Threads : \A a : Holding(u, a, q)' <=> Holding(u, a, q) \/ (u = t /\ a = r /\ q \in PagesOf(r))
  <2>1. \A a : PagesOf(a)' = PagesOf(a)
    BY DEF PagesOf
  <2>2. held'[t] = held[t] \cup {r} /\ \A u \in Threads \ {t} : held'[u] = held[u]
    BY DEF MemoryInv, TypesRight
  <2>3. r.kind # "block"
    BY AllocationFacts
  <2> QED
    BY <2>1, <2>2, <2>3 DEF Holding
<1>2. PageRight(q)
  BY DEF MemoryInv
<1>3. /\ ~Moving(t, q)' /\ (Moving(t, q) <=> q \in PagesOf(r))
      /\ \A u \in Threads \ {t} : Moving(u, q)' <=> Moving(u, q)
  BY DEF Moving
<1> QED
  BY <1>1, <1>2, <1>3 DEF PageRight

\* palloc_get_multiple() returns pages to its caller.
LEMMA PagesFound ==
  ASSUME MemoryInv, NEW t \in Threads, PallocReturn(t), job[t].i # -1, job[t].ret = "pages"
  PROVE  MemoryInv'
<1>r. PICK r : r = [kind |-> "pages", page |-> job[t].i, n |-> job[t].cnt]
  OBVIOUS
<1>1. /\ pc' = [pc EXCEPT ![t] = "run"] /\ held' = [held EXCEPT ![t] = held[t] \cup {r}]
      /\ UNCHANGED <<free_list, desc_lock, arena, old>>
  BY <1>r DEF PallocReturn, Goto
<1>2. r \in Runs /\ r.kind = "pages" /\ PagesOf(r) = InTransit(t)
  <2>1. r \in Runs
    <3>1. /\ job[t].i \in Pages /\ job[t].cnt \in 1..PageCnt
          /\ job[t].i + job[t].cnt <= PageCnt
      BY ReturnFrom, MemoryAssumption DEF InPool
    <3> QED
      BY <1>r, <3>1 DEF Runs
  <2> QED
    BY <1>r, <2>1, ReturnFrom, AllocationFacts
<1>3. TypesRight' /\ OthersKept(t)
  BY <1>1, <1>2, ReturnFrom DEF MemoryInv, TypesRight, OthersKept, Points, Allocations
<1>4. pc'[t] = "run" /\ held'[t] = held[t] \cup {r} /\ old'[t] = None
  BY <1>1, ReturnFrom DEF MemoryInv, TypesRight, Asking
<1>5. CallRight(t)'
  BY <1>4 DEF CallRight, Scanning, OldRight, Getting
<1>6. \A u \in Threads \ {t} : CallRight(u)' /\ InTransit(u)' = InTransit(u)
  BY <1>1, <1>3, ReturnFrom, OtherCalls
<1>7. InTransit(t)' = {}
  BY <1>4 DEF InTransit
<1>8. Arenas' = Arenas
  BY <1>1 DEF Arenas
<1>9. \A q \in Pages : PageRight(q)'
  BY <1>1, <1>2, <1>6, <1>7, <1>8, ReturnFrom, RunTaken
<1>10. BlocksRight' /\ (\A q \in Arenas : ArenaRight(q))'
  <2>1. \A c \in SmallBlocks : c \in held'[t] <=> c \in held[t]
    BY <1>2, <1>4, AllocationFacts
  <2>2. \A p \in Arenas : arena'[p] = arena[p]
    BY <1>1
  <2>3. \A u \in Threads : \A c \in held'[u] :
          c.kind = "big" => arena'[c.page] = [desc |-> "big", free_cnt |-> c.n]
    BY <1>1, <1>2, <1>3, <1>4 DEF MemoryInv, BlocksRight, OthersKept
  <2>4. \A u \in Threads : pc[u] = "take" => pc'[u] = "take"
    BY <1>3, ReturnFrom DEF OthersKept
  <2>5. \A u \in Threads \ {t} : held'[u] = held[u]
    BY <1>3 DEF OthersKept
  <2> QED
    BY <1>1, <1>3, <1>8, <2>1, <2>2, <2>3, <2>4, <2>5, RunsMoved
<1> QED
  BY <1>3, <1>5, <1>6, <1>9, <1>10 DEF MemoryInv

\* malloc() gets the pages of a big block and writes its arena; free() will
\* find there how many they are.
LEMMA BigFound ==
  ASSUME MemoryInv, NEW t \in Threads, PallocReturn(t), job[t].i # -1, job[t].ret = "big"
  PROVE  MemoryInv'
<1>k. PICK k : k = job[t].i
  OBVIOUS
<1>r. PICK r : r = [kind |-> "big", page |-> k, n |-> job[t].cnt]
  OBVIOUS
<1>1. /\ arena' = [arena EXCEPT ![k] = [desc |-> "big", free_cnt |-> job[t].cnt]]
      /\ held' = [held EXCEPT ![t] = held[t] \cup {r}]
      /\ pc' = [pc EXCEPT ![t] = IF old[t] = None THEN "run" ELSE "free"]
      /\ UNCHANGED <<free_list, desc_lock, old>>
  BY <1>k, <1>r DEF PallocReturn, Returns, Goto
<1>2. /\ r \in Runs /\ r.kind = "big" /\ PagesOf(r) = InTransit(t) /\ k \in Pages
      /\ r.page = k /\ r.n = job[t].cnt /\ k \in PagesOf(r)
  <2>1. r \in Runs /\ r.page = k /\ r.n = job[t].cnt
    BY <1>k, <1>r, ReturnFrom, MemoryAssumption DEF Runs, InPool, Pages
  <2> QED
    BY <1>k, <1>r, <2>1, ReturnFrom, AllocationFacts
<1>3. TypesRight' /\ OthersKept(t)
  <2>1. arena' \in [Pages -> [desc : {None, "small", "big"}, free_cnt : Nat]]
    BY <1>1, <1>2, ReturnFrom DEF MemoryInv, TypesRight
  <2>2. held' \in [Threads -> SUBSET Allocations]
    BY <1>1, <1>2 DEF MemoryInv, TypesRight, Allocations
  <2>3. pc' \in [Threads -> Points] /\ job' \in [Threads -> Jobs]
    BY <1>1, ReturnFrom DEF MemoryInv, TypesRight, Points
  <2>4. OthersKept(t)
    BY <1>1, ReturnFrom DEF MemoryInv, TypesRight, OthersKept
  <2> QED
    BY <1>1, <2>1, <2>2, <2>3, <2>4, ReturnFrom DEF MemoryInv, TypesRight
<1>4. /\ pc'[t] = IF old[t] = None THEN "run" ELSE "free"
      /\ held'[t] = held[t] \cup {r} /\ old'[t] = old[t]
  BY <1>1, ReturnFrom DEF MemoryInv, TypesRight
<1>5. CallRight(t)'
  BY <1>4, ReturnFrom DEF CallRight, Scanning, OldRight, Getting
<1>6. \A u \in Threads \ {t} : CallRight(u)' /\ InTransit(u)' = InTransit(u)
  BY <1>1, <1>3, ReturnFrom, OtherCalls
<1>7. InTransit(t)' = {}
  BY <1>4 DEF InTransit
<1>8. PageRight(k) /\ Moving(t, k)
  BY <1>2 DEF MemoryInv, Moving
<1>9. k \notin Arenas /\ Arenas' = Arenas
  <2>1. k \notin Arenas
    BY <1>8 DEF PageRight
  <2> QED
    BY <1>1, <1>2, <2>1 DEF Arenas, MemoryInv, TypesRight
<1>10. \A q \in Pages : PageRight(q)'
  BY <1>1, <1>2, <1>6, <1>7, <1>9, ReturnFrom, RunTaken
<1>11. BlocksRight' /\ (\A q \in Arenas : ArenaRight(q))'
  <2>1. \A c \in SmallBlocks : c \in held'[t] <=> c \in held[t]
    BY <1>2, <1>4, AllocationFacts
  <2>2. \A p \in Arenas : arena'[p] = arena[p]
    BY <1>1, <1>9 DEF Arenas, MemoryInv, TypesRight
  <2>3. ASSUME NEW u \in Threads, NEW c \in held'[u], c.kind = "big"
        PROVE  arena'[c.page] = [desc |-> "big", free_cnt |-> c.n]
    <3>1. CASE c = r
      BY <1>1, <1>2, <3>1 DEF MemoryInv, TypesRight
    <3>2. CASE c # r
      <4>1. c \in held[u]
        BY <1>3, <1>4, <2>3, <3>2 DEF OthersKept
      <4>2. c \in Runs
        BY <2>3, <4>1, AllocationFacts DEF MemoryInv, TypesRight, Allocations
      <4>3. c.page \in Pages /\ Holding(u, c, c.page)
        BY <2>3, <4>1, <4>2, AllocationFacts DEF Holding
      <4>4. c.page # k
        BY <1>8, <4>3 DEF PageRight
      <4> QED
        BY <1>1, <2>3, <4>1, <4>3, <4>4 DEF MemoryInv, TypesRight, BlocksRight
    <3> QED
      BY <3>1, <3>2
  <2>4. \A u \in Threads : pc[u] = "take" => pc'[u] = "take"
    BY <1>3, ReturnFrom DEF OthersKept
  <2>5. \A u \in Threads \ {t} : held'[u] = held[u]
    BY <1>3 DEF OthersKept
  <2> QED
    BY <1>1, <1>3, <1>9, <2>1, <2>2, <2>3, <2>4, <2>5, RunsMoved
<1> QED
  BY <1>3, <1>5, <1>6, <1>10, <1>11 DEF MemoryInv

-----------------------------------------------------------------------------
(* Blocks change hands, and arenas come and go.                            *)

\* The blocks that malloc() makes of a page.
LEMMA NewBlocks ==
  ASSUME NEW k \in Pages, NEW s,
         s = [i \in 1..BlocksPerArena |-> [kind |-> "block", page |-> k, n |-> i - 1]]
  PROVE  s \in Seq(SmallBlocks) /\ Range(s) = Blocks(k) /\ IsInjective(s) /\ s # <<>>
<1>1. BlocksPerArena \in Nat /\ BlocksPerArena > 0 /\ DOMAIN s = 1..BlocksPerArena
  BY MemoryAssumption
<1>2. \A i \in 1..BlocksPerArena : i - 1 \in 0..(BlocksPerArena - 1) /\ s[i].n = i - 1
  BY <1>1
<1>3. \A i \in 1..BlocksPerArena : s[i] \in Blocks(k)
  BY <1>2 DEF Blocks
<1>4. Range(s) = Blocks(k)
  <2>1. ASSUME NEW b \in Blocks(k) PROVE b \in Range(s)
    <3>1. PICK i \in 0..(BlocksPerArena - 1) : b = [kind |-> "block", page |-> k, n |-> i]
      BY DEF Blocks
    <3>2. i + 1 \in DOMAIN s /\ (i + 1) - 1 = i
      BY <1>1
    <3>3. s[i + 1] = b
      BY <3>1, <3>2
    <3> QED
      BY <3>2, <3>3 DEF Range
  <2> QED
    BY <1>1, <1>3, <2>1 DEF Range
<1>5. IsInjective(s)
  <2> SUFFICES ASSUME NEW i \in DOMAIN s, NEW j \in DOMAIN s, s[i] = s[j] PROVE i = j
    BY DEF IsInjective
  <2>1. i - 1 = j - 1
    BY <1>1, <1>2
  <2> QED
    BY <1>1, <2>1
<1>6. s \in Seq(SmallBlocks)
  <2>1. s \in [1..BlocksPerArena -> SmallBlocks]
    BY <1>3, AllocationFacts
  <2> QED
    BY <1>1, <2>1
<1>7. s # <<>>
  <2>1. 1 \in DOMAIN s
    BY <1>1
  <2>2. DOMAIN <<>> = {}
    BY EmptySeq, LenProperties
  <2> QED
    BY <2>1, <2>2
<1> QED
  BY <1>4, <1>5, <1>6, <1>7

\* Unless a thread holds the descriptor's lock and is about to take a block,
\* every arena has a block in use.
LEMMA NoArenaFull ==
  ASSUME MemoryInv, NEW p \in Arenas
  PROVE  /\ p \in Pages /\ arena[p].free_cnt \in Nat /\ arena[p].free_cnt <= BlocksPerArena
         /\ IsFiniteSet(FreeOf(p)) /\ FreeOf(p) \subseteq Blocks(p)
         /\ arena[p].free_cnt = Cardinality(FreeOf(p))
         /\ desc_lock = None => arena[p].free_cnt # BlocksPerArena
         /\ \A t \in Threads : desc_lock = t /\ pc[t] # "take" => arena[p].free_cnt # BlocksPerArena
<1>1. /\ p \in Pages /\ arena[p].free_cnt \in Nat /\ FreeOf(p) \subseteq Blocks(p)
      /\ ArenaRight(p)
  BY DEF MemoryInv, TypesRight, Arenas, FreeOf
<1>2. IsFiniteSet(FreeOf(p)) /\ Cardinality(FreeOf(p)) <= BlocksPerArena
  BY <1>1, BlockCount, FS_Subset
<1>3. arena[p].free_cnt = BlocksPerArena => \E u \in Threads : desc_lock = u /\ pc[u] = "take"
  BY <1>1 DEF ArenaRight, MemoryInv, CallRight
<1> QED
  BY <1>1, <1>2, <1>3, MemoryAssumption DEF ArenaRight

\* When only blocks change hands, the pages' uses stay.
LEMMA BlockMoved ==
  ASSUME MemoryInv, TypesRight', used_map' = used_map, Arenas' = Arenas,
         \A u \in Threads : InTransit(u)' = InTransit(u),
         \A u \in Threads : \A b \in Runs : b \in held'[u] <=> b \in held[u]
  PROVE  \A q \in Pages : PageRight(q)'
<1> SUFFICES ASSUME NEW q \in Pages PROVE PageRight(q)'
  OBVIOUS
<1>1. \A u \in Threads : \A b : Holding(u, b, q)' <=> Holding(u, b, q)
  <2>1. \A b : PagesOf(b)' = PagesOf(b)
    BY DEF PagesOf
  <2>2. \A u \in Threads : held[u] \subseteq Allocations /\ held'[u] \subseteq Allocations
    BY DEF MemoryInv, TypesRight
  <2> QED
    BY <2>1, <2>2, AllocationFacts DEF Holding
<1> QED
  BY <1>1, PageSame DEF MemoryInv, Moving

\* malloc() takes the first free block.  An arena that was all free is no
\* longer so, and there was no other.
LEMMA MallocTakeStep ==
  ASSUME MemoryInv, NEW t \in Threads, MallocTake(t)
  PROVE  MemoryInv'
<1>h. PICK h : h = Head(free_list)
  OBVIOUS
<1>k. PICK k : k = h.page
  OBVIOUS
<1>1. /\ pc[t] = "take" /\ free_list' = Tail(free_list)
      /\ arena' = [arena EXCEPT ![k].free_cnt = arena[k].free_cnt - 1]
      /\ desc_lock' = None
      /\ held' = [held EXCEPT ![t] = held[t] \cup {h}]
      /\ pc' = [pc EXCEPT ![t] = IF old[t] = None THEN "run" ELSE "free"]
      /\ UNCHANGED <<used_map, pool_lock, job, old>>
  BY <1>h, <1>k DEF MallocTake, Returns, Goto
<1>2. desc_lock = t /\ free_list # <<>> /\ free_list \in Seq(SmallBlocks) /\ OldRight(t)
  BY <1>1 DEF MemoryInv, CallRight, TypesRight
<1>3. /\ h \in SmallBlocks /\ h \in Range(free_list) /\ Tail(free_list) \in Seq(SmallBlocks)
      /\ Range(free_list') = Range(free_list) \ {h} /\ IsInjective(free_list')
  BY <1>h, <1>1, <1>2, TailList DEF MemoryInv, BlocksRight
<1>4. /\ k \in Pages /\ h \in Blocks(k) /\ h.kind = "block" /\ k \in Arenas
      /\ h \in FreeOf(k)
  BY <1>k, <1>3, AllocationFacts DEF MemoryInv, BlocksRight, FreeOf
<1>5. /\ arena[k].free_cnt \in Nat /\ arena[k].free_cnt <= BlocksPerArena
      /\ arena[k].free_cnt - 1 = Cardinality(FreeOf(k) \ {h}) /\ arena[k].free_cnt - 1 \in Nat
  <2>1. /\ IsFiniteSet(FreeOf(k)) /\ arena[k].free_cnt = Cardinality(FreeOf(k))
        /\ arena[k].free_cnt \in Nat /\ arena[k].free_cnt <= BlocksPerArena
    BY <1>4, NoArenaFull
  <2>2. IsFiniteSet(FreeOf(k) \ {h}) /\ Cardinality(FreeOf(k) \ {h}) = Cardinality(FreeOf(k)) - 1
    BY <1>4, <2>1, FS_RemoveElement
  <2> QED
    BY <2>1, <2>2, FS_CardinalityType
<1>6. TypesRight' /\ OthersKept(t)
  <2>1. arena' \in [Pages -> [desc : {None, "small", "big"}, free_cnt : Nat]]
    BY <1>1, <1>4, <1>5 DEF MemoryInv, TypesRight
  <2>2. held' \in [Threads -> SUBSET Allocations] /\ pc' \in [Threads -> Points]
    BY <1>1, <1>3 DEF MemoryInv, TypesRight, Allocations, Points
  <2>3. OthersKept(t)
    BY <1>1, <1>2 DEF MemoryInv, TypesRight, OthersKept
  <2> QED
    BY <1>1, <1>3, <2>1, <2>2, <2>3 DEF MemoryInv, TypesRight
<1>7. /\ pc'[t] = IF old[t] = None THEN "run" ELSE "free"
      /\ held'[t] = held[t] \cup {h} /\ old'[t] = old[t]
  BY <1>1 DEF MemoryInv, TypesRight
<1>8. CallRight(t)'
  BY <1>2, <1>7 DEF CallRight, Scanning, OldRight, Getting
<1>9. \A u \in Threads \ {t} : CallRight(u)' /\ InTransit(u)' = InTransit(u)
  BY <1>1, <1>2, <1>6, OtherCalls
<1>10. InTransit(t) = {} /\ InTransit(t)' = {}
  BY <1>1, <1>7 DEF InTransit
<1>11. /\ \A p \in Pages : arena'[p].desc = arena[p].desc
       /\ \A p \in Pages \ {k} : arena'[p] = arena[p]
       /\ arena'[k].free_cnt = arena[k].free_cnt - 1
  BY <1>1, <1>4 DEF MemoryInv, TypesRight
<1>12. Arenas' = Arenas
  BY <1>11 DEF Arenas
<1>13. \A q \in Pages : PageRight(q)'
  <2>1. \A u \in Threads : \A b \in Runs : b \in held'[u] <=> b \in held[u]
    BY <1>4, <1>6, <1>7, AllocationFacts DEF OthersKept
  <2> QED
    BY <1>1, <1>6, <1>9, <1>10, <1>12, <2>1, BlockMoved
<1>14. h \notin InUse /\ InUse' = InUse \cup {h}
  <2>1. h \notin InUse
    BY <1>4 DEF MemoryInv, ArenaRight
  <2> QED
    BY <1>6, <1>7, <2>1 DEF InUse, OthersKept
<1>15. BlocksRight'
  <2>1. \A b \in Range(free_list') : b.page \in Arenas'
    BY <1>3, <1>12 DEF MemoryInv, BlocksRight
  <2>2. ASSUME NEW u \in Threads, NEW v \in Threads, NEW b \in held'[u] \cap held'[v], b.kind = "block"
        PROVE  u = v
    <3>1. CASE b = h
      BY <1>6, <1>7, <1>14, <2>2, <3>1 DEF InUse, OthersKept
    <3>2. CASE b # h
      <4>1. b \in held[u] \cap held[v]
        BY <1>6, <1>7, <2>2, <3>2 DEF OthersKept
      <4> QED
        BY <2>2, <4>1 DEF MemoryInv, BlocksRight
    <3> QED
      BY <3>1, <3>2
  <2>3. ASSUME NEW u \in Threads, NEW b \in held'[u]
        PROVE  /\ b.kind = "block" => b.page \in Arenas'
               /\ b.kind = "big" => arena'[b.page] = [desc |-> "big", free_cnt |-> b.n]
    <3>1. CASE b = h
      BY <1>k, <1>4, <1>12, <3>1
    <3>2. CASE b # h
      <4>1. b \in held[u] /\ b \in Allocations
        BY <1>6, <1>7, <2>3, <3>2 DEF OthersKept, MemoryInv, TypesRight
      <4>2. b.kind = "block" => b.page \in Arenas'
        BY <1>12, <4>1 DEF MemoryInv, BlocksRight
      <4>3. ASSUME b.kind = "big" PROVE arena'[b.page] = [desc |-> "big", free_cnt |-> b.n]
        <5>1. arena[b.page] = [desc |-> "big", free_cnt |-> b.n] /\ b.page \in Pages
          BY <4>1, <4>3, AllocationFacts DEF MemoryInv, BlocksRight
        <5>2. b.page # k
          BY <1>4, <5>1 DEF Arenas
        <5> QED
          BY <1>11, <5>1, <5>2
      <4> QED
        BY <4>2, <4>3
    <3> QED
      BY <3>1, <3>2
  <2> QED
    BY <1>3, <2>1, <2>2, <2>3 DEF BlocksRight
<1>16. ASSUME NEW p \in Arenas PROVE ArenaRight(p)'
  <2>1. /\ p \in Pages /\ ArenaRight(p) /\ Blocks(p)' = Blocks(p)
        /\ FreeOf(p)' = FreeOf(p) \ {h}
    BY <1>3, <1>16 DEF MemoryInv, Arenas, Blocks, FreeOf
  <2>2. FreeOf(p)' = Blocks(p) \ InUse'
    BY <1>14, <2>1 DEF ArenaRight
  <2>3. CASE p = k
    BY <1>5, <1>11, <2>1, <2>2, <2>3, MemoryAssumption DEF ArenaRight
  <2>4. CASE p # k
    <3>1. h \notin Blocks(p) /\ arena'[p] = arena[p]
      BY <1>k, <1>11, <2>1, <2>4, AllocationFacts
    <3>2. FreeOf(p)' = FreeOf(p)
      BY <2>1, <3>1 DEF FreeOf
    <3>3. arena[p].free_cnt # BlocksPerArena
      BY <1>3, <2>1, <3>1 DEF ArenaRight
    <3> QED
      BY <2>1, <2>2, <3>1, <3>2, <3>3 DEF ArenaRight
  <2> QED
    BY <2>3, <2>4
<1> QED
  BY <1>6, <1>8, <1>9, <1>12, <1>13, <1>15, <1>16 DEF MemoryInv

\* malloc() gets a page for a new arena and puts all its blocks on the list,
\* which was empty.
LEMMA ArenaFound ==
  ASSUME MemoryInv, NEW t \in Threads, PallocReturn(t), job[t].i # -1, job[t].ret = "arena"
  PROVE  MemoryInv'
<1>k. PICK k : k = job[t].i
  OBVIOUS
<1>s. PICK s : s = [i \in 1..BlocksPerArena |-> [kind |-> "block", page |-> k, n |-> i - 1]]
  OBVIOUS
<1>1. /\ arena' = [arena EXCEPT ![k] = [desc |-> "small", free_cnt |-> BlocksPerArena]]
      /\ free_list' = free_list \o s
      /\ pc' = [pc EXCEPT ![t] = "take"]
      /\ UNCHANGED <<desc_lock, held, old>>
  BY <1>k, <1>s DEF PallocReturn, Goto
<1>2. /\ k \in Pages /\ InTransit(t) = {k} /\ desc_lock = t /\ free_list = <<>>
  <2>1. job[t].cnt = 1 /\ desc_lock = t /\ free_list = <<>> /\ k \in Pages /\ k \in Int
    BY <1>k, ReturnFrom DEF Asking
  <2>2. InTransit(t) = k..(k + 1 - 1)
    BY <1>k, <2>1, ReturnFrom
  <2> QED
    BY <2>1, <2>2
<1>3. /\ s \in Seq(SmallBlocks) /\ Range(s) = Blocks(k) /\ IsInjective(s) /\ s # <<>>
  BY <1>s, <1>2, NewBlocks
<1>4. free_list' = s
  BY <1>1, <1>2, <1>3, ConcatEmptySeq
<1>5. PageRight(k) /\ Moving(t, k) /\ k \notin Arenas
  <2>1. PageRight(k) /\ Moving(t, k)
    BY <1>2 DEF MemoryInv, Moving
  <2> QED
    BY <2>1 DEF PageRight
<1>6. TypesRight' /\ OthersKept(t)
  <2>1. arena' \in [Pages -> [desc : {None, "small", "big"}, free_cnt : Nat]]
    BY <1>1, <1>2, MemoryAssumption DEF MemoryInv, TypesRight
  <2>2. pc' \in [Threads -> Points] /\ job' \in [Threads -> Jobs]
    BY <1>1, ReturnFrom DEF MemoryInv, TypesRight, Points
  <2>3. OthersKept(t)
    BY <1>1, ReturnFrom DEF MemoryInv, TypesRight, OthersKept
  <2> QED
    BY <1>1, <1>3, <1>4, <2>1, <2>2, <2>3, ReturnFrom DEF MemoryInv, TypesRight
<1>7. pc'[t] = "take" /\ InTransit(t)' = {}
  <2>1. pc'[t] = "take"
    BY <1>1 DEF MemoryInv, TypesRight
  <2> QED
    BY <2>1 DEF InTransit
<1>8. CallRight(t)'
  <2>1. OldRight(t)'
    BY <1>1, <1>7, ReturnFrom DEF OldRight
  <2> QED
    BY <1>1, <1>2, <1>3, <1>4, <1>7, <2>1 DEF CallRight, Scanning, Getting
<1>9. \A u \in Threads \ {t} : CallRight(u)' /\ InTransit(u)' = InTransit(u)
  BY <1>2, <1>6, ReturnFrom, OtherCalls
<1>10. /\ \A p \in Pages \ {k} : arena'[p] = arena[p]
       /\ arena'[k] = [desc |-> "small", free_cnt |-> BlocksPerArena]
  BY <1>1, <1>2 DEF MemoryInv, TypesRight
<1>11. Arenas' = Arenas \cup {k}
  BY <1>2, <1>10 DEF Arenas
<1>12. ASSUME NEW q \in Pages PROVE PageRight(q)'
  <2>1. \A u \in Threads : \A a : Holding(u, a, q)' <=> Holding(u, a, q)
    BY <1>1 DEF Holding, PagesOf
  <2>2. /\ \A u \in Threads \ {t} : Moving(u, q)' <=> Moving(u, q)
        /\ ~Moving(t, q)' /\ (Moving(t, q) <=> q = k)
    BY <1>2, <1>7, <1>9 DEF Moving
  <2>3. PageRight(q) /\ used_map' = used_map /\ ((q \in Arenas)' <=> q \in Arenas \/ q = k)
    BY <1>11, ReturnFrom DEF MemoryInv
  <2> QED
    BY <2>1, <2>2, <2>3 DEF PageRight
<1>13. BlocksRight'
  <2>1. \A b \in Range(free_list') : b.page \in Arenas'
    BY <1>2, <1>3, <1>4, <1>11, AllocationFacts
  <2>2. ASSUME NEW u \in Threads, NEW b \in held[u], b.kind = "big"
        PROVE  arena'[b.page] = [desc |-> "big", free_cnt |-> b.n]
    <3>1. b \in Runs
      BY <2>2, AllocationFacts DEF MemoryInv, TypesRight, Allocations
    <3>2. b.page \in Pages /\ Holding(u, b, b.page)
      BY <2>2, <3>1, AllocationFacts DEF Holding
    <3>3. b.page # k
      BY <1>5, <3>2 DEF PageRight
    <3> QED
      BY <1>10, <2>2, <3>2, <3>3 DEF MemoryInv, BlocksRight
  <2> QED
    BY <1>1, <1>3, <1>4, <1>11, <2>1, <2>2 DEF MemoryInv, BlocksRight
<1>14. ASSUME NEW p \in Arenas' PROVE ArenaRight(p)'
  <2>1. InUse' = InUse /\ \A u \in Threads : \A b \in held[u] : b.kind = "block" => b.page \in Arenas
    BY <1>1 DEF InUse, MemoryInv, BlocksRight
  <2>2. p \in Pages /\ Blocks(p)' = Blocks(p) /\ FreeOf(p)' = Blocks(p) \cap Blocks(k)
    BY <1>3, <1>4, <1>14 DEF Arenas, FreeOf, Blocks
  <2>3. CASE p = k
    <3>1. FreeOf(p)' = Blocks(k) /\ Cardinality(FreeOf(p)') = BlocksPerArena
      BY <1>2, <2>2, <2>3, BlockCount
    <3>2. Blocks(k) \cap InUse = {}
      BY <1>2, <1>5, <2>1, AllocationFacts DEF InUse
    <3>3. \E u \in Threads : pc'[u] = "take"
      BY <1>7
    <3> QED
      BY <1>3, <1>4, <1>10, <2>1, <2>2, <2>3, <3>1, <3>2, <3>3 DEF ArenaRight
  <2>4. CASE p # k
    <3>1. p \in Arenas /\ ArenaRight(p) /\ arena'[p] = arena[p]
      BY <1>10, <1>11, <1>14, <2>2, <2>4 DEF MemoryInv
    <3>2. FreeOf(p) = {} /\ FreeOf(p)' = {}
      <4>1. Range(free_list) = {}
        BY <1>2, EmptySeq, LenProperties DEF Range
      <4> QED
        BY <1>2, <2>2, <2>4, <4>1, AllocationFacts DEF FreeOf
    <3>3. arena[p].free_cnt # BlocksPerArena
      BY <1>2, <3>1, ReturnFrom, NoArenaFull
    <3> QED
      BY <2>1, <2>2, <3>1, <3>2, <3>3 DEF ArenaRight
  <2> QED
    BY <2>3, <2>4
<1> QED
  BY <1>6, <1>8, <1>9, <1>12, <1>13, <1>14 DEF MemoryInv

\* palloc_get_multiple() returns, to its caller or to malloc().
LEMMA PallocReturnStep ==
  ASSUME MemoryInv, NEW t \in Threads, PallocReturn(t)
  PROVE  MemoryInv'
<1>1. job[t].ret \in {"pages", "big", "arena"}
  BY ReturnFrom DEF Asking
<1> QED
  BY <1>1, NothingFound, PagesFound, BigFound, ArenaFound

\* What free() is about: a block of the thread, whose arena tells its kind.
LEMMA FreeFrom ==
  ASSUME MemoryInv, NEW t \in Threads, Free(t), NEW b, b = old[t]
  PROVE  /\ pc[t] = "free" /\ b \in held[t] /\ b \in Allocations /\ used_map' = used_map
         /\ pool_lock' = pool_lock /\ old' = [old EXCEPT ![t] = None]
         /\ held' = [held EXCEPT ![t] = held[t] \ {b}]
         /\ IsBig(b) => /\ b \in Runs /\ b.kind = "big"
                        /\ arena[b.page] = [desc |-> "big", free_cnt |-> b.n]
         /\ ~IsBig(b) => b \in SmallBlocks /\ b.page \in Arenas
<1>1. /\ pc[t] = "free" /\ used_map' = used_map /\ pool_lock' = pool_lock
      /\ old' = [old EXCEPT ![t] = None] /\ held' = [held EXCEPT ![t] = held[t] \ {b}]
  BY DEF Free
<1>2. b \in held[t] /\ b.kind # "pages" /\ b \in Allocations
  BY <1>1 DEF MemoryInv, CallRight, OldRight, TypesRight
<1>3. b \in Runs => b.kind = "big" /\ arena[b.page] = [desc |-> "big", free_cnt |-> b.n]
  BY <1>2, AllocationFacts DEF MemoryInv, BlocksRight
<1>4. b \in SmallBlocks => b.page \in Arenas
  BY <1>2, AllocationFacts DEF MemoryInv, BlocksRight
<1> QED
  BY <1>1, <1>2, <1>3, <1>4 DEF Allocations, IsBig, Arenas

\* free() of a big block: its pages go back, as many as were taken.
LEMMA FreeBig ==
  ASSUME MemoryInv, NEW t \in Threads, Free(t), IsBig(old[t])
  PROVE  MemoryInv'
<1>b. PICK b : b = old[t]
  OBVIOUS
<1>0. /\ pc[t] = "free" /\ b \in held[t] /\ used_map' = used_map
      /\ pool_lock' = pool_lock /\ old' = [old EXCEPT ![t] = None]
      /\ held' = [held EXCEPT ![t] = held[t] \ {b}]
      /\ b \in Runs /\ b.kind = "big" /\ arena[b.page] = [desc |-> "big", free_cnt |-> b.n]
  BY <1>b, FreeFrom
<1>1. /\ job' = [job EXCEPT ![t] = [ret |-> "run", cnt |-> b.n, i |-> b.page, j |-> 0]]
      /\ arena' = [arena EXCEPT ![b.page] = NoArena]
      /\ pc' = [pc EXCEPT ![t] = "clear"]
      /\ UNCHANGED <<free_list, desc_lock>>
  BY <1>b, <1>0 DEF Free, Goto
<1>2. /\ b.page \in Pages /\ b.page \in Nat /\ b.n \in Nat /\ InPool(b.page, b.n)
      /\ PagesOf(b) = b.page..(b.page + b.n - 1) /\ b.page \in PagesOf(b)
  BY <1>0, AllocationFacts DEF Pages
<1>3. TypesRight' /\ OthersKept(t)
  <2>1. [ret |-> "run", cnt |-> b.n, i |-> b.page, j |-> 0] \in Jobs
    BY <1>2 DEF Jobs
  <2>2. arena' \in [Pages -> [desc : {None, "small", "big"}, free_cnt : Nat]]
    BY <1>1, <1>2 DEF MemoryInv, TypesRight, NoArena
  <2>3. pc' \in [Threads -> Points] /\ job' \in [Threads -> Jobs] /\ old' \in [Threads -> Allocations \cup {None}]
    BY <1>0, <1>1, <2>1 DEF MemoryInv, TypesRight, Points
  <2>4. held' \in [Threads -> SUBSET Allocations] /\ OthersKept(t)
    BY <1>0, <1>1 DEF MemoryInv, TypesRight, OthersKept
  <2> QED
    BY <1>0, <1>1, <2>2, <2>3, <2>4 DEF MemoryInv, TypesRight
<1>4. /\ pc'[t] = "clear" /\ job'[t] = [ret |-> "run", cnt |-> b.n, i |-> b.page, j |-> 0]
      /\ held'[t] = held[t] \ {b} /\ old'[t] = None
  BY <1>0, <1>1 DEF MemoryInv, TypesRight
<1>5. CallRight(t)'
  <2>1. Clearing(t)'
    BY <1>2, <1>4 DEF Clearing, InPool
  <2> QED
    BY <1>4, <2>1 DEF CallRight, Scanning, OldRight, Getting
<1>6. \A u \in Threads \ {t} : CallRight(u)' /\ InTransit(u)' = InTransit(u)
  BY <1>0, <1>1, <1>3, OtherCalls
<1>7. InTransit(t) = {} /\ InTransit(t)' = PagesOf(b)
  <2>1. InTransit(t)' = (b.page + 0)..(b.page + b.n - 1)
    BY <1>4 DEF InTransit
  <2> QED
    BY <1>0, <1>2, <2>1, TransitAt
<1>8. /\ \A p \in Pages \ {b.page} : arena'[p] = arena[p]
      /\ b.page \notin Arenas /\ Arenas' = Arenas
  <2>1. /\ \A p \in Pages \ {b.page} : arena'[p] = arena[p]
        /\ arena'[b.page].desc = None /\ b.page \notin Arenas
    BY <1>0, <1>1, <1>2 DEF MemoryInv, TypesRight, NoArena, Arenas
  <2> QED
    BY <2>1, MemoryAssumption DEF Arenas
<1>9. \A q \in Pages : PageRight(q)'
  BY <1>0, <1>6, <1>7, <1>8, RunGiven
<1>10. BlocksRight' /\ (\A q \in Arenas : ArenaRight(q))'
  <2>1. \A c \in SmallBlocks : c \in held'[t] <=> c \in held[t]
    BY <1>0, <1>4, AllocationFacts
  <2>2. \A p \in Arenas : arena'[p] = arena[p]
    BY <1>8 DEF Arenas
  <2>3. ASSUME NEW u \in Threads, NEW c \in held'[u], c.kind = "big"
        PROVE  arena'[c.page] = [desc |-> "big", free_cnt |-> c.n]
    <3>1. c \in held[u] /\ ~(u = t /\ c = b)
      BY <1>3, <1>4, <2>3 DEF OthersKept
    <3>2. c \in Runs
      BY <2>3, <3>1, AllocationFacts DEF MemoryInv, TypesRight, Allocations
    <3>3. c.page \in Pages /\ Holding(u, c, c.page) /\ Holding(t, b, b.page)
      BY <1>0, <1>2, <2>3, <3>1, <3>2, AllocationFacts DEF Holding
    <3>4. c.page # b.page
      BY <3>1, <3>3 DEF MemoryInv, PageRight
    <3> QED
      BY <1>8, <2>3, <3>1, <3>3, <3>4 DEF MemoryInv, BlocksRight
  <2>4. \A u \in Threads : pc[u] = "take" => pc'[u] = "take"
    BY <1>0, <1>3 DEF OthersKept
  <2>5. \A u \in Threads \ {t} : held'[u] = held[u]
    BY <1>3 DEF OthersKept
  <2> QED
    BY <1>1, <1>3, <1>8, <2>1, <2>2, <2>3, <2>4, <2>5, RunsMoved
<1> QED
  BY <1>3, <1>5, <1>6, <1>9, <1>10 DEF MemoryInv

\* A block of thread t leaves its hands: nobody else has it.
LEMMA BlockGiven ==
  ASSUME MemoryInv, NEW t \in Threads, NEW b \in SmallBlocks, b \in held[t],
         held' = [held EXCEPT ![t] = held[t] \ {b}]
  PROVE  /\ InUse' = InUse \ {b} /\ b \notin Range(free_list)
         /\ b.kind = "block" /\ b.page \in Arenas /\ b \in Blocks(b.page)
         /\ \A u \in Threads : held'[u] \subseteq held[u]
         /\ \A u \in Threads : \A c \in Runs : c \in held'[u] <=> c \in held[u]
<1>1. /\ held'[t] = held[t] \ {b} /\ \A u \in Threads \ {t} : held'[u] = held[u]
  BY DEF MemoryInv, TypesRight
<1>2. b.kind = "block" /\ b.page \in Arenas /\ b \in Blocks(b.page)
  BY AllocationFacts DEF MemoryInv, BlocksRight
<1>3. \A u \in Threads \ {t} : b \notin held[u]
  BY <1>2 DEF MemoryInv, BlocksRight
<1>4. InUse' = InUse \ {b}
  BY <1>1, <1>3 DEF InUse
<1>5. b \notin Range(free_list)
  <2>1. FreeOf(b.page) = Blocks(b.page) \ InUse /\ b \in InUse
    BY <1>2 DEF MemoryInv, ArenaRight, InUse
  <2> QED
    BY <1>2, <2>1 DEF FreeOf
<1>6. \A c \in Runs : c # b
  BY <1>2, AllocationFacts
<1> QED
  BY <1>1, <1>2, <1>4, <1>5, <1>6

\* list_push_front() of a block that is not on the list.
LEMMA BlockPushed ==
  ASSUME NEW b \in SmallBlocks, NEW s \in Seq(SmallBlocks), IsInjective(s), b \notin Range(s)
  PROVE  /\ <<b>> \o s \in Seq(SmallBlocks) /\ Range(<<b>> \o s) = Range(s) \cup {b}
         /\ IsInjective(<<b>> \o s)
<1>p. PICK l : l = <<b>>
  OBVIOUS
<1>1. l \in Seq(SmallBlocks) /\ DOMAIN l = {1} /\ l[1] = b
  BY <1>p
<1>2. Range(l) = {b} /\ IsInjective(l)
  BY <1>1 DEF Range, IsInjective
<1>3. Range(l) \cap Range(s) = {}
  BY <1>2
<1>4. l \o s \in Seq(SmallBlocks) /\ Range(l \o s) = Range(l) \cup Range(s) /\ IsInjective(l \o s)
  BY <1>1, <1>2, <1>3, ConcatList
<1> QED
  BY <1>p, <1>2, <1>4

\* free() puts a block in front of the list; another block of its arena is
\* still in use.
LEMMA FreeBlock ==
  ASSUME MemoryInv, NEW t \in Threads, Free(t), ~IsBig(old[t]),
         arena[old[t].page].free_cnt + 1 < BlocksPerArena
  PROVE  MemoryInv'
<1>b. PICK b : b = old[t]
  OBVIOUS
<1>k. PICK k : k = b.page
  OBVIOUS
<1>0. /\ pc[t] = "free" /\ b \in held[t] /\ used_map' = used_map
      /\ pool_lock' = pool_lock /\ old' = [old EXCEPT ![t] = None]
      /\ held' = [held EXCEPT ![t] = held[t] \ {b}] /\ b \in SmallBlocks
  BY <1>b, FreeFrom
<1>n. arena[k].free_cnt \in Nat /\ arena[k].free_cnt + 1 < BlocksPerArena /\ k \in Pages /\ k \in Arenas
  BY <1>b, <1>k, <1>0, AllocationFacts, BlockGiven DEF MemoryInv, TypesRight
<1>1. /\ desc_lock = None
      /\ arena' = [arena EXCEPT ![k].free_cnt = arena[k].free_cnt + 1]
      /\ free_list' = <<b>> \o free_list
      /\ pc' = [pc EXCEPT ![t] = "run"]
      /\ UNCHANGED <<desc_lock, job>>
  <2>1. ~(arena[k].free_cnt + 1 >= BlocksPerArena)
    BY <1>n, MemoryAssumption
  <2> QED
    BY <1>b, <1>k, <2>1 DEF Free, Goto
<1>2. /\ InUse' = InUse \ {b} /\ b \notin Range(free_list) /\ b.kind = "block" /\ b \in Blocks(k)
      /\ \A u \in Threads : held'[u] \subseteq held[u]
      /\ \A u \in Threads : \A c \in Runs : c \in held'[u] <=> c \in held[u]
  BY <1>k, <1>0, BlockGiven
<1>3. /\ free_list' \in Seq(SmallBlocks) /\ Range(free_list') = Range(free_list) \cup {b}
      /\ IsInjective(free_list')
  <2>1. free_list \in Seq(SmallBlocks) /\ IsInjective(free_list)
    BY DEF MemoryInv, TypesRight, BlocksRight
  <2> QED
    BY <1>0, <1>1, <1>2, <2>1, BlockPushed
<1>4. TypesRight' /\ OthersKept(t)
  <2>1. arena' \in [Pages -> [desc : {None, "small", "big"}, free_cnt : Nat]]
    <3>1. PICK n \in Nat : n = arena[k].free_cnt + 1
      BY <1>n
    <3>2. arena' = [arena EXCEPT ![k].free_cnt = n]
      BY <1>1, <3>1
    <3> QED
      BY <1>n, <3>1, <3>2 DEF MemoryInv, TypesRight
  <2>2. pc' \in [Threads -> Points] /\ old' \in [Threads -> Allocations \cup {None}]
    BY <1>0, <1>1 DEF MemoryInv, TypesRight, Points
  <2>3. held' \in [Threads -> SUBSET Allocations] /\ OthersKept(t)
    BY <1>0, <1>1 DEF MemoryInv, TypesRight, OthersKept
  <2> QED
    BY <1>0, <1>1, <1>3, <2>1, <2>2, <2>3 DEF MemoryInv, TypesRight
<1>5. pc'[t] = "run" /\ old'[t] = None
  BY <1>0, <1>1 DEF MemoryInv, TypesRight
<1>6. CallRight(t)'
  BY <1>5 DEF CallRight, Scanning, OldRight, Getting
<1>7. \A u \in Threads \ {t} : CallRight(u)' /\ InTransit(u)' = InTransit(u)
  BY <1>0, <1>1, <1>4, OtherCalls
<1>8. InTransit(t) = {} /\ InTransit(t)' = {}
  BY <1>0, <1>5 DEF InTransit
<1>9. /\ \A p \in Pages : arena'[p].desc = arena[p].desc
      /\ \A p \in Pages \ {k} : arena'[p] = arena[p]
      /\ arena'[k].free_cnt = arena[k].free_cnt + 1
  BY <1>1, <1>n DEF MemoryInv, TypesRight
<1>10. Arenas' = Arenas
  BY <1>9 DEF Arenas
<1>11. \A q \in Pages : PageRight(q)'
  BY <1>0, <1>2, <1>4, <1>7, <1>8, <1>10, BlockMoved
<1>12. BlocksRight'
  <2>1. \A c \in Range(free_list') : c.page \in Arenas'
    BY <1>k, <1>n, <1>3, <1>10 DEF MemoryInv, BlocksRight
  <2>2. ASSUME NEW u \in Threads, NEW c \in held'[u], c.kind = "big"
        PROVE  arena'[c.page] = [desc |-> "big", free_cnt |-> c.n]
    <3>1. c \in held[u]
      BY <1>2
    <3>2. arena[c.page] = [desc |-> "big", free_cnt |-> c.n] /\ c.page \in Pages
      BY <2>2, <3>1, AllocationFacts DEF MemoryInv, BlocksRight, TypesRight
    <3>3. c.page # k
      BY <1>n, <3>2 DEF Arenas
    <3> QED
      BY <1>9, <3>2, <3>3
  <2> QED
    BY <1>2, <1>3, <1>10, <2>1, <2>2 DEF MemoryInv, BlocksRight
<1>13. ASSUME NEW p \in Arenas PROVE ArenaRight(p)'
  <2>1. /\ p \in Pages /\ ArenaRight(p) /\ Blocks(p)' = Blocks(p)
        /\ IsFiniteSet(FreeOf(p)) /\ arena[p].free_cnt # BlocksPerArena
    BY <1>1, <1>13, NoArenaFull DEF MemoryInv, Blocks
  <2>2. CASE p = k
    <3>1. FreeOf(p)' = FreeOf(p) \cup {b} /\ b \notin FreeOf(p)
      BY <1>2, <1>3, <2>2 DEF FreeOf, Blocks
    <3>2. Cardinality(FreeOf(p)') = arena[p].free_cnt + 1
      <4>1. Cardinality(FreeOf(p) \cup {b}) = Cardinality(FreeOf(p)) + 1
        BY <2>1, <3>1, FS_AddElement
      <4>2. arena[p].free_cnt = Cardinality(FreeOf(p))
        BY <2>1 DEF ArenaRight
      <4> QED
        BY <3>1, <4>1, <4>2
    <3>3. FreeOf(p)' = Blocks(p) \ InUse'
      BY <1>2, <2>1, <2>2, <3>1 DEF ArenaRight
    <3> QED
      BY <1>n, <1>9, <2>1, <2>2, <3>2, <3>3, MemoryAssumption DEF ArenaRight
  <2>3. CASE p # k
    <3>1. b \notin Blocks(p) /\ arena'[p] = arena[p]
      BY <1>k, <1>9, <2>1, <2>3, AllocationFacts
    <3>2. FreeOf(p)' = FreeOf(p)
      BY <1>3, <3>1 DEF FreeOf, Blocks
    <3>3. Blocks(p) \ InUse' = Blocks(p) \ InUse
      BY <1>2, <3>1
    <3> QED
      BY <2>1, <3>1, <3>2, <3>3 DEF ArenaRight
  <2> QED
    BY <2>2, <2>3
<1> QED
  BY <1>4, <1>6, <1>7, <1>10, <1>11, <1>12, <1>13 DEF MemoryInv

\* free() of the last block in use of an arena: its other blocks are all on
\* the list, come off it, and the page goes back.
LEMMA FreeArena ==
  ASSUME MemoryInv, NEW t \in Threads, Free(t), ~IsBig(old[t]),
         ~(arena[old[t].page].free_cnt + 1 < BlocksPerArena)
  PROVE  MemoryInv'
<1>b. PICK b : b = old[t]
  OBVIOUS
<1>k. PICK k : k = b.page
  OBVIOUS
<1>0. /\ pc[t] = "free" /\ b \in held[t] /\ used_map' = used_map
      /\ pool_lock' = pool_lock /\ old' = [old EXCEPT ![t] = None]
      /\ held' = [held EXCEPT ![t] = held[t] \ {b}] /\ b \in SmallBlocks
  BY <1>b, FreeFrom
<1>1. /\ desc_lock = None /\ desc_lock' = t
      /\ arena' = [arena EXCEPT ![k] = NoArena]
      /\ free_list' = WithoutArena(<<b>> \o free_list, k)
      /\ job' = [job EXCEPT ![t] = [ret |-> "unlock", cnt |-> 1, i |-> k, j |-> 0]]
      /\ pc' = [pc EXCEPT ![t] = "clear"]
  BY <1>b, <1>k DEF Free, Goto
<1>2. /\ InUse' = InUse \ {b} /\ b \notin Range(free_list) /\ b.kind = "block" /\ b \in Blocks(k)
      /\ k \in Arenas /\ k \in Pages
      /\ \A u \in Threads : held'[u] \subseteq held[u]
      /\ \A u \in Threads : \A c \in Runs : c \in held'[u] <=> c \in held[u]
  BY <1>k, <1>0, BlockGiven, AllocationFacts
<1>3. /\ free_list' \in Seq(SmallBlocks) /\ Range(free_list') = Range(free_list) \ Blocks(k)
      /\ IsInjective(free_list')
  <2>1. free_list \in Seq(SmallBlocks) /\ IsInjective(free_list)
    BY DEF MemoryInv, TypesRight, BlocksRight
  <2>2. PICK l : l = <<b>> \o free_list
    OBVIOUS
  <2>3. l \in Seq(SmallBlocks) /\ Range(l) = Range(free_list) \cup {b} /\ IsInjective(l)
    BY <1>0, <1>2, <2>1, <2>2, BlockPushed
  <2>4. free_list' = Sublist(l, Range(l) \ Blocks(k))
    BY <1>1, <2>2 DEF WithoutArena
  <2> QED
    BY <1>2, <2>3, <2>4, SublistList
<1>4. Blocks(k) \cap InUse' = {}
  <2>1. /\ IsFiniteSet(FreeOf(k)) /\ FreeOf(k) \subseteq Blocks(k) /\ ArenaRight(k)
        /\ arena[k].free_cnt = Cardinality(FreeOf(k)) /\ arena[k].free_cnt \in Nat
    BY <1>2, NoArenaFull DEF MemoryInv
  <2>2. IsFiniteSet(Blocks(k) \ {b}) /\ Cardinality(Blocks(k) \ {b}) = BlocksPerArena - 1
    BY <1>2, BlockCount, FS_RemoveElement
  <2>3. FreeOf(k) \in SUBSET (Blocks(k) \ {b})
    BY <1>2, <2>1 DEF FreeOf
  <2>4. Cardinality(FreeOf(k)) <= BlocksPerArena - 1
    BY <2>2, <2>3, FS_Subset
  <2>5. Cardinality(FreeOf(k)) = BlocksPerArena - 1
    BY <1>b, <1>k, <2>1, <2>4, MemoryAssumption
  <2>6. FreeOf(k) = Blocks(k) \ {b}
    BY <2>2, <2>3, <2>5, FS_Subset
  <2> QED
    BY <1>2, <2>1, <2>6 DEF ArenaRight
<1>5. TypesRight' /\ OthersKept(t)
  <2>1. arena' \in [Pages -> [desc : {None, "small", "big"}, free_cnt : Nat]]
    BY <1>1, <1>2 DEF MemoryInv, TypesRight, NoArena
  <2>2. [ret |-> "unlock", cnt |-> 1, i |-> k, j |-> 0] \in Jobs
    BY <1>2 DEF Jobs, Pages
  <2>3. /\ pc' \in [Threads -> Points] /\ old' \in [Threads -> Allocations \cup {None}]
        /\ job' \in [Threads -> Jobs]
    BY <1>0, <1>1, <2>2 DEF MemoryInv, TypesRight, Points
  <2>4. held' \in [Threads -> SUBSET Allocations] /\ OthersKept(t)
    BY <1>0, <1>1, MemoryAssumption DEF MemoryInv, TypesRight, OthersKept
  <2> QED
    BY <1>0, <1>1, <1>3, <2>1, <2>3, <2>4 DEF MemoryInv, TypesRight
<1>6. /\ pc'[t] = "clear" /\ old'[t] = None
      /\ job'[t] = [ret |-> "unlock", cnt |-> 1, i |-> k, j |-> 0]
  BY <1>0, <1>1 DEF MemoryInv, TypesRight
<1>7. CallRight(t)'
  <2>1. Clearing(t)'
    BY <1>1, <1>2, <1>6, MemoryAssumption DEF Clearing, InPool, Pages
  <2> QED
    BY <1>6, <2>1 DEF CallRight, Scanning, OldRight, Getting
<1>8. \A u \in Threads \ {t} : CallRight(u)' /\ InTransit(u)' = InTransit(u)
  BY <1>0, <1>1, <1>5, OtherCalls
<1>9. InTransit(t) = {} /\ InTransit(t)' = {k}
  <2>1. InTransit(t)' = (k + 0)..(k + 1 - 1)
    BY <1>6 DEF InTransit
  <2>2. k \in Int
    BY <1>2 DEF Pages
  <2> QED
    BY <1>0, <2>1, <2>2, TransitAt
<1>10. /\ \A p \in Pages \ {k} : arena'[p] = arena[p]
       /\ arena'[k].desc = None
  BY <1>1, <1>2 DEF MemoryInv, TypesRight, NoArena
<1>11. Arenas' = Arenas \ {k}
  BY <1>2, <1>10, MemoryAssumption DEF Arenas
<1>12. ASSUME NEW q \in Pages PROVE PageRight(q)'
  <2>1. \A u \in Threads : \A a : Holding(u, a, q)' <=> Holding(u, a, q)
    <3>1. \A a : PagesOf(a)' = PagesOf(a)
      BY DEF PagesOf
    <3>2. \A u \in Threads : held[u] \subseteq Allocations /\ held'[u] \subseteq Allocations
      BY <1>5 DEF MemoryInv, TypesRight
    <3> QED
      BY <1>2, <3>1, <3>2, AllocationFacts DEF Holding
  <2>2. /\ \A u \in Threads \ {t} : Moving(u, q)' <=> Moving(u, q)
        /\ ~Moving(t, q) /\ (Moving(t, q)' <=> q = k)
    BY <1>8, <1>9 DEF Moving
  <2>3. /\ PageRight(q) /\ used_map' = used_map
        /\ (q \in Arenas)' <=> q \in Arenas /\ q # k
        /\ k \in Arenas
    BY <1>0, <1>2, <1>11 DEF MemoryInv
  <2> QED
    BY <2>1, <2>2, <2>3 DEF PageRight
<1>13. BlocksRight'
  <2>1. \A c \in Range(free_list') : c.page \in Arenas'
    <3>1. ASSUME NEW c \in Range(free_list') PROVE c.page \in Arenas /\ c.page # k
      <4>1. c \in Range(free_list) /\ c \notin Blocks(k)
        BY <1>3, <3>1
      <4>2. c \in SmallBlocks
        BY <4>1, RangeSeq DEF MemoryInv, TypesRight
      <4> QED
        BY <4>1, <4>2, AllocationFacts DEF MemoryInv, BlocksRight
    <3> QED
      BY <1>11, <3>1
  <2>2. ASSUME NEW u \in Threads, NEW c \in held'[u], c.kind = "big"
        PROVE  arena'[c.page] = [desc |-> "big", free_cnt |-> c.n]
    <3>1. c \in held[u]
      BY <1>2
    <3>2. arena[c.page] = [desc |-> "big", free_cnt |-> c.n] /\ c.page \in Pages
      BY <2>2, <3>1, AllocationFacts DEF MemoryInv, BlocksRight, TypesRight
    <3>3. c.page # k
      BY <1>2, <3>2 DEF Arenas
    <3> QED
      BY <1>10, <3>2, <3>3
  <2>3. ASSUME NEW u \in Threads, NEW c \in held'[u], c.kind = "block"
        PROVE  c.page \in Arenas'
    <3>1. c.page \in Arenas /\ c \in InUse'
      BY <1>2, <2>3 DEF MemoryInv, BlocksRight, InUse
    <3>2. c \in SmallBlocks
      BY <1>5, <2>3, AllocationFacts DEF TypesRight, Allocations
    <3>3. c.page # k
      BY <1>4, <3>1, <3>2, AllocationFacts
    <3> QED
      BY <1>11, <3>1, <3>3
  <2> QED
    BY <1>2, <1>3, <2>1, <2>2, <2>3 DEF MemoryInv, BlocksRight
<1>14. ASSUME NEW p \in Arenas' PROVE ArenaRight(p)'
  <2>1. p \in Arenas /\ p # k
    BY <1>11, <1>14
  <2>2. /\ p \in Pages /\ ArenaRight(p) /\ Blocks(p)' = Blocks(p) /\ arena'[p] = arena[p]
        /\ arena[p].free_cnt # BlocksPerArena
    BY <1>1, <1>10, <2>1, NoArenaFull DEF MemoryInv, Blocks
  <2>3. Blocks(p) \cap Blocks(k) = {}
    BY <1>2, <2>1, <2>2, AllocationFacts
  <2>4. FreeOf(p)' = FreeOf(p)
    BY <1>3, <2>3 DEF FreeOf, Blocks
  <2>5. Blocks(p) \ InUse' = Blocks(p) \ InUse
    BY <1>2, <2>3
  <2> QED
    BY <2>2, <2>4, <2>5 DEF ArenaRight
<1> QED
  BY <1>5, <1>7, <1>8, <1>12, <1>13, <1>14 DEF MemoryInv

-----------------------------------------------------------------------------
(* The theorems.                                                           *)

\* At the start nothing is allocated.
LEMMA InitMemory == Init => MemoryInv
<1> SUFFICES ASSUME Init PROVE MemoryInv
  OBVIOUS
<1> USE DEF Init
<1>1. TypesRight
  <2>1. NoJob \in Jobs /\ NoArena \in [desc : {None, "small", "big"}, free_cnt : Nat]
    BY DEF NoJob, Jobs, NoArena
  <2>2. free_list \in Seq(SmallBlocks)
    OBVIOUS
  <2> QED
    BY <2>1, <2>2 DEF TypesRight, Points
<1>2. \A t \in Threads : CallRight(t) /\ InTransit(t) = {}
  BY DEF CallRight, Scanning, OldRight, Getting, InTransit
<1>3. Arenas = {}
  BY MemoryAssumption DEF Arenas, NoArena
<1>4. \A p \in Pages : PageRight(p)
  BY <1>2, <1>3 DEF PageRight, Moving, Holding
<1>5. BlocksRight
  <2>1. DOMAIN free_list = {}
    BY EmptySeq, LenProperties
  <2> QED
    BY <2>1 DEF BlocksRight, Range, IsInjective
<1> QED
  BY <1>1, <1>2, <1>3, <1>4, <1>5 DEF MemoryInv

\* Every step of every thread keeps the invariant.
LEMMA NextMemory == MemoryInv /\ [Next]_vars => MemoryInv'
<1> SUFFICES ASSUME MemoryInv, [Next]_vars PROVE MemoryInv'
  OBVIOUS
<1>1. CASE UNCHANGED vars
  <2> USE <1>1 DEF vars
  <2>1. TypesRight'
    BY DEF MemoryInv, TypesRight
  <2>2. ASSUME NEW t \in Threads PROVE CallRight(t)' /\ InTransit(t)' = InTransit(t)
    BY OtherCall DEF MemoryInv
  <2>3. Arenas' = Arenas
    BY DEF Arenas
  <2>4. ASSUME NEW p \in Pages PROVE PageRight(p)'
    BY <2>2, <2>3, PageSame DEF MemoryInv, Moving, Holding, PagesOf
  <2>5. BlocksRight' /\ (\A p \in Arenas : ArenaRight(p))'
    BY BlocksSame DEF MemoryInv
  <2> QED
    BY <2>1, <2>2, <2>4, <2>5 DEF MemoryInv
<1>2. ASSUME Next PROVE MemoryInv'
  <2>1. PICK t \in Threads :
          \/ \E cnt \in Counts : PallocCall(t, cnt)
          \/ PallocLock(t) \/ BitmapScan(t) \/ BitmapMark(t) \/ PallocReturn(t) \/ BitmapClear(t)
          \/ \E b \in held[t] : PallocFree(t, b) \/ FreeCall(t, b)
          \/ \E b \in held[t] \cup {None} :
               MallocSmall(t, b) \/ \E cnt \in Counts : MallocBig(t, b, cnt)
          \/ MallocLock(t) \/ MallocTake(t) \/ Free(t)
    BY <1>2 DEF Next
  <2>2. Free(t) => MemoryInv'
    BY FreeBig, FreeBlock, FreeArena
  <2> QED
    BY <2>1, <2>2, PallocCallStep, PallocLockStep, BitmapScanStep, BitmapMarkStep, PallocReturnStep,
       BitmapClearStep, PallocFreeStep, FreeCallStep, MallocSmallStep, MallocBigStep, MallocLockStep,
       MallocTakeStep
<1> QED
  BY <1>1, <1>2

\* The inductive invariant of the allocators.
THEOREM MemoryInvariant == Spec => []MemoryInv
<1>1. Init => MemoryInv
  BY InitMemory
<1>2. MemoryInv /\ [Next]_vars => MemoryInv'
  BY NextMemory
<1> QED
  BY <1>1, <1>2, PTL DEF Spec

\* A call in progress is about pages of the pool.
LEMMA TransitPages ==
  ASSUME MemoryInv, NEW t \in Threads
  PROVE  InTransit(t) \subseteq Pages
<1> SUFFICES ASSUME NEW p \in InTransit(t) PROVE p \in Pages
  OBVIOUS
<1>1. /\ CallRight(t) /\ job[t].i \in Int /\ job[t].j \in Nat /\ job[t].cnt \in Nat
      /\ PageCnt \in Nat
  BY MemoryAssumption DEF MemoryInv, TypesRight, Jobs
<1>2. /\ pc[t] = "mark" => InPool(job[t].i, job[t].cnt) /\ job[t].j < job[t].cnt
      /\ pc[t] = "got" /\ job[t].i # -1 => InPool(job[t].i, job[t].cnt)
      /\ pc[t] = "clear" => InPool(job[t].i, job[t].cnt)
  BY <1>1 DEF CallRight, Scanning, Clearing
<1>3. CASE pc[t] = "mark"
  <2>1. PICK i, j, n : i = job[t].i /\ j = job[t].j /\ n = job[t].cnt
    OBVIOUS
  <2>2. p \in i..(i + j - 1)
    BY <1>3, <2>1, TransitAt
  <2>3. i \in Int /\ j \in Nat /\ n \in Nat /\ i >= 0 /\ i + n <= PageCnt /\ j < n
    BY <1>1, <1>2, <1>3, <2>1 DEF InPool
  <2> QED
    BY <1>1, <2>2, <2>3 DEF Pages
<1>4. CASE pc[t] = "got" /\ job[t].i # -1
  <2>1. PICK i, n : i = job[t].i /\ n = job[t].cnt
    OBVIOUS
  <2>2. p \in i..(i + n - 1)
    BY <1>4, <2>1, TransitAt
  <2>3. i \in Int /\ n \in Nat /\ i >= 0 /\ i + n <= PageCnt
    BY <1>1, <1>2, <1>4, <2>1 DEF InPool
  <2> QED
    BY <1>1, <2>2, <2>3 DEF Pages
<1>5. CASE pc[t] = "clear"
  <2>1. PICK i, j, n : i = job[t].i /\ j = job[t].j /\ n = job[t].cnt
    OBVIOUS
  <2>2. p \in (i + j)..(i + n - 1)
    BY <1>5, <2>1, TransitAt
  <2>3. i \in Int /\ j \in Nat /\ n \in Nat /\ i >= 0 /\ i + n <= PageCnt
    BY <1>1, <1>2, <1>5, <2>1 DEF InPool
  <2> QED
    BY <1>1, <2>2, <2>3 DEF Pages
<1> QED
  BY <1>3, <1>4, <1>5, TransitAt

\* The invariant says that no memory has two owners.
LEMMA OwnersDiffer == MemoryInv => NoOverlap
<1> SUFFICES ASSUME MemoryInv PROVE NoOverlap
  OBVIOUS
<1>1. ASSUME NEW t \in Threads, NEW a \in held[t]
      PROVE  /\ a \in Allocations
             /\ a \in Runs => /\ a.kind # "block" /\ PagesOf(a) \subseteq Pages
                              /\ \A p \in PagesOf(a) : Holding(t, a, p)
             /\ a \in SmallBlocks => /\ a.kind = "block" /\ PagesOf(a) = {a.page}
                                     /\ a.page \in Arenas /\ a.page \in Pages
                                     /\ a \in Blocks(a.page)
  <2>1. a \in Allocations
    BY <1>1 DEF MemoryInv, TypesRight
  <2>2. a \in Runs => /\ a.kind # "block" /\ PagesOf(a) \subseteq Pages
                      /\ \A p \in PagesOf(a) : Holding(t, a, p)
    BY <1>1, AllocationFacts DEF Holding
  <2>3. a \in SmallBlocks => a.kind = "block" /\ a.page \in Pages /\ a \in Blocks(a.page)
    BY AllocationFacts
  <2>4. a \in SmallBlocks => PagesOf(a) = {a.page}
    BY <2>3 DEF PagesOf
  <2>5. a \in SmallBlocks => a.page \in Arenas
    BY <1>1, <2>3 DEF MemoryInv, BlocksRight
  <2> QED
    BY <2>1, <2>2, <2>3, <2>4, <2>5
<1>2. ASSUME NEW t \in Threads, NEW p \in InTransit(t) PROVE p \in Pages /\ Moving(t, p)
  BY <1>2, TransitPages DEF Moving
<1>3. \A p \in Pages : PageRight(p)
  BY DEF MemoryInv
<1>4. ASSUME NEW t \in Threads, NEW u \in Threads, NEW a \in held[t], NEW b \in held[u],
             PagesOf(a) \cap PagesOf(b) # {}
      PROVE  (t = u /\ a = b) \/ (a.kind = "block" /\ b.kind = "block" /\ a # b)
  <2>1. PICK p : p \in PagesOf(a) /\ p \in PagesOf(b)
    BY <1>4
  <2>2. CASE a \in Runs /\ b \in Runs
    BY <1>1, <1>3, <1>4, <2>1, <2>2 DEF PageRight
  <2>3. CASE a \in Runs /\ b \in SmallBlocks
    BY <1>1, <1>3, <1>4, <2>1, <2>3 DEF PageRight
  <2>4. CASE a \in SmallBlocks /\ b \in Runs
    BY <1>1, <1>3, <1>4, <2>1, <2>4 DEF PageRight
  <2>5. CASE a \in SmallBlocks /\ b \in SmallBlocks
    BY <1>1, <1>4, <2>5 DEF MemoryInv, BlocksRight
  <2> QED
    BY <1>1, <1>4, <2>2, <2>3, <2>4, <2>5 DEF Allocations
<1>5. ASSUME NEW t \in Threads, NEW a \in held[t]
      PROVE  /\ \A u \in Threads : PagesOf(a) \cap InTransit(u) = {}
             /\ a \notin Range(free_list)
             /\ a.kind # "block" => PagesOf(a) \cap Arenas = {}
  <2>1. ASSUME NEW u \in Threads, NEW p \in InTransit(u) PROVE p \notin PagesOf(a)
    <3>1. p \in Pages /\ Moving(u, p) /\ PageRight(p)
      BY <1>2, <1>3, <2>1
    <3>2. a \in Runs => p \notin PagesOf(a)
      BY <1>1, <1>5, <3>1 DEF PageRight
    <3>3. a \in SmallBlocks => p \notin PagesOf(a)
      BY <1>1, <1>5, <2>1, <3>1 DEF PageRight
    <3> QED
      BY <1>1, <1>5, <3>2, <3>3 DEF Allocations
  <2>2. a \notin Range(free_list)
    <3>1. Range(free_list) \subseteq SmallBlocks
      BY RangeSeq DEF MemoryInv, TypesRight
    <3>2. a \in SmallBlocks => FreeOf(a.page) = Blocks(a.page) \ InUse /\ a \in InUse
      BY <1>1, <1>5 DEF MemoryInv, ArenaRight, InUse
    <3> QED
      BY <1>1, <1>5, <3>1, <3>2 DEF FreeOf
  <2>3. a.kind # "block" => PagesOf(a) \cap Arenas = {}
    BY <1>1, <1>3, <1>5 DEF PageRight, Allocations
  <2> QED
    BY <2>1, <2>2, <2>3
<1>6. ASSUME NEW t \in Threads, NEW u \in Threads, t # u PROVE InTransit(t) \cap InTransit(u) = {}
  BY <1>2, <1>3, <1>6 DEF PageRight
<1> QED
  BY <1>4, <1>5, <1>6 DEF NoOverlap

\* The invariant says that a bit of the map is set for a page in use.
LEMMA BitsRight == MemoryInv => PagesAccounted
<1> SUFFICES ASSUME MemoryInv PROVE PagesAccounted
  OBVIOUS
<1> DEFINE inCalls == UNION {InTransit(t) : t \in Threads}
           inHands == UNION {PagesOf(b) : b \in UNION {held[t] : t \in Threads}}
<1>1. inCalls \cup inHands \subseteq Pages
  <2>1. \A t \in Threads : InTransit(t) \subseteq Pages
    BY TransitPages
  <2>2. \A t \in Threads : \A b \in held[t] : PagesOf(b) \subseteq Pages
    <3> SUFFICES ASSUME NEW t \in Threads, NEW b \in held[t] PROVE PagesOf(b) \subseteq Pages
      OBVIOUS
    <3>1. b \in Runs => PagesOf(b) \subseteq Pages
      BY AllocationFacts
    <3>2. b \in SmallBlocks => PagesOf(b) = {b.page} /\ b.page \in Pages
      BY AllocationFacts DEF PagesOf
    <3> QED
      BY <3>1, <3>2 DEF MemoryInv, TypesRight, Allocations
  <2> QED
    BY <2>1, <2>2
<1>2. ASSUME NEW p \in Pages
      PROVE  used_map[p] <=> p \in Arenas \/ p \in inCalls \/ p \in inHands
  <2>1. PageRight(p)
    BY DEF MemoryInv
  <2>2. p \in inCalls <=> \E t \in Threads : Moving(t, p)
    BY DEF Moving
  <2>3. (\E t \in Threads : \E b : Holding(t, b, p)) => p \in inHands
    BY DEF Holding
  <2>4. p \in inHands => p \in Arenas \/ \E t \in Threads : \E b : Holding(t, b, p)
    <3> SUFFICES ASSUME NEW t \in Threads, NEW b \in held[t], p \in PagesOf(b), b.kind = "block"
                 PROVE  p \in Arenas
      BY DEF Holding
    <3>1. b.page \in Arenas
      BY DEF MemoryInv, BlocksRight
    <3> QED
      BY <3>1 DEF PagesOf
  <2> QED
    BY <2>1, <2>2, <2>3, <2>4 DEF PageRight
<1>3. Arenas \subseteq Pages
  BY DEF Arenas
<1> HIDE DEF inCalls, inHands
<1>4. {p \in Pages : used_map[p]} = Arenas \cup inCalls \cup inHands
  BY <1>1, <1>2, <1>3
<1> QED
  BY <1>4 DEF PagesAccounted, inCalls, inHands

\* Nothing is given twice, nothing is lost, and free_cnt of every arena is the
\* number of its free blocks: the promise of palloc.c and malloc.c together,
\* with bits cleared outside the pool's lock.
THEOREM MemoryNeitherLostNorShared == Spec => []MemoryAccounted
<1>1. MemoryInv => ArenasCounted
  <2> SUFFICES ASSUME MemoryInv PROVE ArenasCounted
    OBVIOUS
  <2>1. \A i \in DOMAIN free_list : free_list[i].page \in Arenas
    BY DEF MemoryInv, BlocksRight, Range
  <2>2. ASSUME NEW p \in Arenas
        PROVE  /\ arena[p].free_cnt = Cardinality(Blocks(p) \cap Range(free_list))
               /\ Blocks(p) \cap Range(free_list) = Blocks(p) \ UNION {held[t] : t \in Threads}
               /\ arena[p].free_cnt = BlocksPerArena => \E t \in Threads : pc[t] = "take"
    BY <2>2 DEF MemoryInv, ArenaRight, FreeOf, InUse
  <2> QED
    BY <2>1, <2>2 DEF ArenasCounted, MemoryInv, BlocksRight
<1>2. MemoryInv => MemoryAccounted
  BY <1>1, OwnersDiffer, BitsRight DEF MemoryAccounted
<1> QED
  BY <1>2, MemoryInvariant, PTL
=============================================================================
