------------------------------- MODULE Memory -------------------------------
(***************************************************************************)
(* The memory allocators: proj2/src/threads/palloc.c with the bitmap scan  *)
(* of lib/kernel/bitmap.c, and threads/malloc.c on top of it.  Threads may *)
(* be preempted anywhere; single bits are tested and set atomically.       *)
(*                                                                         *)
(* Points of pc[t]:                                                        *)
(*   "run"     its own code                                                *)
(*   "get", "scan", "mark", "got"   palloc_get_multiple(): before the      *)
(*             lock, in bitmap_scan(), in bitmap_set_multiple(), after it  *)
(*   "malloc", "take"   malloc() before the descriptor's lock, and at the  *)
(*             free list, which has a block                                *)
(*   "free"    free() before the descriptor's lock                         *)
(*   "clear"   palloc_free_multiple(): clearing bits, without the lock     *)
(*                                                                         *)
(* An allocation is [kind, page, n]: n pages from page on ("pages", from   *)
(* palloc_get_multiple(); "big", from malloc()), or block n of the arena   *)
(* in page ("block").                                                      *)
(***************************************************************************)
EXTENDS Lists

CONSTANTS
  Threads,
  PageCnt,           \* pages in the pool
  BlocksPerArena,    \* the descriptor's blocks_per_arena
  Counts,            \* the page counts asked for
  MaxHeld,           \* bound: allocations a thread holds
  None

ASSUME MemoryAssumption ==
  /\ PageCnt \in Nat \ {0} /\ BlocksPerArena \in Nat \ {0}
  /\ Counts \subseteq 1..(PageCnt + 1)
  /\ MaxHeld \in Nat
  /\ None \notin Threads \cup {"small", "big"}
  /\ None \notin [kind : {"pages", "big", "block"}, page : Int, n : Int]

VARIABLES
  used_map, pool_lock,     \* struct pool
  free_list, desc_lock,    \* struct desc
  arena,                   \* struct arena in each page: desc ("small", or "big" for
                           \* a null pointer) and free_cnt
  pc,
  job,                     \* what a palloc or free call in progress is about
  held,                    \* the allocations each thread has
  old                      \* realloc()'s old_block, or None

vars == <<used_map, pool_lock, free_list, desc_lock, arena, pc, job, held, old>>

Pages == 0..(PageCnt - 1)
Blocks(page) == {[kind |-> "block", page |-> page, n |-> i] : i \in 0..(BlocksPerArena - 1)}
NoArena == [desc |-> None, free_cnt |-> 0]
NoJob == [ret |-> "none", cnt |-> 0, i |-> 0, j |-> 0]

Goto(t, point) == pc' = [pc EXCEPT ![t] = point]

\* A malloc() of thread t returns block b; realloc() then frees its old block.
Returns(t, b) ==
  /\ held' = [held EXCEPT ![t] = @ \cup {b}]
  /\ Goto(t, IF old[t] = None THEN "run" ELSE "free")

-----------------------------------------------------------------------------
(* palloc.c.                                                               *)

\* palloc_get_multiple() for the caller ret.
PallocGet(t, cnt, ret) ==
  /\ job' = [job EXCEPT ![t] = [ret |-> ret, cnt |-> cnt, i |-> 0, j |-> 0]]
  /\ Goto(t, "get")

PallocCall(t, cnt) ==
  /\ pc[t] = "run" /\ Cardinality(held[t]) < MaxHeld
  /\ PallocGet(t, cnt, "pages")
  /\ UNCHANGED <<used_map, pool_lock, free_list, desc_lock, arena, held, old>>

\* Faulty variant: the scan runs without the pool's lock.
PoolLocked_Never(t) == UNCHANGED pool_lock

\* lock_acquire (&pool->lock).
PoolLocked(t) == pool_lock = None /\ pool_lock' = t

PallocLock(t) ==
  /\ pc[t] = "get"
  /\ PoolLocked(t)
  /\ Goto(t, "scan")
  /\ UNCHANGED <<used_map, free_list, desc_lock, arena, job, held, old>>

GroupFound(j) == j.j = j.cnt

\* One step of bitmap_scan(): a bit is tested, a group has been found, or there
\* is none (cnt > bit_cnt included).
BitmapScan(t) ==
  /\ pc[t] = "scan"
  /\ \E b \in {job[t]} :
       \/ /\ b.i + b.cnt > PageCnt
          /\ job' = [job EXCEPT ![t].i = -1]
          /\ Goto(t, "got")
       \/ /\ b.i + b.cnt <= PageCnt /\ GroupFound(b)
          /\ job' = [job EXCEPT ![t].j = 0]
          /\ Goto(t, "mark")
       \/ /\ b.i + b.cnt <= PageCnt /\ ~GroupFound(b)
          /\ job' = [job EXCEPT ![t] = IF used_map[b.i + b.j]
                                       THEN [b EXCEPT !.i = b.i + 1, !.j = 0]
                                       ELSE [b EXCEPT !.j = b.j + 1]]
          /\ UNCHANGED pc
  /\ UNCHANGED <<used_map, pool_lock, free_list, desc_lock, arena, held, old>>

\* bitmap_set_multiple() of the scan: one bit.
BitmapMark(t) ==
  /\ pc[t] = "mark"
  /\ used_map' = [used_map EXCEPT ![job[t].i + job[t].j] = TRUE]
  /\ job' = [job EXCEPT ![t].j = @ + 1]
  /\ Goto(t, IF job[t].j + 1 = job[t].cnt THEN "got" ELSE "mark")
  /\ UNCHANGED <<pool_lock, free_list, desc_lock, arena, held, old>>

\* lock_release (&pool->lock) and the return, to the caller or to malloc().
PallocReturn(t) ==
  /\ pc[t] = "got"
  /\ pool_lock' = IF pool_lock = t THEN None ELSE pool_lock
  /\ job' = [job EXCEPT ![t] = NoJob]
  /\ \E page \in {job[t].i}, cnt \in {job[t].cnt}, ret \in {job[t].ret} :
       \/ /\ page = -1
          /\ Goto(t, "run")
          /\ old' = [old EXCEPT ![t] = None]
          /\ desc_lock' = IF ret = "arena" THEN None ELSE desc_lock
          /\ UNCHANGED <<free_list, arena, held>>
       \/ /\ page # -1 /\ ret = "pages"
          /\ held' = [held EXCEPT ![t] = @ \cup {[kind |-> "pages", page |-> page, n |-> cnt]}]
          /\ Goto(t, "run")
          /\ UNCHANGED <<free_list, desc_lock, arena, old>>
       \/ /\ page # -1 /\ ret = "big"
          /\ arena' = [arena EXCEPT ![page] = [desc |-> "big", free_cnt |-> cnt]]
          /\ Returns(t, [kind |-> "big", page |-> page, n |-> cnt])
          /\ UNCHANGED <<free_list, desc_lock, old>>
       \/ /\ page # -1 /\ ret = "arena"
          /\ arena' = [arena EXCEPT ![page] = [desc |-> "small", free_cnt |-> BlocksPerArena]]
          /\ free_list' = free_list \o
               [i \in 1..BlocksPerArena |-> [kind |-> "block", page |-> page, n |-> i - 1]]
          /\ Goto(t, "take")
          /\ UNCHANGED <<desc_lock, held, old>>
  /\ UNCHANGED used_map

\* palloc_free_multiple() begins; what it frees is no longer the thread's.
PallocFree(t, b) ==
  /\ pc[t] = "run" /\ b \in held[t] /\ b.kind = "pages"
  /\ held' = [held EXCEPT ![t] = @ \ {b}]
  /\ job' = [job EXCEPT ![t] = [ret |-> "run", cnt |-> b.n, i |-> b.page, j |-> 0]]
  /\ Goto(t, "clear")
  /\ UNCHANGED <<used_map, pool_lock, free_list, desc_lock, arena, old>>

\* bitmap_set_multiple() of palloc_free_multiple(): one bit, without the lock.
\* free() releases the descriptor's lock after the last one.
BitmapClear(t) ==
  /\ pc[t] = "clear"
  /\ used_map' = [used_map EXCEPT ![job[t].i + job[t].j] = FALSE]
  /\ \/ /\ job[t].j + 1 < job[t].cnt
        /\ job' = [job EXCEPT ![t].j = @ + 1]
        /\ UNCHANGED <<desc_lock, pc>>
     \/ /\ job[t].j + 1 = job[t].cnt
        /\ desc_lock' = IF job[t].ret = "unlock" THEN None ELSE desc_lock
        /\ job' = [job EXCEPT ![t] = NoJob]
        /\ Goto(t, "run")
  /\ UNCHANGED <<pool_lock, free_list, arena, held, old>>

-----------------------------------------------------------------------------
(* malloc.c: one descriptor and the big blocks.                            *)

\* malloc(), or realloc() of block b, of a size that fits the descriptor.
MallocSmall(t, b) ==
  /\ pc[t] = "run" /\ Cardinality(held[t]) < MaxHeld
  /\ b \in held[t] \cup {None} /\ (b # None => b.kind # "pages")
  /\ old' = [old EXCEPT ![t] = b]
  /\ Goto(t, "malloc")
  /\ UNCHANGED <<used_map, pool_lock, free_list, desc_lock, arena, job, held>>

\* malloc(), or realloc() of block b, that needs cnt pages.
MallocBig(t, b, cnt) ==
  /\ pc[t] = "run" /\ Cardinality(held[t]) < MaxHeld
  /\ b \in held[t] \cup {None} /\ (b # None => b.kind # "pages")
  /\ old' = [old EXCEPT ![t] = b]
  /\ PallocGet(t, cnt, "big")
  /\ UNCHANGED <<used_map, pool_lock, free_list, desc_lock, arena, held>>

\* lock_acquire (&d->lock); an empty free list calls for a new arena.
MallocLock(t) ==
  /\ pc[t] = "malloc"
  /\ desc_lock = None /\ desc_lock' = t
  /\ \/ free_list # <<>> /\ Goto(t, "take") /\ UNCHANGED job
     \/ free_list = <<>> /\ PallocGet(t, 1, "arena")
  /\ UNCHANGED <<used_map, pool_lock, free_list, arena, held, old>>

MallocTake(t) ==
  /\ pc[t] = "take"
  /\ free_list' = Tail(free_list)
  /\ arena' = [arena EXCEPT ![Head(free_list).page].free_cnt = @ - 1]
  /\ desc_lock' = None
  /\ Returns(t, Head(free_list))
  /\ UNCHANGED <<used_map, pool_lock, job, old>>

\* free (b), or realloc (b, 0).
FreeCall(t, b) ==
  /\ pc[t] = "run" /\ b \in held[t] /\ b.kind # "pages"
  /\ old' = [old EXCEPT ![t] = b]
  /\ Goto(t, "free")
  /\ UNCHANGED <<used_map, pool_lock, free_list, desc_lock, arena, job, held>>

\* The free list without the blocks of the arena in page.
WithoutArena(s, page) == Sublist(s, Range(s) \ Blocks(page))

\* A block of whole pages has a null desc.
IsBig(b) == arena[b.page].desc = "big"

\* free(): block_to_arena() tells small blocks from big ones by the arena's desc.
\* An arena that is all free goes back to the page allocator.
Free(t) ==
  /\ pc[t] = "free"
  /\ \E b \in {old[t]} :
       /\ held' = [held EXCEPT ![t] = @ \ {b}]
       /\ old' = [old EXCEPT ![t] = None]
       /\ \/ /\ IsBig(b)
             /\ job' = [job EXCEPT ![t] = [ret |-> "run", cnt |-> arena[b.page].free_cnt,
                                           i |-> b.page, j |-> 0]]
             /\ arena' = [arena EXCEPT ![b.page] = NoArena]
             /\ Goto(t, "clear")
             /\ UNCHANGED <<free_list, desc_lock>>
          \/ /\ ~IsBig(b) /\ desc_lock = None
             /\ arena[b.page].free_cnt + 1 < BlocksPerArena
             /\ arena' = [arena EXCEPT ![b.page].free_cnt = @ + 1]
             /\ free_list' = <<b>> \o free_list
             /\ Goto(t, "run")
             /\ UNCHANGED <<desc_lock, job>>
          \/ /\ ~IsBig(b) /\ desc_lock = None
             /\ arena[b.page].free_cnt + 1 >= BlocksPerArena
             /\ arena' = [arena EXCEPT ![b.page] = NoArena]
             /\ free_list' = WithoutArena(<<b>> \o free_list, b.page)
             /\ desc_lock' = t
             /\ job' = [job EXCEPT ![t] = [ret |-> "unlock", cnt |-> 1, i |-> b.page, j |-> 0]]
             /\ Goto(t, "clear")
  /\ UNCHANGED <<used_map, pool_lock>>

-----------------------------------------------------------------------------
\* After palloc_init() and malloc_init().
Init ==
  /\ used_map = [p \in Pages |-> FALSE] /\ pool_lock = None
  /\ free_list = <<>> /\ desc_lock = None
  /\ arena = [p \in Pages |-> NoArena]
  /\ pc = [t \in Threads |-> "run"]
  /\ job = [t \in Threads |-> NoJob]
  /\ held = [t \in Threads |-> {}]
  /\ old = [t \in Threads |-> None]

Next ==
  \E t \in Threads :
    \/ \E cnt \in Counts : PallocCall(t, cnt)
    \/ PallocLock(t) \/ BitmapScan(t) \/ BitmapMark(t) \/ PallocReturn(t) \/ BitmapClear(t)
    \/ \E b \in held[t] : PallocFree(t, b) \/ FreeCall(t, b)
    \/ \E b \in held[t] \cup {None} :
         MallocSmall(t, b) \/ \E cnt \in Counts : MallocBig(t, b, cnt)
    \/ MallocLock(t) \/ MallocTake(t) \/ Free(t)

Spec == Init /\ [][Next]_vars

-----------------------------------------------------------------------------
\* The pages an allocation is in.
PagesOf(b) == IF b.kind = "block" THEN {b.page} ELSE b.page..(b.page + b.n - 1)

Arenas == {p \in Pages : arena[p].desc = "small"}

\* The pages that a call in progress has marked and not yet handed on, or has
\* been given back and not yet cleared.
InTransit(t) ==
  CASE pc[t] = "mark" -> job[t].i..(job[t].i + job[t].j - 1)
    [] pc[t] = "got" /\ job[t].i # -1 -> job[t].i..(job[t].i + job[t].cnt - 1)
    [] pc[t] = "clear" -> (job[t].i + job[t].j)..(job[t].i + job[t].cnt - 1)
    [] OTHER -> {}

\* No memory is given to two owners: the allocations of all threads, the free
\* blocks and what calls in progress are about do not overlap, though pages
\* are freed without the lock under which they are looked for.
NoOverlap ==
  /\ \A t, u \in Threads : \A a \in held[t], b \in held[u] :
       PagesOf(a) \cap PagesOf(b) # {} =>
         \/ t = u /\ a = b
         \/ a.kind = "block" /\ b.kind = "block" /\ a # b
  /\ \A t \in Threads : \A a \in held[t] :
       /\ \A u \in Threads : PagesOf(a) \cap InTransit(u) = {}
       /\ a \notin Range(free_list)
       /\ a.kind # "block" => PagesOf(a) \cap Arenas = {}
  /\ \A t, u \in Threads : t # u => InTransit(t) \cap InTransit(u) = {}

\* No memory is lost: a page is marked used if and only if somebody has it, it
\* is an arena, or a call is about it.
PagesAccounted ==
  {p \in Pages : used_map[p]} =
    Arenas \cup (UNION {InTransit(t) : t \in Threads})
           \cup (UNION {PagesOf(b) : b \in UNION {held[t] : t \in Threads}})

\* The free list holds each free block of each arena once, free_cnt counts
\* them, and an arena has a block in use unless malloc() is about to take one.
ArenasCounted ==
  /\ IsInjective(free_list)
  /\ \A i \in DOMAIN free_list : free_list[i].page \in Arenas
  /\ \A p \in Arenas :
       /\ arena[p].free_cnt = Cardinality(Blocks(p) \cap Range(free_list))
       /\ Blocks(p) \cap Range(free_list) =
            Blocks(p) \ UNION {held[t] : t \in Threads}
       /\ arena[p].free_cnt = BlocksPerArena => \E t \in Threads : pc[t] = "take"

\* palloc.c and malloc.c together: nothing is given twice, nothing is lost, and the
\* arenas' counters are true.
MemoryAccounted == NoOverlap /\ PagesAccounted /\ ArenasCounted
=============================================================================
