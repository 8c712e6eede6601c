--------------------------- MODULE LoadingProofs ---------------------------
(***************************************************************************)
(* The safety properties of module Loading, for every set of executables,  *)
(* every number of programs, and pools of pages of every size: on every    *)
(* way through load() and process_exit() each page has one owner, the      *)
(* processor never works with a directory that has been freed, what it has *)
(* cached agrees with the page tables, and a program that has been loaded  *)
(* has in its pages what its executable says.                              *)
(***************************************************************************)
EXTENDS Loading, ListLemmas

Pools == KernelPages \cup UserPages
Slots == 0..(PtEntries - 1)
Cells == Procs \X Tables \X Slots

\* Where a program that has begun to load stands, with and without a page
\* directory of its own, and with the copy of its file name.
Points == {"none", "load", "header", "segment", "stack", "loaded", "failed", "user", "exit",
           "forgot", "left", "dying"}
Naming == {"load", "header", "segment", "stack", "loaded", "failed"}
Directed == {"header", "segment", "stack", "loaded", "user"}
Directing == Directed \cup {"failed", "exit"}

\* An entry of a page table: a present one has a frame.
PteFields == [p : BOOLEAN, frame : UserPages \cup {0}, w : BOOLEAN, a : BOOLEAN, d : BOOLEAN]
Pte == {e \in PteFields : e.p => e.frame \in UserPages}

TypesRight ==
  /\ cur \in Procs \cup {Main} /\ esp0 = cur
  /\ at \in [Procs -> Points]
  /\ free \subseteq Pools
  /\ thread_page \in [Procs -> KernelPages \cup {None}]
  /\ fn_copy \in [Procs -> KernelPages \cup {None}]
  /\ pagedir \in [Procs -> KernelPages \cup {None}]
  /\ pde \in [KernelPages -> [Tables -> KernelPages \cup {0}]]
  /\ pte \in [KernelPages -> [Slots -> Pte]]
  /\ DOMAIN seg = Procs
  /\ used \subseteq Procs \X Touched \X {"a", "d"}

\* The pages that go with each point.
StagesRight ==
  \A p \in Procs :
    /\ at[p] = "none" <=> thread_page[p] = None
    /\ at[p] \in Naming <=> fn_copy[p] # None
    /\ at[p] \in Directed => pagedir[p] # None
    /\ pagedir[p] # None => at[p] \in Directing
    /\ at[p] \in {"forgot", "left"} => seg[p].pos \in KernelPages

\* The uses a program has for a kernel page: roles, and the page it has for each.
KernelRoles == ({"thread", "name", "dir"} \X {0}) \cup ({"table"} \X Tables)
TableOf(p, i) == IF DirectoryOf(p) = None THEN 0 ELSE pde[DirectoryOf(p)][i]
PageFor(p, r) ==
  CASE r[1] = "thread" -> thread_page[p]
    [] r[1] = "name" -> fn_copy[p]
    [] r[1] = "dir" -> DirectoryOf(p)
    [] OTHER -> IF TableOf(p, r[2]) = 0 THEN None ELSE TableOf(p, r[2])
KernelUse == [u \in Procs \X KernelRoles |-> PageFor(u[1], u[2])]

\* The frame that an entry of a program's page tables maps, or 0.
FrameAt(p, i, j) ==
  IF TableOf(p, i) # 0 /\ pte[TableOf(p, i)][j].p THEN pte[TableOf(p, i)][j].frame ELSE 0
FrameUse == [c \in Cells |-> FrameAt(c[1], c[2], c[3])]

\* Every page of a pool is free or has one use in use, and never both.
Owned(use, none, pool, available) ==
  /\ \A u \in DOMAIN use : use[u] # none => use[u] \in pool /\ use[u] \notin available
  /\ \A u, v \in DOMAIN use : use[u] # none /\ use[u] = use[v] => u = v
  /\ \A x \in pool : x \in available \/ \E u \in DOMAIN use : use[u] = x

PagesRight ==
  /\ Owned(KernelUse, None, KernelPages, free)
  /\ Owned(FrameUse, 0, UserPages, free)

\* The processor uses the directory of the running thread; after process_exit()
\* has forgotten it a switch may have left it already.
CpuRight ==
  /\ cur = Main => cr3 = InitPageDir
  /\ cur \in Procs =>
       /\ pagedir[cur] # None => cr3 = pagedir[cur]
       /\ cr3 = InitPageDir \/ (DirectoryOf(cur) # None /\ cr3 = DirectoryOf(cur))
       /\ at[cur] = "left" => cr3 = InitPageDir

\* What the processor has cached, and what it has marked.
TlbRight ==
  /\ DOMAIN tlb \subseteq Touched
  /\ cr3 = InitPageDir => DOMAIN tlb = {}
  /\ \A v \in DOMAIN tlb :
       /\ Mapped(cr3, v) /\ tlb[v] \in Pte /\ tlb[v].p
       /\ Entry(cr3, v).frame = tlb[v].frame /\ Entry(cr3, v).w = tlb[v].w
       /\ Entry(cr3, v).a /\ (tlb[v].d => Entry(cr3, v).d)

UsesMarked ==
  \A p \in Procs, v \in Touched :
    /\ \A b \in {"a", "d"} :
         <<p, v, b>> \in used =>
           at[p] \in {"user", "forgot", "left"} \/ (at[p] = "exit" /\ pagedir[p] # None)
    /\ pagedir[p] # None /\ Mapped(pagedir[p], v) =>
         /\ <<p, v, "a">> \in used => Entry(pagedir[p], v).a
         /\ <<p, v, "d">> \in used => Entry(pagedir[p], v).d

\* The inductive invariant.
LoadingInv ==
  TypesRight /\ StagesRight /\ PagesRight /\ CpuRight /\ TlbRight /\ UsesMarked

-----------------------------------------------------------------------------
(* Addresses and pages.                                                    *)

\* pd_no() and pt_no() of a page below PHYS_BASE are indices of a directory and
\* of a page table, and together tell the pages apart.
LEMMA Coordinates ==
  /\ \A v \in PageNos : pd_no(v) \in Tables /\ pt_no(v) \in Slots
  /\ \A v, w \in PageNos : pd_no(v) = pd_no(w) /\ pt_no(v) = pt_no(w) => v = w
  /\ StackPage \in PageNos
<1>1. /\ PGSIZE \in Nat /\ PGSIZE > 0 /\ PtEntries \in Nat /\ PtEntries > 0
      /\ PhysBase \in Nat /\ PhysBase > 0 /\ PhysBase % (PGSIZE * PtEntries) = 0
  BY LoadingAssumption
<1>2. PICK b \in Nat : b = PGSIZE * PtEntries /\ b > 0
  BY <1>1
<1>3. PICK k \in Nat : k = PhysBase \div b
  BY <1>1, <1>2
<1>4. PhysBase = b * k
  BY <1>1, <1>2, <1>3
<1>5. k > 0
  BY <1>1, <1>2, <1>4
<1>6. PhysBase = PGSIZE * (PtEntries * k)
  BY <1>1, <1>2, <1>4
<1>m. PICK m \in Nat : m = PtEntries * k /\ m > 0
  BY <1>1, <1>5
<1>7. PhysBase \div PGSIZE = m
  BY <1>1, <1>6, <1>m
<1>8. PageNos = 0..(m - 1) /\ Tables = 0..(k - 1)
  BY <1>2, <1>3, <1>7 DEF PageNos, Tables
<1>9. ASSUME NEW v \in PageNos
      PROVE  /\ pd_no(v) \in Tables /\ pt_no(v) \in Slots
             /\ v = PtEntries * pd_no(v) + pt_no(v)
  <2>q. PICK q : q = v \div PtEntries
    OBVIOUS
  <2>r. PICK r : r = v % PtEntries
    OBVIOUS
  <2>1. q \in Int /\ r \in 0..(PtEntries - 1) /\ v = PtEntries * q + r /\ v \in Nat /\ v < m
    BY <1>1, <1>m, <1>8, <2>q, <2>r
  <2>2. q >= 0
    BY <1>1, <2>1
  <2>3. q < k
    <3>1. SUFFICES ASSUME q >= k PROVE FALSE
      BY <2>1
    <3>2. PtEntries * q >= PtEntries * k
      BY <1>1, <2>1, <3>1
    <3> QED
      BY <1>1, <1>m, <2>1, <3>2
  <2> QED
    BY <1>8, <2>q, <2>r, <2>1, <2>2, <2>3 DEF pd_no, pt_no, Slots
<1>10. \A v, w \in PageNos : pd_no(v) = pd_no(w) /\ pt_no(v) = pt_no(w) => v = w
  BY <1>9
<1>11. StackPage \in PageNos
  BY <1>m, <1>7, <1>8 DEF StackPage
<1> QED
  BY <1>9, <1>10, <1>11

\* palloc_get_page() gives a free page of the pool.
LEMMA FirstFreeThere ==
  ASSUME NEW pool, pool \in {KernelPages, UserPages}, Available(pool)
  PROVE  FirstFree(pool) \in free /\ FirstFree(pool) \in pool
<1>1. free \cap pool \in SUBSET Nat /\ free \cap pool # {}
  BY LoadingAssumption DEF Available
<1>2. \E m \in free \cap pool : \A n \in free \cap pool : m <= n
  BY <1>1, LeastNat
<1> QED
  BY <1>2 DEF FirstFree, Min

\* The owners of the pages of a pool when some give theirs back.
LEMMA OwnedGive ==
  ASSUME NEW f, NEW g, NEW none, NEW pool, NEW A, NEW B, NEW C,
         Owned(f, none, pool, A), none \notin pool, C \subseteq DOMAIN f, DOMAIN g = DOMAIN f,
         \A u \in C : g[u] = none, \A u \in DOMAIN f \ C : g[u] = f[u],
         \A x \in pool : x \in B <=> x \in A \/ \E u \in C : f[u] = x
  PROVE  Owned(g, none, pool, B)
<1>1. \A u \in DOMAIN f : g[u] # none => g[u] = f[u] /\ u \notin C
  OBVIOUS
<1>2. ASSUME NEW u \in DOMAIN g, g[u] # none PROVE g[u] \in pool /\ g[u] \notin B
  <2>1. g[u] = f[u] /\ u \in DOMAIN f /\ u \notin C /\ f[u] \in pool /\ f[u] \notin A
    BY <1>1, <1>2 DEF Owned
  <2>2. \A w \in C : f[w] # f[u]
    BY <1>2, <2>1 DEF Owned
  <2> QED
    BY <2>1, <2>2
<1>3. \A u, w \in DOMAIN g : g[u] # none /\ g[u] = g[w] => u = w
  BY <1>1 DEF Owned
<1>4. ASSUME NEW x \in pool PROVE x \in B \/ \E u \in DOMAIN g : g[u] = x
  <2>1. CASE x \in A
    BY <2>1
  <2>2. CASE x \notin A
    <3>1. PICK u \in DOMAIN f : f[u] = x
      BY <2>2 DEF Owned
    <3>2. CASE u \in C
      BY <3>1, <3>2
    <3>3. CASE u \notin C
      BY <3>1, <3>3
    <3> QED
      BY <3>2, <3>3
  <2> QED
    BY <2>1, <2>2
<1> QED
  BY <1>2, <1>3, <1>4 DEF Owned

\* And when one of them takes a free page.
LEMMA OwnedTake ==
  ASSUME NEW f, NEW g, NEW none, NEW pool, NEW A, NEW B, NEW c, NEW x,
         Owned(f, none, pool, A), none \notin pool, c \in DOMAIN f, DOMAIN g = DOMAIN f,
         f[c] = none, g[c] = x, x \in A, x \in pool,
         \A u \in DOMAIN f \ {c} : g[u] = f[u],
         \A y \in pool : y \in B <=> y \in A /\ y # x
  PROVE  Owned(g, none, pool, B)
<1>1. \A u \in DOMAIN f : f[u] # x
  BY DEF Owned
<1>2. ASSUME NEW u \in DOMAIN g, g[u] # none PROVE g[u] \in pool /\ g[u] \notin B
  <2>1. CASE u = c
    BY <2>1
  <2>2. CASE u # c
    <3>1. g[u] = f[u] /\ f[u] \in pool /\ f[u] \notin A
      BY <1>2, <2>2 DEF Owned
    <3> QED
      BY <3>1
  <2> QED
    BY <2>1, <2>2
<1>3. ASSUME NEW u \in DOMAIN g, NEW w \in DOMAIN g, g[u] # none, g[u] = g[w] PROVE u = w
  <2>1. CASE u = c \/ w = c
    BY <1>1, <1>3, <2>1
  <2>2. CASE u # c /\ w # c
    BY <1>3, <2>2 DEF Owned
  <2> QED
    BY <2>1, <2>2
<1>4. ASSUME NEW y \in pool PROVE y \in B \/ \E u \in DOMAIN g : g[u] = y
  <2>1. CASE y \in A
    BY <2>1
  <2>2. CASE y \notin A
    <3>1. PICK u \in DOMAIN f : f[u] = y
      BY <2>2 DEF Owned
    <3>2. u # c
      BY <3>1
    <3> QED
      BY <3>1, <3>2
  <2> QED
    BY <2>1, <2>2
<1> QED
  BY <1>2, <1>3, <1>4 DEF Owned

\* And when nothing changes in the pool.
LEMMA OwnedSame ==
  ASSUME NEW f, NEW g, NEW none, NEW pool, NEW A, NEW B,
         Owned(f, none, pool, A), DOMAIN g = DOMAIN f,
         \A u \in DOMAIN f : g[u] = f[u], \A x \in pool : x \in B <=> x \in A
  PROVE  Owned(g, none, pool, B)
  BY DEF Owned

-----------------------------------------------------------------------------
(* Who has which page.                                                     *)

\* The pages a program has, by role.
UsesNamed ==
  /\ DOMAIN KernelUse = Procs \X KernelRoles /\ DOMAIN FrameUse = Cells
  /\ \A p \in Procs :
       /\ <<p, <<"thread", 0>>>> \in DOMAIN KernelUse /\ <<p, <<"name", 0>>>> \in DOMAIN KernelUse
       /\ <<p, <<"dir", 0>>>> \in DOMAIN KernelUse
       /\ KernelUse[<<p, <<"thread", 0>>>>] = thread_page[p]
       /\ KernelUse[<<p, <<"name", 0>>>>] = fn_copy[p]
       /\ KernelUse[<<p, <<"dir", 0>>>>] = DirectoryOf(p)
  /\ \A p \in Procs, i \in Tables :
       /\ <<p, <<"table", i>>>> \in DOMAIN KernelUse
       /\ KernelUse[<<p, <<"table", i>>>>] = IF TableOf(p, i) = 0 THEN None ELSE TableOf(p, i)
  /\ \A p \in Procs, i \in Tables, j \in Slots : FrameUse[<<p, i, j>>] = FrameAt(p, i, j)
  /\ \A u \in Procs \X KernelRoles : \E p \in Procs :
       \/ u = <<p, <<"thread", 0>>>> \/ u = <<p, <<"name", 0>>>> \/ u = <<p, <<"dir", 0>>>>
       \/ \E i \in Tables : u = <<p, <<"table", i>>>>

\* KernelUse and FrameUse list them so.
LEMMA Uses == UsesNamed
<1>1. DOMAIN KernelUse = Procs \X KernelRoles /\ DOMAIN FrameUse = Cells
  BY DEF KernelUse, FrameUse
<1>2. ASSUME NEW p \in Procs, NEW r \in KernelRoles
      PROVE  <<p, r>> \in DOMAIN KernelUse /\ KernelUse[<<p, r>>] = PageFor(p, r)
  BY <1>1 DEF KernelUse
<1>3. /\ <<"thread", 0>> \in KernelRoles /\ <<"name", 0>> \in KernelRoles
      /\ <<"dir", 0>> \in KernelRoles /\ \A i \in Tables : <<"table", i>> \in KernelRoles
  BY DEF KernelRoles
<1>4. ASSUME NEW p \in Procs
      PROVE  /\ PageFor(p, <<"thread", 0>>) = thread_page[p]
             /\ PageFor(p, <<"name", 0>>) = fn_copy[p]
             /\ PageFor(p, <<"dir", 0>>) = DirectoryOf(p)
             /\ \A i \in Tables : PageFor(p, <<"table", i>>) =
                                    IF TableOf(p, i) = 0 THEN None ELSE TableOf(p, i)
  BY DEF PageFor
<1>5. ASSUME NEW p \in Procs, NEW i \in Tables, NEW j \in Slots
      PROVE  FrameUse[<<p, i, j>>] = FrameAt(p, i, j)
  BY DEF FrameUse, Cells
<1>6. ASSUME NEW u \in Procs \X KernelRoles
      PROVE  \E p \in Procs :
               \/ u = <<p, <<"thread", 0>>>> \/ u = <<p, <<"name", 0>>>> \/ u = <<p, <<"dir", 0>>>>
               \/ \E i \in Tables : u = <<p, <<"table", i>>>>
  <2>1. PICK p \in Procs, r \in KernelRoles : u = <<p, r>>
    OBVIOUS
  <2>2. \/ r = <<"thread", 0>> \/ r = <<"name", 0>> \/ r = <<"dir", 0>>
        \/ \E i \in Tables : r = <<"table", i>>
    BY DEF KernelRoles
  <2> QED
    BY <2>1, <2>2
<1> QED
  BY <1>1, <1>2, <1>3, <1>4, <1>5, <1>6 DEF UsesNamed

\* In the next state too.
LEMMA UsesNext == UsesNamed'
BY Uses, PTL

\* No page is a thread, a name, a directory or a page table twice, nor two of
\* these.
LEMMA KernelDistinct ==
  ASSUME LoadingInv
  PROVE  /\ \A p \in Procs : /\ DirectoryOf(p) \in KernelPages \cup {None}
                             /\ DirectoryOf(p) # None => DirectoryOf(p) \notin free
         /\ \A p \in Procs, i \in Tables :
              /\ TableOf(p, i) \in KernelPages \cup {0}
              /\ TableOf(p, i) # 0 => TableOf(p, i) \notin free /\ DirectoryOf(p) # None
         /\ \A p, q \in Procs : DirectoryOf(p) # None /\ DirectoryOf(p) = DirectoryOf(q) => p = q
         /\ \A p, q \in Procs, i, j \in Tables :
              TableOf(p, i) # 0 /\ TableOf(p, i) = TableOf(q, j) => p = q /\ i = j
         /\ 0 \notin KernelPages /\ 0 \notin UserPages /\ None \notin KernelPages
<1>1. Owned(KernelUse, None, KernelPages, free)
  BY DEF LoadingInv, PagesRight
<1>2. 0 \notin KernelPages /\ 0 \notin UserPages /\ None \notin KernelPages
  BY LoadingAssumption
<1>3. \A p \in Procs : DirectoryOf(p) \in KernelPages \cup {None}
  BY DEF LoadingInv, TypesRight, StagesRight, DirectoryOf
<1>4. \A p \in Procs, i \in Tables :
        TableOf(p, i) \in KernelPages \cup {0} /\ (TableOf(p, i) # 0 => DirectoryOf(p) # None)
  BY <1>3 DEF LoadingInv, TypesRight, TableOf
<1>d. \A p \in Procs : /\ <<p, <<"dir", 0>>>> \in DOMAIN KernelUse
                         /\ KernelUse[<<p, <<"dir", 0>>>>] = DirectoryOf(p)
  BY Uses DEF UsesNamed
<1>5. \A p \in Procs : DirectoryOf(p) # None => DirectoryOf(p) \notin free
  BY <1>1, <1>d DEF Owned
<1>6. \A p, q \in Procs : DirectoryOf(p) # None /\ DirectoryOf(p) = DirectoryOf(q) => p = q
  <2> SUFFICES ASSUME NEW p \in Procs, NEW q \in Procs, DirectoryOf(p) # None,
                      DirectoryOf(p) = DirectoryOf(q)
               PROVE  p = q
    OBVIOUS
  <2>1. <<p, <<"dir", 0>>>> = <<q, <<"dir", 0>>>>
    BY <1>1, <1>d DEF Owned
  <2> QED
    BY <2>1
<1>7. ASSUME NEW p \in Procs, NEW q \in Procs, NEW i \in Tables, NEW j \in Tables,
             TableOf(p, i) # 0, TableOf(p, i) = TableOf(q, j)
      PROVE  p = q /\ i = j
  <2>1. KernelUse[<<p, <<"table", i>>>>] = TableOf(p, i) /\ TableOf(p, i) # None
    BY <1>2, <1>4, <1>7, Uses DEF UsesNamed
  <2>2. KernelUse[<<q, <<"table", j>>>>] = TableOf(p, i)
    BY <1>7, Uses DEF UsesNamed
  <2>3. <<p, <<"table", i>>>> = <<q, <<"table", j>>>>
    BY <1>1, <2>1, <2>2, Uses DEF Owned, UsesNamed
  <2> QED
    BY <2>3
<1>8. ASSUME NEW p \in Procs, NEW i \in Tables, TableOf(p, i) # 0
      PROVE  TableOf(p, i) \notin free
  <2>1. KernelUse[<<p, <<"table", i>>>>] = TableOf(p, i) /\ TableOf(p, i) # None
    BY <1>2, <1>4, <1>8, Uses DEF UsesNamed
  <2> QED
    BY <1>1, <2>1, Uses DEF Owned, UsesNamed
<1> QED
  BY <1>2, <1>3, <1>4, <1>5, <1>6, <1>7, <1>8

\* The page tables of a program with a directory, as pagedir.c looks at them.
LEMMA EntryCell ==
  ASSUME LoadingInv, NEW p \in Procs, NEW d, d = DirectoryOf(p), d # None, NEW v \in PageNos
  PROVE  /\ pd_no(v) \in Tables /\ pt_no(v) \in Slots /\ d \in KernelPages
         /\ pde[d][pd_no(v)] = TableOf(p, pd_no(v))
         /\ HasEntry(d, v) <=> TableOf(p, pd_no(v)) # 0
         /\ HasEntry(d, v) => /\ TableOf(p, pd_no(v)) \in KernelPages
                              /\ Entry(d, v) = pte[TableOf(p, pd_no(v))][pt_no(v)]
                              /\ Entry(d, v) \in Pte
         /\ Mapped(d, v) => /\ FrameAt(p, pd_no(v), pt_no(v)) = Entry(d, v).frame
                            /\ Entry(d, v).frame \in UserPages
<1>1. pd_no(v) \in Tables /\ pt_no(v) \in Slots
  BY Coordinates
<1>2. d \in KernelPages /\ pde[d][pd_no(v)] = TableOf(p, pd_no(v))
  BY <1>1, KernelDistinct DEF TableOf
<1>3. TableOf(p, pd_no(v)) # 0 => TableOf(p, pd_no(v)) \in KernelPages
  BY <1>1, KernelDistinct
<1>4. HasEntry(d, v) <=> TableOf(p, pd_no(v)) # 0
  BY <1>2 DEF HasEntry
<1>5. HasEntry(d, v) => /\ Entry(d, v) = pte[TableOf(p, pd_no(v))][pt_no(v)]
                        /\ Entry(d, v) \in Pte
  BY <1>1, <1>2, <1>3, <1>4 DEF Entry, LoadingInv, TypesRight
<1>6. Mapped(d, v) => FrameAt(p, pd_no(v), pt_no(v)) = Entry(d, v).frame
  BY <1>4, <1>5 DEF Mapped, FrameAt
<1> QED
  BY <1>1, <1>2, <1>3, <1>4, <1>5, <1>6 DEF Mapped, Pte

-----------------------------------------------------------------------------
(* Steps that move no page.                                                *)

\* A thread goes from one point to another.
LEMMA Gone ==
  ASSUME LoadingInv, NEW p \in Procs, NEW x \in Points, Goto(p, x)
  PROVE  at' \in [Procs -> Points] /\ at'[p] = x /\ \A q \in Procs \ {p} : at'[q] = at[q]
  BY DEF LoadingInv, TypesRight, Goto

\* When the programs keep their pages, all that depends on those stays.
LEMMA PagesStay ==
  ASSUME LoadingInv, UNCHANGED <<thread_page, fn_copy, free, pde, pte>>,
         \A q \in Procs : DirectoryOf(q)' = DirectoryOf(q)
  PROVE  PagesRight'
<1>1. \A q \in Procs, i \in Tables : TableOf(q, i)' = TableOf(q, i)
  BY DEF TableOf
<1>2. \A q \in Procs, i \in Tables, j \in Slots : FrameAt(q, i, j)' = FrameAt(q, i, j)
  BY <1>1 DEF FrameAt
<1>3. KernelUse' = KernelUse
  <2>1. \A q \in Procs, r \in KernelRoles : PageFor(q, r)' = PageFor(q, r)
    <3> SUFFICES ASSUME NEW q \in Procs, NEW r \in KernelRoles
                 PROVE  PageFor(q, r)' = PageFor(q, r)
      OBVIOUS
    <3>1. CASE r[1] \in {"thread", "name", "dir"}
      BY <3>1 DEF PageFor
    <3>2. CASE r[1] \notin {"thread", "name", "dir"}
      <4>1. r[2] \in Tables
        BY <3>2 DEF KernelRoles
      <4> QED
        BY <1>1, <3>2, <4>1 DEF PageFor
    <3> QED
      BY <3>1, <3>2
  <2> QED
    BY <2>1 DEF KernelUse
<1>4. FrameUse' = FrameUse
  BY <1>2 DEF FrameUse, Cells
<1> QED
  BY <1>3, <1>4 DEF LoadingInv, PagesRight

\* What the processor has cached stays right when neither it nor the page
\* tables change.
LEMMA TlbStays ==
  ASSUME LoadingInv, UNCHANGED <<cr3, tlb, pde, pte>>
  PROVE  TlbRight'
  BY DEF LoadingInv, TlbRight, Mapped, HasEntry, Entry

\* The running program p goes from one point to another.
LEMMA QuietInv ==
  ASSUME LoadingInv, NEW p \in Procs, cur = p, NEW x \in Points, Goto(p, x),
         UNCHANGED <<cur, free, pde, pte, thread_page, fn_copy, pagedir, cr3, tlb, esp0, used>>,
         DOMAIN seg' = Procs, \A q \in Procs \ {p} : seg'[q] = seg[q],
         at[p] \notin {"none", "forgot", "left"}, x \notin {"none", "forgot", "left"},
         at[p] \in Naming <=> x \in Naming, x \in Directed => pagedir[p] # None,
         pagedir[p] # None => x \in Directing,
         \A v \in Touched, b \in {"a", "d"} :
           <<p, v, b>> \in used => x = "user" \/ (x = "exit" /\ pagedir[p] # None)
  PROVE  LoadingInv'
<1>1. at' \in [Procs -> Points] /\ at'[p] = x /\ \A q \in Procs \ {p} : at'[q] = at[q]
  BY Gone
<1>2. TypesRight'
  BY <1>1 DEF LoadingInv, TypesRight
<1>3. StagesRight'
  BY <1>1 DEF LoadingInv, StagesRight
<1>4. \A q \in Procs : DirectoryOf(q)' = DirectoryOf(q)
  BY <1>1 DEF DirectoryOf
<1>5. PagesRight'
  BY <1>4, PagesStay
<1>6. CpuRight'
  BY <1>1, <1>4 DEF LoadingInv, CpuRight
<1>7. TlbRight'
  BY TlbStays
<1>8. UsesMarked'
  <2>1. ASSUME NEW q \in Procs, NEW v \in Touched, NEW b \in {"a", "d"}, <<q, v, b>> \in used'
        PROVE  \/ at'[q] \in {"user", "forgot", "left"}
               \/ at'[q] = "exit" /\ pagedir'[q] # None
    BY <1>1, <2>1 DEF LoadingInv, UsesMarked
  <2>2. ASSUME NEW q \in Procs, NEW v \in Touched, pagedir'[q] # None, Mapped(pagedir[q], v)'
        PROVE  /\ <<q, v, "a">> \in used' => Entry(pagedir[q], v)'.a
               /\ <<q, v, "d">> \in used' => Entry(pagedir[q], v)'.d
    BY <2>2 DEF LoadingInv, UsesMarked, Mapped, HasEntry, Entry
  <2> QED
    BY <2>1, <2>2 DEF UsesMarked
<1> QED
  BY <1>2, <1>3, <1>5, <1>6, <1>7, <1>8 DEF LoadingInv

\* load() reads a program header.
LEMMA LoadHeaderInv ==
  ASSUME LoadingInv, NEW p \in Procs, LoadHeader(p)
  PROVE  LoadingInv'
<1>1. /\ cur = p /\ at[p] = "header" /\ UNCHANGED kernelVars
      /\ \E x \in {"stack", "failed", "segment", "header"} : at' = [at EXCEPT ![p] = x]
      /\ \/ seg' = seg \/ \E s : seg' = [seg EXCEPT ![p] = s]
  <2>1. at = [at EXCEPT ![p] = at[p]]
    BY DEF LoadingInv, TypesRight
  <2> QED
    BY <2>1 DEF LoadHeader, Running, Goto
<1>2. DOMAIN seg' = Procs /\ \A q \in Procs \ {p} : seg'[q] = seg[q]
  BY <1>1 DEF LoadingInv, TypesRight
<1>3. UNCHANGED <<cur, free, pde, pte, thread_page, fn_copy, pagedir, cr3, tlb, esp0, used>>
  BY <1>1 DEF kernelVars, memVars, cpuVars
<1>4. pagedir[p] # None /\ \A v \in Touched, b \in {"a", "d"} : <<p, v, b>> \notin used
  BY <1>1 DEF LoadingInv, StagesRight, UsesMarked, Directed
<1>5. PICK x \in {"stack", "failed", "segment", "header"} : Goto(p, x)
  BY <1>1 DEF Goto
<1> QED
  BY <1>1, <1>2, <1>3, <1>4, <1>5, QuietInv DEF Points, Naming, Directed, Directing

\* A program in user mode is killed or exits.
LEMMA ThreadExitInv ==
  ASSUME LoadingInv, NEW p \in Procs, ThreadExit(p)
  PROVE  LoadingInv'
<1>1. /\ cur = p /\ at[p] = "user" /\ Goto(p, "exit") /\ seg' = seg
      /\ UNCHANGED <<cur, free, pde, pte, thread_page, fn_copy, pagedir, cr3, tlb, esp0, used>>
  BY DEF ThreadExit, Running, memVars, cpuVars
<1>2. pagedir[p] # None /\ DOMAIN seg' = Procs
  BY <1>1 DEF LoadingInv, StagesRight, Directed, TypesRight
<1> QED
  BY <1>1, <1>2, QuietInv DEF Points, Naming, Directed, Directing

-----------------------------------------------------------------------------
(* Steps that move pages.                                                  *)

\* Where KernelUse stays as it is.
LEMMA KernelUseStays ==
  ASSUME NEW C,
         \A p \in Procs : /\ <<p, <<"thread", 0>>>> \in C \/ thread_page'[p] = thread_page[p]
                          /\ <<p, <<"name", 0>>>> \in C \/ fn_copy'[p] = fn_copy[p]
                          /\ <<p, <<"dir", 0>>>> \in C \/ DirectoryOf(p)' = DirectoryOf(p),
         \A p \in Procs, i \in Tables :
           <<p, <<"table", i>>>> \in C \/ TableOf(p, i)' = TableOf(p, i)
  PROVE  /\ DOMAIN KernelUse' = DOMAIN KernelUse
         /\ \A u \in DOMAIN KernelUse \ C : KernelUse'[u] = KernelUse[u]
<1>1. DOMAIN KernelUse' = DOMAIN KernelUse /\ DOMAIN KernelUse = Procs \X KernelRoles
  BY Uses, UsesNext DEF UsesNamed
<1>2. ASSUME NEW u \in Procs \X KernelRoles, u \notin C
      PROVE  KernelUse'[u] = KernelUse[u]
  <2>1. PICK p \in Procs :
          \/ u = <<p, <<"thread", 0>>>> \/ u = <<p, <<"name", 0>>>> \/ u = <<p, <<"dir", 0>>>>
          \/ \E i \in Tables : u = <<p, <<"table", i>>>>
    BY Uses DEF UsesNamed
  <2>2. CASE u = <<p, <<"thread", 0>>>>
    <3>1. thread_page'[p] = thread_page[p]
      BY <1>2, <2>2
    <3>2. KernelUse[u] = thread_page[p] /\ KernelUse'[u] = thread_page'[p]
      BY <2>2, Uses, UsesNext DEF UsesNamed
    <3> QED
      BY <3>1, <3>2
  <2>3. CASE u = <<p, <<"name", 0>>>>
    <3>1. fn_copy'[p] = fn_copy[p]
      BY <1>2, <2>3
    <3>2. KernelUse[u] = fn_copy[p] /\ KernelUse'[u] = fn_copy'[p]
      BY <2>3, Uses, UsesNext DEF UsesNamed
    <3> QED
      BY <3>1, <3>2
  <2>4. CASE u = <<p, <<"dir", 0>>>>
    <3>1. DirectoryOf(p)' = DirectoryOf(p)
      BY <1>2, <2>4
    <3>2. KernelUse[u] = DirectoryOf(p) /\ KernelUse'[u] = DirectoryOf(p)'
      BY <2>4, Uses, UsesNext DEF UsesNamed
    <3> QED
      BY <3>1, <3>2
  <2>5. CASE \E i \in Tables : u = <<p, <<"table", i>>>>
    <3>1. PICK i \in Tables : u = <<p, <<"table", i>>>>
      BY <2>5
    <3>2. TableOf(p, i)' = TableOf(p, i)
      BY <1>2, <3>1
    <3>3. KernelUse[u] = IF TableOf(p, i) = 0 THEN None ELSE TableOf(p, i)
      BY <3>1, Uses DEF UsesNamed
    <3>4. KernelUse'[u] = IF TableOf(p, i)' = 0 THEN None ELSE TableOf(p, i)'
      BY <3>1, UsesNext DEF UsesNamed
    <3> QED
      BY <3>2, <3>3, <3>4
  <2> QED
    BY <2>1, <2>2, <2>3, <2>4, <2>5
<1> QED
  BY <1>1, <1>2

\* Where FrameUse does.
LEMMA FrameUseStays ==
  ASSUME NEW C,
         \A p \in Procs, i \in Tables, j \in Slots :
           <<p, i, j>> \in C \/ FrameAt(p, i, j)' = FrameAt(p, i, j)
  PROVE  /\ DOMAIN FrameUse' = DOMAIN FrameUse
         /\ \A u \in DOMAIN FrameUse \ C : FrameUse'[u] = FrameUse[u]
<1>1. DOMAIN FrameUse' = DOMAIN FrameUse /\ DOMAIN FrameUse = Procs \X Tables \X Slots
  BY Uses, UsesNext DEF UsesNamed, Cells
<1>2. ASSUME NEW u \in Procs \X Tables \X Slots, u \notin C
      PROVE  FrameUse'[u] = FrameUse[u]
  <2>1. PICK p \in Procs, i \in Tables, j \in Slots : u = <<p, i, j>>
    OBVIOUS
  <2>2. FrameAt(p, i, j)' = FrameAt(p, i, j)
    BY <1>2, <2>1
  <2>3. FrameUse[u] = FrameAt(p, i, j) /\ FrameUse'[u] = FrameAt(p, i, j)'
    BY <2>1, Uses, UsesNext DEF UsesNamed
  <2> QED
    BY <2>2, <2>3
<1> QED
  BY <1>1, <1>2

\* A kernel page is given back; the frames stay.
LEMMA KernelGive ==
  ASSUME LoadingInv, NEW p \in Procs, NEW r \in {"thread", "name"},
         NEW c, c = <<p, <<r, 0>>>>, KernelUse[c] # None, KernelUse'[c] = None,
         free' = free \cup {KernelUse[c]}, UNCHANGED <<pde, pte>>,
         \A q \in Procs : DirectoryOf(q)' = DirectoryOf(q),
         \A q \in Procs : /\ <<q, <<"thread", 0>>>> = c \/ thread_page'[q] = thread_page[q]
                          /\ <<q, <<"name", 0>>>> = c \/ fn_copy'[q] = fn_copy[q]
  PROVE  PagesRight'
<1>1. \A q \in Procs, i \in Tables : TableOf(q, i)' = TableOf(q, i)
  BY DEF TableOf
<1>2. \A q \in Procs, i \in Tables, j \in Slots : FrameAt(q, i, j)' = FrameAt(q, i, j)
  BY <1>1 DEF FrameAt
<1>3. /\ Owned(KernelUse, None, KernelPages, free) /\ Owned(FrameUse, 0, UserPages, free)
      /\ None \notin KernelPages /\ 0 \notin UserPages /\ KernelPages \cap UserPages = {}
  BY LoadingAssumption DEF LoadingInv, PagesRight
<1>4. c \in DOMAIN KernelUse
  BY Uses DEF UsesNamed
<1>5. /\ DOMAIN KernelUse' = DOMAIN KernelUse
      /\ \A u \in DOMAIN KernelUse \ {c} : KernelUse'[u] = KernelUse[u]
  BY <1>1, KernelUseStays
<1>6. KernelUse[c] \in KernelPages
  BY <1>3, <1>4 DEF Owned
<1>7. Owned(KernelUse', None, KernelPages, free')
  <2>1. /\ {c} \subseteq DOMAIN KernelUse /\ \A u \in {c} : KernelUse'[u] = None
        /\ \A x \in KernelPages : x \in free' <=> x \in free \/ \E u \in {c} : KernelUse[u] = x
    BY <1>4
  <2>f. PICK f : f = KernelUse
    OBVIOUS
  <2>g. PICK g : g = KernelUse'
    OBVIOUS
  <2>C. PICK C : C = {c}
    OBVIOUS
  <2>2. /\ Owned(f, None, KernelPages, free) /\ None \notin KernelPages /\ C \subseteq DOMAIN f
        /\ DOMAIN g = DOMAIN f /\ \A u \in C : g[u] = None
        /\ \A u \in DOMAIN f \ C : g[u] = f[u]
        /\ \A x \in KernelPages : x \in free' <=> x \in free \/ \E u \in C : f[u] = x
    BY <1>3, <1>5, <2>1, <2>f, <2>g, <2>C
  <2>3. Owned(g, None, KernelPages, free')
    BY ONLY <2>2, OwnedGive
  <2> QED
    BY <2>3, <2>g
<1>8. DOMAIN FrameUse' = DOMAIN FrameUse /\ \A u \in DOMAIN FrameUse : FrameUse'[u] = FrameUse[u]
  <2>1. /\ DOMAIN FrameUse' = DOMAIN FrameUse
        /\ \A u \in DOMAIN FrameUse \ {} : FrameUse'[u] = FrameUse[u]
    BY <1>2, FrameUseStays
  <2> QED
    BY <2>1
<1>9. Owned(FrameUse', 0, UserPages, free')
  <2>1. \A x \in UserPages : x \in free' <=> x \in free
    BY <1>3, <1>6
  <2> QED
    BY <1>3, <1>8, <2>1, OwnedSame
<1> QED
  BY <1>7, <1>9 DEF PagesRight

\* A kernel page is taken for one use.
LEMMA KernelTake ==
  ASSUME LoadingInv, NEW c \in DOMAIN KernelUse, NEW x \in KernelPages, x \in free,
         KernelUse[c] = None, KernelUse'[c] = x,
         \A y \in KernelPages : y \in free' <=> y \in free /\ y # x,
         \A q \in Procs : /\ <<q, <<"thread", 0>>>> = c \/ thread_page'[q] = thread_page[q]
                          /\ <<q, <<"name", 0>>>> = c \/ fn_copy'[q] = fn_copy[q]
                          /\ <<q, <<"dir", 0>>>> = c \/ DirectoryOf(q)' = DirectoryOf(q),
         \A q \in Procs, i \in Tables :
           <<q, <<"table", i>>>> = c \/ TableOf(q, i)' = TableOf(q, i)
  PROVE  Owned(KernelUse', None, KernelPages, free')
<1>1. /\ Owned(KernelUse, None, KernelPages, free) /\ None \notin KernelPages
  BY LoadingAssumption DEF LoadingInv, PagesRight
<1>2. /\ DOMAIN KernelUse' = DOMAIN KernelUse
      /\ \A u \in DOMAIN KernelUse \ {c} : KernelUse'[u] = KernelUse[u]
  BY KernelUseStays
<1>f. PICK f : f = KernelUse
  OBVIOUS
<1>g. PICK g : g = KernelUse'
  OBVIOUS
<1>3. /\ Owned(f, None, KernelPages, free) /\ None \notin KernelPages /\ c \in DOMAIN f
      /\ DOMAIN g = DOMAIN f /\ f[c] = None /\ g[c] = x /\ x \in free /\ x \in KernelPages
      /\ \A u \in DOMAIN f \ {c} : g[u] = f[u]
      /\ \A y \in KernelPages : y \in free' <=> y \in free /\ y # x
  BY <1>1, <1>2, <1>f, <1>g
<1>4. Owned(g, None, KernelPages, free')
  BY ONLY <1>3, OwnedTake
<1> QED
  BY <1>4, <1>g

\* The kernel pages stay where they are.
LEMMA KernelStays ==
  ASSUME LoadingInv, UNCHANGED <<thread_page, fn_copy>>,
         \A y \in KernelPages : y \in free' <=> y \in free,
         \A q \in Procs : DirectoryOf(q)' = DirectoryOf(q),
         \A q \in Procs, i \in Tables : TableOf(q, i)' = TableOf(q, i)
  PROVE  Owned(KernelUse', None, KernelPages, free')
<1>1. Owned(KernelUse, None, KernelPages, free)
  BY DEF LoadingInv, PagesRight
<1>2. /\ DOMAIN KernelUse' = DOMAIN KernelUse
      /\ \A u \in DOMAIN KernelUse \ {} : KernelUse'[u] = KernelUse[u]
  BY KernelUseStays
<1>f. PICK f : f = KernelUse
  OBVIOUS
<1>g. PICK g : g = KernelUse'
  OBVIOUS
<1>3. /\ Owned(f, None, KernelPages, free) /\ DOMAIN g = DOMAIN f
      /\ \A u \in DOMAIN f : g[u] = f[u]
      /\ \A y \in KernelPages : y \in free' <=> y \in free
  BY <1>1, <1>2, <1>f, <1>g
<1>4. Owned(g, None, KernelPages, free')
  BY ONLY <1>3, OwnedSame
<1> QED
  BY <1>4, <1>g

\* The frames stay where they are.
LEMMA FramesStay ==
  ASSUME LoadingInv, \A y \in UserPages : y \in free' <=> y \in free,
         \A q \in Procs, i \in Tables, j \in Slots : FrameAt(q, i, j)' = FrameAt(q, i, j)
  PROVE  Owned(FrameUse', 0, UserPages, free')
<1>1. Owned(FrameUse, 0, UserPages, free)
  BY DEF LoadingInv, PagesRight
<1>2. /\ DOMAIN FrameUse' = DOMAIN FrameUse
      /\ \A u \in DOMAIN FrameUse \ {} : FrameUse'[u] = FrameUse[u]
  BY FrameUseStays
<1>f. PICK f : f = FrameUse
  OBVIOUS
<1>g. PICK g : g = FrameUse'
  OBVIOUS
<1>3. /\ Owned(f, 0, UserPages, free) /\ DOMAIN g = DOMAIN f
      /\ \A u \in DOMAIN f : g[u] = f[u]
      /\ \A y \in UserPages : y \in free' <=> y \in free
  BY <1>1, <1>2, <1>f, <1>g
<1>4. Owned(g, 0, UserPages, free')
  BY ONLY <1>3, OwnedSame
<1> QED
  BY <1>4, <1>g

\* A frame is taken for one entry.
LEMMA FrameTake ==
  ASSUME LoadingInv, NEW p \in Procs, NEW i \in Tables, NEW j \in Slots,
         NEW x \in UserPages, x \in free, FrameAt(p, i, j) = 0, FrameAt(p, i, j)' = x,
         \A y \in UserPages : y \in free' <=> y \in free /\ y # x,
         \A q \in Procs, k \in Tables, l \in Slots :
           <<q, k, l>> = <<p, i, j>> \/ FrameAt(q, k, l)' = FrameAt(q, k, l)
  PROVE  Owned(FrameUse', 0, UserPages, free')
<1>c. PICK c : c = <<p, i, j>>
  OBVIOUS
<1>1. /\ Owned(FrameUse, 0, UserPages, free) /\ 0 \notin UserPages
  BY LoadingAssumption DEF LoadingInv, PagesRight
<1>2. /\ DOMAIN FrameUse' = DOMAIN FrameUse
      /\ \A u \in DOMAIN FrameUse \ {c} : FrameUse'[u] = FrameUse[u]
  BY <1>c, FrameUseStays
<1>3. c \in DOMAIN FrameUse /\ FrameUse[c] = 0 /\ FrameUse'[c] = x
  BY <1>c, Uses, UsesNext DEF UsesNamed, Cells
<1>f. PICK f : f = FrameUse
  OBVIOUS
<1>g. PICK g : g = FrameUse'
  OBVIOUS
<1>4. /\ Owned(f, 0, UserPages, free) /\ 0 \notin UserPages /\ c \in DOMAIN f
      /\ DOMAIN g = DOMAIN f /\ f[c] = 0 /\ g[c] = x /\ x \in free /\ x \in UserPages
      /\ \A u \in DOMAIN f \ {c} : g[u] = f[u]
      /\ \A y \in UserPages : y \in free' <=> y \in free /\ y # x
  BY <1>1, <1>2, <1>3, <1>f, <1>g
<1>5. Owned(g, 0, UserPages, free')
  BY ONLY <1>4, OwnedTake
<1> QED
  BY <1>5, <1>g

\* A frame is given back.
LEMMA FrameGive ==
  ASSUME LoadingInv, NEW p \in Procs, NEW i \in Tables, NEW j \in Slots,
         FrameAt(p, i, j)' = 0,
         \A y \in UserPages : y \in free' <=> y \in free \/ FrameAt(p, i, j) = y,
         \A q \in Procs, k \in Tables, l \in Slots :
           <<q, k, l>> = <<p, i, j>> \/ FrameAt(q, k, l)' = FrameAt(q, k, l)
  PROVE  Owned(FrameUse', 0, UserPages, free')
<1>c. PICK c : c = <<p, i, j>>
  OBVIOUS
<1>C. PICK C : C = {c}
  OBVIOUS
<1>1. /\ Owned(FrameUse, 0, UserPages, free) /\ 0 \notin UserPages
  BY LoadingAssumption DEF LoadingInv, PagesRight
<1>2. /\ DOMAIN FrameUse' = DOMAIN FrameUse
      /\ \A u \in DOMAIN FrameUse \ {c} : FrameUse'[u] = FrameUse[u]
  BY <1>c, FrameUseStays
<1>3. c \in DOMAIN FrameUse /\ FrameUse[c] = FrameAt(p, i, j) /\ FrameUse'[c] = 0
  BY <1>c, Uses, UsesNext DEF UsesNamed, Cells
<1>f. PICK f : f = FrameUse
  OBVIOUS
<1>g. PICK g : g = FrameUse'
  OBVIOUS
<1>4. /\ Owned(f, 0, UserPages, free) /\ 0 \notin UserPages /\ C \subseteq DOMAIN f
      /\ DOMAIN g = DOMAIN f /\ \A u \in C : g[u] = 0
      /\ \A u \in DOMAIN f \ C : g[u] = f[u]
      /\ \A y \in UserPages : y \in free' <=> y \in free \/ \E u \in C : f[u] = y
  BY <1>1, <1>2, <1>3, <1>f, <1>g, <1>C
<1>5. Owned(g, 0, UserPages, free')
  BY ONLY <1>4, OwnedGive
<1> QED
  BY <1>5, <1>g

\* start_process() gives the copy of the file name back.
LEMMA StartProcessInv ==
  ASSUME LoadingInv, NEW p \in Procs, StartProcess(p)
  PROVE  LoadingInv'
<1>x. PICK x : x = IF at[p] = "loaded" THEN "user" ELSE "exit"
  OBVIOUS
<1>1. /\ cur = p /\ at[p] \in {"loaded", "failed"} /\ free' = free \cup {fn_copy[p]}
      /\ fn_copy' = [fn_copy EXCEPT ![p] = None] /\ Goto(p, x)
      /\ UNCHANGED <<cur, pde, pte, thread_page, pagedir, seg, cr3, tlb, esp0, used>>
  BY <1>x DEF StartProcess, Running, cpuVars
<1>2. /\ at' \in [Procs -> Points] /\ at'[p] = x /\ \A q \in Procs \ {p} : at'[q] = at[q]
  BY <1>x, <1>1, Gone DEF Points
<1>3. /\ fn_copy' \in [Procs -> KernelPages \cup {None}] /\ fn_copy'[p] = None
      /\ fn_copy[p] # None /\ fn_copy[p] \in KernelPages
      /\ \A q \in Procs \ {p} : fn_copy'[q] = fn_copy[q]
  BY <1>1 DEF LoadingInv, TypesRight, StagesRight, Naming
<1>4. TypesRight'
  BY <1>1, <1>2, <1>3 DEF LoadingInv, TypesRight, Pools
<1>5. StagesRight'
  BY <1>x, <1>1, <1>2, <1>3 DEF LoadingInv, StagesRight, Naming, Directed, Directing
<1>6. \A q \in Procs : DirectoryOf(q)' = DirectoryOf(q)
  BY <1>x, <1>1, <1>2 DEF DirectoryOf
<1>7. PagesRight'
  <2>c. PICK c : c = <<p, <<"name", 0>>>>
    OBVIOUS
  <2>1. KernelUse[c] = fn_copy[p] /\ KernelUse'[c] = fn_copy'[p]
    BY <2>c, Uses, UsesNext DEF UsesNamed
  <2>2. free' = free \cup {KernelUse[c]} /\ KernelUse[c] # None /\ KernelUse'[c] = None
    BY <1>1, <1>3, <2>1
  <2> QED
    BY <1>1, <1>3, <1>6, <2>c, <2>2, KernelGive
<1>8. CpuRight'
  BY <1>x, <1>1, <1>2, <1>6 DEF LoadingInv, CpuRight
<1>9. TlbRight'
  BY <1>1, TlbStays
<1>10. UsesMarked'
  <2>1. \A v \in Touched, b \in {"a", "d"} : <<p, v, b>> \notin used
    BY <1>1 DEF LoadingInv, UsesMarked
  <2>2. ASSUME NEW q \in Procs, NEW v \in Touched, NEW b \in {"a", "d"}, <<q, v, b>> \in used'
        PROVE  \/ at'[q] \in {"user", "forgot", "left"}
               \/ at'[q] = "exit" /\ pagedir'[q] # None
    BY <1>1, <1>2, <2>1, <2>2 DEF LoadingInv, UsesMarked
  <2>3. ASSUME NEW q \in Procs, NEW v \in Touched, pagedir'[q] # None, Mapped(pagedir[q], v)'
        PROVE  /\ <<q, v, "a">> \in used' => Entry(pagedir[q], v)'.a
               /\ <<q, v, "d">> \in used' => Entry(pagedir[q], v)'.d
    BY <1>1, <2>3 DEF LoadingInv, UsesMarked, Mapped, HasEntry, Entry
  <2> QED
    BY <2>2, <2>3 DEF UsesMarked
<1> QED
  BY <1>4, <1>5, <1>7, <1>8, <1>9, <1>10 DEF LoadingInv

\* What has been marked stays so while the page tables stay.
LEMMA UsesStay ==
  ASSUME LoadingInv, UNCHANGED <<pde, pte, used>>,
         \A q \in Procs : pagedir'[q] \in {pagedir[q], None},
         \A q \in Procs, v \in Touched, b \in {"a", "d"} : <<q, v, b>> \in used =>
           at'[q] \in {"user", "forgot", "left"} \/ (at'[q] = "exit" /\ pagedir'[q] # None)
  PROVE  UsesMarked'
<1>1. ASSUME NEW q \in Procs, NEW v \in Touched, pagedir'[q] # None, Mapped(pagedir[q], v)'
      PROVE  /\ <<q, v, "a">> \in used' => Entry(pagedir[q], v)'.a
             /\ <<q, v, "d">> \in used' => Entry(pagedir[q], v)'.d
  <2>1. pagedir'[q] = pagedir[q] /\ pagedir[q] # None
    BY <1>1
  <2> QED
    BY <1>1, <2>1 DEF LoadingInv, UsesMarked, Mapped, HasEntry, Entry
<1> QED
  BY <1>1 DEF UsesMarked

\* thread_schedule_tail() activates the next thread's directory, and frees the
\* page of a thread that has died.
LEMMA SwitchInv ==
  ASSUME LoadingInv, NEW t \in Procs \cup {Main}, Switch(t)
  PROVE  LoadingInv'
<1>1. /\ t # cur /\ cur' = t /\ esp0' = t /\ tlb' = EmptyTlb
      /\ cr3' = IF PagedirOf(t) = None THEN InitPageDir ELSE PagedirOf(t)
      /\ UNCHANGED <<pde, pte, fn_copy, pagedir, seg, used>>
  BY DEF Switch, ProcessActivate, PagedirActivate
<1>2. DOMAIN tlb' = {}
  BY <1>1 DEF EmptyTlb
<1>3. Main \notin Procs
  BY LoadingAssumption
<1>4. TlbRight'
  BY <1>2 DEF TlbRight
<1>5. ASSUME \A q \in Procs \ {cur} : at'[q] = at[q],
             \A q \in Procs : at'[q] # at[q] => at[q] = "dying" /\ at'[q] = "none"
      PROVE  CpuRight' /\ \A q \in Procs : DirectoryOf(q)' = DirectoryOf(q)
  <2>1. \A q \in Procs : DirectoryOf(q)' = DirectoryOf(q)
    BY <1>1, <1>5 DEF DirectoryOf
  <2>2. CASE t = Main
    BY <1>1, <1>3, <2>1, <2>2 DEF CpuRight, PagedirOf
  <2>3. CASE t \in Procs
    <3>1. PagedirOf(t) = pagedir[t] /\ at'[t] = at[t]
      BY <1>1, <1>3, <1>5, <2>3 DEF PagedirOf
    <3>2. pagedir[t] # None => DirectoryOf(t) = pagedir[t] /\ at[t] \in Directing
      BY <2>3 DEF LoadingInv, StagesRight, DirectoryOf, Directing, Directed
    <3>3. at[t] = "left" => pagedir[t] = None
      BY <3>2 DEF Directing, Directed
    <3> QED
      BY <1>1, <1>3, <2>1, <2>3, <3>1, <3>2, <3>3 DEF CpuRight
  <2> QED
    BY <2>1, <2>2, <2>3
<1>6. CASE ~Dying(cur) /\ UNCHANGED <<at, free, thread_page>>
  <2>1. TypesRight' /\ StagesRight'
    BY <1>1, <1>6 DEF LoadingInv, TypesRight, StagesRight
  <2>2. CpuRight' /\ \A q \in Procs : DirectoryOf(q)' = DirectoryOf(q)
    BY <1>5, <1>6
  <2>3. PagesRight'
    BY <1>1, <1>6, <2>2, PagesStay
  <2>4. UsesMarked'
    <3>1. \A q \in Procs, v \in Touched, b \in {"a", "d"} : <<q, v, b>> \in used =>
            at'[q] \in {"user", "forgot", "left"} \/ (at'[q] = "exit" /\ pagedir'[q] # None)
      BY <1>1, <1>6 DEF LoadingInv, UsesMarked
    <3> QED
      BY <1>1, <3>1, UsesStay
  <2> QED
    BY <1>4, <2>1, <2>2, <2>3, <2>4 DEF LoadingInv
<1>7. CASE /\ Dying(cur) /\ Goto(cur, "none") /\ free' = free \cup {thread_page[cur]}
           /\ thread_page' = [thread_page EXCEPT ![cur] = None]
  <2>1. cur \in Procs /\ at[cur] = "dying"
    BY <1>7 DEF Dying
  <2>2. at' \in [Procs -> Points] /\ at'[cur] = "none" /\ \A q \in Procs \ {cur} : at'[q] = at[q]
    BY <1>7, <2>1 DEF LoadingInv, TypesRight, Goto, Points
  <2>3. /\ thread_page' \in [Procs -> KernelPages \cup {None}] /\ thread_page'[cur] = None
        /\ \A q \in Procs \ {cur} : thread_page'[q] = thread_page[q]
        /\ thread_page[cur] # None /\ thread_page[cur] \in KernelPages
    BY <1>7, <2>1 DEF LoadingInv, TypesRight, StagesRight
  <2>4. TypesRight'
    BY <1>1, <1>7, <2>2, <2>3 DEF LoadingInv, TypesRight, Pools
  <2>5. StagesRight'
    BY <1>1, <2>1, <2>2, <2>3 DEF LoadingInv, StagesRight, Naming, Directed, Directing
  <2>6. CpuRight' /\ \A q \in Procs : DirectoryOf(q)' = DirectoryOf(q)
    BY <1>5, <2>1, <2>2
  <2>7. PagesRight'
    <3>p. PICK p \in Procs : p = cur
      BY <2>1
    <3>c. PICK c : c = <<p, <<"thread", 0>>>>
      OBVIOUS
    <3>1. KernelUse[c] = thread_page[p] /\ KernelUse'[c] = thread_page'[p]
      BY <3>c, Uses, UsesNext DEF UsesNamed
    <3>2. free' = free \cup {KernelUse[c]} /\ KernelUse[c] # None /\ KernelUse'[c] = None
      BY <1>7, <2>3, <3>p, <3>1
    <3> QED
      BY <1>1, <2>3, <2>6, <3>p, <3>c, <3>2, KernelGive
  <2>8. UsesMarked'
    <3>1. \A q \in Procs, v \in Touched, b \in {"a", "d"} : <<q, v, b>> \in used =>
            at'[q] \in {"user", "forgot", "left"} \/ (at'[q] = "exit" /\ pagedir'[q] # None)
      BY <1>1, <2>1, <2>2 DEF LoadingInv, UsesMarked
    <3> QED
      BY <1>1, <3>1, UsesStay
  <2> QED
    BY <1>4, <2>4, <2>5, <2>6, <2>7, <2>8 DEF LoadingInv
<1> QED
  BY <1>6, <1>7 DEF Switch

\* process_exit() forgets the directory, which the processor still uses.
LEMMA ExitForgetInv ==
  ASSUME LoadingInv, NEW p \in Procs, ExitForget(p)
  PROVE  LoadingInv'
<1>1. /\ cur = p /\ at[p] = "exit"
      /\ UNCHANGED <<cur, free, pde, pte, thread_page, fn_copy, cr3, tlb, esp0, used>>
  BY DEF ExitForget, Running, memVars, cpuVars
<1>2. CASE pagedir[p] = None /\ Goto(p, "dying") /\ UNCHANGED <<pagedir, seg>>
  <2>1. \A v \in Touched, b \in {"a", "d"} : <<p, v, b>> \notin used
    BY <1>1, <1>2 DEF LoadingInv, UsesMarked
  <2>2. DOMAIN seg' = Procs
    BY <1>2 DEF LoadingInv, TypesRight
  <2> QED
    BY <1>1, <1>2, <2>1, <2>2, QuietInv DEF Points, Naming, Directed, Directing
<1>3. CASE /\ pagedir[p] # None /\ Goto(p, "forgot")
           /\ seg' = [seg EXCEPT ![p] = [NoSeg EXCEPT !.pos = pagedir[p]]]
           /\ pagedir' = [pagedir EXCEPT ![p] = None]
  <2>1. at' \in [Procs -> Points] /\ at'[p] = "forgot" /\ \A q \in Procs \ {p} : at'[q] = at[q]
    BY <1>3, Gone DEF Points
  <2>2. /\ pagedir' \in [Procs -> KernelPages \cup {None}] /\ pagedir'[p] = None
        /\ \A q \in Procs \ {p} : pagedir'[q] = pagedir[q]
        /\ pagedir[p] \in KernelPages
    BY <1>3 DEF LoadingInv, TypesRight
  <2>3. /\ DOMAIN seg' = Procs /\ seg'[p].pos = pagedir[p]
        /\ \A q \in Procs \ {p} : seg'[q] = seg[q]
    BY <1>3 DEF LoadingInv, TypesRight, NoSeg
  <2>4. TypesRight'
    BY <1>1, <2>1, <2>2, <2>3 DEF LoadingInv, TypesRight
  <2>5. StagesRight'
    BY <1>1, <2>1, <2>2, <2>3 DEF LoadingInv, StagesRight, Naming, Directed, Directing
  <2>6. \A q \in Procs : DirectoryOf(q)' = DirectoryOf(q)
    BY <1>1, <2>1, <2>2, <2>3 DEF DirectoryOf
  <2>7. PagesRight'
    BY <1>1, <2>6, PagesStay
  <2>8. CpuRight'
    BY <1>1, <2>1, <2>2, <2>6 DEF LoadingInv, CpuRight
  <2>9. UsesMarked'
    <3>1. \A q \in Procs, v \in Touched, b \in {"a", "d"} : <<q, v, b>> \in used =>
            at'[q] \in {"user", "forgot", "left"} \/ (at'[q] = "exit" /\ pagedir'[q] # None)
      BY <2>1, <2>2 DEF LoadingInv, UsesMarked
    <3> QED
      BY <1>1, <2>2, <3>1, UsesStay
  <2>10. TlbRight'
    BY <1>1, TlbStays
  <2> QED
    BY <2>4, <2>5, <2>7, <2>8, <2>9, <2>10 DEF LoadingInv
<1> QED
  BY <1>2, <1>3 DEF ExitForget, Forgotten

\* process_exit() leaves it.
LEMMA ExitLeaveInv ==
  ASSUME LoadingInv, NEW p \in Procs, ExitLeave(p)
  PROVE  LoadingInv'
<1>1. /\ cur = p /\ at[p] = "forgot" /\ Goto(p, "left") /\ cr3' = InitPageDir /\ tlb' = EmptyTlb
      /\ UNCHANGED <<cur, free, pde, pte, thread_page, fn_copy, pagedir, seg, esp0, used>>
  BY DEF ExitLeave, Running, PagedirActivate, memVars
<1>2. at' \in [Procs -> Points] /\ at'[p] = "left" /\ \A q \in Procs \ {p} : at'[q] = at[q]
  BY <1>1, Gone DEF Points
<1>3. TypesRight'
  BY <1>1, <1>2 DEF LoadingInv, TypesRight
<1>4. StagesRight' /\ pagedir[p] = None
  BY <1>1, <1>2 DEF LoadingInv, StagesRight, Naming, Directed, Directing
<1>5. \A q \in Procs : DirectoryOf(q)' = DirectoryOf(q)
  BY <1>1, <1>2 DEF DirectoryOf
<1>6. PagesRight'
  BY <1>1, <1>5, PagesStay
<1>7. CpuRight'
  BY <1>1, <1>4, LoadingAssumption DEF CpuRight
<1>8. TlbRight'
  BY <1>1 DEF TlbRight, EmptyTlb
<1>9. UsesMarked'
  <2>1. \A q \in Procs, v \in Touched, b \in {"a", "d"} : <<q, v, b>> \in used =>
          at'[q] \in {"user", "forgot", "left"} \/ (at'[q] = "exit" /\ pagedir'[q] # None)
    BY <1>1, <1>2 DEF LoadingInv, UsesMarked
  <2> QED
    BY <1>1, <2>1, UsesStay
<1> QED
  BY <1>3, <1>4, <1>6, <1>7, <1>8, <1>9 DEF LoadingInv

\* What pagedir_destroy() finds in the directory of p.
LEMMA DirectoryPages ==
  ASSUME LoadingInv, NEW p \in Procs, NEW d, d = DirectoryOf(p), d # None
  PROVE  /\ d \in KernelPages
         /\ \A x : x \in TablesOf(d) <=> x # 0 /\ \E i \in Tables : x = TableOf(p, i)
         /\ \A x : x \in FramesOf(d) <=>
                     x # 0 /\ \E i \in Tables, j \in Slots : x = FrameAt(p, i, j)
         /\ TablesOf(d) \subseteq KernelPages /\ FramesOf(d) \subseteq UserPages
<1>1. d \in KernelPages /\ \A i \in Tables : pde[d][i] = TableOf(p, i)
  BY KernelDistinct DEF TableOf
<1>2. \A x : x \in TablesOf(d) <=> x # 0 /\ \E i \in Tables : x = TableOf(p, i)
  BY <1>1 DEF TablesOf
<1>3. TablesOf(d) \subseteq KernelPages
  BY <1>2, KernelDistinct
<1>4. \A t \in KernelPages : DOMAIN pte[t] = Slots /\ \A j \in Slots : pte[t][j] \in Pte
  BY DEF LoadingInv, TypesRight
<1>5. ASSUME NEW x \in FramesOf(d)
      PROVE  x # 0 /\ x \in UserPages /\ \E i \in Tables, j \in Slots : x = FrameAt(p, i, j)
  <2>1. PICK e \in UNION {Range(pte[t]) : t \in TablesOf(d)} : e.p /\ x = e.frame
    BY DEF FramesOf
  <2>2. PICK t \in TablesOf(d) : e \in Range(pte[t])
    OBVIOUS
  <2>3. PICK j \in Slots : e = pte[t][j]
    BY <1>3, <1>4, <2>2 DEF Range
  <2>4. PICK i \in Tables : t = TableOf(p, i) /\ t # 0
    BY <1>2
  <2>5. x = FrameAt(p, i, j)
    BY <2>1, <2>3, <2>4 DEF FrameAt
  <2>6. x \in UserPages
    BY <1>3, <1>4, <2>1, <2>3 DEF Pte
  <2> QED
    BY <2>5, <2>6, LoadingAssumption
<1>6. ASSUME NEW i \in Tables, NEW j \in Slots, FrameAt(p, i, j) # 0
      PROVE  FrameAt(p, i, j) \in FramesOf(d)
  <2>t. PICK t : t = TableOf(p, i)
    OBVIOUS
  <2>1. t # 0 /\ pte[t][j].p /\ FrameAt(p, i, j) = pte[t][j].frame
    BY <1>6, <2>t DEF FrameAt
  <2>2. t \in TablesOf(d) /\ t \in KernelPages
    BY <1>2, <1>3, <2>1, <2>t
  <2>3. pte[t][j] \in Range(pte[t])
    BY <1>4, <2>2 DEF Range
  <2> QED
    BY <2>1, <2>2, <2>3 DEF FramesOf
<1> QED
  BY <1>1, <1>2, <1>3, <1>5, <1>6

\* pagedir_destroy() of a directory that nobody uses any more.
LEMMA ExitDestroyInv ==
  ASSUME LoadingInv, NEW p \in Procs, ExitDestroy(p)
  PROVE  LoadingInv'
<1>d. PICK d : d = seg[p].pos
  OBVIOUS
<1>1. /\ cur = p /\ at[p] = "left" /\ free' = free \cup PagesOf(d) /\ Goto(p, "dying")
      /\ seg' = [seg EXCEPT ![p] = NoSeg] /\ used' = {u \in used : u[1] # p}
      /\ UNCHANGED <<cur, pde, pte, thread_page, fn_copy, pagedir, cr3, tlb, esp0>>
  BY <1>d DEF ExitDestroy, Running, cpuVars
<1>2. at' \in [Procs -> Points] /\ at'[p] = "dying" /\ \A q \in Procs \ {p} : at'[q] = at[q]
  BY <1>1, Gone DEF Points
<1>3. d = DirectoryOf(p) /\ d \in KernelPages /\ d # None /\ pagedir[p] = None /\ fn_copy[p] = None
  BY <1>1, <1>d, LoadingAssumption
    DEF LoadingInv, StagesRight, DirectoryOf, Naming, Directing, Directed
<1>4. /\ \A x : x \in TablesOf(d) <=> x # 0 /\ \E i \in Tables : x = TableOf(p, i)
      /\ \A x : x \in FramesOf(d) <=>
                  x # 0 /\ \E i \in Tables, j \in Slots : x = FrameAt(p, i, j)
      /\ TablesOf(d) \subseteq KernelPages /\ FramesOf(d) \subseteq UserPages
  BY <1>3, DirectoryPages
<1>5. DOMAIN seg' = Procs /\ \A q \in Procs \ {p} : seg'[q] = seg[q]
  BY <1>1 DEF LoadingInv, TypesRight
<1>6. TypesRight'
  <2>1. free' \subseteq Pools
    BY <1>1, <1>3, <1>4 DEF LoadingInv, TypesRight, Pools, PagesOf
  <2> QED
    BY <1>1, <1>2, <1>5, <2>1 DEF LoadingInv, TypesRight
<1>7. StagesRight'
  BY <1>1, <1>2, <1>3, <1>5 DEF LoadingInv, StagesRight, Naming, Directed, Directing
<1>8. DirectoryOf(p)' = None /\ \A q \in Procs \ {p} : DirectoryOf(q)' = DirectoryOf(q)
  BY <1>1, <1>2, <1>3, <1>5 DEF DirectoryOf
<1>9. \A i \in Tables : /\ TableOf(p, i)' = 0
                        /\ \A q \in Procs \ {p} : TableOf(q, i)' = TableOf(q, i)
  BY <1>1, <1>8 DEF TableOf
<1>10. \A i \in Tables, j \in Slots :
         /\ FrameAt(p, i, j)' = 0
         /\ \A q \in Procs \ {p} : FrameAt(q, i, j)' = FrameAt(q, i, j)
  BY <1>1, <1>9 DEF FrameAt
<1>p. /\ Owned(KernelUse, None, KernelPages, free) /\ Owned(FrameUse, 0, UserPages, free)
      /\ None \notin KernelPages /\ 0 \notin UserPages /\ KernelPages \cap UserPages = {}
      /\ 0 \notin KernelPages
  BY LoadingAssumption DEF LoadingInv, PagesRight
<1>11. Owned(KernelUse', None, KernelPages, free')
  <2>C. PICK C : C = {<<p, <<"dir", 0>>>>} \cup {<<p, <<"table", i>>>> : i \in Tables}
    OBVIOUS
  <2>1. /\ DOMAIN KernelUse' = DOMAIN KernelUse
        /\ \A u \in DOMAIN KernelUse \ C : KernelUse'[u] = KernelUse[u]
    <3>1. \A q \in Procs : /\ thread_page'[q] = thread_page[q] /\ fn_copy'[q] = fn_copy[q]
                           /\ <<q, <<"dir", 0>>>> \in C \/ DirectoryOf(q)' = DirectoryOf(q)
      BY <1>1, <1>8, <2>C
    <3>2. \A q \in Procs, i \in Tables :
            <<q, <<"table", i>>>> \in C \/ TableOf(q, i)' = TableOf(q, i)
      BY <1>9, <2>C
    <3> QED
      BY <3>1, <3>2, KernelUseStays
  <2>2. C \subseteq DOMAIN KernelUse
    <3>1. /\ <<p, <<"dir", 0>>>> \in DOMAIN KernelUse
          /\ \A i \in Tables : <<p, <<"table", i>>>> \in DOMAIN KernelUse
      BY Uses DEF UsesNamed
    <3> QED
      BY <2>C, <3>1
  <2>3. /\ KernelUse[<<p, <<"dir", 0>>>>] = d /\ KernelUse'[<<p, <<"dir", 0>>>>] = None
        /\ \A i \in Tables :
             /\ KernelUse[<<p, <<"table", i>>>>] = IF TableOf(p, i) = 0 THEN None ELSE TableOf(p, i)
             /\ KernelUse'[<<p, <<"table", i>>>>] = None
    <3>1. KernelUse[<<p, <<"dir", 0>>>>] = d /\ KernelUse'[<<p, <<"dir", 0>>>>] = None
      BY <1>3, <1>8, Uses, UsesNext DEF UsesNamed
    <3>2. ASSUME NEW i \in Tables
          PROVE  /\ KernelUse[<<p, <<"table", i>>>>] =
                      IF TableOf(p, i) = 0 THEN None ELSE TableOf(p, i)
                 /\ KernelUse'[<<p, <<"table", i>>>>] =
                      IF TableOf(p, i)' = 0 THEN None ELSE TableOf(p, i)'
      BY Uses, UsesNext DEF UsesNamed
    <3> QED
      BY <1>9, <3>1, <3>2
  <2>4. \A u \in C : KernelUse'[u] = None
    BY <2>C, <2>3
  <2>5. ASSUME NEW x \in KernelPages
        PROVE  x \in free' <=> x \in free \/ \E u \in C : KernelUse[u] = x
    <3>1. x \in free' <=> x \in free \/ x = d \/ x \in TablesOf(d)
      BY <1>1, <1>4, <1>p DEF PagesOf
    <3>2. (\E u \in C : KernelUse[u] = x) <=> x = d \/ \E i \in Tables : x = TableOf(p, i)
      BY <1>p, <2>C, <2>3
    <3> QED
      BY <1>4, <1>p, <3>1, <3>2
  <2>f. PICK f : f = KernelUse
    OBVIOUS
  <2>g. PICK g : g = KernelUse'
    OBVIOUS
  <2>6. /\ Owned(f, None, KernelPages, free) /\ None \notin KernelPages /\ C \subseteq DOMAIN f
        /\ DOMAIN g = DOMAIN f /\ \A u \in C : g[u] = None
        /\ \A u \in DOMAIN f \ C : g[u] = f[u]
        /\ \A x \in KernelPages : x \in free' <=> x \in free \/ \E u \in C : f[u] = x
    BY <1>p, <2>1, <2>2, <2>4, <2>5, <2>f, <2>g
  <2>7. Owned(g, None, KernelPages, free')
    BY ONLY <2>6, OwnedGive
  <2> QED
    BY <2>7, <2>g
<1>12. Owned(FrameUse', 0, UserPages, free')
  <2>C. PICK C : C = {p} \X Tables \X Slots
    OBVIOUS
  <2>1. /\ DOMAIN FrameUse' = DOMAIN FrameUse
        /\ \A u \in DOMAIN FrameUse \ C : FrameUse'[u] = FrameUse[u]
    <3>1. \A q \in Procs, i \in Tables, j \in Slots :
            <<q, i, j>> \in C \/ FrameAt(q, i, j)' = FrameAt(q, i, j)
      BY <1>10, <2>C
    <3> QED
      BY <3>1, FrameUseStays
  <2>2. C \subseteq DOMAIN FrameUse
    BY <2>C, Uses DEF UsesNamed, Cells
  <2>3. \A i \in Tables, j \in Slots :
          FrameUse[<<p, i, j>>] = FrameAt(p, i, j) /\ FrameUse'[<<p, i, j>>] = 0
    BY <1>10, Uses, UsesNext DEF UsesNamed
  <2>4. \A u \in C : FrameUse'[u] = 0
    BY <2>C, <2>3
  <2>5. ASSUME NEW x \in UserPages
        PROVE  x \in free' <=> x \in free \/ \E u \in C : FrameUse[u] = x
    <3>1. x \in free' <=> x \in free \/ x \in FramesOf(d)
      BY <1>1, <1>3, <1>4, <1>p DEF PagesOf
    <3>2. (\E u \in C : FrameUse[u] = x) <=> \E i \in Tables, j \in Slots : x = FrameAt(p, i, j)
      <4>1. \A i \in Tables, j \in Slots : <<p, i, j>> \in C
        BY <2>C
      <4>2. \A u \in C : \E i \in Tables, j \in Slots : u = <<p, i, j>>
        BY <2>C
      <4>3. ASSUME NEW u \in C, FrameUse[u] = x
            PROVE  \E i \in Tables, j \in Slots : x = FrameAt(p, i, j)
        <5>1. PICK i \in Tables, j \in Slots : u = <<p, i, j>>
          BY <4>2
        <5>2. x = FrameAt(p, i, j)
          BY <2>3, <4>3, <5>1
        <5> QED
          BY <5>2
      <4>4. ASSUME NEW i \in Tables, NEW j \in Slots, x = FrameAt(p, i, j)
            PROVE  \E u \in C : FrameUse[u] = x
        <5>1. <<p, i, j>> \in C /\ FrameUse[<<p, i, j>>] = x
          BY <2>3, <4>1, <4>4
        <5> QED
          BY <5>1
      <4> QED
        BY <4>3, <4>4
    <3> QED
      BY <1>4, <1>p, <3>1, <3>2
  <2>f. PICK f : f = FrameUse
    OBVIOUS
  <2>g. PICK g : g = FrameUse'
    OBVIOUS
  <2>6. /\ Owned(f, 0, UserPages, free) /\ 0 \notin UserPages /\ C \subseteq DOMAIN f
        /\ DOMAIN g = DOMAIN f /\ \A u \in C : g[u] = 0
        /\ \A u \in DOMAIN f \ C : g[u] = f[u]
        /\ \A x \in UserPages : x \in free' <=> x \in free \/ \E u \in C : f[u] = x
    BY <1>p, <2>1, <2>2, <2>4, <2>5, <2>f, <2>g
  <2>7. Owned(g, 0, UserPages, free')
    BY ONLY <2>6, OwnedGive
  <2> QED
    BY <2>7, <2>g
<1>13. CpuRight' /\ TlbRight'
  <2>1. cr3 = InitPageDir
    BY <1>1 DEF LoadingInv, CpuRight
  <2>2. CpuRight'
    BY <1>1, <1>3, <2>1, LoadingAssumption DEF CpuRight
  <2> QED
    BY <1>1, <2>2, TlbStays
<1>14. UsesMarked'
  <2>1. \A q \in Procs, v \in Touched, b \in {"a", "d"} :
          <<q, v, b>> \in used' => <<q, v, b>> \in used /\ q # p
    BY <1>1
  <2>2. ASSUME NEW q \in Procs, NEW v \in Touched, NEW b \in {"a", "d"}, <<q, v, b>> \in used'
        PROVE  \/ at'[q] \in {"user", "forgot", "left"}
               \/ at'[q] = "exit" /\ pagedir'[q] # None
    BY <1>1, <1>2, <2>1, <2>2 DEF LoadingInv, UsesMarked
  <2>3. ASSUME NEW q \in Procs, NEW v \in Touched, pagedir'[q] # None, Mapped(pagedir[q], v)'
        PROVE  /\ <<q, v, "a">> \in used' => Entry(pagedir[q], v)'.a
               /\ <<q, v, "d">> \in used' => Entry(pagedir[q], v)'.d
    BY <1>1, <2>1, <2>3 DEF LoadingInv, UsesMarked, Mapped, HasEntry, Entry
  <2> QED
    BY <2>2, <2>3 DEF UsesMarked
<1> QED
  BY <1>6, <1>7, <1>11, <1>12, <1>13, <1>14 DEF LoadingInv, PagesRight

\* process_execute() finds two free kernel pages.
LEMMA TwoFree ==
  ASSUME Cardinality(free \cap KernelPages) >= 2, NEW a, a = FirstFree(KernelPages),
         NEW b, b = Min((free \cap KernelPages) \ {a})
  PROVE  a \in free /\ a \in KernelPages /\ b \in free /\ b \in KernelPages /\ a # b
<1>1. free \cap KernelPages # {} /\ \A x : free \cap KernelPages # {x}
  <2>S. PICK S : S = free \cap KernelPages
    OBVIOUS
  <2>1. Cardinality(S) >= 2
    BY <2>S
  <2>2. S # {}
    <3>1. Cardinality({}) = 0
      BY FS_EmptySet
    <3>2. SUFFICES ASSUME S = {} PROVE FALSE
      OBVIOUS
    <3>3. Cardinality(S) = 0
      BY <3>1, <3>2
    <3> QED
      BY <2>1, <3>3
  <2>3. ASSUME NEW x, S = {x} PROVE FALSE
    <3>1. Cardinality({x}) = 1
      BY FS_Singleton
    <3>2. Cardinality(S) = 1
      BY <2>3, <3>1
    <3> QED
      BY <2>1, <3>2
  <2> QED
    BY <2>S, <2>2, <2>3
<1>2. a \in free /\ a \in KernelPages
  BY <1>1, FirstFreeThere DEF Available
<1>3. (free \cap KernelPages) \ {a} # {} /\ (free \cap KernelPages) \ {a} \in SUBSET Nat
  <2>1. KernelPages \subseteq Nat
    BY LoadingAssumption
  <2>2. \E y \in free \cap KernelPages : y # a
    BY <1>1, <1>2
  <2> QED
    BY <2>1, <2>2
<1>4. \E m \in (free \cap KernelPages) \ {a} : \A n \in (free \cap KernelPages) \ {a} : m <= n
  BY <1>3, LeastNat
<1>5. b \in (free \cap KernelPages) \ {a}
  BY <1>4 DEF Min
<1> QED
  BY <1>2, <1>5

\* process_execute() takes them for the name and the thread.
LEMMA ProcessExecuteInv ==
  ASSUME LoadingInv, NEW p \in Procs, NEW x, ProcessExecute(p, x)
  PROVE  LoadingInv'
<1>a. PICK a : a = FirstFree(KernelPages)
  OBVIOUS
<1>b. PICK b : b = Min((free \cap KernelPages) \ {a})
  OBVIOUS
<1>1. /\ cur = Main /\ at[p] = "none" /\ Cardinality(free \cap KernelPages) >= 2
      /\ fn_copy' = [fn_copy EXCEPT ![p] = a] /\ thread_page' = [thread_page EXCEPT ![p] = b]
      /\ free' = free \ {fn_copy'[p], thread_page'[p]}
      /\ seg' = [seg EXCEPT ![p] = [NoSeg EXCEPT !.i = 1]]
      /\ Goto(p, "load")
      /\ UNCHANGED <<cur, pde, pte, pagedir, cr3, tlb, esp0, used>>
  BY <1>a, <1>b DEF ProcessExecute, cpuVars
<1>2. at' \in [Procs -> Points] /\ at'[p] = "load" /\ \A q \in Procs \ {p} : at'[q] = at[q]
  BY <1>1, Gone DEF Points
<1>3. a \in free /\ a \in KernelPages /\ b \in free /\ b \in KernelPages /\ a # b
  BY <1>1, <1>a, <1>b, TwoFree
<1>4. /\ fn_copy' \in [Procs -> KernelPages \cup {None}] /\ fn_copy'[p] = a
      /\ thread_page' \in [Procs -> KernelPages \cup {None}] /\ thread_page'[p] = b
      /\ \A q \in Procs \ {p} : fn_copy'[q] = fn_copy[q] /\ thread_page'[q] = thread_page[q]
      /\ free' = free \ {a, b}
  BY <1>1, <1>3 DEF LoadingInv, TypesRight
<1>5. DOMAIN seg' = Procs /\ \A q \in Procs \ {p} : seg'[q] = seg[q]
  BY <1>1 DEF LoadingInv, TypesRight
<1>6. /\ fn_copy[p] = None /\ thread_page[p] = None /\ pagedir[p] = None
      /\ Main \notin Procs /\ a # None /\ b # None
  BY <1>1, <1>3, LoadingAssumption DEF LoadingInv, StagesRight, Naming, Directing, Directed
<1>7. TypesRight'
  BY <1>1, <1>2, <1>4, <1>5 DEF LoadingInv, TypesRight
<1>8. StagesRight'
  BY <1>1, <1>2, <1>4, <1>5, <1>6 DEF LoadingInv, StagesRight, Naming, Directed, Directing
<1>9. \A q \in Procs : DirectoryOf(q)' = DirectoryOf(q)
  BY <1>1, <1>2, <1>5 DEF DirectoryOf
<1>10. /\ \A q \in Procs, i \in Tables : TableOf(q, i)' = TableOf(q, i)
       /\ \A q \in Procs, i \in Tables, j \in Slots : FrameAt(q, i, j)' = FrameAt(q, i, j)
  <2>1. \A q \in Procs, i \in Tables : TableOf(q, i)' = TableOf(q, i)
    BY <1>1, <1>9 DEF TableOf
  <2> QED
    BY <1>1, <2>1 DEF FrameAt
<1>11. Owned(KernelUse', None, KernelPages, free')
  <2>c. PICK c : c = <<p, <<"name", 0>>>>
    OBVIOUS
  <2>e. PICK e : e = <<p, <<"thread", 0>>>>
    OBVIOUS
  <2>f. PICK f : f = KernelUse
    OBVIOUS
  <2>g. PICK g : g = KernelUse'
    OBVIOUS
  <2>h. PICK h : h = [f EXCEPT ![c] = a]
    OBVIOUS
  <2>1. /\ DOMAIN g = DOMAIN f /\ \A u \in DOMAIN f \ {c, e} : g[u] = f[u]
    <3>1. /\ \A q \in Procs :
               /\ <<q, <<"thread", 0>>>> \in {c, e} \/ thread_page'[q] = thread_page[q]
               /\ <<q, <<"name", 0>>>> \in {c, e} \/ fn_copy'[q] = fn_copy[q]
      BY <1>4, <2>c, <2>e
    <3> QED
      BY <1>9, <1>10, <2>f, <2>g, <3>1, KernelUseStays
  <2>2. /\ c \in DOMAIN f /\ e \in DOMAIN f /\ c # e /\ f[c] = None /\ f[e] = None
        /\ g[c] = a /\ g[e] = b
    BY <1>4, <1>6, <2>c, <2>e, <2>f, <2>g, Uses, UsesNext DEF UsesNamed
  <2>3. DOMAIN h = DOMAIN f /\ h[c] = a /\ \A u \in DOMAIN f \ {c} : h[u] = f[u]
    BY <2>2, <2>h
  <2>4. Owned(f, None, KernelPages, free) /\ None \notin KernelPages
    BY <2>f, LoadingAssumption DEF LoadingInv, PagesRight
  <2>5. Owned(h, None, KernelPages, free \ {a})
    <3>1. \A y \in KernelPages : y \in free \ {a} <=> y \in free /\ y # a
      OBVIOUS
    <3> QED
      BY ONLY <1>3, <2>2, <2>3, <2>4, <3>1, OwnedTake
  <2>6. /\ DOMAIN g = DOMAIN h /\ h[e] = None /\ e \in DOMAIN h /\ b \in free \ {a}
        /\ \A u \in DOMAIN h \ {e} : g[u] = h[u]
        /\ \A y \in KernelPages : y \in free' <=> y \in free \ {a} /\ y # b
    BY <1>3, <1>4, <2>1, <2>2, <2>3
  <2>7. Owned(g, None, KernelPages, free')
    BY ONLY <1>3, <2>2, <2>4, <2>5, <2>6, OwnedTake
  <2> QED
    BY <2>7, <2>g
<1>12. Owned(FrameUse', 0, UserPages, free')
  <2>1. \A y \in UserPages : y \in free' <=> y \in free
    BY <1>3, <1>4, LoadingAssumption
  <2> QED
    BY <1>10, <2>1, FramesStay
<1>13. CpuRight' /\ TlbRight'
  <2>1. CpuRight'
    BY <1>1, <1>6 DEF LoadingInv, CpuRight
  <2> QED
    BY <1>1, <2>1, TlbStays
<1>14. UsesMarked'
  <2>1. \A q \in Procs, v \in Touched, m \in {"a", "d"} : <<q, v, m>> \in used =>
          at'[q] \in {"user", "forgot", "left"} \/ (at'[q] = "exit" /\ pagedir'[q] # None)
    BY <1>1, <1>2 DEF LoadingInv, UsesMarked
  <2> QED
    BY <1>1, <2>1, UsesStay
<1> QED
  BY <1>7, <1>8, <1>11, <1>12, <1>13, <1>14 DEF LoadingInv, PagesRight

\* load() takes a page for the directory and activates it.
LEMMA LoadCreateInv ==
  ASSUME LoadingInv, NEW p \in Procs, LoadCreate(p)
  PROVE  LoadingInv'
<1>1. /\ cur = p /\ at[p] = "load" /\ UNCHANGED <<cur, thread_page, fn_copy, seg, used>>
  BY DEF LoadCreate, Running
<1>2. /\ \A v \in Touched, b \in {"a", "d"} : <<p, v, b>> \notin used
      /\ pagedir[p] = None /\ DOMAIN seg = Procs /\ fn_copy[p] # None /\ thread_page[p] # None
  BY <1>1
    DEF LoadingInv, TypesRight, StagesRight, UsesMarked, Naming, Directing, Directed
<1>3. CASE Goto(p, "failed") /\ UNCHANGED <<memVars, pagedir, cpuVars>>
  <2>1. UNCHANGED <<free, pde, pte, pagedir, cr3, tlb, esp0>>
    BY <1>3 DEF memVars, cpuVars
  <2> QED
    BY <1>1, <1>2, <1>3, <2>1, QuietInv DEF Points, Naming, Directed, Directing
<1>4. CASE /\ Available(KernelPages)
           /\ free' = free \ {FirstFree(KernelPages)}
           /\ pde' = [pde EXCEPT ![FirstFree(KernelPages)] = [i \in Tables |-> 0]]
           /\ pagedir' = [pagedir EXCEPT ![p] = FirstFree(KernelPages)]
           /\ ProcessActivate(p, FirstFree(KernelPages))
           /\ Goto(p, IF exe[p].ok THEN "header" ELSE "failed")
           /\ UNCHANGED <<pte, bytes>>
  <2>d. PICK d : d = FirstFree(KernelPages)
    OBVIOUS
  <2>x. PICK x : x = IF exe[p].ok THEN "header" ELSE "failed"
    OBVIOUS
  <2>1. d \in free /\ d \in KernelPages /\ d # None /\ d # InitPageDir
    BY <1>4, <2>d, FirstFreeThere, LoadingAssumption
  <2>2. /\ free' = free \ {d} /\ pde' = [pde EXCEPT ![d] = [i \in Tables |-> 0]]
        /\ pagedir' = [pagedir EXCEPT ![p] = d] /\ cr3' = d /\ tlb' = EmptyTlb /\ esp0' = p
        /\ pte' = pte /\ x \in {"header", "failed"} /\ Goto(p, x)
    BY <1>4, <2>d, <2>x, <2>1 DEF ProcessActivate, PagedirActivate
  <2>3. at' \in [Procs -> Points] /\ at'[p] = x /\ \A q \in Procs \ {p} : at'[q] = at[q]
    BY <2>2, Gone DEF Points
  <2>4. /\ pagedir' \in [Procs -> KernelPages \cup {None}] /\ pagedir'[p] = d
        /\ \A q \in Procs \ {p} : pagedir'[q] = pagedir[q]
    BY <2>1, <2>2 DEF LoadingInv, TypesRight
  <2>5. /\ pde' \in [KernelPages -> [Tables -> KernelPages \cup {0}]]
        /\ \A i \in Tables : pde'[d][i] = 0
        /\ \A k \in KernelPages \ {d} : pde'[k] = pde[k]
    BY <2>1, <2>2 DEF LoadingInv, TypesRight
  <2>6. TypesRight'
    BY <1>1, <2>2, <2>3, <2>4, <2>5 DEF LoadingInv, TypesRight
  <2>7. StagesRight'
    BY <1>1, <2>1, <2>2, <2>3, <2>4 DEF LoadingInv, StagesRight, Naming, Directed, Directing
  <2>8. DirectoryOf(p)' = d /\ DirectoryOf(p) = None
        /\ \A q \in Procs \ {p} : DirectoryOf(q)' = DirectoryOf(q)
    BY <1>1, <1>2, <2>2, <2>3, <2>4 DEF DirectoryOf
  <2>9. \A q \in Procs : DirectoryOf(q) # d /\ DirectoryOf(q) \in KernelPages \cup {None}
    BY <2>1, KernelDistinct
  <2>10. /\ \A i \in Tables : TableOf(p, i)' = 0 /\ TableOf(p, i) = 0
         /\ \A q \in Procs \ {p}, i \in Tables : TableOf(q, i)' = TableOf(q, i)
    BY <2>1, <2>5, <2>8, <2>9 DEF TableOf
  <2>11. /\ \A q \in Procs, i \in Tables : TableOf(q, i)' = TableOf(q, i)
         /\ \A q \in Procs, i \in Tables, j \in Slots : FrameAt(q, i, j)' = FrameAt(q, i, j)
    <3>1. \A q \in Procs, i \in Tables : TableOf(q, i)' = TableOf(q, i)
      BY <2>10
    <3> QED
      BY <2>2, <3>1 DEF FrameAt
  <2>12. Owned(KernelUse', None, KernelPages, free')
    <3>c. PICK c : c = <<p, <<"dir", 0>>>>
      OBVIOUS
    <3>1. c \in DOMAIN KernelUse /\ KernelUse[c] = None /\ KernelUse'[c] = d
      BY <2>8, <3>c, Uses, UsesNext DEF UsesNamed
    <3>2. \A y \in KernelPages : y \in free' <=> y \in free /\ y # d
      BY <2>2
    <3>3. \A q \in Procs : <<q, <<"dir", 0>>>> = c \/ DirectoryOf(q)' = DirectoryOf(q)
      BY <2>8, <3>c
    <3> QED
      BY <1>1, <2>1, <2>11, <3>1, <3>2, <3>3, KernelTake
  <2>13. Owned(FrameUse', 0, UserPages, free')
    <3>1. \A y \in UserPages : y \in free' <=> y \in free
      BY <2>1, <2>2, LoadingAssumption
    <3> QED
      BY <2>11, <3>1, FramesStay
  <2>14. CpuRight'
    BY <1>1, <2>1, <2>2, <2>3, <2>4, <2>8, LoadingAssumption DEF CpuRight
  <2>15. TlbRight'
    BY <2>2 DEF TlbRight, EmptyTlb
  <2>16. UsesMarked'
    <3>1. ASSUME NEW q \in Procs, NEW v \in Touched, NEW b \in {"a", "d"}, <<q, v, b>> \in used'
          PROVE  \/ at'[q] \in {"user", "forgot", "left"}
                 \/ at'[q] = "exit" /\ pagedir'[q] # None
      BY <1>1, <1>2, <2>3, <2>4, <3>1 DEF LoadingInv, UsesMarked
    <3>2. ASSUME NEW q \in Procs, NEW v \in Touched, pagedir'[q] # None, Mapped(pagedir[q], v)'
          PROVE  /\ <<q, v, "a">> \in used' => Entry(pagedir[q], v)'.a
                 /\ <<q, v, "d">> \in used' => Entry(pagedir[q], v)'.d
      <4>1. CASE q = p
        BY <1>1, <1>2, <4>1
      <4>2. CASE q # p
        <5>1. pagedir'[q] = pagedir[q] /\ pagedir[q] # None
          BY <2>4, <3>2, <4>2
        <5>2. pagedir[q] = DirectoryOf(q)
          BY <5>1 DEF LoadingInv, StagesRight, DirectoryOf, Directing, Directed
        <5>3. pde'[pagedir[q]] = pde[pagedir[q]]
          BY <2>5, <2>9, <5>1, <5>2
        <5> QED
          BY <1>1, <2>2, <3>2, <5>1, <5>3 DEF LoadingInv, UsesMarked, Mapped, HasEntry, Entry
      <4> QED
        BY <4>1, <4>2
    <3> QED
      BY <3>1, <3>2 DEF UsesMarked
  <2> QED
    BY <2>6, <2>7, <2>12, <2>13, <2>14, <2>15, <2>16 DEF LoadingInv, PagesRight
<1> QED
  BY <1>3, <1>4 DEF LoadCreate

-----------------------------------------------------------------------------
(* Steps that write an entry of a page table.                              *)

\* The programs' page tables have no entry in common: a write to the entry of page v of p
\* changes no other one.
LEMMA EntrySet ==
  ASSUME LoadingInv, NEW p \in Procs, NEW d, d = DirectoryOf(p), d # None, NEW v \in PageNos,
         HasEntry(d, v), NEW e \in Pte, SetEntry(d, v, e), pde' = pde,
         \A q \in Procs : DirectoryOf(q)' = DirectoryOf(q)
  PROVE  /\ pte' \in [KernelPages -> [Slots -> Pte]]
         /\ \A q \in Procs, i \in Tables : TableOf(q, i)' = TableOf(q, i)
         /\ \A q \in Procs, i \in Tables, j \in Slots :
              \/ <<q, i, j>> = <<p, pd_no(v), pt_no(v)>>
              \/ FrameAt(q, i, j)' = FrameAt(q, i, j)
         /\ e.p => FrameAt(p, pd_no(v), pt_no(v))' = e.frame
         /\ ~e.p => FrameAt(p, pd_no(v), pt_no(v))' = 0
         /\ \A k, w : HasEntry(k, w)' = HasEntry(k, w)
         /\ Entry(d, v)' = e
         /\ \A q \in Procs, w \in PageNos : \A k :
              k = DirectoryOf(q) /\ k # None /\ HasEntry(k, w) /\ (q # p \/ w # v) =>
                Entry(k, w)' = Entry(k, w)
<1>t. PICK t : t = TableOf(p, pd_no(v))
  OBVIOUS
<1>1. /\ pd_no(v) \in Tables /\ pt_no(v) \in Slots /\ t \in KernelPages /\ t # 0
      /\ pde[d][pd_no(v)] = t
  BY <1>t, EntryCell
<1>2. pte' = [pte EXCEPT ![t][pt_no(v)] = e] /\ pte \in [KernelPages -> [Slots -> Pte]]
  BY <1>1 DEF SetEntry, LoadingInv, TypesRight
<1>3. /\ pte' \in [KernelPages -> [Slots -> Pte]] /\ pte'[t][pt_no(v)] = e
      /\ \A u \in KernelPages, j \in Slots :
           u # t \/ j # pt_no(v) => pte'[u][j] = pte[u][j]
  BY <1>1, <1>2
<1>4. \A q \in Procs, i \in Tables : TableOf(q, i)' = TableOf(q, i)
  BY DEF TableOf
<1>5. ASSUME NEW q \in Procs, NEW i \in Tables, NEW j \in Slots, TableOf(q, i) # 0,
             <<q, i, j>> # <<p, pd_no(v), pt_no(v)>>
      PROVE  pte'[TableOf(q, i)][j] = pte[TableOf(q, i)][j]
  <2>1. TableOf(q, i) \in KernelPages
    BY <1>5, KernelDistinct
  <2>2. TableOf(q, i) # t \/ j # pt_no(v)
    BY <1>t, <1>1, <1>5, KernelDistinct
  <2> QED
    BY <1>3, <2>1, <2>2
<1>6. ASSUME NEW q \in Procs, NEW i \in Tables, NEW j \in Slots,
             <<q, i, j>> # <<p, pd_no(v), pt_no(v)>>
      PROVE  FrameAt(q, i, j)' = FrameAt(q, i, j)
  BY <1>4, <1>5, <1>6 DEF FrameAt
<1>7. /\ e.p => FrameAt(p, pd_no(v), pt_no(v))' = e.frame
      /\ ~e.p => FrameAt(p, pd_no(v), pt_no(v))' = 0
  BY <1>t, <1>1, <1>3, <1>4 DEF FrameAt
<1>8. \A k, w : HasEntry(k, w)' = HasEntry(k, w)
  BY DEF HasEntry
<1>9. Entry(d, v)' = e
  BY <1>1, <1>3 DEF Entry
<1>10. ASSUME NEW q \in Procs, NEW k, NEW w \in PageNos, k = DirectoryOf(q), k # None,
              HasEntry(k, w), q # p \/ w # v
       PROVE  Entry(k, w)' = Entry(k, w)
  <2>1. /\ pd_no(w) \in Tables /\ pt_no(w) \in Slots
        /\ pde[k][pd_no(w)] = TableOf(q, pd_no(w)) /\ TableOf(q, pd_no(w)) # 0
    BY <1>10, EntryCell
  <2>2. <<q, pd_no(w), pt_no(w)>> # <<p, pd_no(v), pt_no(v)>>
    BY <1>10, Coordinates
  <2>3. pte'[TableOf(q, pd_no(w))][pt_no(w)] = pte[TableOf(q, pd_no(w))][pt_no(w)]
    BY <1>5, <2>1, <2>2
  <2> QED
    BY <2>1, <2>3 DEF Entry
<1> QED
  BY <1>3, <1>4, <1>6, <1>7, <1>8, <1>9, <1>10

\* A caller of pagedir.c writes the entry of a page of q, which is in user mode, and calls
\* invalidate_pagedir(): what the processor has cached stays right.
LEMMA Invalidated ==
  ASSUME LoadingInv, NEW q \in Procs, at[q] = "user", NEW d, d = pagedir[q],
         NEW v \in Touched, Mapped(d, v), NEW e \in Pte, SetEntry(d, v, e), Invalidate(d),
         free' \subseteq Pools, used' \subseteq used,
         e.p /\ <<q, v, "a">> \in used' => e.a, e.p /\ <<q, v, "d">> \in used' => e.d,
         UNCHANGED <<cur, at, pde, thread_page, fn_copy, pagedir, seg, esp0>>
  PROVE  TypesRight' /\ StagesRight' /\ CpuRight' /\ TlbRight' /\ UsesMarked'
<1>1. /\ d # None /\ d = DirectoryOf(q) /\ v \in PageNos /\ HasEntry(d, v)
      /\ Touched \subseteq PageNos /\ d \in KernelPages /\ d # InitPageDir
  BY LoadingAssumption DEF LoadingInv, TypesRight, StagesRight, Directed, DirectoryOf, PageNos, Mapped
<1>2. \A p \in Procs : DirectoryOf(p)' = DirectoryOf(p)
  BY DEF DirectoryOf
<1>3. /\ pte' \in [KernelPages -> [Slots -> Pte]]
      /\ \A k, w : HasEntry(k, w)' = HasEntry(k, w)
      /\ Entry(d, v)' = e
      /\ \A p \in Procs, w \in PageNos : \A k :
           k = DirectoryOf(p) /\ k # None /\ HasEntry(k, w) /\ (p # q \/ w # v) =>
             Entry(k, w)' = Entry(k, w)
  BY <1>1, <1>2, EntrySet
<1>4. /\ cr3 = d => tlb' = EmptyTlb
      /\ cr3 # d => tlb' = tlb
  BY <1>1 DEF Invalidate, PagedirActivate
<1>c. cr3' = cr3
  BY <1>1 DEF Invalidate, PagedirActivate
<1>5. TypesRight'
  BY <1>3 DEF LoadingInv, TypesRight
<1>6. StagesRight'
  BY DEF LoadingInv, StagesRight
<1>7. CpuRight'
  BY <1>2, <1>c DEF LoadingInv, CpuRight
<1>8. TlbRight'
  <2>1. CASE cr3 = d
    BY <1>1, <1>4, <1>c, <2>1 DEF TlbRight, EmptyTlb
  <2>2. CASE cr3 = InitPageDir
    BY <1>1, <1>4, <1>c, <2>2 DEF LoadingInv, TlbRight
  <2>3. CASE cr3 # d /\ cr3 # InitPageDir
    <3>1. cur \in Procs /\ cur # q /\ cr3 = DirectoryOf(cur) /\ cr3 # None
      BY <1>1, <2>3 DEF LoadingInv, CpuRight, TypesRight
    <3>2. ASSUME NEW w \in DOMAIN tlb
          PROVE  w \in PageNos /\ HasEntry(cr3, w) /\ Entry(cr3, w)' = Entry(cr3, w)
      <4>1. w \in PageNos /\ HasEntry(cr3, w)
        BY <1>1 DEF LoadingInv, TlbRight, Mapped
      <4>k. PICK k : k = cr3
        OBVIOUS
      <4>2. Entry(k, w)' = Entry(k, w)
        BY <1>3, <3>1, <4>1, <4>k
      <4> QED
        BY <1>c, <4>1, <4>2, <4>k DEF Entry
    <3>3. \A w : HasEntry(cr3, w)' = HasEntry(cr3, w)
      BY <1>c DEF HasEntry
    <3> QED
      BY <1>c, <1>4, <2>3, <3>2, <3>3 DEF LoadingInv, TlbRight, Mapped
  <2> QED
    BY <2>1, <2>2, <2>3
<1>9. UsesMarked'
  <2>1. ASSUME NEW p \in Procs, NEW w \in Touched, NEW b \in {"a", "d"}, <<p, w, b>> \in used'
        PROVE  \/ at'[p] \in {"user", "forgot", "left"}
               \/ at'[p] = "exit" /\ pagedir'[p] # None
    BY <2>1 DEF LoadingInv, UsesMarked
  <2>2. ASSUME NEW p \in Procs, NEW w \in Touched, pagedir'[p] # None, Mapped(pagedir[p], w)'
        PROVE  /\ <<p, w, "a">> \in used' => Entry(pagedir[p], w)'.a
               /\ <<p, w, "d">> \in used' => Entry(pagedir[p], w)'.d
    <3>k. PICK k : k = pagedir[p]
      OBVIOUS
    <3>1. /\ Mapped(k, w)' /\ pagedir'[p] = k /\ Entry(pagedir[p], w)' = Entry(k, w)'
          /\ k # None /\ w \in PageNos
      BY <1>1, <2>2, <3>k DEF Mapped, HasEntry, Entry
    <3>2. HasEntry(k, w) /\ HasEntry(k, w)'
      BY <1>3, <3>1 DEF Mapped
    <3>3. k = DirectoryOf(p)
      BY <3>k, <3>1 DEF LoadingInv, StagesRight, DirectoryOf, Directing, Directed
    <3>4. CASE p = q /\ w = v
      <4>1. Entry(k, w)' = e /\ e.p
        BY <1>3, <3>k, <3>1, <3>4 DEF Mapped
      <4> QED
        BY <3>1, <3>4, <4>1
    <3>5. CASE p # q \/ w # v
      <4>1. Entry(k, w)' = Entry(k, w)
        BY <1>3, <3>1, <3>2, <3>3, <3>5
      <4>2. Mapped(pagedir[p], w) /\ pagedir[p] # None /\ Entry(pagedir[p], w) = Entry(k, w)
        BY <3>k, <3>1, <3>2, <4>1 DEF Mapped
      <4> QED
        BY <3>1, <4>1, <4>2 DEF LoadingInv, UsesMarked
    <3> QED
      BY <3>4, <3>5
  <2> QED
    BY <2>1, <2>2 DEF UsesMarked
<1> QED
  BY <1>5, <1>6, <1>7, <1>8, <1>9

\* pagedir_set_accessed() and pagedir_set_dirty().
LEMMA ResetBitInv ==
  ASSUME LoadingInv, NEW q \in Procs, NEW v \in Touched, NEW bit \in {"a", "d"},
         ResetBit(q, v, bit)
  PROVE  LoadingInv'
<1>d. PICK d : d = pagedir[q]
  OBVIOUS
<1>e. PICK e : e = [Entry(d, v) EXCEPT !.a = @ /\ bit # "a", !.d = @ /\ bit # "d"]
  OBVIOUS
<1>1. /\ at[q] = "user" /\ Mapped(d, v) /\ SetEntry(d, v, e) /\ Invalidate(d)
      /\ used' = used \ {<<q, v, bit>>}
      /\ UNCHANGED <<cur, at, free, pde, thread_page, fn_copy, pagedir, seg, esp0>>
  BY <1>d, <1>e DEF ResetBit
<1>2. /\ d # None /\ d = DirectoryOf(q) /\ v \in PageNos /\ HasEntry(d, v)
  BY <1>d, <1>1, LoadingAssumption
    DEF LoadingInv, StagesRight, Directed, DirectoryOf, PageNos, Mapped
<1>3. /\ Entry(d, v) \in Pte /\ Entry(d, v).p /\ FrameAt(q, pd_no(v), pt_no(v)) = Entry(d, v).frame
      /\ pd_no(v) \in Tables /\ pt_no(v) \in Slots
  BY <1>1, <1>2, EntryCell DEF Mapped
<1>4. /\ e \in Pte /\ e.p = Entry(d, v).p /\ e.frame = Entry(d, v).frame
      /\ e.a = (Entry(d, v).a /\ bit # "a") /\ e.d = (Entry(d, v).d /\ bit # "d")
  BY <1>e, <1>3 DEF Pte, PteFields
<1>5. /\ <<q, v, "a">> \in used => Entry(d, v).a
      /\ <<q, v, "d">> \in used => Entry(d, v).d
  BY <1>d, <1>1, <1>2 DEF LoadingInv, UsesMarked
<1>6. /\ <<q, v, "a">> \in used' => e.a
      /\ <<q, v, "d">> \in used' => e.d
  BY <1>1, <1>4, <1>5
<1>7. free' \subseteq Pools /\ used' \subseteq used
  BY <1>1 DEF LoadingInv, TypesRight
<1>8. TypesRight' /\ StagesRight' /\ CpuRight' /\ TlbRight' /\ UsesMarked'
  BY <1>d, <1>1, <1>4, <1>6, <1>7, Invalidated
<1>9. \A p \in Procs : DirectoryOf(p)' = DirectoryOf(p)
  BY <1>1 DEF DirectoryOf
<1>10. /\ \A p \in Procs, i \in Tables : TableOf(p, i)' = TableOf(p, i)
       /\ \A p \in Procs, i \in Tables, j \in Slots :
            \/ <<p, i, j>> = <<q, pd_no(v), pt_no(v)>>
            \/ FrameAt(p, i, j)' = FrameAt(p, i, j)
       /\ FrameAt(q, pd_no(v), pt_no(v))' = e.frame
  BY <1>1, <1>2, <1>3, <1>4, <1>9, EntrySet
<1>11. \A p \in Procs, i \in Tables, j \in Slots : FrameAt(p, i, j)' = FrameAt(p, i, j)
  BY <1>3, <1>4, <1>10
<1>12. PagesRight'
  BY <1>1, <1>9, <1>10, <1>11, KernelStays, FramesStay DEF PagesRight
<1> QED
  BY <1>8, <1>12 DEF LoadingInv

\* pagedir_clear_page() and palloc_free_page().
LEMMA TakePageInv ==
  ASSUME LoadingInv, NEW q \in Procs, NEW v \in Touched, TakePage(q, v)
  PROVE  LoadingInv'
<1>d. PICK d : d = pagedir[q]
  OBVIOUS
<1>e. PICK e : e = [Entry(d, v) EXCEPT !.p = FALSE]
  OBVIOUS
<1>f. PICK f : f = Entry(d, v).frame
  OBVIOUS
<1>1. /\ at[q] = "user" /\ Mapped(d, v) /\ SetEntry(d, v, e) /\ Invalidate(d)
      /\ used' = used \ {<<q, v, "a">>, <<q, v, "d">>} /\ free' = free \cup {f}
      /\ UNCHANGED <<cur, at, pde, thread_page, fn_copy, pagedir, seg, esp0>>
  BY <1>d, <1>e, <1>f DEF TakePage
<1>2. /\ d # None /\ d = DirectoryOf(q) /\ v \in PageNos /\ HasEntry(d, v)
  BY <1>d, <1>1, LoadingAssumption
    DEF LoadingInv, StagesRight, Directed, DirectoryOf, PageNos, Mapped
<1>3. /\ Entry(d, v) \in Pte /\ FrameAt(q, pd_no(v), pt_no(v)) = f /\ f \in UserPages
      /\ pd_no(v) \in Tables /\ pt_no(v) \in Slots
  BY <1>f, <1>1, <1>2, EntryCell
<1>4. e \in Pte /\ ~e.p
  BY <1>e, <1>3 DEF Pte, PteFields
<1>5. free' \subseteq Pools /\ used' \subseteq used
  BY <1>1, <1>3 DEF LoadingInv, TypesRight, Pools
<1>6. TypesRight' /\ StagesRight' /\ CpuRight' /\ TlbRight' /\ UsesMarked'
  BY <1>d, <1>1, <1>4, <1>5, Invalidated
<1>7. \A p \in Procs : DirectoryOf(p)' = DirectoryOf(p)
  BY <1>1 DEF DirectoryOf
<1>8. /\ \A p \in Procs, i \in Tables : TableOf(p, i)' = TableOf(p, i)
      /\ \A p \in Procs, i \in Tables, j \in Slots :
           \/ <<p, i, j>> = <<q, pd_no(v), pt_no(v)>>
           \/ FrameAt(p, i, j)' = FrameAt(p, i, j)
      /\ FrameAt(q, pd_no(v), pt_no(v))' = 0
  BY <1>1, <1>2, <1>3, <1>4, <1>7, EntrySet
<1>9. Owned(KernelUse', None, KernelPages, free')
  <2>1. \A y \in KernelPages : y \in free' <=> y \in free
    BY <1>1, <1>3, LoadingAssumption
  <2> QED
    BY <1>1, <1>7, <1>8, <2>1, KernelStays
<1>10. Owned(FrameUse', 0, UserPages, free')
  <2>1. \A y \in UserPages : y \in free' <=> y \in free \/ FrameAt(q, pd_no(v), pt_no(v)) = y
    BY <1>1, <1>3
  <2> QED
    BY <1>3, <1>8, <2>1, FrameGive
<1> QED
  BY <1>6, <1>9, <1>10 DEF LoadingInv, PagesRight

\* The processor reads or writes a page of the program that runs.
LEMMA AccessInv ==
  ASSUME LoadingInv, NEW p \in Procs, NEW v \in Touched, NEW write \in BOOLEAN,
         Access(p, v, write)
  PROVE  LoadingInv'
<1>d. PICK d : d = cr3
  OBVIOUS
<1>e. PICK e : e = CachedEntry(v)
  OBVIOUS
<1>m. PICK m : m = [e EXCEPT !.a = TRUE, !.d = @ \/ write]
  OBVIOUS
<1>c. PICK c : c = Entry(d, v)
  OBVIOUS
<1>n. PICK n : n = [c EXCEPT !.a = @ \/ v \notin DOMAIN tlb, !.d = @ \/ write]
  OBVIOUS
<1>1. /\ cur = p /\ at[p] = "user" /\ Allowed(e, write)
      /\ tlb' = [w \in DOMAIN tlb \cup {v} |-> IF w = v THEN m ELSE tlb[w]]
      /\ v \in DOMAIN tlb /\ e.d = m.d => pte' = pte
      /\ ~(v \in DOMAIN tlb /\ e.d = m.d) => SetEntry(d, v, n)
      /\ used' = used \cup {<<p, v, b>> : b \in IF write THEN {"a", "d"} ELSE {"a"}}
      /\ UNCHANGED <<cur, at, free, pde, thread_page, fn_copy, pagedir, seg, cr3, esp0>>
  BY <1>d, <1>e, <1>m, <1>c, <1>n DEF Access, Running
<1>2. /\ d # None /\ d = DirectoryOf(p) /\ v \in PageNos /\ Touched \subseteq PageNos
      /\ d = pagedir[p]
  BY <1>d, <1>1, LoadingAssumption
    DEF LoadingInv, StagesRight, CpuRight, Directed, DirectoryOf, PageNos
<1>3. /\ v \in DOMAIN tlb => /\ e = tlb[v] /\ e \in Pte /\ Mapped(d, v)
                             /\ c.frame = e.frame /\ c.w = e.w /\ c.a /\ (e.d => c.d)
      /\ v \notin DOMAIN tlb => e = c /\ Mapped(d, v)
  BY <1>d, <1>e, <1>c, <1>1 DEF CachedEntry, Allowed, NoPte, LoadingInv, TlbRight, Mapped
<1>4. /\ Mapped(d, v) /\ HasEntry(d, v) /\ c \in Pte /\ c.p /\ e \in Pte /\ e.p
      /\ c.frame = e.frame /\ c.w = e.w /\ (e.d => c.d)
  <2>1. Mapped(d, v) /\ HasEntry(d, v) /\ c.p
    BY <1>c, <1>3 DEF Mapped
  <2>2. c \in Pte
    BY <1>c, <1>2, <2>1, EntryCell
  <2> QED
    BY <1>1, <1>3, <2>1, <2>2 DEF Allowed
<1>5. /\ n \in Pte /\ n.p /\ n.frame = c.frame /\ n.w = c.w
      /\ n.a = (c.a \/ v \notin DOMAIN tlb) /\ n.d = (c.d \/ write)
  BY <1>n, <1>4 DEF Pte, PteFields
<1>6. /\ m \in Pte /\ m.p /\ m.frame = e.frame /\ m.w = e.w /\ m.a /\ m.d = (e.d \/ write)
  BY <1>m, <1>4 DEF Pte, PteFields
<1>7. n.a /\ (c.d => n.d) /\ (write => n.d) /\ (m.d => n.d)
  BY <1>3, <1>4, <1>5, <1>6
<1>8. SetEntry(d, v, n)
  <2>1. CASE v \in DOMAIN tlb /\ e.d = m.d
    <3>1. write => c.d
      BY <1>4, <1>6, <2>1
    <3>2. n.a = c.a /\ n.d = c.d
      BY <1>4, <1>5, <2>1, <3>1 DEF Pte, PteFields
    <3>3. n = c
      BY <1>n, <1>4, <3>2 DEF Pte, PteFields
    <3>t. PICK t : t = pde[d][pd_no(v)]
      OBVIOUS
    <3>4. /\ t \in KernelPages /\ pt_no(v) \in Slots /\ c = pte[t][pt_no(v)]
          /\ pte \in [KernelPages -> [Slots -> Pte]]
      <4>1. pt_no(v) \in Slots /\ t \in KernelPages
        BY <1>2, <1>4, <3>t, EntryCell, ZenonT(30)
      <4> QED
        BY <1>c, <3>t, <4>1 DEF Entry, LoadingInv, TypesRight
    <3>5. pte = [pte EXCEPT ![t][pt_no(v)] = c]
      BY <3>4
    <3> QED
      BY <1>1, <2>1, <3>t, <3>3, <3>5 DEF SetEntry
  <2>2. CASE ~(v \in DOMAIN tlb /\ e.d = m.d)
    BY <1>1, <2>2
  <2> QED
    BY <2>1, <2>2
<1>9. \A q \in Procs : DirectoryOf(q)' = DirectoryOf(q)
  BY <1>1 DEF DirectoryOf
<1>10. /\ pte' \in [KernelPages -> [Slots -> Pte]]
       /\ \A q \in Procs, i \in Tables : TableOf(q, i)' = TableOf(q, i)
       /\ \A q \in Procs, i \in Tables, j \in Slots :
            \/ <<q, i, j>> = <<p, pd_no(v), pt_no(v)>>
            \/ FrameAt(q, i, j)' = FrameAt(q, i, j)
       /\ FrameAt(p, pd_no(v), pt_no(v))' = n.frame
       /\ \A k, w : HasEntry(k, w)' = HasEntry(k, w)
       /\ Entry(d, v)' = n
       /\ \A q \in Procs, w \in PageNos : \A k :
            k = DirectoryOf(q) /\ k # None /\ HasEntry(k, w) /\ (q # p \/ w # v) =>
              Entry(k, w)' = Entry(k, w)
  BY <1>1, <1>2, <1>4, <1>5, <1>8, <1>9, EntrySet
<1>11. \A q \in Procs, i \in Tables, j \in Slots : FrameAt(q, i, j)' = FrameAt(q, i, j)
  <2>1. FrameAt(p, pd_no(v), pt_no(v)) = c.frame
    BY <1>c, <1>2, <1>4, EntryCell
  <2> QED
    BY <1>5, <1>10, <2>1
<1>12. PagesRight'
  BY <1>1, <1>9, <1>10, <1>11, KernelStays, FramesStay DEF PagesRight
<1>13. /\ used' \subseteq Procs \X Touched \X {"a", "d"}
       /\ \A q \in Procs, w \in Touched, b \in {"a", "d"} : <<q, w, b>> \in used' =>
            \/ <<q, w, b>> \in used
            \/ q = p /\ w = v /\ (b = "d" => write)
  BY <1>1 DEF LoadingInv, TypesRight
<1>14. TypesRight' /\ StagesRight' /\ CpuRight'
  <2>1. TypesRight'
    BY <1>1, <1>10, <1>13 DEF LoadingInv, TypesRight
  <2>2. StagesRight'
    BY <1>1 DEF LoadingInv, StagesRight
  <2>3. CpuRight'
    BY <1>1, <1>9 DEF LoadingInv, CpuRight
  <2> QED
    BY <2>1, <2>2, <2>3
<1>15. TlbRight'
  <2>1. DOMAIN tlb' = DOMAIN tlb \cup {v} /\ DOMAIN tlb \subseteq Touched /\ cr3' = d
    BY <1>d, <1>1 DEF LoadingInv, TlbRight
  <2>2. cr3' # InitPageDir
    BY <1>1 DEF Access
  <2>3. ASSUME NEW w \in DOMAIN tlb'
        PROVE  /\ Mapped(d, w)' /\ tlb'[w] \in Pte /\ tlb'[w].p
               /\ Entry(d, w)'.frame = tlb'[w].frame /\ Entry(d, w)'.w = tlb'[w].w
               /\ Entry(d, w)'.a /\ (tlb'[w].d => Entry(d, w)'.d)
    <3>1. CASE w = v
      <4>1. tlb'[w] = m /\ Entry(d, w)' = n /\ HasEntry(d, w)'
        BY <1>1, <1>4, <1>10, <3>1
      <4> QED
        BY <1>4, <1>5, <1>6, <1>7, <4>1 DEF Mapped
    <3>2. CASE w # v
      <4>1. /\ w \in DOMAIN tlb /\ tlb'[w] = tlb[w] /\ w \in PageNos
        BY <1>1, <1>2, <2>1, <3>2
      <4>2. /\ Mapped(d, w) /\ HasEntry(d, w) /\ tlb[w] \in Pte /\ tlb[w].p
            /\ Entry(d, w).frame = tlb[w].frame /\ Entry(d, w).w = tlb[w].w
            /\ Entry(d, w).a /\ (tlb[w].d => Entry(d, w).d)
        BY <1>d, <4>1 DEF LoadingInv, TlbRight, Mapped
      <4>3. Entry(d, w)' = Entry(d, w) /\ HasEntry(d, w)'
        BY <1>2, <1>10, <3>2, <4>1, <4>2
      <4> QED
        BY <4>1, <4>2, <4>3 DEF Mapped
    <3> QED
      BY <3>1, <3>2
  <2>4. \A w : Mapped(cr3, w)' = Mapped(d, w)' /\ Entry(cr3, w)' = Entry(d, w)'
    BY <2>1 DEF Mapped, HasEntry, Entry
  <2> QED
    BY <2>1, <2>2, <2>3, <2>4 DEF TlbRight
<1>16. UsesMarked'
  <2>1. ASSUME NEW q \in Procs, NEW w \in Touched, NEW b \in {"a", "d"}, <<q, w, b>> \in used'
        PROVE  \/ at'[q] \in {"user", "forgot", "left"}
               \/ at'[q] = "exit" /\ pagedir'[q] # None
    BY <1>1, <1>13, <2>1 DEF LoadingInv, UsesMarked
  <2>2. ASSUME NEW q \in Procs, NEW w \in Touched, pagedir'[q] # None, Mapped(pagedir[q], w)'
        PROVE  /\ <<q, w, "a">> \in used' => Entry(pagedir[q], w)'.a
               /\ <<q, w, "d">> \in used' => Entry(pagedir[q], w)'.d
    <3>k. PICK k : k = pagedir[q]
      OBVIOUS
    <3>1. /\ Mapped(k, w)' /\ pagedir'[q] = k /\ Entry(pagedir[q], w)' = Entry(k, w)'
          /\ k # None /\ w \in PageNos
      BY <1>1, <1>2, <2>2, <3>k DEF Mapped, HasEntry, Entry
    <3>2. HasEntry(k, w) /\ HasEntry(k, w)'
      BY <1>10, <3>1 DEF Mapped
    <3>3. k = DirectoryOf(q)
      BY <3>k, <3>1 DEF LoadingInv, StagesRight, DirectoryOf, Directing, Directed
    <3>4. CASE q = p /\ w = v
      <4>1. Entry(k, w)' = n
        BY <1>2, <1>10, <3>3, <3>4
      <4>2. <<p, v, "d">> \in used => c.d
        BY <1>c, <1>2, <1>4 DEF LoadingInv, UsesMarked
      <4> QED
        BY <1>7, <1>13, <3>1, <3>4, <4>1, <4>2
    <3>5. CASE q # p \/ w # v
      <4>1. Entry(k, w)' = Entry(k, w)
        BY <1>10, <3>1, <3>2, <3>3, <3>5
      <4>2. Mapped(pagedir[q], w) /\ pagedir[q] # None /\ Entry(pagedir[q], w) = Entry(k, w)
        BY <3>k, <3>1, <3>2, <4>1 DEF Mapped
      <4>3. \A b \in {"a", "d"} : <<q, w, b>> \in used' => <<q, w, b>> \in used
        BY <1>13, <3>5
      <4> QED
        BY <3>1, <4>1, <4>2, <4>3 DEF LoadingInv, UsesMarked
    <3> QED
      BY <3>4, <3>5
  <2> QED
    BY <2>1, <2>2 DEF UsesMarked
<1> QED
  BY <1>12, <1>14, <1>15, <1>16 DEF LoadingInv

-----------------------------------------------------------------------------
(* load() installs a page.                                                 *)

\* What pagedir_set_page() changes of the page tables and of the pools.
LEMMA InstallPages ==
  ASSUME LoadingInv, NEW p \in Procs, NEW d, d = DirectoryOf(p), d # None, NEW v \in PageNos,
         NEW f \in UserPages, f \in free, NEW w \in BOOLEAN,
         Installable(d, v), Install(d, v, f, w), UNCHANGED <<thread_page, fn_copy>>,
         \A q \in Procs : DirectoryOf(q)' = DirectoryOf(q)
  PROVE  /\ PagesRight' /\ free' \subseteq Pools
         /\ pde' \in [KernelPages -> [Tables -> KernelPages \cup {0}]]
         /\ pte' \in [KernelPages -> [Slots -> Pte]]
         /\ \A q \in Procs, x \in PageNos : \A k :
              k = DirectoryOf(q) /\ k # None /\ (q # p \/ x # v) =>
                /\ Mapped(k, x)' <=> Mapped(k, x)
                /\ Mapped(k, x) => Entry(k, x)' = Entry(k, x)
<1>e. PICK e : e = [NoPte EXCEPT !.p = TRUE, !.frame = f, !.w = w]
  OBVIOUS
<1>1. e \in Pte /\ e.p /\ e.frame = f /\ NoPte \in Pte /\ ~NoPte.p
  BY <1>e DEF Pte, PteFields, NoPte
<1>2. /\ pd_no(v) \in Tables /\ pt_no(v) \in Slots /\ d \in KernelPages
      /\ pde[d][pd_no(v)] = TableOf(p, pd_no(v))
      /\ HasEntry(d, v) <=> TableOf(p, pd_no(v)) # 0
      /\ HasEntry(d, v) => Entry(d, v) = pte[TableOf(p, pd_no(v))][pt_no(v)]
  BY EntryCell
<1>3. FrameAt(p, pd_no(v), pt_no(v)) = 0
  BY <1>2 DEF FrameAt, Installable, Mapped
<1>4. KernelPages \cap UserPages = {} /\ None \notin KernelPages
  BY LoadingAssumption
<1>5. CASE /\ HasEntry(d, v) /\ SetEntry(d, v, e)
           /\ free' = free \ {f} /\ UNCHANGED pde
  <2>1. /\ pte' \in [KernelPages -> [Slots -> Pte]]
        /\ \A q \in Procs, i \in Tables : TableOf(q, i)' = TableOf(q, i)
        /\ \A q \in Procs, i \in Tables, j \in Slots :
             \/ <<q, i, j>> = <<p, pd_no(v), pt_no(v)>>
             \/ FrameAt(q, i, j)' = FrameAt(q, i, j)
        /\ FrameAt(p, pd_no(v), pt_no(v))' = f
        /\ \A k, x : HasEntry(k, x)' = HasEntry(k, x)
        /\ \A q \in Procs, x \in PageNos : \A k :
             k = DirectoryOf(q) /\ k # None /\ HasEntry(k, x) /\ (q # p \/ x # v) =>
               Entry(k, x)' = Entry(k, x)
    BY <1>1, <1>5, EntrySet
  <2>2. /\ \A y \in KernelPages : y \in free' <=> y \in free
        /\ \A y \in UserPages : y \in free' <=> y \in free /\ y # f
    BY <1>4, <1>5
  <2>3. Owned(KernelUse', None, KernelPages, free')
    BY <2>1, <2>2, KernelStays
  <2>4. Owned(FrameUse', 0, UserPages, free')
    BY <1>2, <1>3, <2>1, <2>2, FrameTake
  <2>5. \A q \in Procs, x \in PageNos : \A k :
          k = DirectoryOf(q) /\ k # None /\ (q # p \/ x # v) =>
            /\ Mapped(k, x)' <=> Mapped(k, x)
            /\ Mapped(k, x) => Entry(k, x)' = Entry(k, x)
    BY <2>1 DEF Mapped
  <2> QED
    BY <1>5, <2>1, <2>3, <2>4, <2>5 DEF PagesRight, LoadingInv, TypesRight
<1>t. PICK t : t = FirstFree(KernelPages)
  OBVIOUS
<1>6. CASE /\ ~HasEntry(d, v)
           /\ pde' = [pde EXCEPT ![d][pd_no(v)] = t]
           /\ pte' = [pte EXCEPT ![t] = [j \in Slots |-> IF j = pt_no(v) THEN e ELSE NoPte]]
           /\ free' = free \ {f, t}
  <2>1. t \in free /\ t \in KernelPages /\ t # 0 /\ t # None /\ TableOf(p, pd_no(v)) = 0
    BY <1>t, <1>2, <1>6, FirstFreeThere, LoadingAssumption DEF Installable
  <2>2. /\ pde \in [KernelPages -> [Tables -> KernelPages \cup {0}]]
        /\ pte \in [KernelPages -> [Slots -> Pte]] /\ free \subseteq Pools
    BY DEF LoadingInv, TypesRight
  <2>3. /\ pde' \in [KernelPages -> [Tables -> KernelPages \cup {0}]]
        /\ pde'[d][pd_no(v)] = t
        /\ \A k \in KernelPages, i \in Tables : k # d \/ i # pd_no(v) => pde'[k][i] = pde[k][i]
    BY <1>2, <1>6, <2>1, <2>2
  <2>4. /\ pte' \in [KernelPages -> [Slots -> Pte]] /\ pte'[t][pt_no(v)] = e
        /\ \A j \in Slots : j # pt_no(v) => pte'[t][j] = NoPte
        /\ \A k \in KernelPages : k # t => pte'[k] = pte[k]
    BY <1>1, <1>2, <1>6, <2>1, <2>2
  <2>5. \A q \in Procs : /\ DirectoryOf(q) \in KernelPages \cup {None}
                         /\ DirectoryOf(q) = d => q = p
    BY KernelDistinct
  <2>6. /\ TableOf(p, pd_no(v))' = t
        /\ \A q \in Procs, i \in Tables :
             q # p \/ i # pd_no(v) => TableOf(q, i)' = TableOf(q, i)
    BY <1>2, <2>3, <2>5 DEF TableOf
  <2>7. ASSUME NEW q \in Procs, NEW i \in Tables, TableOf(q, i) # 0
        PROVE  /\ TableOf(q, i)' = TableOf(q, i) /\ TableOf(q, i) # t
               /\ pte'[TableOf(q, i)] = pte[TableOf(q, i)]
    <3>1. TableOf(q, i) \in KernelPages /\ TableOf(q, i) # t
      BY <2>1, <2>7, KernelDistinct
    <3>2. TableOf(q, i)' = TableOf(q, i)
      BY <2>1, <2>6, <2>7
    <3> QED
      BY <2>4, <3>1, <3>2
  <2>8. ASSUME NEW q \in Procs, NEW i \in Tables, NEW j \in Slots,
               <<q, i, j>> # <<p, pd_no(v), pt_no(v)>>
        PROVE  FrameAt(q, i, j)' = FrameAt(q, i, j)
    <3>1. CASE TableOf(q, i) # 0
      BY <2>7, <3>1 DEF FrameAt
    <3>2. CASE TableOf(q, i) = 0 /\ (q # p \/ i # pd_no(v))
      <4>1. TableOf(q, i)' = 0
        BY <2>6, <3>2
      <4> QED
        BY <3>2, <4>1 DEF FrameAt
    <3>3. CASE TableOf(q, i) = 0 /\ q = p /\ i = pd_no(v)
      <4>1. TableOf(q, i)' = t /\ j # pt_no(v)
        BY <2>6, <2>8, <3>3
      <4>2. ~pte'[t][j].p
        BY <1>1, <2>4, <4>1
      <4> QED
        BY <3>3, <4>1, <4>2 DEF FrameAt
    <3> QED
      BY <3>1, <3>2, <3>3
  <2>9. FrameAt(p, pd_no(v), pt_no(v))' = f
    BY <1>1, <2>1, <2>4, <2>6 DEF FrameAt
  <2>10. /\ \A y \in KernelPages : y \in free' <=> y \in free /\ y # t
         /\ \A y \in UserPages : y \in free' <=> y \in free /\ y # f
    BY <1>4, <1>6, <2>1
  <2>11. Owned(KernelUse', None, KernelPages, free')
    <3>c. PICK c : c = <<p, <<"table", pd_no(v)>>>>
      OBVIOUS
    <3>1. c \in DOMAIN KernelUse /\ KernelUse[c] = None
      BY <1>2, <2>1, <3>c, Uses DEF UsesNamed
    <3>2. KernelUse'[c] = t
      BY <1>2, <2>1, <2>6, <3>c, UsesNext DEF UsesNamed
    <3>3. \A q \in Procs, i \in Tables :
            <<q, <<"table", i>>>> = c \/ TableOf(q, i)' = TableOf(q, i)
      BY <2>6, <3>c
    <3> QED
      BY <2>1, <2>10, <3>1, <3>2, <3>3, KernelTake
  <2>12. Owned(FrameUse', 0, UserPages, free')
    BY <1>2, <1>3, <2>8, <2>9, <2>10, FrameTake
  <2>13. ASSUME NEW q \in Procs, NEW x \in PageNos, NEW k, k = DirectoryOf(q), k # None,
                q # p \/ x # v
         PROVE  /\ Mapped(k, x)' <=> Mapped(k, x)
                /\ Mapped(k, x) => Entry(k, x)' = Entry(k, x)
    <3>1. /\ pd_no(x) \in Tables /\ pt_no(x) \in Slots /\ k \in KernelPages
          /\ pde[k][pd_no(x)] = TableOf(q, pd_no(x))
      BY <2>13, EntryCell
    <3>2. CASE TableOf(q, pd_no(x)) # 0
      <4>1. pde'[k][pd_no(x)] = pde[k][pd_no(x)]
        BY <1>2, <2>1, <2>3, <2>5, <2>13, <3>1, <3>2
      <4>2. pte'[pde[k][pd_no(x)]] = pte[pde[k][pd_no(x)]]
        BY <2>7, <3>1, <3>2
      <4> QED
        BY <4>1, <4>2 DEF Mapped, HasEntry, Entry
    <3>3. CASE TableOf(q, pd_no(x)) = 0 /\ (q # p \/ pd_no(x) # pd_no(v))
      <4>1. pde'[k][pd_no(x)] = pde[k][pd_no(x)]
        BY <2>3, <2>5, <2>13, <3>1, <3>3
      <4> QED
        BY <3>1, <3>3, <4>1 DEF Mapped, HasEntry
    <3>4. CASE TableOf(q, pd_no(x)) = 0 /\ q = p /\ pd_no(x) = pd_no(v)
      <4>1. k = d /\ pt_no(x) # pt_no(v)
        BY <2>13, <3>4, Coordinates
      <4>2. Entry(k, x)' = NoPte
        BY <2>3, <2>4, <3>1, <3>4, <4>1 DEF Entry
      <4> QED
        BY <1>1, <3>1, <3>4, <4>2 DEF Mapped, HasEntry
    <3> QED
      BY <3>2, <3>3, <3>4
  <2> QED
    BY <1>6, <2>2, <2>3, <2>4, <2>11, <2>12, <2>13 DEF PagesRight
<1> QED
  BY <1>e, <1>t, <1>5, <1>6 DEF Install, Slots

\* install_page() while p loads: the processor has cached nothing of the page.
LEMMA InstallInv ==
  ASSUME LoadingInv, NEW p \in Procs, cur = p, NEW x, NEW v \in PageNos, NEW w \in BOOLEAN,
         \/ at[p] = "segment" /\ x = "segment"
         \/ at[p] = "stack" /\ x = "loaded",
         Available(UserPages), Installable(pagedir[p], v),
         Install(pagedir[p], v, FirstFree(UserPages), w), Goto(p, x),
         DOMAIN seg' = Procs, \A q \in Procs \ {p} : seg'[q] = seg[q],
         UNCHANGED <<cur, thread_page, fn_copy, pagedir, cr3, tlb, esp0, used>>
  PROVE  LoadingInv'
<1>d. PICK d : d = pagedir[p]
  OBVIOUS
<1>f. PICK f : f = FirstFree(UserPages)
  OBVIOUS
<1>1. /\ d # None /\ d = DirectoryOf(p) /\ cr3 = d /\ Touched \subseteq PageNos
      /\ Installable(d, v) /\ Install(d, v, f, w)
      /\ \A u \in Touched, b \in {"a", "d"} : <<p, u, b>> \notin used
  BY <1>d, <1>f, LoadingAssumption
    DEF LoadingInv, StagesRight, CpuRight, UsesMarked, Directed, DirectoryOf, PageNos
<1>2. f \in UserPages /\ f \in free
  BY <1>f, FirstFreeThere
<1>3. at' \in [Procs -> Points] /\ at'[p] = x /\ \A q \in Procs \ {p} : at'[q] = at[q]
  BY Gone DEF Points
<1>4. \A q \in Procs : DirectoryOf(q)' = DirectoryOf(q)
  BY <1>3 DEF DirectoryOf
<1>5. /\ PagesRight' /\ free' \subseteq Pools
      /\ pde' \in [KernelPages -> [Tables -> KernelPages \cup {0}]]
      /\ pte' \in [KernelPages -> [Slots -> Pte]]
      /\ \A q \in Procs, y \in PageNos : \A k :
           k = DirectoryOf(q) /\ k # None /\ (q # p \/ y # v) =>
             /\ Mapped(k, y)' <=> Mapped(k, y)
             /\ Mapped(k, y) => Entry(k, y)' = Entry(k, y)
  BY <1>1, <1>2, <1>4, InstallPages
<1>6. TypesRight'
  BY <1>3, <1>5 DEF LoadingInv, TypesRight
<1>7. StagesRight'
  BY <1>3 DEF LoadingInv, StagesRight, Naming, Directed, Directing
<1>8. CpuRight'
  BY <1>3, <1>4 DEF LoadingInv, CpuRight
<1>9. TlbRight'
  <2>1. ASSUME NEW y \in DOMAIN tlb
        PROVE  Mapped(d, y)' /\ Entry(d, y)' = Entry(d, y)
    <3>1. Mapped(d, y) /\ y \in PageNos
      BY <1>1 DEF LoadingInv, TlbRight
    <3>2. y # v
      BY <1>1, <3>1 DEF Installable
    <3> QED
      BY <1>1, <1>5, <3>1, <3>2
  <2>2. \A y : /\ Mapped(cr3, y)' = Mapped(d, y)' /\ Entry(cr3, y)' = Entry(d, y)'
               /\ Entry(cr3, y) = Entry(d, y)
    BY <1>1 DEF Mapped, HasEntry, Entry
  <2> QED
    BY <2>1, <2>2 DEF LoadingInv, TlbRight
<1>10. UsesMarked'
  <2>1. ASSUME NEW q \in Procs, NEW u \in Touched, NEW b \in {"a", "d"}, <<q, u, b>> \in used'
        PROVE  \/ at'[q] \in {"user", "forgot", "left"}
               \/ at'[q] = "exit" /\ pagedir'[q] # None
    BY <1>1, <1>3, <2>1 DEF LoadingInv, UsesMarked
  <2>2. ASSUME NEW q \in Procs, NEW u \in Touched, pagedir'[q] # None, Mapped(pagedir[q], u)'
        PROVE  /\ <<q, u, "a">> \in used' => Entry(pagedir[q], u)'.a
               /\ <<q, u, "d">> \in used' => Entry(pagedir[q], u)'.d
    <3>1. CASE q = p
      BY <1>1, <3>1
    <3>2. CASE q # p
      <4>k. PICK k : k = pagedir[q]
        OBVIOUS
      <4>1. /\ Mapped(k, u)' /\ Entry(pagedir[q], u)' = Entry(k, u)' /\ k # None
            /\ u \in PageNos
        BY <1>1, <2>2, <4>k DEF Mapped, HasEntry, Entry
      <4>2. k = DirectoryOf(q)
        BY <4>k, <4>1 DEF LoadingInv, StagesRight, DirectoryOf, Directing, Directed
      <4>3. Mapped(k, u) /\ Entry(k, u)' = Entry(k, u)
        BY <1>5, <3>2, <4>1, <4>2
      <4> QED
        BY <4>k, <4>1, <4>3 DEF LoadingInv, UsesMarked
    <3> QED
      BY <3>1, <3>2
  <2> QED
    BY <2>1, <2>2 DEF UsesMarked
<1> QED
  BY <1>5, <1>6, <1>7, <1>8, <1>9, <1>10 DEF LoadingInv

\* setup_stack().
LEMMA SetupStackInv ==
  ASSUME LoadingInv, NEW p \in Procs, SetupStack(p)
  PROVE  LoadingInv'
<1>1. /\ cur = p /\ at[p] = "stack" /\ StackPage \in PageNos
      /\ UNCHANGED <<cur, thread_page, fn_copy, pagedir, seg, cr3, tlb, esp0, used>>
  BY Coordinates DEF SetupStack, Running, cpuVars
<1>2. /\ DOMAIN seg = Procs /\ pagedir[p] # None
      /\ \A v \in Touched, b \in {"a", "d"} : <<p, v, b>> \notin used
  BY <1>1 DEF LoadingInv, TypesRight, StagesRight, Directed, UsesMarked
<1>3. CASE Goto(p, "failed") /\ UNCHANGED <<free, pde, pte>>
  BY <1>1, <1>2, <1>3, QuietInv DEF Points, Naming, Directed, Directing
<1>4. CASE /\ Available(UserPages) /\ Installable(pagedir[p], StackPage)
           /\ Install(pagedir[p], StackPage, FirstFree(UserPages), TRUE)
           /\ Goto(p, "loaded")
  BY <1>1, <1>2, <1>4, InstallInv
<1> QED
  BY <1>3, <1>4 DEF SetupStack, memVars, GivenBack

-----------------------------------------------------------------------------
(* What load() is about to read.                                           *)

SegFields == [i : Nat \ {0}, upage : Int, pos : Int, read : Int, zero : Int, w : BOOLEAN]

\* While a program loads, its headers and the variables of load_segment() are there.
\* (Nothing of the pages is needed for this, and it is needed for what is installed.)
SegmentsRight ==
  /\ at \in [Procs -> Points] /\ DOMAIN exe = Procs /\ DOMAIN seg = Procs
  /\ \A p \in Procs : at[p] \in Naming => exe[p] \in Ehdr /\ seg[p] \in SegFields

\* Every step keeps it when it leaves those of the others alone.
LEMMA SegmentsOthers ==
  ASSUME SegmentsRight, NEW p \in Procs, at' \in [Procs -> Points],
         DOMAIN exe' = Procs, DOMAIN seg' = Procs,
         \A q \in Procs \ {p} : at'[q] = at[q] /\ exe'[q] = exe[q] /\ seg'[q] = seg[q],
         at'[p] \in Naming => exe'[p] \in Ehdr /\ seg'[p] \in SegFields
  PROVE  SegmentsRight'
<1>1. ASSUME NEW q \in Procs, at'[q] \in Naming PROVE exe'[q] \in Ehdr /\ seg'[q] \in SegFields
  <2>1. CASE q = p
    BY <1>1, <2>1
  <2>2. CASE q # p
    BY <1>1, <2>2 DEF SegmentsRight
  <2> QED
    BY <2>1, <2>2
<1> QED
  BY <1>1 DEF SegmentsRight

\* load() reads a header.
LEMMA HeaderSegments ==
  ASSUME SegmentsRight, NEW p \in Procs, LoadHeader(p)
  PROVE  SegmentsRight'
<1>x. PICK x : x = exe[p]
  OBVIOUS
<1>i. PICK i : i = seg[p].i
  OBVIOUS
<1>1. /\ at[p] = "header" /\ exe' = exe /\ x \in Ehdr /\ seg[p] \in SegFields /\ i \in Nat \ {0}
      /\ at \in [Procs -> Points] /\ DOMAIN exe = Procs /\ DOMAIN seg = Procs
  BY <1>x, <1>i DEF LoadHeader, Running, kernelVars, SegmentsRight, Naming, SegFields
<1>2. CASE \E y \in {"stack", "failed"} : Goto(p, y) /\ UNCHANGED seg
  <2>1. PICK y \in {"stack", "failed"} : at' = [at EXCEPT ![p] = y]
    BY <1>2 DEF Goto
  <2>2. at' \in [Procs -> Points] /\ \A q \in Procs \ {p} : at'[q] = at[q]
    BY <1>1, <2>1 DEF Points
  <2> QED
    BY <1>x, <1>1, <1>2, <2>2, SegmentsOthers
<1>3. CASE seg' = [seg EXCEPT ![p].i = i + 1] /\ UNCHANGED at
  <2>1. /\ DOMAIN seg' = Procs /\ \A q \in Procs \ {p} : seg'[q] = seg[q]
        /\ seg'[p] = [seg[p] EXCEPT !.i = i + 1]
    BY <1>1, <1>3
  <2>2. seg'[p] \in SegFields
    BY <1>1, <2>1 DEF SegFields
  <2> QED
    BY <1>x, <1>1, <1>3, <2>1, <2>2, SegmentsOthers
<1>ph. PICK ph : ph = x.phdrs[i]
  OBVIOUS
<1>4. CASE /\ i <= Len(x.phdrs) /\ seg' = [seg EXCEPT ![p] = SegmentOf(i, ph)]
           /\ Goto(p, "segment")
  <2>1. /\ at' \in [Procs -> Points] /\ at'[p] = "segment"
        /\ \A q \in Procs \ {p} : at'[q] = at[q]
    BY <1>1, <1>4 DEF Goto, Points
  <2>2. ph \in Phdr
    <3>1. x.phdrs \in Seq(Phdr)
      BY <1>1 DEF Ehdr
    <3> QED
      BY <1>ph, <1>1, <1>4, <3>1
  <2>3. /\ ph.offset \in Nat /\ ph.vaddr \in Int /\ ph.filesz \in Nat /\ ph.memsz \in Nat
        /\ ph.w \in BOOLEAN /\ PGSIZE \in Nat \ {0}
    BY <2>2, LoadingAssumption DEF Phdr, Elf32_Word
  <2>4. SegmentOf(i, ph) \in SegFields
    <3>r. PICK r : r = IF ph.filesz > 0 THEN (ph.vaddr % PGSIZE) + ph.filesz ELSE 0
      OBVIOUS
    <3>z. PICK z : z = RoundUp((ph.vaddr % PGSIZE) + ph.memsz)
      OBVIOUS
    <3>1. ph.vaddr % PGSIZE \in Int /\ ph.vaddr \div PGSIZE \in Int /\ ph.offset % PGSIZE \in Int
      BY <2>3
    <3>2. r \in Int
      BY <2>3, <3>r, <3>1
    <3>3. z \in Int
      <4>1. PICK y \in Int : y = (ph.vaddr % PGSIZE) + ph.memsz + PGSIZE - 1
        BY <2>3, <3>1
      <4>2. PICK k \in Int : k = y \div PGSIZE
        BY <2>3, <4>1
      <4>3. z = k * PGSIZE
        BY <3>z, <4>1, <4>2 DEF RoundUp
      <4> QED
        BY <2>3, <4>2, <4>3
    <3>4. SegmentOf(i, ph) =
            [i |-> i, upage |-> ph.vaddr \div PGSIZE, pos |-> ph.offset - (ph.offset % PGSIZE),
             read |-> r, zero |-> z - r, w |-> ph.w]
      BY <3>r, <3>z DEF SegmentOf
    <3> QED
      BY <1>1, <2>3, <3>1, <3>2, <3>3, <3>4 DEF SegFields
  <2>5. /\ DOMAIN seg' = Procs /\ \A q \in Procs \ {p} : seg'[q] = seg[q]
        /\ seg'[p] = SegmentOf(i, ph)
    BY <1>1, <1>4
  <2> QED
    BY <1>x, <1>1, <2>1, <2>4, <2>5, SegmentsOthers
<1> QED
  BY <1>x, <1>i, <1>ph, <1>2, <1>3, <1>4 DEF LoadHeader

\* load_segment() loads a page or comes to its end.
LEMMA PageSegments ==
  ASSUME SegmentsRight, NEW p \in Procs, LoadPage(p)
  PROVE  SegmentsRight'
<1>n. PICK n : n = IF seg[p].read < PGSIZE THEN seg[p].read ELSE PGSIZE
  OBVIOUS
<1>1. /\ at[p] = "segment" /\ exe' = exe /\ exe[p] \in Ehdr /\ seg[p] \in SegFields
      /\ at \in [Procs -> Points] /\ DOMAIN exe = Procs /\ DOMAIN seg = Procs
  BY DEF LoadPage, Running, SegmentsRight, Naming
<1>2. n \in Int /\ PGSIZE \in Int
  BY <1>n, <1>1, LoadingAssumption DEF SegFields
<1>3. CASE Goto(p, "header") /\ seg' = [seg EXCEPT ![p] = [NoSeg EXCEPT !.i = seg[p].i + 1]]
  <2>1. at' \in [Procs -> Points] /\ \A q \in Procs \ {p} : at'[q] = at[q]
    BY <1>1, <1>3 DEF Goto, Points
  <2>2. /\ DOMAIN seg' = Procs /\ \A q \in Procs \ {p} : seg'[q] = seg[q]
        /\ seg'[p] = [NoSeg EXCEPT !.i = seg[p].i + 1]
    BY <1>1, <1>3
  <2>3. seg'[p] \in SegFields
    <3>1. seg'[p] = [i |-> seg[p].i + 1, upage |-> 0, pos |-> 0, read |-> 0, zero |-> 0,
                     w |-> FALSE]
      BY <2>2 DEF NoSeg
    <3>2. seg[p].i + 1 \in Nat \ {0}
      BY <1>1 DEF SegFields
    <3> QED
      BY <3>1, <3>2 DEF SegFields
  <2> QED
    BY <1>1, <2>1, <2>2, <2>3, SegmentsOthers
<1>4. CASE Goto(p, "failed") /\ UNCHANGED seg
  <2>1. at' \in [Procs -> Points] /\ \A q \in Procs \ {p} : at'[q] = at[q]
    BY <1>1, <1>4 DEF Goto, Points
  <2> QED
    BY <1>1, <1>4, <2>1, SegmentsOthers
<1>5. CASE /\ seg' = [seg EXCEPT ![p].read = @ - n, ![p].zero = @ - (PGSIZE - n),
                                 ![p].upage = @ + 1, ![p].pos = @ + n]
           /\ UNCHANGED at
  <2>1. /\ DOMAIN seg' = Procs /\ \A q \in Procs \ {p} : seg'[q] = seg[q]
        /\ seg'[p] = [seg[p] EXCEPT !.read = @ - n, !.zero = @ - (PGSIZE - n),
                                    !.upage = @ + 1, !.pos = @ + n]
    BY <1>1, <1>5
  <2>2. seg'[p] \in SegFields
    <3>1. /\ seg[p].i \in Nat \ {0} /\ seg[p].upage + 1 \in Int /\ seg[p].pos + n \in Int
          /\ seg[p].read - n \in Int /\ seg[p].zero - (PGSIZE - n) \in Int
          /\ seg[p].w \in BOOLEAN
      BY <1>1, <1>2 DEF SegFields
    <3>2. seg'[p] = [i |-> seg[p].i, upage |-> seg[p].upage + 1, pos |-> seg[p].pos + n,
                     read |-> seg[p].read - n, zero |-> seg[p].zero - (PGSIZE - n),
                     w |-> seg[p].w]
      BY <1>1, <2>1 DEF SegFields
    <3> QED
      BY <3>1, <3>2 DEF SegFields
  <2> QED
    BY <1>1, <1>5, <2>1, <2>2, SegmentsOthers
<1>6. CASE UNCHANGED <<at, seg>>
  BY <1>1, <1>6, SegmentsOthers
<1> QED
  BY <1>n, <1>3, <1>4, <1>5, <1>6 DEF LoadPage

\* process_execute() and the other steps.
LEMMA SegmentsInvariant ==
  Spec => []SegmentsRight
<1>1. Init => SegmentsRight
  BY DEF Init, SegmentsRight, Points, Naming
<1>2. SegmentsRight /\ [Next]_vars => SegmentsRight'
  <2> SUFFICES ASSUME SegmentsRight, [Next]_vars PROVE SegmentsRight'
    OBVIOUS
  <2>a. at \in [Procs -> Points] /\ DOMAIN exe = Procs /\ DOMAIN seg = Procs
    BY DEF SegmentsRight
  <2>1. ASSUME NEW t \in Procs \cup {Main}, Switch(t) PROVE SegmentsRight'
    <3>1. CASE UNCHANGED <<at, exe, seg>>
      BY <3>1 DEF SegmentsRight
    <3>2. CASE Dying(cur) /\ Goto(cur, "none") /\ UNCHANGED <<exe, seg>>
      <4>1. /\ cur \in Procs /\ at' \in [Procs -> Points] /\ at'[cur] = "none"
            /\ \A q \in Procs \ {cur} : at'[q] = at[q]
        BY <2>a, <3>2 DEF Dying, Goto, Points
      <4>p. PICK p \in Procs : p = cur
        BY <4>1
      <4> QED
        BY <2>a, <3>2, <4>1, <4>p, SegmentsOthers DEF Naming
    <3> QED
      BY <2>1, <3>1, <3>2 DEF Switch
  <2>2. ASSUME NEW p \in Procs, NEW x \in Executables, ProcessExecute(p, x)
        PROVE  SegmentsRight'
    <3>1. /\ at' \in [Procs -> Points] /\ \A q \in Procs \ {p} : at'[q] = at[q]
      BY <2>a, <2>2 DEF ProcessExecute, Goto, Points
    <3>2. /\ DOMAIN exe' = Procs /\ exe'[p] = x /\ \A q \in Procs \ {p} : exe'[q] = exe[q]
      BY <2>a, <2>2 DEF ProcessExecute
    <3>3. /\ DOMAIN seg' = Procs /\ seg'[p] = [NoSeg EXCEPT !.i = 1]
          /\ \A q \in Procs \ {p} : seg'[q] = seg[q]
      BY <2>a, <2>2 DEF ProcessExecute
    <3>4. x \in Ehdr /\ seg'[p] \in SegFields
      <4>1. seg'[p] = [i |-> 1, upage |-> 0, pos |-> 0, read |-> 0, zero |-> 0, w |-> FALSE]
        BY <3>3 DEF NoSeg
      <4>2. seg'[p] \in SegFields
        BY <4>1 DEF SegFields
      <4> QED
        BY <4>2, LoadingAssumption
    <3> QED
      BY <3>1, <3>2, <3>3, <3>4, SegmentsOthers
  <2>3. ASSUME NEW p \in Procs, NEW y \in Points, Goto(p, y), exe' = exe, DOMAIN seg' = Procs,
               \A q \in Procs \ {p} : seg'[q] = seg[q],
               y \in Naming => at[p] \in Naming /\ seg' = seg
        PROVE  SegmentsRight'
    <3>1. at' \in [Procs -> Points] /\ at'[p] = y /\ \A q \in Procs \ {p} : at'[q] = at[q]
      BY <2>a, <2>3 DEF Goto
    <3> QED
      BY <2>a, <2>3, <3>1, SegmentsOthers DEF SegmentsRight
  <2>4. ASSUME NEW p \in Procs, LoadCreate(p) PROVE SegmentsRight'
    <3>1. /\ \E y \in {"header", "failed"} : Goto(p, y)
          /\ exe' = exe /\ seg' = seg /\ at[p] = "load"
      BY <2>4 DEF LoadCreate, Running
    <3> QED
      BY <2>a, <2>3, <3>1 DEF Points, Naming
  <2>5. ASSUME NEW p \in Procs, SetupStack(p) PROVE SegmentsRight'
    <3>1. /\ \E y \in {"loaded", "failed"} : Goto(p, y)
          /\ exe' = exe /\ seg' = seg /\ at[p] = "stack"
      BY <2>5 DEF SetupStack, Running
    <3> QED
      BY <2>a, <2>3, <3>1 DEF Points, Naming
  <2>6. ASSUME NEW p \in Procs,
               \/ StartProcess(p) \/ ThreadExit(p)
               \/ ExitForget(p) \/ ExitLeave(p) \/ ExitDestroy(p)
        PROVE  SegmentsRight'
    <3>1. /\ \E y \in {"user", "exit", "forgot", "left", "dying"} : Goto(p, y)
          /\ exe' = exe /\ (seg' = seg \/ \E s : seg' = [seg EXCEPT ![p] = s])
      <4>1. CASE StartProcess(p)
        BY <4>1 DEF StartProcess
      <4>2. CASE ThreadExit(p)
        BY <4>2 DEF ThreadExit
      <4>3. CASE ExitForget(p)
        BY <4>3 DEF ExitForget
      <4>4. CASE ExitLeave(p)
        BY <4>4 DEF ExitLeave
      <4>5. CASE ExitDestroy(p)
        BY <4>5 DEF ExitDestroy
      <4> QED
        BY <2>6, <4>1, <4>2, <4>3, <4>4, <4>5
    <3>2. DOMAIN seg' = Procs /\ \A q \in Procs \ {p} : seg'[q] = seg[q]
      BY <2>a, <3>1
    <3> QED
      BY <2>3, <3>1, <3>2 DEF Points, Naming
  <2>7. ASSUME UNCHANGED <<at, exe, seg>> PROVE SegmentsRight'
    BY <2>7 DEF SegmentsRight
  <2> QED
    BY <2>1, <2>2, <2>4, <2>5, <2>6, <2>7, HeaderSegments, PageSegments, ZenonT(30)
      DEF Next, vars, Access, PageFault, Kill, SysCall, TakePage, ResetBit
<1> QED
  BY <1>1, <1>2, PTL DEF Spec

-----------------------------------------------------------------------------
(* The invariant.                                                          *)

\* One round of load_segment()'s loop.
LEMMA LoadPageInv ==
  ASSUME LoadingInv, SegmentsRight, NEW p \in Procs, LoadPage(p)
  PROVE  LoadingInv'
<1>1. /\ cur = p /\ at[p] = "segment" /\ seg[p].w \in BOOLEAN
      /\ UNCHANGED <<cur, thread_page, fn_copy, pagedir, cr3, tlb, esp0, used>>
  BY DEF LoadPage, Running, cpuVars, SegmentsRight, Naming, SegFields
<1>2. /\ DOMAIN seg = Procs /\ pagedir[p] # None /\ at \in [Procs -> Points]
      /\ \A v \in Touched, b \in {"a", "d"} : <<p, v, b>> \notin used
  BY <1>1 DEF LoadingInv, TypesRight, StagesRight, Directed, UsesMarked
<1>3. DOMAIN seg' = Procs /\ \A q \in Procs \ {p} : seg'[q] = seg[q]
  <2>1. \/ seg' = seg
        \/ \E s : seg' = [seg EXCEPT ![p] = s]
        \/ \E n : seg' = [seg EXCEPT ![p].read = @ - n, ![p].zero = @ - (PGSIZE - n),
                                     ![p].upage = @ + 1, ![p].pos = @ + n]
    BY DEF LoadPage
  <2> QED
    BY <1>2, <2>1
<1>4. CASE (\E x \in {"header", "failed"} : Goto(p, x)) /\ UNCHANGED <<free, pde, pte>>
  <2>1. PICK x \in {"header", "failed"} : Goto(p, x)
    BY <1>4
  <2> QED
    BY <1>1, <1>2, <1>3, <1>4, <2>1, QuietInv DEF Points, Naming, Directed, Directing
<1>5. at' = at => Goto(p, "segment")
  BY <1>1, <1>2 DEF Goto
<1>6. CASE UNCHANGED <<at, free, pde, pte>>
  BY <1>1, <1>2, <1>3, <1>5, <1>6, QuietInv DEF Points, Naming, Directed, Directing
<1>7. CASE /\ seg[p].upage \in PageNos /\ Available(UserPages)
           /\ Installable(pagedir[p], seg[p].upage)
           /\ Install(pagedir[p], seg[p].upage, FirstFree(UserPages), seg[p].w)
           /\ UNCHANGED at
  BY <1>1, <1>2, <1>3, <1>5, <1>7, InstallInv
<1> QED
  BY <1>4, <1>6, <1>7 DEF LoadPage, memVars, GivenBack

\* In the beginning all pages are free.
LEMMA InitLoading ==
  ASSUME Init PROVE LoadingInv
<1>1. NoPte \in Pte
  BY DEF NoPte, Pte, PteFields
<1>2. TypesRight
  BY <1>1 DEF Init, TypesRight, Points, Pools, Slots
<1>3. StagesRight
  BY DEF Init, StagesRight, Naming, Directed
<1>4. \A p \in Procs : DirectoryOf(p) = None /\ \A i \in Tables : TableOf(p, i) = 0
  BY DEF Init, DirectoryOf, TableOf
<1>5. \A p \in Procs, i \in Tables, j \in Slots : FrameAt(p, i, j) = 0
  BY <1>4 DEF FrameAt
<1>6. \A u \in DOMAIN KernelUse : KernelUse[u] = None
  <2> SUFFICES ASSUME NEW u \in Procs \X KernelRoles PROVE KernelUse[u] = None
    BY Uses DEF UsesNamed
  <2>1. PICK p \in Procs :
          \/ u = <<p, <<"thread", 0>>>> \/ u = <<p, <<"name", 0>>>> \/ u = <<p, <<"dir", 0>>>>
          \/ \E i \in Tables : u = <<p, <<"table", i>>>>
    BY Uses DEF UsesNamed
  <2>2. thread_page[p] = None /\ fn_copy[p] = None
    BY DEF Init
  <2>3. CASE u = <<p, <<"thread", 0>>>> \/ u = <<p, <<"name", 0>>>> \/ u = <<p, <<"dir", 0>>>>
    BY <1>4, <2>2, <2>3, Uses DEF UsesNamed
  <2>4. CASE \E i \in Tables : u = <<p, <<"table", i>>>>
    BY <1>4, <2>4, Uses DEF UsesNamed
  <2> QED
    BY <2>1, <2>3, <2>4
<1>7. \A u \in DOMAIN FrameUse : FrameUse[u] = 0
  <2> SUFFICES ASSUME NEW u \in Procs \X Tables \X Slots PROVE FrameUse[u] = 0
    BY Uses DEF UsesNamed, Cells
  <2>1. PICK p \in Procs, i \in Tables, j \in Slots : u = <<p, i, j>>
    OBVIOUS
  <2> QED
    BY <1>5, <2>1, Uses DEF UsesNamed
<1>8. PagesRight
  BY <1>6, <1>7 DEF Init, PagesRight, Owned
<1>9. CpuRight /\ TlbRight
  BY LoadingAssumption DEF Init, CpuRight, TlbRight, EmptyTlb
<1>10. UsesMarked
  BY DEF Init, UsesMarked
<1> QED
  BY <1>2, <1>3, <1>8, <1>9, <1>10 DEF LoadingInv

\* Every step keeps the invariant.
LEMMA NextLoading ==
  ASSUME LoadingInv, SegmentsRight, [Next]_vars PROVE LoadingInv'
<1>1. CASE \E t \in Procs \cup {Main} : Switch(t)
  BY <1>1, SwitchInv
<1>2. CASE \E p \in Procs, x \in Executables : ProcessExecute(p, x)
  BY <1>2, ProcessExecuteInv
<1>3. ASSUME NEW p \in Procs,
             \/ LoadCreate(p) \/ LoadHeader(p) \/ LoadPage(p) \/ SetupStack(p)
             \/ StartProcess(p)
      PROVE  LoadingInv'
  BY <1>3, LoadCreateInv, LoadHeaderInv, LoadPageInv, SetupStackInv, StartProcessInv
<1>4. ASSUME NEW p \in Procs,
             Kill(p) \/ SysCall(p) \/ ExitForget(p) \/ ExitLeave(p) \/ ExitDestroy(p)
      PROVE  LoadingInv'
  BY <1>4, ThreadExitInv, ExitForgetInv, ExitLeaveInv, ExitDestroyInv DEF Kill, SysCall
<1>5. ASSUME NEW p \in Procs, NEW v \in Touched,
             \/ \E write \in BOOLEAN : Access(p, v, write) \/ PageFault(p, v, write)
             \/ TakePage(p, v)
             \/ \E bit \in {"a", "d"} : ResetBit(p, v, bit)
      PROVE  LoadingInv'
  BY <1>5, AccessInv, ThreadExitInv, TakePageInv, ResetBitInv DEF PageFault
<1>6. CASE UNCHANGED vars
  <2>1. UNCHANGED <<cur, at, free, pde, pte, thread_page, fn_copy, pagedir, seg, cr3, tlb, esp0,
                    used>>
    BY <1>6 DEF vars, memVars, cpuVars
  <2>2. \A q \in Procs : DirectoryOf(q)' = DirectoryOf(q)
    BY <2>1 DEF DirectoryOf
  <2>3. TypesRight' /\ StagesRight'
    BY <2>1 DEF LoadingInv, TypesRight, StagesRight
  <2>4. PagesRight'
    BY <2>1, <2>2, PagesStay
  <2>5. CpuRight'
    BY <2>1, <2>2 DEF LoadingInv, CpuRight
  <2>6. UsesMarked'
    <3>1. \A q \in Procs, v \in Touched, b \in {"a", "d"} : <<q, v, b>> \in used =>
            at'[q] \in {"user", "forgot", "left"} \/ (at'[q] = "exit" /\ pagedir'[q] # None)
      BY <2>1 DEF LoadingInv, UsesMarked
    <3> QED
      BY <2>1, <3>1, UsesStay
  <2> QED
    BY <2>1, <2>3, <2>4, <2>5, <2>6, TlbStays DEF LoadingInv
<1> QED
  BY <1>1, <1>2, <1>3, <1>4, <1>5, <1>6 DEF Next

\* The inductive invariant holds of every behaviour.
THEOREM LoadingInvariant == Spec => []LoadingInv
<1>1. Init => LoadingInv
  BY InitLoading
<1>2. LoadingInv /\ SegmentsRight /\ [Next]_vars => LoadingInv'
  BY NextLoading
<1> QED
  BY <1>1, <1>2, SegmentsInvariant, PTL DEF Spec

-----------------------------------------------------------------------------
(* The theorems.                                                           *)

\* The pages of a program are the ones it has a use for.
LEMMA OwnPagesAre ==
  ASSUME LoadingInv, NEW p \in Procs, NEW x
  PROVE  x \in OwnPages(p) <=>
           \/ x \in KernelPages /\ \E r \in KernelRoles : KernelUse[<<p, r>>] = x
           \/ x \in UserPages /\ \E i \in Tables, j \in Slots : FrameUse[<<p, i, j>>] = x
<1>d. PICK d : d = DirectoryOf(p)
  OBVIOUS
<1>1. /\ 0 \notin KernelPages /\ 0 \notin UserPages /\ None \notin KernelPages
      /\ thread_page[p] \in KernelPages \cup {None} /\ fn_copy[p] \in KernelPages \cup {None}
      /\ d \in KernelPages \cup {None}
      /\ \A i \in Tables : TableOf(p, i) \in KernelPages \cup {0}
  BY <1>d, KernelDistinct DEF LoadingInv, TypesRight
<1>2. /\ <<"thread", 0>> \in KernelRoles /\ <<"name", 0>> \in KernelRoles
      /\ <<"dir", 0>> \in KernelRoles /\ \A i \in Tables : <<"table", i>> \in KernelRoles
  BY DEF KernelRoles
<1>3. /\ KernelUse[<<p, <<"thread", 0>>>>] = thread_page[p]
      /\ KernelUse[<<p, <<"name", 0>>>>] = fn_copy[p]
      /\ KernelUse[<<p, <<"dir", 0>>>>] = d
      /\ \A i \in Tables : KernelUse[<<p, <<"table", i>>>>] =
                             IF TableOf(p, i) = 0 THEN None ELSE TableOf(p, i)
      /\ \A i \in Tables, j \in Slots : FrameUse[<<p, i, j>>] = FrameAt(p, i, j)
  BY <1>d, Uses DEF UsesNamed
<1>4. /\ d = None => \A i \in Tables : TableOf(p, i) = 0 /\ \A j \in Slots : FrameAt(p, i, j) = 0
      /\ d # None =>
           /\ \A y : y \in TablesOf(d) <=> y # 0 /\ \E i \in Tables : y = TableOf(p, i)
           /\ \A y : y \in FramesOf(d) <=>
                       y # 0 /\ \E i \in Tables, j \in Slots : y = FrameAt(p, i, j)
           /\ FramesOf(d) \subseteq UserPages
  <2>1. CASE d = None
    BY <1>d, <2>1 DEF TableOf, FrameAt
  <2>2. CASE d # None
    BY <1>d, <2>2, DirectoryPages
  <2> QED
    BY <2>1, <2>2
<1>5. ASSUME x \in OwnPages(p)
      PROVE  \/ x \in KernelPages /\ \E r \in KernelRoles : KernelUse[<<p, r>>] = x
             \/ x \in UserPages /\ \E i \in Tables, j \in Slots : FrameUse[<<p, i, j>>] = x
  <2>1. CASE x # None /\ (x = thread_page[p] \/ x = fn_copy[p] \/ x = d)
    BY <1>1, <1>2, <1>3, <2>1
  <2>2. CASE d # None /\ x \in TablesOf(d)
    <3>1. PICK i \in Tables : x = TableOf(p, i) /\ x # 0
      BY <1>4, <2>2
    <3>2. x \in KernelPages /\ KernelUse[<<p, <<"table", i>>>>] = x
      BY <1>1, <1>3, <3>1
    <3> QED
      BY <1>2, <3>2
  <2>3. CASE d # None /\ x \in FramesOf(d)
    BY <1>3, <1>4, <2>3
  <2> QED
    BY <1>d, <1>5, <2>1, <2>2, <2>3 DEF OwnPages, PagesOf
<1>6. ASSUME x \in KernelPages, NEW r \in KernelRoles, KernelUse[<<p, r>>] = x
      PROVE  x \in OwnPages(p)
  <2>1. \/ r = <<"thread", 0>> \/ r = <<"name", 0>> \/ r = <<"dir", 0>>
        \/ \E i \in Tables : r = <<"table", i>>
    BY DEF KernelRoles
  <2>2. x # None
    BY <1>1, <1>6
  <2>3. CASE r = <<"thread", 0>> \/ r = <<"name", 0>>
    BY <1>3, <1>6, <2>2, <2>3 DEF OwnPages
  <2>4. CASE r = <<"dir", 0>>
    <3>1. x = DirectoryOf(p)
      BY <1>d, <1>3, <1>6, <2>4
    <3> QED
      BY <2>2, <3>1 DEF OwnPages, PagesOf
  <2>5. CASE \E i \in Tables : r = <<"table", i>>
    <3>1. PICK i \in Tables : r = <<"table", i>>
      BY <2>5
    <3>2. TableOf(p, i) # 0 /\ x = TableOf(p, i)
      BY <1>3, <1>6, <2>2, <3>1
    <3>3. d # None /\ x \in TablesOf(d)
      BY <1>4, <3>2
    <3> QED
      BY <1>d, <3>3 DEF OwnPages, PagesOf
  <2> QED
    BY <2>1, <2>3, <2>4, <2>5
<1>7. ASSUME x \in UserPages, NEW i \in Tables, NEW j \in Slots, FrameUse[<<p, i, j>>] = x
      PROVE  x \in OwnPages(p)
  <2>1. x = FrameAt(p, i, j) /\ x # 0
    BY <1>1, <1>3, <1>7
  <2>2. d # None /\ x \in FramesOf(d)
    BY <1>4, <2>1
  <2> QED
    BY <1>d, <2>2 DEF OwnPages, PagesOf
<1> QED
  BY <1>5, <1>6, <1>7

\* The conjuncts of PagesOwned, from one use for each page.
LEMMA OwnedOnce ==
  ASSUME LoadingInv PROVE PagesOwned
<1>1. /\ Owned(KernelUse, None, KernelPages, free) /\ Owned(FrameUse, 0, UserPages, free)
      /\ None \notin KernelPages /\ 0 \notin UserPages /\ KernelPages \cap UserPages = {}
      /\ free \subseteq KernelPages \cup UserPages
      /\ DOMAIN KernelUse = Procs \X KernelRoles /\ DOMAIN FrameUse = Procs \X Tables \X Slots
  BY LoadingAssumption, Uses DEF LoadingInv, PagesRight, TypesRight, Pools, UsesNamed, Cells
<1>2. ASSUME NEW x \in KernelPages, x \notin free PROVE \E p \in Procs : x \in OwnPages(p)
  <2>1. PICK u \in Procs \X KernelRoles : KernelUse[u] = x
    BY <1>1, <1>2 DEF Owned
  <2>2. PICK p \in Procs, r \in KernelRoles : u = <<p, r>>
    OBVIOUS
  <2> QED
    BY <2>1, <2>2, OwnPagesAre
<1>3. ASSUME NEW x \in UserPages, x \notin free PROVE \E p \in Procs : x \in OwnPages(p)
  <2>1. PICK u \in Procs \X Tables \X Slots : FrameUse[u] = x
    BY <1>1, <1>3 DEF Owned
  <2>2. PICK p \in Procs, i \in Tables, j \in Slots : u = <<p, i, j>>
    OBVIOUS
  <2>3. x \in UserPages /\ FrameUse[<<p, i, j>>] = x
    BY <2>1, <2>2
  <2> QED
    BY <2>3, OwnPagesAre
<1>4. ASSUME NEW p \in Procs, NEW x \in OwnPages(p)
      PROVE  x \in KernelPages \cup UserPages /\ x \notin free
  <2>1. CASE x \in KernelPages /\ \E r \in KernelRoles : KernelUse[<<p, r>>] = x
    BY <1>1, <2>1 DEF Owned
  <2>2. CASE x \in UserPages /\ \E i \in Tables, j \in Slots : FrameUse[<<p, i, j>>] = x
    <3>1. PICK i \in Tables, j \in Slots : FrameUse[<<p, i, j>>] = x
      BY <2>2
    <3>2. <<p, i, j>> \in DOMAIN FrameUse /\ x # 0
      BY <1>1, <2>2
    <3> QED
      BY <1>1, <2>2, <3>1, <3>2 DEF Owned
  <2> QED
    BY <2>1, <2>2, OwnPagesAre
<1>5. KernelPages \cup UserPages = free \cup UNION {OwnPages(p) : p \in Procs}
  BY <1>1, <1>2, <1>3, <1>4
<1>6. ASSUME NEW p \in Procs, NEW q \in Procs, NEW x, x \in OwnPages(p), x \in OwnPages(q)
      PROVE  p = q
  <2>1. CASE x \in KernelPages
    <3>1. /\ \E r \in KernelRoles : KernelUse[<<p, r>>] = x
          /\ \E r \in KernelRoles : KernelUse[<<q, r>>] = x
      BY <1>1, <1>6, <2>1, OwnPagesAre
    <3>2. PICK r \in KernelRoles, s \in KernelRoles :
            KernelUse[<<p, r>>] = x /\ KernelUse[<<q, s>>] = x
      BY <3>1
    <3>3. <<p, r>> \in DOMAIN KernelUse /\ <<q, s>> \in DOMAIN KernelUse /\ x # None
      BY <1>1, <2>1
    <3>4. <<p, r>> = <<q, s>>
      BY <1>1, <3>2, <3>3 DEF Owned
    <3> QED
      BY <3>4
  <2>2. CASE x \in UserPages
    <3>1. /\ \E i \in Tables, j \in Slots : FrameUse[<<p, i, j>>] = x
          /\ \E i \in Tables, j \in Slots : FrameUse[<<q, i, j>>] = x
      BY <1>1, <1>6, <2>2, OwnPagesAre
    <3>2. PICK i \in Tables, j \in Slots, k \in Tables, l \in Slots :
            FrameUse[<<p, i, j>>] = x /\ FrameUse[<<q, k, l>>] = x
      BY <3>1
    <3>3. <<p, i, j>> \in DOMAIN FrameUse /\ <<q, k, l>> \in DOMAIN FrameUse /\ x # 0
      BY <1>1, <2>2
    <3>4. <<p, i, j>> = <<q, k, l>>
      BY <1>1, <3>2, <3>3 DEF Owned
    <3> QED
      BY <3>4
  <2> QED
    BY <1>4, <1>6, <2>1, <2>2
<1>7. ASSUME NEW p \in Procs, DirectoryOf(p) # None, NEW v \in PageNos, NEW w \in PageNos,
             v # w, Mapped(DirectoryOf(p), v), Mapped(DirectoryOf(p), w)
      PROVE  Entry(DirectoryOf(p), v).frame # Entry(DirectoryOf(p), w).frame
  <2>d. PICK d : d = DirectoryOf(p)
    OBVIOUS
  <2>a. PICK a : a = <<p, pd_no(v), pt_no(v)>>
    OBVIOUS
  <2>b. PICK b : b = <<p, pd_no(w), pt_no(w)>>
    OBVIOUS
  <2>1. /\ a \in DOMAIN FrameUse /\ FrameUse[a] = Entry(d, v).frame /\ FrameUse[a] # 0
    BY <1>1, <1>7, <2>d, <2>a, EntryCell, Uses DEF UsesNamed
  <2>2. /\ b \in DOMAIN FrameUse /\ FrameUse[b] = Entry(d, w).frame
    BY <1>1, <1>7, <2>d, <2>b, EntryCell, Uses DEF UsesNamed
  <2>3. a # b
    BY <1>7, <2>a, <2>b, Coordinates
  <2> QED
    BY <1>1, <2>d, <2>1, <2>2, <2>3 DEF Owned
<1> QED
  BY <1>4, <1>5, <1>6, <1>7 DEF PagesOwned

\* On every way through process_execute(), load() and process_exit(), and whatever
\* callers of pagedir.c take away, each page of the two pools is free or has one owner and
\* one use: nothing leaks, and nothing is freed twice or mapped twice.
THEOREM EveryPageHasOneOwner == Spec => []PagesOwned
<1>1. LoadingInv => PagesOwned
  BY OwnedOnce
<1> QED
  BY <1>1, LoadingInvariant, PTL

\* The order of process_exit() (forget the directory, leave it, free it) is enough: the
\* processor never works with a directory that has been freed, wherever the timer
\* interrupts, and a program in user mode has its own directory and kernel stack.
THEOREM NoFreedDirectoryIsActive == Spec => []DirectoryLive
<1>1. ASSUME LoadingInv PROVE DirectoryLive
  <2>1. ASSUME cr3 # InitPageDir
        PROVE  cr3 \notin free /\ cur \in Procs /\ DirectoryOf(cur) = cr3
    <3>1. cur \in Procs /\ DirectoryOf(cur) = cr3 /\ cr3 # None
      BY <1>1, <2>1 DEF LoadingInv, CpuRight, TypesRight
    <3> QED
      BY <1>1, <3>1, KernelDistinct
  <2>2. ASSUME NEW p \in Procs, Running(p, "user") PROVE cr3 = pagedir[p] /\ esp0 = p
    BY <1>1, <2>2 DEF LoadingInv, CpuRight, TypesRight, StagesRight, Directed, Running
  <2> QED
    BY <2>1, <2>2 DEF DirectoryLive
<1> QED
  BY <1>1, LoadingInvariant, PTL

\* invalidate_pagedir() is called wherever it has to be: what the processor has cached
\* allows nothing that the page tables forbid, and the accessed and dirty bits tell of
\* every access since they were last reset.
THEOREM CachedTranslationsAgree == Spec => []TlbInSync
<1>1. ASSUME LoadingInv PROVE TlbInSync
  <2>1. \A v \in DOMAIN tlb :
          /\ Mapped(cr3, v)
          /\ Entry(cr3, v).frame = tlb[v].frame /\ Entry(cr3, v).w = tlb[v].w
    BY <1>1 DEF LoadingInv, TlbRight
  <2>2. ASSUME NEW u \in used, pagedir[u[1]] # None, Mapped(pagedir[u[1]], u[2])
        PROVE  /\ u[3] = "a" => Entry(pagedir[u[1]], u[2]).a
               /\ u[3] # "a" => Entry(pagedir[u[1]], u[2]).d
    <3>1. PICK p \in Procs, v \in Touched, b \in {"a", "d"} : u = <<p, v, b>>
      BY <1>1 DEF LoadingInv, TypesRight
    <3> QED
      BY <1>1, <2>2, <3>1 DEF LoadingInv, UsesMarked
  <2> QED
    BY <2>1, <2>2 DEF TlbInSync
<1> QED
  BY <1>1, LoadingInvariant, PTL

-----------------------------------------------------------------------------
(* The image that load() puts together.                                    *)

\* The points from pagedir_create() to the end of load().
Filling == {"header", "segment", "stack", "loaded"}

\* The first page behind a segment, and the end of what the file has of it.
EndPage(ph) == (ph.vaddr + ph.memsz - 1) \div PGSIZE + 1
FileEnd(ph) == ph.vaddr + ph.filesz

\* The variables of load_segment() fit what is left of a segment: so many pages, the
\* bytes that the file has of them, and their place in the file.
SegmentAt(s, ph) ==
  /\ s.w = ph.w
  /\ ph.vaddr \div PGSIZE <= s.upage /\ s.upage <= EndPage(ph)
  /\ s.read >= 0 /\ s.zero >= 0 /\ s.read + s.zero = (EndPage(ph) - s.upage) * PGSIZE
  /\ s.read = IF ph.filesz > 0 /\ s.upage * PGSIZE < FileEnd(ph)
              THEN FileEnd(ph) - s.upage * PGSIZE ELSE 0
  /\ s.read > 0 => s.pos = ph.offset - ph.vaddr + s.upage * PGSIZE

\* Page v of a directory is what segment ph says.
Holds(d, v, ph) ==
  /\ Mapped(d, v) /\ Entry(d, v).w = ph.w
  /\ \A b \in 0..(PGSIZE - 1) : bytes[Entry(d, v).frame][b] = SegmentByte(ph, v * PGSIZE + b)

\* load() has put page v of header j in its place.
Placed(p, j, v) ==
  /\ j \in DOMAIN exe[p].phdrs /\ exe[p].phdrs[j].type = "load"
  /\ v \in SegmentPages(exe[p].phdrs[j])
  /\ j < seg[p].i \/ (at[p] = "segment" /\ j = seg[p].i /\ v < seg[p].upage)
SomePlaced(p, v) == \E j \in DOMAIN exe[p].phdrs : Placed(p, j, v)

\* So far exactly those pages are mapped, and they are right.
PagesPlaced(p) ==
  /\ \A v \in PageNos :
       Mapped(pagedir[p], v) <=> SomePlaced(p, v) \/ (at[p] = "loaded" /\ v = StackPage)
  /\ at[p] = "loaded" => ~SomePlaced(p, StackPage)
  /\ \A j, v : Placed(p, j, v) => v \in PageNos /\ Holds(pagedir[p], v, exe[p].phdrs[j])
HeadersRead(p) ==
  /\ at[p] \in {"stack", "loaded"} => seg[p].i > Len(exe[p].phdrs)
  /\ at[p] = "segment" =>
       /\ seg[p].i \in DOMAIN exe[p].phdrs /\ exe[p].phdrs[seg[p].i].type = "load"
       /\ SegmentPages(exe[p].phdrs[seg[p].i]) \subseteq PageNos
       /\ SegmentAt(seg[p], exe[p].phdrs[seg[p].i])

\* The inductive invariant.
ImageSoFar ==
  /\ ~panic /\ DOMAIN bytes = UserPages
  /\ \A p \in Procs : at[p] = "load" => seg[p].i = 1
  /\ \A p \in Procs : at[p] \in Filling => PagesPlaced(p) /\ HeadersRead(p)

\* Division by the page size, told from the remainder.
LEMMA DivUnique ==
  ASSUME NEW n \in Int, NEW q \in Int, NEW r \in Int, NEW m \in Nat \ {0},
         n = m * q + r, 0 <= r, r < m
  PROVE  n \div m = q /\ n % m = r
<1>q. PICK k \in Int : k = n \div m
  OBVIOUS
<1>r. PICK e \in Int : e = n % m
  OBVIOUS
<1>1. n = m * k + e /\ 0 <= e /\ e < m
  BY <1>q, <1>r
<1>2. ~(k > q)
  <2>1. SUFFICES ASSUME k >= q + 1 PROVE FALSE
    OBVIOUS
  <2>2. m * k >= m * (q + 1)
    BY <2>1
  <2>3. m * (q + 1) = m * q + m
    OBVIOUS
  <2> QED
    BY <1>1, <2>2, <2>3
<1>3. ~(q > k)
  <2>1. SUFFICES ASSUME q >= k + 1 PROVE FALSE
    OBVIOUS
  <2>2. m * q >= m * (k + 1)
    BY <2>1
  <2>3. m * (k + 1) = m * k + m
    OBVIOUS
  <2> QED
    BY <1>1, <2>2, <2>3
<1>4. k = q
  BY <1>2, <1>3
<1> QED
  BY <1>q, <1>r, <1>1, <1>4

\* The pages of PHYS_BASE are whole.
LEMMA WholePages ==
  /\ PGSIZE \in Nat \ {0} /\ PhysBase \in Nat
  /\ PhysBase \div PGSIZE \in Nat /\ PhysBase = PGSIZE * (PhysBase \div PGSIZE)
<1>1. /\ PGSIZE \in Nat /\ PGSIZE > 0 /\ PtEntries \in Nat /\ PtEntries > 0
      /\ PhysBase \in Nat /\ PhysBase > 0 /\ PhysBase % (PGSIZE * PtEntries) = 0
  BY LoadingAssumption
<1>2. PICK b \in Nat : b = PGSIZE * PtEntries /\ b > 0
  BY <1>1
<1>3. PICK k \in Nat : k = PhysBase \div b
  BY <1>1, <1>2
<1>4. PhysBase = b * k
  BY <1>1, <1>2, <1>3
<1>5. PICK m \in Nat : m = PtEntries * k
  BY <1>1
<1>6. PhysBase = PGSIZE * m
  BY <1>1, <1>2, <1>4, <1>5
<1>7. PhysBase \div PGSIZE = m
  BY <1>1, <1>6, DivUnique
<1> QED
  BY <1>1, <1>6, <1>7

\* A header that validate_segment() accepts describes pages below PHYS_BASE: what it
\* computes with words does not wrap around.
LEMMA ValidPages ==
  ASSUME NEW x \in Ehdr, NEW ph \in Phdr, ValidateSegment(x, ph)
  PROVE  /\ ph.vaddr \in Nat /\ ph.memsz \in Nat /\ ph.filesz \in Nat /\ ph.offset \in Nat
         /\ ph.w \in BOOLEAN
         /\ ph.memsz >= 1 /\ ph.filesz <= ph.memsz /\ ph.vaddr + ph.memsz < PhysBase
         /\ ph.offset % PGSIZE = ph.vaddr % PGSIZE
         /\ SegmentPages(ph) \subseteq PageNos
<1>1. /\ ph.vaddr \in 0..(AddrMod - 1) /\ ph.memsz \in 0..(AddrMod - 1) /\ ph.filesz \in Nat
      /\ ph.offset \in Nat /\ ph.w \in BOOLEAN /\ AddrMod \in Nat /\ PhysBase < AddrMod
      /\ PhysBase \in Nat
  BY LoadingAssumption DEF Phdr, Elf32_Word
<1>2. PICK end : end = (ph.vaddr + ph.memsz) % AddrMod
  OBVIOUS
<1>3. /\ end < PhysBase /\ end >= ph.vaddr /\ ph.memsz >= ph.filesz /\ ph.memsz # 0
      /\ ph.offset % PGSIZE = ph.vaddr % PGSIZE
  BY <1>2 DEF ValidateSegment, ValidRegion
<1>4. end = ph.vaddr + ph.memsz
  <2>1. PICK y \in Nat : y = ph.vaddr + ph.memsz
    BY <1>1
  <2>2. CASE y < AddrMod
    <3>1. y = AddrMod * 0 + y /\ 0 <= y /\ AddrMod \in Nat \ {0}
      BY <1>1, <2>1, <2>2
    <3>2. y % AddrMod = y
      BY <2>2, <3>1, DivUnique
    <3> QED
      BY <1>2, <2>1, <3>2
  <2>3. CASE y >= AddrMod
    <3>1. PICK r \in Int : r = y - AddrMod
      BY <1>1, <2>1
    <3>2. y = AddrMod * 1 + r /\ 0 <= r /\ r < AddrMod /\ AddrMod \in Nat \ {0}
      BY <1>1, <2>1, <2>3, <3>1
    <3>3. y % AddrMod = r
      BY <3>2, DivUnique
    <3>4. end = r /\ r < ph.vaddr
      BY <1>1, <1>2, <2>1, <3>1, <3>3
    <3> QED
      BY <1>1, <1>3, <3>4
  <2> QED
    BY <1>1, <2>1, <2>2, <2>3
<1>5. ph.vaddr + ph.memsz < PhysBase /\ ph.memsz >= 1 /\ ph.vaddr \in Nat /\ ph.memsz \in Nat
  BY <1>1, <1>3, <1>4
<1>6. ASSUME NEW v \in SegmentPages(ph) PROVE v \in PageNos
  <2>g. PGSIZE \in Nat \ {0} /\ PhysBase = PGSIZE * (PhysBase \div PGSIZE)
    BY WholePages
  <2>m. PICK m \in Nat : m = PhysBase \div PGSIZE
    BY WholePages
  <2>a. PICK a \in Int : a = ph.vaddr \div PGSIZE
    BY <1>5, <2>g
  <2>y. PICK y \in Nat : y = ph.vaddr + ph.memsz - 1
    BY <1>5
  <2>e. PICK e \in Int : e = y \div PGSIZE
    BY <2>g, <2>y
  <2>1. v \in Int /\ a <= v /\ v <= e
    BY <2>a, <2>y, <2>e DEF SegmentPages
  <2>2. a >= 0
    BY <1>5, <2>a, <2>g
  <2>3. PGSIZE * e <= y /\ y < PGSIZE * m
    BY <1>1, <1>5, <2>g, <2>m, <2>y, <2>e
  <2>4. e < m
    <3>1. SUFFICES ASSUME e >= m PROVE FALSE
      OBVIOUS
    <3>2. PGSIZE * e >= PGSIZE * m
      BY <2>g, <3>1
    <3>3. PGSIZE * e \in Int /\ PGSIZE * m \in Int
      BY <2>g
    <3> QED
      BY <2>3, <3>2, <3>3
  <2> QED
    BY <2>m, <2>1, <2>2, <2>4 DEF PageNos
<1> QED
  BY <1>1, <1>3, <1>5, <1>6

\* load() calls load_segment() with the arguments of the whole segment.
LEMMA SegmentStart ==
  ASSUME NEW x \in Ehdr, NEW ph \in Phdr, ValidateSegment(x, ph), NEW i,
         NEW s, s = SegmentOf(i, ph)
  PROVE  SegmentAt(s, ph) /\ s.i = i /\ s.upage = ph.vaddr \div PGSIZE
<1>1. /\ ph.vaddr \in Nat /\ ph.memsz \in Nat /\ ph.filesz \in Nat /\ ph.offset \in Nat
      /\ ph.memsz >= 1 /\ ph.filesz <= ph.memsz /\ ph.offset % PGSIZE = ph.vaddr % PGSIZE
  BY ValidPages
<1>g. PGSIZE \in Nat \ {0}
  BY WholePages
<1>a. PICK a \in Int : a = ph.vaddr \div PGSIZE
  BY <1>1, <1>g
<1>r. PICK r \in Int : r = ph.vaddr % PGSIZE
  BY <1>1, <1>g
<1>u. PICK u \in Int : u = a * PGSIZE
  BY <1>g
<1>2. ph.vaddr = u + r /\ 0 <= r /\ r < PGSIZE /\ u = PGSIZE * a
  <2>v. PICK v \in Nat : v = ph.vaddr
    BY <1>1
  <2>1. a = v \div PGSIZE /\ r = v % PGSIZE
    BY <1>a, <1>r, <2>v
  <2>2. v = PGSIZE * a + r /\ 0 <= r /\ r < PGSIZE
    BY <1>g, <2>1
  <2>3. a * PGSIZE = PGSIZE * a
    BY <1>g
  <2> QED
    BY <1>u, <2>v, <2>2, <2>3
<1>y. PICK y \in Nat : y = r + ph.memsz - 1
  BY <1>1, <1>2
<1>k. PICK k \in Int : k = y \div PGSIZE
  BY <1>g, <1>y
<1>l. PICK l \in Int : l = y % PGSIZE
  BY <1>g, <1>y
<1>z. PICK z \in Int : z = PGSIZE * k
  BY <1>g
<1>3. y = z + l /\ 0 <= l /\ l < PGSIZE /\ k >= 0
  <2>1. y = PGSIZE * k + l /\ 0 <= l /\ l < PGSIZE
    BY <1>g, <1>k, <1>l
  <2>2. k >= 0
    BY <1>g, <2>1
  <2> QED
    BY <1>z, <2>1, <2>2
<1>4. EndPage(ph) = a + k + 1
  <2>1. PICK n \in Int : n = ph.vaddr + ph.memsz - 1
    BY <1>1
  <2>2. PGSIZE * (a + k) = u + z
    BY <1>g, <1>2, <1>z
  <2>3. n = PGSIZE * (a + k) + l
    BY <1>1, <1>2, <1>3, <1>y, <2>1, <2>2
  <2>4. n \div PGSIZE = a + k
    BY <1>g, <1>3, <2>3, DivUnique
  <2> QED
    BY <2>1, <2>4 DEF EndPage
<1>5. RoundUp(r + ph.memsz) = z + PGSIZE
  <2>1. PICK n \in Int : n = r + ph.memsz + PGSIZE - 1
    BY <1>1, <1>g
  <2>2. PGSIZE * (k + 1) = z + PGSIZE /\ (k + 1) * PGSIZE = z + PGSIZE
    BY <1>g, <1>z
  <2>3. n = PGSIZE * (k + 1) + l
    BY <1>1, <1>g, <1>3, <1>y, <2>1, <2>2
  <2>4. n \div PGSIZE = k + 1
    BY <1>g, <1>3, <2>3, DivUnique
  <2>5. RoundUp(r + ph.memsz) = (n \div PGSIZE) * PGSIZE
    BY <2>1 DEF RoundUp
  <2> QED
    BY <2>2, <2>4, <2>5
<1>e. PICK read \in Int : read = IF ph.filesz > 0 THEN r + ph.filesz ELSE 0
  BY <1>1
<1>6. s = [i |-> i, upage |-> a, pos |-> ph.offset - r, read |-> read,
           zero |-> (z + PGSIZE) - read, w |-> ph.w]
  <2>1. SegmentOf(i, ph) =
          [i |-> i, upage |-> ph.vaddr \div PGSIZE, pos |-> ph.offset - (ph.offset % PGSIZE),
           read |-> IF ph.filesz > 0 THEN (ph.vaddr % PGSIZE) + ph.filesz ELSE 0,
           zero |-> RoundUp((ph.vaddr % PGSIZE) + ph.memsz)
                      - (IF ph.filesz > 0 THEN (ph.vaddr % PGSIZE) + ph.filesz ELSE 0),
           w |-> ph.w]
    BY DEF SegmentOf
  <2>2. ph.offset % PGSIZE = r
    BY <1>1, <1>r
  <2>3. (IF ph.filesz > 0 THEN (ph.vaddr % PGSIZE) + ph.filesz ELSE 0) = read
    BY <1>r, <1>e
  <2>4. RoundUp((ph.vaddr % PGSIZE) + ph.memsz) = z + PGSIZE
    BY <1>r, <1>5
  <2>5. SegmentOf(i, ph) =
          [i |-> i, upage |-> a, pos |-> ph.offset - r, read |-> read,
           zero |-> (z + PGSIZE) - read, w |-> ph.w]
    BY <1>a, <2>1, <2>2, <2>3, <2>4, Zenon
  <2> QED
    BY <2>5, Zenon
<1>7. /\ s.i = i /\ s.upage = a /\ s.pos = ph.offset - r /\ s.read = read
      /\ s.zero = (z + PGSIZE) - read /\ s.w = ph.w
  BY <1>6
<1>8. (EndPage(ph) - s.upage) * PGSIZE = z + PGSIZE
  <2>1. EndPage(ph) - s.upage = k + 1
    BY <1>4, <1>7
  <2>2. (k + 1) * PGSIZE = z + PGSIZE
    BY <1>g, <1>z
  <2> QED
    BY <2>1, <2>2
<1>9. read >= 0 /\ read <= z + PGSIZE
  <2>1. PICK f \in Nat, m \in Nat : f = ph.filesz /\ m = ph.memsz /\ f <= m /\ m >= 1
    BY <1>1
  <2>2. read = IF f > 0 THEN r + f ELSE 0
    BY <1>e, <2>1
  <2>3. r + m - 1 = z + l /\ l < PGSIZE
    BY <1>y, <1>3, <2>1
  <2> QED
    BY ONLY <1>g, <1>2, <1>3, <2>1, <2>2, <2>3
<1>10. s.read = IF ph.filesz > 0 /\ s.upage * PGSIZE < FileEnd(ph)
                THEN FileEnd(ph) - s.upage * PGSIZE ELSE 0
  <2>1. s.upage * PGSIZE = u /\ FileEnd(ph) = u + r + ph.filesz
    BY <1>2, <1>u, <1>7 DEF FileEnd
  <2> QED
    BY <1>1, <1>2, <1>e, <1>7, <2>1
<1>11. s.pos = ph.offset - ph.vaddr + s.upage * PGSIZE
  <2>1. s.upage * PGSIZE = u
    BY <1>u, <1>7
  <2> QED
    BY <1>1, <1>2, <1>7, <2>1
<1>12. s.read + s.zero = z + PGSIZE /\ s.zero >= 0 /\ s.read >= 0
  BY <1>g, <1>7, <1>9
<1>13. ph.vaddr \div PGSIZE <= s.upage /\ s.upage <= EndPage(ph)
  BY <1>a, <1>3, <1>4, <1>7
<1> QED
  BY <1>a, <1>7, <1>8, <1>10, <1>11, <1>12, <1>13 DEF SegmentAt

\* After one page load_segment() is at the next; the page is one of the segment's, and
\* has been filled as it should.
LEMMA SegmentNext ==
  ASSUME NEW ph \in Phdr, NEW s \in SegFields, SegmentAt(s, ph),
         s.read > 0 \/ s.zero > 0,
         NEW n, n = IF s.read < PGSIZE THEN s.read ELSE PGSIZE,
         NEW t \in SegFields, t.w = s.w, t.read = s.read - n, t.zero = s.zero - (PGSIZE - n),
         t.upage = s.upage + 1, t.pos = s.pos + n
  PROVE  /\ SegmentAt(t, ph) /\ s.upage \in SegmentPages(ph)
         /\ \A b \in 0..(PGSIZE - 1) : PageContents(s)[b] = SegmentByte(ph, s.upage * PGSIZE + b)
<1>1. /\ ph.vaddr \in Nat /\ ph.memsz \in Nat /\ ph.filesz \in Nat /\ ph.offset \in Nat
      /\ s.read \in Int /\ s.zero \in Int /\ s.upage \in Int /\ s.pos \in Int
  BY LoadingAssumption DEF Phdr, Elf32_Word, SegFields
<1>g. PGSIZE \in Nat \ {0}
  BY WholePages
<1>E. PICK E \in Int : E = EndPage(ph)
  BY <1>1, <1>g DEF EndPage
<1>u. PICK u \in Int : u = s.upage * PGSIZE
  BY <1>1, <1>g
<1>l. PICK l \in Int : l = E - s.upage
  BY <1>1
<1>m. PICK m \in Int : m = l * PGSIZE
  BY <1>g
<1>2. /\ s.read >= 0 /\ s.zero >= 0 /\ s.read + s.zero = m /\ l >= 0
      /\ ph.vaddr \div PGSIZE <= s.upage /\ s.upage <= E
      /\ s.read = IF ph.filesz > 0 /\ u < ph.vaddr + ph.filesz
                  THEN (ph.vaddr + ph.filesz) - u ELSE 0
      /\ s.read > 0 => s.pos = ph.offset - ph.vaddr + u
      /\ s.w = ph.w
  BY <1>1, <1>E, <1>u, <1>l, <1>m DEF SegmentAt, FileEnd
<1>3. m > 0
  BY <1>1, <1>2
<1>4. l >= 1
  <2>1. SUFFICES ASSUME l = 0 PROVE FALSE
    BY <1>2
  <2>2. m = 0
    BY <1>g, <1>m, <2>1
  <2> QED
    BY <1>3, <2>2
<1>5. m >= PGSIZE /\ (l - 1) * PGSIZE = m - PGSIZE
  BY <1>g, <1>m, <1>4
<1>6. t.upage * PGSIZE = u + PGSIZE
  BY <1>1, <1>g, <1>u
<1>7. EndPage(ph) - t.upage = l - 1 /\ t.upage <= EndPage(ph)
  BY <1>1, <1>E, <1>l, <1>4
<1>8. t.read >= 0 /\ t.zero >= 0 /\ t.read + t.zero = m - PGSIZE
  <2>1. PICK x \in Int, y \in Int : x = s.read /\ y = s.zero
    BY <1>1
  <2>2. x >= 0 /\ y >= 0 /\ x + y = m /\ m >= PGSIZE /\ n = IF x < PGSIZE THEN x ELSE PGSIZE
    BY <1>2, <1>5, <2>1
  <2>3. x - n >= 0 /\ y - (PGSIZE - n) >= 0 /\ (x - n) + (y - (PGSIZE - n)) = m - PGSIZE
    BY <1>g, <2>2
  <2> QED
    BY <2>1, <2>3
<1>9. t.read = IF ph.filesz > 0 /\ u + PGSIZE < ph.vaddr + ph.filesz
               THEN (ph.vaddr + ph.filesz) - (u + PGSIZE) ELSE 0
  BY <1>1, <1>g, <1>2
<1>10. t.read > 0 => t.pos = ph.offset - ph.vaddr + (u + PGSIZE)
  BY <1>1, <1>g, <1>2
<1>11. ph.vaddr \div PGSIZE <= t.upage
  <2>1. ph.vaddr \div PGSIZE \in Int
    BY <1>1, <1>g
  <2> QED
    BY <1>1, <1>2, <2>1
<1>12. SegmentAt(t, ph)
  <2>1. t.read + t.zero = (EndPage(ph) - t.upage) * PGSIZE
    BY <1>5, <1>7, <1>8
  <2> QED
    <3>1. t.w = ph.w
      BY <1>2
    <3>2. t.read = IF ph.filesz > 0 /\ t.upage * PGSIZE < FileEnd(ph)
                   THEN FileEnd(ph) - t.upage * PGSIZE ELSE 0
      <4>1. PICK y \in Int : y = t.upage * PGSIZE /\ y = u + PGSIZE
        BY <1>g, <1>6
      <4>2. t.read = IF ph.filesz > 0 /\ y < FileEnd(ph) THEN FileEnd(ph) - y ELSE 0
        BY <1>9, <4>1, Zenon DEF FileEnd
      <4> QED
        BY <4>1, <4>2
    <3>3. t.read > 0 => t.pos = ph.offset - ph.vaddr + t.upage * PGSIZE
      BY <1>6, <1>10
    <3> QED
      BY <1>7, <1>8, <1>11, <2>1, <3>1, <3>2, <3>3 DEF SegmentAt
<1>13. s.upage \in SegmentPages(ph)
  <2>1. PICK a \in Int : a = ph.vaddr \div PGSIZE
    BY <1>1, <1>g
  <2>2. PICK e \in Int : e = (ph.vaddr + ph.memsz - 1) \div PGSIZE
    BY <1>1, <1>g
  <2>3. E = e + 1
    BY <1>E, <2>2 DEF EndPage
  <2> QED
    BY <1>1, <1>2, <1>l, <1>4, <2>1, <2>2, <2>3 DEF SegmentPages
<1>14. ASSUME NEW b \in 0..(PGSIZE - 1)
       PROVE  PageContents(s)[b] = SegmentByte(ph, s.upage * PGSIZE + b)
  <2>1. PageContents(s)[b] = IF b < s.read THEN s.pos + b + 1 ELSE 0
    BY DEF PageContents
  <2>2. SegmentByte(ph, u + b) = IF ph.filesz > 0 /\ u + b < ph.vaddr + ph.filesz
                                 THEN ph.offset + ((u + b) - ph.vaddr) + 1 ELSE 0
    BY <1>1, <1>g DEF SegmentByte
  <2>3. CASE b < s.read
    BY <1>1, <1>g, <1>2, <2>1, <2>2, <2>3, <1>u
  <2>4. CASE ~(b < s.read)
    <3>1. ~(ph.filesz > 0 /\ u + b < ph.vaddr + ph.filesz)
      BY <1>1, <1>g, <1>2, <2>4
    <3>2. SegmentByte(ph, u + b) = 0 /\ PageContents(s)[b] = 0
      BY <2>1, <2>2, <2>4, <3>1
    <3> QED
      BY <1>u, <3>2, Zenon
  <2> QED
    BY <2>3, <2>4
<1> QED
  BY <1>12, <1>13, <1>14

\* What a directory maps stays as it is, contents and all.
SameImage(d) ==
  \A v \in PageNos :
    /\ Mapped(d, v)' <=> Mapped(d, v)
    /\ Mapped(d, v) => /\ Entry(d, v)'.w = Entry(d, v).w
                       /\ bytes'[Entry(d, v)'.frame] = bytes[Entry(d, v).frame]

\* Then the pages of a segment stay right, and so do the pages in their places when there
\* are no more of these.
LEMMA PlacedKept ==
  ASSUME NEW p \in Procs, NEW d, d = pagedir[p], pagedir'[p] = d, exe'[p] = exe[p],
         SameImage(d), PagesPlaced(p), at'[p] = "loaded" <=> at[p] = "loaded",
         \A j, v : Placed(p, j, v)' <=> Placed(p, j, v)
  PROVE  PagesPlaced(p)'
<1>1. \A v : SomePlaced(p, v)' <=> SomePlaced(p, v)
  BY DEF SomePlaced
<1>2. \A v : Mapped(pagedir[p], v)' <=> Mapped(d, v)'
  BY DEF Mapped, HasEntry, Entry
<1>3. ASSUME NEW j, NEW v, Placed(p, j, v)'
      PROVE  v \in PageNos /\ Holds(pagedir[p], v, exe[p].phdrs[j])'
  <2>1. v \in PageNos /\ Holds(d, v, exe[p].phdrs[j])
    BY <1>3 DEF PagesPlaced
  <2>2. /\ Mapped(d, v)' /\ Entry(d, v)'.w = Entry(d, v).w
        /\ bytes'[Entry(d, v)'.frame] = bytes[Entry(d, v).frame]
    BY <2>1 DEF SameImage, Holds
  <2>3. Entry(pagedir[p], v)' = Entry(d, v)'
    BY DEF Entry
  <2>4. Mapped(pagedir[p], v)' /\ Entry(pagedir[p], v)'.w = exe'[p].phdrs[j].w
    BY <1>2, <2>1, <2>2, <2>3 DEF Holds
  <2>5. \A b \in 0..(PGSIZE - 1) :
          bytes'[Entry(pagedir[p], v)'.frame][b] = SegmentByte(exe'[p].phdrs[j], v * PGSIZE + b)
    BY <2>1, <2>2, <2>3 DEF Holds
  <2> QED
    BY <2>1, <2>4, <2>5 DEF Holds
<1>4. \A v \in PageNos :
        Mapped(pagedir[p], v)' <=> SomePlaced(p, v)' \/ (at'[p] = "loaded" /\ v = StackPage)
  BY <1>1, <1>2 DEF PagesPlaced, SameImage
<1>5. at'[p] = "loaded" => ~SomePlaced(p, StackPage)'
  BY <1>1 DEF PagesPlaced
<1> QED
  BY <1>3, <1>4, <1>5 DEF PagesPlaced

\* A program that is not at work keeps its image.
LEMMA ImageKept ==
  ASSUME NEW p \in Procs, NEW d, d = pagedir[p], pagedir'[p] = d, exe'[p] = exe[p],
         seg'[p] = seg[p], at'[p] = at[p], SameImage(d), PagesPlaced(p), HeadersRead(p)
  PROVE  PagesPlaced(p)' /\ HeadersRead(p)'
<1>1. \A j, v : Placed(p, j, v)' <=> Placed(p, j, v)
  BY DEF Placed
<1>2. PagesPlaced(p)'
  BY <1>1, PlacedKept
<1>3. HeadersRead(p)'
  BY DEF HeadersRead
<1> QED
  BY <1>2, <1>3

\* The frame of a page that is mapped is not free.
LEMMA FrameHeld ==
  ASSUME LoadingInv, NEW p \in Procs, NEW d, d = DirectoryOf(p), d # None, NEW v \in PageNos,
         Mapped(d, v)
  PROVE  Entry(d, v).frame \in UserPages /\ Entry(d, v).frame \notin free
<1>1. /\ pd_no(v) \in Tables /\ pt_no(v) \in Slots
      /\ FrameAt(p, pd_no(v), pt_no(v)) = Entry(d, v).frame /\ Entry(d, v).frame \in UserPages
  BY EntryCell
<1>2. FrameUse[<<p, pd_no(v), pt_no(v)>>] = Entry(d, v).frame
  BY <1>1, Uses DEF UsesNamed
<1>3. <<p, pd_no(v), pt_no(v)>> \in DOMAIN FrameUse
  BY <1>1, Uses DEF UsesNamed, Cells
<1>4. 0 \notin UserPages
  BY LoadingAssumption
<1> QED
  BY <1>1, <1>2, <1>3, <1>4 DEF LoadingInv, PagesRight, Owned

\* A program that loads has its directory.
LEMMA FillingDirectory ==
  ASSUME LoadingInv, NEW p \in Procs, at[p] \in Filling
  PROVE  pagedir[p] # None /\ pagedir[p] = DirectoryOf(p) /\ pagedir[p] \in KernelPages
  BY DEF LoadingInv, TypesRight, StagesRight, Directed, DirectoryOf, Filling

\* Nobody's image changes when the page tables and the frames stay, or a free frame is
\* written.
LEMMA QuietImage ==
  ASSUME LoadingInv, NEW p \in Procs, at[p] \in Filling, NEW d, d = pagedir[p],
         UNCHANGED <<pde, pte>>, \A f \in UserPages \ free : bytes'[f] = bytes[f]
  PROVE  SameImage(d)
<1>1. \A v : Mapped(d, v)' = Mapped(d, v) /\ Entry(d, v)' = Entry(d, v)
  BY DEF Mapped, HasEntry, Entry
<1>2. d # None /\ d = DirectoryOf(p)
  BY FillingDirectory
<1>3. \A v \in PageNos : Mapped(d, v) => Entry(d, v).frame \in UserPages \ free
  BY <1>2, FrameHeld
<1> QED
  BY <1>1, <1>3 DEF SameImage

\* Nor when an entry of somebody else is written.
LEMMA OthersEntry ==
  ASSUME LoadingInv, NEW p \in Procs, at[p] \in Filling, NEW d, d = pagedir[p],
         NEW q \in Procs, q # p, NEW k, k = DirectoryOf(q), k # None, NEW v \in PageNos, NEW e,
         SetEntry(k, v, e), UNCHANGED <<pde, bytes>>
  PROVE  SameImage(d)
<1>1. d # None /\ d = DirectoryOf(p)
  BY FillingDirectory
<1>t. PICK t : t = pde[k][pd_no(v)]
  OBVIOUS
<1>2. t = TableOf(q, pd_no(v)) /\ pd_no(v) \in Tables
  BY <1>t, EntryCell
<1>3. \A u \in KernelPages \ {t} : pte'[u] = pte[u]
  BY <1>t DEF SetEntry, LoadingInv, TypesRight
<1>4. ASSUME NEW w \in PageNos
      PROVE  /\ Mapped(d, w)' <=> Mapped(d, w)
             /\ Mapped(d, w) => Entry(d, w)' = Entry(d, w)
  <2>1. /\ pde[d][pd_no(w)] = TableOf(p, pd_no(w)) /\ pd_no(w) \in Tables
        /\ HasEntry(d, w) <=> TableOf(p, pd_no(w)) # 0
    BY <1>1, EntryCell
  <2>2. HasEntry(d, w)' <=> HasEntry(d, w)
    BY DEF HasEntry
  <2>3. HasEntry(d, w) => Entry(d, w)' = Entry(d, w)
    <3>1. SUFFICES ASSUME HasEntry(d, w) PROVE Entry(d, w)' = Entry(d, w)
      OBVIOUS
    <3>2. TableOf(p, pd_no(w)) \in KernelPages \ {t}
      BY <1>2, <2>1, <3>1, KernelDistinct
    <3> QED
      BY <1>3, <2>1, <3>2 DEF Entry
  <2> QED
    BY <2>2, <2>3 DEF Mapped
<1> QED
  BY <1>4 DEF SameImage

\* A step of p, which leaves what the others load alone.
LEMMA ImageOthers ==
  ASSUME ImageSoFar, NEW p \in Procs, ~panic', DOMAIN bytes' = UserPages,
         \A q \in Procs \ {p} : /\ at'[q] = at[q] /\ exe'[q] = exe[q] /\ seg'[q] = seg[q]
                                /\ pagedir'[q] = pagedir[q],
         \A q \in Procs \ {p} : at[q] \in Filling => \A d : d = pagedir[q] => SameImage(d),
         at'[p] = "load" => seg'[p].i = 1,
         at'[p] \in Filling => PagesPlaced(p)' /\ HeadersRead(p)'
  PROVE  ImageSoFar'
<1>1. ASSUME NEW q \in Procs, at'[q] \in Filling PROVE PagesPlaced(q)' /\ HeadersRead(q)'
  <2>1. CASE q = p
    BY <1>1, <2>1
  <2>2. CASE q # p
    <3>1. PICK d : d = pagedir[q]
      OBVIOUS
    <3>2. /\ PagesPlaced(q) /\ HeadersRead(q) /\ SameImage(d) /\ pagedir'[q] = d
          /\ at'[q] = at[q] /\ exe'[q] = exe[q] /\ seg'[q] = seg[q]
      BY <1>1, <2>2, <3>1 DEF ImageSoFar
    <3> QED
      BY <3>1, <3>2, ImageKept
  <2> QED
    BY <2>1, <2>2
<1>2. \A q \in Procs : at'[q] = "load" => seg'[q].i = 1
  BY DEF ImageSoFar
<1> QED
  BY <1>1, <1>2 DEF ImageSoFar

\* install_page() puts the entry in its place, and touches no other page.
LEMMA InstalledEntry ==
  ASSUME LoadingInv, NEW p \in Procs, NEW d, d = DirectoryOf(p), d # None, NEW v \in PageNos,
         NEW f \in UserPages, f \in free, NEW w \in BOOLEAN,
         Installable(d, v), Install(d, v, f, w), UNCHANGED <<thread_page, fn_copy>>,
         \A q \in Procs : DirectoryOf(q)' = DirectoryOf(q)
  PROVE  Mapped(d, v)' /\ Entry(d, v)'.frame = f /\ Entry(d, v)'.w = w
<1>e. PICK e : e = [NoPte EXCEPT !.p = TRUE, !.frame = f, !.w = w]
  OBVIOUS
<1>1. e \in Pte /\ e.p /\ e.frame = f /\ e.w = w
  BY <1>e DEF Pte, PteFields, NoPte
<1>2. pd_no(v) \in Tables /\ pt_no(v) \in Slots /\ d \in KernelPages
  BY EntryCell
<1>3. CASE HasEntry(d, v) /\ SetEntry(d, v, e) /\ UNCHANGED pde
  <2>1. Entry(d, v)' = e /\ HasEntry(d, v)'
    BY <1>1, <1>3, EntrySet
  <2> QED
    BY <1>1, <2>1 DEF Mapped
<1>t. PICK t : t = FirstFree(KernelPages)
  OBVIOUS
<1>4. CASE /\ ~HasEntry(d, v)
           /\ pde' = [pde EXCEPT ![d][pd_no(v)] = t]
           /\ pte' = [pte EXCEPT ![t] = [j \in Slots |-> IF j = pt_no(v) THEN e ELSE NoPte]]
  <2>1. t \in KernelPages /\ t # 0
    BY <1>t, <1>4, FirstFreeThere, LoadingAssumption DEF Installable
  <2>2. pde'[d][pd_no(v)] = t
    BY <1>2, <1>4 DEF LoadingInv, TypesRight
  <2>3. pte'[t][pt_no(v)] = e
    BY <1>2, <1>4, <2>1 DEF LoadingInv, TypesRight
  <2> QED
    BY <1>1, <2>1, <2>2, <2>3 DEF Mapped, HasEntry, Entry
<1> QED
  BY <1>e, <1>t, <1>3, <1>4 DEF Install, Slots

\* install_page() of page v of a program that loads, with a frame that has been filled.
Installs(p, d, v, f, w, c) ==
  /\ p \in Procs /\ at[p] \in Filling /\ d = pagedir[p] /\ v \in PageNos /\ w \in BOOLEAN
  /\ Available(UserPages) /\ f = FirstFree(UserPages)
  /\ DOMAIN bytes = UserPages /\ bytes' = [bytes EXCEPT ![f] = c]
  /\ Installable(d, v) /\ Install(d, v, f, w)
  /\ UNCHANGED <<thread_page, fn_copy, pagedir>>
  /\ \E x \in Filling : Goto(p, x)
  /\ \A q \in Procs \ {p} : seg'[q] = seg[q]

\* The directory has that page, with these contents, and all other pages of p and of the
\* others stay.
OnePageMore(p, d, v, w, c) ==
  /\ Mapped(d, v)' /\ Entry(d, v)'.w = w /\ bytes'[Entry(d, v)'.frame] = c
  /\ \A u \in PageNos \ {v} :
       /\ Mapped(d, u)' <=> Mapped(d, u)
       /\ Mapped(d, u) => /\ Entry(d, u)'.w = Entry(d, u).w
                          /\ bytes'[Entry(d, u)'.frame] = bytes[Entry(d, u).frame]
  /\ \A q \in Procs \ {p} : at[q] \in Filling => \A k : k = pagedir[q] => SameImage(k)
  /\ DOMAIN bytes' = UserPages

\* Of all the pages that are mapped only the new one is new.
LEMMA InstallImages ==
  ASSUME LoadingInv, NEW p, NEW d, NEW v, NEW f, NEW w, NEW c, Installs(p, d, v, f, w, c)
  PROVE  OnePageMore(p, d, v, w, c)
<1>0. /\ p \in Procs /\ at[p] \in Filling /\ d = pagedir[p] /\ v \in PageNos /\ w \in BOOLEAN
      /\ Available(UserPages) /\ f = FirstFree(UserPages)
      /\ DOMAIN bytes = UserPages /\ bytes' = [bytes EXCEPT ![f] = c]
      /\ Installable(d, v) /\ Install(d, v, f, w)
      /\ UNCHANGED <<thread_page, fn_copy, pagedir>>
      /\ \A q \in Procs \ {p} : seg'[q] = seg[q]
  BY DEF Installs
<1>x. PICK x \in Filling : Goto(p, x)
  BY DEF Installs
<1>1. d # None /\ d = DirectoryOf(p)
  BY <1>0, FillingDirectory
<1>2. f \in UserPages /\ f \in free
  BY <1>0, FirstFreeThere
<1>3. at'[p] = x /\ \A q \in Procs \ {p} : at'[q] = at[q]
  BY <1>0, <1>x DEF LoadingInv, TypesRight, Goto
<1>4. \A q \in Procs : DirectoryOf(q)' = DirectoryOf(q)
  BY <1>0, <1>3 DEF DirectoryOf, Filling
<1>5. /\ \A q \in Procs, u \in PageNos : \A k :
           k = DirectoryOf(q) /\ k # None /\ (q # p \/ u # v) =>
             /\ Mapped(k, u)' <=> Mapped(k, u)
             /\ Mapped(k, u) => Entry(k, u)' = Entry(k, u)
  BY <1>0, <1>1, <1>2, <1>4, InstallPages
<1>6. Mapped(d, v)' /\ Entry(d, v)'.frame = f /\ Entry(d, v)'.w = w
  BY <1>0, <1>1, <1>2, <1>4, InstalledEntry
<1>7. \A g \in UserPages : g # f => bytes'[g] = bytes[g]
  BY <1>0
<1>8. bytes'[f] = c /\ DOMAIN bytes' = UserPages
  BY <1>0, <1>2
<1>9. ASSUME NEW q \in Procs, NEW k, k = DirectoryOf(q), k # None, NEW u \in PageNos,
             q # p \/ u # v
      PROVE  /\ Mapped(k, u)' <=> Mapped(k, u)
             /\ Mapped(k, u) => /\ Entry(k, u)'.w = Entry(k, u).w
                                /\ bytes'[Entry(k, u)'.frame] = bytes[Entry(k, u).frame]
  <2>1. /\ Mapped(k, u)' <=> Mapped(k, u)
        /\ Mapped(k, u) => Entry(k, u)' = Entry(k, u)
    BY <1>5, <1>9
  <2>2. Mapped(k, u) => Entry(k, u).frame \in UserPages /\ Entry(k, u).frame # f
    BY <1>2, <1>9, FrameHeld
  <2> QED
    BY <1>7, <2>1, <2>2
<1>10. ASSUME NEW q \in Procs \ {p}, at[q] \in Filling, NEW k, k = pagedir[q]
       PROVE  SameImage(k)
  <2>1. k = DirectoryOf(q) /\ k # None
    BY <1>10, FillingDirectory
  <2> QED
    BY <1>0, <1>9, <1>10, <2>1 DEF SameImage
<1> QED
  BY <1>0, <1>1, <1>6, <1>8, <1>9, <1>10 DEF OnePageMore

\* pagedir_create() makes a directory without pages.
LEMMA LoadCreateImage ==
  ASSUME LoadingInv, SegmentsRight, ImageSoFar, NEW p \in Procs, LoadCreate(p)
  PROVE  ImageSoFar'
<1>1. /\ at[p] = "load" /\ UNCHANGED <<exe, seg, panic>> /\ seg[p].i = 1
      /\ DOMAIN bytes = UserPages /\ ~panic
  BY DEF LoadCreate, Running, ImageSoFar
<1>a. at \in [Procs -> Points] /\ pagedir \in [Procs -> KernelPages \cup {None}]
  BY DEF LoadingInv, TypesRight
<1>2. CASE Goto(p, "failed") /\ UNCHANGED <<memVars, pagedir>>
  <2>1. UNCHANGED <<pde, pte, bytes>>
    BY <1>2 DEF memVars
  <2>2. at'[p] = "failed" /\ \A q \in Procs \ {p} : at'[q] = at[q]
    BY <1>a, <1>2 DEF Goto
  <2>3. \A q \in Procs \ {p} : at[q] \in Filling => \A d : d = pagedir[q] => SameImage(d)
    BY <2>1, QuietImage
  <2> QED
    BY <1>1, <1>2, <2>1, <2>2, <2>3, ImageOthers DEF Filling
<1>3. CASE /\ Available(KernelPages)
           /\ pde' = [pde EXCEPT ![FirstFree(KernelPages)] = [i \in Tables |-> 0]]
           /\ pagedir' = [pagedir EXCEPT ![p] = FirstFree(KernelPages)]
           /\ Goto(p, IF exe[p].ok THEN "header" ELSE "failed")
           /\ UNCHANGED <<pte, bytes>>
  <2>d. PICK d : d = FirstFree(KernelPages)
    OBVIOUS
  <2>1. d \in free /\ d \in KernelPages
    BY <1>3, <2>d, FirstFreeThere
  <2>2. /\ pde' = [pde EXCEPT ![d] = [i \in Tables |-> 0]] /\ pagedir'[p] = d
        /\ at'[p] \in {"header", "failed"}
        /\ \A q \in Procs \ {p} : at'[q] = at[q] /\ pagedir'[q] = pagedir[q]
    BY <1>a, <1>3, <2>d DEF Goto
  <2>3. /\ \A i \in Tables : pde'[d][i] = 0
        /\ \A k \in KernelPages \ {d} : pde'[k] = pde[k]
    BY <2>1, <2>2 DEF LoadingInv, TypesRight
  <2>4. ASSUME NEW q \in Procs \ {p}, at[q] \in Filling, NEW k, k = pagedir[q]
        PROVE  SameImage(k)
    <3>1. k \in KernelPages \ {d}
      BY <2>1, <2>4, FillingDirectory, KernelDistinct
    <3>2. \A v : Mapped(k, v)' = Mapped(k, v) /\ Entry(k, v)' = Entry(k, v)
      BY <1>3, <2>3, <3>1 DEF Mapped, HasEntry, Entry
    <3> QED
      BY <1>3, <3>2 DEF SameImage
  <2>5. ASSUME at'[p] \in Filling PROVE PagesPlaced(p)' /\ HeadersRead(p)'
    <3>1. at'[p] = "header"
      BY <2>2, <2>5 DEF Filling
    <3>2. exe[p] \in Ehdr /\ exe'[p] = exe[p] /\ seg'[p].i = 1
      BY <1>1 DEF SegmentsRight, Naming
    <3>3. exe[p].phdrs \in Seq(Phdr)
      BY <3>2 DEF Ehdr
    <3>4. \A j, v : ~Placed(p, j, v)'
      BY <3>1, <3>2, <3>3 DEF Placed
    <3>5. \A v : ~SomePlaced(p, v)'
      BY <3>4 DEF SomePlaced
    <3>6. \A v \in PageNos : ~Mapped(pagedir[p], v)'
      BY <2>2, <2>3, Coordinates DEF Mapped, HasEntry
    <3>7. PagesPlaced(p)'
      BY <3>1, <3>4, <3>5, <3>6 DEF PagesPlaced
    <3> QED
      BY <3>1, <3>7 DEF HeadersRead
  <2>6. at'[p] # "load"
    BY <2>2
  <2> QED
    BY <1>1, <1>3, <2>2, <2>4, <2>5, <2>6, ImageOthers
<1> QED
  BY <1>2, <1>3 DEF LoadCreate

\* load() reads a program header.
LEMMA LoadHeaderImage ==
  ASSUME LoadingInv, SegmentsRight, ImageSoFar, NEW p \in Procs, LoadHeader(p)
  PROVE  ImageSoFar'
<1>x. PICK x : x = exe[p]
  OBVIOUS
<1>i. PICK i : i = seg[p].i
  OBVIOUS
<1>h. PICK ph : ph = x.phdrs[i]
  OBVIOUS
<1>d. PICK d : d = pagedir[p]
  OBVIOUS
<1>1. /\ at[p] = "header" /\ UNCHANGED <<exe, pde, pte, bytes, pagedir, panic>>
      /\ DOMAIN bytes = UserPages /\ ~panic
  BY DEF LoadHeader, Running, ImageSoFar, kernelVars, memVars
<1>2. /\ PagesPlaced(p) /\ x \in Ehdr /\ seg[p] \in SegFields /\ DOMAIN seg = Procs
      /\ at \in [Procs -> Points]
  BY <1>x, <1>1 DEF ImageSoFar, SegmentsRight, Filling, Naming
<1>3. x.phdrs \in Seq(Phdr) /\ i \in Nat \ {0}
  BY <1>i, <1>2 DEF Ehdr, SegFields
<1>4. \A q \in Procs : at[q] \in Filling => \A k : k = pagedir[q] => SameImage(k)
  BY <1>1, QuietImage
<1>5. SameImage(d)
  BY <1>d, <1>1, <1>4 DEF Filling
<1>6. CASE ((i > Len(x.phdrs) /\ Goto(p, "stack")) \/ Goto(p, "failed")) /\ UNCHANGED seg
  <2>1. /\ (at'[p] = "stack" /\ i > Len(x.phdrs)) \/ at'[p] = "failed"
        /\ \A q \in Procs \ {p} : at'[q] = at[q]
    BY <1>2, <1>6 DEF Goto
  <2>2. ASSUME at'[p] = "stack" PROVE PagesPlaced(p)' /\ HeadersRead(p)'
    <3>1. \A j, v : Placed(p, j, v)' <=> Placed(p, j, v)
      BY <1>1, <1>6, <2>2 DEF Placed
    <3>2. PagesPlaced(p)'
      BY <1>d, <1>1, <1>2, <1>5, <2>2, <3>1, PlacedKept
    <3> QED
      BY <1>x, <1>i, <1>1, <1>6, <2>1, <2>2, <3>2 DEF HeadersRead
  <2> QED
    BY <1>1, <1>4, <1>6, <2>1, <2>2, ImageOthers DEF Filling
<1>7. CASE ph.type = "ignore" /\ seg' = [seg EXCEPT ![p].i = i + 1] /\ UNCHANGED at
  <2>1. seg'[p].i = i + 1 /\ \A q \in Procs \ {p} : seg'[q] = seg[q]
    BY <1>2, <1>7 DEF SegFields
  <2>2. \A j, v : Placed(p, j, v)' <=> Placed(p, j, v)
    <3> SUFFICES ASSUME NEW j, NEW v, j \in DOMAIN x.phdrs, x.phdrs[j].type = "load"
                 PROVE  j < i + 1 <=> j < i
      BY <1>x, <1>i, <1>1, <1>7, <2>1 DEF Placed
    <3>1. j \in Nat /\ j # i
      BY <1>h, <1>3, <1>7
    <3> QED
      BY <1>3, <3>1
  <2>3. PagesPlaced(p)'
    BY <1>d, <1>1, <1>2, <1>5, <1>7, <2>2, PlacedKept
  <2>4. HeadersRead(p)' /\ at'[p] = "header"
    BY <1>1, <1>7 DEF HeadersRead
  <2> QED
    BY <1>1, <1>4, <1>7, <2>1, <2>3, <2>4, ImageOthers
<1>8. CASE /\ i <= Len(x.phdrs) /\ ph.type = "load" /\ ValidateSegment(x, ph)
           /\ seg' = [seg EXCEPT ![p] = SegmentOf(i, ph)] /\ Goto(p, "segment")
  <2>s. PICK s : s = SegmentOf(i, ph)
    OBVIOUS
  <2>1. /\ seg'[p] = s /\ at'[p] = "segment"
        /\ \A q \in Procs \ {p} : seg'[q] = seg[q] /\ at'[q] = at[q]
    BY <1>2, <1>8, <2>s DEF Goto
  <2>2. i \in DOMAIN x.phdrs /\ ph \in Phdr
    BY <1>h, <1>3, <1>8
  <2>3. SegmentAt(s, ph) /\ s.i = i /\ s.upage = ph.vaddr \div PGSIZE
    BY <1>2, <1>8, <2>s, <2>2, SegmentStart
  <2>4. SegmentPages(ph) \subseteq PageNos
    BY <1>2, <1>8, <2>2, ValidPages
  <2>5. HeadersRead(p)'
    BY <1>x, <1>h, <1>1, <1>8, <2>1, <2>2, <2>3, <2>4 DEF HeadersRead
  <2>6. \A v \in SegmentPages(ph) : ~(v < s.upage)
    <3>1. ph.vaddr \div PGSIZE \in Int
      BY <2>2, LoadingAssumption DEF Phdr, Elf32_Word
    <3> QED
      BY <2>3, <3>1 DEF SegmentPages
  <2>7. \A j, v : Placed(p, j, v)' <=> Placed(p, j, v)
    BY <1>x, <1>i, <1>h, <1>1, <2>1, <2>3, <2>6 DEF Placed
  <2>8. PagesPlaced(p)'
    BY <1>d, <1>1, <1>2, <1>5, <2>1, <2>7, PlacedKept
  <2> QED
    BY <1>1, <1>4, <2>1, <2>5, <2>8, ImageOthers
<1> QED
  BY <1>x, <1>i, <1>h, <1>6, <1>7, <1>8 DEF LoadHeader

\* load_segment() loads a page, or has loaded all of them.
LEMMA LoadPageImage ==
  ASSUME LoadingInv, SegmentsRight, ImageSoFar, NEW p \in Procs, LoadPage(p)
  PROVE  ImageSoFar'
<1>x. PICK x : x = exe[p]
  OBVIOUS
<1>s. PICK s : s = seg[p]
  OBVIOUS
<1>h. PICK ph : ph = x.phdrs[s.i]
  OBVIOUS
<1>d. PICK d : d = pagedir[p]
  OBVIOUS
<1>f. PICK f : f = FirstFree(UserPages)
  OBVIOUS
<1>n. PICK n : n = IF s.read < PGSIZE THEN s.read ELSE PGSIZE
  OBVIOUS
<1>1. /\ at[p] = "segment" /\ UNCHANGED <<exe, thread_page, fn_copy, pagedir>>
      /\ DOMAIN bytes = UserPages /\ ~panic
  BY DEF LoadPage, Running, ImageSoFar
<1>2. /\ PagesPlaced(p) /\ HeadersRead(p) /\ x \in Ehdr /\ s \in SegFields
      /\ DOMAIN seg = Procs /\ at \in [Procs -> Points]
  BY <1>x, <1>s, <1>1 DEF ImageSoFar, SegmentsRight, Filling, Naming
<1>3. /\ s.i \in DOMAIN x.phdrs /\ ph.type = "load" /\ SegmentPages(ph) \subseteq PageNos
      /\ SegmentAt(s, ph)
  BY <1>x, <1>s, <1>h, <1>1, <1>2 DEF HeadersRead
<1>4. /\ x.phdrs \in Seq(Phdr) /\ ph \in Phdr /\ PGSIZE \in Nat \ {0}
      /\ s.read \in Int /\ s.zero \in Int /\ s.upage \in Int /\ s.pos \in Int /\ s.i \in Nat \ {0}
      /\ s.w \in BOOLEAN
  BY <1>h, <1>2, <1>3, WholePages DEF Ehdr, SegFields
<1>5. n \in Int
  BY <1>n, <1>4
<1>t. PICK t : t = [i |-> s.i, upage |-> s.upage + 1, pos |-> s.pos + n, read |-> s.read - n,
                    zero |-> s.zero - (PGSIZE - n), w |-> s.w]
  OBVIOUS
<1>6. t \in SegFields
  <2>1. /\ s.upage + 1 \in Int /\ s.pos + n \in Int /\ s.read - n \in Int
        /\ s.zero - (PGSIZE - n) \in Int
    BY <1>4, <1>5
  <2> QED
    BY <1>t, <1>4, <2>1 DEF SegFields
<1>7. /\ t.w = s.w /\ t.read = s.read - n /\ t.zero = s.zero - (PGSIZE - n)
      /\ t.upage = s.upage + 1 /\ t.pos = s.pos + n /\ t.i = s.i
  BY <1>t
<1>8. ASSUME s.read > 0 \/ s.zero > 0
      PROVE  /\ SegmentAt(t, ph) /\ s.upage \in SegmentPages(ph) /\ s.upage \in PageNos
             /\ \A b \in 0..(PGSIZE - 1) :
                  PageContents(s)[b] = SegmentByte(ph, s.upage * PGSIZE + b)
  <2>1. /\ SegmentAt(t, ph) /\ s.upage \in SegmentPages(ph)
        /\ \A b \in 0..(PGSIZE - 1) :
             PageContents(s)[b] = SegmentByte(ph, s.upage * PGSIZE + b)
    BY <1>n, <1>2, <1>3, <1>4, <1>6, <1>7, <1>8, SegmentNext
  <2> QED
    BY <1>3, <2>1
<1>9. CASE /\ s.read = 0 /\ s.zero = 0 /\ Goto(p, "header")
           /\ seg' = [seg EXCEPT ![p] = [NoSeg EXCEPT !.i = s.i + 1]]
           /\ UNCHANGED <<memVars, panic>>
  <2>1. UNCHANGED <<pde, pte, bytes>>
    BY <1>9 DEF memVars
  <2>2. /\ at'[p] = "header" /\ seg'[p].i = s.i + 1
        /\ \A q \in Procs \ {p} : at'[q] = at[q] /\ seg'[q] = seg[q]
    <3>1. [NoSeg EXCEPT !.i = s.i + 1].i = s.i + 1
      BY DEF NoSeg
    <3> QED
      BY <1>2, <1>9, <3>1 DEF Goto
  <2>3. \A q \in Procs : at[q] \in Filling => \A k : k = pagedir[q] => SameImage(k)
    BY <2>1, QuietImage
  <2>4. SameImage(d)
    BY <1>d, <1>1, <2>3 DEF Filling
  <2>5. \A v \in SegmentPages(ph) : v < s.upage
    <3>1. PICK e \in Int : e = (ph.vaddr + ph.memsz - 1) \div PGSIZE
      BY <1>4, LoadingAssumption DEF Phdr, Elf32_Word
    <3>2. PICK l \in Int : l = EndPage(ph) - s.upage /\ EndPage(ph) = e + 1
      BY <1>4, <3>1 DEF EndPage
    <3>3. l * PGSIZE = 0 /\ s.upage <= e + 1
      BY <1>3, <1>9, <3>2 DEF SegmentAt
    <3>4. l = 0
      BY <1>4, <3>3
    <3>5. s.upage = e + 1
      BY <1>4, <3>2, <3>4
    <3>6. ph.vaddr \div PGSIZE \in Int
      BY <1>4, LoadingAssumption DEF Phdr, Elf32_Word
    <3> QED
      BY <3>1, <3>5, <3>6 DEF SegmentPages
  <2>6. \A j, v : Placed(p, j, v)' <=> Placed(p, j, v)
    <3> SUFFICES ASSUME NEW j \in DOMAIN x.phdrs, NEW v \in SegmentPages(x.phdrs[j])
                 PROVE  j < s.i + 1 <=> j < s.i \/ (j = s.i /\ v < s.upage)
      BY <1>x, <1>s, <1>1, <2>2 DEF Placed
    <3>1. j \in Nat
      BY <1>4
    <3>2. j = s.i => v < s.upage
      BY <1>h, <2>5
    <3> QED
      BY <1>4, <3>1, <3>2
  <2>7. PagesPlaced(p)'
    BY <1>d, <1>1, <1>2, <2>2, <2>4, <2>6, PlacedKept
  <2>8. HeadersRead(p)'
    BY <2>2 DEF HeadersRead
  <2> QED
    BY <1>1, <1>9, <2>1, <2>2, <2>3, <2>7, <2>8, ImageOthers
<1>10. CASE /\ Goto(p, "failed") /\ UNCHANGED <<seg, pde, pte, panic>>
            /\ bytes' = bytes \/ (Available(UserPages) /\ bytes' = [bytes EXCEPT ![f] = PageContents(s)])
  <2>1. at'[p] = "failed" /\ \A q \in Procs \ {p} : at'[q] = at[q]
    BY <1>2, <1>10 DEF Goto
  <2>2. DOMAIN bytes' = UserPages /\ \A g \in UserPages \ free : bytes'[g] = bytes[g]
    <3>1. Available(UserPages) => f \in free
      BY <1>f, FirstFreeThere
    <3> QED
      BY <1>1, <1>10, <3>1
  <2>3. \A q \in Procs : at[q] \in Filling => \A k : k = pagedir[q] => SameImage(k)
    BY <1>10, <2>2, QuietImage
  <2> QED
    BY <1>1, <1>10, <2>1, <2>2, <2>3, ImageOthers DEF Filling
<1>11. CASE /\ s.read > 0 \/ s.zero > 0
            /\ Available(UserPages) /\ bytes' = [bytes EXCEPT ![f] = PageContents(s)]
            /\ Installable(d, s.upage) /\ Install(d, s.upage, f, s.w)
            /\ seg' = [seg EXCEPT ![p].read = @ - n, ![p].zero = @ - (PGSIZE - n),
                                  ![p].upage = @ + 1, ![p].pos = @ + n]
            /\ UNCHANGED <<at, panic>>
  <2>c. PICK c : c = PageContents(s)
    OBVIOUS
  <2>v. PICK v \in PageNos : v = s.upage
    BY <1>8, <1>11
  <2>1. /\ SegmentAt(t, ph) /\ v \in SegmentPages(ph)
        /\ \A b \in 0..(PGSIZE - 1) : c[b] = SegmentByte(ph, v * PGSIZE + b)
    BY <1>8, <1>11, <2>c, <2>v
  <2>2. seg'[p] = t /\ \A q \in Procs \ {p} : seg'[q] = seg[q]
    <3>1. seg'[p] = [s EXCEPT !.read = @ - n, !.zero = @ - (PGSIZE - n), !.upage = @ + 1,
                              !.pos = @ + n]
      BY <1>s, <1>2, <1>11
    <3>2. seg'[p] = t
      BY <1>t, <1>2, <3>1 DEF SegFields
    <3> QED
      BY <1>2, <1>11, <3>2
  <2>3. /\ Mapped(d, v)' /\ Entry(d, v)'.w = s.w /\ bytes'[Entry(d, v)'.frame] = c
        /\ \A u \in PageNos \ {v} :
             /\ Mapped(d, u)' <=> Mapped(d, u)
             /\ Mapped(d, u) => /\ Entry(d, u)'.w = Entry(d, u).w
                                /\ bytes'[Entry(d, u)'.frame] = bytes[Entry(d, u).frame]
        /\ \A q \in Procs \ {p} : at[q] \in Filling => \A k : k = pagedir[q] => SameImage(k)
        /\ DOMAIN bytes' = UserPages
    <3>1. PICK y \in Filling : Goto(p, y) /\ at[p] \in Filling
      BY <1>1, <1>2, <1>11 DEF Goto, Filling
    <3>w. PICK w \in BOOLEAN : w = s.w
      BY <1>4
    <3>2. Installs(p, d, v, f, w, c)
      BY <1>d, <1>f, <1>1, <1>11, <2>c, <2>v, <2>2, <3>1, <3>w DEF Installs
    <3>3. OnePageMore(p, d, v, w, c)
      BY <3>2, InstallImages
    <3> QED
      BY <3>w, <3>3 DEF OnePageMore
  <2>4. /\ \A u : Mapped(pagedir[p], u)' <=> Mapped(d, u)'
        /\ \A u : Entry(pagedir[p], u)' = Entry(d, u)'
    BY <1>d, <1>1 DEF Mapped, HasEntry, Entry
  <2>5. ASSUME NEW j, NEW u
        PROVE  Placed(p, j, u)' <=> Placed(p, j, u) \/ (j = s.i /\ u = v)
    <3>1. Placed(p, j, u)' <=> /\ j \in DOMAIN x.phdrs /\ x.phdrs[j].type = "load"
                               /\ u \in SegmentPages(x.phdrs[j])
                               /\ j < s.i \/ (j = s.i /\ u < s.upage + 1)
      BY <1>x, <1>1, <1>7, <1>11, <2>2 DEF Placed
    <3>2. Placed(p, j, u) <=> /\ j \in DOMAIN x.phdrs /\ x.phdrs[j].type = "load"
                              /\ u \in SegmentPages(x.phdrs[j])
                              /\ j < s.i \/ (j = s.i /\ u < s.upage)
      BY <1>x, <1>s, <1>1 DEF Placed
    <3>3. CASE j = s.i
      <4>1. u \in SegmentPages(ph) => u \in Int
        <5>1. SegmentPages(ph) \subseteq Int
          BY DEF SegmentPages
        <5> QED
          BY <5>1
      <4>2. u \in SegmentPages(ph) => (u < s.upage + 1 <=> u < s.upage \/ u = v)
        BY <1>4, <2>v, <4>1
      <4> QED
        BY <1>h, <1>3, <2>1, <3>1, <3>2, <3>3, <4>2
    <3>4. CASE j # s.i
      BY <3>1, <3>2, <3>4
    <3> QED
      BY <3>3, <3>4
  <2>6. \A u : SomePlaced(p, u)' <=> SomePlaced(p, u) \/ u = v
    BY <1>x, <1>1, <1>3, <2>5 DEF SomePlaced
  <2>7. ~Mapped(d, v)
    BY <1>11, <2>v DEF Installable
  <2>8. ASSUME NEW u \in PageNos
        PROVE  Mapped(pagedir[p], u)' <=> SomePlaced(p, u)' \/ (at'[p] = "loaded" /\ u = StackPage)
    <3>1. CASE u = v
      BY <2>3, <2>4, <2>6, <3>1
    <3>2. CASE u # v
      <4>1. Mapped(pagedir[p], u)' <=> Mapped(d, u)
        BY <2>3, <2>4, <3>2
      <4>2. Mapped(d, u) <=> SomePlaced(p, u)
        BY <1>d, <1>1, <1>2 DEF PagesPlaced
      <4> QED
        BY <1>1, <1>11, <2>6, <3>2, <4>1, <4>2
    <3> QED
      BY <3>1, <3>2
  <2>9. ASSUME NEW j, NEW u, Placed(p, j, u)'
        PROVE  u \in PageNos /\ Holds(pagedir[p], u, exe[p].phdrs[j])'
    <3>1. CASE Placed(p, j, u)
      <4>1. u \in PageNos /\ Holds(d, u, x.phdrs[j])
        BY <1>x, <1>d, <1>2, <3>1 DEF PagesPlaced
      <4>2. u # v
        BY <2>7, <4>1 DEF Holds
      <4>3. /\ Mapped(pagedir[p], u)' /\ Entry(pagedir[p], u)'.w = Entry(d, u).w
            /\ bytes'[Entry(pagedir[p], u)'.frame] = bytes[Entry(d, u).frame]
        BY <2>3, <2>4, <4>1, <4>2 DEF Holds
      <4> QED
        BY <1>x, <1>1, <4>1, <4>3 DEF Holds
    <3>2. CASE j = s.i /\ u = v
      <4>1. exe'[p].phdrs[j] = ph /\ s.w = ph.w
        BY <1>x, <1>h, <1>1, <1>3, <3>2 DEF SegmentAt
      <4>2. /\ Mapped(pagedir[p], u)' /\ Entry(pagedir[p], u)'.w = ph.w
            /\ bytes'[Entry(pagedir[p], u)'.frame] = c
        BY <2>3, <2>4, <3>2, <4>1
      <4> QED
        BY <2>1, <3>2, <4>1, <4>2 DEF Holds
    <3> QED
      BY <2>5, <2>9, <3>1, <3>2
  <2>10. PagesPlaced(p)'
    <3>1. at'[p] # "loaded"
      BY <1>1, <1>11
    <3> QED
      BY <2>8, <2>9, <3>1 DEF PagesPlaced
  <2>11. HeadersRead(p)'
    BY <1>x, <1>h, <1>1, <1>3, <1>7, <1>11, <2>1, <2>2 DEF HeadersRead
  <2> QED
    BY <1>1, <1>11, <2>2, <2>3, <2>10, <2>11, ImageOthers
<1> QED
  BY <1>s, <1>d, <1>f, <1>n, <1>8, <1>9, <1>10, <1>11 DEF LoadPage, memVars, GivenBack

\* setup_stack() adds the stack to the pages of the segments.
LEMMA SetupStackImage ==
  ASSUME LoadingInv, SegmentsRight, ImageSoFar, NEW p \in Procs, SetupStack(p)
  PROVE  ImageSoFar'
<1>d. PICK d : d = pagedir[p]
  OBVIOUS
<1>f. PICK f : f = FirstFree(UserPages)
  OBVIOUS
<1>1. /\ at[p] = "stack" /\ UNCHANGED <<exe, thread_page, fn_copy, pagedir, seg, panic>>
      /\ DOMAIN bytes = UserPages /\ ~panic
  BY DEF SetupStack, Running, ImageSoFar
<1>2. PagesPlaced(p) /\ HeadersRead(p) /\ at \in [Procs -> Points]
  BY <1>1 DEF ImageSoFar, SegmentsRight, Filling
<1>3. CASE Goto(p, "failed") /\ UNCHANGED <<pde, pte, bytes>>
  <2>1. at'[p] = "failed" /\ \A q \in Procs \ {p} : at'[q] = at[q]
    BY <1>2, <1>3 DEF Goto
  <2>2. \A q \in Procs : at[q] \in Filling => \A k : k = pagedir[q] => SameImage(k)
    BY <1>3, QuietImage
  <2> QED
    BY <1>1, <1>3, <2>1, <2>2, ImageOthers DEF Filling
<1>c. PICK c : c = [b \in 0..(PGSIZE - 1) |-> 0]
  OBVIOUS
<1>4. CASE /\ Available(UserPages) /\ Installable(d, StackPage) /\ bytes' = [bytes EXCEPT ![f] = c]
           /\ Install(d, StackPage, f, TRUE) /\ Goto(p, "loaded")
  <2>v. PICK v \in PageNos : v = StackPage
    BY Coordinates
  <2>1. at'[p] = "loaded" /\ \A q \in Procs \ {p} : at'[q] = at[q]
    BY <1>2, <1>4 DEF Goto
  <2>2. OnePageMore(p, d, v, TRUE, c)
    <3>1. \E y \in Filling : Goto(p, y)
      BY <1>4 DEF Filling
    <3>2. Installs(p, d, v, f, TRUE, c)
      BY <1>d, <1>f, <1>1, <1>4, <2>v, <3>1 DEF Installs, Filling
    <3> QED
      BY <3>2, InstallImages
  <2>3. /\ \A u : Mapped(pagedir[p], u)' <=> Mapped(d, u)'
        /\ \A u : Entry(pagedir[p], u)' = Entry(d, u)'
    BY <1>d, <1>1 DEF Mapped, HasEntry, Entry
  <2>4. \A j, u : Placed(p, j, u)' <=> Placed(p, j, u)
    BY <1>1, <2>1 DEF Placed
  <2>5. \A u : SomePlaced(p, u)' <=> SomePlaced(p, u)
    BY <1>1, <2>4 DEF SomePlaced
  <2>6. ~Mapped(d, v) /\ ~SomePlaced(p, v)
    BY <1>d, <1>1, <1>2, <1>4, <2>v DEF Installable, PagesPlaced
  <2>7. ASSUME NEW u \in PageNos
        PROVE  Mapped(pagedir[p], u)' <=> SomePlaced(p, u)' \/ u = StackPage
    <3>1. CASE u = v
      BY <2>v, <2>2, <2>3, <3>1 DEF OnePageMore
    <3>2. CASE u # v
      <4>1. Mapped(pagedir[p], u)' <=> Mapped(d, u)
        BY <2>2, <2>3, <3>2 DEF OnePageMore
      <4>2. Mapped(d, u) <=> SomePlaced(p, u)
        BY <1>d, <1>1, <1>2 DEF PagesPlaced
      <4> QED
        BY <2>v, <2>5, <3>2, <4>1, <4>2
    <3> QED
      BY <3>1, <3>2
  <2>8. ASSUME NEW j, NEW u, Placed(p, j, u)'
        PROVE  u \in PageNos /\ Holds(pagedir[p], u, exe[p].phdrs[j])'
    <3>1. u \in PageNos /\ Holds(d, u, exe[p].phdrs[j])
      BY <1>d, <1>2, <2>4, <2>8 DEF PagesPlaced
    <3>2. u # v
      BY <2>6, <3>1 DEF Holds
    <3>3. /\ Mapped(pagedir[p], u)' /\ Entry(pagedir[p], u)'.w = Entry(d, u).w
          /\ bytes'[Entry(pagedir[p], u)'.frame] = bytes[Entry(d, u).frame]
      BY <2>2, <2>3, <3>1, <3>2 DEF OnePageMore, Holds
    <3> QED
      BY <1>1, <3>1, <3>3 DEF Holds
  <2>9. PagesPlaced(p)'
    BY <2>v, <2>1, <2>5, <2>6, <2>7, <2>8 DEF PagesPlaced
  <2>10. HeadersRead(p)'
    BY <1>1, <1>2, <2>1 DEF HeadersRead
  <2>11. /\ DOMAIN bytes' = UserPages
         /\ \A q \in Procs \ {p} : at[q] \in Filling => \A k : k = pagedir[q] => SameImage(k)
    BY <2>2 DEF OnePageMore
  <2> QED
    BY <1>1, <2>1, <2>9, <2>10, <2>11, ImageOthers
<1> QED
  BY <1>d, <1>f, <1>c, <1>3, <1>4 DEF SetupStack, memVars, GivenBack

\* p is not loading, and neither does it begin to fill a directory; it may write an entry
\* of its own page tables.
LEMMA ElsewhereImage ==
  ASSUME LoadingInv, ImageSoFar, NEW p \in Procs, ~panic', bytes' = bytes, pde' = pde,
         \A q \in Procs \ {p} : /\ at'[q] = at[q] /\ exe'[q] = exe[q] /\ seg'[q] = seg[q]
                                /\ pagedir'[q] = pagedir[q],
         at'[p] \notin Filling, at'[p] = "load" => seg'[p].i = 1,
         \/ pte' = pte
         \/ \E v \in PageNos : \E e : DirectoryOf(p) # None /\ SetEntry(DirectoryOf(p), v, e)
  PROVE  ImageSoFar'
<1>1. DOMAIN bytes' = UserPages
  BY DEF ImageSoFar
<1>2. ASSUME NEW q \in Procs \ {p}, at[q] \in Filling, NEW k, k = pagedir[q]
      PROVE  SameImage(k)
  <2>1. CASE pte' = pte
    BY <1>2, <2>1, QuietImage
  <2>2. CASE \E v \in PageNos : \E e : DirectoryOf(p) # None /\ SetEntry(DirectoryOf(p), v, e)
    <3>1. PICK v \in PageNos : \E e : DirectoryOf(p) # None /\ SetEntry(DirectoryOf(p), v, e)
      BY <2>2
    <3>2. PICK e : DirectoryOf(p) # None /\ SetEntry(DirectoryOf(p), v, e)
      BY <3>1
    <3>3. PICK m : m = DirectoryOf(p)
      OBVIOUS
    <3>4. SetEntry(m, v, e) /\ m # None
      BY <3>2, <3>3
    <3> QED
      BY <1>2, <3>3, <3>4, OthersEntry
  <2> QED
    BY <2>1, <2>2
<1> QED
  BY <1>1, <1>2, ImageOthers

\* Nothing happens to any program.
LEMMA StillImage ==
  ASSUME LoadingInv, ImageSoFar, UNCHANGED <<at, exe, seg, pagedir, pde, pte, bytes, panic>>
  PROVE  ImageSoFar'
<1>1. ASSUME NEW q \in Procs, at'[q] \in Filling PROVE PagesPlaced(q)' /\ HeadersRead(q)'
  <2>1. PICK d : d = pagedir[q]
    OBVIOUS
  <2>2. SameImage(d)
    BY <1>1, <2>1, QuietImage
  <2>3. PagesPlaced(q) /\ HeadersRead(q)
    BY <1>1 DEF ImageSoFar
  <2> QED
    BY <2>1, <2>2, <2>3, ImageKept
<1> QED
  BY <1>1 DEF ImageSoFar

\* thread_schedule_tail().
LEMMA SwitchImage ==
  ASSUME LoadingInv, ImageSoFar, NEW t \in Procs \cup {Main}, Switch(t)
  PROVE  ImageSoFar'
<1>1. UNCHANGED <<exe, pde, pte, bytes, pagedir, seg, panic>> /\ ~panic
  BY DEF Switch
<1>2. CASE UNCHANGED at
  BY <1>1, <1>2, StillImage
<1>3. CASE Dying(cur) /\ Goto(cur, "none")
  <2>p. PICK p \in Procs : p = cur
    BY <1>3 DEF Dying
  <2>1. at'[p] = "none" /\ \A q \in Procs \ {p} : at'[q] = at[q]
    BY <1>3, <2>p DEF Goto, LoadingInv, TypesRight
  <2> QED
    BY <1>1, <2>1, ElsewhereImage DEF Filling
<1> QED
  BY <1>2, <1>3 DEF Switch

\* process_execute().
LEMMA ProcessExecuteImage ==
  ASSUME LoadingInv, SegmentsRight, ImageSoFar, NEW p \in Procs, NEW x, ProcessExecute(p, x)
  PROVE  ImageSoFar'
<1>1. /\ UNCHANGED <<pde, pte, bytes, pagedir, panic>> /\ ~panic
      /\ exe' = [exe EXCEPT ![p] = x] /\ seg' = [seg EXCEPT ![p] = [NoSeg EXCEPT !.i = 1]]
      /\ Goto(p, "load")
  BY DEF ProcessExecute
<1>2. [NoSeg EXCEPT !.i = 1].i = 1
  BY DEF NoSeg
<1>3. /\ at'[p] = "load" /\ seg'[p].i = 1
      /\ \A q \in Procs \ {p} : at'[q] = at[q] /\ exe'[q] = exe[q] /\ seg'[q] = seg[q]
  BY <1>1, <1>2 DEF Goto, SegmentsRight
<1> QED
  BY <1>1, <1>3, ElsewhereImage DEF Filling

\* Steps that take a program from load() to user mode, or to its end.
LEMMA LeavingImage ==
  ASSUME LoadingInv, ImageSoFar, NEW p \in Procs,
         \/ StartProcess(p) \/ ThreadExit(p)
         \/ ExitForget(p) \/ ExitLeave(p) \/ ExitDestroy(p)
  PROVE  ImageSoFar'
<1>1. /\ \E y \in {"user", "exit", "forgot", "left", "dying"} : Goto(p, y)
      /\ UNCHANGED <<exe, pde, pte, bytes, panic>> /\ ~panic
      /\ pagedir' = pagedir \/ pagedir' = [pagedir EXCEPT ![p] = None]
      /\ seg' = seg \/ \E s : seg' = [seg EXCEPT ![p] = s]
  <2>1. CASE StartProcess(p)
    BY <2>1 DEF StartProcess, Running
  <2>2. CASE ThreadExit(p)
    BY <2>2 DEF ThreadExit, Running, memVars
  <2>3. CASE ExitForget(p)
    BY <2>3 DEF ExitForget, Running, memVars, Forgotten
  <2>4. CASE ExitLeave(p)
    BY <2>4 DEF ExitLeave, Running, memVars
  <2>5. CASE ExitDestroy(p)
    BY <2>5 DEF ExitDestroy, Running
  <2> QED
    BY <2>1, <2>2, <2>3, <2>4, <2>5
<1>2. /\ at'[p] \in {"user", "exit", "forgot", "left", "dying"}
      /\ \A q \in Procs \ {p} : at'[q] = at[q] /\ seg'[q] = seg[q] /\ pagedir'[q] = pagedir[q]
  BY <1>1 DEF Goto, LoadingInv, TypesRight
<1> QED
  BY <1>1, <1>2, ElsewhereImage DEF Filling

\* User code and the callers of pagedir.c write entries of a program in user mode.
LEMMA UserImage ==
  ASSUME LoadingInv, ImageSoFar, NEW p \in Procs, NEW v \in Touched,
         \/ \E write \in BOOLEAN : Access(p, v, write)
         \/ TakePage(p, v) \/ \E bit \in {"a", "d"} : ResetBit(p, v, bit)
  PROVE  ImageSoFar'
<1>1. v \in PageNos
  BY LoadingAssumption DEF PageNos
<1>2. /\ at[p] = "user" /\ UNCHANGED <<at, exe, pde, bytes, pagedir, seg, panic>> /\ ~panic
  BY DEF Access, TakePage, ResetBit, Running
<1>3. pagedir[p] # None /\ DirectoryOf(p) = pagedir[p]
  BY <1>2 DEF LoadingInv, StagesRight, Directed, DirectoryOf
<1>4. pte' = pte \/ \E e : SetEntry(DirectoryOf(p), v, e)
  <2>1. CASE \E write \in BOOLEAN : Access(p, v, write)
    <3>1. cur = p
      BY <2>1 DEF Access, Running
    <3>2. cr3 = pagedir[p]
      BY <1>3, <3>1 DEF LoadingInv, CpuRight
    <3>3. pte' = pte \/ \E e : SetEntry(cr3, v, e)
      BY <2>1 DEF Access
    <3> QED
      BY <1>3, <3>2, <3>3
  <2>2. CASE TakePage(p, v) \/ \E bit \in {"a", "d"} : ResetBit(p, v, bit)
    <3>1. \E e : SetEntry(pagedir[p], v, e)
      BY <2>2 DEF TakePage, ResetBit
    <3> QED
      BY <1>3, <3>1
  <2> QED
    BY <2>1, <2>2
<1>5. \/ pte' = pte
      \/ \E u \in PageNos : \E e : DirectoryOf(p) # None /\ SetEntry(DirectoryOf(p), u, e)
  BY <1>1, <1>3, <1>4
<1> QED
  BY <1>2, <1>5, ElsewhereImage DEF Filling

\* What load() has put together so far is right, in every behaviour.
LEMMA ImageInvariant == Spec => []ImageSoFar
<1>1. Init => ImageSoFar
  BY DEF Init, ImageSoFar, Filling
<1>2. LoadingInv /\ SegmentsRight /\ ImageSoFar /\ [Next]_vars => ImageSoFar'
  <2> SUFFICES ASSUME LoadingInv, SegmentsRight, ImageSoFar, [Next]_vars PROVE ImageSoFar'
    OBVIOUS
  <2>1. CASE \E t \in Procs \cup {Main} : Switch(t)
    BY <2>1, SwitchImage
  <2>2. CASE \E p \in Procs, x \in Executables : ProcessExecute(p, x)
    BY <2>2, ProcessExecuteImage
  <2>3. ASSUME NEW p \in Procs, LoadCreate(p) \/ LoadHeader(p) \/ LoadPage(p) \/ SetupStack(p)
        PROVE  ImageSoFar'
    BY <2>3, LoadCreateImage, LoadHeaderImage, LoadPageImage, SetupStackImage
  <2>4. ASSUME NEW p \in Procs,
               \/ StartProcess(p) \/ Kill(p) \/ SysCall(p)
               \/ ExitForget(p) \/ ExitLeave(p) \/ ExitDestroy(p)
        PROVE  ImageSoFar'
    BY <2>4, LeavingImage DEF Kill, SysCall
  <2>5. ASSUME NEW p \in Procs, NEW v \in Touched,
               \/ \E write \in BOOLEAN : Access(p, v, write) \/ PageFault(p, v, write)
               \/ TakePage(p, v)
               \/ \E bit \in {"a", "d"} : ResetBit(p, v, bit)
        PROVE  ImageSoFar'
    BY <2>5, UserImage, LeavingImage DEF PageFault
  <2>6. CASE UNCHANGED vars
    BY <2>6, StillImage DEF vars, memVars
  <2> QED
    BY <2>1, <2>2, <2>3, <2>4, <2>5, <2>6 DEF Next
<1> QED
  BY <1>1, <1>2, LoadingInvariant, SegmentsInvariant, PTL DEF Spec

\* For every set of executables: when load() returns true, the program has the pages of all
\* the segments of its file and a stack and no others, no page has been given to two
\* segments, each byte is the file's or zero as the header says, and no header that
\* validate_segment() accepts makes an ASSERT of load() fail.
THEOREM LoadedAsTheFileSays == Spec => []ImageLoaded
<1>1. ASSUME SegmentsRight, ImageSoFar PROVE ImageLoaded
  <2>1. ~panic
    BY <1>1 DEF ImageSoFar
  <2>2. ASSUME NEW p \in Procs, at[p] = "loaded"
        PROVE  LET x == exe[p]
                   pages == UNION {SegmentPages(ph) : ph \in Segments(x)}
               IN /\ {v \in PageNos : Mapped(pagedir[p], v)} = pages \cup {StackPage}
                  /\ StackPage \notin pages
                  /\ \A ph \in Segments(x) : \A v \in SegmentPages(ph) :
                       LET e == Entry(pagedir[p], v)
                       IN /\ e.w = ph.w
                          /\ \A b \in 0..(PGSIZE - 1) :
                               bytes[e.frame][b] = SegmentByte(ph, v * PGSIZE + b)
    <3> DEFINE x == exe[p]
               pages == UNION {SegmentPages(ph) : ph \in Segments(x)}
    <3>1. PagesPlaced(p) /\ seg[p].i > Len(x.phdrs) /\ x.phdrs \in Seq(Phdr) /\ seg[p].i \in Nat
      <4>1. PagesPlaced(p) /\ HeadersRead(p) /\ x \in Ehdr /\ seg[p] \in SegFields
        BY <1>1, <2>2 DEF ImageSoFar, SegmentsRight, Filling, Naming
      <4> QED
        BY <2>2, <4>1 DEF HeadersRead, Ehdr, SegFields
    <3>2. ASSUME NEW j \in DOMAIN x.phdrs, x.phdrs[j].type = "load",
                 NEW v \in SegmentPages(x.phdrs[j])
          PROVE  Placed(p, j, v)
      <4>1. j \in Nat /\ j <= Len(x.phdrs) /\ Len(x.phdrs) \in Nat
        BY <3>1
      <4>2. j < seg[p].i
        BY <3>1, <4>1
      <4> QED
        BY <3>2, <4>2 DEF Placed
    <3>3. \A v : v \in pages <=> SomePlaced(p, v)
      <4>1. ASSUME NEW v, v \in pages PROVE SomePlaced(p, v)
        <5>1. PICK ph \in Segments(x) : v \in SegmentPages(ph)
          BY <4>1
        <5>2. PICK j \in DOMAIN x.phdrs : x.phdrs[j].type = "load" /\ ph = x.phdrs[j]
          BY <5>1 DEF Segments
        <5> QED
          BY <3>2, <5>1, <5>2 DEF SomePlaced
      <4>2. ASSUME NEW v, SomePlaced(p, v) PROVE v \in pages
        <5>1. PICK j \in DOMAIN x.phdrs : x.phdrs[j].type = "load" /\ v \in SegmentPages(x.phdrs[j])
          BY <4>2 DEF SomePlaced, Placed
        <5>2. x.phdrs[j] \in Segments(x)
          BY <5>1 DEF Segments
        <5> QED
          BY <5>1, <5>2
      <4> QED
        BY <4>1, <4>2
    <3>4. \A v : SomePlaced(p, v) => v \in PageNos
      BY <3>1 DEF SomePlaced, PagesPlaced
    <3>5. ASSUME NEW v
          PROVE  v \in {u \in PageNos : Mapped(pagedir[p], u)} <=> v \in pages \cup {StackPage}
      <4>1. v \in PageNos => (Mapped(pagedir[p], v) <=> SomePlaced(p, v) \/ v = StackPage)
        BY <2>2, <3>1 DEF PagesPlaced
      <4>2. StackPage \in PageNos
        BY Coordinates
      <4> QED
        BY <3>3, <3>4, <4>1, <4>2
    <3>6. StackPage \notin pages
      BY <2>2, <3>1, <3>3 DEF PagesPlaced
    <3>7. ASSUME NEW ph \in Segments(x), NEW v \in SegmentPages(ph) PROVE Holds(pagedir[p], v, ph)
      <4>1. PICK j \in DOMAIN x.phdrs : x.phdrs[j].type = "load" /\ ph = x.phdrs[j]
        BY DEF Segments
      <4>2. Placed(p, j, v)
        BY <3>2, <4>1
      <4> QED
        BY <3>1, <4>1, <4>2 DEF PagesPlaced
    <3>8. {v \in PageNos : Mapped(pagedir[p], v)} = pages \cup {StackPage}
      BY <3>5
    <3> QED
      BY <3>6, <3>7, <3>8 DEF Holds
  <2> QED
    BY <2>1, <2>2 DEF ImageLoaded
<1> QED
  BY <1>1, ImageInvariant, SegmentsInvariant, PTL
=============================================================================
