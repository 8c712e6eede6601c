----------------------------- MODULE MCLoading -----------------------------
(* Two programs at a time, on a machine with too few pages for both, from     *)
(* executables that load and that fail in every way load() knows.            *)
EXTENDS Loading, TLC

CONSTANTS p1, p2

Two == {p1, p2}
Kernel == 1..7
User == 11..15
\* The code and the data of Good.
TwoPages == {3, 4}

Seg(offset, vaddr, filesz, memsz, w) ==
  [type |-> "load", offset |-> offset, vaddr |-> vaddr, filesz |-> filesz, memsz |-> memsz, w |-> w]
Other(type) == [Seg(0, 2, 0, 2, FALSE) EXCEPT !.type = type]
Elf(length, readable, phdrs) ==
  [ok |-> TRUE, length |-> length, readable |-> readable, phdrs |-> phdrs]

\* Code that starts in the middle of a page, and data with zeros behind.
Good == Elf(8, 3, <<Other("ignore"), Seg(3, 7, 1, 1, FALSE), Seg(4, 8, 1, 2, TRUE)>>)
\* Two segments on one page.
Shared == Elf(8, 2, <<Seg(2, 8, 1, 1, TRUE), Seg(3, 9, 1, 1, FALSE)>>)
\* The file ends within the segment, whose pages are in two page tables.
Truncated == Elf(8, 1, <<Seg(6, 4, 3, 4, TRUE)>>)
\* The program headers are not all in the file.
Unreadable == Elf(8, 0, <<Other("ignore")>>)
\* Regions that wrap around, reach the kernel, hold page 0 and, after one of zeros, meet
\* the stack.
Wrapping == Elf(8, 1, <<Seg(6, 6, 0, 13, TRUE)>>)
TooHigh == Elf(8, 1, <<Seg(6, 6, 0, 6, TRUE)>>)
TooLow == Elf(8, 1, <<Seg(1, 1, 0, 2, TRUE)>>)
OnStack == Elf(8, 2, <<Seg(1, 7, 0, 1, TRUE), Seg(0, 10, 1, 1, TRUE)>>)
Dynamic == Elf(8, 1, <<Other("refuse")>>)
NotElf == [Good EXCEPT !.ok = FALSE]

SomeExecutables ==
  {Good, Shared, Truncated, Unreadable, Wrapping, TooHigh, TooLow, OnStack, Dynamic, NotElf}
\* Which page is used for what makes no difference as long as no page is used twice.
Contents(pd, v) ==
  LET e == Entry(pd, v)
  IN IF e.p THEN <<e.w, e.a, e.d, bytes[e.frame]>> ELSE <<>>
Roles(p) ==
  LET pd == DirectoryOf(p)
  IN <<at[p], IF at[p] = "none" THEN None ELSE exe[p], pagedir[p] = None, fn_copy[p] = None,
       [seg[p] EXCEPT !.pos = IF at[p] \in {"forgot", "left"} THEN 0 ELSE @],
       IF pd = None THEN <<>> ELSE [v \in {w \in PageNos : HasEntry(pd, w)} |-> Contents(pd, v)],
       cr3 = pd>>
UpToPages ==
  <<cur, [p \in Procs |-> Roles(p)], [v \in DOMAIN tlb |-> [tlb[v] EXCEPT !.frame = 0]],
    Cardinality(free \cap KernelPages), Cardinality(free \cap UserPages),
    PagesOwned, TlbInSync, DirectoryLive, ImageLoaded, esp0, used, panic>>
ProcSymmetry == Permutations(Two)
=============================================================================
