-------------------------------- MODULE Boot --------------------------------
(***************************************************************************)
(* From power-on to the actions of the command line, proj2/src: the loader *)
(* (threads/loader.S), the entry code (threads/start.S), the partition     *)
(* scan (devices/partition.c), the command line and the casting of block   *)
(* devices (threads/init.c, devices/block.c), and how memory is laid out   *)
(* (palloc_init(), malloc_init(), paging_init()).                          *)
(***************************************************************************)
EXTENDS SequencesExt

CONSTANTS
  Signature,       \* 0xaa55
  WordSize,        \* values of a 16-bit register, for sector numbers
  MaxKernel,       \* sectors of the largest kernel (1024)
  SectorMod,       \* values of a block_sector_t
  SizeMod,         \* values of a size_t
  MaxDepth,        \* bound: nested calls of read_partition_table()
  ArgsLen          \* LOADER_ARGS_LEN

ASSUME BootAssumption ==
  /\ Signature \in Nat \ {0} /\ WordSize \in Nat \ {0} /\ MaxKernel \in Nat \ {0}
  /\ SectorMod \in Nat \ {0} /\ SizeMod \in Nat \ {0}
  /\ MaxDepth \in Nat /\ ArgsLen \in Nat \ {0}

-----------------------------------------------------------------------------
(* loader.S.  A drive is [signature, parts]; a partition table entry is    *)
(* [boot, type, start, size].  The drives after the last do not answer.    *)

Kernel == 32                \* partition type 0x20
Bootable == 128

\* check_partition.  The first four bytes of an unused entry are zero.
IsKernel(e) == e.boot = Bootable /\ e.type = Kernel

\* next_drive: `inc %dl' leaves the carry flag as the last comparison set it.  After a
\* table it is clear; after the signature it is set if the word is below it.
CarryAfter(drive) == drive.signature < Signature

\* Whether the scan goes on behind this drive.
NextDrive(drive) == ~CarryAfter(drive)

\* read_mbr from a drive on: <<drive, entry>>, or <<>> for "Not found".
RECURSIVE ReadMbr(_, _)
ReadMbr(drives, dl) ==
  IF dl > Len(drives) THEN <<>>
  ELSE LET d == drives[dl]
           hits == {i \in DOMAIN d.parts : IsKernel(d.parts[i])}
       IN IF d.signature = Signature /\ hits # {} THEN <<dl, Min(hits)>>
          ELSE IF NextDrive(d) THEN ReadMbr(drives, dl + 1) ELSE <<>>

\* CX before the loop: `loop' runs WordSize times for 0.
SectorCount(size) == IF size = 0 THEN WordSize ELSE IF size <= MaxKernel THEN size ELSE MaxKernel

\* load_kernel: the sectors read one after another; `inc %bx' keeps the high half.
LoadKernel(start, size) ==
  [i \in 1..SectorCount(size) |->
     WordSize * (start \div WordSize) + ((start + i - 1) % WordSize)]

\* The loader takes no partition but the first bootable kernel partition in the
\* order of drives and entries, and does take it unless a drive before it has no
\* table and a word below the signature.  It reads the kernel's sectors in
\* order, if there are any and they do not cross a multiple of WordSize.
LoaderFindsKernel(drives) ==
  LET found == ReadMbr(drives, 1)
      kernels == {<<d, i>> \in UNION {{d} \X DOMAIN drives[d].parts : d \in DOMAIN drives} :
                    drives[d].signature = Signature /\ IsKernel(drives[d].parts[i])}
      first == CHOOSE k \in kernels : \A j \in kernels : k[1] < j[1] \/ (k[1] = j[1] /\ k[2] <= j[2])
      blocked == \E d \in DOMAIN drives : /\ drives[d].signature < Signature
                                          /\ \A k \in kernels : d < k[1]
  IN /\ found # <<>> => kernels # {} /\ found = first
     /\ kernels # {} /\ ~blocked => found = first
     /\ found # <<>> =>
          LET e == drives[found[1]].parts[found[2]]
              n == IF e.size < MaxKernel THEN e.size ELSE MaxKernel
          IN e.size > 0 /\ (e.start % WordSize) + n <= WordSize =>
               LoadKernel(e.start, e.size) = [i \in 1..n |-> e.start + i - 1]

-----------------------------------------------------------------------------
(* start.S: the size of memory and the first page tables, by page number   *)
(* (page numbers of 64 MB, 1024 entries in a table).                       *)

\* The pages of RAM from what interrupt 15h returns in AX.
InitRamPages(ax) == LET kb == ax + 1024 IN (IF kb <= 65536 THEN kb ELSE 65536) \div 4

PhysBase == 768 * 1024          \* LOADER_PHYS_BASE, as a page number
\* Page tables 0..16 lie at pages 16 and on; entry i of the directory points to table i,
\* as does entry 768 + i.
BootTable(pde) == IF pde \in 0..16 THEN pde ELSE IF pde \in 768..784 THEN pde - 768 ELSE -1
\* The frame of a linear page: the 16384 entries of tables 0..15 count the frames.
BootFrame(page) ==
  LET table == BootTable(page \div 1024)
  IN IF table \in 0..15 THEN 1024 * table + (page % 1024) ELSE -1

\* Every page of RAM is mapped at its own address, where the entry code runs, and at
\* the kernel's, to the same frame.
BootMapsMemory(ax) ==
  /\ InitRamPages(ax) <= 16384 /\ 4 * InitRamPages(ax) <= ax + 1024
  /\ \A page \in {0, 1, InitRamPages(ax) \div 2, InitRamPages(ax) - 1} :
       BootFrame(page) = page /\ BootFrame(PhysBase + page) = page

-----------------------------------------------------------------------------
(* partition.c.  A device is [size, tables]: a sector of the domain of     *)
(* tables holds a partition table [signature, parts], the others none.     *)

Extended == {5, 15, 133, 197}
TypeOf(part_type) == CASE part_type = 32 -> "kernel" [] part_type = 33 -> "filesys"
                       [] part_type = 34 -> "scratch" [] part_type = 35 -> "swap"
                       [] OTHER -> "foreign"

\* block_read() of a partition table.
TableAt(dev, sector) == IF sector \in DOMAIN dev.tables THEN dev.tables[sector]
                        ELSE [signature |-> 0, parts |-> <<>>]

\* The two checks of found_partition().
InDevice(dev, start, size) ==
  LET end == (start + size) % SectorMod IN start < dev.size /\ end >= start /\ end <= dev.size

\* found_partition(): what block_register() gets, if anything.
FoundPartition(dev, part_type, start, size, part_nr) ==
  IF InDevice(dev, start, size)
  THEN <<[type |-> TypeOf(part_type), start |-> start, size |-> size, nr |-> part_nr]>>
  ELSE <<>>

\* read_partition_table() in the entries from i on: the partitions registered, the
\* count *part_nr and whether the calls nest deeper than MaxDepth.  The table
\* is the one in sector 0, whatever the sector.
RECURSIVE ReadPartitions(_, _, _, _, _, _)
ReadPartitions(dev, sector, primary, part_nr, i, depth) ==
  LET pt == TableAt(dev, 0)
      e == pt.parts[i]
      deeper == IF sector = 0 THEN ReadPartitions(dev, e.start, e.start, part_nr, 1, depth + 1)
                ELSE ReadPartitions(dev, (e.start + primary) % SectorMod, primary, part_nr, 1,
                                    depth + 1)
      rest(nr, found, overflow) ==
        LET r == ReadPartitions(dev, sector, primary, nr, i + 1, depth)
        IN [found |-> found \o r.found, nr |-> r.nr, overflow |-> overflow \/ r.overflow]
      nothing == [found |-> <<>>, nr |-> part_nr, overflow |-> FALSE]
  IN CASE depth > MaxDepth -> [nothing EXCEPT !.overflow = TRUE]
       [] depth <= MaxDepth /\ (sector >= dev.size \/ pt.signature # Signature) -> nothing
       [] OTHER ->
            IF i > Len(pt.parts) THEN nothing
            ELSE IF e.size = 0 \/ e.type = 0 THEN rest(part_nr, <<>>, FALSE)
            ELSE IF e.type \in Extended
            THEN rest(deeper.nr, deeper.found, deeper.overflow)
            ELSE rest(part_nr + 1,
                      FoundPartition(dev, e.type, (e.start + sector) % SectorMod, e.size,
                                     part_nr + 1), FALSE)

PartitionScan(dev) == ReadPartitions(dev, 0, 0, 0, 1, 0)

\* What is registered lies on the device, so that partition_read() and
\* partition_write() of a sector below its size do too, and has its own number.
\* Of a table without an extended partition no entry that fits is left out.  (The
\* table of an extended one is never read, partition.c:91, where :36 says it is.)
PrimaryPartitionsFound(dev) ==
  LET r == PartitionScan(dev)
      entries == {i \in DOMAIN TableAt(dev, 0).parts :
                    TableAt(dev, 0).parts[i].size # 0 /\ TableAt(dev, 0).parts[i].type # 0}
      whole(e) == e.start + e.size <= dev.size
  IN /\ \A k \in DOMAIN r.found :
          /\ r.found[k].start + r.found[k].size <= dev.size
          /\ \A j \in 1..(k - 1) : r.found[j].nr < r.found[k].nr
     /\ (\A i \in entries : TableAt(dev, 0).parts[i].type \notin Extended) =>
          /\ ~r.overflow
          /\ TableAt(dev, 0).signature = Signature =>
               Len(r.found) = Cardinality({i \in entries : whole(TableAt(dev, 0).parts[i])})

-----------------------------------------------------------------------------
(* init.c and block.c.                                                     *)

\* The bytes the `pintos' utility writes: each argument with a null byte.
ArgBytes(args) == FlattenSeq([i \in DOMAIN args |-> Append(args[i], 0)])

\* Where a string that starts at p ends: strnlen (p, end - p) + p.
StringEnd(mem, p) == IF \E q \in p..ArgsLen : mem[q] = 0
                     THEN CHOOSE q \in p..ArgsLen : mem[q] = 0 /\ \A r \in p..(q - 1) : mem[r] # 0
                     ELSE ArgsLen + 1

\* read_command_line() from p on with argc arguments to go; a panic is <<-1>>.
RECURSIVE ReadCommandLine(_, _, _)
ReadCommandLine(mem, p, argc) ==
  IF argc = 0 THEN <<>>
  ELSE IF p > ArgsLen THEN <<<<-1>>>>
  ELSE <<SubSeq(mem, p, StringEnd(mem, p) - 1)>>
       \o ReadCommandLine(mem, StringEnd(mem, p) + 1, argc - 1)

\* The arguments come back as they were written, if they fit; an argument too many
\* is a panic and never a word of what follows.
ArgumentsRead(args, extra) ==
  LET bytes == ArgBytes(args)
      mem == bytes \o [i \in 1..(ArgsLen - Len(bytes)) |-> 0]
      argv == ReadCommandLine(mem, 1, Len(args) + extra)
  IN Len(bytes) <= ArgsLen =>
       /\ SubSeq(argv, 1, Len(args)) = args
       /\ \A i \in (Len(args) + 1)..Len(argv) : argv[i] \in {<<>>, <<-1>>}
       /\ Len(argv) <= Len(args) + extra

\* The settings of parse_options(): an argument is [name, value], value "" for none.
DefaultSettings == [shutdown |-> "none", format |-> FALSE, filesys |-> "", scratch |-> "",
                    swap |-> "", mlfqs |-> FALSE, limit |-> "", seed |-> "", panic |-> FALSE]
OptionNames == {"-h", "-q", "-r", "-f", "-filesys", "-scratch", "-swap", "-rs", "-mlfqs", "-ul"}

ParseOption(o, arg) ==
  CASE arg.name = "-h" -> [o EXCEPT !.shutdown = "power_off", !.panic = TRUE]
    [] arg.name = "-q" -> [o EXCEPT !.shutdown = "power_off"]
    [] arg.name = "-r" -> [o EXCEPT !.shutdown = "reboot"]
    [] arg.name = "-f" -> [o EXCEPT !.format = TRUE]
    [] arg.name = "-filesys" -> [o EXCEPT !.filesys = arg.value]
    [] arg.name = "-scratch" -> [o EXCEPT !.scratch = arg.value]
    [] arg.name = "-swap" -> [o EXCEPT !.swap = arg.value]
    [] arg.name = "-rs" -> [o EXCEPT !.seed = arg.value, !.panic = @ \/ arg.value = ""]
    [] arg.name = "-mlfqs" -> [o EXCEPT !.mlfqs = TRUE]
    [] arg.name = "-ul" -> [o EXCEPT !.limit = arg.value, !.panic = @ \/ arg.value = ""]
    [] OTHER -> [o EXCEPT !.panic = TRUE]

\* The loop of parse_options() from argument i on: the settings and the first
\* argument that is no option.
RECURSIVE ParseOptions(_, _, _)
ParseOptions(o, argv, i) ==
  IF i > Len(argv) \/ o.panic \/ ~argv[i].option THEN [o |-> o, i |-> i]
  ELSE ParseOptions(ParseOption(o, argv[i]), argv, i + 1)

\* random_init() after the loop reinitialises the generator in any case.
ParseAll(argv) ==
  LET r == ParseOptions(DefaultSettings, argv, 1) IN [r EXCEPT !.o.seed = "clock"]

ActionArgc(name) == CASE name \in {"ls", "extract"} -> 1
                      [] name \in {"run", "cat", "rm", "append"} -> 2
                      [] OTHER -> 0

\* How far run_actions() moves on in argv.
Advance(name) == ActionArgc(name)

\* run_actions() from argument i on: the actions invoked with their arguments, and
\* "panic" at the end if one is unknown or short of an argument.
RECURSIVE RunActions(_, _)
RunActions(argv, i) ==
  IF i > Len(argv) THEN <<>>
  ELSE LET n == ActionArgc(argv[i].name)
       IN IF n = 0 \/ i + n - 1 > Len(argv) THEN <<<<"panic">>>>
          ELSE <<[k \in 1..n |-> argv[i + k - 1].name]>> \o RunActions(argv, i + Advance(argv[i].name))

\* Options come first and act whatever their order (the last of a kind counts), every
\* word after them belongs to one action, and a bad word stops the kernel
\* before a later action.  Nothing is said of the seed: the clock's replaces that of -rs
\* (init.c:278, where :271 denies it).
CommandsRun(argv) ==
  LET p == ParseAll(argv)
      run == RunActions(argv, p.i)
      words == [k \in 1..(Len(argv) - p.i + 1) |-> argv[p.i + k - 1].name]
      last(name) == SelectLastInSubSeq(argv, 1, p.i - 1, LAMBDA a : a.name = name)
  IN /\ p.o.panic = (\E k \in 1..(p.i - 1) :
                       \/ argv[k].name \in {"-h"} \/ argv[k].name \notin OptionNames
                       \/ argv[k].name \in {"-rs", "-ul"} /\ argv[k].value = "")
     /\ ~p.o.panic =>
          /\ \A k \in 1..(p.i - 1) : argv[k].option
          /\ p.o.filesys = IF last("-filesys") = 0 THEN "" ELSE argv[last("-filesys")].value
          /\ p.o.shutdown = IF last("-q") = 0 /\ last("-r") = 0 THEN "none"
                            ELSE IF last("-q") > last("-r") THEN "power_off" ELSE "reboot"
          /\ run # <<>> /\ Last(run) = <<"panic">> => IsPrefix(FlattenSeq(Front(run)), words)
          /\ run = <<>> \/ Last(run) # <<"panic">> => FlattenSeq(run) = words

\* locate_block_device(): the index of the device cast, 0 for none, -1 for a panic.
LocateBlockDevice(blocks, role, name) ==
  IF name # ""
  THEN LET i == SelectInSeq(blocks, LAMBDA b : b.name = name) IN IF i = 0 THEN -1 ELSE i
  ELSE SelectInSeq(blocks, LAMBDA b : b.type = role)

\* locate_block_devices(), with the names given by the options.
LocateBlockDevices(blocks, names) ==
  [role \in {"filesys", "scratch", "swap"} |-> LocateBlockDevice(blocks, role, names[role])]

\* No device plays two roles by default.
RolesDistinct(blocks) ==
  LET cast == LocateBlockDevices(blocks, [role \in {"filesys", "scratch", "swap"} |-> ""])
  IN \A r, s \in DOMAIN cast : cast[r] = cast[s] /\ r # s => cast[r] = 0

-----------------------------------------------------------------------------
(* palloc_init(), malloc_init() and paging_init().                         *)

PGSIZE == 4096
RoundUpDiv(a, b) == (a + b - 1) \div b
\* bitmap_buf_size(): struct bitmap, and words of 32 bits.
BitmapBufSize(bits) == 8 + 4 * RoundUpDiv(bits, 32)

\* init_pool() of page_cnt pages from page base on, whose first pages hold the bitmap.
InitPool(base, page_cnt) ==
  LET bm_pages == RoundUpDiv(BitmapBufSize(page_cnt), PGSIZE)
  IN [ok |-> bm_pages <= page_cnt, base |-> base + bm_pages, pages |-> page_cnt - bm_pages]

\* palloc_init(): memory from 1 MB (page 256) to the end of RAM.
PallocInit(ram_pages, user_page_limit) ==
  LET free_pages == ram_pages - 256
      user == IF free_pages \div 2 > user_page_limit THEN user_page_limit ELSE free_pages \div 2
      kernel == free_pages - user
  IN [kernel |-> InitPool(256, kernel), user |-> InitPool(256 + kernel, user)]

PageFromPool(pool, page) == page >= pool.base /\ page < pool.base + pool.pages

\* The pools do not meet, lie within RAM, keep the limit, and lose only the pages of the
\* bitmaps, which have room for a bit per page.
PoolsDisjoint(ram_pages, user_page_limit) ==
  LET p == PallocInit(ram_pages, user_page_limit)
  IN p.kernel.ok /\ p.user.ok =>
       /\ \A page \in {256, p.kernel.base, p.kernel.base + p.kernel.pages - 1, p.user.base,
                       p.user.base + p.user.pages, ram_pages} :
            ~(PageFromPool(p.kernel, page) /\ PageFromPool(p.user, page))
       /\ p.kernel.base + p.kernel.pages < p.user.base
       /\ p.user.base + p.user.pages = ram_pages
       /\ p.user.pages <= user_page_limit
       /\ BitmapBufSize(p.kernel.pages) <= PGSIZE * (p.kernel.base - 256)
       /\ BitmapBufSize(p.user.pages)
            <= PGSIZE * (p.user.base - p.kernel.base - p.kernel.pages)

ArenaSize == 12                  \* sizeof (struct arena)
BlockSizes == {16, 32, 64, 128, 256, 512, 1024}
BlocksIn(block_size) == (PGSIZE - ArenaSize) \div block_size

\* DIV_ROUND_UP (size + sizeof *a, PGSIZE), of which both sums may wrap.
ArenaPages(size) == ((((size + ArenaSize) % SizeMod) + (PGSIZE - 1)) % SizeMod) \div PGSIZE

NullBlock == 0

\* The bytes that malloc (size) hands out: a block of the smallest descriptor, or
\* pages, of which palloc_get_multiple() gives a null pointer for none.
MallocRoom(size) ==
  LET fit == {b \in BlockSizes : b >= size}
  IN IF size = 0 THEN NullBlock ELSE IF fit # {} THEN Min(fit)
     ELSE IF ArenaPages(size) = 0 THEN NullBlock
     ELSE PGSIZE * ArenaPages(size) - ArenaSize

\* calloc (a, b), which notices some of the products that wrap.
CallocRoom(a, b) ==
  LET size == (a * b) % SizeMod
  IN IF size < a \/ size < b THEN NullBlock ELSE MallocRoom(size)

\* arena_to_block() and block_to_arena(), as offsets in a page.
ArenaToBlock(block_size, idx) == ArenaSize + idx * block_size
BlockAligned(block_size, ofs) == (ofs - ArenaSize) % block_size = 0

\* realloc() copies what both blocks have.
ReallocCopies(old_size, new_size) ==
  IF new_size < MallocRoom(old_size) THEN new_size ELSE MallocRoom(old_size)

\* Sizes that with their arena, rounded up, fit a size_t.
Representable(size) == size + ArenaSize + (PGSIZE - 1) < SizeMod

\* Of such sizes a block is as large as asked for; of somewhat larger ones there
\* is none.  (The sum with the arena wraps for the largest, malloc.c:109, and so
\* may the product of calloc(), :165: their blocks are smaller than asked for.)  The blocks of an arena share no byte and end within the page;
\* realloc() reads and writes within the two blocks.
BlocksFit(size, other) ==
  /\ Representable(size) => MallocRoom(size) >= size
  /\ size + ArenaSize < SizeMod => MallocRoom(size) = NullBlock \/ MallocRoom(size) >= size
  /\ Representable(size * other) => CallocRoom(size, other) >= size * other
  /\ size + ArenaSize < SizeMod /\ other + ArenaSize < SizeMod /\ other > 0 =>
       ReallocCopies(size, other) <= MallocRoom(size) /\ ReallocCopies(size, other) <= MallocRoom(other)
  /\ \A b \in BlockSizes : \A i \in {0, 1, BlocksIn(b) - 1} :
       /\ BlockAligned(b, ArenaToBlock(b, i))
       /\ ArenaToBlock(b, i) + b <= PGSIZE
       /\ \A j \in {0, 1, BlocksIn(b) - 1} \ {i} :
            ArenaToBlock(b, i) + b <= ArenaToBlock(b, j) \/ ArenaToBlock(b, j) + b <= ArenaToBlock(b, i)

\* paging_init() with e entries to a table: directory and tables after the pages below n.
RECURSIVE PagingInit(_, _, _)
PagingInit(n, e, text) ==
  IF n = 0 THEN [pd |-> <<>>, pt |-> <<>>]
  ELSE LET m == PagingInit(n - 1, e, text)
           page == n - 1
           entry == [page |-> page, writable |-> page \notin text]
       IN IF (page \div e) + 1 > Len(m.pd)
          THEN [pd |-> Append(m.pd, Len(m.pd) + 1), pt |-> Append(m.pt, <<entry>>)]
          ELSE [m EXCEPT !.pt[Len(m.pt)] = Append(@, entry)]

\* Every page of RAM has its entry in the table the directory names for it, and only the
\* kernel's text is read-only.
KernelMapped(n, e, text) ==
  LET m == PagingInit(n, e, text)
  IN /\ Len(m.pt) = RoundUpDiv(n, e)
     /\ \A page \in 0..(n - 1) :
          m.pt[m.pd[(page \div e) + 1]][(page % e) + 1] =
            [page |-> page, writable |-> page \notin text]
=============================================================================
