# TLA+ models of the Pintos projects

The repository holds two copies of the Pintos teaching kernel. `proj1/src` is
project 1: a priority scheduler with an alarm clock, priority donation and
condition variables. `proj2/src` is projects 2 and 3: user programs and virtual
memory, on the plain round-robin scheduler. Both run on one CPU; concurrency
comes from the timer interrupt, which can preempt a thread wherever interrupts
are on, and from device interrupt handlers. This directory models the parts of
the kernel with state that several threads share, and the sequential code they
rest on; checks them with TLC on small instances; and proves with TLAPS, for every value of the parameters,
the safety properties of project 1's scheduler, synchronisation and user programs, and of project 2's
processes, files, virtual memory, disks and memory allocators.

## Inventory

| Component | State | Operations | What makes it correct | Here |
|---|---|---|---|---|
| Scheduler, alarm clock (`proj1` `threads/thread.c`, `devices/timer.c`) | ready list, sleep list, status, priority, `endTick`, slice counter | create, exit, yield, block, unblock, `schedule`, `timer_sleep`, `thread_set_priority`, tick | a thread is in the one list its status says; the highest priority runs; nobody sleeps too long, too short or forever | `Lists`, `Thread` |
| Synchronisation (`proj1` `threads/synch.c`) | semaphore values and waiters, lock holders, donations, condition waiters | `sema_*`, `lock_*`, `cond_*` | exclusion, no lost wake-up, donations made and returned | `Synch`, `Mutex` |
| Processes (`proj2` `userprog/process.c`, `threads/thread.c`, `userprog/syscall.c`) | child lists, parent pointers, exit and load status, two semaphores per process | exec, load, wait, exit, kill | pointers between parent and child stay good; exec and wait report what happened, once, and return | `Process` |
| Virtual memory (`proj2` `vm/`, `userprog/exception.c`, `pagedir.c`) | frame table, page tables, page directories, swap slots, two locks | load a page, fault, evict, read back, exit | contents survive eviction, frames are neither lost nor shared | `VM` |
| System calls on files (`proj2` `userprog/syscall.c`, `filesys/file.c`) | descriptor lists, `IOLock`, positions | open, close, read, write, seek, remove ... | descriptors and opens match; one call at a time (that `IOLock` is not always released is listed below) | `FileSys` |
| File system (`filesys/`) | in-memory inodes with open and deny-write counts, free map, root directory | create, open, remove, close, allocate | sectors are neither lost nor shared, a removed file lives to its last close | `FileSys` |
| Project 1 user programs (`proj1` `userprog/`) | page directories, page tables, pages, what the CPU caches | execute, load, exit, fault | no page lost or owned twice, no directory used after it is freed, the program is the file's | `Loading` |
| Project 2 scheduler (`proj2` `threads/thread.c`, `synch.c`) | FIFO ready list, sleep list, semaphores | as project 1, without priorities | every thread is in the one place its status says | `Sched` |
| Character devices (`devices/intq.c`, `serial.c`, `kbd.c`, `input.c`), console (`lib/kernel/console.c`) | ring buffers, waiting threads, a lock with a depth | `putc`, `getc`, handlers, `printf` | no character lost or doubled, no waiter forgotten, lines whole | `Chars`, `Intq`, `Terminal` |
| Block devices (`devices/ide.c`, `block.c`, `partition.c`) | channel lock, completion semaphore, `expecting_interrupt` | read, write, identify, handler | a command gets its own completion, a read the last write | `Disk`, `Boot` |
| Allocators (`threads/palloc.c`, `malloc.c`) | pools, arenas, free lists, bitmaps | get, free | no page or block given out twice or lost | `Memory` |
| Containers (`lib/kernel/list.c`, `hash.c`, `bitmap.c`) | linked nodes, buckets, words | insert, remove, splice, sort, rehash, scan | agrees with a sequence, a set | `Lists`, `Containers` |
| Interrupt entry, boot (`threads/interrupt.c`, `intr-stubs.S`, `switch.S`, `loader.S`, `init.c`) | descriptors, controller state, stack frames, command line, pools | load, register, interrupt, switch | the right handler gets the right frame; memory is laid out without overlap; blocks are as large as asked for | `Traps`, `Boot` |
| C library (`lib/`), clock, timer counts, screen | - | string, number and format functions, archives | what the comments promise (where the code does not keep it, the property says so, and it is listed below) | `Strings`, `Numbers`, `Format`, `Archive`, `Terminal` |
| User library (`lib/user/`), first stack of a program (`setup_stack`) | the program's stack | stubs, `syscall_handler`'s reading of arguments, layout of `argv` | a call arrives as it was made, `main` gets the words of the command line | `UserCalls` |
| Host utilities (`utils/squish-unix.c`, `squish-pty.c`) | two pipes with buffers | relay, final relaying | nothing lost, doubled or out of order, also when the child dies | `Relay` |
| Tests, examples | - | - | - | not modelled: see below |

The parts meet as follows. Every component blocks through semaphores, so on
`schedule()`; device handlers wake threads through `sema_up`; processes are
threads whose exit frees an address space; page faults and `load()` compete for
frames; file system calls come from `load()` without `IOLock` and from system
calls with it. The hard behaviours are preemption between two statements that
belong together, wake-ups before sleeps, exits in any order, exits with a lock
held, and resources (frames, slots, sectors, pages) at their limit. They are
listed line by line under `hazards` in `PROJECT.json`, each with the properties
that would show it going wrong.

## Modules

| Module | Models | Notes |
|---|---|---|
| `Lists` | the list scans and removals of the scheduler | sequences, not recursive |
| `Thread` | `proj1` scheduler and alarm clock | see below |
| `Synch` | semaphores, locks with donation, condition variables | `EXTENDS Thread`: a semaphore operation ends in the scheduler's own `ThreadBlock` or `ThreadYield` |
| `Mutex` | abstract lock: an owner or nobody | `Synch` implements it |
| `Process` | exec, load, wait, exit, kill | pages of dead threads are used again |
| `VM` | frames, page tables, eviction, swap, page faults | processes one after another or at once |
| `FileSys` | system calls on files, directory, inodes, free map | one process at a time, restarts on the same disk |
| `Sched` | `proj2` scheduler, semaphores, interrupts | the kernel that `Disk` and `Chars` run on: they extend it and its threads |
| `Disk` | IDE channel, block devices, registration of partitions and access through them | the disk is external: it may be slow, err, hang, and interrupt without cause |
| `Intq` | the ring buffer of an interrupt queue | pure; `Chars` and `Library` extend it |
| `Chars` | interrupt queues, serial port, input, console | the UART is external |
| `Loading` | `proj1` `load()`, page tables, TLB, exit, exceptions | two programs compete for pages |
| `Memory` | page pools and `malloc` | preemptible threads |
| `Strings`, `Numbers`, `Format`, `Containers`, `Archive`, `Boot`, `Terminal`, `Traps`, `Storage`, `UserCalls`, `Relay` | sequential code, one operator per function, with what it promises at the end of each module | pure: no variables |
| `Library` | composes `Memory` with all of those | one machine whose calls are theirs |
| `ListLemmas` | facts about sequences, `Lists` and finite sets | TLAPS; used by the other proofs |
| `SynchProofs`, `ProcessProofs`, `FileSysProofs`, `VMProofs`, `LoadingProofs`, `DiskProofs`, `MemoryProofs` | proofs about `Thread` and `Synch`, `Process`, `FileSys`, `VM`, `Loading`, `Disk`, `Memory` | TLAPS; each begins with the inductive invariant |
| `MCThread`, `MCSynch`, `MCProcess`, `MCVM`, `MCFileSys`, `MCDisk`, `MCChars`, `MCLoading`, `MCLibrary` | the instances for TLC | |

### Thread

The variables are the kernel's: `status`, `priority`, `base_priority`,
`ready_list`, `sleep_list`, `endTick`, `cur`, `thread_ticks`, `ticks`. `at[t]` is the
point at which a thread stands inside an operation that has interrupts on in
the middle (in `thread_create` before its yield, in `timer_sleep` between
reading the clock and entering the list, idle before and after `hlt`). Code
that runs with interrupts off is one step, up to and including the switch:
`Schedule` wakes the sleepers that are due, picks the first ready thread of
greatest priority and makes it current. `TimerInterrupt` is possible whenever
interrupts are on, ends the slice after `TIME_SLICE` ticks and then yields.
Thread names, tids, statistics and stacks are left out.

### Synch

A thread's own `struct semaphore_elem` of `cond_wait` is the semaphore named
after the thread. The locks implement `Mutex` (`INSTANCE ... WITH owner <- lock_owner`):
the owner is whoever has the lock's semaphore. `lock_acquire`'s donation loop runs with interrupts off but is
several steps (`DonateRaise`, `DonateSpin`, `DonateDone`), so that a loop that does
not end can be seen. `lock_try_acquire` sets the holder after interrupts are on
again: a step of its own. `sema_up` includes the yield that the code makes.

### Process

A process is the page its `struct thread` is in. The steps are the stretches
between the points at which another process can come in between and matter:
`process_wait` reads `childElem->t`, then writes the flag through it, then sleeps;
`thread_exit` is one step from `intr_disable` on. Failures are possible wherever the
code has them: no page for the thread or the name, `load` returning false. The
histories `died`, `loads`, `result`, `collected` and `struck` exist only for the properties. `struck` has the
children whose `isParentWaiting` was written by a process that meant another child, whose page they have
got; a process is `Misled` when it has such a child. `WaitTellsTruth` says of -1 that it has one of the reasons that the
comment of `process_wait` gives, unless the caller is misled: without that exception it is violated (see
"Behaviour to know of").

### VM

A page's contents are one value, a swap slot eight sectors. The operations break
where the code may be preempted with consequences: getting no frame, evicting,
asking again; `pagedir_destroy` and the removal from the frame table. `panic`
records PANIC and failed ASSERTs, after which nothing happens. `MaxLive` says how
many processes there may be at once; `run_task` runs one after another, exec
makes it more. Kernel-pool memory is taken not to run out. `VMAssumption` leaves out executables that have a segment
in the topmost stack page: `setup_stack` then fails and the process ends, after the same steps. `PageData` speaks
of pages with one entry; how a page gets two, and what it loses, is told below. `PanicsExplained` gives the
cause of each panic; `Starved` is the state in which copies of command lines have taken all frames but one.
`OldestFirst` is what eviction really does, first in, first out; `DESIGNDOC` says otherwise (below).

### FileSys

`free_map`, `dir`, `inode_disk` and `data` are the disk; `inode` is the list of open
inodes (a count of 0 means not in the list), `file` the struct files, `fileList`
and `mFile` those of the process. The unit is the sector: a call that reads or
writes several is several steps here, which nobody can tell apart, since there is
one process at a time. That is the module's restriction. The code does not
keep the counts right when calls overlap, because `load()` and `SYS_EXIT` work on
the inodes without `IOLock`; see the hazard at `inode.c:118`. A process ends by
`SYS_EXIT`, which closes its files one by one, or by `doBadExit()` and faults,
which close nothing; nobody closes the executable. `SYS_MMAP` as written always
ends the process and leaves the file it has opened again behind. Sizes and positions of 2^31 and more
are negative as `off_t`: `SysCreateNegative` and `SysSeekNegative` are the ASSERTs that stop the kernel then. `Restart` is a
shutdown, or a reset after such a panic, and a start on the same disk. `lost` records the sectors that stay
marked for no file, after a failed creation or a restart with removed files
open, so that `SectorsAccounted` can be exact about all others.

### Sched, Disk and Chars

`Sched` has the FIFO scheduler of project 2 with its time slice, sleepers, semaphores
and the rule that code with interrupts off is one step; it is parameterised by the
semaphores and by the points at which interrupts are off. `Disk` and `Chars`
extend it with what a thread does in the driver, so a driver's `sema_down` really
goes through `schedule()`, a handler's `sema_up` really through the ready list.

In `Disk` a request is: take the channel's lock, wait until the disk is idle,
select, set `expecting_interrupt` and issue the command, sleep for the completion,
poll `BSY` with naps, transfer, release. Between any two of these the disk
may finish, raise its interrupt, and have it taken away by a read of the
status register. `wait_until_idle()` gives up on any disk that is not idle, since 10 ms are short for a disk, and the request
goes on: the disk takes the registers and the command or ignores them, and a store that was going on ends where the
registers then point, or not at all. Commands and stores fail, the latter unnoticed by `ide_write()`. The history
`written` becomes "unknown" for exactly the sectors of the requests that were hit, until they are written again, so
`ReadsLastWrite` says that the damage goes no further; mutant `Idles_NoWait`, in which nobody notices that the disk is at
work, breaks it. Spurious interrupts and failures (also disks that never clear `BSY`)
are bounded by `Spurious` and `Faults`. `ide_init()` identifies the devices, one of
which may be absent, not a disk, or too large, and `FoundPartition` tests the entries of their partition tables, in sector numbers that
wrap at `WORD`; entries may be anything. `WriteAcknowledged`, a part of `RequestsEnd`, is the comment of `ide_write()`, as long as there
has been no spurious interrupt; after one it fails.

In `Chars` a character is who wrote it and its place in the line, so that the
stream on the wire shows whether lines are whole. `serial_putc` polls or queues by
mode and interrupt level; `intq_getc` and `intq_putc` have their wait loops; a handler
may print; `NestedPrint` is a print of the thread that has the lock; a panic flushes
the queue and prints polled. Writers are serialised by the console's lock. Readers are so by `IOLock`, in which `SYS_READ`
runs (`syscall.c:243`), but `intq_getc` itself takes a lock to serve more, so both threads read in `chars`,
contending for it. The ASSERT in `wait()` can then fail, and `QueuesKept` says that it does so only when `crowded`: after two
readers have been in `input_getc` at once. As the code stands `input_getc` is not even reached (see below), and the readers stand for any
kernel code that reads the keyboard. The ring buffers are module `Intq`, whose order `Library` checks against a sequence
for queues of two to four slots (unit `queue`).

### Loading

Kernel pages and user pages are numbers; a page directory and its tables are kernel
pages. `load()` goes through the program headers of one of the executables of
the instance, of which most are bad in one way each. Addresses wrap at `AddrMod`,
so that `p_vaddr + p_memsz` can. The TLB is a partial function that the processor
fills on access and `pagedir_activate` empties. `process_exit` is three steps, with switches
between them. The view of the run leaves out which page plays which role; it
keeps the truth of the four invariants, so none is hidden by it.

### Memory

`palloc_get_multiple` scans the bitmap bit by bit under the pool's lock; `palloc_free_multiple`
clears bits without it. `malloc` divides a page into blocks; `free` gives the page
back with its last block.

### The sequential modules

Each translates functions into operators on explicit state (memory as a function
from addresses, a heap of list elements with `next` and `prev`, a stack as a sequence,
a word as the set of its bits), and ends with the statement of what they promise,
as an operator of the arguments: for example `ListsCorrect(s)` builds the linked list
of `s`, applies every operation of `list.c` and compares with sequences;
`IntegersReadBack` prints a number with every flag and reads its text; `FrameRestored`
walks an interrupt's stack from the processor's push through `intr_entry` and
`intr_exit` back. `Storage` is a transition relation on records: create, remove and
close as the sequences of disk writes they are, the closes of an exit beside
them, and a crash at any point, after which only the disk is left. The free
map fills its one sector there; with a partial last sector `inode_write_at()`
would go through its bounce buffer, which the closes of `SYS_EXIT`, made without `IOLock`,
could overtake with an older bitmap. `Relay` is one too: the processes at the other ends
send, close and die between any two turns of the loop, and reads and writes move any
part of what they could.

`Library` is one machine: threads allocate and free, or an argument of `Cases` is given to a
unit, or a sequence of calls is made on a hash table, the keyboard, the screen,
the disk or the host's relay. Its invariants state the promises for the unit in use. Where the
code breaks a promise of its comments, the property is about the arguments for which it is kept, the comment at the property
names the divergence, and the list below has it. The formats,
headers and key maps have the detail that the round trips need (a printed number is read back, a header parsed, a scan code shifted).

## Runs

| Run | Instance | Shows |
|---|---|---|
| `threads` | a main, two further threads and idle, two priorities, slices of two ticks, bounded clock | lists match status, overdue by less than a slice, highest priority runs, wake-ups inside their window; every sleeper wakes (with fairness of the clock and of the CPU) |
| `locks` | three threads, three priorities, two locks: nested and chained donation happen | exclusion, donated priority returned, priority order after release, refinement of `Mutex` |
| `conds` | monitor lock, a condition variable, a semaphore | waiters are on one list and will be woken; no wake-up is lost |
| `process` | initial thread, two pages, four tids: a page is used again after an exit, by a sibling or a grandchild | family pointers, truth of exec and wait, a status once; a caller whose child gets as far as its answer is woken |
| `vm` | one process at a time, any number in turn, five frames, three slots, three pages that can be evicted and the stack top | frames accounted for, slots distinct, contents kept, first page in evicted first, every panic with its cause |
| `files` | one process at a time, any number in turn, six sectors, three names for two directory entries, three struct files | sectors belong to one file each or are known to be lost, inodes counted right, denial of writes ends with the program, contents change only by writes |
| `disk` | two threads, idle, two devices in three combinations, partition entries that fit, reach past the end, start past it and wrap; one fault, one spurious interrupt, idle timeouts at will | one request at a time, reads return the last write but for sectors in doubt, every sleeper is owed a completion, a write returns when it is stored (without spurious interrupts), panics have a cause, no access leaves its disk |
| `chars` | two threads that print lines of two characters and read; queues of two slots | lines whole; queues keep their characters and nobody waits in vain, with the queues' locks contended; a writer at a full queue is woken |
| `loading` | two programs, ten executables, seven kernel and five user pages | pages owned once, no freed directory in use, TLB in step with the tables, the image is the file's and bad files are refused |
| `library` | two threads and four pages; arguments that reach across the ends of words, buffers, screens and disks a few units wide | allocators give nothing out twice; the sequential modules do what they promise |
| `acquire_spins` | two threads of equal priority | *violated*: `lock_acquire` never leaves its donation loop |
| `vm_isolation` | two processes at once | *violated*: an evicted page stays mapped in its owner |

Every property of a passing run has a mutant: a variant of one definition (named
`X_...`, defined before `X`) with a plausible slip, under which TLC finds the property
violated. The violated properties are statements of the documentation and are
discussed under `findings`; the run stays in the project to document the
behaviour.

Bounds. In `threads` the slice is two ticks, so that both "in the slice" and "end of
the slice" occur, and sleeps reach past a slice; in the other runs on a scheduler a slice of one
tick lets a tick preempt whoever runs. The clock is bounded by a guard on the
tick. Three threads are the least for a chain of donations, and for a third
party that takes what was released for the second. Four tids over two pages
give a process whose page belonged to another child of the same parent, a
grandchild, and a parent that is misled and waits too early; three tids over three pages (158,763 states) satisfy the invariants too. In `vm`
each process leaves a frame behind, so five frames give every degree of
pressure from "all fits" to "nothing can be evicted"; the counter `curr_index`
counts all values past the device as one, which no test in the code tells apart.
A run with four frames, two image pages and five slots (3.4 million states) holds too.
In `files` the disk holds the program and one or two further files, so that
creations fail for want of sectors and of entries, and files of no, one and two sectors occur;
struct files that are never closed use up the three there are, and a restart brings them back. Its
view leaves out what free sectors hold. In `disk` one spurious interrupt suffices to put the count of
completions ahead of the commands for good, and each of the requests that follow
sees it. In `chars` a queue of two slots holds one character, so every character
meets a full or an empty queue; a ring that goes around is in `library`. In `loading` a program needs four kernel and three user
pages or more, so the second one runs out of either at every point. In `library` words have
4 bits, list, hash and bitmap sizes cross their element and bucket boundaries, and the disk has three
sectors for files beside the two system files; command lines of up to six characters just fill
the stack page or do not fit, and a relay's buffer of three bytes meets four. Symmetry is used for interchangeable
pages, frames, threads, struct files and names in runs of safety
properties only.

Fairness. `threads`: the timer interrupt and the step of the current thread are
weakly fair; the hardware clock does not stop and the CPU does not idle. No
thread is assumed to call anything. `acquire_spins`: the steps inside a call that
has begun are weakly fair. `process`: a process in the kernel goes
on, since the FIFO ready list brings every ready thread to the CPU; one in user
mode may run forever. `chars`: the transmitter becomes free again and a thread inside
a call goes on (weakly fair), and the pending interrupt is taken (strongly fair,
since interrupts are off again and again).

### Behaviour to know of

The models have the following behaviour of the code, which the properties are stated
around.

- `process_wait` tests `childElem->t` and then writes through it (`process.c:127-129`). A child
  that exits in between leaves its parent asleep for good, although `process.c:106`
  says that it "Waits for thread TID to die". `CallsAnswered` therefore starts at the
  point where the flag is in. If the page has meanwhile become another process, that one's parent gets an up too many,
  and a later `wait` of it returns -1 for a child that is alive and was never waited for, against `process.c:106-111`; `WaitTellsTruth` exempts
  such a parent (`Misled`) and no other.
- `SYS_EXEC` waits for its child whatever `process_execute` returned (`syscall.c:150`), and
  `start_process` returns without telling the parent when it gets no page
  (`process.c:78`): exec then never returns, where `userprog.texi:618-620` asks for -1.
- `cond_wait` records the priority before `lock_release` takes a donation back
  (`proj1` `synch.c:377`), so `cond_signal` may wake a thread that is no longer the highest;
  `lock_try_acquire` records the holder after interrupts are on again (`synch.c:264`), so a
  thread that comes in between waits without donating. `threads.tmpl:125-126` and
  `:143-146` describe it otherwise.
- `page_fault` can end the process with `exception_lock` down (`exception.c:198`) and `SYS_READ`
  with `IOLock` down (`syscall.c:248`): every later fault, or file call, waits forever. A
  read-only page comes back from swap writable (`exception.c:275`).
- `access_time` is set when a page comes in and never on an access, so eviction is first in, first out, where
  `vm/DESIGNDOC:105-107` says "implementing an LRU algorithm" over the time each page was "last accessed".
- `curr_index` goes up at every eviction, also of a page that has its slot (`swap.c:30`): the kernel panics for want of swap with
  slots free.
- `SYS_READ` into a stack page that has been evicted installs a zeroed frame and a second entry
  (`syscall.c:255-282`); what the page held is lost.
- Descriptors begin at 5 (`thread.c:612`) and `SYS_READ` looks every one up in the list (`syscall.c:290`), so reading from descriptor 0 ends the
  process, where `userprog.texi:723` has it read the keyboard.
- `create` with a size, and `seek` to a position, of 2^31 or more stop the kernel at an ASSERT (`inode.c:78`, `file.c:150`).
- `sema_up` of project 1 yields, which its assertion forbids in an interrupt handler
  (`proj1` `synch.c:119`); the drivers are modelled on project 2's.
- `wait_until_idle` waits for 1000 times 10 us (`ide.c:445-449`), 10 ms where its comment (`ide.c:435`) says 10 seconds, and the request goes on after
  an idle timeout: it may then fail, and the kernel panic, on a sound disk.
- `ide_write` does not look at the status after the store (`ide.c:374-376`): a store that fails is a success. `expecting_interrupt` is never
  reset, so after one spurious interrupt every write returns before the disk has acknowledged it, against `ide.c:360-361`.
- With two readers the ASSERT in `wait()` (`intq.c:91`) fails when a character comes while the second waits for the queue's lock,
  which exists so that "Only one thread may wait at once" (`intq.h:27`).
- `memmove` returns the end of the destination when it copies upwards (`string.c:45`).
- `bitmap_scan_and_flip` of no bits returns `START`, not 0 (`bitmap.c:316`).
- `malloc` adds the arena's size without a test (`malloc.c:109`), and `calloc` misses most products that wrap (`malloc.c:166`): the block is
  smaller than asked for.
- `real_time_sleep` rounds down to ticks (`timer.c:220`): a sleep may be short by less than one.
- `filesys_create` leaks the data sectors when `dir_add` fails; a crash leaks the sectors of removed
  open files.
- `intr-stubs.S:128` declares vector 12 as one without an error code; the processor pushes one.
  `FrameRestored` says that the frame is right exactly for the other vectors.
- `loader.S:96-97` tests the carry after `inc`, which does not set it: whether the scan goes on depends
  on the last comparison (`CarryAfter`). A kernel partition of size 0 loads 65536 sectors.
- `partition.c:91` reads sector 0 whatever table it is asked for, so logical partitions are not found.
- `init.c:278` seeds the generator from the clock after `-rs` has set it, where `:271` says that this has no effect then. More than 64 empty
  arguments overflow `argv` (`init.c:199`).
- `fsutil.c:216-217` writes the end marker of an archive twice to one sector, the second
  time from one byte further on: if the byte behind the buffer is not 0, the archive cannot be extracted,
  where `:212` has "two consecutive sectors full of zeros".
- `setup_stack` counts a run of spaces before the first or behind the last word as one more argument
  (`process.c:586`); `argv` has a null pointer there.
- `argCounts` has one argument for `SYS_CREATE` (`syscall.c:29`), which reads two; `SYS_MMAP` takes the
  address of its second argument for the argument (`syscall.c:378`).
- `relay()` of `squish-unix.c` returns at the end of the connection without writing what it has buffered
  (`squish-unix.c:214`); the buffer is moved down only when it is full and begins past its
  start, which cannot be (`:208`).
- `printf` with `%0*d` and a negative width pads on both sides.
- `rtc_get_time` counts the days of the current month in full (`rtc.c:86`), so it is not the "seconds since Unix epoch" of `:40`; within a month its differences are right.

## Proofs

The theorems hold for every value of the constants that satisfies the assumptions named in the modules. The
table gives each proved property, with its inductive invariant; PROJECT.json lists the theorems by name.

| Module | Proved | From | Invariant |
|---|---|---|---|
| `SynchProofs` (`Thread`) | types, `ListsMatchStatus`, `AlarmBound`, `HighestPriorityRuns`, the action property `WakeWindow`; no blocked thread is lost | `ThreadAssumption`: finitely many threads, a main and an idle one that differ, a positive time slice, a default priority in range | `ThreadInv` |
| `SynchProofs` (`Synch`) | `WaitersMatchStatus`, `NoWaiterLost`, `NoLostWakeup`, `LockExclusion`, `DonationReturned`, `HighestPriorityRuns` and `WakeWindow` with locks, the refinement of `Mutex` | also `SynchAssumption`: the names of threads, locks, semaphores differ, each condition has a lock | `SynchInv` |
| `ProcessProofs` | `FamilyLinks`, `ExecTellsTruth`, `WaitTellsTruth` | `ProcessAssumption` | `ProcessInv`, `NoSurplus` |
| `FileSysProofs` | `SectorsAccounted`, `InodesCounted`, `DeniedOnlyWhileRunning`, the action property `ContentsOnlyWritten` | `FileSysAssumption`: a disk with room beside its two system files, finitely many struct files | `FileSysInv` |
| `VMProofs` | `FramesAccounted`, `PageData`, `OldestFirst`, `PanicsExplained` | `VMAssumption` and, in each theorem, `MaxLive = 1` | `VMInv`, `CausesRight` |
| `LoadingProofs` | `PagesOwned`, `DirectoryLive`, `TlbInSync`, `ImageLoaded` | `LoadingAssumption`: disjoint pools, page and table sizes that divide `PHYS_BASE`, executables whose header fields are words of the machine | `LoadingInv`, `SegmentsRight`, `ImageSoFar` |
| `DiskProofs` | `OneRequest`, `ReadsLastWrite`, `RequestsEnd` | `SchedAssumption`, `DiskAssumption`: the channel's two semaphores differ, partitions are no disks, disks have fewer sectors than a sector number has values | `DiskInv` |
| `MemoryProofs` | `MemoryAccounted` | `MemoryAssumption`: a pool and arenas that are not empty, requests for at least one page, a null pointer that is no block | `MemoryInv` |

Each invariant was checked by TLC on a small instance before it was proved. Every
module has one lemma per action, and under it a step per part of the invariant that the action
can disturb.

**Scheduler.** None of the parts of `ThreadInv` is inductive alone: which list `Unlink` works on needs
`ListsMatchStatus`, the priority property after a switch needs to know that the
list holds all ready threads and none twice, and the bound on oversleeping
needs the typing of the slice counter. The argument turns on one
lemma, `ScheduleCorrect`: from any state in which `schedule()` may be called
(`Prepared`: the current thread has already left RUNNING, and is in the list
its new status calls for), the switch re-establishes the whole invariant. Each
action then has to show only that it reaches a prepared state (`YieldPrepares`
for all that yield), or leaves the lists alone.

**Synchronisation.** `Synch` runs on the scheduler's own operators, and its proof uses the scheduler's: `Suspended`,
the threads that are blocked and not asleep, is what `ThreadInv` leaves open and what the lists of waiters
have to be. `WaitQueues` says that they are. `CallPoints` ties a thread's place in a call to the call's arguments,
without which a woken thread could be anywhere; `CondQueues` says that a
`semaphore_elem` on a condition's list belongs to a `cond_wait` that has not returned and has not been
signalled, so that `cond_signal` ups no dead stack frame. Of the loop of donations it is needed only that
a raised priority belongs to a thread with a lock. `Mutex` is implemented because a step that changes `value[l]`
from or to 0 changes the owner of the one lock `l` (`MutexStep` is proved beside the invariant for each action).

**Processes.** `FamilyLinks` is nearly inductive: `MainApart` and `TidsUnique` say that tids are given once although pages are
used again. The truth of exec needs `ExecPending`: a parent has one child on its way through `load()`, the one its `SYS_EXEC` waits
for, and `waiting2` is up only for that child's answer. The truth of wait needs `StatusesKept` and
`WaitsForChild`: the element that `process_wait` holds stays in the list. What -1 means is in `NoSurplus`, inductive beside
`ProcessInv`: a child has its flag because its parent sleeps for it (`FlagsMeant`), `waiting` is up because that child has died (`UpsMeant`), unless the
parent is misled, and a dead child's element has its status until a wait has taken it (`DeadKept`). That a child stays in its parent's list is what keeps
`Misled` true once it is.

**Files.** `FilesHeld` links descriptors and the executable to struct files. The counts of the inodes are cardinalities of sets of
struct files (`Counted`); a removed file's sectors are still its own until the last close.

**Virtual memory.** The theorems are for a kernel that runs its tasks in turn. With two processes the properties fail, as run
`vm_isolation` shows: eviction clears the page directory of the process that evicts, not that of the
owner. `FramesMapped` and `TableRight` say who maps which frame and that the frame table lists exactly these; `StepsRight`
keeps a page out of both tables while it is being loaded or faulted in; `SlotsRight` and
`DataRight` follow a page from frame to slot and back. `CausesRight` ties the panics to their causes: `swap_IO_lock` is kept only by an eviction that found
nothing, which happens only when copies have the pool, and one that succeeded leaves its process a frame, since that process is alone.

**User programs of project 1.** `Owned` states for each of the two pools that every page is free or has one use; a use of a kernel page is
a program and a role (thread, name, directory, the table at an index), a use of a frame is an entry of a program's table. Three lemmas say
how it is kept when uses take or give back (`OwnedTake`, `OwnedGive`, `OwnedSame`), and every allocation and failure path
comes down to one of them. `StagesRight` says which pages each point goes with. `EntrySet` (tables are not shared, so writing one
entry changes no other) carries `TlbRight` and `UsesMarked`. `SegmentsRight`, about the headers being read, is an
invariant of its own.

What `load()` puts together page by page, `ImageSoFar` states at every point on the way: the pages mapped are exactly those `Placed` by the headers read and the
rounds made so far, and each holds the bytes of its segment. No induction over the program headers is needed, since the
state itself says how far the loop has come: `SegmentAt` ties the counts and addresses of `load_segment()` (`read_bytes`, `zero_bytes`, the position
in the file, `upage`) to what is left of the segment. `ValidPages` shows that sums of a validated header's fields do not wrap around, so that none of the
ASSERTs on the way fails; for fields wider than an address they could. `SameImage` says that no step of another program touches a
page table or a frame of one that is loading, which comes from the one owner each page has.

**Disks.** `DiskProofs` begins with the scheduler of project 2: `KernelInv` (types, a thread on the one list its status calls for)
is re-established by every way into `schedule()` (`ScheduleKernel`), and `Suspended` and `Queues` say who waits at which semaphore.
`CallPoints` and `Booting` say who can be inside a request, `LockHeld` that this is the holder of the channel's lock; `ide_init()` works without
the lock, while there is no other thread that could ask for it. `DeviceAt` gives for each point of a request what the
disk can be doing then. `Completions` counts, from the command on, the interrupt that the disk is going to raise and compares it with what
is owed to the requester (`Owed`); the count of the semaphore alone is not inductive, since a read of the status register takes a pending
interrupt away. `MediaRight` says that a sector holds what was last written to it, except the one that is just being stored: this is why a thread that
a spurious interrupt lets through too early still reads the right data, after it has polled `BSY`. After an idle timeout a request may find the disk
storing, or its command ignored; then it is `Mixed`, its sector and the disk's are both in doubt, and `DeviceAt` says so wherever it allows the disk to be
elsewhere than the request supposes. A panic on a sound disk is then that of a mixed request. That no access leaves its disk comes from
`BlocksRight`: what is registered has passed `FoundPartition`, whose test for wrapping gives `start + size` its value as a number.

**Allocators.** `PageRight` says of each page that it is in one use (an arena, in a call of one thread, or in a run that one thread has) and that its bit
is set exactly then. What makes this inductive although `palloc_free_multiple()` clears bits without the lock is `Scanning`: the bits that
`bitmap_scan()` has found free, or is going to set, are free, which no clearing can disturb and only the holder of the pool's lock could. `BlocksRight` gives every block
one place and says that the arena `free()` looks at is the one of its block. `ArenaRight` counts: when `free_cnt` reaches the last block, no other block of the
arena can be in use; and an arena that is all free exists only while `malloc()` is about to take from it, because the list was empty when it
was made (`Asking`). The theorem is about the specification of `Memory`; the run `library` checks the same property on the machine that also makes the sequential calls.

Only model-checked:

- liveness: `SleeperWakes`, `CallsAnswered`, `WriterWoken` and the violated `AcquireLeavesLoop`, as the prover does not handle
  fairness and ENABLED;
- `LinesWhole` and `QueuesKept` of `Chars`. The first compares a stream with the sub-stream of each writer, whose definition the prover
  could only use by induction over the stream; the second is left (see the plan);
- the properties of the sequential modules in `Library`: they have recursive operators, which the prover
  cannot use, and state what recursive functions compute.

## Not modelled

The switch to protected mode and the writes to device ports are machine code and I/O. `speaker` and
`shutdown` keep no state. The multi-level feedback queue scheduler does not exist in this
code (its functions are stubs). Tests and examples run on the kernel;
the models let a process make any call at any time instead. Of the host utilities the set-up of
sockets, terminals and timers is left out. Of the calls on files that overlap, only the closes of an exit beside a call are
modelled: `load()` beside `inode_open()` (`inode.c:118`) is not. Project 2's condition
variables and its copies of files that are the same as in project 1 have no second
model. In `Process` and `VM` `load` is a nondeterministic success, in `FileSys` an open and a
denial; `Loading` has its contents, for project 1.

## Plan

1. Proofs: `QueuesKept` of `Chars`, the ring buffer's order and its waiters, with the lemmas about `Sched` that `DiskProofs` begins with.
2. `FileSys` with calls that overlap: `load()` beside the others, with `inode_open()` in its steps.
