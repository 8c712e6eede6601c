------------------------------ MODULE Library ------------------------------
(***************************************************************************)
(* The kernel's services in use.  Threads allocate and free memory (module *)
(* Memory, whose state is that of the machine); and before any of it is    *)
(* allocated, a call into one of the sequential modules may be made, with  *)
(* an argument of Cases: unit says which, arg is the argument or, for a    *)
(* hash table, the terminal, the disk and the relay, the state that a      *)
(* sequence of calls has led to.                                           *)
(***************************************************************************)
EXTENDS Memory, Strings, Numbers, Format, Containers, Intq, Archive, Boot, Terminal, Traps,
        Storage, UserCalls, Relay

CONSTANTS
  Cases,                     \* the arguments to try in each unit
  HashElems, Keys, Characters, FileNames, FileSizes

VARIABLES unit, arg

Objects == [hash |-> HashStart, keys |-> TerminalStart, screen |-> TerminalStart,
            storage |-> do_format, relay |-> RelayStart("unix")]

LibraryInit == Init /\ unit = "memory" /\ arg = <<>>

Allocate == unit = "memory" /\ Next /\ UNCHANGED <<unit, arg>>

\* The machine has just started.
Fresh == unit = "memory" /\ Init
CallWith == Fresh /\ (\E u \in DOMAIN Cases : unit' = u /\ arg' \in Cases[u]) /\ UNCHANGED vars
NewObject == Fresh /\ (\E u \in DOMAIN Objects : unit' = u /\ arg' = Objects[u]) /\ UNCHANGED vars
Return ==
  /\ unit \notin {"memory"} \cup DOMAIN Objects
  /\ unit' = "memory" /\ arg' = <<>> /\ UNCHANGED vars

\* The next call on an object of unit u, which leads to one of the states S.
OnObject(u, S) == unit = u /\ arg' \in S /\ UNCHANGED <<vars, unit>>
HashCall == unit = "hash" /\ OnObject("hash", HashSteps(arg, HashElems))
KeyStroke == unit = "keys" /\ OnObject("keys", KeySteps(arg, Keys))
Printed == unit = "screen" /\ OnObject("screen", ScreenSteps(arg, Characters))
DiskCall == unit = "storage" /\ OnObject("storage", StorageSteps(arg, FileNames, FileSizes))
HostStep == unit = "relay" /\ OnObject("relay", RelaySteps(arg))

LibraryNext ==
  \/ Allocate
  \/ CallWith \/ Return \/ NewObject
  \/ HashCall \/ KeyStroke \/ Printed \/ DiskCall \/ HostStep

LibrarySpec == LibraryInit /\ [][LibraryNext]_<<vars, unit, arg>>

-----------------------------------------------------------------------------
\* string.c, stdlib.c, random.c, arithmetic.c, stdio.c, timer.c, pit.c and rtc.c: strings
\* are searched, copied where they overlap and cut into tokens; quotients are exact,
\* arrays sorted, sleeps right to the tick, times of one instant; integers read back
\* from their text within the buffer, and dumps are aligned.  (What memmove() returns when
\* it copies upwards, and the epoch of rtc_get_time(), are left out: neither is what the
\* function's comment says, see CopiesCopy and RtcCountsDays.)
TextAndNumbersRight ==
  CASE unit = "string" ->
         \A a, b \in 0..5 : /\ SearchesFind(arg, a, b) /\ TokensAreWords(arg, a, b)
                            /\ \A n \in 0..4 : CopiesCopy(arg, a, b, n)
    [] unit = "divide" -> Divides(arg)
    [] unit = "sort" -> SortsAndFinds(arg)
    [] unit = "random" -> RandomSound(arg)
    [] unit = "calibrate" -> DelaysWithinATick(arg)
    [] unit = "pit" -> CountsFit(arg)
    [] unit = "rtc" -> RtcOneInstant(arg, 3)
    [] unit = "date" -> RtcCountsDays(arg[1], arg[2])
    [] unit = "integer" -> IntegersReadBack(arg[1], arg[2], arg[3], arg[4], arg[5])
    [] unit = "output" -> OutputBounded(arg[1], arg[2])
    [] unit = "dump" -> DumpAligned(arg[1], arg[2], arg[3])
    [] unit = "size" -> SizeRounded(arg)
    [] OTHER -> TRUE

\* list.c, hash.c, bitmap.c and intq.c: the lists that pointer surgery leaves are the sequences
\* meant, sorted stably; a hash table finds what was put in through every growth,
\* shrinking and failed allocation; a bitmap's operations are those on sets,
\* and a ring buffer's those on a queue.
ContainersRight ==
  CASE unit = "list" -> ListsCorrect(arg)
    [] unit = "hash" -> HashCorrect(arg, HashElems)
    [] unit = "bitmap" -> BitmapsCorrect(arg[1], arg[2], arg[3])
    [] unit = "queue" -> QueueIsFifo(arg[1], arg[2])
    [] OTHER -> TRUE

\* The way into the kernel: the boot loader's search and the partition tables, the command
\* line, pools and page tables at start; then descriptors, interrupt controllers,
\* handlers, the stack frames of interrupts and of thread switches, and the stacks
\* that carry a program's command line and the arguments of its system calls.
KernelEntered ==
  CASE unit = "loader" -> LoaderFindsKernel(arg)
    [] unit = "partitions" -> PrimaryPartitionsFound(arg)
    [] unit = "memory_size" -> BootMapsMemory(arg)
    [] unit = "arguments" -> ArgumentsRead(arg[1], arg[2])
    [] unit = "commands" -> CommandsRun(arg)
    [] unit = "roles" -> RolesDistinct(arg)
    [] unit = "pools" -> PoolsDisjoint(arg[1], arg[2])
    [] unit = "blocks" -> BlocksFit(arg[1], arg[2])
    [] unit = "paging" -> KernelMapped(arg[1], 3, arg[2])
    [] unit = "descriptor" -> DescriptorsRight(arg[1], arg[2])
    [] unit = "pic" -> InterruptsComeAgain(arg[1], arg[2], arg[3])
    [] unit = "handlers" -> HandlersRight(arg)
    [] unit = "frame" -> FrameRestored(arg[1], arg[2], arg[3])
    [] unit = "switch" -> SwitchesRestore(arg)
    [] unit = "command_line" -> ArgumentsPassed(arg)
    [] unit = "system_call" -> CallsArrive(arg[1], arg[2], arg[3])
    [] OTHER -> TRUE

\* kbd.c and vga.c: the shift state follows the keys through every order of presses and
\* releases, and the screen shows the end of what has been printed; and the programs of
\* utils/ that carry it to the tests lose and double nothing.
TerminalRight ==
  CASE unit = "keys" -> KeysDecoded(arg)
    [] unit = "screen" -> ScreenShows(arg)
    [] unit = "relay" -> RelayedInOrder(arg)
    [] OTHER -> TRUE

\* proj2/src/filesys and fsutil.c: after a crash between any two writes of create, remove
\* and close the disk is one to go on with; reads and writes move exactly the
\* bytes meant; and the files of an archive come back as they went in.
StorageRight ==
  CASE unit = "storage" -> DiskConsistent(arg)
    [] unit = "bytes" -> BytesMoved(arg[1], arg[2], arg[3], arg[4])
    [] unit = "header" -> HeadersIntact(arg[1], arg[2], arg[3])
    [] unit = "archive" -> ArchiveRoundTrip(arg[1], arg[2])
    [] OTHER -> TRUE
=============================================================================
