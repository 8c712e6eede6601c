----------------------------- MODULE UserCalls -----------------------------
(***************************************************************************)
(* What passes between a user program and the kernel on the program's      *)
(* stack, proj2/src: the command line, laid out by setup_stack()           *)
(* (userprog/process.c), and the arguments of system calls, pushed by the  *)
(* stubs of lib/user/syscall.c and read by syscall_handler()               *)
(* (userprog/syscall.c).                                                   *)
(***************************************************************************)
EXTENDS Strings, FiniteSets

CONSTANTS
  StackTop,     \* PHYS_BASE, a multiple of 4
  StackSize     \* bytes of the page below it (PGSIZE)

ASSUME UserCallsAssumption ==
  StackTop \in Nat /\ StackSize \in 1..StackTop /\ StackTop % 4 = 0

-----------------------------------------------------------------------------
(* setup_stack().  The page holds a character or 0 at an address; a word   *)
(* has its value at its first address and Part at the other three.         *)

Blank1 == 1           \* ' '
Part == -1
Torn == -2            \* a word read from addresses that hold no whole one

StoreWord(page, a, v) ==
  [b \in DOMAIN page |-> IF b = a THEN v ELSE IF b \in (a + 1)..(a + 3) THEN Part ELSE page[b]]
LoadWord(page, a) ==
  IF a \notin DOMAIN page \/ a + 3 \notin DOMAIN page THEN Torn
  ELSE IF \A i \in 1..3 : page[a + i] = Part THEN page[a]
  ELSE IF \A i \in 0..3 : page[a + i] = 0 THEN 0 ELSE Torn
StoreText(page, a, s) ==
  [b \in DOMAIN page |-> IF b \in a..(a + Len(s) - 1) THEN s[b - a + 1]
                         ELSE IF b = a + Len(s) THEN NUL ELSE page[b]]

\* argc: the runs of spaces and one.
CountArgs(line) ==
  1 + Cardinality({i \in DOMAIN line : line[i] = Blank1 /\ (i = 1 \/ line[i - 1] # Blank1)})

\* The page fn_copy, and behind the command line the string " " of delimiters.
FnCopy(line) ==
  [a \in 0..(Len(line) + 2) |->
     IF a < Len(line) THEN line[a + 1] ELSE IF a = Len(line) + 1 THEN Blank1 ELSE NUL]

\* Where things go: the strings, argv[], and the stack pointer below argv, argc
\* and the return address.
StringsAt(line) == StackTop - (Len(line) + 1)
WordAlign(line) == 4 - ((Len(line) + 1) % 4)
ArgvAt(line) == StringsAt(line) - WordAlign(line) - 4 - 4 * CountArgs(line)
InitialEsp(line) == ArgvAt(line) - 12

\* The loop that copies each word, and its address into argv[].
RECURSIVE CopyWords(_, _, _, _)
CopyWords(page, tokens, bottomForArgs, bottomForAddresses) ==
  IF tokens = <<>> THEN page
  ELSE LET word == tokens[1][2]
       IN CopyWords(StoreWord(StoreText(page, bottomForArgs, word), bottomForAddresses, bottomForArgs),
                    Tail(tokens), bottomForArgs + Len(word) + 1, bottomForAddresses + 4)

\* setup_stack(): the page that the program starts with.
ArgumentPage(line) ==
  LET zero == [a \in (StackTop - StackSize)..(StackTop - 1) |-> 0]
      argv == StoreWord(zero, ArgvAt(line) - 4, ArgvAt(line))
      argc == StoreWord(argv, ArgvAt(line) - 8, CountArgs(line))
  IN CopyWords(argc, Tokens(FnCopy(line), 0, Len(line) + 1), StringsAt(line), ArgvAt(line))

-----------------------------------------------------------------------------
(* System calls.  A stack is the sequence of words from the stack pointer  *)
(* up to PHYS_BASE.                                                        *)

\* The functions of lib/user/syscall.c: the number and how many arguments.
Stubs == [
  halt |-> <<0, 0>>, exit |-> <<1, 1>>, exec |-> <<2, 1>>, wait |-> <<3, 1>>,
  create |-> <<4, 2>>, remove |-> <<5, 1>>, open |-> <<6, 1>>, filesize |-> <<7, 1>>,
  read |-> <<8, 3>>, write |-> <<9, 3>>, seek |-> <<10, 2>>, tell |-> <<11, 1>>,
  close |-> <<12, 1>>, mmap |-> <<13, 2>>, munmap |-> <<14, 1>>, chdir |-> <<15, 1>>,
  mkdir |-> <<16, 1>>, readdir |-> <<17, 2>>, isdir |-> <<18, 1>>, inumber |-> <<19, 1>>]

\* syscall0() to syscall3(): the stack at `int $0x30', and after the `addl'.
RECURSIVE PushArgs(_, _)
PushArgs(stack, args) ==
  IF args = <<>> THEN stack
  ELSE PushArgs(<<args[Len(args)]>> \o stack, SubSeq(args, 1, Len(args) - 1))
StackAtTrap(call, args, stack) == <<Stubs[call][1]>> \o PushArgs(stack, args)
StackAfter(call, stack) == SubSeq(stack, Stubs[call][2] + 2, Len(stack))

\* argCounts[]: how many arguments are checked for each number.
argCounts == <<0, 1, 1, 1, 1, 1, 1, 1, 3, 3, 2, 1, 1, 2, 1>>
\* How many words each case of the switch reads.  SYS_MMAP takes the address of
\* its second argument for the argument.
WordsRead == <<0, 1, 1, 1, 2, 1, 1, 1, 3, 3, 2, 1, 1, 1, 1>>

\* addressCheck() of the i-th word from the stack pointer on.
InUserSpace(stack, i) == i <= Len(stack)

Killed == [number |-> -1, args |-> <<>>]
\* syscall_handler(): the number and the arguments it goes by, or doBadExit().
syscall_handler(stack) ==
  IF \/ ~InUserSpace(stack, 1)
     \/ stack[1] \notin 0..14
     \/ \E i \in 1..argCounts[stack[1] + 1] : ~InUserSpace(stack, 1 + i)
  THEN Killed
  ELSE [number |-> stack[1], args |-> SubSeq(stack, 2, 1 + WordsRead[stack[1] + 1])]

-----------------------------------------------------------------------------
(* What they promise.                                                      *)

\* The first characters of the words of a command line, and the n-th word.
WordStarts(line) == {i \in DOMAIN line : line[i] # Blank1 /\ (i = 1 \/ line[i - 1] = Blank1)}
NthWord(line, n) ==
  LET start == CHOOSE i \in WordStarts(line) : Cardinality({j \in WordStarts(line) : j <= i}) = n
      ends == {i \in DOMAIN line : i >= start /\ (i = Len(line) \/ line[i + 1] = Blank1)}
  IN SubSeq(line, start, CHOOSE e \in ends : \A f \in ends : e <= f)
PageText(page, a) == IF a \in DOMAIN page THEN Text(page, a) ELSE <<Torn>>

\* main() gets the words of the command line: the stack pointer is aligned and has
\* a return address, argc and argv above it; argv[] points to the words and
\* ends with a null pointer, and nothing has been written over anything.  (Spaces
\* before the first and after the last word may be counted in argc.)
MainGetsWords(line, page, esp, argv) ==
  LET n == Cardinality(WordStarts(line))
      spare == (IF line[1] = Blank1 THEN 1 ELSE 0) + (IF line[Len(line)] = Blank1 THEN 1 ELSE 0)
  IN /\ esp % 4 = 0
     /\ LoadWord(page, esp) = 0
     /\ LoadWord(page, esp + 4) \in n..(n + spare)
     /\ \A i \in 1..n : PageText(page, LoadWord(page, argv + 4 * (i - 1))) = NthWord(line, i)
     /\ \A i \in n..LoadWord(page, esp + 4) : LoadWord(page, argv + 4 * i) = 0

\* A command line with a word in it for which the page has room.
ArgumentsPassed(line) ==
  WordStarts(line) # {} /\ InitialEsp(line) >= StackTop - StackSize =>
    MainGetsWords(line, ArgumentPage(line), InitialEsp(line),
                  LoadWord(ArgumentPage(line), InitialEsp(line) + 8))

\* The handler gets the number and the arguments that the program has passed, and
\* the program its stack back; a call that the kernel does not know ends it.  The
\* exception is mmap(), for whose address the handler takes that of its place on
\* the stack (syscall.c:378).
CallsArrive(call, args, stack) ==
  LET got == syscall_handler(StackAtTrap(call, args, stack))
  IN /\ StackAfter(call, StackAtTrap(call, args, stack)) = stack
     /\ IF Stubs[call][1] > 14 THEN got = Killed
        ELSE /\ got.number = Stubs[call][1]
             /\ call # "mmap" => got.args = args
=============================================================================
