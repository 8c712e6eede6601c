----------------------------- MODULE MCLibrary -----------------------------
(***************************************************************************)
(* Module Library: two threads that share four pages, and the arguments of *)
(* the sequential calls.  Words, buffers, screens and disks are a few      *)
(* units wide, and the arguments reach across every one of their ends.     *)
(***************************************************************************)
EXTENDS Library, TLC

CONSTANTS t1, t2

TwoThreads == {t1, t2}
OneOrTwo == {1, 2}
ThreadSymmetry == Permutations(TwoThreads)

\* A char of 4 bits, a short of 7 and the rest of 12.
MCTypeBits == [t \in {"CHAR", "SHORT", "INT", "INTMAX", "LONG", "LONGLONG", "PTRDIFFT", "SIZET", "ptr"} |->
                 CASE t = "CHAR" -> 4 [] t = "SHORT" -> 7 [] OTHER -> 12]

Upto(n) == 0..n
Contents == {SubSeq(<<1, 2, 3>>, 1, n) : n \in 0..3}
Nondecreasing(n, max) == {t \in [1..n -> Upto(max)] : \A i \in 1..(n - 1) : t[i] <= t[i + 1]}
Bytes6 == <<0, 48, 97, 255, 16, 102>>

Partition(boots, starts, sizes) == [boot : boots, type : {0, 5, 32, 33}, start : starts, size : sizes]
Drives == [signature : {6, 7, 8},
           parts : {<<[boot |-> b, type |-> 32, start |-> s, size |-> z],
                      [boot |-> c, type |-> 32, start |-> 7, size |-> 1]>> :
                    b \in {0, 128}, c \in {0, 128}, s \in {1, 15}, z \in {0, 2, 9}}]
Logical == 3 :> [signature |-> 7, parts |-> <<[boot |-> 0, type |-> 33, start |-> 1, size |-> 2]>>]
Options == [option : {TRUE}, name : {"-q", "-r", "-filesys", "-rs", "-x"}, value : {"", "hdb1"}]
Actions == [option : {FALSE}, name : {"run", "ls", "cat", "huh"}, value : {""}]
Addresses == {{}, {0}, {31}, 0..31, {15, 16}, {4, 7, 23, 24}, {b \in 0..31 : b % 3 = 1}}
Under == {<<<<"reg", "x">>>>, <<<<"reg", "x">>, Num(3), Num(4)>>}

MCCases == [
  string |-> {m \in [0..5 -> 0..2] : m[5] = 0},
  divide |-> Upto(255),
  sort |-> BoundedSeq(0..3, 4),
  random |-> [1..2 -> 0..3],
  calibrate |-> {1024, 1025, 1500, 2047, 5000, 99999},
  pit |-> {19, 20, 100, 440, 20000},
  rtc |-> Nondecreasing(4, 8),
  date |-> {0, 4, 70, 99} \X (1..12),
  integer |-> {-64, -8, -1, 0, 5, 8, 1023, -2047} \X {"CHAR", "SHORT", "SIZET"}
              \X {<<>>, <<"-">>, <<"0">>, <<"+">>, <<" ">>, <<"'">>, <<"#">>, <<"-", "0">>, <<"+", " ">>, <<"0", "'">>}
              \X {-5, 0, 3, 6} \X {-1, 0, 1, 3},
  output |-> {[i \in 1..n |-> Digits[i]] : n \in 0..7} \X Upto(5),
  dump |-> {0, 1, 3, 4, 6} \X {SubSeq(Bytes6, 1, n) : n \in 0..6} \X BOOLEAN,
  size |-> {0, 1, 2, 1023, 1024, 1025, 1048575, 1048576, 5000000, 1073741824},
  list |-> BoundedSeq(0..2, 4),
  bitmap |-> UNION {{n} \X (SUBSET (0..(n - 1))) \X {0, 5, 7} : n \in 0..6},
  queue |-> (2..4) \X [1..9 -> {"put", "get"}],
  loader |-> {<<>>} \cup {<<d>> : d \in Drives} \cup {<<d, e>> : d, e \in {x \in Drives : x.parts[1].start = 1}},
  partitions |-> [size : {10}, tables : {(0 :> [signature |-> g, parts |-> <<p, q>>]) @@ Logical : g \in {6, 7},
                    p \in Partition({0, 128}, {1, 3, 15}, {0, 2, 9}), q \in Partition({0}, {3}, {0, 9})}],
  memory_size |-> {0, 1024, 15360, 64512, 65535},
  arguments |-> BoundedSeq({<<>>, <<1>>, <<2, 1>>}, 4) \X Upto(2),
  commands |-> {o \o a : o \in BoundedSeq(Options, 1), a \in BoundedSeq(Actions, 3)}
               \cup {o \o <<>> : o \in [1..2 -> Options]},
  roles |-> BoundedSeq([name : {"a", "b"}, type : {"filesys", "swap", "kernel"}], 3),
  pools |-> {256, 258, 259, 260, 300, 1024, 16384} \X {0, 1, 5, 100, 100000},
  blocks |-> {0, 1, 16, 17, 142, 1000, 1024, 1025, 4084, 4085, 8000, 19990, 19999} \X {0, 1, 2, 16, 17, 142, 4085, 19999},
  paging |-> Upto(7) \X (SUBSET (1..3)),
  descriptor |-> Addresses \X Upto(3),
  pic |-> Upto(4) \X (SUBSET {0, 2, 7}) \X (32..47),
  handlers |-> {[v \in 0..255 |-> Shift(BitSet(v), 4) \cup {31}]},
  frame |-> ((0..14) \cup (16..19) \cup (32..48)) \X BOOLEAN \X Under,
  command_line |-> BoundedSeq({1, 2, 3}, 6) \ {<<>>},
  system_call |-> UNION {{call} \X [1..Stubs[call][2] -> {-1, 7, 14}] \X {<<>>, <<9>>} : call \in DOMAIN Stubs},
  switch |-> {<<>>, <<"x">>, <<"x", "y">>},
  bytes |-> [start : {4}, length : Upto(5)] \X Upto(6) \X {[i \in 1..n |-> i] : n \in Upto(4)} \X Upto(6),
  header |-> BoundedSeq({46, 47, 97}, 3) \X {Regular, Directory} \X {0, 1, 8, 60},
  archive |-> (BoundedSeq([name : {<<97>>}, data : Contents], 1)
               \cup [name : {<<97>>}, data : Contents] \X [name : {<<97, 97>>}, data : Contents]) \X {0, 7}]

MCHashElems == {<<k, 1>> : k \in 1..5} \cup {<<1, 2>>}
MCKeys == {42, 54, 56, Prefix + 56, 29, Prefix + 29, 58, 30, 3, 83, Prefix + 83}
MCCharacters == {"a", "\n", "\f", "backspace", "\r", "\t", "bell"}
MCFileNames == {"a", "b", "too_long"}
MCFileSizes == {0, 1, 2}
=============================================================================
