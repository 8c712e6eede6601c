------------------------------ MODULE Numbers ------------------------------
(***************************************************************************)
(* Arithmetic and tables of the kernel, from proj2/src: the 64-bit         *)
(* division of lib/arithmetic.c, sort() and binary_search() of              *)
(* lib/stdlib.c, the generator of lib/random.c, and the conversions of     *)
(* devices/timer.c, pit.c, speaker.c and rtc.c.                            *)
(***************************************************************************)
EXTENDS Integers, Sequences, FiniteSets

CONSTANTS
  WordBits,     \* bits of a uint32_t; a uint64_t has twice as many
  Bytes         \* values of a byte in random.c (256)

ASSUME NumbersAssumption == WordBits \in {2, 4, 8} /\ Bytes \in Nat \ {0}

Word == 2 ^ WordBits
DoubleWord == Word * Word

-----------------------------------------------------------------------------
(* arithmetic.c.  Trap is a divide error.                                  *)

Trap == -1

Divl(n, d) == IF d = 0 \/ n \div d >= Word THEN Trap ELSE n \div d

\* The steps of nlz() for shifts by h, h / 2, ..., 1.
RECURSIVE NlzFrom(_, _)
NlzFrom(x, h) ==
  IF h = 0 THEN 0
  ELSE IF x <= 2 ^ (WordBits - h) - 1 THEN h + NlzFrom(x * 2 ^ h, h \div 2)
       ELSE NlzFrom(x, h \div 2)

Nlz(x) == NlzFrom(x, WordBits \div 2)

Udiv64(n, d) ==
  LET n1 == n \div Word
      n0 == n % Word
      s == Nlz(d \div Word)
      q0 == Divl(n \div 2, (d * 2 ^ s) \div Word)
      q == q0 \div 2 ^ (WordBits - 1 - s)
      low == Divl(Word * (n1 % d) + n0, d)
  IN CASE d < Word -> IF low = Trap THEN low ELSE low + Word * (n1 \div d)
       [] d >= Word /\ n < d -> 0
       [] d >= Word /\ n >= d /\ q0 = Trap -> Trap
       [] OTHER -> IF (n - (q - 1) * d) % DoubleWord < d THEN q - 1 ELSE q

\* umod64() returns a uint32_t.
Umod64(n, d) == (n - d * Udiv64(n, d)) % Word

\* Two's complement: the signed value of the low bits of x.
Signed(x, modulus) == IF x % modulus < modulus \div 2 THEN x % modulus
                      ELSE (x % modulus) - modulus

Sdiv64(n, d) ==
  LET q_abs == Udiv64(IF n >= 0 THEN n ELSE -n, IF d >= 0 THEN d ELSE -d)
  IN Signed(IF (n < 0) = (d < 0) THEN q_abs ELSE -q_abs, DoubleWord)

Smod64(n, d) == Signed(n - d * Sdiv64(n, d), Word)

\* The quotient rounded towards zero.
Quotient(n, d) ==
  LET q == (IF n < 0 THEN -n ELSE n) \div (IF d < 0 THEN -d ELSE d)
  IN IF (n < 0) = (d < 0) THEN q ELSE -q

\* The division routines of one dividend n: they do not trap, the quotients are
\* right, and so are the remainders that fit into the word that is returned.
Divides(n) ==
  /\ \A d \in 1..(DoubleWord - 1) :
       /\ Udiv64(n, d) = n \div d
       /\ n % d < Word => Umod64(n, d) = n % d
  /\ \E sn \in {Signed(n, DoubleWord)} :
       \A d \in ((-(DoubleWord \div 2))..((DoubleWord \div 2) - 1)) \ {0} :
         \E q \in {Quotient(sn, d)} :
           /\ Sdiv64(sn, d) = Signed(q, DoubleWord)
           /\ sn - d * q \in (-(Word \div 2))..((Word \div 2) - 1) => Smod64(sn, d) = sn - d * q

-----------------------------------------------------------------------------
(* stdlib.c.                                                               *)

\* do_swap().
Swapped(a, i, j) == [a EXCEPT ![i] = a[j], ![j] = a[i]]

RECURSIVE Heapify(_, _, _)
Heapify(a, i, cnt) ==
  LET left == 2 * i
      right == 2 * i + 1
      max0 == IF left <= cnt /\ a[left] > a[i] THEN left ELSE i
      max == IF right <= cnt /\ a[right] > a[max0] THEN right ELSE max0
  IN IF max = i THEN a ELSE Heapify(Swapped(a, i, max), max, cnt)

RECURSIVE BuildHeap(_, _)
BuildHeap(a, i) == IF i = 0 THEN a ELSE BuildHeap(Heapify(a, i, Len(a)), i - 1)

RECURSIVE SortHeap(_, _)
SortHeap(a, i) == IF i <= 1 THEN a ELSE SortHeap(Heapify(Swapped(a, 1, i), 1, i - 1), i - 1)

HeapSort(a) == SortHeap(BuildHeap(a, Len(a) \div 2), Len(a))

\* The loop of binary_search() between the indexes first and last (exclusive);
\* 0 is a null pointer.
RECURSIVE BinarySearch(_, _, _, _)
BinarySearch(key, a, first, last) ==
  LET middle == first + (last - first) \div 2
  IN CASE first >= last -> 0
       [] first < last /\ key < a[middle] -> BinarySearch(key, a, first, middle)
       [] first < last /\ key > a[middle] -> BinarySearch(key, a, middle + 1, last)
       [] OTHER -> middle

\* sort() orders the elements of a and keeps each of them, and what
\* binary_search() then finds is there, whenever there is one.
SortsAndFinds(a) ==
  LET s == HeapSort(a)
      count(t, x) == Cardinality({i \in DOMAIN t : t[i] = x})
  IN /\ DOMAIN s = DOMAIN a
     /\ \A i \in DOMAIN a : count(s, a[i]) = count(a, a[i])
     /\ \A i \in 1..(Len(s) - 1) : s[i] <= s[i + 1]
     /\ \A key \in -1..4 :
          LET found == BinarySearch(key, s, 1, Len(s) + 1)
          IN IF count(s, key) = 0 THEN found = 0 ELSE found \in DOMAIN s /\ s[found] = key

-----------------------------------------------------------------------------
(* random.c.  The state is [s, i, j].                                      *)

\* swap_byte() of s[i] and s[j].
SwapByte(s, i, j) == [s EXCEPT ![i] = s[j], ![j] = s[i]]

RECURSIVE KeySchedule(_, _, _, _)
KeySchedule(s, seed, i, j) ==
  IF i = Bytes THEN s
  ELSE LET k == (j + s[i] + seed[(i % Len(seed)) + 1]) % Bytes
       IN KeySchedule(SwapByte(s, i, k), seed, i + 1, k)

RandomInit(seed) ==
  [s |-> KeySchedule([i \in 0..(Bytes - 1) |-> i], seed, 0, 0), i |-> 0, j |-> 0]

\* One round of random_bytes(): the new state and the byte.
RandomByte(r) ==
  LET i == (r.i + 1) % Bytes
      j == (r.j + r.s[i]) % Bytes
      s == SwapByte(r.s, i, j)
  IN [state |-> [s |-> s, i |-> i, j |-> j], byte |-> s[(s[i] + s[j]) % Bytes]]

RECURSIVE RandomBytes(_, _)
RandomBytes(r, size) ==
  IF size = 0 THEN <<>>
  ELSE <<RandomByte(r)>> \o RandomBytes(RandomByte(r).state, size - 1)

\* The table stays a permutation of the byte values, so that every byte can
\* still come, and equal seeds give equal bytes whatever has been drawn before.
RandomSound(seed) ==
  LET draws == RandomBytes(RandomInit(seed), Bytes + 1)
  IN \A k \in DOMAIN draws :
       /\ {draws[k].state.s[i] : i \in 0..(Bytes - 1)} = 0..(Bytes - 1)
       /\ draws[k].byte \in 0..(Bytes - 1)

-----------------------------------------------------------------------------
(* timer.c, pit.c, speaker.c and rtc.c.                                    *)

TIMER_FREQ == 100
PIT_HZ == 1193180

\* too_many_loops() on a machine that makes `limit' loops within a tick.
TooManyLoops(loops, limit) == loops > limit

RECURSIVE LargestPower(_, _)
LargestPower(loops, limit) ==
  IF TooManyLoops(loops * 2, limit) THEN loops ELSE LargestPower(loops * 2, limit)

\* The second loop of timer_calibrate(): each of the next nine bits is tried
\* alone with the high bit.
Refine(high_bit, limit) ==
  LET bits == {b \in {high_bit \div 2 ^ k : k \in 1..9} : ~TooManyLoops(high_bit + b, limit)}
      sum[k \in 0..9] == IF k = 0 THEN high_bit
                         ELSE sum[k - 1] + (IF high_bit \div 2 ^ k \in bits
                                            THEN high_bit \div 2 ^ k ELSE 0)
  IN sum[9]

TimerCalibrate(limit) == Refine(LargestPower(1024, limit), limit)

\* real_time_sleep() and real_time_delay(): ticks to sleep, or loops to spin.
RealTimeSleep(num, denom, loops_per_tick) ==
  LET ticks == (num * TIMER_FREQ) \div denom
  IN IF ticks > 0 THEN [ticks |-> ticks, loops |-> 0]
     ELSE [ticks |-> 0,
           loops |-> (((loops_per_tick * num) \div 1000) * TIMER_FREQ) \div (denom \div 1000)]

\* The counter value of pit_configure_channel(); 0 stands for 65536.
PitCount(frequency) ==
  CASE frequency < 19 -> 0
    [] frequency > PIT_HZ -> 2
    [] OTHER -> ((PIT_HZ + frequency \div 2) \div frequency) % 65536

Off == -1

\* speaker_on(): the tone, or Off for speaker_off().
SpeakerOn(frequency) ==
  IF frequency >= 20 /\ frequency <= 20000 THEN PitCount(frequency) ELSE Off

BcdToBin(x) == (x % 16) + (x \div 16) * 10

DaysPerMonth == <<31, 28, 31, 30, 31, 30, 31, 31, 30, 31, 30, 31>>

\* What rtc_get_time() makes of the registers, in days and seconds of the day.
RtcTime(r) ==
  LET year == BcdToBin(r.year) + (IF BcdToBin(r.year) < 70 THEN 30 ELSE -70)
      mon == BcdToBin(r.mon)
      upTo[i \in 0..12] == IF i = 0 THEN 0 ELSE upTo[i - 1] + DaysPerMonth[i]
  IN [days |-> year * 365 + (IF year = 0 THEN 0 ELSE (year - 1) \div 4) + upTo[mon]
               + (IF mon > 2 /\ year % 4 = 0 THEN 1 ELSE 0) + BcdToBin(r.mday) - 1,
      secs |-> BcdToBin(r.hour) * 3600 + BcdToBin(r.min) * 60 + BcdToBin(r.sec)]

\* The reads of the registers of a clock with S seconds to a minute, of which
\* the first is made at time t[1], the last one (of the seconds again) at
\* t[4]; the loop accepts them if the seconds agree.
RtcRead(t, S) == [sec |-> t[1] % S, min |-> t[2] \div S, again |-> t[4] % S]

RtcAccepts(t, S) == RtcRead(t, S).sec = RtcRead(t, S).again

\* Calibration finds no fewer loops than a tick has, but for the bits it does not
\* look at, and less than twice as many.  A sleep is short by less than a tick,
\* since the ticks are rounded down, and never long; a delay of less than a tick
\* is short by less than TIMER_FREQ loops, and never long.
DelaysWithinATick(limit) ==
  LET lpt == TimerCalibrate(limit)
  IN /\ lpt < 2 * limit
     /\ limit - lpt < LargestPower(1024, limit) \div 512
     /\ \A num \in {1, 5, 99, 1000} :
          LET sleep == RealTimeSleep(num, 1000, lpt)
          IN \/ /\ sleep.ticks > 0
                /\ sleep.ticks * 1000 <= num * TIMER_FREQ
                /\ num * TIMER_FREQ < (sleep.ticks + 1) * 1000
             \/ /\ sleep.ticks = 0 /\ num * TIMER_FREQ < 1000
                /\ sleep.loops <= (lpt * num * TIMER_FREQ) \div 1000
                /\ sleep.loops > (lpt * num * TIMER_FREQ) \div 1000 - TIMER_FREQ

\* The counter fits 16 bits, is never the count of 1 that mode 2 forbids for a
\* tone or the timer, and is the nearest to the frequency asked for.
CountsFit(frequency) ==
  LET c == IF PitCount(frequency) = 0 THEN 65536 ELSE PitCount(frequency)
  IN frequency \in 19..20000 =>
       /\ c \in 2..65535
       /\ 2 * c * frequency \in (2 * PIT_HZ - frequency)..(2 * PIT_HZ + frequency)
       /\ SpeakerOn(frequency) \in {Off, c}

\* The registers are read while the clock runs, and a minute may end between
\* two reads: what the loop accepts is one instant.
RtcOneInstant(t, S) ==
  t[4] - t[1] < S /\ RtcAccepts(t, S) =>
    \E now \in t[1]..t[4] : RtcRead(t, S).sec = now % S /\ RtcRead(t, S).min = now \div S

Bcd(n) == 16 * (n \div 10) + (n % 10)

\* From one day of a month to the next the time grows by a day, and within a day
\* it counts the seconds: different times of a month give different seeds.  It is
\* not the time since 1970 that rtc.c:40 speaks of: the loop at :86 counts the
\* days of the current month in full, on top of those before it.
RtcCountsDays(year, mon) ==
  LET at(mday, sec) == RtcTime([year |-> Bcd(year), mon |-> Bcd(mon), mday |-> Bcd(mday),
                                hour |-> Bcd(23), min |-> Bcd(59), sec |-> Bcd(sec)])
  IN /\ \A d \in 1..27 : at(d + 1, 0).days = at(d, 0).days + 1
     /\ at(1, 0).days >= 0
     /\ at(1, 59).secs = 24 * 3600 - 1
=============================================================================
