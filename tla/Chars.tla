------------------------------- MODULE Chars -------------------------------
(***************************************************************************)
(* Characters in and out, on the kernel of module Sched:                   *)
(* proj2/src/devices/intq.c, serial.c and input.c, the buffer end of       *)
(* kbd.c, and lib/kernel/console.c.                                        *)
(*                                                                         *)
(* Points of at[t]:                                                        *)
(*   "console"                      acquire_console(), interrupts off      *)
(*   "line"                         between two characters of a line       *)
(*   "put", "put_lock", "put_woken" intq_putc() of txq, its lock_acquire() *)
(*                                  and the return of its wait()           *)
(*   "get", "get_lock", "get_woken" intq_getc() of the input buffer        *)
(* All but "line" are with interrupts off.                                 *)
(*                                                                         *)
(* A character carries what the properties need: who wrote it and its      *)
(* place in the line, or which device it came from.                        *)
(***************************************************************************)
EXTENDS Sched, Intq

CONSTANTS
  None,
  TxSlots, InSlots,      \* slots of txq and of input (INTQ_BUFSIZE for both);
                         \* one of them stays free
  LineLength,            \* characters of a line
  Readers, Writers,      \* the threads that call input_getc(), putbuf()
  Console, TxLock, InLock   \* the semaphores of the three locks

ASSUME CharsAssumption ==
  /\ Semas = {Console, TxLock, InLock} /\ LockSemas = Semas
  /\ IntrOff = {"console", "put", "put_lock", "put_woken", "get", "get_lock", "get_woken"}
  /\ TxSlots \in Nat \ {0, 1} /\ InSlots \in Nat \ {0, 1}
  /\ LineLength \in Nat \ {0}
  /\ Readers \subseteq Threads /\ Writers \subseteq Threads

VARIABLES
  txq, input,            \* struct intq: buf, head, tail
  not_full, not_empty,   \* the thread waiting for txq, for input
  mode, ier,             \* serial.c: mode; the interrupt enable register
  holder, depth,         \* console_lock.holder, console_lock_depth
  pos, extra,            \* characters of its line a thread has put; it prints
                         \* from within a print
  rbr, thre,             \* the UART: a byte received, the transmitter is free
  panic,                 \* why the kernel has panicked, or "no"
  wire,                  \* history: the last character of a line sent
  pending,               \* history: the characters taken from the devices and
                         \* not yet read
  crowded                \* history: two readers have been in input_getc() at once

qVars == <<txq, input, not_full, not_empty>>
conVars == <<holder, depth, pos, extra>>
uartVars == <<rbr, thre>>
vars == <<kernelVars, qVars, mode, ier, conVars, uartVars, panic, wire, pending, crowded>>

At(point) == panic = "no" /\ cur # Idle /\ at[cur] = point

-----------------------------------------------------------------------------
(* intq.c, the ring buffers themselves apart (module Intq).                *)

\* The threads that signal() unblocks through the pointer p.
Signalled(p) == IF p = None THEN <<>> ELSE <<p>>

-----------------------------------------------------------------------------
(* serial.c.                                                               *)

\* write_ier() with the queues tx and in.
WriteIer(tx, in) == ier' = [xmit |-> ~Empty(tx), recv |-> ~Full(in)]

\* What has gone over the wire after the characters cs.
Sent(cs) ==
  LET lines == SelectSeq(cs, LAMBDA c : c.who \in Writers)
  IN wire' = IF lines = <<>> THEN wire ELSE Last(lines)

\* putc_poll(): waits for the transmitter, so the UART may finish a byte.
PutcPoll(cs) == Sent(cs) /\ thre' = FALSE

\* The character that thread t puts next.
NextChar(t) == IF extra[t] THEN [who |-> "extra", pos |-> 0]
               ELSE [who |-> t, pos |-> pos[t] + 1]

\* The bookkeeping of putchar_have_lock() and its loops after a character.
CharDone ==
  \/ extra[cur] /\ extra' = [extra EXCEPT ![cur] = FALSE] /\ depth' = depth - 1 /\ UNCHANGED pos
  \/ ~extra[cur] /\ pos' = [pos EXCEPT ![cur] = @ + 1] /\ UNCHANGED <<extra, depth>>

\* serial_putc() before serial_init_queue().
SerialPutcPoll ==
  /\ At("line") /\ mode = "POLL"
  /\ extra[cur] \/ pos[cur] < LineLength
  /\ PutcPoll(<<NextChar(cur)>>)
  /\ CharDone
  /\ UNCHANGED <<kernelVars, qVars, mode, ier, holder, rbr, panic, pending, crowded>>

\* serial_putc() disables interrupts and calls intq_putc().
SerialPutc ==
  /\ At("line") /\ mode = "QUEUE"
  /\ extra[cur] \/ pos[cur] < LineLength
  /\ Goto("put")
  /\ UNCHANGED <<schedVars, semaVars, qVars, mode, ier, conVars, uartVars, panic, wire,
                 pending, crowded>>

\* intq_putc() finds room; then write_ier().
IntqPutc ==
  /\ At("put") /\ ~Full(txq)
  /\ txq' = Put(txq, NextChar(cur))
  /\ WriteIer(txq', input)
  /\ CharDone
  /\ Goto("line")
  /\ UNCHANGED <<schedVars, semaVars, input, not_full, not_empty, mode, holder, uartVars,
                 panic, wire, pending, crowded>>

IntqPutcFull ==
  /\ At("put") /\ Full(txq)
  /\ Goto("put_lock")
  /\ UNCHANGED <<schedVars, semaVars, qVars, mode, ier, conVars, uartVars, panic, wire,
                 pending, crowded>>

\* Faulty variant: the thread sleeps without telling the queue.
WaitNotFull_Untold ==
  /\ value[TxLock] > 0
  /\ value' = [value EXCEPT ![TxLock] = @ - 1]
  /\ Goto("put_woken")
  /\ ThreadBlock
  /\ UNCHANGED <<waiters, not_full>>

\* lock_acquire (&q->lock) and wait (q, &q->not_full).
WaitNotFull ==
  /\ value[TxLock] > 0
  /\ value' = [value EXCEPT ![TxLock] = @ - 1]
  /\ not_full' = cur
  /\ Goto("put_woken")
  /\ ThreadBlock
  /\ UNCHANGED waiters

IntqPutcWait ==
  /\ At("put_lock")
  /\ \/ Full(txq) /\ WaitNotFull /\ UNCHANGED panic
     \/ value[TxLock] = 0 /\ SemaDown(TxLock, "put_lock") /\ UNCHANGED <<not_full, panic>>
     \/ /\ value[TxLock] > 0 /\ ~Full(txq)      \* the ASSERT in wait()
        /\ panic' = "not full"
        /\ UNCHANGED <<kernelVars, not_full>>
  /\ UNCHANGED <<txq, input, not_empty, mode, ier, conVars, uartVars, wire, pending, crowded>>

\* lock_release (&q->lock) and back to the test of the loop.
IntqPutcWoken ==
  /\ At("put_woken")
  /\ SemaUp(TxLock)
  /\ Goto("put")
  /\ UNCHANGED <<qVars, mode, ier, conVars, uartVars, panic, wire, pending, crowded>>

\* serial_interrupt(): receive while there is room, transmit while there is
\* something to send, and update the interrupt enable register.
SerialInterrupt ==
  LET recv == rbr # None /\ ~Full(input)
      xmit == ~Empty(txq) /\ thre
      in == IF recv THEN Put(input, rbr) ELSE input
      tx == IF xmit THEN Get(txq) ELSE txq
  IN /\ panic = "no" /\ mode = "QUEUE"
     /\ (ier.recv /\ rbr # None) \/ (ier.xmit /\ thre)
     /\ InterruptEntry
     /\ input' = in /\ txq' = tx
     /\ rbr' = IF recv THEN None ELSE rbr
     /\ pending' = pending \o (IF recv THEN <<rbr>> ELSE <<>>)
     /\ thre' = (thre /\ ~xmit)
     /\ Sent(IF xmit THEN <<Oldest(txq)>> ELSE <<>>)
     /\ ThreadUnblock((IF recv THEN Signalled(not_empty) ELSE <<>>) \o
                      (IF xmit THEN Signalled(not_full) ELSE <<>>))
     /\ not_empty' = IF recv THEN None ELSE not_empty
     /\ not_full' = IF xmit THEN None ELSE not_full
     /\ WriteIer(tx, in)
     /\ UNCHANGED <<semaVars, mode, conVars, panic, crowded>>

\* serial_init_queue() of the initial thread.
SerialInitQueue ==
  /\ At("run") /\ cur = Main /\ mode = "POLL"
  /\ mode' = "QUEUE"
  /\ WriteIer(txq, input)
  /\ UNCHANGED <<kernelVars, qVars, conVars, uartVars, panic, wire, pending, crowded>>

-----------------------------------------------------------------------------
(* The UART (external).                                                    *)

ByteReceived ==
  /\ panic = "no" /\ rbr = None
  /\ rbr' = "serial"
  /\ UNCHANGED <<kernelVars, qVars, mode, ier, conVars, thre, panic, wire, pending, crowded>>

TransmitterFree ==
  /\ panic = "no" /\ ~thre
  /\ thre' = TRUE
  /\ UNCHANGED <<kernelVars, qVars, mode, ier, conVars, rbr, panic, wire, pending, crowded>>

-----------------------------------------------------------------------------
(* input.c and the end of keyboard_interrupt().                            *)

\* A key that has been decoded is stored, or dropped when the buffer is full.
KeyboardInterrupt ==
  /\ panic = "no"
  /\ InterruptEntry
  /\ \/ /\ ~Full(input)
        /\ input' = Put(input, "kbd")
        /\ pending' = Append(pending, "kbd")
        /\ ThreadUnblock(Signalled(not_empty))
        /\ not_empty' = None
        /\ IF mode = "QUEUE" THEN WriteIer(txq, input') ELSE UNCHANGED ier
     \/ /\ Full(input)
        /\ UNCHANGED <<schedVars, input, not_empty, ier, pending>>
  /\ UNCHANGED <<semaVars, txq, not_full, mode, conVars, uartVars, panic, wire, crowded>>

InputGetc ==
  /\ At("run") /\ cur \in Readers
  /\ Goto("get")
  /\ crowded' = (crowded \/ \E t \in Readers : at[t] \in {"get", "get_lock", "get_woken"})
  /\ UNCHANGED <<schedVars, semaVars, qVars, mode, ier, conVars, uartVars, panic, wire,
                 pending>>

\* intq_getc() finds a character; then serial_notify().
IntqGetc ==
  /\ At("get") /\ ~Empty(input)
  /\ input' = Get(input)
  /\ pending' = Tail(pending)
  /\ IF mode = "QUEUE" THEN WriteIer(txq, input') ELSE UNCHANGED ier
  /\ Goto("run")
  /\ UNCHANGED <<schedVars, semaVars, txq, not_full, not_empty, mode, conVars, uartVars,
                 panic, wire, crowded>>

IntqGetcEmpty ==
  /\ At("get") /\ Empty(input)
  /\ Goto("get_lock")
  /\ UNCHANGED <<schedVars, semaVars, qVars, mode, ier, conVars, uartVars, panic, wire,
                 pending, crowded>>

\* lock_acquire (&q->lock) and wait (q, &q->not_empty).
IntqGetcWait ==
  /\ At("get_lock")
  /\ \/ /\ value[InLock] > 0 /\ Empty(input)
        /\ value' = [value EXCEPT ![InLock] = @ - 1]
        /\ not_empty' = cur
        /\ Goto("get_woken")
        /\ ThreadBlock
        /\ UNCHANGED <<waiters, panic>>
     \/ value[InLock] = 0 /\ SemaDown(InLock, "get_lock") /\ UNCHANGED <<not_empty, panic>>
     \/ /\ value[InLock] > 0 /\ ~Empty(input)   \* the ASSERT in wait()
        /\ panic' = "not empty"
        /\ UNCHANGED <<kernelVars, not_empty>>
  /\ UNCHANGED <<txq, input, not_full, mode, ier, conVars, uartVars, wire, pending, crowded>>

IntqGetcWoken ==
  /\ At("get_woken")
  /\ SemaUp(InLock)
  /\ Goto("get")
  /\ UNCHANGED <<qVars, mode, ier, conVars, uartVars, panic, wire, pending, crowded>>

-----------------------------------------------------------------------------
(* console.c.                                                              *)

\* putbuf(), puts(), printf(): a line of LineLength characters.
Putbuf ==
  /\ At("run") /\ cur \in Writers
  /\ Goto("console")
  /\ UNCHANGED <<schedVars, semaVars, qVars, mode, ier, conVars, uartVars, panic, wire,
                 pending, crowded>>

\* Faulty variant: the console is not locked.
AcquireConsole_NoLock ==
  /\ At("console")
  /\ Goto("line")
  /\ UNCHANGED <<schedVars, semaVars, qVars, mode, ier, conVars, uartVars, panic,
                 wire, pending, crowded>>

\* acquire_console() of a thread that does not hold the lock.
AcquireConsole ==
  /\ At("console")
  /\ SemaDown(Console, "line")
  /\ \/ /\ value[Console] > 0
        /\ holder' = cur
     \/ value[Console] = 0 /\ UNCHANGED holder
  /\ UNCHANGED <<qVars, mode, ier, depth, pos, extra, uartVars, panic, wire, pending, crowded>>

\* The holder prints from within its print, one character: lock_held_by_
\* current_thread() is true, and the lock is only counted.
NestedPrint ==
  /\ At("line") /\ holder = cur /\ ~extra[cur]
  /\ depth' = depth + 1
  /\ extra' = [extra EXCEPT ![cur] = TRUE]
  /\ UNCHANGED <<kernelVars, qVars, mode, ier, holder, pos, uartVars, panic, wire, pending,
                 crowded>>

\* release_console() at depth 0, when the line is out.
ReleaseConsole ==
  /\ At("line")
  /\ pos[cur] = LineLength /\ ~extra[cur] /\ depth = 0
  /\ holder' = None
  /\ SemaUp(Console)
  /\ Goto("run")
  /\ pos' = [pos EXCEPT ![cur] = 0]
  /\ UNCHANGED <<qVars, mode, ier, depth, extra, uartVars, panic, wire, pending, crowded>>

\* What serial_putc() with interrupts already off makes of a full queue.
MakeRoom(q) == IF Full(q) THEN Get(q) ELSE q

\* A character printed by an interrupt handler, which takes no lock.
PrintInInterrupt ==
  /\ panic = "no" /\ mode = "QUEUE"
  /\ InterruptEntry
  /\ txq' = Put(MakeRoom(txq), [who |-> "extra", pos |-> 0])
  /\ \/ /\ Full(txq)
        /\ PutcPoll(<<Oldest(txq)>>)
        /\ ThreadUnblock(Signalled(not_full))
        /\ not_full' = None
     \/ /\ ~Full(txq)
        /\ UNCHANGED <<schedVars, not_full, thre, wire>>
  /\ WriteIer(txq', input)
  /\ UNCHANGED <<semaVars, input, not_empty, mode, conVars, rbr, panic, pending, crowded>>

\* debug_panic() of the running thread: console_panic(), the message with
\* interrupts off and without the lock, and serial_flush().
Panic ==
  /\ At("run") \/ At("line")
  /\ panic' = "called"
  /\ PutcPoll(Queued(txq))
  /\ txq' = [txq EXCEPT !.tail = txq.head]
  /\ ThreadUnblock(Signalled(not_full))
  /\ not_full' = None
  /\ UNCHANGED <<semaVars, at, input, not_empty, mode, ier, conVars, rbr, pending, crowded>>

-----------------------------------------------------------------------------
Create(t) ==
  /\ At("run") /\ ThreadCreate(t)
  /\ UNCHANGED <<qVars, mode, ier, conVars, uartVars, panic, wire, pending, crowded>>

Tick ==
  /\ panic = "no" /\ TimerInterrupt
  /\ UNCHANGED <<qVars, mode, ier, conVars, uartVars, panic, wire, pending, crowded>>

IdleStep ==
  /\ panic = "no" /\ IdleBlock
  /\ UNCHANGED <<qVars, mode, ier, conVars, uartVars, panic, wire, pending, crowded>>

\* The serial port is in polling mode, console_init() and input_init() have run.
Init ==
  /\ SchedInit("run")
  /\ txq = EmptyQueue(TxSlots) /\ input = EmptyQueue(InSlots)
  /\ not_full = None /\ not_empty = None
  /\ mode = "POLL" /\ ier = [xmit |-> FALSE, recv |-> FALSE]
  /\ holder = None /\ depth = 0
  /\ pos = [t \in Threads |-> 0] /\ extra = [t \in Threads |-> FALSE]
  /\ rbr = None /\ thre = TRUE
  /\ panic = "no"
  /\ wire = [who |-> None, pos |-> LineLength]
  /\ pending = <<>> /\ crowded = FALSE

\* A step in a call that a thread has begun.
CallStep ==
  \/ SerialPutcPoll \/ SerialPutc \/ IntqPutc \/ IntqPutcFull \/ IntqPutcWait \/ IntqPutcWoken
  \/ IntqGetc \/ IntqGetcEmpty \/ IntqGetcWait \/ IntqGetcWoken
  \/ AcquireConsole \/ ReleaseConsole

Next ==
  \/ CallStep \/ Putbuf \/ InputGetc \/ NestedPrint \/ SerialInitQueue \/ Panic
  \/ \E t \in Threads : Create(t)
  \/ SerialInterrupt \/ KeyboardInterrupt \/ PrintInInterrupt \/ Tick \/ IdleStep
  \/ ByteReceived \/ TransmitterFree

\* The UART sends what it is given, the CPU takes its interrupt when interrupts
\* are on, and the running thread goes on in a call it has begun.
Fairness == WF_vars(TransmitterFree) /\ SF_vars(SerialInterrupt) /\ WF_vars(CallStep)

Spec == Init /\ [][Next]_vars /\ Fairness

-----------------------------------------------------------------------------
\* The characters of lines that are on their way: on the wire, in txq, and the
\* next one of the thread that has the console.
Stream ==
  <<wire>> \o SelectSeq(Queued(txq), LAMBDA c : c.who \in Writers)
           \o (IF holder = None \/ pos[holder] = LineLength THEN <<>>
               ELSE <<[who |-> holder, pos |-> pos[holder] + 1]>>)

\* The serial port sends every character of a line once and in order, and the
\* lines of two threads do not mix, whatever interrupt handlers print in
\* between, whether the queue runs full, and when the kernel panics.
LinesWhole ==
  \A i \in 1..(Len(Stream) - 1) :
    \/ Stream[i + 1].who = Stream[i].who /\ Stream[i + 1].pos = Stream[i].pos + 1
    \/ Stream[i].pos = LineLength /\ Stream[i + 1].pos = 1

\* A character that is taken from the keyboard or the serial port is stored
\* once and read once, in order: the ring buffer is the queue of the characters
\* taken and not yet read.
InputInOrder == Queued(input) = pending

\* Nobody is forgotten: a thread waits only while the queue is full or empty,
\* and the interrupt that will end its wait is enabled; every other thread is
\* where its status says.  The ASSERT in wait() never fails for a writer: the
\* console's lock lets one thread at a time into serial_putc().  It can fail for
\* a reader, but only after two have been in input_getc() at once, which IOLock
\* keeps those of SYS_READ from: intq.c's own lock, "Only one thread may wait at
\* once" (intq.h:27), is taken after the test for an empty queue.
WaitersOwed ==
  /\ panic # "not full"
  /\ panic = "not empty" => crowded
  /\ ThreadsAccounted({not_full, not_empty} \ {None})
  /\ not_full # None => Full(txq)
  /\ not_empty # None => Empty(input)
  /\ mode = "QUEUE" /\ panic = "no" =>
       /\ ~Empty(txq) => ier.xmit
       /\ ~Full(input) <=> ier.recv

\* The interrupt queues (intq.c) between threads and handlers: nothing is lost,
\* doubled or reordered, and nobody waits in vain.
QueuesKept == InputInOrder /\ WaitersOwed

\* A thread that waits for room in txq is woken: the transmitter's interrupts
\* come and drain the queue.
WriterWoken ==
  \A t \in Writers : at[t] = "put_woken" ~> (at[t] # "put_woken" \/ status[t] # "BLOCKED"
                                             \/ panic # "no")
=============================================================================
