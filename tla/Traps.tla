------------------------------- MODULE Traps -------------------------------
(***************************************************************************)
(* How the processor gets into the kernel and from one thread to another,  *)
(* proj1/src: the descriptors (threads/interrupt.c, userprog/gdt.c and     *)
(* tss.c), the interrupt controllers, the registration of handlers, the    *)
(* stack frames of interrupts (threads/intr-stubs.S) and of thread         *)
(* switches (threads/switch.S, thread_create()).                           *)
(*                                                                         *)
(* A 32-bit word is the set of its bits that are 1; a stack is a sequence  *)
(* of words, the top first.                                                *)
(***************************************************************************)
EXTENDS SequencesExt

BitSet(n) == {b \in 0..20 : (n \div (2^b)) % 2 = 1}
Shift(S, k) == {b + k : b \in S} \cap 0..31
Field(S, lo, hi) == {b - lo : b \in S \cap lo..hi}

-----------------------------------------------------------------------------
(* Descriptors, as the pair of their words.                                *)

SEL_KCSEG == 8
SEL_KDSEG == 16
SEL_UCSEG == 27
SEL_UDSEG == 35
SEL_TSS == 40

make_gate(function, dpl, type) ==
  <<(function \cap 0..15) \cup Shift(BitSet(SEL_KCSEG), 16),
    (function \cap 16..31) \cup {15} \cup Shift(BitSet(dpl), 13) \cup Shift(BitSet(type), 8)>>
make_intr_gate(function, dpl) == make_gate(function, dpl, 14)
make_trap_gate(function, dpl) == make_gate(function, dpl, 15)

CLS_SYSTEM == 0
CLS_CODE_DATA == 1

make_seg_desc(base, limit, class, type, dpl, granularity) ==
  <<(limit \cap 0..15) \cup Shift(base, 16),
    Field(base, 16, 23) \cup Shift(BitSet(type), 8) \cup Shift(BitSet(class), 12)
      \cup Shift(BitSet(dpl), 13) \cup {15} \cup (limit \cap 16..19) \cup {22}
      \cup Shift(BitSet(granularity), 23) \cup (base \cap 24..31)>>
make_code_desc(dpl) == make_seg_desc({}, 0..19, CLS_CODE_DATA, 10, dpl, 1)
make_data_desc(dpl) == make_seg_desc({}, 0..19, CLS_CODE_DATA, 2, dpl, 1)
make_tss_desc(laddr) == make_seg_desc(laddr, BitSet(103), CLS_SYSTEM, 9, 0, 0)

\* make_gdtr_operand() and make_idtr_operand(): the limit and, 16 bits up, the base.
make_table_operand(limit, base) == <<BitSet(limit) \cup Shift(base, 16), Field(base, 16, 31)>>

\* gdt_init(): the descriptor of each selector, given the address of the TSS.
gdt(tss) ==
  [i \in 0..5 |-> CASE i = SEL_KCSEG \div 8 -> make_code_desc(0)
                    [] i = SEL_KDSEG \div 8 -> make_data_desc(0)
                    [] i = SEL_UCSEG \div 8 -> make_code_desc(3)
                    [] i = SEL_UDSEG \div 8 -> make_data_desc(3)
                    [] i = SEL_TSS \div 8 -> make_tss_desc(tss)
                    [] OTHER -> <<{}, {}>>]

\* tss_init(), with the page of the running thread.
tss_init(thread, PGSIZE) == [ss0 |-> SEL_KDSEG, esp0 |-> thread + PGSIZE]

-----------------------------------------------------------------------------
(* Interrupt controllers: icw is how many initialisation words have come,  *)
(* of the four that ICW1 announces; isr are the lines in service.          *)

\* A byte written to a controller's control or data register.
Outb(pic, port, byte) ==
  CASE port = "ctrl" /\ byte = 17 -> [pic EXCEPT !.icw = 1, !.isr = {}]
    [] port = "ctrl" /\ byte = 32 ->
         [pic EXCEPT !.isr = IF @ = {} THEN @ ELSE @ \ {CHOOSE i \in @ : \A j \in @ : i <= j}]
    [] port = "data" /\ pic.icw = 1 -> [pic EXCEPT !.icw = 2, !.base = byte]
    [] port = "data" /\ pic.icw = 2 -> [pic EXCEPT !.icw = 3, !.cascade = byte]
    [] port = "data" /\ pic.icw = 3 -> [pic EXCEPT !.icw = 4]
    [] port = "data" /\ pic.icw \notin 1..3 -> [pic EXCEPT !.mask = byte]

Written(pic, writes) == FoldLeft(LAMBDA p, w : Outb(p, w[1], w[2]), pic, writes)

\* What pic_init() writes to the controller of base and cascade.
pic_init(base, cascade) ==
  <<<<"data", 255>>, <<"ctrl", 17>>, <<"data", base>>, <<"data", cascade>>, <<"data", 1>>,
    <<"data", 0>>>>

\* Faulty variant: the slave is not told.
pic_end_of_interrupt_Master(pics, irq) == <<Outb(pics[1], "ctrl", 32), pics[2]>>
pic_end_of_interrupt(pics, irq) ==
  <<Outb(pics[1], "ctrl", 32), IF irq >= 40 THEN Outb(pics[2], "ctrl", 32) ELSE pics[2]>>

\* The controllers when they have delivered an interrupt: the slave's go through line 2,
\* and a spurious one is not in service where it arose.
Delivered(pics, irq, spurious) ==
  IF irq >= 40 THEN <<[pics[1] EXCEPT !.isr = @ \cup {2}],
                      IF spurious THEN pics[2] ELSE [pics[2] EXCEPT !.isr = @ \cup {irq - 40}]>>
  ELSE <<IF spurious THEN pics[1] ELSE [pics[1] EXCEPT !.isr = @ \cup {irq - 32}], pics[2]>>

-----------------------------------------------------------------------------
(* Handlers.  stub(v) is the address of intr_stubs[v].                     *)

intr_init(stub) ==
  [idt |-> [v \in 0..255 |-> make_intr_gate(stub[v], 0)], handlers |-> [v \in 0..255 |-> "none"],
   failed |-> FALSE]

register_handler(t, stub, vec_no, dpl, level, handler) ==
  [idt |-> [t.idt EXCEPT ![vec_no] = IF level = "on" THEN make_trap_gate(stub[vec_no], dpl)
                                     ELSE make_intr_gate(stub[vec_no], dpl)],
   handlers |-> [t.handlers EXCEPT ![vec_no] = handler],
   failed |-> t.failed \/ t.handlers[vec_no] # "none"]

\* A registration <<external, vec_no, dpl, level, handler>>.
External(vec_no, handler) == <<TRUE, vec_no, 0, "off", handler>>
Internal(vec_no, dpl, level, handler) == <<FALSE, vec_no, dpl, level, handler>>

\* intr_register_ext() and intr_register_int().
Register(t, stub, r) ==
  LET s == register_handler(t, stub, r[2], r[3], r[4], r[5])
  IN [s EXCEPT !.failed = @ \/ (r[1] # (r[2] \in 32..47))]

exception_init ==
  <<Internal(3, 3, "on", "kill"), Internal(4, 3, "on", "kill"), Internal(5, 3, "on", "kill")>>
  \o [i \in 1..9 |-> Internal(<<0, 1, 6, 7, 11, 12, 13, 16, 19>>[i], 0, "on", "kill")]
  \o <<Internal(14, 0, "off", "page_fault")>>

\* The registrations of main(), in order.
Registrations ==
  <<External(32, "timer"), External(33, "keyboard")>> \o exception_init
  \o <<Internal(48, 3, "on", "syscall"), External(36, "serial"), External(46, "ide0"), External(47, "ide1")>>

Interrupts(stub) == FoldLeft(LAMBDA t, r : Register(t, stub, r), intr_init(stub), Registrations)

\* intr_handler(): what it does about a vector.
Dispatch(handlers, vec_no) ==
  IF handlers[vec_no] # "none" THEN handlers[vec_no]
  ELSE IF vec_no \in {39, 47} THEN "ignored" ELSE "unexpected"

-----------------------------------------------------------------------------
(* Interrupt frames.  r gives the interrupted code's registers; what is on *)
(* a stack is tagged, <<"reg", name>> or <<"num", number>>.                *)

Num(n) == <<"num", n>>

PushesErrorCode == {8, 10, 11, 12, 13, 14, 17}
FromUser == <<"eip", "cs", "eflags", "esp", "ss">>
FromKernel == <<"eip", "cs", "eflags">>

\* The processor: a change of stack if it comes from user mode, and an error code.
Entered(r, user, vec_no) ==
  LET saved == IF user THEN FromUser ELSE FromKernel
  IN (IF vec_no \in PushesErrorCode THEN <<<<"reg", "error">>>> ELSE <<>>) \o [i \in DOMAIN saved |-> r[saved[i]]]

\* The table of stubs.
Real == {8, 10, 11, 13, 14, 17, 24, 26, 27, 29, 30}
Stub(stack, r, vec_no) ==
  <<Num(vec_no)>> \o (IF vec_no \in Real THEN <<Head(stack), r["ebp"]>> \o Tail(stack)
                 ELSE <<Num(0), r["ebp"]>> \o stack)

Pusha == <<"edi", "esi", "ebp", "esp_dummy", "ebx", "edx", "ecx", "eax">>
SegmentRegisters == <<"gs", "fs", "es", "ds">>
intr_entry(stack, r) == [i \in 1..12 |-> r[(Pusha \o SegmentRegisters)[i]]] \o stack

\* struct intr_frame.
FrameFields == Pusha \o SegmentRegisters \o <<"vec_no", "error_code", "frame_pointer">> \o FromUser

\* intr_exit and iret: the registers after it, and what is left of the stack.
intr_exit(stack, user) ==
  LET fields == Pusha \o SegmentRegisters
      back == IF user THEN FromUser ELSE FromKernel
  IN <<[f \in (Range(fields) \ {"esp_dummy"}) \cup Range(back) |->
          IF f \in Range(back) THEN stack[15 + CHOOSE i \in DOMAIN back : back[i] = f]
          ELSE stack[CHOOSE i \in DOMAIN fields : fields[i] = f]],
       SubSeq(stack, 16 + Len(back), Len(stack))>>

-----------------------------------------------------------------------------
(* Thread switches.  A thread that does not run is the stack it left.      *)

Kept == <<"edi", "esi", "ebp", "ebx">>

\* thread_create(): the frames of kernel_thread(), switch_entry() and switch_threads().
NewStack(function, aux) ==
  <<"0", "0", "0", "0", "switch_entry", "0", "0">> \o <<"kernel_thread">> \o <<"0", function, aux>>

\* switch_threads() up to where it takes NEXT's stack.
SwitchOut(stack, r, return, cur, next) ==
  [i \in 1..4 |-> r[Kept[i]]] \o <<return, cur, next>> \o stack

\* The rest of it: the registers, where it returns to, and the stack then.
SwitchIn(stack) ==
  [regs |-> [f \in Range(Kept) |-> stack[CHOOSE i \in 1..4 : Kept[i] = f]],
   eip |-> stack[5], stack |-> SubSeq(stack, 6, Len(stack))]

\* switch_entry, after it has called thread_schedule_tail(): the stack at its `ret'.
switch_entry(stack) == SubSeq(stack, 3, Len(stack))

-----------------------------------------------------------------------------
(* Reference.                                                              *)

\* The processor reads the fields of gates, segment descriptors and table
\* operands as they were meant; the selectors' privileges agree with the
\* descriptors', and interrupts from user mode use the thread's own page as stack.
DescriptorsRight(address, dpl) ==
  /\ \A type \in {14, 15} :
       LET g == make_gate(address, dpl, type)
       IN /\ (g[1] \cap 0..15) \cup (g[2] \cap 16..31) = address
          /\ Field(g[1], 16, 31) = BitSet(SEL_KCSEG)
          /\ 15 \in g[2] /\ Field(g[2], 13, 14) = BitSet(dpl) /\ Field(g[2], 8, 12) = BitSet(type)
  /\ \A i \in 1..5 :
       LET d == gdt(address)[i]
           base == Field(d[1], 16, 31) \cup Shift(Field(d[2], 0, 7), 16) \cup (d[2] \cap 24..31)
           limit == (d[1] \cap 0..15) \cup (d[2] \cap 16..19)
           rpl == IF i \in {3, 4} THEN 3 ELSE 0
       IN /\ 15 \in d[2] /\ Field(d[2], 13, 14) = BitSet(rpl)
          /\ IF i = 5 THEN base = address /\ limit = BitSet(103) /\ 23 \notin d[2] /\ 12 \notin d[2]
             ELSE base = {} /\ limit = 0..19 /\ 23 \in d[2] /\ 12 \in d[2]
          /\ 11 \in d[2] <=> i \in {1, 3, 5}
  /\ SEL_UCSEG % 8 = 3 /\ SEL_UDSEG % 8 = 3 /\ SEL_KCSEG % 8 = 0 /\ SEL_KDSEG % 8 = 0
  /\ tss_init(8192, 4096) = [ss0 |-> SEL_KDSEG, esp0 |-> 12288]
  /\ LET o == make_table_operand(2047, address)
     IN Field(o[1], 0, 15) = 0..10 /\ Field(o[1], 16, 31) \cup Shift(o[2], 16) = address

\* Whatever state the controllers were in, pic_init() delivers lines 0..15 to vectors
\* 32..47, unmasked; and pic_end_of_interrupt() leaves no line in service, real or
\* spurious, on either controller, so that it can come again.
InterruptsComeAgain(icw, isr, irq) ==
  LET any == [icw |-> icw, isr |-> isr, base |-> 0, cascade |-> 0, mask |-> 0]
      pics == <<Written(any, pic_init(32, 4)), Written(any, pic_init(40, 2))>>
  IN /\ \A i \in 1..2 : pics[i] = [icw |-> 4, isr |-> {}, base |-> <<32, 40>>[i],
                                   cascade |-> <<4, 2>>[i], mask |-> 0]
     /\ \A spurious \in {s \in BOOLEAN : s => irq \in {39, 47}} :
          pic_end_of_interrupt(Delivered(pics, irq, spurious), irq) = pics

\* No ASSERT of the registration fails; user code can raise the three exceptions meant for
\* it and the system call, and nothing else; handlers of devices and of page
\* faults start with interrupts off; every vector leads to its own stub.
HandlersRight(stub) ==
  LET t == Interrupts(stub)
      dpl(v) == Field(t.idt[v][2], 13, 14)
      off(v) == Field(t.idt[v][2], 8, 11) = BitSet(14)
  IN /\ ~t.failed
     /\ {v \in 0..255 : dpl(v) = {0, 1}} = {3, 4, 5, 48} /\ \A v \in 0..255 : dpl(v) \in {{}, {0, 1}}
     /\ \A v \in (32..47) \cup {14} : off(v)
     /\ \A v \in 0..255 : /\ (t.idt[v][1] \cap 0..15) \cup (t.idt[v][2] \cap 16..31) = stub[v]
                          /\ t.handlers[v] # "none" \/ Dispatch(t.handlers, v) # "kill"
     /\ \A v \in 32..47 : Dispatch(t.handlers, v) = "ignored" => v = 39

\* intr_handler() finds the interrupted registers in its struct intr_frame, with the error
\* code or 0, and intr_exit restores them all and leaves the stack as it was.  Not
\* for vector 12 (#SS): the processor pushes an error code and the stub pushes
\* another, and the frame is off by a word.
FrameRestored(vec_no, user, below) ==
  LET r == [f \in Range(FrameFields) |-> <<"reg", f>>]
      stack == intr_entry(Stub(Entered(r, user, vec_no) \o below, r, vec_no), r)
      frame == [i \in 1..(IF user THEN 20 ELSE 18) |-> stack[i]]
      expect == [r EXCEPT !["vec_no"] = Num(vec_no), !["frame_pointer"] = r["ebp"],
                          !["error_code"] = IF vec_no \in PushesErrorCode THEN <<"reg", "error">>
                                            ELSE Num(0)]
      exit == intr_exit(stack, user)
      right == /\ \A i \in DOMAIN frame : frame[i] = expect[FrameFields[i]]
               /\ \A f \in DOMAIN exit[1] : exit[1][f] = r[f]
               /\ exit[2] = below
  IN vec_no # 12 => right

\* A thread comes back from switch_threads() with its registers and its stack; a new one
\* starts in kernel_thread() with its function and argument and nothing beyond.
SwitchesRestore(below) ==
  LET r == [f \in Range(Kept) |-> f]
      back == SwitchIn(SwitchOut(below, r, "schedule", "t1", "t2"))
      new == SwitchIn(NewStack("function", "aux"))
      start == switch_entry(new.stack)
  IN /\ back.regs = r /\ back.eip = "schedule" /\ back.stack = <<"t1", "t2">> \o below
     /\ new.eip = "switch_entry" /\ new.regs["ebp"] = "0"
     /\ start = <<"kernel_thread", "0", "function", "aux">>
=============================================================================
