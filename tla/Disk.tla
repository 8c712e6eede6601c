-------------------------------- MODULE Disk --------------------------------
(***************************************************************************)
(* proj2/src/devices/ide.c and block.c with the access path of             *)
(* partition.c, on the kernel of module Sched: one ATA channel, which is   *)
(* locked for every request, and its two disks.                            *)
(*                                                                         *)
(* Points of at[t]:                                                        *)
(*   "check", "identify"  the initial thread in ide_init()                 *)
(*   "acquire"            lock_acquire (&c->lock), interrupts off          *)
(*   "select"             select_sector() or select_device_wait()          *)
(*   "command"            issue_pio_command()                              *)
(*   "complete"           sema_down (&c->completion_wait), interrupts off  *)
(*   "busy", "nap"        wait_while_busy() and its timer_msleep (10)      *)
(*   "input", "output"    the transfer of the sector                       *)
(*   "release"            lock_release (&c->lock)                          *)
(*                                                                         *)
(* The disk is external.  state is what the status register shows: BSY in  *)
(* the states of Busy, DRQ in "drq_in" and "drq_out", neither in "idle"    *)
(* and "error"; "stuck" is a disk that never clears BSY.  wait_until_idle() *)
(* polls for 1000 times 10 us and then goes on: with registers and a       *)
(* command that the ATA standard forbids to write to a disk with BSY or    *)
(* DRQ set, so that what becomes of them is up to the disk.                *)
(***************************************************************************)
EXTENDS Sched

CONSTANTS
  Kinds,       \* what may be attached as the two devices
  Size,        \* how many sectors each has as a small disk
  Parts,       \* the entries of the disks' partition tables
  PartOf,      \* [disk, start, size, foreign] of each of them
  WORD,        \* how many values block_sector_t has
  Values,      \* what is written
  Lock, Completion,   \* the channel's semaphores
  Faults,      \* bound: how many commands and stores fail
  Spurious     \* bound: how many interrupts come for no reason

Disks == <<"hda", "hdb">>       \* in the order in which they are probed
DiskSet == Range(Disks)

ASSUME DiskAssumption ==
  /\ Semas = {Lock, Completion} /\ LockSemas = {Lock} /\ Lock # Completion
  /\ IntrOff = {"acquire", "complete"}
  /\ Size \in [DiskSet -> Nat \ {0}] /\ Faults \in Nat /\ Spurious \in Nat
  /\ Parts \cap DiskSet = {}
  /\ WORD \in Nat /\ \A d \in DiskSet : Size[d] < WORD
  /\ PartOf \in [Parts -> [disk : DiskSet, start : 0..(WORD - 1), size : 0..(WORD - 1),
                          foreign : BOOLEAN]]
  /\ "unknown" \notin Values

VARIABLES
  op,                    \* the request each thread is in
  buffer,                \* what it has read
  expecting_interrupt,   \* struct channel
  is_ata,                \* struct ata_disk
  all_blocks,            \* the registered block devices
  dev,                   \* the channel's hardware (external)
  kind, media,           \* what is attached, and the sectors' contents (external)
  faults, spurious,      \* how many have happened
  panic,                 \* why the kernel has panicked, or "no"
  written                \* history: what the last ide_write() put out; "unknown" when its
                         \* store failed or was mixed up with the next request

diskVars == <<op, buffer, expecting_interrupt, is_ata, all_blocks>>
hwVars == <<dev, kind, media, faults, spurious>>
vars == <<kernelVars, diskVars, hwVars, panic, written>>

Busy == {"reading", "writing", "storing", "stuck"}
NoOp == [kind |-> "none", disk |-> Disks[1], sec |-> 0, val |-> "none"]

\* The running thread is at a point; nothing runs after a panic.
At(point) == panic = "no" /\ cur # Idle /\ at[cur] = point
Panics(why) == panic' = why /\ UNCHANGED <<kernelVars, diskVars, hwVars, written>>

\* block_register() of the devices bs.
BlockRegister(bs) == all_blocks' = all_blocks \cup bs

\* What a step leaves alone that only moves the thread.
Moves(point) == Goto(point) /\ UNCHANGED <<schedVars, semaVars>>

-----------------------------------------------------------------------------
(* The hardware (external).                                                *)

\* A command starts the disk.  A stuck disk ignores it, and one that is not
\* ready may: it goes on with what it does, or abandons it.
Starts(command) ==
  \/ /\ dev.state # "stuck"
     /\ dev' = [dev EXCEPT !.state = IF command = "write" THEN "writing" ELSE "reading"]
  \/ dev.state \notin {"idle", "error"} /\ UNCHANGED dev

Raise(state) == dev' = [dev EXCEPT !.state = state, !.intrq = TRUE]

\* The disk finishes what it is doing.  It asks for the data of a write without
\* an interrupt.
DeviceStep ==
  /\ panic = "no"
  /\ \/ dev.state = "reading" /\ Raise("drq_in") /\ UNCHANGED media
     \/ dev.state = "writing" /\ dev' = [dev EXCEPT !.state = "drq_out"] /\ UNCHANGED media
     \/ /\ dev.state = "storing"
        /\ Raise("idle")
        /\ media' = [media EXCEPT ![dev.disk][dev.sec] = dev.data]
  /\ UNCHANGED <<kernelVars, diskVars, kind, faults, spurious, panic, written>>

\* The sectors for which written no longer tells what the disk holds.
Doubt(sectors) ==
  written' = [d \in DiskSet |-> [s \in 0..(Size[d] - 1) |->
                IF <<d, s>> \in sectors THEN "unknown" ELSE written[d][s]]]

\* A command or a store fails, or the disk hangs.
DeviceFault ==
  /\ panic = "no" /\ faults < Faults
  /\ dev.state \in {"reading", "writing", "storing"}
  /\ faults' = faults + 1
  /\ \/ Raise("error")
     \/ dev' = [dev EXCEPT !.state = "stuck"]
  /\ Doubt(IF dev.state = "storing" THEN {<<dev.disk, dev.sec>>} ELSE {})
  /\ UNCHANGED <<kernelVars, diskVars, kind, media, spurious, panic>>

\* An interrupt that belongs to no command.
SpuriousInterrupt ==
  /\ panic = "no" /\ spurious < Spurious
  /\ ~dev.intrq
  /\ spurious' = spurious + 1
  /\ dev' = [dev EXCEPT !.intrq = TRUE]
  /\ UNCHANGED <<kernelVars, diskVars, kind, media, faults, panic, written>>

-----------------------------------------------------------------------------
(* interrupt_handler().                                                    *)

\* Faulty variant: the waiter is not woken.
HandleInterrupt_OnlyAcknowledges ==
  /\ dev' = [dev EXCEPT !.intrq = FALSE]
  /\ UNCHANGED <<schedVars, semaVars>>

HandleInterrupt ==
  \/ /\ expecting_interrupt
     /\ dev' = [dev EXCEPT !.intrq = FALSE]
     /\ SemaUp(Completion)
  \/ /\ ~expecting_interrupt        \* "unexpected interrupt"
     /\ dev' = [dev EXCEPT !.intrq = FALSE]
     /\ UNCHANGED <<schedVars, semaVars>>

DiskInterrupt ==
  /\ panic = "no"
  /\ dev.intrq
  /\ InterruptEntry
  /\ HandleInterrupt
  /\ UNCHANGED <<diskVars, kind, media, faults, spurious, panic, written>>

-----------------------------------------------------------------------------
(* The steps of a request.                                                 *)

\* lock_acquire() of the channel.
AcquireChannel ==
  /\ At("acquire")
  /\ SemaDown(Lock, "select")
  /\ UNCHANGED <<diskVars, hwVars, panic, written>>

\* Faulty variant: does not wait for the channel to become idle.
Idles_NoWait == TRUE

\* wait_until_idle() sees BSY and DRQ clear.
Idles == dev.state \in {"idle", "error"}

\* select_device_wait() and the sector registers.  Reading the status register
\* clears a pending interrupt.  After an idle timeout the request goes on: the
\* disk takes the registers or ignores them.
SelectSector ==
  /\ At("select")
  /\ \E selected \in {[dev EXCEPT !.disk = op[cur].disk, !.sec = op[cur].sec, !.intrq = FALSE]} :
       \/ Idles /\ dev' = selected /\ UNCHANGED written
       \/ /\ ~Idles
          /\ dev' \in {selected, [dev EXCEPT !.intrq = FALSE]}
          /\ Doubt({<<dev.disk, dev.sec>>, <<op[cur].disk, op[cur].sec>>})
  /\ Moves("command")
  /\ UNCHANGED <<diskVars, kind, media, faults, spurious, panic>>

IssuePioCommand ==
  /\ At("command")
  /\ expecting_interrupt' = TRUE
  /\ Starts(op[cur].kind)
  /\ Moves(IF op[cur].kind = "write" THEN "busy" ELSE "complete")
  /\ UNCHANGED <<op, buffer, is_ata, all_blocks, kind, media, faults, spurious, panic, written>>

\* sema_down (&c->completion_wait): before the data of a read, after that of a
\* write.
AwaitCompletion ==
  /\ At("complete")
  /\ SemaDown(Completion, IF op[cur].kind = "write" THEN "release" ELSE "busy")
  /\ UNCHANGED <<diskVars, hwVars, panic, written>>

\* A round of wait_while_busy() that finds BSY set sleeps for a tick.
BusyPoll ==
  /\ At("busy") /\ dev.state \in Busy
  /\ TimerSleep(1, "nap")
  /\ UNCHANGED <<diskVars, hwVars, panic, written>>

BusyNap ==
  /\ At("nap")
  /\ ThreadYieldForSeconds("busy")
  /\ UNCHANGED <<diskVars, hwVars, panic, written>>

\* BSY is clear and DRQ set: the data can be moved.
BusyReady ==
  /\ At("busy") /\ dev.state \in {"drq_in", "drq_out"}
  /\ Moves(IF op[cur].kind = "write" THEN "output" ELSE "input")
  /\ UNCHANGED <<diskVars, hwVars, panic, written>>

\* wait_while_busy() returns false: DRQ is clear, or BSY was set for too long.
\* identify_ata_device() then takes the device for no disk, the others panic.
BusyFails ==
  /\ At("busy") /\ dev.state \in {"idle", "error", "stuck"}
  /\ \/ /\ op[cur].kind = "identify"
        /\ is_ata' = [is_ata EXCEPT ![op[cur].disk] = FALSE]
        /\ Moves("identify")
        /\ UNCHANGED <<op, buffer, expecting_interrupt, all_blocks, hwVars, panic, written>>
     \/ /\ op[cur].kind # "identify"
        /\ Panics("failed")

InputSector ==
  /\ At("input")
  /\ dev' = [dev EXCEPT !.state = "idle"]
  /\ \/ /\ op[cur].kind \in {"read", "scan"}
        /\ buffer' = [buffer EXCEPT ![cur] = media[dev.disk][dev.sec]]
        /\ Moves("release")
        /\ UNCHANGED <<op, is_ata, all_blocks>>
     \/ /\ op[cur].kind = "identify"
        /\ UNCHANGED buffer
           \* disks of 1 GB and more are ignored; the others are registered
        /\ \/ /\ kind[op[cur].disk] = "huge"
              /\ is_ata' = [is_ata EXCEPT ![op[cur].disk] = FALSE]
              /\ Moves("identify")
              /\ UNCHANGED <<op, all_blocks>>
           \/ /\ kind[op[cur].disk] # "huge"
              /\ BlockRegister({op[cur].disk})
              /\ op' = [op EXCEPT ![cur].kind = "scan"]
              /\ Moves("acquire")
              /\ UNCHANGED is_ata
  /\ UNCHANGED <<expecting_interrupt, kind, media, faults, spurious, panic, written>>

\* The disk stores the sector that its registers name: the request's, unless it
\* has ignored them.
OutputSector ==
  /\ At("output")
  /\ dev' = [dev EXCEPT !.state = "storing", !.data = op[cur].val]
  /\ written' = IF dev.disk = op[cur].disk /\ dev.sec = op[cur].sec
                THEN [written EXCEPT ![op[cur].disk][op[cur].sec] = op[cur].val]
                ELSE written
  /\ Moves("complete")
  /\ UNCHANGED <<diskVars, kind, media, faults, spurious, panic>>

\* The sum of two block_sector_t, which wraps.
WordSum(a, b) == IF a + b < WORD THEN a + b ELSE a + b - WORD

\* found_partition() registers only what lies on the disk.
FoundPartition(p) ==
  /\ PartOf[p].start < Size[PartOf[p].disk]
  /\ WordSum(PartOf[p].start, PartOf[p].size) >= PartOf[p].start
  /\ WordSum(PartOf[p].start, PartOf[p].size) <= Size[PartOf[p].disk]

\* lock_release() and the return to the caller; partition_scan() finds the
\* partitions in what it has read.
ReleaseChannel ==
  /\ At("release")
  /\ SemaUp(Lock)
  /\ \/ /\ op[cur].kind = "scan"
        /\ Goto("identify")
        /\ BlockRegister({p \in Parts : PartOf[p].disk = op[cur].disk /\ FoundPartition(p)})
     \/ /\ op[cur].kind # "scan"
        /\ Goto("run")
        /\ UNCHANGED all_blocks
  /\ op' = [op EXCEPT ![cur] = NoOp]
  /\ buffer' = [buffer EXCEPT ![cur] = "none"]
  /\ UNCHANGED <<expecting_interrupt, is_ata, hwVars, panic, written>>

-----------------------------------------------------------------------------
(* block.c and partition.c.                                                *)

\* check_sector()'s test for an access past the end.
CheckSector(sec, size) == sec >= size

\* block_read() or block_write() of sector sec of block device b: the checks of
\* b and, by way of partition_read() or partition_write(), of the raw disk.
BlockAccess(b, sec, k, v) ==
  /\ At("run")
  /\ b \in all_blocks
  /\ \/ /\ b \in DiskSet
        /\ \/ CheckSector(sec, Size[b]) /\ Panics("sector")
           \/ /\ ~CheckSector(sec, Size[b])
              /\ op' = [op EXCEPT ![cur] = [kind |-> k, disk |-> b, sec |-> sec, val |-> v]]
              /\ Moves("acquire")
              /\ UNCHANGED <<buffer, expecting_interrupt, is_ata, all_blocks, hwVars,
                             panic, written>>
     \/ /\ b \in Parts
        /\ \E raw \in {PartOf[b].start + sec} :
           \/ CheckSector(sec, PartOf[b].size) /\ Panics("sector")
           \/ /\ ~CheckSector(sec, PartOf[b].size)
              /\ k = "write" /\ PartOf[b].foreign
              /\ Panics("foreign")
           \/ /\ ~CheckSector(sec, PartOf[b].size)
              /\ k = "write" => ~PartOf[b].foreign
              /\ CheckSector(raw, Size[PartOf[b].disk])
              /\ Panics("raw")
           \/ /\ ~CheckSector(sec, PartOf[b].size)
              /\ k = "write" => ~PartOf[b].foreign
              /\ ~CheckSector(raw, Size[PartOf[b].disk])
              /\ op' = [op EXCEPT ![cur] = [kind |-> k, disk |-> PartOf[b].disk,
                                            sec |-> raw, val |-> v]]
              /\ Moves("acquire")
              /\ UNCHANGED <<buffer, expecting_interrupt, is_ata, all_blocks, hwVars,
                             panic, written>>

BlockRead(b, sec) == BlockAccess(b, sec, "read", "none")
BlockWrite(b, sec, v) == BlockAccess(b, sec, "write", v)

-----------------------------------------------------------------------------
(* ide_init().                                                             *)

\* The signature that check_device_type() looks for.
IsAta(d) == kind[d] \in {"ata", "huge"}

\* After reset_channel(), check_device_type() of the first device and, unless
\* its error register says that there is no slave, of the second.
CheckDevices ==
  /\ At("check")
  /\ is_ata' = [d \in DiskSet |->
                  IsAta(d) /\ (d = Disks[1] \/ kind[Disks[1]] # "no_slave")]
  /\ Moves("identify")
  /\ UNCHANGED <<op, buffer, expecting_interrupt, all_blocks, hwVars, panic, written>>

\* The loop of ide_init() over the devices, then the return.
IdentifyAtaDevice ==
  /\ At("identify")
  /\ \E todo \in {Sublist(Disks, {d \in DiskSet : is_ata[d] /\ d \notin all_blocks})} :
       \/ /\ todo # <<>>
          /\ op' = [op EXCEPT ![cur] = [NoOp EXCEPT !.kind = "identify", !.disk = todo[1]]]
          /\ Moves("select")
       \/ /\ todo = <<>>
          /\ op' = [op EXCEPT ![cur] = NoOp]
          /\ Moves("run")
  /\ UNCHANGED <<buffer, expecting_interrupt, is_ata, all_blocks, hwVars, panic, written>>

-----------------------------------------------------------------------------
Create(t) ==
  /\ At("run") /\ ThreadCreate(t)
  /\ UNCHANGED <<diskVars, hwVars, panic, written>>

Exit ==
  /\ At("run") /\ cur # Main
  /\ ThreadExit
  /\ UNCHANGED <<diskVars, hwVars, panic, written>>

Tick ==
  /\ panic = "no" /\ TimerInterrupt
  /\ UNCHANGED <<diskVars, hwVars, panic, written>>

IdleStep ==
  /\ panic = "no" /\ IdleBlock
  /\ UNCHANGED <<diskVars, hwVars, panic, written>>

\* The state in which ide_init() has reset the channel.
Init ==
  /\ SchedInit("check")
  /\ op = [t \in Threads |-> NoOp]
  /\ buffer = [t \in Threads |-> "none"]
  /\ expecting_interrupt = FALSE
  /\ is_ata = [d \in DiskSet |-> FALSE]
  /\ all_blocks = {}
  /\ kind \in Kinds
  /\ dev = [state |-> "idle", intrq |-> FALSE, disk |-> Disks[1], sec |-> 0, data |-> "none"]
  /\ media = [d \in DiskSet |-> [s \in 0..(Size[d] - 1) |-> "none"]]
  /\ faults = 0 /\ spurious = 0 /\ panic = "no"
  /\ written = media

ThreadStep ==
  \/ AcquireChannel \/ SelectSector \/ IssuePioCommand \/ AwaitCompletion
  \/ BusyPoll \/ BusyNap \/ BusyReady \/ BusyFails
  \/ InputSector \/ OutputSector \/ ReleaseChannel
  \/ CheckDevices \/ IdentifyAtaDevice

Call ==
  \/ \E b \in DiskSet \cup Parts, sec \in 0..Max({Size[d] : d \in DiskSet}) :
       BlockRead(b, sec) \/ \E v \in Values : BlockWrite(b, sec, v)
  \/ \E t \in Threads : Create(t)
  \/ Exit

Next ==
  \/ ThreadStep \/ Call \/ IdleStep
  \/ Tick \/ DiskInterrupt
  \/ DeviceStep \/ DeviceFault \/ SpuriousInterrupt

Spec == Init /\ [][Next]_vars

-----------------------------------------------------------------------------
InRequest(t) == op[t].kind # "none" /\ at[t] \notin {"acquire", "run"}

\* The commands of two threads never mix on the channel: at most one thread is
\* past lock_acquire() (identify_ata_device() runs without the lock), the lock's
\* semaphore says so, and every thread is on the lists its status calls for.
OneRequest ==
  /\ ThreadsAccounted({})
  /\ Cardinality({t \in Threads : InRequest(t)}) <= 1
  /\ \A t \in Threads : InRequest(t) /\ op[t].kind # "identify" => value[Lock] = 0

\* What ide_read() hands to its caller is what the last ide_write() put into
\* that sector of that disk, also when an interrupt that belongs to no command
\* has let sema_down (&completion_wait) through too early.  The damage that an
\* idle timeout or a failed store does, which ide_write() reports as a success,
\* stays with the sectors of the requests it hit, until they are written again.
ReadsLastWrite ==
  \A t \in Threads :
    at[t] = "release" /\ op[t].kind \in {"read", "scan"} =>
      written[op[t].disk][op[t].sec] \in {buffer[t], "unknown"}

\* A completion is counted once: no more are to hand than interrupts that
\* belong to no command have added, besides the one of the command that runs.
CompletionsMatch ==
  value[Completion] + (IF dev.intrq THEN 1 ELSE 0) <=
    spurious + (IF \E t \in Threads : InRequest(t) THEN 1 ELSE 0)

\* The kernel panics for a disk only when a command has failed or its own
\* request went on after an idle timeout; an access that a partition accepts is
\* in range on its disk, because found_partition() registered no other, also
\* where start + size wraps; and only disks below 1 GB are ever used.
PanicsOnlyForCause ==
  /\ panic = "failed" => faults > 0 \/ written[op[cur].disk][op[cur].sec] = "unknown"
  /\ panic # "raw"
  /\ \A d \in DiskSet \cap all_blocks : kind[d] = "ata"

\* A thread that sleeps for a completion is owed one: the disk is at work on
\* its command, or hangs, or the interrupt is on its way.  Spurious interrupts
\* and status reads that clear a pending one take none away.
CompletionComes ==
  waiters[Completion] # <<>> => dev.intrq \/ dev.state \in {"reading", "storing", "stuck"}

\* "Returns after the disk has acknowledged receiving the data" (ide.c:360-361),
\* of ide_write().  It does so as long as every interrupt belonged to a command:
\* expecting_interrupt is never reset, and one that did not is counted too, after
\* which writes return while the disk is still storing.
WriteAcknowledged ==
  spurious = 0 =>
    \A t \in Threads : at[t] = "release" /\ op[t].kind = "write" => dev.state # "storing"

\* ide.c's requests come to their proper end: every sleeper is woken, by one completion
\* of its own, a write when the disk has the data, and no access that check_sector()
\* lets through panics on a disk that is sound and in time.
RequestsEnd == CompletionComes /\ CompletionsMatch /\ PanicsOnlyForCause /\ WriteAcknowledged
=============================================================================
