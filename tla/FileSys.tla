------------------------------ MODULE FileSys ------------------------------
(***************************************************************************)
(* proj2's file system (filesys/filesys.c, directory.c, inode.c, file.c,   *)
(* free-map.c) below the system calls on files (userprog/syscall.c) of one *)
(* process at a time, and the executable that the process keeps open.      *)
(*                                                                         *)
(* The calls hold IOLock from beginning to end and nobody else is about,   *)
(* so each is one step; SYS_EXIT closes its files one by one.  A file is a *)
(* number of whole sectors, the unit in which it is read and written, and  *)
(* less than a page.  Sectors are those behind the free map and the root   *)
(* directory; the free map on disk always equals the one in memory.  The   *)
(* process is at "none", "user", or "exit" (SYS_EXIT, closing).  Calls     *)
(* that change nothing (a name that is not there, a full disk, the end of  *)
(* a file, SYS_TELL, SYS_FILESIZE, SYS_MUNMAP) are not steps.              *)
(***************************************************************************)
EXTENDS Lists

CONSTANTS
  Names,        \* valid file names
  Program,      \* the name of a file that exists after formatting
  LastSector,   \* sectors are 1..LastSector
  DirEntries,   \* entries of the root directory, which cannot grow
  Lengths,      \* initial_size of a new file, in sectors
  Files,        \* bound: the struct files there can be
  Values,       \* what a process writes into a sector
  None

Sectors == 1..LastSector

ASSUME FileSysAssumption ==
  /\ Program \in Names
  /\ LastSector \in Nat /\ LastSector >= 2
  /\ DirEntries \in Nat \ {0}
  /\ Lengths \subseteq Nat
  /\ IsFiniteSet(Files)
  /\ None \notin Files /\ None \notin Sectors

Extent(start, length) == start..(start + length - 1)

VARIABLES
  free_map,      \* the sectors that are marked
  dir,           \* the inode sector of each name in the root directory
  inode_disk,    \* the inode that was last written to a sector
  inode,         \* struct inode of a sector; open_cnt = 0: none in open_inodes
  file,          \* struct files
  fileList,      \* those of the process, oldest first
  mFile,         \* its executable
  at,            \* where the process is
  IOLock,        \* value of the semaphore
  panic,         \* a failed ASSERT
  data,          \* contents of the sectors
  lost           \* history: sectors that stay marked and belong to no file

diskVars == <<free_map, dir, inode_disk, data>>
procVars == <<fileList, mFile, at>>
vars == <<diskVars, inode, file, procVars, IOLock, panic, lost>>

NoInode ==
  [open_cnt |-> 0, removed |-> FALSE, deny_write_cnt |-> 0, start |-> 0, length |-> 0]
NoFile == [inode |-> 0, pos |-> 0, deny_write |-> FALSE]
InUse(id) == file[id].inode # 0

\* A system call that takes IOLock, by the process in user mode, and gives it
\* back, as all do but the one in SysReadBadBuffer.
Call == panic = "no" /\ at = "user" /\ IOLock > 0

\* ASSERT fails: nothing happens any more.
Panics(why) ==
  /\ panic' = why
  /\ UNCHANGED <<diskVars, inode, file, procVars, IOLock, lost>>

-----------------------------------------------------------------------------
(* The free map and the inodes.                                            *)

Fits(map, cnt, s) == Extent(s, cnt) \subseteq Sectors \ map

\* Faulty variant: the scan looks one sector short.
FreeMapFit_Short(map, cnt) ==
  IF cnt > 0 /\ \E s \in Sectors : Fits(map, cnt - 1, s)
  THEN CHOOSE s \in Sectors : /\ Fits(map, cnt - 1, s)
                              /\ \A t \in Sectors : Fits(map, cnt - 1, t) => s <= t
  ELSE 0

\* bitmap_scan() in free_map_allocate(): the first cnt clear bits in a row, or
\* 0 if there are none; no sectors at all are found at sector 0.
FreeMapFit(map, cnt) ==
  IF cnt > 0 /\ \E s \in Sectors : Fits(map, cnt, s)
  THEN CHOOSE s \in Sectors : /\ Fits(map, cnt, s)
                              /\ \A t \in Sectors : Fits(map, cnt, t) => s <= t
  ELSE 0

\* Faulty variant: the second opener is not counted.
InodeOpen_NotCounted(inodes, s) ==
  [inodes EXCEPT ![s] = IF @.open_cnt > 0 THEN @
                        ELSE [NoInode EXCEPT !.open_cnt = 1, !.start = inode_disk[s].start,
                                             !.length = inode_disk[s].length]]

\* inode_open(): the inode in the list once more, or a new one, read from disk.
InodeOpen(inodes, s) ==
  [inodes EXCEPT ![s] = IF @.open_cnt > 0 THEN [@ EXCEPT !.open_cnt = inodes[s].open_cnt + 1]
                        ELSE [NoInode EXCEPT !.open_cnt = 1, !.start = inode_disk[s].start,
                                             !.length = inode_disk[s].length]]

\* inode_close() frees the blocks with the last close of a removed inode.
Reclaims(i) == i.open_cnt = 1 /\ i.removed

\* What inode_close() releases for the inode i in sector s.
Released(s, i) == {s} \cup Extent(i.start, i.length)

\* inode_close() of sector s, given the inodes as they are then.
InodeClose(inodes, s) ==
  /\ inode' = [inodes EXCEPT ![s] = IF @.open_cnt = 1 THEN NoInode
                                    ELSE [@ EXCEPT !.open_cnt = inodes[s].open_cnt - 1]]
  /\ free_map' = IF Reclaims(inodes[s]) THEN free_map \ Released(s, inodes[s])
                 ELSE free_map

\* The ASSERT of free_map_release() in that inode_close().
CloseFails(inodes, s) ==
  Reclaims(inodes[s]) /\ ~(Released(s, inodes[s]) \subseteq free_map)

\* Faulty variant: the executable stays denied.
AllowWrite_Not(inodes, id) == inodes

\* file_allow_write().
AllowWrite(inodes, id) ==
  IF file[id].deny_write
  THEN [inodes EXCEPT ![file[id].inode].deny_write_cnt = @ - 1] ELSE inodes

\* file_close().
FileClose(id) ==
  /\ InodeClose(AllowWrite(inode, id), file[id].inode)
  /\ file' = [file EXCEPT ![id] = NoFile]

-----------------------------------------------------------------------------
(* filesys_create(), filesys_remove(), filesys_open().                     *)

DirFull == Cardinality({n \in Names : dir[n] # None}) >= DirEntries

\* filesys_create().  When dir_add() fails the inode's sector is released and
\* the data sectors are not.
SysCreate(n, length) ==
  LET s == FreeMapFit(free_map, 1)
      start == FreeMapFit(free_map \cup {s}, length)
  IN /\ Call
     /\ s # 0 /\ (length > 0 => start # 0)
     /\ inode_disk' = [inode_disk EXCEPT ![s] = [start |-> start, length |-> length]]
     /\ data' = [t \in Sectors |-> IF t \in Extent(start, length) THEN "zero" ELSE data[t]]
     /\ \/ /\ dir[n] = None /\ ~DirFull
           /\ dir' = [dir EXCEPT ![n] = s]
           /\ free_map' = free_map \cup {s} \cup Extent(start, length)
           /\ UNCHANGED lost
        \/ /\ dir[n] # None \/ DirFull
           /\ free_map' = free_map \cup Extent(start, length)
           /\ lost' = lost \cup Extent(start, length)
           /\ UNCHANGED dir
     /\ UNCHANGED <<inode, file, procVars, IOLock, panic>>

\* filesys_create() of a negative size, which SYS_CREATE passes on: the sector for
\* the inode is marked when the ASSERT of inode_create() fails.
SysCreateNegative ==
  LET s == FreeMapFit(free_map, 1)
  IN /\ Call
     /\ s # 0
     /\ free_map' = free_map \cup {s}
     /\ lost' = lost \cup {s}
     /\ panic' = "length"
     /\ UNCHANGED <<dir, inode_disk, data, inode, file, procVars, IOLock>>

\* filesys_remove().
SysRemove(n) ==
  LET opened == InodeOpen(inode, dir[n])
      removed == [opened EXCEPT ![dir[n]].removed = TRUE]
  IN /\ Call
     /\ dir[n] # None
     /\ \/ CloseFails(removed, dir[n]) /\ Panics("release")
        \/ /\ ~CloseFails(removed, dir[n])
           /\ dir' = [dir EXCEPT ![n] = None]
           /\ InodeClose(removed, dir[n])
           /\ UNCHANGED <<inode_disk, data, file, procVars, IOLock, panic, lost>>

\* filesys_open() of an existing file can make the struct file id.
FilesysOpen(n, id) == dir[n] # None /\ ~InUse(id)

SysOpen(n, id) ==
  /\ Call
  /\ FilesysOpen(n, id)
  /\ inode' = InodeOpen(inode, dir[n])
  /\ file' = [file EXCEPT ![id] = [NoFile EXCEPT !.inode = dir[n]]]
  /\ fileList' = Append(fileList, id)
  /\ UNCHANGED <<diskVars, mFile, at, IOLock, panic, lost>>

-----------------------------------------------------------------------------
(* Calls on an open file.                                                  *)

Inode(id) == inode[file[id].inode]

\* A call on a descriptor of the process.
CallOn(id) == Call /\ id \in Range(fileList)

\* SYS_READ of a sector.
SysRead(id) ==
  /\ CallOn(id)
  /\ file[id].pos < Inode(id).length
  /\ file' = [file EXCEPT ![id].pos = @ + 1]
  /\ UNCHANGED <<diskVars, inode, procVars, IOLock, panic, lost>>

\* Faulty variant: nobody asks for the deny count.
MayWrite_Always(i) == TRUE

\* inode_write_at()'s test of the deny count.
MayWrite(i) == i.deny_write_cnt = 0

\* SYS_WRITE of a sector; nothing is written past the end, or while the inode
\* is denied.
SysWrite(id, v) ==
  /\ CallOn(id)
  /\ MayWrite(Inode(id)) /\ file[id].pos < Inode(id).length
  /\ data' = [data EXCEPT ![Inode(id).start + file[id].pos] = v]
  /\ file' = [file EXCEPT ![id].pos = @ + 1]
  /\ UNCHANGED <<free_map, dir, inode_disk, inode, procVars, IOLock, panic, lost>>

SysSeek(id, pos) ==
  /\ CallOn(id)
  /\ file' = [file EXCEPT ![id].pos = pos]
  /\ UNCHANGED <<diskVars, inode, procVars, IOLock, panic, lost>>

\* file_seek() to a position of 2^31 or more, which is a negative off_t.
SysSeekNegative(id) == CallOn(id) /\ Panics("position")

\* file_close() of a file of the process, and its list element goes.
CloseAndUnlink(id) ==
  \/ CloseFails(inode, file[id].inode) /\ Panics("release")
  \/ /\ ~CloseFails(inode, file[id].inode)
     /\ FileClose(id)
     /\ fileList' = Unlink(fileList, id)
     /\ UNCHANGED <<dir, inode_disk, data, mFile, at, IOLock, panic, lost>>

SysClose(id) == CallOn(id) /\ CloseAndUnlink(id)

-----------------------------------------------------------------------------
(* The life of the process.                                                *)

\* load(), without IOLock, of a file that turns out to be a program: it stays
\* open and denied to writers.  Any other file is closed again.
Load(n, id) ==
  /\ panic = "no" /\ at = "none"
  /\ FilesysOpen(n, id)
  /\ inode_disk[dir[n]].length > 0
  /\ inode' = [InodeOpen(inode, dir[n]) EXCEPT ![dir[n]].deny_write_cnt = @ + 1]
  /\ file' = [file EXCEPT ![id] = [inode |-> dir[n], pos |-> 0, deny_write |-> TRUE]]
  /\ mFile' = id /\ at' = "user"
  /\ UNCHANGED <<diskVars, fileList, IOLock, panic, lost>>

\* thread_exit(), given the struct files and inodes as they are then: the
\* executable may be written again; neither it nor what is left in fileList is
\* closed.
ThreadExit(files, inodes) ==
  /\ file' = [files EXCEPT ![mFile].deny_write = FALSE]
  /\ inode' = AllowWrite(inodes, mFile)
  /\ at' = "none" /\ mFile' = None /\ fileList' = << >>

\* doBadExit() in a call, before IOLock is taken or after it is given back, and
\* the faults of user code.
Killed ==
  /\ panic = "no" /\ at = "user"
  /\ ThreadExit(file, inode)
  /\ UNCHANGED <<diskVars, IOLock, panic, lost>>

\* SYS_READ into an address that is not the process's: doBadExit() with IOLock
\* down.
SysReadBadBuffer ==
  /\ Call
  /\ IOLock' = IOLock - 1
  /\ ThreadExit(file, inode)
  /\ UNCHANGED <<diskVars, panic, lost>>

\* SYS_MMAP opens the file again and reads a page; install_page() then fails,
\* because upage is the address of the argument, in the stack, and not the
\* address it holds.
SysMmap(id, new) ==
  /\ CallOn(id) /\ ~InUse(new)
  /\ ThreadExit([file EXCEPT ![new] = [NoFile EXCEPT !.inode = file[id].inode,
                                                     !.pos = Inode(id).length]],
                InodeOpen(inode, file[id].inode))
  /\ UNCHANGED <<diskVars, IOLock, panic, lost>>

SysExit ==
  /\ panic = "no" /\ at = "user"
  /\ at' = "exit"
  /\ UNCHANGED <<diskVars, inode, file, fileList, mFile, IOLock, panic, lost>>

\* One round of SYS_EXIT's loop, which does not take IOLock.
ExitCloses ==
  /\ panic = "no" /\ at = "exit" /\ fileList # << >>
  /\ CloseAndUnlink(Head(fileList))

ExitEnds ==
  /\ panic = "no" /\ at = "exit" /\ fileList = << >>
  /\ ThreadExit(file, inode)
  /\ UNCHANGED <<diskVars, IOLock, panic, lost>>

\* Files that are removed and still open.
RemovedOpen == {s \in Sectors : inode[s].open_cnt > 0 /\ inode[s].removed}

\* shutdown_power_off(), by SYS_HALT or at the end of the command line, or the end
\* of a panic, and filesys_init() on the same disk: memory is gone, and so is the
\* knowledge of what was to be released at the last close.
Restart ==
  /\ at # "exit"
  /\ inode' = [s \in Sectors |-> NoInode]
  /\ file' = [id \in Files |-> NoFile]
  /\ fileList' = << >> /\ mFile' = None /\ at' = "none" /\ IOLock' = 1
  /\ lost' = lost \cup UNION {Released(s, inode[s]) : s \in RemovedOpen}
  /\ panic' = "no"
  /\ UNCHANGED diskVars

\* A formatted disk with a program of one sector.
Init ==
  /\ free_map = {1, 2}
  /\ dir = [n \in Names |-> IF n = Program THEN 1 ELSE None]
  /\ inode_disk = [s \in Sectors |-> [start |-> IF s = 1 THEN 2 ELSE 0,
                                      length |-> IF s = 1 THEN 1 ELSE 0]]
  /\ data = [s \in Sectors |-> "zero"]
  /\ inode = [s \in Sectors |-> NoInode]
  /\ file = [id \in Files |-> NoFile]
  /\ fileList = << >> /\ mFile = None /\ at = "none"
  /\ IOLock = 1 /\ panic = "no" /\ lost = {}

Next ==
  \/ \E n \in Names, length \in Lengths : SysCreate(n, length)
  \/ SysCreateNegative
  \/ \E n \in Names : SysRemove(n)
  \/ \E n \in Names, id \in Files : SysOpen(n, id) \/ Load(n, id)
  \/ \E id \in Files : SysRead(id) \/ SysSeekNegative(id) \/ SysClose(id)
  \/ \E id \in Files, v \in Values : SysWrite(id, v)
  \/ \E id \in Files, pos \in Lengths : SysSeek(id, pos)
  \/ \E id, new \in Files : SysMmap(id, new)
  \/ Killed \/ SysReadBadBuffer \/ SysExit \/ ExitCloses \/ ExitEnds \/ Restart

Spec == Init /\ [][Next]_vars

-----------------------------------------------------------------------------
(* Properties.                                                             *)

\* The variables have their types, and no ASSERT of inode_close() or of
\* free_map_release() has failed, only those on the arguments of the program.
TypeOK ==
  /\ free_map \subseteq Sectors /\ lost \subseteq Sectors
  /\ dir \in [Names -> Sectors \cup {None}]
  /\ inode_disk \in [Sectors -> [start : 0..LastSector, length : 0..LastSector]]
  /\ data \in [Sectors -> Values \cup {"zero"}]
  /\ inode \in [Sectors -> [open_cnt : Nat, removed : BOOLEAN, deny_write_cnt : Nat,
                            start : 0..LastSector, length : 0..LastSector]]
  /\ file \in [Files -> [inode : 0..LastSector, pos : Nat, deny_write : BOOLEAN]]
  /\ fileList \in Seq(Files) /\ mFile \in Files \cup {None}
  /\ at \in {"none", "user", "exit"} /\ IOLock \in 0..1
  /\ panic \in {"no", "length", "position"}

\* The files that exist: those with a name, and those somebody still holds.
Named == {dir[n] : n \in {m \in Names : dir[m] # None}}
Alive == Named \cup RemovedOpen
Blocks(s) == {s} \cup Extent(inode_disk[s].start, inode_disk[s].length)

\* Every marked sector belongs to one file, named or removed and still open,
\* or was lost; no two files share one: create, remove and the last close keep
\* the free map (free-map.c, inode_close()) in step with the directory.
SectorsAccounted ==
  /\ TypeOK
  /\ free_map = lost \cup UNION {Blocks(s) : s \in Alive}
  /\ \A s \in Alive : Blocks(s) \cap lost = {}
  /\ \A s, t \in Alive : s # t => Blocks(s) \cap Blocks(t) = {}
  /\ \A m, n \in Names : dir[m] = dir[n] /\ dir[m] # None => m = n
  /\ Named \cap RemovedOpen = {}

Openers(s) == {id \in Files : file[id].inode = s}

\* An inode in memory is open once for each struct file on it, denied once for
\* each of them that denies writing, and a copy of the one on disk, which is not
\* reused as long (inode_open(), inode_close(), file_deny_write()).
InodesCounted ==
  \A s \in Sectors :
    /\ inode[s].open_cnt = Cardinality(Openers(s))
    /\ inode[s].deny_write_cnt = Cardinality({id \in Openers(s) : file[id].deny_write})
    /\ inode[s].open_cnt > 0 => /\ s \in Alive
                                /\ inode[s].start = inode_disk[s].start
                                /\ inode[s].length = inode_disk[s].length

\* Nobody is denied a file except while a program runs from it: thread_exit()
\* takes the denial back on every way out.
DeniedOnlyWhileRunning ==
  \A s \in Sectors : inode[s].deny_write_cnt > 0 => mFile # None /\ file[mFile].inode = s

\* What a step may do to the contents of the files.
WritesItsOwn ==
  \A s \in Alive \cap Alive' : \A i \in 0..(inode_disk[s].length - 1) :
    LET d == inode_disk[s].start + i
    IN data'[d] # data[d] =>
         /\ \E id \in Range(fileList) : file[id].inode = s /\ file[id].pos = i
         /\ mFile = None \/ file[mFile].inode # s

\* The contents of a file that stays in existence change only by a write of the
\* process at the position of a descriptor it holds, and never when it is the
\* executable that is running.
ContentsOnlyWritten == [][WritesItsOwn]_vars
=============================================================================
