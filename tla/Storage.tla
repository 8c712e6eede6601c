------------------------------ MODULE Storage ------------------------------
(***************************************************************************)
(* The file system of proj2/src/filesys one write to the disk after        *)
(* another, with a machine that may go down between any two of them:       *)
(* filesys_create(), filesys_remove() and the close of a file, over the    *)
(* free map (free-map.c), inodes (inode.c) and the root directory          *)
(* (directory.c).  A call holds IOLock, except the closes of SYS_EXIT,     *)
(* which run beside it.  Then the reading and writing of bytes (file.c,    *)
(* inode_read_at(), inode_write_at()).                                     *)
(*                                                                         *)
(* The free map's data fill one sector, and inode_write_at() then writes   *)
(* the bitmap itself; the directory fits in one.  A state s                *)
(* has disk (what survives: map, inode, slots, data), map (free_map),      *)
(* opened (inodes open by programs, with open_cnt), removed, and the calls *)
(* in progress: call and exit.  data says of a sector whether it still     *)
(* holds what an earlier owner wrote.                                      *)
(***************************************************************************)
EXTENDS SequencesExt

CONSTANTS
  DiskSectors,        \* sectors of the device
  EntryCnt,           \* entries of the root directory (16)
  SectorBytes,        \* BLOCK_SECTOR_SIZE
  MaxOpen             \* bound: open_cnt

ASSUME StorageAssumption ==
  /\ DiskSectors \in Nat /\ DiskSectors > 4
  /\ EntryCnt \in Nat \ {0} /\ SectorBytes \in Nat \ {0} /\ MaxOpen \in Nat

FREE_MAP_SECTOR == 0
ROOT_DIR_SECTOR == 1
NoSector == -1
AllSectors == 0..(DiskSectors - 1)
Run(start, cnt) == start..(start + cnt - 1)
NoFileInode == [start |-> NoSector, sectors |-> 0]
FreeSlot == [in_use |-> FALSE, name |-> "", sector |-> NoSector]
Idle == [at |-> "idle"]

-----------------------------------------------------------------------------
(* free-map.c.                                                             *)

\* Where free_map_allocate() finds cnt sectors in a row, or NoSector; none at all are
\* found at sector 0.
FirstRun(map, cnt) ==
  LET fits == {i \in AllSectors : Run(i, cnt) \subseteq AllSectors \ map}
  IN IF cnt = 0 THEN 0 ELSE IF fits = {} THEN NoSector
     ELSE CHOOSE i \in fits : \A j \in fits : i <= j

\* bitmap_write() after a change: what is on disk is the map in memory.
WithMap(s, map) == [s EXCEPT !.map = map, !.disk.map = map]

free_map_release(s, start, cnt) ==
  LET t == WithMap(s, s.map \ Run(start, cnt))
  IN [t EXCEPT !.disk.data = [d \in AllSectors |-> IF d \in Run(start, cnt) THEN "old" ELSE @[d]]]

free_map_init == {FREE_MAP_SECTOR, ROOT_DIR_SECTOR}

-----------------------------------------------------------------------------
(* directory.c on the slots of the root directory.                         *)

\* lookup(): the slot of a name, or 0.
lookup(slots, name) ==
  LET found == {i \in DOMAIN slots : slots[i].in_use /\ slots[i].name = name}
  IN IF found = {} THEN 0 ELSE CHOOSE i \in found : \A j \in found : i <= j

\* The slot that dir_add() writes, or 0: a name that is not valid or in use, or no slot.
AddSlot(slots, name) ==
  LET unused == {i \in DOMAIN slots : ~slots[i].in_use}
  IN IF name \in {"", "too_long"} \/ lookup(slots, name) # 0 \/ unused = {} THEN 0
     ELSE CHOOSE i \in unused : \A j \in unused : i <= j

\* dir_readdir() from a position on: the position after it and the name, "" at the end.
RECURSIVE dir_readdir(_, _)
dir_readdir(slots, pos) ==
  IF pos = Len(slots) THEN <<pos, "">>
  ELSE IF slots[pos + 1].in_use THEN <<pos + 1, slots[pos + 1].name>>
  ELSE dir_readdir(slots, pos + 1)

\* All that repeated calls give.
RECURSIVE Listing(_, _)
Listing(slots, pos) ==
  LET r == dir_readdir(slots, pos)
  IN IF r[2] = "" THEN <<>> ELSE <<r[2]>> \o Listing(slots, r[1])

-----------------------------------------------------------------------------
(* filesys_init() with a new file system.                                  *)

\* inode_create() at once, for a sector of the system's own; dir_create() is one.
InodeCreate(s, sector, cnt) ==
  LET start == FirstRun(s.map, cnt)
      t == WithMap(s, s.map \cup Run(start, cnt))
  IN [t EXCEPT !.disk.inode[sector] = [start |-> start, sectors |-> cnt],
               !.disk.data = [d \in AllSectors |-> IF d \in Run(start, cnt) THEN "zero" ELSE @[d]]]

\* do_format(): free_map_create() and dir_create().
do_format ==
  LET empty == [disk |-> [map |-> {}, inode |-> [i \in AllSectors |-> NoFileInode],
                          slots |-> [i \in 1..EntryCnt |-> FreeSlot],
                          data |-> [i \in AllSectors |-> "old"]],
                map |-> free_map_init, opened |-> [i \in AllSectors |-> 0], removed |-> {},
                call |-> Idle, exit |-> Idle]
  IN InodeCreate(InodeCreate(empty, FREE_MAP_SECTOR, 1), ROOT_DIR_SECTOR, 1)

\* filesys_init() on a disk that has been in use: inode_init(), free_map_open().
Restarted(s) ==
  [s EXCEPT !.map = s.disk.map, !.opened = [i \in AllSectors |-> 0], !.removed = {},
            !.call = Idle, !.exit = Idle]

-----------------------------------------------------------------------------
(* Calls, step by step.  Each step ends with a write to the disk.          *)

\* filesys_create(): free_map_allocate() for the inode, then inode_create() with
\* its own, the inode, the zeros, and dir_add(); when a step fails the inode's sector
\* is released.
Create(s) ==
  LET c == s.call
      data == s.disk.inode[c.sector]
      slot == AddSlot(s.disk.slots, c.name)
      fail == [free_map_release(s, c.sector, 1) EXCEPT !.call = Idle]
  IN CASE c.at = "sectors" ->
            LET start == FirstRun(s.map, c.cnt)
            IN IF start = NoSector THEN fail
               ELSE [WithMap(s, s.map \cup Run(start, c.cnt)) EXCEPT
                       !.call = [c EXCEPT !.at = "inode", !.start = start]]
       [] c.at = "inode" ->
            [s EXCEPT !.disk.inode[c.sector] = [start |-> c.start, sectors |-> c.cnt],
                      !.call = [c EXCEPT !.at = "zeros"]]
       [] c.at = "zeros" ->
            IF c.done < c.cnt
            THEN [s EXCEPT !.disk.data[c.start + c.done] = "zero", !.call.done = @ + 1]
            ELSE [s EXCEPT !.call = [c EXCEPT !.at = "add"]]
       [] c.at = "add" ->
            IF slot = 0 THEN fail
            ELSE [s EXCEPT !.disk.slots[slot] = [in_use |-> TRUE, name |-> c.name, sector |-> c.sector],
                           !.call = Idle]

\* The start of it.
CreateStarts(s, name, cnt) ==
  LET sector == FirstRun(s.map, 1)
  IN IF sector = NoSector THEN s
     ELSE [WithMap(s, s.map \cup {sector}) EXCEPT
             !.call = [at |-> "sectors", name |-> name, cnt |-> cnt, sector |-> sector,
                       start |-> NoSector, done |-> 0]]

\* inode_close(), in the call who: with the last close of a removed inode its own sector
\* goes, and in the next step its data.
CloseStarts(s, who, sector) ==
  LET t == [s EXCEPT !.opened[sector] = @ - 1]
  IN IF t.opened[sector] > 0 \/ sector \notin s.removed THEN [t EXCEPT ![who] = Idle]
     ELSE [free_map_release(t, sector, 1) EXCEPT
             !.removed = @ \ {sector},
             ![who] = [at |-> "release", start |-> s.disk.inode[sector].start,
                       cnt |-> s.disk.inode[sector].sectors]]

CloseEnds(s, who) == [free_map_release(s, s[who].start, s[who].cnt) EXCEPT ![who] = Idle]

\* Faulty variant: the file's sectors go before its name does.
RemoveStarts_ReleaseFirst(s, slot) ==
  LET sector == s.disk.slots[slot].sector
  IN [free_map_release(s, sector, 1) EXCEPT
        !.opened[sector] = @ + 1, !.call = [at |-> "erase", slot |-> slot, sector |-> sector]]
\* dir_remove(): inode_open(), and the entry is erased.
RemoveStarts(s, slot) ==
  LET sector == s.disk.slots[slot].sector
  IN [s EXCEPT !.disk.slots[slot] = FreeSlot, !.opened[sector] = @ + 1,
               !.call = [at |-> "erase", slot |-> slot, sector |-> sector]]

\* inode_remove() and inode_close().
RemoveEnds(s) ==
  CloseStarts([s EXCEPT !.disk.slots[s.call.slot] = FreeSlot, !.removed = @ \cup {s.call.sector}],
              "call", s.call.sector)

\* What can happen next: a call goes on or one begins, the exit of a program closes a
\* file, or the machine is started again.
StorageSteps(s, names, counts) ==
  LET quiet == s.call.at = "idle"
      slots == {i \in DOMAIN s.disk.slots : s.disk.slots[i].in_use}
      open == {i \in AllSectors : s.opened[i] > (IF s.call.at = "erase" /\ s.call.sector = i THEN 1 ELSE 0)}
  IN (IF quiet THEN {CreateStarts(s, name, cnt) : name \in names, cnt \in counts}
                    \cup {RemoveStarts(s, i) : i \in slots}
                    \cup {[s EXCEPT !.opened[s.disk.slots[i].sector] = @ + 1] :
                            i \in {j \in slots : s.opened[s.disk.slots[j].sector] < MaxOpen}}
      ELSE IF s.call.at = "erase" THEN {RemoveEnds(s)}
      ELSE IF s.call.at = "release" THEN {CloseEnds(s, "call")}
      ELSE {Create(s)})
     \cup (IF s.exit.at = "release" THEN {CloseEnds(s, "exit")}
           ELSE {CloseStarts(s, "exit", i) : i \in open})
     \cup {Restarted(s)}

-----------------------------------------------------------------------------
(* Bytes.  A file is [start, length]; disk maps sectors to SectorBytes     *)
(* bytes.                                                                  *)

byte_to_sector(file, pos) == IF pos < file.length THEN file.start + (pos \div SectorBytes) ELSE NoSector

\* chunk_size in inode_read_at() and inode_write_at().
Chunk(file, size, offset) == Min({size, file.length - offset, SectorBytes - (offset % SectorBytes)})

RECURSIVE inode_read_at(_, _, _, _)
inode_read_at(disk, file, size, offset) ==
  LET n == Chunk(file, size, offset)
      sector == disk[byte_to_sector(file, offset)]
  IN IF size <= 0 \/ n <= 0 THEN <<>>
     ELSE SubSeq(sector, (offset % SectorBytes) + 1, (offset % SectorBytes) + n)
          \o inode_read_at(disk, file, size - n, offset + n)

\* Whether the sector is read before a chunk is put into it.
Merges(sector_ofs, n) == sector_ofs > 0 \/ n < SectorBytes - sector_ofs

\* <<the disk, bytes_written>>.
RECURSIVE inode_write_at(_, _, _, _)
inode_write_at(disk, file, buffer, offset) ==
  LET n == Chunk(file, Len(buffer), offset)
      at == offset % SectorBytes
      idx == byte_to_sector(file, offset)
      old == IF Merges(at, n) THEN disk[idx] ELSE [i \in 1..SectorBytes |-> 0]
      new == [i \in 1..SectorBytes |-> IF i \in (at + 1)..(at + n) THEN buffer[i - at] ELSE old[i]]
      rest == inode_write_at([disk EXCEPT ![idx] = new], file, SubSeq(buffer, n + 1, Len(buffer)), offset + n)
  IN IF buffer = <<>> \/ n <= 0 THEN <<disk, 0>> ELSE <<rest[1], n + rest[2]>>

\* file_read() and file_write(): at the position, which moves by what was transferred.
file_read(disk, f, size) ==
  LET b == inode_read_at(disk, f.inode, size, f.pos) IN <<b, [f EXCEPT !.pos = @ + Len(b)]>>
file_write(disk, f, buffer) ==
  LET w == inode_write_at(disk, f.inode, buffer, f.pos) IN <<w[1], [f EXCEPT !.pos = @ + w[2]]>>

-----------------------------------------------------------------------------
(* Reference.                                                              *)

\* The sectors of the file in a slot, on disk.
FileSectors(s, i) ==
  LET sector == s.disk.slots[i].sector
      inode == s.disk.inode[sector]
  IN {sector} \cup Run(inode.start, inode.sectors)

\* Whenever the machine goes down, the disk is one to go on with: every name leads to an
\* inode whose sectors are marked, are no other file's nor the system's own, and hold
\* nothing of an earlier file; sectors can only be lost, never given twice, and no
\* ASSERT of free_map_release() fails.  Between the steps the free map in memory is the
\* one on disk.
DiskConsistent(s) ==
  LET slots == {i \in DOMAIN s.disk.slots : s.disk.slots[i].in_use}
  IN /\ \A i \in slots :
          /\ FileSectors(s, i) \subseteq s.disk.map
          /\ FileSectors(s, i) \cap Run(0, 4) = {}
          /\ \A d \in FileSectors(s, i) \ {s.disk.slots[i].sector} : s.disk.data[d] = "zero"
     /\ \A i, j \in slots : i # j => /\ FileSectors(s, i) \cap FileSectors(s, j) = {}
                                     /\ s.disk.slots[i].name # s.disk.slots[j].name
     /\ Run(0, 4) \subseteq s.disk.map
     /\ s.map = s.disk.map
     /\ \A who \in {"call", "exit"} :
          CASE s[who].at = "release" -> Run(s[who].start, s[who].cnt) \subseteq s.map
            [] s[who].at \in {"sectors", "inode", "zeros", "add"} -> s[who].sector \in s.map
            [] OTHER -> TRUE
     /\ ToSet(Listing(s.disk.slots, 0)) = {s.disk.slots[i].name : i \in slots}

\* Reading and writing move the bytes of the file from the position to its end and no
\* others, whatever the sectors they lie in.
BytesMoved(file, pos, buffer, size) ==
  LET f == [inode |-> file, pos |-> pos]
      disk == [i \in AllSectors |-> [b \in 1..SectorBytes |-> 100 + i * SectorBytes + b]]
      byte(d, p) == d[file.start + (p \div SectorBytes)][(p % SectorBytes) + 1]
      room == IF pos < file.length THEN file.length - pos ELSE 0
      n == IF Len(buffer) < room THEN Len(buffer) ELSE room
      m == IF size < room THEN size ELSE room
      w == file_write(disk, f, buffer)
      r == file_read(disk, f, size)
  IN /\ w[2].pos = pos + n /\ r[2].pos = pos + m
     /\ r[1] = [i \in 1..m |-> byte(disk, pos + i - 1)]
     /\ \A i \in AllSectors : \A b \in 1..SectorBytes :
          LET p == (i - file.start) * SectorBytes + b - 1
          IN w[1][i][b] = IF p >= pos /\ p < pos + n THEN buffer[p - pos + 1] ELSE disk[i][b]
=============================================================================
