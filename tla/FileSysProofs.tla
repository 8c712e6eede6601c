--------------------------- MODULE FileSysProofs ---------------------------
(***************************************************************************)
(* The safety properties of module FileSys, for every disk, every set of   *)
(* names and every number of open files: no sector is lost or shared but   *)
(* for the two ways the code has to lose one, the counts in the inodes are *)
(* right, only the running executable is denied to writers, and files      *)
(* change only by the writes of the process.                               *)
(***************************************************************************)
EXTENDS FileSys, ListLemmas

\* The struct files of the process: those in fileList are open, each listed
\* once, and the one that denies writing is its executable.
FilesHeld ==
  /\ IsInjective(fileList)
  /\ \A id \in Range(fileList) : InUse(id) /\ id # mFile
  /\ \A id \in Files : file[id].deny_write <=> id = mFile
  /\ mFile # None => InUse(mFile)
  /\ at = "none" <=> mFile = None
  /\ at = "none" => fileList = << >>

\* The inductive invariant.
FileSysInv == SectorsAccounted /\ InodesCounted /\ FilesHeld

\* struct inode and struct file, as TypeOK has them.
InodeType == [open_cnt : Nat, removed : BOOLEAN, deny_write_cnt : Nat,
              start : 0..LastSector, length : 0..LastSector]
FileType == [inode : 0..LastSector, pos : Nat, deny_write : BOOLEAN]

\* The struct files of f on the inode in sector s, and those that deny writing.
OpenersOf(f, s) == {id \in Files : f[id].inode = s}
DeniersOf(f, s) == {id \in OpenersOf(f, s) : f[id].deny_write}

\* The counts in the inodes are those of the struct files f, of which m (if it
\* is one) denies writing.
Counted(inodes, f, m) ==
  \A s \in Sectors :
    /\ inodes[s].open_cnt = Cardinality(OpenersOf(f, s))
    /\ inodes[s].deny_write_cnt = IF m \in Files /\ f[m].inode = s THEN 1 ELSE 0

\* An open inode is that of a file, and a copy of the one on disk.
CopiesDisk ==
  \A s \in Sectors : inode[s].open_cnt > 0 =>
    /\ s \in Alive
    /\ inode[s].start = inode_disk[s].start
    /\ inode[s].length = inode_disk[s].length

-----------------------------------------------------------------------------
(* The free map.                                                           *)

\* What an extent is.
LEMMA ExtentFacts ==
  ASSUME NEW s \in Nat, NEW n \in Nat
  PROVE  /\ Extent(s, 0) = {} /\ Extent(s, 1) = {s}
         /\ \A d \in Nat : d < n => s + d \in Extent(s, n)
         /\ n > 0 /\ Extent(s, n) \subseteq Sectors => s \in Sectors /\ n \in 0..LastSector
<1>1. LastSector \in Nat
  BY FileSysAssumption
<1>2. ASSUME n > 0, Extent(s, n) \subseteq Sectors PROVE s \in Sectors /\ n \in 0..LastSector
  <2>1. s \in Extent(s, n) /\ s + n - 1 \in Extent(s, n)
    BY <1>2 DEF Extent
  <2>2. s \in 1..LastSector /\ s + n - 1 \in 1..LastSector
    BY <1>2, <2>1 DEF Sectors
  <2> QED
    BY <1>1, <2>2 DEF Sectors
<1> QED
  BY <1>2 DEF Extent

\* free_map_allocate() finds free sectors in a row, or says that it has none.
LEMMA FreeMapFitRight ==
  ASSUME NEW map \in SUBSET Sectors, NEW cnt \in Nat
  PROVE  /\ FreeMapFit(map, cnt) \in 0..LastSector
         /\ FreeMapFit(map, cnt) # 0 =>
              /\ FreeMapFit(map, cnt) \in Sectors
              /\ Extent(FreeMapFit(map, cnt), cnt) \subseteq Sectors \ map
         /\ cnt = 0 => FreeMapFit(map, cnt) = 0
<1> DEFINE T == {s \in Sectors : Fits(map, cnt, s)}
<1>0. LastSector \in Nat /\ Sectors \in SUBSET Nat
  BY FileSysAssumption DEF Sectors
<1>1. CASE cnt > 0 /\ T # {}
  <2>1. T \in SUBSET Nat
    BY <1>0
  <2>2. PICK m \in T : \A t \in T : m <= t
    BY <1>1, <2>1, LeastNat
  <2>3. \E s \in Sectors : Fits(map, cnt, s) /\ \A t \in Sectors : Fits(map, cnt, t) => s <= t
    BY <2>2
  <2>4. /\ FreeMapFit(map, cnt) \in Sectors
        /\ Fits(map, cnt, FreeMapFit(map, cnt))
    BY <1>1, <2>3 DEF FreeMapFit
  <2>5. FreeMapFit(map, cnt) \in 0..LastSector
    BY <2>4, <1>0 DEF Sectors
  <2> QED
    BY <1>1, <2>4, <2>5 DEF Fits
<1>2. CASE ~(cnt > 0 /\ T # {})
  <2>1. FreeMapFit(map, cnt) = 0
    BY <1>2 DEF FreeMapFit
  <2> QED
    BY <2>1, <1>0
<1> QED
  BY <1>1, <1>2

-----------------------------------------------------------------------------
(* The counts.                                                             *)

\* The count of the struct files is finite.
LEMMA OpenersFinite ==
  ASSUME NEW f, NEW s
  PROVE  /\ IsFiniteSet(OpenersOf(f, s))
         /\ Cardinality(OpenersOf(f, s)) \in Nat
<1>1. IsFiniteSet(OpenersOf(f, s))
  BY FileSysAssumption, FS_Subset DEF OpenersOf
<1> QED
  BY <1>1, FS_CardinalityType

\* At most one struct file denies writing, so an inode's count is 1 or 0.
LEMMA DeniersOne ==
  ASSUME NEW f, NEW m \in Files \cup {None}, \A id \in Files : f[id].deny_write <=> id = m, NEW s
  PROVE  Cardinality(DeniersOf(f, s)) = IF m \in Files /\ f[m].inode = s THEN 1 ELSE 0
<1>1. CASE m \in Files /\ f[m].inode = s
  <2>1. DeniersOf(f, s) = {m}
    BY <1>1 DEF DeniersOf, OpenersOf
  <2> QED
    BY <1>1, <2>1, FS_Singleton
<1>2. CASE ~(m \in Files /\ f[m].inode = s)
  <2>1. DeniersOf(f, s) = {}
    BY <1>2 DEF DeniersOf, OpenersOf
  <2> QED
    BY <1>2, <2>1, FS_EmptySet
<1> QED
  BY <1>1, <1>2

\* inode_open() for one more struct file.
LEMMA CountOpen ==
  ASSUME NEW inodes, NEW inodes2, NEW f \in [Files -> FileType], NEW m \in Files \cup {None},
         NEW id \in Files, NEW s \in Sectors, NEW r,
         Counted(inodes, f, m), f[id].inode = 0, r.inode = s, id # m,
         inodes2[s].open_cnt = inodes[s].open_cnt + 1,
         inodes2[s].deny_write_cnt = inodes[s].deny_write_cnt,
         \A t \in Sectors \ {s} : inodes2[t] = inodes[t]
  PROVE  Counted(inodes2, [f EXCEPT ![id] = r], m)
<1> DEFINE f2 == [f EXCEPT ![id] = r]
<1>0. 0 \notin Sectors
  BY DEF Sectors
<1>1. /\ OpenersOf(f2, s) = OpenersOf(f, s) \cup {id} /\ id \notin OpenersOf(f, s)
      /\ \A t \in Sectors \ {s} : OpenersOf(f2, t) = OpenersOf(f, t)
  BY <1>0 DEF OpenersOf
<1>2. m \in Files => f2[m] = f[m]
  OBVIOUS
<1> HIDE DEF f2
<1>3. Cardinality(OpenersOf(f2, s)) = Cardinality(OpenersOf(f, s)) + 1
  <2>1. IsFiniteSet(OpenersOf(f, s))
    BY OpenersFinite
  <2>2. Cardinality(OpenersOf(f, s) \cup {id}) = Cardinality(OpenersOf(f, s)) + 1
    BY <1>1, <2>1, FS_AddElement
  <2> QED
    BY <1>1, <2>2
<1>4. \A t \in Sectors : /\ inodes[t].open_cnt = Cardinality(OpenersOf(f, t))
                         /\ inodes[t].deny_write_cnt = IF m \in Files /\ f[m].inode = t
                                                       THEN 1 ELSE 0
  BY DEF Counted
<1>5. \A t \in Sectors : inodes2[t].open_cnt = Cardinality(OpenersOf(f2, t))
  BY <1>1, <1>3, <1>4, ZenonT(30)
<1>6. \A t \in Sectors : inodes2[t].deny_write_cnt = inodes[t].deny_write_cnt
  OBVIOUS
<1>7. Counted(inodes2, f2, m)
  BY <1>2, <1>4, <1>5, <1>6 DEF Counted
<1> QED
  BY <1>7 DEF f2

\* inode_close() of a struct file that does not deny writing.
LEMMA CountClose ==
  ASSUME NEW inodes, NEW inodes2, NEW f \in [Files -> FileType], NEW m \in Files \cup {None},
         NEW id \in Files, NEW s \in Sectors, NEW r,
         Counted(inodes, f, m), f[id].inode = s, r.inode = 0, id # m,
         inodes2[s].open_cnt = inodes[s].open_cnt - 1,
         inodes2[s].deny_write_cnt = inodes[s].deny_write_cnt,
         \A t \in Sectors \ {s} : inodes2[t] = inodes[t]
  PROVE  Counted(inodes2, [f EXCEPT ![id] = r], m)
<1> DEFINE f2 == [f EXCEPT ![id] = r]
<1>0. 0 \notin Sectors
  BY DEF Sectors
<1>1. /\ OpenersOf(f2, s) = OpenersOf(f, s) \ {id} /\ id \in OpenersOf(f, s)
      /\ \A t \in Sectors \ {s} : OpenersOf(f2, t) = OpenersOf(f, t)
  BY <1>0 DEF OpenersOf
<1>2. m \in Files => f2[m] = f[m]
  OBVIOUS
<1> HIDE DEF f2
<1>3. Cardinality(OpenersOf(f2, s)) = Cardinality(OpenersOf(f, s)) - 1
  <2>1. IsFiniteSet(OpenersOf(f, s))
    BY OpenersFinite
  <2>2. Cardinality(OpenersOf(f, s) \ {id}) = Cardinality(OpenersOf(f, s)) - 1
    BY <1>1, <2>1, FS_RemoveElement
  <2> QED
    BY <1>1, <2>2
<1>4. \A t \in Sectors : /\ inodes[t].open_cnt = Cardinality(OpenersOf(f, t))
                         /\ inodes[t].deny_write_cnt = IF m \in Files /\ f[m].inode = t
                                                       THEN 1 ELSE 0
  BY DEF Counted
<1>5. \A t \in Sectors : inodes2[t].open_cnt = Cardinality(OpenersOf(f2, t))
  BY <1>1, <1>3, <1>4, SMTT(30)
<1>6. \A t \in Sectors : inodes2[t].deny_write_cnt = inodes[t].deny_write_cnt
  OBVIOUS
<1>7. Counted(inodes2, f2, m)
  BY <1>2, <1>4, <1>5, <1>6 DEF Counted
<1> QED
  BY <1>7 DEF f2

\* An inode that is open once and of which a file other than m is open is not
\* denied to writers.
LEMMA LastOpener ==
  ASSUME NEW inodes, NEW f, NEW m \in Files \cup {None}, Counted(inodes, f, m),
         NEW id \in Files, NEW s \in Sectors, f[id].inode = s, id # m
  PROVE  /\ inodes[s].open_cnt \in Nat \ {0}
         /\ inodes[s].open_cnt = 1 => inodes[s].deny_write_cnt = 0
<1> DEFINE O == OpenersOf(f, s)
<1>1. IsFiniteSet(O) /\ id \in O /\ Cardinality(O) = inodes[s].open_cnt
  <2>1. IsFiniteSet(O) /\ Cardinality(O) = inodes[s].open_cnt
    BY OpenersFinite DEF Counted
  <2>2. id \in O
    BY DEF OpenersOf
  <2> QED
    BY <2>1, <2>2
<1>2. O \ {id} \in SUBSET Files /\ IsFiniteSet(O \ {id}) /\ Cardinality(O \ {id}) \in Nat
      /\ Cardinality(O \ {id}) = Cardinality(O) - 1 /\ Cardinality(O) \in Nat
  BY <1>1, FS_RemoveElement, FS_CardinalityType DEF OpenersOf
<1>3. Cardinality(O) = 1 => O \ {id} = {}
  BY <1>2, FS_EmptySet
<1>4. m \in Files /\ f[m].inode = s => m \in O \ {id}
  BY DEF OpenersOf
<1> HIDE DEF O
<1>5. inodes[s].open_cnt = 1 => ~(m \in Files /\ f[m].inode = s)
  BY <1>1, <1>3, <1>4
<1> QED
  BY <1>1, <1>2, <1>5 DEF Counted

\* The invariant says that the counts are right, in this form.
LEMMA InvCounted ==
  ASSUME FileSysInv
  PROVE  /\ TypeOK /\ Counted(inode, file, mFile) /\ CopiesDisk
         /\ inode \in [Sectors -> InodeType] /\ file \in [Files -> FileType]
         /\ mFile \in Files \cup {None} /\ fileList \in Seq(Files)
<1>1. /\ TypeOK /\ inode \in [Sectors -> InodeType] /\ file \in [Files -> FileType]
      /\ mFile \in Files \cup {None} /\ fileList \in Seq(Files)
  BY DEF FileSysInv, SectorsAccounted, TypeOK, InodeType, FileType
<1>2. \A s \in Sectors : /\ Openers(s) = OpenersOf(file, s)
                         /\ {id \in Openers(s) : file[id].deny_write} = DeniersOf(file, s)
  BY DEF Openers, OpenersOf, DeniersOf
<1>3. \A s \in Sectors : Cardinality(DeniersOf(file, s)) =
                           IF mFile \in Files /\ file[mFile].inode = s THEN 1 ELSE 0
  BY <1>1, DeniersOne DEF FileSysInv, FilesHeld
<1>4. \A s \in Sectors : /\ inode[s].open_cnt = Cardinality(OpenersOf(file, s))
                         /\ inode[s].deny_write_cnt = Cardinality(DeniersOf(file, s))
  BY <1>2 DEF FileSysInv, InodesCounted
<1>5. Counted(inode, file, mFile)
  BY <1>3, <1>4 DEF Counted
<1> QED
  BY <1>1, <1>5 DEF FileSysInv, InodesCounted, CopiesDisk

\* And that is enough after a step.
LEMMA CountedInv ==
  ASSUME SectorsAccounted', FilesHeld', Counted(inode', file', mFile'), CopiesDisk'
  PROVE  FileSysInv'
<1>1. mFile' \in Files \cup {None}
  BY DEF SectorsAccounted, TypeOK
<1>2. \A s \in Sectors : Cardinality(DeniersOf(file', s)) =
                           IF mFile' \in Files /\ file'[mFile'].inode = s THEN 1 ELSE 0
  BY <1>1, DeniersOne DEF FilesHeld
<1>3. \A s \in Sectors : /\ inode'[s].open_cnt = Cardinality(OpenersOf(file', s))
                         /\ inode'[s].deny_write_cnt = Cardinality(DeniersOf(file', s))
  BY <1>2 DEF Counted
<1>4. ASSUME NEW s \in Sectors
      PROVE  /\ Openers(s)' = OpenersOf(file', s)
             /\ {id \in Openers(s)' : file'[id].deny_write} = DeniersOf(file', s)
  BY DEF Openers, OpenersOf, DeniersOf
<1>5. InodesCounted'
  BY <1>3, <1>4 DEF InodesCounted, CopiesDisk
<1> QED
  BY <1>5 DEF FileSysInv

\* inode_open() counts one more opener and changes nothing else of an inode
\* that is open; otherwise it reads the one on disk.
LEMMA InodeOpenRight ==
  ASSUME FileSysInv, NEW s \in Sectors
  PROVE  /\ InodeOpen(inode, s) \in [Sectors -> InodeType]
         /\ \A t \in Sectors \ {s} : InodeOpen(inode, s)[t] = inode[t]
         /\ InodeOpen(inode, s)[s].open_cnt = inode[s].open_cnt + 1
         /\ InodeOpen(inode, s)[s].deny_write_cnt = inode[s].deny_write_cnt
         /\ inode[s].open_cnt > 0 => InodeOpen(inode, s)[s].removed = inode[s].removed
         /\ inode[s].open_cnt = 0 => InodeOpen(inode, s)[s].removed = FALSE
         /\ InodeOpen(inode, s)[s].start = inode_disk[s].start
         /\ InodeOpen(inode, s)[s].length = inode_disk[s].length
<1>1. /\ inode[s] \in InodeType /\ inode \in [Sectors -> InodeType]
      /\ inode_disk[s].start \in 0..LastSector /\ inode_disk[s].length \in 0..LastSector
  BY InvCounted DEF TypeOK
<1>2. CASE inode[s].open_cnt > 0
  <2>1. InodeOpen(inode, s) = [inode EXCEPT ![s] = [inode[s] EXCEPT !.open_cnt = inode[s].open_cnt + 1]]
    <3>1. InodeOpen(inode, s) = [inode EXCEPT ![s] =
            IF inode[s].open_cnt > 0 THEN [inode[s] EXCEPT !.open_cnt = inode[s].open_cnt + 1]
            ELSE [NoInode EXCEPT !.open_cnt = 1, !.start = inode_disk[s].start,
                                 !.length = inode_disk[s].length]]
      BY DEF InodeOpen
    <3> QED
      BY <1>2, <3>1
  <2>2. inode[s].open_cnt + 1 \in Nat /\ inode[s].open_cnt # 0
    BY <1>1, <1>2 DEF InodeType
  <2>3. [inode[s] EXCEPT !.open_cnt = inode[s].open_cnt + 1] \in InodeType
    BY <1>1, <2>2 DEF InodeType
  <2>4. inode[s].start = inode_disk[s].start /\ inode[s].length = inode_disk[s].length
    BY <1>2, InvCounted DEF CopiesDisk
  <2> QED
    BY <1>1, <1>2, <2>1, <2>2, <2>3, <2>4 DEF InodeType
<1>3. CASE ~(inode[s].open_cnt > 0)
  <2> DEFINE n == [NoInode EXCEPT !.open_cnt = 1, !.start = inode_disk[s].start,
                                  !.length = inode_disk[s].length]
  <2>1. InodeOpen(inode, s) = [inode EXCEPT ![s] = n]
    BY <1>1, <1>3 DEF InodeOpen
  <2>2. inode[s].open_cnt = 0
    BY <1>1, <1>3 DEF InodeType
  <2>3. /\ n \in InodeType /\ n.open_cnt = 1 /\ n.removed = FALSE /\ n.deny_write_cnt = 0
        /\ n.start = inode_disk[s].start /\ n.length = inode_disk[s].length
    BY <1>1 DEF NoInode, InodeType
  <2>4. inode[s].deny_write_cnt = 0
    <3>1. Counted(inode, file, mFile)
      BY InvCounted
    <3>2. OpenersOf(file, s) = {}
      BY <2>2, <3>1, OpenersFinite, FS_EmptySet DEF Counted
    <3>3. ~(mFile \in Files /\ file[mFile].inode = s)
      BY <3>2 DEF OpenersOf
    <3> QED
      BY <3>1, <3>3 DEF Counted
  <2> HIDE DEF n
  <2> QED
    BY <1>1, <2>1, <2>2, <2>3, <2>4
<1> QED
  BY <1>2, <1>3

\* inode_close() counts one opener less; the last one frees the struct inode.
LEMMA InodeCloseRight ==
  ASSUME NEW inodes \in [Sectors -> InodeType], NEW s \in Sectors,
         inodes[s].open_cnt \in Nat \ {0}, InodeClose(inodes, s),
         inodes[s].open_cnt = 1 => inodes[s].deny_write_cnt = 0
  PROVE  /\ inode' \in [Sectors -> InodeType]
         /\ \A t \in Sectors \ {s} : inode'[t] = inodes[t]
         /\ inode'[s].open_cnt = inodes[s].open_cnt - 1
         /\ inode'[s].deny_write_cnt = inodes[s].deny_write_cnt
         /\ inode'[s].open_cnt > 0 =>
              /\ inode'[s].removed = inodes[s].removed
              /\ inode'[s].start = inodes[s].start /\ inode'[s].length = inodes[s].length
<1>1. inodes[s] \in InodeType
  OBVIOUS
<1>2. CASE inodes[s].open_cnt = 1
  <2>1. inode' = [inodes EXCEPT ![s] = NoInode]
    BY <1>2 DEF InodeClose
  <2>2. NoInode \in InodeType /\ NoInode.open_cnt = 0 /\ NoInode.deny_write_cnt = 0
    BY FileSysAssumption DEF NoInode, InodeType
  <2> QED
    BY <1>2, <2>1, <2>2
<1>3. CASE inodes[s].open_cnt # 1
  <2>1. inode' = [inodes EXCEPT ![s] = [inodes[s] EXCEPT !.open_cnt = inodes[s].open_cnt - 1]]
    <3>1. inode' = [inodes EXCEPT ![s] =
                      IF inodes[s].open_cnt = 1 THEN NoInode
                      ELSE [inodes[s] EXCEPT !.open_cnt = inodes[s].open_cnt - 1]]
      BY DEF InodeClose
    <3> QED
      BY <1>3, <3>1
  <2>2. inodes[s].open_cnt - 1 \in Nat
    OBVIOUS
  <2>3. [inodes[s] EXCEPT !.open_cnt = inodes[s].open_cnt - 1] \in InodeType
    BY <1>1, <2>2 DEF InodeType
  <2> QED
    BY <1>1, <2>1, <2>3 DEF InodeType
<1> QED
  BY <1>2, <1>3

-----------------------------------------------------------------------------
(* The sectors.                                                            *)

\* The blocks of a file are marked, and its inode's is one of them.
LEMMA BlocksMarked ==
  ASSUME FileSysInv, NEW s \in Alive
  PROVE  s \in Sectors /\ s \in Blocks(s) /\ Blocks(s) \subseteq free_map
<1>1. s \in Sectors
  BY DEF FileSysInv, SectorsAccounted, TypeOK, Alive, Named, RemovedOpen
<1> QED
  BY <1>1 DEF FileSysInv, SectorsAccounted, Blocks

\* A step after which the same files exist.
LEMMA SectorsStay ==
  ASSUME FileSysInv, TypeOK', UNCHANGED <<free_map, inode_disk, lost>>,
         Alive' = Alive, Named' \cap RemovedOpen' = {},
         \A m, n \in Names : dir'[m] = dir'[n] /\ dir'[m] # None => m = n
  PROVE  SectorsAccounted'
<1>1. \A s \in Alive : Blocks(s)' = Blocks(s)
  BY DEF Blocks
<1> QED
  BY <1>1 DEF FileSysInv, SectorsAccounted

\* A step that frees the blocks of a file with the file.
LEMMA SectorsReleased ==
  ASSUME FileSysInv, TypeOK', UNCHANGED <<inode_disk, lost>>, NEW s \in Alive,
         free_map' = free_map \ Blocks(s),
         Alive' = Alive \ {s}, Named' \cap RemovedOpen' = {},
         \A m, n \in Names : dir'[m] = dir'[n] /\ dir'[m] # None => m = n
  PROVE  SectorsAccounted'
<1>1. \A t \in Alive : Blocks(t)' = Blocks(t)
  BY DEF Blocks
<1>2. /\ free_map = lost \cup UNION {Blocks(t) : t \in Alive}
      /\ \A t \in Alive : Blocks(t) \cap lost = {}
      /\ \A t, u \in Alive : t # u => Blocks(t) \cap Blocks(u) = {}
  BY DEF FileSysInv, SectorsAccounted
<1>3. free_map' = lost \cup UNION {Blocks(t) : t \in Alive \ {s}}
  BY <1>2
<1>4. free_map' = lost' \cup UNION {Blocks(t)' : t \in Alive'}
  BY <1>1, <1>3
<1> QED
  BY <1>1, <1>2, <1>4 DEF SectorsAccounted

-----------------------------------------------------------------------------
(* The actions.                                                            *)

\* A formatted disk.
LEMMA InitFileSys == Init => FileSysInv
<1> SUFFICES ASSUME Init PROVE FileSysInv
  OBVIOUS
<1>0. /\ LastSector \in Nat /\ 1 \in Sectors /\ 2 \in Sectors /\ Sectors \subseteq Nat
      /\ None \notin Sectors /\ None \notin Files
  BY FileSysAssumption DEF Sectors
<1>1. TypeOK
  <2>1. NoInode \in InodeType /\ NoFile \in FileType
    BY <1>0 DEF NoInode, NoFile, InodeType, FileType
  <2>2. inode \in [Sectors -> InodeType] /\ file \in [Files -> FileType]
    BY <2>1 DEF Init
  <2>3. inode_disk \in [Sectors -> [start : 0..LastSector, length : 0..LastSector]]
    BY <1>0, FileSysAssumption DEF Init
  <2> QED
    BY <1>0, <2>2, <2>3, FileSysAssumption DEF Init, TypeOK, InodeType, FileType
<1>2. \A s \in Sectors : inode[s].open_cnt = 0 /\ inode[s].deny_write_cnt = 0
  BY DEF Init, NoInode
<1>3. \A id \in Files : file[id].inode = 0 /\ file[id].deny_write = FALSE
  BY DEF Init, NoFile
<1>4. RemovedOpen = {} /\ Named = {1} /\ Alive = {1}
  <2>1. RemovedOpen = {}
    BY <1>2 DEF RemovedOpen
  <2>2. Named = {1}
    BY <1>0, FileSysAssumption DEF Named, Init
  <2> QED
    BY <2>1, <2>2 DEF Alive
<1>5. Blocks(1) = {1, 2}
  <2>1. inode_disk[1].start = 2 /\ inode_disk[1].length = 1
    BY <1>0 DEF Init
  <2> QED
    BY <2>1, ExtentFacts DEF Blocks
<1>6. SectorsAccounted
  <2>1. free_map = lost \cup UNION {Blocks(s) : s \in Alive}
    BY <1>4, <1>5 DEF Init
  <2>2. \A m, n \in Names : dir[m] = dir[n] /\ dir[m] # None => m = n
    BY DEF Init
  <2> QED
    BY <1>1, <1>4, <2>1, <2>2 DEF SectorsAccounted, Init
<1>7. InodesCounted
  <2>1. \A s \in Sectors : Openers(s) = {} /\ {id \in Openers(s) : file[id].deny_write} = {}
    BY <1>3, <1>0 DEF Openers, Sectors
  <2>2. Cardinality({}) = 0
    BY FS_EmptySet
  <2>3. \A s \in Sectors : ~(inode[s].open_cnt > 0)
    BY <1>2
  <2> QED
    BY <1>2, <2>1, <2>2, <2>3 DEF InodesCounted
<1>8. FilesHeld
  <2>1. IsInjective(fileList) /\ Range(fileList) = {}
    BY DEF Init, IsInjective, Range
  <2> QED
    BY <1>0, <1>3, <2>1 DEF FilesHeld, Init
<1> QED
  BY <1>6, <1>7, <1>8 DEF FileSysInv

\* filesys_create().
LEMMA CreateInv ==
  ASSUME FileSysInv, NEW n \in Names, NEW length \in Lengths, SysCreate(n, length)
  PROVE  FileSysInv'
<1>s. PICK s : s = FreeMapFit(free_map, 1)
  OBVIOUS
<1>t. PICK start : start = FreeMapFit(free_map \cup {s}, length)
  OBVIOUS
<1>e. PICK E : E = Extent(start, length)
  OBVIOUS
<1>0. /\ TypeOK /\ SectorsAccounted /\ FilesHeld /\ Counted(inode, file, mFile) /\ CopiesDisk
      /\ length \in Nat /\ LastSector \in Nat /\ None \notin Sectors
  BY InvCounted, FileSysAssumption DEF FileSysInv
<1>1. s # 0 /\ (length > 0 => start # 0)
  BY <1>s, <1>t DEF SysCreate
<1>2. s \in Sectors /\ s \notin free_map
  <2>1. s \in Sectors /\ Extent(s, 1) \subseteq Sectors \ free_map
    BY <1>s, <1>0, <1>1, FreeMapFitRight DEF TypeOK
  <2>2. Extent(s, 1) = {s}
    BY <2>1, ExtentFacts DEF Sectors
  <2> QED
    BY <2>1, <2>2
<1>3. /\ start \in 0..LastSector /\ length \in 0..LastSector
      /\ E \subseteq Sectors \ (free_map \cup {s})
  <2>0. start \in 0..LastSector /\ free_map \cup {s} \in SUBSET Sectors
    BY <1>t, <1>0, <1>2, FreeMapFitRight DEF TypeOK
  <2>1. CASE length > 0
    <3>1. E \subseteq Sectors \ (free_map \cup {s})
      BY <1>t, <1>e, <1>0, <1>1, <2>0, <2>1, FreeMapFitRight
    <3>2. start \in Nat /\ Extent(start, length) \subseteq Sectors
      BY <1>e, <2>0, <3>1
    <3> QED
      BY <1>0, <2>0, <2>1, <3>1, <3>2, ExtentFacts
  <2>2. CASE length = 0
    <3>1. E = {}
      BY <1>e, <2>0, <2>2, ExtentFacts
    <3> QED
      BY <1>0, <2>0, <2>2, <3>1
  <2> QED
    BY <1>0, <2>1, <2>2
<1>4. /\ inode_disk' = [inode_disk EXCEPT ![s] = [start |-> start, length |-> length]]
      /\ data' = [t \in Sectors |-> IF t \in E THEN "zero" ELSE data[t]]
      /\ inode' = inode /\ file' = file /\ fileList' = fileList /\ mFile' = mFile /\ at' = at
      /\ IOLock' = IOLock /\ panic' = panic
  BY <1>s, <1>t, <1>e DEF SysCreate, procVars
<1>5. \/ /\ dir[n] = None
         /\ dir' = [dir EXCEPT ![n] = s]
         /\ free_map' = free_map \cup {s} \cup E
         /\ lost' = lost
      \/ /\ free_map' = free_map \cup E
         /\ lost' = lost \cup E
         /\ dir' = dir
  BY <1>s, <1>t, <1>e DEF SysCreate
<1>6. /\ free_map = lost \cup UNION {Blocks(t) : t \in Alive}
      /\ \A t \in Alive : Blocks(t) \cap lost = {}
      /\ \A t, u \in Alive : t # u => Blocks(t) \cap Blocks(u) = {}
      /\ \A l, m \in Names : dir[l] = dir[m] /\ dir[l] # None => l = m
      /\ Named \cap RemovedOpen = {}
  BY <1>0 DEF SectorsAccounted
<1>7. \A t \in Alive : t \in Sectors /\ t # s /\ Blocks(t) \subseteq free_map
  BY <1>2, BlocksMarked
<1>8. \A t \in Alive : inode_disk'[t] = inode_disk[t] /\ Blocks(t)' = Blocks(t)
  BY <1>0, <1>4, <1>7 DEF Blocks, TypeOK
<1>9. Blocks(s)' = {s} \cup E
  <2>1. inode_disk'[s].start = start /\ inode_disk'[s].length = length
    BY <1>0, <1>2, <1>4 DEF TypeOK
  <2> QED
    BY <1>e, <2>1 DEF Blocks
<1>10. RemovedOpen' = RemovedOpen
  BY <1>4 DEF RemovedOpen
<1>11. TypeOK'
  <2>1. [start |-> start, length |-> length] \in [start : 0..LastSector, length : 0..LastSector]
    BY <1>3
  <2>2. inode_disk' \in [Sectors -> [start : 0..LastSector, length : 0..LastSector]]
    BY <1>0, <1>4, <2>1 DEF TypeOK
  <2>3. data' \in [Sectors -> Values \cup {"zero"}]
    BY <1>0, <1>4 DEF TypeOK
  <2>4. dir' \in [Names -> Sectors \cup {None}] /\ free_map' \subseteq Sectors /\ lost' \subseteq Sectors
    BY <1>0, <1>2, <1>3, <1>5 DEF TypeOK
  <2> QED
    BY <1>0, <1>4, <2>2, <2>3, <2>4 DEF TypeOK
<1>12. SectorsAccounted' /\ Alive \subseteq Alive'
  <2>1. CASE /\ dir[n] = None
             /\ dir' = [dir EXCEPT ![n] = s]
             /\ free_map' = free_map \cup {s} \cup E
             /\ lost' = lost
    <3>0. dir \in [Names -> Sectors \cup {None}]
      BY <1>0 DEF TypeOK
    <3>1. Named' = Named \cup {s}
      <4>1. dir'[n] = s /\ s # None /\ \A m \in Names \ {n} : dir'[m] = dir[m]
        BY <1>0, <1>2, <2>1, <3>0
      <4> QED
        BY <2>1, <4>1 DEF Named
    <3>2. Alive' = Alive \cup {s}
      BY <1>10, <3>1 DEF Alive
    <3>3. free_map' = lost' \cup UNION {Blocks(t)' : t \in Alive'}
      BY <1>6, <1>8, <1>9, <2>1, <3>2
    <3>4. \A t \in Alive' : Blocks(t)' \cap lost' = {}
      BY <1>2, <1>3, <1>6, <1>8, <1>9, <2>1, <3>2
    <3>5. \A t, u \in Alive' : t # u => Blocks(t)' \cap Blocks(u)' = {}
      <4>1. \A t \in Alive : Blocks(t) \cap ({s} \cup E) = {}
        BY <1>2, <1>3, <1>7
      <4> QED
        BY <1>6, <1>8, <1>9, <3>2, <4>1
    <3>6. \A m \in Names : dir[m] # None => dir[m] # s
      BY <1>7 DEF Alive, Named
    <3>7. \A l, m \in Names : dir'[l] = dir'[m] /\ dir'[l] # None => l = m
      BY <1>6, <2>1, <3>0, <3>6
    <3>8. Named' \cap RemovedOpen' = {}
      BY <1>6, <1>7, <1>10, <3>1 DEF Alive
    <3> QED
      BY <1>11, <3>2, <3>3, <3>4, <3>5, <3>7, <3>8 DEF SectorsAccounted
  <2>2. CASE /\ free_map' = free_map \cup E
             /\ lost' = lost \cup E
             /\ dir' = dir
    <3>1. Named' = Named
      BY <2>2 DEF Named
    <3>2. Alive' = Alive
      BY <1>10, <3>1 DEF Alive
    <3>3. free_map' = lost' \cup UNION {Blocks(t)' : t \in Alive'}
      BY <1>6, <1>8, <2>2, <3>2
    <3>4. \A t \in Alive' : Blocks(t)' \cap lost' = {}
      BY <1>3, <1>6, <1>7, <1>8, <2>2, <3>2
    <3>5. \A t, u \in Alive' : t # u => Blocks(t)' \cap Blocks(u)' = {}
      BY <1>6, <1>8, <3>2
    <3>6. \A l, m \in Names : dir'[l] = dir'[m] /\ dir'[l] # None => l = m
      BY <1>6, <2>2
    <3> QED
      BY <1>6, <1>10, <1>11, <3>1, <3>2, <3>3, <3>4, <3>5, <3>6 DEF SectorsAccounted
  <2> QED
    BY <1>5, <2>1, <2>2
<1>13. FilesHeld'
  BY <1>0, <1>4 DEF FilesHeld, InUse
<1>14. Counted(inode', file', mFile')
  BY <1>0, <1>4 DEF Counted
<1>15. CopiesDisk'
  BY <1>0, <1>4, <1>8, <1>12 DEF CopiesDisk
<1> QED
  BY <1>12, <1>13, <1>14, <1>15, CountedInv

\* filesys_create() of a negative size: one free sector is marked, and lost.
LEMMA CreateNegativeInv ==
  ASSUME FileSysInv, SysCreateNegative
  PROVE  FileSysInv'
<1>s. PICK s : s = FreeMapFit(free_map, 1)
  OBVIOUS
<1>0. /\ TypeOK /\ SectorsAccounted /\ FilesHeld /\ Counted(inode, file, mFile) /\ CopiesDisk
  BY InvCounted DEF FileSysInv
<1>1. /\ s # 0 /\ free_map' = free_map \cup {s} /\ lost' = lost \cup {s} /\ panic' = "length"
      /\ UNCHANGED <<dir, inode_disk, data, inode, file, fileList, mFile, at, IOLock>>
  BY <1>s DEF SysCreateNegative, procVars
<1>2. s \in Sectors /\ s \notin free_map
  <2>1. s \in Sectors /\ Extent(s, 1) \subseteq Sectors \ free_map
    BY <1>s, <1>0, <1>1, FreeMapFitRight DEF TypeOK
  <2>2. Extent(s, 1) = {s}
    BY <2>1, ExtentFacts DEF Sectors
  <2> QED
    BY <2>1, <2>2
<1>3. TypeOK'
  BY <1>0, <1>1, <1>2 DEF TypeOK
<1>4. Named' = Named /\ RemovedOpen' = RemovedOpen /\ Alive' = Alive
  BY <1>1 DEF Named, RemovedOpen, Alive
<1>5. \A t \in Alive : Blocks(t)' = Blocks(t) /\ Blocks(t) \subseteq free_map
  BY <1>1, BlocksMarked DEF Blocks
<1>6. SectorsAccounted'
  <2>1. /\ free_map = lost \cup UNION {Blocks(t) : t \in Alive}
        /\ \A t \in Alive : Blocks(t) \cap lost = {}
        /\ \A t, u \in Alive : t # u => Blocks(t) \cap Blocks(u) = {}
        /\ \A l, m \in Names : dir[l] = dir[m] /\ dir[l] # None => l = m
        /\ Named \cap RemovedOpen = {}
    BY <1>0 DEF SectorsAccounted
  <2>2. free_map' = lost' \cup UNION {Blocks(t)' : t \in Alive'}
    BY <1>1, <1>4, <1>5, <2>1
  <2>3. \A t \in Alive' : Blocks(t)' \cap lost' = {}
    BY <1>1, <1>2, <1>4, <1>5, <2>1
  <2>4. \A t, u \in Alive' : t # u => Blocks(t)' \cap Blocks(u)' = {}
    BY <1>4, <1>5, <2>1
  <2> QED
    BY <1>1, <1>3, <1>4, <2>1, <2>2, <2>3, <2>4 DEF SectorsAccounted
<1>7. FilesHeld' /\ Counted(inode', file', mFile')
  BY <1>0, <1>1 DEF FilesHeld, InUse, Counted
<1>8. CopiesDisk'
  BY <1>0, <1>1, <1>4 DEF CopiesDisk
<1> QED
  BY <1>6, <1>7, <1>8, CountedInv

\* A step after which the same files exist, and the same of them are removed.
LEMMA SameFiles ==
  ASSUME FileSysInv, TypeOK', UNCHANGED <<free_map, dir, inode_disk, lost>>,
         \A t \in Sectors :
           /\ inode'[t].open_cnt > 0 /\ inode'[t].removed <=> t \in RemovedOpen
           /\ inode'[t].open_cnt > 0 => /\ t \in Alive
                                        /\ inode'[t].start = inode_disk[t].start
                                        /\ inode'[t].length = inode_disk[t].length
  PROVE  SectorsAccounted' /\ CopiesDisk'
<1>1. RemovedOpen' = RemovedOpen
  BY DEF RemovedOpen
<1>2. Named' = Named
  BY DEF Named
<1>3. Alive' = Alive
  BY <1>1, <1>2 DEF Alive
<1>4. SectorsAccounted'
  BY <1>1, <1>2, <1>3, SectorsStay DEF FileSysInv, SectorsAccounted
<1>5. CopiesDisk'
  BY <1>3 DEF CopiesDisk
<1> QED
  BY <1>4, <1>5

\* A step that leaves the inodes alone.
LEMMA SameInodes ==
  ASSUME FileSysInv, TypeOK', UNCHANGED <<free_map, dir, inode_disk, lost, inode>>
  PROVE  SectorsAccounted' /\ CopiesDisk'
<1>1. CopiesDisk
  BY InvCounted
<1>2. \A t \in Sectors : inode[t].open_cnt > 0 /\ inode[t].removed <=> t \in RemovedOpen
  BY DEF RemovedOpen
<1> QED
  BY <1>1, <1>2, SameFiles DEF CopiesDisk

\* A struct file moves, and sectors may be written.
LEMMA MovedInv ==
  ASSUME FileSysInv, NEW id \in Files, NEW pos \in Nat, file' = [file EXCEPT ![id].pos = pos],
         data' \in [Sectors -> Values \cup {"zero"}],
         UNCHANGED <<free_map, dir, inode_disk, inode, procVars, IOLock, panic, lost>>
  PROVE  FileSysInv'
<1>1. file \in [Files -> FileType] /\ TypeOK
  BY InvCounted
<1>2. [file[id] EXCEPT !.pos = pos] \in FileType
  BY <1>1 DEF FileType
<1>3. file' \in [Files -> FileType]
  BY <1>1, <1>2
<1>4. \A i \in Files : file'[i].inode = file[i].inode /\ file'[i].deny_write = file[i].deny_write
  BY <1>1 DEF FileType
<1>5. TypeOK'
  BY <1>1, <1>3 DEF TypeOK, FileType, procVars
<1>6. FilesHeld'
  <2>1. Range(fileList) \subseteq Files /\ (mFile # None => mFile \in Files)
    BY <1>1, RangeSeq DEF TypeOK
  <2> QED
    BY <1>4, <2>1 DEF FileSysInv, FilesHeld, InUse, procVars
<1>7. \A s \in Sectors : OpenersOf(file', s) = OpenersOf(file, s)
  BY <1>4 DEF OpenersOf
<1>8. Counted(inode', file', mFile')
  <2>1. Counted(inode, file, mFile) /\ mFile' = mFile /\ inode' = inode
    BY InvCounted DEF procVars
  <2> QED
    BY <1>4, <1>7, <2>1, ZenonT(30) DEF Counted
<1> QED
  BY <1>5, <1>6, <1>8, SameInodes, CountedInv

\* SYS_READ, SYS_WRITE and SYS_SEEK.
LEMMA MoveSteps ==
  ASSUME FileSysInv, NEW id \in Files
  PROVE  /\ SysRead(id) => FileSysInv'
         /\ \A v \in Values : SysWrite(id, v) => FileSysInv'
         /\ \A pos \in Lengths : SysSeek(id, pos) => FileSysInv'
<1>1. file \in [Files -> FileType] /\ data \in [Sectors -> Values \cup {"zero"}]
  BY InvCounted DEF TypeOK
<1>2. file[id].pos + 1 \in Nat
  BY <1>1 DEF FileType
<1>3. ASSUME SysRead(id) PROVE FileSysInv'
  <2>1. /\ file' = [file EXCEPT ![id].pos = file[id].pos + 1] /\ data' = data
        /\ UNCHANGED <<free_map, dir, inode_disk, inode, procVars, IOLock, panic, lost>>
    BY <1>3 DEF SysRead, diskVars
  <2> QED
    BY <1>1, <1>2, <2>1, MovedInv
<1>4. ASSUME NEW v \in Values, SysWrite(id, v) PROVE FileSysInv'
  <2>1. /\ file' = [file EXCEPT ![id].pos = file[id].pos + 1]
        /\ data' = [data EXCEPT ![Inode(id).start + file[id].pos] = v]
        /\ UNCHANGED <<free_map, dir, inode_disk, inode, procVars, IOLock, panic, lost>>
    BY <1>4 DEF SysWrite
  <2>2. data' \in [Sectors -> Values \cup {"zero"}]
    BY <1>1, <2>1
  <2> QED
    BY <1>2, <2>1, <2>2, MovedInv
<1>5. ASSUME NEW pos \in Lengths, SysSeek(id, pos) PROVE FileSysInv'
  <2>1. pos \in Nat
    BY FileSysAssumption
  <2>2. /\ file' = [file EXCEPT ![id].pos = pos] /\ data' = data
        /\ UNCHANGED <<free_map, dir, inode_disk, inode, procVars, IOLock, panic, lost>>
    BY <1>5 DEF SysSeek, diskVars
  <2> QED
    BY <1>1, <2>1, <2>2, MovedInv
<1> QED
  BY <1>3, <1>4, <1>5

\* The inodes after inode_open() of a file that exists are right but for the
\* count of the struct file that is to be.
LEMMA OpenedFiles ==
  ASSUME FileSysInv, NEW s \in Alive
  PROVE  \A t \in Sectors :
           LET i == InodeOpen(inode, s)[t]
           IN /\ i.open_cnt > 0 /\ i.removed <=> t \in RemovedOpen
              /\ i.open_cnt > 0 => /\ t \in Alive
                                   /\ i.start = inode_disk[t].start
                                   /\ i.length = inode_disk[t].length
<1>0. s \in Sectors /\ CopiesDisk /\ inode \in [Sectors -> InodeType]
  BY BlocksMarked, InvCounted
<1> TAKE t \in Sectors
<1>1. CASE t # s
  <2>1. InodeOpen(inode, s)[t] = inode[t]
    BY <1>0, <1>1, InodeOpenRight
  <2> QED
    BY <1>0, <2>1 DEF CopiesDisk, RemovedOpen
<1>2. CASE t = s
  <2>1. inode[s].open_cnt \in Nat /\ inode[s].open_cnt + 1 > 0
    BY <1>0 DEF InodeType
  <2>2. s \in RemovedOpen <=> inode[s].open_cnt > 0 /\ inode[s].removed
    BY <1>0 DEF RemovedOpen
  <2>3. inode[s].open_cnt > 0 \/ inode[s].open_cnt = 0
    BY <2>1
  <2> QED
    BY <1>0, <1>2, <2>1, <2>2, <2>3, InodeOpenRight
<1> QED
  BY <1>1, <1>2

\* The inode of a struct file that is in use is that of a file that exists.
LEMMA InUseAlive ==
  ASSUME FileSysInv, NEW id \in Files, InUse(id)
  PROVE  file[id].inode \in Sectors /\ file[id].inode \in Alive
<1> DEFINE s == file[id].inode
<1>0. /\ file \in [Files -> FileType] /\ Counted(inode, file, mFile) /\ CopiesDisk
  BY InvCounted
<1>1. s \in Sectors
  BY <1>0, FileSysAssumption DEF InUse, FileType, Sectors
<1>2. id \in OpenersOf(file, s)
  BY DEF OpenersOf
<1>3. Cardinality(OpenersOf(file, s)) > 0
  BY <1>2, OpenersFinite, FS_EmptySet
<1>4. inode[s].open_cnt > 0
  BY <1>0, <1>1, <1>3 DEF Counted
<1> QED
  BY <1>0, <1>1, <1>4 DEF CopiesDisk

\* filesys_open() finds a file that exists and takes a struct file that nobody
\* holds.
LEMMA OpenFacts ==
  ASSUME FileSysInv, NEW n \in Names, NEW id \in Files, FilesysOpen(n, id)
  PROVE  /\ dir[n] \in Sectors /\ dir[n] \in Alive /\ dir[n] \in 0..LastSector /\ dir[n] # 0
         /\ file[id].inode = 0 /\ id # mFile /\ id \notin Range(fileList)
<1>1. dir[n] \in Sectors /\ dir[n] \in Alive
  BY InvCounted DEF FilesysOpen, TypeOK, Alive, Named
<1>2. dir[n] \in 0..LastSector /\ dir[n] # 0
  BY <1>1, FileSysAssumption DEF Sectors
<1>3. mFile # None => InUse(mFile)
  BY DEF FileSysInv, FilesHeld
<1> QED
  BY <1>1, <1>2, <1>3, FileSysAssumption DEF FilesysOpen, FileSysInv, FilesHeld, InUse

\* SYS_OPEN.
LEMMA OpenInv ==
  ASSUME FileSysInv, NEW n \in Names, NEW id \in Files, SysOpen(n, id)
  PROVE  FileSysInv'
<1>s. PICK s : s = dir[n]
  OBVIOUS
<1>r. PICK r : r = [NoFile EXCEPT !.inode = s]
  OBVIOUS
<1>0. /\ FilesysOpen(n, id) /\ inode' = InodeOpen(inode, s) /\ file' = [file EXCEPT ![id] = r]
      /\ fileList' = Append(fileList, id)
      /\ UNCHANGED <<free_map, dir, inode_disk, data, mFile, at, IOLock, panic, lost>>
      /\ at = "user"
  BY <1>s, <1>r DEF SysOpen, diskVars, Call
<1>1. /\ s \in Sectors /\ s \in Alive /\ s \in 0..LastSector /\ s # 0
      /\ file[id].inode = 0 /\ id # mFile /\ id \notin Range(fileList)
  BY <1>0, <1>s, OpenFacts
<1>2. /\ TypeOK /\ Counted(inode, file, mFile) /\ file \in [Files -> FileType]
      /\ mFile \in Files \cup {None} /\ fileList \in Seq(Files) /\ FilesHeld
  BY InvCounted DEF FileSysInv
<1>3. r \in FileType /\ r.inode = s /\ r.deny_write = FALSE
  BY <1>r, <1>1 DEF NoFile, FileType
<1>4. file' \in [Files -> FileType] /\ inode' \in [Sectors -> InodeType]
  BY <1>0, <1>1, <1>2, <1>3, InodeOpenRight
<1>5. /\ fileList' \in Seq(Files) /\ Range(fileList') = Range(fileList) \cup {id}
      /\ IsInjective(fileList')
  BY <1>0, <1>1, <1>2, AppendList DEF FilesHeld
<1>6. TypeOK'
  BY <1>0, <1>2, <1>4, <1>5 DEF TypeOK, FileType, InodeType
<1>7. FilesHeld'
  <2>1. \A i \in Files \ {id} : file'[i] = file[i]
    BY <1>0, <1>2
  <2>2. file'[id] = r
    BY <1>0, <1>2
  <2>3. Range(fileList) \subseteq Files
    BY <1>2, RangeSeq
  <2>4. \A i \in Range(fileList') : file'[i].inode # 0 /\ i # mFile
    BY <1>1, <1>2, <1>3, <1>5, <2>1, <2>2, <2>3 DEF FilesHeld, InUse
  <2>5. \A i \in Files : file'[i].deny_write <=> i = mFile
    BY <1>1, <1>2, <1>3, <2>1, <2>2 DEF FilesHeld
  <2>6. mFile # None => file'[mFile].inode # 0
    BY <1>1, <1>2, <2>1 DEF FilesHeld, InUse
  <2> QED
    BY <1>0, <1>2, <1>5, <2>4, <2>5, <2>6 DEF FilesHeld, InUse
<1>8. Counted(inode', file', mFile')
  <2>1. Counted(inode', [file EXCEPT ![id] = r], mFile)
    BY <1>0, <1>1, <1>2, <1>3, InodeOpenRight, CountOpen
  <2> QED
    BY <1>0, <2>1
<1>9. SectorsAccounted' /\ CopiesDisk'
  BY <1>0, <1>1, <1>6, OpenedFiles, SameFiles
<1> QED
  BY <1>7, <1>8, <1>9, CountedInv

\* The denial of the executable that a program starts from.
LEMMA CountDeny ==
  ASSUME NEW inodes, NEW inodes2, NEW f, NEW m \in Files, NEW s \in Sectors,
         Counted(inodes, f, None), f[m].inode = s,
         inodes2[s].open_cnt = inodes[s].open_cnt,
         inodes2[s].deny_write_cnt = inodes[s].deny_write_cnt + 1,
         \A t \in Sectors \ {s} : inodes2[t] = inodes[t]
  PROVE  Counted(inodes2, f, m)
<1>1. None \notin Files
  BY FileSysAssumption
<1>2. ASSUME NEW t \in Sectors
      PROVE  /\ inodes2[t].open_cnt = Cardinality(OpenersOf(f, t))
             /\ inodes2[t].deny_write_cnt = IF f[m].inode = t THEN 1 ELSE 0
  <2>1. inodes[t].open_cnt = Cardinality(OpenersOf(f, t)) /\ inodes[t].deny_write_cnt = 0
    BY <1>1 DEF Counted
  <2>2. CASE t = s
    BY <2>1, <2>2
  <2>3. CASE t # s
    BY <2>1, <2>3
  <2> QED
    BY <2>2, <2>3
<1> QED
  BY <1>2 DEF Counted

\* load().
LEMMA LoadInv ==
  ASSUME FileSysInv, NEW n \in Names, NEW id \in Files, Load(n, id)
  PROVE  FileSysInv'
<1>s. PICK s : s = dir[n]
  OBVIOUS
<1>r. PICK r : r = [inode |-> s, pos |-> 0, deny_write |-> TRUE]
  OBVIOUS
<1>o. PICK opened : opened = InodeOpen(inode, s)
  OBVIOUS
<1>0. /\ FilesysOpen(n, id) /\ inode' = [opened EXCEPT ![s].deny_write_cnt = @ + 1]
      /\ file' = [file EXCEPT ![id] = r] /\ mFile' = id /\ at' = "user" /\ at = "none"
      /\ UNCHANGED <<free_map, dir, inode_disk, data, fileList, IOLock, panic, lost>>
  BY <1>s, <1>r, <1>o DEF Load, diskVars
<1>1. /\ s \in Sectors /\ s \in Alive /\ s \in 0..LastSector /\ s # 0
      /\ file[id].inode = 0 /\ id # mFile /\ id \notin Range(fileList)
  BY <1>0, <1>s, OpenFacts
<1>2. /\ TypeOK /\ Counted(inode, file, mFile) /\ file \in [Files -> FileType]
      /\ mFile \in Files \cup {None} /\ fileList \in Seq(Files) /\ FilesHeld
      /\ mFile = None /\ fileList = << >> /\ None \notin Files
  BY <1>0, InvCounted, FileSysAssumption DEF FileSysInv, FilesHeld
<1>3. r \in FileType /\ r.inode = s /\ r.deny_write = TRUE
  BY <1>r, <1>1 DEF FileType
<1>4. opened \in [Sectors -> InodeType]
  BY <1>o, <1>1, InodeOpenRight
<1>5. /\ inode'[s].open_cnt = opened[s].open_cnt /\ inode'[s].removed = opened[s].removed
      /\ inode'[s].deny_write_cnt = opened[s].deny_write_cnt + 1
      /\ inode'[s].start = opened[s].start /\ inode'[s].length = opened[s].length
      /\ \A t \in Sectors \ {s} : inode'[t] = opened[t]
      /\ inode' \in [Sectors -> InodeType]
  <2>1. opened[s] \in InodeType
    BY <1>1, <1>4
  <2>2. inode' = [opened EXCEPT ![s] = [opened[s] EXCEPT !.deny_write_cnt = opened[s].deny_write_cnt + 1]]
    BY <1>0
  <2>3. [opened[s] EXCEPT !.deny_write_cnt = opened[s].deny_write_cnt + 1] \in InodeType
    BY <2>1 DEF InodeType
  <2> QED
    BY <1>1, <1>4, <2>1, <2>2, <2>3 DEF InodeType
<1>6. file' \in [Files -> FileType]
  BY <1>0, <1>2, <1>3
<1>7. TypeOK'
  BY <1>0, <1>2, <1>5, <1>6 DEF TypeOK, FileType, InodeType
<1>8. FilesHeld'
  <2>1. \A i \in Files \ {id} : file'[i] = file[i]
    BY <1>0, <1>2
  <2>2. file'[id] = r
    BY <1>0, <1>2
  <2>3. Range(fileList') = {} /\ IsInjective(fileList')
    BY <1>0, <1>2 DEF Range, IsInjective
  <2>4. \A i \in Files : file'[i].deny_write <=> i = id
    BY <1>2, <1>3, <2>1, <2>2 DEF FilesHeld
  <2> QED
    BY <1>0, <1>1, <1>2, <1>3, <2>2, <2>3, <2>4 DEF FilesHeld, InUse
<1>9. Counted(inode', file', mFile')
  <2>1. Counted(opened, [file EXCEPT ![id] = r], mFile)
    BY <1>o, <1>1, <1>2, <1>3, InodeOpenRight, CountOpen
  <2>2. Counted(opened, file', None) /\ file'[id].inode = s
    BY <1>0, <1>2, <1>3, <2>1
  <2>3. Counted(inode', file', id)
    BY <1>1, <1>5, <2>2, CountDeny
  <2> QED
    BY <1>0, <2>3
<1>10. SectorsAccounted' /\ CopiesDisk'
  <2>1. \A t \in Sectors :
          /\ opened[t].open_cnt > 0 /\ opened[t].removed <=> t \in RemovedOpen
          /\ opened[t].open_cnt > 0 => /\ t \in Alive
                                       /\ opened[t].start = inode_disk[t].start
                                       /\ opened[t].length = inode_disk[t].length
    BY <1>o, <1>1, OpenedFiles
  <2>2. \A t \in Sectors :
          /\ inode'[t].open_cnt = opened[t].open_cnt /\ inode'[t].removed = opened[t].removed
          /\ inode'[t].start = opened[t].start /\ inode'[t].length = opened[t].length
    BY <1>5
  <2> QED
    BY <1>0, <1>7, <2>1, <2>2, SameFiles
<1> QED
  BY <1>8, <1>9, <1>10, CountedInv

\* thread_exit() takes the denial back.
LEMMA ExitRight ==
  ASSUME FileSysInv, at # "none",
         NEW f \in [Files -> FileType], NEW inodes \in [Sectors -> InodeType],
         Counted(inodes, f, mFile), f[mFile] = file[mFile],
         \A id \in Files : f[id].deny_write <=> id = mFile,
         ThreadExit(f, inodes)
  PROVE  /\ FilesHeld' /\ Counted(inode', file', mFile')
         /\ inode' \in [Sectors -> InodeType] /\ file' \in [Files -> FileType]
         /\ fileList' \in Seq(Files) /\ mFile' = None /\ at' = "none"
         /\ \A t \in Sectors :
              /\ inode'[t].open_cnt = inodes[t].open_cnt /\ inode'[t].removed = inodes[t].removed
              /\ inode'[t].start = inodes[t].start /\ inode'[t].length = inodes[t].length
<1>m. PICK m : m = mFile
  OBVIOUS
<1>s. PICK s : s = file[m].inode
  OBVIOUS
<1>0. /\ m \in Files /\ InUse(m) /\ None \notin Files /\ file[m].deny_write
  BY <1>m, InvCounted, FileSysAssumption DEF FileSysInv, FilesHeld
<1>1. s \in Sectors
  BY <1>0, <1>s, InUseAlive
<1>2. /\ file' = [f EXCEPT ![m].deny_write = FALSE]
      /\ inode' = [inodes EXCEPT ![s].deny_write_cnt = @ - 1]
      /\ at' = "none" /\ mFile' = None /\ fileList' = << >>
  BY <1>m, <1>s, <1>0 DEF ThreadExit, AllowWrite
<1>3. inodes[s].deny_write_cnt = 1 /\ f[m].inode = s
  BY <1>m, <1>s, <1>0, <1>1 DEF Counted
<1>4. /\ \A t \in Sectors \ {s} : inode'[t] = inodes[t]
      /\ inode'[s].open_cnt = inodes[s].open_cnt /\ inode'[s].removed = inodes[s].removed
      /\ inode'[s].start = inodes[s].start /\ inode'[s].length = inodes[s].length
      /\ inode'[s].deny_write_cnt = 0
      /\ inode' \in [Sectors -> InodeType]
  <2>1. inodes[s] \in InodeType
    BY <1>1
  <2>2. inode' = [inodes EXCEPT ![s] = [inodes[s] EXCEPT !.deny_write_cnt = inodes[s].deny_write_cnt - 1]]
    BY <1>2
  <2>3. inodes[s].deny_write_cnt - 1 = 0
    BY <1>3
  <2>4. inode' = [inodes EXCEPT ![s] = [inodes[s] EXCEPT !.deny_write_cnt = 0]]
    BY <2>2, <2>3
  <2>5. [inodes[s] EXCEPT !.deny_write_cnt = 0] \in InodeType
    BY <2>1 DEF InodeType
  <2> QED
    BY <1>1, <2>1, <2>4, <2>5 DEF InodeType
<1>5. /\ file' \in [Files -> FileType]
      /\ \A id \in Files : file'[id].inode = f[id].inode /\ ~file'[id].deny_write
  <2>1. f[m] \in FileType
    BY <1>0
  <2>2. [f[m] EXCEPT !.deny_write = FALSE] \in FileType
    BY <2>1 DEF FileType
  <2>3. file' = [f EXCEPT ![m] = [f[m] EXCEPT !.deny_write = FALSE]]
    BY <1>2
  <2>4. \A id \in Files \ {m} : file'[id] = f[id] /\ ~f[id].deny_write
    BY <1>m, <2>3
  <2>5. file'[m].inode = f[m].inode /\ file'[m].deny_write = FALSE
    BY <1>0, <2>1, <2>3 DEF FileType
  <2> QED
    BY <1>0, <2>2, <2>3, <2>4, <2>5
<1>6. Counted(inode', file', mFile')
  <2>1. \A t \in Sectors : OpenersOf(file', t) = OpenersOf(f, t)
    BY <1>5 DEF OpenersOf
  <2>2. \A t \in Sectors : inodes[t].open_cnt = Cardinality(OpenersOf(f, t))
    BY DEF Counted
  <2>3. \A t \in Sectors \ {s} : inodes[t].deny_write_cnt = 0
    BY <1>m, <1>3 DEF Counted
  <2>4. \A t \in Sectors : inode'[t].deny_write_cnt = 0 /\ inode'[t].open_cnt = inodes[t].open_cnt
    BY <1>4, <2>3
  <2> QED
    BY <1>0, <1>2, <2>1, <2>2, <2>4 DEF Counted
<1>7. FilesHeld'
  <2>1. Range(fileList') = {} /\ IsInjective(fileList')
    BY <1>2 DEF Range, IsInjective
  <2> QED
    BY <1>0, <1>2, <1>5, <2>1 DEF FilesHeld
<1>8. \A t \in Sectors :
              /\ inode'[t].open_cnt = inodes[t].open_cnt /\ inode'[t].removed = inodes[t].removed
              /\ inode'[t].start = inodes[t].start /\ inode'[t].length = inodes[t].length
  BY <1>4
<1> QED
  BY <1>2, <1>4, <1>5, <1>6, <1>7, <1>8

\* The ways out of a process.
LEMMA ExitInv ==
  ASSUME FileSysInv, at # "none", ThreadExit(file, inode), IOLock' \in 0..1,
         UNCHANGED <<diskVars, panic, lost>>
  PROVE  FileSysInv'
<1>1. /\ TypeOK /\ Counted(inode, file, mFile) /\ file \in [Files -> FileType] /\ CopiesDisk
      /\ inode \in [Sectors -> InodeType] /\ \A id \in Files : file[id].deny_write <=> id = mFile
  BY InvCounted DEF FileSysInv, FilesHeld
<1>2. /\ FilesHeld' /\ Counted(inode', file', mFile')
      /\ inode' \in [Sectors -> InodeType] /\ file' \in [Files -> FileType]
      /\ fileList' \in Seq(Files) /\ mFile' = None /\ at' = "none"
      /\ \A t \in Sectors :
           /\ inode'[t].open_cnt = inode[t].open_cnt /\ inode'[t].removed = inode[t].removed
           /\ inode'[t].start = inode[t].start /\ inode'[t].length = inode[t].length
  BY <1>1, ExitRight
<1>3. TypeOK'
  BY <1>1, <1>2 DEF TypeOK, FileType, InodeType, diskVars
<1>4. \A t \in Sectors : inode[t].open_cnt > 0 /\ inode[t].removed <=> t \in RemovedOpen
  BY DEF RemovedOpen
<1>5. SectorsAccounted' /\ CopiesDisk'
  BY <1>1, <1>2, <1>3, <1>4, SameFiles DEF CopiesDisk, diskVars
<1> QED
  BY <1>2, <1>5, CountedInv

\* SYS_MMAP.
LEMMA MmapInv ==
  ASSUME FileSysInv, NEW id \in Files, NEW new \in Files, SysMmap(id, new)
  PROVE  FileSysInv'
<1>s. PICK s : s = file[id].inode
  OBVIOUS
<1>o. PICK opened : opened = InodeOpen(inode, s)
  OBVIOUS
<1>r. PICK r : r = [NoFile EXCEPT !.inode = s, !.pos = inode[s].length]
  OBVIOUS
<1>f. PICK f : f = [file EXCEPT ![new] = r]
  OBVIOUS
<1>0. /\ at # "none" /\ id \in Range(fileList) /\ ~InUse(new) /\ ThreadExit(f, opened)
      /\ UNCHANGED <<free_map, dir, inode_disk, data, IOLock, panic, lost>>
  BY <1>s, <1>o, <1>r, <1>f DEF SysMmap, CallOn, Call, Inode, diskVars
<1>1. /\ TypeOK /\ Counted(inode, file, mFile) /\ file \in [Files -> FileType] /\ CopiesDisk
      /\ inode \in [Sectors -> InodeType] /\ mFile \in Files \cup {None} /\ FilesHeld
  BY InvCounted DEF FileSysInv
<1>2. /\ InUse(id) /\ mFile \in Files /\ InUse(mFile) /\ new # mFile /\ file[new].inode = 0
  BY <1>0, <1>1 DEF FilesHeld, InUse
<1>3. s \in Sectors /\ s \in Alive
  BY <1>s, <1>2, InUseAlive
<1>4. r \in FileType /\ r.inode = s /\ r.deny_write = FALSE
  <2>1. inode[s].length \in Nat /\ s \in 0..LastSector
    BY <1>1, <1>3, FileSysAssumption DEF InodeType, Sectors
  <2> QED
    BY <1>r, <2>1 DEF FileType, NoFile
<1>5. opened \in [Sectors -> InodeType] /\ f \in [Files -> FileType]
  BY <1>o, <1>f, <1>1, <1>3, <1>4, InodeOpenRight
<1>6. Counted(opened, f, mFile)
  BY <1>o, <1>f, <1>1, <1>2, <1>3, <1>4, InodeOpenRight, CountOpen
<1>7. f[mFile] = file[mFile] /\ \A i \in Files : f[i].deny_write <=> i = mFile
  BY <1>f, <1>1, <1>2, <1>4 DEF FilesHeld
<1>8. /\ FilesHeld' /\ Counted(inode', file', mFile')
      /\ inode' \in [Sectors -> InodeType] /\ file' \in [Files -> FileType]
      /\ fileList' \in Seq(Files) /\ mFile' = None /\ at' = "none"
      /\ \A t \in Sectors :
           /\ inode'[t].open_cnt = opened[t].open_cnt /\ inode'[t].removed = opened[t].removed
           /\ inode'[t].start = opened[t].start /\ inode'[t].length = opened[t].length
  BY <1>0, <1>5, <1>6, <1>7, ExitRight
<1>9. TypeOK'
  BY <1>0, <1>1, <1>8 DEF TypeOK, FileType, InodeType
<1>10. SectorsAccounted' /\ CopiesDisk'
  <2>1. \A t \in Sectors :
          /\ opened[t].open_cnt > 0 /\ opened[t].removed <=> t \in RemovedOpen
          /\ opened[t].open_cnt > 0 => /\ t \in Alive
                                       /\ opened[t].start = inode_disk[t].start
                                       /\ opened[t].length = inode_disk[t].length
    BY <1>o, <1>3, OpenedFiles
  <2> QED
    BY <1>0, <1>8, <1>9, <2>1, SameFiles
<1> QED
  BY <1>8, <1>10, CountedInv

\* A close of a file of the process never fails an ASSERT.
LEMMA CloseInv ==
  ASSUME FileSysInv, NEW id \in Range(fileList), CloseAndUnlink(id)
  PROVE  FileSysInv'
<1>s. PICK s : s = file[id].inode
  OBVIOUS
<1>1. /\ TypeOK /\ Counted(inode, file, mFile) /\ file \in [Files -> FileType] /\ CopiesDisk
      /\ inode \in [Sectors -> InodeType] /\ mFile \in Files \cup {None} /\ FilesHeld
      /\ fileList \in Seq(Files)
  BY InvCounted DEF FileSysInv
<1>2. /\ id \in Files /\ InUse(id) /\ id # mFile /\ ~file[id].deny_write
  BY <1>1, RangeSeq DEF FilesHeld
<1>3. s \in Sectors /\ s \in Alive
  BY <1>s, <1>2, InUseAlive
<1>4. /\ inode[s].open_cnt \in Nat \ {0}
      /\ inode[s].open_cnt = 1 => inode[s].deny_write_cnt = 0
  BY <1>s, <1>1, <1>2, <1>3, LastOpener
<1>5. Released(s, inode[s]) = Blocks(s) /\ Blocks(s) \subseteq free_map
  BY <1>1, <1>3, <1>4, BlocksMarked DEF CopiesDisk, Released, Blocks
<1>6. ~CloseFails(inode, s)
  BY <1>5 DEF CloseFails
<1>7. /\ InodeClose(inode, s) /\ file' = [file EXCEPT ![id] = NoFile]
      /\ fileList' = Unlink(fileList, id)
      /\ UNCHANGED <<dir, inode_disk, data, mFile, at, IOLock, panic, lost>>
  BY <1>s, <1>2, <1>6 DEF CloseAndUnlink, FileClose, AllowWrite
<1>8. /\ inode' \in [Sectors -> InodeType]
      /\ \A t \in Sectors \ {s} : inode'[t] = inode[t]
      /\ inode'[s].open_cnt = inode[s].open_cnt - 1
      /\ inode'[s].deny_write_cnt = inode[s].deny_write_cnt
      /\ inode'[s].open_cnt > 0 =>
           /\ inode'[s].removed = inode[s].removed
           /\ inode'[s].start = inode[s].start /\ inode'[s].length = inode[s].length
  BY <1>1, <1>3, <1>4, <1>7, InodeCloseRight
<1>9. NoFile \in FileType /\ NoFile.inode = 0 /\ NoFile.deny_write = FALSE
  BY FileSysAssumption DEF NoFile, FileType
<1>10. /\ fileList' \in Seq(Files) /\ Range(fileList') = Range(fileList) \ {id}
       /\ IsInjective(fileList')
  BY <1>1, <1>7, UnlinkList DEF FilesHeld
<1>11. /\ file' \in [Files -> FileType] /\ file'[id] = NoFile
       /\ \A i \in Files \ {id} : file'[i] = file[i]
  BY <1>1, <1>2, <1>7, <1>9
<1>12. free_map' = IF Reclaims(inode[s]) THEN free_map \ Blocks(s) ELSE free_map
  BY <1>5, <1>7 DEF InodeClose
<1>13. TypeOK'
  <2>1. free_map' \subseteq Sectors
    BY <1>1, <1>12 DEF TypeOK
  <2> QED
    BY <1>1, <1>7, <1>8, <1>10, <1>11, <2>1 DEF TypeOK, FileType, InodeType
<1>14. FilesHeld'
  <2>1. at # "none"
    BY <1>1 DEF FilesHeld, Range
  <2>2. \A i \in Range(fileList') : file'[i].inode # 0 /\ i # mFile
    <3>1. Range(fileList) \subseteq Files
      BY <1>1, RangeSeq
    <3> QED
      BY <1>1, <1>10, <1>11, <3>1 DEF FilesHeld, InUse
  <2>3. \A i \in Files : file'[i].deny_write <=> i = mFile
    BY <1>1, <1>2, <1>9, <1>11 DEF FilesHeld
  <2>4. mFile # None => file'[mFile].inode # 0
    BY <1>1, <1>2, <1>11 DEF FilesHeld, InUse
  <2> QED
    BY <1>1, <1>7, <1>10, <2>1, <2>2, <2>3, <2>4 DEF FilesHeld, InUse
<1>15. Counted(inode', file', mFile')
  <2>1. Counted(inode', [file EXCEPT ![id] = NoFile], mFile)
    BY <1>s, <1>1, <1>2, <1>3, <1>8, <1>9, CountClose
  <2> QED
    BY <1>7, <2>1
<1>16. SectorsAccounted' /\ CopiesDisk'
  <2>1. CASE Reclaims(inode[s])
    <3>0. inode[s].open_cnt = 1 /\ inode[s].removed /\ inode'[s].open_cnt = 0
      BY <1>4, <1>8, <2>1 DEF Reclaims
    <3>1. s \in RemovedOpen /\ RemovedOpen' = RemovedOpen \ {s}
      BY <1>3, <1>8, <3>0 DEF RemovedOpen
    <3>2. Named' = Named /\ Named \cap RemovedOpen = {}
      BY <1>7 DEF Named, FileSysInv, SectorsAccounted
    <3>3. Alive' = Alive \ {s}
      BY <3>1, <3>2 DEF Alive
    <3>4. SectorsAccounted'
      <4>1. free_map' = free_map \ Blocks(s) /\ Named' \cap RemovedOpen' = {}
        BY <1>12, <2>1, <3>1, <3>2
      <4>2. \A l, m \in Names : dir'[l] = dir'[m] /\ dir'[l] # None => l = m
        BY <1>7 DEF FileSysInv, SectorsAccounted
      <4> QED
        BY <1>3, <1>7, <1>13, <3>3, <4>1, <4>2, SectorsReleased
    <3>5. CopiesDisk'
      <4>1. ~(inode'[s].open_cnt > 0)
        BY <3>0
      <4> QED
        BY <1>1, <1>7, <1>8, <3>3, <4>1 DEF CopiesDisk
    <3> QED
      BY <3>4, <3>5
  <2>2. CASE ~Reclaims(inode[s])
    <3>0. /\ \A t \in Sectors : inode[t].open_cnt > 0 /\ inode[t].removed <=> t \in RemovedOpen
          /\ \A t \in Sectors : inode[t].open_cnt > 0 =>
               /\ t \in Alive
               /\ inode[t].start = inode_disk[t].start
               /\ inode[t].length = inode_disk[t].length
      BY <1>1 DEF RemovedOpen, CopiesDisk
    <3>1. inode'[s].open_cnt > 0 <=> inode[s].open_cnt # 1
      BY <1>4, <1>8
    <3>2. inode[s].open_cnt > 0 /\ (inode[s].open_cnt = 1 => ~inode[s].removed)
      BY <1>4, <2>2 DEF Reclaims
    <3>3. inode'[s].open_cnt > 0 /\ inode'[s].removed <=> s \in RemovedOpen
      BY <1>3, <1>8, <3>0, <3>1, <3>2
    <3>4. inode'[s].open_cnt > 0 => /\ s \in Alive
                                    /\ inode'[s].start = inode_disk[s].start
                                    /\ inode'[s].length = inode_disk[s].length
      BY <1>3, <1>8, <3>0, <3>2
    <3>5. free_map' = free_map
      BY <1>12, <2>2
    <3> QED
      BY <1>7, <1>8, <1>13, <3>0, <3>3, <3>4, <3>5, SameFiles
  <2> QED
    BY <2>1, <2>2
<1> QED
  BY <1>14, <1>15, <1>16, CountedInv

\* filesys_remove() of a file never fails an ASSERT: the file goes at once if
\* nobody has it open, and else stays until the last close.
LEMMA RemoveInv ==
  ASSUME FileSysInv, NEW n \in Names, SysRemove(n)
  PROVE  FileSysInv'
<1>s. PICK s : s = dir[n]
  OBVIOUS
<1>o. PICK opened : opened = InodeOpen(inode, s)
  OBVIOUS
<1>r. PICK removed : removed = [opened EXCEPT ![s].removed = TRUE]
  OBVIOUS
<1>1. /\ TypeOK /\ Counted(inode, file, mFile) /\ file \in [Files -> FileType] /\ CopiesDisk
      /\ inode \in [Sectors -> InodeType] /\ mFile \in Files \cup {None} /\ FilesHeld
      /\ SectorsAccounted
  BY InvCounted DEF FileSysInv
<1>2. s \in Sectors /\ s \in Named /\ s \in Alive /\ s # None
  BY <1>s, <1>1 DEF SysRemove, TypeOK, Alive, Named
<1>3. /\ opened \in [Sectors -> InodeType]
      /\ \A t \in Sectors \ {s} : opened[t] = inode[t]
      /\ opened[s].open_cnt = inode[s].open_cnt + 1
      /\ opened[s].deny_write_cnt = inode[s].deny_write_cnt
      /\ opened[s].start = inode_disk[s].start
      /\ opened[s].length = inode_disk[s].length
  BY <1>o, <1>2, InodeOpenRight
<1>4. /\ removed \in [Sectors -> InodeType]
      /\ \A t \in Sectors \ {s} : removed[t] = inode[t]
      /\ removed[s].open_cnt = inode[s].open_cnt + 1
      /\ removed[s].deny_write_cnt = inode[s].deny_write_cnt
      /\ removed[s].removed = TRUE
      /\ removed[s].start = inode_disk[s].start
      /\ removed[s].length = inode_disk[s].length
  <2>1. opened[s] \in InodeType
    BY <1>2, <1>3
  <2>2. removed = [opened EXCEPT ![s] = [opened[s] EXCEPT !.removed = TRUE]]
    BY <1>r
  <2>3. [opened[s] EXCEPT !.removed = TRUE] \in InodeType
    BY <2>1 DEF InodeType
  <2> QED
    BY <1>2, <1>3, <2>1, <2>2, <2>3 DEF InodeType
<1>5. Released(s, removed[s]) = Blocks(s) /\ Blocks(s) \subseteq free_map
  BY <1>2, <1>4, BlocksMarked DEF Released, Blocks
<1>6. ~CloseFails(removed, s)
  BY <1>5 DEF CloseFails
<1>7. /\ dir' = [dir EXCEPT ![n] = None] /\ InodeClose(removed, s)
      /\ UNCHANGED <<inode_disk, data, file, fileList, mFile, at, IOLock, panic, lost>>
  BY <1>s, <1>o, <1>r, <1>6 DEF SysRemove, procVars
<1>8. inode[s].open_cnt \in Nat /\ (inode[s].open_cnt = 0 => inode[s].deny_write_cnt = 0)
  <2>1. inode[s].open_cnt \in Nat
    BY <1>1, <1>2 DEF InodeType
  <2>2. ASSUME inode[s].open_cnt = 0 PROVE inode[s].deny_write_cnt = 0
    <3>1. OpenersOf(file, s) = {}
      BY <1>1, <1>2, <2>2, OpenersFinite, FS_EmptySet DEF Counted
    <3>2. ~(mFile \in Files /\ file[mFile].inode = s)
      BY <3>1 DEF OpenersOf
    <3> QED
      BY <1>1, <1>2, <3>2 DEF Counted
  <2> QED
    BY <2>1, <2>2
<1>9. /\ inode' \in [Sectors -> InodeType]
      /\ \A t \in Sectors \ {s} : inode'[t] = inode[t]
      /\ inode'[s].open_cnt = inode[s].open_cnt
      /\ inode'[s].deny_write_cnt = inode[s].deny_write_cnt
      /\ inode'[s].open_cnt > 0 =>
           /\ inode'[s].removed = TRUE
           /\ inode'[s].start = inode_disk[s].start /\ inode'[s].length = inode_disk[s].length
  <2>1. removed[s].open_cnt \in Nat \ {0} /\ (removed[s].open_cnt = 1 => removed[s].deny_write_cnt = 0)
    BY <1>4, <1>8
  <2>2. /\ inode' \in [Sectors -> InodeType]
        /\ \A t \in Sectors \ {s} : inode'[t] = removed[t]
        /\ inode'[s].open_cnt = removed[s].open_cnt - 1
        /\ inode'[s].deny_write_cnt = removed[s].deny_write_cnt
        /\ inode'[s].open_cnt > 0 =>
             /\ inode'[s].removed = removed[s].removed
             /\ inode'[s].start = removed[s].start /\ inode'[s].length = removed[s].length
    BY <1>2, <1>4, <1>7, <2>1, InodeCloseRight
  <2> QED
    BY <1>4, <1>8, <2>2
<1>10. free_map' = IF inode[s].open_cnt = 0 THEN free_map \ Blocks(s) ELSE free_map
  <2>1. Reclaims(removed[s]) <=> inode[s].open_cnt = 0
    BY <1>4, <1>8 DEF Reclaims
  <2> QED
    BY <1>5, <1>7, <2>1 DEF InodeClose
<1>11. TypeOK'
  <2>1. free_map' \subseteq Sectors /\ dir' \in [Names -> Sectors \cup {None}]
    BY <1>1, <1>7, <1>10 DEF TypeOK
  <2> QED
    BY <1>1, <1>7, <1>9, <2>1 DEF TypeOK, FileType, InodeType
<1>12. FilesHeld'
  BY <1>1, <1>7 DEF FilesHeld, InUse
<1>13. Counted(inode', file', mFile')
  <2>1. \A t \in Sectors : /\ inode'[t].open_cnt = inode[t].open_cnt
                           /\ inode'[t].deny_write_cnt = inode[t].deny_write_cnt
    BY <1>9
  <2> QED
    BY <1>1, <1>7, <2>1 DEF Counted
<1>14. /\ \A l, m \in Names : dir[l] = dir[m] /\ dir[l] # None => l = m
       /\ Named \cap RemovedOpen = {}
  BY <1>1 DEF SectorsAccounted
<1>15. dir'[n] = None /\ \A m \in Names \ {n} : dir'[m] = dir[m]
  BY <1>1, <1>7 DEF TypeOK
<1>16. \A l, m \in Names : dir'[l] = dir'[m] /\ dir'[l] # None => l = m
  BY <1>14, <1>15
<1>17. Named' = Named \ {s}
  <2>1. \A m \in Names : dir[m] = s => m = n
    BY <1>s, <1>2, <1>14
  <2>2. \A t : t \in Named <=> \E m \in Names : dir[m] = t /\ t # None
    BY DEF Named
  <2>3. \A t : t \in Named' <=> \E m \in Names : dir'[m] = t /\ t # None
    BY DEF Named
  <2>4. \A t : t \in Named' <=> t \in Named /\ t # s
    BY <1>s, <1>15, <2>1, <2>2, <2>3
  <2> QED
    BY <2>4
<1>18. SectorsAccounted' /\ CopiesDisk'
  <2>1. CASE inode[s].open_cnt = 0
    <3>0. inode'[s].open_cnt = 0 /\ ~(inode'[s].open_cnt > 0) /\ ~(inode[s].open_cnt > 0)
      BY <1>9, <2>1
    <3>1. RemovedOpen' = RemovedOpen
      BY <1>9, <3>0 DEF RemovedOpen
    <3>2. Alive' = Alive \ {s} /\ Named' \cap RemovedOpen' = {}
      BY <1>2, <1>14, <1>17, <3>1 DEF Alive
    <3>3. SectorsAccounted'
      BY <1>2, <1>7, <1>10, <1>11, <1>16, <2>1, <3>2, SectorsReleased
    <3>4. CopiesDisk'
      BY <1>1, <1>7, <1>9, <3>0, <3>2 DEF CopiesDisk
    <3> QED
      BY <3>3, <3>4
  <2>2. CASE inode[s].open_cnt # 0
    <3>0. inode'[s].open_cnt > 0
      BY <1>8, <1>9, <2>2
    <3>1. RemovedOpen' = RemovedOpen \cup {s}
      BY <1>2, <1>9, <3>0 DEF RemovedOpen
    <3>2. Alive' = Alive /\ Named' \cap RemovedOpen' = {}
      BY <1>2, <1>14, <1>17, <3>1 DEF Alive
    <3>3. SectorsAccounted'
      BY <1>7, <1>10, <1>11, <1>16, <2>2, <3>2, SectorsStay
    <3>4. CopiesDisk'
      BY <1>1, <1>2, <1>7, <1>9, <3>2 DEF CopiesDisk
    <3> QED
      BY <3>3, <3>4
  <2> QED
    BY <2>1, <2>2
<1> QED
  BY <1>12, <1>13, <1>18, CountedInv

\* shutdown_power_off() and filesys_init(): a removed file that was open is
\* lost, every other one is as it was.
LEMMA RestartInv ==
  ASSUME FileSysInv, Restart
  PROVE  FileSysInv'
<1>1. /\ TypeOK /\ CopiesDisk /\ SectorsAccounted /\ None \notin Files /\ 0 \notin Sectors
  BY InvCounted, FileSysAssumption DEF FileSysInv, Sectors
<1>2. /\ inode' = [s \in Sectors |-> NoInode] /\ file' = [id \in Files |-> NoFile]
      /\ fileList' = << >> /\ mFile' = None /\ at' = "none" /\ IOLock' = 1
      /\ panic' = "no"
      /\ UNCHANGED <<free_map, dir, inode_disk, data>>
  BY DEF Restart, diskVars
<1>3. /\ NoInode \in InodeType /\ NoInode.open_cnt = 0 /\ NoInode.deny_write_cnt = 0
      /\ NoFile \in FileType /\ NoFile.inode = 0 /\ NoFile.deny_write = FALSE
  BY FileSysAssumption DEF NoInode, InodeType, NoFile, FileType
<1>4. /\ RemovedOpen \subseteq Alive /\ Named \subseteq Alive
      /\ \A s \in Alive : s \in Sectors /\ Blocks(s) \subseteq free_map
  BY BlocksMarked DEF Alive
<1>5. \A s \in RemovedOpen : Released(s, inode[s]) = Blocks(s)
  BY <1>1 DEF RemovedOpen, CopiesDisk, Released, Blocks
<1>6. lost' = lost \cup UNION {Blocks(s) : s \in RemovedOpen}
  BY <1>5 DEF Restart
<1>7. \A s \in Sectors : inode'[s].open_cnt = 0 /\ inode'[s].deny_write_cnt = 0
                         /\ ~(inode'[s].open_cnt > 0)
  BY <1>2, <1>3
<1>8. RemovedOpen' = {}
  BY <1>7 DEF RemovedOpen
<1>9. Named' = Named
  BY <1>2 DEF Named
<1>10. Alive' = Named
  BY <1>8, <1>9 DEF Alive
<1>11. TypeOK'
  <2>1. inode' \in [Sectors -> InodeType] /\ file' \in [Files -> FileType]
    BY <1>2, <1>3
  <2>2. lost' \subseteq Sectors
    BY <1>1, <1>4, <1>6 DEF TypeOK
  <2> QED
    BY <1>1, <1>2, <2>1, <2>2 DEF TypeOK, FileType, InodeType
<1>12. SectorsAccounted'
  <2>1. /\ free_map = lost \cup UNION {Blocks(t) : t \in Alive}
        /\ \A t \in Alive : Blocks(t) \cap lost = {}
        /\ \A t, u \in Alive : t # u => Blocks(t) \cap Blocks(u) = {}
        /\ \A l, m \in Names : dir[l] = dir[m] /\ dir[l] # None => l = m
        /\ Named \cap RemovedOpen = {}
    BY <1>1 DEF SectorsAccounted
  <2>2. \A t \in Alive : Blocks(t)' = Blocks(t)
    BY <1>2 DEF Blocks
  <2>3. free_map = lost' \cup UNION {Blocks(t) : t \in Named}
    BY <1>6, <2>1 DEF Alive
  <2>4. free_map' = lost' \cup UNION {Blocks(t)' : t \in Alive'}
    BY <1>2, <1>4, <1>10, <2>2, <2>3
  <2>5. \A t \in Alive' : Blocks(t)' \cap lost' = {}
    <3>1. \A t \in Named, u \in RemovedOpen : Blocks(t) \cap Blocks(u) = {}
      BY <1>4, <2>1
    <3> QED
      BY <1>4, <1>6, <1>10, <2>1, <2>2, <3>1
  <2>6. \A t, u \in Alive' : t # u => Blocks(t)' \cap Blocks(u)' = {}
    BY <1>4, <1>10, <2>1, <2>2
  <2> QED
    BY <1>2, <1>8, <1>11, <2>1, <2>4, <2>5, <2>6 DEF SectorsAccounted
<1>13. CopiesDisk'
  BY <1>7 DEF CopiesDisk
<1>14. FilesHeld'
  <2>1. Range(fileList') = {} /\ IsInjective(fileList')
    BY <1>2 DEF Range, IsInjective
  <2> QED
    BY <1>1, <1>2, <1>3, <2>1 DEF FilesHeld
<1>15. Counted(inode', file', mFile')
  <2>1. \A s \in Sectors : OpenersOf(file', s) = {}
    BY <1>1, <1>2, <1>3 DEF OpenersOf
  <2>2. Cardinality({}) = 0
    BY FS_EmptySet
  <2> QED
    BY <1>1, <1>2, <1>7, <2>1, <2>2 DEF Counted
<1> QED
  BY <1>12, <1>13, <1>14, <1>15, CountedInv

\* SYS_EXIT.
LEMMA SysExitInv ==
  ASSUME FileSysInv, SysExit
  PROVE  FileSysInv'
<1>1. /\ TypeOK /\ FilesHeld /\ Counted(inode, file, mFile)
  BY InvCounted DEF FileSysInv
<1>2. TypeOK' /\ FilesHeld' /\ Counted(inode', file', mFile')
  BY <1>1 DEF SysExit, TypeOK, FilesHeld, InUse, Counted, diskVars
<1> QED
  BY <1>2, SameInodes, CountedInv DEF SysExit, diskVars

\* file_seek() to a negative position.
LEMMA SeekNegativeInv ==
  ASSUME FileSysInv, NEW id \in Files, SysSeekNegative(id)
  PROVE  FileSysInv'
<1>0. /\ panic' = "position"
      /\ UNCHANGED <<free_map, dir, inode_disk, data, inode, file, fileList, mFile, at, IOLock, lost>>
  BY DEF SysSeekNegative, Panics, diskVars, procVars
<1>1. /\ TypeOK /\ FilesHeld /\ Counted(inode, file, mFile)
  BY InvCounted DEF FileSysInv
<1>2. TypeOK' /\ FilesHeld' /\ Counted(inode', file', mFile')
  BY <1>0, <1>1 DEF TypeOK, FilesHeld, InUse, Counted
<1> QED
  BY <1>0, <1>2, SameInodes, CountedInv

\* Every step.
LEMMA NextFileSys == FileSysInv /\ [Next]_vars => FileSysInv'
<1> SUFFICES ASSUME FileSysInv, [Next]_vars PROVE FileSysInv'
  OBVIOUS
<1>0. IOLock \in 0..1
  BY InvCounted DEF TypeOK
<1>1. ASSUME NEW n \in Names, NEW length \in Lengths, SysCreate(n, length) PROVE FileSysInv'
  BY <1>1, CreateInv
<1>2. ASSUME NEW n \in Names, SysRemove(n) PROVE FileSysInv'
  BY <1>2, RemoveInv
<1>3. ASSUME NEW n \in Names, NEW id \in Files, SysOpen(n, id) \/ Load(n, id) PROVE FileSysInv'
  BY <1>3, OpenInv, LoadInv
<1>1n. CASE SysCreateNegative
  BY <1>1n, CreateNegativeInv
<1>4. ASSUME NEW id \in Files, SysRead(id) \/ SysSeekNegative(id) \/ SysClose(id)
      PROVE  FileSysInv'
  BY <1>4, MoveSteps, SeekNegativeInv, CloseInv DEF SysClose, CallOn
<1>5. ASSUME NEW id \in Files, NEW v \in Values, SysWrite(id, v) PROVE FileSysInv'
  BY <1>5, MoveSteps
<1>6. ASSUME NEW id \in Files, NEW pos \in Lengths, SysSeek(id, pos) PROVE FileSysInv'
  BY <1>6, MoveSteps
<1>7. ASSUME NEW id \in Files, NEW new \in Files, SysMmap(id, new) PROVE FileSysInv'
  BY <1>7, MmapInv
<1>8. CASE Killed
  BY <1>0, <1>8, ExitInv DEF Killed
<1>9. CASE SysReadBadBuffer
  <2>1. IOLock' \in 0..1
    BY <1>0, <1>9 DEF SysReadBadBuffer, Call
  <2> QED
    BY <1>9, <2>1, ExitInv DEF SysReadBadBuffer, Call
<1>10. CASE SysExit
  BY <1>10, SysExitInv
<1>11. CASE ExitCloses
  <2>1. Head(fileList) \in Range(fileList)
    <3>1. fileList \in Seq(Files) /\ fileList # << >>
      BY <1>11, InvCounted DEF ExitCloses
    <3>2. Head(fileList) = fileList[1] /\ 1 \in DOMAIN fileList
      BY <3>1
    <3> QED
      BY <3>2 DEF Range
  <2> QED
    BY <1>11, <2>1, CloseInv DEF ExitCloses
<1>12. CASE ExitEnds
  BY <1>0, <1>12, ExitInv DEF ExitEnds
<1>13. CASE Restart
  BY <1>13, RestartInv
<1>14. CASE UNCHANGED vars
  <2>1. /\ UNCHANGED <<free_map, dir, inode_disk, data, inode, file, fileList, mFile, at>>
        /\ UNCHANGED <<IOLock, panic, lost>>
    BY <1>14 DEF vars, diskVars, procVars
  <2>2. TypeOK /\ FilesHeld /\ Counted(inode, file, mFile)
    BY InvCounted DEF FileSysInv
  <2>3. TypeOK' /\ FilesHeld' /\ Counted(inode', file', mFile')
    BY <2>1, <2>2 DEF TypeOK, FilesHeld, InUse, Counted
  <2> QED
    BY <2>1, <2>3, SameInodes, CountedInv
<1> QED
  BY <1>1, <1>1n, <1>2, <1>3, <1>4, <1>5, <1>6, <1>7, <1>8, <1>9, <1>10, <1>11, <1>12, <1>13,
     <1>14 DEF Next

\* The inductive invariant holds in every state.
LEMMA FileSysInvariant == Spec => []FileSysInv
<1> QED
  BY InitFileSys, NextFileSys, PTL DEF Spec

-----------------------------------------------------------------------------
(* The theorems.                                                           *)

\* Every marked sector is one file's, or was lost in one of the ways the
\* code has (a create that fails at the directory or at its ASSERT, a restart with a
\* removed file open), and no ASSERT of free_map_release() fails.
THEOREM FreeMapAccounted == Spec => []SectorsAccounted
<1>1. FileSysInv => SectorsAccounted
  BY DEF FileSysInv
<1> QED
  BY <1>1, FileSysInvariant, PTL

\* open_cnt and deny_write_cnt of every inode are what the struct files make
\* them, and an open inode is that of the file on disk.
THEOREM InodeCountsRight == Spec => []InodesCounted
<1>1. FileSysInv => InodesCounted
  BY DEF FileSysInv
<1> QED
  BY <1>1, FileSysInvariant, PTL

\* A file is denied to writers only while a program runs from it: every way
\* out of a process goes through thread_exit(), which allows it again.
THEOREM DenialEnds == Spec => []DeniedOnlyWhileRunning
<1>1. FileSysInv => DeniedOnlyWhileRunning
  <2> SUFFICES ASSUME FileSysInv, NEW s \in Sectors, inode[s].deny_write_cnt > 0
               PROVE  mFile # None /\ file[mFile].inode = s
    BY DEF DeniedOnlyWhileRunning
  <2>1. mFile \in Files /\ file[mFile].inode = s
    BY InvCounted DEF Counted
  <2> QED
    BY <2>1, FileSysAssumption
<1> QED
  BY <1>1, FileSysInvariant, PTL

\* The sector at offset i of a file that exists is one of its blocks.
LEMMA FileSector ==
  ASSUME FileSysInv, NEW s \in Alive, NEW i \in 0..(inode_disk[s].length - 1)
  PROVE  /\ inode_disk[s].start + i \in Blocks(s) /\ inode_disk[s].start + i \in Sectors
         /\ inode_disk[s].start \in Nat
<1>1. s \in Sectors /\ Blocks(s) \subseteq free_map /\ free_map \subseteq Sectors
  BY BlocksMarked DEF FileSysInv, SectorsAccounted, TypeOK
<1>2. inode_disk[s].start \in Nat /\ inode_disk[s].length \in Nat
  BY <1>1, InvCounted DEF TypeOK
<1>3. i \in Nat /\ i < inode_disk[s].length
  BY <1>2
<1>4. inode_disk[s].start + i \in Extent(inode_disk[s].start, inode_disk[s].length)
  BY <1>2, <1>3, ExtentFacts
<1> QED
  BY <1>1, <1>2, <1>4 DEF Blocks

\* inode_create() zeroes free sectors only.
LEMMA CreateWrites ==
  ASSUME FileSysInv, NEW n \in Names, NEW length \in Lengths, SysCreate(n, length)
  PROVE  WritesItsOwn
<1>s. PICK s : s = FreeMapFit(free_map, 1)
  OBVIOUS
<1>t. PICK start : start = FreeMapFit(free_map \cup {s}, length)
  OBVIOUS
<1>e. PICK E : E = Extent(start, length)
  OBVIOUS
<1>0. /\ free_map \in SUBSET Sectors /\ length \in Nat /\ LastSector \in Nat
  BY InvCounted, FileSysAssumption DEF TypeOK
<1>1. /\ s # 0 /\ (length > 0 => start # 0)
      /\ data' = [t \in Sectors |-> IF t \in E THEN "zero" ELSE data[t]]
  BY <1>s, <1>t, <1>e DEF SysCreate
<1>2. E \cap free_map = {}
  <2>0. free_map \cup {s} \in SUBSET Sectors
    BY <1>s, <1>0, <1>1, FreeMapFitRight
  <2>1. CASE length > 0
    BY <1>t, <1>e, <1>0, <1>1, <2>0, <2>1, FreeMapFitRight
  <2>2. CASE length = 0
    <3>1. start \in Nat
      BY <1>t, <1>0, <2>0, FreeMapFitRight
    <3> QED
      BY <1>e, <2>2, <3>1, ExtentFacts
  <2> QED
    BY <1>0, <2>1, <2>2
<1>3. ASSUME NEW u \in Alive, NEW i \in 0..(inode_disk[u].length - 1)
      PROVE  data'[inode_disk[u].start + i] = data[inode_disk[u].start + i]
  BY <1>1, <1>2, FileSector, BlocksMarked
<1> QED
  BY <1>3 DEF WritesItsOwn

\* inode_write_at() writes at the position of the struct file, into its own
\* blocks, and not while they are denied.
LEMMA WriteWrites ==
  ASSUME FileSysInv, NEW id \in Files, NEW v \in Values, SysWrite(id, v)
  PROVE  WritesItsOwn
<1>u. PICK u : u = file[id].inode
  OBVIOUS
<1>p. PICK pos : pos = file[id].pos
  OBVIOUS
<1>1. /\ id \in Range(fileList) /\ inode[u].deny_write_cnt = 0 /\ pos < inode[u].length
      /\ data' = [data EXCEPT ![inode[u].start + pos] = v]
  BY <1>u, <1>p DEF SysWrite, CallOn, MayWrite, Inode
<1>2. /\ file \in [Files -> FileType] /\ inode \in [Sectors -> InodeType]
      /\ Counted(inode, file, mFile) /\ CopiesDisk /\ InUse(id) /\ mFile \in Files \cup {None}
      /\ inode_disk \in [Sectors -> [start : 0..LastSector, length : 0..LastSector]]
      /\ data \in [Sectors -> Values \cup {"zero"}]
  BY <1>1, InvCounted DEF TypeOK, FileSysInv, FilesHeld
<1>3. u \in Sectors /\ u \in Alive
  BY <1>u, <1>2, InUseAlive
<1>4. inode[u].start = inode_disk[u].start /\ inode[u].length = inode_disk[u].length
  <2>1. id \in OpenersOf(file, u)
    BY <1>u DEF OpenersOf
  <2>2. Cardinality(OpenersOf(file, u)) > 0
    BY <2>1, OpenersFinite, FS_EmptySet
  <2>3. inode[u].open_cnt > 0
    BY <1>2, <1>3, <2>2 DEF Counted
  <2> QED
    BY <1>2, <1>3, <2>3 DEF CopiesDisk
<1>5. pos \in 0..(inode_disk[u].length - 1) /\ inode_disk[u].start \in Nat
  <2>1. pos \in Nat
    BY <1>p, <1>2 DEF FileType
  <2>2. inode_disk[u].length \in Nat /\ inode_disk[u].start \in Nat
    BY <1>2, <1>3
  <2> QED
    BY <1>1, <1>4, <2>1, <2>2
<1>6. mFile = None \/ file[mFile].inode # u
  BY <1>1, <1>2, <1>3 DEF Counted
<1>7. ASSUME NEW s \in Alive, NEW i \in 0..(inode_disk[s].length - 1),
             data'[inode_disk[s].start + i] # data[inode_disk[s].start + i]
      PROVE  s = u /\ i = pos
  <2>1. inode_disk[s].start + i = inode_disk[u].start + pos
    BY <1>1, <1>2, <1>4, <1>7, FileSector
  <2>2. /\ inode_disk[s].start + i \in Blocks(s) /\ inode_disk[u].start + pos \in Blocks(u)
    BY <1>3, <1>5, FileSector
  <2>3. s = u
    BY <1>3, <2>1, <2>2 DEF FileSysInv, SectorsAccounted
  <2>4. inode_disk[s].start = inode_disk[u].start
    BY <2>3
  <2> QED
    BY <1>5, <2>1, <2>3, <2>4
<1> QED
  BY <1>u, <1>p, <1>1, <1>6, <1>7 DEF WritesItsOwn

\* A file that exists changes only by the writes of the process to its
\* descriptors, and the running executable never does.
THEOREM WritesStayInside == Spec => ContentsOnlyWritten
<1>1. FileSysInv /\ [Next]_vars => [WritesItsOwn]_vars
  <2> SUFFICES ASSUME FileSysInv, Next PROVE WritesItsOwn
    OBVIOUS
  <2>0. data' = data => WritesItsOwn
    BY DEF WritesItsOwn
  <2>1. ASSUME NEW n \in Names, NEW length \in Lengths, SysCreate(n, length) PROVE WritesItsOwn
    BY <2>1, CreateWrites
  <2>2. ASSUME NEW n \in Names, SysRemove(n) PROVE data' = data
    BY <2>2 DEF SysRemove, Panics, diskVars
  <2>3. ASSUME NEW n \in Names, NEW id \in Files, SysOpen(n, id) \/ Load(n, id) PROVE data' = data
    BY <2>3 DEF SysOpen, Load, diskVars
  <2>4. ASSUME NEW id \in Files, SysRead(id) \/ SysSeekNegative(id) \/ SysClose(id)
        PROVE  data' = data
    BY <2>4 DEF SysRead, SysSeekNegative, SysClose, CloseAndUnlink, Panics, diskVars
  <2>5. ASSUME NEW id \in Files, NEW v \in Values, SysWrite(id, v) PROVE WritesItsOwn
    BY <2>5, WriteWrites
  <2>6. ASSUME NEW id \in Files, NEW pos \in Lengths, SysSeek(id, pos) PROVE data' = data
    BY <2>6 DEF SysSeek, diskVars
  <2>7. ASSUME NEW id \in Files, NEW new \in Files, SysMmap(id, new) PROVE data' = data
    BY <2>7 DEF SysMmap, diskVars
  <2>8. CASE SysCreateNegative \/ Killed \/ SysReadBadBuffer \/ SysExit \/ ExitEnds \/ Restart
    <3>1. data' = data
      BY <2>8 DEF SysCreateNegative, Killed, SysReadBadBuffer, SysExit, ExitEnds, Restart, diskVars
    <3> QED
      BY <2>0, <3>1
  <2>9. CASE ExitCloses
    <3>1. data' = data
      BY <2>9 DEF ExitCloses, CloseAndUnlink, Panics, diskVars
    <3> QED
      BY <2>0, <3>1
  <2> QED
    BY <2>0, <2>1, <2>2, <2>3, <2>4, <2>5, <2>6, <2>7, <2>8, <2>9 DEF Next
<1> QED
  BY <1>1, FileSysInvariant, PTL DEF Spec, ContentsOnlyWritten
=============================================================================
