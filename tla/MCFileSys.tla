----------------------------- MODULE MCFileSys -----------------------------
(* More names than directory entries, and a disk that a few files fill:      *)
(* creations fail for want of an entry and for want of sectors.              *)
EXTENDS FileSys, TLC

CONSTANTS prog, other, third, g1, g2, g3

ThreeNames == {prog, other, third}
ThreeFiles == {g1, g2, g3}
ShortLengths == {0, 2}
OneValue == {"a"}
FileSymmetry == Permutations(ThreeFiles) \cup Permutations({other, third})

\* What free sectors hold is never looked at: a new file's are written first.
LiveState ==
  <<free_map, dir, [s \in Alive |-> inode_disk[s]], [s \in free_map |-> data[s]],
    inode, file, procVars, IOLock, panic, lost>>
=============================================================================
