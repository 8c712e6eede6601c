------------------------------- MODULE MCDisk -------------------------------
(***************************************************************************)
(* Module Disk with the initial thread, idle and one other thread, and     *)
(* two disks or other devices.                                             *)
(***************************************************************************)
EXTENDS Disk

CONSTANTS main, idle, t1, lock, completion

AllThreads == {main, idle, t1}
ChannelSemas == {lock, completion}
ChannelLocks == {lock}
Off == {"acquire", "complete"}
OneValue == {"a"}

\* Two disks of a sector each, with a partition on each and two entries that do
\* not lie on the disk: one ends past it, one starts past it and wraps.
SomeKinds == {[hda |-> "ata", hdb |-> "ata"], [hda |-> "other", hdb |-> "huge"],
              [hda |-> "no_slave", hdb |-> "ata"]}
OneSector == [hda |-> 1, hdb |-> 1]
SomeParts == {"hda1", "hda2", "hda3", "hdb1"}
PartTable == [hda1 |-> [disk |-> "hda", start |-> 0, size |-> 1, foreign |-> FALSE],
              hda2 |-> [disk |-> "hda", start |-> 0, size |-> 2, foreign |-> FALSE],
              hda3 |-> [disk |-> "hda", start |-> 1, size |-> 7, foreign |-> FALSE],
              hdb1 |-> [disk |-> "hdb", start |-> 0, size |-> 1, foreign |-> TRUE]]
=============================================================================
