----------------------------- MODULE MCFolders -----------------------------
(***************************************************************************)
(* Four partitions, the second of a type nobody knows and the fourth empty  *)
(* but for its label.  Folders A and B of the first hold a file and a folder *)
(* of the same names; a file without a cluster hides one behind it.        *)
(***************************************************************************)
EXTENDS Folders, TLC

Folder(n, d) == [name |-> n, kind |-> "folder", clu |-> d]
File(n, c) == [name |-> n, kind |-> "file", clu |-> c]
Label(n) == [name |-> n, kind |-> "label", clu |-> 0]
Deleted(n) == [name |-> n, kind |-> "skipped", clu |-> 9]

MCDisk == 11 :> <<Label("BOOT"), Deleted("F"), Folder("LONGNAME", 12), File("F", 21), Folder("B", 13)>>
  @@ 12 :> <<Deleted("."), File("F", 22), File("G", 0), File("G", 23), Folder("B", 14), File("NAMELONG", 27)>>
  @@ 13 :> <<File("F", 24)>>
  @@ 14 :> <<File("F", 25)>>
  @@ 15 :> <<Label("DATA"), File("G", 26), Folder("B", 16)>>
  @@ 16 :> <<>>
  @@ 17 :> <<Label("LAST")>>
MCVolumes == <<11, 0, 15, 17>>

ASSUME CardAssumption == Labelled /\ Distinct
=============================================================================
