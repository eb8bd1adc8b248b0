---------------------------- MODULE MCFileStream ----------------------------
(***************************************************************************)
(* Records as in testcode/rw_file, two at a time and aligned to the buffer; *)
(* files of two clusters on a card with three.                             *)
(***************************************************************************)
EXTENDS FileStream

MCRecords == {<<1, 2>>, <<2, 1>>}
MCChains == {<<2, 4>>, <<3, 2>>}
=============================================================================
