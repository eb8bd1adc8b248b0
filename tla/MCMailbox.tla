------------------------------ MODULE MCMailbox ------------------------------
(* Mailbox for TLC: clients are interchangeable. *)
EXTENDS Mailbox, TLC

ClientSymmetry == Permutations(Clients)
==============================================================================
