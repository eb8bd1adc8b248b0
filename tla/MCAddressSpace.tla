--------------------------- MODULE MCAddressSpace ---------------------------
(***************************************************************************)
(* Address 0, and an address that needs a last table of its own.           *)
(***************************************************************************)
EXTENDS AddressSpace, TLC

MCPages == 1..13
MCAddresses == {[l \in 1..Levels |-> 0],
                [l \in 1..Levels |-> IF l = Levels - 1 THEN 1 ELSE 0]}
Symmetric == Permutations(Tasks)
=============================================================================
