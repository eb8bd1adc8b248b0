------------------------------ MODULE MCSDCard ------------------------------
(***************************************************************************)
(* A card of four blocks: large ones with SET_BLOCK_COUNT and without it   *)
(* (READ_MULTI and STOP_TRANS), small ones of both versions, and one that  *)
(* does not have the voltage.                                              *)
(***************************************************************************)
EXTENDS SDCard

Large == [v2 |-> TRUE, hc |-> TRUE, volts |-> TRUE, width |-> 4, support |-> "count"]
Small == [Large EXCEPT !.hc = FALSE, !.support = "none", !.width = 5]
MCKinds == {Large, Small, [Large EXCEPT !.support = "none"],
           [Small EXCEPT !.v2 = FALSE], [Large EXCEPT !.volts = FALSE]}
LargeOnly == {Large}

Request(kd, lba, num) == [kind |-> kd, lba |-> lba, num |-> num, version |-> IF kd = "write" THEN 1 ELSE 0]
MCReads == {Request("read", 1, 0), Request("read", 0, 2)}
MCWrites == {Request("write", 2, 1), Request("write", 1, 2), Request("write", 2, 0)}
OneRead == {Request("read", 0, 1), Request("read", 1, 1)}

ASSUME RequestAssumption == Careless = {} => Supported
=============================================================================
