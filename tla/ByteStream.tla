----------------------------- MODULE ByteStream -----------------------------
(***************************************************************************)
(* What a stream promises a program: it reads and writes the bytes of a    *)
(* file at a position that moves along; closing saves the bytes and then   *)
(* makes the file end at the position.  If the power fails, what was not   *)
(* saved is lost.                                                          *)
(***************************************************************************)
EXTENDS Naturals

CONSTANTS Length,    \* how long the file can become
          Records    \* <<size, nobj>> that are transferred at a time

VARIABLES bytes, size, open, pos,
          saved,       \* the bytes on the card
          got, ret     \* the array of the program, and how much it was told

vars == <<bytes, saved, size, open, pos, got, ret>>

Places == 0..Length - 1
Amount(r) == r[1] * r[2]

Init == bytes = saved /\ ~open /\ pos = 0 /\ ret = 0

Open == ~open /\ open' /\ pos' = 0 /\ UNCHANGED <<bytes, saved, size, got, ret>>

Read(r) ==
  /\ open /\ pos < size
  /\ pos' = pos + Amount(r) /\ ret' = r[2]
  /\ \A k \in DOMAIN got : got'[k] = IF k <= Amount(r) THEN bytes[pos + k - 1] ELSE got[k]
  /\ UNCHANGED <<bytes, saved, size, open>>

ReadAtEnd ==
  /\ open /\ pos = size
  /\ ret' = 0
  /\ UNCHANGED <<bytes, saved, size, open, pos, got>>

Write(r, data) ==
  /\ open
  /\ pos' = pos + Amount(r) /\ ret' = r[2]
  /\ bytes' = [p \in Places |-> IF p \in pos..pos' - 1 THEN data[p - pos + 1] ELSE bytes[p]]
  /\ UNCHANGED <<saved, size, open, got>>

Seek(p) == open /\ pos' = p /\ ret' = 0 /\ UNCHANGED <<bytes, saved, size, open, got>>

Save == open /\ saved' = bytes /\ UNCHANGED <<bytes, size, open, pos, got, ret>>

Close ==
  /\ open /\ saved = bytes
  /\ ~open' /\ size' = pos /\ ret' = 0
  /\ UNCHANGED <<bytes, saved, pos, got>>

PowerFails ==
  /\ ~open' /\ bytes' = saved
  /\ UNCHANGED <<saved, size>>

Next(Data(_)) ==
  \/ Open \/ ReadAtEnd \/ Save \/ Close \/ PowerFails
  \/ \E r \in Records : Read(r) \/ Write(r, Data(r))
  \/ \E p \in 0..Length : Seek(p)
=============================================================================
