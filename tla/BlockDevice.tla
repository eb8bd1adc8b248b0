----------------------------- MODULE BlockDevice -----------------------------
(***************************************************************************)
(* What the drivers of the card promise their callers: a successful read   *)
(* returns what is in the blocks asked for, a successful write has stored   *)
(* all its blocks, one that fails has stored some of them or none, or may   *)
(* store them until another call succeeds, and nothing else on the card    *)
(* changes.                                                                *)
(***************************************************************************)
EXTENDS Naturals, Sequences

CONSTANTS Callers, Requests, Idle

VARIABLES disk,      \* what is in every block
          call,      \* the request that a caller waits for, or Idle
          result,    \* how its last call ended
          buffer,    \* what the caller got
          late       \* failed writes whose blocks may still be stored

vars == <<disk, call, result, buffer, late>>

Amount(r) == IF r.num < 1 THEN 1 ELSE r.num      \* a read has one block at least
Content(b, version) == <<b, version>>

Init == result = [c \in Callers |-> "none"] /\ late = {}

Call(c) ==
  /\ call[c] = Idle
  /\ \E r \in Requests : call' = [call EXCEPT ![c] = r]
  /\ result' = [d \in Callers |-> "none"]
  /\ \A d \in Callers \ {c} : call[d] # Idle => buffer'[d] = buffer[d]
  /\ UNCHANGED <<disk, late>>

\* A call that is under way fills the buffer of its caller ...
Fetch(c) ==
  /\ call[c].kind = "read"
  /\ \A d \in Callers \ {c} : buffer'[d] = buffer[d]
  /\ UNCHANGED <<disk, call, result, late>>

\* ... or stores one of its blocks; so does one that has failed.
UnderWay == {call[c] : c \in Callers} \cup late
Store ==
  /\ \E r \in UnderWay : \E b \in r.lba .. r.lba + r.num - 1 :
        r.kind = "write" /\ disk' = [disk EXCEPT ![b] = Content(b, r.version)]
  /\ UNCHANGED <<call, result, buffer, late>>

Fetched(c) == buffer[c] = [k \in 1..Amount(call[c]) |-> disk[call[c].lba + k - 1]]
Stored(c) == \A b \in call[c].lba .. call[c].lba + call[c].num - 1 :
                disk[b] = Content(b, call[c].version)

Return(c) ==
  /\ call[c] # Idle /\ call' = [call EXCEPT ![c] = Idle]
  /\ \E res \in {"ok", "failed"} :
        /\ result' = [result EXCEPT ![c] = res]
        /\ res = "ok" /\ call[c].kind = "read" => Fetched(c)
        /\ res = "ok" /\ call[c].kind = "write" => Stored(c)
        /\ late' = IF res = "ok" THEN {}
                   ELSE late \cup {r \in Requests : r = call[c] /\ r.kind = "write" /\ r.num > 0}
  /\ UNCHANGED <<disk, buffer>>

Next == Store \/ \E c \in Callers : Call(c) \/ Fetch(c) \/ Return(c)

Spec == Init /\ [][Next]_vars
=============================================================================
