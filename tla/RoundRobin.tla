------------------------------ MODULE RoundRobin ------------------------------
(***************************************************************************)
(* What the scheduler of sched.c promises: the CPU goes round one cyclic   *)
(* list, the resident tasks first (servers, then extra servers), then the  *)
(* applications and threads, newest first; tasks that are not ready are    *)
(* passed over.  One owner at a time acts on the list.                     *)
(***************************************************************************)
EXTENDS Sequences, Naturals

CONSTANTS
  Apps,       \* pages of applications and threads
  Resident,   \* the sequence of tasks that are never removed
  Manager,    \* the resident task that removes others
  Boot        \* the owner before the first grant, outside the list

VARIABLES round, ready, owner

vars == <<round, ready, owner>>

Listed == {round[i] : i \in 1..Len(round)}

Init ==
  /\ round = Resident
  /\ ready = {Resident[i] : i \in 1..Len(Resident)}
  /\ owner = Boot

\* k places after the owner.
Place == IF owner = Boot THEN 0 ELSE CHOOSE j \in 1..Len(round) : round[j] = owner
After(k) == round[IF Place + k > Len(round) THEN Place + k - Len(round) ELSE Place + k]

\* The next ready task of the round gets the CPU.
Grant ==
  \E k \in 1..Len(round) :
    /\ owner' = After(k)
    /\ After(k) \in ready
    /\ \A j \in 1..k - 1 : After(j) \notin ready
    /\ UNCHANGED <<round, ready>>

\* The owner creates a task, ahead of the older ones.
Create(p) ==
  /\ p \notin Listed
  /\ round' = SubSeq(round, 1, Len(Resident)) \o <<p>>
              \o SubSeq(round, Len(Resident) + 1, Len(round))
  /\ ready' = ready \cup {p}
  /\ UNCHANGED owner

\* An owner that exits, or becomes a zombie, keeps the CPU till the next grant.
Stop ==
  /\ owner \in Apps
  /\ ready' = ready \ {owner}
  /\ UNCHANGED <<round, owner>>

Remove(p) ==
  /\ owner = Manager
  /\ \E i \in 1..Len(round) :
       round[i] = p /\ round' = SubSeq(round, 1, i - 1) \o SubSeq(round, i + 1, Len(round))
  /\ ready' = ready \ {p}
  /\ UNCHANGED owner

Next == Grant \/ Stop \/ \E p \in Apps : Create(p) \/ Remove(p)

Spec == Init /\ [][Next]_vars

=============================================================================
