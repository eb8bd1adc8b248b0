------------------------------- MODULE PagePool -------------------------------
(***************************************************************************)
(* What the page allocator promises: a run of free pages is taken at once, *)
(* and each page of a run that was given up becomes free again.            *)
(***************************************************************************)
EXTENDS Naturals

CONSTANTS
  Frames,   \* the page numbers
  Counts    \* the sizes of the runs that are asked for

VARIABLES
  free,     \* page numbers
  taken     \* runs <<first page, number of pages>>

PagesOf(r) == r[1]..r[1] + r[2] - 1

Init == free = Frames /\ taken = {}

Take(r) ==
  /\ PagesOf(r) \subseteq free
  /\ taken' = taken \cup {r}
  /\ free' = free \ PagesOf(r)

GiveUp(r) == r \in taken /\ taken' = taken \ {r} /\ UNCHANGED free

Release(p) ==
  /\ p \in Frames \ (free \cup UNION {PagesOf(r) : r \in taken})
  /\ free' = free \cup {p}
  /\ UNCHANGED taken

Next ==
  \/ \E r \in Frames \X Counts : Take(r)
  \/ \E r \in taken : GiveUp(r)
  \/ \E p \in Frames : Release(p)

Spec == Init /\ [][Next]_<<free, taken>>
==============================================================================
