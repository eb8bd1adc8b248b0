-------------------------- MODULE ComponentRegistry --------------------------
(***************************************************************************)
(* What the component manager promises its users: a name is answered by at *)
(* most one file; only the file that registers a name is inserted under it; *)
(* it is replaced only by one made for swapping (it registers no name) that *)
(* offers the same; and each of this takes effect at once.                 *)
(***************************************************************************)
CONSTANTS Names, Files, Nothing, Null,
          NameOf,     \* the name a file registers, or Null
          Offers      \* how many operations it has, and the name of the first

VARIABLE serves     \* serves[n]: the file whose code answers to n

Init == serves = [n \in Names |-> Nothing]

Insert(n, f) ==
  /\ serves[n] = Nothing /\ NameOf[f] = n
  /\ serves' = [serves EXCEPT ![n] = f]

Remove(n) ==
  /\ serves[n] # Nothing
  /\ serves' = [serves EXCEPT ![n] = Nothing]

Swap(n, f) ==
  /\ serves[n] # Nothing
  /\ NameOf[f] = Null /\ Offers[f] = Offers[serves[n]]
  /\ serves' = [serves EXCEPT ![n] = f]

Next == \E n \in Names : Remove(n) \/ \E f \in Files : Insert(n, f) \/ Swap(n, f)

Spec == Init /\ [][Next]_serves
==============================================================================
