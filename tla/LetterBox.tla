------------------------------ MODULE LetterBox ------------------------------
(***************************************************************************)
(* What a mailbox promises: a bounded first-in first-out queue.  Mailbox   *)
(* shows when ipc.c keeps the promise; Sched has the code's mailbox.       *)
(***************************************************************************)
EXTENDS Naturals, Sequences

CONSTANTS Letters, Size

VARIABLE queue

Init == queue = <<>>

Put(x) == Len(queue) < Size /\ queue' = Append(queue, x)

Take == queue # <<>> /\ queue' = Tail(queue)

Next == Take \/ \E x \in Letters : Put(x)

Spec == Init /\ [][Next]_queue
=============================================================================
