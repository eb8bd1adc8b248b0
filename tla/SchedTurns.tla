------------------------------ MODULE SchedTurns ------------------------------
(***************************************************************************)
(* Bounded waiting: the scheduler with a history of who got the CPU while  *)
(* a ready application or thread waited for it.                            *)
(***************************************************************************)
EXTENDS SchedRoundRobin

VARIABLE turns    \* turns[t]: the slots that had the CPU since t last had it

Waits(t) == t \in live /\ is_running(t) /\ t # current

\* Who was reaped while t waited may come back as another task in the same page.
Watched ==
  turns' = [t \in Slots |->
              IF ~Waits(t)' THEN {}
              ELSE (turns[t] \cup ({current'} \ {current})) \cap live']

TurnsSpec == Init /\ turns = [t \in Slots |-> {}] /\ [][Next /\ Watched]_<<vars, turns>>

FairTurnsSpec == TurnsSpec /\ Fairness

-----------------------------------------------------------------------------
\* Nobody gets a second turn while a ready application or thread waits for its
\* first: the round is the longest wait.  This is why the cursors keep their
\* places while other levels run and why a new task goes to the head of its list.
\* (Until a send_msg is torn, as in CyclicOrder.)
OneTurnEach ==
  [][torn' \/ \A t \in Slots :
       Waits(t) /\ current' # current => current' \notin turns[t]]_<<vars, turns>>
=============================================================================
