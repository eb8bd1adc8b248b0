--------------------------- MODULE SchedRoundRobin ---------------------------
(***************************************************************************)
(* The scheduler's cursors, lists and lazy switching implement the cyclic  *)
(* list of RoundRobin.                                                     *)
(***************************************************************************)
EXTENDS Sched

RR == INSTANCE RoundRobin WITH
        Apps <- Slots,
        Resident <- <<"pm_daemon", "compt_daemon", "fs_daemon", "shell">>,
        Manager <- "pm_daemon",
        Boot <- "init_task_0",
        round <- Path(0) \o Path(1) \o Path(2),
        ready <- {t \in Fixed \cup live : is_running(t)},
        owner <- current

\* Every step of the scheduler, of creation, exit, join and reaping is a step of
\* the cyclic list or leaves it alone: however _schedule is entered and whatever
\* its cursors show, the CPU goes to the next runnable task of the round.  (Until
\* a send_msg is torn: pm_daemon may then unlink a task that has not exited.)
CyclicOrder == RR!Init /\ [][torn' \/ RR!Next]_(RR!vars)
=============================================================================
