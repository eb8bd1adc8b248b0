-------------------------------- MODULE Sched --------------------------------
(***************************************************************************)
(* The process scheduler of the E.file_system kernel: the three run queues *)
(* of sched.c with their cursors, the timer tick, the lazy context switch, *)
(* process and thread creation (fork.c, thread_create.c), exit and join,   *)
(* and the process-manager daemon that unlinks and frees what has exited.  *)
(*                                                                         *)
(* A pcb is named by its page.  The daemons, the shell and the list heads  *)
(* init_task_0..2 are never freed; every other pcb lives in a page of      *)
(* Slots that is handed out again after it was freed, contents zeroed only *)
(* then.  There is one CPU: phase says where in _schedule it is ("run" when *)
(* current executes its own code), and a tick may fire in every phase, and *)
(* between any two statements of the send_msg that ends a task.            *)
(***************************************************************************)
EXTENDS Integers, Sequences, FiniteSets

CONSTANTS
  Slots,        \* pages that hold the pcbs of applications and threads
  ExtraSlice,   \* ticks an extra server is given (10 in the code)
  AppSlice,     \* ticks round_robin gives an application (1 in the code)
  MailSize,     \* slots of the process manager's mailbox (64 in the code)
  MaxThreads,   \* bound: live threads a process holds besides its main one
  MaxFail,      \* bound: creations that found no memory, of the existing tasks
  CounterDebt,  \* bound: ticks below zero that a counter is followed
  JoinFirst,    \* TRUE: main threads join all their threads before exiting
  FollowTorn    \* bound: FALSE: runs end where a send_msg is torn

Heads == {"init_task_0", "init_task_1", "init_task_2"}
Servers == {"pm_daemon", "compt_daemon", "fs_daemon"}
Fixed == Servers \cup {"shell"}
Pcb == Heads \cup Fixed \cup Slots
Null == "NULL"
Levels == 0..2          \* SERVER_THREAD, EXTRA_SERVER_THREAD, APP_THREAD

ASSUME SlotsAssumption == Slots \cap (Heads \cup Fixed \cup {Null}) = {}
ASSUME BoundsAssumption ==
  /\ ExtraSlice \in Nat /\ AppSlice \in Nat /\ MailSize \in Nat \ {0}
  /\ MaxThreads \in Nat /\ MaxFail \in Nat
  /\ CounterDebt \in Nat
  /\ JoinFirst \in BOOLEAN /\ FollowTorn \in BOOLEAN

VARIABLES
  nextp, prevp,                 \* the doubly linked run queues
  state, counter, preempt_count,
  main_thread, thread_p, thread_n,  \* the thread chain of a process
  live,                         \* slots whose page is allocated
  task_prio_table,              \* the cursor of each level
  service_index,                \* the level being served
  current, prev,
  phase, tmp_task,              \* progress of _schedule and round_robin
  ctx,                          \* what a pcb's cpu_context holds
  pm_mail,                      \* letter_type # 0 and from of every slot
  pm_index_push, index_pop,
  reg,                          \* the index a sender loaded for pm_index_push++
  pm_tmp, pm_mode,              \* pm_daemon's tmp_pcb and branch
  pc, joining,                  \* what each task's own code is doing
  kids,                         \* threads a task created and has not joined
  leaks,                        \* failed creations of a task so far
  torn                          \* history: a send_msg came across another, or
                                \* the daemon across a half-written letter

links == <<nextp, prevp>>
chain == <<main_thread, thread_p, thread_n, kids>>
account == <<counter, preempt_count>>
scanning == <<task_prio_table, service_index, tmp_task>>
cpu == <<current, prev, ctx>>
mailbox == <<pm_mail, pm_index_push, reg>>
daemon == <<index_pop, pm_tmp, pm_mode>>
manager == <<pm_mail, pm_index_push, reg, index_pop, pm_tmp, pm_mode, torn>>
program == <<pc, joining>>
vars == <<links, chain, account, scanning, cpu, manager, program,
          state, live, phase, leaks>>

head == [l \in Levels |-> IF l = 0 THEN "init_task_0"
                          ELSE IF l = 1 THEN "init_task_1" ELSE "init_task_2"]

Level(t) == IF t \in Servers \cup {"init_task_0"} THEN 0
            ELSE IF t \in {"shell", "init_task_1"} THEN 1 ELSE 2

\* The three heads share one counter and one preempt_count.
Cell(t) == IF t \in Heads THEN "init_task_0" ELSE t

is_running(t) == state[t] \in {"RUNNING", "JOINABLE", "DETACHED"}

Cursor == task_prio_table[service_index]

-----------------------------------------------------------------------------
(* kernel_main created the daemons and the shell and is about to call      *)
(* schedule() as init_task_0.                                              *)

Init ==
  /\ nextp = [t \in Pcb |-> IF t = "init_task_0" THEN "pm_daemon"
                            ELSE IF t = "pm_daemon" THEN "compt_daemon"
                            ELSE IF t = "compt_daemon" THEN "fs_daemon"
                            ELSE IF t = "init_task_1" THEN "shell" ELSE Null]
  /\ prevp = [t \in Pcb |-> IF t = "pm_daemon" THEN "init_task_0"
                            ELSE IF t = "compt_daemon" THEN "pm_daemon"
                            ELSE IF t = "fs_daemon" THEN "compt_daemon"
                            ELSE IF t = "shell" THEN "init_task_1" ELSE Null]
  /\ state = [t \in Pcb |-> "RUNNING"]
  /\ counter = [t \in Pcb |-> 0]
  /\ preempt_count = [t \in Pcb |-> IF t \in Heads THEN 0 ELSE 1]
  /\ main_thread = [t \in Pcb |-> t]
  /\ thread_p = [t \in Pcb |-> Null] /\ thread_n = [t \in Pcb |-> Null]
  /\ kids = [t \in Pcb |-> {}]
  /\ live = {}
  /\ task_prio_table = head
  /\ service_index = 0
  /\ current = "init_task_0" /\ prev = Null
  /\ phase = "run" /\ tmp_task = "init_task_2"
  /\ ctx = [t \in Pcb |-> "own"]
  /\ pm_mail = [i \in 0..MailSize - 1 |-> [letter_type |-> FALSE, from |-> Null]]
  /\ pm_index_push = 0 /\ index_pop = 0 /\ reg = [t \in Slots |-> 0]
  /\ pm_tmp = Null /\ pm_mode = "idle" /\ torn = FALSE
  /\ pc = [t \in Pcb |-> "user"]
  /\ joining = [t \in Pcb |-> Null]
  /\ leaks = [t \in Pcb |-> 0]

-----------------------------------------------------------------------------
(* Entering the scheduler: voluntarily, or from the timer.                 *)

EnterSchedule ==
  /\ phase' = "scan"
  /\ preempt_count' = [preempt_count EXCEPT ![Cell(current)] = @ + 1]

\* schedule(): give up the rest of the slice.
schedule ==
  /\ counter' = [counter EXCEPT ![Cell(current)] = 0]
  /\ EnterSchedule

Running(t) == phase = "run" /\ current = t

\* A task calls schedule() in its own code, or waits for mm_lock in the middle
\* of a creation.  pm_daemon does so only once it has drained its mailbox.
Yield(t) ==
  /\ Running(t)
  /\ pc[t] \in {"user", "fork", "thread"}
  /\ t = "pm_daemon" => pm_mode = "idle" /\ ~pm_mail[index_pop].letter_type
  /\ schedule
  /\ UNCHANGED <<links, chain, scanning, cpu, manager, program, state, live,
                 leaks>>

Preemptible_Always == TRUE

\* Servers are not preempted.
Preemptible == service_index # 0

timer_tick ==
  LET c    == Cell(current)
      left == IF counter[c] > -CounterDebt THEN counter[c] - 1 ELSE counter[c]
  IN /\ Preemptible
     /\ \/ /\ left > 0 \/ preempt_count[c] > 0
           /\ counter' = [counter EXCEPT ![c] = left]
           /\ UNCHANGED <<phase, preempt_count>>
        \/ /\ left <= 0 /\ preempt_count[c] <= 0
           /\ counter' = [counter EXCEPT ![c] = 0]
           /\ EnterSchedule
     /\ UNCHANGED <<links, chain, scanning, cpu, manager, program, state,
                    live, leaks>>

-----------------------------------------------------------------------------
(* The loop of _schedule, one list element at a time.                      *)

MoveCursor(t) == task_prio_table' = [task_prio_table EXCEPT ![service_index] = t]

GoToLevel_KeepCursor(l) ==
  service_index' = l /\ phase' = "scan" /\ UNCHANGED task_prio_table

GoToLevel_PastLast(l) ==
  MoveCursor(head[service_index]) /\ service_index' = service_index + 1
  /\ phase' = "scan"

\* End of a level: the cursor returns to the head and level l is served next.
GoToLevel(l) ==
  /\ MoveCursor(head[service_index])
  /\ service_index' = l
  /\ phase' = "scan"

\* One iteration for a server or extra-server level that l follows.
Advance(l) ==
  LET n == nextp[Cursor]
  IN \/ n = Null /\ GoToLevel(l)
     \/ /\ n # Null
        /\ MoveCursor(n)
        /\ phase' = IF is_running(n) THEN "switch" ELSE "scan"
        /\ UNCHANGED service_index

ScanServer ==
  /\ phase = "scan" /\ service_index = 0
  /\ Advance(1)
  /\ UNCHANGED <<links, chain, account, tmp_task, cpu, manager, program,
                 state, live, leaks>>

ScanExtra ==
  /\ phase = "scan" /\ service_index = 1
  /\ counter' = [counter EXCEPT ![Cell(Cursor)] = ExtraSlice]
  /\ Advance(2)
  /\ UNCHANGED <<links, chain, preempt_count, tmp_task, cpu, manager, program,
                 state, live, leaks>>

RoundRobinFrom_Head == head[2]
RoundRobinFrom_Next == IF nextp[Cursor] = Null THEN Cursor ELSE nextp[Cursor]
RoundRobinFrom == Cursor

\* round_robin is called with the cursor of the application level ...
CallRoundRobin ==
  /\ phase = "scan" /\ service_index = 2
  /\ counter' = [counter EXCEPT ![Cell(Cursor)] = AppSlice]
  /\ tmp_task' = RoundRobinFrom
  /\ phase' = "rr"
  /\ UNCHANGED <<links, chain, preempt_count, task_prio_table, service_index,
                 cpu, manager, program, state, live, leaks>>

\* ... and looks for the next runnable one, or NULL at the end of the list.
RoundRobinStep ==
  LET n == nextp[tmp_task]
  IN /\ phase = "rr"
     /\ \/ n = Null /\ GoToLevel(0) /\ UNCHANGED tmp_task
        \/ /\ n # Null /\ is_running(n)
           /\ MoveCursor(n)
           /\ phase' = "switch"
           /\ UNCHANGED <<service_index, tmp_task>>
        \/ /\ n # Null /\ ~is_running(n)
           /\ tmp_task' = n
           /\ UNCHANGED <<task_prio_table, service_index, phase>>
     /\ UNCHANGED <<links, chain, account, cpu, manager, program, state, live,
                    leaks>>

-----------------------------------------------------------------------------
(* switch_to.  The registers of a task that loses the CPU stay in the page *)
(* prev_real and reach its pcb only at the following switch: its ctx is    *)
(* "behind" until then.  Written into a page that was given to a new task  *)
(* in between, they would be "foreign".                                    *)

WriteBack_Lost == [ctx EXCEPT ![current] = "behind"]

WriteBack ==
  [t \in Pcb |-> IF t = current THEN "behind"
                 ELSE IF t = prev THEN IF ctx[t] = "behind" THEN "own" ELSE "foreign"
                 ELSE ctx[t]]

SameTask_SameLevel == Level(current) = Level(Cursor)
SameTask == current = Cursor

switch_to ==
  /\ phase = "switch"
  /\ phase' = "resume"
  /\ \/ SameTask /\ UNCHANGED cpu
     \/ /\ ~SameTask
        /\ ctx' = WriteBack
        /\ prev' = current
        /\ current' = Cursor
  /\ UNCHANGED <<links, chain, account, scanning, manager, program, state,
                 live, leaks>>

Enable_Twice(c) == preempt_count' = [preempt_count EXCEPT ![c] = @ - 2]
Enable(c) == preempt_count' = [preempt_count EXCEPT ![c] = @ - 1]

\* The preempt_enable that ends _schedule, or schedule_tail of a new task.
Resume ==
  /\ phase = "resume"
  /\ phase' = "run"
  /\ Enable(Cell(current))
  /\ UNCHANGED <<links, chain, counter, scanning, cpu, manager, program,
                 state, live, leaks>>

-----------------------------------------------------------------------------
(* Creation.  Preemption is off from StartCopy to the end.                 *)

MayCreateThread(t) ==
  /\ t \in Slots /\ main_thread[t] = t
  /\ Cardinality({u \in live \ {t} : main_thread[u] = t}) < MaxThreads

MayFail == Cardinality({f \in Pcb \X (1..MaxFail) : f[2] <= leaks[f[1]]}) < MaxFail

StartCopy(t, what) ==
  /\ Running(t) /\ pc[t] = "user" /\ t \in Slots \cup {"shell"}
  /\ what = "thread" => MayCreateThread(t)
  /\ live # Slots \/ MayFail
  /\ preempt_count' = [preempt_count EXCEPT ![t] = @ + 1]
  /\ pc' = [pc EXCEPT ![t] = what]
  /\ UNCHANGED <<links, chain, counter, scanning, cpu, manager, joining,
                 state, live, phase, leaks>>

InsertBehind(h, p) ==
  /\ nextp' = [nextp EXCEPT ![p] = nextp[h], ![h] = p]
  /\ prevp' = [u \in Pcb |-> IF u = p THEN h
                             ELSE IF u = nextp[h] THEN p ELSE prevp[u]]

InsertAfterHead_Extra(p) == InsertBehind(head[1], p)

\* The new pcb goes right behind the head of the application list.
InsertAfterHead(p) == InsertBehind(head[2], p)

\* What both creators set in the zeroed pages.
NewPcb(t, p, st, slice) ==
  /\ Running(t)
  /\ p \in Slots \ live
  /\ live' = live \cup {p}
  /\ InsertAfterHead(p)
  /\ state' = [state EXCEPT ![p] = st]
  /\ counter' = [counter EXCEPT ![p] = slice]
  /\ preempt_count' = [preempt_count EXCEPT ![t] = @ - 1, ![p] = 1]
  /\ ctx' = [ctx EXCEPT ![p] = "own"]
  /\ pc' = [pc EXCEPT ![t] = "user", ![p] = "user"]
  /\ joining' = [joining EXCEPT ![p] = Null]
  /\ leaks' = [leaks EXCEPT ![p] = 0]
  /\ UNCHANGED <<scanning, current, prev, manager, phase>>

copy_process(t, p) ==
  /\ pc[t] = "fork"
  /\ NewPcb(t, p, "RUNNING", AppSlice)
  /\ main_thread' = [main_thread EXCEPT ![p] = p]
  /\ thread_p' = [thread_p EXCEPT ![p] = Null]
  /\ thread_n' = [thread_n EXCEPT ![p] = Null]
  /\ kids' = [kids EXCEPT ![p] = {}]

\* The last thread of t's chain, followed through thread_n.
LastThread(t) ==
  LET after(u) == IF thread_n[u] = Null THEN u ELSE thread_n[u]
      walk[k \in 0..Cardinality(Slots)] == IF k = 0 THEN t ELSE after(walk[k - 1])
  IN walk[Cardinality(Slots)]

thread_create(t, p) ==
  /\ pc[t] = "thread"
  /\ NewPcb(t, p, "JOINABLE", 2)
  /\ main_thread' = [main_thread EXCEPT ![p] = t]
  /\ \E u \in Slots :
       /\ u = LastThread(t)
       /\ thread_p' = [thread_p EXCEPT ![p] = u]
       /\ thread_n' = [thread_n EXCEPT ![u] = p, ![p] = Null]
  /\ kids' = [kids EXCEPT ![t] = @ \cup {p}, ![p] = {}]

\* get_free_page found nothing: return -1, with preemption still disabled.
CopyFails(t) ==
  /\ Running(t) /\ pc[t] \in {"fork", "thread"}
  /\ live = Slots /\ MayFail
  /\ pc' = [pc EXCEPT ![t] = "user"]
  /\ leaks' = [leaks EXCEPT ![t] = @ + 1]
  /\ UNCHANGED <<links, chain, account, scanning, cpu, manager, joining,
                 state, live, phase>>

-----------------------------------------------------------------------------
(* _thread_exit: send_msg the letter, statement by statement, and again if  *)
(* the mailbox is full; then become EXITED and leave the CPU for good.  The *)
(* timer may fire in between.  Every statement of send_msg reads            *)
(* pm_index_push again; the increment is a load and a store.  A sender that *)
(* finds the index behind the array (before the wrap of another) is not     *)
(* followed: what lies there depends on the link order.                     *)

Exiting(t) ==
  /\ Running(t) /\ t \in Slots
  /\ \/ pc[t] = "exit"
     \/ pc[t] = "user" /\ (JoinFirst => kids[t] = {})

InArray == pm_index_push < MailSize

MailboxFull_Ignored(t) ==
  /\ Exiting(t)
  /\ InArray /\ pm_mail[pm_index_push].letter_type
  /\ pc' = [pc EXCEPT ![t] = "posted"]
  /\ schedule
  /\ UNCHANGED <<links, chain, scanning, cpu, manager, joining, state, live,
                 leaks>>

MailboxFull(t) ==
  /\ Exiting(t)
  /\ InArray /\ pm_mail[pm_index_push].letter_type
  /\ pc' = [pc EXCEPT ![t] = "exit"]
  /\ schedule
  /\ UNCHANGED <<links, chain, scanning, cpu, manager, joining, state, live,
                 leaks>>

\* A statement of t that only the mailbox notices.
Sends(t, there) ==
  /\ Running(t) /\ t \in Slots
  /\ pc' = [pc EXCEPT ![t] = there]
  /\ UNCHANGED <<links, chain, account, scanning, cpu, daemon, joining, state,
                 live, phase, leaks>>

SlotFree(t) ==
  /\ Exiting(t)
  /\ InArray /\ ~pm_mail[pm_index_push].letter_type
  /\ Sends(t, "type")
  /\ torn' = (torn \/ \E u \in live \ {t} : pc[u] = "type")
  /\ UNCHANGED mailbox

BehindArray(t) ==
  /\ ~InArray
  /\ Exiting(t) \/ pc[t] \in {"type", "from", "load"}
  /\ Sends(t, "stuck")
  /\ torn' = TRUE
  /\ UNCHANGED mailbox

SetType(t) ==
  /\ pc[t] = "type" /\ InArray
  /\ pm_mail' = [pm_mail EXCEPT ![pm_index_push].letter_type = TRUE]
  /\ Sends(t, "from")
  /\ UNCHANGED <<pm_index_push, reg, torn>>

SetFrom(t) ==
  /\ pc[t] = "from" /\ InArray
  /\ pm_mail' = [pm_mail EXCEPT ![pm_index_push].from = t]
  /\ Sends(t, "load")
  /\ UNCHANGED <<pm_index_push, reg, torn>>

LoadPush(t) ==
  /\ pc[t] = "load" /\ InArray
  /\ reg' = [reg EXCEPT ![t] = pm_index_push]
  /\ Sends(t, "store")
  /\ UNCHANGED <<pm_mail, pm_index_push, torn>>

StorePush(t) ==
  /\ pc[t] = "store"
  /\ pm_index_push' = reg[t] + 1
  /\ reg' = [reg EXCEPT ![t] = 0]
  /\ Sends(t, "wrap")
  /\ UNCHANGED <<pm_mail, torn>>

Wrap(t) ==
  /\ pc[t] = "wrap"
  /\ pm_index_push' = IF pm_index_push = MailSize THEN 0 ELSE pm_index_push
  /\ Sends(t, "posted")
  /\ UNCHANGED <<pm_mail, reg, torn>>

send_msg(t) == SlotFree(t) \/ BehindArray(t) \/ SetType(t) \/ SetFrom(t)
               \/ LoadPush(t) \/ StorePush(t) \/ Wrap(t)

FinishExit(t) ==
  /\ Running(t) /\ pc[t] = "posted"
  /\ state' = [state EXCEPT ![t] = "EXITED"]
  /\ pc' = [pc EXCEPT ![t] = "gone"]
  /\ schedule
  /\ UNCHANGED <<links, chain, scanning, cpu, manager, joining, live, leaks>>

-----------------------------------------------------------------------------
(* _thread_join by the creator.  A tid maps to the same page for ever, so  *)
(* the page may by now be free, or hold another task.                      *)

StartJoin(t, u) ==
  /\ Running(t) /\ pc[t] = "user" /\ u \in kids[t]
  /\ pc' = [pc EXCEPT ![t] = "join"]
  /\ joining' = [joining EXCEPT ![t] = u]
  /\ kids' = [kids EXCEPT ![t] = @ \ {u}]
  /\ UNCHANGED <<links, main_thread, thread_p, thread_n, account, scanning,
                 cpu, manager, state, live, phase, leaks>>

\* An id that names no thread: error() makes the caller a zombie that spins.
JoinNoThread(t) ==
  /\ Running(t) /\ pc[t] = "user" /\ t \in Slots
  /\ state' = [state EXCEPT ![t] = "ZOMBIE"]
  /\ pc' = [pc EXCEPT ![t] = "stuck"]
  /\ UNCHANGED <<links, chain, account, scanning, cpu, manager, joining,
                 live, phase, leaks>>

JoinWait(t) ==
  /\ Running(t) /\ pc[t] = "join" /\ state[joining[t]] = "JOINABLE"
  /\ schedule
  /\ UNCHANGED <<links, chain, scanning, cpu, manager, program, state, live,
                 leaks>>

\* EXITED: return.  Anything else: the default branch traps into the invalid-
\* exception handler, which ends the caller with _thread_exit.
JoinEnds(t) ==
  /\ Running(t) /\ pc[t] = "join" /\ state[joining[t]] # "JOINABLE"
  /\ pc' = [pc EXCEPT ![t] = IF state[joining[t]] = "EXITED" THEN "user" ELSE "exit"]
  /\ joining' = [joining EXCEPT ![t] = Null]
  /\ UNCHANGED <<links, chain, account, scanning, cpu, manager, state, live,
                 phase, leaks>>

-----------------------------------------------------------------------------
(* pm_daemon, one reaped pcb at a time.                                    *)

Half(i) == \E t \in Slots : pc[t] \in {"from", "load", "store"} /\ pm_index_push = i

\* A letter without a sender is not followed: what the daemon would find at
\* address 0 is not the kernel's.
TakeLetter ==
  LET letter == pm_mail[index_pop]
  IN /\ Running("pm_daemon") /\ pm_mode = "idle" /\ letter.letter_type
     /\ pm_tmp' = letter.from
     /\ pm_mode' = IF letter.from = Null THEN "lost"
                   ELSE IF main_thread[letter.from] = letter.from THEN "main"
                   ELSE "child"
     /\ torn' = (torn \/ Half(index_pop))
     /\ UNCHANGED <<links, chain, account, scanning, cpu, mailbox, index_pop,
                    program, state, live, phase, leaks>>

UnlinkNext(t) == [nextp EXCEPT ![prevp[t]] = nextp[t]]
UnlinkPrev_Forgotten(t) == prevp
UnlinkPrev(t) == [prevp EXCEPT ![nextp[t]] = prevp[t]]

\* The letter is cleared when its last pcb has been freed.
DoneWith(next) ==
  /\ pm_tmp' = next
  /\ IF next # Null THEN UNCHANGED <<pm_mail, index_pop, pm_mode>>
     ELSE /\ pm_mail' = [pm_mail EXCEPT ![index_pop].letter_type = FALSE]
          /\ index_pop' = IF index_pop + 1 = MailSize THEN 0 ELSE index_pop + 1
          /\ pm_mode' = "idle"
  /\ UNCHANGED <<pm_index_push, reg, torn>>

ReapMain ==
  /\ Running("pm_daemon") /\ pm_mode = "main"
  /\ nextp' = UnlinkNext(pm_tmp)
  /\ prevp' = UnlinkPrev(pm_tmp)
  /\ live' = live \ {pm_tmp}
  /\ DoneWith(thread_n[pm_tmp])
  /\ UNCHANGED <<chain, account, scanning, cpu, program, state, phase, leaks>>

\* With a following thread in the chain, the code sets that prevp instead of
\* the follower's thread_p.
ReapChild ==
  /\ Running("pm_daemon") /\ pm_mode = "child"
  /\ nextp' = UnlinkNext(pm_tmp)
  /\ prevp' = IF thread_n[pm_tmp] = Null THEN UnlinkPrev(pm_tmp)
              ELSE [prevp EXCEPT ![nextp[pm_tmp]] = thread_p[pm_tmp]]
  /\ thread_n' = [thread_n EXCEPT ![thread_p[pm_tmp]] = thread_n[pm_tmp]]
  /\ live' = live \ {pm_tmp}
  /\ DoneWith(Null)
  /\ UNCHANGED <<main_thread, thread_p, kids, account, scanning, cpu, program,
                 state, phase, leaks>>

-----------------------------------------------------------------------------
Scheduler == ScanServer \/ ScanExtra \/ CallRoundRobin \/ RoundRobinStep
             \/ switch_to \/ Resume
ProcessManager == TakeLetter \/ ReapMain \/ ReapChild
Create(t) == \/ \E what \in {"fork", "thread"} : StartCopy(t, what)
             \/ \E p \in Slots : copy_process(t, p) \/ thread_create(t, p)
             \/ CopyFails(t)
Exit(t) == MailboxFull(t) \/ send_msg(t) \/ FinishExit(t)
Join(t) == \/ \E u \in Slots : StartJoin(t, u)
           \/ JoinNoThread(t) \/ JoinWait(t) \/ JoinEnds(t)

Next ==
  /\ torn => FollowTorn
  /\ \/ Scheduler \/ timer_tick \/ ProcessManager
     \/ \E t \in Pcb : Yield(t) \/ Create(t) \/ Exit(t) \/ Join(t)

Spec == Init /\ [][Next]_vars

-----------------------------------------------------------------------------
(* Fairness.  The CPU keeps executing kernel code and the daemons' loops,  *)
(* the timer keeps firing, and a slice (200 ms) is long enough for a task  *)
(* that gets the CPU again and again to take its next step out of a        *)
(* creation or of exit.                                                    *)

Kernel == Scheduler \/ ProcessManager
          \/ \E t \in Servers \cup {"init_task_0"} : Yield(t)
Busy(t) == \/ pc[t] \in {"fork", "thread"} /\ (Yield(t) \/ Create(t))
           \/ pc[t] \notin {"user", "exit"} /\ Exit(t)

Fairness ==
  /\ WF_vars(Kernel)
  /\ WF_vars(timer_tick)
  /\ \A t \in Slots \cup {"shell"} : SF_vars(Busy(t))

FairSpec == Spec /\ Fairness

-----------------------------------------------------------------------------
(* Properties.                                                             *)

TypeLinks ==
  /\ nextp \in [Pcb -> Pcb \cup {Null}]
  /\ prevp \in [Pcb -> Pcb \cup {Null}]
TypeChain ==
  /\ main_thread \in [Pcb -> Pcb]
  /\ thread_p \in [Pcb -> Slots \cup {Null}]
  /\ thread_n \in [Pcb -> Slots \cup {Null}]
  /\ kids \in [Pcb -> SUBSET Slots]
TypeAccount ==
  /\ counter \in [Pcb -> Int]
  /\ preempt_count \in [Pcb -> Int]
TypeScan ==
  /\ task_prio_table \in [Levels -> Pcb]
  /\ service_index \in Levels
  /\ tmp_task \in Pcb
  /\ phase \in {"run", "scan", "rr", "switch", "resume"}
TypeCpu ==
  /\ current \in Pcb /\ prev \in Pcb \cup {Null}
  /\ ctx \in [Pcb -> {"own", "behind", "foreign"}]
TypeManager ==
  /\ pm_mail \in [0..MailSize - 1 ->
                   [letter_type : BOOLEAN, from : Slots \cup {Null}]]
  /\ pm_index_push \in 0..MailSize /\ index_pop \in 0..MailSize - 1
  /\ reg \in [Slots -> 0..MailSize - 1]
  /\ pm_tmp \in Slots \cup {Null}
  /\ pm_mode \in {"idle", "main", "child", "lost"}
  /\ torn \in BOOLEAN
TypeProgram ==
  /\ state \in [Pcb -> {"RUNNING", "ZOMBIE", "JOINABLE", "EXITED"}]
  /\ pc \in [Pcb -> {"user", "fork", "thread", "exit", "type", "from",
                     "load", "store", "wrap", "posted", "gone", "join",
                     "stuck"}]
  /\ joining \in [Pcb -> Slots \cup {Null}]
  /\ live \in SUBSET Slots
  /\ leaks \in [Pcb -> Nat]

\* Every variable stays within its type, whatever programs run.
TypeOK == TypeLinks /\ TypeChain /\ TypeAccount /\ TypeScan /\ TypeCpu
          /\ TypeManager /\ TypeProgram

\* The cursors of the levels not being served stand at their heads: each time
\* _schedule leaves a level it resets that cursor, so pcbs of a level can only
\* be unlinked while its cursor is not on any of them.
CursorsParked ==
  \A l \in Levels \ {service_index} : task_prio_table[l] = head[l]

\* No link leaves its level, not even one in a freed pcb, and no cursor does: an
\* application can never turn up where ticks are ignored.
LevelsSeparate ==
  /\ \A t \in Pcb :
       /\ nextp[t] # Null => nextp[t] \notin Heads /\ Level(nextp[t]) = Level(t)
       /\ prevp[t] # Null => Level(prevp[t]) = Level(t)
  /\ \A l \in Levels : Level(task_prio_table[l]) = l
  /\ phase = "rr" => service_index = 2 /\ Level(tmp_task) = 2

\* Whoever executes is the task its level's cursor points at, except while
\* _schedule is moving that cursor.
CurrentAtCursor ==
  phase \in {"run", "resume"} /\ current # "init_task_0" => current = Cursor

\* From the moment pm_daemon takes a letter until it has cleared it, nothing
\* else gets the CPU and no cursor is in the list it is unlinking from.
ReapUninterrupted ==
  pm_mode # "idle" =>
    /\ current = "pm_daemon" /\ phase = "run" /\ service_index = 0
    /\ task_prio_table[2] = head[2]

\* What a run queue leads to, in as many steps as there are pcbs.
Follow(t) == IF t = Null THEN Null ELSE nextp[t]
Path(l) ==
  LET nth[k \in 0..Cardinality(Pcb)] == IF k = 0 THEN head[l] ELSE Follow(nth[k - 1])
  IN [k \in 1..Cardinality({j \in 1..Cardinality(Pcb) : nth[j] # Null}) |-> nth[k]]
Queue(l) == LET q == Path(l) IN {q[i] : i \in 1..Len(q)}

\* As long as no send_msg was torn, each run queue holds exactly the existing
\* tasks of its level, and prevp is the inverse of nextp along it: creation and
\* reaping never lose a task, keep a freed page in a queue, or leave a link that
\* a later unlink would misuse.
RunQueues ==
  ~torn =>
    \A l \in Levels :
      /\ Queue(l) = {t \in Fixed \cup live : Level(t) = l}
      /\ \A t \in Queue(l) \cup {head[l]} : nextp[t] # Null => prevp[nextp[t]] = t

\* Preemption is off for a task exactly as often as its own code and the
\* scheduler disabled it: once in _schedule (or before its first schedule_tail),
\* once inside a creation, once for each creation that failed.  While _schedule
\* runs a tick thus never enters it again: that would overwrite prev_real.
\* Only the daemon that reaps the owner of a torn letter upsets this.
PreemptBalanced ==
  ~torn =>
    /\ \A t \in Fixed \cup live :
         preempt_count[t] = (IF Running(t) THEN 0 ELSE 1)
                            + (IF pc[t] \in {"fork", "thread"} THEN 1 ELSE 0) + leaks[t]
    /\ phase # "run" => preempt_count[Cell(current)] > 0

\* The lazily saved registers are never written into a page that was freed and
\* handed to a new task, and only those of prev are still to be written.
ContextSaved ==
  ~torn =>
    \A t \in Fixed \cup live :
      /\ ctx[t] # "foreign"
      /\ ctx[t] = "behind" => t = prev

\* A task that keeps the CPU with preemption off: a creation of its failed, and
\* it never calls schedule() again.  (Of two such tasks each would, and then the
\* daemons have their turn.)
Hogged == <>[](leaks[current] > 0)

\* Unless such a task keeps the CPU, or a send_msg is torn, every runnable
\* application and thread gets the CPU again and again, however many others are
\* created and exit: a round of round_robin visits them all.
NoStarvation ==
  \/ Hogged
  \/ \A t \in Slots : []<>(t \in live /\ is_running(t) => current = t \/ torn)

\* Unless such a task keeps the CPU, or a send_msg is torn, a task that found
\* room for its END_Thread letter is unlinked and its pages are freed.
LettersServed ==
  \/ Hogged
  \/ \A t \in Slots :
       []<>(pc[t] \in {"type", "from", "load", "store", "wrap", "posted", "gone"}
              => t \notin live \/ torn)

\* What the header says of EXITED: a joiner whose thread has exited gets its
\* return code and goes on (given that it keeps getting the CPU, and
\* no send_msg is torn).
JoinSpec == FairSpec /\ \A t \in Slots : SF_vars(JoinWait(t) \/ JoinEnds(t))

JoinReturns ==
  \A t, u \in Slots :
    pc[t] = "join" /\ joining[t] = u /\ pc[u] = "posted"
      ~> pc[t] # "join" \/ torn
=============================================================================
