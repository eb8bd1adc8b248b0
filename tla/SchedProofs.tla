----------------------------- MODULE SchedProofs -----------------------------
(***************************************************************************)
(* What holds of Sched for every set of pages, every slice, every mailbox  *)
(* size and whatever programs run, threads with siblings and torn send_msgs *)
(* included; and for processes alone, as long as no send_msg is torn.      *)
(***************************************************************************)
EXTENDS SchedTurns, FiniteSetTheorems, WellFoundedInduction, TLAPS

\* pm_daemon's branch and its tmp_pcb go together.
ManagerBusy == pm_mode \in {"main", "child"} => pm_tmp \in Slots

\* Daemons and list heads neither create, exit nor join.
ServersStay == \A t \in Heads \cup Servers : pc[t] = "user" /\ kids[t] = {}

\* The inductive invariant.
IInv ==
  /\ TypeOK
  /\ ManagerBusy
  /\ ServersStay
  /\ LevelsSeparate
  /\ CursorsParked
  /\ CurrentAtCursor
  /\ ReapUninterrupted

USE SlotsAssumption, BoundsAssumption

LEMMA PcbFacts ==
  /\ Null \notin Pcb
  /\ \A l \in Levels : head[l] \in Pcb /\ Level(head[l]) = l
  /\ \A t \in Slots : Level(t) = 2
  /\ \A t \in Pcb : Cell(t) \in Pcb
  /\ Slots \subseteq Pcb /\ Heads \cup Servers \subseteq Pcb
  /\ \A t \in Slots \cup {"shell"} : t \notin Heads \cup Servers
  /\ Level("pm_daemon") = 0 /\ "pm_daemon" \in Servers
  /\ "pm_daemon" # "init_task_0"
  /\ 0 \in Levels /\ 1 \in Levels /\ 2 \in Levels
BY DEF Null, Pcb, Heads, Fixed, Servers, Levels, head, Level, Cell

LEMMA SliceFacts == ExtraSlice \in Int /\ AppSlice \in Int
BY DEF BoundsAssumption

LEMMA InitIInv == Init => IInv
<1> SUFFICES ASSUME Init PROVE IInv
  OBVIOUS
<1> USE PcbFacts DEF Init
<1>1. TypeLinks /\ TypeChain /\ TypeAccount
  BY DEF TypeLinks, TypeChain, TypeAccount, Pcb, Heads, Fixed, Servers, Null
<1>2. TypeScan
  BY DEF TypeScan, head, Levels, Pcb, Heads
<1>3. TypeCpu /\ TypeManager /\ TypeProgram
  <2>1. MailSize \in Nat /\ MailSize > 0
    BY DEF BoundsAssumption
  <2>2. 0 \in 0..MailSize /\ 0 \in 0..MailSize - 1
    BY <2>1
  <2>3. TypeManager
    BY <2>2 DEF TypeManager
  <2>4. TypeCpu /\ TypeProgram
    BY DEF TypeCpu, TypeProgram, Pcb, Heads
  <2> QED
    BY <2>3, <2>4
<1>4. LevelsSeparate
  BY DEF LevelsSeparate, Pcb, Heads, Fixed, Servers, Null, Level
<1>5. ManagerBusy /\ ServersStay /\ CursorsParked /\ CurrentAtCursor
      /\ ReapUninterrupted
  BY DEF ManagerBusy, ServersStay, CursorsParked, CurrentAtCursor,
         ReapUninterrupted
<1>6. QED
  BY <1>1, <1>2, <1>3, <1>4, <1>5 DEF IInv, TypeOK

-----------------------------------------------------------------------------
(* What cannot happen while pm_daemon is busy.                             *)

LEMMA BusyFacts ==
  ASSUME IInv
  PROVE  /\ service_index # 0 => pm_mode = "idle"
         /\ phase # "run" => pm_mode = "idle"
         /\ \A t \in Pcb : Running(t) /\ t # "pm_daemon" => pm_mode = "idle"
BY PcbFacts DEF IInv, ReapUninterrupted, Running

\* A step that leaves the queues, the cursors, the daemon and the CPU alone.
LEMMA QuietStep ==
  ASSUME IInv, TypeOK', ServersStay',
         UNCHANGED <<nextp, prevp, task_prio_table, service_index, tmp_task,
                     pm_tmp, pm_mode, current>>,
         phase' = phase \/ (phase' = "scan" /\ pm_mode = "idle")
  PROVE  IInv'
<1>1. ManagerBusy' /\ CursorsParked'
  BY DEF IInv, ManagerBusy, CursorsParked
<1>2. LevelsSeparate'
  BY DEF IInv, LevelsSeparate
<1>3. CurrentAtCursor' /\ ReapUninterrupted'
  BY DEF IInv, CurrentAtCursor, ReapUninterrupted, Cursor
<1>4. QED
  BY <1>1, <1>2, <1>3 DEF IInv

LEMMA EnterScheduleTypes ==
  ASSUME TypeAccount, TypeCpu, EnterSchedule, counter' \in [Pcb -> Int]
  PROVE  TypeAccount'
<1> DEFINE c == Cell(current)
<1>1. c \in Pcb /\ preempt_count[c] + 1 \in Int
  BY PcbFacts DEF TypeAccount, TypeCpu
<1>2. preempt_count' = [preempt_count EXCEPT ![c] = preempt_count[c] + 1]
  BY DEF EnterSchedule
<1> HIDE DEF c
<1>3. preempt_count' \in [Pcb -> Int]
  BY <1>1, <1>2 DEF TypeAccount
<1>4. QED
  BY <1>3 DEF TypeAccount

LEMMA scheduleTypes ==
  ASSUME TypeAccount, TypeCpu, schedule
  PROVE  TypeAccount' /\ phase' = "scan"
<1>1. counter' \in [Pcb -> Int]
  BY PcbFacts DEF TypeAccount, TypeCpu, schedule
<1>2. QED
  BY <1>1, EnterScheduleTypes DEF schedule, EnterSchedule

LEMMA YieldStep == ASSUME IInv, NEW t \in Pcb, Yield(t) PROVE IInv'
<1>1. TypeOK'
  BY scheduleTypes
  DEF IInv, TypeOK, Yield, TypeLinks, TypeChain, TypeScan, TypeCpu, TypeManager,
      TypeProgram, links, chain, scanning, cpu, manager, program
<1>2. phase' = "scan" /\ pm_mode = "idle"
  BY BusyFacts, scheduleTypes DEF Yield, IInv, TypeOK
<1>3. ServersStay'
  BY DEF IInv, ServersStay, Yield, program, chain
<1>4. QED
  BY <1>1, <1>2, <1>3, QuietStep DEF Yield, links, scanning, manager, cpu

LEMMA TickStep == ASSUME IInv, timer_tick PROVE IInv'
<1>1. counter' \in [Pcb -> Int]
  BY PcbFacts DEF IInv, TypeOK, TypeAccount, TypeCpu, timer_tick
<1>2. TypeAccount' /\ TypeScan'
  BY <1>1, EnterScheduleTypes
  DEF IInv, TypeOK, TypeAccount, TypeScan, timer_tick, EnterSchedule, scanning
<1>3. TypeOK'
  BY <1>2 DEF IInv, TypeOK, timer_tick, TypeLinks, TypeChain, TypeCpu,
              TypeManager, TypeProgram, links, chain, cpu, manager, program
<1>4. phase' = phase \/ (phase' = "scan" /\ pm_mode = "idle")
  BY BusyFacts DEF timer_tick, Preemptible, EnterSchedule
<1>5. ServersStay'
  BY DEF IInv, ServersStay, timer_tick, program, chain
<1>6. QED
  BY <1>3, <1>4, <1>5, QuietStep DEF timer_tick, links, scanning, manager, cpu

-----------------------------------------------------------------------------
(* _schedule: the cursors move inside their level, and one that is left    *)
(* behind is back at its head.                                             *)

LEMMA AdvanceStep ==
  ASSUME TypeLinks, TypeScan, LevelsSeparate, CursorsParked, phase = "scan",
         NEW l \in Levels, Advance(l), UNCHANGED <<links, tmp_task>>
  PROVE  TypeScan' /\ LevelsSeparate' /\ CursorsParked'
         /\ phase' \in {"scan", "switch"}
BY PcbFacts DEF Advance, GoToLevel, MoveCursor, Cursor, TypeLinks, TypeScan,
                LevelsSeparate, CursorsParked, links

\* A step inside _schedule that moves only its cursors and the counter.
LEMMA ScanTypes ==
  ASSUME IInv, TypeScan', counter' \in [Pcb -> Int],
         UNCHANGED <<links, chain, preempt_count, cpu, manager, program, state,
                     live, leaks>>
  PROVE  TypeOK' /\ ServersStay'
BY DEF IInv, TypeOK, TypeLinks, TypeChain, TypeAccount, TypeScan, TypeCpu,
       TypeManager, TypeProgram, ServersStay, links, chain, cpu, manager,
       program

LEMMA NotRunning ==
  ASSUME IInv, phase # "run", phase' \notin {"run", "resume"},
         UNCHANGED manager
  PROVE  ManagerBusy' /\ CurrentAtCursor' /\ ReapUninterrupted'
BY BusyFacts DEF ManagerBusy, CurrentAtCursor, ReapUninterrupted, manager

LEMMA ScanServerStep == ASSUME IInv, ScanServer PROVE IInv'
<1>1. TypeScan' /\ LevelsSeparate' /\ CursorsParked'
      /\ phase' \in {"scan", "switch"}
  BY AdvanceStep, PcbFacts DEF IInv, TypeOK, ScanServer
<1>2. TypeOK' /\ ServersStay'
  BY <1>1, ScanTypes DEF IInv, TypeOK, TypeAccount, ScanServer, account
<1>3. ManagerBusy' /\ CurrentAtCursor' /\ ReapUninterrupted'
  BY <1>1, NotRunning DEF ScanServer
<1>4. QED
  BY <1>1, <1>2, <1>3 DEF IInv

LEMMA ScanExtraStep == ASSUME IInv, ScanExtra PROVE IInv'
<1>1. TypeScan' /\ LevelsSeparate' /\ CursorsParked'
      /\ phase' \in {"scan", "switch"}
  BY AdvanceStep, PcbFacts DEF IInv, TypeOK, ScanExtra
<1>2. counter' \in [Pcb -> Int]
  BY SliceFacts DEF IInv, TypeOK, TypeAccount, ScanExtra
<1>3. TypeOK' /\ ServersStay'
  BY <1>1, <1>2, ScanTypes DEF ScanExtra
<1>4. ManagerBusy' /\ CurrentAtCursor' /\ ReapUninterrupted'
  BY <1>1, NotRunning DEF ScanExtra
<1>5. QED
  BY <1>1, <1>3, <1>4 DEF IInv

LEMMA CallRoundRobinStep == ASSUME IInv, CallRoundRobin PROVE IInv'
<1>1. counter' \in [Pcb -> Int]
  BY SliceFacts DEF IInv, TypeOK, TypeAccount, CallRoundRobin
<1>2. TypeScan'
  BY DEF IInv, TypeOK, TypeScan, CallRoundRobin, RoundRobinFrom, Cursor
<1>3. TypeOK' /\ ServersStay'
  BY <1>1, <1>2, ScanTypes DEF CallRoundRobin
<1>4. LevelsSeparate' /\ CursorsParked'
  BY PcbFacts DEF IInv, LevelsSeparate, CursorsParked, CallRoundRobin, RoundRobinFrom, Cursor,
                  links
<1>5. ManagerBusy' /\ CurrentAtCursor' /\ ReapUninterrupted'
  BY NotRunning DEF CallRoundRobin
<1>6. QED
  BY <1>3, <1>4, <1>5 DEF IInv

LEMMA RoundRobinStepStep == ASSUME IInv, RoundRobinStep PROVE IInv'
<1>1. TypeScan' /\ LevelsSeparate' /\ CursorsParked'
      /\ phase' \in {"scan", "switch", "rr"}
  BY PcbFacts
  DEF IInv, TypeOK, RoundRobinStep, GoToLevel, MoveCursor, TypeLinks, TypeScan,
      LevelsSeparate, CursorsParked, links
<1>2. TypeOK' /\ ServersStay'
  BY <1>1, ScanTypes DEF IInv, TypeOK, TypeAccount, RoundRobinStep, account
<1>3. ManagerBusy' /\ CurrentAtCursor' /\ ReapUninterrupted'
  BY <1>1, NotRunning DEF RoundRobinStep
<1>4. QED
  BY <1>1, <1>2, <1>3 DEF IInv

LEMMA switch_toStep == ASSUME IInv, switch_to PROVE IInv'
<1>1. Cursor \in Pcb
  BY DEF IInv, TypeOK, TypeScan, Cursor
<1>2. TypeCpu' /\ current' = Cursor
  BY <1>1 DEF IInv, TypeOK, TypeCpu, switch_to, SameTask, WriteBack, cpu
<1>3. TypeOK' /\ ServersStay'
  BY <1>2 DEF IInv, TypeOK, TypeLinks, TypeChain, TypeAccount, TypeScan,
              TypeManager, TypeProgram, ServersStay, switch_to, links, chain,
              account, scanning, manager, program
<1>4. LevelsSeparate' /\ CursorsParked'
  BY DEF IInv, LevelsSeparate, CursorsParked, switch_to, links, scanning
<1>5. ManagerBusy' /\ ReapUninterrupted'
  BY BusyFacts DEF ManagerBusy, ReapUninterrupted, switch_to, manager
<1>6. CurrentAtCursor'
  BY <1>2 DEF CurrentAtCursor, Cursor, switch_to, scanning
<1>7. QED
  BY <1>3, <1>4, <1>5, <1>6 DEF IInv

LEMMA ResumeStep == ASSUME IInv, Resume PROVE IInv'
<1> DEFINE c == Cell(current)
<1>1. c \in Pcb /\ preempt_count[c] - 1 \in Int
  BY PcbFacts DEF IInv, TypeOK, TypeAccount, TypeCpu
<1>2. preempt_count' = [preempt_count EXCEPT ![c] = preempt_count[c] - 1]
  BY DEF Resume, Enable
<1> HIDE DEF c
<1>3. TypeAccount'
  BY <1>1, <1>2 DEF IInv, TypeOK, TypeAccount, Resume
<1>4. TypeOK' /\ ServersStay'
  BY <1>3 DEF IInv, TypeOK, TypeLinks, TypeChain, TypeScan, TypeCpu,
              TypeManager, TypeProgram, ServersStay, Resume, links, chain,
              scanning, cpu, manager, program
<1>5. LevelsSeparate' /\ CursorsParked'
  BY DEF IInv, LevelsSeparate, CursorsParked, Resume, links, scanning
<1>6. ManagerBusy' /\ ReapUninterrupted' /\ CurrentAtCursor'
  BY BusyFacts DEF IInv, ManagerBusy, ReapUninterrupted, CurrentAtCursor, Cursor,
                   Resume, manager, scanning, cpu
<1>7. QED
  BY <1>4, <1>5, <1>6 DEF IInv

-----------------------------------------------------------------------------
(* What tasks do.  None of it runs while pm_daemon is busy.                *)

LEMMA StartCopyStep ==
  ASSUME IInv, NEW t \in Pcb, NEW what \in {"fork", "thread"},
         StartCopy(t, what)
  PROVE  IInv'
<1>1. preempt_count[t] + 1 \in Int
  BY DEF IInv, TypeOK, TypeAccount
<1>2. TypeAccount' /\ TypeProgram'
  BY <1>1 DEF IInv, TypeOK, TypeAccount, TypeProgram, StartCopy
<1>3. TypeOK'
  BY <1>2 DEF IInv, TypeOK, StartCopy, TypeLinks, TypeChain, TypeScan, TypeCpu,
              TypeManager, links, chain, scanning, cpu, manager
<1>4. ServersStay'
  BY PcbFacts DEF IInv, ServersStay, StartCopy, chain
<1>5. QED
  BY <1>3, <1>4, QuietStep DEF StartCopy, links, scanning, manager, cpu

\* The queues, cursors and daemon after a creation.
LEMMA InsertStep ==
  ASSUME IInv, NEW t \in Pcb, NEW p \in Slots, InsertAfterHead(p),
         Running(t), pc[t] # "user",
         UNCHANGED <<scanning, current, manager, phase>>
  PROVE  /\ TypeLinks' /\ LevelsSeparate' /\ CursorsParked'
         /\ ManagerBusy' /\ CurrentAtCursor' /\ ReapUninterrupted'
<1>1. head[2] \in Pcb /\ Level(head[2]) = 2 /\ p \in Pcb /\ Level(p) = 2
      /\ p \notin Heads
  BY PcbFacts
<1>2. TypeLinks'
  BY <1>1 DEF IInv, TypeOK, TypeLinks, InsertAfterHead, InsertBehind
<1>3. \A u \in Pcb : nextp'[u] # Null => nextp'[u] \notin Heads
                                         /\ Level(nextp'[u]) = Level(u)
  BY <1>1 DEF IInv, TypeOK, TypeLinks, LevelsSeparate, InsertAfterHead, InsertBehind
<1>4. \A u \in Pcb : prevp'[u] # Null => Level(prevp'[u]) = Level(u)
  <2> SUFFICES ASSUME NEW u \in Pcb, prevp'[u] # Null
               PROVE  Level(prevp'[u]) = Level(u)
    OBVIOUS
  <2>1. CASE u = p
    BY <1>1, <2>1 DEF InsertAfterHead, InsertBehind
  <2>2. CASE u # p /\ u = nextp[head[2]]
    BY <1>1, <2>2, PcbFacts DEF IInv, LevelsSeparate, InsertAfterHead, InsertBehind
  <2>3. CASE u # p /\ u # nextp[head[2]]
    BY <2>3 DEF IInv, LevelsSeparate, InsertAfterHead, InsertBehind
  <2>4. QED
    BY <2>1, <2>2, <2>3
<1>5. LevelsSeparate'
  BY <1>3, <1>4 DEF IInv, LevelsSeparate, scanning
<1>6. CursorsParked' /\ ManagerBusy' /\ CurrentAtCursor' /\ ReapUninterrupted'
  BY DEF IInv, CursorsParked, ManagerBusy, CurrentAtCursor, ReapUninterrupted,
         Cursor, scanning, manager
<1>7. QED
  BY <1>2, <1>5, <1>6

LEMMA NewPcbStep ==
  ASSUME IInv, NEW t \in Pcb, NEW p \in Slots, NEW st \in {"RUNNING", "JOINABLE"},
         NEW slice \in Nat, NewPcb(t, p, st, slice), TypeChain',
         pc[t] \in {"fork", "thread"},
         \A u \in Heads \cup Servers : kids'[u] = kids[u]
  PROVE  IInv'
<1>1. t \notin Heads \cup Servers /\ p \in Pcb /\ p \notin Heads \cup Servers
  BY PcbFacts DEF IInv, ServersStay
<1>2. preempt_count[t] - 1 \in Int
  BY DEF IInv, TypeOK, TypeAccount
<1>3. TypeAccount'
  BY <1>1, <1>2 DEF IInv, TypeOK, TypeAccount, NewPcb
<1>4. TypeProgram'
  BY <1>1 DEF IInv, TypeOK, TypeProgram, NewPcb
<1>5. TypeCpu' /\ TypeScan' /\ TypeManager'
  BY <1>1 DEF IInv, TypeOK, TypeCpu, TypeScan, TypeManager, NewPcb, scanning,
              manager
<1>6. ServersStay'
  BY <1>1, PcbFacts DEF IInv, TypeOK, TypeProgram, ServersStay, NewPcb
<1>7. /\ TypeLinks' /\ LevelsSeparate' /\ CursorsParked'
      /\ ManagerBusy' /\ CurrentAtCursor' /\ ReapUninterrupted'
  BY InsertStep DEF NewPcb
<1>8. QED
  BY <1>3, <1>4, <1>5, <1>6, <1>7 DEF IInv, TypeOK

LEMMA copy_processStep ==
  ASSUME IInv, NEW t \in Pcb, NEW p \in Slots, copy_process(t, p)
  PROVE  IInv'
<1>1. p \in Pcb /\ p \notin Heads \cup Servers
  BY PcbFacts
<1>2. TypeChain' /\ \A u \in Heads \cup Servers : kids'[u] = kids[u]
  BY <1>1, PcbFacts DEF IInv, TypeOK, TypeChain, copy_process
<1>3. NewPcb(t, p, "RUNNING", AppSlice) /\ pc[t] \in {"fork", "thread"}
  BY DEF copy_process
<1>4. AppSlice \in Nat
  BY DEF BoundsAssumption
<1>5. QED
  BY <1>2, <1>3, <1>4, NewPcbStep

LEMMA thread_createStep ==
  ASSUME IInv, NEW t \in Pcb, NEW p \in Slots, thread_create(t, p)
  PROVE  IInv'
<1>1. p \in Pcb /\ p \notin Heads \cup Servers /\ t \notin Heads \cup Servers
  BY PcbFacts DEF IInv, ServersStay, thread_create
<1>2. \A u \in Heads \cup Servers : kids'[u] = kids[u]
  BY <1>1, PcbFacts DEF IInv, TypeOK, TypeChain, thread_create
<1>3. main_thread' \in [Pcb -> Pcb] /\ kids' \in [Pcb -> SUBSET Slots]
  BY <1>1 DEF IInv, TypeOK, TypeChain, thread_create
<1>4. thread_p' \in [Pcb -> Slots \cup {Null}]
      /\ thread_n' \in [Pcb -> Slots \cup {Null}]
  BY <1>1 DEF IInv, TypeOK, TypeChain, thread_create
<1>5. NewPcb(t, p, "JOINABLE", 2) /\ pc[t] \in {"fork", "thread"}
  BY DEF thread_create
<1>6. QED
  BY <1>2, <1>3, <1>4, <1>5, NewPcbStep DEF TypeChain

LEMMA CopyFailsStep ==
  ASSUME IInv, NEW t \in Pcb, CopyFails(t) PROVE IInv'
<1>1. leaks[t] + 1 \in Nat
  BY DEF IInv, TypeOK, TypeProgram
<1>2. TypeProgram'
  BY <1>1 DEF IInv, TypeOK, TypeProgram, CopyFails, program
<1>3. TypeOK'
  BY <1>2 DEF IInv, TypeOK, CopyFails, TypeLinks, TypeChain, TypeAccount,
              TypeScan, TypeCpu, TypeManager, links, chain, account, scanning,
              cpu, manager
<1>4. ServersStay'
  BY PcbFacts DEF IInv, ServersStay, CopyFails, chain
<1>5. QED
  BY <1>3, <1>4, QuietStep DEF CopyFails, links, scanning, manager, cpu

\* The statements of send_msg change pc and the mailbox only.
LEMMA SendsStep ==
  ASSUME IInv, TypeManager', NEW t \in Pcb,
         NEW there \in {"type", "from", "load", "store", "wrap", "posted", "stuck"},
         Sends(t, there)
  PROVE  IInv'
<1>1. t \notin Heads \cup Servers /\ TypeProgram'
  BY PcbFacts DEF IInv, TypeOK, TypeProgram, Sends
<1>2. TypeOK'
  BY <1>1 DEF IInv, TypeOK, Sends, TypeLinks, TypeChain, TypeAccount, TypeScan, TypeCpu,
              links, chain, account, scanning, cpu
<1>3. ServersStay'
  BY <1>1 DEF IInv, TypeOK, TypeProgram, ServersStay, Sends, chain
<1>4. QED
  BY <1>2, <1>3, QuietStep DEF Sends, links, scanning, daemon, cpu

LEMMA send_msgIs ==
  ASSUME NEW t, send_msg(t)
  PROVE  /\ Running(t) /\ t \in Slots
         /\ pc[t] \in {"user", "exit", "type", "from", "load", "store", "wrap"}
         /\ \E there \in {"type", "from", "load", "store", "wrap", "posted", "stuck"} :
              pc' = [pc EXCEPT ![t] = there]
         /\ UNCHANGED <<links, chain, account, scanning, cpu, daemon, joining, state,
                        live, phase, leaks>>
BY DEF send_msg, SlotFree, BehindArray, SetType, SetFrom, LoadPush, StorePush, Wrap, Sends,
       Exiting

LEMMA send_msgStep == ASSUME IInv, NEW t \in Pcb, send_msg(t) PROVE IInv'
<1> USE DEF IInv, TypeOK, TypeManager
<1>0. MailSize \in Nat /\ MailSize > 0
  BY DEF BoundsAssumption
<1>1. ASSUME NEW there, Sends(t, there) PROVE t \in Slots /\ UNCHANGED <<index_pop, pm_tmp, pm_mode>>
  BY <1>1 DEF Sends, daemon
<1>2. CASE SlotFree(t)
  <2>1. torn' \in BOOLEAN /\ UNCHANGED <<pm_mail, pm_index_push, reg>> /\ Sends(t, "type")
    BY <1>2 DEF SlotFree, mailbox
  <2> QED
    BY <1>1, <2>1, SendsStep
<1>3. CASE BehindArray(t)
  <2>1. torn' = TRUE /\ UNCHANGED <<pm_mail, pm_index_push, reg>> /\ Sends(t, "stuck")
    BY <1>3 DEF BehindArray, mailbox
  <2> QED
    BY <1>1, <2>1, SendsStep
<1>4. CASE SetType(t)
  <2>1. pm_mail' \in [0..MailSize - 1 -> [letter_type : BOOLEAN, from : Slots \cup {Null}]]
    BY <1>0, <1>4 DEF SetType, InArray
  <2>2. UNCHANGED <<pm_index_push, reg, torn>> /\ Sends(t, "from")
    BY <1>4 DEF SetType
  <2> QED
    BY <1>1, <2>1, <2>2, SendsStep
<1>5. CASE SetFrom(t)
  <2>0. Sends(t, "load") /\ t \in Slots
    BY <1>1, <1>5 DEF SetFrom
  <2>1. pm_mail' \in [0..MailSize - 1 -> [letter_type : BOOLEAN, from : Slots \cup {Null}]]
    BY <1>0, <1>5, <2>0 DEF SetFrom, InArray
  <2>2. UNCHANGED <<pm_index_push, reg, torn>>
    BY <1>5 DEF SetFrom
  <2> QED
    BY <1>1, <2>0, <2>1, <2>2, SendsStep
<1>6. CASE LoadPush(t)
  <2>0. Sends(t, "store") /\ t \in Slots
    BY <1>1, <1>6 DEF LoadPush
  <2>1. reg' \in [Slots -> 0..MailSize - 1]
    BY <1>0, <1>6, <2>0 DEF LoadPush, InArray
  <2>2. UNCHANGED <<pm_mail, pm_index_push, torn>>
    BY <1>6 DEF LoadPush
  <2> QED
    BY <1>1, <2>0, <2>1, <2>2, SendsStep
<1>7. CASE StorePush(t)
  <2>0. Sends(t, "wrap") /\ t \in Slots
    BY <1>1, <1>7 DEF StorePush
  <2>1. reg' \in [Slots -> 0..MailSize - 1] /\ pm_index_push' \in 0..MailSize
    BY <1>0, <1>7, <2>0 DEF StorePush
  <2>2. UNCHANGED <<pm_mail, torn>>
    BY <1>7 DEF StorePush
  <2> QED
    BY <1>1, <2>0, <2>1, <2>2, SendsStep
<1>8. CASE Wrap(t)
  <2>1. pm_index_push' \in 0..MailSize /\ UNCHANGED <<pm_mail, reg, torn>> /\ Sends(t, "posted")
    BY <1>0, <1>8 DEF Wrap
  <2> QED
    BY <1>1, <2>1, SendsStep
<1> QED
  BY <1>2, <1>3, <1>4, <1>5, <1>6, <1>7, <1>8 DEF send_msg

LEMMA MailboxFullStep == ASSUME IInv, NEW t \in Pcb, MailboxFull(t) PROVE IInv'
<1>1. t \in Slots /\ t \notin Heads \cup Servers /\ Running(t) /\ t # "pm_daemon"
  BY PcbFacts DEF MailboxFull, Exiting
<1>2. TypeAccount' /\ phase' = "scan" /\ pm_mode = "idle"
  BY <1>1, scheduleTypes, BusyFacts DEF IInv, TypeOK, MailboxFull
<1>3. TypeProgram'
  BY <1>1 DEF IInv, TypeOK, TypeProgram, MailboxFull
<1>4. TypeOK'
  BY <1>2, <1>3 DEF IInv, TypeOK, MailboxFull, TypeLinks, TypeChain, TypeScan,
                    TypeCpu, TypeManager, links, chain, scanning, cpu, manager
<1>5. ServersStay'
  BY <1>1 DEF IInv, TypeOK, TypeProgram, ServersStay, MailboxFull, chain
<1>6. QED
  BY <1>2, <1>4, <1>5, QuietStep DEF MailboxFull, links, scanning, manager, cpu

LEMMA FinishExitStep == ASSUME IInv, NEW t \in Pcb, FinishExit(t) PROVE IInv'
<1>1. t \notin Heads \cup Servers /\ Running(t) /\ t # "pm_daemon"
  BY PcbFacts DEF FinishExit, IInv, ServersStay
<1>2. TypeAccount' /\ phase' = "scan" /\ pm_mode = "idle"
  BY <1>1, scheduleTypes, BusyFacts DEF IInv, TypeOK, FinishExit
<1>3. TypeProgram'
  BY DEF IInv, TypeOK, TypeProgram, FinishExit
<1>4. TypeOK'
  BY <1>2, <1>3 DEF IInv, TypeOK, FinishExit, TypeLinks, TypeChain, TypeScan,
                    TypeCpu, TypeManager, links, chain, scanning, cpu, manager
<1>5. ServersStay'
  BY <1>1 DEF IInv, TypeOK, TypeProgram, ServersStay, FinishExit, chain
<1>6. QED
  BY <1>2, <1>4, <1>5, QuietStep DEF FinishExit, links, scanning, manager, cpu

LEMMA StartJoinStep ==
  ASSUME IInv, NEW t \in Pcb, NEW u \in Slots, StartJoin(t, u) PROVE IInv'
<1>1. t \notin Heads \cup Servers
  BY DEF StartJoin, IInv, ServersStay
<1>2. TypeChain' /\ TypeProgram'
  BY DEF IInv, TypeOK, TypeChain, TypeProgram, StartJoin
<1>3. TypeOK'
  BY <1>2 DEF IInv, TypeOK, StartJoin, TypeLinks, TypeAccount, TypeScan, TypeCpu,
              TypeManager, links, account, scanning, cpu, manager
<1>4. ServersStay'
  BY <1>1, PcbFacts DEF IInv, TypeOK, TypeProgram, ServersStay, StartJoin
<1>5. QED
  BY <1>3, <1>4, QuietStep DEF StartJoin, links, scanning, manager, cpu

LEMMA JoinNoThreadStep ==
  ASSUME IInv, NEW t \in Pcb, JoinNoThread(t) PROVE IInv'
<1>1. t \notin Heads \cup Servers
  BY PcbFacts DEF JoinNoThread
<1>2. TypeProgram'
  BY DEF IInv, TypeOK, TypeProgram, JoinNoThread
<1>3. TypeOK'
  BY <1>2 DEF IInv, TypeOK, JoinNoThread, TypeLinks, TypeChain, TypeAccount,
              TypeScan, TypeCpu, TypeManager, links, chain, account, scanning,
              cpu, manager
<1>4. ServersStay'
  BY <1>1, PcbFacts DEF IInv, TypeOK, TypeProgram, ServersStay, JoinNoThread,
                        chain
<1>5. QED
  BY <1>3, <1>4, QuietStep DEF JoinNoThread, links, scanning, manager, cpu

LEMMA JoinWaitStep == ASSUME IInv, NEW t \in Pcb, JoinWait(t) PROVE IInv'
<1>1. Running(t) /\ t # "pm_daemon"
  BY PcbFacts DEF JoinWait, IInv, ServersStay
<1>2. TypeAccount' /\ phase' = "scan" /\ pm_mode = "idle"
  BY <1>1, scheduleTypes, BusyFacts DEF IInv, TypeOK, JoinWait
<1>3. TypeOK'
  BY <1>2 DEF IInv, TypeOK, JoinWait, TypeLinks, TypeChain, TypeScan, TypeCpu,
              TypeManager, TypeProgram, links, chain, scanning, cpu, manager,
              program
<1>4. ServersStay'
  BY DEF IInv, ServersStay, JoinWait, chain, program
<1>5. QED
  BY <1>2, <1>3, <1>4, QuietStep DEF JoinWait, links, scanning, manager, cpu

LEMMA JoinEndsStep == ASSUME IInv, NEW t \in Pcb, JoinEnds(t) PROVE IInv'
<1>1. t \notin Heads \cup Servers
  BY PcbFacts DEF JoinEnds, IInv, ServersStay
<1>2. TypeProgram'
  BY DEF IInv, TypeOK, TypeProgram, JoinEnds
<1>3. TypeOK'
  BY <1>2 DEF IInv, TypeOK, JoinEnds, TypeLinks, TypeChain, TypeAccount,
              TypeScan, TypeCpu, TypeManager, links, chain, account, scanning,
              cpu, manager
<1>4. ServersStay'
  BY <1>1, PcbFacts DEF IInv, TypeOK, TypeProgram, ServersStay, JoinEnds, chain
<1>5. QED
  BY <1>3, <1>4, QuietStep DEF JoinEnds, links, scanning, manager, cpu

-----------------------------------------------------------------------------
(* pm_daemon: it runs as a server, so the application cursor is parked.    *)

LEMMA TakeLetterStep == ASSUME IInv, TakeLetter PROVE IInv'
<1>1. index_pop \in 0..MailSize - 1 /\ pm_mail[index_pop].from \in Slots \cup {Null}
  BY DEF IInv, TypeOK, TypeManager
<1>2. TypeManager' /\ ManagerBusy'
  <2>1. UNCHANGED <<pm_mail, pm_index_push, reg, index_pop>> /\ torn' \in BOOLEAN
    BY DEF TakeLetter, mailbox, IInv, TypeOK, TypeManager
  <2>2. pm_tmp' \in Slots \cup {Null} /\ pm_mode' \in {"main", "child", "lost"} /\ ManagerBusy'
    BY <1>1, SlotsAssumption DEF TakeLetter, ManagerBusy
  <2> QED
    BY <2>1, <2>2 DEF IInv, TypeOK, TypeManager
<1>3. TypeOK'
  BY <1>2 DEF IInv, TypeOK, TakeLetter, TypeLinks, TypeChain, TypeAccount,
              TypeScan, TypeCpu, TypeProgram, links, chain, account, scanning,
              cpu, program
<1>4. ServersStay' /\ LevelsSeparate' /\ CursorsParked' /\ CurrentAtCursor'
  BY DEF IInv, ServersStay, LevelsSeparate, CursorsParked, CurrentAtCursor,
         Cursor, TakeLetter, links, chain, scanning, cpu, program
<1>5. current = "pm_daemon" /\ phase = "run" /\ service_index = 0
  BY PcbFacts DEF IInv, TypeOK, TypeScan, LevelsSeparate, CurrentAtCursor,
                  Cursor, TakeLetter, Running
<1>6. task_prio_table[2] = head[2]
  BY <1>5, PcbFacts DEF IInv, CursorsParked
<1>7. ReapUninterrupted'
  BY <1>5, <1>6 DEF ReapUninterrupted, TakeLetter, scanning, cpu
<1>8. QED
  BY <1>2, <1>3, <1>4, <1>7 DEF IInv

\* What unlinking a task does, in both branches.
LEMMA UnlinkStep ==
  ASSUME TypeLinks, TypeScan, LevelsSeparate, NEW t \in Slots,
         nextp' = UnlinkNext(t), UNCHANGED scanning, phase' = phase,
         NEW v, v = prevp[t] \/ v \in Slots \cup {Null},
         prevp' = [prevp EXCEPT ![nextp[t]] = v]
  PROVE  TypeLinks' /\ LevelsSeparate'
<1>1. t \in Pcb /\ Level(t) = 2 /\ v \in Pcb \cup {Null}
      /\ (v # Null => Level(v) = 2)
  BY PcbFacts DEF TypeLinks, LevelsSeparate
<1>2. TypeLinks'
  BY <1>1 DEF TypeLinks, UnlinkNext
<1>3. \A u \in Pcb : nextp'[u] # Null => nextp'[u] \notin Heads
                                         /\ Level(nextp'[u]) = Level(u)
  BY <1>1, PcbFacts DEF TypeLinks, LevelsSeparate, UnlinkNext
<1>4. \A u \in Pcb : prevp'[u] # Null => Level(prevp'[u]) = Level(u)
  BY <1>1, PcbFacts DEF TypeLinks, LevelsSeparate
<1>5. QED
  BY <1>2, <1>3, <1>4 DEF LevelsSeparate, scanning

LEMMA DoneWithStep ==
  ASSUME TypeManager, ManagerBusy, pm_mode \in {"main", "child"},
         NEW n \in Slots \cup {Null}, DoneWith(n)
  PROVE  /\ TypeManager' /\ ManagerBusy'
         /\ pm_mode' # "idle" => pm_mode # "idle"
<1>1. MailSize \in Nat /\ MailSize > 0 /\ UNCHANGED <<pm_index_push, reg, torn>> /\ pm_tmp' = n
  BY DEF BoundsAssumption, DoneWith
<1>2. CASE n # Null
  BY <1>1, <1>2 DEF TypeManager, ManagerBusy, DoneWith
<1>3. CASE n = Null
  <2>1. pm_mail' = [pm_mail EXCEPT ![index_pop].letter_type = FALSE] /\ pm_mode' = "idle"
        /\ index_pop' = IF index_pop + 1 = MailSize THEN 0 ELSE index_pop + 1
    BY <1>3 DEF DoneWith
  <2>2. pm_mail' \in [0..MailSize - 1 -> [letter_type : BOOLEAN, from : Slots \cup {Null}]]
    BY <2>1 DEF TypeManager
  <2>3. index_pop' \in 0..MailSize - 1
    <3>1. index_pop \in 0..MailSize - 1
      BY DEF TypeManager
    <3>2. CASE index_pop + 1 = MailSize
      BY <1>1, <2>1, <3>2
    <3>3. CASE index_pop + 1 # MailSize
      BY <1>1, <2>1, <3>1, <3>3
    <3> QED
      BY <3>2, <3>3
  <2> QED
    BY <1>1, <1>3, <2>1, <2>2, <2>3 DEF TypeManager, ManagerBusy
<1> QED
  BY <1>2, <1>3

LEMMA ReapStep ==
  ASSUME IInv, pm_mode \in {"main", "child"}, TypeLinks', LevelsSeparate', TypeChain',
         NEW n \in Slots \cup {Null}, DoneWith(n),
         live' = live \ {pm_tmp}, kids' = kids,
         UNCHANGED <<account, scanning, cpu, program, state, phase, leaks>>
  PROVE  IInv'
<1>1. TypeManager' /\ ManagerBusy'
  BY DoneWithStep DEF IInv, TypeOK
<1>2. TypeProgram'
  BY DEF IInv, TypeOK, TypeProgram, program
<1>3. TypeOK'
  BY <1>1, <1>2 DEF IInv, TypeOK, TypeAccount, TypeScan, TypeCpu, account,
                    scanning, cpu
<1>4. ServersStay' /\ CursorsParked' /\ CurrentAtCursor' /\ ReapUninterrupted'
  BY DEF IInv, ServersStay, CursorsParked, CurrentAtCursor, ReapUninterrupted,
         Cursor, scanning, cpu, program
<1>5. QED
  BY <1>1, <1>3, <1>4 DEF IInv

LEMMA ReapMainStep == ASSUME IInv, ReapMain PROVE IInv'
<1>1. pm_mode \in {"main", "child"} /\ pm_tmp \in Slots
  BY DEF ReapMain, IInv, ManagerBusy
<1>2. TypeLinks' /\ LevelsSeparate'
  BY <1>1, UnlinkStep DEF IInv, TypeOK, ReapMain, UnlinkPrev
<1>3. TypeChain' /\ kids' = kids
  BY DEF IInv, TypeOK, TypeChain, ReapMain, chain
<1>4. thread_n[pm_tmp] \in Slots \cup {Null}
  BY <1>1, PcbFacts DEF IInv, TypeOK, TypeChain
<1>5. QED
  BY <1>1, <1>2, <1>3, <1>4, ReapStep DEF ReapMain

LEMMA ReapChildStep == ASSUME IInv, ReapChild PROVE IInv'
<1>1. pm_mode \in {"main", "child"} /\ pm_tmp \in Slots /\ pm_tmp \in Pcb
  BY PcbFacts DEF ReapChild, IInv, ManagerBusy
<1>2. TypeLinks' /\ LevelsSeparate'
  <2>1. CASE thread_n[pm_tmp] = Null
    BY <1>1, <2>1, UnlinkStep DEF IInv, TypeOK, ReapChild, UnlinkPrev
  <2>2. CASE thread_n[pm_tmp] # Null
    <3>1. thread_p[pm_tmp] \in Slots \cup {Null}
      BY <1>1 DEF IInv, TypeOK, TypeChain
    <3>2. QED
      BY <1>1, <2>2, <3>1, UnlinkStep DEF IInv, TypeOK, ReapChild
  <2>3. QED
    BY <2>1, <2>2
<1>3. TypeChain' /\ kids' = kids
  BY <1>1 DEF IInv, TypeOK, TypeChain, ReapChild
<1>4. QED
  BY <1>1, <1>2, <1>3, ReapStep DEF ReapChild

-----------------------------------------------------------------------------
LEMMA NextIInv == IInv /\ [Next]_vars => IInv'
<1> SUFFICES ASSUME IInv, [Next]_vars PROVE IInv'
  OBVIOUS
<1>1. CASE Scheduler
  BY <1>1, ScanServerStep, ScanExtraStep, CallRoundRobinStep,
     RoundRobinStepStep, switch_toStep, ResumeStep DEF Scheduler
<1>2. CASE timer_tick
  BY <1>2, TickStep
<1>3. CASE ProcessManager
  BY <1>3, TakeLetterStep, ReapMainStep, ReapChildStep DEF ProcessManager
<1>4. ASSUME NEW t \in Pcb, Yield(t) PROVE IInv'
  BY <1>4, YieldStep
<1>5. ASSUME NEW t \in Pcb, Create(t) PROVE IInv'
  BY <1>5, StartCopyStep, copy_processStep, thread_createStep, CopyFailsStep
  DEF Create
<1>6. ASSUME NEW t \in Pcb, Exit(t) PROVE IInv'
  BY <1>6, send_msgStep, MailboxFullStep, FinishExitStep DEF Exit
<1>7. ASSUME NEW t \in Pcb, Join(t) PROVE IInv'
  BY <1>7, StartJoinStep, JoinNoThreadStep, JoinWaitStep, JoinEndsStep DEF Join
<1>8. CASE UNCHANGED vars
  <2>1. /\ UNCHANGED <<links, chain, account, scanning, cpu, manager, program>>
        /\ UNCHANGED <<state, live, phase, leaks>>
    BY <1>8 DEF vars
  <2>2. TypeOK' /\ ServersStay'
    BY <2>1 DEF IInv, TypeOK, TypeLinks, TypeChain, TypeAccount, TypeScan,
                TypeCpu, TypeManager, TypeProgram, ServersStay, links, chain,
                account, scanning, cpu, manager, program
  <2>3. QED
    BY <2>1, <2>2, QuietStep DEF links, scanning, cpu, manager
<1>9. QED
  BY <1>1, <1>2, <1>3, <1>4, <1>5, <1>6, <1>7, <1>8 DEF Next

LEMMA Invariance == Spec => []IInv
<1>1. QED
  BY InitIInv, NextIInv, PTL DEF Spec

\* The structures of the scheduler, of its daemon and of the thread chains stay
\* well formed: no step of sched.c, fork.c, thread_*.c or pm_deamon.c stores
\* anything but a pcb or NULL where the next one expects a pcb or NULL.
THEOREM TypeCorrect == Spec => []TypeOK
<1>1. IInv => TypeOK
  BY DEF IInv
<1>2. QED
  BY <1>1, Invariance, PTL

\* _schedule leaves no cursor inside a level it is not serving.
THEOREM ParkedCursors == Spec => []CursorsParked
<1>1. IInv => CursorsParked
  BY DEF IInv
<1>2. QED
  BY <1>1, Invariance, PTL

\* No create, reap or join ever links tasks of different levels, so the level
\* that decides whether a tick may preempt is right for every task.
THEOREM SeparateLevels == Spec => []LevelsSeparate
<1>1. IInv => LevelsSeparate
  BY DEF IInv
<1>2. QED
  BY <1>1, Invariance, PTL

\* What executes is what the cursor of the level being served points at.
THEOREM CursorIsCurrent == Spec => []CurrentAtCursor
<1>1. IInv => CurrentAtCursor
  BY DEF IInv
<1>2. QED
  BY <1>1, Invariance, PTL

\* pm_daemon unlinks and frees without a lock of its own, and nothing else ever
\* runs in between: the timer does not preempt a server, and the daemon calls
\* schedule() only with its letter cleared.
THEOREM ReapIsUninterrupted == Spec => []ReapUninterrupted
<1>1. IInv => ReapUninterrupted
  BY DEF IInv
<1>2. QED
  BY <1>1, Invariance, PTL

-----------------------------------------------------------------------------
(* Any number of processes that create no threads: no run queue or cursor   *)
(* reaches a freed page, preemption counts balance and the lazily saved     *)
(* registers reach their owner.  With threads the queues are not safe in    *)
(* general (pm_deamon.c:65 writes into them), so the assumption is needed;  *)
(* nor are they once pm_daemon took a letter that was being written, so all *)
(* of it is said of the states up to the first torn send_msg.              *)

\* A finite memory, and processes only.
ApplicationsOnly == MaxThreads = 0 /\ IsFiniteSet(Slots)

Tasks == Fixed \cup live
Linked == Heads \cup Tasks
Scheduled == Tasks \cup {"init_task_0"}

NoThreads ==
  /\ \A t \in Pcb : /\ main_thread[t] = t /\ thread_n[t] = Null /\ kids[t] = {}
                    /\ pc[t] \notin {"thread", "join"}
  /\ pm_mode # "child"

\* prevp and nextp are inverse to each other on the existing tasks and lead to
\* existing tasks only: what RunQueues says of a queue, link by link.
LinksPaired ==
  /\ \A t \in Linked : nextp[t] # Null =>
       nextp[t] \in Tasks /\ prevp[nextp[t]] = t
  /\ \A t \in Tasks : prevp[t] \in Linked /\ nextp[prevp[t]] = t

\* Nothing that the scheduler holds on to has been freed.
CursorsExist ==
  /\ \A l \in Levels : task_prio_table[l] \in Linked
  /\ phase = "rr" => tmp_task \in Linked
  /\ phase = "switch" => Cursor \in Tasks
  /\ current \in Scheduled

\* Who writes into the slot at pm_index_push, or is about to.
Writes(t) == pc[t] \in {"type", "from", "load", "store"}
Complete(i) == pm_mail[i].letter_type /\ ~Half(i)

\* One complete letter of each task that is on its way out, one sender at work
\* on the slot at pm_index_push, and the daemon on the slot at index_pop.
LettersOnce ==
  /\ \A i \in 0..MailSize - 1 : Complete(i) =>
       pm_mail[i].from \in live /\ pc[pm_mail[i].from] \in {"wrap", "posted", "gone"}
  /\ \A i, j \in 0..MailSize - 1 :
       Complete(i) /\ Complete(j) /\ pm_mail[i].from = pm_mail[j].from => i = j
  /\ \A t, u \in Slots : Writes(t) /\ Writes(u) => t = u
  /\ \A t \in Slots : Writes(t) =>
       /\ t \in live /\ InArray
       /\ pm_mail[pm_index_push].letter_type <=> pc[t] # "type"
       /\ pc[t] \in {"load", "store"} => pm_mail[pm_index_push].from = t
       /\ pc[t] = "store" => reg[t] = pm_index_push
  /\ pm_mode # "idle" => Complete(index_pop) /\ pm_tmp = pm_mail[index_pop].from

Disabled(t) == (IF Running(t) THEN 0 ELSE 1)
               + (IF pc[t] \in {"fork", "thread"} THEN 1 ELSE 0) + leaks[t]

Counted == \A t \in Scheduled : preempt_count[t] = Disabled(t)

\* prev's registers are the ones still to be written, and its page is not
\* handed out before that: it can be free only while pm_daemon has the CPU.
SavedLate ==
  /\ \A t \in Tasks : ctx[t] # "foreign" /\ (ctx[t] = "behind" <=> t = prev)
  /\ prev \in Slots => prev \in live \/ current = "pm_daemon"

\* While no send_msg was torn.
AInv == /\ ~torn /\ ApplicationsOnly /\ IInv /\ NoThreads /\ LinksPaired /\ CursorsExist
        /\ LettersOnce /\ Counted /\ SavedLate

USE SlotsAssumption, BoundsAssumption

LEMMA TaskFacts ==
  ASSUME TypeProgram
  PROVE  /\ Tasks \subseteq Pcb /\ Linked \subseteq Pcb /\ Scheduled \subseteq Pcb
         /\ Scheduled \subseteq Linked /\ Tasks \subseteq Scheduled
         /\ Tasks \cap Heads = {}
         /\ \A t \in Scheduled : Cell(t) = t
         /\ "init_task_2" \in Linked /\ head[2] = "init_task_2"
         /\ \A l \in Levels : head[l] \in Linked
         /\ "pm_daemon" \notin Slots /\ Null \notin Linked
BY DEF Tasks, Linked, Scheduled, Pcb, Heads, Fixed, Servers, Cell, head, Levels,
       TypeProgram, Null

LEMMA InitAInv == ApplicationsOnly /\ Init => AInv
<1> SUFFICES ASSUME ApplicationsOnly, Init PROVE AInv
  OBVIOUS
<1> USE DEF Init
<1>1. IInv
  BY InitIInv
<1>2. NoThreads /\ LettersOnce /\ ~torn
  BY PcbFacts DEF NoThreads, LettersOnce, Complete, Writes
<1>3. LinksPaired
  BY DEF LinksPaired, Tasks, Linked, Pcb, Heads, Fixed, Servers, Null
<1>4. CursorsExist
  BY PcbFacts DEF CursorsExist, Tasks, Linked, Scheduled, Heads, Levels, head
<1>5. Counted
  BY DEF Counted, Disabled, Running, Tasks, Scheduled, Pcb, Heads, Fixed, Servers
<1>6. SavedLate
  BY DEF SavedLate, Tasks, Pcb, Fixed, Servers, Null
<1>7. QED
  BY <1>1, <1>2, <1>3, <1>4, <1>5, <1>6 DEF AInv

-----------------------------------------------------------------------------
\* What a task does in its own code, besides creating another.
Own(t) == Yield(t) \/ StartCopy(t, "fork") \/ CopyFails(t) \/ Exit(t)
          \/ JoinNoThread(t)

LEMMA NoThreadEver ==
  ASSUME AInv, NEW t \in Pcb PROVE ~MayCreateThread(t)
<1> DEFINE others == {u \in live \ {t} : main_thread[u] = t}
<1>1. IsFiniteSet(others)
  BY FS_Subset DEF AInv, IInv, TypeOK, TypeProgram, ApplicationsOnly
<1>2. Cardinality(others) \in Nat
  BY <1>1, FS_CardinalityType
<1>3. QED
  BY <1>2 DEF AInv, ApplicationsOnly, MayCreateThread

LEMMA StepCases ==
  ASSUME AInv, [Next]_vars
  PROVE  \/ Scheduler \/ timer_tick \/ TakeLetter \/ ReapMain
         \/ \E t \in Pcb : Own(t)
         \/ \E t \in Pcb, p \in Slots : copy_process(t, p)
         \/ UNCHANGED vars
<1>1. ASSUME NEW t \in Pcb, Create(t)
      PROVE  Own(t) \/ \E p \in Slots : copy_process(t, p)
  BY <1>1, NoThreadEver DEF AInv, NoThreads, Create, Own, StartCopy, thread_create
<1>2. ASSUME NEW t \in Pcb, Join(t) PROVE Own(t)
  BY <1>2 DEF AInv, NoThreads, Join, Own, StartJoin, JoinWait, JoinEnds
<1>3. ~ReapChild
  BY DEF AInv, NoThreads, ReapChild
<1>4. QED
  BY <1>1, <1>2, <1>3 DEF Next, ProcessManager, Own

\* Steps that create and free nothing leave the queues alone.
LEMMA QuietLists ==
  ASSUME \/ Scheduler \/ timer_tick \/ TakeLetter \/ UNCHANGED vars
         \/ \E t \in Pcb : Own(t)
  PROVE  UNCHANGED <<nextp, prevp, live>>
BY send_msgIs
DEF Scheduler, ScanServer, ScanExtra, CallRoundRobin, RoundRobinStep, switch_to,
    Resume, timer_tick, TakeLetter, Own, Yield, StartCopy, CopyFails, Exit,
    MailboxFull, FinishExit, JoinNoThread, vars, links

-----------------------------------------------------------------------------
LEMMA NoThreadsStep == ASSUME AInv, [Next]_vars PROVE NoThreads'
<1> USE DEF AInv, NoThreads
<1>1. CASE Scheduler \/ timer_tick \/ UNCHANGED vars
  BY <1>1 DEF Scheduler, ScanServer, ScanExtra, CallRoundRobin, RoundRobinStep,
       switch_to, Resume, timer_tick, vars, chain, manager, program
<1>2. CASE TakeLetter
  <2>1. pm_mail[index_pop].from # Null => pm_mail[index_pop].from \in Pcb
    BY PcbFacts DEF IInv, TypeOK, TypeManager
  <2>2. QED
    BY <1>2, <2>1 DEF TakeLetter, chain, program
<1>3. CASE ReapMain
  BY <1>3 DEF ReapMain, DoneWith, chain, program
<1>4. ASSUME NEW t \in Pcb, Own(t) PROVE NoThreads'
  BY <1>4, send_msgIs DEF Own, Yield, StartCopy, CopyFails, Exit, MailboxFull,
       FinishExit, JoinNoThread, chain, manager, daemon, program, IInv, TypeOK,
       TypeProgram
<1>5. ASSUME NEW t \in Pcb, NEW p \in Slots, copy_process(t, p) PROVE NoThreads'
  <2>1. pm_mode' = pm_mode
    BY <1>5 DEF copy_process, NewPcb, manager
  <2>2. \A u \in Pcb : /\ main_thread'[u] = u /\ thread_n'[u] = Null
                       /\ kids'[u] = {}
    BY <1>5 DEF copy_process, IInv, TypeOK, TypeChain
  <2>3. \A u \in Pcb : pc'[u] \notin {"thread", "join"}
    BY <1>5 DEF copy_process, NewPcb, IInv, TypeOK, TypeProgram
  <2>4. QED
    BY <2>1, <2>2, <2>3
<1>6. QED
  BY <1>1, <1>2, <1>3, <1>4, <1>5, StepCases

-----------------------------------------------------------------------------
(* The queues: a new pcb goes in behind the head, a reaped one goes out.   *)

LEMMA InsertPairs ==
  ASSUME TypeLinks, TypeProgram, LinksPaired, NEW p \in Slots \ live,
         InsertAfterHead(p), live' = live \cup {p}
  PROVE  LinksPaired'
<1> DEFINE h == "init_task_2"
           n == nextp[h]
<1>1. /\ p \in Pcb /\ h \in Pcb /\ p # h /\ p \notin Linked /\ h \in Linked
      /\ Tasks' = Tasks \cup {p} /\ Linked' = Linked \cup {p}
      /\ Tasks \subseteq Linked /\ Linked \subseteq Pcb /\ Null \notin Linked
  BY PcbFacts, TaskFacts
  DEF Tasks, Linked, Heads, Fixed, Servers, TypeProgram
<1>2. /\ nextp' = [nextp EXCEPT ![p] = n, ![h] = p]
      /\ prevp' = [u \in Pcb |-> IF u = p THEN h ELSE IF u = n THEN p ELSE prevp[u]]
  BY TaskFacts DEF InsertAfterHead, InsertBehind
<1>3. n # Null => n \in Tasks /\ prevp[n] = h
  BY <1>1 DEF LinksPaired
<1> HIDE DEF h, n
<1>4. ASSUME NEW t \in Linked', nextp'[t] # Null
      PROVE  nextp'[t] \in Tasks' /\ prevp'[nextp'[t]] = t
  <2>1. CASE t = p
    BY <1>1, <1>2, <1>3, <1>4, <2>1 DEF TypeLinks
  <2>2. CASE t = h
    BY <1>1, <1>2, <2>2 DEF TypeLinks
  <2>3. CASE t # p /\ t # h
    <3>1. nextp'[t] = nextp[t] /\ t \in Linked
      BY <1>1, <1>2, <2>3 DEF TypeLinks
    <3>2. nextp[t] \in Tasks /\ prevp[nextp[t]] = t
      BY <1>4, <3>1 DEF LinksPaired
    <3>3. QED
      BY <1>1, <1>2, <1>3, <2>3, <3>1, <3>2
  <2>4. QED
    BY <2>1, <2>2, <2>3
<1>5. ASSUME NEW t \in Tasks'
      PROVE  prevp'[t] \in Linked' /\ nextp'[prevp'[t]] = t
  <2>1. CASE t = p
    BY <1>1, <1>2, <2>1 DEF TypeLinks
  <2>2. CASE t = n /\ t # p
    BY <1>1, <1>2, <2>2 DEF TypeLinks
  <2>3. CASE t # p /\ t # n
    <3>1. t \in Tasks /\ prevp'[t] = prevp[t]
      BY <1>1, <1>2, <2>3
    <3>2. prevp[t] \in Linked /\ nextp[prevp[t]] = t
      BY <3>1 DEF LinksPaired
    <3>3. prevp[t] # p /\ prevp[t] # h
      BY <1>1, <2>3, <3>2 DEF n
    <3>4. QED
      BY <1>1, <1>2, <3>1, <3>2, <3>3 DEF TypeLinks
  <2>4. QED
    BY <2>1, <2>2, <2>3
<1>6. QED
  BY <1>4, <1>5 DEF LinksPaired

LEMMA UnlinkPairs ==
  ASSUME TypeLinks, TypeProgram, LinksPaired, NEW t \in live,
         nextp' = UnlinkNext(t), prevp' = UnlinkPrev(t), live' = live \ {t}
  PROVE  LinksPaired'
<1> DEFINE a == prevp[t]
           n == nextp[t]
<1>1. /\ t \in Pcb /\ t \in Tasks /\ t \in Linked
      /\ Tasks' = Tasks \ {t} /\ Linked' = Linked \ {t}
      /\ Tasks \subseteq Linked /\ Linked \subseteq Pcb /\ Null \notin Linked
  BY PcbFacts, TaskFacts
  DEF Tasks, Linked, Heads, Fixed, Servers, TypeProgram
<1>2. /\ nextp' = [nextp EXCEPT ![a] = n]
      /\ prevp' = [prevp EXCEPT ![n] = a]
  BY DEF UnlinkNext, UnlinkPrev
<1>3. a \in Linked /\ nextp[a] = t
  BY <1>1 DEF LinksPaired
<1>4. n # Null => n \in Tasks /\ prevp[n] = t
  BY <1>1 DEF LinksPaired
<1> HIDE DEF a, n
<1>5. ASSUME NEW u \in Linked', nextp'[u] # Null
      PROVE  nextp'[u] \in Tasks' /\ prevp'[nextp'[u]] = u
  <2>1. CASE u = a
    <3>1. nextp'[u] = n /\ n \in Tasks /\ prevp[n] = t
      BY <1>1, <1>2, <1>3, <1>4, <1>5, <2>1 DEF TypeLinks
    <3>2. n # t
      BY <1>1, <1>5, <2>1, <3>1 DEF a
    <3>3. QED
      BY <1>1, <1>2, <2>1, <3>1, <3>2 DEF TypeLinks
  <2>2. CASE u # a
    <3>1. nextp'[u] = nextp[u] /\ u \in Linked /\ u # t
      BY <1>1, <1>2, <2>2 DEF TypeLinks
    <3>2. nextp[u] \in Tasks /\ prevp[nextp[u]] = u
      BY <1>5, <3>1 DEF LinksPaired
    <3>3. nextp[u] # t /\ nextp[u] # n
      BY <1>1, <1>4, <2>2, <3>1, <3>2 DEF a
    <3>4. QED
      BY <1>1, <1>2, <3>1, <3>2, <3>3 DEF TypeLinks
  <2>3. QED
    BY <2>1, <2>2
<1>6. ASSUME NEW u \in Tasks'
      PROVE  prevp'[u] \in Linked' /\ nextp'[prevp'[u]] = u
  <2>1. CASE u = n
    <3>1. prevp'[u] = a /\ a # t
      BY <1>1, <1>2, <1>3, <1>6, <2>1 DEF TypeLinks, n
    <3>2. QED
      BY <1>1, <1>2, <1>3, <2>1, <3>1 DEF TypeLinks
  <2>2. CASE u # n
    <3>1. u \in Tasks /\ u # t /\ prevp'[u] = prevp[u]
      BY <1>1, <1>2, <2>2 DEF TypeLinks
    <3>2. prevp[u] \in Linked /\ nextp[prevp[u]] = u
      BY <3>1 DEF LinksPaired
    <3>3. prevp[u] # t /\ prevp[u] # a
      BY <1>3, <2>2, <3>1, <3>2 DEF n
    <3>4. QED
      BY <1>1, <1>2, <3>1, <3>2, <3>3 DEF TypeLinks
  <2>3. QED
    BY <2>1, <2>2
<1>7. QED
  BY <1>5, <1>6 DEF LinksPaired

LEMMA LinksPairedStep == ASSUME AInv, [Next]_vars PROVE LinksPaired'
<1> USE DEF AInv, IInv, TypeOK
<1>1. CASE UNCHANGED <<nextp, prevp, live>>
  BY <1>1 DEF LinksPaired, Tasks, Linked
<1>2. CASE ReapMain
  <2>1. pm_mode = "main" /\ index_pop \in 0..MailSize - 1
    BY <1>2 DEF ReapMain, TypeManager
  <2>2. pm_tmp \in live
    BY <2>1 DEF LettersOnce
  <2>3. QED
    BY <1>2, <2>2, UnlinkPairs DEF ReapMain
<1>3. ASSUME NEW t \in Pcb, NEW p \in Slots, copy_process(t, p)
      PROVE  LinksPaired'
  BY <1>3, InsertPairs DEF copy_process, NewPcb
<1>4. QED
  BY <1>1, <1>2, <1>3, StepCases, QuietLists

-----------------------------------------------------------------------------
(* The cursors: _schedule follows links of tasks that exist, and reaping   *)
(* happens while the application cursor is parked at its head.             *)

LEMMA AdvanceExists ==
  ASSUME AInv, phase = "scan", NEW l \in Levels, Advance(l),
         UNCHANGED <<nextp, prevp, live, cpu>>
  PROVE  CursorsExist'
<1> USE DEF AInv, IInv, TypeOK
<1>1. /\ Cursor \in Linked /\ service_index \in Levels
      /\ head[service_index] \in Linked /\ Linked' = Linked
      /\ Scheduled' = Scheduled /\ Tasks' = Tasks /\ Tasks \subseteq Linked
  BY TaskFacts DEF CursorsExist, Cursor, TypeScan, Tasks, Linked, Scheduled
<1>2. nextp[Cursor] # Null => nextp[Cursor] \in Tasks
  BY <1>1 DEF LinksPaired
<1>3. QED
  BY <1>1, <1>2 DEF Advance, GoToLevel, MoveCursor, CursorsExist, Cursor,
                    TypeScan, cpu

LEMMA CursorsExistStep == ASSUME AInv, [Next]_vars PROVE CursorsExist'
<1> USE DEF AInv, IInv, TypeOK
<1>0. Tasks \subseteq Scheduled /\ Scheduled \subseteq Linked
  BY TaskFacts
<1>1. CASE ScanServer \/ ScanExtra
  BY <1>1, AdvanceExists DEF ScanServer, ScanExtra, links, Levels
<1>2. CASE CallRoundRobin
  <2>1. Cursor \in Linked
    BY DEF CursorsExist, Cursor, TypeScan
  <2>2. QED
    BY <1>2, <2>1 DEF CallRoundRobin, RoundRobinFrom, CursorsExist, Cursor,
                      Tasks, Linked, Scheduled, cpu
<1>3. CASE RoundRobinStep
  <2>1. tmp_task \in Linked /\ service_index \in Levels /\ head[service_index] \in Linked
        /\ Linked' = Linked /\ Scheduled' = Scheduled /\ Tasks' = Tasks
    BY <1>3, TaskFacts
    DEF RoundRobinStep, CursorsExist, TypeScan, Tasks, Linked, Scheduled
  <2>2. nextp[tmp_task] # Null => nextp[tmp_task] \in Tasks
    BY <2>1 DEF LinksPaired
  <2>3. QED
    BY <1>0, <1>3, <2>1, <2>2
    DEF RoundRobinStep, GoToLevel, MoveCursor, CursorsExist, Cursor, TypeScan, cpu
<1>4. CASE switch_to
  BY <1>0, <1>4 DEF switch_to, CursorsExist, Cursor, Tasks, Linked, Scheduled,
                    scanning, cpu
<1>5. CASE Resume \/ timer_tick \/ TakeLetter \/ UNCHANGED vars
  BY <1>5 DEF Resume, timer_tick, TakeLetter, EnterSchedule, CursorsExist, Cursor,
              Tasks, Linked, Scheduled, scanning, cpu, vars
<1>6. ASSUME NEW t \in Pcb, Own(t) PROVE CursorsExist'
  BY <1>6, send_msgIs DEF Own, Yield, StartCopy, CopyFails, Exit, MailboxFull,
       FinishExit, JoinNoThread, schedule, EnterSchedule, CursorsExist, Cursor,
       Tasks, Linked, Scheduled, scanning, cpu
<1>7. ASSUME NEW t \in Pcb, NEW p \in Slots, copy_process(t, p)
      PROVE  CursorsExist'
  BY <1>7 DEF copy_process, NewPcb, Running, CursorsExist, Tasks, Linked,
              Scheduled, scanning
<1>8. CASE ReapMain
  <2>1. /\ current = "pm_daemon" /\ phase = "run" /\ service_index = 0
        /\ pm_tmp \in Slots
    BY <1>8 DEF ReapMain, ReapUninterrupted, ManagerBusy
  <2>2. \A l \in Levels : task_prio_table[l] # pm_tmp
    <3>1. \A l \in Levels \ {0} : task_prio_table[l] \in Heads
      BY <2>1 DEF CursorsParked, head, Heads
    <3>2. task_prio_table[0] = "pm_daemon"
      BY <2>1 DEF CurrentAtCursor, Cursor
    <3>3. QED
      BY <2>1, <3>1, <3>2, PcbFacts
  <2>3. QED
    BY <1>8, <2>1, <2>2 DEF ReapMain, CursorsExist, Tasks, Linked, Scheduled,
         Fixed, Servers, scanning, cpu
<1>9. QED
  BY <1>1, <1>2, <1>3, <1>4, <1>5, <1>6, <1>7, <1>8, StepCases DEF Scheduler

-----------------------------------------------------------------------------
(* The letters.                                                            *)

\* A step that touches neither the mailbox nor what pm_daemon holds, nor makes or
\* unmakes a sender.
LEMMA LettersKept ==
  ASSUME TypeOK, LettersOnce, live \subseteq live',
         UNCHANGED <<pm_mail, pm_index_push, reg, index_pop, pm_tmp, pm_mode>>,
         \A t \in Slots : Writes(t)' \/ Writes(t) => pc'[t] = pc[t],
         \A t \in live : pc[t] \in {"wrap", "posted", "gone"} =>
                           pc'[t] \in {"wrap", "posted", "gone"}
  PROVE  LettersOnce'
<1>1. \A i : Half(i)' <=> Half(i)
  BY DEF Half, Writes
<1>2. \A i \in 0..MailSize - 1 : Complete(i)' <=> Complete(i)
  BY <1>1 DEF Complete
<1>3. /\ \A t, u \in Slots : (Writes(t) /\ Writes(u))' => t = u
      /\ \A t \in Slots : Writes(t)' =>
           /\ t \in live' /\ InArray'
           /\ pm_mail'[pm_index_push'].letter_type <=> pc'[t] # "type"
           /\ pc'[t] \in {"load", "store"} => pm_mail'[pm_index_push'].from = t
           /\ pc'[t] = "store" => reg'[t] = pm_index_push'
  BY DEF LettersOnce, Writes, InArray
<1>4. pm_mode' # "idle" => Complete(index_pop)' /\ pm_tmp' = pm_mail'[index_pop'].from
  BY <1>1 DEF LettersOnce, Complete
<1>5. \A i \in 0..MailSize - 1 : Complete(i)' =>
        pm_mail'[i].from \in live' /\ pc'[pm_mail'[i].from] \in {"wrap", "posted", "gone"}
  BY <1>2 DEF LettersOnce
<1>6. \A i, j \in 0..MailSize - 1 :
        Complete(i)' /\ Complete(j)' /\ pm_mail'[i].from = pm_mail'[j].from => i = j
  BY <1>2 DEF LettersOnce
<1> QED
  BY <1>3, <1>4, <1>5, <1>6 DEF LettersOnce

\* The sender at work is the only one, and the daemon is at another slot.
LEMMA OneSender ==
  ASSUME AInv, NEW t \in Slots, Writes(t)
  PROVE  /\ t \in live /\ InArray /\ pm_index_push \in 0..MailSize - 1
         /\ \A u \in Slots : u # t => ~Writes(u)
         /\ \A i : Half(i) <=> pc[t] # "type" /\ i = pm_index_push
         /\ ~Complete(pm_index_push)
         /\ pm_mode # "idle" => index_pop # pm_index_push
<1>1. t \in live /\ InArray /\ \A u \in Slots : u # t => ~Writes(u)
  BY DEF AInv, LettersOnce
<1>2. pm_mail[pm_index_push].letter_type <=> pc[t] # "type"
  BY DEF AInv, LettersOnce
<1>3. \A i : Half(i) <=> pc[t] # "type" /\ i = pm_index_push
  BY <1>1 DEF Half, Writes
<1>4. ~Complete(pm_index_push)
  BY <1>2, <1>3 DEF Complete
<1>5. pm_index_push \in 0..MailSize - 1
  BY <1>1 DEF AInv, IInv, TypeOK, TypeManager, InArray
<1> QED
  BY <1>1, <1>3, <1>4, <1>5 DEF AInv, LettersOnce

\* A sender goes on with its letter: the other letters are as they were.
LEMMA LettersRest ==
  ASSUME AInv, NEW t \in Slots, Writes(t), t \in live,
         UNCHANGED <<pm_index_push, live, index_pop, pm_tmp, pm_mode>>,
         \A u \in Slots : Writes(u)' <=> u = t,
         \A i : Half(i)' <=> i = pm_index_push,
         \A i \in 0..MailSize - 1 : i # pm_index_push => pm_mail'[i] = pm_mail[i],
         \A u \in Slots : u # t => pc'[u] = pc[u],
         pc'[t] # "type", pm_mail'[pm_index_push].letter_type,
         pc'[t] \in {"load", "store"} => pm_mail'[pm_index_push].from = t,
         pc'[t] = "store" => reg'[t] = pm_index_push
  PROVE  LettersOnce'
<1> USE DEF AInv, IInv, TypeOK, TypeManager, TypeProgram
<1>1. \A i \in 0..MailSize - 1 : Complete(i)' => /\ i # pm_index_push /\ Complete(i)
                                                 /\ pm_mail'[i] = pm_mail[i]
  BY OneSender DEF Complete
<1>2. \A i \in 0..MailSize - 1 : Complete(i)' =>
        pm_mail'[i].from \in live' /\ pc'[pm_mail'[i].from] \in {"wrap", "posted", "gone"}
  <2> SUFFICES ASSUME NEW i \in 0..MailSize - 1, Complete(i)'
               PROVE  /\ pm_mail'[i].from \in live'
                      /\ pc'[pm_mail'[i].from] \in {"wrap", "posted", "gone"}
    OBVIOUS
  <2>1. /\ pm_mail'[i].from \in live
        /\ pc[pm_mail'[i].from] \in {"wrap", "posted", "gone"}
    BY <1>1 DEF LettersOnce
  <2> QED
    BY <2>1 DEF Writes
<1>3. \A i, j \in 0..MailSize - 1 :
        Complete(i)' /\ Complete(j)' /\ pm_mail'[i].from = pm_mail'[j].from => i = j
  BY <1>1 DEF LettersOnce
<1>4. pm_mode' # "idle" => Complete(index_pop)' /\ pm_tmp' = pm_mail'[index_pop'].from
  BY OneSender DEF LettersOnce, Complete
<1>5. InArray'
  BY OneSender DEF InArray
<1> QED
  BY <1>2, <1>3, <1>4, <1>5 DEF LettersOnce

\* The statements of send_msg, one by one.
LEMMA LettersSent ==
  ASSUME AInv, ~torn', NEW t \in Pcb, send_msg(t) PROVE LettersOnce'
<1> USE DEF AInv, IInv, TypeOK, TypeManager, TypeProgram
<1>0. t \in Slots /\ t \in live /\ live' = live /\ UNCHANGED <<index_pop, pm_tmp, pm_mode>>
  BY send_msgIs, PcbFacts DEF Running, CursorsExist, Scheduled, Tasks, Fixed, Servers, Heads, daemon
<1>1. CASE SlotFree(t)
  <2>1. /\ pc' = [pc EXCEPT ![t] = "type"] /\ UNCHANGED <<pm_mail, pm_index_push, reg>>
        /\ pc[t] \in {"user", "exit"} /\ InArray /\ ~pm_mail[pm_index_push].letter_type
        /\ \A u \in live \ {t} : pc[u] # "type"
    BY <1>1 DEF SlotFree, Sends, Exiting, mailbox
  <2>2. \A u \in Slots : ~Writes(u)
    BY <2>1 DEF LettersOnce, Writes
  <2>3. \A u \in Slots : Writes(u)' => u = t
    BY <2>1, <2>2 DEF Writes
  <2>4. \A i : ~Half(i) /\ ~Half(i)'
    BY <2>1, <2>2 DEF Half, Writes
  <2>5. \A i : Complete(i)' <=> Complete(i)
    BY <2>1, <2>4 DEF Complete
  <2>6. \A i \in 0..MailSize - 1 : Complete(i)' =>
          pm_mail'[i].from \in live' /\ pc'[pm_mail'[i].from] \in {"wrap", "posted", "gone"}
    BY <1>0, <2>1, <2>5, PcbFacts DEF LettersOnce
  <2>7. \A i, j \in 0..MailSize - 1 :
          Complete(i)' /\ Complete(j)' /\ pm_mail'[i].from = pm_mail'[j].from => i = j
    BY <2>1, <2>5 DEF LettersOnce
  <2>8. pm_mode' # "idle" => Complete(index_pop)' /\ pm_tmp' = pm_mail'[index_pop'].from
    BY <1>0, <2>1, <2>4 DEF LettersOnce, Complete
  <2>9. pc'[t] = "type" /\ InArray' /\ ~pm_mail'[pm_index_push'].letter_type
    BY <2>1 DEF InArray
  <2> QED
    BY <1>0, <2>3, <2>6, <2>7, <2>8, <2>9 DEF LettersOnce
<1>2. CASE BehindArray(t)
  BY <1>2 DEF BehindArray
<1>3. CASE SetType(t)
  <2>1. /\ pc' = [pc EXCEPT ![t] = "from"] /\ pc[t] = "type" /\ UNCHANGED <<pm_index_push, reg>>
        /\ pm_mail' = [pm_mail EXCEPT ![pm_index_push].letter_type = TRUE]
    BY <1>3 DEF SetType, Sends
  <2>2. Writes(t)
    BY <2>1 DEF Writes
  <2>3. pc'[t] = "from" /\ \A u \in Slots : Writes(u)' <=> u = t
    BY <1>0, <2>1, <2>2, OneSender, PcbFacts DEF Writes
  <2>4. \A i : Half(i)' <=> i = pm_index_push
    BY <1>0, <2>1, <2>3 DEF Half, Writes
  <2>5. /\ pm_index_push \in 0..MailSize - 1 /\ pm_mail'[pm_index_push].letter_type
        /\ \A i \in 0..MailSize - 1 : i # pm_index_push => pm_mail'[i] = pm_mail[i]
    BY <1>0, <2>1, <2>2, OneSender
  <2> QED
    BY <1>0, <2>1, <2>2, <2>3, <2>4, <2>5, LettersRest
<1>4. CASE SetFrom(t)
  <2>1. /\ pc' = [pc EXCEPT ![t] = "load"] /\ pc[t] = "from" /\ UNCHANGED <<pm_index_push, reg>>
        /\ pm_mail' = [pm_mail EXCEPT ![pm_index_push].from = t]
    BY <1>4 DEF SetFrom, Sends
  <2>2. Writes(t)
    BY <2>1 DEF Writes
  <2>3. pc'[t] = "load" /\ \A u \in Slots : Writes(u)' <=> u = t
    BY <1>0, <2>1, <2>2, OneSender, PcbFacts DEF Writes
  <2>4. \A i : Half(i)' <=> i = pm_index_push
    BY <1>0, <2>1, <2>3 DEF Half, Writes
  <2>5. /\ pm_index_push \in 0..MailSize - 1
        /\ pm_mail[pm_index_push].letter_type
        /\ pm_mail'[pm_index_push].from = t
        /\ \A i \in 0..MailSize - 1 : i # pm_index_push => pm_mail'[i] = pm_mail[i]
    BY <1>0, <2>1, <2>2, OneSender DEF LettersOnce
  <2>6. pm_mail'[pm_index_push].letter_type
    BY <2>1, <2>5
  <2>7. \A u \in Slots : u # t => pc'[u] = pc[u]
    BY <2>1, PcbFacts
  <2> QED
    BY <1>0, <2>1, <2>2, <2>3, <2>4, <2>5, <2>6, <2>7, LettersRest
<1>5. CASE LoadPush(t)
  <2>1. /\ pc' = [pc EXCEPT ![t] = "store"] /\ pc[t] = "load" /\ UNCHANGED <<pm_index_push, pm_mail>>
        /\ reg' = [reg EXCEPT ![t] = pm_index_push]
    BY <1>5 DEF LoadPush, Sends
  <2>2. Writes(t)
    BY <2>1 DEF Writes
  <2>3. pc'[t] = "store" /\ \A u \in Slots : Writes(u)' <=> u = t
    BY <1>0, <2>1, <2>2, OneSender, PcbFacts DEF Writes
  <2>4. \A i : Half(i)' <=> i = pm_index_push
    BY <1>0, <2>1, <2>3 DEF Half, Writes
  <2>5. /\ pm_index_push \in 0..MailSize - 1 /\ reg'[t] = pm_index_push
        /\ pm_mail[pm_index_push].letter_type /\ pm_mail[pm_index_push].from = t
    BY <1>0, <2>1, <2>2, OneSender DEF LettersOnce
  <2>6. pm_mail' = pm_mail /\ \A u \in Slots : u # t => pc'[u] = pc[u]
    BY <2>1, PcbFacts
  <2>7. /\ \A i \in 0..MailSize - 1 : i # pm_index_push => pm_mail'[i] = pm_mail[i]
        /\ pm_mail'[pm_index_push].letter_type /\ pm_mail'[pm_index_push].from = t
    BY <2>5, <2>6
  <2> QED
    BY <1>0, <2>1, <2>2, <2>3, <2>4, <2>5, <2>6, <2>7, LettersRest
<1>6. CASE StorePush(t)
  <2>1. /\ pc' = [pc EXCEPT ![t] = "wrap"] /\ pc[t] = "store" /\ UNCHANGED pm_mail
    BY <1>6 DEF StorePush, Sends
  <2>2. Writes(t)
    BY <2>1 DEF Writes
  <2>3. \A u \in Slots : ~Writes(u)'
    BY <1>0, <2>1, <2>2, OneSender, PcbFacts DEF Writes
  <2>4. \A i : ~Half(i)'
    BY <2>3 DEF Half, Writes
  <2>5. pm_mail[pm_index_push].from = t /\ pm_index_push \in 0..MailSize - 1
    BY <1>0, <2>1, <2>2, OneSender DEF LettersOnce
  <2>6. \A i \in 0..MailSize - 1 : Complete(i)' => i = pm_index_push \/ Complete(i)
    BY <1>0, <2>1, <2>2, <2>4, OneSender DEF Complete
  <2>7. \A i \in 0..MailSize - 1 : Complete(i) =>
          pm_mail[i].from # t /\ pm_mail[i].from \in live /\ pc[pm_mail[i].from] \in {"wrap", "posted", "gone"}
    BY <2>1 DEF LettersOnce
  <2>8. \A i \in 0..MailSize - 1 : Complete(i)' =>
          pm_mail'[i].from \in live' /\ pc'[pm_mail'[i].from] \in {"wrap", "posted", "gone"}
    BY <1>0, <2>1, <2>5, <2>6, <2>7, PcbFacts
  <2>9. \A i, j \in 0..MailSize - 1 :
          Complete(i)' /\ Complete(j)' /\ pm_mail'[i].from = pm_mail'[j].from => i = j
    BY <2>1, <2>5, <2>6, <2>7 DEF LettersOnce
  <2>10. pm_mode' # "idle" => Complete(index_pop)' /\ pm_tmp' = pm_mail'[index_pop'].from
    BY <1>0, <2>1, <2>4 DEF LettersOnce, Complete
  <2> QED
    BY <2>3, <2>8, <2>9, <2>10 DEF LettersOnce
<1>7. CASE Wrap(t)
  <2>1. /\ pc' = [pc EXCEPT ![t] = "posted"] /\ pc[t] = "wrap" /\ UNCHANGED <<pm_mail, reg>>
        /\ pm_index_push' = IF pm_index_push = MailSize THEN 0 ELSE pm_index_push
    BY <1>7 DEF Wrap, Sends
  <2>2. \A u \in Slots : Writes(u)' \/ Writes(u) => pc'[u] = pc[u] /\ Writes(u)
    BY <1>0, <2>1, PcbFacts DEF Writes
  <2>3. CASE pm_index_push' = pm_index_push
    BY <1>0, <2>1, <2>2, <2>3, LettersKept, PcbFacts
  <2>4. CASE pm_index_push = MailSize
    <3>1. \A u \in Slots : ~Writes(u)
      BY <2>4, OneSender DEF BoundsAssumption
    <3>2. \A u \in Slots : ~Writes(u)'
      BY <2>2, <3>1
    <3>3. \A i : ~Half(i) /\ ~Half(i)'
      BY <3>1, <3>2 DEF Half, Writes
    <3>4. \A i : Complete(i)' <=> Complete(i)
      BY <2>1, <3>3 DEF Complete
    <3>5. \A i \in 0..MailSize - 1 : Complete(i)' =>
            pm_mail'[i].from \in live' /\ pc'[pm_mail'[i].from] \in {"wrap", "posted", "gone"}
      BY <1>0, <2>1, <3>4, PcbFacts DEF LettersOnce
    <3>6. \A i, j \in 0..MailSize - 1 :
            Complete(i)' /\ Complete(j)' /\ pm_mail'[i].from = pm_mail'[j].from => i = j
      BY <2>1, <3>4 DEF LettersOnce
    <3>7. pm_mode' # "idle" => Complete(index_pop)' /\ pm_tmp' = pm_mail'[index_pop'].from
      BY <1>0, <2>1, <3>3 DEF LettersOnce, Complete
    <3> QED
      BY <3>2, <3>5, <3>6, <3>7 DEF LettersOnce
  <2> QED
    BY <2>1, <2>3, <2>4
<1> QED
  BY <1>1, <1>2, <1>3, <1>4, <1>5, <1>6, <1>7 DEF send_msg

LEMMA LettersOnceStep == ASSUME AInv, [Next]_vars, ~torn' PROVE LettersOnce'
<1> USE DEF AInv, IInv, TypeOK, TypeManager, TypeProgram
<1>1. CASE Scheduler \/ timer_tick \/ UNCHANGED vars
  <2>1. UNCHANGED <<pm_mail, pm_index_push, reg, index_pop, pm_tmp, pm_mode, live, pc>>
    BY <1>1 DEF Scheduler, ScanServer, ScanExtra, CallRoundRobin, RoundRobinStep,
         switch_to, Resume, timer_tick, vars, manager, program
  <2> QED
    BY <2>1, LettersKept
<1>2. CASE TakeLetter
  <2>1. /\ UNCHANGED <<pm_mail, pm_index_push, reg, index_pop, live, pc>>
        /\ pm_tmp' = pm_mail[index_pop].from /\ pm_mail[index_pop].letter_type
        /\ ~Half(index_pop)
    BY <1>2 DEF TakeLetter, mailbox, program
  <2>2. \A i : Half(i)' <=> Half(i)
    BY <2>1 DEF Half
  <2>3. \A i : Complete(i)' <=> Complete(i)
    BY <2>1, <2>2 DEF Complete
  <2>4. Complete(index_pop)'
    BY <2>1, <2>2 DEF Complete
  <2>5. /\ \A t \in Slots : Writes(t)' <=> Writes(t)
        /\ InArray' <=> InArray
    BY <2>1 DEF Writes, InArray
  <2> QED
    BY <2>1, <2>3, <2>4, <2>5 DEF LettersOnce
<1>3. CASE ReapMain
  <2>1. pm_mode = "main" /\ pm_tmp \in Slots /\ index_pop \in 0..MailSize - 1
    BY <1>3 DEF ReapMain, ManagerBusy
  <2>2. Complete(index_pop) /\ pm_tmp = pm_mail[index_pop].from
    BY <2>1 DEF LettersOnce
  <2>3. /\ pm_mail' = [pm_mail EXCEPT ![index_pop].letter_type = FALSE] /\ pm_mode' = "idle"
        /\ live' = live \ {pm_tmp} /\ UNCHANGED <<pm_index_push, reg, pc>>
    BY <1>3, <2>1, PcbFacts DEF ReapMain, DoneWith, NoThreads, program
  <2>4. pc[pm_tmp] \in {"wrap", "posted", "gone"}
    BY <2>1, <2>2 DEF LettersOnce
  <2>5. \A i : Half(i)' <=> Half(i)
    BY <2>3 DEF Half
  <2>6. /\ ~pm_mail'[index_pop].letter_type
        /\ \A i \in 0..MailSize - 1 : i # index_pop => pm_mail'[i] = pm_mail[i]
    BY <2>1, <2>3
  <2>7. \A i \in 0..MailSize - 1 : Complete(i)' =>
          i # index_pop /\ Complete(i) /\ pm_mail'[i] = pm_mail[i] /\ pm_mail[i].from # pm_tmp
    BY <2>1, <2>2, <2>5, <2>6 DEF Complete, LettersOnce
  <2>8. \A t \in Slots : Writes(t)' =>
          /\ Writes(t) /\ t # pm_tmp
          /\ pm_index_push # index_pop /\ pm_index_push \in 0..MailSize - 1
          /\ InArray'
    BY <2>1, <2>3, <2>4, OneSender DEF Writes, InArray
  <2>9. \A t \in Slots : Writes(t)' =>
           /\ t \in live' /\ InArray'
           /\ pm_mail'[pm_index_push'].letter_type <=> pc'[t] # "type"
           /\ pc'[t] \in {"load", "store"} => pm_mail'[pm_index_push'].from = t
           /\ pc'[t] = "store" => reg'[t] = pm_index_push'
    BY <2>3, <2>6, <2>8 DEF LettersOnce
  <2>10. \A t, u \in Slots : (Writes(t) /\ Writes(u))' => t = u
    BY <2>8 DEF LettersOnce
  <2>11. /\ \A i \in 0..MailSize - 1 : Complete(i)' =>
              pm_mail'[i].from \in live' /\ pc'[pm_mail'[i].from] \in {"wrap", "posted", "gone"}
         /\ \A i, j \in 0..MailSize - 1 :
              Complete(i)' /\ Complete(j)' /\ pm_mail'[i].from = pm_mail'[j].from => i = j
    BY <2>3, <2>7 DEF LettersOnce
  <2> QED
    BY <2>3, <2>9, <2>10, <2>11 DEF LettersOnce
<1>4. ASSUME NEW t \in Pcb, Own(t) PROVE LettersOnce'
  <2>1. CASE Yield(t) \/ StartCopy(t, "fork") \/ CopyFails(t) \/ MailboxFull(t)
             \/ FinishExit(t) \/ JoinNoThread(t)
    <3>1. /\ UNCHANGED <<pm_mail, pm_index_push, reg, index_pop, pm_tmp, pm_mode, live>>
          /\ \A u \in Slots : Writes(u)' \/ Writes(u) => pc'[u] = pc[u]
          /\ \A u \in Slots : pc[u] \in {"wrap", "posted", "gone"} =>
                                 pc'[u] \in {"wrap", "posted", "gone"}
      BY <2>1, PcbFacts DEF Yield, StartCopy, CopyFails, MailboxFull, FinishExit,
                  JoinNoThread, Exiting, manager, program, Writes
    <3>2. QED
      BY <3>1, LettersKept
  <2>2. CASE send_msg(t)
    BY <2>2, LettersSent
  <2>3. QED
    BY <1>4, <2>1, <2>2 DEF Own, Exit
<1>5. ASSUME NEW t \in Pcb, NEW p \in Slots, copy_process(t, p)
      PROVE  LettersOnce'
  <2>1. /\ UNCHANGED <<pm_mail, pm_index_push, reg, index_pop, pm_tmp, pm_mode>>
        /\ live' = live \cup {p} /\ p \notin live /\ pc[t] = "fork"
        /\ pc' = [pc EXCEPT ![t] = "user", ![p] = "user"]
    BY <1>5 DEF copy_process, NewPcb, manager
  <2>2. ~Writes(p) /\ ~Writes(t)
    BY <2>1 DEF LettersOnce, Writes
  <2>3. /\ \A u \in Slots : Writes(u)' \/ Writes(u) => pc'[u] = pc[u]
        /\ \A u \in live : pc[u] \in {"wrap", "posted", "gone"} =>
                             pc'[u] \in {"wrap", "posted", "gone"}
    BY <2>1, <2>2, PcbFacts DEF Writes
  <2>4. QED
    BY <2>1, <2>3, LettersKept
<1>6. QED
  BY <1>1, <1>2, <1>3, <1>4, <1>5, StepCases

-----------------------------------------------------------------------------
(* preempt_count.                                                          *)

LEMMA CountedFacts ==
  ASSUME AInv
  PROVE  /\ current \in Scheduled /\ Cell(current) = current /\ current \in Pcb
         /\ Scheduled \subseteq Pcb
         /\ \A t \in Scheduled : preempt_count[t] \in Int /\ leaks[t] \in Nat
         /\ phase # "run" => preempt_count[Cell(current)] > 0
BY TaskFacts DEF AInv, IInv, TypeOK, TypeAccount, TypeProgram, CursorsExist,
                 Counted, Disabled, Running

\* A task enters _schedule, possibly after a change of pc that counts nothing.
LEMMA EnterCounted ==
  ASSUME AInv, phase = "run", EnterSchedule, UNCHANGED <<current, live, leaks>>,
         \A t \in Scheduled :
           pc'[t] \in {"fork", "thread"} <=> pc[t] \in {"fork", "thread"}
  PROVE  Counted'
<1>1. preempt_count' = [preempt_count EXCEPT ![current] = preempt_count[current] + 1]
      /\ phase' = "scan"
  BY CountedFacts DEF EnterSchedule
<1>2. Scheduled' = Scheduled
  BY DEF Scheduled, Tasks
<1>3. SUFFICES ASSUME NEW t \in Scheduled PROVE preempt_count'[t] = Disabled(t)'
  BY <1>2 DEF Counted
<1>4. preempt_count[t] = Disabled(t)
  BY DEF AInv, Counted
<1>5. CASE t = current
  BY <1>1, <1>4, <1>5, CountedFacts DEF AInv, IInv, TypeOK, TypeAccount, Disabled, Running
<1>6. CASE t # current
  BY <1>1, <1>4, <1>6, CountedFacts DEF AInv, IInv, TypeOK, TypeAccount, Disabled, Running
<1>7. QED
  BY <1>5, <1>6

LEMMA CountedStep == ASSUME AInv, [Next]_vars PROVE Counted'
<1> USE CountedFacts DEF AInv, IInv, TypeOK, TypeAccount, TypeProgram
<1>1. CASE ScanServer \/ ScanExtra \/ CallRoundRobin \/ RoundRobinStep
           \/ switch_to \/ TakeLetter \/ UNCHANGED vars
  <2>1. /\ UNCHANGED <<preempt_count, live, leaks, pc>>
        /\ \A t \in Pcb : Running(t)' = Running(t)
    BY <1>1 DEF ScanServer, ScanExtra, CallRoundRobin, RoundRobinStep, switch_to,
       TakeLetter, vars, account, program, cpu, Advance, GoToLevel, Running
  <2>2. QED
    BY <2>1 DEF Counted, Disabled, Scheduled, Tasks
<1>2. CASE Resume
  <2>1. /\ preempt_count' = [preempt_count EXCEPT ![current] = preempt_count[current] - 1]
        /\ phase' = "run" /\ phase = "resume"
        /\ UNCHANGED <<current, live, leaks, pc>>
    BY <1>2 DEF Resume, Enable, cpu, program
  <2>2. QED
    BY <2>1 DEF Counted, Disabled, Running, Scheduled, Tasks
<1>3. CASE timer_tick
  <2>1. CASE UNCHANGED <<phase, preempt_count>>
    BY <1>3, <2>1 DEF timer_tick, cpu, program, Counted, Disabled, Running,
                      Scheduled, Tasks
  <2>2. CASE preempt_count[Cell(current)] <= 0 /\ EnterSchedule
    BY <1>3, <2>2, EnterCounted DEF timer_tick, cpu, program
  <2>3. QED
    BY <1>3, <2>1, <2>2 DEF timer_tick
<1>4. CASE ReapMain
  BY <1>4 DEF ReapMain, account, cpu, program, Counted, Disabled, Running,
              Scheduled, Tasks
<1>5. ASSUME NEW t \in Pcb, Own(t) PROVE Counted'
  <2>1. CASE Yield(t) \/ MailboxFull(t) \/ FinishExit(t)
    BY <2>1, EnterCounted DEF Yield, MailboxFull, FinishExit, Exiting, Running,
       schedule, cpu, program
  <2>2. CASE send_msg(t) \/ JoinNoThread(t)
    BY <2>2, send_msgIs DEF JoinNoThread, Exiting, Running, account, cpu, Counted,
       Disabled, Scheduled, Tasks
  <2>3. CASE StartCopy(t, "fork")
    BY <2>3 DEF StartCopy, cpu, Counted, Disabled, Running, Scheduled, Tasks
  <2>4. CASE CopyFails(t)
    BY <2>4 DEF CopyFails, account, cpu, Counted, Disabled, Running, Scheduled, Tasks
  <2>5. QED
    BY <1>5, <2>1, <2>2, <2>3, <2>4 DEF Own, Exit
<1>6. ASSUME NEW t \in Pcb, NEW p \in Slots, copy_process(t, p)
      PROVE  Counted'
  <2>1. /\ t = current /\ phase = "run" /\ p \notin live /\ pc[t] = "fork"
        /\ preempt_count' = [preempt_count EXCEPT ![t] = preempt_count[t] - 1, ![p] = 1]
        /\ pc' = [pc EXCEPT ![t] = "user", ![p] = "user"]
        /\ leaks' = [leaks EXCEPT ![p] = 0]
        /\ UNCHANGED <<current, phase>> /\ live' = live \cup {p}
    BY <1>6 DEF copy_process, NewPcb, Running
  <2>2. /\ p # t /\ p \in Pcb /\ p \notin Scheduled
        /\ Scheduled' = Scheduled \cup {p}
    BY <2>1, PcbFacts DEF Scheduled, Tasks, Fixed, Servers, Heads
  <2>3. QED
    BY <2>1, <2>2 DEF Counted, Disabled, Running
<1>7. QED
  BY <1>1, <1>2, <1>3, <1>4, <1>5, <1>6, StepCases DEF Scheduler

-----------------------------------------------------------------------------
(* The registers of prev.                                                  *)

LEMMA SavedLateStep == ASSUME AInv, [Next]_vars PROVE SavedLate'
<1> USE DEF AInv, IInv, TypeOK, TypeProgram, TypeCpu
<1>1. CASE switch_to
  <2>1. CASE UNCHANGED cpu
    BY <1>1, <2>1 DEF switch_to, cpu, SavedLate, Tasks
  <2>2. CASE ~SameTask
    <3>1. /\ ctx' = WriteBack /\ prev' = current /\ live' = live
      BY <1>1, <2>2 DEF switch_to
    <3>2. current \in Slots => current \in live
      BY PcbFacts DEF CursorsExist, Scheduled, Tasks, Fixed, Servers, Heads
    <3>3. \A t \in Tasks : t \in Pcb /\ ctx[t] \in {"own", "behind", "foreign"}
      BY TaskFacts
    <3>4. QED
      BY <3>1, <3>2, <3>3 DEF WriteBack, SavedLate, Tasks
  <2>3. QED
    BY <1>1, <2>1, <2>2 DEF switch_to
<1>2. CASE ScanServer \/ ScanExtra \/ CallRoundRobin \/ RoundRobinStep \/ Resume
           \/ timer_tick \/ TakeLetter \/ UNCHANGED vars
  BY <1>2 DEF ScanServer, ScanExtra, CallRoundRobin, RoundRobinStep, Resume,
       timer_tick, TakeLetter, vars, cpu, SavedLate, Tasks
<1>3. CASE ReapMain
  <2>1. current = "pm_daemon"
    BY <1>3 DEF ReapMain, ReapUninterrupted
  <2>2. QED
    BY <1>3, <2>1 DEF ReapMain, cpu, SavedLate, Tasks
<1>4. ASSUME NEW t \in Pcb, Own(t) PROVE SavedLate'
  BY <1>4, send_msgIs DEF Own, Yield, StartCopy, CopyFails, Exit, MailboxFull,
       FinishExit, JoinNoThread, cpu, SavedLate, Tasks
<1>5. ASSUME NEW t \in Pcb, NEW p \in Slots, copy_process(t, p)
      PROVE  SavedLate'
  <2>1. /\ t = current /\ pc[t] = "fork" /\ p \notin live /\ p \in Pcb
        /\ ctx' = [ctx EXCEPT ![p] = "own"] /\ UNCHANGED <<current, prev>>
        /\ live' = live \cup {p}
    BY <1>5, PcbFacts DEF copy_process, NewPcb, Running
  <2>2. current # "pm_daemon"
    BY <2>1, PcbFacts DEF ServersStay
  <2>3. p # prev /\ p \notin Tasks /\ Tasks' = Tasks \cup {p} /\ Tasks \subseteq Pcb
    BY <2>1, <2>2, TaskFacts, PcbFacts DEF SavedLate, Tasks, Fixed, Servers
  <2>4. QED
    BY <2>1, <2>3 DEF SavedLate
<1>6. QED
  BY <1>1, <1>2, <1>3, <1>4, <1>5, StepCases DEF Scheduler

-----------------------------------------------------------------------------
LEMMA NextAInv == AInv /\ [Next]_vars => AInv' \/ torn'
<1> SUFFICES ASSUME AInv, [Next]_vars, ~torn' PROVE AInv'
  OBVIOUS
<1>1. ApplicationsOnly' /\ IInv'
  BY NextIInv DEF AInv, ApplicationsOnly
<1>2. QED
  BY <1>1, NoThreadsStep, LinksPairedStep, CursorsExistStep, LettersOnceStep,
     CountedStep, SavedLateStep DEF AInv

\* What is torn stays so.
LEMMA TornStays == torn /\ [Next]_vars => torn'
<1> SUFFICES ASSUME torn, [Next]_vars PROVE torn'
  OBVIOUS
<1>1. CASE Scheduler \/ timer_tick \/ ProcessManager
  BY <1>1 DEF Scheduler, ScanServer, ScanExtra, CallRoundRobin, RoundRobinStep, switch_to,
       Resume, timer_tick, ProcessManager, TakeLetter, ReapMain, ReapChild, DoneWith, manager
<1>2. ASSUME NEW t \in Pcb, Yield(t) \/ Create(t) PROVE torn'
  BY <1>2 DEF Yield, Create, StartCopy, CopyFails, copy_process, thread_create, NewPcb, manager
<1>3. ASSUME NEW t \in Pcb, Exit(t) \/ Join(t) PROVE torn'
  BY <1>3 DEF Exit, MailboxFull, FinishExit, send_msg, SlotFree, BehindArray, SetType, SetFrom,
       LoadPush, StorePush, Wrap, Join, StartJoin, JoinNoThread, JoinWait, JoinEnds, manager
<1>4. CASE UNCHANGED vars
  BY <1>4 DEF vars, manager
<1> QED
  BY <1>1, <1>2, <1>3, <1>4 DEF Next

LEMMA AppsInvariance == ApplicationsOnly => (Spec => [](torn \/ AInv))
<1>1. QED
  BY InitAInv, NextAInv, TornStays, PTL DEF Spec

\* However many processes are created, exit and are reaped, in whatever order
\* and with whatever failures, as long as no send_msg is torn: no run queue leads
\* to a freed page, and unlinking always finds the neighbours that the queue has
\* (fork.c, pm_deamon.c).
THEOREM QueuesPaired == ApplicationsOnly => (Spec => [](~torn => LinksPaired))
<1>1. torn \/ AInv => (~torn => LinksPaired)
  BY DEF AInv
<1>2. QED
  BY <1>1, AppsInvariance, PTL

\* Each task's preempt_count is what its own code and sched.c disabled, and in
\* _schedule it is positive: a tick never enters _schedule a second time (as long
\* as no send_msg is torn).
THEOREM PreemptIsBalanced == ApplicationsOnly => (Spec => []PreemptBalanced)
<1>1. torn \/ AInv => PreemptBalanced
  <2> SUFFICES ASSUME AInv PROVE PreemptBalanced
    BY DEF PreemptBalanced
  <2>1. Tasks \subseteq Scheduled
    BY DEF Scheduled
  <2>2. \A t \in Tasks : preempt_count[t] = Disabled(t)
    BY <2>1 DEF AInv, Counted
  <2>3. QED
    BY <2>2, CountedFacts DEF PreemptBalanced, Disabled, Tasks
<1>2. QED
  BY <1>1, AppsInvariance, PTL

\* switch_to writes the registers of the task that lost the CPU one switch late,
\* and still never into a page that was freed and handed out again, because only
\* pm_daemon frees pages and only others allocate pcbs (as long as no send_msg is
\* torn: after that the daemon may free the page of a task that runs on).
THEOREM RegistersSaved == ApplicationsOnly => (Spec => []ContextSaved)
<1>1. torn \/ AInv => ContextSaved
  BY DEF AInv, SavedLate, ContextSaved, Tasks
<1>2. QED
  BY <1>1, AppsInvariance, PTL
-----------------------------------------------------------------------------
(* What a run queue leads to.                                              *)

LEMMA LeastOf ==
  ASSUME NEW S \in SUBSET Nat, S # {}
  PROVE  \E x \in S : \A y \in S : x <= y
<1> DEFINE R == {ss \in Nat \X Nat : ss[1] < ss[2]}
<1>1. IsWellFoundedOn(R, Nat)
  BY NatLessThanWellFounded DEF OpToRel
<1>2. PICK x \in S : \A y \in S : ~(<<y, x>> \in R)
  <2> HIDE DEF R
  <2> QED BY <1>1, WFMin
<1>3. ASSUME NEW y \in S PROVE x <= y
  <2>1. x \in Nat /\ y \in Nat
    OBVIOUS
  <2>2. ~(<<y, x>>[1] < <<y, x>>[2])
    BY <1>2, <2>1
  <2> QED BY <2>1, <2>2
<1> QED BY <1>3

Nth(s, k) == IF k \in 1..Len(s) THEN s[k] ELSE Null
Once(s) == \A i \in 1..Len(s), j \in 1..Len(s) : s[i] = s[j] => i = j

\* f leads from h along s.
Chain(f, h, s) == f[h] = Nth(s, 1) /\ \A k \in 1..Len(s) : f[s[k]] = Nth(s, k + 1)

Walk(f, h, n, g) ==
  g = [k \in 0..n |-> IF k = 0 THEN h ELSE IF g[k - 1] = Null THEN Null ELSE f[g[k - 1]]]
PathIn(f, h) ==
  LET N == Cardinality(Pcb)
      g == CHOOSE w : Walk(f, h, N, w)
  IN [k \in 1..Cardinality({j \in 1..N : g[j] # Null}) |-> g[k]]

LEMMA PathIs ==
  \A l \in Levels : Path(l) = PathIn(nextp, head[l]) /\ Path(l)' = PathIn(nextp', head[l])
BY DEF Path, PathIn, Walk, Follow

Agrees(g, s, n) == \A k \in 1..n : g[k] = Nth(s, k)

LEMMA ChainWalks ==
  ASSUME NEW f, NEW h \in Pcb, NEW s \in Seq(Pcb), Chain(f, h, s), NEW n \in Nat
  PROVE  /\ \E g : Walk(f, h, n, g)
         /\ \A g : Walk(f, h, n, g) => Agrees(g, s, n)
<1> DEFINE w == [k \in 0..n |-> IF k = 0 THEN h ELSE Nth(s, k)]
<1>0. /\ Len(s) \in Nat /\ h # Null
      /\ \A k \in 1..Len(s) : s[k] \in Pcb /\ s[k] # Null
  BY PcbFacts
<1>1. ASSUME NEW k \in 0..n
      PROVE  w[k] = IF k = 0 THEN h ELSE IF w[k - 1] = Null THEN Null ELSE f[w[k - 1]]
  <2>1. CASE k = 0
    BY <2>1
  <2>2. CASE k = 1
    <3>1. w[k - 1] = h /\ w[k] = Nth(s, 1)
      BY <2>2
    <3> HIDE DEF w
    <3> QED
      BY <1>0, <2>2, <3>1 DEF Chain
  <2>3. CASE k > 1
    <3>1. w[k - 1] = Nth(s, k - 1) /\ w[k] = Nth(s, k) /\ k - 1 \in Nat /\ k - 1 >= 1
      BY <2>3
    <3> HIDE DEF w
    <3>2. CASE k - 1 <= Len(s)
      <4>1. k - 1 \in 1..Len(s) /\ Nth(s, k - 1) = s[k - 1] /\ k - 1 + 1 = k
        BY <1>0, <3>1, <3>2 DEF Nth
      <4>2. f[s[k - 1]] = Nth(s, k)
        BY <4>1 DEF Chain
      <4> QED
        BY <1>0, <2>3, <3>1, <4>1, <4>2
    <3>3. CASE ~(k - 1 <= Len(s))
      <4>1. Nth(s, k - 1) = Null /\ Nth(s, k) = Null
        BY <1>0, <3>1, <3>3 DEF Nth
      <4> QED
        BY <2>3, <3>1, <4>1
    <3> QED
      BY <3>2, <3>3
  <2> QED
    BY <2>1, <2>2, <2>3
<1>2. Walk(f, h, n, w)
  <2>1. w = [k \in 0..n |-> w[k]]
    OBVIOUS
  <2> HIDE DEF w
  <2> QED
    BY <1>1, <2>1 DEF Walk
<1>3. ASSUME NEW g, Walk(f, h, n, g) PROVE \A k \in 0..n : g[k] = w[k]
  <2> DEFINE T == {k \in 0..n : g[k] # w[k]}
  <2> SUFFICES ASSUME T # {} PROVE FALSE
    OBVIOUS
  <2>1. PICK k \in T : \A j \in T : k <= j
    <3>1. T \in SUBSET Nat
      OBVIOUS
    <3> HIDE DEF T
    <3> QED BY <3>1, LeastOf
  <2>2. k \in 0..n /\ g[k] # w[k]
    OBVIOUS
  <2> HIDE DEF w
  <2>3. \A j \in 0..n : g[j] = IF j = 0 THEN h ELSE IF g[j - 1] = Null THEN Null ELSE f[g[j - 1]]
    BY <1>3 DEF Walk
  <2>4. k # 0
    BY <1>1, <2>2, <2>3
  <2>5. k - 1 \in 0..n /\ k - 1 \notin T
    BY <2>1, <2>2, <2>4
  <2>6. g[k - 1] = w[k - 1]
    BY <2>5
  <2> QED
    BY <1>1, <2>2, <2>3, <2>4, <2>6
<1>4. \A k \in 1..n : k \in 0..n /\ w[k] = Nth(s, k)
  OBVIOUS
<1>5. ASSUME NEW g, Walk(f, h, n, g) PROVE Agrees(g, s, n)
  BY <1>3, <1>4, <1>5 DEF Agrees
<1> QED
  BY <1>2, <1>5

LEMMA IntervalCounts == ASSUME NEW n \in Nat PROVE Cardinality(1..n) = n
<1>1. Cardinality(1..n) = IF 1 > n THEN 0 ELSE n - 1 + 1
  BY FS_Interval
<1> QED
  BY <1>1

LEMMA ChainIsPath ==
  ASSUME IsFiniteSet(Slots), NEW f, NEW h \in Pcb, NEW s \in Seq(Pcb), Once(s), Chain(f, h, s)
  PROVE  PathIn(f, h) = s
<1> DEFINE N == Cardinality(Pcb)
           L == Len(s)
           g == CHOOSE w : Walk(f, h, N, w)
<1>1. IsFiniteSet(Pcb) /\ N \in Nat
  <2> DEFINE a == {"init_task_0"} \cup {"init_task_1"}
             b == a \cup {"init_task_2"}
             c == b \cup {"pm_daemon"}
             d == c \cup {"compt_daemon"}
             e == d \cup {"fs_daemon"}
  <2>2. IsFiniteSet(e \cup {"shell"})
    <3>1. IsFiniteSet(a)
      BY FS_Singleton, FS_AddElement
    <3>2. IsFiniteSet(b)
      BY <3>1, FS_AddElement
    <3>3. IsFiniteSet(c)
      BY <3>2, FS_AddElement
    <3>4. IsFiniteSet(d)
      BY <3>3, FS_AddElement
    <3>5. IsFiniteSet(e)
      BY <3>4, FS_AddElement
    <3> QED
      BY <3>5, FS_AddElement
  <2>3. Pcb = (Heads \cup Fixed) \cup Slots
    BY DEF Pcb
  <2>1. Heads \cup Fixed = e \cup {"shell"}
    BY DEF Heads, Fixed, Servers
  <2>4. IsFiniteSet(Pcb)
    BY <2>1, <2>2, <2>3, FS_Union
  <2> QED
    BY <2>4, FS_CardinalityType
<1>2. L \in Nat /\ L <= N
  <2>1. s \in [1..L -> Pcb] /\ L \in Nat
    OBVIOUS
  <2>2. s \in Injection(1..L, Pcb)
    BY <2>1 DEF Once, Injection, IsInjective
  <2>3. Cardinality(1..L) <= N
    BY <1>1, <2>2, FS_Injection
  <2>4. Cardinality(1..L) = L
    BY <2>1, IntervalCounts
  <2> QED
    BY <2>1, <2>3, <2>4
<1> HIDE DEF N
<1>3. Walk(f, h, N, g)
  BY <1>1, ChainWalks
<1> HIDE DEF g
<1>4. \A k \in 1..N : g[k] = Nth(s, k)
  <2>1. Agrees(g, s, N)
    BY <1>1, <1>3, ChainWalks
  <2> QED
    BY <2>1 DEF Agrees
<1>5. \A k \in 1..L : s[k] # Null
  BY PcbFacts
<1>6. {j \in 1..N : g[j] # Null} = 1..L
  BY <1>1, <1>2, <1>4, <1>5 DEF Nth
<1>7. Cardinality({j \in 1..N : g[j] # Null}) = L
  BY <1>2, <1>6, IntervalCounts
<1>8. [k \in 1..L |-> g[k]] = s
  <2>1. \A k \in 1..L : g[k] = s[k]
    BY <1>1, <1>2, <1>4 DEF Nth
  <2>2. s = [k \in 1..L |-> s[k]]
    OBVIOUS
  <2> QED
    BY <2>1, <2>2
<1> QED
  BY <1>7, <1>8 DEF PathIn, N, g

LEMMA SliceIs ==
  ASSUME NEW T, NEW s \in Seq(T), NEW i \in Nat \ {0}, NEW j \in Nat, i <= j + 1, j <= Len(s)
  PROVE  /\ SubSeq(s, i, j) \in Seq(T) /\ Len(SubSeq(s, i, j)) = j - i + 1
         /\ \A k \in 1..j - i + 1 : SubSeq(s, i, j)[k] = s[i + k - 1]
<1>1. Len(s) \in Nat /\ \A k \in 1..Len(s) : s[k] \in T
  OBVIOUS
<1>2. \A k \in i..j : s[k] \in T
  BY <1>1
<1>3. Len(SubSeq(s, i, j)) = j - i + 1
  BY <1>1
<1>4. \A k \in 1..j - i + 1 : SubSeq(s, i, j)[k] = s[i + k - 1]
  BY <1>1
<1>5. SubSeq(s, i, j) \in Seq(T)
  BY <1>1, <1>2
<1> QED
  BY <1>3, <1>4, <1>5

LEMMA JoinIs ==
  ASSUME NEW T, NEW s \in Seq(T), NEW t \in Seq(T)
  PROVE  /\ s \o t \in Seq(T) /\ Len(s \o t) = Len(s) + Len(t) /\ Len(s) \in Nat /\ Len(t) \in Nat
         /\ \A k \in 1..Len(s) : (s \o t)[k] = s[k]
         /\ \A k \in 1..Len(t) : (s \o t)[Len(s) + k] = t[k]
<1>1. s \o t \in Seq(T) /\ Len(s \o t) = Len(s) + Len(t) /\ Len(s) \in Nat /\ Len(t) \in Nat
  OBVIOUS
<1>2. \A k \in 1..Len(s) : (s \o t)[k] = s[k]
  OBVIOUS
<1>3. \A k \in 1..Len(t) : (s \o t)[Len(s) + k] = t[k]
  OBVIOUS
<1> QED
  BY <1>1, <1>2, <1>3

LEMMA SameSeq ==
  ASSUME NEW T, NEW s \in Seq(T), NEW t \in Seq(T), Len(s) = Len(t), \A k \in 1..Len(s) : s[k] = t[k]
  PROVE  s = t
OBVIOUS

\* u is s and then t.
Joined(s, t, u) ==
  /\ u \in Seq(Pcb) /\ Len(u) = Len(s) + Len(t) /\ Len(s) \in Nat /\ Len(t) \in Nat
  /\ \A k \in 1..Len(s) : u[k] = s[k]
  /\ \A k \in 1..Len(t) : u[Len(s) + k] = t[k]

LEMMA JoinOf == ASSUME NEW s \in Seq(Pcb), NEW t \in Seq(Pcb) PROVE Joined(s, t, s \o t)
<1>1. PICK u : u = s \o t
  OBVIOUS
<1>2. /\ u \in Seq(Pcb) /\ Len(u) = Len(s) + Len(t) /\ Len(s) \in Nat /\ Len(t) \in Nat
      /\ \A k \in 1..Len(s) : u[k] = s[k]
      /\ \A k \in 1..Len(t) : u[Len(s) + k] = t[k]
  BY <1>1, JoinIs
<1> QED
  BY <1>1, <1>2 DEF Joined

-----------------------------------------------------------------------------
(* The run queues one after the other: the daemons, the shell, and then the *)
(* applications that are live.                                             *)

Round(r, f, apps) ==
  /\ r \in Seq(Pcb) /\ Len(r) >= 4 /\ Once(r)
  /\ r[1] = "pm_daemon" /\ r[2] = "compt_daemon" /\ r[3] = "fs_daemon" /\ r[4] = "shell"
  /\ apps = {r[k] : k \in 5..Len(r)}
  /\ f["init_task_0"] = r[1] /\ f[r[1]] = r[2] /\ f[r[2]] = r[3] /\ f[r[3]] = Null
  /\ f["init_task_1"] = r[4] /\ f[r[4]] = Null
  /\ f["init_task_2"] = Nth(r, 5) /\ \A k \in 5..Len(r) : f[r[k]] = Nth(r, k + 1)

LEMMA HeadIs == head[0] = "init_task_0" /\ head[1] = "init_task_1" /\ head[2] = "init_task_2"
BY DEF head, Levels

LEMMA RoundPaths ==
  ASSUME IsFiniteSet(Slots), NEW f, NEW r, NEW apps, Round(r, f, apps)
  PROVE  /\ PathIn(f, head[0]) = <<r[1], r[2], r[3]>> /\ PathIn(f, head[1]) = <<r[4]>>
         /\ PathIn(f, head[2]) = SubSeq(r, 5, Len(r))
         /\ r = PathIn(f, head[0]) \o PathIn(f, head[1]) \o PathIn(f, head[2])
<1> DEFINE a == <<r[1], r[2], r[3]>>
           b == <<r[4]>>
           c == SubSeq(r, 5, Len(r))
<1>1. /\ r \in Seq(Pcb) /\ Len(r) \in Nat /\ Len(r) >= 4 /\ r[1] \in Pcb /\ r[2] \in Pcb /\ r[3] \in Pcb /\ r[4] \in Pcb
      /\ head[0] \in Pcb /\ head[1] \in Pcb /\ head[2] \in Pcb
  <2>1. r \in Seq(Pcb) /\ Len(r) >= 4
    BY DEF Round
  <2> QED
    BY <2>1, PcbFacts
<1>2. /\ a \in Seq(Pcb) /\ Len(a) = 3 /\ a[1] = r[1] /\ a[2] = r[2] /\ a[3] = r[3]
      /\ b \in Seq(Pcb) /\ Len(b) = 1 /\ b[1] = r[4]
  BY <1>1
<1>3. /\ c \in Seq(Pcb) /\ Len(c) = Len(r) - 4 /\ \A k \in 1..Len(c) : c[k] = r[k + 4]
  <2>1. 5 \in Nat \ {0} /\ 5 <= Len(r) + 1 /\ Len(r) - 5 + 1 = Len(r) - 4
    BY <1>1
  <2>2. /\ SubSeq(r, 5, Len(r)) \in Seq(Pcb) /\ Len(SubSeq(r, 5, Len(r))) = Len(r) - 5 + 1
        /\ \A k \in 1..Len(r) - 5 + 1 : SubSeq(r, 5, Len(r))[k] = r[5 + k - 1]
    BY <1>1, <2>1, SliceIs
  <2> HIDE DEF c
  <2>3. /\ c \in Seq(Pcb) /\ Len(c) = Len(r) - 5 + 1 /\ \A k \in 1..Len(r) - 5 + 1 : c[k] = r[5 + k - 1]
    BY <2>2 DEF c
  <2> QED
    BY <1>1, <2>1, <2>3
<1> HIDE DEF a, b, c
<1>4. Once(a) /\ Chain(f, head[0], a)
  <2>1. Once(a)
    <3> SUFFICES ASSUME NEW i \in {1, 2, 3}, NEW j \in {1, 2, 3}, a[i] = a[j] PROVE i = j
      BY <1>2 DEF Once
    <3>1. r[i] = r[j] /\ i \in 1..Len(r) /\ j \in 1..Len(r)
      BY <1>1, <1>2
    <3> QED
      BY <3>1 DEF Round, Once
  <2>2. Nth(a, 1) = r[1] /\ Nth(a, 2) = r[2] /\ Nth(a, 3) = r[3] /\ Nth(a, 4) = Null
    BY <1>2 DEF Nth
  <2>3. \A k \in 1..Len(a) : (k = 1 \/ k = 2 \/ k = 3) /\ (k = 1 => k + 1 = 2) /\ (k = 2 => k + 1 = 3) /\ (k = 3 => k + 1 = 4)
    BY <1>2
  <2> QED
    BY <1>2, <2>1, <2>2, <2>3, HeadIs DEF Chain, Round
<1>5. Once(b) /\ Chain(f, head[1], b)
  <2>1. Once(b)
    BY <1>2 DEF Once
  <2>2. Nth(b, 1) = r[4] /\ Nth(b, 2) = Null
    BY <1>2 DEF Nth
  <2>3. \A k \in 1..Len(b) : k = 1 /\ k + 1 = 2
    BY <1>2
  <2>4. f[head[1]] = Nth(b, 1) /\ f[b[1]] = Nth(b, 2)
    <3>1. f["init_task_1"] = r[4] /\ f[r[4]] = Null
      BY DEF Round
    <3> QED
      BY <1>2, <2>2, <3>1, HeadIs
  <2>5. ASSUME NEW k \in 1..Len(b) PROVE f[b[k]] = Nth(b, k + 1)
    <3>1. k = 1 /\ k + 1 = 2
      BY <2>3
    <3> QED
      BY <2>4, <3>1
  <2> QED
    BY <2>1, <2>4, <2>5 DEF Chain
<1>6. Once(c) /\ Chain(f, head[2], c)
  <2>1. \A k \in 1..Len(c) : k + 4 \in 5..Len(r) /\ k + 4 \in 1..Len(r)
    BY <1>1, <1>3
  <2>2. Once(c)
    <3> SUFFICES ASSUME NEW x \in 1..Len(c), NEW y \in 1..Len(c), c[x] = c[y] PROVE x = y
      BY DEF Once
    <3>1. x + 4 \in 1..Len(r) /\ y + 4 \in 1..Len(r) /\ r[x + 4] = r[y + 4]
      BY <1>3, <2>1
    <3>2. x + 4 = y + 4
      BY <3>1 DEF Once, Round
    <3> QED
      BY <3>2
  <2>3. ASSUME NEW k \in Nat \ {0} PROVE Nth(c, k) = Nth(r, k + 4)
    <3>1. k \in 1..Len(c) <=> k + 4 \in 1..Len(r)
      BY <1>1, <1>3
    <3>2. k \in 1..Len(c) => c[k] = r[k + 4]
      BY <1>3
    <3> QED
      BY <3>1, <3>2 DEF Nth
  <2>4. \A k \in 1..Len(c) : f[c[k]] = Nth(c, k + 1)
    <3> TAKE k \in 1..Len(c)
    <3>1. f[r[k + 4]] = Nth(r, k + 4 + 1)
      BY <2>1 DEF Round
    <3>2. k + 1 \in Nat \ {0} /\ k + 4 + 1 = k + 1 + 4
      OBVIOUS
    <3> QED
      BY <1>3, <2>3, <3>1, <3>2
  <2>5. f[head[2]] = Nth(c, 1)
    <3>1. Nth(c, 1) = Nth(r, 5)
      BY <2>3
    <3> QED
      BY <3>1, HeadIs DEF Round
  <2> QED
    BY <2>2, <2>4, <2>5 DEF Chain
<1>7. PathIn(f, head[0]) = a /\ PathIn(f, head[1]) = b /\ PathIn(f, head[2]) = c
  BY <1>1, <1>2, <1>3, <1>4, <1>5, <1>6, ChainIsPath
<1>8. r = a \o b \o c
  <2> DEFINE d == a \o b
             e == d \o c
  <2>1. d \in Seq(Pcb) /\ Len(d) = 4 /\ d[1] = r[1] /\ d[2] = r[2] /\ d[3] = r[3] /\ d[4] = r[4]
    <3>1. /\ d \in Seq(Pcb) /\ Len(d) = Len(a) + Len(b)
          /\ (\A k \in 1..Len(a) : d[k] = a[k]) /\ (\A k \in 1..Len(b) : d[Len(a) + k] = b[k])
      <4>1. Joined(a, b, d)
        BY <1>2, JoinOf
      <4> HIDE DEF d
      <4> QED
        BY <4>1 DEF Joined
    <3> HIDE DEF d
    <3>2. 1 \in 1..3 /\ 2 \in 1..3 /\ 3 \in 1..3 /\ 1 \in 1..1 /\ 3 + 1 = 4
      OBVIOUS
    <3> QED
      BY <1>2, <3>1, <3>2
  <2>2. \A k \in 1..4 : d[k] = r[k]
    <3> HIDE DEF d
    <3>1. \A k \in 1..4 : k = 1 \/ k = 2 \/ k = 3 \/ k = 4
      OBVIOUS
    <3> QED
      BY <2>1, <3>1
  <2> HIDE DEF d
  <2>3. /\ e \in Seq(Pcb) /\ Len(e) = Len(d) + Len(c)
        /\ (\A k \in 1..Len(d) : e[k] = d[k]) /\ (\A k \in 1..Len(c) : e[Len(d) + k] = c[k])
    <3>1. Joined(d, c, e)
      BY <1>3, <2>1, JoinOf
    <3> HIDE DEF e
    <3> QED
      BY <3>1 DEF Joined
  <2> HIDE DEF e
  <2>4. Len(e) = Len(r) /\ \A k \in 1..Len(r) : r[k] = e[k]
    <3>1. Len(e) = Len(r)
      BY <1>1, <1>3, <2>1, <2>3
    <3>2. ASSUME NEW k \in 1..Len(r) PROVE r[k] = e[k]
      <4>1. CASE k <= 4
        BY <1>1, <2>1, <2>2, <2>3, <4>1
      <4>2. CASE k > 4
        <5>1. k - 4 \in 1..Len(c) /\ k - 4 + 4 = k /\ 4 + (k - 4) = k
          BY <1>1, <1>3, <4>2
        <5>2. e[4 + (k - 4)] = c[k - 4] /\ c[k - 4] = r[k - 4 + 4]
          BY <1>3, <2>1, <2>3, <5>1
        <5> QED
          BY <5>1, <5>2
      <4> QED
        BY <1>1, <4>1, <4>2
    <3> QED
      BY <3>1, <3>2
  <2>5. r = e
    BY <1>1, <2>3, <2>4, SameSeq
  <2> QED
    BY <2>5 DEF d, e
<1> QED
  BY <1>7, <1>8 DEF a, b, c

LEMMA RoundBegins ==
  ASSUME Init
  PROVE  Round(<<"pm_daemon", "compt_daemon", "fs_daemon", "shell">>, nextp, live)
<1> DEFINE r == <<"pm_daemon", "compt_daemon", "fs_daemon", "shell">>
<1>1. r \in Seq(Pcb) /\ Len(r) = 4
  BY DEF Pcb, Fixed, Servers
<1>2. r[1] = "pm_daemon" /\ r[2] = "compt_daemon" /\ r[3] = "fs_daemon" /\ r[4] = "shell"
  OBVIOUS
<1> HIDE DEF r
<1>3. Once(r)
  <2>1. \A i \in 1..Len(r) : i = 1 \/ i = 2 \/ i = 3 \/ i = 4
    BY <1>1
  <2> QED
    BY <1>2, <2>1 DEF Once
<1>4. Nth(r, 5) = Null /\ 5..Len(r) = {}
  BY <1>1 DEF Nth
<1>5. \A t \in {"init_task_0", "init_task_1", "init_task_2", "pm_daemon", "compt_daemon", "fs_daemon", "shell"} : t \in Pcb
  BY DEF Pcb, Heads, Fixed, Servers
<1>6. live = {}
  BY DEF Init
<1>7. /\ nextp["init_task_0"] = "pm_daemon" /\ nextp["pm_daemon"] = "compt_daemon" /\ nextp["compt_daemon"] = "fs_daemon"
      /\ nextp["fs_daemon"] = Null /\ nextp["init_task_1"] = "shell" /\ nextp["shell"] = Null /\ nextp["init_task_2"] = Null
  BY <1>5 DEF Init
<1>8. Round(r, nextp, live)
  BY <1>1, <1>2, <1>3, <1>4, <1>6, <1>7 DEF Round
<1> QED
  BY <1>8 DEF r

LEMMA RoundMembers ==
  ASSUME NEW f, NEW r, NEW apps \in SUBSET Slots, Round(r, f, apps)
  PROVE  /\ r \in Seq(Pcb) /\ Len(r) \in Nat /\ Len(r) >= 4
         /\ \A k \in 1..Len(r) :
              /\ r[k] \in Fixed \cup apps /\ r[k] \in Pcb /\ r[k] \notin Heads /\ r[k] # Null
              /\ IF k <= 4 THEN r[k] \in Fixed /\ r[k] \notin Slots ELSE r[k] \in apps
         /\ \A t \in Fixed \cup apps : \E k \in 1..Len(r) : r[k] = t
<1>1. /\ r \in Seq(Pcb) /\ Len(r) \in Nat /\ Len(r) >= 4
      /\ r[1] = "pm_daemon" /\ r[2] = "compt_daemon" /\ r[3] = "fs_daemon" /\ r[4] = "shell"
      /\ apps = {r[k] : k \in 5..Len(r)}
  BY DEF Round
<1>2. Fixed = {"pm_daemon", "compt_daemon", "fs_daemon", "shell"} /\ Fixed \cap Slots = {}
      /\ Fixed \cap Heads = {} /\ Slots \cap Heads = {} /\ Null \notin Pcb
  BY PcbFacts, SlotsAssumption DEF Fixed, Servers, Heads
<1>3. ASSUME NEW k \in 1..Len(r)
      PROVE  r[k] \in Pcb /\ IF k <= 4 THEN r[k] \in Fixed ELSE r[k] \in apps
  <2>1. r[k] \in Pcb
    BY <1>1
  <2>2. CASE k <= 4
    <3>1. k = 1 \/ k = 2 \/ k = 3 \/ k = 4
      BY <2>2
    <3>2. r[k] \in Fixed
      BY <1>1, <1>2, <3>1
    <3> QED
      BY <2>1, <2>2, <3>2
  <2>3. CASE ~(k <= 4)
    <3>1. k \in 5..Len(r)
      BY <1>1, <2>3
    <3> QED
      BY <1>1, <2>1, <2>3, <3>1
  <2> QED
    BY <2>2, <2>3
<1>4. ASSUME NEW t \in Fixed \cup apps PROVE \E k \in 1..Len(r) : r[k] = t
  <2>1. CASE t \in Fixed
    <3>1. 1 \in 1..Len(r) /\ 2 \in 1..Len(r) /\ 3 \in 1..Len(r) /\ 4 \in 1..Len(r)
      BY <1>1
    <3> QED
      BY <1>1, <1>2, <2>1, <3>1
  <2>2. CASE t \in apps
    <3>1. PICK k \in 5..Len(r) : r[k] = t
      BY <1>1, <2>2
    <3>2. k \in 1..Len(r)
      OBVIOUS
    <3> QED
      BY <3>1, <3>2
  <2> QED
    BY <2>1, <2>2
<1>5. ASSUME NEW k \in 1..Len(r)
      PROVE  /\ r[k] \in Fixed \cup apps /\ r[k] \in Pcb /\ r[k] \notin Heads /\ r[k] # Null
             /\ IF k <= 4 THEN r[k] \in Fixed /\ r[k] \notin Slots ELSE r[k] \in apps
  BY <1>2, <1>3
<1> QED
  BY <1>1, <1>4, <1>5

-----------------------------------------------------------------------------
(* A task put behind the resident ones, and one taken out.                 *)

Inserted(r, p, u) ==
  /\ u \in Seq(Pcb) /\ Len(u) = Len(r) + 1
  /\ \A k \in 1..4 : u[k] = r[k]
  /\ u[5] = p
  /\ \A k \in 5..Len(r) : u[k + 1] = r[k]

LEMMA InsertedIs ==
  ASSUME NEW r \in Seq(Pcb), Len(r) >= 4, NEW p \in Pcb
  PROVE  Inserted(r, p, SubSeq(r, 1, 4) \o <<p>> \o SubSeq(r, 5, Len(r)))
<1>1. PICK a : a = SubSeq(r, 1, 4)
  OBVIOUS
<1>2. PICK c : c = SubSeq(r, 5, Len(r))
  OBVIOUS
<1>3. PICK b : b = <<p>>
  OBVIOUS
<1>4. PICK d : d = a \o b
  OBVIOUS
<1>5. PICK u : u = d \o c
  OBVIOUS
<1>6. Len(r) \in Nat /\ 1 \in Nat \ {0} /\ 5 \in Nat \ {0} /\ 4 \in Nat
      /\ 5 <= Len(r) + 1 /\ Len(r) <= Len(r)
  OBVIOUS
<1>7. a \in Seq(Pcb) /\ Len(a) = 4 /\ \A k \in 1..4 : a[k] = r[k]
  <2>1. /\ SubSeq(r, 1, 4) \in Seq(Pcb) /\ Len(SubSeq(r, 1, 4)) = 4 - 1 + 1
        /\ \A k \in 1..4 - 1 + 1 : SubSeq(r, 1, 4)[k] = r[1 + k - 1]
    BY <1>6, SliceIs
  <2>2. a \in Seq(Pcb) /\ Len(a) = 4 - 1 + 1 /\ \A k \in 1..4 - 1 + 1 : a[k] = r[1 + k - 1]
    BY <1>1, <2>1
  <2> QED
    BY <2>2
<1>8. c \in Seq(Pcb) /\ Len(c) = Len(r) - 4 /\ \A k \in 1..Len(r) - 4 : c[k] = r[k + 4]
  <2>0. PICK j : j = 5
    OBVIOUS
  <2>1. /\ SubSeq(r, j, Len(r)) \in Seq(Pcb) /\ Len(SubSeq(r, j, Len(r))) = Len(r) - j + 1
        /\ \A k \in 1..Len(r) - j + 1 : SubSeq(r, j, Len(r))[k] = r[j + k - 1]
    <3>1. j \in Nat \ {0} /\ j <= Len(r) + 1 /\ Len(r) \in Nat /\ Len(r) <= Len(r)
      BY <1>6, <2>0
    <3> QED
      BY <3>1, SliceIs
  <2>2. c \in Seq(Pcb) /\ Len(c) = Len(r) - j + 1 /\ \A k \in 1..Len(r) - j + 1 : c[k] = r[j + k - 1]
    BY <1>2, <2>0, <2>1
  <2>3. Len(r) - j + 1 = Len(r) - 4 /\ \A k \in 1..Len(r) - 4 : j + k - 1 = k + 4
    BY <1>6, <2>0
  <2> QED
    BY <2>2, <2>3
<1>9. b \in Seq(Pcb) /\ Len(b) = 1 /\ b[1] = p
  BY <1>3
<1>10. d \in Seq(Pcb) /\ Len(d) = 5 /\ (\A k \in 1..4 : d[k] = r[k]) /\ d[5] = p
  <2>1. Joined(a, b, d)
    BY <1>4, <1>7, <1>9, JoinOf
  <2>2. 1 \in 1..Len(b) /\ Len(a) + 1 = 5
    BY <1>7, <1>9
  <2> QED
    BY <1>7, <1>9, <2>1, <2>2 DEF Joined
<1>11. Inserted(r, p, u)
  <2>1. Joined(d, c, u)
    BY <1>5, <1>8, <1>10, JoinOf
  <2>2. u \in Seq(Pcb) /\ Len(u) = Len(r) + 1
    BY <1>6, <1>8, <1>10, <2>1 DEF Joined
  <2>3. \A k \in 1..5 : u[k] = d[k]
    BY <1>10, <2>1 DEF Joined
  <2>4. ASSUME NEW k \in 5..Len(r) PROVE u[k + 1] = r[k]
    <3>1. k - 4 \in 1..Len(c) /\ k - 4 \in 1..Len(r) - 4 /\ 5 + (k - 4) = k + 1 /\ k - 4 + 4 = k
      BY <1>6, <1>8
    <3>2. u[5 + (k - 4)] = c[k - 4] /\ c[k - 4] = r[k - 4 + 4]
      BY <1>8, <1>10, <2>1, <3>1 DEF Joined
    <3> QED
      BY <3>1, <3>2
  <2> QED
    BY <1>10, <2>2, <2>3, <2>4 DEF Inserted
<1> QED
  BY <1>1, <1>2, <1>3, <1>4, <1>5, <1>11

Dropped(r, i, u) ==
  /\ u \in Seq(Pcb) /\ Len(u) = Len(r) - 1
  /\ \A k \in 1..i - 1 : u[k] = r[k]
  /\ \A k \in i..Len(r) - 1 : u[k] = r[k + 1]

LEMMA DroppedIs ==
  ASSUME NEW r \in Seq(Pcb), NEW i \in 1..Len(r)
  PROVE  Dropped(r, i, SubSeq(r, 1, i - 1) \o SubSeq(r, i + 1, Len(r)))
<1>1. PICK a : a = SubSeq(r, 1, i - 1)
  OBVIOUS
<1>2. PICK c : c = SubSeq(r, i + 1, Len(r))
  OBVIOUS
<1>3. PICK u : u = a \o c
  OBVIOUS
<1>4. Len(r) \in Nat /\ i \in Nat /\ i >= 1 /\ i <= Len(r) /\ i - 1 \in Nat /\ i + 1 \in Nat \ {0} /\ 1 \in Nat \ {0}
  OBVIOUS
<1>5. a \in Seq(Pcb) /\ Len(a) = i - 1 /\ \A k \in 1..i - 1 : a[k] = r[k]
  <2>0. PICK j : j = i - 1
    OBVIOUS
  <2>1. /\ SubSeq(r, 1, j) \in Seq(Pcb) /\ Len(SubSeq(r, 1, j)) = j - 1 + 1
        /\ \A k \in 1..j - 1 + 1 : SubSeq(r, 1, j)[k] = r[1 + k - 1]
    BY <1>4, <2>0, SliceIs
  <2>2. a \in Seq(Pcb) /\ Len(a) = j - 1 + 1 /\ \A k \in 1..j - 1 + 1 : a[k] = r[1 + k - 1]
    BY <1>1, <2>0, <2>1
  <2> QED
    BY <1>4, <2>0, <2>2
<1>6. c \in Seq(Pcb) /\ Len(c) = Len(r) - i /\ \A k \in 1..Len(r) - i : c[k] = r[k + i]
  <2>0. PICK j : j = i + 1
    OBVIOUS
  <2>1. /\ SubSeq(r, j, Len(r)) \in Seq(Pcb) /\ Len(SubSeq(r, j, Len(r))) = Len(r) - j + 1
        /\ \A k \in 1..Len(r) - j + 1 : SubSeq(r, j, Len(r))[k] = r[j + k - 1]
    BY <1>4, <2>0, SliceIs
  <2>2. c \in Seq(Pcb) /\ Len(c) = Len(r) - j + 1 /\ \A k \in 1..Len(r) - j + 1 : c[k] = r[j + k - 1]
    BY <1>2, <2>0, <2>1
  <2>3. Len(r) - j + 1 = Len(r) - i /\ \A k \in 1..Len(r) - i : j + k - 1 = k + i
    BY <1>4, <2>0
  <2> QED
    BY <2>2, <2>3
<1>7. Dropped(r, i, u)
  <2>1. Joined(a, c, u)
    BY <1>3, <1>5, <1>6, JoinOf
  <2>2. u \in Seq(Pcb) /\ Len(u) = Len(r) - 1
    BY <1>4, <1>5, <1>6, <2>1 DEF Joined
  <2>3. \A k \in 1..i - 1 : u[k] = r[k]
    BY <1>5, <2>1 DEF Joined
  <2>4. ASSUME NEW k \in i..Len(r) - 1 PROVE u[k] = r[k + 1]
    <3>1. k - i + 1 \in 1..Len(c) /\ k - i + 1 \in 1..Len(r) - i /\ i - 1 + (k - i + 1) = k /\ k - i + 1 + i = k + 1
      BY <1>4, <1>6
    <3>2. u[i - 1 + (k - i + 1)] = c[k - i + 1] /\ c[k - i + 1] = r[k - i + 1 + i]
      BY <1>5, <1>6, <2>1, <3>1 DEF Joined
    <3> QED
      BY <3>1, <3>2
  <2> QED
    BY <2>2, <2>3, <2>4 DEF Dropped
<1> QED
  BY <1>1, <1>2, <1>3, <1>7

LEMMA RoundInsert ==
  ASSUME TypeLinks, live \in SUBSET Slots, NEW r, Round(r, nextp, live),
         NEW p \in Slots \ live, InsertAfterHead(p), live' = live \cup {p},
         NEW u, Inserted(r, p, u)
  PROVE  Round(u, nextp', live')
<1> DEFINE h == "init_task_2"
<1>1. /\ h \in Pcb /\ h \in Heads /\ p \in Pcb /\ p \notin Heads /\ p # h /\ p \notin Fixed \cup live
      /\ "init_task_0" \in Pcb /\ "init_task_1" \in Pcb /\ "init_task_0" # h /\ "init_task_1" # h
      /\ "init_task_0" # p /\ "init_task_1" # p
  BY PcbFacts, SlotsAssumption DEF Heads, Pcb, Fixed, Servers
<1>2. nextp' = [nextp EXCEPT ![p] = nextp[h], ![h] = p]
  BY HeadIs DEF InsertAfterHead, InsertBehind
<1> HIDE DEF h
<1>3. nextp'[p] = nextp[h] /\ nextp'[h] = p /\ \A t \in Pcb \ {p, h} : nextp'[t] = nextp[t]
  BY <1>1, <1>2 DEF TypeLinks
<1>4. /\ r \in Seq(Pcb) /\ Len(r) \in Nat /\ Len(r) >= 4
      /\ \A k \in 1..Len(r) : r[k] \in Fixed \cup live /\ r[k] \in Pcb \ {p, h} /\ r[k] # Null
  BY <1>1, RoundMembers
<1>5. u \in Seq(Pcb) /\ Len(u) = Len(r) + 1 /\ u[5] = p
  BY DEF Inserted
<1>6. \A k \in 1..4 : u[k] = r[k]
  BY DEF Inserted
<1>7. \A k \in 6..Len(u) : k - 1 \in 5..Len(r) /\ k - 1 \in 1..Len(r) /\ u[k] = r[k - 1]
  <2> TAKE k \in 6..Len(u)
  <2>1. k - 1 \in 5..Len(r) /\ k - 1 \in 1..Len(r) /\ k - 1 + 1 = k
    BY <1>4, <1>5
  <2> QED
    BY <2>1 DEF Inserted
<1>8. Once(u)
  <2> SUFFICES ASSUME NEW i \in 1..Len(u), NEW j \in 1..Len(u), u[i] = u[j] PROVE i = j
    BY DEF Once
  <2> DEFINE o(k) == IF k <= 4 THEN k ELSE k - 1
  <2>1. \A k \in 1..Len(u) : k # 5 => o(k) \in 1..Len(r) /\ u[k] = r[o(k)]
    BY <1>4, <1>5, <1>6, <1>7
  <2>2. i = 5 <=> j = 5
    <3> HIDE DEF o
    <3> QED
      BY <1>4, <1>5, <2>1
  <2>3. CASE i # 5 /\ j # 5
    <3>1. o(i) = o(j)
      <4> HIDE DEF o
      <4> QED
        BY <2>1, <2>3 DEF Round, Once
    <3> QED
      BY <1>4, <1>5, <2>3, <3>1
  <2> QED
    BY <2>2, <2>3
<1>9. u[1] = r[1] /\ u[2] = r[2] /\ u[3] = r[3] /\ u[4] = r[4]
  BY <1>6
<1>10. 1 \in 1..Len(r) /\ 2 \in 1..Len(r) /\ 3 \in 1..Len(r) /\ 4 \in 1..Len(r)
  BY <1>4
<1>11. live' = {u[k] : k \in 5..Len(u)}
  <2>1. live = {r[k] : k \in 5..Len(r)}
    BY DEF Round
  <2>2. ASSUME NEW t \in live' PROVE \E k \in 5..Len(u) : u[k] = t
    <3>1. CASE t = p
      BY <1>4, <1>5, <3>1
    <3>2. CASE t # p
      <4>1. PICK k \in 5..Len(r) : r[k] = t
        BY <2>1, <3>2
      <4>2. k + 1 \in 6..Len(u) /\ k + 1 - 1 = k
        BY <1>4, <1>5
      <4>3. u[k + 1] = t /\ k + 1 \in 5..Len(u)
        BY <1>7, <4>1, <4>2
      <4> QED
        BY <4>3
    <3> QED
      BY <3>1, <3>2
  <2>3. ASSUME NEW k \in 5..Len(u) PROVE u[k] \in live'
    <3>1. CASE k = 5
      BY <1>5, <3>1
    <3>2. CASE k # 5
      <4>1. k \in 6..Len(u)
        BY <3>2
      <4>2. k - 1 \in 5..Len(r) /\ u[k] = r[k - 1]
        BY <1>7, <4>1
      <4> QED
        BY <2>1, <4>2
    <3> QED
      BY <3>1, <3>2
  <2> QED
    BY <2>2, <2>3
<1>12. nextp'[h] = Nth(u, 5)
  BY <1>3, <1>4, <1>5 DEF Nth
<1>13. ASSUME NEW k \in 5..Len(u) PROVE nextp'[u[k]] = Nth(u, k + 1)
  <2>1. CASE k = 5
    <3>1. Nth(u, 6) = Nth(r, 5)
      <4>1. CASE Len(r) >= 5
        BY <1>4, <1>5, <1>7, <4>1 DEF Nth
      <4>2. CASE ~(Len(r) >= 5)
        BY <1>4, <1>5, <4>2 DEF Nth
      <4> QED
        BY <4>1, <4>2
    <3> QED
      BY <1>3, <1>5, <2>1, <3>1 DEF Round, h
  <2>2. CASE k # 5
    <3>1. k \in 6..Len(u)
      BY <2>2
    <3>2. k - 1 \in 5..Len(r) /\ k - 1 \in 1..Len(r) /\ u[k] = r[k - 1] /\ k - 1 + 1 = k
      BY <1>7, <3>1
    <3>3. nextp'[u[k]] = nextp[r[k - 1]] /\ nextp[r[k - 1]] = Nth(r, k)
      BY <1>3, <1>4, <3>2 DEF Round
    <3>4. Nth(r, k) = Nth(u, k + 1)
      <4>1. CASE k <= Len(r)
        <5>1. k + 1 \in 6..Len(u) /\ k + 1 - 1 = k
          BY <1>4, <1>5, <3>2, <4>1
        <5> QED
          BY <1>4, <1>5, <1>7, <3>2, <4>1, <5>1 DEF Nth
      <4>2. CASE ~(k <= Len(r))
        BY <1>4, <1>5, <3>2, <4>2 DEF Nth
      <4> QED
        BY <4>1, <4>2
    <3> QED
      BY <3>3, <3>4
  <2> QED
    BY <2>1, <2>2
<1>14. /\ nextp'["init_task_0"] = u[1] /\ nextp'[u[1]] = u[2] /\ nextp'[u[2]] = u[3] /\ nextp'[u[3]] = Null
       /\ nextp'["init_task_1"] = u[4] /\ nextp'[u[4]] = Null
  BY <1>1, <1>3, <1>4, <1>9, <1>10 DEF Round
<1>15. /\ u[1] = "pm_daemon" /\ u[2] = "compt_daemon" /\ u[3] = "fs_daemon" /\ u[4] = "shell"
       /\ Len(u) >= 4
  BY <1>4, <1>5, <1>9 DEF Round
<1> QED
  BY <1>5, <1>8, <1>11, <1>12, <1>13, <1>14, <1>15 DEF Round, h

LEMMA RoundRemove ==
  ASSUME TypeLinks, TypeProgram, LinksPaired, NEW r, Round(r, nextp, live), NEW t \in live,
         nextp' = UnlinkNext(t), live' = live \ {t},
         NEW i \in 1..Len(r), r[i] = t, NEW u, Dropped(r, i, u)
  PROVE  Round(u, nextp', live')
<1>0. live \in SUBSET Slots
  BY DEF TypeProgram
<1>1. /\ r \in Seq(Pcb) /\ Len(r) \in Nat /\ Len(r) >= 4
      /\ \A k \in 1..Len(r) : r[k] \in Fixed \cup live /\ r[k] \in Pcb /\ r[k] \notin Heads /\ r[k] # Null
      /\ \A k \in 1..Len(r) : IF k <= 4 THEN r[k] \notin Slots ELSE r[k] \in live
  BY <1>0, RoundMembers
<1>2. i \in 5..Len(r) /\ i \in Nat /\ i >= 5 /\ i <= Len(r)
  BY <1>0, <1>1
<1>3. Once(r) /\ \A k \in 5..Len(r) : nextp[r[k]] = Nth(r, k + 1)
  BY DEF Round
<1>4. PICK a : a = IF i = 5 THEN "init_task_2" ELSE r[i - 1]
  OBVIOUS
<1>5. a \in Linked /\ a \in Pcb /\ nextp[a] = t
  <2>1. CASE i = 5
    BY <1>1, <1>4, <2>1, TaskFacts DEF Round, Nth
  <2>2. CASE i # 5
    <3>1. i - 1 \in 5..Len(r) /\ i - 1 \in 1..Len(r) /\ i - 1 + 1 = i
      BY <1>1, <1>2, <2>2
    <3>2. nextp[a] = Nth(r, i) /\ a = r[i - 1]
      BY <1>3, <1>4, <2>2, <3>1
    <3>3. a \in Linked
      BY <1>1, <3>1, <3>2 DEF Linked, Tasks
    <3> QED
      BY <1>1, <1>2, <3>1, <3>2, <3>3 DEF Nth
  <2> QED
    BY <2>1, <2>2
<1>6. prevp[t] = a
  BY <1>1, <1>5 DEF LinksPaired
<1>7. nextp[t] = Nth(r, i + 1)
  BY <1>2, <1>3
<1>8. nextp'[a] = Nth(r, i + 1) /\ \A x \in Pcb \ {a} : nextp'[x] = nextp[x]
  BY <1>5, <1>6, <1>7 DEF UnlinkNext, TypeLinks
<1>9. /\ u \in Seq(Pcb) /\ Len(u) = Len(r) - 1 /\ Len(u) \in Nat /\ Len(u) >= 4
      /\ \A k \in 1..i - 1 : u[k] = r[k] /\ k \in 1..Len(r)
      /\ \A k \in i..Len(u) : u[k] = r[k + 1] /\ k + 1 \in 1..Len(r)
  BY <1>1, <1>2 DEF Dropped
<1>10. Once(u)
  <2> SUFFICES ASSUME NEW j \in 1..Len(u), NEW k \in 1..Len(u), u[j] = u[k] PROVE j = k
    BY DEF Once
  <2> DEFINE o(x) == IF x < i THEN x ELSE x + 1
  <2>1. ASSUME NEW x \in 1..Len(u) PROVE o(x) \in 1..Len(r) /\ u[x] = r[o(x)]
    <3>1. x \in 1..i - 1 \/ x \in i..Len(u)
      BY <1>2, <1>9
    <3>2. CASE x \in 1..i - 1
      BY <1>2, <1>9, <3>2
    <3>3. CASE x \in i..Len(u)
      BY <1>2, <1>9, <3>3
    <3> QED
      BY <3>1, <3>2, <3>3
  <2>2. o(j) = o(k)
    <3> HIDE DEF o
    <3>1. o(j) \in 1..Len(r) /\ o(k) \in 1..Len(r) /\ r[o(j)] = r[o(k)]
      BY <2>1
    <3> QED
      BY <1>3, <3>1 DEF Once
  <2> QED
    BY <1>2, <1>9, <2>2
<1>11. \A k \in 1..Len(u) : Nth(u, k) = IF k < i THEN r[k] ELSE r[k + 1]
  BY <1>2, <1>9 DEF Nth
<1>12. live' = {u[k] : k \in 5..Len(u)}
  <2>1. live = {r[k] : k \in 5..Len(r)}
    BY DEF Round
  <2>2. ASSUME NEW x \in live' PROVE \E k \in 5..Len(u) : u[k] = x
    <3>1. PICK k \in 5..Len(r) : r[k] = x
      BY <2>1
    <3>2. k # i
      BY <3>1
    <3>3. CASE k < i
      <4>1. k \in 1..i - 1 /\ k \in 5..Len(u)
        BY <1>2, <1>9, <3>3
      <4> QED
        BY <1>9, <3>1, <4>1
    <3>4. CASE k > i
      <4>1. k - 1 \in i..Len(u) /\ k - 1 \in 5..Len(u) /\ k - 1 + 1 = k
        BY <1>2, <1>9, <3>4
      <4> QED
        BY <1>9, <3>1, <4>1
    <3> QED
      BY <1>2, <3>2, <3>3, <3>4
  <2>3. ASSUME NEW k \in 5..Len(u) PROVE u[k] \in live'
    <3>1. PICK j \in 5..Len(r) : u[k] = r[j] /\ j # i
      <4>1. CASE k < i
        <5>1. k \in 1..i - 1 /\ k \in 5..Len(r)
          BY <1>2, <1>9, <4>1
        <5> QED
          BY <1>9, <4>1, <5>1
      <4>2. CASE ~(k < i)
        <5>1. k \in i..Len(u) /\ k + 1 \in 5..Len(r) /\ k + 1 # i
          BY <1>2, <1>9, <4>2
        <5> QED
          BY <1>9, <5>1
      <4> QED
        BY <4>1, <4>2
    <3>2. r[j] # t
      <4>1. j \in 1..Len(r)
        OBVIOUS
      <4> QED
        BY <1>3, <3>1, <4>1 DEF Once
    <3> QED
      BY <2>1, <3>1, <3>2
  <2> QED
    BY <2>2, <2>3
<1>13. \A k \in 1..Len(r) : r[k] = a => k = i - 1 /\ i # 5
  <2>1. ASSUME NEW k \in 1..Len(r), r[k] = a PROVE k = i - 1 /\ i # 5
    <3>1. i # 5
      BY <1>1, <1>4, <2>1 DEF Heads
    <3>2. i - 1 \in 1..Len(r) /\ a = r[i - 1]
      BY <1>2, <1>4, <3>1
    <3> QED
      BY <1>3, <2>1, <3>1, <3>2 DEF Once
  <2> QED
    BY <2>1
<1>14. nextp'["init_task_2"] = Nth(u, 5)
  <2>0. "init_task_2" \in Pcb /\ "init_task_2" \in Heads
    BY DEF Pcb, Heads
  <2>1. CASE i = 5
    <3>1. nextp'["init_task_2"] = Nth(r, 6)
      BY <1>4, <1>8, <2>1
    <3>2. Nth(u, 5) = Nth(r, 6)
      <4>1. CASE Len(r) >= 6
        BY <1>1, <1>9, <2>1, <4>1 DEF Nth
      <4>2. CASE ~(Len(r) >= 6)
        BY <1>1, <1>9, <2>1, <4>2 DEF Nth
      <4> QED
        BY <4>1, <4>2
    <3> QED
      BY <3>1, <3>2
  <2>2. CASE i # 5
    <3>1. i - 1 \in 1..Len(r) /\ a = r[i - 1]
      BY <1>2, <1>4, <2>2
    <3>2. a # "init_task_2"
      BY <1>1, <2>0, <3>1
    <3>3. nextp'["init_task_2"] = Nth(r, 5)
      BY <1>8, <2>0, <3>2 DEF Round
    <3>4. 5 \in 1..i - 1 /\ 5 \in 1..Len(u)
      BY <1>2, <1>9, <2>2
    <3> QED
      BY <1>9, <3>3, <3>4 DEF Nth
  <2> QED
    BY <2>1, <2>2
<1>15. ASSUME NEW k \in 5..Len(u) PROVE nextp'[u[k]] = Nth(u, k + 1)
  <2>1. CASE k < i - 1
    <3>1. k \in 1..i - 1 /\ k \in 5..Len(r) /\ k \in 1..Len(r) /\ k # i - 1 /\ k + 1 \in 1..i - 1 /\ k + 1 \in 1..Len(u) /\ k + 1 \in 1..Len(r)
      BY <1>1, <1>2, <1>9, <2>1
    <3>2. u[k] = r[k] /\ r[k] # a /\ r[k] \in Pcb
      BY <1>1, <1>9, <1>13, <3>1
    <3>3. nextp'[u[k]] = Nth(r, k + 1)
      BY <1>3, <1>8, <3>1, <3>2
    <3> QED
      BY <1>9, <3>1, <3>3 DEF Nth
  <2>2. CASE k = i - 1
    <3>1. i # 5 /\ u[k] = r[i - 1] /\ k + 1 = i
      BY <1>1, <1>2, <1>9, <2>2
    <3>2. nextp'[u[k]] = Nth(r, i + 1)
      BY <1>4, <1>8, <3>1
    <3>3. Nth(u, i) = Nth(r, i + 1)
      <4>1. CASE i <= Len(u)
        BY <1>2, <1>9, <4>1 DEF Nth
      <4>2. CASE ~(i <= Len(u))
        BY <1>1, <1>2, <1>9, <4>2 DEF Nth
      <4> QED
        BY <4>1, <4>2
    <3> QED
      BY <3>1, <3>2, <3>3
  <2>3. CASE k > i - 1
    <3>1. k \in i..Len(u) /\ k + 1 \in 5..Len(r) /\ k + 1 \in 1..Len(r) /\ k + 1 # i - 1
      BY <1>1, <1>2, <1>9, <2>3
    <3>2. u[k] = r[k + 1] /\ r[k + 1] # a /\ r[k + 1] \in Pcb
      BY <1>1, <1>9, <1>13, <3>1
    <3>3. nextp'[u[k]] = Nth(r, k + 1 + 1)
      BY <1>3, <1>8, <3>1, <3>2
    <3>4. Nth(u, k + 1) = Nth(r, k + 1 + 1)
      <4>1. CASE k + 1 <= Len(u)
        <5>1. k + 1 \in i..Len(u) /\ k + 1 \in 1..Len(u) /\ k + 1 + 1 \in 1..Len(r)
          BY <1>1, <1>2, <1>9, <3>1, <4>1
        <5> QED
          BY <1>9, <5>1 DEF Nth
      <4>2. CASE ~(k + 1 <= Len(u))
        BY <1>1, <1>2, <1>9, <3>1, <4>2 DEF Nth
      <4> QED
        BY <4>1, <4>2
    <3> QED
      BY <3>3, <3>4
  <2> QED
    BY <1>2, <2>1, <2>2, <2>3
<1>16. u[1] = r[1] /\ u[2] = r[2] /\ u[3] = r[3] /\ u[4] = r[4]
  <2>1. 1 \in 1..i - 1 /\ 2 \in 1..i - 1 /\ 3 \in 1..i - 1 /\ 4 \in 1..i - 1
    BY <1>2
  <2> QED
    BY <1>9, <2>1
<1>17. /\ r[1] \in Pcb \ {a} /\ r[2] \in Pcb \ {a} /\ r[3] \in Pcb \ {a} /\ r[4] \in Pcb \ {a}
       /\ "init_task_0" \in Pcb \ {a} /\ "init_task_1" \in Pcb \ {a}
  <2>1. /\ 1 \in 1..Len(r) /\ 2 \in 1..Len(r) /\ 3 \in 1..Len(r) /\ 4 \in 1..Len(r)
        /\ 1 # i - 1 /\ 2 # i - 1 /\ 3 # i - 1 /\ (4 = i - 1 => i = 5)
    BY <1>1, <1>2
  <2>2. a # "init_task_0" /\ a # "init_task_1"
    <3>1. CASE i = 5
      BY <1>4, <3>1
    <3>2. CASE i # 5
      <4>1. i - 1 \in 1..Len(r) /\ a = r[i - 1]
        BY <1>2, <1>4, <3>2
      <4> QED
        BY <1>1, <4>1 DEF Heads
    <3> QED
      BY <3>1, <3>2
  <2>3. "init_task_0" \in Pcb /\ "init_task_1" \in Pcb
    BY DEF Pcb, Heads
  <2> QED
    BY <1>1, <1>13, <2>1, <2>2, <2>3
<1>18. /\ nextp'["init_task_0"] = u[1] /\ nextp'[u[1]] = u[2] /\ nextp'[u[2]] = u[3] /\ nextp'[u[3]] = Null
       /\ nextp'["init_task_1"] = u[4] /\ nextp'[u[4]] = Null
  BY <1>8, <1>16, <1>17 DEF Round
<1>19. u[1] = "pm_daemon" /\ u[2] = "compt_daemon" /\ u[3] = "fs_daemon" /\ u[4] = "shell"
  BY <1>16 DEF Round
<1> QED
  BY <1>9, <1>10, <1>12, <1>14, <1>15, <1>18, <1>19 DEF Round

-----------------------------------------------------------------------------
(* Where _schedule is in the round.                                        *)

\* The owner's place, and the place of a cursor: a list head stands before the
\* first task of its queue.
OwnerAt(r, c) == IF current = "init_task_0" THEN c = 0 ELSE c \in 1..Len(r) /\ r[c] = current
StandsAt(r, x, m) ==
  \/ (x = head[0] /\ m = 0) \/ (x = head[1] /\ m = 3) \/ (x = head[2] /\ m = 4)
  \/ (m \in 1..Len(r) /\ r[m] = x)

Passed(r, i, j) == \A k \in i + 1..j : ~is_running(r[k])

\* Whatever was passed since the owner is not ready: up to the cursor, or up to
\* the end of the round once the cursor is back at the front.
Seeking(r) ==
  /\ phase \in {"run", "resume"} => Cursor = current
  /\ phase \in {"scan", "rr"} =>
       \E c, m \in 0..Len(r) :
         /\ OwnerAt(r, c) /\ StandsAt(r, IF phase = "rr" THEN tmp_task ELSE Cursor, m)
         /\ \/ c <= m /\ Passed(r, c, m)
            \/ m = 0 /\ Passed(r, c, Len(r))
  /\ phase = "switch" =>
       \E c \in 0..Len(r), m \in 1..Len(r) :
         /\ OwnerAt(r, c) /\ r[m] = Cursor /\ is_running(r[m])
         /\ \/ c < m /\ Passed(r, c, m - 1)
            \/ m = 1 /\ Passed(r, c, Len(r))

\* The resident tasks never leave the round.
ResidentsRun == (\A t \in Fixed : state[t] = "RUNNING") /\ pc["shell"] \in {"user", "fork"}

RInv == ResidentsRun /\ \E r \in Seq(Pcb) : Round(r, nextp, live) /\ Seeking(r)

LEMMA ResidentsRunStep == ASSUME AInv, ResidentsRun, [Next]_vars PROVE ResidentsRun'
<1> USE DEF AInv, IInv, TypeOK, TypeProgram
<1>0. "shell" \in Fixed /\ "shell" \in Pcb /\ "shell" \notin Slots /\ Fixed \cap Slots = {} /\ Fixed \subseteq Pcb
      /\ \A t \in Fixed : t = "shell" \/ t \in Servers
  BY SlotsAssumption DEF Fixed, Servers, Pcb
<1>1. \A t \in Fixed : pc[t] \in {"user", "fork"}
  BY <1>0 DEF ServersStay, ResidentsRun
<1>2. CASE Scheduler \/ timer_tick \/ TakeLetter \/ ReapMain \/ UNCHANGED vars
  BY <1>2 DEF Scheduler, ScanServer, ScanExtra, CallRoundRobin, RoundRobinStep, switch_to, Resume, timer_tick,
       TakeLetter, ReapMain, vars, program, ResidentsRun
<1>3. ASSUME NEW t \in Pcb, Own(t) PROVE ResidentsRun'
  <2>1. CASE Yield(t)
    BY <2>1 DEF Yield, program, ResidentsRun
  <2>2. CASE StartCopy(t, "fork") \/ CopyFails(t)
    BY <1>0, <2>2 DEF StartCopy, CopyFails, ResidentsRun
  <2>3. CASE send_msg(t) \/ MailboxFull(t) \/ JoinNoThread(t)
    BY <1>0, <2>3, send_msgIs DEF MailboxFull, JoinNoThread, Exiting, ResidentsRun
  <2>4. CASE FinishExit(t)
    BY <1>0, <1>1, <2>4 DEF FinishExit, ResidentsRun
  <2> QED
    BY <1>3, <2>1, <2>2, <2>3, <2>4 DEF Own, Exit
<1>4. ASSUME NEW t \in Pcb, NEW p \in Slots, copy_process(t, p) PROVE ResidentsRun'
  BY <1>0, <1>4 DEF copy_process, NewPcb, ResidentsRun
<1> QED
  BY <1>2, <1>3, <1>4, StepCases

LEMMA LevelsOfRound ==
  ASSUME NEW f, NEW r, NEW apps \in SUBSET Slots, Round(r, f, apps), NEW k \in 1..Len(r)
  PROVE  Level(r[k]) = IF k <= 3 THEN 0 ELSE IF k = 4 THEN 1 ELSE 2
<1>1. /\ Len(r) \in Nat
      /\ r[1] = "pm_daemon" /\ r[2] = "compt_daemon" /\ r[3] = "fs_daemon" /\ r[4] = "shell"
  BY RoundMembers DEF Round
<1>2. CASE k <= 3
  <2>1. k = 1 \/ k = 2 \/ k = 3
    BY <1>2
  <2> QED
    BY <1>1, <2>1 DEF Level, Servers
<1>3. CASE k = 4
  BY <1>1, <1>3 DEF Level, Servers
<1>4. CASE k > 4
  <2>1. r[k] \in Slots
    BY <1>4, RoundMembers
  <2> QED
    BY <1>4, <2>1, PcbFacts
<1> QED
  BY <1>1, <1>2, <1>3, <1>4

LEMMA NextAt ==
  ASSUME live \in SUBSET Slots, NEW r, Round(r, nextp, live),
         NEW x, NEW m \in 0..Len(r), StandsAt(r, x, m)
  PROVE  /\ nextp[x] = Null => \/ (Level(x) = 0 /\ m = 3) \/ (Level(x) = 1 /\ m = 4)
                               \/ (Level(x) = 2 /\ m = Len(r))
         /\ nextp[x] # Null => m + 1 \in 1..Len(r) /\ nextp[x] = r[m + 1]
<1>1. /\ r \in Seq(Pcb) /\ Len(r) \in Nat /\ Len(r) >= 4 /\ \A k \in 1..Len(r) : r[k] # Null
  BY RoundMembers
<1>2. /\ nextp["init_task_0"] = r[1] /\ nextp[r[1]] = r[2] /\ nextp[r[2]] = r[3] /\ nextp[r[3]] = Null
      /\ nextp["init_task_1"] = r[4] /\ nextp[r[4]] = Null
      /\ nextp["init_task_2"] = Nth(r, 5) /\ \A k \in 5..Len(r) : nextp[r[k]] = Nth(r, k + 1)
  BY DEF Round
<1>3. 1 \in 1..Len(r) /\ 2 \in 1..Len(r) /\ 3 \in 1..Len(r) /\ 4 \in 1..Len(r)
  BY <1>1
<1>4. CASE x = head[0] /\ m = 0
  BY <1>1, <1>2, <1>3, <1>4, HeadIs
<1>5. CASE x = head[1] /\ m = 3
  BY <1>1, <1>2, <1>3, <1>5, HeadIs
<1>6. CASE x = head[2] /\ m = 4
  <2>1. Level(x) = 2
    BY <1>6, PcbFacts
  <2>2. nextp[x] = Nth(r, 5) /\ m + 1 = 5
    BY <1>2, <1>6, HeadIs
  <2>3. CASE Len(r) >= 5
    BY <1>1, <1>6, <2>2, <2>3 DEF Nth
  <2>4. CASE ~(Len(r) >= 5)
    <3>0. Len(r) = 4
      <4>1. PICK n : n = Len(r)
        OBVIOUS
      <4>2. n \in Nat /\ n >= 4 /\ ~(n >= 5)
        BY <1>1, <2>4, <4>1, Zenon
      <4>3. n = 4
        BY <4>2
      <4> QED
        BY <4>1, <4>3
    <3>1. Len(r) = 4 /\ Nth(r, 5) = Null
      <4>1. 5 \notin 1..Len(r)
        BY <3>0
      <4> QED
        BY <3>0, <4>1 DEF Nth
    <3> QED
      BY <1>6, <2>1, <2>2, <3>1
  <2> QED
    BY <2>3, <2>4
<1>7. CASE m \in 1..Len(r) /\ r[m] = x
  <2>1. CASE m = 1 \/ m = 2
    BY <1>1, <1>2, <1>3, <1>7, <2>1
  <2>2. CASE m = 3 \/ m = 4
    BY <1>1, <1>2, <1>3, <1>7, <2>2, LevelsOfRound
  <2>3. CASE m >= 5
    <3>1. nextp[x] = Nth(r, m + 1) /\ Level(x) = 2
      BY <1>2, <1>7, <2>3, LevelsOfRound
    <3> QED
      BY <1>1, <1>7, <2>3, <3>1 DEF Nth
  <2> QED
    BY <1>7, <2>1, <2>2, <2>3
<1> QED
  BY <1>4, <1>5, <1>6, <1>7 DEF StandsAt

LEMMA OwnerSame ==
  ASSUME UNCHANGED <<current, state>>, NEW r, NEW i, NEW j
  PROVE  OwnerAt(r, i)' = OwnerAt(r, i) /\ Passed(r, i, j)' = Passed(r, i, j)
BY DEF OwnerAt, Passed, is_running

\* What Seeking says while the loop of _schedule runs, and once it has found.
Sought(r, x, c, m) ==
  /\ OwnerAt(r, c) /\ StandsAt(r, x, m)
  /\ \/ c <= m /\ Passed(r, c, m)
     \/ m = 0 /\ Passed(r, c, Len(r))
Found(r, x, c, m) ==
  /\ OwnerAt(r, c) /\ r[m] = x /\ is_running(r[m])
  /\ \/ c < m /\ Passed(r, c, m - 1)
     \/ m = 1 /\ Passed(r, c, Len(r))

\* One element further.
LEMMA SeekOn ==
  ASSUME AInv, ResidentsRun, NEW r, Round(r, nextp, live), NEW x, x # Null,
         NEW c \in 0..Len(r), NEW m \in 0..Len(r), Sought(r, x, c, m), nextp[x] # Null
  PROVE  /\ m + 1 \in 1..Len(r) /\ m + 1 \in 0..Len(r)
         /\ is_running(nextp[x]) => Found(r, nextp[x], c, m + 1)
         /\ ~is_running(nextp[x]) => Sought(r, nextp[x], c, m + 1)
<1>1. live \in SUBSET Slots
  BY DEF AInv, IInv, TypeOK, TypeProgram
<1>2. m + 1 \in 1..Len(r) /\ nextp[x] = r[m + 1] /\ m + 1 \in 0..Len(r)
  <2>1. m + 1 \in 1..Len(r) /\ nextp[x] = r[m + 1]
    BY <1>1, NextAt DEF Sought
  <2> QED
    BY <2>1
<1>3. is_running(r[1])
  <2>1. r[1] \in Fixed
    BY DEF Round, Fixed, Servers
  <2> QED
    BY <2>1 DEF is_running, ResidentsRun
<1>4. CASE is_running(nextp[x])
  <2>1. CASE c <= m /\ Passed(r, c, m)
    <3>1. c < m + 1 /\ m + 1 - 1 = m
      BY <2>1
    <3> QED
      BY <1>2, <1>4, <2>1, <3>1 DEF Sought, Found
  <2>2. CASE m = 0 /\ Passed(r, c, Len(r))
    BY <1>2, <1>4, <2>2 DEF Sought, Found
  <2> QED
    BY <1>2, <1>4, <2>1, <2>2 DEF Sought
<1>5. CASE ~is_running(nextp[x])
  <2>1. m # 0
    BY <1>2, <1>3, <1>5
  <2>2. c <= m /\ Passed(r, c, m)
    BY <2>1 DEF Sought
  <2>3. Passed(r, c, m + 1)
    <3>1. \A k \in c + 1..m + 1 : k \in c + 1..m \/ k = m + 1
      BY <1>2
    <3> QED
      BY <1>2, <1>5, <2>2, <3>1 DEF Passed
  <2>4. c <= m + 1
    BY <2>2
  <2> QED
    BY <1>2, <1>5, <2>2, <2>3, <2>4 DEF Sought, StandsAt
<1> QED
  BY <1>2, <1>4, <1>5

LEMMA SeekingIs ==
  ASSUME NEW r, Seeking(r)
  PROVE  /\ phase \in {"scan", "rr"} =>
              \E c, m \in 0..Len(r) : Sought(r, IF phase = "rr" THEN tmp_task ELSE Cursor, c, m)
         /\ phase = "switch" => \E c \in 0..Len(r), m \in 1..Len(r) : Found(r, Cursor, c, m)
BY DEF Seeking, Sought, Found

LEMMA SeekingBy ==
  ASSUME NEW r, \/ phase' \in {"run", "resume"} /\ Cursor' = current'
                \/ phase' = "scan" /\ \E c, m \in 0..Len(r) : Sought(r, Cursor, c, m)'
                \/ phase' = "rr" /\ \E c, m \in 0..Len(r) : Sought(r, tmp_task, c, m)'
                \/ phase' = "switch" /\ \E c \in 0..Len(r), m \in 1..Len(r) : Found(r, Cursor, c, m)'
  PROVE  Seeking(r)'
BY DEF Seeking, Sought, Found

LEMMA SoughtSame ==
  ASSUME UNCHANGED <<current, state>>, NEW r, NEW c, NEW m, NEW x
  PROVE  Sought(r, x, c, m)' = Sought(r, x, c, m) /\ Found(r, x, c, m)' = Found(r, x, c, m)
BY OwnerSame DEF Sought, Found, StandsAt, is_running, head, Levels

LEMMA AdvanceSeeks ==
  ASSUME AInv, ResidentsRun, NEW r, Round(r, nextp, live), Seeking(r), phase = "scan",
         NEW l \in {1, 2}, service_index = l - 1, Advance(l), UNCHANGED <<current, state>>
  PROVE  Seeking(r)'
<1> USE DEF AInv, IInv, TypeOK, TypeScan
<1>1. PICK c \in 0..Len(r), m \in 0..Len(r) : Sought(r, Cursor, c, m)
  BY SeekingIs
<1>2. live \in SUBSET Slots /\ Cursor \in Pcb /\ Cursor # Null /\ Level(Cursor) = l - 1
  BY PcbFacts DEF TypeProgram, Cursor, LevelsSeparate
<1>3. CASE nextp[Cursor] = Null /\ GoToLevel(l)
  <2>1. Cursor' = head[l] /\ phase' = "scan"
    <3>1. task_prio_table[l] = head[l] /\ l # service_index /\ l \in Levels
      BY DEF CursorsParked, Levels
    <3> QED
      BY <1>3, <3>1 DEF GoToLevel, MoveCursor, Cursor
  <2>2. m = l + 2
    <3>1. StandsAt(r, Cursor, m)
      BY <1>1 DEF Sought
    <3>2. (Level(Cursor) = 0 /\ m = 3) \/ (Level(Cursor) = 1 /\ m = 4) \/ (Level(Cursor) = 2 /\ m = Len(r))
      BY <1>2, <1>3, <3>1, NextAt
    <3> QED
      BY <1>2, <3>2
  <2>3. StandsAt(r, head[l], m)
    BY <2>2 DEF StandsAt
  <2>4. Sought(r, head[l], c, m)
    BY <1>1, <2>3 DEF Sought
  <2>5. Sought(r, head[l], c, m)'
    BY <2>4, SoughtSame
  <2>6. Sought(r, Cursor, c, m)'
    BY <2>1, <2>5 DEF Sought, StandsAt, head, Levels
  <2> QED
    BY <2>1, <2>6, SeekingBy
<1>4. CASE /\ nextp[Cursor] # Null /\ MoveCursor(nextp[Cursor]) /\ UNCHANGED service_index
           /\ phase' = IF is_running(nextp[Cursor]) THEN "switch" ELSE "scan"
  <2>1. Cursor' = nextp[Cursor]
    BY <1>4 DEF MoveCursor, Cursor
  <2>2. /\ m + 1 \in 1..Len(r) /\ m + 1 \in 0..Len(r)
        /\ is_running(nextp[Cursor]) => Found(r, nextp[Cursor], c, m + 1)
        /\ ~is_running(nextp[Cursor]) => Sought(r, nextp[Cursor], c, m + 1)
    BY <1>1, <1>2, <1>4, SeekOn
  <2>3. PICK x : x = nextp[Cursor]
    OBVIOUS
  <2>4. /\ is_running(x) => Found(r, x, c, m + 1)'
        /\ ~is_running(x) => Sought(r, x, c, m + 1)'
    BY <2>2, <2>3, SoughtSame
  <2>5. /\ is_running(x) => Found(r, Cursor, c, m + 1)'
        /\ ~is_running(x) => Sought(r, Cursor, c, m + 1)'
    BY <2>1, <2>3, <2>4 DEF Found, Sought
  <2> QED
    BY <1>4, <2>2, <2>3, <2>5, SeekingBy
<1> QED
  BY <1>3, <1>4 DEF Advance

LEMMA RoundRobinSeeks ==
  ASSUME AInv, ResidentsRun, NEW r, Round(r, nextp, live), Seeking(r), RoundRobinStep
  PROVE  Seeking(r)'
<1> USE DEF AInv, IInv, TypeOK, TypeScan
<1>0. UNCHANGED <<current, state>> /\ phase = "rr"
  BY DEF RoundRobinStep, cpu
<1>1. PICK c \in 0..Len(r), m \in 0..Len(r) : Sought(r, tmp_task, c, m)
  BY <1>0, SeekingIs
<1>2. /\ live \in SUBSET Slots /\ tmp_task # Null /\ Level(tmp_task) = 2 /\ service_index = 2
      /\ Len(r) \in Nat
  <2>1. live \in SUBSET Slots /\ tmp_task # Null /\ Level(tmp_task) = 2 /\ service_index = 2
    BY <1>0, PcbFacts DEF TypeProgram, LevelsSeparate
  <2> QED
    BY <2>1, RoundMembers
<1>3. CASE nextp[tmp_task] = Null /\ GoToLevel(0)
  <2>1. Cursor' = head[0] /\ phase' = "scan"
    <3>1. task_prio_table[0] = head[0] /\ 0 # service_index /\ 0 \in Levels
      BY <1>2 DEF CursorsParked, Levels
    <3> QED
      BY <1>3, <3>1 DEF GoToLevel, MoveCursor, Cursor
  <2>2. m = Len(r)
    <3>1. StandsAt(r, tmp_task, m)
      BY <1>1 DEF Sought
    <3> QED
      BY <1>2, <1>3, <3>1, NextAt
  <2>3. Passed(r, c, Len(r))
    BY <1>1, <2>2 DEF Sought
  <2>4. Sought(r, head[0], c, 0)
    BY <1>1, <2>3 DEF Sought, StandsAt
  <2>5. Sought(r, head[0], c, 0)'
    BY <1>0, <2>4, SoughtSame
  <2>6. Sought(r, Cursor, c, 0)' /\ 0 \in 0..Len(r)
    BY <1>2, <2>1, <2>5 DEF Sought, StandsAt, head, Levels
  <2> QED
    BY <2>1, <2>6, SeekingBy
<1>4. PICK x : x = nextp[tmp_task]
  OBVIOUS
<1>5. CASE x # Null
  <2>1. /\ m + 1 \in 1..Len(r) /\ m + 1 \in 0..Len(r)
        /\ is_running(x) => Found(r, x, c, m + 1)
        /\ ~is_running(x) => Sought(r, x, c, m + 1)
    BY <1>1, <1>2, <1>4, <1>5, SeekOn
  <2>2. /\ is_running(x) => Found(r, x, c, m + 1)'
        /\ ~is_running(x) => Sought(r, x, c, m + 1)'
    BY <1>0, <2>1, SoughtSame
  <2>3. CASE is_running(x)
    <3>1. Cursor' = x /\ phase' = "switch"
      BY <1>4, <1>5, <2>3 DEF RoundRobinStep, MoveCursor, Cursor
    <3>2. Found(r, Cursor, c, m + 1)'
      BY <2>2, <2>3, <3>1 DEF Found
    <3> QED
      BY <2>1, <3>1, <3>2, SeekingBy
  <2>4. CASE ~is_running(x)
    <3>1. tmp_task' = x /\ phase' = "rr"
      BY <1>0, <1>4, <1>5, <2>4 DEF RoundRobinStep
    <3>2. Sought(r, tmp_task, c, m + 1)'
      BY <2>2, <2>4, <3>1 DEF Sought
    <3> QED
      BY <2>1, <3>1, <3>2, SeekingBy
  <2> QED
    BY <2>3, <2>4
<1> QED
  BY <1>3, <1>4, <1>5 DEF RoundRobinStep

LEMMA EnterSeeks ==
  ASSUME AInv, NEW r, Round(r, nextp, live), Seeking(r), phase = "run",
         phase' = "scan", UNCHANGED <<current, scanning>>
  PROVE  Seeking(r)'
<1>0. UNCHANGED <<task_prio_table, service_index, current>>
  BY DEF scanning
<1>1. Cursor = current /\ Cursor' = Cursor
  BY <1>0 DEF Seeking, Cursor
<1>2. Len(r) \in Nat /\ live \in SUBSET Slots
  BY RoundMembers DEF AInv, IInv, TypeOK, TypeProgram
<1>3. \A c \in Nat : Passed(r, c, c)'
  BY DEF Passed
<1>4. \E c \in 0..Len(r) : OwnerAt(r, c)' /\ StandsAt(r, current, c)'
  <2>1. CASE current = "init_task_0"
    <3>1. OwnerAt(r, 0)' /\ StandsAt(r, current, 0)'
      BY <1>0, <2>1, HeadIs DEF OwnerAt, StandsAt, head, Levels
    <3> QED
      BY <1>2, <3>1
  <2>2. CASE current # "init_task_0"
    <3>1. current \in Fixed \cup live
      BY <2>2 DEF AInv, CursorsExist, Scheduled, Tasks
    <3>2. PICK k \in 1..Len(r) : r[k] = current
      BY <1>2, <3>1, RoundMembers
    <3>3. OwnerAt(r, k)' /\ StandsAt(r, current, k)' /\ k \in 0..Len(r)
      BY <1>0, <2>2, <3>2 DEF OwnerAt, StandsAt
    <3> QED
      BY <3>3
  <2> QED
    BY <2>1, <2>2
<1>5. PICK c \in 0..Len(r) : OwnerAt(r, c)' /\ StandsAt(r, current, c)'
  BY <1>4
<1>6. Sought(r, Cursor, c, c)'
  <2>1. c <= c /\ c \in Nat /\ Cursor' = current'
    BY <1>0, <1>1
  <2> QED
    BY <1>3, <1>5, <2>1 DEF Sought, StandsAt
<1> QED
  BY <1>6, SeekingBy

LEMMA RunSeeks ==
  ASSUME NEW r, Seeking(r), phase = "run", UNCHANGED <<phase, current, scanning>>, NEW u
  PROVE  Seeking(u)'
<1>1. Cursor = current /\ Cursor' = Cursor /\ phase' = "run" /\ current' = current
  BY DEF Seeking, Cursor, scanning
<1> QED
  BY <1>1, SeekingBy

LEMMA StillSeeks ==
  ASSUME NEW r, Seeking(r), UNCHANGED <<phase, current, scanning, state>>
  PROVE  Seeking(r)'
<1>0. UNCHANGED <<phase, current, task_prio_table, service_index, tmp_task, state>>
  BY DEF scanning
<1> QED
  BY <1>0 DEF Seeking, OwnerAt, StandsAt, Passed, is_running, Cursor, head, Levels

\* The round does not change: the steps of the CPU.
LEMMA SchedulerSeeks ==
  ASSUME AInv, ResidentsRun, NEW r, Round(r, nextp, live), Seeking(r), Scheduler
  PROVE  Seeking(r)'
<1>1. CASE ScanServer
  BY <1>1, AdvanceSeeks DEF ScanServer, cpu
<1>2. CASE ScanExtra
  BY <1>2, AdvanceSeeks DEF ScanExtra, cpu
<1>3. CASE CallRoundRobin
  <2>1. PICK c \in 0..Len(r), m \in 0..Len(r) : Sought(r, Cursor, c, m)
    BY <1>3, SeekingIs DEF CallRoundRobin
  <2>2. PICK x : x = Cursor
    OBVIOUS
  <2>3. Sought(r, x, c, m)' /\ tmp_task' = x /\ phase' = "rr"
    BY <1>3, <2>1, <2>2, SoughtSame DEF CallRoundRobin, RoundRobinFrom, cpu
  <2>4. Sought(r, tmp_task, c, m)'
    BY <2>3 DEF Sought
  <2> QED
    BY <2>3, <2>4, SeekingBy
<1>4. CASE RoundRobinStep
  BY <1>4, RoundRobinSeeks
<1>5. CASE switch_to
  <2>1. phase' = "resume" /\ current' = Cursor /\ Cursor' = Cursor
    BY <1>5 DEF switch_to, SameTask, cpu, scanning, Cursor
  <2> QED
    BY <2>1, SeekingBy
<1>6. CASE Resume
  <2>1. phase' = "run" /\ current' = current /\ Cursor' = Cursor /\ Cursor = current
    BY <1>6 DEF Resume, cpu, scanning, Cursor, Seeking
  <2> QED
    BY <2>1, SeekingBy
<1> QED
  BY <1>1, <1>2, <1>3, <1>4, <1>5, <1>6 DEF Scheduler

LEMMA OwnSeeks ==
  ASSUME AInv, NEW r, Round(r, nextp, live), Seeking(r), NEW t \in Pcb, Own(t)
  PROVE  Seeking(r)'
<1>1. CASE Yield(t) \/ MailboxFull(t) \/ FinishExit(t)
  <2>1. phase = "run" /\ phase' = "scan" /\ UNCHANGED <<current, scanning>>
    BY <1>1 DEF Yield, MailboxFull, FinishExit, Exiting, Running, schedule, EnterSchedule, cpu
  <2> QED
    BY <2>1, EnterSeeks
<1>2. CASE StartCopy(t, "fork") \/ CopyFails(t) \/ send_msg(t) \/ JoinNoThread(t)
  <2>1. phase = "run" /\ UNCHANGED <<phase, current, scanning>>
    BY <1>2, send_msgIs DEF StartCopy, CopyFails, JoinNoThread, Exiting, Running, cpu
  <2> QED
    BY <2>1, RunSeeks
<1> QED
  BY <1>1, <1>2 DEF Own, Exit

LEMMA TickSeeks ==
  ASSUME AInv, NEW r, Round(r, nextp, live), Seeking(r), timer_tick
  PROVE  Seeking(r)'
<1>1. UNCHANGED <<current, scanning, state>>
  BY DEF timer_tick, cpu
<1>2. CASE UNCHANGED phase
  BY <1>1, <1>2, StillSeeks
<1>3. CASE preempt_count[Cell(current)] <= 0 /\ EnterSchedule
  <2>1. phase = "run" /\ phase' = "scan"
    BY <1>3, CountedFacts DEF EnterSchedule
  <2> QED
    BY <1>1, <2>1, EnterSeeks
<1> QED
  BY <1>2, <1>3 DEF timer_tick

Resident == <<"pm_daemon", "compt_daemon", "fs_daemon", "shell">>
InFront(r, p) == SubSeq(r, 1, Len(Resident)) \o <<p>> \o SubSeq(r, Len(Resident) + 1, Len(r))
Without(r, i) == SubSeq(r, 1, i - 1) \o SubSeq(r, i + 1, Len(r))

LEMMA CreateRound ==
  ASSUME AInv, NEW r, Round(r, nextp, live), Seeking(r),
         NEW t \in Pcb, NEW p \in Slots, copy_process(t, p)
  PROVE  Round(InFront(r, p), nextp', live') /\ Seeking(InFront(r, p))'
<1>1. /\ p \notin live /\ InsertAfterHead(p) /\ live' = live \cup {p}
      /\ phase = "run" /\ UNCHANGED <<phase, current, scanning>>
  BY DEF copy_process, NewPcb, Running
<1>2. /\ r \in Seq(Pcb) /\ Len(r) >= 4 /\ p \in Pcb /\ live \in SUBSET Slots /\ TypeLinks
  BY PcbFacts DEF Round, AInv, IInv, TypeOK, TypeProgram
<1>3. PICK u : u = InFront(r, p)
  OBVIOUS
<1>4. Inserted(r, p, u)
  <2>1. Len(Resident) = 4 /\ Len(Resident) + 1 = 5
    BY DEF Resident
  <2>2. Inserted(r, p, SubSeq(r, 1, 4) \o <<p>> \o SubSeq(r, 5, Len(r)))
    BY <1>2, InsertedIs
  <2>3. u = SubSeq(r, 1, 4) \o <<p>> \o SubSeq(r, 5, Len(r))
    BY <1>3, <2>1, Zenon DEF InFront
  <2> QED
    BY <2>2, <2>3
<1>5. Round(u, nextp', live')
  BY <1>1, <1>2, <1>4, RoundInsert
<1>6. Seeking(u)'
  BY <1>1, RunSeeks
<1>7. u' = u /\ u = InFront(r, p)
  BY <1>3
<1> QED
  BY <1>5, <1>6, <1>7 DEF Seeking, OwnerAt, StandsAt, Passed

LEMMA Reaping ==
  ASSUME AInv, ReapMain
  PROVE  /\ pm_tmp \in live /\ current = "pm_daemon" /\ phase = "run"
         /\ nextp' = UnlinkNext(pm_tmp) /\ live' = live \ {pm_tmp}
         /\ UNCHANGED <<phase, current, scanning, state>>
<1> USE DEF AInv, IInv, TypeOK
<1>1. pm_mode = "main" /\ index_pop \in 0..MailSize - 1
  BY DEF ReapMain, TypeManager
<1>2. pm_tmp \in live
  BY <1>1 DEF LettersOnce
<1> QED
  BY <1>2 DEF ReapMain, Running, cpu

LEMMA ReapRound ==
  ASSUME AInv, NEW r, Round(r, nextp, live), Seeking(r), ReapMain
  PROVE  \E i \in 1..Len(r) : /\ r[i] = pm_tmp /\ Round(Without(r, i), nextp', live')
                              /\ Seeking(Without(r, i))'
<1>1. /\ pm_tmp \in live /\ nextp' = UnlinkNext(pm_tmp) /\ live' = live \ {pm_tmp}
      /\ phase = "run" /\ UNCHANGED <<phase, current, scanning>>
  BY Reaping
<1>2. r \in Seq(Pcb) /\ live \in SUBSET Slots /\ TypeLinks /\ TypeProgram /\ LinksPaired
  BY DEF Round, AInv, IInv, TypeOK, TypeProgram
<1>3. PICK i \in 1..Len(r) : r[i] = pm_tmp
  BY <1>1, <1>2, RoundMembers
<1>4. PICK t : t = pm_tmp
  OBVIOUS
<1>5. PICK u : u = Without(r, i)
  OBVIOUS
<1>6. Dropped(r, i, u)
  BY <1>2, <1>5, DroppedIs DEF Without
<1>7. t \in live /\ nextp' = UnlinkNext(t) /\ live' = live \ {t} /\ r[i] = t
  BY <1>1, <1>3, <1>4
<1>8. Round(u, nextp', live')
  BY <1>2, <1>6, <1>7, RoundRemove
<1>9. Seeking(u)'
  BY <1>1, RunSeeks
<1> QED
  BY <1>3, <1>5, <1>8, <1>9 DEF Seeking, OwnerAt, StandsAt, Passed

LEMMA RInvStep == ASSUME AInv, RInv, [Next]_vars PROVE RInv'
<1>1. ResidentsRun'
  BY ResidentsRunStep DEF RInv
<1>2. PICK r \in Seq(Pcb) : Round(r, nextp, live) /\ Seeking(r)
  BY DEF RInv
<1>3. ASSUME NEW u, Round(u, nextp', live'), Seeking(u)' PROVE RInv'
  <2>1. u \in Seq(Pcb)
    BY <1>3 DEF Round
  <2> QED
    BY <1>1, <1>3, <2>1 DEF RInv, Round
<1>4. CASE Scheduler \/ timer_tick \/ TakeLetter \/ UNCHANGED vars \/ \E t \in Pcb : Own(t)
  <2>1. Seeking(r)'
    <3>1. CASE Scheduler
      BY <1>2, <3>1, SchedulerSeeks DEF RInv
    <3>2. CASE timer_tick
      BY <1>2, <3>2, TickSeeks
    <3>3. CASE TakeLetter \/ UNCHANGED vars
      <4>1. UNCHANGED <<phase, current, scanning, state>>
        BY <3>3 DEF TakeLetter, vars, cpu
      <4> QED
        BY <1>2, <4>1, StillSeeks
    <3>4. CASE \E t \in Pcb : Own(t)
      BY <1>2, <3>4, OwnSeeks
    <3> QED
      BY <1>4, <3>1, <3>2, <3>3, <3>4
  <2>2. nextp' = nextp /\ live' = live
    BY <1>4, QuietLists
  <2> QED
    BY <1>2, <1>3, <2>1, <2>2
<1>5. ASSUME NEW t \in Pcb, NEW p \in Slots, copy_process(t, p) PROVE RInv'
  BY <1>2, <1>3, <1>5, CreateRound
<1>6. CASE ReapMain
  BY <1>2, <1>3, <1>6, ReapRound
<1> QED
  BY <1>4, <1>5, <1>6, StepCases

LEMMA InitRInv == Init => RInv
<1> SUFFICES ASSUME Init PROVE RInv
  OBVIOUS
<1>1. PICK r : r = Resident
  OBVIOUS
<1>2. Round(r, nextp, live) /\ r \in Seq(Pcb)
  <2>1. Round(r, nextp, live)
    BY <1>1, RoundBegins DEF Resident
  <2> QED
    BY <2>1 DEF Round
<1>3. Seeking(r)
  BY HeadIs, PcbFacts DEF Init, Seeking, Cursor
<1>4. ResidentsRun
  BY PcbFacts DEF Init, ResidentsRun, Pcb, Fixed, Servers
<1> QED
  BY <1>2, <1>3, <1>4 DEF RInv

LEMMA RoundInvariance == ApplicationsOnly => (Spec => [](torn \/ (AInv /\ RInv)))
<1>1. ApplicationsOnly /\ Init => AInv /\ RInv
  BY InitAInv, InitRInv
<1>2. AInv /\ RInv /\ [Next]_vars => (AInv /\ RInv)' \/ torn'
  BY NextAInv, RInvStep
<1> QED
  BY <1>1, <1>2, TornStays, PTL DEF Spec

-----------------------------------------------------------------------------
\* With processes only, however many there are, and as long as no send_msg is
\* torn: each run queue holds exactly the
\* tasks of its level that exist, creation puts a task into the queue once, and
\* pm_daemon takes out the one it frees and no other (fork.c, pm_deamon.c).
THEOREM QueuesHoldTasks == ApplicationsOnly => (Spec => []RunQueues)
<1>1. torn \/ (AInv /\ RInv) => RunQueues
  <2> SUFFICES ASSUME AInv, RInv, NEW l \in Levels
               PROVE  /\ Queue(l) = {t \in Fixed \cup live : Level(t) = l}
                      /\ \A t \in Queue(l) \cup {head[l]} : nextp[t] # Null => prevp[nextp[t]] = t
    BY DEF RunQueues
  <2>1. PICK r \in Seq(Pcb) : Round(r, nextp, live)
    BY DEF RInv
  <2>2. live \in SUBSET Slots /\ IsFiniteSet(Slots) /\ LinksPaired /\ TypeProgram
    BY DEF AInv, ApplicationsOnly, IInv, TypeOK, TypeProgram
  <2>3. Queue(l) = {t \in Fixed \cup live : Level(t) = l}
    <3>1. PICK q : q = PathIn(nextp, head[l])
      OBVIOUS
    <3>2. Queue(l) = {q[i] : i \in 1..Len(q)}
      <4>1. Path(l) = q
        BY <3>1, PathIs
      <4> QED
        BY <4>1 DEF Queue
    <3>3. /\ PathIn(nextp, head[0]) = <<r[1], r[2], r[3]>> /\ PathIn(nextp, head[1]) = <<r[4]>>
          /\ PathIn(nextp, head[2]) = SubSeq(r, 5, Len(r))
      BY <2>1, <2>2, RoundPaths
    <3>4. /\ Len(r) \in Nat /\ Len(r) >= 4
          /\ \A k \in 1..Len(r) : r[k] \in Fixed \cup live
          /\ \A t \in Fixed \cup live : \E k \in 1..Len(r) : r[k] = t
          /\ \A k \in 1..Len(r) : Level(r[k]) = IF k <= 3 THEN 0 ELSE IF k = 4 THEN 1 ELSE 2
      <4>1. \A k \in 1..Len(r) : Level(r[k]) = IF k <= 3 THEN 0 ELSE IF k = 4 THEN 1 ELSE 2
        BY <2>1, <2>2, LevelsOfRound
      <4> QED
        BY <2>1, <2>2, <4>1, RoundMembers
    <3>5. PICK d : d = IF l = 0 THEN 0 ELSE IF l = 1 THEN 3 ELSE 4
      OBVIOUS
    <3>6. /\ Len(q) = (IF l = 0 THEN 3 ELSE IF l = 1 THEN 1 ELSE Len(r) - 4)
          /\ \A i \in 1..Len(q) : q[i] = r[i + d]
      <4>1. CASE l = 0
        <5>1. q = <<r[1], r[2], r[3]>>
          BY <3>1, <3>3, <4>1
        <5>2. Len(q) = 3 /\ q[1] = r[1] /\ q[2] = r[2] /\ q[3] = r[3]
          BY <5>1
        <5>3. \A i \in 1..3 : (i = 1 \/ i = 2 \/ i = 3) /\ i + 0 = i
          OBVIOUS
        <5> QED
          BY <3>5, <4>1, <5>2, <5>3
      <4>2. CASE l = 1
        <5>1. q = <<r[4]>>
          BY <3>1, <3>3, <4>2
        <5>2. Len(q) = 1 /\ q[1] = r[4]
          BY <5>1
        <5>3. \A i \in 1..1 : i = 1 /\ i + 3 = 4
          OBVIOUS
        <5> QED
          BY <3>5, <4>2, <5>2, <5>3
      <4>3. CASE l = 2
        <5>0. PICK j : j = 5
          OBVIOUS
        <5>1. q = SubSeq(r, j, Len(r))
          BY <3>1, <3>3, <4>3, <5>0
        <5>2. /\ Len(q) = Len(r) - j + 1
              /\ \A k \in 1..Len(r) - j + 1 : q[k] = r[j + k - 1]
          <6>1. j \in Nat \ {0} /\ j <= Len(r) + 1 /\ Len(r) <= Len(r)
            BY <3>4, <5>0
          <6>2. /\ Len(SubSeq(r, j, Len(r))) = Len(r) - j + 1
                /\ \A k \in 1..Len(r) - j + 1 : SubSeq(r, j, Len(r))[k] = r[j + k - 1]
            BY <3>4, <6>1, SliceIs
          <6> QED
            BY <5>1, <6>2
        <5> QED
          BY <3>4, <3>5, <4>3, <5>0, <5>2
      <4> QED
        BY <4>1, <4>2, <4>3 DEF Levels
    <3>7. \A i \in 1..Len(q) : q[i] \in Fixed \cup live /\ Level(q[i]) = l
      <4>1. \A i \in 1..Len(q) : /\ i + d \in 1..Len(r) /\ q[i] = r[i + d]
                                 /\ IF i + d <= 3 THEN l = 0 ELSE IF i + d = 4 THEN l = 1 ELSE l = 2
        BY <3>4, <3>5, <3>6 DEF Levels
      <4> QED
        BY <3>4, <4>1 DEF Levels
    <3>8. ASSUME NEW t \in Fixed \cup live, Level(t) = l PROVE \E i \in 1..Len(q) : q[i] = t
      <4>1. PICK k \in 1..Len(r) : r[k] = t
        BY <3>4
      <4>2. l = IF k <= 3 THEN 0 ELSE IF k = 4 THEN 1 ELSE 2
        BY <3>4, <3>8, <4>1
      <4>3. k - d \in 1..Len(q) /\ k - d + d = k
        BY <3>4, <3>5, <3>6, <4>2
      <4> QED
        BY <3>6, <4>1, <4>3
    <3> QED
      BY <3>2, <3>7, <3>8
  <2>4. \A t \in Queue(l) \cup {head[l]} : nextp[t] # Null => prevp[nextp[t]] = t
    <3>1. Queue(l) \cup {head[l]} \subseteq Linked
      BY <2>2, <2>3, TaskFacts DEF Linked, Tasks
    <3> QED
      BY <2>2, <3>1 DEF LinksPaired
  <2> QED
    BY <2>3, <2>4
<1> QED
  BY <1>1, RoundInvariance, PTL

-----------------------------------------------------------------------------
(* The cyclic list of RoundRobin.                                          *)

LEMMA RoundIs ==
  ASSUME AInv, NEW r, Round(r, nextp, live)
  PROVE  Path(0) \o Path(1) \o Path(2) = r
<1>1. live \in SUBSET Slots /\ IsFiniteSet(Slots)
  BY DEF AInv, ApplicationsOnly, IInv, TypeOK, TypeProgram
<1>2. r = PathIn(nextp, head[0]) \o PathIn(nextp, head[1]) \o PathIn(nextp, head[2])
  BY <1>1, RoundPaths
<1>3. Path(0) = PathIn(nextp, head[0]) /\ Path(1) = PathIn(nextp, head[1]) /\ Path(2) = PathIn(nextp, head[2])
  BY PathIs DEF Levels
<1> QED
  BY <1>2, <1>3, Zenon

LEMMA RoundThen ==
  ASSUME AInv, [Next]_vars, NEW r, Round(r, nextp', live')
  PROVE  Path(0)' \o Path(1)' \o Path(2)' = r
<1>1. live' \in SUBSET Slots /\ IsFiniteSet(Slots)
  BY NextIInv DEF AInv, ApplicationsOnly, IInv, TypeOK, TypeProgram
<1>2. r = PathIn(nextp', head[0]) \o PathIn(nextp', head[1]) \o PathIn(nextp', head[2])
  BY <1>1, RoundPaths
<1>3. Path(0)' = PathIn(nextp', head[0]) /\ Path(1)' = PathIn(nextp', head[1]) /\ Path(2)' = PathIn(nextp', head[2])
  BY PathIs DEF Levels
<1> QED
  BY <1>2, <1>3, Zenon

Ready == {t \in Fixed \cup live : is_running(t)}

LEMMA SlotsOutside == Slots \cap Fixed = {} /\ "init_task_0" \notin Slots /\ Fixed \cap Heads = {} /\ "init_task_0" \in Heads
BY SlotsAssumption DEF Heads, Fixed, Servers

LEMMA CreateMaps ==
  ASSUME AInv, RInv, [Next]_vars, NEW t \in Pcb, NEW p \in Slots, copy_process(t, p)
  PROVE  RR!Create(p)
<1>1. PICK r : Round(r, nextp, live) /\ Seeking(r)
  BY DEF RInv
<1>2. Path(0) \o Path(1) \o Path(2) = r
  BY <1>1, RoundIs
<1>3. Path(0)' \o Path(1)' \o Path(2)' = InFront(r, p)
  BY <1>1, CreateRound, RoundThen
<1>4. /\ p \in Slots \ live /\ live' = live \cup {p} /\ state' = [state EXCEPT ![p] = "RUNNING"]
      /\ current' = current
  BY DEF copy_process, NewPcb
<1>5. /\ state \in [Pcb -> {"RUNNING", "ZOMBIE", "JOINABLE", "EXITED"}] /\ live \in SUBSET Slots
      /\ Fixed \cup live \in SUBSET Pcb /\ p \in Pcb
  BY PcbFacts DEF AInv, IInv, TypeOK, TypeProgram, Pcb
<1>6. p \notin RR!Listed
  <2>1. p \notin Fixed \cup live
    BY <1>4, SlotsOutside
  <2>2. \A i \in 1..Len(r) : r[i] # p
    BY <1>1, <1>5, <2>1, RoundMembers
  <2> QED
    BY <1>2, <2>2 DEF RR!Listed
<1>7. Ready' = Ready \cup {p}
  BY <1>4, <1>5, SlotsOutside DEF Ready, is_running
<1> QED
  BY <1>2, <1>3, <1>4, <1>6, <1>7, Zenon DEF RR!Create, InFront, Resident, Ready

LEMMA RemoveMaps ==
  ASSUME AInv, RInv, [Next]_vars, ReapMain
  PROVE  pm_tmp \in Slots /\ RR!Remove(pm_tmp)
<1>1. PICK r : Round(r, nextp, live) /\ Seeking(r)
  BY DEF RInv
<1>2. Path(0) \o Path(1) \o Path(2) = r
  BY <1>1, RoundIs
<1>3. PICK i \in 1..Len(r) : r[i] = pm_tmp /\ Round(Without(r, i), nextp', live')
  BY <1>1, ReapRound
<1>4. Path(0)' \o Path(1)' \o Path(2)' = Without(r, i)
  BY <1>3, RoundThen
<1>5. /\ pm_tmp \in live /\ live' = live \ {pm_tmp} /\ state' = state
      /\ current' = current /\ current = "pm_daemon"
  BY Reaping
<1>6. live \in SUBSET Slots
  BY DEF AInv, IInv, TypeOK, TypeProgram
<1>7. Ready' = Ready \ {pm_tmp}
  BY <1>5, <1>6, SlotsOutside DEF Ready, is_running
<1>8. RR!Remove(pm_tmp)
  BY <1>2, <1>3, <1>4, <1>5, <1>7, Zenon DEF RR!Remove, Without, Ready
<1> QED
  BY <1>5, <1>6, <1>8

LEMMA StopMaps ==
  ASSUME AInv, RInv, [Next]_vars, NEW t \in Pcb, FinishExit(t) \/ JoinNoThread(t)
  PROVE  RR!Stop
<1>1. PICK r : Round(r, nextp, live)
  BY DEF RInv
<1>2. Path(0) \o Path(1) \o Path(2) = r
  BY <1>1, RoundIs
<1>3. t = current /\ current' = current /\ live' = live /\ nextp' = nextp
  BY DEF FinishExit, JoinNoThread, Running, cpu, links
<1>4. Path(0)' \o Path(1)' \o Path(2)' = r
  BY <1>1, <1>3, RoundThen
<1>5. t \in Slots
  <2>1. CASE FinishExit(t)
    <3>1. pc[t] = "posted"
      BY <2>1 DEF FinishExit
    <3>2. t \notin Heads \cup Servers /\ t # "shell"
      BY <3>1 DEF AInv, IInv, ServersStay, RInv, ResidentsRun
    <3> QED
      BY <3>2 DEF Pcb, Fixed
  <2>2. CASE JoinNoThread(t)
    BY <2>2 DEF JoinNoThread
  <2> QED
    BY <2>1, <2>2
<1>6. \E s \in {"EXITED", "ZOMBIE"} : state' = [state EXCEPT ![t] = s]
  BY DEF FinishExit, JoinNoThread
<1>7. Fixed \cup live \subseteq Pcb /\ state \in [Pcb -> {"RUNNING", "ZOMBIE", "JOINABLE", "EXITED"}]
  BY PcbFacts DEF AInv, IInv, TypeOK, TypeProgram, Pcb
<1>8. Ready' = Ready \ {t}
  BY <1>3, <1>6, <1>7 DEF Ready, is_running
<1> QED
  BY <1>2, <1>3, <1>4, <1>5, <1>8, Zenon DEF RR!Stop, Ready

LEMMA StayMaps ==
  ASSUME AInv, RInv, [Next]_vars, UNCHANGED <<nextp, live, state, current>>
  PROVE  UNCHANGED RR!vars
<1>1. PICK r : Round(r, nextp, live)
  BY DEF RInv
<1>2. Path(0) \o Path(1) \o Path(2) = r
  BY <1>1, RoundIs
<1>3. Path(0)' \o Path(1)' \o Path(2)' = r
  BY <1>1, RoundThen
<1>4. Ready' = Ready /\ current' = current
  BY DEF Ready, is_running
<1> QED
  BY <1>2, <1>3, <1>4, Zenon DEF RR!vars, Ready

LEMMA PlaceIs ==
  ASSUME NEW r, Path(0) \o Path(1) \o Path(2) = r, Once(r), NEW c \in 0..Len(r), OwnerAt(r, c)
  PROVE  RR!Place = c
<1> DEFINE e == Path(0) \o Path(1) \o Path(2)
<1>1. RR!Place = IF current = "init_task_0" THEN 0 ELSE CHOOSE j \in 1..Len(e) : e[j] = current
  BY Zenon DEF RR!Place
<1>0. e = r
  OBVIOUS
<1> HIDE DEF e
<1>2. CASE current = "init_task_0"
  BY <1>1, <1>2 DEF OwnerAt
<1>3. CASE current # "init_task_0"
  <2>1. c \in 1..Len(r) /\ r[c] = current
    BY <1>3 DEF OwnerAt
  <2>2. \A j \in 1..Len(r) : r[j] = current <=> j = c
    BY <2>1 DEF Once
  <2>3. c \in 1..Len(e) /\ \A j \in 1..Len(e) : e[j] = current <=> j = c
    BY <1>0, <2>1, <2>2
  <2>4. (CHOOSE j \in 1..Len(e) : e[j] = current) = c
    BY <2>3
  <2> QED
    BY <1>1, <1>3, <2>4
<1> QED
  BY <1>2, <1>3

LEMMA GrantMaps ==
  ASSUME AInv, RInv, [Next]_vars, switch_to, ~SameTask
  PROVE  RR!Grant
<1>1. PICK r : Round(r, nextp, live) /\ Seeking(r)
  BY DEF RInv
<1>2. Path(0) \o Path(1) \o Path(2) = r
  BY <1>1, RoundIs
<1>3. PICK c \in 0..Len(r), m \in 1..Len(r) : Found(r, Cursor, c, m)
  BY <1>1, SeekingIs DEF switch_to
<1>4. UNCHANGED <<nextp, live, state>> /\ current' = r[m]
  BY <1>3 DEF switch_to, links, Found
<1>5. Path(0)' \o Path(1)' \o Path(2)' = r
  BY <1>1, <1>4, RoundThen
<1>6. Ready' = Ready
  BY <1>4 DEF Ready, is_running
<1>7. /\ Len(r) \in Nat /\ Len(r) >= 4
      /\ \A k \in 1..Len(r) : r[k] \in Fixed \cup live
  BY <1>1, RoundMembers DEF AInv, IInv, TypeOK, TypeProgram
<1>8. \A k \in 1..Len(r) : r[k] \in Ready <=> is_running(r[k])
  BY <1>7 DEF Ready
<1>9. RR!Place = c
  BY <1>1, <1>2, <1>3, PlaceIs DEF Round, Found
<1>10. \A k : RR!After(k) = r[IF c + k > Len(r) THEN c + k - Len(r) ELSE c + k]
  BY <1>2, <1>9, Zenon DEF RR!After
<1>11. PICK k : k = IF c < m THEN m - c ELSE Len(r) - c + 1
  OBVIOUS
<1>12. /\ k \in 1..Len(r) /\ RR!After(k) = r[m]
       /\ \A j \in 1..k - 1 : /\ c + j \in c + 1..Len(r) /\ c + j \in 1..Len(r) /\ RR!After(j) = r[c + j]
                              /\ ~is_running(r[c + j])
  <2>1. CASE c < m
    <3>1. k = m - c /\ k \in 1..Len(r) /\ c + k = m
      BY <1>7, <1>11, <2>1
    <3>2. RR!After(k) = r[m]
      BY <1>7, <1>10, <3>1
    <3>3. Passed(r, c, m - 1)
      <4>1. CASE m = 1
        <5>1. c = 0 /\ m - 1 = 0
          BY <2>1, <4>1
        <5> QED
          BY <5>1 DEF Passed
      <4>2. CASE m # 1
        BY <1>3, <4>2 DEF Found
      <4> QED
        BY <4>1, <4>2
    <3>4. ASSUME NEW j \in 1..k - 1
          PROVE  /\ c + j \in c + 1..Len(r) /\ c + j \in 1..Len(r) /\ RR!After(j) = r[c + j]
                 /\ ~is_running(r[c + j])
      <4>1. c + j \in c + 1..m - 1 /\ c + j \in c + 1..Len(r) /\ c + j \in 1..Len(r) /\ ~(c + j > Len(r))
        BY <1>7, <3>1
      <4> QED
        BY <1>10, <3>3, <4>1 DEF Passed
    <3> QED
      BY <3>1, <3>2, <3>4
  <2>2. CASE ~(c < m)
    <3>1. m = 1 /\ Passed(r, c, Len(r))
      BY <1>3, <2>2 DEF Found
    <3>2. k = Len(r) - c + 1 /\ k \in 1..Len(r) /\ c + k > Len(r) /\ c + k - Len(r) = 1
      BY <1>7, <1>11, <2>2, <3>1
    <3>3. RR!After(k) = r[m]
      BY <1>10, <3>1, <3>2
    <3>4. ASSUME NEW j \in 1..k - 1
          PROVE  /\ c + j \in c + 1..Len(r) /\ c + j \in 1..Len(r) /\ RR!After(j) = r[c + j]
                 /\ ~is_running(r[c + j])
      <4>0. PICK n : n = Len(r)
        OBVIOUS
      <4>1. c + j \in c + 1..Len(r) /\ c + j \in 1..Len(r) /\ ~(c + j > Len(r))
        <5>1. n \in Nat /\ c \in 0..n /\ k = n - c + 1 /\ j \in 1..k - 1
          BY <1>7, <3>2, <4>0
        <5>2. c + j \in c + 1..n /\ c + j \in 1..n /\ ~(c + j > n)
          BY <5>1
        <5> QED
          BY <4>0, <5>2
      <4> QED
        BY <1>10, <3>1, <4>1 DEF Passed
    <3> QED
      BY <3>2, <3>3, <3>4
  <2> QED
    BY <2>1, <2>2
<1>13. RR!After(k) \in Ready /\ \A j \in 1..k - 1 : RR!After(j) \notin Ready
  BY <1>3, <1>8, <1>12 DEF Found
<1>14. k \in 1..Len(r) /\ current' = RR!After(k)
  BY <1>4, <1>12
<1> QED
  BY <1>2, <1>5, <1>6, <1>13, <1>14, Zenon DEF RR!Grant, Ready

LEMMA StepMaps ==
  ASSUME AInv, RInv, [Next]_vars PROVE [RR!Next]_(RR!vars)
<1>1. CASE Scheduler
  <2>1. CASE switch_to /\ ~SameTask
    BY <2>1, GrantMaps DEF RR!Next
  <2>2. CASE switch_to /\ SameTask
    <3>1. UNCHANGED <<nextp, live, state, current>>
      BY <2>2 DEF switch_to, links, cpu
    <3> QED
      BY <3>1, StayMaps
  <2>3. CASE ScanServer \/ ScanExtra \/ CallRoundRobin \/ RoundRobinStep \/ Resume
    <3>1. UNCHANGED <<nextp, live, state, current>>
      BY <2>3 DEF ScanServer, ScanExtra, CallRoundRobin, RoundRobinStep, Resume, links, cpu
    <3> QED
      BY <3>1, StayMaps
  <2> QED
    BY <1>1, <2>1, <2>2, <2>3 DEF Scheduler
<1>2. CASE timer_tick \/ TakeLetter \/ UNCHANGED vars
  <2>1. UNCHANGED <<nextp, live, state, current>>
    BY <1>2 DEF timer_tick, TakeLetter, vars, links, cpu
  <2> QED
    BY <2>1, StayMaps
<1>3. CASE ReapMain
  <2>1. pm_tmp \in Slots /\ RR!Remove(pm_tmp)
    BY <1>3, RemoveMaps
  <2> QED
    BY <2>1 DEF RR!Next
<1>4. ASSUME NEW t \in Pcb, Own(t) PROVE [RR!Next]_(RR!vars)
  <2>1. CASE FinishExit(t) \/ JoinNoThread(t)
    BY <2>1, StopMaps DEF RR!Next
  <2>2. CASE Yield(t) \/ StartCopy(t, "fork") \/ CopyFails(t) \/ send_msg(t) \/ MailboxFull(t)
    <3>1. UNCHANGED <<nextp, live, state, current>>
      BY <2>2, send_msgIs DEF Yield, StartCopy, CopyFails, MailboxFull, links, cpu
    <3> QED
      BY <3>1, StayMaps
  <2> QED
    BY <1>4, <2>1, <2>2 DEF Own, Exit
<1>5. ASSUME NEW t \in Pcb, NEW p \in Slots, copy_process(t, p) PROVE [RR!Next]_(RR!vars)
  <2>1. RR!Create(p)
    BY <1>5, CreateMaps
  <2> QED
    BY <2>1 DEF RR!Next
<1> QED
  BY <1>1, <1>2, <1>3, <1>4, <1>5, StepCases

LEMMA InitMaps == ApplicationsOnly /\ Init => RR!Init
<1> SUFFICES ASSUME ApplicationsOnly, Init PROVE RR!Init
  OBVIOUS
<1>1. PICK r : r = Resident
  OBVIOUS
<1>2. Round(r, nextp, live)
  BY <1>1, RoundBegins DEF Resident
<1>3. AInv
  BY InitAInv
<1>4. Path(0) \o Path(1) \o Path(2) = r
  BY <1>2, <1>3, RoundIs
<1>5. live = {} /\ current = "init_task_0" /\ \A t \in Fixed : is_running(t)
  BY PcbFacts DEF Init, is_running, Pcb
<1>6. Ready = {r[i] : i \in 1..Len(r)}
  <2>1. Ready = Fixed
    BY <1>5 DEF Ready
  <2>2. \A k \in 1..Len(r) : r[k] \in Fixed
    BY <1>2, <1>5, RoundMembers
  <2>3. \A t \in Fixed : \E k \in 1..Len(r) : r[k] = t
    BY <1>2, <1>5, RoundMembers
  <2> QED
    BY <2>1, <2>2, <2>3
<1> QED
  BY <1>1, <1>4, <1>5, <1>6, Zenon DEF RR!Init, Resident, Ready

\* With processes only, sched.c is a round robin over one cyclic list: whatever
\* cursors, levels, counters and the lazy switch do, the CPU goes from its owner
\* to the next task of the round that is ready, and creation, exit and reaping
\* change the round and nothing else (until a send_msg is torn).
THEOREM ImplementsRoundRobin == ApplicationsOnly => (Spec => CyclicOrder)
<1>1. ApplicationsOnly /\ Init => RR!Init
  BY InitMaps
<1>2. (torn \/ (AInv /\ RInv)) /\ [Next]_vars => [torn' \/ RR!Next]_(RR!vars)
  BY StepMaps, TornStays
<1> QED
  BY <1>1, <1>2, RoundInvariance, PTL DEF Spec, CyclicOrder

-----------------------------------------------------------------------------
(* The history of SchedTurns.                                              *)

\* Place j is behind place w and not behind the owner's place c, going round.
Between(w, c, j) == IF w < c THEN w < j /\ j <= c ELSE w < j \/ j <= c

\* Whoever had the CPU since r[w] had it stands between r[w] and the owner.
Waited(r) ==
  \A c \in 0..Len(r), w, j \in 1..Len(r) :
    OwnerAt(r, c) /\ r[w] \in Slots /\ Waits(r[w]) /\ r[j] \in turns[r[w]] => Between(w, c, j)

TInv ==
  /\ turns \in [Slots -> SUBSET live]
  /\ \A t \in Slots : ~Waits(t) => turns[t] = {}
  /\ \A r : Round(r, nextp, live) => Waited(r)

\* The tasks that both rounds have are in the same order in them.
SameOrder(r, u) ==
  \A a, b \in 1..Len(u), i, j \in 1..Len(r) : u[a] = r[i] /\ u[b] = r[j] => (a < b <=> i < j)

LEMMA InsertKeepsOrder ==
  ASSUME NEW r, Len(r) \in Nat, Len(r) >= 4, NEW p, NEW u, Inserted(r, p, u), Once(u)
  PROVE  SameOrder(r, u)
<1> DEFINE o(k) == IF k <= 4 THEN k ELSE k + 1
<1>1. ASSUME NEW k \in 1..Len(r) PROVE o(k) \in 1..Len(u) /\ u[o(k)] = r[k]
  BY DEF Inserted
<1>2. ASSUME NEW a \in 1..Len(u), NEW k \in 1..Len(r), u[a] = r[k] PROVE a = o(k)
  <2> HIDE DEF o
  <2> QED
    BY <1>1, <1>2 DEF Once
<1>3. ASSUME NEW i \in 1..Len(r), NEW j \in 1..Len(r) PROVE o(i) < o(j) <=> i < j
  OBVIOUS
<1> HIDE DEF o
<1> QED
  BY <1>2, <1>3 DEF SameOrder

LEMMA DropKeepsOrder ==
  ASSUME NEW r, Len(r) \in Nat, NEW i \in 1..Len(r), NEW u, Dropped(r, i, u), Once(r)
  PROVE  SameOrder(r, u)
<1> DEFINE o(k) == IF k < i THEN k ELSE k + 1
<1>1. ASSUME NEW k \in 1..Len(u) PROVE o(k) \in 1..Len(r) /\ u[k] = r[o(k)]
  BY DEF Dropped
<1>2. ASSUME NEW a \in 1..Len(u), NEW k \in 1..Len(r), u[a] = r[k] PROVE k = o(a)
  <2> HIDE DEF o
  <2> QED
    BY <1>1, <1>2 DEF Once
<1>3. ASSUME NEW a \in 1..Len(u), NEW b \in 1..Len(u) PROVE o(a) < o(b) <=> a < b
  <2>1. Len(u) = Len(r) - 1
    BY DEF Dropped
  <2> QED
    BY <2>1
<1> HIDE DEF o
<1> QED
  BY <1>2, <1>3 DEF SameOrder

\* The round changes, its order and its owner do not.
LEMMA OrderedWait ==
  ASSUME NEW r, Len(r) \in Nat, NEW u, Len(u) \in Nat, SameOrder(r, u), Waited(r), current' = current,
         NEW O, OwnerAt(u, O)' => \E c \in 0..Len(r) : OwnerAt(r, c),
         \A w \in 1..Len(u) : u[w] \in Slots /\ Waits(u[w])' /\ turns'[u[w]] # {} =>
           /\ Waits(u[w]) /\ turns'[u[w]] \subseteq turns[u[w]]
           /\ \E k \in 1..Len(r) : r[k] = u[w],
         \A w \in 1..Len(u), j \in 1..Len(u) : u[w] \in Slots /\ Waits(u[w])' /\ u[j] \in turns'[u[w]] =>
           \E k \in 1..Len(r) : r[k] = u[j]
  PROVE  \A w, j \in 1..Len(u) :
           /\ O \in 0..Len(u) /\ OwnerAt(u, O)' /\ u[w] \in Slots /\ Waits(u[w])' /\ u[j] \in turns'[u[w]]
           => Between(w, O, j)
<1> SUFFICES ASSUME NEW w \in 1..Len(u), NEW j \in 1..Len(u), O \in 0..Len(u), OwnerAt(u, O)',
                    u[w] \in Slots, Waits(u[w])', u[j] \in turns'[u[w]]
             PROVE  Between(w, O, j)
  OBVIOUS
<1>1. PICK c \in 0..Len(r) : OwnerAt(r, c)
  OBVIOUS
<1>2. PICK x \in 1..Len(r) : r[x] = u[w]
  OBVIOUS
<1>3. PICK y \in 1..Len(r) : r[y] = u[j]
  OBVIOUS
<1>4. Waits(r[x]) /\ r[x] \in Slots /\ r[y] \in turns[r[x]]
  BY <1>2, <1>3
<1>5. Between(x, c, y)
  BY <1>1, <1>4 DEF Waited
<1>6. w < j <=> x < y
  BY <1>2, <1>3 DEF SameOrder
<1>7. CASE current = "init_task_0"
  <2>1. O = 0 /\ c = 0
    BY <1>1, <1>7 DEF OwnerAt
  <2> QED
    BY <1>5, <1>6, <2>1 DEF Between
<1>8. CASE current # "init_task_0"
  <2>1. O \in 1..Len(u) /\ u[O] = current /\ c \in 1..Len(r) /\ r[c] = current
    BY <1>1, <1>8 DEF OwnerAt
  <2>2. (w < O <=> x < c) /\ (O < j <=> c < y)
    BY <1>2, <1>3, <2>1 DEF SameOrder
  <2> QED
    BY <1>5, <1>6, <2>1, <2>2 DEF Between
<1> QED
  BY <1>7, <1>8

LEMMA WaitCases ==
  ASSUME AInv, RInv, [Next]_vars
  PROVE  \/ switch_to /\ ~SameTask
         \/ UNCHANGED <<nextp, live, current>> /\ \A t \in Slots : Waits(t)' = Waits(t)
         \/ \E t \in Pcb, p \in Slots : copy_process(t, p)
         \/ ReapMain
<1>1. ASSUME UNCHANGED <<nextp, live, state, current>>
      PROVE  UNCHANGED <<nextp, live, current>> /\ \A t \in Slots : Waits(t)' = Waits(t)
  BY <1>1 DEF Waits, is_running
<1>2. CASE Scheduler
  <2>1. (switch_to /\ ~SameTask) \/ UNCHANGED <<nextp, live, state, current>>
    BY <1>2 DEF Scheduler, switch_to, ScanServer, ScanExtra, CallRoundRobin, RoundRobinStep, Resume, links, cpu
  <2> QED
    BY <1>1, <2>1
<1>3. CASE timer_tick \/ TakeLetter \/ UNCHANGED vars
  <2>1. UNCHANGED <<nextp, live, state, current>>
    BY <1>3 DEF timer_tick, TakeLetter, vars, links, cpu
  <2> QED
    BY <1>1, <2>1
<1>4. ASSUME NEW t \in Pcb, Own(t)
      PROVE  UNCHANGED <<nextp, live, current>> /\ \A x \in Slots : Waits(x)' = Waits(x)
  <2>1. CASE FinishExit(t) \/ JoinNoThread(t)
    <3>1. t = current /\ UNCHANGED <<nextp, live, current>>
      BY <2>1 DEF FinishExit, JoinNoThread, Running, links, cpu
    <3>2. \E s \in {"EXITED", "ZOMBIE"} : state' = [state EXCEPT ![t] = s]
      BY <2>1 DEF FinishExit, JoinNoThread
    <3>3. Slots \subseteq Pcb /\ state \in [Pcb -> {"RUNNING", "ZOMBIE", "JOINABLE", "EXITED"}]
      BY PcbFacts DEF AInv, IInv, TypeOK, TypeProgram
    <3>4. \A x \in Slots : x # t => state'[x] = state[x]
      BY <3>2, <3>3
    <3> QED
      BY <3>1, <3>4 DEF Waits, is_running
  <2>2. CASE Yield(t) \/ StartCopy(t, "fork") \/ CopyFails(t) \/ send_msg(t) \/ MailboxFull(t)
    <3>1. UNCHANGED <<nextp, live, state, current>>
      BY <2>2, send_msgIs DEF Yield, StartCopy, CopyFails, MailboxFull, links, cpu
    <3> QED
      BY <1>1, <3>1
  <2> QED
    BY <1>4, <2>1, <2>2 DEF Own, Exit
<1> QED
  BY <1>2, <1>3, <1>4, StepCases

\* A round is the only one.
LEMMA OneRound ==
  ASSUME AInv, [Next]_vars, NEW r, NEW u, Round(r, nextp', live'), Round(u, nextp', live')
  PROVE  r = u
BY RoundThen

LEMMA WatchedIs ==
  ASSUME TInv, Watched
  PROVE  /\ turns' \in [Slots -> SUBSET live']
         /\ \A t \in Slots : ~Waits(t)' => turns'[t] = {}
         /\ \A t \in Slots : turns'[t] \subseteq turns[t] \cup ({current'} \ {current})
         /\ current' = current => \A t \in Slots : turns'[t] \subseteq turns[t]
<1>1. \A t \in Slots : turns'[t] = IF ~Waits(t)' THEN {} ELSE (turns[t] \cup ({current'} \ {current})) \cap live'
  BY DEF Watched
<1>2. turns' = [t \in Slots |-> turns'[t]]
  BY DEF Watched
<1>3. \A t \in Slots : turns'[t] \subseteq live'
  BY <1>1
<1> QED
  BY <1>1, <1>2, <1>3

LEMMA TInvBy ==
  ASSUME AInv, [Next]_vars, TInv, Watched, NEW u, Round(u, nextp', live'), Waited(u)'
  PROVE  TInv'
<1>1. \A r : Round(r, nextp', live') => r = u
  BY OneRound
<1>2. \A r : Round(r, nextp', live') => Waited(r)'
  BY <1>1
<1> QED
  BY <1>2, WatchedIs DEF TInv, Round

LEMMA KeptWaits ==
  ASSUME AInv, RInv, [Next]_vars, TInv, Watched,
         UNCHANGED <<nextp, live, current>>, \A t \in Slots : Waits(t)' = Waits(t)
  PROVE  TInv'
<1>1. PICK r : Round(r, nextp, live) /\ Waited(r)
  BY DEF RInv, TInv
<1>2. \A t \in Slots : turns'[t] \subseteq turns[t]
  BY WatchedIs
<1>3. \A c : OwnerAt(r, c)' <=> OwnerAt(r, c)
  BY DEF OwnerAt
<1>4. Waited(r)'
  BY <1>1, <1>2, <1>3 DEF Waited
<1> QED
  BY <1>1, <1>4, TInvBy

LEMMA OwnerPlace ==
  ASSUME AInv, NEW r, Round(r, nextp, live)
  PROVE  \E c \in 0..Len(r) : OwnerAt(r, c)
<1>1. live \in SUBSET Slots /\ current \in Fixed \cup live \cup {"init_task_0"}
  BY DEF AInv, IInv, TypeOK, TypeProgram, CursorsExist, Scheduled, Tasks
<1>2. Len(r) \in Nat
  BY <1>1, RoundMembers
<1>3. CASE current = "init_task_0"
  BY <1>2, <1>3 DEF OwnerAt
<1>4. CASE current # "init_task_0"
  <2>1. PICK k \in 1..Len(r) : r[k] = current
    BY <1>1, <1>4, RoundMembers
  <2> QED
    BY <1>4, <2>1 DEF OwnerAt
<1> QED
  BY <1>3, <1>4

\* Creation and reaping.
LEMMA MovedWaits ==
  ASSUME AInv, [Next]_vars, TInv, Watched, UNCHANGED current,
         NEW r, Round(r, nextp, live), NEW u, Round(u, nextp', live'), SameOrder(r, u),
         \A t \in Slots : Waits(t)' /\ turns'[t] # {} => Waits(t)
  PROVE  TInv'
<1>1. live \in SUBSET Slots /\ live' \in SUBSET Slots
  BY NextIInv DEF AInv, IInv, TypeOK, TypeProgram
<1>2. Len(r) \in Nat /\ Len(u) \in Nat /\ Waited(r) /\ \A t \in live : \E k \in 1..Len(r) : r[k] = t
  BY <1>1, RoundMembers DEF TInv
<1>3. \A t \in Slots : turns'[t] \subseteq turns[t] /\ turns[t] \subseteq live /\ (Waits(t) => t \in live)
  BY WatchedIs DEF TInv, Waits
<1>4. \E c \in 0..Len(r) : OwnerAt(r, c)
  BY OwnerPlace
<1>5. \A w \in 1..Len(u) : u[w] \in Slots /\ Waits(u[w])' /\ turns'[u[w]] # {} =>
           /\ Waits(u[w]) /\ turns'[u[w]] \subseteq turns[u[w]]
           /\ \E k \in 1..Len(r) : r[k] = u[w]
  BY <1>2, <1>3
<1>6. \A w \in 1..Len(u), j \in 1..Len(u) : u[w] \in Slots /\ Waits(u[w])' /\ u[j] \in turns'[u[w]] =>
           \E k \in 1..Len(r) : r[k] = u[j]
  BY <1>2, <1>3
<1>7. ASSUME NEW O \in 0..Len(u)
      PROVE  \A w, j \in 1..Len(u) :
               /\ O \in 0..Len(u) /\ OwnerAt(u, O)' /\ u[w] \in Slots /\ Waits(u[w])' /\ u[j] \in turns'[u[w]]
               => Between(w, O, j)
  BY <1>2, <1>4, <1>5, <1>6, OrderedWait
<1>8. Waited(u)'
  BY <1>7 DEF Waited, Between
<1> QED
  BY <1>8, TInvBy

LEMMA CreatedWaits ==
  ASSUME AInv, RInv, [Next]_vars, TInv, Watched, NEW t \in Pcb, NEW p \in Slots, copy_process(t, p)
  PROVE  TInv'
<1>1. PICK r : Round(r, nextp, live) /\ Seeking(r)
  BY DEF RInv
<1>2. PICK u : u = InFront(r, p)
  OBVIOUS
<1>3. Round(u, nextp', live')
  BY <1>1, <1>2, CreateRound
<1>4. /\ p \notin live /\ live' = live \cup {p} /\ UNCHANGED current
      /\ state' = [state EXCEPT ![p] = "RUNNING"]
      /\ state \in [Pcb -> {"RUNNING", "ZOMBIE", "JOINABLE", "EXITED"}] /\ Slots \subseteq Pcb
  BY PcbFacts DEF copy_process, NewPcb, AInv, IInv, TypeOK, TypeProgram
<1>5. turns'[p] = {}
  <2>1. ~Waits(p) /\ turns'[p] \subseteq turns[p]
    BY <1>4, WatchedIs DEF Waits
  <2> QED
    BY <2>1 DEF TInv
<1>6. \A x \in Slots : Waits(x)' /\ turns'[x] # {} => Waits(x)
  BY <1>4, <1>5 DEF Waits, is_running
<1>7. SameOrder(r, u)
  <2>1. /\ r \in Seq(Pcb) /\ Len(r) \in Nat /\ Len(r) >= 4 /\ p \in Pcb
    BY <1>1, PcbFacts DEF Round
  <2>2. Inserted(r, p, u)
    <3>1. Len(Resident) = 4 /\ Len(Resident) + 1 = 5
      BY DEF Resident
    <3>2. Inserted(r, p, SubSeq(r, 1, 4) \o <<p>> \o SubSeq(r, 5, Len(r)))
      BY <2>1, InsertedIs
    <3>3. u = SubSeq(r, 1, 4) \o <<p>> \o SubSeq(r, 5, Len(r))
      BY <1>2, <3>1, Zenon DEF InFront
    <3> QED
      BY <3>2, <3>3
  <2>3. Once(u)
    BY <1>3 DEF Round
  <2> QED
    BY <2>1, <2>2, <2>3, InsertKeepsOrder
<1> QED
  BY <1>1, <1>3, <1>4, <1>6, <1>7, MovedWaits

LEMMA ReapedWaits ==
  ASSUME AInv, RInv, [Next]_vars, TInv, Watched, ReapMain
  PROVE  TInv'
<1>1. PICK r : Round(r, nextp, live) /\ Seeking(r)
  BY DEF RInv
<1>2. PICK i \in 1..Len(r) : r[i] = pm_tmp /\ Round(Without(r, i), nextp', live')
  BY <1>1, ReapRound
<1>3. PICK u : u = Without(r, i)
  OBVIOUS
<1>4. live' \subseteq live /\ UNCHANGED <<current, state>>
  BY Reaping
<1>5. \A x \in Slots : Waits(x)' /\ turns'[x] # {} => Waits(x)
  BY <1>4 DEF Waits, is_running
<1>6. SameOrder(r, u)
  <2>1. r \in Seq(Pcb) /\ Len(r) \in Nat /\ Once(r)
    BY <1>1 DEF Round
  <2>2. Dropped(r, i, u)
    BY <1>3, <2>1, DroppedIs DEF Without
  <2> QED
    BY <2>1, <2>2, DropKeepsOrder
<1>7. Round(u, nextp', live')
  BY <1>2, <1>3
<1> QED
  BY <1>1, <1>4, <1>5, <1>6, <1>7, MovedWaits

\* A grant does not pass a task that waits, so it comes round behind it.
LEMMA GrantedWaits ==
  ASSUME AInv, RInv, [Next]_vars, TInv, Watched, switch_to, ~SameTask
  PROVE  /\ TInv'
         /\ \A t \in Slots : Waits(t) => current' \notin turns[t]
<1>1. PICK r : Round(r, nextp, live) /\ Seeking(r) /\ Waited(r)
  BY DEF RInv, TInv
<1>2. PICK c \in 0..Len(r), m \in 1..Len(r) : Found(r, Cursor, c, m)
  BY <1>1, SeekingIs DEF switch_to
<1>3. UNCHANGED <<nextp, live, state>> /\ current' = r[m] /\ is_running(r[m]) /\ OwnerAt(r, c)
  BY <1>2 DEF switch_to, links, Found
<1>4. live \in SUBSET Slots
  BY DEF AInv, IInv, TypeOK, TypeProgram
<1>5. /\ Len(r) \in Nat /\ Len(r) >= 4 /\ Once(r)
      /\ \A k \in 1..Len(r) : r[k] \notin Heads /\ IF k <= 4 THEN r[k] \notin Slots ELSE r[k] \in live
      /\ \A t \in live : \E k \in 1..Len(r) : r[k] = t
  <2>1. Once(r)
    BY <1>1 DEF Round
  <2>2. \A t \in live : \E k \in 1..Len(r) : r[k] = t
    BY <1>1, <1>4, RoundMembers
  <2> QED
    BY <1>1, <1>4, <2>1, <2>2, RoundMembers
<1>6. \/ c < m /\ Passed(r, c, m - 1)
      \/ m = 1 /\ Passed(r, c, Len(r))
  BY <1>2 DEF Found
\* Where a ready task stands that neither is the owner nor gets the CPU.
<1>7. ASSUME NEW w \in 1..Len(r), r[w] \in Slots, is_running(r[w]), w # c, w # m
      PROVE  /\ ~Between(w, c, m) \/ m = 1
             /\ \A j \in 1..Len(r) : Between(w, c, j) => Between(w, m, j)
             /\ Between(w, m, m)
  <2>1. w \in Nat /\ w > 4
    BY <1>5, <1>7
  <2>2. CASE c < m /\ Passed(r, c, m - 1)
    <3>1. w < c \/ w > m
      <4>1. ~(w \in c + 1..m - 1)
        BY <1>7, <2>2 DEF Passed
      <4> QED
        BY <1>7, <2>2, <4>1
    <3> QED
      BY <2>2, <3>1 DEF Between
  <2>3. CASE m = 1 /\ Passed(r, c, Len(r))
    <3>1. w < c
      <4>1. ~(w \in c + 1..Len(r))
        BY <1>7, <2>3 DEF Passed
      <4> QED
        BY <1>5, <1>7, <4>1
    <3> QED
      BY <2>1, <2>3, <3>1 DEF Between
  <2> QED
    BY <1>6, <2>2, <2>3
<1>8. \A w \in 1..Len(r) : r[w] \in Slots /\ Waits(r[w]) => is_running(r[w]) /\ w # c
  <2> SUFFICES ASSUME NEW w \in 1..Len(r), r[w] \in Slots, Waits(r[w]) PROVE is_running(r[w]) /\ w # c
    OBVIOUS
  <2>1. is_running(r[w]) /\ r[w] # current
    BY DEF Waits
  <2>2. c \in 1..Len(r) => r[c] = current
    BY <1>3, <1>5 DEF OwnerAt
  <2> QED
    BY <2>1, <2>2
<1>9. ASSUME NEW t \in Slots, Waits(t) PROVE current' \notin turns[t]
  <2>1. t \in live /\ turns[t] \subseteq live
    BY <1>9 DEF Waits, TInv
  <2>2. PICK w \in 1..Len(r) : r[w] = t
    BY <1>5, <2>1
  <2>3. CASE m <= 4
    BY <1>3, <1>4, <1>5, <2>1, <2>3
  <2>4. CASE m > 4 /\ w = m
    <3>1. SUFFICES ASSUME r[m] \in turns[r[w]] PROVE FALSE
      BY <1>3, <2>2
    <3>2. Between(w, c, m)
      BY <1>1, <1>3, <1>9, <2>2, <3>1 DEF Waited
    <3>3. w # c /\ c < m
      BY <1>6, <1>8, <1>9, <2>2, <2>4
    <3> QED
      BY <2>4, <3>2, <3>3 DEF Between
  <2>5. CASE m > 4 /\ w # m
    <3>1. SUFFICES ASSUME r[m] \in turns[r[w]] PROVE FALSE
      BY <1>3, <2>2
    <3>2. Between(w, c, m)
      BY <1>1, <1>3, <1>9, <2>2, <3>1 DEF Waited
    <3>3. is_running(r[w]) /\ w # c
      BY <1>8, <1>9, <2>2
    <3> QED
      BY <1>7, <2>2, <2>5, <3>2, <3>3
  <2> QED
    BY <2>3, <2>4, <2>5
<1>10. Waited(r)'
  <2> SUFFICES ASSUME NEW d \in 0..Len(r), NEW w \in 1..Len(r), NEW j \in 1..Len(r),
                      OwnerAt(r, d)', r[w] \in Slots, Waits(r[w])', r[j] \in turns'[r[w]]
               PROVE  Between(w, d, j)
    BY DEF Waited
  <2>1. d = m
    <3>1. r[m] # "init_task_0"
      BY <1>5 DEF Heads
    <3>2. d \in 1..Len(r) /\ r[d] = r[m]
      BY <1>3, <3>1 DEF OwnerAt
    <3> QED
      BY <1>5, <3>2 DEF Once
  <2>2. is_running(r[w]) /\ w # m
    BY <1>3 DEF Waits, is_running
  <2>3. r[j] \in turns[r[w]] \/ j = m
    <3>1. r[j] \in turns[r[w]] \/ r[j] = r[m]
      BY <1>3, WatchedIs
    <3> QED
      BY <1>5, <3>1 DEF Once
  <2>4. m > 4 \/ j # m
    <3>1. turns'[r[w]] \subseteq live
      BY <1>3, WatchedIs
    <3> QED
      BY <1>4, <1>5, <3>1
  <2>5. CASE w = c
    <3>1. r[w] = current
      <4>1. w # 0
        OBVIOUS
      <4> QED
        BY <1>3, <2>5, <4>1 DEF OwnerAt
    <3>2. turns[r[w]] = {}
      BY <3>1 DEF Waits, TInv
    <3>3. j = m
      BY <2>3, <3>2
    <3>4. c < m
      BY <1>6, <2>4, <3>3
    <3> QED
      BY <2>1, <2>5, <3>3, <3>4 DEF Between
  <2>6. CASE w # c
    <3>1. CASE j = m
      BY <1>7, <2>1, <2>2, <2>6, <3>1
    <3>2. CASE r[j] \in turns[r[w]]
      <4>1. Waits(r[w])
        BY <3>2 DEF TInv
      <4>2. Between(w, c, j)
        BY <1>1, <1>3, <3>2, <4>1 DEF Waited
      <4> QED
        BY <1>7, <2>1, <2>2, <2>6, <4>2
    <3> QED
      BY <2>3, <3>1, <3>2
  <2> QED
    BY <2>5, <2>6
<1>11. Round(r, nextp', live')
  BY <1>1, <1>3
<1> QED
  BY <1>9, <1>10, <1>11, TInvBy

LEMMA TInvStep ==
  ASSUME AInv, RInv, TInv, [Next /\ Watched]_<<vars, turns>>
  PROVE  /\ TInv'
         /\ \A t \in Slots : Waits(t) /\ current' # current => current' \notin turns[t]
<1>1. CASE UNCHANGED <<vars, turns>>
  <2>1. UNCHANGED <<nextp, live, state, current, turns>>
    BY <1>1 DEF vars, links, cpu
  <2>2. [Next]_vars
    BY <1>1
  <2>3. PICK r : Round(r, nextp, live) /\ Waited(r)
    BY DEF RInv, TInv
  <2>4. Waited(r)' /\ \A t \in Slots : Waits(t)' = Waits(t)
    BY <2>1, <2>3 DEF Waited, OwnerAt, Waits, is_running
  <2>5. \A u : Round(u, nextp', live') => u = r
    BY <2>1, <2>2, <2>3, OneRound
  <2> QED
    BY <2>1, <2>4, <2>5 DEF TInv
<1>2. CASE Next /\ Watched
  <2>0. [Next]_vars
    BY <1>2
  <2>1. CASE switch_to /\ ~SameTask
    BY <1>2, <2>0, <2>1, GrantedWaits
  <2>2. CASE UNCHANGED <<nextp, live, current>> /\ \A t \in Slots : Waits(t)' = Waits(t)
    BY <1>2, <2>0, <2>2, KeptWaits
  <2>3. CASE \E t \in Pcb, p \in Slots : copy_process(t, p)
    <3>1. TInv'
      BY <1>2, <2>0, <2>3, CreatedWaits
    <3>2. current' = current
      BY <2>3 DEF copy_process, NewPcb
    <3> QED
      BY <3>1, <3>2
  <2>4. CASE ReapMain
    BY <1>2, <2>0, <2>4, ReapedWaits, Reaping
  <2> QED
    BY <2>0, <2>1, <2>2, <2>3, <2>4, WaitCases
<1> QED
  BY <1>1, <1>2

LEMMA TurnsBegin ==
  ASSUME ApplicationsOnly, Init, turns = [t \in Slots |-> {}]
  PROVE  AInv /\ RInv /\ TInv
<1>1. AInv /\ RInv
  BY InitAInv, InitRInv
<1>2. TInv
  BY DEF TInv, Waited
<1> QED
  BY <1>1, <1>2

\* With processes only: nobody gets the CPU twice while another that is ready
\* waits for it, so the longest wait is one turn of each, whoever is created or
\* reaped meanwhile (sched.c with its three cursors, fork.c, pm_deamon.c).
THEOREM TurnsAreFair == ApplicationsOnly => (TurnsSpec => OneTurnEach)
<1>1. ApplicationsOnly /\ Init /\ turns = [t \in Slots |-> {}] => AInv /\ RInv /\ TInv
  BY TurnsBegin
<1>2. (torn \/ (AInv /\ RInv /\ TInv)) /\ [Next /\ Watched]_<<vars, turns>>
      => (torn \/ (AInv /\ RInv /\ TInv))'
  <2> SUFFICES ASSUME torn \/ (AInv /\ RInv /\ TInv), [Next /\ Watched]_<<vars, turns>>
               PROVE  torn' \/ (AInv' /\ RInv' /\ TInv')
    OBVIOUS
  <2>1. [Next]_vars
    OBVIOUS
  <2> QED
    BY <2>1, NextAInv, RInvStep, TInvStep, TornStays
<1>3. (torn \/ (AInv /\ RInv /\ TInv)) /\ [Next /\ Watched]_<<vars, turns>>
      => [torn' \/ \A t \in Slots :
            Waits(t) /\ current' # current => current' \notin turns[t]]_<<vars, turns>>
  <2> SUFFICES ASSUME torn \/ (AInv /\ RInv /\ TInv), [Next /\ Watched]_<<vars, turns>>
               PROVE  torn' \/ \A t \in Slots :
                        Waits(t) /\ current' # current => current' \notin turns[t]
    OBVIOUS
  <2>1. [Next]_vars
    OBVIOUS
  <2> QED
    BY <2>1, TInvStep, TornStays
<1> QED
  BY <1>1, <1>2, <1>3, PTL DEF TurnsSpec, OneTurnEach
=============================================================================
