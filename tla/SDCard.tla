------------------------------- MODULE SDCard -------------------------------
(***************************************************************************)
(* The two drivers of the card, which share one controller: reads go       *)
(* through sd_readblock (sd.c), writes and the initialisation through      *)
(* sdTransferBlocks and sdInitCard (SDCard.c).  The shell and fs_daemon    *)
(* call them.  A call is a list of steps still to be done: a command is     *)
(* prepared, issued and awaited.  The controller and the card, which are   *)
(* not code, may take too long, answer wrongly or be pulled out.           *)
(***************************************************************************)
EXTENDS Integers, Sequences, FiniteSets

CONSTANTS
  Blocks,      \* the blocks of the card, 0..
  Unit,        \* bytes in a block (512)
  Kinds,       \* cards: [v2, hc, volts |-> BOOLEAN, width, support]
  Reads, Writes,   \* requests: [kind, lba, num, version]
  Retries,     \* how often ACMD41 is repeated (6)
  Attempts,    \* how often mount tries (3)
  MaxFaults,   \* bound: what goes wrong with the card
  Careless     \* what callers do that the drivers do not support

ASSUME CardAssumption ==
  /\ Blocks \subseteq Nat
  /\ Kinds \subseteq [v2 : BOOLEAN, hc : BOOLEAN, volts : BOOLEAN, width : Nat,
                     support : {"none", "count", "both"}]
  /\ Reads \subseteq [kind : {"read"}, lba : Nat, num : Nat, version : Nat]
  /\ Writes \subseteq [kind : {"write"}, lba : Nat, num : Nat, version : Nat]
  /\ Unit \in Nat \ {0} /\ Retries \in Nat /\ Attempts \in Nat \ {0} /\ MaxFaults \in Nat
  /\ Careless \subseteq {"share", "read half ready", "small card"}

VARIABLES
  disk,        \* disk[b]
  kind,        \* the card
  card,        \* its state, whether APP_CMD and SEND_IF_COND came, the block count
  hung,        \* the card takes longer than the drivers wait
  irq,         \* EMMC_INTERRUPT
  host,        \* CMDTM (CMD_INHIBIT), ARG1, BLKCNT, RESP0, the transfer (DAT_INHIBIT), DATA
  driver,      \* sdCard, sd_scr, sd_rca, sd_err
  call, todo,  \* for each caller, its request and the steps to be done
  tries,       \* attempts that mount has left
  buffer, result,
  faults, disturbed,  \* history: since the card was reset, something went wrong
  late         \* history: failed writes after which no call has succeeded

hardware == <<kind, card, hung, irq, host>>
calls == <<call, tries, result, late>>
caller == <<calls, todo, buffer>>
vars == <<disk, hardware, driver, caller, faults, disturbed>>

Callers == {"shell", "daemon"}
Idle == [kind |-> "none", lba |-> 0, num |-> 0, version |-> 0]
Mount == [Idle EXCEPT !.kind = "mount"]
Requests == Reads \cup Writes \cup {Mount}
Content(b, version) == <<b, version>>
Empty == <<-1, 0>>
Garbage == <<-1, 1>>
Scr == <<-1, 2>>
NoCommand == [cmd |-> "none", arg |-> 0, count |-> 0]
NoTransfer == [dir |-> "none", at |-> 0, left |-> 0, auto |-> TRUE, asked |-> FALSE]
ResetHost == [busy |-> NoCommand, arg1 |-> 0, blkcnt |-> 0, resp |-> "ok",
              xfer |-> NoTransfer, fifo |-> Empty]
Errors == {"TIMEOUT", "ERROR"}

-----------------------------------------------------------------------------
(* The steps of the calls.                                                 *)

Step(do) == [do |-> do, via |-> "SDCard", cmd |-> "none", arg |-> 0]
Sd(step) == [step EXCEPT !.via = "sd"]
With(do, arg) == [Step(do) EXCEPT !.arg = arg]
Command(cmd, arg) == [i \in 1..3 |-> [Step(<<"prepare", "issue", "await">>[i])
                                       EXCEPT !.cmd = cmd, !.arg = arg]]
App(cmd, arg) == Command("APP_CMD", 0) \o Command(cmd, arg)
\* sd_cmd leaves its result in sd_err, which the caller looks at.
SdCmd(cmd, arg) == [i \in 1..3 |-> Sd(Command(cmd, arg)[i])]
                   \o <<[Step("check") EXCEPT !.cmd = cmd]>>

\* sd_readblock
ReadBlocks(lba, num) ==
  LET n == IF num < 1 THEN 1 ELSE num
      Copy(k) == Sd(With("ready", k))
      Singles[k \in 0..n] ==
        IF k = 0 THEN <<>>
        ELSE Singles[k - 1] \o SdCmd("READ_SINGLE", (lba + k - 1) * Unit) \o <<Copy(k - 1)>>
  IN <<Sd(Step("data"))>>
     \o (IF driver.ccs
           THEN (IF n > 1 /\ driver.count THEN SdCmd("SET_BLOCKCNT", n) ELSE <<>>)
                \o <<With("count", n)>>
                \o SdCmd(IF n = 1 THEN "READ_SINGLE" ELSE "READ_MULTI", lba)
                \o [k \in 1..n |-> Copy(k - 1)]
                \o (IF n > 1 /\ ~driver.count THEN SdCmd("STOP_TRANS", 0) ELSE <<>>)
           ELSE <<With("count", 1)>> \o Singles[n])
     \o <<Step("check"), Step("return")>>

\* sdTransferBlocks
Shift_Never(b) == b              \* mutant: blocks are passed to every card
Shift(b) == IF driver.type = "TYPE_2_SC" THEN b * Unit ELSE b
WriteBlocks(start, n) ==
  LET counted == driver.support = "count"
  IN <<Step("type"), Step("data")>>
     \o (IF n > 1 /\ counted THEN Command("SET_BLOCKCNT", n) ELSE <<>>)
     \o <<With("count", n)>>
     \o Command(IF n = 1 THEN "WRITE_SINGLE" ELSE "WRITE_MULTI", Shift(start))
     \o [k \in 1..n |-> With("ready", k - 1)]
     \o <<Step("done")>>
     \o (IF n > 1 /\ ~counted THEN Command("STOP_TRANS", 0) ELSE <<>>)
     \o <<Step("return")>>

\* sdInitCard: up to the answer to SEND_IF_COND, and from there on.
ResetCard == <<Step("reset"), Step("clock"), Step("clear")>> \o Command("GO_IDLE_STATE", 0)
Attempt == <<Step("attempt")>> \o ResetCard \o Command("SEND_IF_COND", 0)
OpCond(hcs, n) == App("OP_COND", IF hcs = "HC" THEN 1 ELSE 0) \o <<[With("opcond", n) EXCEPT !.cmd = hcs]>>
Identify == Command("ALL_SEND_CID", 0) \o Command("SEND_REL_ADDR", 0) \o Command("SEND_CSD", 0)
            \o <<Step("clock")>> \o Command("CARD_SELECT", 0)
            \o <<Step("data"), With("count", 1)>> \o App("SEND_SCR", 0) \o <<Step("scr")>>
NewCard == OpCond("HC", Retries) \o <<Step("type2")>> \o Identify
OldCard == (IF host.busy # NoCommand THEN ResetCard ELSE <<>>)
           \o OpCond("SC", Retries) \o <<Step("type1")>> \o Identify
Prepared == (IF kind.width = 4 THEN App("SET_BUS_WIDTH", 2) ELSE <<>>)
            \o Command("SET_BLOCKLEN", Unit) \o <<Step("finish"), Step("return")>>

-----------------------------------------------------------------------------
(* Steps in the driver.                                                    *)

Init ==
  /\ kind \in Kinds
  /\ disk = [b \in Blocks |-> Content(b, 0)]
  /\ card = [state |-> "idle", app |-> FALSE, checked |-> FALSE, limit |-> 0]
  /\ hung = FALSE /\ irq = {}
  /\ host = ResetHost
  /\ driver = [type |-> "UNKNOWN", rca |-> FALSE, ocr |-> FALSE, support |-> "none",
               ccs |-> FALSE, count |-> FALSE, sd_err |-> FALSE, ready |-> FALSE]
  /\ call = [c \in Callers |-> IF c = "shell" THEN Mount ELSE Idle]   \* kernel_main
  /\ tries = 1
  /\ todo = [c \in Callers |-> IF c = "shell" THEN Attempt ELSE <<>>]
  /\ buffer = [c \in Callers |-> <<>>] /\ result = [c \in Callers |-> "none"]
  /\ faults = 0 /\ disturbed = FALSE /\ late = {}

Pending == irq \cap Errors # {}
Moving == \/ host.xfer.dir \in {"read", "scr"} /\ host.fifo = Empty
          \/ host.xfer.dir = "write" /\ (~host.xfer.asked \/ host.fifo # Empty)
\* A wait ends when its time is over, and not before a card that works would answer.
TimeUp_Never == host.busy = NoCommand /\ ~Moving    \* mutant: a slow card is waited for
TimeUp == hung \/ (host.busy = NoCommand /\ ~Moving)

\* fs_daemon is not interrupted; the shell goes on when the daemon waits for letters.
At(c, do) == /\ call[c] # Idle /\ Head(todo[c]).do = do
             /\ c = "shell" => call["daemon"] = Idle
This(c) == Head(todo[c])
ViaSd(c) == This(c).via = "sd"
Go(c, steps) == todo' = [todo EXCEPT ![c] = steps]
Proceed(c) == Go(c, Tail(todo[c]))
Goes(c) == Proceed(c) /\ UNCHANGED calls

End(c, res) == /\ call' = [call EXCEPT ![c] = Idle]
               /\ result' = [result EXCEPT ![c] = res]
               /\ late' = IF res = "ok" THEN {}
                          ELSE late \cup {r \in Writes : r = call[c] /\ r.num > 0}
               /\ Go(c, <<>>) /\ tries' = 0

\* A failed attempt of mount is followed by the next one.
FailCall_Again(c) ==       \* mutant: one attempt too many
  IF call[c] = Mount /\ tries >= 0
    THEN tries' = tries - 1 /\ Go(c, Attempt) /\ UNCHANGED <<call, result, late>>
    ELSE End(c, "failed")
FailCall(c) ==
  IF call[c] = Mount /\ tries > 1
    THEN tries' = tries - 1 /\ Go(c, Attempt) /\ UNCHANGED <<call, result, late>>
    ELSE End(c, "failed")
Fails(c) == FailCall(c) /\ driver' = [driver EXCEPT !.sd_err = IF ViaSd(c) THEN TRUE ELSE @]

\* What a failed command means: sd_cmd leaves it to its caller, APP_CMD without an
\* address is not looked at, ACMD41 may time out, and a card that does not answer
\* SEND_IF_COND is an old one.
Tolerated(cmd, res) == \/ cmd = "APP_CMD" /\ ~driver.rca
                       \/ cmd = "OP_COND" /\ res = "SD_TIMEOUT"
                       \/ cmd = "SEND_IF_COND" /\ res # "SD_BUSY"
CommandFails(c, res, k) ==
  IF ViaSd(c) \/ Tolerated(This(c).cmd, res)
    THEN /\ Go(c, IF This(c).cmd = "SEND_IF_COND" THEN OldCard
                   ELSE SubSeq(todo[c], k, Len(todo[c])))
         /\ driver' = [driver EXCEPT !.sd_err = IF ViaSd(c) THEN TRUE ELSE @]
         /\ UNCHANGED calls
    ELSE FailCall(c) /\ UNCHANGED driver

\* CMD_INHIBIT is waited for, the interrupts are cleared, and ARG1 is written.
Prepare(c) ==
  /\ At(c, "prepare")
  /\ \/ /\ host.busy = NoCommand /\ ~Pending
        /\ irq' = {} /\ host' = [host EXCEPT !.arg1 = This(c).arg]
        /\ driver' = [driver EXCEPT !.sd_err = IF ViaSd(c) THEN FALSE ELSE @]
        /\ Goes(c)
     \/ /\ Pending \/ (host.busy # NoCommand /\ TimeUp)
        /\ CommandFails(c, "SD_BUSY", 4)
        /\ UNCHANGED <<irq, host>>
  /\ UNCHANGED <<disk, kind, card, hung, buffer, faults, disturbed>>

Issue(c) ==
  /\ At(c, "issue")
  /\ host' = [host EXCEPT !.busy = [cmd |-> This(c).cmd, arg |-> host.arg1, count |-> host.blkcnt]]
  /\ Goes(c)
  /\ UNCHANGED <<disk, kind, card, hung, irq, driver, buffer, faults, disturbed>>

\* sdWaitForInterrupt, sd_int
Woken(flag) == flag \in irq \/ Pending \/ TimeUp
Waited(flag) == IF "TIMEOUT" \in irq \/ (~Pending /\ flag \notin irq) THEN "SD_TIMEOUT"
                ELSE IF Pending THEN "SD_ERROR" ELSE "SD_OK"
Cleared(flag) == irq' = IF Waited(flag) = "SD_OK" THEN irq \ {flag} ELSE {}

\* What the driver keeps of a response, and how it goes on.
Noted(cmd) ==
  IF cmd = "SEND_REL_ADDR" THEN [driver EXCEPT !.rca = TRUE]
  ELSE IF cmd = "OP_COND" THEN [driver EXCEPT !.ocr = host.resp = "ok"]
  ELSE driver
Answered(c) ==
  IF host.resp = "error" /\ ~ViaSd(c)
    THEN CommandFails(c, "R1", 2)
    ELSE /\ Go(c, IF This(c).cmd = "SEND_IF_COND" THEN NewCard ELSE Tail(todo[c]))
         /\ driver' = Noted(This(c).cmd)
         /\ UNCHANGED calls

Await(c) ==
  /\ At(c, "await") /\ Woken("CMD_DONE") /\ Cleared("CMD_DONE")
  /\ IF Waited("CMD_DONE") = "SD_OK" THEN Answered(c)
     ELSE CommandFails(c, Waited("CMD_DONE"), 2)
  /\ UNCHANGED <<disk, kind, card, hung, host, buffer, faults, disturbed>>

\* sdWaitForData, sd_status
WaitData(c) ==
  /\ At(c, "data")
  /\ \/ host.xfer = NoTransfer /\ ~Pending /\ Goes(c) /\ UNCHANGED driver
     \/ (Pending \/ (host.xfer # NoTransfer /\ TimeUp)) /\ Fails(c)
  /\ UNCHANGED <<disk, hardware, buffer, faults, disturbed>>

SetCount(c) ==
  /\ At(c, "count")
  /\ host' = [host EXCEPT !.blkcnt = This(c).arg]
  /\ Goes(c)
  /\ UNCHANGED <<disk, kind, card, hung, irq, driver, buffer, faults, disturbed>>

\* The last block has passed: DATA_DONE, and the card waits for the next command
\* unless it has to be stopped.
Finished(h) == h.xfer.left = 0 /\ h.fifo = Empty
After(h) == IF Finished(h) THEN [h EXCEPT !.xfer = NoTransfer] ELSE h
EndOf(h) == /\ host' = After(h)
            /\ card' = [card EXCEPT !.state = IF Finished(h) /\ h.xfer.auto /\ @ = "data"
                                              THEN "tran" ELSE @]
DoneFlag(h) == IF Finished(h) THEN {"DATA_DONE"} ELSE {}

\* A block is copied from or to the data port.
Got == IF host.xfer.dir = "read" /\ host.fifo # Empty THEN host.fifo ELSE Garbage
Copied(c) ==
  IF ViaSd(c)
    THEN LET h == [host EXCEPT !.fifo = Empty]
         IN /\ buffer' = [buffer EXCEPT ![c] = Append(@, Got)]
            /\ IF host.xfer.dir = "read" /\ host.fifo # Empty
                 THEN EndOf(h) /\ irq' = (irq \ {"READ_RDY"}) \cup DoneFlag(h)
                 ELSE UNCHANGED <<host, card>> /\ irq' = irq \ {"READ_RDY"}
    ELSE /\ host' = IF host.xfer.dir # "write" THEN host
                    ELSE [host EXCEPT !.fifo = Content(call[c].lba + This(c).arg, call[c].version)]
         /\ irq' = irq \ {"WRITE_RDY"}
         /\ UNCHANGED <<buffer, card>>

Ready(c) ==
  /\ At(c, "ready")
  /\ LET flag == IF ViaSd(c) THEN "READ_RDY" ELSE "WRITE_RDY" IN
       /\ Woken(flag)
       /\ IF Waited(flag) = "SD_OK"
            THEN Copied(c) /\ Goes(c) /\ UNCHANGED driver
            ELSE Fails(c) /\ irq' = {} /\ UNCHANGED <<host, card, buffer>>
  /\ UNCHANGED <<disk, kind, hung, faults, disturbed>>

WaitDone(c) ==
  /\ At(c, "done") /\ Woken("DATA_DONE") /\ Cleared("DATA_DONE")
  /\ IF Waited("DATA_DONE") = "SD_OK" THEN Goes(c) ELSE FailCall(c)
  /\ UNCHANGED <<disk, kind, card, hung, host, driver, buffer, faults, disturbed>>

\* The driver looks at what it knows of the card.
Holds(c, do) ==
  CASE do = "check" -> ~driver.sd_err
    [] do = "type" -> driver.type # "UNKNOWN"
    [] do = "opcond" -> driver.ocr /\ kind.volts
Look(c) ==
  /\ \E do \in {"check", "type", "opcond"} :
        /\ At(c, do)
        /\ IF Holds(c, do) THEN Goes(c)
           ELSE IF do = "opcond" /\ ~driver.ocr /\ This(c).arg > 0
             THEN /\ Go(c, OpCond(This(c).cmd, This(c).arg - 1) \o Tail(todo[c]))
                  /\ UNCHANGED calls
             ELSE FailCall(c)
  /\ UNCHANGED <<disk, hardware, driver, buffer, faults, disturbed>>

-----------------------------------------------------------------------------
(* Initialisation.                                                         *)

Reset(c) ==
  /\ At(c, "reset")
  /\ \/ host' = ResetHost /\ irq' = {} /\ Goes(c)
     \/ hung /\ FailCall(c) /\ UNCHANGED <<irq, host>>
  /\ UNCHANGED <<disk, kind, card, hung, driver, buffer, faults, disturbed>>

SetClock(c) ==
  /\ At(c, "clock")
  /\ LET inhibited == host.busy # NoCommand \/ host.xfer # NoTransfer
     IN (~inhibited /\ Goes(c)) \/ (TimeUp /\ (inhibited \/ hung) /\ FailCall(c))
  /\ UNCHANGED <<disk, hardware, driver, buffer, faults, disturbed>>

Cleared_Rca(d) == [d EXCEPT !.ocr = FALSE, !.type = "UNKNOWN",
                            !.ccs = FALSE, !.count = FALSE]   \* mutant: rca is kept
ClearDriver(d) == [d EXCEPT !.rca = FALSE, !.ocr = FALSE, !.type = "UNKNOWN",
                            !.ccs = FALSE, !.count = FALSE, !.sd_err = FALSE]

\* What the steps note.  In "finish" the flag CCS is set on every card: ccs is
\* taken from rca, which is 0 then, and 1 is added.
Note(do, d) ==
  CASE do = "clear" -> ClearDriver(d)
    [] do = "type2" -> [d EXCEPT !.type = IF kind.hc THEN "TYPE_2_HC" ELSE "TYPE_2_SC"]
    [] do = "type1" -> [d EXCEPT !.type = "TYPE_1"]
    [] do = "finish" -> [d EXCEPT !.ccs = TRUE, !.ready = TRUE]
Remember(c) ==
  /\ \E do \in {"clear", "type2", "type1", "finish"} :
        At(c, do) /\ driver' = Note(do, driver)
  /\ Goes(c)
  /\ UNCHANGED <<disk, hardware, buffer, faults, disturbed>>

ReadScr(c) ==
  /\ At(c, "scr") /\ Woken("READ_RDY")
  /\ IF Waited("READ_RDY") = "SD_OK" /\ host.fifo = Scr
       THEN LET h == [host EXCEPT !.fifo = Empty] IN
            /\ driver' = [driver EXCEPT !.support = kind.support,
                                        !.count = kind.support \in {"count", "both"}]
            /\ EndOf(h) /\ irq' = (irq \ {"READ_RDY"}) \cup DoneFlag(h)
            /\ Go(c, Prepared) /\ UNCHANGED calls
       ELSE FailCall(c) /\ Cleared("READ_RDY") /\ UNCHANGED <<host, card, driver>>
  /\ UNCHANGED <<disk, kind, hung, buffer, faults, disturbed>>

-----------------------------------------------------------------------------
(* Calls: kservice_dev_read, fat32_writebuf, mount.                        *)

May(c, r) ==
  /\ r.kind = "write" => c = "daemon"
  /\ r.kind = "mount" => c = "shell"
  /\ "share" \in Careless \/ \A d \in Callers : call[d] = Idle
  /\ r.kind = "read" => /\ driver.ready \/ "read half ready" \in Careless
                        /\ kind.hc \/ "small card" \in Careless
  /\ r.kind = "write" => driver.type # "TYPE_1" \/ "small card" \in Careless

Steps(r) == CASE r.kind = "read" -> ReadBlocks(r.lba, r.num)
              [] r.kind = "write" -> WriteBlocks(r.lba, r.num)
              [] r.kind = "mount" -> Attempt

\* A write of no blocks leaves the card waiting for data.
Call(c, r) ==
  /\ call[c] = Idle /\ call["daemon"] = Idle /\ May(c, r)
  /\ call' = [call EXCEPT ![c] = r]
  /\ Go(c, Steps(r))
  /\ buffer' = [d \in Callers |-> IF call[d] = Idle THEN <<>> ELSE buffer[d]]
  /\ result' = [d \in Callers |-> "none"]
  /\ tries' = IF r.kind = "mount" THEN Attempts ELSE tries
  /\ disturbed' = (disturbed \/ (r.kind = "write" /\ r.num = 0))
  /\ UNCHANGED <<disk, hardware, driver, faults, late>>

\* From here on what went wrong before should not matter.
StartAttempt(c) ==
  /\ At(c, "attempt") /\ Goes(c)
  /\ driver' = [driver EXCEPT !.ready = FALSE]
  /\ disturbed' = (hung \/ card.state = "out")
  /\ UNCHANGED <<disk, hardware, buffer, faults>>

Return(c) ==
  /\ At(c, "return") /\ End(c, "ok")
  /\ UNCHANGED <<disk, hardware, driver, buffer, faults, disturbed>>

Driver(c) ==
  \/ Prepare(c) \/ Issue(c) \/ Await(c) \/ WaitData(c) \/ SetCount(c)
  \/ Ready(c) \/ WaitDone(c) \/ Look(c)
  \/ StartAttempt(c) \/ Reset(c) \/ SetClock(c) \/ Remember(c) \/ ReadScr(c)
  \/ Return(c)

-----------------------------------------------------------------------------
(* The controller and the card.                                            *)

Takes ==    \* in which states the card takes a command
  [GO_IDLE_STATE |-> {"idle", "ready", "ident", "stby", "tran", "data"},
   SEND_IF_COND |-> {"idle"}, OP_COND |-> {"idle"}, ALL_SEND_CID |-> {"ready"},
   SEND_REL_ADDR |-> {"ident"}, SEND_CSD |-> {"stby"}, CARD_SELECT |-> {"stby"},
   APP_CMD |-> {"idle", "tran"}, SEND_SCR |-> {"tran"}, SET_BUS_WIDTH |-> {"tran"},
   SET_BLOCKLEN |-> {"tran"}, SET_BLOCKCNT |-> {"tran"}, READ_SINGLE |-> {"tran"},
   READ_MULTI |-> {"tran"}, WRITE_SINGLE |-> {"tran"}, WRITE_MULTI |-> {"tran"},
   STOP_TRANS |-> {"data"}]
Leads ==    \* and in which state it is then, if in another
  [GO_IDLE_STATE |-> "idle", ALL_SEND_CID |-> "ident", SEND_REL_ADDR |-> "stby",
   CARD_SELECT |-> "tran", STOP_TRANS |-> "tran"]
AppCommands == {"OP_COND", "SEND_SCR", "SET_BUS_WIDTH"}
Multiple == {"READ_MULTI", "WRITE_MULTI"}
Moves == {"READ_SINGLE", "WRITE_SINGLE"} \cup Multiple

NoResponse(q) == q.cmd = "GO_IDLE_STATE" \/ (q.cmd = "APP_CMD" /\ ~driver.rca)
Accepts(q) == /\ card.state \in Takes[q.cmd]
              /\ q.cmd \in AppCommands => card.app
              /\ q.cmd = "APP_CMD" => (driver.rca <=> card.state = "tran")   \* by its address
              /\ q.cmd = "SEND_IF_COND" => kind.v2
              /\ q.cmd = "SET_BLOCKCNT" => kind.support \in {"count", "both"}

\* Only small cards have byte addresses.
Start(q) == IF kind.hc THEN q.arg ELSE q.arg \div Unit
Size(q) == IF q.cmd \in Multiple THEN q.count ELSE 1
Misplaced(q) == /\ q.cmd \in Moves
                /\ \/ ~kind.hc /\ q.arg % Unit # 0
                   \/ ~((Start(q) .. Start(q) + Size(q) - 1) \subseteq Blocks)
\* A card with large blocks is ready for a host that knows of them only.
Powers(q) == q.cmd = "OP_COND" /\ (kind.hc => q.arg = 1 /\ card.checked)

Next_State(q) ==
  IF Powers(q) THEN "ready"
  ELSE IF q.cmd \in Moves \cup {"SEND_SCR"} THEN "data"
  ELSE IF q.cmd \in DOMAIN Leads THEN Leads[q.cmd] ELSE card.state
TakenBy(q) == [state |-> Next_State(q), app |-> q.cmd = "APP_CMD",
               checked |-> q.cmd # "GO_IDLE_STATE" /\ (card.checked \/ q.cmd = "SEND_IF_COND"),
               limit |-> IF q.cmd = "SET_BLOCKCNT" THEN q.arg ELSE 0]
Transfer(q) ==
  [dir |-> IF q.cmd = "SEND_SCR" THEN "scr"
           ELSE IF q.cmd \in {"READ_SINGLE", "READ_MULTI"} THEN "read" ELSE "write",
   at |-> IF q.cmd = "SEND_SCR" THEN 0 ELSE Start(q),
   left |-> Size(q),
   auto |-> q.cmd \notin Multiple \/ card.limit = Size(q), asked |-> FALSE]
Begins(q) == q.cmd \in Moves \cup {"SEND_SCR"} /\ Size(q) > 0

Reply(h, resp) == [h EXCEPT !.busy = NoCommand, !.resp = resp]
Answer ==
  /\ host.busy # NoCommand
  /\ LET q == host.busy IN
       \/ /\ ~Accepts(q)
          /\ irq' = irq \cup {IF NoResponse(q) THEN "CMD_DONE" ELSE "TIMEOUT"}
          /\ host' = Reply(host, host.resp)
          /\ card' = [card EXCEPT !.app = FALSE]
       \/ /\ Accepts(q) /\ Misplaced(q)
          /\ irq' = irq \cup {"CMD_DONE"} /\ host' = Reply(host, "error")
          /\ UNCHANGED card
       \/ /\ Accepts(q) /\ ~Misplaced(q)
          /\ irq' = irq \cup {"CMD_DONE"}
          /\ card' = TakenBy(q)
          /\ host' = [Reply(host, IF q.cmd = "OP_COND" /\ ~Powers(q) THEN "busy" ELSE "ok")
                        EXCEPT !.xfer = IF Begins(q) THEN Transfer(q)
                                        ELSE IF q.cmd = "STOP_TRANS" THEN NoTransfer ELSE @]
  /\ UNCHANGED <<disk, kind, hung, driver, caller, faults, disturbed>>

\* A block passes between the card and the controller.
Moved(h) == [h EXCEPT !.xfer.at = @ + 1, !.xfer.left = @ - 1, !.xfer.asked = FALSE]
MoveData ==
  /\ Moving
  /\ \/ /\ host.xfer.dir \in {"read", "scr"} /\ host.xfer.left > 0
        /\ host' = [Moved(host) EXCEPT !.fifo = IF host.xfer.dir = "scr" THEN Scr
                                                ELSE disk[host.xfer.at]]
        /\ irq' = irq \cup {"READ_RDY"}
        /\ UNCHANGED <<disk, card>>
     \/ /\ host.xfer.dir = "write" /\ ~host.xfer.asked
        /\ host' = [host EXCEPT !.xfer.asked = TRUE]
        /\ irq' = irq \cup {"WRITE_RDY"}
        /\ UNCHANGED <<disk, card>>
     \/ LET h == [Moved(host) EXCEPT !.fifo = Empty] IN
        /\ host.xfer.dir = "write" /\ host.xfer.asked /\ host.fifo # Empty
        /\ disk' = [disk EXCEPT ![host.xfer.at] = host.fifo]
        /\ EndOf(h) /\ irq' = irq \cup DoneFlag(h)
  /\ UNCHANGED <<kind, hung, driver, caller, faults, disturbed>>

-----------------------------------------------------------------------------
(* What goes wrong.                                                        *)

Fault == /\ faults < MaxFaults /\ faults' = faults + 1 /\ disturbed' = TRUE
         /\ UNCHANGED <<disk, kind, driver, caller>>

\* Damaged on the way, before or after the card took the command.
BadAnswer ==
  /\ Fault /\ host.busy # NoCommand
  /\ irq' = irq \cup {"ERROR"} /\ host' = Reply(host, host.resp)
  /\ card' \in {card} \cup (IF Accepts(host.busy) /\ ~Misplaced(host.busy)
                            THEN {TakenBy(host.busy)} ELSE {})
  /\ UNCHANGED hung

StillBusy ==
  /\ Fault /\ host.busy.cmd = "OP_COND" /\ Accepts(host.busy)
  /\ irq' = irq \cup {"CMD_DONE"} /\ host' = Reply(host, "busy")
  /\ card' = [card EXCEPT !.app = FALSE]
  /\ UNCHANGED hung

Aborted == [host EXCEPT !.xfer = NoTransfer, !.fifo = Empty]
BadData ==
  /\ Fault /\ host.xfer # NoTransfer
  /\ irq' = irq \cup {"ERROR"} /\ host' = Aborted
  /\ card' = [card EXCEPT !.state = IF @ = "data" /\ host.xfer.auto THEN "tran" ELSE @]
  /\ UNCHANGED hung

Hang == Fault /\ ~hung /\ hung' = TRUE /\ UNCHANGED <<irq, host, card>>

PullOut ==
  /\ Fault /\ card.state # "out"
  /\ card' = [state |-> "out", app |-> FALSE, checked |-> FALSE, limit |-> 0]
  /\ host' = Aborted
  /\ irq' = IF host.xfer # NoTransfer THEN irq \cup {"TIMEOUT"} ELSE irq
  /\ UNCHANGED hung

PutIn ==
  /\ card.state = "out" /\ card' = [card EXCEPT !.state = "idle"]
  /\ UNCHANGED <<disk, kind, hung, irq, host, driver, caller, faults, disturbed>>
Recover ==
  /\ hung /\ hung' = FALSE
  /\ UNCHANGED <<disk, kind, card, irq, host, driver, caller, faults, disturbed>>

Next ==
  \/ \E c \in Callers : Driver(c) \/ \E r \in Requests : Call(c, r)
  \/ Answer \/ MoveData
  \/ BadAnswer \/ StillBusy \/ BadData \/ Hang \/ PullOut \/ PutIn \/ Recover

\* The callers run on, and a card that is not slow answers.
Spec == /\ Init /\ [][Next]_vars
        /\ WF_vars(\E c \in Callers : Driver(c))
        /\ WF_vars(~hung /\ (Answer \/ MoveData))

-----------------------------------------------------------------------------
(* Properties.                                                             *)

CardTypeOK ==
  /\ DOMAIN disk = Blocks /\ kind \in Kinds
  /\ card.state \in {"out", "idle", "ready", "ident", "stby", "tran", "data"}
  /\ irq \subseteq {"CMD_DONE", "READ_RDY", "WRITE_RDY", "DATA_DONE"} \cup Errors
  /\ host.xfer.left >= 0 /\ host.blkcnt \in Nat
  /\ driver.type \in {"UNKNOWN", "TYPE_1", "TYPE_2_SC", "TYPE_2_HC"}
  /\ \A c \in Callers : call[c] \in Requests \cup {Idle}
                         /\ (todo[c] = <<>> <=> call[c] = Idle)
  /\ tries \in 0..Attempts /\ faults \in 0..MaxFaults

\* The drivers implement a device of blocks, whatever fails: no read returns
\* another block or half of one as if it were right, no write that reports success
\* has lost a block, and no call touches what it was not asked to.
D == INSTANCE BlockDevice
Device == D!Spec

\* What the drivers expect: careful callers, requests within the card (a read of no
\* blocks reads one), and that a large card knows SEND_IF_COND.
Supported ==
  /\ Careless = {} /\ \A k \in Kinds : k.hc => k.v2
  /\ \A r \in Reads : r.lba \in Blocks
  /\ \A r \in Reads \cup Writes : \A i \in 0..r.num - 1 : r.lba + i \in Blocks

\* A call fails only when something went wrong with the card since the last
\* attempt to reset it: what a failed call leaves in the controller, in the card
\* and in the drivers is gone after mount.
Healthy == [][\A c \in Callers : result[c] = "none" /\ result'[c] = "failed"
                 => disturbed \/ ~kind.volts]_vars

\* Every call returns, even if the card never answers: all waits end.
CallsReturn == \A c \in Callers : call[c] # Idle ~> call[c] = Idle

\* A read that reports success has read its blocks ("returns 0 on error", sd.c:189).
ReadsRight ==
  \A c \in Callers : call[c].kind = "read" /\ This(c).do = "return"
     => buffer[c] = [k \in 1..Len(buffer[c]) |-> disk[call[c].lba + k - 1]]
=============================================================================
