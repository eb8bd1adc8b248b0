--------------------------- MODULE CardInvariant ---------------------------
(***************************************************************************)
(* What holds in every state of SDCard, and why: what the variables hold,  *)
(* how a call follows its plan, what it has reached at each of its steps,  *)
(* and the stages of a call while the card works.  CardProofs proves it.   *)
(***************************************************************************)
EXTENDS SDCard

-----------------------------------------------------------------------------
(* What the variables hold.                                                *)

Commands == {"GO_IDLE_STATE", "SEND_IF_COND", "OP_COND", "ALL_SEND_CID", "SEND_REL_ADDR",
             "SEND_CSD", "CARD_SELECT", "APP_CMD", "SEND_SCR", "SET_BUS_WIDTH", "SET_BLOCKLEN",
             "SET_BLOCKCNT", "READ_SINGLE", "READ_MULTI", "WRITE_SINGLE", "WRITE_MULTI",
             "STOP_TRANS"}
Waits == {"prepare", "issue", "await"}
Looks == {"check", "type", "opcond"}
Notes == {"clear", "type2", "type1", "finish"}
Dos == Waits \cup Looks \cup Notes
       \cup {"data", "count", "ready", "done", "attempt", "reset", "clock", "scr", "return"}
AllSteps == {s \in [do : Dos, via : {"SDCard", "sd"}, cmd : Commands \cup {"none", "HC", "SC"}, arg : Nat] :
               s.do \in Waits => s.cmd \in Commands}
Flags == {"CMD_DONE", "READ_RDY", "WRITE_RDY", "DATA_DONE"} \cup Errors
States == {"out", "idle", "ready", "ident", "stby", "tran", "data"}
Words == Int \X Nat
Moment == [dir : {"none", "read", "write", "scr"}, at : Nat, left : Nat, auto : BOOLEAN, asked : BOOLEAN]
Order == [cmd : Commands \cup {"none"}, arg : Nat, count : Nat]

TypedCard ==
  /\ kind \in Kinds /\ disk \in [Blocks -> Words] /\ hung \in BOOLEAN
  /\ card \in [state : States, app : BOOLEAN, checked : BOOLEAN, limit : Nat]
HostOK(h) ==
  /\ h \in [busy : Order, arg1 : Nat, blkcnt : Nat, resp : {"ok", "error", "busy"},
            xfer : Moment, fifo : Words]
  /\ h.busy.cmd = "none" => h.busy = NoCommand
  /\ h.xfer.dir = "none" => h.xfer = NoTransfer
  /\ h.xfer.dir = "write" => h.xfer.left > 0
  /\ h.xfer.dir \in {"read", "write"} =>
       \A b \in Nat : h.xfer.at <= b /\ b < h.xfer.at + h.xfer.left => b \in Blocks
TypedHost == irq \subseteq Flags /\ HostOK(host)
TypedDriver ==
  /\ driver \in [type : {"UNKNOWN", "TYPE_1", "TYPE_2_SC", "TYPE_2_HC"}, rca : BOOLEAN, ocr : BOOLEAN,
                 support : {"none", "count", "both"}, ccs : BOOLEAN, count : BOOLEAN,
                 sd_err : BOOLEAN, ready : BOOLEAN]
CallTypes ==
  /\ call \in [Callers -> Requests \cup {Idle}] /\ tries \in 0..Attempts
  /\ result \in [Callers -> {"none", "ok", "failed"}] /\ late \subseteq Writes
TypedRest == buffer \in [Callers -> Seq(Words)] /\ faults \in 0..MaxFaults /\ disturbed \in BOOLEAN

-----------------------------------------------------------------------------
(* The plans of the calls: lists of steps that follow each other.          *)

Ends(s) == s.do \in {"return", "scr"} \/ (s.do = "await" /\ s.cmd = "SEND_IF_COND" /\ s.via = "SDCard")
\* A command is prepared, issued and awaited by the same driver; sd.c looks at sd_err then.
Links == {p \in AllSteps \X AllSteps :
            LET a == p[1]
                b == p[2]
            IN /\ a.do \in {"prepare", "issue"} \/ b.do \in {"issue", "await"} =>
                    /\ <<a.do, b.do>> \in {<<"prepare", "issue">>, <<"issue", "await">>}
                    /\ b = [a EXCEPT !.do = b.do]
               /\ ~Ends(a)}
Linked(R, p) == \A i \in 1..Len(p) - 1 : <<p[i], p[i + 1]>> \in R
Runs(R, a, p, b) == /\ p \in Seq(AllSteps) /\ p # <<>> /\ p[1] = a /\ p[Len(p)] = b
                    /\ Linked(R, p)
Planned(p) == /\ p \in Seq(AllSteps) /\ p # <<>> /\ Ends(p[Len(p)])
              /\ Linked(Links, p)
TypedPlans ==
  /\ todo \in [Callers -> Seq(AllSteps)]
  /\ \A c \in Callers : IF call[c] = Idle THEN todo[c] = <<>> ELSE Planned(todo[c])

Typed == TypedCard /\ TypedHost /\ TypedDriver /\ CallTypes /\ TypedRest /\ TypedPlans

-----------------------------------------------------------------------------
(* How the steps of a call follow each other.                              *)

Wait(do, cmd, arg) == [Step(do) EXCEPT !.cmd = cmd, !.arg = arg]
CheckOf(cmd) == [Step("check") EXCEPT !.cmd = cmd]
CommandLinks(cmd, arg) == {<<Wait("prepare", cmd, arg), Wait("issue", cmd, arg)>>,
                           <<Wait("issue", cmd, arg), Wait("await", cmd, arg)>>}
SdLinks(cmd, arg) == {<<Sd(Wait("prepare", cmd, arg)), Sd(Wait("issue", cmd, arg))>>,
                      <<Sd(Wait("issue", cmd, arg)), Sd(Wait("await", cmd, arg))>>,
                      <<Sd(Wait("await", cmd, arg)), CheckOf(cmd)>>}
Copies(k) == Sd(With("ready", k))

Amount(r) == IF r.num < 1 THEN 1 ELSE r.num
ReadCommand(r) == IF Amount(r) = 1 THEN "READ_SINGLE" ELSE "READ_MULTI"
ReadLinks(r) ==
  LET n == Amount(r) IN
  SdLinks("SET_BLOCKCNT", n) \cup SdLinks(ReadCommand(r), r.lba) \cup SdLinks("STOP_TRANS", 0)
  \cup {<<Sd(Step("data")), Sd(Wait("prepare", "SET_BLOCKCNT", n))>>,
        <<Sd(Step("data")), With("count", n)>>,
        <<CheckOf("SET_BLOCKCNT"), With("count", n)>>,
        <<With("count", n), Sd(Wait("prepare", ReadCommand(r), r.lba))>>,
        <<CheckOf(ReadCommand(r)), Copies(0)>>,
        <<Copies(n - 1), Sd(Wait("prepare", "STOP_TRANS", 0))>>,
        <<Copies(n - 1), Step("check")>>,
        <<CheckOf("STOP_TRANS"), Step("check")>>,
        <<Step("check"), Step("return")>>}
  \cup {<<Copies(k), Copies(k + 1)>> : k \in 0..n - 2}

WriteCommand(r) == IF r.num = 1 THEN "WRITE_SINGLE" ELSE "WRITE_MULTI"
WriteLinks(r, a) ==
  LET n == r.num
      first == IF n = 0 THEN Step("done") ELSE With("ready", 0)
  IN
  CommandLinks("SET_BLOCKCNT", n) \cup CommandLinks(WriteCommand(r), a) \cup CommandLinks("STOP_TRANS", 0)
  \cup {<<Step("type"), Step("data")>>,
        <<Step("data"), Wait("prepare", "SET_BLOCKCNT", n)>>,
        <<Step("data"), With("count", n)>>,
        <<Wait("await", "SET_BLOCKCNT", n), With("count", n)>>,
        <<With("count", n), Wait("prepare", WriteCommand(r), a)>>,
        <<Wait("await", WriteCommand(r), a), first>>,
        <<Step("done"), Wait("prepare", "STOP_TRANS", 0)>>,
        <<Step("done"), Step("return")>>,
        <<Wait("await", "STOP_TRANS", 0), Step("return")>>}
  \cup {<<With("ready", k), IF k + 1 < n THEN With("ready", k + 1) ELSE Step("done")>> : k \in 0..n - 1}

MountCommands == Commands \ (Moves \cup {"SET_BLOCKCNT", "STOP_TRANS"})
MountSteps == {s \in AllSteps : /\ s.via = "SDCard"
                                /\ s.do \in Waits => s.cmd \in MountCommands
                                /\ s.do \notin {"check", "type", "ready", "done"}}
MountLinks ==
  {p \in MountSteps \X MountSteps :
     LET a == p[1]
         b == p[2]
     IN /\ <<a, b>> \in Links
        /\ a.do = "attempt" => b.do = "reset"
        /\ b.do # "attempt"
        /\ b.do = "clear" => a.do = "clock"
        /\ b.do = "prepare" /\ b.cmd = "GO_IDLE_STATE" => a.do = "clear"
        /\ a.do = "finish" => b.do = "return"}

\* What is left to do follows the order of the request's steps.
Follows(r, p) == CASE r.kind = "read" -> Linked(ReadLinks(r), p) /\ p[Len(p)] = Step("return")
                   [] r.kind = "write" -> Linked(WriteLinks(r, Shift(r.lba)), p) /\ p[Len(p)] = Step("return")
                   [] r.kind = "mount" -> Linked(MountLinks, p) /\ p[1] \in MountSteps
                   [] OTHER -> TRUE
Plans == \A c \in Callers : \A r \in Requests : call[c] = r => Follows(r, todo[c])

-----------------------------------------------------------------------------
(* Why the device of blocks is implemented.                                *)

OneCall == \A c, d \in Callers : call[c] # Idle /\ call[d] # Idle => c = d
Known ==
  /\ driver.ready => driver.ccs
  /\ driver.type = "TYPE_2_HC" => kind.hc
  /\ driver.type = "TYPE_2_SC" => ~kind.hc
Controller ==
  /\ host.xfer # NoTransfer => card.state = "data"
  /\ host.xfer = NoTransfer => host.fifo = Empty
  /\ host.busy.cmd \in {"GO_IDLE_STATE", "STOP_TRANS"} => host.xfer = NoTransfer
  /\ \A b \in Blocks : disk[b] # Empty

Underway == {call[c] : c \in Callers} \cup late
WriteMoves == {"WRITE_SINGLE", "WRITE_MULTI"}
\* A command to write, which may still be on its way when its call has failed, and
\* a transfer are those of such a call.
Meant == host.busy.cmd \in WriteMoves /\ Size(host.busy) > 0 =>
   \E r \in Underway : r.kind = "write" /\ r.lba = Start(host.busy) /\ r.num = Size(host.busy)
AskedBy(r) == /\ r.kind = "write" /\ r.lba <= host.xfer.at
              /\ host.xfer.at + host.xfer.left = r.lba + r.num
              /\ host.fifo # Empty => host.xfer.asked /\ host.fifo = Content(host.xfer.at, r.version)
Asked == host.xfer.dir = "write" => \E r \in Underway : AskedBy(r)

Idling == host.busy = NoCommand
Resting == host.xfer = NoTransfer /\ host.busy.cmd \in {"none", "STOP_TRANS"}
Blocked == host.xfer.dir = "write" => host.fifo = Empty
\* The flags of a command that has just been prepared are not left from another one.
ReadQuiet == /\ "CMD_DONE" \notin irq
             /\ "READ_RDY" \in irq => Pending \/ host.xfer.dir \in {"read", "scr"}
WriteQuiet == /\ "CMD_DONE" \notin irq /\ "DATA_DONE" \notin irq /\ Blocked
              /\ "WRITE_RDY" \in irq => Pending \/ host.xfer.dir = "write"

Beginning(s) == \/ s.do \in {"data", "count"}
                \/ s.do \in Waits \cup {"check"} /\ s.cmd = "SET_BLOCKCNT"
Last(s) == s.cmd = "STOP_TRANS" \/ s.do = "return" \/ (s.do = "check" /\ s.cmd = "none")

\* A read has k of its blocks, and the next one is on its way.
GotFirst(c, r, k) == buffer[c] = [j \in 1..k |-> disk[r.lba + j - 1]]
Reading(c, r, k) ==
  /\ GotFirst(c, r, k)
  /\ \/ host.xfer = NoTransfer /\ "READ_RDY" \notin irq
     \/ /\ host.xfer.dir = "read" /\ host.fifo = Empty /\ "READ_RDY" \notin irq
        /\ host.xfer.at = r.lba + k /\ host.xfer.left = Amount(r) - k
     \/ /\ host.xfer.dir = "read" /\ k < Amount(r) /\ host.fifo = disk[r.lba + k]
        /\ host.fifo # Empty
        /\ host.xfer.at = r.lba + k + 1 /\ host.xfer.left = Amount(r) - k - 1
ReadOn(c, r, k) == Idling /\ (Pending \/ Reading(c, r, k))
ReadOrder(r) == [cmd |-> ReadCommand(r), arg |-> r.lba, count |-> Amount(r)]
ReadPhase(c, r, s) ==
  LET its == s.cmd = ReadCommand(r)
  IN /\ kind.hc
     /\ Beginning(s) \/ (its /\ s.do # "check") => buffer[c] = <<>>
     /\ its /\ s.do = "prepare" => host.blkcnt = Amount(r)
     /\ its /\ s.do = "issue" => host.blkcnt = Amount(r) /\ host.arg1 = r.lba /\ Idling /\ ReadQuiet
     /\ its /\ s.do = "await" => (host.busy = ReadOrder(r) /\ ReadQuiet) \/ ReadOn(c, r, 0)
     /\ its /\ s.do = "check" => driver.sd_err \/ ReadOn(c, r, 0)
     /\ s.do = "ready" => ReadOn(c, r, s.arg) /\ s.arg < Amount(r)
     /\ Last(s) => GotFirst(c, r, Amount(r)) /\ Resting

\* A write has handed k of its blocks to the controller, which has the last of them
\* or has stored it.
StoredFirst(r, k) == \A b \in Nat : r.lba <= b /\ b < r.lba + k => disk[b] = Content(b, r.version)
Writing(r, k) ==
  \/ /\ host.xfer.dir = "write" /\ host.fifo = Empty
     /\ host.xfer.at = r.lba + k /\ host.xfer.left = r.num - k /\ StoredFirst(r, k)
     /\ "DATA_DONE" \notin irq /\ ("WRITE_RDY" \in irq => host.xfer.asked)
  \/ /\ host.xfer.dir = "write" /\ k > 0 /\ host.fifo = Content(r.lba + k - 1, r.version)
     /\ host.xfer.asked
     /\ host.xfer.at = r.lba + k - 1 /\ host.xfer.left = r.num - k + 1 /\ StoredFirst(r, k - 1)
     /\ "DATA_DONE" \notin irq /\ "WRITE_RDY" \notin irq
  \/ host.xfer = NoTransfer /\ k = r.num /\ StoredFirst(r, k)
WriteOn(r, k) == Idling /\ (Pending \/ Writing(r, k))
WriteOrder(r) == [cmd |-> WriteCommand(r), arg |-> Shift(r.lba), count |-> r.num]
WritePhase(r, s) ==
  LET its == s.cmd = WriteCommand(r)
  IN /\ driver.type # "TYPE_1" /\ (s.do # "type" => driver.type # "UNKNOWN")
     /\ (Beginning(s) /\ s.do # "data") \/ (its /\ s.do = "prepare") => Blocked
     /\ its /\ s.do = "prepare" => host.blkcnt = r.num
     /\ its /\ s.do = "issue" =>
          host.blkcnt = r.num /\ host.arg1 = Shift(r.lba) /\ Idling /\ WriteQuiet
     /\ its /\ s.do = "await" => \/ host.busy = WriteOrder(r) /\ WriteQuiet
                                 \/ Idling /\ host.resp = "error"
                                 \/ WriteOn(r, 0)
     /\ s.do = "ready" => WriteOn(r, s.arg) /\ s.arg < r.num
     /\ s.do = "done" => WriteOn(r, r.num)
     /\ Last(s) => StoredFirst(r, r.num) /\ Resting

MountPhase(s) ==
  /\ s.do \notin {"attempt", "reset"} => host.busy.cmd \notin WriteMoves /\ host.xfer.dir # "write"
  /\ s.do \notin {"attempt", "return"} => ~driver.ready
  /\ s.do = "clear" \/ (s.do \in {"prepare", "issue"} /\ s.cmd = "GO_IDLE_STATE") =>
       Idling /\ host.xfer = NoTransfer

Phase(c, r, s) == /\ r.kind = "read" => ReadPhase(c, r, s)
                  /\ r.kind = "write" => WritePhase(r, s)
                  /\ r.kind = "mount" => MountPhase(s)
Phases == \A c \in Callers : \A r \in Requests : \A s \in AllSteps :
            call[c] = r /\ This(c) = s => Phase(c, r, s)

Simple == OneCall /\ Known /\ Controller /\ Meant /\ Asked
Promise == Simple /\ Plans /\ Phases

-----------------------------------------------------------------------------
(* The next step of a read and of a write.                                 *)

NextOf(s) == [s EXCEPT !.do = IF s.do = "prepare" THEN "issue" ELSE "await"]
ReadTurn(r, s, n) ==
  \/ /\ s.do \in {"prepare", "issue"} /\ s.via = "sd" /\ n = NextOf(s)
     /\ s.cmd \in {"SET_BLOCKCNT", "STOP_TRANS"} \/ (s.cmd = ReadCommand(r) /\ s.arg = r.lba)
  \/ /\ s.do = "await" /\ s.via = "sd" /\ n = CheckOf(s.cmd)
     /\ s.cmd \in {"SET_BLOCKCNT", "STOP_TRANS", ReadCommand(r)}
  \/ /\ s.do = "data" /\ s.cmd = "none"
     /\ (n.do = "prepare" /\ n.cmd = "SET_BLOCKCNT") \/ (n.do = "count" /\ n.cmd = "none")
  \/ s.do = "check" /\ s.cmd = "SET_BLOCKCNT" /\ n.do = "count" /\ n.cmd = "none"
  \/ s.do = "count" /\ s.cmd = "none" /\ s.arg = Amount(r) /\ n.do = "prepare" /\ n.cmd = ReadCommand(r)
  \/ s.do = "check" /\ s.cmd = ReadCommand(r) /\ n.do = "ready" /\ n.arg = 0 /\ n.cmd = "none"
  \/ /\ s.do = "ready" /\ s.via = "sd" /\ s.cmd = "none" /\ s.arg + 1 < Amount(r)
     /\ n.do = "ready" /\ n.arg = s.arg + 1 /\ n.cmd = "none"
  \/ /\ s.do = "ready" /\ s.via = "sd" /\ s.cmd = "none" /\ s.arg + 1 = Amount(r)
     /\ (n.do = "prepare" /\ n.cmd = "STOP_TRANS") \/ (n.do = "check" /\ n.cmd = "none")
  \/ s.do = "check" /\ s.cmd = "STOP_TRANS" /\ n.do = "check" /\ n.cmd = "none"
  \/ s.do = "check" /\ s.cmd = "none" /\ n.do = "return" /\ n.cmd = "none"

WriteTurn(r, a, s, n) ==
  \/ /\ s.do \in {"prepare", "issue"} /\ s.via = "SDCard" /\ n = NextOf(s)
     /\ s.cmd \in {"SET_BLOCKCNT", "STOP_TRANS"} \/ (s.cmd = WriteCommand(r) /\ s.arg = a)
  \/ s.do = "await" /\ s.via = "SDCard" /\ s.cmd = "SET_BLOCKCNT" /\ n.do = "count" /\ n.cmd = "none"
  \/ /\ s.do = "await" /\ s.via = "SDCard" /\ s.cmd = WriteCommand(r) /\ n.cmd = "none"
     /\ (r.num = 0 /\ n.do = "done") \/ (r.num > 0 /\ n.do = "ready" /\ n.arg = 0)
  \/ s.do = "await" /\ s.via = "SDCard" /\ s.cmd = "STOP_TRANS" /\ n.do = "return" /\ n.cmd = "none"
  \/ s.do = "type" /\ s.via = "SDCard" /\ s.cmd = "none" /\ n.do = "data" /\ n.cmd = "none"
  \/ /\ s.do = "data" /\ s.via = "SDCard" /\ s.cmd = "none"
     /\ (n.do = "prepare" /\ n.cmd = "SET_BLOCKCNT") \/ (n.do = "count" /\ n.cmd = "none")
  \/ /\ s.do = "count" /\ s.via = "SDCard" /\ s.cmd = "none" /\ s.arg = r.num
     /\ n.do = "prepare" /\ n.cmd = WriteCommand(r)
  \/ /\ s.do = "ready" /\ s.via = "SDCard" /\ s.cmd = "none" /\ n.cmd = "none"
     /\ \/ s.arg + 1 < r.num /\ n.do = "ready" /\ n.arg = s.arg + 1
        \/ s.arg + 1 = r.num /\ n.do = "done"
  \/ /\ s.do = "done" /\ s.via = "SDCard" /\ s.cmd = "none"
     /\ (n.do = "prepare" /\ n.cmd = "STOP_TRANS") \/ (n.do = "return" /\ n.cmd = "none")

-----------------------------------------------------------------------------
(* What the controller and the card do by themselves.                      *)

Apart == UNCHANGED <<kind, driver, caller>>
Steady == /\ host'.busy = host.busy /\ host'.arg1 = host.arg1 /\ host'.blkcnt = host.blkcnt
          /\ host'.resp = host.resp
CommandEnds ==
  /\ ~Idling /\ Idling' /\ host'.arg1 = host.arg1 /\ host'.blkcnt = host.blkcnt
  /\ host'.fifo = host.fifo /\ disk' = disk
  /\ irq \subseteq irq' /\ irq' \subseteq irq \cup {"CMD_DONE"} \cup Errors
  /\ \/ host'.xfer = host.xfer /\ (Pending' \/ host.busy.cmd \notin Moves)
     \/ host.xfer = NoTransfer /\ host'.xfer = NoTransfer /\ (host'.resp = "error" \/ Size(host.busy) = 0)
     \/ host.busy.cmd = "STOP_TRANS" /\ host'.xfer = NoTransfer
     \/ host.xfer = NoTransfer /\ Begins(host.busy) /\ host'.xfer = Transfer(host.busy)
BlockRead ==
  /\ Steady /\ disk' = disk /\ host.xfer.dir \in {"read", "scr"} /\ host.fifo = Empty /\ host.xfer.left > 0
  /\ host'.xfer.dir = host.xfer.dir /\ host'.xfer.at = host.xfer.at + 1
  /\ host'.xfer.left = host.xfer.left - 1 /\ irq' = irq \cup {"READ_RDY"}
  /\ host.xfer.dir = "read" => host'.fifo = disk[host.xfer.at] /\ host'.fifo # Empty
BlockAsked ==
  /\ Steady /\ disk' = disk /\ host.xfer.dir = "write" /\ ~host.xfer.asked /\ host'.fifo = host.fifo
  /\ host'.xfer.dir = "write" /\ host'.xfer.at = host.xfer.at /\ host'.xfer.left = host.xfer.left
  /\ host'.xfer.asked /\ irq' = irq \cup {"WRITE_RDY"}
BlockStored ==
  /\ Steady /\ host.xfer.dir = "write" /\ host.xfer.asked /\ host.fifo # Empty /\ host'.fifo = Empty
  /\ disk' = [disk EXCEPT ![host.xfer.at] = host.fifo]
  /\ \/ host.xfer.left = 1 /\ host'.xfer = NoTransfer /\ irq' = irq \cup {"DATA_DONE"}
     \/ /\ host.xfer.left > 1 /\ host'.xfer.dir = "write" /\ irq' = irq
        /\ host'.xfer.at = host.xfer.at + 1 /\ host'.xfer.left = host.xfer.left - 1
TransferEnds ==
  /\ Steady /\ disk' = disk /\ irq \subseteq irq' /\ irq' \subseteq irq \cup Errors
  /\ \/ host'.xfer = host.xfer /\ host'.fifo = host.fifo /\ irq' = irq
     \/ host'.xfer = NoTransfer /\ host'.fifo = Empty /\ Pending'

-----------------------------------------------------------------------------
(* Why a call fails only when something went wrong with the card: while    *)
(* nothing does, each call follows a path of stages, which a card that     *)
(* works takes it along.                                                   *)

Stage(at) == [at |-> at, k |-> 0, auto |-> TRUE]
Passing(at, k, auto) == [at |-> at, k |-> k, auto |-> auto]
Rest(k) == Passing("rest", k, TRUE)
Ats == {"any", "reset", "clear", "idle", "open", "app", "ready", "known", "ident", "stby", "tran",
        "tran_app", "scr", "rest", "rest_app", "read", "write", "stop"}
Stages == [at : Ats, k : Nat, auto : BOOLEAN]

\* Where a command is given, and where it leads.
Roads == {<<"clear", "GO_IDLE_STATE", "idle">>, <<"idle", "SEND_IF_COND", "open">>,
          <<"open", "APP_CMD", "app">>, <<"app", "OP_COND", "ready">>,
          <<"known", "ALL_SEND_CID", "ident">>, <<"ident", "SEND_REL_ADDR", "stby">>,
          <<"stby", "SEND_CSD", "stby">>, <<"stby", "CARD_SELECT", "tran">>,
          <<"tran", "APP_CMD", "tran_app">>, <<"tran_app", "SEND_SCR", "scr">>,
          <<"rest", "APP_CMD", "rest_app">>, <<"rest_app", "SET_BUS_WIDTH", "rest">>,
          <<"rest", "SET_BLOCKLEN", "rest">>, <<"stop", "STOP_TRANS", "rest">>}
Counts == kind.support \in {"count", "both"}
Orders(r, l, s, t) ==
  \/ \E road \in Roads : /\ l = Stage(road[1]) /\ s.cmd = road[2] /\ t = Stage(road[3])
                         /\ s.cmd = "OP_COND" /\ kind.hc => s.arg = 1
  \/ s.cmd = "SET_BLOCKCNT" /\ l = Rest(0) /\ t = Rest(s.arg) /\ Counts
  \/ /\ r.kind = "read" /\ s.cmd = ReadCommand(r) /\ l = Rest(l.k)
     /\ t = Passing("read", 0, Amount(r) = 1 \/ l.k = Amount(r))
  \/ /\ r.kind = "write" /\ r.num > 0 /\ s.cmd = WriteCommand(r) /\ l = Rest(l.k)
     /\ t = Passing("write", 0, r.num = 1 \/ l.k = r.num)
Leave(l) == IF l.auto THEN Rest(0) ELSE Stage("stop")
Turn(r, l, s, t) ==
  \/ /\ s.do = "ready" /\ s.via = "sd" /\ r.kind = "read" /\ l = Passing("read", l.k, l.auto)
     /\ l.k < Amount(r)
     /\ t = IF l.k + 1 < Amount(r) THEN Passing("read", l.k + 1, l.auto) ELSE Leave(l)
  \/ /\ s.do = "ready" /\ s.via = "SDCard" /\ r.kind = "write" /\ l = Passing("write", l.k, l.auto)
     /\ l.k < r.num /\ t = Passing("write", l.k + 1, l.auto)
  \/ s.do = "done" /\ r.kind = "write" /\ l = Passing("write", r.num, l.auto) /\ t = Leave(l)
Lasting == {<<"attempt", "any">>, <<"clock", "reset">>, <<"clock", "stby">>, <<"opcond", "ready">>,
           <<"data", "tran">>, <<"count", "tran">>, <<"data", "rest">>, <<"type", "rest">>,
           <<"finish", "rest">>, <<"return", "rest">>, <<"check", "stop">>, <<"check", "rest">>, <<"check", "read">>}
Changes == {<<"reset", "any", "reset">>, <<"clear", "reset", "clear">>, <<"type1", "ready", "known">>,
           <<"type2", "ready", "known">>, <<"scr", "scr", "rest">>}
Does(r, l, s, t) ==
  \/ s.do \in {"prepare", "issue"} /\ t = l /\ \E u \in Stages : Orders(r, l, s, u)
  \/ s.do = "await" /\ Orders(r, l, s, t)
  \/ t = l /\ <<s.do, l.at>> \in Lasting /\ (s.do \in {"data", "type", "finish", "return"} => l.k = 0)
  \/ s.do = "count" /\ t = l /\ l.at = "rest"
  \/ \E m \in Changes : s.do = m[1] /\ l = Stage(m[2]) /\ t = Stage(m[3])
  \/ Turn(r, l, s, t)

Guides(r, f, p) == /\ f \in [1..Len(p) + 1 -> Stages]
                   /\ \A i \in 1..Len(p) : Does(r, f[i], p[i], f[i + 1])

\* Once mount has succeeded the driver knows whether the card can count blocks.
Supports == driver.count \/ driver.support = "count" => Counts

\* What the drivers know, the card and the controller are in at a stage.
Memory(l) ==
  /\ l.at \notin {"any", "reset"} => ~driver.sd_err
  /\ l.at \in {"clear", "idle", "open", "app"} => ~driver.rca
  /\ l.at = "ready" => driver.ocr
  /\ l.at \in {"known", "ident", "stby", "tran", "tran_app", "scr", "rest", "rest_app", "read", "write", "stop"} =>
       driver.type # "UNKNOWN"
  /\ l.at \in {"stby", "tran", "tran_app", "scr", "rest", "rest_app", "read", "write", "stop"} => driver.rca
  /\ l.at \in {"rest", "rest_app", "read", "write", "stop"} =>
       Supports
CardIn(l) ==
  /\ l.at \in {"idle", "open", "app"} => card.state = "idle"
  /\ l.at \in {"ready", "known"} => card.state = "ready"
  /\ l.at = "ident" => card.state = "ident"
  /\ l.at = "stby" => card.state = "stby"
  /\ l.at \in {"tran", "tran_app", "rest", "rest_app"} => card.state = "tran"
  /\ l.at \in {"scr", "stop"} => card.state = "data"
  /\ l.at \in {"app", "tran_app", "rest_app"} => card.app
  /\ l.at \in {"open", "app"} => (kind.hc => card.checked)
  /\ l.at \in {"rest", "scr"} => card.limit = l.k
  /\ l.at \in {"read", "write"} => card.limit = 0
Port(r, l) ==
  CASE l.at = "any" -> TRUE
    [] l.at = "scr" -> /\ host.xfer.dir = "scr" /\ host.xfer.auto
                       /\ \/ host.fifo = Empty /\ host.xfer.left = 1 /\ "READ_RDY" \notin irq
                          \/ host.fifo = Scr /\ host.xfer.left = 0 /\ "READ_RDY" \in irq
    [] l.at = "read" -> /\ host.xfer.dir = "read" /\ host.xfer.auto = l.auto
                        /\ \/ host.fifo = Empty /\ host.xfer.left = Amount(r) - l.k /\ "READ_RDY" \notin irq
                           \/ host.fifo # Empty /\ host.xfer.left = Amount(r) - l.k - 1 /\ "READ_RDY" \in irq
    [] l.at = "write" ->
         \/ /\ host.xfer.dir = "write" /\ host.xfer.auto = l.auto /\ "DATA_DONE" \notin irq
            /\ \/ host.fifo = Empty /\ host.xfer.left = r.num - l.k /\ (host.xfer.asked <=> "WRITE_RDY" \in irq)
               \/ host.fifo # Empty /\ host.xfer.left = r.num - l.k + 1 /\ host.xfer.asked /\ "WRITE_RDY" \notin irq
         \/ host.xfer = NoTransfer /\ l.k = r.num /\ "DATA_DONE" \in irq
            /\ card.state = IF l.auto THEN "tran" ELSE "data"
    [] OTHER -> host.xfer = NoTransfer
Medium(r, l) == /\ CardIn(l) /\ Port(r, l)
                /\ l.at # "any" => Idling /\ ~Pending
Where(r, l, s, t) ==
  /\ Memory(l)
  /\ s.do \notin {"issue", "await"} => Medium(r, l)
  /\ s.do = "issue" => Medium(r, l) /\ irq = {} /\ host.arg1 = s.arg
  /\ s.do = "await" =>
       \/ /\ host.busy.cmd = s.cmd /\ host.busy.arg = s.arg /\ irq = {}
          /\ host.xfer = NoTransfer /\ CardIn(l)
       \/ Medium(r, t) /\ "CMD_DONE" \in irq /\ host.resp = "ok"
       \/ /\ s.cmd = "SEND_IF_COND" /\ ~kind.v2 /\ irq = {"TIMEOUT"} /\ Idling
          /\ host.xfer = NoTransfer /\ CardIn(l)
Carries(r, l, p, t) == /\ p \in Seq(AllSteps)
                       /\ \E f : Guides(r, f, p) /\ f[1] = l /\ f[Len(p) + 1] = t
OnTrack(r, p) == \E f : Guides(r, f, p) /\ Where(r, f[1], p[1], f[2])

Working == kind.volts /\ ~disturbed
Alive == ~hung /\ card.state # "out"
NoCalls == \A c \in Callers : call[c] = Idle
Rested == Memory(Rest(0)) /\ Medium(Idle, Rest(0))
AllOnTrack == \A c \in Callers : \A r \in Requests : call[c] = r => OnTrack(r, todo[c])
Thrives == Alive /\ AllOnTrack /\ (NoCalls => Rested)
\* An attempt of mount is one from its first step on.
Starting == \A c \in Callers : call[c] = Mount /\ This(c).do = "attempt" => todo[c] = Attempt
Healthful == Starting /\ (Working => Thrives)

\* The call c stands at the stage l of the path f, and its step leads to t.
Stands(c, r, f, l, t) ==
  /\ call[c] = r /\ Guides(r, f, todo[c]) /\ l = f[1] /\ t = f[2]
  /\ Where(r, l, This(c), t) /\ Does(r, l, This(c), t)

\* Where nothing moves between the card and the controller, and where a stage
\* leads by a command.
Calm == Ats \ {"any", "scr", "read", "write"}
RoadFrom == {"clear", "idle", "open", "app", "known", "ident", "stby", "tran", "tran_app", "rest", "rest_app", "stop"}
RoadBy == {"GO_IDLE_STATE", "SEND_IF_COND", "APP_CMD", "OP_COND", "ALL_SEND_CID", "SEND_REL_ADDR", "SEND_CSD",
           "CARD_SELECT", "SEND_SCR", "SET_BUS_WIDTH", "SET_BLOCKLEN", "STOP_TRANS"}
RoadTo == {"idle", "open", "app", "ready", "ident", "stby", "tran", "tran_app", "scr", "rest_app", "rest"}
Leg(l, s, t) ==
  /\ l.k = 0 /\ t.k = 0
  /\ \/ l.at = "clear" /\ s.cmd = "GO_IDLE_STATE" /\ t.at = "idle"
     \/ l.at = "idle" /\ s.cmd = "SEND_IF_COND" /\ t.at = "open"
     \/ l.at = "open" /\ s.cmd = "APP_CMD" /\ t.at = "app"
     \/ l.at = "app" /\ s.cmd = "OP_COND" /\ t.at = "ready" /\ (kind.hc => s.arg = 1)
     \/ l.at = "known" /\ s.cmd = "ALL_SEND_CID" /\ t.at = "ident"
     \/ l.at = "ident" /\ s.cmd = "SEND_REL_ADDR" /\ t.at = "stby"
     \/ l.at = "stby" /\ s.cmd = "SEND_CSD" /\ t.at = "stby"
     \/ l.at = "stby" /\ s.cmd = "CARD_SELECT" /\ t.at = "tran"
     \/ l.at = "tran" /\ s.cmd = "APP_CMD" /\ t.at = "tran_app"
     \/ l.at = "tran_app" /\ s.cmd = "SEND_SCR" /\ t.at = "scr"
     \/ l.at = "rest" /\ s.cmd = "APP_CMD" /\ t.at = "rest_app"
     \/ l.at = "rest_app" /\ s.cmd = "SET_BUS_WIDTH" /\ t.at = "rest"
     \/ l.at = "rest" /\ s.cmd = "SET_BLOCKLEN" /\ t.at = "rest"
     \/ l.at = "stop" /\ s.cmd = "STOP_TRANS" /\ t.at = "rest"
ToCount(l, s, t) == l.at = "rest" /\ l.k = 0 /\ s.cmd = "SET_BLOCKCNT" /\ t.at = "rest" /\ t.k = s.arg /\ Counts
ToRead(r, l, s, t) == /\ r.kind = "read" /\ s.cmd = ReadCommand(r) /\ l.at = "rest" /\ t.at = "read" /\ t.k = 0
                      /\ t.auto <=> (Amount(r) = 1 \/ l.k = Amount(r))
ToWrite(r, l, s, t) ==
  /\ r.kind = "write" /\ r.num > 0 /\ s.cmd = WriteCommand(r) /\ l.at = "rest" /\ t.at = "write" /\ t.k = 0
  /\ t.auto <=> (r.num = 1 \/ l.k = r.num)

\* The state of the card at a stage behind a command.
Arrived(at) == CASE at \in {"idle", "open", "app"} -> "idle"
                 [] at \in {"tran", "tran_app", "rest", "rest_app"} -> "tran"
                 [] at \in {"scr", "read", "write"} -> "data"
                 [] OTHER -> at

\* How the controller answers a command that the card takes.
Taking(q) ==
  /\ irq' = irq \cup {"CMD_DONE"} /\ card' = TakenBy(q)
  /\ host' = [Reply(host, IF q.cmd = "OP_COND" /\ ~Powers(q) THEN "busy" ELSE "ok")
                EXCEPT !.xfer = IF Begins(q) THEN Transfer(q)
                                ELSE IF q.cmd = "STOP_TRANS" THEN NoTransfer ELSE @]

\* A step of c that does not begin an attempt.
Inside(c) == \E p : call' = call /\ Go(c, p) /\ p # <<>> /\ p[1].do # "attempt"
=============================================================================
