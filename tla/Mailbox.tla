------------------------------- MODULE Mailbox -------------------------------
(***************************************************************************)
(* A manager's mailbox: send_msg of ipc.c statement by statement, the loop *)
(* of the daemon that empties it, and what the callers do with the result. *)
(* box says whose mailbox: exiting threads retry on "pm"; clients of "fs"  *)
(* ignore a refusal and wait for the answer; clients of "compt" do not wait. *)
(*                                                                         *)
(* A server is not preempted, but "fs" and "compt" may call schedule() in  *)
(* the middle of a service (get_free_page waits for mm_lock).  A client may *)
(* lose the CPU to a tick between any two statements of send_msg; with     *)
(* Interruptible = FALSE only the runs in which that never happens are     *)
(* considered (a slice lasts 200 ms).  torn records the two ways in which a *)
(* tick can break a send_msg: another caller enters or goes on in send_msg *)
(* before it is over, or the daemon takes up the letter half-written.  A   *)
(* caller that finds index_push behind the array (between StorePush and    *)
(* Wrap of another, so torn) is not followed.                              *)
(***************************************************************************)
EXTENDS Naturals, Sequences, FiniteSets

CONSTANTS
  Clients,
  Size,           \* mail_size (64 in the code)
  Boxes,          \* the mailboxes considered, among "pm", "fs" and "compt"
  MaxSends,       \* bound: letters each client of "fs" or "compt" sends
  Interruptible

ASSUME MailboxAssumption ==
  /\ Size \in Nat \ {0} /\ MaxSends \in Nat \ {0}
  /\ Boxes \subseteq {"pm", "fs", "compt"}
  /\ Interruptible \in BOOLEAN

Requests == Clients \X (1..MaxSends)
None == <<>>            \* a NULL pointer

VARIABLES
  box,            \* whose mailbox this is
  mail,           \* letter_type # 0, from and msg of every slot
  index_push, index_pop,
  pc, sent,       \* each client's progress, and how many letters it started
  reg,            \* the index a client loaded for index_push++
  serving,        \* the letter the daemon is working on, if any
  answered,       \* pages whose 'N' has become 'Y'
  posted, served, \* history: letters accepted, letters handled
  torn            \* history: a tick broke a send_msg

client == <<pc, sent, reg>>
daemon == <<index_pop, serving, answered, served>>
vars == <<box, mail, index_push, client, daemon, posted, torn>>

Request(c) == <<c, sent[c]>>

Sending == {c \in Clients : pc[c] \in {"type", "from", "msg", "load", "store", "wrap"}}

\* c may execute: the CPU is not held by the daemon, nor by a client in the
\* middle of a send_msg that no tick interrupts.
MayRun(c) ==
  /\ box = "pm" => serving = <<>>
  /\ Interruptible \/ Sending \subseteq {c}

Init ==
  /\ box \in Boxes
  /\ mail = [i \in 0..Size - 1 |-> [letter_type |-> FALSE, from |-> None, msg |-> None]]
  /\ index_push = 0 /\ index_pop = 0
  /\ pc = [c \in Clients |-> "idle"] /\ sent = [c \in Clients |-> 0]
  /\ reg = [c \in Clients |-> 0]
  /\ serving = <<>> /\ answered = {}
  /\ posted = <<>> /\ served = <<>>
  /\ torn = FALSE

At(c, here, there) ==
  /\ MayRun(c)
  /\ pc[c] = here /\ pc' = [pc EXCEPT ![c] = there]
  /\ UNCHANGED box

InArray == index_push < Size

\* c runs in send_msg; another may be in the middle of it.
Overlaps(c) == torn' = (torn \/ Sending \ {c} # {})

-----------------------------------------------------------------------------
(* A client.                                                               *)

\* The caller fills a fresh page, with 'N' in it.
NewRequest(c) ==
  /\ At(c, "idle", "check")
  /\ sent[c] < IF box = "pm" THEN 1 ELSE MaxSends
  /\ sent' = [sent EXCEPT ![c] = @ + 1]
  /\ UNCHANGED <<mail, index_push, reg, daemon, posted, torn>>

Refused_Pop == mail[index_pop].letter_type
Refused == mail[index_push].letter_type

\* Only thread_exit looks at the result of send_msg.
AfterRefusal == IF box = "pm" THEN "full" ELSE IF box = "fs" THEN "wait" ELSE "idle"
AfterPosting == IF box = "fs" THEN "wait" ELSE "idle"

Check(c) ==
  /\ InArray
  /\ At(c, "check", IF Refused THEN AfterRefusal ELSE "type") /\ Overlaps(c)
  /\ UNCHANGED <<mail, index_push, sent, reg, daemon, posted>>

Retry(c) ==
  /\ At(c, "full", "check")
  /\ UNCHANGED <<mail, index_push, sent, reg, daemon, posted, torn>>

\* Every statement reads index_push again.
SetType(c) ==
  /\ InArray
  /\ At(c, "type", "from") /\ Overlaps(c)
  /\ mail' = [mail EXCEPT ![index_push].letter_type = TRUE]
  /\ UNCHANGED <<index_push, sent, reg, daemon, posted>>

SetFrom(c) ==
  /\ InArray
  /\ At(c, "from", "msg") /\ Overlaps(c)
  /\ mail' = [mail EXCEPT ![index_push].from = Request(c)]
  /\ UNCHANGED <<index_push, sent, reg, daemon, posted>>

SetMsg(c) ==
  /\ InArray
  /\ At(c, "msg", "load") /\ Overlaps(c)
  /\ mail' = [mail EXCEPT ![index_push].msg = IF box = "pm" THEN None ELSE Request(c)]
  /\ UNCHANGED <<index_push, sent, reg, daemon, posted>>

LoadPush(c) ==
  /\ InArray
  /\ At(c, "load", "store") /\ Overlaps(c)
  /\ reg' = [reg EXCEPT ![c] = index_push]
  /\ UNCHANGED <<mail, index_push, sent, daemon, posted>>

StorePush(c) ==
  /\ At(c, "store", "wrap") /\ Overlaps(c)
  /\ index_push' = reg[c] + 1
  /\ UNCHANGED <<mail, sent, reg, daemon, posted>>

Wrap(c) ==
  /\ At(c, "wrap", AfterPosting) /\ Overlaps(c)
  /\ index_push' = IF index_push = Size THEN 0 ELSE index_push
  /\ posted' = Append(posted, Request(c))
  /\ UNCHANGED <<mail, sent, reg, daemon>>

\* The loop on the page's 'N'.
Return(c) ==
  /\ At(c, "wait", "idle")
  /\ Request(c) \in answered
  /\ UNCHANGED <<mail, index_push, sent, reg, daemon, posted, torn>>

Client(c) == NewRequest(c) \/ Check(c) \/ Retry(c) \/ SetType(c) \/ SetFrom(c)
             \/ SetMsg(c) \/ LoadPush(c) \/ StorePush(c) \/ Wrap(c) \/ Return(c)

-----------------------------------------------------------------------------
(* The daemon.                                                             *)

DaemonMayRun == Interruptible \/ Sending = {}

\* What identifies the letter in a slot: the exiting pcb, or the page.
Content(s) == IF box = "pm" THEN s.from ELSE s.msg

\* The letters in the array from index_pop on, the one being written excluded.
Letters ==
  LET full == Cardinality({i \in 0..Size - 1 : mail[i].letter_type})
      half == Cardinality({c \in Sending : pc[c] # "type"})
  IN [k \in 1..full - half |-> Content(mail[(index_pop + k - 1) % Size])]

StartService ==
  /\ DaemonMayRun
  /\ serving = <<>>
  /\ mail[index_pop].letter_type
  /\ serving' = <<Content(mail[index_pop])>>
  /\ torn' = (torn \/ Letters = <<>>)
  /\ UNCHANGED <<box, mail, index_push, client, index_pop, answered, posted, served>>

NextPop_Stays(i) == i
NextPop_NoWrap(i) == i + 1
NextPop(i) == IF i + 1 = Size THEN 0 ELSE i + 1

Answer_Nobody(r) == {}
Answer(r) == {r}

Cleared_AfterAdvance(m) == [m EXCEPT ![NextPop(index_pop)].letter_type = FALSE]
Cleared(m) == [m EXCEPT ![index_pop].letter_type = FALSE]

\* Answer, clear the letter and advance, without a call of schedule().
FinishService ==
  /\ DaemonMayRun
  /\ serving # <<>>
  /\ served' = Append(served, serving[1])
  /\ answered' = answered \cup Answer(Content(mail[index_pop]))
  /\ mail' = Cleared(mail)
  /\ index_pop' = NextPop(index_pop)
  /\ serving' = <<>>
  /\ UNCHANGED <<box, index_push, client, posted, torn>>

Daemon == StartService \/ FinishService

Next == Daemon \/ \E c \in Clients : Client(c)

Spec == Init /\ [][Next]_vars

\* The scheduler gives the CPU to every client and to the daemon.
FairSpec == Spec /\ WF_vars(Daemon) /\ \A c \in Clients : SF_vars(Client(c))

-----------------------------------------------------------------------------
(* Properties.                                                             *)

Slot == [letter_type : BOOLEAN, from : Requests \cup {None},
         msg : Requests \cup {None}]

\* Every variable stays within its type.
TypeOK ==
  /\ box \in Boxes
  /\ mail \in [0..Size - 1 -> Slot]
  /\ index_push \in 0..Size /\ index_pop \in 0..Size - 1
  /\ pc \in [Clients -> {"idle", "check", "full", "type", "from", "msg", "load",
                         "store", "wrap", "wait"}]
  /\ sent \in [Clients -> 0..MaxSends]
  /\ reg \in [Clients -> 0..Size - 1]
  /\ serving \in Seq(Requests \cup {None})
  /\ answered \subseteq Requests \cup {None}
  /\ posted \in Seq(Requests) /\ served \in Seq(Requests \cup {None})
  /\ torn \in BOOLEAN

LB == INSTANCE LetterBox WITH Letters <- Requests, queue <- Letters

\* Until a tick breaks a send_msg, the array with its two indices is a bounded
\* FIFO queue: a letter goes to its end when it is complete, and the daemon takes
\* them from the front, once each.
BoundedQueue == LB!Init /\ [][~torn' => LB!Next]_Letters

\* What the message printed on a refusal says: a letter is refused only when the
\* mailbox holds as many as it can, until a tick breaks a send_msg.
FullMeansFull ==
  [][\A c \in Clients :
       ~torn' /\ pc[c] = "check" /\ pc'[c] \notin {"check", "type"}
       => \A i \in 0..Size - 1 : mail[i].letter_type]_vars

\* What the comment on the daemon's loop says: letters are handled once each, in
\* the order in which they were sent.
Fifo ==
  /\ \A i \in 1..Len(served) : served[i] # None
  /\ \A i, j \in 1..Len(served) : i # j => served[i] # served[j]
  /\ \A i, j \in 1..Len(served), k, l \in 1..Len(posted) :
       served[i] = posted[k] /\ served[j] = posted[l] /\ i < j => k < l

\* Every accepted letter is handled.
PostedServed ==
  \A r \in Requests :
    r \in {posted[i] : i \in 1..Len(posted)} ~> r \in {served[i] : i \in 1..Len(served)}

\* A file system call whose letter was accepted returns.  (One whose letter was
\* refused waits for ever: kservice_fopen ignores the result of send_msg.)
WaitersReturn ==
  \A c \in Clients :
    pc[c] = "wait" /\ Request(c) \in {posted[i] : i \in 1..Len(posted)} ~> pc[c] # "wait"

\* An exiting thread that met a full mailbox posts its letter in the end.
RetrySucceeds ==
  \A c \in Clients : pc[c] = "full" ~> Request(c) \in {posted[i] : i \in 1..Len(posted)}
=============================================================================
