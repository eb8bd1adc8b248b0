---------------------------- MODULE MailboxProofs ----------------------------
(***************************************************************************)
(* Proofs about Mailbox, for every set of clients and every mail_size.     *)
(***************************************************************************)
EXTENDS Mailbox, TLAPS, FiniteSetTheorems, SequenceTheorems

-----------------------------------------------------------------------------
(* Types, with or without ticks in the middle of send_msg.                 *)

\* A client that left "idle" has filled a page.
Started == \A c \in Clients : pc[c] # "idle" => sent[c] > 0

TInv == TypeOK /\ Started

LEMMA SingletonSeq ==
  ASSUME NEW S, NEW x \in S PROVE <<x>> \in Seq(S)
OBVIOUS

LEMMA AppendSeq ==
  ASSUME NEW S, NEW s \in Seq(S), NEW x \in S
  PROVE  /\ Append(s, x) \in Seq(S) /\ Len(Append(s, x)) = Len(s) + 1
         /\ \A i \in 1..Len(s) : Append(s, x)[i] = s[i]
         /\ Append(s, x)[Len(s) + 1] = x
OBVIOUS

LEMMA TInvInit == Init => TInv
<1> SUFFICES ASSUME Init PROVE TInv
  OBVIOUS
<1>1. torn \in BOOLEAN
  BY Zenon DEF Init
<1>2. mail \in [0..Size - 1 -> Slot]
  BY Zenon DEF Init, Slot
<1>3. /\ box \in Boxes /\ index_push = 0 /\ index_pop = 0
      /\ pc = [c \in Clients |-> "idle"] /\ sent = [c \in Clients |-> 0]
      /\ reg = [c \in Clients |-> 0] /\ serving = <<>> /\ answered = {}
      /\ posted = <<>> /\ served = <<>>
  BY Zenon DEF Init
<1>4. /\ index_push \in 0..Size /\ index_pop \in 0..Size - 1
      /\ pc \in [Clients -> {"idle", "check", "full", "type", "from", "msg", "load",
                             "store", "wrap", "wait"}]
      /\ sent \in [Clients -> 0..MaxSends] /\ reg \in [Clients -> 0..Size - 1]
      /\ serving \in Seq(Requests \cup {None}) /\ answered \subseteq Requests \cup {None}
      /\ posted \in Seq(Requests) /\ served \in Seq(Requests \cup {None})
  BY <1>3, MailboxAssumption
<1>5. Started
  BY <1>3 DEF Started
<1> QED BY <1>1, <1>2, <1>3, <1>4, <1>5, Zenon DEF TInv, TypeOK

LEMMA RequestType ==
  ASSUME TInv, NEW c \in Clients, pc[c] # "idle" PROVE Request(c) \in Requests
BY MailboxAssumption DEF TInv, TypeOK, Started, Request, Requests

LEMMA ContentType ==
  ASSUME NEW s \in Slot PROVE Content(s) \in Requests \cup {None}
BY DEF Slot, Content

LEMMA SlotWithMsg ==
  ASSUME NEW m \in [0..Size - 1 -> Slot], NEW i \in 0..Size - 1,
         NEW v \in Requests \cup {None}
  PROVE  [m EXCEPT ![i].msg = v] \in [0..Size - 1 -> Slot]
BY DEF Slot

LEMMA ClientTypes ==
  ASSUME TInv, NEW c \in Clients, Client(c) PROVE TInv'
<1> USE MailboxAssumption DEF TInv, TypeOK, Started, At, InArray, daemon, Overlaps
<1>1. CASE NewRequest(c)
  BY <1>1 DEF NewRequest
<1>2. CASE Check(c)
  BY <1>2 DEF Check, AfterRefusal
<1>3. CASE Retry(c)
  BY <1>3 DEF Retry
<1>4. CASE SetType(c)
  BY <1>4, ZenonT(60) DEF SetType, Slot
<1>5. CASE SetFrom(c)
  <2>1. Request(c) \in Requests
    BY <1>5, RequestType DEF SetFrom
  <2> QED BY <1>5, <2>1, ZenonT(60) DEF SetFrom, Slot
<1>6. CASE SetMsg(c)
  <2>1. Request(c) \in Requests
    BY <1>6, RequestType DEF SetMsg
  <2> DEFINE v == IF box = "pm" THEN None ELSE Request(c)
  <2>2. v \in Requests \cup {None}
    BY <2>1
  <2>3. mail' = [mail EXCEPT ![index_push].msg = v] /\ index_push \in 0..Size - 1
    BY <1>6 DEF SetMsg
  <2> HIDE DEF v
  <2>4. mail' \in [0..Size - 1 -> Slot]
    BY <2>2, <2>3, SlotWithMsg
  <2> QED BY <1>6, <2>4 DEF SetMsg
<1>7. CASE LoadPush(c)
  BY <1>7 DEF LoadPush
<1>8. CASE StorePush(c)
  BY <1>8 DEF StorePush
<1>9. CASE Wrap(c)
  <2>1. Request(c) \in Requests
    BY <1>9, RequestType DEF Wrap
  <2>2. posted' \in Seq(Requests)
    BY <1>9, <2>1, AppendSeq DEF Wrap
  <2> QED BY <1>9, <2>2 DEF Wrap, AfterPosting
<1>10. CASE Return(c)
  BY <1>10 DEF Return
<1> QED
  BY <1>1, <1>2, <1>3, <1>4, <1>5, <1>6, <1>7, <1>8, <1>9, <1>10 DEF Client

LEMMA DaemonTypes ==
  ASSUME TInv, Daemon PROVE TInv'
<1>1. mail[index_pop] \in Slot
  BY MailboxAssumption DEF TInv, TypeOK
<1>2. Content(mail[index_pop]) \in Requests \cup {None}
  BY <1>1, ContentType
<1> USE MailboxAssumption DEF TInv, TypeOK, Started, client
<1>3. CASE StartService
  <2>1. serving' \in Seq(Requests \cup {None})
    BY <1>2, <1>3, SingletonSeq DEF StartService
  <2> QED BY <1>3, <2>1 DEF StartService
<1>4. CASE FinishService
  <2>1. serving[1] \in Requests \cup {None}
    BY <1>4, ElementOfSeq, EmptySeq DEF FinishService
  <2>2. served' \in Seq(Requests \cup {None})
    BY <1>4, <2>1, AppendSeq DEF FinishService
  <2>3. serving' \in Seq(Requests \cup {None})
    BY <1>4 DEF FinishService
  <2>4. answered' \subseteq Requests \cup {None}
    BY <1>4, <1>2 DEF FinishService, Answer
  <2>5. mail' \in [0..Size - 1 -> Slot]
    BY <1>1, <1>4 DEF FinishService, Cleared, Slot
  <2> QED BY <1>4, <2>2, <2>3, <2>4, <2>5 DEF FinishService, NextPop
<1> QED BY <1>3, <1>4 DEF Daemon

LEMMA TInvStep == TInv /\ [Next]_vars => TInv'
<1> SUFFICES ASSUME TInv, [Next]_vars PROVE TInv'
  OBVIOUS
<1>1. CASE UNCHANGED vars
  BY <1>1 DEF vars, client, daemon, TInv, TypeOK, Started
<1> QED BY <1>1, ClientTypes, DaemonTypes DEF Next

\* Every variable of a mailbox keeps its type, ticks in the middle of send_msg
\* included: index_push is at most one behind the array, a register at most its
\* last slot, a letter a page some client filled.
THEOREM MailTypesHold == Spec => []TypeOK
<1>1. TInv => TypeOK
  BY DEF TInv
<1> QED BY <1>1, TInvInit, TInvStep, PTL DEF Spec

-----------------------------------------------------------------------------
(* The array as a ring.                                                    *)

\* The k-th slot from slot p on.
Nth(p, k) == IF p + k - 1 < Size THEN p + k - 1 ELSE p + k - 1 - Size

\* The first n slots from slot p on.
Segment(p, n) == {i \in 0..Size - 1 : (p <= i /\ i < p + n) \/ i + Size < p + n}

Writing(c) == pc[c] \in {"from", "msg", "load", "store", "wrap"}

OneSender == \A c, d \in Sending : c = d

\* The n full slots follow index_pop; index_push is behind them, or at the last
\* of them while a client writes it.
Ring(n) ==
  /\ \A i \in 0..Size - 1 : mail[i].letter_type <=> i \in Segment(index_pop, n)
  /\ (\A c \in Clients : ~Writing(c)) => index_push = Nth(index_pop, n + 1)
  /\ \A c \in Clients : pc[c] = "type" => n < Size
  /\ \A c \in Clients : Writing(c) =>
       /\ n > 0
       /\ index_push = IF pc[c] = "wrap" THEN Nth(index_pop, n) + 1 ELSE Nth(index_pop, n)
       /\ pc[c] = "store" => reg[c] = index_push
       /\ pc[c] # "from" => mail[Nth(index_pop, n)].from = Request(c)
       /\ pc[c] \in {"load", "store", "wrap"} /\ box # "pm"
            => mail[Nth(index_pop, n)].msg = Request(c)
       /\ serving # <<>> => n > 1

\* The daemon works on the letter at index_pop.
Served == serving # <<>> => /\ mail[index_pop].letter_type
                            /\ serving = <<Content(mail[index_pop])>>

\* The inductive invariant.
RInv == TInv /\ OneSender /\ Served /\ \E n \in 0..Size : Ring(n)

LEMMA NthIsModulo ==
  ASSUME NEW p \in 0..Size - 1, NEW k \in 1..Size
  PROVE  (p + k - 1) % Size = Nth(p, k) /\ Nth(p, k) \in 0..Size - 1
BY MailboxAssumption DEF Nth

LEMMA NthInSegment ==
  ASSUME NEW p \in 0..Size - 1, NEW n \in 0..Size, NEW k \in 1..Size
  PROVE  /\ Nth(p, k) \in Segment(p, n) <=> k <= n
         /\ \A l \in 1..Size : Nth(p, k) = Nth(p, l) => k = l
BY MailboxAssumption DEF Nth, Segment

LEMMA SegmentGrows ==
  ASSUME NEW p \in 0..Size - 1, NEW n \in 0..Size - 1
  PROVE  /\ Nth(p, n + 1) \in 0..Size - 1
         /\ Nth(p, n + 1) \notin Segment(p, n)
         /\ Segment(p, n + 1) = Segment(p, n) \cup {Nth(p, n + 1)}
BY MailboxAssumption DEF Nth, Segment

LEMMA SegmentShrinks ==
  ASSUME NEW p \in 0..Size - 1, NEW n \in 1..Size
  PROVE  /\ NextPop(p) \in 0..Size - 1
         /\ Segment(NextPop(p), n - 1) = Segment(p, n) \ {p}
         /\ \A k \in 1..Size : Nth(NextPop(p), k) = Nth(p, k + 1)
BY MailboxAssumption DEF Nth, Segment, NextPop

LEMMA SegmentSize ==
  ASSUME NEW p \in 0..Size - 1, NEW n \in 0..Size
  PROVE  Cardinality(Segment(p, n)) = n
<1> USE MailboxAssumption
<1>1. CASE p + n <= Size
  <2>1. Segment(p, n) = p..p + n - 1
    BY <1>1 DEF Segment
  <2> QED BY <2>1, FS_Interval
<1>2. CASE p + n > Size
  <2>1. /\ Segment(p, n) = (p..Size - 1) \cup (0..p + n - Size - 1)
        /\ (p..Size - 1) \cap (0..p + n - Size - 1) = {}
    BY <1>2 DEF Segment
  <2>2. /\ IsFiniteSet(p..Size - 1) /\ Cardinality(p..Size - 1) = Size - p
        /\ IsFiniteSet(0..p + n - Size - 1)
        /\ Cardinality(0..p + n - Size - 1) = p + n - Size
    BY <1>2, FS_Interval
  <2>3. Cardinality((p..Size - 1) \cup (0..p + n - Size - 1))
        = (Size - p) + (p + n - Size) - Cardinality({})
    BY <2>1, <2>2, FS_Union
  <2> QED BY <2>1, <2>3, FS_EmptySet
<1> QED BY <1>1, <1>2

\* How many of the full slots hold a letter that is being written.
Half == IF \E c \in Clients : Writing(c) THEN 1 ELSE 0

LEMMA HalfWritten ==
  ASSUME OneSender
  PROVE  Cardinality({c \in Sending : pc[c] # "type"}) = Half
<1>1. \A c \in Clients : Writing(c) <=> c \in {d \in Sending : pc[d] # "type"}
  BY DEF Writing, Sending
<1>2. CASE \E c \in Clients : Writing(c)
  <2>1. PICK c \in Clients : Writing(c)
    BY <1>2
  <2>2. {d \in Sending : pc[d] # "type"} = {c}
    BY <1>1, <2>1 DEF OneSender, Sending
  <2> QED BY <1>2, <2>2, FS_Singleton DEF Half
<1>3. CASE ~\E c \in Clients : Writing(c)
  <2>1. {d \in Sending : pc[d] # "type"} = {}
    BY <1>1, <1>3 DEF Sending
  <2> QED BY <1>3, <2>1, FS_EmptySet DEF Half
<1> QED BY <1>2, <1>3

\* The queue that a ring of n full slots stands for.
Queue(n) == [k \in 1..n - Half |-> Content(mail[Nth(index_pop, k)])]

RingIsQueue ==
  \A n \in 0..Size : TypeOK /\ OneSender /\ Ring(n) => Letters = Queue(n)

LEMMA LettersAre == RingIsQueue
<1> USE DEF RingIsQueue
<1> SUFFICES ASSUME NEW n \in 0..Size, TypeOK, OneSender, Ring(n)
             PROVE  Letters = Queue(n)
  OBVIOUS
<1>1. index_pop \in 0..Size - 1
  BY DEF TypeOK
<1>2. {i \in 0..Size - 1 : mail[i].letter_type} = Segment(index_pop, n)
  BY DEF Ring, Segment
<1>3. Cardinality({i \in 0..Size - 1 : mail[i].letter_type}) = n
  BY <1>1, <1>2, SegmentSize
<1>4. Letters = [k \in 1..n - Half |-> Content(mail[(index_pop + k - 1) % Size])]
  BY <1>3, HalfWritten DEF Letters
<1>5. \A k \in 1..n - Half : (index_pop + k - 1) % Size = Nth(index_pop, k)
  BY <1>1, NthIsModulo, MailboxAssumption DEF Half
<1> QED BY <1>4, <1>5, Zenon DEF Queue

LEMMA LettersAreNext == RingIsQueue'
BY LettersAre, PTL
-----------------------------------------------------------------------------
(* Steps.  Until a tick breaks a send_msg, a client that runs in send_msg is *)
(* the only one there.                                                     *)

Sender(c) == \A d \in Clients \ {c} : ~Writing(d) /\ pc[d] # "type"

LEMMA RunsAlone ==
  ASSUME ~torn', NEW c \in Clients, Overlaps(c)
  PROVE  Sender(c)
BY DEF Overlaps, Sending, Sender, Writing

LEMMA SenderKept ==
  ASSUME TypeOK, NEW c \in Clients, Sender(c), NEW w,
         pc' = [pc EXCEPT ![c] = w]
  PROVE  Sender(c)' /\ OneSender'
BY DEF Sender, OneSender, Sending, Writing, TypeOK

\* A step of a client outside send_msg, whoever is in the middle of it.
LEMMA OutsideStep ==
  ASSUME RInv, NEW n \in 0..Size, Ring(n), NEW c \in Clients,
         NewRequest(c) \/ Retry(c) \/ Return(c)
  PROVE  /\ OneSender' /\ Served' /\ Ring(n)' /\ Queue(n)' = Queue(n)
         /\ UNCHANGED <<posted, served>>
<1> USE MailboxAssumption DEF RInv, TInv, TypeOK, daemon
<1>1. /\ UNCHANGED <<mail, index_push, index_pop, serving, reg, box, posted, served>>
      /\ \A d \in Clients \ {c} : sent'[d] = sent[d] /\ pc'[d] = pc[d]
      /\ pc[c] \in {"idle", "full", "wait"} /\ pc'[c] \in {"idle", "check"}
  BY DEF NewRequest, Retry, Return, At
<1>2. Sending' = Sending
  BY <1>1 DEF Sending
<1>3. OneSender'
  BY <1>2 DEF OneSender
<1>4. /\ ~Writing(c) /\ ~Writing(c)'
      /\ \A d \in Clients \ {c} : Writing(d)' = Writing(d) /\ UNCHANGED Request(d)
  BY <1>1 DEF Writing, Request
<1>5. Ring(n)'
  <2>1. UNCHANGED <<Segment(index_pop, n), Nth(index_pop, n), Nth(index_pop, n + 1)>>
    BY <1>1 DEF Segment, Nth
  <2>2. pc'[c] # "type"
    BY <1>1
  <2>3. UNCHANGED <<mail, index_push, serving, reg, box>>
    BY <1>1
  <2>4. \A d \in Clients : Writing(d)' => Writing(d) /\ UNCHANGED <<pc[d], Request(d)>>
    BY <1>1, <1>4
  <2> QED BY ONLY Ring(n), <1>1, <1>4, <2>1, <2>2, <2>3, <2>4 DEF Ring
<1>6. Served'
  BY <1>1 DEF Served, Content
<1>7. Queue(n)' = Queue(n)
  <2>1. Half' = Half
    BY <1>4 DEF Half
  <2> QED BY <1>1, <2>1 DEF Queue, Content, Nth
<1> QED BY <1>1, <1>3, <1>5, <1>6, <1>7

\* The first step of send_msg looks at the array only.
LEMMA CheckStep ==
  ASSUME ~torn', RInv, NEW n \in 0..Size, Ring(n), NEW c \in Clients, Check(c)
  PROVE  /\ OneSender' /\ Served' /\ Ring(n)' /\ Queue(n)' = Queue(n)
         /\ UNCHANGED <<posted, served>>
<1> USE MailboxAssumption DEF RInv, TInv, TypeOK, daemon
<1>1. Sender(c) /\ pc[c] = "check"
  BY RunsAlone DEF Check, At
<1>2. PICK w : pc' = [pc EXCEPT ![c] = w] /\ w \in {"idle", "full", "type", "wait"}
  BY DEF Check, At, AfterRefusal
<1>3. UNCHANGED <<mail, index_push, index_pop, serving, reg, sent, box, posted, served>>
  BY DEF Check, At
<1>4. OneSender'
  BY <1>1, <1>2, SenderKept
<1>5. \A d \in Clients : ~Writing(d) /\ ~Writing(d)'
  BY <1>1, <1>2 DEF Sender, Writing
<1>6. ASSUME w = "type" PROVE n < Size
  <2>1. ~Refused /\ InArray
    BY <1>1, <1>2, <1>6 DEF Check, At, AfterRefusal
  <2>2. index_push = Nth(index_pop, n + 1)
    BY <1>5 DEF Ring
  <2>3. index_push \notin Segment(index_pop, n)
    BY <2>1 DEF Refused, InArray, Ring
  <2> QED BY <2>2, <2>3 DEF Segment, Nth
<1>7. Ring(n)'
  BY <1>1, <1>2, <1>3, <1>5, <1>6 DEF Ring, Sender, Nth, Segment
<1>8. Served'
  BY <1>3 DEF Served, Content
<1>9. Queue(n)' = Queue(n)
  BY <1>3, <1>5 DEF Queue, Half, Content, Nth
<1> QED BY <1>3, <1>4, <1>7, <1>8, <1>9

LEMMA SlotWithType ==
  ASSUME NEW m \in [0..Size - 1 -> Slot], NEW i \in 0..Size - 1, NEW b \in BOOLEAN, NEW x,
         x = [m EXCEPT ![i].letter_type = b]
  PROVE  /\ \A j \in 0..Size - 1 : x[j].letter_type = IF j = i THEN b ELSE m[j].letter_type
         /\ \A j \in 0..Size - 1 : x[j].from = m[j].from /\ x[j].msg = m[j].msg
BY DEF Slot

\* The first write takes the slot behind the last letter.
LEMMA SetTypeStep ==
  ASSUME ~torn', RInv, NEW n \in 0..Size, Ring(n), NEW c \in Clients, SetType(c)
  PROVE  /\ OneSender' /\ Served' /\ n < Size /\ Ring(n + 1)'
         /\ Queue(n + 1)' = Queue(n) /\ UNCHANGED <<posted, served>>
<1> USE MailboxAssumption DEF RInv, TInv, TypeOK, daemon
<1>1. Sender(c) /\ pc[c] = "type" /\ pc' = [pc EXCEPT ![c] = "from"]
  BY RunsAlone DEF SetType, At
<1>2. OneSender'
  BY <1>1, SenderKept
<1>3. /\ \A d \in Clients : ~Writing(d)
      /\ \A d \in Clients \ {c} : ~Writing(d)' /\ pc'[d] # "type"
      /\ Writing(c)' /\ pc'[c] = "from"
  BY <1>1 DEF Sender, Writing
<1>4. n < Size /\ index_push = Nth(index_pop, n + 1)
  BY <1>1, <1>3 DEF Ring
<1>5. /\ index_push \in 0..Size - 1 /\ index_push \notin Segment(index_pop, n)
      /\ Segment(index_pop, n + 1) = Segment(index_pop, n) \cup {index_push}
  <2>1. n \in 0..Size - 1 /\ index_pop \in 0..Size - 1
    BY <1>4
  <2> QED BY ONLY <1>4, <2>1, SegmentGrows
<1>6. /\ UNCHANGED <<index_push, index_pop, serving, reg, sent, box, posted, served>>
      /\ mail' = [mail EXCEPT ![index_push].letter_type = TRUE]
  BY DEF SetType, At
<1>7. /\ \A i \in 0..Size - 1 : mail'[i].letter_type <=> mail[i].letter_type \/ i = index_push
      /\ \A i \in 0..Size - 1 : mail'[i].from = mail[i].from /\ mail'[i].msg = mail[i].msg
  <2>1. mail \in [0..Size - 1 -> Slot]
    OBVIOUS
  <2> QED BY ONLY <1>5, <1>6, <2>1, SlotWithType
<1>8. serving # <<>> => n > 0
  <2>1. Served /\ index_pop \in 0..Size - 1
    OBVIOUS
  <2> QED BY ONLY <2>1, Ring(n), n \in 0..Size, MailboxAssumption DEF Served, Ring, Segment
<1>9. Ring(n + 1)'
  <2>1. \A i \in 0..Size - 1 : mail'[i].letter_type <=> i \in Segment(index_pop, n + 1)
    BY <1>5, <1>7 DEF Ring
  <2>2. Segment(index_pop, n + 1) = Segment(index_pop, n + 1)'
    BY <1>6 DEF Segment
  <2>3. Nth(index_pop, n + 1)' = Nth(index_pop, n + 1)
    BY <1>6 DEF Nth
  <2> QED BY ONLY n \in 0..Size, <1>3, <1>4, <1>6, <1>8, <2>1, <2>2, <2>3, SMT DEF Ring
<1>10. Served'
  BY <1>6, <1>7 DEF Served, Content
<1>11. Queue(n + 1)' = Queue(n)
  <2>1. Half = 0 /\ Half' = 1
    BY <1>3 DEF Half
  <2>2. \A k \in 1..n : Nth(index_pop, k) \in 0..Size - 1
    BY DEF Nth
  <2>3. \A k \in 1..n :
          Content(mail[Nth(index_pop, k)])' = Content(mail[Nth(index_pop, k)])
    BY <1>6, <1>7, <2>2 DEF Content, Nth
  <2>4. n + 1 - 1 = n - 0
    OBVIOUS
  <2> QED BY <2>1, <2>3, <2>4 DEF Queue
<1> QED BY <1>2, <1>4, <1>6, <1>9, <1>10, <1>11

\* The next two fill the last slot, where no letter is complete yet.
LEMMA WriteStep ==
  ASSUME ~torn', RInv, NEW n \in 0..Size, Ring(n), NEW c \in Clients,
         SetFrom(c) \/ SetMsg(c)
  PROVE  /\ OneSender' /\ Served' /\ Ring(n)' /\ Queue(n)' = Queue(n)
         /\ UNCHANGED <<posted, served>>
<1> USE MailboxAssumption DEF RInv, TInv, TypeOK, daemon
<1> DEFINE w == IF pc[c] = "from" THEN "msg" ELSE "load"
<1>1. Sender(c) /\ pc[c] \in {"from", "msg"} /\ pc' = [pc EXCEPT ![c] = w]
  BY RunsAlone DEF SetFrom, SetMsg, At
<1>2. OneSender'
  BY <1>1, SenderKept
<1>3. /\ \A d \in Clients \ {c} : ~Writing(d) /\ ~Writing(d)' /\ pc'[d] # "type"
      /\ Writing(c) /\ Writing(c)' /\ pc'[c] = w
  BY <1>1 DEF Sender, Writing
<1>4. n > 0 /\ index_push = Nth(index_pop, n) /\ (serving # <<>> => n > 1)
  BY <1>1, <1>3 DEF Ring
<1>5. /\ index_push \in 0..Size - 1
      /\ \A k \in 1..n - 1 : Nth(index_pop, k) \in 0..Size - 1 /\ Nth(index_pop, k) # index_push
      /\ serving # <<>> => index_pop # index_push
  BY <1>4 DEF Nth
<1>6. UNCHANGED <<index_push, index_pop, serving, reg, sent, box, posted, served>>
  BY DEF SetFrom, SetMsg, At
<1>7. /\ \A i \in 0..Size - 1 : mail'[i].letter_type = mail[i].letter_type
      /\ \A i \in (0..Size - 1) \ {index_push} : mail'[i] = mail[i]
      /\ pc[c] = "from" => mail'[index_push].from = Request(c)
      /\ pc[c] = "msg" => /\ mail'[index_push].from = mail[index_push].from
                          /\ box # "pm" => mail'[index_push].msg = Request(c)
  <2>1. CASE SetFrom(c)
    BY <1>5, <2>1 DEF SetFrom, At, Slot
  <2>2. CASE SetMsg(c)
    BY <1>5, <2>2 DEF SetMsg, At, Slot
  <2> QED BY <2>1, <2>2
<1>8. Ring(n)'
  <2>1. Segment(index_pop, n) = Segment(index_pop, n)'
    BY <1>6 DEF Segment
  <2>2. \A i \in 0..Size - 1 : mail'[i].letter_type <=> i \in Segment(index_pop, n)
    BY <1>7 DEF Ring
  <2>3. mail'[Nth(index_pop, n)].from = Request(c)
    BY <1>1, <1>3, <1>4, <1>7 DEF Ring
  <2>4. pc[c] = "msg" /\ box # "pm" => mail'[Nth(index_pop, n)].msg = Request(c)
    BY <1>4, <1>7
  <2>5. UNCHANGED <<Request(c), Nth(index_pop, n)>>
    BY <1>6 DEF Request, Nth
  <2> QED BY <1>1, <1>3, <1>4, <1>6, <2>1, <2>2, <2>3, <2>4, <2>5 DEF Ring
<1>9. Served'
  BY <1>5, <1>6, <1>7 DEF Served, Content
<1>10. Queue(n)' = Queue(n)
  <2>1. Half = 1 /\ Half' = 1
    BY <1>3 DEF Half
  <2>2. \A k \in 1..n - 1 :
          Content(mail[Nth(index_pop, k)])' = Content(mail[Nth(index_pop, k)])
    BY <1>5, <1>6, <1>7 DEF Content, Nth
  <2> QED BY <2>1, <2>2 DEF Queue
<1> QED BY <1>2, <1>6, <1>8, <1>9, <1>10

\* index_push++ reads it, then writes it.
LEMMA CountStep ==
  ASSUME ~torn', RInv, NEW n \in 0..Size, Ring(n), NEW c \in Clients,
         LoadPush(c) \/ StorePush(c)
  PROVE  /\ OneSender' /\ Served' /\ Ring(n)' /\ Queue(n)' = Queue(n)
         /\ UNCHANGED <<posted, served>>
<1> USE MailboxAssumption DEF RInv, TInv, TypeOK, daemon
<1> DEFINE w == IF pc[c] = "load" THEN "store" ELSE "wrap"
<1>1. Sender(c) /\ pc[c] \in {"load", "store"} /\ pc' = [pc EXCEPT ![c] = w]
  BY RunsAlone DEF LoadPush, StorePush, At
<1>2. OneSender'
  BY <1>1, SenderKept
<1>3. /\ \A d \in Clients \ {c} : ~Writing(d) /\ ~Writing(d)' /\ pc'[d] # "type"
      /\ Writing(c) /\ Writing(c)' /\ pc'[c] = w
  BY <1>1 DEF Sender, Writing
<1>4. n > 0 /\ index_push = Nth(index_pop, n) /\ (pc[c] = "store" => reg[c] = index_push)
  BY <1>1, <1>3 DEF Ring
<1>5. /\ UNCHANGED <<mail, index_pop, serving, sent, box, posted, served>>
      /\ pc[c] = "load" => index_push' = index_push /\ reg'[c] = index_push
      /\ pc[c] = "store" => index_push' = index_push + 1
  BY <1>1, <1>4 DEF LoadPush, StorePush, At
<1>6. Ring(n)'
  <2>1. UNCHANGED <<Segment(index_pop, n), Nth(index_pop, n), Request(c)>>
    BY <1>5 DEF Segment, Nth, Request
  <2>2. \A i \in 0..Size - 1 : mail'[i].letter_type <=> i \in Segment(index_pop, n)'
    BY <1>5, <2>1 DEF Ring
  <2>3. /\ mail'[Nth(index_pop, n)].from = Request(c)
        /\ box # "pm" => mail'[Nth(index_pop, n)].msg = Request(c)
        /\ serving # <<>> => n > 1
    BY <1>1, <1>3, <1>5 DEF Ring
  <2>4. index_push' = IF w = "wrap" THEN Nth(index_pop, n) + 1 ELSE Nth(index_pop, n)
    BY <1>1, <1>4, <1>5
  <2>5. w = "store" => reg'[c] = index_push'
    BY <1>1, <1>5
  <2>6. w # "type"
    OBVIOUS
  <2> HIDE DEF w
  <2> QED BY ONLY <1>3, <1>4, <1>5, <2>1, <2>2, <2>3, <2>4, <2>5, <2>6, SMT DEF Ring
<1>7. Served'
  BY <1>5 DEF Served, Content
<1>8. Queue(n)' = Queue(n)
  <2>1. Half = 1 /\ Half' = 1
    BY <1>3 DEF Half
  <2> QED BY <1>5, <2>1 DEF Queue, Content, Nth
<1> QED BY <1>2, <1>5, <1>6, <1>7, <1>8

\* The letter is complete: index_push is back in the array, behind it.
LEMMA WrapStep ==
  ASSUME ~torn', RInv, NEW n \in 0..Size, Ring(n), NEW c \in Clients, Wrap(c)
  PROVE  /\ OneSender' /\ Served' /\ Ring(n)' /\ Len(Queue(n)) < Size
         /\ Request(c) \in Requests
         /\ Queue(n)' = Append(Queue(n), Request(c))
         /\ posted' = Append(posted, Request(c)) /\ UNCHANGED served
<1> USE MailboxAssumption DEF RInv, TInv, TypeOK, daemon
<1>1. Sender(c) /\ pc[c] = "wrap" /\ pc' = [pc EXCEPT ![c] = AfterPosting]
  BY RunsAlone DEF Wrap, At
<1>2. OneSender'
  BY <1>1, SenderKept
<1>3. /\ \A d \in Clients : ~Writing(d)' /\ pc'[d] # "type"
      /\ \A d \in Clients \ {c} : ~Writing(d)
      /\ Writing(c)
  BY <1>1 DEF Sender, Writing, AfterPosting
<1>4. /\ n > 0 /\ index_push = Nth(index_pop, n) + 1
      /\ mail[Nth(index_pop, n)].from = Request(c)
      /\ box # "pm" => mail[Nth(index_pop, n)].msg = Request(c)
  BY <1>1, <1>3 DEF Ring
<1>5. /\ UNCHANGED <<mail, index_pop, serving, sent, box, served>>
      /\ index_push' = IF index_push = Size THEN 0 ELSE index_push
      /\ posted' = Append(posted, Request(c))
  BY DEF Wrap, At
<1>6. Ring(n)'
  <2>1. UNCHANGED <<Segment(index_pop, n), Nth(index_pop, n + 1)>>
    BY <1>5 DEF Segment, Nth
  <2>2. \A i \in 0..Size - 1 : mail'[i].letter_type <=> i \in Segment(index_pop, n)'
    BY <1>5, <2>1 DEF Ring
  <2>3. index_push' = Nth(index_pop, n + 1)
    <3>1. index_pop \in 0..Size - 1 /\ n \in 1..Size
      BY <1>4
    <3>2. /\ index_push = Nth(index_pop, n) + 1
          /\ index_push' = IF index_push = Size THEN 0 ELSE index_push
      BY <1>4, <1>5
    <3>3. Size \in Nat \ {0}
      BY MailboxAssumption
    <3> QED BY ONLY <3>1, <3>2, <3>3, SMT DEF Nth
  <2> QED BY ONLY <1>3, <2>1, <2>2, <2>3, SMT DEF Ring
<1>7. Served'
  BY <1>5 DEF Served, Content
<1>8. Half = 1 /\ Half' = 0
  BY <1>3 DEF Half
<1>9. Queue(n)' = [k \in 1..n |-> Content(mail[Nth(index_pop, k)])]
  BY <1>5, <1>8 DEF Queue, Content, Nth
<1>10. Content(mail[Nth(index_pop, n)]) = Request(c)
  BY <1>4 DEF Content
<1>11. Len(Queue(n)) = n - 1
  BY <1>4, <1>8 DEF Queue
<1>12. Queue(n)' = Append(Queue(n), Request(c))
  BY <1>4, <1>8, <1>9, <1>10 DEF Queue
<1> QED BY <1>1, <1>2, <1>5, <1>6, <1>7, <1>11, <1>12, RequestType

\* The daemon may take up a letter in the middle of a send_msg, if it is not the
\* one that is being written.
LEMMA StartStep ==
  ASSUME ~torn', RInv, NEW n \in 0..Size, Ring(n), StartService
  PROVE  /\ OneSender' /\ Served' /\ Ring(n)' /\ Queue(n)' = Queue(n)
         /\ UNCHANGED <<posted, served>>
<1> USE DEF client
<1>1. /\ UNCHANGED <<box, mail, index_push, pc, sent, reg, index_pop, posted, served>>
      /\ mail[index_pop].letter_type /\ serving' = <<Content(mail[index_pop])>>
      /\ Letters # <<>>
  BY DEF StartService
<1>2. OneSender'
  BY <1>1 DEF RInv, OneSender, Sending
<1>3. Served'
  BY <1>1 DEF Served, Content
<1>4. ASSUME NEW c \in Clients, Writing(c) PROVE n > 1
  <2>1. Queue(n) # <<>> /\ Half = 1
    BY <1>1, <1>4, LettersAre DEF RingIsQueue, RInv, TInv, Half
  <2>2. CASE n - 1 < 1
    <3>1. 1..n - 1 = {}
      BY <2>2
    <3> QED BY <2>1, <3>1 DEF Queue
  <2> QED BY <2>2
<1>5. Ring(n)'
  BY <1>1, <1>4 DEF Ring, Segment, Nth, Writing, Request
<1>6. Queue(n)' = Queue(n)
  BY <1>1 DEF Queue, Content, Nth, Half, Writing
<1> QED BY <1>1, <1>2, <1>3, <1>5, <1>6

\* The daemon clears the first slot and steps to the next.
LEMMA FinishStep ==
  ASSUME RInv, NEW n \in 0..Size, Ring(n), FinishService
  PROVE  /\ OneSender' /\ Served' /\ n > 0 /\ Ring(n - 1)'
         /\ Queue(n) # <<>> /\ Queue(n - 1)' = Tail(Queue(n))
         /\ served' = Append(served, Queue(n)[1]) /\ UNCHANGED posted
<1>1. /\ index_pop \in 0..Size - 1 /\ mail \in [0..Size - 1 -> Slot]
      /\ serving # <<>> /\ mail[index_pop].letter_type
      /\ serving = <<Content(mail[index_pop])>>
  BY DEF FinishService, Served, RInv, TInv, TypeOK
<1>2. n \in 1..Size
  BY <1>1, MailboxAssumption DEF Ring, Segment
<1>3. /\ NextPop(index_pop) \in 0..Size - 1
      /\ Segment(NextPop(index_pop), n - 1) = Segment(index_pop, n) \ {index_pop}
      /\ \A k \in 1..Size : Nth(NextPop(index_pop), k) = Nth(index_pop, k + 1)
  BY <1>1, <1>2, SegmentShrinks
<1>4. /\ UNCHANGED <<box, index_push, pc, sent, reg, posted>>
      /\ mail' = [mail EXCEPT ![index_pop].letter_type = FALSE]
      /\ index_pop' = NextPop(index_pop) /\ serving' = <<>>
      /\ served' = Append(served, Content(mail[index_pop]))
  BY <1>1 DEF FinishService, Cleared, client
<1>5. /\ \A c \in Clients : UNCHANGED <<Writing(c), Request(c), pc[c], reg[c]>>
      /\ Half' = Half /\ Half \in {0, 1} /\ (Half = 1 => n > 1)
  <2>1. \A c \in Clients : UNCHANGED <<Writing(c), Request(c), pc[c], reg[c]>>
    BY <1>4 DEF Writing, Request
  <2>2. Half' = Half
    BY <2>1 DEF Half
  <2>3. \A c \in Clients : Writing(c) => n > 1
    BY <1>1 DEF Ring
  <2> QED BY <2>1, <2>2, <2>3 DEF Half
<1>6. OneSender' /\ Served'
  <2>1. Sending' = Sending
    BY <1>4 DEF Sending
  <2> QED BY <1>4, <2>1 DEF RInv, OneSender, Served
<1>7. /\ \A j \in 0..Size - 1 :
           mail'[j].letter_type = IF j = index_pop THEN FALSE ELSE mail[j].letter_type
      /\ \A j \in 0..Size - 1 : mail'[j].from = mail[j].from /\ mail'[j].msg = mail[j].msg
  BY <1>1, <1>4, SlotWithType, SMT
<1>8. Ring(n - 1)'
  <2>1. Segment(index_pop, n - 1)' = Segment(index_pop, n) \ {index_pop}
    BY <1>3, <1>4 DEF Segment
  <2>2. \A i \in 0..Size - 1 : mail'[i].letter_type <=> i \in Segment(index_pop, n - 1)'
    BY <1>7, <2>1 DEF Ring
  <2>3. (\A c \in Clients : ~Writing(c)') => index_push' = Nth(index_pop, n - 1 + 1)'
    <3>1. (\A c \in Clients : ~Writing(c)) => index_push = Nth(index_pop, n + 1)
      BY DEF Ring
    <3>2. Nth(index_pop, n - 1 + 1)' = Nth(NextPop(index_pop), n)
      BY <1>2, <1>4 DEF Nth
    <3> QED BY <1>2, <1>3, <1>4, <1>5, <3>1, <3>2
  <2>4. \A c \in Clients : pc'[c] = "type" => n - 1 < Size
    BY <1>2, MailboxAssumption
  <2>5. ASSUME NEW c \in Clients, Writing(c)'
        PROVE  /\ n - 1 > 0
               /\ index_push' = IF pc'[c] = "wrap" THEN Nth(index_pop, n - 1)' + 1
                                                 ELSE Nth(index_pop, n - 1)'
               /\ pc'[c] = "store" => reg'[c] = index_push'
               /\ pc'[c] # "from" => mail'[Nth(index_pop, n - 1)'].from = Request(c)'
               /\ pc'[c] \in {"load", "store", "wrap"} /\ box' # "pm"
                    => mail'[Nth(index_pop, n - 1)'].msg = Request(c)'
               /\ serving' # <<>> => n - 1 > 1
    <3>1. Writing(c) /\ n > 1
      BY <1>1, <1>5, <2>5 DEF Ring
    <3>2. Nth(index_pop, n - 1)' = Nth(index_pop, n) /\ Nth(index_pop, n) \in 0..Size - 1
      <4>1. Nth(index_pop, n - 1)' = Nth(NextPop(index_pop), n - 1)
        BY <1>4 DEF Nth
      <4>2. n - 1 \in 1..Size /\ n - 1 + 1 = n
        BY <1>2, <3>1, MailboxAssumption
      <4> QED BY <1>1, <1>2, <1>3, <4>1, <4>2, NthIsModulo
    <3>3. /\ index_push = IF pc[c] = "wrap" THEN Nth(index_pop, n) + 1 ELSE Nth(index_pop, n)
          /\ pc[c] = "store" => reg[c] = index_push
          /\ pc[c] # "from" => mail[Nth(index_pop, n)].from = Request(c)
          /\ pc[c] \in {"load", "store", "wrap"} /\ box # "pm"
               => mail[Nth(index_pop, n)].msg = Request(c)
      BY <3>1 DEF Ring
    <3> QED BY <1>2, <1>4, <1>5, <1>7, <3>1, <3>2, <3>3
  <2> QED BY <2>2, <2>3, <2>4, <2>5 DEF Ring
<1>9. Queue(n) = [k \in 1..n - Half |-> Content(mail[Nth(index_pop, k)])]
  BY DEF Queue
<1> DEFINE h == Half
<1>10. Queue(n - 1)' = [k \in 1..n - 1 - h |-> Content(mail[Nth(index_pop, k + 1)])]
  <2>1. Half' = h
    BY <1>5
  <2>2. \A k \in 1..n - 1 - h : /\ Nth(index_pop, k)' = Nth(index_pop, k + 1)
                            /\ Nth(index_pop, k + 1) \in 0..Size - 1
    <3>1. \A k \in 1..n - 1 - h : Nth(index_pop, k)' = Nth(NextPop(index_pop), k)
      BY <1>4 DEF Nth
    <3>2. \A k \in 1..n - 1 - h : k \in 1..Size /\ k + 1 \in 1..Size
      <4>1. h \in {0, 1}
        BY <1>5
      <4> HIDE DEF h
      <4> QED BY <1>2, <4>1, MailboxAssumption
    <3> QED BY <1>1, <1>3, <3>1, <3>2, NthIsModulo
  <2>3. \A k \in 1..n - 1 - h :
          Content(mail[Nth(index_pop, k)])' = Content(mail[Nth(index_pop, k + 1)])
    BY <1>4, <1>7, <2>2 DEF Content
  <2> QED BY <2>1, <2>3 DEF Queue
<1>11. Queue(n) # <<>> /\ Tail(Queue(n)) = Queue(n - 1)'
  <2>1. h \in {0, 1} /\ n - h > 0 /\ n - 1 - h = n - h - 1 /\ n - h \in Nat
    BY <1>2, <1>5
  <2> HIDE DEF h
  <2> QED BY <1>2, <1>9, <1>10, <2>1 DEF h
<1>12. Queue(n)[1] = Content(mail[index_pop])
  <2>1. 1 \in 1..n - Half /\ Nth(index_pop, 1) = index_pop
    BY <1>1, <1>2, <1>5, MailboxAssumption DEF Nth
  <2> QED BY ONLY <1>9, <2>1
<1> QED BY <1>2, <1>4, <1>6, <1>8, <1>11, <1>12

-----------------------------------------------------------------------------
(* The mailbox is a bounded queue until a tick breaks a send_msg.          *)

LEMMA RInvInit == Init => RInv /\ Ring(0) /\ Queue(0) = <<>>
<1> SUFFICES ASSUME Init PROVE RInv /\ Ring(0) /\ Queue(0) = <<>>
  OBVIOUS
<1> USE MailboxAssumption
<1>1. TInv
  BY TInvInit
<1>2. \A c \in Clients : pc[c] = "idle"
  BY DEF Init
<1>3. OneSender /\ Served
  BY <1>2 DEF Init, OneSender, Sending, Served
<1>4. Ring(0)
  BY <1>2 DEF Init, Ring, Segment, Nth, Writing
<1>5. Queue(0) = <<>>
  <2>1. Half = 0 /\ 1..0 - 0 = {}
    BY <1>2 DEF Half, Writing
  <2> QED BY <2>1 DEF Queue
<1> QED BY <1>1, <1>3, <1>4, <1>5 DEF RInv

\* What a step does to the ring: a letter is put behind the last one, the first
\* one is taken, or nothing changes for the queue.
RingStep(n, m) ==
  \/ Queue(m)' = Queue(n) /\ UNCHANGED <<posted, served>>
  \/ \E c \in Clients :
       /\ Len(Queue(n)) < Size /\ Request(c) \in Requests
       /\ Queue(m)' = Append(Queue(n), Request(c))
       /\ posted' = Append(posted, Request(c)) /\ UNCHANGED served
  \/ /\ Queue(n) # <<>> /\ Queue(m)' = Tail(Queue(n))
     /\ served' = Append(served, Queue(n)[1]) /\ UNCHANGED posted

LEMMA RInvStep ==
  ASSUME ~torn', RInv, [Next]_vars, NEW n \in 0..Size, Ring(n)
  PROVE  RInv' /\ \E m \in 0..Size : Ring(m)' /\ RingStep(n, m)
<1>1. TInv'
  BY TInvStep DEF RInv
<1>2. SUFFICES OneSender' /\ Served' /\ \E m \in 0..Size : Ring(m)' /\ RingStep(n, m)
  BY <1>1 DEF RInv
<1>3. CASE UNCHANGED vars
  <2> USE <1>3 DEF vars, client, daemon
  <2>1. OneSender' /\ Served'
    BY DEF RInv, OneSender, Sending, Served, Content
  <2>2. Ring(n)' /\ Queue(n)' = Queue(n)
    BY DEF Ring, Queue, Half, Writing, Content, Nth, Segment, Request
  <2> QED BY <2>1, <2>2 DEF RingStep
<1>4. ASSUME NEW c \in Clients, Client(c)
      PROVE  OneSender' /\ Served' /\ \E m \in 0..Size : Ring(m)' /\ RingStep(n, m)
  <2>1. CASE NewRequest(c) \/ Retry(c) \/ Return(c)
    BY <2>1, OutsideStep DEF RingStep
  <2>6. CASE Check(c)
    BY <2>6, CheckStep DEF RingStep
  <2>2. CASE SetType(c)
    <3>1. n + 1 \in 0..Size
      BY <2>2, SetTypeStep, MailboxAssumption
    <3> QED BY <2>2, <3>1, SetTypeStep DEF RingStep
  <2>3. CASE SetFrom(c) \/ SetMsg(c)
    BY <2>3, WriteStep DEF RingStep
  <2>4. CASE LoadPush(c) \/ StorePush(c)
    BY <2>4, CountStep DEF RingStep
  <2>5. CASE Wrap(c)
    BY <2>5, WrapStep DEF RingStep
  <2> QED BY <1>4, <2>1, <2>2, <2>3, <2>4, <2>5, <2>6 DEF Client
<1>5. CASE StartService
  BY <1>5, StartStep DEF RingStep
<1>6. CASE FinishService
  <2>1. n - 1 \in 0..Size
    BY <1>6, FinishStep, MailboxAssumption
  <2> QED BY <1>6, <2>1, FinishStep DEF RingStep
<1> QED BY <1>3, <1>4, <1>5, <1>6 DEF Next, Daemon

LEMMA TornStays == [Next]_vars /\ torn => torn'
BY DEF Next, vars, Daemon, StartService, FinishService, Client, NewRequest, Check, Retry,
       SetType, SetFrom, SetMsg, LoadPush, StorePush, Wrap, Return, Overlaps

RInvUntorn == ~torn => RInv

LEMMA RInvInvariant == Spec => []RInvUntorn
<1>1. Init => RInvUntorn
  BY RInvInit DEF RInvUntorn
<1>2. RInvUntorn /\ [Next]_vars => RInvUntorn'
  <2> SUFFICES ASSUME RInvUntorn, [Next]_vars, ~torn' PROVE RInv'
    BY DEF RInvUntorn
  <2>1. RInv
    BY TornStays DEF RInvUntorn
  <2> QED BY <2>1, RInvStep DEF RInv
<1> QED BY <1>1, <1>2, PTL DEF Spec

\* A step of the mailbox is a step of the queue, or changes nothing in it.
LEMMA QueueStep ==
  RInvUntorn /\ [Next]_vars => [~torn' => LB!Next]_Letters
<1> SUFFICES ASSUME RInvUntorn, [Next]_vars, ~torn' PROVE [LB!Next]_Letters
  OBVIOUS
<1>0. RInv
  BY TornStays DEF RInvUntorn
<1>1. PICK n \in 0..Size : Ring(n)
  BY <1>0 DEF RInv
<1>2. PICK m \in 0..Size : RInv' /\ Ring(m)' /\ RingStep(n, m)
  BY <1>0, <1>1, RInvStep
<1>3. Letters = Queue(n)
  BY <1>0, <1>1, LettersAre DEF RInv, TInv, RingIsQueue
<1>4. Letters' = Queue(m)'
  BY <1>2, LettersAreNext DEF RInv, TInv, RingIsQueue
<1> QED BY <1>2, <1>3, <1>4 DEF RingStep, LB!Next, LB!Put, LB!Take

\* The mailbox of ipc.c, its flags and its two indices, implements a bounded
\* first-in first-out queue of mail_size letters, for every number of clients and
\* of letters, wherever the ticks come: until one lets another caller into send_msg
\* before it is over, or lets the daemon take up the letter half-written.  (A tick
\* that does neither, and the daemon working on earlier letters meanwhile, are
\* harmless.)
THEOREM MailboxIsQueue == Spec => BoundedQueue
<1>1. Init => Letters = <<>>
  BY RInvInit, LettersAre, MailboxAssumption DEF RInv, TInv, RingIsQueue
<1>2. Init => LB!Init
  BY <1>1 DEF LB!Init
<1> QED BY <1>2, QueueStep, RInvInvariant, PTL DEF Spec, BoundedQueue, LB!Spec

\* Only a send_msg that meets a full slot leaves "check" for anything but "type".
LEMMA RefusalStep ==
  ASSUME ~torn', RInv, [Next]_vars, NEW c \in Clients,
         pc[c] = "check", pc'[c] \notin {"check", "type"}
  PROVE  \A i \in 0..Size - 1 : mail[i].letter_type
<1>1. Check(c) /\ Refused
  BY DEF RInv, TInv, TypeOK, Next, vars, client, Daemon, StartService, FinishService, Client,
         NewRequest, Check, Retry, SetType, SetFrom, SetMsg, LoadPush, StorePush, Wrap, Return, At
<1>2. PICK n \in 0..Size : Ring(n)
  BY DEF RInv
<1>3. \A d \in Clients : ~Writing(d)
  BY <1>1, RunsAlone DEF Check, At, Sender, Writing
<1>4. index_push = Nth(index_pop, n + 1) /\ index_push \in 0..Size - 1
  <2>1. index_push \in 0..Size - 1
    BY <1>1, MailboxAssumption DEF Check, InArray, RInv, TInv, TypeOK
  <2>2. index_push = Nth(index_pop, n + 1)
    BY <1>2, <1>3 DEF Ring
  <2> QED BY <2>1, <2>2
<1>5. index_push \in Segment(index_pop, n)
  BY <1>1, <1>2, <1>4 DEF Refused, Ring
<1>6. index_pop \in 0..Size - 1
  BY DEF RInv, TInv, TypeOK
<1>7. n = Size
  BY <1>4, <1>5, <1>6, MailboxAssumption DEF Nth, Segment
<1> QED BY <1>2, <1>6, <1>7, MailboxAssumption DEF Ring, Segment

\* A letter is refused only when every slot of the mailbox is full, as the message
\* says, wherever the ticks come, until one breaks a send_msg.
THEOREM RefusedWhenFull == Spec => FullMeansFull
<1>1. RInvUntorn /\ [Next]_vars =>
        [\A c \in Clients :
           ~torn' /\ pc[c] = "check" /\ pc'[c] \notin {"check", "type"}
           => \A i \in 0..Size - 1 : mail[i].letter_type]_vars
  <2> SUFFICES ASSUME RInvUntorn, [Next]_vars, NEW c \in Clients,
                      ~torn', pc[c] = "check", pc'[c] \notin {"check", "type"}
               PROVE  \A i \in 0..Size - 1 : mail[i].letter_type
    OBVIOUS
  <2>1. RInv
    BY TornStays DEF RInvUntorn
  <2> QED BY <2>1, RefusalStep
<1> QED BY <1>1, RInvInvariant, PTL DEF Spec, FullMeansFull

-----------------------------------------------------------------------------
(* The order of the letters.                                               *)

\* A client has posted each of its earlier letters at most once, and the latest
\* one only when it is out of send_msg.
PostedOnce ==
  /\ \A i, j \in 1..Len(posted) : posted[i] = posted[j] => i = j
  /\ \A i \in 1..Len(posted), c \in Clients :
       posted[i][1] = c => /\ posted[i][2] <= sent[c]
                           /\ posted[i][2] = sent[c] => pc[c] \in {"idle", "wait"}

\* What was posted is what was served, followed by what is in the mailbox.
History == \E n \in 0..Size : Ring(n) /\ posted = served \o Queue(n)

\* The inductive invariant.
FInv == TInv /\ PostedOnce /\ (~torn => RInv /\ History)

LEMMA MoveHead ==
  ASSUME NEW S, NEW s \in Seq(S), NEW q \in Seq(S), q # <<>>
  PROVE  Append(s, q[1]) \o Tail(q) = s \o q
OBVIOUS

LEMMA AppendBehind ==
  ASSUME NEW S, NEW s \in Seq(S), NEW q \in Seq(S), NEW x \in S
  PROVE  s \o Append(q, x) = Append(s \o q, x)
OBVIOUS

LEMMA QueueType ==
  ASSUME TypeOK, NEW n \in 0..Size
  PROVE  Queue(n) \in Seq(Requests \cup {None})
<1> DEFINE e(k) == Content(mail[Nth(index_pop, k)])
<1>1. n - Half \in Nat \/ n - Half = -1
  BY MailboxAssumption DEF Half
<1>2. \A k \in 1..n - Half : e(k) \in Requests \cup {None}
  <2>1. index_pop \in 0..Size - 1 /\ mail \in [0..Size - 1 -> Slot]
    BY DEF TypeOK
  <2>2. \A k \in 1..n - Half : k \in 1..Size
    BY MailboxAssumption DEF Half
  <2>3. \A k \in 1..n - Half : mail[Nth(index_pop, k)] \in Slot
    BY <2>1, <2>2, NthIsModulo
  <2> QED BY <2>3, ContentType
<1> HIDE DEF e
<1>3. CASE n - Half \in Nat
  <2>1. [k \in 1..n - Half |-> e(k)] \in Seq(Requests \cup {None})
    BY <1>2, <1>3, IsASeq
  <2> QED BY <2>1 DEF Queue, e
<1>4. CASE n - Half = -1
  BY <1>4 DEF Queue
<1> QED BY <1>1, <1>3, <1>4

LEMMA PostedOnceStep ==
  ASSUME TInv, PostedOnce, [Next]_vars PROVE PostedOnce'
<1> USE DEF PostedOnce
<1>1. posted \in Seq(Requests) /\ sent \in [Clients -> 0..MaxSends]
  BY DEF TInv, TypeOK
<1>2. ASSUME UNCHANGED posted, \A c \in Clients : sent'[c] = sent[c],
             \A c \in Clients : pc[c] \in {"idle", "wait"} => pc'[c] \in {"idle", "wait"}
      PROVE  PostedOnce'
  BY <1>2
<1>3. CASE UNCHANGED vars \/ Daemon
  BY <1>2, <1>3 DEF vars, client, Daemon, StartService, FinishService
<1>4. ASSUME NEW c \in Clients, Client(c) PROVE PostedOnce'
  <2> USE DEF At
  <2>1. pc \in [Clients -> {"idle", "check", "full", "type", "from", "msg", "load",
                           "store", "wrap", "wait"}]
    BY DEF TInv, TypeOK
  <2>2. CASE NewRequest(c)
    <3>1. /\ UNCHANGED posted /\ sent'[c] = sent[c] + 1 /\ pc[c] = "idle"
          /\ \A d \in Clients \ {c} : sent'[d] = sent[d] /\ pc'[d] = pc[d]
      BY <1>1, <2>1, <2>2 DEF NewRequest
    <3>2. \A i \in 1..Len(posted) : posted[i] \in Requests
      BY <1>1, ElementOfSeq
    <3>3. \A i \in 1..Len(posted) : posted[i][2] \in Nat
      BY <3>2, MailboxAssumption DEF Requests
    <3>4. sent[c] \in Nat
      BY <1>1, MailboxAssumption
    <3> QED BY ONLY PostedOnce, <3>1, <3>3, <3>4 DEF PostedOnce
  <2>3. CASE Wrap(c)
    <3>1. /\ posted' = Append(posted, Request(c)) /\ sent' = sent /\ pc[c] = "wrap"
          /\ pc'[c] \in {"idle", "wait"}
          /\ \A d \in Clients \ {c} : pc'[d] = pc[d]
      BY <2>1, <2>3 DEF Wrap, AfterPosting
    <3>2. Request(c) \in Requests
      BY <3>1, RequestType
    <3>3. \A i \in 1..Len(posted) : posted[i] # Request(c)
      BY <3>1 DEF Request
    <3>4. /\ Len(posted) \in Nat
          /\ Len(posted') = Len(posted) + 1 /\ posted'[Len(posted) + 1] = <<c, sent[c]>>
          /\ \A i \in 1..Len(posted) : posted'[i] = posted[i]
      BY <1>1, <3>1, <3>2, AppendSeq, LenProperties DEF Request
    <3>5. sent[c] \in Nat
      BY <1>1, MailboxAssumption
    <3>6. \A i \in 1..Len(posted') : i \in 1..Len(posted) \/ i = Len(posted) + 1
      BY <3>4
    <3>7. \A i, j \in 1..Len(posted') : posted'[i] = posted'[j] => i = j
      <4> SUFFICES ASSUME NEW i \in 1..Len(posted'), NEW j \in 1..Len(posted'),
                          posted'[i] = posted'[j]
                   PROVE  i = j
        OBVIOUS
      <4>1. posted'[Len(posted) + 1] = Request(c)
        BY <3>4 DEF Request
      <4> QED BY ONLY PostedOnce, <3>3, <3>4, <3>6, <4>1, posted'[i] = posted'[j],
                      i \in 1..Len(posted'), j \in 1..Len(posted') DEF PostedOnce
    <3>8. ASSUME NEW i \in 1..Len(posted'), NEW d \in Clients, posted'[i][1] = d
          PROVE  posted'[i][2] <= sent[d] /\ (posted'[i][2] = sent[d] => pc'[d] \in {"idle", "wait"})
      <4>1. CASE i = Len(posted) + 1
        BY ONLY <3>1, <3>4, <3>5, <3>8, <4>1
      <4>2. CASE i \in 1..Len(posted)
        BY ONLY PostedOnce, <3>1, <3>4, <3>8, <4>2 DEF PostedOnce
      <4> QED BY <3>6, <4>1, <4>2
    <3> QED BY <3>1, <3>7, <3>8
  <2>4. CASE ~NewRequest(c) /\ ~Wrap(c)
    <3>1. UNCHANGED <<posted, sent>>
      BY <1>4, <2>4 DEF Client, Check, Retry, SetType, SetFrom, SetMsg, LoadPush, StorePush, Return
    <3>2. \A d \in Clients : pc[d] \in {"idle", "wait"} => pc'[d] \in {"idle", "wait"}
      BY <1>4, <2>1, <2>4
         DEF Client, Check, Retry, SetType, SetFrom, SetMsg, LoadPush, StorePush, Return
    <3> QED BY <1>2, <3>1, <3>2
  <2> QED BY <2>2, <2>3, <2>4
<1> QED BY <1>3, <1>4 DEF Next

LEMMA HistoryStep ==
  ASSUME ~torn', RInv, History, [Next]_vars PROVE RInv' /\ History'
<1>1. PICK n \in 0..Size : Ring(n) /\ posted = served \o Queue(n)
  BY DEF History
<1>2. PICK m \in 0..Size : RInv' /\ Ring(m)' /\ RingStep(n, m)
  BY <1>1, RInvStep
<1> DEFINE T == Requests \cup {None}
<1>3. served \in Seq(T) /\ Queue(n) \in Seq(T)
  BY QueueType DEF RInv, TInv, TypeOK
<1> HIDE DEF T
<1>4. posted' = served' \o Queue(m)'
  <2>1. CASE Queue(m)' = Queue(n) /\ UNCHANGED <<posted, served>>
    BY <1>1, <2>1
  <2>2. ASSUME NEW c \in Clients, Request(c) \in Requests,
               Queue(m)' = Append(Queue(n), Request(c)),
               posted' = Append(posted, Request(c)), UNCHANGED served
        PROVE  posted' = served' \o Queue(m)'
    <3>1. Request(c) \in T
      BY <2>2 DEF T
    <3>2. served \o Append(Queue(n), Request(c)) = Append(served \o Queue(n), Request(c))
      BY <1>3, <3>1, AppendBehind
    <3> QED BY ONLY <1>1, <2>2, <3>2
  <2>3. CASE /\ Queue(n) # <<>> /\ Queue(m)' = Tail(Queue(n))
             /\ served' = Append(served, Queue(n)[1]) /\ UNCHANGED posted
    BY <1>1, <1>3, <2>3, MoveHead
  <2> QED BY <1>2, <2>1, <2>2, <2>3 DEF RingStep
<1> QED BY <1>2, <1>4 DEF History

LEMMA PrefixOf ==
  ASSUME NEW S, NEW s \in Seq(S), NEW q \in Seq(S)
  PROVE  Len(s) <= Len(s \o q) /\ \A i \in 1..Len(s) : (s \o q)[i] = s[i]
OBVIOUS

\* The daemon handles every letter once, in the order in which they were sent, as
\* the comment on its loop says, wherever the ticks come, until one breaks a
\* send_msg.  (The run mail_fifo shows the second way to break it.)
THEOREM LettersInOrder == Spec => [](~torn => Fifo)
<1>1. Init => FInv
  <2>1. Init => posted = <<>> /\ served = <<>>
    BY DEF Init
  <2>2. Init => Queue(0) = <<>> /\ Ring(0) /\ RInv /\ 0 \in 0..Size
    BY RInvInit, MailboxAssumption
  <2>3. <<>> = <<>> \o <<>>
    OBVIOUS
  <2> QED BY <2>1, <2>2, <2>3, TInvInit DEF FInv, PostedOnce, History
<1>2. FInv /\ [Next]_vars => FInv'
  <2> SUFFICES ASSUME FInv, [Next]_vars PROVE FInv'
    OBVIOUS
  <2>1. TInv' /\ PostedOnce'
    BY TInvStep, PostedOnceStep DEF FInv
  <2>2. ASSUME ~torn' PROVE RInv' /\ History'
    <3>1. RInv /\ History
      BY <2>2, TornStays DEF FInv
    <3> QED BY <2>2, <3>1, HistoryStep
  <2> QED BY <2>1, <2>2 DEF FInv
<1>3. FInv => (~torn => Fifo)
  <2> SUFFICES ASSUME FInv, ~torn PROVE Fifo
    OBVIOUS
  <2>1. PICK n \in 0..Size : posted = served \o Queue(n)
    BY DEF FInv, History
  <2>2. /\ posted \in Seq(Requests) /\ served \in Seq(Requests \cup {None})
        /\ Queue(n) \in Seq(Requests \cup {None})
    BY QueueType DEF FInv, RInv, TInv, TypeOK
  <2>3. Len(served) <= Len(posted) /\ \A i \in 1..Len(served) : posted[i] = served[i]
    BY <2>1, <2>2, PrefixOf
  <2>4. Len(served) \in Nat /\ Len(posted) \in Nat
    BY <2>2, LenProperties
  <2>5. \A i \in 1..Len(served) : i \in 1..Len(posted)
    BY <2>3, <2>4
  <2>6. \A i \in 1..Len(served) : served[i] \in Requests
    BY <2>2, <2>3, <2>5, ElementOfSeq
  <2>7. \A i \in 1..Len(served) : served[i] # None
    BY <2>6 DEF Requests, None
  <2>8. \A i, j \in 1..Len(posted) : posted[i] = posted[j] => i = j
    BY DEF FInv, PostedOnce
  <2> QED BY <2>3, <2>5, <2>7, <2>8 DEF Fifo
<1> QED BY <1>1, <1>2, <1>3, PTL DEF Spec
=============================================================================
