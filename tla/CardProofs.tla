----------------------------- MODULE CardProofs -----------------------------
(***************************************************************************)
(* Theorems about SDCard, for every card, request and number of failures.  *)
(***************************************************************************)
EXTENDS CardInvariant, WellFoundedInduction, TLAPS

-----------------------------------------------------------------------------
(* Lists of steps.                                                         *)

LEMMA LeastOf ==
  ASSUME NEW S \in SUBSET Nat, S # {}
  PROVE  \E x \in S : \A y \in S : x <= y
<1> DEFINE R == {ss \in Nat \X Nat : ss[1] < ss[2]}
<1>1. IsWellFoundedOn(R, Nat)  BY NatLessThanWellFounded DEF OpToRel
<1>2. PICK x \in S : \A y \in S : ~(<<y, x>> \in R)
  <2> HIDE DEF R
  <2> QED BY <1>1, WFMin
<1>3. ASSUME NEW y \in S PROVE x <= y
  <2>1. x \in Nat /\ y \in Nat  OBVIOUS
  <2>2. ~(<<y, x>>[1] < <<y, x>>[2])  BY <1>2, <2>1
  <2> QED BY <2>1, <2>2
<1> QED BY <1>3

LEMMA Two == ASSUME NEW x, NEW y PROVE <<x, y>> = <<x>> \o <<y>>
<1> DEFINE S == {x, y}
           t == <<x>> \o <<y>>
<1>1. <<x>> \in Seq(S) /\ <<y>> \in Seq(S) /\ <<x, y>> \in Seq(S)  OBVIOUS
<1>2. t \in Seq(S) /\ Len(t) = 2 /\ t[1] = x /\ t[2] = y  BY <1>1
<1> HIDE DEF t, S
<1>3. t = <<x, y>>  BY <1>1, <1>2
<1> QED  BY <1>3 DEF t

LEMMA One == ASSUME NEW R, NEW s \in AllSteps PROVE Runs(R, s, <<s>>, s)
<1>1. <<s>> \in Seq(AllSteps) /\ <<s>> # <<>> /\ Len(<<s>>) = 1 /\ <<s>>[1] = s  OBVIOUS
<1> QED  BY <1>1 DEF Runs, Linked

LEMMA Join ==
  ASSUME NEW R, NEW a, NEW b, NEW c, NEW d, NEW p, NEW q,
         Runs(R, a, p, b), Runs(R, c, q, d), <<b, c>> \in R
  PROVE  Runs(R, a, p \o q, d)
<1> DEFINE t == p \o q
<1>1. /\ p \in Seq(AllSteps) /\ q \in Seq(AllSteps) /\ Len(p) \in Nat \ {0} /\ Len(q) \in Nat \ {0}
      /\ p[1] = a /\ p[Len(p)] = b /\ q[1] = c /\ q[Len(q)] = d
  BY DEF Runs
<1>2. /\ t \in Seq(AllSteps) /\ Len(t) = Len(p) + Len(q)
      /\ \A i \in 1..Len(t) : t[i] = IF i <= Len(p) THEN p[i] ELSE q[i - Len(p)]
  BY <1>1
<1> HIDE DEF t
<1>3. t # <<>> /\ t[1] = a /\ t[Len(t)] = d
  <2>1. Len(t) \in Nat /\ Len(t) > Len(p) /\ 1 \in 1..Len(t) /\ Len(t) \in 1..Len(t) /\ Len(t) - Len(p) = Len(q)
    BY <1>1, <1>2
  <2>2. t[1] = p[1] /\ t[Len(t)] = q[Len(q)]  BY <1>1, <1>2, <2>1, SMTT(30)
  <2>3. t # <<>>  BY <2>1
  <2> QED  BY <1>1, <2>2, <2>3
<1>4. ASSUME NEW i \in 1..Len(t) - 1 PROVE <<t[i], t[i + 1]>> \in R
  <2>1. i \in 1..Len(t) /\ i + 1 \in 1..Len(t) /\ i \in Nat /\ Len(t) \in Nat  BY <1>1, <1>2
  <2>2. CASE i < Len(p)
    <3>1. i \in 1..Len(p) - 1 /\ t[i] = p[i] /\ t[i + 1] = p[i + 1]
      BY <1>1, <1>2, <2>1, <2>2, SMTT(30)
    <3> QED  BY <3>1 DEF Runs, Linked
  <2>3. CASE i = Len(p)
    <3>1. t[i] = b /\ t[i + 1] = c  BY <1>1, <1>2, <2>1, <2>3
    <3> QED  BY <3>1
  <2>4. CASE i > Len(p)
    <3>1. /\ i - Len(p) \in 1..Len(q) - 1
          /\ t[i] = q[i - Len(p)] /\ t[i + 1] = q[(i - Len(p)) + 1]
      BY <1>1, <1>2, <2>1, <2>4
    <3> QED  BY <3>1 DEF Runs, Linked
  <2> QED  BY <1>1, <2>1, <2>2, <2>3, <2>4
<1>5. Runs(R, a, t, d)  BY <1>2, <1>3, <1>4 DEF Runs, Linked
<1> QED  BY <1>5 DEF t

LEMMA Wider == ASSUME NEW R, NEW S, R \subseteq S, NEW a, NEW b, NEW p, Runs(R, a, p, b)
               PROVE  Runs(S, a, p, b)
  BY DEF Runs, Linked

LEMMA TwoFields ==
  ASSUME NEW do, NEW cmd, NEW arg
  PROVE  [Step(do) EXCEPT !.cmd = cmd, !.arg = arg]
         = [do |-> do, via |-> "SDCard", cmd |-> cmd, arg |-> arg]
<1> DEFINE s == Step(do)
           w == [s EXCEPT !.cmd = cmd, !.arg = arg]
<1>1. s = [do |-> do, via |-> "SDCard", cmd |-> "none", arg |-> 0]  BY DEF Step
<1> HIDE DEF s
<1>2. w = [x \in {"do", "via", "cmd", "arg"} |-> w[x]]  BY <1>1
<1>3. w.do = do /\ w.via = "SDCard" /\ w.cmd = cmd /\ w.arg = arg  BY <1>1
<1> HIDE DEF w
<1>4. w = [do |-> do, via |-> "SDCard", cmd |-> cmd, arg |-> arg]  BY <1>2, <1>3
<1> QED  BY <1>4 DEF w, s

LEMMA StepFields ==
  ASSUME NEW do, NEW cmd, NEW arg
  PROVE  /\ Wait(do, cmd, arg) = [do |-> do, via |-> "SDCard", cmd |-> cmd, arg |-> arg]
         /\ Sd(Wait(do, cmd, arg)) = [do |-> do, via |-> "sd", cmd |-> cmd, arg |-> arg]
         /\ Step(do) = [do |-> do, via |-> "SDCard", cmd |-> "none", arg |-> 0]
         /\ Sd(Step(do)) = [do |-> do, via |-> "sd", cmd |-> "none", arg |-> 0]
         /\ With(do, arg) = [do |-> do, via |-> "SDCard", cmd |-> "none", arg |-> arg]
         /\ Sd(With(do, arg)) = [do |-> do, via |-> "sd", cmd |-> "none", arg |-> arg]
         /\ CheckOf(cmd) = [do |-> "check", via |-> "SDCard", cmd |-> cmd, arg |-> 0]
<1>1. Step(do) = [do |-> do, via |-> "SDCard", cmd |-> "none", arg |-> 0]  BY DEF Step
<1>2. Step("check") = [do |-> "check", via |-> "SDCard", cmd |-> "none", arg |-> 0]  BY DEF Step
<1>3. Wait(do, cmd, arg) = [do |-> do, via |-> "SDCard", cmd |-> cmd, arg |-> arg]
  BY TwoFields DEF Wait
<1>4. With(do, arg) = [do |-> do, via |-> "SDCard", cmd |-> "none", arg |-> arg]  BY <1>1 DEF With
<1>5. CheckOf(cmd) = [do |-> "check", via |-> "SDCard", cmd |-> cmd, arg |-> 0]  BY <1>2 DEF CheckOf
<1>6. Sd(Wait(do, cmd, arg)) = [do |-> do, via |-> "sd", cmd |-> cmd, arg |-> arg]  BY <1>3 DEF Sd
<1>7. Sd(With(do, arg)) = [do |-> do, via |-> "sd", cmd |-> "none", arg |-> arg]  BY <1>4 DEF Sd
<1>8. Sd(Step(do)) = [do |-> do, via |-> "sd", cmd |-> "none", arg |-> 0]  BY <1>1 DEF Sd
<1> QED  BY <1>1, <1>3, <1>4, <1>5, <1>6, <1>7, <1>8

LEMMA StepTypes ==
  /\ \A do \in Waits, cmd \in Commands, arg \in Nat :
       Wait(do, cmd, arg) \in AllSteps /\ Sd(Wait(do, cmd, arg)) \in AllSteps
  /\ \A do \in Dos \ Waits, arg \in Nat :
       /\ Step(do) \in AllSteps /\ Sd(Step(do)) \in AllSteps
       /\ With(do, arg) \in AllSteps /\ Sd(With(do, arg)) \in AllSteps
  /\ \A cmd \in Commands \cup {"none"} : CheckOf(cmd) \in AllSteps
<1> USE StepFields
<1>1. ASSUME NEW do \in Waits, NEW cmd \in Commands, NEW arg \in Nat
      PROVE  Wait(do, cmd, arg) \in AllSteps /\ Sd(Wait(do, cmd, arg)) \in AllSteps
  BY DEF AllSteps, Dos
<1>2. ASSUME NEW do \in Dos \ Waits, NEW arg \in Nat
      PROVE  /\ Step(do) \in AllSteps /\ Sd(Step(do)) \in AllSteps
             /\ With(do, arg) \in AllSteps /\ Sd(With(do, arg)) \in AllSteps
  BY DEF AllSteps
<1>3. ASSUME NEW cmd \in Commands \cup {"none"} PROVE CheckOf(cmd) \in AllSteps
  BY DEF AllSteps, Dos, Looks, Waits
<1> QED  BY <1>1, <1>2, <1>3

LEMMA Commanding ==
  ASSUME NEW R, NEW cmd \in Commands, NEW arg \in Nat
  PROVE  /\ CommandLinks(cmd, arg) \subseteq R =>
              Runs(R, Wait("prepare", cmd, arg), Command(cmd, arg), Wait("await", cmd, arg))
         /\ SdLinks(cmd, arg) \subseteq R =>
              Runs(R, Sd(Wait("prepare", cmd, arg)), SdCmd(cmd, arg), CheckOf(cmd))
<1> DEFINE a == Wait("prepare", cmd, arg)
           b == Wait("issue", cmd, arg)
           d == Wait("await", cmd, arg)
           sd == [i \in 1..3 |-> Sd(Command(cmd, arg)[i])]
<1>1. /\ Command(cmd, arg) \in Seq(AllSteps) /\ Len(Command(cmd, arg)) = 3
      /\ Command(cmd, arg)[1] = a /\ Command(cmd, arg)[2] = b /\ Command(cmd, arg)[3] = d
  <2>1. Command(cmd, arg) = [i \in 1..3 |-> Wait(<<"prepare", "issue", "await">>[i], cmd, arg)]
    BY DEF Command, Wait
  <2>2. \A i \in 1..3 : <<"prepare", "issue", "await">>[i] \in Waits  BY DEF Waits
  <2>3. \A i \in 1..3 : Command(cmd, arg)[i] \in AllSteps  BY <2>1, <2>2, StepTypes
  <2> QED  BY <2>1, <2>3
<1>2. /\ sd \in Seq(AllSteps) /\ Len(sd) = 3 /\ sd[1] = Sd(a) /\ sd[2] = Sd(b) /\ sd[3] = Sd(d)
  <2>1. Sd(a) \in AllSteps /\ Sd(b) \in AllSteps /\ Sd(d) \in AllSteps  BY StepTypes DEF Waits
  <2>2. \A i \in 1..3 : sd[i] \in AllSteps  BY <1>1, <2>1
  <2> QED  BY <1>1, <2>2
<1>3. SdCmd(cmd, arg) = sd \o <<CheckOf(cmd)>>  BY DEF SdCmd, CheckOf
<1>4. ASSUME CommandLinks(cmd, arg) \subseteq R PROVE Runs(R, a, Command(cmd, arg), d)
  <2>1. <<a, b>> \in R /\ <<b, d>> \in R  BY <1>4 DEF CommandLinks
  <2> HIDE DEF a, b, d
  <2>2. \A i \in 1..2 : <<Command(cmd, arg)[i], Command(cmd, arg)[i + 1]>> \in R  BY <1>1, <2>1
  <2> QED  BY <1>1, <2>2 DEF Runs, Linked
<1>5. ASSUME SdLinks(cmd, arg) \subseteq R PROVE Runs(R, Sd(a), SdCmd(cmd, arg), CheckOf(cmd))
  <2>1. <<Sd(a), Sd(b)>> \in R /\ <<Sd(b), Sd(d)>> \in R /\ <<Sd(d), CheckOf(cmd)>> \in R
    BY <1>5 DEF SdLinks
  <2>2. CheckOf(cmd) \in AllSteps  BY StepTypes
  <2> HIDE DEF a, b, d, sd
  <2>3. \A i \in 1..2 : <<sd[i], sd[i + 1]>> \in R  BY <1>2, <2>1
  <2>4. Runs(R, Sd(a), sd, Sd(d))  BY <1>2, <2>3 DEF Runs, Linked
  <2> QED  BY <1>3, <2>1, <2>2, <2>4, One, Join
<1> QED  BY <1>4, <1>5

LEMMA Counting ==
  ASSUME NEW R, NEW n \in Nat, n > 0
  PROVE  /\ {<<With("ready", k), With("ready", k + 1)>> : k \in 0..n - 2} \subseteq R =>
              Runs(R, With("ready", 0), [k \in 1..n |-> With("ready", k - 1)], With("ready", n - 1))
         /\ {<<Copies(k), Copies(k + 1)>> : k \in 0..n - 2} \subseteq R =>
              Runs(R, Copies(0), [k \in 1..n |-> Copies(k - 1)], Copies(n - 1))
<1>1. ASSUME NEW k \in Nat PROVE With("ready", k) \in AllSteps /\ Copies(k) \in AllSteps
  BY StepTypes DEF Dos, Waits, Copies
<1>2. ASSUME {<<With("ready", k), With("ready", k + 1)>> : k \in 0..n - 2} \subseteq R
      PROVE  Runs(R, With("ready", 0), [k \in 1..n |-> With("ready", k - 1)], With("ready", n - 1))
  <2> DEFINE p == [k \in 1..n |-> With("ready", k - 1)]
  <2>1. p \in Seq(AllSteps) /\ Len(p) = n /\ p[1] = With("ready", 0) /\ p[n] = With("ready", n - 1)
    BY <1>1
  <2>2. ASSUME NEW i \in 1..n - 1 PROVE <<p[i], p[i + 1]>> \in R
    <3>1. p[i] = With("ready", i - 1) /\ p[i + 1] = With("ready", (i - 1) + 1) /\ i - 1 \in 0..n - 2
      OBVIOUS
    <3> QED  BY <1>2, <3>1
  <2> HIDE DEF p
  <2>3. Runs(R, With("ready", 0), p, With("ready", n - 1))  BY <2>1, <2>2 DEF Runs, Linked
  <2> QED  BY <2>3 DEF p
<1>3. ASSUME {<<Copies(k), Copies(k + 1)>> : k \in 0..n - 2} \subseteq R
      PROVE  Runs(R, Copies(0), [k \in 1..n |-> Copies(k - 1)], Copies(n - 1))
  <2> DEFINE p == [k \in 1..n |-> Copies(k - 1)]
  <2>1. p \in Seq(AllSteps) /\ Len(p) = n /\ p[1] = Copies(0) /\ p[n] = Copies(n - 1)  BY <1>1
  <2>2. ASSUME NEW i \in 1..n - 1 PROVE <<p[i], p[i + 1]>> \in R
    <3>1. p[i] = Copies(i - 1) /\ p[i + 1] = Copies((i - 1) + 1) /\ i - 1 \in 0..n - 2  OBVIOUS
    <3> QED  BY <1>3, <3>1
  <2> HIDE DEF p
  <2>3. Runs(R, Copies(0), p, Copies(n - 1))  BY <2>1, <2>2 DEF Runs, Linked
  <2> QED  BY <2>3 DEF p
<1> QED  BY <1>2, <1>3

LEMMA JoinNothing == ASSUME NEW R, NEW a, NEW b, NEW p, Runs(R, a, p, b), NEW q, q = <<>>
                     PROVE  Runs(R, a, p \o q, b)
<1>1. p \in Seq(AllSteps)  BY DEF Runs
<1>2. p \o <<>> = p  BY <1>1
<1> QED  BY <1>2

LEMMA WriteRuns ==
  ASSUME NEW r \in Writes, driver.type \in {"UNKNOWN", "TYPE_1", "TYPE_2_SC", "TYPE_2_HC"}
  PROVE  /\ Shift(r.lba) \in Nat
         /\ Runs(WriteLinks(r, Shift(r.lba)), Step("type"), WriteBlocks(r.lba, r.num), Step("return"))
<1> DEFINE n == r.num
           a == Shift(r.lba)
           R == WriteLinks(r, a)
           counted == driver.support = "count"
           cmd == IF n = 1 THEN "WRITE_SINGLE" ELSE "WRITE_MULTI"
           first == IF n = 0 THEN Step("done") ELSE With("ready", 0)
           list == [k \in 1..n |-> With("ready", k - 1)]
           sbc == IF n > 1 /\ counted THEN Command("SET_BLOCKCNT", n) ELSE <<>>
           stop == IF n > 1 /\ ~counted THEN Command("STOP_TRANS", 0) ELSE <<>>
           p1 == <<Step("type"), Step("data")>>
           p2 == p1 \o sbc \o <<With("count", n)>>
           p3 == p2 \o Command(cmd, a)
           p4 == p3 \o list \o <<Step("done")>>
<1>1. n \in Nat /\ r.lba \in Nat /\ a \in Nat /\ Unit \in Nat
  <2>1. n \in Nat /\ r.lba \in Nat /\ Unit \in Nat  BY CardAssumption
  <2>2. \A x, y \in Nat : x * y \in Nat  OBVIOUS
  <2>3. r.lba * Unit \in Nat  BY <2>1, <2>2
  <2> QED  BY <2>1, <2>3 DEF Shift
<1>2. WriteBlocks(r.lba, n) = p4 \o stop \o <<Step("return")>>  BY DEF WriteBlocks
<1>3. /\ cmd = WriteCommand(r) /\ cmd \in Commands /\ "SET_BLOCKCNT" \in Commands /\ "STOP_TRANS" \in Commands
      /\ 0 \in Nat
  BY DEF WriteCommand, Commands
<1>4. /\ Step("type") \in AllSteps /\ Step("data") \in AllSteps /\ With("count", n) \in AllSteps
      /\ Step("done") \in AllSteps /\ Step("return") \in AllSteps
  BY <1>1, StepTypes DEF Dos, Waits, Looks
<1> HIDE DEF a
<1>5. /\ CommandLinks("SET_BLOCKCNT", n) \subseteq R /\ CommandLinks(cmd, a) \subseteq R
      /\ CommandLinks("STOP_TRANS", 0) \subseteq R
  BY <1>3 DEF WriteLinks
<1>15. {<<With("ready", k), With("ready", k + 1)>> : k \in 0..n - 2} \subseteq R
  <2>1. ASSUME NEW k \in 0..n - 2 PROVE <<With("ready", k), With("ready", k + 1)>> \in R
    <3>1. k \in 0..n - 1 /\ k + 1 < n  BY <1>1
    <3> QED  BY <3>1 DEF WriteLinks
  <2> QED  BY <2>1
<1>6. /\ <<Step("type"), Step("data")>> \in R
      /\ <<Step("data"), Wait("prepare", "SET_BLOCKCNT", n)>> \in R
      /\ <<Step("data"), With("count", n)>> \in R
      /\ <<Wait("await", "SET_BLOCKCNT", n), With("count", n)>> \in R
      /\ <<With("count", n), Wait("prepare", cmd, a)>> \in R
      /\ <<Wait("await", cmd, a), first>> \in R
      /\ <<Step("done"), Wait("prepare", "STOP_TRANS", 0)>> \in R
      /\ <<Step("done"), Step("return")>> \in R
      /\ <<Wait("await", "STOP_TRANS", 0), Step("return")>> \in R
  BY <1>3 DEF WriteLinks
<1>16. n > 0 => <<With("ready", n - 1), Step("done")>> \in R
  <2>1. SUFFICES ASSUME n > 0 PROVE <<With("ready", n - 1), Step("done")>> \in R  OBVIOUS
  <2>2. n - 1 \in 0..n - 1 /\ ~((n - 1) + 1 < n)  BY <1>1, <2>1
  <2> QED  BY <2>2 DEF WriteLinks
<1> HIDE DEF R, cmd, list
<1>7. Runs(R, Wait("prepare", "SET_BLOCKCNT", n), Command("SET_BLOCKCNT", n), Wait("await", "SET_BLOCKCNT", n))
  BY <1>1, <1>3, <1>5, Commanding
<1>8. Runs(R, Wait("prepare", cmd, a), Command(cmd, a), Wait("await", cmd, a))
  BY <1>1, <1>3, <1>5, Commanding
<1>9. Runs(R, Wait("prepare", "STOP_TRANS", 0), Command("STOP_TRANS", 0), Wait("await", "STOP_TRANS", 0))
  BY <1>3, <1>5, Commanding
<1>10. Runs(R, Step("type"), p1, Step("data"))
  <2>1. p1 = <<Step("type")>> \o <<Step("data")>>  OBVIOUS
  <2>2. Runs(R, Step("type"), <<Step("type")>>, Step("type")) /\ Runs(R, Step("data"), <<Step("data")>>, Step("data"))
    BY <1>4, One
  <2> QED  BY <1>6, <2>1, <2>2, Join
<1> HIDE DEF p1
<1>11. Runs(R, Step("type"), p2, With("count", n))
  <2>1. Runs(R, With("count", n), <<With("count", n)>>, With("count", n))  BY <1>4, One
  <2>2. CASE n > 1 /\ counted
    <3>1. Runs(R, Step("type"), p1 \o sbc, Wait("await", "SET_BLOCKCNT", n))
      BY <1>6, <1>7, <1>10, <2>2, Join
    <3> HIDE DEF sbc
    <3> QED  BY <1>6, <2>1, <3>1, Join
  <2>3. CASE ~(n > 1 /\ counted)
    <3>1. Runs(R, Step("type"), p1 \o sbc, Step("data"))  BY <1>10, <2>3, JoinNothing
    <3> HIDE DEF sbc
    <3> QED  BY <1>6, <2>1, <3>1, Join
  <2> QED  BY <2>2, <2>3
<1> HIDE DEF p2
<1>12. Runs(R, Step("type"), p3, Wait("await", cmd, a))  BY <1>6, <1>8, <1>11, Join
<1> HIDE DEF p3
<1>13. Runs(R, Step("type"), p4, Step("done"))
  <2>1. Runs(R, Step("done"), <<Step("done")>>, Step("done"))  BY <1>4, One
  <2>2. CASE n = 0
    <3>1. list = <<>> /\ first = Step("done")  BY <2>2 DEF list
    <3>2. Runs(R, Step("type"), p3 \o list, Wait("await", cmd, a))  BY <1>12, <3>1, JoinNothing
    <3> QED  BY <1>6, <2>1, <3>1, <3>2, Join
  <2>3. CASE n # 0
    <3>1. Runs(R, With("ready", 0), list, With("ready", n - 1)) /\ first = With("ready", 0)
      <4>1. n \in Nat /\ n > 0  BY <1>1, <2>3
      <4>2. Runs(R, With("ready", 0), [k \in 1..n |-> With("ready", k - 1)], With("ready", n - 1))
        BY <1>15, <4>1, Counting
      <4> QED  BY <2>3, <4>2 DEF list
    <3>2. Runs(R, Step("type"), p3 \o list, With("ready", n - 1))  BY <1>6, <1>12, <3>1, Join
    <3>3. n > 0  BY <1>1, <2>3
    <3> QED  BY <1>16, <2>1, <3>2, <3>3, Join
  <2> QED  BY <2>2, <2>3
<1> HIDE DEF p4
<1>14. Runs(R, Step("type"), p4 \o stop \o <<Step("return")>>, Step("return"))
  <2>1. Runs(R, Step("return"), <<Step("return")>>, Step("return"))  BY <1>4, One
  <2>2. CASE n > 1 /\ ~counted
    <3>1. Runs(R, Step("type"), p4 \o stop, Wait("await", "STOP_TRANS", 0))
      BY <1>6, <1>9, <1>13, <2>2, Join
    <3> HIDE DEF stop
    <3> QED  BY <1>6, <2>1, <3>1, Join
  <2>3. CASE ~(n > 1 /\ ~counted)
    <3>1. Runs(R, Step("type"), p4 \o stop, Step("done"))  BY <1>13, <2>3, JoinNothing
    <3> HIDE DEF stop
    <3> QED  BY <1>6, <2>1, <3>1, Join
  <2> QED  BY <2>2, <2>3
<1> QED  BY <1>1, <1>2, <1>14 DEF R, a

LEMMA LinksIs ==
  ASSUME NEW a \in AllSteps, NEW b \in AllSteps
  PROVE  /\ <<a, b>> \in Links <=>
              /\ a.do \in {"prepare", "issue"} \/ b.do \in {"issue", "await"} =>
                   /\ \/ a.do = "prepare" /\ b.do = "issue"
                      \/ a.do = "issue" /\ b.do = "await"
                   /\ b = [a EXCEPT !.do = b.do]
              /\ ~Ends(a)
<1>1. <<a, b>> \in AllSteps \X AllSteps /\ <<a, b>>[1] = a /\ <<a, b>>[2] = b  OBVIOUS
<1>2. <<a.do, b.do>> \in {<<"prepare", "issue">>, <<"issue", "await">>}
      <=> (a.do = "prepare" /\ b.do = "issue") \/ (a.do = "issue" /\ b.do = "await")
  OBVIOUS
<1> QED  BY <1>1, <1>2 DEF Links

LEMMA FreeLink ==
  ASSUME NEW a \in AllSteps, NEW b \in AllSteps, ~Ends(a),
         a.do \notin {"prepare", "issue"}, b.do \notin {"issue", "await"}
  PROVE  <<a, b>> \in Links
  BY LinksIs

LEMMA CommandLinked ==
  ASSUME NEW cmd \in Commands, NEW arg \in Nat
  PROVE  CommandLinks(cmd, arg) \subseteq Links /\ SdLinks(cmd, arg) \subseteq Links
<1> DEFINE a == Wait("prepare", cmd, arg)
           b == Wait("issue", cmd, arg)
           d == Wait("await", cmd, arg)
<1>1. /\ a \in AllSteps /\ b \in AllSteps /\ d \in AllSteps
      /\ Sd(a) \in AllSteps /\ Sd(b) \in AllSteps /\ Sd(d) \in AllSteps /\ CheckOf(cmd) \in AllSteps
  BY StepTypes DEF Waits
<1>2. /\ a.do = "prepare" /\ b.do = "issue" /\ d.do = "await"
      /\ Sd(a).do = "prepare" /\ Sd(b).do = "issue" /\ Sd(d).do = "await" /\ CheckOf(cmd).do = "check"
      /\ Sd(d).via = "sd"
  BY StepFields
<1>3. b = [a EXCEPT !.do = "issue"] /\ d = [b EXCEPT !.do = "await"]  BY StepFields
<1>4. Sd(b) = [Sd(a) EXCEPT !.do = "issue"] /\ Sd(d) = [Sd(b) EXCEPT !.do = "await"]  BY StepFields
<1> HIDE DEF a, b, d
<1>5. ~Ends(a) /\ ~Ends(b) /\ ~Ends(Sd(a)) /\ ~Ends(Sd(b)) /\ ~Ends(Sd(d))  BY <1>2 DEF Ends
<1>6. <<a, b>> \in Links /\ <<b, d>> \in Links  BY <1>1, <1>2, <1>3, <1>5, LinksIs
<1>7. <<Sd(a), Sd(b)>> \in Links /\ <<Sd(b), Sd(d)>> \in Links
  BY <1>1, <1>2, <1>4, <1>5, LinksIs, ZenonT(60)
<1>8. <<Sd(d), CheckOf(cmd)>> \in Links  BY <1>1, <1>2, <1>5, FreeLink
<1> QED  BY <1>6, <1>7, <1>8 DEF CommandLinks, SdLinks, a, b, d

\* Steps that are neither followed by "issue" or "await" nor the last of a plan.
LEMMA PlainSteps ==
  /\ \A arg \in Nat :
       /\ With("ready", arg) \in AllSteps /\ Copies(arg) \in AllSteps /\ With("count", arg) \in AllSteps
       /\ With("ready", arg).do = "ready" /\ Copies(arg).do = "ready" /\ With("count", arg).do = "count"
  /\ \A cmd \in Commands \cup {"none"} : CheckOf(cmd) \in AllSteps /\ CheckOf(cmd).do = "check"
  /\ \A do \in Dos \ Waits : Step(do) \in AllSteps /\ Step(do).do = do
                             /\ Sd(Step(do)) \in AllSteps /\ Sd(Step(do)).do = do
  /\ Step("check") = CheckOf("none")
<1>1. "ready" \in Dos \ Waits /\ "count" \in Dos \ Waits /\ 0 \in Nat  BY DEF Dos, Waits
<1>2. ASSUME NEW arg \in Nat
      PROVE  /\ With("ready", arg) \in AllSteps /\ Copies(arg) \in AllSteps /\ With("count", arg) \in AllSteps
             /\ With("ready", arg).do = "ready" /\ Copies(arg).do = "ready" /\ With("count", arg).do = "count"
  <2>1. /\ With("ready", arg) \in AllSteps /\ Sd(With("ready", arg)) \in AllSteps
        /\ With("count", arg) \in AllSteps
    BY <1>1, StepTypes
  <2> QED  BY <2>1, StepFields DEF Copies
<1>3. ASSUME NEW cmd \in Commands \cup {"none"} PROVE CheckOf(cmd) \in AllSteps /\ CheckOf(cmd).do = "check"
  <2>1. CheckOf(cmd) \in AllSteps  BY StepTypes
  <2>2. CheckOf(cmd) = [do |-> "check", via |-> "SDCard", cmd |-> cmd, arg |-> 0]  BY StepFields
  <2> QED  BY <2>1, <2>2
<1>4. ASSUME NEW do \in Dos \ Waits
      PROVE  Step(do) \in AllSteps /\ Step(do).do = do /\ Sd(Step(do)) \in AllSteps /\ Sd(Step(do)).do = do
  <2>1. Step(do) \in AllSteps /\ Sd(Step(do)) \in AllSteps  BY <1>1, StepTypes
  <2>2. /\ Step(do) = [do |-> do, via |-> "SDCard", cmd |-> "none", arg |-> 0]
        /\ Sd(Step(do)) = [do |-> do, via |-> "sd", cmd |-> "none", arg |-> 0]
    BY StepFields
  <2> QED  BY <2>1, <2>2
<1>5. Step("check") = CheckOf("none")  BY StepFields
<1> QED  BY <1>2, <1>3, <1>4, <1>5

LEMMA WriteLinked ==
  ASSUME NEW r \in Writes, NEW a \in Nat
  PROVE  WriteLinks(r, a) \subseteq Links
<1> DEFINE n == r.num
           cmd == WriteCommand(r)
           first == IF n = 0 THEN Step("done") ELSE With("ready", 0)
<1>1. n \in Nat /\ cmd \in Commands /\ "SET_BLOCKCNT" \in Commands /\ "STOP_TRANS" \in Commands /\ 0 \in Nat
  BY CardAssumption DEF WriteCommand, Commands
<1> HIDE DEF cmd
<1>2. /\ CommandLinks("SET_BLOCKCNT", n) \subseteq Links /\ CommandLinks(cmd, a) \subseteq Links
      /\ CommandLinks("STOP_TRANS", 0) \subseteq Links
  BY <1>1, CommandLinked
<1> DEFINE Free(s) == s \in AllSteps /\ s.do \notin {"prepare", "issue"} /\ ~Ends(s)
           Start_(s) == s \in AllSteps /\ s.do \notin {"issue", "await"}
<1>3. ASSUME NEW x, NEW y, Free(x), Start_(y) PROVE <<x, y>> \in Links  BY <1>3, FreeLink
<1>4. /\ Free(Step("type")) /\ Free(Step("data")) /\ Free(Step("done"))
      /\ \A k \in Nat : Free(With("ready", k)) /\ Free(With("count", k))
      /\ Start_(Step("data")) /\ Start_(Step("done")) /\ Start_(Step("return"))
      /\ \A k \in Nat : Start_(With("ready", k)) /\ Start_(With("count", k))
  <2>1. "type" \in Dos \ Waits /\ "data" \in Dos \ Waits /\ "done" \in Dos \ Waits /\ "return" \in Dos \ Waits
    BY DEF Dos, Waits, Looks
  <2> QED  BY <2>1, PlainSteps DEF Ends
<1>5. ASSUME NEW q \in Commands, NEW arg \in Nat, q # "SEND_IF_COND"
      PROVE  Free(Wait("await", q, arg)) /\ Start_(Wait("prepare", q, arg))
  <2>1. Wait("await", q, arg) \in AllSteps /\ Wait("prepare", q, arg) \in AllSteps
    BY StepTypes DEF Waits
  <2>2. /\ Wait("await", q, arg).do = "await" /\ Wait("await", q, arg).cmd = q
        /\ Wait("prepare", q, arg).do = "prepare"
    BY StepFields
  <2> QED  BY <1>5, <2>1, <2>2 DEF Ends
<1>6. cmd # "SEND_IF_COND"  BY DEF cmd, WriteCommand
<1>7. /\ Free(Wait("await", "SET_BLOCKCNT", n)) /\ Start_(Wait("prepare", "SET_BLOCKCNT", n))
      /\ Free(Wait("await", cmd, a)) /\ Start_(Wait("prepare", cmd, a))
      /\ Free(Wait("await", "STOP_TRANS", 0)) /\ Start_(Wait("prepare", "STOP_TRANS", 0))
      /\ Start_(first)
  BY <1>1, <1>4, <1>5, <1>6
<1> HIDE DEF Free, Start_
<1>8. ASSUME NEW k \in 0..n - 1
      PROVE  <<With("ready", k), IF k + 1 < n THEN With("ready", k + 1) ELSE Step("done")>> \in Links
  <2>1. k \in Nat /\ k + 1 \in Nat  BY <1>1
  <2> QED  BY <1>3, <1>4, <2>1
<1> QED  BY <1>2, <1>3, <1>4, <1>7, <1>8, <1>1 DEF WriteLinks, cmd

LEMMA ReadFacts ==
  ASSUME NEW r \in Reads
  PROVE  /\ r.lba \in Nat /\ r.num \in Nat /\ Amount(r) \in Nat /\ Amount(r) > 0
         /\ ReadCommand(r) \in {"READ_SINGLE", "READ_MULTI"} /\ ReadCommand(r) \in Commands
         /\ "SET_BLOCKCNT" \in Commands /\ "STOP_TRANS" \in Commands /\ 0 \in Nat
         /\ Amount(r) - 1 \in Nat
<1>1. r.lba \in Nat /\ r.num \in Nat  BY CardAssumption
<1>2. Amount(r) \in Nat /\ Amount(r) > 0  BY <1>1 DEF Amount
<1>3. ReadCommand(r) \in {"READ_SINGLE", "READ_MULTI"}  BY DEF ReadCommand
<1> QED  BY <1>1, <1>2, <1>3 DEF Commands

LEMMA ReadRuns ==
  ASSUME NEW r \in Reads, driver.ccs
  PROVE  Runs(ReadLinks(r), Sd(Step("data")), ReadBlocks(r.lba, r.num), Step("return"))
<1> DEFINE n == Amount(r)
           R == ReadLinks(r)
           cmd == IF n = 1 THEN "READ_SINGLE" ELSE "READ_MULTI"
           list == [k \in 1..n |-> Copies(k - 1)]
           sbc == IF n > 1 /\ driver.count THEN SdCmd("SET_BLOCKCNT", n) ELSE <<>>
           stop == IF n > 1 /\ ~driver.count THEN SdCmd("STOP_TRANS", 0) ELSE <<>>
           prep == IF n > 1 /\ driver.count THEN Sd(Wait("prepare", "SET_BLOCKCNT", n)) ELSE With("count", n)
           fin == IF n > 1 /\ ~driver.count THEN CheckOf("STOP_TRANS") ELSE Copies(n - 1)
           p1 == sbc \o <<With("count", n)>>
           p2 == p1 \o SdCmd(cmd, r.lba)
           p3 == p2 \o list
           p4 == p3 \o stop
           ends == <<Step("check"), Step("return")>>
<1>1. ReadBlocks(r.lba, r.num) = <<Sd(Step("data"))>> \o p4 \o ends
  BY DEF ReadBlocks, Amount, Copies
<1>2. /\ n \in Nat /\ n > 0 /\ r.lba \in Nat /\ cmd = ReadCommand(r) /\ cmd \in Commands
      /\ "SET_BLOCKCNT" \in Commands /\ "STOP_TRANS" \in Commands /\ 0 \in Nat /\ n - 1 \in Nat
  BY ReadFacts DEF ReadCommand
<1>3. /\ "return" \in Dos \ Waits /\ "data" \in Dos \ Waits /\ "check" \in Dos \ Waits
  BY DEF Dos, Waits, Looks
<1>4. /\ Sd(Step("data")) \in AllSteps /\ Step("return") \in AllSteps /\ Step("check") \in AllSteps
      /\ With("count", n) \in AllSteps
  BY <1>2, <1>3, PlainSteps
<1> HIDE DEF cmd, n
<1>5. /\ SdLinks("SET_BLOCKCNT", n) \subseteq R /\ SdLinks(cmd, r.lba) \subseteq R
      /\ SdLinks("STOP_TRANS", 0) \subseteq R
      /\ {<<Copies(k), Copies(k + 1)>> : k \in 0..n - 2} \subseteq R
  BY <1>2 DEF ReadLinks, n
<1>6. /\ <<Sd(Step("data")), Sd(Wait("prepare", "SET_BLOCKCNT", n))>> \in R
      /\ <<Sd(Step("data")), With("count", n)>> \in R
      /\ <<CheckOf("SET_BLOCKCNT"), With("count", n)>> \in R
      /\ <<With("count", n), Sd(Wait("prepare", cmd, r.lba))>> \in R
      /\ <<CheckOf(cmd), Copies(0)>> \in R
      /\ <<Copies(n - 1), Sd(Wait("prepare", "STOP_TRANS", 0))>> \in R
      /\ <<Copies(n - 1), Step("check")>> \in R
      /\ <<CheckOf("STOP_TRANS"), Step("check")>> \in R
      /\ <<Step("check"), Step("return")>> \in R
  BY <1>2 DEF ReadLinks, n
<1> HIDE DEF R, list
<1>7. Runs(R, Sd(Wait("prepare", "SET_BLOCKCNT", n)), SdCmd("SET_BLOCKCNT", n), CheckOf("SET_BLOCKCNT"))
  BY <1>2, <1>5, Commanding
<1>8. Runs(R, Sd(Wait("prepare", cmd, r.lba)), SdCmd(cmd, r.lba), CheckOf(cmd))
  BY <1>2, <1>5, Commanding
<1>9. Runs(R, Sd(Wait("prepare", "STOP_TRANS", 0)), SdCmd("STOP_TRANS", 0), CheckOf("STOP_TRANS"))
  BY <1>2, <1>5, Commanding
<1>10. Runs(R, Copies(0), list, Copies(n - 1))
  <2>1. Runs(R, Copies(0), [k \in 1..n |-> Copies(k - 1)], Copies(n - 1))  BY <1>2, <1>5, Counting
  <2> QED  BY <2>1 DEF list
<1>11. Runs(R, prep, p1, With("count", n))
  <2>1. Runs(R, With("count", n), <<With("count", n)>>, With("count", n))  BY <1>4, One
  <2>2. CASE n > 1 /\ driver.count  BY <1>6, <1>7, <2>1, <2>2, Join
  <2>3. CASE ~(n > 1 /\ driver.count)
    <3>1. p1 = <<With("count", n)>>
      <4>1. \A q \in Seq(AllSteps) : <<>> \o q = q  OBVIOUS
      <4>2. <<With("count", n)>> \in Seq(AllSteps) /\ sbc = <<>>  BY <1>4, <2>3
      <4> QED  BY <4>1, <4>2
    <3> QED  BY <2>1, <2>3, <3>1
  <2> QED  BY <2>2, <2>3
<1>12. <<Sd(Step("data")), prep>> \in R  BY <1>6
<1> HIDE DEF p1, prep
<1>13. Runs(R, prep, p2, CheckOf(cmd))  BY <1>6, <1>8, <1>11, Join
<1> HIDE DEF p2
<1>14. Runs(R, prep, p3, Copies(n - 1))  BY <1>6, <1>10, <1>13, Join
<1> HIDE DEF p3
<1>15. Runs(R, prep, p4, fin)
  <2>1. CASE n > 1 /\ ~driver.count  BY <1>6, <1>9, <1>14, <2>1, Join
  <2>2. CASE ~(n > 1 /\ ~driver.count)  BY <1>14, <2>2, JoinNothing
  <2> QED  BY <2>1, <2>2
<1>16. <<fin, Step("check")>> \in R  BY <1>6
<1> HIDE DEF p4, fin
<1>17. Runs(R, Step("check"), ends, Step("return"))
  <2>1. ends = <<Step("check")>> \o <<Step("return")>>  OBVIOUS
  <2>2. Runs(R, Step("check"), <<Step("check")>>, Step("check")) /\ Runs(R, Step("return"), <<Step("return")>>, Step("return"))
    BY <1>4, One
  <2> QED  BY <1>6, <2>1, <2>2, Join
<1> HIDE DEF ends
<1>18. Runs(R, Sd(Step("data")), <<Sd(Step("data"))>> \o p4, fin)
  <2>1. Runs(R, Sd(Step("data")), <<Sd(Step("data"))>>, Sd(Step("data")))  BY <1>4, One
  <2> QED  BY <1>12, <1>15, <2>1, Join
<1>19. Runs(R, Sd(Step("data")), <<Sd(Step("data"))>> \o p4 \o ends, Step("return"))
  BY <1>16, <1>17, <1>18, Join
<1> QED  BY <1>1, <1>19 DEF R

LEMMA ReadLinked ==
  ASSUME NEW r \in Reads
  PROVE  ReadLinks(r) \subseteq Links
<1> DEFINE n == Amount(r)
           cmd == ReadCommand(r)
           Free(s) == s \in AllSteps /\ s.do \notin {"prepare", "issue"} /\ ~Ends(s)
           Start_(s) == s \in AllSteps /\ s.do \notin {"issue", "await"}
<1>1. /\ n \in Nat /\ n > 0 /\ n - 1 \in Nat /\ cmd \in Commands /\ "SET_BLOCKCNT" \in Commands
      /\ "STOP_TRANS" \in Commands /\ 0 \in Nat /\ r.lba \in Nat
  BY ReadFacts
<1> HIDE DEF cmd, n
<1>2. /\ SdLinks("SET_BLOCKCNT", n) \subseteq Links /\ SdLinks(cmd, r.lba) \subseteq Links
      /\ SdLinks("STOP_TRANS", 0) \subseteq Links
  BY <1>1, CommandLinked
<1>3. ASSUME NEW x, NEW y, Free(x), Start_(y) PROVE <<x, y>> \in Links  BY <1>3, FreeLink
<1>4. /\ Free(Sd(Step("data"))) /\ Free(Step("check")) /\ Start_(Step("check")) /\ Start_(Step("return"))
      /\ \A k \in Nat : Free(Copies(k)) /\ Free(With("count", k)) /\ Start_(Copies(k)) /\ Start_(With("count", k))
      /\ \A q \in Commands : Free(CheckOf(q))
  <2>1. "check" \in Dos \ Waits /\ "data" \in Dos \ Waits /\ "return" \in Dos \ Waits
    BY DEF Dos, Waits, Looks
  <2> QED  BY <2>1, PlainSteps DEF Ends
<1>5. ASSUME NEW q \in Commands, NEW arg \in Nat PROVE Start_(Sd(Wait("prepare", q, arg)))
  <2>1. Sd(Wait("prepare", q, arg)) \in AllSteps  BY StepTypes DEF Waits
  <2>2. Sd(Wait("prepare", q, arg)).do = "prepare"  BY StepFields
  <2> QED  BY <2>1, <2>2
<1> HIDE DEF Free, Start_
<1>6. ASSUME NEW k \in 0..n - 2 PROVE <<Copies(k), Copies(k + 1)>> \in Links
  <2>1. k \in Nat /\ k + 1 \in Nat  BY <1>1
  <2> QED  BY <1>3, <1>4, <2>1
<1>7. /\ <<Sd(Step("data")), Sd(Wait("prepare", "SET_BLOCKCNT", n))>> \in Links
      /\ <<Sd(Step("data")), With("count", n)>> \in Links
      /\ <<CheckOf("SET_BLOCKCNT"), With("count", n)>> \in Links
      /\ <<With("count", n), Sd(Wait("prepare", cmd, r.lba))>> \in Links
      /\ <<CheckOf(cmd), Copies(0)>> \in Links
      /\ <<Copies(n - 1), Sd(Wait("prepare", "STOP_TRANS", 0))>> \in Links
      /\ <<Copies(n - 1), Step("check")>> \in Links
      /\ <<CheckOf("STOP_TRANS"), Step("check")>> \in Links
      /\ <<Step("check"), Step("return")>> \in Links
  BY <1>1, <1>3, <1>4, <1>5
<1> QED  BY <1>2, <1>6, <1>7 DEF ReadLinks, cmd, n

\* f[k]: the steps that read the first k blocks one by one.
Chain(f, lba, n) ==
  f = [k \in 0..n |->
         IF k = 0 THEN <<>>
         ELSE f[k - 1] \o SdCmd("READ_SINGLE", (lba + k - 1) * Unit) \o <<Copies(k - 1)>>]

LEMMA ChainExists == ASSUME NEW lba, NEW m \in Nat PROVE \E f : Chain(f, lba, m)
<1> DEFINE Found(n) == \E f : Chain(f, lba, n)
           T == {n \in Nat : ~Found(n)}
<1>1. SUFFICES ASSUME m \in T PROVE FALSE  OBVIOUS
<1>2. PICK n \in T : \A k \in T : n <= k
  <2>1. T \in SUBSET Nat  OBVIOUS
  <2> HIDE DEF T
  <2> QED  BY <1>1, <2>1, LeastOf
<1>3. n \in Nat /\ ~Found(n)  OBVIOUS
<1>4. CASE n = 0
  <2> DEFINE f == [k \in 0..0 |-> <<>>]
  <2>1. Chain(f, lba, 0)  BY DEF Chain
  <2> QED  BY <1>3, <1>4, <2>1
<1>5. CASE n # 0
  <2>1. n - 1 \in Nat /\ n - 1 \notin T  BY <1>2, <1>3, <1>5
  <2>2. PICK f : Chain(f, lba, n - 1)  BY <2>1
  <2> DEFINE More(h, k) == h[k - 1] \o SdCmd("READ_SINGLE", (lba + k - 1) * Unit) \o <<Copies(k - 1)>>
             g == [k \in 0..n |-> IF k < n THEN f[k] ELSE More(f, n)]
  <2>3. ASSUME NEW k \in 0..n PROVE g[k] = IF k = 0 THEN <<>> ELSE More(g, k)
    <3>1. CASE k < n
      <4>1. k \in 0..n - 1 /\ g[k] = f[k]  BY <1>3, <3>1
      <4>2. f[k] = IF k = 0 THEN <<>> ELSE More(f, k)  BY <2>2, <4>1 DEF Chain
      <4>3. k # 0 => g[k - 1] = f[k - 1]  BY <1>3, <3>1
      <4> HIDE DEF g
      <4> QED  BY <4>1, <4>2, <4>3
    <3>2. CASE k = n
      <4>1. n - 1 \in 0..n /\ g[n - 1] = f[n - 1] /\ g[n] = More(f, n)  BY <1>3, <1>5
      <4> HIDE DEF g
      <4> QED  BY <1>5, <3>2, <4>1
    <3> QED  BY <1>3, <3>1, <3>2
  <2>4. DOMAIN g = 0..n /\ g = [k \in 0..n |-> g[k]]  OBVIOUS
  <2> HIDE DEF g
  <2>5. Chain(g, lba, n)  BY <2>3, <2>4 DEF Chain
  <2> QED  BY <1>3, <2>5
<1> QED  BY <1>4, <1>5

LEMMA ChainRuns ==
  ASSUME NEW lba \in Nat, NEW m \in Nat, NEW f, Chain(f, lba, m), m > 0
  PROVE  Runs(Links, Sd(Wait("prepare", "READ_SINGLE", lba * Unit)), f[m], Copies(m - 1))
<1> DEFINE first == Sd(Wait("prepare", "READ_SINGLE", lba * Unit))
           T == {n \in 1..m : ~Runs(Links, first, f[n], Copies(n - 1))}
<1>1. SUFFICES ASSUME m \in T PROVE FALSE  OBVIOUS
<1>2. PICK n \in T : \A k \in T : n <= k
  <2>1. T \in SUBSET Nat  OBVIOUS
  <2> HIDE DEF T
  <2> QED  BY <1>1, <2>1, LeastOf
<1>3. n \in 1..m /\ ~Runs(Links, first, f[n], Copies(n - 1))  OBVIOUS
<1> DEFINE a == (lba + n - 1) * Unit
           cmd == SdCmd("READ_SINGLE", a)
<1>4. a \in Nat
  <2>1. lba + n - 1 \in Nat  BY <1>3
  <2>3. Unit \in Nat  BY CardAssumption
  <2>2. \A x, y \in Nat : x * y \in Nat  OBVIOUS
  <2> QED  BY <2>1, <2>2, <2>3
<1> HIDE DEF a
<1>5. /\ "READ_SINGLE" \in Commands /\ n - 1 \in Nat /\ n - 1 \in 0..m  BY <1>3 DEF Commands
<1>6. SdLinks("READ_SINGLE", a) \subseteq Links  BY <1>4, <1>5, CommandLinked
<1>7. Runs(Links, Sd(Wait("prepare", "READ_SINGLE", a)), cmd, CheckOf("READ_SINGLE"))
  BY <1>4, <1>5, <1>6, Commanding
<1>8. /\ Copies(n - 1) \in AllSteps /\ Copies(n - 1).do = "ready"
      /\ CheckOf("READ_SINGLE") \in AllSteps /\ CheckOf("READ_SINGLE").do = "check"
  BY <1>5, PlainSteps
<1>9. Runs(Links, Copies(n - 1), <<Copies(n - 1)>>, Copies(n - 1))  BY <1>8, One
<1>10. <<CheckOf("READ_SINGLE"), Copies(n - 1)>> \in Links  BY <1>8, FreeLink DEF Ends
<1>11. f[n] = f[n - 1] \o cmd \o <<Copies(n - 1)>>
  <2>1. \A k \in 0..m : f[k] = IF k = 0 THEN <<>>
                               ELSE f[k - 1] \o SdCmd("READ_SINGLE", (lba + k - 1) * Unit) \o <<Copies(k - 1)>>
    BY Zenon DEF Chain
  <2>2. n \in 0..m /\ n # 0  BY <1>3
  <2> QED  BY <2>1, <2>2, Zenon DEF a
<1> HIDE DEF cmd
<1>12. CASE n = 1
  <2>1. f[0] = <<>> /\ a = lba * Unit  BY <1>3, <1>12 DEF Chain, a
  <2>2. f[n - 1] \o cmd = cmd
    <3>1. cmd \in Seq(AllSteps)  BY <1>7 DEF Runs
    <3>2. <<>> \o cmd = cmd  BY <3>1
    <3>3. n - 1 = 0  BY <1>12
    <3>4. f[n - 1] = <<>>  BY <2>1, <3>3
    <3> HIDE DEF T
    <3> QED  BY <3>2, <3>4
  <2>3. Runs(Links, first, cmd, CheckOf("READ_SINGLE"))  BY <1>7, <2>1
  <2> QED  BY <1>3, <1>9, <1>10, <1>11, <2>2, <2>3, Join
<1>13. CASE n # 1
  <2>1. n - 1 \in 1..m /\ n - 1 \notin T  BY <1>2, <1>3, <1>13
  <2>2. Runs(Links, first, f[n - 1], Copies((n - 1) - 1))  BY <2>1
  <2>3. (n - 1) - 1 \in Nat  BY <2>1
  <2>4. Copies((n - 1) - 1) \in AllSteps /\ Copies((n - 1) - 1).do = "ready"  BY <2>3, PlainSteps
  <2>5. Sd(Wait("prepare", "READ_SINGLE", a)) \in AllSteps /\ Sd(Wait("prepare", "READ_SINGLE", a)).do = "prepare"
    BY <1>4, <1>5, StepTypes, StepFields DEF Waits
  <2>6. <<Copies((n - 1) - 1), Sd(Wait("prepare", "READ_SINGLE", a))>> \in Links
    BY <2>4, <2>5, FreeLink DEF Ends
  <2>7. Runs(Links, first, f[n - 1] \o cmd, CheckOf("READ_SINGLE"))  BY <1>7, <2>2, <2>6, Join
  <2> QED  BY <1>3, <1>9, <1>10, <1>11, <2>7, Join
<1> QED  BY <1>12, <1>13

LEMMA ReadPlanned == ASSUME NEW r \in Reads PROVE Planned(ReadBlocks(r.lba, r.num))
<1>1. Step("return").do = "return"  BY StepFields
<1>2. CASE driver.ccs
  <2>1. Runs(Links, Sd(Step("data")), ReadBlocks(r.lba, r.num), Step("return"))
    BY <1>2, ReadRuns, ReadLinked, Wider
  <2> QED  BY <1>1, <2>1 DEF Runs, Planned, Ends
<1>3. CASE ~driver.ccs
  <2> DEFINE n == Amount(r)
             f == CHOOSE g : Chain(g, r.lba, n)
             p1 == <<With("count", 1)>> \o f[n]
             ends == <<Step("check"), Step("return")>>
             first == Sd(Wait("prepare", "READ_SINGLE", r.lba * Unit))
  <2>1. ReadBlocks(r.lba, r.num) = <<Sd(Step("data"))>> \o p1 \o ends
    BY <1>3 DEF ReadBlocks, Amount, Copies, Chain
  <2>2. n \in Nat /\ n > 0 /\ r.lba \in Nat /\ n - 1 \in Nat  BY ReadFacts
  <2>3. Chain(f, r.lba, n)  BY <2>2, ChainExists
  <2> HIDE DEF f, n
  <2>4. Runs(Links, first, f[n], Copies(n - 1))  BY <2>2, <2>3, ChainRuns
  <2>5. /\ Sd(Step("data")) \in AllSteps /\ Sd(Step("data")).do = "data"
        /\ Step("check") \in AllSteps /\ Step("check").do = "check"
        /\ Step("return") \in AllSteps /\ Step("return").do = "return"
        /\ With("count", 1) \in AllSteps /\ With("count", 1).do = "count"
        /\ Copies(n - 1) \in AllSteps /\ Copies(n - 1).do = "ready"
    <3>1. "data" \in Dos \ Waits /\ "check" \in Dos \ Waits /\ "return" \in Dos \ Waits /\ 1 \in Nat
      BY DEF Dos, Waits, Looks
    <3> QED  BY <2>2, <3>1, PlainSteps
  <2>6. first \in AllSteps /\ first.do = "prepare"
    <3>2. /\ f[n] \in Seq(AllSteps) /\ f[n] # <<>> /\ f[n][1] = first  BY <2>4 DEF Runs
    <3>3. first.do = "prepare"  BY StepFields
    <3> QED  BY <3>2, <3>3
  <2> HIDE DEF first
  <2>7. /\ <<Sd(Step("data")), With("count", 1)>> \in Links
        /\ <<With("count", 1), first>> \in Links
        /\ <<Copies(n - 1), Step("check")>> \in Links
        /\ <<Step("check"), Step("return")>> \in Links
    BY <2>5, <2>6, FreeLink DEF Ends
  <2>8. /\ Runs(Links, Sd(Step("data")), <<Sd(Step("data"))>>, Sd(Step("data")))
        /\ Runs(Links, With("count", 1), <<With("count", 1)>>, With("count", 1))
        /\ Runs(Links, Step("check"), <<Step("check")>>, Step("check"))
        /\ Runs(Links, Step("return"), <<Step("return")>>, Step("return"))
    BY <2>5, One
  <2>9. Runs(Links, With("count", 1), p1, Copies(n - 1))  BY <2>4, <2>7, <2>8, Join
  <2>10. Runs(Links, Step("check"), ends, Step("return"))
    <3>1. ends = <<Step("check")>> \o <<Step("return")>>  OBVIOUS
    <3> QED  BY <2>7, <2>8, <3>1, Join
  <2> HIDE DEF p1, ends
  <2>11. Runs(Links, Sd(Step("data")), <<Sd(Step("data"))>> \o p1, Copies(n - 1))
    BY <2>7, <2>8, <2>9, Join
  <2>12. Runs(Links, Sd(Step("data")), <<Sd(Step("data"))>> \o p1 \o ends, Step("return"))
    BY <2>7, <2>10, <2>11, Join
  <2> QED  BY <1>1, <2>1, <2>12 DEF Runs, Planned, Ends
<1> QED  BY <1>2, <1>3

-----------------------------------------------------------------------------
(* The plans of mount.                                                     *)

LEMMA MountIs ==
  ASSUME NEW a \in MountSteps, NEW b \in MountSteps
  PROVE  <<a, b>> \in MountLinks <=>
           /\ <<a, b>> \in Links
           /\ a.do = "attempt" => b.do = "reset"
           /\ b.do # "attempt"
           /\ b.do = "clear" => a.do = "clock"
           /\ b.do = "prepare" /\ b.cmd = "GO_IDLE_STATE" => a.do = "clear"
           /\ a.do = "finish" => b.do = "return"
<1>1. <<a, b>> \in MountSteps \X MountSteps /\ <<a, b>>[1] = a /\ <<a, b>>[2] = b  OBVIOUS
<1> QED  BY <1>1 DEF MountLinks

LEMMA MountFree ==
  ASSUME NEW a \in MountSteps, NEW b \in MountSteps, ~Ends(a),
         a.do \notin {"prepare", "issue", "attempt", "finish"},
         b.do \notin {"issue", "await", "attempt", "clear"},
         b.do = "prepare" => b.cmd # "GO_IDLE_STATE"
  PROVE  <<a, b>> \in MountLinks
<1>1. a \in AllSteps /\ b \in AllSteps  BY DEF MountSteps
<1> QED  BY <1>1, FreeLink, MountIs

LEMMA MountWaits ==
  ASSUME NEW cmd \in MountCommands, NEW arg \in Nat
  PROVE  /\ \A do \in Waits : /\ Wait(do, cmd, arg) \in MountSteps
                              /\ Wait(do, cmd, arg).do = do /\ Wait(do, cmd, arg).cmd = cmd
                              /\ Wait(do, cmd, arg).via = "SDCard"
         /\ Runs(MountLinks, Wait("prepare", cmd, arg), Command(cmd, arg), Wait("await", cmd, arg))
         /\ cmd # "SEND_IF_COND" => ~Ends(Wait("await", cmd, arg))
<1>1. cmd \in Commands  BY DEF MountCommands
<1>2. ASSUME NEW do \in Waits
      PROVE  /\ Wait(do, cmd, arg) \in MountSteps
             /\ Wait(do, cmd, arg).do = do /\ Wait(do, cmd, arg).cmd = cmd
             /\ Wait(do, cmd, arg).via = "SDCard"
  <2>1. Wait(do, cmd, arg) \in AllSteps  BY <1>1, StepTypes
  <2>2. Wait(do, cmd, arg) = [do |-> do, via |-> "SDCard", cmd |-> cmd, arg |-> arg]  BY StepFields
  <2> QED  BY <2>1, <2>2 DEF MountSteps, Waits
<1>3. "prepare" \in Waits /\ "issue" \in Waits /\ "await" \in Waits  BY DEF Waits
<1> DEFINE a == Wait("prepare", cmd, arg)
           b == Wait("issue", cmd, arg)
           d == Wait("await", cmd, arg)
<1>4. <<a, b>> \in Links /\ <<b, d>> \in Links  BY <1>1, CommandLinked DEF CommandLinks
<1>5. /\ a \in MountSteps /\ b \in MountSteps /\ d \in MountSteps
      /\ a.do = "prepare" /\ b.do = "issue" /\ d.do = "await" /\ d.cmd = cmd
  BY <1>2, <1>3
<1> HIDE DEF a, b, d
<1>6. <<a, b>> \in MountLinks /\ <<b, d>> \in MountLinks  BY <1>4, <1>5, MountIs
<1>7. CommandLinks(cmd, arg) \subseteq MountLinks  BY <1>6 DEF CommandLinks, a, b, d
<1>8. Runs(MountLinks, a, Command(cmd, arg), d)  BY <1>1, <1>7, Commanding DEF a, d
<1>9. cmd # "SEND_IF_COND" => ~Ends(d)  BY <1>5 DEF Ends
<1> QED  BY <1>2, <1>8, <1>9 DEF a, d

LEMMA MountPlain ==
  ASSUME NEW do \in {"attempt", "reset", "clock", "clear", "data", "scr", "type1", "type2", "finish", "return"}
  PROVE  Step(do) \in MountSteps /\ Step(do).do = do /\ Step(do).cmd = "none" /\ Step(do).via = "SDCard"
<1>1. do \in Dos \ Waits  BY DEF Dos, Waits, Notes
<1>2. Step(do) \in AllSteps  BY <1>1, StepTypes
<1>3. Step(do) = [do |-> do, via |-> "SDCard", cmd |-> "none", arg |-> 0]  BY StepFields
<1> QED  BY <1>1, <1>2, <1>3 DEF MountSteps

\* Two commands after each other, or a step behind a command.
LEMMA MountJoin ==
  ASSUME NEW s, NEW a \in MountSteps, NEW b \in MountSteps, NEW e, NEW p, NEW q,
         Runs(MountLinks, s, p, a), Runs(MountLinks, b, q, e), ~Ends(a),
         a.do \notin {"prepare", "issue", "attempt", "finish"},
         b.do \notin {"issue", "await", "attempt", "clear"},
         b.do = "prepare" => b.cmd # "GO_IDLE_STATE"
  PROVE  Runs(MountLinks, s, p \o q, e)
<1>1. <<a, b>> \in MountLinks  BY MountFree
<1> QED  BY <1>1, Join

\* A plan that ends like this may go on.
Open(a) == a \in MountSteps /\ ~Ends(a) /\ a.do \notin {"prepare", "issue", "attempt", "finish"}

LEMMA AddCommand ==
  ASSUME NEW s, NEW a, NEW p, Runs(MountLinks, s, p, a), Open(a),
         NEW cmd \in MountCommands \ {"GO_IDLE_STATE", "SEND_IF_COND"}, NEW arg \in Nat
  PROVE  /\ Runs(MountLinks, s, p \o Command(cmd, arg), Wait("await", cmd, arg))
         /\ Open(Wait("await", cmd, arg))
<1>1. "prepare" \in Waits /\ "await" \in Waits  BY DEF Waits
<1> DEFINE b == Wait("prepare", cmd, arg)
           d == Wait("await", cmd, arg)
<1>2. /\ b \in MountSteps /\ b.do = "prepare" /\ b.cmd = cmd
      /\ d \in MountSteps /\ d.do = "await" /\ ~Ends(d)
      /\ Runs(MountLinks, b, Command(cmd, arg), d)
  BY <1>1, MountWaits
<1> HIDE DEF b, d
<1>3. Runs(MountLinks, s, p \o Command(cmd, arg), d)  BY <1>2, MountJoin DEF Open
<1> QED  BY <1>2, <1>3 DEF Open, d

LEMMA AddStep ==
  ASSUME NEW s, NEW a, NEW p, Runs(MountLinks, s, p, a), Open(a), NEW x \in MountSteps,
         x.do \notin {"prepare", "issue", "await", "attempt", "clear"}
  PROVE  Runs(MountLinks, s, p \o <<x>>, x)
<1>1. x \in AllSteps  BY DEF MountSteps
<1>2. Runs(MountLinks, x, <<x>>, x)  BY <1>1, One
<1> QED  BY <1>2, MountJoin DEF Open

LEMMA AppRuns ==
  ASSUME NEW cmd \in MountCommands \ {"GO_IDLE_STATE", "SEND_IF_COND"}, NEW arg \in Nat
  PROVE  /\ Runs(MountLinks, Wait("prepare", "APP_CMD", 0), App(cmd, arg), Wait("await", cmd, arg))
         /\ Open(Wait("await", cmd, arg))
         /\ LET a == Wait("prepare", "APP_CMD", 0)
            IN a \in MountSteps /\ a.do = "prepare" /\ a.cmd = "APP_CMD"
<1>1. "APP_CMD" \in MountCommands /\ 0 \in Nat /\ "prepare" \in Waits /\ "await" \in Waits
  BY DEF MountCommands, Commands, Moves, Multiple, Waits
<1> DEFINE a == Wait("await", "APP_CMD", 0)
           b == Wait("prepare", "APP_CMD", 0)
<1>2. a \in MountSteps /\ a.do = "await" /\ ~Ends(a) /\ b \in MountSteps /\ b.do = "prepare" /\ b.cmd = "APP_CMD"
  BY <1>1, MountWaits
<1>3. Runs(MountLinks, b, Command("APP_CMD", 0), a)  BY <1>1, MountWaits
<1> HIDE DEF a, b
<1>4. Open(a)  BY <1>2 DEF Open
<1>5. Runs(MountLinks, b, App(cmd, arg), Wait("await", cmd, arg)) /\ Open(Wait("await", cmd, arg))
  BY <1>3, <1>4, AddCommand DEF App
<1> QED  BY <1>2, <1>5 DEF b

LEMMA AddApp ==
  ASSUME NEW s, NEW a, NEW p, Runs(MountLinks, s, p, a), Open(a),
         NEW cmd \in MountCommands \ {"GO_IDLE_STATE", "SEND_IF_COND"}, NEW arg \in Nat
  PROVE  /\ Runs(MountLinks, s, p \o App(cmd, arg), Wait("await", cmd, arg))
         /\ Open(Wait("await", cmd, arg))
<1> DEFINE b == Wait("prepare", "APP_CMD", 0)
<1>1. /\ Runs(MountLinks, b, App(cmd, arg), Wait("await", cmd, arg))
      /\ Open(Wait("await", cmd, arg)) /\ b \in MountSteps /\ b.do = "prepare" /\ b.cmd = "APP_CMD"
  BY AppRuns
<1> HIDE DEF b
<1> QED  BY <1>1, MountJoin DEF Open

LEMMA ResetRuns ==
  /\ Runs(MountLinks, Step("reset"), ResetCard, Wait("await", "GO_IDLE_STATE", 0))
  /\ Runs(MountLinks, Step("attempt"), Attempt, Wait("await", "SEND_IF_COND", 0))
<1>1. /\ "GO_IDLE_STATE" \in MountCommands /\ "SEND_IF_COND" \in MountCommands /\ 0 \in Nat
      /\ "prepare" \in Waits /\ "await" \in Waits
  BY DEF MountCommands, Commands, Moves, Multiple, Waits
<1> DEFINE r == Step("reset")
           k == Step("clock")
           z == Step("clear")
           g == Wait("prepare", "GO_IDLE_STATE", 0)
           w == Wait("await", "GO_IDLE_STATE", 0)
           p == <<r, k, z>>
<1>2. /\ r \in MountSteps /\ r.do = "reset" /\ r.cmd = "none" /\ k \in MountSteps /\ k.do = "clock" /\ k.cmd = "none"
      /\ z \in MountSteps /\ z.do = "clear"
  BY MountPlain
<1>3. g \in MountSteps /\ g.do = "prepare" /\ g.cmd = "GO_IDLE_STATE" /\ w \in MountSteps /\ w.do = "await" /\ ~Ends(w)
  BY <1>1, MountWaits
<1>4. Runs(MountLinks, g, Command("GO_IDLE_STATE", 0), w)  BY <1>1, MountWaits
<1> HIDE DEF r, k, z, g, w
<1>5. r \in AllSteps /\ k \in AllSteps /\ z \in AllSteps /\ g \in AllSteps
  BY <1>2, <1>3 DEF MountSteps
<1>6. <<r, k>> \in MountLinks  BY <1>2, MountFree DEF Ends
<1>7. <<k, z>> \in MountLinks  BY <1>2, <1>5, FreeLink, MountIs DEF Ends
<1>8. <<z, g>> \in MountLinks  BY <1>2, <1>3, <1>5, FreeLink, MountIs DEF Ends
<1>9. Runs(MountLinks, r, p, z)
  <2>1. p \in Seq(AllSteps) /\ Len(p) = 3 /\ p[1] = r /\ p[2] = k /\ p[3] = z  BY <1>5
  <2> HIDE DEF p
  <2>2. \A i \in 1..2 : <<p[i], p[i + 1]>> \in MountLinks  BY <1>6, <1>7, <2>1
  <2> QED  BY <2>1, <2>2 DEF Runs, Linked
<1> HIDE DEF p
<1>10. Runs(MountLinks, r, p \o Command("GO_IDLE_STATE", 0), w)  BY <1>4, <1>8, <1>9, Join
<1>11. Runs(MountLinks, r, ResetCard, w)  BY <1>10 DEF ResetCard, p, r, k, z
<1> DEFINE t == Step("attempt")
           i == Wait("prepare", "SEND_IF_COND", 0)
<1>12. t \in MountSteps /\ t.do = "attempt"  BY MountPlain
<1>13. i \in MountSteps /\ i.do = "prepare" /\ i.cmd = "SEND_IF_COND"  BY <1>1, MountWaits
<1>14. Runs(MountLinks, i, Command("SEND_IF_COND", 0), Wait("await", "SEND_IF_COND", 0))
  BY <1>1, MountWaits
<1> HIDE DEF t, i
<1>15. t \in AllSteps  BY <1>12 DEF MountSteps
<1>16. <<t, r>> \in MountLinks  BY <1>2, <1>5, <1>12, <1>15, FreeLink, MountIs DEF Ends
<1>17. Runs(MountLinks, t, <<t>>, t)  BY <1>15, One
<1>18. Runs(MountLinks, t, <<t>> \o ResetCard, w)  BY <1>11, <1>16, <1>17, Join
<1>19. Runs(MountLinks, t, (<<t>> \o ResetCard) \o Command("SEND_IF_COND", 0), Wait("await", "SEND_IF_COND", 0))
  BY <1>3, <1>13, <1>14, <1>18, MountJoin
<1>20. Runs(MountLinks, t, Attempt, Wait("await", "SEND_IF_COND", 0))  BY <1>19 DEF Attempt, t
<1> QED  BY <1>11, <1>20 DEF r, w, t

LEMMA OpCondRuns ==
  ASSUME NEW hcs \in Commands \cup {"none", "HC", "SC"}, NEW n \in Nat
  PROVE  LET x == [With("opcond", n) EXCEPT !.cmd = hcs]
         IN /\ Runs(MountLinks, Wait("prepare", "APP_CMD", 0), OpCond(hcs, n), x)
            /\ Open(x)
<1> DEFINE x == [With("opcond", n) EXCEPT !.cmd = hcs]
           arg == IF hcs = "HC" THEN 1 ELSE 0
<1>1. x \in MountSteps /\ x.do = "opcond" /\ x.cmd = hcs
  <2>1. With("opcond", n) = [do |-> "opcond", via |-> "SDCard", cmd |-> "none", arg |-> n]
    BY StepFields
  <2>2. x = [do |-> "opcond", via |-> "SDCard", cmd |-> hcs, arg |-> n]  BY <2>1
  <2>3. x \in AllSteps  BY <2>2 DEF AllSteps, Dos, Looks, Waits
  <2> QED  BY <2>2, <2>3 DEF MountSteps, Waits
<1>2. "OP_COND" \in MountCommands \ {"GO_IDLE_STATE", "SEND_IF_COND"} /\ arg \in Nat
  BY DEF MountCommands, Commands, Moves, Multiple
<1>3. /\ Runs(MountLinks, Wait("prepare", "APP_CMD", 0), App("OP_COND", arg), Wait("await", "OP_COND", arg))
      /\ Open(Wait("await", "OP_COND", arg))
  BY <1>2, AppRuns
<1>4. OpCond(hcs, n) = App("OP_COND", arg) \o <<x>>  BY DEF OpCond
<1> HIDE DEF x, arg
<1>5. Runs(MountLinks, Wait("prepare", "APP_CMD", 0), OpCond(hcs, n), x)
  BY <1>1, <1>3, <1>4, AddStep
<1>6. Open(x)  BY <1>1 DEF Open, Ends
<1> QED  BY <1>5, <1>6 DEF x

LEMMA IdentifyRuns ==
  LET a == Wait("prepare", "ALL_SEND_CID", 0)
  IN /\ Runs(MountLinks, a, Identify, Step("scr"))
     /\ a \in MountSteps /\ a.do = "prepare" /\ a.cmd = "ALL_SEND_CID"
<1>1. /\ \A q \in {"ALL_SEND_CID", "SEND_REL_ADDR", "SEND_CSD", "CARD_SELECT", "SEND_SCR"} :
           q \in MountCommands \ {"GO_IDLE_STATE", "SEND_IF_COND"}
      /\ 0 \in Nat /\ "prepare" \in Waits /\ "await" \in Waits
  BY DEF MountCommands, Commands, Moves, Multiple, Waits
<1> DEFINE s == Wait("prepare", "ALL_SEND_CID", 0)
           d == Wait("await", "ALL_SEND_CID", 0)
           k == Step("clock")
           t == Step("data")
           w == With("count", 1)
           z == Step("scr")
           c1 == Command("ALL_SEND_CID", 0)
           c2 == c1 \o Command("SEND_REL_ADDR", 0)
           c3 == c2 \o Command("SEND_CSD", 0)
           c4 == (c3 \o <<k>>) \o Command("CARD_SELECT", 0)
           tw == <<t, w>>
           c5 == (c4 \o tw) \o App("SEND_SCR", 0)
<1>2. /\ k \in MountSteps /\ k.do = "clock" /\ k.cmd = "none" /\ t \in MountSteps /\ t.do = "data" /\ t.cmd = "none"
      /\ z \in MountSteps /\ z.do = "scr" /\ z.cmd = "none"
  BY MountPlain
<1>3. w \in MountSteps /\ w.do = "count" /\ w.cmd = "none"
  <2>1. w = [do |-> "count", via |-> "SDCard", cmd |-> "none", arg |-> 1]  BY StepFields
  <2>2. w \in AllSteps  BY PlainSteps
  <2> QED  BY <2>1, <2>2 DEF MountSteps, Waits
<1>4. /\ s \in MountSteps /\ s.do = "prepare" /\ s.cmd = "ALL_SEND_CID"
      /\ d \in MountSteps /\ d.do = "await" /\ ~Ends(d)
  BY <1>1, MountWaits
<1>5. Identify = (c5 \o <<z>>)  BY DEF Identify
<1>6. Runs(MountLinks, s, c1, d)  BY <1>1, MountWaits
<1> HIDE DEF s, d, k, t, w, z, c1
<1>7. Open(d) /\ Open(k) /\ Open(t) /\ Open(w)  BY <1>2, <1>3, <1>4 DEF Open, Ends
<1>8. /\ Runs(MountLinks, s, c2, Wait("await", "SEND_REL_ADDR", 0))
      /\ Open(Wait("await", "SEND_REL_ADDR", 0))
  BY <1>1, <1>6, <1>7, AddCommand
<1> HIDE DEF c2
<1>9. Runs(MountLinks, s, c3, Wait("await", "SEND_CSD", 0)) /\ Open(Wait("await", "SEND_CSD", 0))
  BY <1>1, <1>8, AddCommand
<1> HIDE DEF c3
<1>11. Runs(MountLinks, s, c3 \o <<k>>, k)  BY <1>2, <1>9, AddStep
<1>12. Runs(MountLinks, s, c4, Wait("await", "CARD_SELECT", 0)) /\ Open(Wait("await", "CARD_SELECT", 0))
  BY <1>1, <1>7, <1>11, AddCommand
<1> HIDE DEF c4
<1>13. Runs(MountLinks, t, tw, w)
  <2>1. tw = <<t>> \o <<w>>  BY Two
  <2>2. t \in AllSteps  BY <1>2 DEF MountSteps
  <2>3. Runs(MountLinks, t, <<t>>, t)  BY <2>2, One
  <2> QED  BY <1>3, <1>7, <2>1, <2>3, AddStep
<1> HIDE DEF tw
<1>14. Runs(MountLinks, s, c4 \o tw, w)  BY <1>2, <1>12, <1>13, MountJoin DEF Open
<1>15. Runs(MountLinks, s, c5, Wait("await", "SEND_SCR", 0)) /\ Open(Wait("await", "SEND_SCR", 0))
  BY <1>1, <1>7, <1>14, AddApp
<1> HIDE DEF c5
<1>16. Runs(MountLinks, s, c5 \o <<z>>, z)  BY <1>2, <1>15, AddStep
<1> QED  BY <1>4, <1>5, <1>16 DEF s, z

\* Every plan of mount begins and ends as it must.
MountRuns(p) == \E a, b \in MountSteps : /\ Runs(MountLinks, a, p, b) /\ Ends(b)
                                         /\ \/ a.do = "prepare" /\ a.cmd # "GO_IDLE_STATE"
                                            \/ a.do = "reset"

LEMMA NewCardRuns == Retries \in Nat => MountRuns(NewCard)
<1> SUFFICES ASSUME Retries \in Nat PROVE MountRuns(NewCard)
  OBVIOUS
<1> DEFINE x == [With("opcond", Retries) EXCEPT !.cmd = "HC"]
           a == Wait("prepare", "APP_CMD", 0)
           i == Wait("prepare", "ALL_SEND_CID", 0)
           y == Step("type2")
           z == Step("scr")
<1>1. Runs(MountLinks, a, OpCond("HC", Retries), x) /\ Open(x)  BY OpCondRuns
<1>2. Runs(MountLinks, i, Identify, z) /\ i \in MountSteps /\ i.do = "prepare" /\ i.cmd = "ALL_SEND_CID"
  BY IdentifyRuns
<1>3. /\ y \in MountSteps /\ y.do = "type2" /\ y.cmd = "none"
      /\ z \in MountSteps /\ z.do = "scr"
  BY MountPlain
<1>4. a \in MountSteps /\ a.do = "prepare" /\ a.cmd = "APP_CMD"
  <2>1. "SEND_SCR" \in MountCommands \ {"GO_IDLE_STATE", "SEND_IF_COND"} /\ 0 \in Nat
    BY DEF MountCommands, Commands, Moves, Multiple
  <2> QED  BY <2>1, AppRuns
<1> HIDE DEF x, a, i, y, z
<1>5. Runs(MountLinks, a, OpCond("HC", Retries) \o <<y>>, y)  BY <1>1, <1>3, AddStep
<1>6. ~Ends(y) /\ Ends(z)  BY <1>3 DEF Ends
<1>7. Runs(MountLinks, a, (OpCond("HC", Retries) \o <<y>>) \o Identify, z)
  BY <1>2, <1>3, <1>5, <1>6, MountJoin
<1>8. NewCard = (OpCond("HC", Retries) \o <<y>>) \o Identify  BY DEF NewCard, y
<1> QED  BY <1>3, <1>4, <1>6, <1>7, <1>8 DEF MountRuns

LEMMA OldCardRuns == Retries \in Nat => MountRuns(OldCard)
<1> SUFFICES ASSUME Retries \in Nat PROVE MountRuns(OldCard)
  OBVIOUS
<1> DEFINE x == [With("opcond", Retries) EXCEPT !.cmd = "SC"]
           a == Wait("prepare", "APP_CMD", 0)
           i == Wait("prepare", "ALL_SEND_CID", 0)
           y == Step("type1")
           z == Step("scr")
           r == Step("reset")
           w == Wait("await", "GO_IDLE_STATE", 0)
           o == OpCond("SC", Retries)
           c == IF host.busy # NoCommand THEN ResetCard ELSE <<>>
<1>1. Runs(MountLinks, a, o, x) /\ Open(x)  BY OpCondRuns
<1>2. Runs(MountLinks, i, Identify, z) /\ i \in MountSteps /\ i.do = "prepare" /\ i.cmd = "ALL_SEND_CID"
  BY IdentifyRuns
<1>3. /\ y \in MountSteps /\ y.do = "type1" /\ y.cmd = "none"
      /\ z \in MountSteps /\ z.do = "scr" /\ r \in MountSteps /\ r.do = "reset"
  BY MountPlain
<1>4. a \in MountSteps /\ a.do = "prepare" /\ a.cmd = "APP_CMD"
  <2>1. "SEND_SCR" \in MountCommands \ {"GO_IDLE_STATE", "SEND_IF_COND"} /\ 0 \in Nat
    BY DEF MountCommands, Commands, Moves, Multiple
  <2> QED  BY <2>1, AppRuns
<1>5. Runs(MountLinks, r, ResetCard, w)  BY ResetRuns
<1>6. w \in MountSteps /\ w.do = "await" /\ ~Ends(w)
  <2>1. "GO_IDLE_STATE" \in MountCommands /\ 0 \in Nat /\ "await" \in Waits
    BY DEF MountCommands, Commands, Moves, Multiple, Waits
  <2> QED  BY <2>1, MountWaits
<1>7. OldCard = ((c \o o) \o <<y>>) \o Identify  BY DEF OldCard
<1> HIDE DEF x, a, i, y, z, r, w, o
<1>8. ~Ends(y) /\ Ends(z)  BY <1>3 DEF Ends
<1>9. PICK s \in MountSteps : /\ Runs(MountLinks, s, c \o o, x)
                              /\ (s.do = "prepare" /\ s.cmd # "GO_IDLE_STATE") \/ s.do = "reset"
  <2>1. CASE host.busy # NoCommand
    <3>1. Runs(MountLinks, r, c \o o, x)  BY <1>1, <1>4, <1>5, <1>6, <2>1, MountJoin
    <3> QED  BY <1>3, <3>1
  <2>2. CASE host.busy = NoCommand
    <3>1. o \in Seq(AllSteps)  BY <1>1 DEF Runs
    <3>2. <<>> \o o = o  BY <3>1
    <3>3. c \o o = o  BY <2>2, <3>2
    <3> HIDE DEF c
    <3> QED  BY <1>1, <1>4, <3>3
  <2> QED  BY <2>1, <2>2
<1> HIDE DEF c
<1>10. Runs(MountLinks, s, (c \o o) \o <<y>>, y)  BY <1>1, <1>3, <1>9, AddStep
<1>11. Runs(MountLinks, s, OldCard, z)  BY <1>2, <1>3, <1>7, <1>8, <1>10, MountJoin
<1> QED  BY <1>3, <1>8, <1>9, <1>11 DEF MountRuns

LEMMA PreparedRuns == MountRuns(Prepared)
<1>1. /\ "SET_BUS_WIDTH" \in MountCommands \ {"GO_IDLE_STATE", "SEND_IF_COND"}
      /\ "SET_BLOCKLEN" \in MountCommands \ {"GO_IDLE_STATE", "SEND_IF_COND"} /\ 2 \in Nat
      /\ "prepare" \in Waits /\ "await" \in Waits
  BY DEF MountCommands, Commands, Moves, Multiple, Waits
<1>2. Unit \in Nat  BY CardAssumption
<1> DEFINE a == Wait("prepare", "APP_CMD", 0)
           v == Wait("await", "SET_BUS_WIDTH", 2)
           l == Wait("prepare", "SET_BLOCKLEN", Unit)
           d == Wait("await", "SET_BLOCKLEN", Unit)
           f == Step("finish")
           z == Step("return")
           wide == IF kind.width = 4 THEN App("SET_BUS_WIDTH", 2) ELSE <<>>
           b == Command("SET_BLOCKLEN", Unit)
           fz == <<f, z>>
<1>3. /\ Runs(MountLinks, a, App("SET_BUS_WIDTH", 2), v) /\ Open(v)
      /\ a \in MountSteps /\ a.do = "prepare" /\ a.cmd = "APP_CMD"
  BY <1>1, AppRuns
<1>4. /\ Runs(MountLinks, l, b, d) /\ l \in MountSteps /\ l.do = "prepare" /\ l.cmd = "SET_BLOCKLEN"
      /\ d \in MountSteps /\ d.do = "await" /\ ~Ends(d)
  BY <1>1, <1>2, MountWaits
<1>5. f \in MountSteps /\ f.do = "finish" /\ f.cmd = "none" /\ z \in MountSteps /\ z.do = "return" /\ z.cmd = "none"
  BY MountPlain
<1>6. Prepared = (wide \o b) \o fz  BY DEF Prepared
<1> HIDE DEF a, v, l, d, f, z, b
<1>7. f \in AllSteps /\ z \in AllSteps /\ ~Ends(f) /\ Ends(z)  BY <1>5 DEF MountSteps, Ends
<1>8. Runs(MountLinks, f, fz, z)
  <2>1. fz = <<f>> \o <<z>>  BY Two
  <2>2. Runs(MountLinks, f, <<f>>, f) /\ Runs(MountLinks, z, <<z>>, z)  BY <1>7, One
  <2>3. <<f, z>> \in MountLinks  BY <1>5, <1>7, FreeLink, MountIs
  <2> QED  BY <2>1, <2>2, <2>3, Join
<1> HIDE DEF fz
<1>9. PICK s \in MountSteps : /\ Runs(MountLinks, s, wide \o b, d)
                              /\ s.do = "prepare" /\ s.cmd # "GO_IDLE_STATE"
  <2>1. CASE kind.width = 4
    <3>1. Runs(MountLinks, a, wide \o b, d)  BY <1>3, <1>4, <2>1, MountJoin DEF Open
    <3> QED  BY <1>3, <3>1
  <2>2. CASE kind.width # 4
    <3>1. b \in Seq(AllSteps)  BY <1>4 DEF Runs
    <3>2. <<>> \o b = b  BY <3>1
    <3>3. wide \o b = b  BY <2>2, <3>2
    <3> HIDE DEF wide
    <3> QED  BY <1>4, <3>3
  <2> QED  BY <2>1, <2>2
<1> HIDE DEF wide
<1>10. Runs(MountLinks, s, Prepared, z)  BY <1>4, <1>5, <1>6, <1>8, <1>9, MountJoin
<1> QED  BY <1>5, <1>7, <1>9, <1>10 DEF MountRuns

-----------------------------------------------------------------------------
(* The variables keep their types.                                         *)

LEMMA Dropped ==
  ASSUME NEW R, NEW p \in Seq(AllSteps), Linked(R, p), NEW k \in 2..Len(p)
  PROVE  LET q == SubSeq(p, k, Len(p))
         IN /\ q \in Seq(AllSteps) /\ q # <<>> /\ Linked(R, q)
            /\ q[1] = p[k] /\ q[Len(q)] = p[Len(p)]
            /\ k = 2 => Tail(p) = q
<1> DEFINE q == SubSeq(p, k, Len(p))
<1>1. Len(p) \in Nat /\ k \in Nat /\ k <= Len(p) /\ 2 <= k  OBVIOUS
<1>2. /\ q \in Seq(AllSteps) /\ Len(q) = Len(p) - k + 1
      /\ \A i \in 1..Len(q) : q[i] = p[k + i - 1]
  BY <1>1
<1>3. k = 2 => Tail(p) = q  BY <1>1
<1> HIDE DEF q
<1>4. q # <<>> /\ q[1] = p[k] /\ q[Len(q)] = p[Len(p)]
  <2>1. Len(q) \in Nat /\ Len(q) >= 1 /\ 1 \in 1..Len(q) /\ Len(q) \in 1..Len(q)  BY <1>1, <1>2
  <2>2. q[1] = p[k + 1 - 1] /\ q[Len(q)] = p[k + Len(q) - 1]  BY <1>2, <2>1
  <2>3. k + 1 - 1 = k /\ k + Len(q) - 1 = Len(p)  BY <1>1, <1>2
  <2>4. q # <<>>  BY <2>1
  <2> QED  BY <2>2, <2>3, <2>4
<1>5. ASSUME NEW i \in 1..Len(q) - 1 PROVE <<q[i], q[i + 1]>> \in R
  <2>1. i \in 1..Len(q) /\ i + 1 \in 1..Len(q)  BY <1>1, <1>2
  <2>2. q[i] = p[k + i - 1] /\ q[i + 1] = p[(k + i - 1) + 1]  BY <1>1, <1>2, <2>1
  <2>3. k + i - 1 \in 1..Len(p) - 1  BY <1>1, <1>2
  <2> QED  BY <2>2, <2>3 DEF Linked
<1>6. Linked(R, q)  BY <1>5 DEF Linked
<1> QED  BY <1>2, <1>3, <1>4, <1>6 DEF q

LEMMA PlanHead ==
  ASSUME NEW p, Planned(p)
  PROVE  /\ p \in Seq(AllSteps) /\ Len(p) \in Nat /\ Len(p) >= 1 /\ Head(p) = p[1] /\ Head(p) \in AllSteps
         /\ ~Ends(Head(p)) => Len(p) >= 2 /\ <<p[1], p[2]>> \in Links /\ p[2] \in AllSteps
<1>1. p \in Seq(AllSteps) /\ Len(p) \in Nat /\ Len(p) >= 1 /\ Head(p) = p[1] /\ Head(p) \in AllSteps
  BY DEF Planned
<1>2. ASSUME ~Ends(Head(p)) PROVE Len(p) >= 2 /\ <<p[1], p[2]>> \in Links /\ p[2] \in AllSteps
  <2>1. Ends(p[Len(p)])  BY DEF Planned
  <2>2. Len(p) # 1  BY <1>1, <1>2, <2>1
  <2>3. Len(p) >= 2 /\ 1 \in 1..Len(p) - 1 /\ 2 \in 1..Len(p)
    <3> DEFINE n == Len(p)
    <3>1. n \in Nat /\ n >= 1 /\ n # 1  BY <1>1, <2>2
    <3> HIDE DEF n
    <3>2. n >= 2 /\ 1 \in 1..n - 1 /\ 2 \in 1..n  BY <3>1
    <3> QED  BY <3>2 DEF n
  <2>4. <<p[1], p[1 + 1]>> \in Links  BY <2>3 DEF Planned, Linked
  <2> QED  BY <1>1, <2>3, <2>4
<1> QED  BY <1>1, <1>2

LEMMA PlanTail ==
  ASSUME NEW p, Planned(p), ~Ends(Head(p))
  PROVE  Planned(Tail(p)) /\ Tail(p) = SubSeq(p, 2, Len(p)) /\ Head(Tail(p)) = p[2]
<1>1. p \in Seq(AllSteps) /\ Len(p) \in Nat /\ Len(p) >= 2 /\ Linked(Links, p) /\ Ends(p[Len(p)])
  BY PlanHead DEF Planned
<1>2. 2 \in 2..Len(p)  BY <1>1
<1> DEFINE q == SubSeq(p, 2, Len(p))
<1>3. /\ q \in Seq(AllSteps) /\ q # <<>> /\ Linked(Links, q)
      /\ q[1] = p[2] /\ q[Len(q)] = p[Len(p)] /\ Tail(p) = q
  BY <1>1, <1>2, Dropped
<1> HIDE DEF q
<1>4. Planned(q) /\ Head(q) = p[2]  BY <1>1, <1>3 DEF Planned
<1> QED  BY <1>3, <1>4 DEF q

\* A command is given up: what is behind its answer remains.
LEMMA PlanRest ==
  ASSUME NEW p, Planned(p), Head(p).do = "prepare",
         Head(p).cmd # "SEND_IF_COND" \/ Head(p).via = "sd"
  PROVE  /\ Len(p) >= 4 /\ Planned(SubSeq(p, 4, Len(p)))
         /\ p[2] = [p[1] EXCEPT !.do = "issue"] /\ p[3] = [p[1] EXCEPT !.do = "await"]
         /\ <<p[3], p[4]>> \in Links /\ Head(SubSeq(p, 4, Len(p))) = p[4]
<1>1. /\ p \in Seq(AllSteps) /\ Len(p) \in Nat /\ Len(p) >= 1 /\ Head(p) = p[1] /\ p[1] \in AllSteps
      /\ Linked(Links, p) /\ Ends(p[Len(p)])
  BY PlanHead DEF Planned
<1>2. Len(p) >= 2 /\ <<p[1], p[2]>> \in Links /\ p[2] \in AllSteps  BY PlanHead DEF Ends
<1>3. p[2] = [p[1] EXCEPT !.do = "issue"]  BY <1>1, <1>2, LinksIs
<1>4. p[2].do = "issue" /\ p[2].cmd = p[1].cmd /\ p[2].via = p[1].via  BY <1>1, <1>3 DEF AllSteps
<1>5. Len(p) >= 3
  <2>1. ~Ends(p[2])  BY <1>4 DEF Ends
  <2> QED  BY <1>1, <1>2, <2>1
<1>6. <<p[2], p[3]>> \in Links /\ p[3] \in AllSteps
  <2>1. 2 \in 1..Len(p) - 1 /\ 3 \in 1..Len(p)  BY <1>1, <1>5
  <2>2. <<p[2], p[2 + 1]>> \in Links  BY <1>1, <2>1 DEF Linked
  <2> QED  BY <1>1, <2>1, <2>2
<1>7. p[3] = [p[2] EXCEPT !.do = "await"]  BY <1>2, <1>4, <1>6, LinksIs
<1>8. p[3].do = "await" /\ p[3].cmd = p[1].cmd /\ p[3].via = p[1].via
  BY <1>2, <1>4, <1>7 DEF AllSteps
<1>9. p[3] = [p[1] EXCEPT !.do = "await"]  BY <1>1, <1>3, <1>7 DEF AllSteps
<1>10. Len(p) >= 4
  <2>1. ~Ends(p[3])  BY <1>1, <1>8 DEF Ends, AllSteps
  <2> QED  BY <1>1, <1>5, <2>1
<1>11. <<p[3], p[4]>> \in Links
  <2>1. 3 \in 1..Len(p) - 1  BY <1>1, <1>10
  <2>2. <<p[3], p[3 + 1]>> \in Links  BY <1>1, <2>1 DEF Linked
  <2> QED  BY <2>2
<1> DEFINE q == SubSeq(p, 4, Len(p))
<1>12. q \in Seq(AllSteps) /\ q # <<>> /\ Linked(Links, q) /\ q[1] = p[4] /\ q[Len(q)] = p[Len(p)]
  <2>1. 4 \in 2..Len(p)  BY <1>1, <1>10
  <2> QED  BY <1>1, <2>1, Dropped
<1> HIDE DEF q
<1>13. Planned(q) /\ Head(q) = p[4]  BY <1>1, <1>12 DEF Planned
<1> QED  BY <1>3, <1>9, <1>10, <1>11, <1>13 DEF q

LEMMA Bounds ==
  Attempts \in Nat /\ Attempts > 0 /\ Retries \in Nat /\ Unit \in Nat /\ Unit > 0 /\ MaxFaults \in Nat
<1>1. Attempts \in Nat \ {0} /\ Retries \in Nat /\ Unit \in Nat \ {0} /\ MaxFaults \in Nat
  BY CardAssumption, Zenon
<1> QED  BY <1>1

LEMMA RequestKinds ==
  /\ Mount = [kind |-> "mount", lba |-> 0, num |-> 0, version |-> 0]
  /\ Idle = [kind |-> "none", lba |-> 0, num |-> 0, version |-> 0]
  /\ \A r \in Requests : r # Idle /\ r.kind # "none"
  /\ \A r \in Requests : /\ r.kind = "read" <=> r \in Reads
                         /\ r.kind = "write" <=> r \in Writes
                         /\ r.kind = "mount" <=> r = Mount
  /\ \A r \in Requests \cup {Idle} : r.lba \in Nat /\ r.num \in Nat /\ r.version \in Nat
<1>1. /\ Mount = [kind |-> "mount", lba |-> 0, num |-> 0, version |-> 0]
      /\ Idle = [kind |-> "none", lba |-> 0, num |-> 0, version |-> 0]
  BY DEF Mount, Idle
<1>2. Mount.kind = "mount" /\ Idle.kind = "none" /\ Mount.lba = 0 /\ Mount.num = 0 /\ Mount.version = 0
      /\ Idle.lba = 0 /\ Idle.num = 0 /\ Idle.version = 0
  BY <1>1
<1>3. \A r \in Reads : r.kind = "read" /\ r.lba \in Nat /\ r.num \in Nat /\ r.version \in Nat
  BY CardAssumption
<1>4. \A r \in Writes : r.kind = "write" /\ r.lba \in Nat /\ r.num \in Nat /\ r.version \in Nat
  BY CardAssumption
<1>5. \A r \in Requests : r \in Reads \/ r \in Writes \/ r = Mount  BY DEF Requests
<1>6. \A r \in Requests : r.kind # "none"  BY <1>2, <1>3, <1>4, <1>5
<1>7. \A r \in Requests : r # Idle  BY <1>2, <1>6
<1>8. \A r \in Requests : /\ r.kind = "read" <=> r \in Reads
                          /\ r.kind = "write" <=> r \in Writes
                          /\ r.kind = "mount" <=> r = Mount
  BY <1>2, <1>3, <1>4, <1>5
<1>9. \A r \in Requests \cup {Idle} : r.lba \in Nat /\ r.num \in Nat /\ r.version \in Nat
  BY <1>2, <1>3, <1>4, <1>5
<1> QED  BY <1>1, <1>6, <1>7, <1>8, <1>9

LEMMA AttemptPlanned == Planned(Attempt)
<1>1. Runs(MountLinks, Step("attempt"), Attempt, Wait("await", "SEND_IF_COND", 0))  BY ResetRuns
<1>2. Wait("await", "SEND_IF_COND", 0) = [do |-> "await", via |-> "SDCard", cmd |-> "SEND_IF_COND", arg |-> 0]
  BY StepFields
<1>3. MountLinks \subseteq Links  BY DEF MountLinks
<1> QED  BY <1>1, <1>2, <1>3 DEF Runs, Planned, Linked, Ends

LEMMA MountPlanned == ASSUME NEW p, MountRuns(p) PROVE Planned(p)
<1>1. MountLinks \subseteq Links  BY DEF MountLinks
<1> QED  BY <1>1 DEF MountRuns, Runs, Planned, Linked

LEMMA WritePlanned ==
  ASSUME NEW r \in Writes, TypedDriver
  PROVE  Planned(WriteBlocks(r.lba, r.num))
<1>1. driver.type \in {"UNKNOWN", "TYPE_1", "TYPE_2_SC", "TYPE_2_HC"}  BY DEF TypedDriver
<1>2. /\ Shift(r.lba) \in Nat
      /\ Runs(WriteLinks(r, Shift(r.lba)), Step("type"), WriteBlocks(r.lba, r.num), Step("return"))
  BY <1>1, WriteRuns
<1>3. Runs(Links, Step("type"), WriteBlocks(r.lba, r.num), Step("return"))
  BY <1>2, WriteLinked, Wider
<1>4. Step("return").do = "return"  BY StepFields
<1> QED  BY <1>3, <1>4 DEF Runs, Planned, Ends

LEMMA StepsPlanned ==
  ASSUME TypedDriver, NEW r \in Requests
  PROVE  Planned(Steps(r))
<1>1. r \in Reads \/ r \in Writes \/ r = Mount  BY DEF Requests
<1>2. CASE r \in Reads
  <2>1. r.kind = "read"  BY <1>2, RequestKinds
  <2> QED  BY <1>2, <2>1, ReadPlanned DEF Steps
<1>3. CASE r \in Writes
  <2>1. r.kind = "write"  BY <1>3, RequestKinds
  <2> QED  BY <1>3, <2>1, WritePlanned DEF Steps
<1>4. CASE r = Mount
  <2>1. r.kind = "mount"  BY <1>4, RequestKinds
  <2> QED  BY <2>1, AttemptPlanned DEF Steps
<1> QED  BY <1>1, <1>2, <1>3, <1>4

\* What a step does to the plans and calls.
LEMMA Onward ==
  ASSUME TypedPlans, CallTypes, NEW c \in Callers, call[c] # Idle, UNCHANGED calls,
         NEW q, Planned(q), Go(c, q)
  PROVE  TypedPlans' /\ CallTypes'
<1>1. q \in Seq(AllSteps)  BY DEF Planned
<1>2. CallTypes'  BY DEF CallTypes, calls
<1>3. todo' = [todo EXCEPT ![c] = q] /\ call' = call  BY DEF Go, calls
<1>4. todo' \in [Callers -> Seq(AllSteps)]  BY <1>1, <1>3 DEF TypedPlans
<1>5. ASSUME NEW d \in Callers PROVE IF call'[d] = Idle THEN todo'[d] = <<>> ELSE Planned(todo'[d])
  BY <1>3 DEF TypedPlans
<1> QED  BY <1>2, <1>4, <1>5 DEF TypedPlans

LEMMA Doing ==
  ASSUME TypedPlans, NEW c \in Callers, NEW do, At(c, do)
  PROVE  call[c] # Idle /\ Planned(todo[c]) /\ This(c) \in AllSteps /\ This(c).do = do
<1>1. call[c] # Idle /\ This(c).do = do  BY DEF At, This
<1>2. Planned(todo[c])  BY <1>1 DEF TypedPlans
<1> QED  BY <1>1, <1>2, PlanHead DEF This

LEMMA OnwardTail ==
  ASSUME TypedPlans, CallTypes, NEW c \in Callers, NEW do, At(c, do), ~Ends(This(c)), Goes(c)
  PROVE  TypedPlans' /\ CallTypes'
<1>1. call[c] # Idle /\ Planned(todo[c])  BY Doing
<1>2. Planned(Tail(todo[c]))  BY <1>1, PlanTail DEF This
<1> QED  BY <1>1, <1>2, Onward DEF Goes, Proceed

LEMMA Ending ==
  ASSUME TypedPlans, CallTypes, NEW c \in Callers, NEW res \in {"ok", "failed"}, End(c, res)
  PROVE  TypedPlans' /\ CallTypes'
<1>1. /\ call' = [call EXCEPT ![c] = Idle] /\ result' = [result EXCEPT ![c] = res]
      /\ todo' = [todo EXCEPT ![c] = <<>>] /\ tries' = 0
      /\ late' = IF res = "ok" THEN {} ELSE late \cup {r \in Writes : r = call[c] /\ r.num > 0}
  BY DEF End, Go
<1>2. CallTypes'
  <2>1. call' \in [Callers -> Requests \cup {Idle}] /\ result' \in [Callers -> {"none", "ok", "failed"}]
    BY <1>1 DEF CallTypes
  <2>2. late' \subseteq Writes  BY <1>1 DEF CallTypes
  <2>3. tries' \in 0..Attempts  BY <1>1, Bounds
  <2> QED  BY <2>1, <2>2, <2>3 DEF CallTypes
<1>3. todo' \in [Callers -> Seq(AllSteps)]  BY <1>1 DEF TypedPlans
<1>4. ASSUME NEW d \in Callers PROVE IF call'[d] = Idle THEN todo'[d] = <<>> ELSE Planned(todo'[d])
  BY <1>1 DEF TypedPlans, CallTypes
<1> QED  BY <1>2, <1>3, <1>4 DEF TypedPlans

LEMMA Failing ==
  ASSUME TypedPlans, CallTypes, NEW c \in Callers, FailCall(c)
  PROVE  TypedPlans' /\ CallTypes'
<1>1. CASE call[c] = Mount /\ tries > 1
  <2>1. tries' = tries - 1 /\ Go(c, Attempt) /\ call' = call /\ result' = result /\ late' = late
    BY <1>1 DEF FailCall
  <2>2. CallTypes'
    <3>1. tries' \in 0..Attempts
      <4>1. tries \in 0..Attempts  BY DEF CallTypes
      <4> QED  BY <1>1, <2>1, <4>1, Bounds
    <3> QED  BY <2>1, <3>1 DEF CallTypes
  <2>3. Planned(Attempt) /\ Attempt \in Seq(AllSteps)  BY AttemptPlanned DEF Planned
  <2>4. call[c] # Idle
    <3>1. Mount \in Requests  BY DEF Requests
    <3> QED  BY <1>1, <3>1, RequestKinds
  <2>5. todo' \in [Callers -> Seq(AllSteps)]  BY <2>1, <2>3 DEF Go, TypedPlans
  <2>6. ASSUME NEW d \in Callers PROVE IF call'[d] = Idle THEN todo'[d] = <<>> ELSE Planned(todo'[d])
    BY <2>1, <2>3, <2>4 DEF Go, TypedPlans
  <2> QED  BY <2>2, <2>5, <2>6 DEF TypedPlans
<1>2. CASE ~(call[c] = Mount /\ tries > 1)
  <2>1. End(c, "failed")  BY <1>2 DEF FailCall
  <2> QED  BY <2>1, Ending
<1> QED  BY <1>1, <1>2

LEMMA RefusedAt ==
  ASSUME TypedPlans, CallTypes, TypedDriver, NEW c \in Callers, NEW do, At(c, do), NEW res, NEW k,
         \/ do = "prepare" /\ k = 4 /\ res = "SD_BUSY"
         \/ do = "await" /\ k = 2,
         CommandFails(c, res, k)
  PROVE  TypedPlans' /\ CallTypes' /\ TypedDriver'
<1>1. call[c] # Idle /\ Planned(todo[c]) /\ This(c) \in AllSteps /\ This(c).do = do  BY Doing
<1>2. CASE ViaSd(c) \/ Tolerated(This(c).cmd, res)
  <2>1. /\ Go(c, IF This(c).cmd = "SEND_IF_COND" THEN OldCard ELSE SubSeq(todo[c], k, Len(todo[c])))
        /\ driver' = [driver EXCEPT !.sd_err = IF ViaSd(c) THEN TRUE ELSE @]
        /\ UNCHANGED calls
    BY <1>2 DEF CommandFails
  <2>2. TypedDriver'  BY <2>1 DEF TypedDriver
  <2>3. Planned(IF This(c).cmd = "SEND_IF_COND" THEN OldCard ELSE SubSeq(todo[c], k, Len(todo[c])))
    <3>1. CASE This(c).cmd = "SEND_IF_COND"
      <4>1. Retries \in Nat  BY CardAssumption
      <4> QED  BY <3>1, <4>1, OldCardRuns, MountPlanned
    <3>2. CASE This(c).cmd # "SEND_IF_COND" /\ do = "prepare"  BY <1>1, <3>2, PlanRest DEF This
    <3>3. CASE This(c).cmd # "SEND_IF_COND" /\ do = "await"
      <4>1. ~Ends(This(c))  BY <1>1, <3>3 DEF Ends
      <4> QED  BY <1>1, <3>3, <4>1, PlanTail DEF This
    <3> QED  BY <3>1, <3>2, <3>3
  <2> QED  BY <1>1, <2>1, <2>2, <2>3, Onward
<1>3. CASE ~(ViaSd(c) \/ Tolerated(This(c).cmd, res))
  <2>1. FailCall(c) /\ driver' = driver  BY <1>3 DEF CommandFails
  <2>2. TypedDriver'  BY <2>1 DEF TypedDriver
  <2> QED  BY <2>1, <2>2, Failing
<1> QED  BY <1>2, <1>3

LEMMA HostConstants ==
  /\ NoCommand \in Order /\ NoCommand.cmd = "none" /\ NoTransfer \in Moment /\ NoTransfer.dir = "none"
  /\ Empty \in Words /\ Garbage \in Words /\ Scr \in Words
  /\ HostOK(ResetHost)
<1>1. NoCommand \in Order /\ NoCommand.cmd = "none" /\ NoTransfer \in Moment /\ NoTransfer.dir = "none"
  BY DEF NoCommand, NoTransfer, Order, Moment
<1>2. Empty \in Words /\ Garbage \in Words /\ Scr \in Words  BY DEF Empty, Garbage, Scr, Words
<1>3. /\ ResetHost \in [busy : Order, arg1 : Nat, blkcnt : Nat, resp : {"ok", "error", "busy"},
                        xfer : Moment, fifo : Words]
      /\ ResetHost.busy = NoCommand /\ ResetHost.xfer = NoTransfer
  BY <1>1, <1>2 DEF ResetHost
<1> QED  BY <1>1, <1>2, <1>3 DEF HostOK

LEMMA TypedInit == Init => Typed
<1> SUFFICES ASSUME Init PROVE Typed
  OBVIOUS
<1> USE DEF Init
<1>1. TypedCard
  <2>1. Blocks \subseteq Nat  BY CardAssumption, Zenon
  <2>2. \A b \in Blocks : Content(b, 0) \in Words  BY <2>1 DEF Content, Words
  <2>3. disk \in [Blocks -> Words]  BY <2>2
  <2> QED  BY <2>3 DEF TypedCard, States
<1>2. TypedHost  BY HostConstants DEF TypedHost
<1>3. TypedDriver  BY DEF TypedDriver
<1>4. CallTypes  BY Bounds DEF CallTypes, Requests
<1>5. TypedRest
  <2>1. <<>> \in Seq(Words)  OBVIOUS
  <2>2. buffer \in [Callers -> Seq(Words)] /\ disturbed \in BOOLEAN  BY <2>1
  <2>3. faults \in 0..MaxFaults  BY Bounds
  <2> QED  BY <2>2, <2>3 DEF TypedRest
<1>6. TypedPlans
  <2>1. Planned(Attempt) /\ Attempt \in Seq(AllSteps)  BY AttemptPlanned DEF Planned
  <2>2. Mount # Idle  BY RequestKinds
  <2> QED  BY <2>1, <2>2 DEF TypedPlans
<1> QED  BY <1>1, <1>2, <1>3, <1>4, <1>5, <1>6 DEF Typed

\* A step of the driver that leaves card and controller alone.
Untouched == UNCHANGED <<disk, hardware>>
LEMMA UntouchedTypes == ASSUME TypedCard, TypedHost, Untouched PROVE TypedCard' /\ TypedHost'
  BY DEF TypedCard, TypedHost, HostOK, Untouched, hardware

LEMMA Undisturbed ==
  ASSUME TypedRest, UNCHANGED <<buffer, faults, disturbed>> PROVE TypedRest'
  BY DEF TypedRest

LEMMA FieldsKept ==
  ASSUME TypedHost, irq' \subseteq Flags,
         \/ host' = host
         \/ \E x \in Nat : host' = [host EXCEPT !.arg1 = x] \/ host' = [host EXCEPT !.blkcnt = x]
         \/ \E q \in Order : q.cmd # "none" /\ host' = [host EXCEPT !.busy = q]
         \/ \E w \in Words : host' = [host EXCEPT !.fifo = w]
  PROVE  TypedHost'
<1> USE DEF TypedHost, HostOK
<1>1. CASE host' = host  BY <1>1
<1>2. CASE \E x \in Nat : host' = [host EXCEPT !.arg1 = x] \/ host' = [host EXCEPT !.blkcnt = x]
  <2>1. PICK x \in Nat : host' = [host EXCEPT !.arg1 = x] \/ host' = [host EXCEPT !.blkcnt = x]
    BY <1>2
  <2>2. /\ host' \in [busy : Order, arg1 : Nat, blkcnt : Nat, resp : {"ok", "error", "busy"},
                      xfer : Moment, fifo : Words]
        /\ host'.busy = host.busy /\ host'.xfer = host.xfer
    BY <2>1
  <2> QED  BY <2>2
<1>3. CASE \E q \in Order : q.cmd # "none" /\ host' = [host EXCEPT !.busy = q]
  <2>1. PICK q \in Order : q.cmd # "none" /\ host' = [host EXCEPT !.busy = q]  BY <1>3
  <2>2. /\ host' \in [busy : Order, arg1 : Nat, blkcnt : Nat, resp : {"ok", "error", "busy"},
                      xfer : Moment, fifo : Words]
        /\ host'.busy = q /\ host'.xfer = host.xfer
    BY <2>1
  <2> QED  BY <2>1, <2>2
<1>4. CASE \E w \in Words : host' = [host EXCEPT !.fifo = w]
  <2>1. PICK w \in Words : host' = [host EXCEPT !.fifo = w]  BY <1>4
  <2>2. /\ host' \in [busy : Order, arg1 : Nat, blkcnt : Nat, resp : {"ok", "error", "busy"},
                      xfer : Moment, fifo : Words]
        /\ host'.busy = host.busy /\ host'.xfer = host.xfer
    BY <2>1
  <2> QED  BY <2>2
<1> QED  BY <1>1, <1>2, <1>3, <1>4

\* The end of a transfer.
LEMMA EndsWell ==
  ASSUME card \in [state : States, app : BOOLEAN, checked : BOOLEAN, limit : Nat],
         NEW h, h \in [busy : Order, arg1 : Nat, blkcnt : Nat, resp : {"ok", "error", "busy"},
                       xfer : Moment, fifo : Words],
         h.busy.cmd = "none" => h.busy = NoCommand,
         h.xfer.dir # "none",
         h.xfer.dir = "write" => h.xfer.left > 0 \/ h.fifo = Empty,
         h.xfer.dir \in {"read", "write"} =>
           \A b \in Nat : h.xfer.at <= b /\ b < h.xfer.at + h.xfer.left => b \in Blocks,
         EndOf(h)
  PROVE  HostOK(host)' /\ card' \in [state : States, app : BOOLEAN, checked : BOOLEAN, limit : Nat]
<1>1. host' = After(h) /\ card' = [card EXCEPT !.state = IF Finished(h) /\ h.xfer.auto /\ @ = "data"
                                              THEN "tran" ELSE @]
  BY DEF EndOf
<1>2. card' \in [state : States, app : BOOLEAN, checked : BOOLEAN, limit : Nat]  BY <1>1 DEF States
<1>3. CASE Finished(h)
  <2>1. host' = [h EXCEPT !.xfer = NoTransfer]  BY <1>1, <1>3 DEF After
  <2>2. /\ host' \in [busy : Order, arg1 : Nat, blkcnt : Nat, resp : {"ok", "error", "busy"},
                      xfer : Moment, fifo : Words]
        /\ host'.busy = h.busy /\ host'.xfer = NoTransfer
    BY <2>1, HostConstants
  <2> QED  BY <1>2, <2>2, HostConstants DEF HostOK
<1>4. CASE ~Finished(h)
  <2>1. host' = h  BY <1>1, <1>4 DEF After
  <2>2. h.xfer.dir = "write" => h.xfer.left > 0
    <3>1. h.xfer.left \in Nat  BY DEF Moment
    <3> QED  BY <1>4, <3>1 DEF Finished
  <2> QED  BY <1>2, <2>1, <2>2 DEF HostOK
<1> QED  BY <1>3, <1>4

LEMMA EndTypes ==
  ASSUME TypedCard, NEW h, h \in [busy : Order, arg1 : Nat, blkcnt : Nat, resp : {"ok", "error", "busy"},
                                  xfer : Moment, fifo : Words],
         h.busy.cmd = "none" => h.busy = NoCommand,
         h.xfer.dir # "none",
         h.xfer.dir = "write" => h.xfer.left > 0 \/ h.fifo = Empty,
         h.xfer.dir \in {"read", "write"} =>
           \A b \in Nat : h.xfer.at <= b /\ b < h.xfer.at + h.xfer.left => b \in Blocks,
         EndOf(h), UNCHANGED <<disk, kind, hung>>, irq' \subseteq Flags
  PROVE  TypedHost' /\ TypedCard'
<1>1. HostOK(host)' /\ card' \in [state : States, app : BOOLEAN, checked : BOOLEAN, limit : Nat]
  BY EndsWell DEF TypedCard
<1> QED  BY <1>1 DEF TypedHost, TypedCard

LEMMA TypedWaits ==
  ASSUME Typed, NEW c \in Callers, Prepare(c) \/ Issue(c) \/ Await(c)
  PROVE  Typed'
<1> USE DEF Typed
<1>1. CASE Prepare(c)
  <2>1. /\ At(c, "prepare") /\ UNCHANGED <<disk, kind, card, hung, buffer, faults, disturbed>>
        /\ \/ /\ irq' = {} /\ host' = [host EXCEPT !.arg1 = This(c).arg]
              /\ driver' = [driver EXCEPT !.sd_err = IF ViaSd(c) THEN FALSE ELSE @]
              /\ Goes(c)
           \/ CommandFails(c, "SD_BUSY", 4) /\ UNCHANGED <<irq, host>>
    BY <1>1 DEF Prepare
  <2>2. TypedCard' /\ TypedRest'  BY <2>1 DEF TypedCard, TypedRest
  <2>3. This(c) \in AllSteps /\ This(c).do = "prepare"  BY <2>1, Doing
  <2>4. CASE /\ irq' = {} /\ host' = [host EXCEPT !.arg1 = This(c).arg]
             /\ driver' = [driver EXCEPT !.sd_err = IF ViaSd(c) THEN FALSE ELSE @]
             /\ Goes(c)
    <3>1. TypedDriver'  BY <2>4 DEF TypedDriver
    <3>2. This(c).arg \in Nat  BY <2>3 DEF AllSteps
    <3>3. TypedHost'  BY <2>4, <3>2, FieldsKept
    <3>4. TypedPlans' /\ CallTypes'  BY <2>1, <2>3, <2>4, OnwardTail DEF Ends
    <3> QED  BY <2>2, <3>1, <3>3, <3>4
  <2>5. CASE CommandFails(c, "SD_BUSY", 4) /\ UNCHANGED <<irq, host>>
    <3>1. TypedPlans' /\ CallTypes' /\ TypedDriver'  BY <2>1, <2>5, RefusedAt
    <3>2. TypedHost'  BY <2>5 DEF TypedHost, HostOK
    <3> QED  BY <2>2, <3>1, <3>2
  <2> QED  BY <2>1, <2>4, <2>5
<1>2. CASE Issue(c)
  <2>1. /\ At(c, "issue") /\ Goes(c)
        /\ UNCHANGED <<disk, kind, card, hung, irq, driver, buffer, faults, disturbed>>
        /\ host' = [host EXCEPT !.busy = [cmd |-> This(c).cmd, arg |-> host.arg1, count |-> host.blkcnt]]
    BY <1>2 DEF Issue
  <2>2. TypedCard' /\ TypedRest' /\ TypedDriver'  BY <2>1 DEF TypedCard, TypedRest, TypedDriver
  <2>3. This(c) \in AllSteps /\ This(c).do = "issue"  BY <2>1, Doing
  <2>4. TypedPlans' /\ CallTypes'  BY <2>1, <2>3, OnwardTail DEF Ends
  <2> DEFINE q == [cmd |-> This(c).cmd, arg |-> host.arg1, count |-> host.blkcnt]
  <2>5. This(c).cmd \in Commands  BY <2>3 DEF AllSteps, Waits
  <2>6. This(c).cmd # "none"  BY <2>5 DEF Commands
  <2>7. q \in Order /\ q.cmd # "none"  BY <2>5, <2>6 DEF TypedHost, HostOK, Order
  <2>8. irq' \subseteq Flags  BY <2>1 DEF TypedHost
  <2> HIDE DEF q
  <2>9. host' = [host EXCEPT !.busy = q]  BY <2>1 DEF q
  <2>10. TypedHost'  BY <2>7, <2>8, <2>9, FieldsKept
  <2> QED  BY <2>2, <2>4, <2>10
<1>3. CASE Await(c)
  <2>1. /\ At(c, "await") /\ Cleared("CMD_DONE")
        /\ UNCHANGED <<disk, kind, card, hung, host, buffer, faults, disturbed>>
        /\ \/ Answered(c)
           \/ CommandFails(c, Waited("CMD_DONE"), 2)
    BY <1>3 DEF Await
  <2>2. TypedCard' /\ TypedRest'  BY <2>1 DEF TypedCard, TypedRest
  <2>3. TypedHost'  BY <2>1 DEF TypedHost, HostOK, Cleared
  <2>4. This(c) \in AllSteps /\ This(c).do = "await" /\ call[c] # Idle /\ Planned(todo[c])
    BY <2>1, Doing
  <2>5. CASE \E res : CommandFails(c, res, 2)  BY <2>1, <2>2, <2>3, <2>5, RefusedAt
  <2>6. CASE Answered(c) /\ ~CommandFails(c, "R1", 2)
    <3>1. /\ Go(c, IF This(c).cmd = "SEND_IF_COND" THEN NewCard ELSE Tail(todo[c]))
          /\ driver' = Noted(This(c).cmd)
          /\ UNCHANGED calls
      BY <2>6 DEF Answered
    <3>2. TypedDriver'
      <4>1. PICK b \in BOOLEAN : b = (host.resp = "ok")  OBVIOUS
      <4>2. driver' \in {[driver EXCEPT !.rca = TRUE], [driver EXCEPT !.ocr = b], driver}
        BY <3>1, <4>1 DEF Noted
      <4> QED  BY <4>2 DEF TypedDriver
    <3>3. Planned(IF This(c).cmd = "SEND_IF_COND" THEN NewCard ELSE Tail(todo[c]))
      <4>1. CASE This(c).cmd = "SEND_IF_COND"  BY <4>1, Bounds, NewCardRuns, MountPlanned
      <4>2. CASE This(c).cmd # "SEND_IF_COND"  BY <2>4, <4>2, PlanTail DEF This, Ends
      <4> QED  BY <4>1, <4>2
    <3> QED  BY <2>2, <2>3, <2>4, <3>1, <3>2, <3>3, Onward
  <2> QED  BY <2>1, <2>5, <2>6
<1> QED  BY <1>1, <1>2, <1>3

LEMMA FailsTypes ==
  ASSUME TypedPlans, CallTypes, TypedDriver, NEW c \in Callers, Fails(c)
  PROVE  TypedPlans' /\ CallTypes' /\ TypedDriver'
<1>1. FailCall(c) /\ driver' = [driver EXCEPT !.sd_err = IF ViaSd(c) THEN TRUE ELSE @]  BY DEF Fails
<1>2. TypedDriver'  BY <1>1 DEF TypedDriver
<1> QED  BY <1>1, <1>2, Failing

LEMMA TypedData ==
  ASSUME Typed, NEW c \in Callers, WaitData(c) \/ SetCount(c) \/ WaitDone(c)
  PROVE  Typed'
<1> USE DEF Typed
<1>1. CASE WaitData(c)
  <2>1. /\ At(c, "data") /\ UNCHANGED <<disk, hardware, buffer, faults, disturbed>>
        /\ (Goes(c) /\ UNCHANGED driver) \/ Fails(c)
    BY <1>1 DEF WaitData
  <2>2. TypedCard' /\ TypedHost' /\ TypedRest'  BY <2>1, UntouchedTypes, Undisturbed DEF Untouched
  <2>3. CASE Goes(c) /\ UNCHANGED driver
    <3>1. TypedDriver'  BY <2>3 DEF TypedDriver
    <3>2. This(c).do = "data"  BY <2>1, Doing
    <3> QED  BY <2>1, <2>2, <2>3, <3>1, <3>2, OnwardTail DEF Ends
  <2>4. CASE Fails(c)  BY <2>2, <2>4, FailsTypes
  <2> QED  BY <2>1, <2>3, <2>4
<1>2. CASE SetCount(c)
  <2>1. /\ At(c, "count") /\ host' = [host EXCEPT !.blkcnt = This(c).arg] /\ Goes(c)
        /\ UNCHANGED <<disk, kind, card, hung, irq, driver, buffer, faults, disturbed>>
    BY <1>2 DEF SetCount
  <2>2. TypedCard' /\ TypedRest' /\ TypedDriver'  BY <2>1 DEF TypedCard, TypedRest, TypedDriver
  <2>3. This(c) \in AllSteps /\ This(c).do = "count"  BY <2>1, Doing
  <2>4. This(c).arg \in Nat /\ irq' \subseteq Flags  BY <2>1, <2>3 DEF AllSteps, TypedHost
  <2>5. TypedHost'  BY <2>1, <2>4, FieldsKept
  <2> QED  BY <2>1, <2>2, <2>3, <2>5, OnwardTail DEF Ends
<1>3. CASE WaitDone(c)
  <2>1. /\ At(c, "done") /\ Cleared("DATA_DONE") /\ (Goes(c) \/ FailCall(c))
        /\ UNCHANGED <<disk, kind, card, hung, host, driver, buffer, faults, disturbed>>
    BY <1>3 DEF WaitDone
  <2>2. TypedCard' /\ TypedRest' /\ TypedDriver' /\ TypedHost'
    BY <2>1 DEF TypedCard, TypedRest, TypedDriver, TypedHost, HostOK, Cleared
  <2>3. CASE Goes(c)
    <3>1. This(c).do = "done"  BY <2>1, Doing
    <3> QED  BY <2>1, <2>2, <2>3, <3>1, OnwardTail DEF Ends
  <2>4. CASE FailCall(c)  BY <2>2, <2>4, Failing
  <2> QED  BY <2>1, <2>3, <2>4
<1> QED  BY <1>1, <1>2, <1>3

LEMMA TypedReady ==
  ASSUME Typed, NEW c \in Callers, Ready(c)
  PROVE  Typed'
<1> USE DEF Typed
<1>1. /\ At(c, "ready") /\ UNCHANGED <<disk, kind, hung, faults, disturbed>>
      /\ \/ Copied(c) /\ Goes(c) /\ UNCHANGED driver
         \/ Fails(c) /\ irq' = {} /\ UNCHANGED <<host, card, buffer>>
  BY DEF Ready
<1>2. This(c) \in AllSteps /\ This(c).do = "ready" /\ This(c).arg \in Nat
  BY <1>1, Doing DEF AllSteps
<1>3. CASE Fails(c) /\ irq' = {} /\ UNCHANGED <<host, card, buffer>>
  <2>1. TypedCard' /\ TypedRest' /\ TypedHost'
    BY <1>1, <1>3 DEF TypedCard, TypedRest, TypedHost, HostOK
  <2> QED  BY <1>3, <2>1, FailsTypes
<1>4. CASE Copied(c) /\ Goes(c) /\ UNCHANGED driver
  <2>1. TypedPlans' /\ CallTypes' /\ TypedDriver'
    BY <1>1, <1>2, <1>4, OnwardTail DEF Ends, TypedDriver
  <2>2. CASE ViaSd(c)
    <3> DEFINE h == [host EXCEPT !.fifo = Empty]
    <3>1. /\ buffer' = [buffer EXCEPT ![c] = Append(@, Got)]
          /\ IF host.xfer.dir = "read" /\ host.fifo # Empty
               THEN EndOf(h) /\ irq' = (irq \ {"READ_RDY"}) \cup DoneFlag(h)
               ELSE UNCHANGED <<host, card>> /\ irq' = irq \ {"READ_RDY"}
      BY <1>4, <2>2 DEF Copied
    <3>2. Got \in Words  BY HostConstants DEF Got, TypedHost, HostOK
    <3>3. buffer' \in [Callers -> Seq(Words)]  BY <3>1, <3>2 DEF TypedRest
    <3>4. TypedRest'  BY <1>1, <3>3 DEF TypedRest
    <3>5. irq' \subseteq Flags  BY <3>1 DEF TypedHost, DoneFlag, Flags
    <3>6. CASE host.xfer.dir = "read" /\ host.fifo # Empty
      <4>1. /\ h \in [busy : Order, arg1 : Nat, blkcnt : Nat, resp : {"ok", "error", "busy"},
                      xfer : Moment, fifo : Words]
            /\ h.busy = host.busy /\ h.xfer = host.xfer
        BY HostConstants DEF TypedHost, HostOK
      <4>2. EndOf(h)  BY <3>1, <3>6
      <4>3. /\ h.busy.cmd = "none" => h.busy = NoCommand
            /\ h.xfer.dir = "read"
            /\ \A b \in Nat : h.xfer.at <= b /\ b < h.xfer.at + h.xfer.left => b \in Blocks
        BY <3>6, <4>1 DEF TypedHost, HostOK
      <4> HIDE DEF h
      <4>4. TypedHost' /\ TypedCard'  BY <1>1, <3>5, <4>1, <4>2, <4>3, EndTypes
      <4> QED  BY <2>1, <3>4, <4>4
    <3>7. CASE ~(host.xfer.dir = "read" /\ host.fifo # Empty)
      <4>1. TypedHost' /\ TypedCard'  BY <1>1, <3>1, <3>5, <3>7 DEF TypedHost, HostOK, TypedCard
      <4> QED  BY <2>1, <3>4, <4>1
    <3> QED  BY <3>6, <3>7
  <2>3. CASE ~ViaSd(c)
    <3>1. /\ host' = IF host.xfer.dir # "write" THEN host
                     ELSE [host EXCEPT !.fifo = Content(call[c].lba + This(c).arg, call[c].version)]
          /\ irq' = irq \ {"WRITE_RDY"}
          /\ UNCHANGED <<buffer, card>>
      BY <1>4, <2>3 DEF Copied
    <3>2. TypedCard' /\ TypedRest'  BY <1>1, <3>1 DEF TypedCard, TypedRest
    <3>3. call[c].lba \in Nat /\ call[c].version \in Nat  BY RequestKinds DEF CallTypes
    <3>4. Content(call[c].lba + This(c).arg, call[c].version) \in Words
      BY <1>2, <3>3 DEF Content, Words
    <3>5. irq' \subseteq Flags  BY <3>1 DEF TypedHost
    <3>6. host' = host \/ \E w \in Words : host' = [host EXCEPT !.fifo = w]  BY <3>1, <3>4
    <3>7. TypedHost'  BY <3>5, <3>6, FieldsKept
    <3> QED  BY <2>1, <3>2, <3>7
  <2> QED  BY <2>2, <2>3
<1> QED  BY <1>1, <1>3, <1>4

LEMMA TypedLook ==
  ASSUME Typed, NEW c \in Callers, Look(c)
  PROVE  Typed'
<1> USE DEF Typed
<1>1. PICK do \in Looks :
        /\ At(c, do)
        /\ \/ Goes(c)
           \/ /\ do = "opcond" /\ This(c).arg > 0
              /\ Go(c, OpCond(This(c).cmd, This(c).arg - 1) \o Tail(todo[c]))
              /\ UNCHANGED calls
           \/ FailCall(c)
  BY DEF Look, Looks
<1>2. UNCHANGED <<disk, hardware, driver, buffer, faults, disturbed>>  BY DEF Look
<1>3. TypedCard' /\ TypedHost' /\ TypedRest' /\ TypedDriver'
  BY <1>2, UntouchedTypes, Undisturbed DEF Untouched, TypedDriver
<1>4. /\ This(c) \in AllSteps /\ This(c).do = do /\ do \in Looks /\ call[c] # Idle /\ Planned(todo[c])
      /\ ~Ends(This(c))
  BY <1>1, Doing DEF Ends, Looks
<1>5. CASE Goes(c)  BY <1>1, <1>3, <1>4, <1>5, OnwardTail
<1>6. CASE FailCall(c)  BY <1>3, <1>6, Failing
<1>7. CASE /\ do = "opcond" /\ This(c).arg > 0
           /\ Go(c, OpCond(This(c).cmd, This(c).arg - 1) \o Tail(todo[c]))
           /\ UNCHANGED calls
  <2> DEFINE p == todo[c]
             n == This(c).arg - 1
             hcs == This(c).cmd
             x == [With("opcond", n) EXCEPT !.cmd = hcs]
             a == Wait("prepare", "APP_CMD", 0)
  <2>1. Planned(OpCond(hcs, n) \o Tail(p))
    <3>1. n \in Nat /\ hcs \in Commands \cup {"none", "HC", "SC"}  BY <1>4, <1>7 DEF AllSteps
    <3>2. Runs(MountLinks, a, OpCond(hcs, n), x)  BY <3>1, OpCondRuns
    <3>3. MountLinks \subseteq Links  BY DEF MountLinks
    <3>4. Runs(Links, a, OpCond(hcs, n), x)  BY <3>2, <3>3, Wider
    <3>5. Planned(p) /\ ~Ends(Head(p)) /\ Head(p).do = "opcond"  BY <1>4, <1>7 DEF This
    <3>6. /\ Planned(Tail(p)) /\ Head(Tail(p)) = p[2] /\ p[2] \in AllSteps /\ <<p[1], p[2]>> \in Links
          /\ p[1] = Head(p) /\ p[1] \in AllSteps
      BY <3>5, PlanTail, PlanHead
    <3>7. p[2].do \notin {"issue", "await"}  BY <3>5, <3>6, LinksIs
    <3>8. x \in AllSteps /\ x.do = "opcond"
      <4>1. With("opcond", n) = [do |-> "opcond", via |-> "SDCard", cmd |-> "none", arg |-> n]
        BY StepFields
      <4>2. x = [do |-> "opcond", via |-> "SDCard", cmd |-> hcs, arg |-> n]  BY <4>1
      <4> HIDE DEF x
      <4> QED  BY <3>1, <4>2 DEF AllSteps, Dos, Looks, Waits
    <3> DEFINE q == Tail(p)
    <3>9. q \in Seq(AllSteps) /\ q # <<>> /\ Linked(Links, q) /\ Ends(q[Len(q)]) /\ q[1] = p[2]
      <4>1. Planned(q) /\ Head(q) = p[2]  BY <3>6
      <4> HIDE DEF q
      <4> QED  BY <4>1, PlanHead DEF Planned
    <3> HIDE DEF q, p, x, a
    <3>10. Runs(Links, p[2], q, q[Len(q)])  BY <3>9 DEF Runs
    <3>11. <<x, p[2]>> \in Links  BY <3>6, <3>7, <3>8, FreeLink DEF Ends
    <3>12. Runs(Links, a, OpCond(hcs, n) \o q, q[Len(q)])  BY <3>4, <3>10, <3>11, Join
    <3> QED  BY <3>9, <3>12 DEF Runs, Planned, q
  <2> QED  BY <1>3, <1>4, <1>7, <2>1, Onward
<1> QED  BY <1>1, <1>5, <1>6, <1>7

LEMMA TypedSetUp ==
  ASSUME Typed, NEW c \in Callers,
         StartAttempt(c) \/ Reset(c) \/ SetClock(c) \/ Remember(c) \/ ReadScr(c) \/ Return(c)
  PROVE  Typed'
<1> USE DEF Typed
<1>1. CASE StartAttempt(c)
  <2>1. /\ At(c, "attempt") /\ Goes(c) /\ driver' = [driver EXCEPT !.ready = FALSE]
        /\ disturbed' = (hung \/ card.state = "out")
        /\ UNCHANGED <<disk, hardware, buffer, faults>>
    BY <1>1 DEF StartAttempt
  <2>2. TypedCard' /\ TypedHost'  BY <2>1, UntouchedTypes DEF Untouched
  <2>3. TypedRest' /\ TypedDriver'  BY <2>1 DEF TypedRest, TypedDriver
  <2>4. This(c).do = "attempt"  BY <2>1, Doing
  <2> QED  BY <2>1, <2>2, <2>3, <2>4, OnwardTail DEF Ends
<1>2. CASE Reset(c)
  <2>1. /\ At(c, "reset") /\ UNCHANGED <<disk, kind, card, hung, driver, buffer, faults, disturbed>>
        /\ \/ host' = ResetHost /\ irq' = {} /\ Goes(c)
           \/ FailCall(c) /\ UNCHANGED <<irq, host>>
    BY <1>2 DEF Reset
  <2>2. TypedCard' /\ TypedRest' /\ TypedDriver'  BY <2>1 DEF TypedCard, TypedRest, TypedDriver
  <2>3. TypedHost'  BY <2>1, HostConstants DEF TypedHost, HostOK
  <2>4. CASE Goes(c)
    <3>1. This(c).do = "reset"  BY <2>1, Doing
    <3> QED  BY <2>1, <2>2, <2>3, <2>4, <3>1, OnwardTail DEF Ends
  <2>5. CASE FailCall(c)  BY <2>2, <2>3, <2>5, Failing
  <2> QED  BY <2>1, <2>4, <2>5
<1>3. CASE SetClock(c)
  <2>1. /\ At(c, "clock") /\ (Goes(c) \/ FailCall(c))
        /\ UNCHANGED <<disk, hardware, driver, buffer, faults, disturbed>>
    BY <1>3 DEF SetClock
  <2>2. TypedCard' /\ TypedHost' /\ TypedRest' /\ TypedDriver'
    BY <2>1, UntouchedTypes, Undisturbed DEF Untouched, TypedDriver
  <2>3. CASE Goes(c)
    <3>1. This(c).do = "clock"  BY <2>1, Doing
    <3> QED  BY <2>1, <2>2, <2>3, <3>1, OnwardTail DEF Ends
  <2>4. CASE FailCall(c)  BY <2>2, <2>4, Failing
  <2> QED  BY <2>1, <2>3, <2>4
<1>4. CASE Remember(c)
  <2>1. PICK do \in Notes : At(c, do) /\ driver' = Note(do, driver)  BY <1>4 DEF Remember, Notes
  <2>2. Goes(c) /\ UNCHANGED <<disk, hardware, buffer, faults, disturbed>>  BY <1>4 DEF Remember
  <2>3. TypedCard' /\ TypedHost' /\ TypedRest'  BY <2>2, UntouchedTypes, Undisturbed DEF Untouched
  <2>4. TypedDriver'
    <3>1. CASE do = "clear"  BY <2>1, <3>1 DEF Note, ClearDriver, TypedDriver
    <3>2. CASE do = "type2"  BY <2>1, <3>2 DEF Note, TypedDriver
    <3>3. CASE do = "type1"  BY <2>1, <3>3 DEF Note, TypedDriver
    <3>4. CASE do = "finish"  BY <2>1, <3>4 DEF Note, TypedDriver
    <3> QED  BY <3>1, <3>2, <3>3, <3>4 DEF Notes
  <2>5. This(c).do = do  BY <2>1, Doing
  <2> QED  BY <2>1, <2>2, <2>3, <2>4, <2>5, OnwardTail DEF Ends, Notes
<1>5. CASE ReadScr(c)
  <2>1. At(c, "scr") /\ UNCHANGED <<disk, kind, hung, buffer, faults, disturbed>>
    BY <1>5 DEF ReadScr
  <2>2. TypedRest'  BY <2>1, Undisturbed
  <2>3. call[c] # Idle  BY <2>1, Doing
  <2>4. CASE Waited("READ_RDY") = "SD_OK" /\ host.fifo = Scr
    <3> DEFINE h == [host EXCEPT !.fifo = Empty]
    <3>1. /\ driver' = [driver EXCEPT !.support = kind.support,
                                      !.count = kind.support \in {"count", "both"}]
          /\ EndOf(h) /\ irq' = (irq \ {"READ_RDY"}) \cup DoneFlag(h)
          /\ Go(c, Prepared) /\ UNCHANGED calls
      BY <1>5, <2>4 DEF ReadScr
    <3>2. TypedDriver'
      <4> DEFINE s == kind.support
                 b == s \in {"count", "both"}
      <4>1. s \in {"none", "count", "both"}  BY CardAssumption DEF TypedCard
      <4>2. b \in BOOLEAN /\ driver' = [driver EXCEPT !.support = s, !.count = b]  BY <3>1
      <4> HIDE DEF s, b
      <4>3. driver' = [x \in DOMAIN driver |-> driver'[x]]  BY <4>2 DEF TypedDriver
      <4>4. /\ DOMAIN driver = {"type", "rca", "ocr", "support", "ccs", "count", "sd_err", "ready"}
            /\ driver'.support = s /\ driver'.count = b
            /\ driver'.type = driver.type /\ driver'.rca = driver.rca /\ driver'.ocr = driver.ocr
            /\ driver'.ccs = driver.ccs /\ driver'.sd_err = driver.sd_err /\ driver'.ready = driver.ready
        BY <4>2 DEF TypedDriver
      <4> QED  BY <4>1, <4>2, <4>3, <4>4 DEF TypedDriver
    <3>3. TypedPlans' /\ CallTypes'  BY <2>3, <3>1, PreparedRuns, MountPlanned, Onward
    <3>4. irq' \subseteq Flags  BY <3>1 DEF TypedHost, DoneFlag, Flags
    <3>5. /\ h \in [busy : Order, arg1 : Nat, blkcnt : Nat, resp : {"ok", "error", "busy"},
                    xfer : Moment, fifo : Words]
          /\ h.busy = host.busy /\ h.xfer = host.xfer /\ h.fifo = Empty
      BY HostConstants DEF TypedHost, HostOK
    <3>6. CASE h.xfer.dir # "none"
      <4>1. /\ h.busy.cmd = "none" => h.busy = NoCommand
            /\ h.xfer.dir = "write" => h.xfer.left > 0 \/ h.fifo = Empty
            /\ h.xfer.dir \in {"read", "write"} =>
                 \A b \in Nat : h.xfer.at <= b /\ b < h.xfer.at + h.xfer.left => b \in Blocks
        BY <3>5 DEF TypedHost, HostOK
      <4>2. EndOf(h)  BY <3>1
      <4> HIDE DEF h
      <4>3. TypedHost' /\ TypedCard'  BY <2>1, <3>4, <3>5, <3>6, <4>1, <4>2, EndTypes
      <4> QED  BY <2>2, <3>2, <3>3, <4>3
    <3>7. CASE h.xfer.dir = "none"
      <4>1. h.xfer = NoTransfer /\ host.xfer = NoTransfer  BY <3>5, <3>7 DEF TypedHost, HostOK
      <4>2. host' = [h EXCEPT !.xfer = NoTransfer]
        <5>1. host' = After(h)  BY <3>1 DEF EndOf
        <5>2. Finished(h)  BY <3>5, <4>1 DEF Finished, NoTransfer
        <5> QED  BY <5>1, <5>2 DEF After
      <4>3. /\ host' \in [busy : Order, arg1 : Nat, blkcnt : Nat, resp : {"ok", "error", "busy"},
                          xfer : Moment, fifo : Words]
            /\ host'.busy = host.busy /\ host'.xfer = NoTransfer
        <5> HIDE DEF h
        <5> QED  BY <3>5, <4>2, HostConstants
      <4>4. TypedHost'  BY <3>4, <4>3, HostConstants DEF TypedHost, HostOK
      <4>5. TypedCard'  BY <2>1, <3>1 DEF TypedCard, EndOf, States
      <4> QED  BY <2>2, <3>2, <3>3, <4>4, <4>5
    <3> QED  BY <3>6, <3>7
  <2>5. CASE ~(Waited("READ_RDY") = "SD_OK" /\ host.fifo = Scr)
    <3>1. FailCall(c) /\ Cleared("READ_RDY") /\ UNCHANGED <<host, card, driver>>
      BY <1>5, <2>5 DEF ReadScr
    <3>2. TypedCard' /\ TypedDriver' /\ TypedHost'
      BY <2>1, <3>1 DEF TypedCard, TypedDriver, TypedHost, HostOK, Cleared
    <3> QED  BY <2>2, <3>1, <3>2, Failing
  <2> QED  BY <2>4, <2>5
<1>6. CASE Return(c)
  <2>1. End(c, "ok") /\ UNCHANGED <<disk, hardware, driver, buffer, faults, disturbed>>
    BY <1>6 DEF Return
  <2>2. TypedCard' /\ TypedHost' /\ TypedRest' /\ TypedDriver'
    BY <2>1, UntouchedTypes, Undisturbed DEF Untouched, TypedDriver
  <2> QED  BY <2>1, <2>2, Ending
<1> QED  BY <1>1, <1>2, <1>3, <1>4, <1>5, <1>6

LEMMA TypedCall ==
  ASSUME Typed, NEW c \in Callers, NEW r \in Requests, Call(c, r)
  PROVE  Typed'
<1> USE DEF Typed
<1>1. /\ call[c] = Idle
      /\ call' = [call EXCEPT ![c] = r]
      /\ todo' = [todo EXCEPT ![c] = Steps(r)]
      /\ buffer' = [d \in Callers |-> IF call[d] = Idle THEN <<>> ELSE buffer[d]]
      /\ result' = [d \in Callers |-> "none"]
      /\ tries' = IF r.kind = "mount" THEN Attempts ELSE tries
      /\ disturbed' = (disturbed \/ (r.kind = "write" /\ r.num = 0))
      /\ UNCHANGED <<disk, hardware, driver, faults, late>>
  BY DEF Call, Go
<1>2. TypedCard' /\ TypedHost' /\ TypedDriver'  BY <1>1, UntouchedTypes DEF Untouched, TypedDriver
<1>3. TypedRest'
  <2>1. <<>> \in Seq(Words)  OBVIOUS
  <2>2. buffer' \in [Callers -> Seq(Words)]  BY <1>1, <2>1 DEF TypedRest
  <2>3. disturbed' \in BOOLEAN /\ faults' \in 0..MaxFaults  BY <1>1 DEF TypedRest
  <2> QED  BY <2>2, <2>3 DEF TypedRest
<1>4. CallTypes'
  <2>1. Attempts \in 0..Attempts  BY Bounds
  <2> QED  BY <1>1, <2>1 DEF CallTypes
<1>5. Planned(Steps(r)) /\ Steps(r) \in Seq(AllSteps)  BY StepsPlanned DEF Planned
<1>6. r # Idle  BY RequestKinds
<1>7. todo' \in [Callers -> Seq(AllSteps)]  BY <1>1, <1>5 DEF TypedPlans
<1>8. ASSUME NEW d \in Callers PROVE IF call'[d] = Idle THEN todo'[d] = <<>> ELSE Planned(todo'[d])
  BY <1>1, <1>5, <1>6 DEF TypedPlans, CallTypes
<1>9. TypedPlans'  BY <1>7, <1>8 DEF TypedPlans
<1> QED  BY <1>2, <1>3, <1>4, <1>9

LEMMA TypedDrivers == ASSUME Typed, NEW c \in Callers, Driver(c) PROVE Typed'
  BY TypedWaits, TypedData, TypedReady, TypedLook, TypedSetUp DEF Driver

\* The command on its way, and what the card makes of it.
LEMMA OnTheWay == ASSUME HostOK(host), host.busy # NoCommand
                  PROVE  host.busy \in Order /\ host.busy.cmd \in Commands
  BY DEF HostOK, Order

LEMMA NextStates ==
  ASSUME TypedCard, NEW q \in Order PROVE Next_State(q) \in States
<1>1. card.state \in States  BY DEF TypedCard
<1>2. \A x \in DOMAIN Leads : Leads[x] \in States  BY DEF Leads, States
<1> QED  BY <1>1, <1>2 DEF Next_State, States

LEMMA TakenTypes ==
  ASSUME TypedCard, NEW q \in Order
  PROVE  TakenBy(q) \in [state : States, app : BOOLEAN, checked : BOOLEAN, limit : Nat]
<1> DEFINE s == Next_State(q)
           a == q.cmd = "APP_CMD"
           k == q.cmd # "GO_IDLE_STATE" /\ (card.checked \/ q.cmd = "SEND_IF_COND")
           n == IF q.cmd = "SET_BLOCKCNT" THEN q.arg ELSE 0
<1>1. s \in States  BY NextStates
<1>2. a \in BOOLEAN /\ k \in BOOLEAN  OBVIOUS
<1>3. n \in Nat  BY DEF Order
<1> HIDE DEF s, a, k, n
<1>4. [state |-> s, app |-> a, checked |-> k, limit |-> n]
      \in [state : States, app : BOOLEAN, checked : BOOLEAN, limit : Nat]
  BY <1>1, <1>2, <1>3
<1> QED  BY <1>4 DEF TakenBy, s, a, k, n

LEMMA StartSize ==
  ASSUME NEW q \in Order PROVE Start(q) \in Nat /\ Size(q) \in Nat
<1>1. q.arg \in Nat /\ q.count \in Nat  BY DEF Order
<1>2. Unit \in Nat /\ Unit > 0  BY Bounds
<1>3. q.arg \div Unit \in Nat  BY <1>1, <1>2
<1> QED  BY <1>1, <1>3 DEF Start, Size

LEMMA TransferTypes ==
  ASSUME NEW q \in Order, Begins(q), ~Misplaced(q)
  PROVE  /\ Transfer(q) \in Moment /\ Transfer(q).left > 0 /\ Transfer(q).dir # "none"
         /\ Transfer(q).dir = "write" => q.cmd \in WriteMoves
         /\ Transfer(q).dir \in {"read", "write"} =>
              \A b \in Nat : Transfer(q).at <= b /\ b < Transfer(q).at + Transfer(q).left => b \in Blocks
         /\ q.cmd \in Moves => Transfer(q).at = Start(q)
         /\ Transfer(q).left = Size(q) /\ Transfer(q).asked = FALSE
         /\ q.cmd \in {"READ_SINGLE", "READ_MULTI"} => Transfer(q).dir = "read"
<1> DEFINE d == IF q.cmd = "SEND_SCR" THEN "scr"
                ELSE IF q.cmd \in {"READ_SINGLE", "READ_MULTI"} THEN "read" ELSE "write"
           a == IF q.cmd = "SEND_SCR" THEN 0 ELSE Start(q)
           n == Size(q)
           u == q.cmd \notin Multiple \/ card.limit = Size(q)
           t == Transfer(q)
<1>1. d \in {"scr", "read", "write"} /\ a \in Nat /\ n \in Nat /\ n > 0 /\ u \in BOOLEAN
  BY StartSize DEF Begins
<1>2. t = [dir |-> d, at |-> a, left |-> n, auto |-> u, asked |-> FALSE]  BY DEF Transfer
<1>3. d \in {"read", "write"} => q.cmd \in Moves /\ a = Start(q)  BY DEF Begins
<1>4. d = "write" => q.cmd \in WriteMoves  BY DEF Begins, Moves, Multiple, WriteMoves
<1>5. q.cmd \in Moves => a = Start(q)  BY DEF Moves, Multiple
<1>6. q.cmd \in Moves => \A b \in Nat : Start(q) <= b /\ b < Start(q) + Size(q) => b \in Blocks
  <2>1. q.cmd \in Moves => (Start(q) .. Start(q) + Size(q) - 1) \subseteq Blocks  BY DEF Misplaced
  <2> QED  BY <2>1, StartSize
<1>7. q.cmd \in {"READ_SINGLE", "READ_MULTI"} => d = "read"  OBVIOUS
<1>8. d \in {"read", "write"} => \A b \in Nat : a <= b /\ b < a + n => b \in Blocks  BY <1>3, <1>6
<1>9. n = Size(q)  OBVIOUS
<1> HIDE DEF d, a, n, u, t
<1>10. t \in Moment  BY <1>1, <1>2 DEF Moment
<1>11. t.dir = d /\ t.at = a /\ t.left = n /\ t.asked = FALSE  BY <1>2
<1>12. /\ t \in Moment /\ t.left > 0 /\ t.dir # "none"
       /\ t.dir = "write" => q.cmd \in WriteMoves
       /\ t.dir \in {"read", "write"} => \A b \in Nat : t.at <= b /\ b < t.at + t.left => b \in Blocks
       /\ q.cmd \in Moves => t.at = Start(q)
       /\ t.left = Size(q) /\ t.asked = FALSE
       /\ q.cmd \in {"READ_SINGLE", "READ_MULTI"} => t.dir = "read"
  BY <1>1, <1>4, <1>5, <1>7, <1>8, <1>9, <1>10, <1>11
<1> QED  BY <1>12 DEF t

LEMMA Replied ==
  ASSUME NEW h, HostOK(h), NEW resp \in {"ok", "error", "busy"}
  PROVE  HostOK(Reply(h, resp)) /\ Reply(h, resp).busy = NoCommand /\ Reply(h, resp).xfer = h.xfer
         /\ Reply(h, resp).fifo = h.fifo /\ Reply(h, resp).arg1 = h.arg1
         /\ Reply(h, resp).blkcnt = h.blkcnt /\ Reply(h, resp).resp = resp
<1> DEFINE r == Reply(h, resp)
<1>1. h \in [busy : Order, arg1 : Nat, blkcnt : Nat, resp : {"ok", "error", "busy"},
             xfer : Moment, fifo : Words]
  BY DEF HostOK
<1>2. r = [h EXCEPT !.busy = NoCommand, !.resp = resp]  BY DEF Reply
<1> HIDE DEF r
<1>3. r = [x \in DOMAIN h |-> r[x]] /\ DOMAIN h = {"busy", "arg1", "blkcnt", "resp", "xfer", "fifo"}
  BY <1>1, <1>2
<1>4. /\ r.busy = NoCommand /\ r.xfer = h.xfer /\ r.fifo = h.fifo /\ r.arg1 = h.arg1
      /\ r.blkcnt = h.blkcnt /\ r.resp = resp
  BY <1>1, <1>2
<1>5. r \in [busy : Order, arg1 : Nat, blkcnt : Nat, resp : {"ok", "error", "busy"},
             xfer : Moment, fifo : Words]
  BY <1>1, <1>3, <1>4, HostConstants
<1>6. HostOK(r)  BY <1>4, <1>5 DEF HostOK
<1> QED  BY <1>4, <1>6 DEF r

LEMMA TypedAnswer == ASSUME Typed, Answer PROVE Typed'
<1> USE DEF Typed
<1> DEFINE q == host.busy
<1>1. q \in Order /\ q.cmd \in Commands /\ HostOK(host)  BY OnTheWay DEF TypedHost, Answer
<1>2. UNCHANGED <<disk, kind, hung, driver, caller, faults, disturbed>>  BY DEF Answer
<1>3. TypedDriver' /\ CallTypes' /\ TypedRest' /\ TypedPlans'
  BY <1>2 DEF caller, calls, TypedDriver, CallTypes, TypedRest, TypedPlans
<1>4. irq' \subseteq Flags  BY DEF Answer, TypedHost, Flags, Errors
<1>5. card' \in [state : States, app : BOOLEAN, checked : BOOLEAN, limit : Nat]
  <2>1. card' = [card EXCEPT !.app = FALSE] \/ card' = card \/ card' = TakenBy(q)  BY DEF Answer
  <2> HIDE DEF q
  <2> QED  BY <1>1, <2>1, TakenTypes DEF TypedCard
<1>6. TypedCard'  BY <1>2, <1>5 DEF TypedCard
<1>7. HostOK(host)'
  <2>1. CASE host' = Reply(host, host.resp) \/ host' = Reply(host, "error")
    <3>1. host.resp \in {"ok", "error", "busy"}  BY <1>1 DEF HostOK
    <3>2. PICK resp \in {"ok", "error", "busy"} : host' = Reply(host, resp)  BY <2>1, <3>1
    <3>3. HostOK(Reply(host, resp))  BY <1>1, Replied
    <3>4. HostOK(host')  BY <3>2, <3>3
    <3> QED  BY <3>4 DEF HostOK
  <2>2. CASE ~(host' = Reply(host, host.resp) \/ host' = Reply(host, "error"))
    <3> DEFINE resp == IF q.cmd = "OP_COND" /\ ~Powers(q) THEN "busy" ELSE "ok"
               h == Reply(host, resp)
               x == IF Begins(q) THEN Transfer(q) ELSE IF q.cmd = "STOP_TRANS" THEN NoTransfer ELSE h.xfer
    <3>1. host' = [h EXCEPT !.xfer = x] /\ ~Misplaced(q)  BY <2>2 DEF Answer
    <3>2. resp \in {"ok", "busy"}  OBVIOUS
    <3> HIDE DEF resp
    <3>3. HostOK(h) /\ h.xfer = host.xfer /\ h.busy = NoCommand  BY <1>1, <3>2, Replied
    <3> HIDE DEF h
    <3>4. /\ x \in Moment
          /\ x.dir = "none" => x = NoTransfer
          /\ x.dir = "write" => x.left > 0
          /\ x.dir \in {"read", "write"} =>
               \A b \in Nat : x.at <= b /\ b < x.at + x.left => b \in Blocks
      <4>1. CASE Begins(q)
        <5>1. x = Transfer(q)  BY <4>1
        <5> HIDE DEF x
        <5> QED  BY <1>1, <3>1, <4>1, <5>1, TransferTypes
      <4>2. CASE ~Begins(q) /\ q.cmd = "STOP_TRANS"
        <5>1. x = NoTransfer  BY <4>2
        <5> HIDE DEF x
        <5> QED  BY <5>1, HostConstants
      <4>3. CASE ~Begins(q) /\ q.cmd # "STOP_TRANS"
        <5>1. x = h.xfer  BY <4>3
        <5> HIDE DEF x
        <5> QED  BY <3>3, <5>1 DEF HostOK
      <4> QED  BY <4>1, <4>2, <4>3
    <3> HIDE DEF x, q
    <3>5. /\ host' \in [busy : Order, arg1 : Nat, blkcnt : Nat, resp : {"ok", "error", "busy"},
                        xfer : Moment, fifo : Words]
          /\ host'.xfer = x /\ host'.busy = NoCommand
      BY <3>1, <3>3, <3>4 DEF HostOK
    <3> QED  BY <3>4, <3>5, HostConstants DEF HostOK
  <2> QED  BY <2>1, <2>2
<1> QED  BY <1>3, <1>4, <1>6, <1>7 DEF TypedHost

LEMMA Sharing ==
  ASSUME UNCHANGED <<driver, caller, faults, disturbed>>, TypedDriver, CallTypes, TypedRest, TypedPlans
  PROVE  TypedDriver' /\ CallTypes' /\ TypedRest' /\ TypedPlans'
  BY DEF caller, calls, TypedDriver, CallTypes, TypedRest, TypedPlans

\* A block further, if there is one.
LEMMA MovedOn ==
  ASSUME HostOK(host), host.xfer.left > 0, NEW w \in Words
  PROVE  LET h == [Moved(host) EXCEPT !.fifo = w] IN
         /\ h \in [busy : Order, arg1 : Nat, blkcnt : Nat, resp : {"ok", "error", "busy"},
                   xfer : Moment, fifo : Words]
         /\ h.busy = host.busy /\ h.fifo = w /\ h.resp = host.resp
         /\ h.arg1 = host.arg1 /\ h.blkcnt = host.blkcnt
         /\ h.xfer = [dir |-> host.xfer.dir, at |-> host.xfer.at + 1, left |-> host.xfer.left - 1,
                      auto |-> host.xfer.auto, asked |-> FALSE]
<1> DEFINE m == Moved(host)
           x == host.xfer
           y == [dir |-> x.dir, at |-> x.at + 1, left |-> x.left - 1, auto |-> x.auto, asked |-> FALSE]
           h == [m EXCEPT !.fifo = w]
<1>1. /\ x \in Moment /\ x.left > 0
      /\ host \in [busy : Order, arg1 : Nat, blkcnt : Nat, resp : {"ok", "error", "busy"},
                   xfer : Moment, fifo : Words]
  BY DEF HostOK
<1>2. y \in Moment  BY <1>1 DEF Moment
<1>3. m = [host EXCEPT !.xfer.at = @ + 1, !.xfer.left = @ - 1, !.xfer.asked = FALSE]  BY DEF Moved
<1> HIDE DEF m
<1>4. m = [z \in DOMAIN host |-> m[z]] /\ DOMAIN host = {"busy", "arg1", "blkcnt", "resp", "xfer", "fifo"}
  BY <1>1, <1>3
<1>5. /\ m.busy = host.busy /\ m.arg1 = host.arg1 /\ m.blkcnt = host.blkcnt
      /\ m.resp = host.resp /\ m.fifo = host.fifo
  BY <1>1, <1>3
<1>6. m.xfer = y
  <2>1. m.xfer = [x EXCEPT !.at = @ + 1, !.left = @ - 1, !.asked = FALSE]  BY <1>1, <1>3
  <2> DEFINE u == m.xfer
  <2>2. u = [x EXCEPT !.at = @ + 1, !.left = @ - 1, !.asked = FALSE]  BY <2>1
  <2> HIDE DEF u, x
  <2>3. u = [z \in DOMAIN x |-> u[z]] /\ DOMAIN x = {"dir", "at", "left", "auto", "asked"}
    BY <1>1, <2>2 DEF Moment
  <2>4. u.dir = x.dir /\ u.at = x.at + 1 /\ u.left = x.left - 1 /\ u.auto = x.auto /\ u.asked = FALSE
    BY <1>1, <2>2 DEF Moment
  <2>5. u = y  BY <2>3, <2>4
  <2> QED  BY <2>5 DEF u
<1> HIDE DEF y, x
<1>7. m \in [busy : Order, arg1 : Nat, blkcnt : Nat, resp : {"ok", "error", "busy"},
             xfer : Moment, fifo : Words]
  BY <1>1, <1>2, <1>4, <1>5, <1>6
<1>8. /\ h \in [busy : Order, arg1 : Nat, blkcnt : Nat, resp : {"ok", "error", "busy"},
                xfer : Moment, fifo : Words]
      /\ h.busy = host.busy /\ h.fifo = w /\ h.resp = host.resp
      /\ h.arg1 = host.arg1 /\ h.blkcnt = host.blkcnt /\ h.xfer = y
  BY <1>5, <1>6, <1>7
<1> QED  BY <1>8 DEF h, m, x, y

LEMMA TypedMoveData == ASSUME Typed, MoveData PROVE Typed'
<1> USE DEF Typed
<1>1. /\ UNCHANGED <<kind, hung, driver, caller, faults, disturbed>> /\ HostOK(host)
      /\ irq \subseteq Flags
  BY DEF MoveData, TypedHost
<1>2. TypedDriver' /\ CallTypes' /\ TypedRest' /\ TypedPlans'  BY <1>1, Sharing
<1>3. host.xfer \in Moment /\ host.xfer.at \in Nat /\ host.xfer.left \in Nat /\ host.fifo \in Words
  BY <1>1 DEF HostOK, Moment
<1> DEFINE x == host.xfer
           w == IF x.dir = "scr" THEN Scr ELSE disk[x.at]
           onward == [dir |-> x.dir, at |-> x.at + 1, left |-> x.left - 1, auto |-> x.auto, asked |-> FALSE]
<1>4. CASE /\ host.xfer.dir \in {"read", "scr"} /\ host.xfer.left > 0
           /\ host' = [Moved(host) EXCEPT !.fifo = w]
           /\ irq' = irq \cup {"READ_RDY"} /\ UNCHANGED <<disk, card>>
  <2>1. w \in Words
    <3>1. CASE x.dir = "scr"  BY <3>1, HostConstants
    <3>2. CASE x.dir = "read"
      <4>1. x.at \in Blocks  BY <1>1, <1>3, <1>4, <3>2 DEF HostOK
      <4> QED  BY <3>2, <4>1 DEF TypedCard, Words
    <3> QED  BY <1>4, <3>1, <3>2
  <2> HIDE DEF w
  <2>2. /\ host' \in [busy : Order, arg1 : Nat, blkcnt : Nat, resp : {"ok", "error", "busy"},
                      xfer : Moment, fifo : Words]
        /\ host'.busy = host.busy /\ host'.xfer = onward
    BY <1>1, <1>4, <2>1, MovedOn
  <2>3. HostOK(host')
    <3>1. \A b \in Nat : x.at + 1 <= b /\ b < (x.at + 1) + (x.left - 1) => x.at <= b /\ b < x.at + x.left
      BY <1>3
    <3>2. onward.dir = x.dir /\ onward.at = x.at + 1 /\ onward.left = x.left - 1  OBVIOUS
    <3> HIDE DEF onward, x
    <3>3. onward.dir # "none" /\ onward.dir # "write"  BY <1>4, <3>2 DEF x
    <3>4. \A b \in Nat : onward.at <= b /\ b < onward.at + onward.left =>
            (onward.dir \in {"read", "write"} => b \in Blocks)
      BY <1>1, <3>1, <3>2 DEF HostOK, x
    <3>5. host.busy.cmd = "none" => host.busy = NoCommand  BY <1>1 DEF HostOK
    <3> QED  BY <2>2, <3>3, <3>4, <3>5 DEF HostOK
  <2>4. TypedHost'  BY <1>1, <1>4, <2>3 DEF TypedHost, HostOK, Flags
  <2>5. TypedCard'  BY <1>1, <1>4 DEF TypedCard
  <2> QED  BY <1>2, <2>4, <2>5
<1>5. CASE /\ host.xfer.dir = "write" /\ ~host.xfer.asked
           /\ host' = [host EXCEPT !.xfer.asked = TRUE]
           /\ irq' = irq \cup {"WRITE_RDY"} /\ UNCHANGED <<disk, card>>
  <2> DEFINE y == [x EXCEPT !.asked = TRUE]
  <2>1. y \in Moment /\ y.dir = x.dir /\ y.at = x.at /\ y.left = x.left  BY <1>3 DEF Moment
  <2>2. host' = [host EXCEPT !.xfer = y]  BY <1>1, <1>5 DEF HostOK
  <2> HIDE DEF y
  <2>3. /\ host' \in [busy : Order, arg1 : Nat, blkcnt : Nat, resp : {"ok", "error", "busy"},
                      xfer : Moment, fifo : Words]
        /\ host'.busy = host.busy /\ host'.xfer = y
    BY <1>1, <2>1, <2>2 DEF HostOK
  <2>4. HostOK(host')  BY <1>1, <1>5, <2>1, <2>3 DEF HostOK
  <2>5. TypedHost'  BY <1>1, <1>5, <2>4 DEF TypedHost, HostOK, Flags
  <2>6. TypedCard'  BY <1>1, <1>5 DEF TypedCard
  <2> QED  BY <1>2, <2>5, <2>6
<1>6. CASE LET h == [Moved(host) EXCEPT !.fifo = Empty] IN
           /\ host.xfer.dir = "write" /\ host.xfer.asked /\ host.fifo # Empty
           /\ disk' = [disk EXCEPT ![host.xfer.at] = host.fifo]
           /\ EndOf(h) /\ irq' = irq \cup DoneFlag(h)
  <2> DEFINE h == [Moved(host) EXCEPT !.fifo = Empty]
  <2>1. x.left > 0  BY <1>1, <1>6 DEF HostOK
  <2>2. /\ h \in [busy : Order, arg1 : Nat, blkcnt : Nat, resp : {"ok", "error", "busy"},
                  xfer : Moment, fifo : Words]
        /\ h.busy = host.busy /\ h.fifo = Empty /\ h.xfer = onward
    BY <1>1, <2>1, MovedOn, HostConstants
  <2>3. EndOf(h) /\ irq' \subseteq Flags  BY <1>1, <1>6 DEF DoneFlag, Flags
  <2> HIDE DEF h
  <2>5. disk' \in [Blocks -> Words]  BY <1>3, <1>6 DEF TypedCard
  <2>6. /\ onward.dir = "write" /\ onward.at = x.at + 1 /\ onward.left = x.left - 1
        /\ x.left \in Nat /\ x.at \in Nat
    BY <1>3, <1>6
  <2>7. \A b \in Nat : onward.at <= b /\ b < onward.at + onward.left => b \in Blocks
    <3>1. \A b \in Nat : x.at <= b /\ b < x.at + x.left => b \in Blocks  BY <1>1, <1>6 DEF HostOK
    <3> HIDE DEF onward, x
    <3>2. \A b \in Nat : onward.at <= b /\ b < onward.at + onward.left => x.at <= b /\ b < x.at + x.left
      BY <2>6
    <3> QED  BY <3>1, <3>2
  <2>8. host.busy.cmd = "none" => host.busy = NoCommand  BY <1>1 DEF HostOK
  <2> HIDE DEF onward, x
  <2>9. HostOK(host)' /\ card' \in [state : States, app : BOOLEAN, checked : BOOLEAN, limit : Nat]
    BY <1>1, <2>2, <2>3, <2>6, <2>7, <2>8, EndsWell DEF TypedCard
  <2> QED  BY <1>1, <1>2, <2>3, <2>5, <2>9 DEF TypedHost, TypedCard
<1> QED  BY <1>4, <1>5, <1>6 DEF MoveData

LEMMA TypedAborted ==
  ASSUME HostOK(host)
  PROVE  /\ HostOK(Aborted) /\ Aborted.busy = host.busy /\ Aborted.xfer = NoTransfer
         /\ Aborted.fifo = Empty /\ Aborted.arg1 = host.arg1 /\ Aborted.blkcnt = host.blkcnt
         /\ Aborted.resp = host.resp
<1> DEFINE h == [host EXCEPT !.xfer = NoTransfer]
<1>1. host \in [busy : Order, arg1 : Nat, blkcnt : Nat, resp : {"ok", "error", "busy"},
                xfer : Moment, fifo : Words]
  BY DEF HostOK
<1>2. /\ h \in [busy : Order, arg1 : Nat, blkcnt : Nat, resp : {"ok", "error", "busy"},
                xfer : Moment, fifo : Words]
      /\ h.busy = host.busy /\ h.xfer = NoTransfer /\ h.arg1 = host.arg1 /\ h.blkcnt = host.blkcnt
      /\ h.resp = host.resp
  BY <1>1, HostConstants
<1>3. Aborted = [h EXCEPT !.fifo = Empty]  BY DEF Aborted
<1> HIDE DEF h
<1>4. /\ Aborted \in [busy : Order, arg1 : Nat, blkcnt : Nat, resp : {"ok", "error", "busy"},
                      xfer : Moment, fifo : Words]
      /\ Aborted.busy = host.busy /\ Aborted.xfer = NoTransfer /\ Aborted.fifo = Empty
      /\ Aborted.arg1 = host.arg1 /\ Aborted.blkcnt = host.blkcnt /\ Aborted.resp = host.resp
  BY <1>2, <1>3, HostConstants
<1> QED  BY <1>1, <1>4, HostConstants DEF HostOK

LEMMA TypedFault ==
  ASSUME Typed, BadAnswer \/ StillBusy \/ BadData \/ Hang \/ PullOut
  PROVE  Typed'
<1> USE DEF Typed
<1>1. /\ faults < MaxFaults /\ faults' = faults + 1 /\ disturbed' = TRUE
      /\ UNCHANGED <<disk, kind, driver, caller>>
  BY DEF BadAnswer, StillBusy, BadData, Hang, PullOut, Fault
<1>2. TypedDriver' /\ CallTypes' /\ TypedPlans'
  BY <1>1 DEF caller, calls, TypedDriver, CallTypes, TypedPlans
<1>3. TypedRest'
  <2>1. faults \in 0..MaxFaults /\ MaxFaults \in Nat  BY Bounds DEF TypedRest
  <2>2. faults' \in 0..MaxFaults  BY <1>1, <2>1
  <2> QED  BY <1>1, <2>2 DEF TypedRest, caller
<1>4. HostOK(host) /\ irq \subseteq Flags /\ card \in [state : States, app : BOOLEAN, checked : BOOLEAN, limit : Nat]
  BY DEF TypedHost, TypedCard
<1>5. irq' \subseteq Flags  BY <1>4 DEF BadAnswer, StillBusy, BadData, Hang, PullOut, Flags, Errors
<1>6. hung' \in BOOLEAN  BY DEF BadAnswer, StillBusy, BadData, Hang, PullOut, TypedCard
<1>7. HostOK(host)'
  <2>1. CASE BadAnswer
    <3>1. host.resp \in {"ok", "error", "busy"} /\ host' = Reply(host, host.resp)
      BY <1>4, <2>1 DEF BadAnswer, HostOK
    <3>2. HostOK(host')  BY <1>4, <3>1, Replied
    <3> QED  BY <3>2 DEF HostOK
  <2>2. CASE StillBusy
    <3>1. HostOK(host')  BY <1>4, <2>2, Replied DEF StillBusy
    <3> QED  BY <3>1 DEF HostOK
  <2>3. CASE BadData \/ PullOut
    <3>1. HostOK(host')  BY <1>4, <2>3, TypedAborted DEF BadData, PullOut
    <3> QED  BY <3>1 DEF HostOK
  <2>4. CASE Hang  BY <1>4, <2>4 DEF Hang, HostOK
  <2> QED  BY <2>1, <2>2, <2>3, <2>4
<1>8. card' \in [state : States, app : BOOLEAN, checked : BOOLEAN, limit : Nat]
  <2>1. CASE BadAnswer
    <3>1. host.busy \in Order  BY <1>4, <2>1, OnTheWay DEF BadAnswer
    <3>2. card' = card \/ card' = TakenBy(host.busy)  BY <2>1 DEF BadAnswer
    <3> QED  BY <1>4, <3>1, <3>2, TakenTypes
  <2>2. CASE StillBusy  BY <1>4, <2>2 DEF StillBusy
  <2>3. CASE BadData  BY <1>4, <2>3 DEF BadData, States
  <2>4. CASE PullOut
    <3>1. card' = [state |-> "out", app |-> FALSE, checked |-> FALSE, limit |-> 0]
      BY <2>4 DEF PullOut
    <3> QED  BY <3>1 DEF States
  <2>5. CASE Hang  BY <1>4, <2>5 DEF Hang
  <2> QED  BY <2>1, <2>2, <2>3, <2>4, <2>5
<1>9. TypedCard'  BY <1>1, <1>6, <1>8 DEF TypedCard
<1> QED  BY <1>2, <1>3, <1>5, <1>7, <1>9 DEF TypedHost

LEMMA TypedCured == ASSUME Typed, PutIn \/ Recover PROVE Typed'
<1> USE DEF Typed
<1>1. UNCHANGED <<driver, caller, faults, disturbed>>  BY DEF PutIn, Recover
<1>2. TypedDriver' /\ CallTypes' /\ TypedRest' /\ TypedPlans'  BY <1>1, Sharing
<1>3. TypedCard'  BY DEF PutIn, Recover, TypedCard, States
<1>4. TypedHost'  BY DEF PutIn, Recover, TypedHost, HostOK
<1> QED  BY <1>2, <1>3, <1>4

LEMMA TypedStutter == ASSUME Typed, UNCHANGED vars PROVE Typed'
  BY DEF vars, hardware, caller, calls, Typed, TypedCard, TypedHost, HostOK, TypedDriver, CallTypes,
         TypedRest, TypedPlans

LEMMA TypedNext == Typed /\ [Next]_vars => Typed'
<1> SUFFICES ASSUME Typed, [Next]_vars PROVE Typed'
  OBVIOUS
<1>1. CASE \E c \in Callers : Driver(c) \/ \E r \in Requests : Call(c, r)
  BY <1>1, TypedDrivers, TypedCall
<1>2. CASE BadAnswer \/ StillBusy \/ BadData \/ Hang \/ PullOut  BY <1>2, TypedFault
<1> QED  BY <1>1, <1>2, TypedAnswer, TypedMoveData, TypedCured, TypedStutter DEF Next

LEMMA TypedAlways == Spec => []Typed
  BY TypedInit, TypedNext, PTL DEF Spec

LEMMA TypedIsTyped == Typed => CardTypeOK
<1> SUFFICES ASSUME Typed PROVE CardTypeOK
  OBVIOUS
<1>1. DOMAIN disk = Blocks /\ kind \in Kinds
      /\ card.state \in {"out", "idle", "ready", "ident", "stby", "tran", "data"}
  BY DEF Typed, TypedCard, States
<1>2. irq \subseteq {"CMD_DONE", "READ_RDY", "WRITE_RDY", "DATA_DONE"} \cup Errors
      /\ host.xfer.left >= 0 /\ host.blkcnt \in Nat
  BY DEF Typed, TypedHost, HostOK, Moment, Flags
<1>3. driver.type \in {"UNKNOWN", "TYPE_1", "TYPE_2_SC", "TYPE_2_HC"}  BY DEF Typed, TypedDriver
<1>4. ASSUME NEW c \in Callers
      PROVE  call[c] \in Requests \cup {Idle} /\ (todo[c] = <<>> <=> call[c] = Idle)
  BY DEF Typed, CallTypes, TypedPlans, Planned
<1>5. tries \in 0..Attempts /\ faults \in 0..MaxFaults  BY DEF Typed, CallTypes, TypedRest
<1> QED  BY <1>1, <1>2, <1>3, <1>4, <1>5 DEF CardTypeOK

\* The types of the card's drivers: a transfer never counts below zero and
\* stays in the card, and a call has steps to do as long as it is under way,
\* however its commands fail and its plan is changed.
THEOREM CardTypesHold == Spec => []CardTypeOK
  BY TypedAlways, TypedIsTyped, PTL

-----------------------------------------------------------------------------
(* The next step of a read and of a write.                                 *)

LEMMA SdTurn ==
  ASSUME NEW r \in Reads, NEW cmd, NEW arg, NEW s, NEW n, <<s, n>> \in SdLinks(cmd, arg),
         cmd \in {"SET_BLOCKCNT", "STOP_TRANS"} \/ (cmd = ReadCommand(r) /\ arg = r.lba)
  PROVE  ReadTurn(r, s, n)
<1>1. CASE s = Sd(Wait("prepare", cmd, arg)) /\ n = Sd(Wait("issue", cmd, arg))
  <2>1. s = [do |-> "prepare", via |-> "sd", cmd |-> cmd, arg |-> arg]
        /\ n = [do |-> "issue", via |-> "sd", cmd |-> cmd, arg |-> arg]
    BY <1>1, StepFields
  <2> QED  BY <2>1 DEF ReadTurn, NextOf
<1>2. CASE s = Sd(Wait("issue", cmd, arg)) /\ n = Sd(Wait("await", cmd, arg))
  <2>1. s = [do |-> "issue", via |-> "sd", cmd |-> cmd, arg |-> arg]
        /\ n = [do |-> "await", via |-> "sd", cmd |-> cmd, arg |-> arg]
    BY <1>2, StepFields
  <2> QED  BY <2>1 DEF ReadTurn, NextOf
<1>3. CASE s = Sd(Wait("await", cmd, arg)) /\ n = CheckOf(cmd)
  <2>1. s = [do |-> "await", via |-> "sd", cmd |-> cmd, arg |-> arg]  BY <1>3, StepFields
  <2> QED  BY <1>3, <2>1 DEF ReadTurn
<1> QED  BY <1>1, <1>2, <1>3 DEF SdLinks

LEMMA ReadTurns ==
  ASSUME NEW r \in Reads, NEW s, NEW n, <<s, n>> \in ReadLinks(r)
  PROVE  ReadTurn(r, s, n)
<1> DEFINE m == Amount(r)
<1>1. CASE <<s, n>> \in SdLinks("SET_BLOCKCNT", m) \cup SdLinks(ReadCommand(r), r.lba) \cup SdLinks("STOP_TRANS", 0)
  BY <1>1, SdTurn
<1>2. CASE s = Sd(Step("data")) /\ (n = Sd(Wait("prepare", "SET_BLOCKCNT", m)) \/ n = With("count", m))
  <2>1. s.do = "data" /\ s.cmd = "none"  BY <1>2, StepFields
  <2>2. (n.do = "prepare" /\ n.cmd = "SET_BLOCKCNT") \/ (n.do = "count" /\ n.cmd = "none")
    BY <1>2, StepFields
  <2> QED  BY <2>1, <2>2 DEF ReadTurn
<1>3. CASE s = CheckOf("SET_BLOCKCNT") /\ n = With("count", m)
  <2>1. s.do = "check" /\ s.cmd = "SET_BLOCKCNT" /\ n.do = "count" /\ n.cmd = "none"
    BY <1>3, StepFields
  <2> QED  BY <2>1 DEF ReadTurn
<1>4. CASE s = With("count", m) /\ n = Sd(Wait("prepare", ReadCommand(r), r.lba))
  <2>1. s.do = "count" /\ s.cmd = "none" /\ s.arg = m /\ n.do = "prepare" /\ n.cmd = ReadCommand(r)
    BY <1>4, StepFields
  <2> QED  BY <2>1 DEF ReadTurn
<1>5. CASE s = CheckOf(ReadCommand(r)) /\ n = Copies(0)
  <2>1. s.do = "check" /\ s.cmd = ReadCommand(r) /\ n.do = "ready" /\ n.arg = 0 /\ n.cmd = "none"
    BY <1>5, StepFields DEF Copies
  <2> QED  BY <2>1 DEF ReadTurn
<1>6. CASE s = Copies(m - 1) /\ (n = Sd(Wait("prepare", "STOP_TRANS", 0)) \/ n = Step("check"))
  <2>1. s.do = "ready" /\ s.via = "sd" /\ s.cmd = "none" /\ s.arg = m - 1
    BY <1>6, StepFields DEF Copies
  <2>2. (n.do = "prepare" /\ n.cmd = "STOP_TRANS") \/ (n.do = "check" /\ n.cmd = "none")
    BY <1>6, StepFields
  <2>3. s.arg + 1 = m  BY <2>1, ReadFacts
  <2> QED  BY <2>1, <2>2, <2>3 DEF ReadTurn
<1>7. CASE s = CheckOf("STOP_TRANS") /\ n = Step("check")
  <2>1. s.do = "check" /\ s.cmd = "STOP_TRANS" /\ n.do = "check" /\ n.cmd = "none"
    BY <1>7, StepFields
  <2> QED  BY <2>1 DEF ReadTurn
<1>8. CASE s = Step("check") /\ n = Step("return")
  <2>1. s.do = "check" /\ s.cmd = "none" /\ n.do = "return" /\ n.cmd = "none"  BY <1>8, StepFields
  <2> QED  BY <2>1 DEF ReadTurn
<1>9. CASE \E k \in 0..m - 2 : s = Copies(k) /\ n = Copies(k + 1)
  <2>1. PICK k \in 0..m - 2 : s = Copies(k) /\ n = Copies(k + 1)  BY <1>9
  <2>2. /\ s.do = "ready" /\ s.via = "sd" /\ s.cmd = "none" /\ s.arg = k
        /\ n.do = "ready" /\ n.cmd = "none" /\ n.arg = k + 1
    BY <2>1, StepFields DEF Copies
  <2>3. k + 1 < m  BY ReadFacts
  <2> QED  BY <2>2, <2>3 DEF ReadTurn
<1> QED  BY <1>1, <1>2, <1>3, <1>4, <1>5, <1>6, <1>7, <1>8, <1>9, Zenon DEF ReadLinks

LEMMA CommandTurn ==
  ASSUME NEW r, NEW a, NEW cmd, NEW arg, NEW s, NEW n, <<s, n>> \in CommandLinks(cmd, arg),
         cmd \in {"SET_BLOCKCNT", "STOP_TRANS"} \/ (cmd = WriteCommand(r) /\ arg = a)
  PROVE  WriteTurn(r, a, s, n)
<1>1. CASE s = Wait("prepare", cmd, arg) /\ n = Wait("issue", cmd, arg)
  <2>1. s = [do |-> "prepare", via |-> "SDCard", cmd |-> cmd, arg |-> arg]
        /\ n = [do |-> "issue", via |-> "SDCard", cmd |-> cmd, arg |-> arg]
    BY <1>1, StepFields
  <2> QED  BY <2>1 DEF WriteTurn, NextOf
<1>2. CASE s = Wait("issue", cmd, arg) /\ n = Wait("await", cmd, arg)
  <2>1. s = [do |-> "issue", via |-> "SDCard", cmd |-> cmd, arg |-> arg]
        /\ n = [do |-> "await", via |-> "SDCard", cmd |-> cmd, arg |-> arg]
    BY <1>2, StepFields
  <2> QED  BY <2>1 DEF WriteTurn, NextOf
<1> QED  BY <1>1, <1>2 DEF CommandLinks

LEMMA WriteTurns ==
  ASSUME NEW r \in Writes, NEW a \in Nat, NEW s, NEW n, <<s, n>> \in WriteLinks(r, a)
  PROVE  WriteTurn(r, a, s, n)
<1> DEFINE m == r.num
           first == IF m = 0 THEN Step("done") ELSE With("ready", 0)
<1>0. m \in Nat  BY RequestKinds DEF Requests
<1>1. CASE <<s, n>> \in CommandLinks("SET_BLOCKCNT", m) \cup CommandLinks(WriteCommand(r), a) \cup CommandLinks("STOP_TRANS", 0)
  BY <1>1, CommandTurn
<1>2. CASE s = Step("type") /\ n = Step("data")
  <2>1. s.do = "type" /\ s.via = "SDCard" /\ s.cmd = "none" /\ n.do = "data" /\ n.cmd = "none"
    BY <1>2, StepFields
  <2> QED  BY <2>1 DEF WriteTurn
<1>3. CASE s = Step("data") /\ (n = Wait("prepare", "SET_BLOCKCNT", m) \/ n = With("count", m))
  <2>1. s.do = "data" /\ s.via = "SDCard" /\ s.cmd = "none"  BY <1>3, StepFields
  <2>2. (n.do = "prepare" /\ n.cmd = "SET_BLOCKCNT") \/ (n.do = "count" /\ n.cmd = "none")
    BY <1>3, StepFields
  <2> QED  BY <2>1, <2>2 DEF WriteTurn
<1>4. CASE s = Wait("await", "SET_BLOCKCNT", m) /\ n = With("count", m)
  <2>1. s.do = "await" /\ s.via = "SDCard" /\ s.cmd = "SET_BLOCKCNT" /\ n.do = "count" /\ n.cmd = "none"
    BY <1>4, StepFields
  <2> QED  BY <2>1 DEF WriteTurn
<1>5. CASE s = With("count", m) /\ n = Wait("prepare", WriteCommand(r), a)
  <2>1. /\ s.do = "count" /\ s.via = "SDCard" /\ s.cmd = "none" /\ s.arg = m
        /\ n.do = "prepare" /\ n.cmd = WriteCommand(r)
    BY <1>5, StepFields
  <2> QED  BY <2>1 DEF WriteTurn
<1>6. CASE s = Wait("await", WriteCommand(r), a) /\ n = first
  <2>1. s.do = "await" /\ s.via = "SDCard" /\ s.cmd = WriteCommand(r)  BY <1>6, StepFields
  <2>2. n.cmd = "none" /\ ((m = 0 /\ n.do = "done") \/ (m > 0 /\ n.do = "ready" /\ n.arg = 0))
    <3>1. CASE m = 0  BY <1>6, <3>1, StepFields
    <3>2. CASE m # 0  BY <1>0, <1>6, <3>2, StepFields
    <3> QED  BY <3>1, <3>2
  <2> QED  BY <2>1, <2>2 DEF WriteTurn
<1>7. CASE s = Step("done") /\ (n = Wait("prepare", "STOP_TRANS", 0) \/ n = Step("return"))
  <2>1. s.do = "done" /\ s.via = "SDCard" /\ s.cmd = "none"  BY <1>7, StepFields
  <2>2. (n.do = "prepare" /\ n.cmd = "STOP_TRANS") \/ (n.do = "return" /\ n.cmd = "none")
    BY <1>7, StepFields
  <2> QED  BY <2>1, <2>2 DEF WriteTurn
<1>8. CASE s = Wait("await", "STOP_TRANS", 0) /\ n = Step("return")
  <2>1. s.do = "await" /\ s.via = "SDCard" /\ s.cmd = "STOP_TRANS" /\ n.do = "return" /\ n.cmd = "none"
    BY <1>8, StepFields
  <2> QED  BY <2>1 DEF WriteTurn
<1>9. CASE \E k \in 0..m - 1 : s = With("ready", k) /\ n = IF k + 1 < m THEN With("ready", k + 1) ELSE Step("done")
  <2>1. PICK k \in 0..m - 1 : s = With("ready", k) /\ n = IF k + 1 < m THEN With("ready", k + 1) ELSE Step("done")
    BY <1>9
  <2>2. s.do = "ready" /\ s.via = "SDCard" /\ s.cmd = "none" /\ s.arg = k  BY <2>1, StepFields
  <2>3. n.cmd = "none" /\ ((k + 1 < m /\ n.do = "ready" /\ n.arg = k + 1) \/ (k + 1 = m /\ n.do = "done"))
    <3>1. CASE k + 1 < m  BY <2>1, <3>1, StepFields
    <3>2. CASE ~(k + 1 < m)
      <4>1. k + 1 = m  BY <1>0, <3>2
      <4> QED  BY <2>1, <3>2, <4>1, StepFields
    <3> QED  BY <3>1, <3>2
  <2> QED  BY <2>2, <2>3 DEF WriteTurn
<1> QED  BY <1>1, <1>2, <1>3, <1>4, <1>5, <1>6, <1>7, <1>8, <1>9, Zenon DEF WriteLinks

-----------------------------------------------------------------------------
(* The plans are followed.                                                 *)

LEMMA NobodyCalls ==
  ASSUME \A d \in Callers : call'[d] = Idle
  PROVE  OneCall' /\ Plans' /\ Phases'
<1>1. \A d \in Callers : call'[d] \notin Requests  BY RequestKinds
<1> QED  BY <1>1 DEF OneCall, Plans, Phases

LEMMA Stops ==
  ASSUME Typed, OneCall, NEW c \in Callers, call[c] # Idle, NEW res, End(c, res)
  PROVE  OneCall' /\ Plans' /\ Phases'
<1>1. call' = [call EXCEPT ![c] = Idle] /\ call \in [Callers -> Requests \cup {Idle}]
  BY DEF End, Typed, CallTypes
<1>2. \A d \in Callers : call'[d] = Idle  BY <1>1 DEF OneCall
<1> QED  BY <1>2, NobodyCalls

\* A call goes on with the plan p, whose first step is n.
LEMMA Continues ==
  ASSUME Typed, OneCall, NEW c \in Callers, NEW r \in Requests, call[c] = r, call' = call,
         NEW p \in Seq(AllSteps), p # <<>>, Go(c, p), NEW n, n = p[1],
         Follows(r, p)', Phase(c, r, n)'
  PROVE  OneCall' /\ Plans' /\ Phases'
<1>1. call' = call /\ todo' = [todo EXCEPT ![c] = p] /\ todo \in [Callers -> Seq(AllSteps)]
  BY DEF calls, Go, Typed, TypedPlans
<1>2. r # Idle  BY RequestKinds
<1>3. \A d \in Callers : d # c => call[d] = Idle  BY <1>2 DEF OneCall
<1>4. OneCall'  BY <1>1 DEF OneCall
<1>5. Plans'
  <2>1. ASSUME NEW d \in Callers, NEW x \in Requests, call'[d] = x PROVE Follows(x, todo[d])'
    <3>1. d = c /\ x = r  BY <1>1, <1>3, <2>1, RequestKinds
    <3>2. todo'[d] = p  BY <1>1, <3>1
    <3> QED  BY <3>1, <3>2 DEF Follows
  <2> QED  BY <2>1 DEF Plans
<1>6. Phases'
  <2>1. ASSUME NEW d \in Callers, NEW x \in Requests, NEW s \in AllSteps, call'[d] = x, This(d)' = s
        PROVE  Phase(d, x, s)'
    <3>1. d = c /\ x = r  BY <1>1, <1>3, <2>1, RequestKinds
    <3>2. s = n  BY <1>1, <2>1, <3>1 DEF This
    <3> QED  BY <3>1, <3>2
  <2> QED  BY <2>1 DEF Phases
<1> QED  BY <1>4, <1>5, <1>6

LEMMA FailedStops ==
  ASSUME Typed, OneCall, NEW c \in Callers, call[c] # Idle, call[c] # Mount, FailCall(c)
  PROVE  OneCall' /\ Plans' /\ Phases' /\ End(c, "failed")
<1>1. End(c, "failed")  BY DEF FailCall
<1> QED  BY <1>1, Stops

\* What is left of a plan follows it too.
LEMMA FollowsRest ==
  ASSUME NEW r \in Reads \cup Writes, NEW p \in Seq(AllSteps), Follows(r, p), NEW k \in 2..Len(p)
  PROVE  LET q == SubSeq(p, k, Len(p))
         IN q \in Seq(AllSteps) /\ q # <<>> /\ q[1] = p[k] /\ Follows(r, q) /\ (k = 2 => Tail(p) = q)
<1> DEFINE q == SubSeq(p, k, Len(p))
<1>1. CASE r \in Reads
  <2>1. r.kind = "read"  BY <1>1, RequestKinds DEF Requests
  <2>2. Linked(ReadLinks(r), p) /\ p[Len(p)] = Step("return")  BY <2>1 DEF Follows
  <2>3. /\ q \in Seq(AllSteps) /\ q # <<>> /\ Linked(ReadLinks(r), q)
        /\ q[1] = p[k] /\ q[Len(q)] = p[Len(p)] /\ (k = 2 => Tail(p) = q)
    BY <2>2, Dropped
  <2> HIDE DEF q
  <2>4. q \in Seq(AllSteps) /\ q # <<>> /\ q[1] = p[k] /\ Follows(r, q) /\ (k = 2 => Tail(p) = q)
    BY <2>1, <2>2, <2>3 DEF Follows
  <2> QED  BY <2>4 DEF q
<1>2. CASE r \in Writes
  <2> DEFINE R == WriteLinks(r, Shift(r.lba))
  <2>1. r.kind = "write"  BY <1>2, RequestKinds DEF Requests
  <2>2. Linked(R, p) /\ p[Len(p)] = Step("return")  BY <2>1 DEF Follows
  <2> HIDE DEF R
  <2>3. /\ q \in Seq(AllSteps) /\ q # <<>> /\ Linked(R, q)
        /\ q[1] = p[k] /\ q[Len(q)] = p[Len(p)] /\ (k = 2 => Tail(p) = q)
    BY <2>2, Dropped
  <2> HIDE DEF q
  <2>4. q \in Seq(AllSteps) /\ q # <<>> /\ q[1] = p[k] /\ Follows(r, q) /\ (k = 2 => Tail(p) = q)
    BY <2>1, <2>2, <2>3 DEF Follows, R
  <2> QED  BY <2>4 DEF q
<1> QED  BY <1>1, <1>2

LEMMA AtLeastTwo == ASSUME NEW n \in Nat, n >= 1, n # 1 PROVE n >= 2 /\ 1 \in 1..n - 1 /\ 2 \in 1..n
  OBVIOUS

LEMMA ReadHead ==
  ASSUME Typed, Plans, NEW c \in Callers, NEW r \in Reads, call[c] = r
  PROVE  /\ This(c) = todo[c][1] /\ This(c) \in AllSteps /\ Planned(todo[c]) /\ Follows(r, todo[c])
         /\ \/ This(c) = Step("return")
            \/ Len(todo[c]) >= 2 /\ todo[c][2] \in AllSteps /\ ReadTurn(r, This(c), todo[c][2])
<1> DEFINE p == todo[c]
<1>1. r \in Requests /\ r.kind = "read" /\ call[c] # Idle  BY RequestKinds DEF Requests
<1>2. Planned(p) /\ Follows(r, p)  BY <1>1 DEF Typed, TypedPlans, Plans
<1>3. p \in Seq(AllSteps) /\ Len(p) \in Nat /\ Len(p) >= 1 /\ This(c) = p[1] /\ This(c) \in AllSteps
  BY <1>2, PlanHead DEF This
<1>4. Linked(ReadLinks(r), p) /\ p[Len(p)] = Step("return")  BY <1>1, <1>2 DEF Follows
<1> HIDE DEF p
<1>5. CASE Len(p) = 1  BY <1>2, <1>3, <1>4, <1>5 DEF p
<1>6. CASE Len(p) # 1
  <2>1. Len(p) >= 2 /\ 1 \in 1..Len(p) - 1 /\ 2 \in 1..Len(p)  BY <1>3, <1>6, AtLeastTwo
  <2>2. <<p[1], p[1 + 1]>> \in ReadLinks(r) /\ p[2] \in AllSteps  BY <1>3, <1>4, <2>1 DEF Linked
  <2>3. ReadTurn(r, p[1], p[2])  BY <2>2, ReadTurns
  <2> QED  BY <1>2, <1>3, <2>1, <2>2, <2>3 DEF p
<1> QED  BY <1>5, <1>6

LEMMA WriteHead ==
  ASSUME Typed, Plans, NEW c \in Callers, NEW r \in Writes, call[c] = r
  PROVE  /\ This(c) = todo[c][1] /\ This(c) \in AllSteps /\ Planned(todo[c]) /\ Follows(r, todo[c])
         /\ \/ This(c) = Step("return")
            \/ /\ Len(todo[c]) >= 2 /\ todo[c][2] \in AllSteps
               /\ WriteTurn(r, Shift(r.lba), This(c), todo[c][2])
<1> DEFINE p == todo[c]
           a == Shift(r.lba)
<1>1. r \in Requests /\ r.kind = "write" /\ call[c] # Idle  BY RequestKinds DEF Requests
<1>2. Planned(p) /\ Follows(r, p)  BY <1>1 DEF Typed, TypedPlans, Plans
<1>3. p \in Seq(AllSteps) /\ Len(p) \in Nat /\ Len(p) >= 1 /\ This(c) = p[1] /\ This(c) \in AllSteps
  BY <1>2, PlanHead DEF This
<1>4. Linked(WriteLinks(r, a), p) /\ p[Len(p)] = Step("return")  BY <1>1, <1>2 DEF Follows
<1>5. a \in Nat  BY WriteRuns DEF Typed, TypedDriver
<1> HIDE DEF p, a
<1>6. CASE Len(p) = 1  BY <1>2, <1>3, <1>4, <1>6 DEF p
<1>7. CASE Len(p) # 1
  <2>1. Len(p) >= 2 /\ 1 \in 1..Len(p) - 1 /\ 2 \in 1..Len(p)  BY <1>3, <1>7, AtLeastTwo
  <2>2. <<p[1], p[1 + 1]>> \in WriteLinks(r, a) /\ p[2] \in AllSteps  BY <1>3, <1>4, <2>1 DEF Linked
  <2>3. WriteTurn(r, a, p[1], p[2])  BY <1>5, <2>2, WriteTurns
  <2> QED  BY <1>2, <1>3, <2>1, <2>2, <2>3 DEF p, a
<1> QED  BY <1>6, <1>7

LEMMA Passes ==
  ASSUME Typed, OneCall, NEW c \in Callers, NEW r \in Reads \cup Writes, call[c] = r, UNCHANGED calls,
         driver'.type = driver.type, Follows(r, todo[c]), NEW k \in 2..Len(todo[c]),
         Go(c, SubSeq(todo[c], k, Len(todo[c]))), NEW n, n = todo[c][k], Phase(c, r, n)'
  PROVE  OneCall' /\ Plans' /\ Phases'
<1>1. r \in Requests  BY DEF Requests
<1>2. todo[c] \in Seq(AllSteps)  BY DEF Typed, TypedPlans
<1>3. PICK q : q = SubSeq(todo[c], k, Len(todo[c]))  OBVIOUS
<1>4. q \in Seq(AllSteps) /\ q # <<>> /\ q[1] = n /\ Follows(r, q)  BY <1>2, <1>3, FollowsRest
<1>5. Shift(r.lba)' = Shift(r.lba)  BY DEF Shift
<1>6. Follows(r, q)'
  <2>1. CASE r \in Reads
    <3>1. r.kind = "read"  BY <2>1, RequestKinds DEF Requests
    <3> QED  BY <1>4, <3>1 DEF Follows
  <2>2. CASE r \in Writes
    <3>1. r.kind = "write"  BY <2>2, RequestKinds DEF Requests
    <3> QED  BY <1>4, <1>5, <3>1 DEF Follows
  <2> QED  BY <2>1, <2>2
<1> QED  BY <1>1, <1>3, <1>4, <1>6, Continues DEF calls

LEMMA PassesOne ==
  ASSUME Typed, OneCall, NEW c \in Callers, NEW r \in Reads \cup Writes, call[c] = r, UNCHANGED calls,
         driver'.type = driver.type, Follows(r, todo[c]), Len(todo[c]) >= 2, Proceed(c),
         NEW n, n = todo[c][2], Phase(c, r, n)'
  PROVE  OneCall' /\ Plans' /\ Phases'
<1>1. todo[c] \in Seq(AllSteps)  BY DEF Typed, TypedPlans
<1>2. 2 \in 2..Len(todo[c])  BY <1>1
<1>3. Tail(todo[c]) = SubSeq(todo[c], 2, Len(todo[c]))  BY <1>1, <1>2, FollowsRest
<1>4. Go(c, SubSeq(todo[c], 2, Len(todo[c])))  BY <1>3 DEF Proceed
<1> QED  BY <1>2, <1>4, Passes

-----------------------------------------------------------------------------
(* The steps of a read.                                                    *)

LEMMA ReadCommands ==
  ASSUME NEW r \in Reads
  PROVE  /\ r \in Requests /\ r.kind = "read" /\ r # Mount /\ r # Idle
         /\ ReadCommand(r) \notin {"SET_BLOCKCNT", "STOP_TRANS", "SEND_IF_COND", "SEND_REL_ADDR", "OP_COND",
                                   "APP_CMD", "none"}
  BY RequestKinds DEF Requests, ReadCommand

LEMMA ReadPhases ==
  ASSUME NEW c, NEW r \in Reads, NEW s
  PROVE  /\ Phase(c, r, s) <=> ReadPhase(c, r, s)
         /\ Phase(c, r, s)' <=> ReadPhase(c, r, s)'
<1>1. r.kind = "read"  BY ReadCommands
<1> QED  BY <1>1 DEF Phase

LEMMA ReadsPrepare ==
  ASSUME Typed, Promise, NEW c \in Callers, NEW r \in Reads, call[c] = r, Prepare(c)
  PROVE  OneCall' /\ Plans' /\ Phases'
<1> DEFINE s == This(c)
<1> USE DEF Promise, Simple
<1>1. s.do = "prepare" /\ s \in AllSteps /\ Len(todo[c]) >= 2 /\ todo[c][2] \in AllSteps
      /\ ReadTurn(r, s, todo[c][2]) /\ Planned(todo[c]) /\ Follows(r, todo[c]) /\ s = todo[c][1]
  <2>1. s.do = "prepare"  BY DEF Prepare, At, This
  <2>2. s # Step("return")  BY <2>1, StepFields
  <2> QED  BY <2>1, <2>2, ReadHead
<1>2. s.via = "sd" /\ (s.cmd \in {"SET_BLOCKCNT", "STOP_TRANS"} \/ (s.cmd = ReadCommand(r) /\ s.arg = r.lba))
      /\ todo[c][2] = NextOf(s)
  BY <1>1 DEF ReadTurn
<1>3. ReadPhase(c, r, s)  BY <1>1, ReadPhases, ReadCommands DEF Phases
<1>4. ViaSd(c)  BY <1>2 DEF ViaSd
<1>5. UNCHANGED <<disk, kind, card, hung, buffer, faults, disturbed>>  BY DEF Prepare
<1>6. CASE /\ host.busy = NoCommand /\ ~Pending
           /\ irq' = {} /\ host' = [host EXCEPT !.arg1 = This(c).arg]
           /\ driver' = [driver EXCEPT !.sd_err = IF ViaSd(c) THEN FALSE ELSE @]
           /\ Goes(c)
  <2>1. PICK n : n = todo[c][2]  OBVIOUS
  <2>2. n.do = "issue" /\ n.cmd = s.cmd /\ n.arg = s.arg  BY <1>1, <1>2, <2>1 DEF NextOf, AllSteps
  <2>3. /\ host'.busy = host.busy /\ host'.arg1 = s.arg /\ host'.blkcnt = host.blkcnt
        /\ host'.xfer = host.xfer /\ driver'.type = driver.type
    BY <1>6 DEF Typed, TypedHost, HostOK, TypedDriver
  <2>4. ReadPhase(c, r, n)'
    <3>1. kind'.hc  BY <1>3, <1>5 DEF ReadPhase
    <3>2. Beginning(n) \/ (n.cmd = ReadCommand(r) /\ n.do # "check") => buffer'[c] = <<>>
      BY <1>1, <1>3, <1>5, <2>2 DEF ReadPhase, Beginning, Waits
    <3>3. n.cmd = ReadCommand(r) =>
            host'.blkcnt = Amount(r) /\ host'.arg1 = r.lba /\ Idling' /\ ReadQuiet'
      BY <1>1, <1>2, <1>3, <1>6, <2>2, <2>3, ReadCommands DEF ReadPhase, Idling, ReadQuiet
    <3>4. Last(n) => GotFirst(c, r, Amount(r))' /\ Resting'
      <4>1. Last(n) => Last(s)  BY <1>1, <2>2 DEF Last
      <4> QED  BY <1>3, <1>5, <2>3, <4>1 DEF ReadPhase, GotFirst, Resting
    <3> QED  BY <2>2, <3>1, <3>2, <3>3, <3>4 DEF ReadPhase
  <2> QED  BY <1>1, <1>6, <2>1, <2>3, <2>4, PassesOne, ReadPhases DEF Goes
<1>7. CASE CommandFails(c, "SD_BUSY", 4) /\ UNCHANGED <<irq, host>>
  <2>1. s.cmd # "SEND_IF_COND"  BY <1>2, ReadCommands
  <2>2. /\ Go(c, SubSeq(todo[c], 4, Len(todo[c]))) /\ UNCHANGED calls
        /\ driver' = [driver EXCEPT !.sd_err = TRUE]
    BY <1>4, <1>7, <2>1 DEF CommandFails
  <2>3. Len(todo[c]) >= 4 /\ todo[c][3] = [s EXCEPT !.do = "await"] /\ todo[c][3] \in AllSteps
        /\ todo[c][4] \in AllSteps /\ <<todo[c][3], todo[c][4]>> \in ReadLinks(r)
    <3>1. Len(todo[c]) >= 4 /\ todo[c][3] = [s EXCEPT !.do = "await"]
      <4>1. Head(todo[c]) = s  BY DEF This
      <4> QED  BY <1>1, <2>1, <4>1, PlanRest
    <3>2. todo[c] \in Seq(AllSteps) /\ Linked(ReadLinks(r), todo[c])
      BY <1>1, ReadCommands DEF Follows, Planned
    <3>3. 3 \in 1..Len(todo[c]) - 1 /\ 3 \in 1..Len(todo[c]) /\ 4 \in 1..Len(todo[c])  BY <3>1, <3>2
    <3>4. <<todo[c][3], todo[c][3 + 1]>> \in ReadLinks(r)  BY <3>2, <3>3 DEF Linked
    <3> QED  BY <3>1, <3>2, <3>3, <3>4
  <2>4. PICK n : n = todo[c][4]  OBVIOUS
  <2>5. n.do = "check" /\ n.cmd = s.cmd
    <3>1. ReadTurn(r, todo[c][3], n)  BY <2>3, <2>4, ReadTurns
    <3>2. todo[c][3].do = "await" /\ todo[c][3].cmd = s.cmd  BY <1>1, <2>3 DEF AllSteps
    <3>3. n = CheckOf(s.cmd)  BY <3>1, <3>2 DEF ReadTurn
    <3> QED  BY <3>3, StepFields
  <2>6. driver'.sd_err /\ driver'.type = driver.type  BY <2>2 DEF Typed, TypedDriver
  <2>7. ReadPhase(c, r, n)'
    <3>1. kind'.hc  BY <1>3, <1>5 DEF ReadPhase
    <3>2. Beginning(n) => buffer'[c] = <<>>
      BY <1>1, <1>3, <1>5, <2>5 DEF ReadPhase, Beginning, Waits
    <3>3. Last(n) => GotFirst(c, r, Amount(r))' /\ Resting'
      <4>1. Last(n) => Last(s)  BY <1>2, <2>5, ReadCommands DEF Last
      <4> QED  BY <1>3, <1>5, <1>7, <4>1 DEF ReadPhase, GotFirst, Resting
    <3> QED  BY <2>5, <2>6, <3>1, <3>2, <3>3 DEF ReadPhase
  <2>8. 4 \in 2..Len(todo[c])  BY <1>1, <2>3 DEF Planned
  <2> QED  BY <1>1, <2>2, <2>4, <2>6, <2>7, <2>8, Passes, ReadPhases
<1> QED  BY <1>6, <1>7 DEF Prepare

LEMMA ReadsAt ==
  ASSUME Typed, Promise, NEW c \in Callers, NEW r \in Reads, call[c] = r,
         NEW do, At(c, do), do # "return"
  PROVE  /\ This(c).do = do /\ This(c) \in AllSteps /\ This(c) = todo[c][1] /\ Planned(todo[c])
         /\ Len(todo[c]) >= 2 /\ todo[c][2] \in AllSteps /\ ReadTurn(r, This(c), todo[c][2])
         /\ Follows(r, todo[c]) /\ ReadPhase(c, r, This(c))
<1>1. This(c).do = do  BY DEF At, This
<1>2. This(c) # Step("return")  BY <1>1, StepFields
<1>3. ReadPhase(c, r, This(c))  BY ReadHead, ReadPhases, ReadCommands DEF Promise, Phases
<1> QED  BY <1>1, <1>2, <1>3, ReadHead DEF Promise

LEMMA ReadsIssue ==
  ASSUME Typed, Promise, NEW c \in Callers, NEW r \in Reads, call[c] = r, Issue(c)
  PROVE  OneCall' /\ Plans' /\ Phases'
<1> DEFINE s == This(c)
<1>1. /\ s.do = "issue" /\ s \in AllSteps /\ Len(todo[c]) >= 2
      /\ ReadTurn(r, s, todo[c][2]) /\ Follows(r, todo[c]) /\ ReadPhase(c, r, s)
  BY ReadsAt DEF Issue
<1>2. /\ s.cmd \in {"SET_BLOCKCNT", "STOP_TRANS"} \/ (s.cmd = ReadCommand(r) /\ s.arg = r.lba)
      /\ todo[c][2] = NextOf(s)
  BY <1>1 DEF ReadTurn
<1>3. UNCHANGED <<disk, kind, card, hung, irq, driver, buffer, faults, disturbed>> /\ Goes(c)
  BY DEF Issue
<1>4. PICK n : n = todo[c][2]  OBVIOUS
<1>5. n.do = "await" /\ n.cmd = s.cmd  BY <1>1, <1>2, <1>4 DEF NextOf, AllSteps
<1>6. /\ host'.busy = [cmd |-> s.cmd, arg |-> host.arg1, count |-> host.blkcnt]
      /\ host'.xfer = host.xfer /\ host'.fifo = host.fifo
  BY DEF Issue, Typed, TypedHost, HostOK
<1>7. ReadPhase(c, r, n)'
  <2>1. kind'.hc  BY <1>1, <1>3 DEF ReadPhase
  <2>2. Beginning(n) \/ (n.cmd = ReadCommand(r) /\ n.do # "check") => buffer'[c] = <<>>
    BY <1>1, <1>3, <1>5 DEF ReadPhase, Beginning, Waits
  <2>3. n.cmd = ReadCommand(r) => host'.busy = ReadOrder(r) /\ ReadQuiet'
    BY <1>1, <1>3, <1>5, <1>6 DEF ReadPhase, ReadQuiet, ReadOrder, Pending
  <2>4. Last(n) => GotFirst(c, r, Amount(r))' /\ Resting'
    <3>1. Last(n) => s.cmd = "STOP_TRANS"  BY <1>5 DEF Last
    <3>2. s.cmd = "STOP_TRANS" => GotFirst(c, r, Amount(r)) /\ Resting  BY <1>1 DEF ReadPhase, Last
    <3> QED  BY <1>3, <1>6, <3>1, <3>2 DEF GotFirst, Resting
  <2> QED  BY <1>5, <2>1, <2>2, <2>3, <2>4 DEF ReadPhase, ReadOrder
<1> QED  BY <1>1, <1>3, <1>4, <1>7, PassesOne, ReadPhases DEF Goes, Promise, Simple

LEMMA ReadsAwait ==
  ASSUME Typed, Promise, NEW c \in Callers, NEW r \in Reads, call[c] = r, Await(c)
  PROVE  OneCall' /\ Plans' /\ Phases'
<1> DEFINE s == This(c)
<1>1. /\ s.do = "await" /\ s \in AllSteps /\ Len(todo[c]) >= 2
      /\ ReadTurn(r, s, todo[c][2]) /\ Follows(r, todo[c]) /\ ReadPhase(c, r, s)
  BY ReadsAt DEF Await
<1>2. s.via = "sd" /\ todo[c][2] = CheckOf(s.cmd) /\ s.cmd \in {"SET_BLOCKCNT", "STOP_TRANS", ReadCommand(r)}
  BY <1>1 DEF ReadTurn
<1>3. ViaSd(c) /\ s.cmd # "SEND_IF_COND"  BY <1>2, ReadCommands DEF ViaSd
<1>4. /\ UNCHANGED <<disk, kind, card, hung, host, buffer, faults, disturbed>>
      /\ Woken("CMD_DONE") /\ Cleared("CMD_DONE")
  BY DEF Await
<1>5. PICK n : n = todo[c][2]  OBVIOUS
<1>6. n.do = "check" /\ n.cmd = s.cmd  BY <1>2, <1>5, StepFields
<1>7. /\ todo[c] \in Seq(AllSteps) /\ Tail(todo[c]) = SubSeq(todo[c], 2, Len(todo[c]))
  <2>1. todo[c] \in Seq(AllSteps)  BY DEF Typed, TypedPlans
  <2>2. 2 \in 2..Len(todo[c])  BY <1>1, <2>1
  <2> QED  BY <1>1, <2>1, <2>2, FollowsRest
<1>8. /\ Proceed(c) /\ UNCHANGED calls /\ driver'.type = driver.type
      /\ \/ driver'.sd_err
         \/ Waited("CMD_DONE") = "SD_OK"
  <2>1. CASE Waited("CMD_DONE") = "SD_OK"
    <3>1. Go(c, Tail(todo[c])) /\ driver' = Noted(s.cmd) /\ UNCHANGED calls
      BY <1>3, <2>1 DEF Await, Answered
    <3>2. driver'.type = driver.type  BY <3>1 DEF Noted, Typed, TypedDriver
    <3> QED  BY <2>1, <3>1, <3>2 DEF Proceed
  <2>2. CASE Waited("CMD_DONE") # "SD_OK"
    <3>1. CommandFails(c, Waited("CMD_DONE"), 2)  BY <2>2 DEF Await
    <3>2. /\ Go(c, SubSeq(todo[c], 2, Len(todo[c]))) /\ UNCHANGED calls
          /\ driver' = [driver EXCEPT !.sd_err = TRUE]
      BY <1>3, <3>1 DEF CommandFails
    <3>3. driver'.sd_err /\ driver'.type = driver.type  BY <3>2 DEF Typed, TypedDriver
    <3> QED  BY <1>7, <3>2, <3>3 DEF Proceed
  <2> QED  BY <2>1, <2>2
<1>9. n.cmd = ReadCommand(r) => driver'.sd_err \/ ReadOn(c, r, 0)'
  <2> SUFFICES ASSUME n.cmd = ReadCommand(r), ~driver'.sd_err PROVE ReadOn(c, r, 0)'
    OBVIOUS
  <2>1. Waited("CMD_DONE") = "SD_OK"  BY <1>8
  <2>2. ~Pending /\ "CMD_DONE" \in irq  BY <2>1 DEF Waited
  <2>3. Idling /\ Reading(c, r, 0)  BY <1>1, <1>6, <2>2 DEF ReadPhase, ReadQuiet, ReadOn
  <2>4. irq' = irq \ {"CMD_DONE"}  BY <1>4, <2>1 DEF Cleared
  <2> QED  BY <1>4, <2>3, <2>4 DEF ReadOn, Idling, Reading, GotFirst
<1>10. ReadPhase(c, r, n)'
  <2>1. kind'.hc  BY <1>1, <1>4 DEF ReadPhase
  <2>2. Beginning(n) => buffer'[c] = <<>>  BY <1>1, <1>4, <1>6 DEF ReadPhase, Beginning, Waits
  <2>3. Last(n) => GotFirst(c, r, Amount(r))' /\ Resting'
    <3>1. Last(n) => Last(s)  BY <1>2, <1>6, ReadCommands DEF Last
    <3> QED  BY <1>1, <1>4, <3>1 DEF ReadPhase, GotFirst, Resting
  <2> QED  BY <1>6, <1>9, <2>1, <2>2, <2>3 DEF ReadPhase
<1> QED  BY <1>1, <1>5, <1>8, <1>10, PassesOne, ReadPhases DEF Promise, Simple

LEMMA ReadsData ==
  ASSUME Typed, Promise, NEW c \in Callers, NEW r \in Reads, call[c] = r, WaitData(c) \/ SetCount(c)
  PROVE  OneCall' /\ Plans' /\ Phases'
<1> DEFINE s == This(c)
<1>1. PICK n : n = todo[c][2]  OBVIOUS
<1>2. CASE WaitData(c)
  <2>1. /\ s.do = "data" /\ Len(todo[c]) >= 2
        /\ ReadTurn(r, s, n) /\ Follows(r, todo[c]) /\ ReadPhase(c, r, s)
    BY <1>1, <1>2, ReadsAt DEF WaitData
  <2>2. (n.do = "prepare" /\ n.cmd = "SET_BLOCKCNT") \/ (n.do = "count" /\ n.cmd = "none")
    BY <2>1 DEF ReadTurn
  <2>3. UNCHANGED <<disk, hardware, buffer, faults, disturbed>>  BY <1>2 DEF WaitData
  <2>4. CASE Goes(c) /\ UNCHANGED driver
    <3>1. kind'.hc /\ buffer'[c] = <<>>  BY <2>1, <2>3 DEF ReadPhase, Beginning, hardware
    <3>2. ReadPhase(c, r, n)'  BY <2>2, <3>1, ReadCommands DEF ReadPhase, Last
    <3> QED  BY <1>1, <2>1, <2>4, <3>2, PassesOne, ReadPhases DEF Goes, Promise, Simple
  <2>5. CASE FailCall(c)  BY <2>5, FailedStops, ReadCommands DEF Promise, Simple
  <2> QED  BY <1>2, <2>4, <2>5 DEF WaitData, Fails
<1>3. CASE SetCount(c)
  <2>1. /\ s.do = "count" /\ Len(todo[c]) >= 2
        /\ ReadTurn(r, s, n) /\ Follows(r, todo[c]) /\ ReadPhase(c, r, s)
    BY <1>1, <1>3, ReadsAt DEF SetCount
  <2>2. s.arg = Amount(r) /\ n.do = "prepare" /\ n.cmd = ReadCommand(r)  BY <2>1 DEF ReadTurn
  <2>3. /\ UNCHANGED <<disk, kind, card, hung, irq, driver, buffer, faults, disturbed>> /\ Goes(c)
        /\ host'.blkcnt = Amount(r)
    BY <1>3, <2>2 DEF SetCount, Typed, TypedHost, HostOK
  <2>4. kind'.hc /\ buffer'[c] = <<>>  BY <2>1, <2>3 DEF ReadPhase, Beginning
  <2>5. ReadPhase(c, r, n)'  BY <2>2, <2>3, <2>4, ReadCommands DEF ReadPhase, Last
  <2> QED  BY <1>1, <2>1, <2>3, <2>5, PassesOne, ReadPhases DEF Goes, Promise, Simple
<1> QED  BY <1>2, <1>3

LEMMA ReadsLook ==
  ASSUME Typed, Promise, NEW c \in Callers, NEW r \in Reads, call[c] = r, Look(c)
  PROVE  OneCall' /\ Plans' /\ Phases'
<1> DEFINE s == This(c)
<1>1. PICK n : n = todo[c][2]  OBVIOUS
<1>2. PICK do \in {"check", "type", "opcond"} : 
         /\ At(c, do)
         /\ IF Holds(c, do) THEN Goes(c)
            ELSE IF do = "opcond" /\ ~driver.ocr /\ This(c).arg > 0
              THEN /\ Go(c, OpCond(This(c).cmd, This(c).arg - 1) \o Tail(todo[c]))
                   /\ UNCHANGED calls
              ELSE FailCall(c)
  BY DEF Look
<1>3. UNCHANGED <<disk, hardware, driver, buffer, faults, disturbed>>  BY DEF Look
<1>4. /\ s.do = do /\ Len(todo[c]) >= 2
      /\ ReadTurn(r, s, n) /\ Follows(r, todo[c]) /\ ReadPhase(c, r, s)
  BY <1>1, <1>2, ReadsAt
<1>5. do = "check"  BY <1>4 DEF ReadTurn
<1>6. CASE Goes(c) /\ ~driver.sd_err
  <2>1. CASE s.cmd = "SET_BLOCKCNT" /\ n.do = "count" /\ n.cmd = "none"
    <3>1. kind'.hc /\ buffer'[c] = <<>>
      BY <1>3, <1>4, <1>5, <2>1 DEF ReadPhase, Beginning, hardware
    <3>2. ReadPhase(c, r, n)'  BY <2>1, <3>1, ReadCommands DEF ReadPhase, Last
    <3> QED  BY <1>1, <1>3, <1>4, <1>6, <3>2, PassesOne, ReadPhases DEF Goes, Promise, Simple
  <2>2. CASE s.cmd = ReadCommand(r) /\ n.do = "ready" /\ n.arg = 0 /\ n.cmd = "none"
    <3>1. ReadOn(c, r, 0) /\ kind.hc  BY <1>4, <1>5, <1>6, <2>2 DEF ReadPhase
    <3>2. ReadOn(c, r, 0)' /\ kind'.hc
      BY <1>3, <3>1 DEF ReadOn, Idling, Reading, GotFirst, Pending, hardware
    <3>3. 0 < Amount(r)  BY ReadFacts
    <3>4. ReadPhase(c, r, n)'
      BY <2>2, <3>2, <3>3, ReadCommands DEF ReadPhase, Last, Beginning, Waits
    <3> QED  BY <1>1, <1>3, <1>4, <1>6, <3>4, PassesOne, ReadPhases DEF Goes, Promise, Simple
  <2>3. CASE s.cmd \in {"STOP_TRANS", "none"} /\ n.do \in {"check", "return"} /\ n.cmd = "none"
    <3>1. kind.hc /\ GotFirst(c, r, Amount(r)) /\ Resting  BY <1>4, <1>5, <2>3 DEF ReadPhase, Last
    <3>2. kind'.hc /\ GotFirst(c, r, Amount(r))' /\ Resting'
      BY <1>3, <3>1 DEF GotFirst, Resting, hardware
    <3>3. ReadPhase(c, r, n)'  BY <2>3, <3>2, ReadCommands DEF ReadPhase, Beginning, Waits
    <3> QED  BY <1>1, <1>3, <1>4, <1>6, <3>3, PassesOne, ReadPhases DEF Goes, Promise, Simple
  <2> QED  BY <1>4, <1>5, <2>1, <2>2, <2>3 DEF ReadTurn
<1>7. CASE FailCall(c)  BY <1>7, FailedStops, ReadCommands DEF Promise, Simple
<1> QED  BY <1>2, <1>5, <1>6, <1>7 DEF Holds

LEMMA ListOf ==
  ASSUME NEW S, NEW t \in Seq(S)
  PROVE  Len(t) \in Nat /\ DOMAIN t = 1..Len(t) /\ t = [j \in 1..Len(t) |-> t[j]]
  OBVIOUS

LEMMA LengthOf ==
  ASSUME NEW S, NEW t \in Seq(S), NEW k \in Nat, DOMAIN t = 1..k PROVE Len(t) = k
<1>1. Len(t) \in Nat /\ DOMAIN t = 1..Len(t)  OBVIOUS
<1> DEFINE n == Len(t)
<1>2. n \in Nat /\ 1..n = 1..k  BY <1>1
<1> HIDE DEF n
<1>3. n = k
  <2>1. CASE n < k
    <3>1. k \in 1..k  BY <1>2, <2>1
    <3> QED  BY <1>2, <2>1, <3>1
  <2>2. CASE k < n
    <3>1. n \in 1..n  BY <1>2, <2>2
    <3> QED  BY <1>2, <2>2, <3>1
  <2> QED  BY <1>2, <2>1, <2>2
<1> QED  BY <1>3 DEF n

\* The block that has come is the one the read is waiting for.
LEMMA ReadsReady ==
  ASSUME Typed, Promise, NEW c \in Callers, NEW r \in Reads, call[c] = r, Ready(c)
  PROVE  OneCall' /\ Plans' /\ Phases'
<1> DEFINE s == This(c)
<1>1. PICK n, k : n = todo[c][2] /\ k = s.arg  OBVIOUS
<1>2. /\ s.do = "ready" /\ s \in AllSteps /\ Len(todo[c]) >= 2
      /\ ReadTurn(r, s, n) /\ Follows(r, todo[c]) /\ ReadPhase(c, r, s)
  BY <1>1, ReadsAt DEF Ready
<1>3. s.via = "sd" /\ k \in Nat /\ ViaSd(c)  BY <1>1, <1>2 DEF ReadTurn, AllSteps, ViaSd
<1>4. UNCHANGED <<disk, kind, hung, faults, disturbed>>  BY DEF Ready
<1>5. CASE Waited("READ_RDY") = "SD_OK" /\ Copied(c) /\ Goes(c) /\ UNCHANGED driver
  <2>1. ~Pending /\ "READ_RDY" \in irq  BY <1>5 DEF Waited
  <2>2. Idling /\ Reading(c, r, k) /\ k < Amount(r) /\ kind.hc
    BY <1>1, <1>2, <2>1 DEF ReadPhase, ReadOn
  <2>3. /\ GotFirst(c, r, k) /\ host.xfer.dir = "read" /\ host.fifo = disk[r.lba + k] /\ host.fifo # Empty
        /\ host.xfer.at = r.lba + k + 1 /\ host.xfer.left = Amount(r) - k - 1
    BY <2>1, <2>2 DEF Reading
  <2> DEFINE h == [host EXCEPT !.fifo = Empty]
  <2>4. /\ buffer' = [buffer EXCEPT ![c] = Append(@, disk[r.lba + k])]
        /\ EndOf(h) /\ irq' = (irq \ {"READ_RDY"}) \cup DoneFlag(h)
    BY <1>3, <1>5, <2>3 DEF Copied, Got
  <2>5. /\ h.busy = host.busy /\ h.xfer = host.xfer /\ h.fifo = Empty
        /\ h.arg1 = host.arg1 /\ h.blkcnt = host.blkcnt
        /\ h \in [busy : Order, arg1 : Nat, blkcnt : Nat, resp : {"ok", "error", "busy"},
                  xfer : Moment, fifo : Words]
    BY HostConstants DEF Typed, TypedHost, HostOK
  <2> HIDE DEF h
  <2>6. "READ_RDY" \notin irq'  BY <2>4 DEF DoneFlag
  <2>7. Amount(r) \in Nat /\ r.lba \in Nat  BY ReadFacts
  <2>8. GotFirst(c, r, k + 1)'
    <3>1. buffer[c] = [j \in 1..k |-> disk[r.lba + j - 1]] /\ buffer \in [Callers -> Seq(Words)]
      BY <2>3 DEF GotFirst, Typed, TypedRest
    <3>2. buffer'[c] = Append(buffer[c], disk[r.lba + k])  BY <2>4, <3>1
    <3> DEFINE b == buffer[c]
               w == disk[r.lba + k]
               t == Append(b, w)
    <3>3. b \in Seq(Words) /\ Len(b) = k
      <4>1. b \in Seq(Words) /\ DOMAIN b = 1..k  BY <3>1
      <4> HIDE DEF b
      <4> QED  BY <1>3, <4>1, LengthOf
    <3>4. w \in Words  BY <2>3 DEF Typed, TypedHost, HostOK
    <3>5. \A j \in 1..k : b[j] = disk[r.lba + j - 1]  BY <3>1
    <3> HIDE DEF b, w
    <3>6. t \in Seq(Words) /\ Len(t) = k + 1 /\ t[k + 1] = w /\ \A j \in 1..k : t[j] = b[j]
      BY <1>3, <3>3, <3>4
    <3>7. t = [j \in 1..k + 1 |-> t[j]]  BY <3>6, ListOf
    <3>8. \A j \in 1..k + 1 : t[j] = disk[r.lba + j - 1]
      <4> TAKE j \in 1..k + 1
      <4>1. CASE j = k + 1
        <5>1. r.lba + j - 1 = r.lba + k  BY <1>3, <2>7, <4>1
        <5> QED  BY <3>6, <4>1, <5>1 DEF w
      <4>2. CASE j # k + 1
        <5>1. j \in 1..k  BY <1>3, <4>2
        <5> QED  BY <3>5, <3>6, <5>1
      <4> QED  BY <4>1, <4>2
    <3> HIDE DEF t
    <3>9. t = [j \in 1..k + 1 |-> disk[r.lba + j - 1]]  BY <3>7, <3>8
    <3> QED  BY <1>4, <3>2, <3>9 DEF GotFirst, t, b, w
  <2>9. host'.busy = host.busy /\ host'.fifo = Empty
        /\ host'.xfer = IF k + 1 = Amount(r) THEN NoTransfer ELSE host.xfer
    <3>1. Finished(h) <=> k + 1 = Amount(r)  BY <1>3, <2>3, <2>5, <2>7 DEF Finished
    <3>2. host' = IF Finished(h) THEN [h EXCEPT !.xfer = NoTransfer] ELSE h
      BY <2>4 DEF EndOf, After
    <3> QED  BY <2>5, <3>1, <3>2
  <2>10. Reading(c, r, k + 1)'
    <3>1. CASE k + 1 = Amount(r)  BY <2>6, <2>8, <2>9, <3>1 DEF Reading
    <3>2. CASE k + 1 # Amount(r)
      <4>1. /\ host'.xfer.dir = "read" /\ host'.fifo = Empty /\ "READ_RDY" \notin irq'
            /\ host'.xfer.at = r.lba + (k + 1) /\ host'.xfer.left = Amount(r) - (k + 1)
        BY <1>3, <2>3, <2>6, <2>7, <2>9, <3>2
      <4> QED  BY <2>8, <4>1 DEF Reading
    <3> QED  BY <3>1, <3>2
  <2>11. Idling' /\ kind'.hc  BY <1>4, <2>2, <2>9 DEF Idling
  <2>12. ReadPhase(c, r, n)'
    <3>1. CASE n.do = "ready" /\ n.arg = k + 1 /\ k + 1 < Amount(r) /\ n.cmd = "none"
      <4>1. ReadOn(c, r, n.arg)'  BY <2>10, <2>11, <3>1 DEF ReadOn
      <4> QED  BY <2>11, <3>1, <4>1, ReadCommands DEF ReadPhase, Beginning, Waits, Last
    <3>2. CASE /\ k + 1 = Amount(r)
               /\ (n.do = "prepare" /\ n.cmd = "STOP_TRANS") \/ (n.do = "check" /\ n.cmd = "none")
      <4>1. GotFirst(c, r, Amount(r))' /\ Resting'
        <5>1. host'.xfer = NoTransfer /\ host'.busy.cmd = "none"
          BY <2>2, <2>9, <3>2, HostConstants DEF Idling
        <5> QED  BY <2>8, <3>2, <5>1 DEF Resting
      <4> QED  BY <2>11, <3>2, <4>1, ReadCommands DEF ReadPhase, Beginning, Waits
    <3> QED  BY <1>1, <1>2, <3>1, <3>2 DEF ReadTurn
  <2> QED  BY <1>1, <1>2, <1>5, <2>12, PassesOne, ReadPhases DEF Goes, Promise, Simple
<1>6. CASE FailCall(c)  BY <1>6, FailedStops, ReadCommands DEF Promise, Simple
<1> QED  BY <1>3, <1>5, <1>6 DEF Ready, Fails

\* The other steps are not those of a read.
LEMMA ReadsDriver ==
  ASSUME Typed, Promise, NEW c \in Callers, NEW r \in Reads, call[c] = r, Driver(c)
  PROVE  OneCall' /\ Plans' /\ Phases'
<1>1. CASE WaitDone(c) \/ StartAttempt(c) \/ Reset(c) \/ SetClock(c) \/ Remember(c) \/ ReadScr(c)
  <2>1. PICK do \in Notes \cup {"done", "attempt", "reset", "clock", "scr"} : At(c, do)
    BY <1>1 DEF WaitDone, StartAttempt, Reset, SetClock, Remember, ReadScr, Notes
  <2>2. do # "return"  BY DEF Notes
  <2>3. ReadTurn(r, This(c), todo[c][2]) /\ This(c).do = do  BY <2>1, <2>2, ReadsAt
  <2> QED  BY <2>3 DEF ReadTurn, Notes
<1>2. CASE Return(c)  BY <1>2, Stops, ReadCommands DEF Return, Promise, Simple
<1> QED  BY <1>1, <1>2, ReadsPrepare, ReadsIssue, ReadsAwait, ReadsData, ReadsLook, ReadsReady DEF Driver

-----------------------------------------------------------------------------
(* The steps of a write.                                                   *)

LEMMA WriteCommands ==
  ASSUME NEW r \in Writes
  PROVE  /\ r \in Requests /\ r.kind = "write" /\ r # Mount /\ r # Idle
         /\ r.lba \in Nat /\ r.num \in Nat /\ r.version \in Nat
         /\ WriteCommand(r) \notin {"SET_BLOCKCNT", "STOP_TRANS", "SEND_IF_COND", "SEND_REL_ADDR",
                                    "OP_COND", "APP_CMD", "none"}
  BY RequestKinds DEF Requests, WriteCommand

LEMMA WritePhases ==
  ASSUME NEW c, NEW r \in Writes, NEW s
  PROVE  /\ Phase(c, r, s) <=> WritePhase(r, s)
         /\ Phase(c, r, s)' <=> WritePhase(r, s)'
<1>1. r.kind = "write"  BY WriteCommands
<1> QED  BY <1>1 DEF Phase

LEMMA WritesAt ==
  ASSUME Typed, Promise, NEW c \in Callers, NEW r \in Writes, call[c] = r,
         NEW do, At(c, do), do # "return"
  PROVE  /\ This(c).do = do /\ This(c) \in AllSteps /\ This(c) = todo[c][1] /\ Planned(todo[c])
         /\ Len(todo[c]) >= 2 /\ todo[c][2] \in AllSteps
         /\ WriteTurn(r, Shift(r.lba), This(c), todo[c][2]) /\ ~ViaSd(c)
         /\ Follows(r, todo[c]) /\ WritePhase(r, This(c))
<1>1. This(c).do = do  BY DEF At, This
<1>2. This(c) # Step("return")  BY <1>1, StepFields
<1>3. WritePhase(r, This(c))  BY WriteHead, WritePhases, WriteCommands DEF Promise, Phases
<1>4. WriteTurn(r, Shift(r.lba), This(c), todo[c][2])  BY <1>2, WriteHead DEF Promise
<1>5. ~ViaSd(c)  BY <1>4 DEF WriteTurn, ViaSd
<1> QED  BY <1>1, <1>2, <1>3, <1>4, <1>5, WriteHead DEF Promise

LEMMA WritesFail ==
  ASSUME Typed, Promise, NEW c \in Callers, NEW r \in Writes, call[c] = r, FailCall(c)
  PROVE  OneCall' /\ Plans' /\ Phases'
  BY FailedStops, WriteCommands DEF Promise, Simple

\* A command of a write that fails ends the call.
LEMMA WritesRefused ==
  ASSUME Typed, Promise, NEW c \in Callers, NEW r \in Writes, call[c] = r, NEW do, At(c, do),
         do \in {"prepare", "await"}, NEW res, NEW k, CommandFails(c, res, k)
  PROVE  FailCall(c) /\ OneCall' /\ Plans' /\ Phases'
<1>1. WriteTurn(r, Shift(r.lba), This(c), todo[c][2]) /\ ~ViaSd(c) /\ This(c).do = do  BY WritesAt
<1>2. This(c).cmd \notin {"SEND_IF_COND", "OP_COND", "APP_CMD"}
  BY <1>1, WriteCommands DEF WriteTurn
<1>3. FailCall(c)  BY <1>1, <1>2 DEF CommandFails, Tolerated
<1> QED  BY <1>3, WritesFail

LEMMA WritesPrepare ==
  ASSUME Typed, Promise, NEW c \in Callers, NEW r \in Writes, call[c] = r, Prepare(c)
  PROVE  OneCall' /\ Plans' /\ Phases'
<1> DEFINE s == This(c)
<1>1. PICK n : n = todo[c][2]  OBVIOUS
<1>2. /\ s.do = "prepare" /\ s \in AllSteps /\ Len(todo[c]) >= 2
      /\ WriteTurn(r, Shift(r.lba), s, n) /\ Follows(r, todo[c]) /\ WritePhase(r, s)
      /\ At(c, "prepare") /\ ~ViaSd(c)
  BY <1>1, WritesAt DEF Prepare
<1>3. /\ s.cmd \in {"SET_BLOCKCNT", "STOP_TRANS"} \/ (s.cmd = WriteCommand(r) /\ s.arg = Shift(r.lba))
      /\ n = NextOf(s)
  BY <1>2 DEF WriteTurn
<1>4. n.do = "issue" /\ n.cmd = s.cmd  BY <1>2, <1>3 DEF NextOf, AllSteps
<1>5. CASE /\ host.busy = NoCommand /\ ~Pending
           /\ irq' = {} /\ host' = [host EXCEPT !.arg1 = This(c).arg]
           /\ driver' = [driver EXCEPT !.sd_err = IF ViaSd(c) THEN FALSE ELSE @]
           /\ Goes(c)
  <2>1. /\ host'.busy = host.busy /\ host'.arg1 = s.arg /\ host'.blkcnt = host.blkcnt
        /\ host'.xfer = host.xfer /\ host'.fifo = host.fifo /\ driver'.type = driver.type
    BY <1>5 DEF Typed, TypedHost, HostOK, TypedDriver
  <2>2. disk' = disk  BY DEF Prepare
  <2>3. Shift(r.lba)' = Shift(r.lba)  BY <2>1 DEF Shift
  <2>4. WritePhase(r, n)'
    <3>1. driver'.type # "TYPE_1" /\ driver'.type # "UNKNOWN"  BY <1>2, <2>1 DEF WritePhase
    <3>2. Beginning(n) => Blocked'  BY <1>2, <1>4, <2>1 DEF WritePhase, Beginning, Waits, Blocked
    <3>3. n.cmd = WriteCommand(r) => host'.blkcnt = r.num /\ host'.arg1 = Shift(r.lba)' /\ Idling' /\ WriteQuiet'
      <4>1. s.cmd = WriteCommand(r) => host.blkcnt = r.num /\ Blocked  BY <1>2 DEF WritePhase
      <4>2. s.cmd = WriteCommand(r) => s.arg = Shift(r.lba)  BY <1>3, WriteCommands
      <4> QED  BY <1>4, <1>5, <2>1, <2>3, <4>1, <4>2 DEF Idling, WriteQuiet, Blocked
    <3>4. Last(n) => StoredFirst(r, r.num)' /\ Resting'
      <4>1. Last(n) => Last(s)  BY <1>2, <1>4 DEF Last
      <4> QED  BY <1>2, <2>1, <2>2, <4>1 DEF WritePhase, StoredFirst, Resting
    <3> QED  BY <1>4, <3>1, <3>2, <3>3, <3>4 DEF WritePhase
  <2> QED  BY <1>1, <1>2, <1>5, <2>1, <2>4, PassesOne, WritePhases DEF Goes, Promise, Simple
<1>6. CASE CommandFails(c, "SD_BUSY", 4)  BY <1>2, <1>6, WritesRefused
<1> QED  BY <1>5, <1>6 DEF Prepare

LEMMA WritesIssue ==
  ASSUME Typed, Promise, NEW c \in Callers, NEW r \in Writes, call[c] = r, Issue(c)
  PROVE  OneCall' /\ Plans' /\ Phases'
<1> DEFINE s == This(c)
<1>1. PICK n : n = todo[c][2]  OBVIOUS
<1>2. /\ s.do = "issue" /\ s \in AllSteps /\ Len(todo[c]) >= 2
      /\ WriteTurn(r, Shift(r.lba), s, n) /\ Follows(r, todo[c]) /\ WritePhase(r, s)
  BY <1>1, WritesAt DEF Issue
<1>3. n = NextOf(s) /\ s.cmd \in {"SET_BLOCKCNT", "STOP_TRANS", WriteCommand(r)}
  BY <1>2 DEF WriteTurn
<1>4. n.do = "await" /\ n.cmd = s.cmd  BY <1>2, <1>3 DEF NextOf, AllSteps
<1>5. UNCHANGED <<disk, kind, card, hung, irq, driver, buffer, faults, disturbed>> /\ Goes(c)
  BY DEF Issue
<1>6. /\ host'.busy = [cmd |-> s.cmd, arg |-> host.arg1, count |-> host.blkcnt]
      /\ host'.xfer = host.xfer /\ host'.fifo = host.fifo
  BY DEF Issue, Typed, TypedHost, HostOK
<1>7. Shift(r.lba)' = Shift(r.lba)  BY <1>5 DEF Shift
<1>8. WritePhase(r, n)'
  <2>1. driver'.type # "TYPE_1" /\ driver'.type # "UNKNOWN"  BY <1>2, <1>5 DEF WritePhase
  <2>2. Beginning(n) => Blocked'  BY <1>2, <1>4, <1>6 DEF WritePhase, Beginning, Waits, Blocked
  <2>3. n.cmd = WriteCommand(r) => host'.busy = WriteOrder(r)' /\ WriteQuiet'
    <3>1. s.cmd = WriteCommand(r) =>
            host.blkcnt = r.num /\ host.arg1 = Shift(r.lba) /\ WriteQuiet
      BY <1>2 DEF WritePhase
    <3> QED  BY <1>4, <1>5, <1>6, <1>7, <3>1 DEF WriteQuiet, WriteOrder, Pending, Blocked
  <2>4. Last(n) => StoredFirst(r, r.num)' /\ Resting'
    <3>1. Last(n) => s.cmd = "STOP_TRANS"  BY <1>4 DEF Last
    <3>2. s.cmd = "STOP_TRANS" => StoredFirst(r, r.num) /\ Resting  BY <1>2 DEF WritePhase, Last
    <3> QED  BY <1>5, <1>6, <3>1, <3>2 DEF StoredFirst, Resting
  <2> QED  BY <1>4, <2>1, <2>2, <2>3, <2>4 DEF WritePhase
<1> QED  BY <1>1, <1>2, <1>5, <1>8, PassesOne, WritePhases DEF Goes, Promise, Simple

LEMMA WritesAwait ==
  ASSUME Typed, Promise, NEW c \in Callers, NEW r \in Writes, call[c] = r, Await(c)
  PROVE  OneCall' /\ Plans' /\ Phases'
<1> DEFINE s == This(c)
<1>1. PICK n : n = todo[c][2]  OBVIOUS
<1>2. /\ s.do = "await" /\ s \in AllSteps /\ Len(todo[c]) >= 2
      /\ WriteTurn(r, Shift(r.lba), s, n) /\ Follows(r, todo[c]) /\ WritePhase(r, s)
      /\ At(c, "await") /\ ~ViaSd(c)
  BY <1>1, WritesAt DEF Await
<1>3. s.cmd \in {"SET_BLOCKCNT", "STOP_TRANS", WriteCommand(r)} /\ n.cmd = "none"
      /\ s.cmd # "SEND_IF_COND" /\ s.cmd \notin {"SEND_REL_ADDR", "OP_COND"}
  BY <1>2, WriteCommands DEF WriteTurn
<1>4. /\ UNCHANGED <<disk, kind, card, hung, host, buffer, faults, disturbed>>
      /\ Cleared("CMD_DONE")
  BY DEF Await
<1>5. CASE \E res : CommandFails(c, res, 2)  BY <1>2, <1>5, WritesRefused
<1>6. CASE Waited("CMD_DONE") = "SD_OK" /\ Answered(c) /\ ~(\E res : CommandFails(c, res, 2))
  <2>1. /\ host.resp # "error" /\ Proceed(c) /\ UNCHANGED calls /\ driver' = driver
    BY <1>2, <1>3, <1>6 DEF Answered, Noted, Proceed
  <2>2. irq' = irq \ {"CMD_DONE"} /\ ~Pending /\ "CMD_DONE" \in irq
    BY <1>4, <1>6 DEF Cleared, Waited
  <2>3. WritePhase(r, n)'
    <3>1. driver'.type # "TYPE_1" /\ driver'.type # "UNKNOWN"  BY <1>2, <2>1 DEF WritePhase
    <3>2. CASE s.cmd = "SET_BLOCKCNT" /\ n.do = "count"
      <4>1. Blocked  BY <1>2, <3>2 DEF WritePhase, Beginning, Waits
      <4>2. Blocked'  BY <1>4, <4>1 DEF Blocked
      <4> QED  BY <1>3, <3>1, <3>2, <4>2, WriteCommands DEF WritePhase, Last
    <3>3. CASE /\ s.cmd = WriteCommand(r)
               /\ (r.num = 0 /\ n.do = "done") \/ (r.num > 0 /\ n.do = "ready" /\ n.arg = 0)
      <4>1. Idling /\ Writing(r, 0)  BY <1>2, <2>1, <2>2, <3>3 DEF WritePhase, WriteQuiet, WriteOn
      <4>2. WriteOn(r, 0)'  BY <1>4, <2>2, <4>1 DEF WriteOn, Idling, Writing, StoredFirst
      <4> QED  BY <1>3, <3>1, <3>3, <4>2, WriteCommands DEF WritePhase, Last, Beginning, Waits
    <3>4. CASE s.cmd = "STOP_TRANS" /\ n.do = "return"
      <4>1. StoredFirst(r, r.num) /\ Resting  BY <1>2, <3>4 DEF WritePhase, Last
      <4>2. StoredFirst(r, r.num)' /\ Resting'  BY <1>4, <4>1 DEF StoredFirst, Resting
      <4> QED  BY <1>3, <3>1, <3>4, <4>2, WriteCommands DEF WritePhase, Beginning, Waits
    <3> QED  BY <1>2, <3>2, <3>3, <3>4 DEF WriteTurn
  <2> QED  BY <1>1, <1>2, <2>1, <2>3, PassesOne, WritePhases DEF Promise, Simple
<1> QED  BY <1>5, <1>6 DEF Await, Answered

LEMMA WritesData ==
  ASSUME Typed, Promise, NEW c \in Callers, NEW r \in Writes, call[c] = r, WaitData(c) \/ SetCount(c)
  PROVE  OneCall' /\ Plans' /\ Phases'
<1> DEFINE s == This(c)
<1>1. PICK n : n = todo[c][2]  OBVIOUS
<1>2. CASE WaitData(c)
  <2>1. /\ s.do = "data" /\ Len(todo[c]) >= 2
        /\ WriteTurn(r, Shift(r.lba), s, n) /\ Follows(r, todo[c]) /\ WritePhase(r, s)
    BY <1>1, <1>2, WritesAt DEF WaitData
  <2>2. (n.do = "prepare" /\ n.cmd = "SET_BLOCKCNT") \/ (n.do = "count" /\ n.cmd = "none")
    BY <2>1 DEF WriteTurn
  <2>3. CASE Goes(c) /\ UNCHANGED driver /\ host.xfer = NoTransfer /\ UNCHANGED hardware
    <3>1. driver'.type # "TYPE_1" /\ driver'.type # "UNKNOWN"  BY <2>1, <2>3 DEF WritePhase
    <3>2. Blocked'  BY <2>3, HostConstants DEF Blocked, hardware
    <3>3. WritePhase(r, n)'  BY <2>2, <3>1, <3>2, WriteCommands DEF WritePhase, Last
    <3> QED  BY <1>1, <2>1, <2>3, <3>3, PassesOne, WritePhases DEF Goes, Promise, Simple
  <2>4. CASE FailCall(c)  BY <2>4, WritesFail
  <2> QED  BY <1>2, <2>3, <2>4 DEF WaitData, Fails
<1>3. CASE SetCount(c)
  <2>1. /\ s.do = "count" /\ Len(todo[c]) >= 2
        /\ WriteTurn(r, Shift(r.lba), s, n) /\ Follows(r, todo[c]) /\ WritePhase(r, s)
    BY <1>1, <1>3, WritesAt DEF SetCount
  <2>2. s.arg = r.num /\ n.do = "prepare" /\ n.cmd = WriteCommand(r)  BY <2>1 DEF WriteTurn
  <2>3. /\ UNCHANGED <<disk, kind, card, hung, irq, driver, buffer, faults, disturbed>> /\ Goes(c)
        /\ host'.blkcnt = r.num /\ host'.xfer = host.xfer /\ host'.fifo = host.fifo
    BY <1>3, <2>2 DEF SetCount, Typed, TypedHost, HostOK
  <2>4. Blocked'  BY <2>1, <2>3 DEF WritePhase, Beginning, Blocked
  <2>5. driver'.type # "TYPE_1" /\ driver'.type # "UNKNOWN"  BY <2>1, <2>3 DEF WritePhase
  <2>6. WritePhase(r, n)'  BY <2>2, <2>3, <2>4, <2>5, WriteCommands DEF WritePhase, Last
  <2> QED  BY <1>1, <2>1, <2>3, <2>6, PassesOne, WritePhases DEF Goes, Promise, Simple
<1> QED  BY <1>2, <1>3

\* The controller has asked for the block that it gets.
LEMMA WritesHanded ==
  ASSUME Typed, Promise, NEW c \in Callers, NEW r \in Writes, call[c] = r, Ready(c),
         Waited("WRITE_RDY") = "SD_OK"
  PROVE  LET k == This(c).arg IN
         /\ This(c).do = "ready" /\ k \in Nat /\ k < r.num /\ Idling /\ ~Pending
         /\ host.xfer.dir = "write" /\ host.fifo = Empty /\ host.xfer.asked
         /\ host.xfer.at = r.lba + k /\ host.xfer.left = r.num - k /\ StoredFirst(r, k)
         /\ "DATA_DONE" \notin irq
<1>1. This(c).do = "ready" /\ This(c) \in AllSteps /\ WritePhase(r, This(c))  BY WritesAt DEF Ready
<1>2. PICK k : k = This(c).arg  OBVIOUS
<1>3. k \in Nat  BY <1>1, <1>2 DEF AllSteps
<1>4. ~Pending /\ "WRITE_RDY" \in irq  BY DEF Waited
<1>5. Idling /\ Writing(r, k) /\ k < r.num  BY <1>1, <1>2, <1>4 DEF WritePhase, WriteOn
<1>6. k # r.num  BY <1>3, <1>5, WriteCommands
<1> QED  BY <1>1, <1>2, <1>3, <1>4, <1>5, <1>6 DEF Writing

LEMMA WritesReady ==
  ASSUME Typed, Promise, NEW c \in Callers, NEW r \in Writes, call[c] = r, Ready(c)
  PROVE  OneCall' /\ Plans' /\ Phases'
<1> DEFINE s == This(c)
<1>1. PICK n, k : n = todo[c][2] /\ k = s.arg  OBVIOUS
<1>2. /\ s.do = "ready" /\ s \in AllSteps /\ Len(todo[c]) >= 2 /\ ~ViaSd(c)
      /\ WriteTurn(r, Shift(r.lba), s, n) /\ Follows(r, todo[c]) /\ WritePhase(r, s)
  BY <1>1, WritesAt DEF Ready
<1>3. UNCHANGED <<disk, kind, hung, faults, disturbed>>  BY DEF Ready
<1>4. CASE Waited("WRITE_RDY") = "SD_OK" /\ Copied(c) /\ Goes(c) /\ UNCHANGED driver
  <2>1. /\ k \in Nat /\ k < r.num /\ Idling /\ host.xfer.dir = "write" /\ host.xfer.asked
        /\ host.xfer.at = r.lba + k /\ host.xfer.left = r.num - k /\ StoredFirst(r, k)
        /\ "DATA_DONE" \notin irq
    BY <1>1, <1>4, WritesHanded
  <2>2. /\ host' = [host EXCEPT !.fifo = Content(r.lba + k, r.version)] /\ irq' = irq \ {"WRITE_RDY"}
    BY <1>1, <1>2, <1>4, <2>1 DEF Copied
  <2>3. host'.fifo = Content(r.lba + k, r.version) /\ host'.xfer = host.xfer /\ host'.busy = host.busy
    BY <2>2 DEF Typed, TypedHost, HostOK
  <2>4. (k + 1) - 1 = k /\ r.lba + (k + 1) - 1 = r.lba + k /\ r.num - (k + 1) + 1 = r.num - k /\ k + 1 > 0
    BY <2>1, WriteCommands
  <2>5. Writing(r, k + 1)'
    <3>1. StoredFirst(r, k)'  BY <1>3, <2>1 DEF StoredFirst
    <3> QED  BY <2>1, <2>2, <2>3, <2>4, <3>1 DEF Writing
  <2>6. WriteOn(r, k + 1)'  BY <2>1, <2>3, <2>5 DEF WriteOn, Idling
  <2>7. driver'.type # "TYPE_1" /\ driver'.type # "UNKNOWN"  BY <1>2, <1>4 DEF WritePhase
  <2>8. /\ n.cmd = "none"
        /\ (k + 1 < r.num /\ n.do = "ready" /\ n.arg = k + 1) \/ (k + 1 = r.num /\ n.do = "done")
    BY <1>1, <1>2 DEF WriteTurn
  <2>9. WritePhase(r, n)'
    <3>1. CASE k + 1 < r.num /\ n.do = "ready" /\ n.arg = k + 1
      BY <2>6, <2>7, <2>8, <3>1, WriteCommands DEF WritePhase, Last, Beginning, Waits
    <3>2. CASE k + 1 = r.num /\ n.do = "done"
      BY <2>6, <2>7, <2>8, <3>2, WriteCommands DEF WritePhase, Last, Beginning, Waits
    <3> QED  BY <2>8, <3>1, <3>2
  <2> QED  BY <1>1, <1>2, <1>4, <2>9, PassesOne, WritePhases DEF Goes, Promise, Simple
<1>5. CASE FailCall(c)  BY <1>5, WritesFail
<1> QED  BY <1>2, <1>4, <1>5 DEF Ready, Fails

\* DATA_DONE says that the last block is stored.
LEMMA WritesDone ==
  ASSUME Typed, Promise, NEW c \in Callers, NEW r \in Writes, call[c] = r, WaitDone(c)
  PROVE  OneCall' /\ Plans' /\ Phases'
<1> DEFINE s == This(c)
<1>1. PICK n : n = todo[c][2]  OBVIOUS
<1>2. /\ s.do = "done" /\ Len(todo[c]) >= 2
      /\ WriteTurn(r, Shift(r.lba), s, n) /\ Follows(r, todo[c]) /\ WritePhase(r, s)
  BY <1>1, WritesAt DEF WaitDone
<1>3. UNCHANGED <<disk, kind, card, hung, host, driver, buffer, faults, disturbed>>  BY DEF WaitDone
<1>4. CASE Waited("DATA_DONE") = "SD_OK" /\ Goes(c)
  <2>1. ~Pending /\ "DATA_DONE" \in irq  BY <1>4 DEF Waited
  <2>2. Idling /\ Writing(r, r.num)  BY <1>2, <2>1 DEF WritePhase, WriteOn
  <2>3. host.xfer = NoTransfer /\ StoredFirst(r, r.num) /\ Resting
    <3>1. host.xfer = NoTransfer /\ StoredFirst(r, r.num)  BY <2>1, <2>2 DEF Writing
    <3> QED  BY <2>2, <3>1, HostConstants DEF Resting, Idling
  <2>4. StoredFirst(r, r.num)' /\ Resting' /\ Blocked'
    BY <1>3, <2>3, HostConstants DEF StoredFirst, Resting, Blocked
  <2>5. driver'.type # "TYPE_1" /\ driver'.type # "UNKNOWN"  BY <1>2, <1>3 DEF WritePhase
  <2>6. (n.do = "prepare" /\ n.cmd = "STOP_TRANS") \/ (n.do = "return" /\ n.cmd = "none")
    BY <1>2 DEF WriteTurn
  <2>7. WritePhase(r, n)'  BY <2>4, <2>5, <2>6, WriteCommands DEF WritePhase
  <2> QED  BY <1>1, <1>2, <1>3, <1>4, <2>7, PassesOne, WritePhases DEF Goes, Promise, Simple
<1>5. CASE FailCall(c)  BY <1>5, WritesFail
<1> QED  BY <1>4, <1>5 DEF WaitDone

LEMMA WritesLook ==
  ASSUME Typed, Promise, NEW c \in Callers, NEW r \in Writes, call[c] = r, Look(c)
  PROVE  OneCall' /\ Plans' /\ Phases'
<1> DEFINE s == This(c)
<1>1. PICK n : n = todo[c][2]  OBVIOUS
<1>2. PICK do \in {"check", "type", "opcond"} :
         /\ At(c, do)
         /\ IF Holds(c, do) THEN Goes(c)
            ELSE IF do = "opcond" /\ ~driver.ocr /\ This(c).arg > 0
              THEN /\ Go(c, OpCond(This(c).cmd, This(c).arg - 1) \o Tail(todo[c]))
                   /\ UNCHANGED calls
              ELSE FailCall(c)
  BY DEF Look
<1>3. UNCHANGED <<disk, hardware, driver, buffer, faults, disturbed>>  BY DEF Look
<1>4. /\ s.do = do /\ Len(todo[c]) >= 2
      /\ WriteTurn(r, Shift(r.lba), s, n) /\ Follows(r, todo[c]) /\ WritePhase(r, s)
  BY <1>1, <1>2, WritesAt
<1>5. do = "type" /\ n.do = "data" /\ n.cmd = "none"  BY <1>4 DEF WriteTurn
<1>6. CASE Goes(c) /\ driver.type # "UNKNOWN"
  <2>1. driver'.type # "TYPE_1" /\ driver'.type # "UNKNOWN"  BY <1>3, <1>4, <1>6 DEF WritePhase
  <2>2. WritePhase(r, n)'  BY <1>5, <2>1, WriteCommands DEF WritePhase, Last
  <2> QED  BY <1>1, <1>3, <1>4, <1>6, <2>2, PassesOne, WritePhases DEF Goes, Promise, Simple
<1>7. CASE FailCall(c)  BY <1>7, WritesFail
<1> QED  BY <1>2, <1>5, <1>6, <1>7 DEF Holds

LEMMA WritesDriver ==
  ASSUME Typed, Promise, NEW c \in Callers, NEW r \in Writes, call[c] = r, Driver(c)
  PROVE  OneCall' /\ Plans' /\ Phases'
<1>1. CASE StartAttempt(c) \/ Reset(c) \/ SetClock(c) \/ Remember(c) \/ ReadScr(c)
  <2>1. PICK do \in Notes \cup {"attempt", "reset", "clock", "scr"} : At(c, do)
    BY <1>1 DEF StartAttempt, Reset, SetClock, Remember, ReadScr, Notes
  <2>2. do # "return"  BY DEF Notes
  <2>3. WriteTurn(r, Shift(r.lba), This(c), todo[c][2]) /\ This(c).do = do  BY <2>1, <2>2, WritesAt
  <2> QED  BY <2>3 DEF WriteTurn, Notes
<1>2. CASE Return(c)  BY <1>2, Stops, WriteCommands DEF Return, Promise, Simple
<1> QED  BY <1>1, <1>2, WritesPrepare, WritesIssue, WritesAwait, WritesData, WritesLook, WritesReady, WritesDone
     DEF Driver

-----------------------------------------------------------------------------
(* The steps of mount.                                                     *)

\* Neither a transfer to the card nor a command to write is under way, and the
\* driver is not taken to be ready.
Quiet == ~driver.ready /\ host.busy.cmd \notin WriteMoves /\ host.xfer.dir # "write"

LEMMA MountKind ==
  Mount \in Requests /\ Mount.kind = "mount" /\ Mount # Idle /\ Mount \notin Reads /\ Mount \notin Writes
<1>1. Mount \in Requests  BY DEF Requests
<1>2. Mount.kind = "mount"  BY RequestKinds
<1> QED  BY <1>1, <1>2, RequestKinds

LEMMA MountPhases ==
  ASSUME NEW c, NEW s
  PROVE  /\ Phase(c, Mount, s) <=> MountPhase(s)
         /\ Phase(c, Mount, s)' <=> MountPhase(s)'
  BY MountKind DEF Phase

LEMMA MountAt ==
  ASSUME Typed, Promise, NEW c \in Callers, call[c] = Mount, NEW do, At(c, do)
  PROVE  /\ This(c).do = do /\ This(c) \in MountSteps /\ This(c) = todo[c][1] /\ Planned(todo[c])
         /\ Linked(MountLinks, todo[c]) /\ MountPhase(This(c)) /\ ~ViaSd(c)
         /\ do \notin {"attempt", "reset", "return"} => Quiet
         /\ ~Ends(This(c)) => /\ Len(todo[c]) >= 2 /\ todo[c][2] \in MountSteps
                              /\ <<This(c), todo[c][2]>> \in MountLinks
<1> DEFINE p == todo[c]
<1>1. This(c).do = do /\ Planned(p) /\ This(c) \in AllSteps  BY Doing DEF Typed
<1>2. Linked(MountLinks, p) /\ p[1] \in MountSteps
  <2>1. Follows(Mount, p)  BY MountKind DEF Promise, Plans
  <2> QED  BY <2>1, MountKind DEF Follows
<1>3. /\ p \in Seq(AllSteps) /\ Len(p) \in Nat /\ Len(p) >= 1 /\ This(c) = p[1]
      /\ ~Ends(This(c)) => Len(p) >= 2
  BY <1>1, PlanHead DEF This
<1>4. MountPhase(This(c))  BY <1>1, MountKind, MountPhases DEF Promise, Phases
<1>5. ASSUME ~Ends(This(c)) PROVE p[2] \in MountSteps /\ <<This(c), p[2]>> \in MountLinks
  <2> DEFINE n == Len(p)
  <2>1. n \in Nat /\ n >= 2  BY <1>3, <1>5
  <2> HIDE DEF n
  <2>2. 1 \in 1..n - 1  BY <2>1
  <2>3. <<p[1], p[1 + 1]>> \in MountLinks  BY <1>2, <2>2 DEF Linked, n
  <2>4. <<p[1], p[2]>> \in MountLinks  BY <2>3
  <2>5. <<p[1], p[2]>> \in MountSteps \X MountSteps  BY <2>4 DEF MountLinks
  <2> QED  BY <1>3, <2>4, <2>5
<1>6. ~ViaSd(c)  BY <1>2, <1>3 DEF ViaSd, MountSteps
<1>7. do \notin {"attempt", "reset", "return"} => Quiet  BY <1>1, <1>4 DEF MountPhase, Quiet
<1> QED  BY <1>1, <1>2, <1>3, <1>4, <1>5, <1>6, <1>7

\* What the step after s needs.
LEMMA MountStep ==
  ASSUME NEW s \in MountSteps, NEW n \in MountSteps, <<s, n>> \in MountLinks,
         s.do \notin {"attempt", "finish"}, Quiet',
         \/ s.do \in {"clock", "clear", "prepare"} /\ Idling' /\ (host.xfer = NoTransfer)'
         \/ s.do = "prepare" /\ s.cmd # "GO_IDLE_STATE"
         \/ s.do \notin {"clock", "clear", "prepare"}
  PROVE  MountPhase(n)'
<1>1. /\ <<s, n>> \in Links
      /\ n.do = "clear" => s.do = "clock"
      /\ n.do = "prepare" /\ n.cmd = "GO_IDLE_STATE" => s.do = "clear"
  BY MountIs
<1>2. s \in AllSteps /\ n \in AllSteps  BY DEF MountSteps
<1>3. n.do = "issue" => s.do = "prepare" /\ n.cmd = s.cmd  BY <1>1, <1>2, LinksIs DEF AllSteps
<1>4. n.do = "clear" \/ (n.do \in {"prepare", "issue"} /\ n.cmd = "GO_IDLE_STATE")
      => Idling' /\ (host.xfer = NoTransfer)'
  BY <1>1, <1>3
<1> QED  BY <1>4 DEF MountPhase, Quiet

\* The call goes on with the next step of its plan,
LEMMA MountPasses ==
  ASSUME Typed, Promise, NEW c \in Callers, call[c] = Mount, UNCHANGED calls, Proceed(c),
         NEW do, At(c, do), ~Ends(This(c)), NEW n, n = todo[c][2], MountPhase(n)'
  PROVE  OneCall' /\ Plans' /\ Phases'
<1> DEFINE p == todo[c]
<1>1. p \in Seq(AllSteps) /\ Linked(MountLinks, p) /\ Len(p) >= 2 /\ p[2] \in MountSteps
  BY MountAt DEF Planned
<1>2. 2 \in 2..Len(p)  BY <1>1
<1>3. PICK q : q = SubSeq(p, 2, Len(p))  OBVIOUS
<1>4. q \in Seq(AllSteps) /\ q # <<>> /\ Linked(MountLinks, q) /\ q[1] = n /\ Tail(p) = q
  BY <1>1, <1>2, <1>3, Dropped
<1>5. Follows(Mount, q)'  BY <1>1, <1>4, MountKind DEF Follows
<1>6. Phase(c, Mount, n)'  BY MountPhases
<1>7. Go(c, q)  BY <1>4 DEF Proceed
<1> QED  BY <1>4, <1>5, <1>6, <1>7, MountKind, Continues DEF Promise, Simple, calls

\* or with the steps that follow from what the card answered.
LEMMA MountTurns ==
  ASSUME Typed, Promise, NEW c \in Callers, call[c] = Mount, call' = call,
         NEW q, MountRuns(q), Go(c, q), Quiet'
  PROVE  OneCall' /\ Plans' /\ Phases'
<1>1. PICK a, b \in MountSteps : /\ Runs(MountLinks, a, q, b) /\ Ends(b)
                                 /\ \/ a.do = "prepare" /\ a.cmd # "GO_IDLE_STATE"
                                    \/ a.do = "reset"
  BY DEF MountRuns
<1>2. q \in Seq(AllSteps) /\ q # <<>> /\ q[1] = a /\ Linked(MountLinks, q)  BY <1>1 DEF Runs
<1>3. MountPhase(a)'  BY <1>1 DEF MountPhase, Quiet
<1>4. Phase(c, Mount, a)'  BY <1>3, MountPhases
<1>5. Follows(Mount, q)'  BY <1>1, <1>2, MountKind DEF Follows
<1> QED  BY <1>2, <1>4, <1>5, MountKind, Continues DEF Promise, Simple

LEMMA MountFails ==
  ASSUME Typed, Promise, NEW c \in Callers, call[c] = Mount, FailCall(c)
  PROVE  OneCall' /\ Plans' /\ Phases'
<1>1. CASE tries > 1
  <2>1. Go(c, Attempt) /\ call' = call  BY <1>1 DEF FailCall
  <2>2. Runs(MountLinks, Step("attempt"), Attempt, Wait("await", "SEND_IF_COND", 0))  BY ResetRuns
  <2>3. PICK a, q : a = Step("attempt") /\ q = Attempt  OBVIOUS
  <2>4. a \in MountSteps /\ a.do = "attempt" /\ a.cmd = "none"  BY <2>3, MountPlain
  <2>5. q \in Seq(AllSteps) /\ q # <<>> /\ q[1] = a /\ Linked(MountLinks, q)  BY <2>2, <2>3 DEF Runs
  <2>6. Phase(c, Mount, a)'  BY <2>4, MountPhases DEF MountPhase
  <2>7. Follows(Mount, q)'  BY <2>4, <2>5, MountKind DEF Follows
  <2> QED  BY <2>1, <2>3, <2>5, <2>6, <2>7, MountKind, Continues DEF Promise, Simple
<1>2. CASE ~(tries > 1)
  <2>1. End(c, "failed")  BY <1>2 DEF FailCall
  <2> QED  BY <2>1, MountKind, Stops DEF Promise, Simple
<1> QED  BY <1>1, <1>2

LEMMA MountPrepares ==
  ASSUME Typed, Promise, NEW c \in Callers, call[c] = Mount, Prepare(c)
  PROVE  OneCall' /\ Plans' /\ Phases'
<1>1. PICK s, n : s = This(c) /\ n = todo[c][2]  OBVIOUS
<1>2. /\ At(c, "prepare") /\ s.do = "prepare" /\ s \in MountSteps /\ ~ViaSd(c) /\ Quiet
      /\ MountPhase(s) /\ ~Ends(s) /\ n \in MountSteps /\ <<s, n>> \in MountLinks
  <2>1. At(c, "prepare") /\ s.do = "prepare"  BY <1>1 DEF Prepare, At, This
  <2>2. ~Ends(s)  BY <2>1 DEF Ends
  <2> QED  BY <1>1, <2>1, <2>2, MountAt
<1>4. CASE /\ host' = [host EXCEPT !.arg1 = This(c).arg] /\ Goes(c)
           /\ driver' = [driver EXCEPT !.sd_err = IF ViaSd(c) THEN FALSE ELSE @]
  <2>1. driver'.ready = driver.ready  BY <1>4 DEF Typed, TypedDriver
  <2>2. host'.busy = host.busy /\ host'.xfer = host.xfer  BY <1>4 DEF Typed, TypedHost, HostOK
  <2>3. Quiet'  BY <1>2, <2>1, <2>2 DEF Quiet
  <2>4. s.cmd = "GO_IDLE_STATE" => Idling' /\ (host.xfer = NoTransfer)'
    BY <1>2, <2>2 DEF MountPhase, Idling
  <2>5. MountPhase(n)'  BY <1>2, <2>3, <2>4, MountStep
  <2> QED  BY <1>1, <1>2, <1>4, <2>5, MountPasses DEF Goes
<1>5. CASE CommandFails(c, "SD_BUSY", 4) /\ UNCHANGED <<irq, host>>
  <2>1. CASE Tolerated(s.cmd, "SD_BUSY")
    <3>1. s.cmd = "APP_CMD"  BY <2>1 DEF Tolerated
    <3>2. PICK q : q = SubSeq(todo[c], 4, Len(todo[c]))  OBVIOUS
    <3>3. /\ Go(c, q) /\ UNCHANGED calls
          /\ driver' = [driver EXCEPT !.sd_err = IF ViaSd(c) THEN TRUE ELSE @]
      BY <1>1, <1>5, <2>1, <3>1, <3>2 DEF CommandFails
    <3>4. driver'.ready = driver.ready  BY <3>3 DEF Typed, TypedDriver
    <3>5. Quiet'  BY <1>2, <1>5, <3>4 DEF Quiet
    <3>6. /\ todo[c] \in Seq(AllSteps) /\ Len(todo[c]) >= 4 /\ todo[c][3] = [todo[c][1] EXCEPT !.do = "await"]
          /\ todo[c][1] = s /\ Planned(todo[c]) /\ Linked(MountLinks, todo[c])
      <4>1. todo[c][1] = s /\ Planned(todo[c]) /\ Linked(MountLinks, todo[c]) /\ Head(todo[c]) = s
        BY <1>1, <1>2, MountAt DEF This
      <4>2. Head(todo[c]).do = "prepare" /\ Head(todo[c]).cmd # "SEND_IF_COND"  BY <1>2, <3>1, <4>1
      <4> QED  BY <4>1, <4>2, PlanRest DEF Planned
    <3>7. PICK a, b : a = todo[c][3] /\ b = todo[c][4]  OBVIOUS
    <3>8. a.do = "await" /\ a.cmd = "APP_CMD"  BY <1>2, <3>1, <3>6, <3>7 DEF MountSteps, AllSteps
    <3>9. <<a, b>> \in MountLinks
      <4> DEFINE l == Len(todo[c])
      <4>1. l \in Nat /\ l >= 4  BY <3>6
      <4> HIDE DEF l
      <4>2. 3 \in 1..l - 1  BY <4>1
      <4>3. <<todo[c][3], todo[c][3 + 1]>> \in MountLinks  BY <3>6, <4>2 DEF Linked, l
      <4> QED  BY <3>7, <4>3
    <3>10. a \in MountSteps /\ b \in MountSteps
      <4>1. <<a, b>> \in MountSteps \X MountSteps  BY <3>9 DEF MountLinks
      <4> QED  BY <4>1
    <3>11. MountPhase(b)'  BY <3>5, <3>8, <3>9, <3>10, MountStep
    <3>12. q \in Seq(AllSteps) /\ q # <<>> /\ Linked(MountLinks, q) /\ q[1] = b
      <4>1. 4 \in 2..Len(todo[c])  BY <3>6
      <4> QED  BY <3>2, <3>6, <3>7, <4>1, Dropped
    <3>13. Follows(Mount, q)'  BY <3>10, <3>12, MountKind DEF Follows
    <3> QED  BY <3>3, <3>11, <3>12, <3>13, MountKind, MountPhases, Continues DEF Promise, Simple, calls
  <2>2. CASE ~Tolerated(s.cmd, "SD_BUSY")
    <3>1. FailCall(c)  BY <1>1, <1>2, <1>5, <2>2 DEF CommandFails
    <3> QED  BY <3>1, MountFails
  <2> QED  BY <2>1, <2>2
<1> QED  BY <1>4, <1>5 DEF Prepare

LEMMA MountGoes ==
  ASSUME Typed, Promise, NEW c \in Callers, call[c] = Mount, NEW do, At(c, do), Goes(c), Quiet',
         do \notin {"attempt", "finish"}, ~Ends(This(c)),
         do \notin {"clock", "clear", "prepare"} \/ (Idling' /\ (host.xfer = NoTransfer)')
  PROVE  OneCall' /\ Plans' /\ Phases'
<1>1. PICK s, n : s = This(c) /\ n = todo[c][2]  OBVIOUS
<1>2. s.do = do /\ s \in MountSteps /\ n \in MountSteps /\ <<s, n>> \in MountLinks  BY <1>1, MountAt
<1>3. MountPhase(n)'  BY <1>2, MountStep
<1> QED  BY <1>1, <1>3, MountPasses DEF Goes

LEMMA MountIssues ==
  ASSUME Typed, Promise, NEW c \in Callers, call[c] = Mount, Issue(c)
  PROVE  OneCall' /\ Plans' /\ Phases'
<1>1. At(c, "issue") /\ Goes(c) /\ driver' = driver
      /\ host' = [host EXCEPT !.busy = [cmd |-> This(c).cmd, arg |-> host.arg1, count |-> host.blkcnt]]
  BY DEF Issue
<1>2. This(c).do = "issue" /\ This(c) \in MountSteps /\ Quiet
  <2>1. At(c, "issue") /\ "issue" \notin {"attempt", "reset", "return"}  BY <1>1
  <2> QED  BY <2>1, MountAt
<1>3. This(c).cmd \in MountCommands /\ ~Ends(This(c))  BY <1>2 DEF MountSteps, Waits, Ends
<1>4. host'.busy.cmd = This(c).cmd /\ host'.xfer = host.xfer  BY <1>1 DEF Typed, TypedHost, HostOK
<1>5. Quiet'  BY <1>1, <1>2, <1>3, <1>4 DEF Quiet, MountCommands, WriteMoves, Moves, Multiple
<1> QED  BY <1>1, <1>3, <1>5, MountGoes

LEMMA MountAwaits ==
  ASSUME Typed, Promise, NEW c \in Callers, call[c] = Mount, Await(c)
  PROVE  OneCall' /\ Plans' /\ Phases'
<1>1. At(c, "await") /\ host' = host /\ kind' = kind  BY DEF Await
<1>2. This(c).do = "await" /\ ~ViaSd(c) /\ Quiet /\ todo[c] \in Seq(AllSteps)
      /\ (~Ends(This(c)) => Len(todo[c]) >= 2)
  <2>1. At(c, "await") /\ "await" \notin {"attempt", "reset", "return"}  BY <1>1
  <2> QED  BY <2>1, MountAt DEF Planned
<1>3. This(c).cmd # "SEND_IF_COND" => ~Ends(This(c))  BY <1>2 DEF Ends
<1>4. ASSUME UNCHANGED calls, Quiet',
             Go(c, IF This(c).cmd = "SEND_IF_COND" THEN NewCard ELSE Tail(todo[c]))
             \/ Go(c, IF This(c).cmd = "SEND_IF_COND" THEN OldCard ELSE Tail(todo[c]))
      PROVE  OneCall' /\ Plans' /\ Phases'
  <2>1. CASE This(c).cmd = "SEND_IF_COND"
    <3>1. MountRuns(NewCard) /\ MountRuns(OldCard)  BY Bounds, NewCardRuns, OldCardRuns
    <3>2. PICK q : MountRuns(q) /\ Go(c, q)  BY <1>4, <2>1, <3>1
    <3> QED  BY <1>4, <3>2, MountTurns DEF calls
  <2>2. CASE This(c).cmd # "SEND_IF_COND"
    <3>1. Goes(c)  BY <1>4, <2>2 DEF Goes, Proceed
    <3> QED  BY <1>1, <1>3, <1>4, <2>2, <3>1, MountGoes
  <2> QED  BY <2>1, <2>2
<1>5. ASSUME NEW res, CommandFails(c, res, 2) PROVE OneCall' /\ Plans' /\ Phases'
  <2>1. CASE Tolerated(This(c).cmd, res)
    <3>1. /\ Go(c, IF This(c).cmd = "SEND_IF_COND" THEN OldCard ELSE SubSeq(todo[c], 2, Len(todo[c])))
          /\ driver' = [driver EXCEPT !.sd_err = IF ViaSd(c) THEN TRUE ELSE @] /\ UNCHANGED calls
      BY <1>5, <2>1 DEF CommandFails
    <3>2. driver'.ready = driver.ready  BY <3>1 DEF Typed, TypedDriver
    <3>3. Quiet'  BY <1>1, <1>2, <3>2 DEF Quiet
    <3>4. This(c).cmd # "SEND_IF_COND" => Tail(todo[c]) = SubSeq(todo[c], 2, Len(todo[c]))
      BY <1>2, <1>3
    <3>5. Go(c, IF This(c).cmd = "SEND_IF_COND" THEN OldCard ELSE Tail(todo[c]))  BY <3>1, <3>4
    <3> QED  BY <1>4, <3>1, <3>3, <3>5
  <2>2. CASE ~Tolerated(This(c).cmd, res)
    <3>1. FailCall(c)  BY <1>2, <1>5, <2>2 DEF CommandFails
    <3> QED  BY <3>1, MountFails
  <2> QED  BY <2>1, <2>2
<1>6. ASSUME Answered(c) PROVE OneCall' /\ Plans' /\ Phases'
  <2>1. CASE CommandFails(c, "R1", 2)  BY <1>5, <2>1
  <2>2. CASE /\ Go(c, IF This(c).cmd = "SEND_IF_COND" THEN NewCard ELSE Tail(todo[c]))
             /\ driver' = Noted(This(c).cmd) /\ UNCHANGED calls
    <3>1. driver'.ready = driver.ready  BY <2>2 DEF Noted, Typed, TypedDriver
    <3>2. Quiet'  BY <1>1, <1>2, <3>1 DEF Quiet
    <3> QED  BY <1>4, <2>2, <3>2
  <2> QED  BY <1>6, <2>1, <2>2 DEF Answered
<1> QED  BY <1>5, <1>6 DEF Await

LEMMA MountData ==
  ASSUME Typed, Promise, NEW c \in Callers, call[c] = Mount, WaitData(c) \/ SetCount(c)
  PROVE  OneCall' /\ Plans' /\ Phases'
<1>1. CASE WaitData(c)
  <2>1. At(c, "data") /\ host' = host  BY <1>1 DEF WaitData, hardware
  <2>2. CASE Goes(c) /\ UNCHANGED driver
    <3>1. Quiet /\ This(c).do = "data"
      <4>1. At(c, "data") /\ "data" \notin {"attempt", "reset", "return"}  BY <2>1
      <4> QED  BY <4>1, MountAt
    <3>2. Quiet' /\ ~Ends(This(c))  BY <2>1, <2>2, <3>1 DEF Quiet, Ends
    <3> QED  BY <2>1, <2>2, <3>2, MountGoes
  <2> QED  BY <1>1, <2>2, MountFails DEF WaitData, Fails
<1>2. CASE SetCount(c)
  <2>1. At(c, "count") /\ host' = [host EXCEPT !.blkcnt = This(c).arg] /\ driver' = driver /\ Goes(c)
    BY <1>2 DEF SetCount
  <2>2. Quiet /\ This(c).do = "count"
    <3>1. At(c, "count") /\ "count" \notin {"attempt", "reset", "return"}  BY <2>1
    <3> QED  BY <3>1, MountAt
  <2>3. host'.busy = host.busy /\ host'.xfer = host.xfer  BY <2>1 DEF Typed, TypedHost, HostOK
  <2>4. Quiet' /\ ~Ends(This(c))  BY <2>1, <2>2, <2>3 DEF Quiet, Ends
  <2> QED  BY <2>1, <2>4, MountGoes
<1> QED  BY <1>1, <1>2

\* ACMD41 is sent again, as long as the card is not ready.
LEMMA MountLooks ==
  ASSUME Typed, Promise, NEW c \in Callers, call[c] = Mount, Look(c)
  PROVE  OneCall' /\ Plans' /\ Phases'
<1>1. PICK do \in {"check", "type", "opcond"} : 
         /\ At(c, do)
         /\ IF Holds(c, do) THEN Goes(c)
            ELSE IF do = "opcond" /\ ~driver.ocr /\ This(c).arg > 0
              THEN /\ Go(c, OpCond(This(c).cmd, This(c).arg - 1) \o Tail(todo[c]))
                   /\ UNCHANGED calls
              ELSE FailCall(c)
  BY DEF Look
<1>2. host' = host /\ driver' = driver  BY DEF Look, hardware
<1>3. PICK s, n : s = This(c) /\ n = todo[c][2]  OBVIOUS
<1>4. /\ s.do = do /\ s \in MountSteps /\ Quiet /\ todo[c] \in Seq(AllSteps) /\ Planned(todo[c])
      /\ Linked(MountLinks, todo[c])
  BY <1>1, <1>3, MountAt DEF Planned
<1>5. ~Ends(s) /\ s.do = "opcond"  BY <1>4 DEF Ends, MountSteps
<1>6. Quiet'  BY <1>2, <1>4 DEF Quiet
<1>7. CASE Goes(c)  BY <1>1, <1>3, <1>5, <1>6, <1>7, MountGoes
<1>8. CASE /\ This(c).arg > 0 /\ UNCHANGED calls
           /\ Go(c, OpCond(This(c).cmd, This(c).arg - 1) \o Tail(todo[c]))
  <2>1. s \in AllSteps  BY <1>4 DEF MountSteps
  <2>2. PICK h, k : h = s.cmd /\ k = s.arg - 1  OBVIOUS
  <2>3. h \in Commands \cup {"none", "HC", "SC"} /\ k \in Nat
    BY <1>3, <1>8, <2>1, <2>2 DEF AllSteps
  <2>4. PICK x, a : x = [With("opcond", k) EXCEPT !.cmd = h] /\ a = Wait("prepare", "APP_CMD", 0)
    OBVIOUS
  <2>5. Runs(MountLinks, a, OpCond(h, k), x) /\ Open(x)  BY <2>3, <2>4, OpCondRuns
  <2>6. n \in MountSteps /\ <<s, n>> \in MountLinks /\ Len(todo[c]) >= 2
    BY <1>1, <1>3, <1>5, MountAt
  <2>7. PICK t : t = Tail(todo[c])  OBVIOUS
  <2>8. t \in Seq(AllSteps) /\ t # <<>> /\ t[1] = n /\ Linked(MountLinks, t) /\ Ends(t[Len(t)])
    <3>1. PICK p : p = todo[c]  OBVIOUS
    <3>2. /\ p \in Seq(AllSteps) /\ Linked(MountLinks, p) /\ Ends(p[Len(p)]) /\ 2 \in 2..Len(p)
          /\ n = p[2] /\ t = Tail(p)
      BY <1>3, <1>4, <2>6, <2>7, <3>1 DEF Planned
    <3>3. PICK q : q = SubSeq(p, 2, Len(p))  OBVIOUS
    <3>4. /\ q \in Seq(AllSteps) /\ q # <<>> /\ Linked(MountLinks, q)
          /\ q[1] = p[2] /\ q[Len(q)] = p[Len(p)] /\ Tail(p) = q
      BY <3>2, <3>3, Dropped
    <3>5. t = q  BY <3>2, <3>4
    <3> QED  BY <3>2, <3>4, <3>5
  <2>9. Runs(MountLinks, n, t, t[Len(t)])  BY <2>8 DEF Runs
  <2>10. /\ n.do \notin {"issue", "await", "attempt", "clear"}
         /\ n.do = "prepare" => n.cmd # "GO_IDLE_STATE"
    <3>1. n \in AllSteps  BY <2>6 DEF MountSteps
    <3> QED  BY <1>4, <1>5, <2>1, <2>6, <3>1, MountIs, LinksIs
  <2>11. Runs(MountLinks, a, OpCond(h, k) \o t, t[Len(t)])
    BY <2>5, <2>6, <2>9, <2>10, MountJoin DEF Open
  <2>12. PICK q : q = OpCond(h, k) \o t  OBVIOUS
  <2>13. q \in Seq(AllSteps) /\ q # <<>> /\ q[1] = a /\ Linked(MountLinks, q) /\ Go(c, q)
    BY <1>3, <1>8, <2>2, <2>7, <2>11, <2>12 DEF Runs
  <2>14. a \in MountSteps /\ a.do = "prepare" /\ a.cmd = "APP_CMD"
    <3>1. "SEND_SCR" \in MountCommands \ {"GO_IDLE_STATE", "SEND_IF_COND"} /\ 0 \in Nat
      BY DEF MountCommands, Commands, Moves, Multiple
    <3> QED  BY <2>4, <3>1, AppRuns
  <2>15. MountPhase(a)'  BY <1>6, <2>14 DEF MountPhase, Quiet
  <2>16. Follows(Mount, q)'  BY <2>13, <2>14, MountKind DEF Follows
  <2>17. call' = call  BY <1>8 DEF calls
  <2> QED  BY <2>13, <2>15, <2>16, <2>17, MountKind, MountPhases, Continues DEF Promise, Simple
<1>9. CASE FailCall(c)  BY <1>9, MountFails
<1> QED  BY <1>1, <1>7, <1>8, <1>9

LEMMA MountResets ==
  ASSUME Typed, Promise, NEW c \in Callers, call[c] = Mount, StartAttempt(c) \/ Reset(c) \/ SetClock(c)
  PROVE  OneCall' /\ Plans' /\ Phases'
<1>1. CASE StartAttempt(c)
  <2>1. At(c, "attempt") /\ Goes(c) /\ driver' = [driver EXCEPT !.ready = FALSE]
    BY <1>1 DEF StartAttempt
  <2>2. PICK s, n : s = This(c) /\ n = todo[c][2]  OBVIOUS
  <2>3. s.do = "attempt" /\ ~Ends(s)
    <3>1. s.do = "attempt"  BY <2>1, <2>2 DEF At, This
    <3> QED  BY <3>1 DEF Ends
  <2>4. s \in MountSteps /\ n \in MountSteps /\ <<s, n>> \in MountLinks
    BY <2>1, <2>2, <2>3, MountAt
  <2>5. n.do = "reset"  BY <2>3, <2>4, MountIs
  <2>6. ~driver'.ready  BY <2>1 DEF Typed, TypedDriver
  <2>7. MountPhase(n)'  BY <2>5, <2>6 DEF MountPhase
  <2> QED  BY <2>1, <2>2, <2>3, <2>7, MountPasses DEF Goes
<1>2. CASE Reset(c)
  <2>1. At(c, "reset") /\ driver' = driver  BY <1>2 DEF Reset
  <2>2. This(c).do = "reset"  BY <2>1 DEF At, This
  <2>3. ~driver.ready /\ ~Ends(This(c))  BY <2>1, <2>2, MountAt DEF MountPhase, Ends
  <2>4. CASE host' = ResetHost /\ Goes(c)
    <3>1. Quiet'  BY <2>1, <2>3, <2>4, HostConstants DEF Quiet, WriteMoves, ResetHost
    <3> QED  BY <2>1, <2>3, <2>4, <3>1, MountGoes
  <2> QED  BY <1>2, <2>4, MountFails DEF Reset
<1>3. CASE SetClock(c)
  <2>1. At(c, "clock") /\ driver' = driver /\ host' = host  BY <1>3 DEF SetClock, hardware
  <2>2. This(c).do = "clock"  BY <2>1 DEF At, This
  <2>3. Quiet' /\ ~Ends(This(c))
    <3>1. Quiet  BY <2>1, <2>2, MountAt
    <3> QED  BY <2>1, <2>2, <3>1 DEF Quiet, Ends
  <2>4. CASE host.busy = NoCommand /\ host.xfer = NoTransfer /\ Goes(c)
    BY <2>1, <2>3, <2>4, MountGoes DEF Idling
  <2> QED  BY <1>3, <2>4, MountFails DEF SetClock
<1> QED  BY <1>1, <1>2, <1>3

LEMMA MountNotes ==
  ASSUME Typed, Promise, NEW c \in Callers, call[c] = Mount, Remember(c)
  PROVE  OneCall' /\ Plans' /\ Phases'
<1>1. PICK do \in {"clear", "type2", "type1", "finish"} : At(c, do) /\ driver' = Note(do, driver)
  BY DEF Remember
<1>2. Goes(c) /\ host' = host  BY DEF Remember, hardware
<1>3. PICK s, n : s = This(c) /\ n = todo[c][2]  OBVIOUS
<1>4. s.do = do /\ ~Ends(s)
  <2>1. s.do = do  BY <1>1, <1>3 DEF At, This
  <2> QED  BY <2>1 DEF Ends
<1>5. /\ s \in MountSteps /\ n \in MountSteps /\ <<s, n>> \in MountLinks /\ Quiet /\ MountPhase(s)
  BY <1>1, <1>3, <1>4, MountAt
<1>6. CASE do = "finish"
  <2>1. n.do = "return"  BY <1>4, <1>5, <1>6, MountIs
  <2>2. MountPhase(n)'  BY <1>2, <1>5, <2>1 DEF MountPhase, Quiet
  <2> QED  BY <1>1, <1>2, <1>3, <1>4, <2>2, MountPasses DEF Goes
<1>7. CASE do # "finish"
  <2>1. driver'.ready = driver.ready  BY <1>1, <1>7 DEF Note, ClearDriver, Typed, TypedDriver
  <2>2. Quiet'  BY <1>2, <1>5, <2>1 DEF Quiet
  <2>3. do = "clear" => Idling' /\ (host.xfer = NoTransfer)'
    BY <1>2, <1>4, <1>5 DEF MountPhase, Idling
  <2>4. do # "attempt" /\ (do \notin {"clock", "clear", "prepare"} \/ do = "clear")  BY <1>7
  <2> QED  BY <1>1, <1>2, <1>3, <1>4, <1>7, <2>2, <2>3, <2>4, MountGoes
<1> QED  BY <1>6, <1>7

LEMMA MountScr ==
  ASSUME Typed, Promise, NEW c \in Callers, call[c] = Mount, ReadScr(c)
  PROVE  OneCall' /\ Plans' /\ Phases'
<1>1. At(c, "scr")  BY DEF ReadScr
<1>2. Quiet
  <2>1. At(c, "scr") /\ "scr" \notin {"attempt", "reset", "return"}  BY <1>1
  <2> QED  BY <2>1, MountAt
<1>3. CASE FailCall(c)  BY <1>3, MountFails
<1>4. CASE ~FailCall(c)
  <2>1. PICK h : h = [host EXCEPT !.fifo = Empty]  OBVIOUS
  <2>2. /\ driver' = [driver EXCEPT !.support = kind.support, !.count = kind.support \in {"count", "both"}]
        /\ EndOf(h) /\ Go(c, Prepared) /\ UNCHANGED calls
    BY <1>4, <2>1 DEF ReadScr
  <2>3. driver'.ready = driver.ready  BY <2>2 DEF Typed, TypedDriver
  <2>4. h.busy = host.busy /\ h.xfer = host.xfer  BY <2>1 DEF Typed, TypedHost, HostOK
  <2>5. h \in [busy : Order, arg1 : Nat, blkcnt : Nat, resp : {"ok", "error", "busy"}, xfer : Moment, fifo : Words]
    BY <2>1, HostConstants DEF Typed, TypedHost, HostOK
  <2>6. host'.busy = host.busy /\ host'.xfer \in {host.xfer, NoTransfer}
    BY <2>2, <2>4, <2>5 DEF EndOf, After
  <2>7. Quiet'  BY <1>2, <2>3, <2>6, HostConstants DEF Quiet
  <2> QED  BY <2>2, <2>7, PreparedRuns, MountTurns DEF calls
<1> QED  BY <1>3, <1>4

LEMMA MountDriver ==
  ASSUME Typed, Promise, NEW c \in Callers, call[c] = Mount, Driver(c)
  PROVE  OneCall' /\ Plans' /\ Phases'
<1>1. CASE Ready(c) \/ WaitDone(c)
  <2>1. PICK do \in {"ready", "done"} : At(c, do)  BY <1>1 DEF Ready, WaitDone
  <2>2. This(c).do = do /\ This(c) \in MountSteps  BY <2>1, MountAt
  <2> QED  BY <2>2 DEF MountSteps
<1>2. CASE Return(c)  BY <1>2, Stops, MountKind DEF Return, Promise, Simple
<1> QED  BY <1>1, <1>2, MountPrepares, MountIssues, MountAwaits, MountData, MountLooks, MountResets, MountNotes,
     MountScr DEF Driver

\* Whatever the call, its driver follows the plan.
LEMMA Drives ==
  ASSUME Typed, Promise, NEW c \in Callers, Driver(c)
  PROVE  OneCall' /\ Plans' /\ Phases'
<1>1. call[c] # Idle /\ call[c] \in Requests \cup {Idle}
  BY DEF Driver, Prepare, Issue, Await, WaitData, SetCount, Ready, WaitDone, Look, StartAttempt, Reset,
         SetClock, Remember, ReadScr, Return, At, Typed, CallTypes
<1>2. PICK r \in Requests : call[c] = r  BY <1>1
<1>3. r \in Reads \/ r \in Writes \/ r = Mount  BY DEF Requests
<1> QED  BY <1>2, <1>3, ReadsDriver, WritesDriver, MountDriver

-----------------------------------------------------------------------------
(* A call begins when nobody else calls.                                   *)

LEMMA CallBegins ==
  ASSUME Careless = {}, Typed, Promise, NEW c \in Callers, NEW r \in Requests, Call(c, r)
  PROVE  OneCall' /\ Plans' /\ Phases'
<1>1. /\ \A d \in Callers : call[d] = Idle
      /\ r.kind = "read" => driver.ready /\ kind.hc
      /\ r.kind = "write" => driver.type # "TYPE_1"
  BY DEF Call, May
<1>2. /\ call' = [call EXCEPT ![c] = r] /\ todo' = [todo EXCEPT ![c] = Steps(r)]
      /\ buffer' = [d \in Callers |-> IF call[d] = Idle THEN <<>> ELSE buffer[d]]
      /\ UNCHANGED <<disk, hardware, driver, faults, late>>
  BY DEF Call, Go
<1>3. call \in [Callers -> Requests \cup {Idle}] /\ todo \in [Callers -> Seq(AllSteps)]
  BY DEF Typed, CallTypes, TypedPlans
<1>4. call'[c] = r /\ todo'[c] = Steps(r) /\ buffer'[c] = <<>>
      /\ \A d \in Callers : call'[d] # Idle => d = c
  BY <1>1, <1>2, <1>3
<1>5. OneCall'  BY <1>4 DEF OneCall
<1>6. PICK p : p = Steps(r)  OBVIOUS
<1>7. ASSUME NEW a, p \in Seq(AllSteps), p # <<>>, p[1] = a, Follows(r, p)', Phase(c, r, a)'
      PROVE  Plans' /\ Phases'
  <2>1. ASSUME NEW d \in Callers, NEW x \in Requests, call'[d] = x
        PROVE  d = c /\ x = r
    BY <1>4, <2>1, RequestKinds
  <2>2. ASSUME NEW d \in Callers, NEW x \in Requests, call'[d] = x
        PROVE  Follows(x, todo[d])'
    <3>1. d = c /\ x = r  BY <2>1, <2>2
    <3> QED  BY <1>4, <1>6, <1>7, <3>1 DEF Follows
  <2>3. ASSUME NEW d \in Callers, NEW x \in Requests, NEW s \in AllSteps, call'[d] = x, This(d)' = s
        PROVE  Phase(d, x, s)'
    <3>1. d = c /\ x = r  BY <2>1, <2>3
    <3>2. s = a  BY <1>4, <1>6, <1>7, <2>3, <3>1 DEF This
    <3> QED  BY <1>7, <3>1, <3>2
  <2> QED  BY <2>2, <2>3 DEF Plans, Phases
<1>8. CASE r \in Reads
  <2>1. r.kind = "read" /\ r.kind # "write" /\ r.kind # "mount"  BY <1>8, ReadCommands
  <2>2. driver.ccs /\ kind.hc  BY <1>1, <2>1 DEF Promise, Simple, Known
  <2>3. PICK a : a = Sd(Step("data"))  OBVIOUS
  <2>4. p = ReadBlocks(r.lba, r.num)  BY <1>6, <2>1 DEF Steps
  <2>5. Runs(ReadLinks(r), a, p, Step("return"))  BY <1>8, <2>2, <2>3, <2>4, ReadRuns
  <2>6. a.do = "data" /\ a.cmd = "none"  BY <2>3, StepFields
  <2>7. Follows(r, p)'  BY <2>1, <2>5 DEF Follows, Runs
  <2>8. kind'.hc  BY <1>2, <2>2 DEF hardware
  <2>9. ReadPhase(c, r, a)'  BY <1>4, <1>8, <2>6, <2>8, ReadCommands DEF ReadPhase, Last
  <2>10. Phase(c, r, a)'  BY <1>8, <2>9, ReadPhases
  <2> QED  BY <1>5, <1>7, <2>5, <2>7, <2>10 DEF Runs
<1>9. CASE r \in Writes
  <2>1. r.kind = "write" /\ r.kind # "read" /\ r.kind # "mount"  BY <1>9, WriteCommands
  <2>2. PICK a : a = Step("type")  OBVIOUS
  <2>3. p = WriteBlocks(r.lba, r.num)  BY <1>6, <2>1 DEF Steps
  <2>4. Runs(WriteLinks(r, Shift(r.lba)), a, p, Step("return"))
    BY <1>9, <2>2, <2>3, WriteRuns DEF Typed, TypedDriver
  <2>5. a.do = "type" /\ a.cmd = "none"  BY <2>2, StepFields
  <2>6. Shift(r.lba)' = Shift(r.lba)  BY <1>2 DEF Shift
  <2>7. Follows(r, p)'  BY <2>1, <2>4, <2>6 DEF Follows, Runs
  <2>8. driver'.type # "TYPE_1"  BY <1>1, <1>2, <2>1
  <2>9. WritePhase(r, a)'  BY <1>9, <2>5, <2>8, WriteCommands DEF WritePhase, Last, Beginning, Waits
  <2>10. Phase(c, r, a)'  BY <1>9, <2>9, WritePhases
  <2> QED  BY <1>5, <1>7, <2>4, <2>7, <2>10 DEF Runs
<1>10. CASE r = Mount
  <2>1. PICK a : a = Step("attempt")  OBVIOUS
  <2>2. p = Attempt  BY <1>6, <1>10, MountKind DEF Steps
  <2>3. Runs(MountLinks, a, p, Wait("await", "SEND_IF_COND", 0))  BY <2>1, <2>2, ResetRuns
  <2>4. a.do = "attempt" /\ a.cmd = "none" /\ a \in MountSteps  BY <2>1, MountPlain
  <2>5. Follows(r, p)'  BY <1>10, <2>3, <2>4, MountKind DEF Follows, Runs
  <2>6. Phase(c, r, a)'  BY <1>10, <2>4, MountPhases DEF MountPhase
  <2> QED  BY <1>5, <1>7, <2>3, <2>5, <2>6 DEF Runs
<1> QED  BY <1>8, <1>9, <1>10 DEF Requests

-----------------------------------------------------------------------------
(* What the driver does to the controller and to what is known of it.      *)

\* No write that may still store its blocks is forgotten.
Keeps == \A r \in Underway : r.kind = "write" /\ r.num > 0 => r \in Underway'

LEMMA Keeping ==
  ASSUME Typed, NEW c \in Callers, UNCHANGED calls \/ FailCall(c)
  PROVE  Keeps
<1>1. CASE call' = call /\ late' = late  BY <1>1 DEF Keeps, Underway
<1>2. CASE End(c, "failed")
  <2>1. /\ call' = [call EXCEPT ![c] = Idle]
        /\ late' = late \cup {r \in Writes : r = call[c] /\ r.num > 0}
    BY <1>2 DEF End
  <2>2. call \in [Callers -> Requests \cup {Idle}]  BY DEF Typed, CallTypes
  <2>3. ASSUME NEW d \in Callers, call[d].kind = "write", call[d].num > 0 PROVE call[d] \in Underway'
    <3>1. CASE d = c
      <4>1. call[c] \in Writes  BY <2>2, <2>3, <3>1, RequestKinds
      <4> QED  BY <2>1, <2>3, <3>1, <4>1 DEF Underway
    <3>2. CASE d # c
      <4>1. call'[d] = call[d]  BY <2>1, <2>2, <3>2
      <4> QED  BY <4>1 DEF Underway
    <3> QED  BY <3>1, <3>2
  <2> QED  BY <2>1, <2>3 DEF Keeps, Underway
<1> QED  BY <1>1, <1>2 DEF FailCall, calls

LEMMA MeantKept ==
  ASSUME Meant, Keeps, kind' = kind, host'.busy = host.busy \/ host'.busy.cmd \notin WriteMoves
  PROVE  Meant'
<1> SUFFICES ASSUME host'.busy = host.busy, host.busy.cmd \in WriteMoves, Size(host.busy)' > 0
             PROVE  (\E r \in Underway : r.kind = "write" /\ r.lba = Start(host.busy) /\ r.num = Size(host.busy))'
  BY DEF Meant
<1>1. Size(host.busy)' = Size(host.busy) /\ Start(host.busy)' = Start(host.busy)  BY DEF Size, Start
<1>2. PICK r \in Underway : r.kind = "write" /\ r.lba = Start(host.busy) /\ r.num = Size(host.busy)
  BY <1>1 DEF Meant
<1>3. r \in Underway'  BY <1>1, <1>2 DEF Keeps
<1> QED  BY <1>1, <1>2, <1>3

LEMMA AskedKept ==
  ASSUME Typed, Asked, Keeps,
         (host'.xfer = host.xfer /\ host'.fifo = host.fifo) \/ host'.xfer.dir # "write"
  PROVE  Asked'
<1> SUFFICES ASSUME host'.xfer = host.xfer, host'.fifo = host.fifo, host.xfer.dir = "write"
             PROVE  (\E r \in Underway : AskedBy(r))'
  BY DEF Asked
<1>1. PICK r \in Underway : AskedBy(r)  BY DEF Asked
<1>2. r.num > 0
  <2>1. host.xfer.at \in Nat /\ host.xfer.left \in Nat /\ host.xfer.left > 0
    BY DEF Typed, TypedHost, HostOK, Moment
  <2>2. r.lba \in Nat /\ r.num \in Nat
    BY <1>1, RequestKinds DEF Underway, Typed, CallTypes, Requests
  <2> QED  BY <1>1, <2>1, <2>2 DEF AskedBy
<1>3. r \in Underway'  BY <1>1, <1>2 DEF Keeps, AskedBy
<1>4. AskedBy(r)'  BY <1>1 DEF AskedBy
<1> QED  BY <1>3, <1>4

\* The controller, and what is written, stay as they are.
LEMMA Unmoved ==
  ASSUME Typed, Promise, Keeps, UNCHANGED <<disk, kind, card>>,
         host'.busy = host.busy, host'.xfer = host.xfer, host'.fifo = host.fifo
  PROVE  Controller' /\ Meant' /\ Asked'
<1>1. Controller /\ Meant /\ Asked  BY DEF Promise, Simple
<1>2. Controller'  BY <1>1 DEF Controller
<1> QED  BY <1>1, <1>2, MeantKept, AskedKept

LEMMA OnlyMount ==
  ASSUME Typed, Promise, NEW c \in Callers, NEW do \in Notes \cup {"attempt", "reset", "clock", "scr"}, At(c, do)
  PROVE  call[c] = Mount
<1>1. call[c] # Idle /\ call[c] \in Requests \cup {Idle}  BY DEF At, Typed, CallTypes
<1>2. do # "return"  BY DEF Notes
<1>3. call[c] \notin Reads
  <2> SUFFICES ASSUME NEW r \in Reads, call[c] = r PROVE FALSE
    OBVIOUS
  <2>1. ReadTurn(r, This(c), todo[c][2]) /\ This(c).do = do  BY <1>2, ReadsAt
  <2> QED  BY <2>1 DEF ReadTurn, Notes
<1>4. call[c] \notin Writes
  <2> SUFFICES ASSUME NEW r \in Writes, call[c] = r PROVE FALSE
    OBVIOUS
  <2>1. WriteTurn(r, Shift(r.lba), This(c), todo[c][2]) /\ This(c).do = do  BY <1>2, WritesAt
  <2> QED  BY <2>1 DEF WriteTurn, Notes
<1> QED  BY <1>1, <1>3, <1>4 DEF Requests

LEMMA KnownKept ==
  ASSUME Known, kind' = kind, driver'.type = driver.type,
         (driver'.ready = driver.ready /\ driver'.ccs = driver.ccs) \/ ~driver'.ready
  PROVE  Known'
  BY DEF Known

LEMMA Refuses ==
  ASSUME Typed, NEW c \in Callers, NEW res, NEW k, CommandFails(c, res, k)
  PROVE  /\ UNCHANGED calls \/ FailCall(c)
         /\ driver'.type = driver.type /\ driver'.ready = driver.ready /\ driver'.ccs = driver.ccs
<1>1. CASE UNCHANGED calls /\ driver' = [driver EXCEPT !.sd_err = IF ViaSd(c) THEN TRUE ELSE @]
  BY <1>1 DEF Typed, TypedDriver
<1>2. CASE FailCall(c) /\ driver' = driver  BY <1>2
<1> QED  BY <1>1, <1>2 DEF CommandFails

LEMMA Answers ==
  ASSUME Typed, NEW c \in Callers, Await(c)
  PROVE  /\ UNCHANGED calls \/ FailCall(c)
         /\ driver'.type = driver.type /\ driver'.ready = driver.ready /\ driver'.ccs = driver.ccs
<1>1. CASE UNCHANGED calls /\ driver' = Noted(This(c).cmd)  BY <1>1 DEF Noted, Typed, TypedDriver
<1>2. CASE \E res : CommandFails(c, res, 2)  BY <1>2, Refuses
<1> QED  BY <1>1, <1>2 DEF Await, Answered

LEMMA Prepares ==
  ASSUME Typed, NEW c \in Callers, Prepare(c)
  PROVE  /\ UNCHANGED calls \/ FailCall(c)
         /\ driver'.type = driver.type /\ driver'.ready = driver.ready /\ driver'.ccs = driver.ccs
         /\ host'.busy = host.busy /\ host'.xfer = host.xfer /\ host'.fifo = host.fifo
<1>1. CASE /\ host' = [host EXCEPT !.arg1 = This(c).arg] /\ Goes(c)
           /\ driver' = [driver EXCEPT !.sd_err = IF ViaSd(c) THEN FALSE ELSE @]
  <2>1. UNCHANGED calls  BY <1>1 DEF Goes
  <2>2. host'.busy = host.busy /\ host'.xfer = host.xfer /\ host'.fifo = host.fifo
    BY <1>1 DEF Typed, TypedHost, HostOK
  <2>3. driver'.type = driver.type /\ driver'.ready = driver.ready /\ driver'.ccs = driver.ccs
    BY <1>1 DEF Typed, TypedDriver
  <2> QED  BY <2>1, <2>2, <2>3
<1>2. CASE CommandFails(c, "SD_BUSY", 4) /\ UNCHANGED <<irq, host>>  BY <1>2, Refuses
<1> QED  BY <1>1, <1>2 DEF Prepare

LEMMA FailsKnow ==
  ASSUME Typed, NEW c \in Callers, Fails(c)
  PROVE  FailCall(c) /\ driver'.type = driver.type /\ driver'.ready = driver.ready /\ driver'.ccs = driver.ccs
  BY DEF Fails, Typed, TypedDriver

LEMMA DriverKnows ==
  ASSUME Typed, Promise, NEW c \in Callers, Driver(c)
  PROVE  Known'
<1>1. Known  BY DEF Promise, Simple
<1>2. kind' = kind
  BY DEF Driver, Prepare, Issue, Await, WaitData, SetCount, Ready, WaitDone, Look, StartAttempt, Reset,
         SetClock, Remember, ReadScr, Return, hardware
<1>3. CASE Prepare(c)  BY <1>1, <1>2, <1>3, Prepares, KnownKept
<1>4. CASE Await(c)  BY <1>1, <1>2, <1>4, Answers, KnownKept
<1>5. CASE driver' = driver  BY <1>1, <1>2, <1>5, KnownKept
<1>6. CASE Fails(c)  BY <1>1, <1>2, <1>6, FailsKnow, KnownKept
<1>7. CASE StartAttempt(c)
  <2>1. ~driver'.ready /\ driver'.type = driver.type  BY <1>7 DEF StartAttempt, Typed, TypedDriver
  <2> QED  BY <1>1, <1>2, <2>1, KnownKept
<1>8. CASE Remember(c)
  <2>1. PICK do \in Notes : At(c, do) /\ driver' = Note(do, driver)  BY <1>8 DEF Remember, Notes
  <2>2. call[c] = Mount  BY <2>1, OnlyMount
  <2>3. do \notin {"attempt", "reset", "return"}  BY DEF Notes
  <2>4. ~driver.ready  BY <2>1, <2>2, <2>3, MountAt DEF Quiet
  <2>5. CASE do = "clear"
    <3>1. ~driver'.ready /\ driver'.type = "UNKNOWN"
      BY <2>1, <2>4, <2>5 DEF Note, ClearDriver, Typed, TypedDriver
    <3> QED  BY <3>1 DEF Known
  <2>6. CASE do = "type2"
    <3>1. ~driver'.ready /\ driver'.type = IF kind.hc THEN "TYPE_2_HC" ELSE "TYPE_2_SC"
      BY <2>1, <2>4, <2>6 DEF Note, Typed, TypedDriver
    <3> QED  BY <1>2, <3>1 DEF Known
  <2>7. CASE do = "type1"
    <3>1. ~driver'.ready /\ driver'.type = "TYPE_1"
      BY <2>1, <2>4, <2>7 DEF Note, Typed, TypedDriver
    <3> QED  BY <3>1 DEF Known
  <2>8. CASE do = "finish"
    <3>1. driver'.ccs /\ driver'.type = driver.type  BY <2>1, <2>8 DEF Note, Typed, TypedDriver
    <3> QED  BY <1>1, <1>2, <3>1 DEF Known
  <2> QED  BY <2>5, <2>6, <2>7, <2>8 DEF Notes
<1>9. CASE driver' = [driver EXCEPT !.support = kind.support, !.count = kind.support \in {"count", "both"}]
  <2>1. driver'.type = driver.type /\ driver'.ready = driver.ready /\ driver'.ccs = driver.ccs
    BY <1>9 DEF Typed, TypedDriver
  <2> QED  BY <1>1, <1>2, <2>1, KnownKept
<1>10. CASE ReadScr(c)  BY <1>5, <1>9, <1>10 DEF ReadScr
<1>11. CASE WaitData(c) \/ Ready(c)  BY <1>5, <1>6, <1>11 DEF WaitData, Ready
<1>12. CASE Issue(c) \/ SetCount(c) \/ WaitDone(c) \/ Look(c) \/ Reset(c) \/ SetClock(c) \/ Return(c)
  BY <1>5, <1>12 DEF Issue, SetCount, WaitDone, Look, Reset, SetClock, Return
<1> QED  BY <1>3, <1>4, <1>7, <1>8, <1>10, <1>11, <1>12 DEF Driver

LEMMA DriverStill ==
  ASSUME Typed, Promise, NEW c \in Callers,
         \/ Prepare(c) \/ Await(c) \/ WaitData(c) \/ SetCount(c) \/ WaitDone(c) \/ Look(c)
         \/ StartAttempt(c) \/ SetClock(c) \/ Remember(c)
  PROVE  Controller' /\ Meant' /\ Asked' /\ Keeps
<1>1. UNCHANGED <<disk, kind, card>>
  BY DEF Prepare, Await, WaitData, SetCount, WaitDone, Look, StartAttempt, SetClock, Remember, hardware
<1>2. UNCHANGED calls \/ FailCall(c)
  <2>1. CASE Prepare(c)  BY <2>1, Prepares
  <2>2. CASE Await(c)  BY <2>2, Answers
  <2>3. CASE WaitData(c)  BY <2>3, FailsKnow DEF WaitData, Goes
  <2>4. CASE SetCount(c) \/ WaitDone(c) \/ Look(c) \/ StartAttempt(c) \/ SetClock(c) \/ Remember(c)
    BY <2>4 DEF SetCount, WaitDone, Look, StartAttempt, SetClock, Remember, Goes
  <2> QED  BY <2>1, <2>2, <2>3, <2>4
<1>3. Keeps  BY <1>2, Keeping
<1>4. host'.busy = host.busy /\ host'.xfer = host.xfer /\ host'.fifo = host.fifo
  <2>1. CASE Prepare(c)  BY <2>1, Prepares
  <2>2. CASE SetCount(c)
    <3>1. host' = [host EXCEPT !.blkcnt = This(c).arg]  BY <2>2 DEF SetCount
    <3> QED  BY <3>1 DEF Typed, TypedHost, HostOK
  <2>3. CASE Await(c) \/ WaitData(c) \/ WaitDone(c) \/ Look(c) \/ StartAttempt(c) \/ SetClock(c) \/ Remember(c)
    BY <2>3 DEF Await, WaitData, WaitDone, Look, StartAttempt, SetClock, Remember, hardware
  <2> QED  BY <2>1, <2>2, <2>3
<1> QED  BY <1>1, <1>3, <1>4, Unmoved

LEMMA Undone == ASSUME NEW a \in Nat, NEW u \in Nat, u > 0 PROVE (a * u) \div u = a
  OBVIOUS

\* The card is told to write where the request says.
LEMMA OrdersWrite ==
  ASSUME Typed, Known, NEW r \in Writes, driver.type \notin {"TYPE_1", "UNKNOWN"}
  PROVE  r.lba = Start(WriteOrder(r)) /\ r.num = Size(WriteOrder(r)) /\ WriteOrder(r).cmd \in WriteMoves
<1>1. PICK q : q = WriteOrder(r)  OBVIOUS
<1>2. q.cmd = WriteCommand(r) /\ q.arg = Shift(r.lba) /\ q.count = r.num  BY <1>1 DEF WriteOrder
<1>3. r.num = Size(q) /\ q.cmd \in WriteMoves  BY <1>2 DEF Size, WriteCommand, Multiple, WriteMoves
<1>4. r.lba \in Nat  BY WriteCommands
<1>5. CASE driver.type = "TYPE_2_HC"
  <2>1. kind.hc /\ Shift(r.lba) = r.lba  BY <1>5 DEF Shift, Known
  <2> QED  BY <1>1, <1>2, <1>3, <2>1 DEF Start
<1>6. CASE driver.type = "TYPE_2_SC"
  <2>1. ~kind.hc /\ Shift(r.lba) = r.lba * Unit  BY <1>6 DEF Shift, Known
  <2>2. (r.lba * Unit) \div Unit = r.lba  BY <1>4, Bounds, Undone
  <2> QED  BY <1>1, <1>2, <1>3, <2>1, <2>2 DEF Start
<1> QED  BY <1>5, <1>6 DEF Typed, TypedDriver

LEMMA IssuesWrite ==
  ASSUME Typed, Promise, NEW c \in Callers, NEW r \in Writes, call[c] = r, Issue(c),
         This(c).cmd \in WriteMoves
  PROVE  (r.lba = Start(host.busy) /\ r.num = Size(host.busy))'
<1>1. This(c).do = "issue" /\ WriteTurn(r, Shift(r.lba), This(c), todo[c][2]) /\ WritePhase(r, This(c))
  BY WritesAt DEF Issue
<1>2. This(c).cmd = WriteCommand(r)  BY <1>1 DEF WriteTurn, WriteMoves
<1>3. host.blkcnt = r.num /\ host.arg1 = Shift(r.lba) /\ driver.type \notin {"TYPE_1", "UNKNOWN"}
  BY <1>1, <1>2 DEF WritePhase
<1>4. PICK q : q = WriteOrder(r)  OBVIOUS
<1>5. host'.busy = q /\ kind' = kind
  BY <1>2, <1>3, <1>4 DEF Issue, WriteOrder, Typed, TypedHost, HostOK
<1>6. r.lba = Start(q) /\ r.num = Size(q)  BY <1>3, <1>4, OrdersWrite DEF Promise, Simple
<1> QED  BY <1>5, <1>6 DEF Start, Size

LEMMA DriverIssues ==
  ASSUME Typed, Promise, NEW c \in Callers, Issue(c)
  PROVE  Controller' /\ Meant' /\ Asked' /\ Keeps
<1> DEFINE s == This(c)
<1>1. UNCHANGED <<disk, kind, card>> /\ UNCHANGED calls /\ At(c, "issue")  BY DEF Issue, Goes
<1>2. host'.busy.cmd = s.cmd /\ host'.xfer = host.xfer /\ host'.fifo = host.fifo
  BY DEF Issue, Typed, TypedHost, HostOK
<1>3. Keeps  BY <1>1, Keeping
<1>4. Controller /\ Meant /\ Asked  BY DEF Promise, Simple
<1>5. Asked'  BY <1>2, <1>3, <1>4, AskedKept
<1>6. call[c] \in Requests /\ s.do = "issue"  BY <1>1 DEF At, This, Typed, CallTypes
<1>7. s.cmd \in {"GO_IDLE_STATE", "STOP_TRANS"} => host.xfer = NoTransfer
  <2>1. ASSUME NEW r \in Reads, call[c] = r, s.cmd \in {"GO_IDLE_STATE", "STOP_TRANS"} PROVE host.xfer = NoTransfer
    <3>1. ReadTurn(r, s, todo[c][2]) /\ ReadPhase(c, r, s)  BY <2>1, ReadsAt DEF Issue
    <3>2. s.cmd = "STOP_TRANS"  BY <1>6, <2>1, <3>1, ReadCommands, ReadFacts DEF ReadTurn
    <3> QED  BY <3>1, <3>2 DEF ReadPhase, Last, Resting
  <2>2. ASSUME NEW r \in Writes, call[c] = r, s.cmd \in {"GO_IDLE_STATE", "STOP_TRANS"} PROVE host.xfer = NoTransfer
    <3>1. WriteTurn(r, Shift(r.lba), s, todo[c][2]) /\ WritePhase(r, s)  BY <2>2, WritesAt DEF Issue
    <3>2. s.cmd = "STOP_TRANS"  BY <1>6, <2>2, <3>1 DEF WriteTurn, WriteCommand
    <3> QED  BY <3>1, <3>2 DEF WritePhase, Last, Resting
  <2>3. ASSUME call[c] = Mount, s.cmd \in {"GO_IDLE_STATE", "STOP_TRANS"} PROVE host.xfer = NoTransfer
    <3>1. s \in MountSteps /\ MountPhase(s)  BY <1>1, <2>3, MountAt
    <3>2. s.cmd = "GO_IDLE_STATE"  BY <1>6, <2>3, <3>1 DEF MountSteps, MountCommands, Waits
    <3> QED  BY <1>6, <3>1, <3>2 DEF MountPhase
  <2> QED  BY <1>6, <2>1, <2>2, <2>3 DEF Requests
<1>8. Controller'  BY <1>1, <1>2, <1>4, <1>7 DEF Controller
<1>9. Meant'
  <2>1. CASE s.cmd \notin WriteMoves  BY <1>1, <1>2, <1>3, <1>4, <2>1, MeantKept
  <2>2. CASE s.cmd \in WriteMoves
    <3>1. call[c] \notin Reads
      <4> SUFFICES ASSUME NEW r \in Reads, call[c] = r PROVE FALSE
        OBVIOUS
      <4>1. ReadTurn(r, s, todo[c][2])  BY ReadsAt DEF Issue
      <4> QED  BY <1>6, <2>2, <4>1 DEF ReadTurn, ReadCommand, WriteMoves
    <3>2. call[c] # Mount
      <4> SUFFICES ASSUME call[c] = Mount PROVE FALSE
        OBVIOUS
      <4>1. s \in MountSteps  BY <1>1, MountAt
      <4> QED  BY <1>6, <2>2, <4>1 DEF MountSteps, MountCommands, Waits, WriteMoves, Moves, Multiple
    <3>3. PICK r \in Writes : call[c] = r  BY <1>6, <3>1, <3>2 DEF Requests
    <3>4. (r.lba = Start(host.busy) /\ r.num = Size(host.busy))'  BY <2>2, <3>3, IssuesWrite
    <3>5. r \in Underway' /\ r.kind = "write"  BY <1>1, <3>3, WriteCommands DEF Underway, calls
    <3> QED  BY <3>4, <3>5 DEF Meant
  <2> QED  BY <2>1, <2>2
<1> QED  BY <1>3, <1>5, <1>8, <1>9

\* A block has passed: the transfer goes on, or it was the last one.
LEMMA Passed ==
  ASSUME Typed, Controller, host.xfer # NoTransfer,
         NEW h, h.busy = host.busy, h.fifo = Empty, h.xfer.left = 0 \/ h.xfer # NoTransfer,
         DOMAIN h = DOMAIN host, h = [x \in DOMAIN h |-> h[x]], EndOf(h), UNCHANGED kind, disk' = disk \/ \A b \in Blocks : disk'[b] # Empty
  PROVE  /\ Controller' /\ host'.busy = host.busy /\ host'.fifo = Empty
         /\ h.xfer.left = 0 => host'.xfer = NoTransfer
         /\ h.xfer.left # 0 => host'.xfer = h.xfer
         /\ host'.resp = h.resp
<1>1. h.busy.cmd \notin {"GO_IDLE_STATE", "STOP_TRANS"} /\ card.state = "data"  BY DEF Controller
<1>2. DOMAIN h = {"busy", "arg1", "blkcnt", "resp", "xfer", "fifo"}  BY DEF Typed, TypedHost, HostOK
<1>3. card \in [state : States, app : BOOLEAN, checked : BOOLEAN, limit : Nat]
  BY DEF Typed, TypedCard
<1>4. \A b \in Blocks : disk'[b] # Empty  BY DEF Controller
<1>5. CASE h.xfer.left = 0
  <2>1. Finished(h)  BY <1>5 DEF Finished
  <2>2. host' = [h EXCEPT !.xfer = NoTransfer]  BY <2>1 DEF EndOf, After
  <2>3. host'.busy = host.busy /\ host'.fifo = Empty /\ host'.xfer = NoTransfer /\ host'.resp = h.resp
    BY <1>2, <2>2
  <2> QED  BY <1>4, <1>5, <2>3 DEF Controller
<1>6. CASE h.xfer.left # 0
  <2>1. ~Finished(h)  BY <1>6 DEF Finished
  <2>2. host' = h  BY <2>1 DEF EndOf, After
  <2>3. card'.state = "data"  BY <1>1, <1>3, <2>1 DEF EndOf
  <2> QED  BY <1>1, <1>4, <1>6, <2>2, <2>3 DEF Controller
<1> QED  BY <1>5, <1>6

LEMMA FifoTaken ==
  ASSUME Typed, NEW h, h = [host EXCEPT !.fifo = Empty]
  PROVE  /\ h.busy = host.busy /\ h.fifo = Empty /\ h.xfer = host.xfer /\ h.resp = host.resp
         /\ DOMAIN h = DOMAIN host /\ h = [x \in DOMAIN h |-> h[x]]
  BY DEF Typed, TypedHost, HostOK

LEMMA DriverReady ==
  ASSUME Typed, Promise, NEW c \in Callers, Ready(c)
  PROVE  Controller' /\ Meant' /\ Asked' /\ Keeps
<1>1. UNCHANGED <<disk, kind>> /\ At(c, "ready")  BY DEF Ready
<1>2. UNCHANGED calls \/ FailCall(c)  BY FailsKnow DEF Ready, Goes
<1>3. Keeps  BY <1>2, Keeping
<1>4. Controller /\ Meant /\ Asked  BY DEF Promise, Simple
<1>5. CASE UNCHANGED <<host, card>>  BY <1>1, <1>3, <1>5, Unmoved
<1>6. CASE host.xfer.dir = "read" /\ EndOf([host EXCEPT !.fifo = Empty])
  <2>1. PICK h : h = [host EXCEPT !.fifo = Empty]  OBVIOUS
  <2>2. host.xfer # NoTransfer  BY <1>6, HostConstants
  <2>3. h.busy = host.busy /\ h.fifo = Empty /\ h.xfer = host.xfer
        /\ DOMAIN h = DOMAIN host /\ h = [x \in DOMAIN h |-> h[x]]
    BY <2>1, FifoTaken
  <2>4. EndOf(h)  BY <1>6, <2>1
  <2>5. /\ Controller' /\ host'.busy = host.busy
        /\ h.xfer.left = 0 => host'.xfer = NoTransfer
        /\ h.xfer.left # 0 => host'.xfer = h.xfer
    BY <1>1, <1>4, <2>2, <2>3, <2>4, Passed
  <2>6. host'.xfer.dir # "write"  BY <1>6, <2>3, <2>5, HostConstants
  <2> QED  BY <1>1, <1>3, <1>4, <2>5, <2>6, MeantKept, AskedKept
<1>7. CASE /\ host.xfer.dir = "write" /\ ~ViaSd(c) /\ Waited("WRITE_RDY") = "SD_OK" /\ UNCHANGED card
           /\ host' = [host EXCEPT !.fifo = Content(call[c].lba + This(c).arg, call[c].version)]
           /\ UNCHANGED calls
  <2>1. call[c] \in Requests /\ This(c).do = "ready"  BY <1>1 DEF At, This, Typed, CallTypes
  <2>2. call[c] \notin Reads
    <3> SUFFICES ASSUME NEW r \in Reads, call[c] = r PROVE FALSE
      OBVIOUS
    <3>1. ReadTurn(r, This(c), todo[c][2])  BY ReadsAt DEF Ready
    <3> QED  BY <1>7, <2>1, <3>1 DEF ReadTurn, ViaSd
  <2>3. call[c] # Mount
    <3> SUFFICES ASSUME call[c] = Mount PROVE FALSE
      OBVIOUS
    <3>1. This(c) \in MountSteps  BY <1>1, MountAt
    <3> QED  BY <2>1, <3>1 DEF MountSteps
  <2>4. PICK r \in Writes : call[c] = r  BY <2>1, <2>2, <2>3 DEF Requests
  <2>5. PICK k : k = This(c).arg  OBVIOUS
  <2>6. /\ k \in Nat /\ k < r.num /\ host.xfer.asked
        /\ host.xfer.at = r.lba + k /\ host.xfer.left = r.num - k
    BY <1>7, <2>4, <2>5, WritesHanded
  <2>7. host'.fifo = Content(r.lba + k, r.version) /\ host'.xfer = host.xfer /\ host'.busy = host.busy
    BY <1>7, <2>4, <2>5 DEF Typed, TypedHost, HostOK
  <2>8. Controller'
    <3>1. host.xfer # NoTransfer  BY <1>7, HostConstants
    <3> QED  BY <1>1, <1>4, <1>7, <2>7, <3>1 DEF Controller
  <2>9. Meant'  BY <1>1, <1>3, <1>4, <2>7, MeantKept
  <2>10. Asked'
    <3>1. r.kind = "write" /\ r.lba \in Nat /\ r.num \in Nat  BY WriteCommands
    <3>2. r.lba <= r.lba + k /\ (r.lba + k) + (r.num - k) = r.lba + r.num  BY <2>6, <3>1
    <3>3. AskedBy(r)'  BY <2>6, <2>7, <3>1, <3>2 DEF AskedBy
    <3>4. r \in Underway'  BY <1>7, <2>4 DEF Underway, calls
    <3> QED  BY <3>3, <3>4 DEF Asked
  <2> QED  BY <1>3, <2>8, <2>9, <2>10
<1>8. CASE Copied(c) /\ Goes(c) /\ Waited(IF ViaSd(c) THEN "READ_RDY" ELSE "WRITE_RDY") = "SD_OK"
  <2>1. CASE ViaSd(c)  BY <1>5, <1>6, <1>8, <2>1 DEF Copied
  <2>2. CASE ~ViaSd(c)  BY <1>5, <1>7, <1>8, <2>2 DEF Copied, Goes
  <2> QED  BY <2>1, <2>2
<1> QED  BY <1>5, <1>8 DEF Ready

LEMMA DriverResets ==
  ASSUME Typed, Promise, NEW c \in Callers, Reset(c) \/ ReadScr(c)
  PROVE  Controller' /\ Meant' /\ Asked' /\ Keeps
<1>1. UNCHANGED <<disk, kind>>  BY DEF Reset, ReadScr
<1>2. UNCHANGED calls \/ FailCall(c)  BY DEF Reset, ReadScr, Goes
<1>3. Keeps  BY <1>2, Keeping
<1>4. Controller /\ Meant /\ Asked  BY DEF Promise, Simple
<1>5. CASE UNCHANGED <<host, card>>  BY <1>1, <1>3, <1>5, Unmoved
<1>6. CASE Reset(c) /\ host' = ResetHost
  <2>1. host'.busy = NoCommand /\ host'.xfer = NoTransfer /\ host'.fifo = Empty
    BY <1>6 DEF ResetHost
  <2>2. Controller'  BY <1>1, <1>4, <2>1, HostConstants DEF Controller
  <2>3. host'.busy.cmd \notin WriteMoves /\ host'.xfer.dir # "write"
    BY <2>1, HostConstants DEF WriteMoves
  <2> QED  BY <1>1, <1>3, <1>4, <2>2, <2>3, MeantKept, AskedKept
<1>7. CASE ReadScr(c) /\ host.fifo = Scr /\ EndOf([host EXCEPT !.fifo = Empty])
  <2>1. PICK h : h = [host EXCEPT !.fifo = Empty]  OBVIOUS
  <2>2. host.xfer # NoTransfer
    <3>1. Scr # Empty  BY DEF Scr, Empty
    <3> QED  BY <1>4, <1>7, <3>1 DEF Controller
  <2>3. h.busy = host.busy /\ h.fifo = Empty /\ h.xfer = host.xfer
        /\ DOMAIN h = DOMAIN host /\ h = [x \in DOMAIN h |-> h[x]]
    BY <2>1, FifoTaken
  <2>4. EndOf(h)  BY <1>7, <2>1
  <2>5. /\ Controller' /\ host'.busy = host.busy
        /\ h.xfer.left = 0 => host'.xfer = NoTransfer
        /\ h.xfer.left # 0 => host'.xfer = h.xfer
    BY <1>1, <1>4, <2>2, <2>3, <2>4, Passed
  <2>6. host.xfer.dir # "write"
    <3>1. At(c, "scr") /\ "scr" \in Notes \cup {"attempt", "reset", "clock", "scr"}
      BY <1>7 DEF ReadScr
    <3>2. call[c] = Mount  BY <3>1, OnlyMount
    <3>3. "scr" \notin {"attempt", "reset", "return"}  OBVIOUS
    <3> QED  BY <3>1, <3>2, <3>3, MountAt DEF Quiet
  <2>7. host'.xfer.dir # "write"  BY <2>3, <2>5, <2>6, HostConstants
  <2> QED  BY <1>1, <1>3, <1>4, <2>5, <2>7, MeantKept, AskedKept
<1> QED  BY <1>5, <1>6, <1>7 DEF Reset, ReadScr

\* When a call succeeds, the controller does nothing for it or for another any more.
LEMMA AllDone ==
  ASSUME Typed, Promise, NEW c \in Callers, At(c, "return")
  PROVE  host.busy.cmd \notin WriteMoves /\ host.xfer.dir # "write"
<1>1. call[c] \in Requests /\ This(c).do = "return" /\ This(c) \in AllSteps /\ Last(This(c))
  BY Doing DEF At, Typed, CallTypes, Last
<1>2. Phase(c, call[c], This(c))  BY <1>1 DEF Promise, Phases
<1>3. CASE call[c].kind = "read"
  <2>1. Resting  BY <1>1, <1>2, <1>3 DEF Phase, ReadPhase
  <2> QED  BY <2>1, HostConstants DEF Resting, WriteMoves
<1>4. CASE call[c].kind = "write"
  <2>1. Resting  BY <1>1, <1>2, <1>4 DEF Phase, WritePhase
  <2> QED  BY <2>1, HostConstants DEF Resting, WriteMoves
<1>5. CASE call[c].kind = "mount"  BY <1>1, <1>2, <1>5 DEF Phase, MountPhase
<1> QED  BY <1>1, <1>3, <1>4, <1>5, RequestKinds DEF Requests

LEMMA DriverReturns ==
  ASSUME Typed, Promise, NEW c \in Callers, Return(c)
  PROVE  Controller' /\ Meant' /\ Asked'
<1>1. UNCHANGED <<disk, kind, card, host>> /\ At(c, "return")  BY DEF Return, hardware
<1>2. host.busy.cmd \notin WriteMoves /\ host.xfer.dir # "write"  BY <1>1, AllDone
<1>3. Controller'  BY <1>1 DEF Promise, Simple, Controller
<1> QED  BY <1>1, <1>2, <1>3 DEF Meant, Asked

LEMMA DriverPromise ==
  ASSUME Typed, Promise, NEW c \in Callers, Driver(c)
  PROVE  Promise'
<1>1. OneCall' /\ Plans' /\ Phases' /\ Known'  BY Drives, DriverKnows
<1>2. Controller' /\ Meant' /\ Asked'
  BY DriverStill, DriverIssues, DriverReady, DriverResets, DriverReturns DEF Driver
<1> QED  BY <1>1, <1>2 DEF Promise, Simple

LEMMA CallPromise ==
  ASSUME Careless = {}, Typed, Promise, NEW c \in Callers, NEW r \in Requests, Call(c, r)
  PROVE  Promise'
<1>1. OneCall' /\ Plans' /\ Phases'  BY CallBegins
<1>2. UNCHANGED <<disk, kind, card, host, driver, late>>  BY DEF Call, hardware
<1>3. Keeps
  <2>1. \A d \in Callers : call[d] = Idle  BY DEF Call, May
  <2>2. Idle.kind = "none"  BY RequestKinds
  <2> QED  BY <1>2, <2>1, <2>2 DEF Keeps, Underway
<1>4. Controller' /\ Meant' /\ Asked'  BY <1>2, <1>3, Unmoved
<1>5. Known'  BY <1>2 DEF Promise, Simple, Known
<1> QED  BY <1>1, <1>4, <1>5 DEF Promise, Simple

-----------------------------------------------------------------------------
(* What the controller and the card do by themselves.                      *)

LEMMA Stays ==
  ASSUME Promise, Apart,
         \A c \in Callers : \A r \in Requests : \A s \in AllSteps : Phase(c, r, s) => Phase(c, r, s)'
  PROVE  OneCall' /\ Known' /\ Plans' /\ Phases' /\ Keeps
<1>1. UNCHANGED <<kind, driver, call, todo, late>>  BY DEF Apart, caller, calls
<1>2. OneCall /\ Known /\ Plans /\ Phases  BY DEF Promise, Simple
<1>3. OneCall' /\ Known' /\ Keeps  BY <1>1, <1>2 DEF OneCall, Known, Keeps, Underway
<1>4. Plans'  BY <1>1, <1>2 DEF Plans, Follows, Shift
<1>5. Phases'  BY <1>1, <1>2 DEF Phases, This
<1> QED  BY <1>3, <1>4, <1>5

LEMMA ReadMeanwhile ==
  ASSUME Typed, Promise, Apart, NEW c \in Callers, NEW r \in Reads, NEW s \in AllSteps, ReadPhase(c, r, s),
         BlockRead \/ BlockAsked \/ BlockStored \/ TransferEnds
  PROVE  ReadPhase(c, r, s)'
<1>1. kind' = kind /\ buffer' = buffer /\ driver' = driver  BY DEF Apart, caller
<1>2. Steady /\ irq \subseteq irq' /\ (Pending => Pending')
  BY DEF BlockRead, BlockAsked, BlockStored, TransferEnds, Pending
<1>3. ReadQuiet => ReadQuiet'
  <2>1. CASE BlockRead  BY <1>2, <2>1 DEF ReadQuiet, BlockRead
  <2>2. CASE BlockAsked  BY <1>2, <2>2 DEF ReadQuiet, BlockAsked
  <2>3. CASE BlockStored  BY <1>2, <2>3 DEF ReadQuiet, BlockStored
  <2>4. CASE TransferEnds  BY <1>2, <2>4 DEF ReadQuiet, TransferEnds, Errors
  <2> QED  BY <2>1, <2>2, <2>3, <2>4
<1>4. ASSUME NEW k \in Nat, ReadOn(c, r, k) PROVE ReadOn(c, r, k)'
  <2>1. Idling' /\ (Pending => Pending')  BY <1>2, <1>4 DEF ReadOn, Idling, Steady
  <2> SUFFICES ASSUME ~Pending', Reading(c, r, k) PROVE Reading(c, r, k)'
    BY <1>4, <2>1 DEF ReadOn
  <2>2. NoTransfer.dir = "none"  BY HostConstants
  <2>3. CASE BlockRead
    <3>1. GotFirst(c, r, k)'  BY <1>1, <2>3 DEF Reading, GotFirst, BlockRead
    <3>2. host.xfer.dir = "read" /\ host.xfer.at = r.lba + k /\ host.xfer.left = Amount(r) - k
      BY <2>2, <2>3 DEF Reading, BlockRead
    <3>3. k < Amount(r)  BY <2>3, <3>2, ReadFacts DEF BlockRead
    <3>4. host'.fifo = disk'[r.lba + k]  BY <2>3, <3>2 DEF BlockRead
    <3>5. host'.xfer.at = r.lba + k + 1 /\ host'.xfer.left = Amount(r) - k - 1 /\ host'.xfer.dir = "read"
          /\ host'.fifo # Empty
      BY <2>3, <3>2 DEF BlockRead
    <3> QED  BY <3>1, <3>3, <3>4, <3>5 DEF Reading
  <2>4. CASE BlockAsked \/ BlockStored  BY <2>2, <2>4 DEF Reading, BlockAsked, BlockStored
  <2>5. CASE TransferEnds  BY <1>1, <2>5 DEF Reading, GotFirst, TransferEnds
  <2> QED  BY <2>3, <2>4, <2>5
<1>5. ASSUME GotFirst(c, r, Amount(r)), Resting PROVE GotFirst(c, r, Amount(r))' /\ Resting'
  <2>1. NoTransfer.dir = "none"  BY HostConstants
  <2>2. TransferEnds  BY <1>5, <2>1 DEF Resting, BlockRead, BlockAsked, BlockStored
  <2> QED  BY <1>1, <1>2, <1>5, <2>2 DEF GotFirst, Resting, TransferEnds, Steady
<1>6. Idling => Idling'  BY <1>2 DEF Idling, Steady
<1>7. s.arg \in Nat /\ 0 \in Nat  BY DEF AllSteps
<1> QED  BY <1>1, <1>2, <1>3, <1>4, <1>5, <1>6, <1>7 DEF ReadPhase, Steady, ReadOrder

LEMMA WriteMeanwhile ==
  ASSUME Typed, Promise, Apart, NEW c \in Callers, NEW r \in Writes, NEW s \in AllSteps, WritePhase(r, s),
         BlockRead \/ BlockAsked \/ BlockStored \/ TransferEnds
  PROVE  WritePhase(r, s)'
<1>1. kind' = kind /\ driver' = driver  BY DEF Apart
<1>2. Steady /\ irq \subseteq irq' /\ (Pending => Pending')
  BY DEF BlockRead, BlockAsked, BlockStored, TransferEnds, Pending
<1>3. Blocked => Blocked'
  BY HostConstants DEF Blocked, BlockRead, BlockAsked, BlockStored, TransferEnds
<1>4. WriteQuiet => WriteQuiet'
  <2>1. CASE BlockRead  BY <1>2, <1>3, <2>1 DEF WriteQuiet, BlockRead
  <2>2. CASE BlockAsked  BY <1>2, <1>3, <2>2 DEF WriteQuiet, BlockAsked
  <2>3. CASE BlockStored  BY <2>3 DEF WriteQuiet, Blocked, BlockStored
  <2>4. CASE TransferEnds  BY <1>2, <1>3, <2>4 DEF WriteQuiet, TransferEnds, Errors
  <2> QED  BY <2>1, <2>2, <2>3, <2>4
<1>5. ASSUME NEW k \in Nat, WriteOn(r, k) PROVE WriteOn(r, k)'
  <2>1. Idling' /\ (Pending => Pending')  BY <1>2, <1>5 DEF WriteOn, Idling, Steady
  <2> SUFFICES ASSUME ~Pending', Writing(r, k) PROVE Writing(r, k)'
    BY <1>5, <2>1 DEF WriteOn
  <2>2. NoTransfer.dir = "none"  BY HostConstants
  <2>3. CASE BlockRead  BY <2>2, <2>3 DEF Writing, BlockRead
  <2>4. CASE BlockAsked
    <3>1. /\ host.fifo = Empty /\ host.xfer.at = r.lba + k /\ host.xfer.left = r.num - k /\ StoredFirst(r, k)
          /\ "DATA_DONE" \notin irq
      BY <2>2, <2>4 DEF Writing, BlockAsked
    <3>2. StoredFirst(r, k)'  BY <2>4, <3>1 DEF StoredFirst, BlockAsked
    <3> QED  BY <2>4, <3>1, <3>2 DEF Writing, BlockAsked
  <2>5. CASE BlockStored
    <3>1. /\ k > 0 /\ host.fifo = Content(r.lba + k - 1, r.version)
          /\ host.xfer.at = r.lba + k - 1 /\ host.xfer.left = r.num - k + 1 /\ StoredFirst(r, k - 1)
          /\ "DATA_DONE" \notin irq /\ "WRITE_RDY" \notin irq
      BY <2>2, <2>5 DEF Writing, BlockStored
    <3>2. r.lba \in Nat /\ r.num \in Nat /\ r.version \in Nat  BY WriteCommands
    <3>3. disk' = [disk EXCEPT ![r.lba + k - 1] = Content(r.lba + k - 1, r.version)]
      BY <2>5, <3>1 DEF BlockStored
    <3>4. r.lba + k - 1 \in Blocks
      <4>1. /\ host.xfer.at \in Nat /\ host.xfer.left > 0
            /\ \A b \in Nat : host.xfer.at <= b /\ b < host.xfer.at + host.xfer.left => b \in Blocks
        BY <2>5 DEF Typed, TypedHost, HostOK, Moment, BlockStored
      <4>2. host.xfer.left \in Nat  BY DEF Typed, TypedHost, HostOK, Moment
      <4> QED  BY <3>1, <4>1, <4>2
    <3>5. disk \in [Blocks -> Words]  BY DEF Typed, TypedCard
    <3>6. StoredFirst(r, k)'
      <4> SUFFICES ASSUME NEW b \in Nat, r.lba <= b, b < r.lba + k PROVE disk'[b] = Content(b, r.version)
        BY DEF StoredFirst
      <4>1. CASE b = r.lba + k - 1  BY <3>3, <3>4, <3>5, <4>1
      <4>2. CASE b # r.lba + k - 1
        <5>1. b < r.lba + (k - 1)  BY <3>2, <4>2
        <5>2. disk[b] = Content(b, r.version)  BY <3>1, <5>1 DEF StoredFirst
        <5> QED  BY <3>3, <3>5, <4>2, <5>2
      <4> QED  BY <4>1, <4>2
    <3>7. CASE host.xfer.left = 1 /\ host'.xfer = NoTransfer
      <4>1. k = r.num  BY <3>1, <3>2, <3>7
      <4> QED  BY <3>6, <3>7, <4>1 DEF Writing
    <3>8. CASE /\ host.xfer.left > 1 /\ host'.xfer.dir = "write" /\ irq' = irq
               /\ host'.xfer.at = host.xfer.at + 1 /\ host'.xfer.left = host.xfer.left - 1
      <4>1. host'.xfer.at = r.lba + k /\ host'.xfer.left = r.num - k  BY <3>1, <3>2, <3>8
      <4> QED  BY <2>5, <3>1, <3>6, <3>8, <4>1 DEF Writing, BlockStored
    <3> QED  BY <2>5, <3>7, <3>8 DEF BlockStored
  <2>6. CASE TransferEnds  BY <2>6 DEF Writing, StoredFirst, TransferEnds
  <2> QED  BY <2>3, <2>4, <2>5, <2>6
<1>6. ASSUME StoredFirst(r, r.num), Resting PROVE StoredFirst(r, r.num)' /\ Resting'
  <2>1. NoTransfer.dir = "none"  BY HostConstants
  <2>2. TransferEnds  BY <1>6, <2>1 DEF Resting, BlockRead, BlockAsked, BlockStored
  <2> QED  BY <1>1, <1>2, <1>6, <2>2 DEF StoredFirst, Resting, TransferEnds, Steady
<1>7. Idling => Idling'  BY <1>2 DEF Idling, Steady
<1>8. s.arg \in Nat /\ 0 \in Nat /\ r.num \in Nat  BY WriteCommands DEF AllSteps
<1>9. Shift(r.lba)' = Shift(r.lba) /\ WriteOrder(r)' = WriteOrder(r)  BY <1>1 DEF Shift, WriteOrder
<1> QED  BY <1>1, <1>2, <1>3, <1>4, <1>5, <1>6, <1>7, <1>8, <1>9 DEF WritePhase, Steady

LEMMA MountMeanwhile ==
  ASSUME Typed, Promise, Apart, NEW s, MountPhase(s),
         BlockRead \/ BlockAsked \/ BlockStored \/ TransferEnds \/ CommandEnds
  PROVE  MountPhase(s)'
<1>1. driver' = driver  BY DEF Apart
<1>2. NoTransfer.dir = "none" /\ NoCommand.cmd = "none"  BY HostConstants
<1>3. CASE BlockRead \/ BlockAsked \/ BlockStored
  BY <1>1, <1>2, <1>3 DEF MountPhase, BlockRead, BlockAsked, BlockStored, Steady
<1>4. CASE TransferEnds  BY <1>1, <1>2, <1>4 DEF MountPhase, TransferEnds, Steady, Idling
<1>5. CASE CommandEnds
  <2>1. host.busy.cmd \notin WriteMoves /\ host.xfer.dir # "write" => host'.xfer.dir # "write"
    BY <1>2, <1>5 DEF CommandEnds, Begins, Transfer, Moves, Multiple, WriteMoves
  <2>2. host'.busy.cmd \notin WriteMoves  BY <1>2, <1>5 DEF CommandEnds, Idling, WriteMoves
  <2> QED  BY <1>1, <1>5, <2>1, <2>2 DEF MountPhase, CommandEnds
<1> QED  BY <1>3, <1>4, <1>5

LEMMA ReadEnds ==
  ASSUME Typed, Promise, Apart, NEW c \in Callers, NEW r \in Reads, NEW s \in AllSteps, ReadPhase(c, r, s),
         CommandEnds
  PROVE  ReadPhase(c, r, s)'
<1>1. kind' = kind /\ buffer' = buffer /\ driver' = driver  BY DEF Apart, caller
<1>2. ~Idling /\ Idling' /\ disk' = disk /\ host'.blkcnt = host.blkcnt  BY DEF CommandEnds
<1>3. ASSUME s.cmd = ReadCommand(r), s.do = "await" PROVE ReadOn(c, r, 0)'
  <2> SUFFICES ASSUME ~Pending' PROVE Reading(c, r, 0)'
    BY <1>2 DEF ReadOn
  <2>1. host.busy = ReadOrder(r) /\ ReadQuiet /\ buffer[c] = <<>> /\ kind.hc
    BY <1>2, <1>3 DEF ReadPhase, ReadOn
  <2>2. host.busy.cmd = ReadCommand(r) /\ host.busy.arg = r.lba /\ host.busy.count = Amount(r)
    BY <2>1 DEF ReadOrder
  <2>3. Size(host.busy) = Amount(r) /\ Start(host.busy) = r.lba /\ host.busy.cmd \in Moves
    BY <2>1, <2>2 DEF Size, Start, ReadCommand, Multiple, Moves
  <2>4. host.xfer = NoTransfer  BY <2>2, <2>3 DEF CommandEnds, ReadCommand
  <2>5. "READ_RDY" \notin irq /\ "READ_RDY" \notin irq'
    <3>1. ~Pending  BY DEF CommandEnds, Pending
    <3>2. host.xfer.dir \notin {"read", "scr"}  BY <2>4, HostConstants
    <3> QED  BY <2>1, <3>1, <3>2 DEF ReadQuiet, CommandEnds, Errors
  <2>6. host.fifo = Empty /\ host'.fifo = Empty
    BY <2>4 DEF Promise, Simple, Controller, CommandEnds
  <2>7. GotFirst(c, r, 0)'  BY <1>1, <2>1 DEF GotFirst
  <2>8. CASE host'.xfer = NoTransfer  BY <2>5, <2>7, <2>8 DEF Reading
  <2>9. CASE host'.xfer = Transfer(host.busy)
    <3>1. host'.xfer.dir = "read" /\ host'.xfer.at = r.lba /\ host'.xfer.left = Amount(r)
      BY <2>2, <2>3, <2>9 DEF Transfer, ReadCommand
    <3>2. r.lba + 0 = r.lba /\ Amount(r) - 0 = Amount(r)  BY ReadFacts
    <3> QED  BY <2>5, <2>6, <2>7, <3>1, <3>2 DEF Reading
  <2> QED  BY <2>4, <2>8, <2>9 DEF CommandEnds
<1>4. ASSUME GotFirst(c, r, Amount(r)), Resting PROVE GotFirst(c, r, Amount(r))' /\ Resting'
  <2>1. host.busy.cmd = "STOP_TRANS"  BY <1>2, <1>4 DEF Resting, Idling, Typed, TypedHost, HostOK
  <2>2. host'.xfer = NoTransfer  BY <1>4, <2>1 DEF Resting, CommandEnds, Begins, Moves, Multiple
  <2>3. host'.busy.cmd = "none"  BY <1>2, HostConstants DEF Idling
  <2> QED  BY <1>1, <1>2, <1>4, <2>2, <2>3 DEF GotFirst, Resting
<1>5. ~ReadOn(c, r, 0) /\ ~ReadOn(c, r, s.arg)  BY <1>2 DEF ReadOn
<1> QED  BY <1>1, <1>2, <1>3, <1>4, <1>5 DEF ReadPhase

LEMMA WriteEnds ==
  ASSUME Typed, Promise, Apart, NEW r \in Writes, NEW s \in AllSteps, WritePhase(r, s), CommandEnds
  PROVE  WritePhase(r, s)'
<1>1. kind' = kind /\ driver' = driver  BY DEF Apart
<1>2. ~Idling /\ Idling' /\ disk' = disk /\ host'.blkcnt = host.blkcnt  BY DEF CommandEnds
<1>3. NoTransfer.dir = "none" /\ NoCommand.cmd = "none"  BY HostConstants
<1>4. host.xfer = NoTransfer => host.fifo = Empty  BY DEF Promise, Simple, Controller
<1>5. Blocked => Blocked'  BY <1>3, <1>4 DEF Blocked, CommandEnds
<1>6. ASSUME s.cmd = WriteCommand(r), s.do = "await" PROVE (host'.resp = "error" /\ Idling') \/ WriteOn(r, 0)'
  <2> SUFFICES ASSUME ~Pending', host'.resp # "error" PROVE Writing(r, 0)'
    BY <1>2 DEF WriteOn
  <2>1. host.busy = WriteOrder(r) /\ WriteQuiet /\ driver.type \notin {"TYPE_1", "UNKNOWN"}
    BY <1>2, <1>6 DEF WritePhase, WriteOn
  <2>2. Size(host.busy) = r.num /\ Start(host.busy) = r.lba /\ host.busy.cmd \in WriteMoves
    BY <2>1, OrdersWrite DEF Promise, Simple
  <2>3. host.xfer = NoTransfer /\ (r.num = 0 \/ Begins(host.busy))
    BY <2>2 DEF CommandEnds, WriteMoves, Moves, Multiple
  <2>4. "WRITE_RDY" \notin irq' /\ "DATA_DONE" \notin irq'
    <3>1. ~Pending  BY DEF CommandEnds, Pending
    <3>2. host.xfer.dir # "write"  BY <1>3, <2>3
    <3> QED  BY <2>1, <3>1, <3>2 DEF WriteQuiet, CommandEnds, Errors
  <2>5. host'.fifo = Empty  BY <1>4, <2>3 DEF CommandEnds
  <2>6. r.lba \in Nat /\ r.num \in Nat  BY WriteCommands
  <2>7. StoredFirst(r, 0)'  BY <2>6 DEF StoredFirst
  <2>8. CASE r.num = 0
    <3>1. ~Begins(host.busy)  BY <2>2, <2>8 DEF Begins
    <3>2. host'.xfer = NoTransfer  BY <2>3, <3>1 DEF CommandEnds
    <3> QED  BY <2>7, <2>8, <3>2 DEF Writing
  <2>9. CASE r.num # 0 /\ host'.xfer = Transfer(host.busy)
    <3>1. host'.xfer.dir = "write" /\ host'.xfer.at = r.lba /\ host'.xfer.left = r.num
      BY <2>2, <2>9 DEF Transfer, WriteMoves
    <3>2. r.lba + 0 = r.lba /\ r.num - 0 = r.num  BY <2>6
    <3> QED  BY <2>4, <2>5, <2>7, <3>1, <3>2 DEF Writing
  <2>10. r.num # 0 => host'.xfer = Transfer(host.busy)
    BY <2>2, <2>3 DEF CommandEnds, WriteMoves, Moves, Multiple
  <2> QED  BY <2>8, <2>9, <2>10
<1>7. ASSUME StoredFirst(r, r.num), Resting PROVE StoredFirst(r, r.num)' /\ Resting'
  <2>1. host.busy.cmd = "STOP_TRANS"  BY <1>2, <1>7 DEF Resting, Idling, Typed, TypedHost, HostOK
  <2>2. host'.xfer = NoTransfer  BY <1>7, <2>1 DEF Resting, CommandEnds, Begins, Moves, Multiple
  <2>3. host'.busy.cmd = "none"  BY <1>2, <1>3 DEF Idling
  <2> QED  BY <1>2, <1>7, <2>2, <2>3 DEF StoredFirst, Resting
<1>8. ~WriteOn(r, 0) /\ ~WriteOn(r, s.arg) /\ ~WriteOn(r, r.num)  BY <1>2 DEF WriteOn
<1> QED  BY <1>1, <1>2, <1>5, <1>6, <1>7, <1>8 DEF WritePhase

\* A command that comes while data are moving is not taken.
LEMMA AcceptsIdle ==
  ASSUME Typed, Controller, host.busy # NoCommand, Accepts(host.busy)
  PROVE  host.xfer = NoTransfer
<1> DEFINE q == host.busy
<1>1. q.cmd \in Commands  BY OnTheWay DEF Typed, TypedHost
<1>2. card.state \in Takes[q.cmd]  BY DEF Accepts
<1>3. \A x \in Commands : "data" \in Takes[x] => x \in {"GO_IDLE_STATE", "STOP_TRANS"}
  BY DEF Takes, Commands
<1> QED  BY <1>1, <1>2, <1>3 DEF Controller

LEMMA Meanwhile ==
  ASSUME Typed, Promise, Apart,
         BlockRead \/ BlockAsked \/ BlockStored \/ TransferEnds \/ CommandEnds
  PROVE  OneCall' /\ Known' /\ Plans' /\ Phases' /\ Keeps
<1>1. ASSUME NEW c \in Callers, NEW r \in Requests, NEW s \in AllSteps, Phase(c, r, s)
      PROVE  Phase(c, r, s)'
  <2>1. CASE r \in Reads
    <3>1. ReadPhase(c, r, s)  BY <1>1, <2>1, ReadPhases
    <3>2. ReadPhase(c, r, s)'  BY <2>1, <3>1, ReadMeanwhile, ReadEnds
    <3> QED  BY <2>1, <3>2, ReadPhases
  <2>2. CASE r \in Writes
    <3>1. WritePhase(r, s)  BY <1>1, <2>2, WritePhases
    <3>2. WritePhase(r, s)'  BY <2>2, <3>1, WriteMeanwhile, WriteEnds
    <3> QED  BY <2>2, <3>2, WritePhases
  <2>3. CASE r = Mount
    <3>1. MountPhase(s)  BY <1>1, <2>3, MountPhases
    <3>2. MountPhase(s)'  BY <3>1, MountMeanwhile
    <3> QED  BY <2>3, <3>2, MountPhases
  <2> QED  BY <2>1, <2>2, <2>3 DEF Requests
<1> QED  BY <1>1, Stays

\* A write begins for a call that asked for it.
LEMMA WriteBegins ==
  ASSUME Typed, Promise, Keeps, Begins(host.busy), ~Misplaced(host.busy), host.busy # NoCommand,
         host'.xfer = Transfer(host.busy), host'.fifo = Empty
  PROVE  Asked'
<1> SUFFICES ASSUME host'.xfer.dir = "write" PROVE \E r \in Underway' : AskedBy(r)'
  BY DEF Asked
<1>1. host.busy \in Order  BY OnTheWay DEF Typed, TypedHost
<1>2. /\ host.busy.cmd \in WriteMoves /\ host'.xfer.left = Size(host.busy) /\ host'.xfer.left > 0
      /\ host'.xfer.at = Start(host.busy)
  BY <1>1, TransferTypes DEF WriteMoves, Moves, Multiple
<1>3. PICK r \in Underway : r.kind = "write" /\ r.lba = Start(host.busy) /\ r.num = Size(host.busy)
  BY <1>2 DEF Promise, Simple, Meant
<1>4. r \in Underway'  BY <1>2, <1>3 DEF Keeps
<1>5. AskedBy(r)'  BY <1>1, <1>2, <1>3, StartSize DEF AskedBy
<1> QED  BY <1>4, <1>5

LEMMA AnswerPromise == ASSUME Typed, Promise, Answer PROVE Promise'
<1> DEFINE q == host.busy
<1>1. Controller /\ Meant /\ Asked  BY DEF Promise, Simple
<1>2. /\ q # NoCommand /\ UNCHANGED <<disk, kind, driver, caller>> /\ HostOK(host) /\ q.cmd \in Commands
      /\ host.resp \in {"ok", "error", "busy"} /\ q \in Order
      /\ card \in [state : States, app : BOOLEAN, checked : BOOLEAN, limit : Nat]
  <2>1. q # NoCommand /\ UNCHANGED <<disk, kind, driver, caller>>  BY DEF Answer
  <2> QED  BY <2>1, OnTheWay DEF Typed, TypedHost, HostOK, TypedCard
<1>3. NoCommand.cmd = "none" /\ NoTransfer.dir = "none"  BY HostConstants
<1>4. /\ CommandEnds /\ Controller'
      /\ \/ host'.xfer = host.xfer /\ host'.fifo = host.fifo
         \/ host'.xfer = NoTransfer
         \/ /\ Begins(q) /\ ~Misplaced(q) /\ host'.xfer = Transfer(q) /\ host'.fifo = Empty
  <2>1. CASE /\ ~Accepts(q) /\ host' = Reply(host, host.resp) /\ card' = [card EXCEPT !.app = FALSE]
             /\ irq' = irq \cup {IF NoResponse(q) THEN "CMD_DONE" ELSE "TIMEOUT"}
    <3>1. /\ host'.busy = NoCommand /\ host'.xfer = host.xfer /\ host'.fifo = host.fifo
          /\ host'.arg1 = host.arg1 /\ host'.blkcnt = host.blkcnt
      BY <1>2, <2>1, Replied
    <3>2. Pending' \/ q.cmd \notin Moves  BY <2>1 DEF Pending, Errors, NoResponse, Moves, Multiple
    <3>3. irq \subseteq irq' /\ irq' \subseteq irq \cup {"CMD_DONE"} \cup Errors  BY <2>1 DEF Errors
    <3>4. CommandEnds  BY <1>2, <3>1, <3>2, <3>3 DEF CommandEnds, Idling
    <3>5. card'.state = card.state  BY <1>2, <2>1
    <3>6. Controller'  BY <1>1, <1>2, <1>3, <3>1, <3>5 DEF Controller
    <3> QED  BY <3>1, <3>4, <3>6
  <2>2. CASE /\ Accepts(q) /\ Misplaced(q) /\ irq' = irq \cup {"CMD_DONE"}
             /\ host' = Reply(host, "error") /\ UNCHANGED card
    <3>1. /\ host'.busy = NoCommand /\ host'.xfer = host.xfer /\ host'.fifo = host.fifo
          /\ host'.arg1 = host.arg1 /\ host'.blkcnt = host.blkcnt /\ host'.resp = "error"
      BY <1>2, <2>2, Replied
    <3>2. host.xfer = NoTransfer  BY <1>1, <1>2, <2>2, AcceptsIdle
    <3>3. CommandEnds  BY <1>2, <2>2, <3>1, <3>2 DEF CommandEnds, Idling
    <3>4. Controller'  BY <1>1, <1>2, <1>3, <2>2, <3>1 DEF Controller
    <3> QED  BY <3>1, <3>3, <3>4
  <2>3. CASE /\ Accepts(q) /\ ~Misplaced(q) /\ irq' = irq \cup {"CMD_DONE"} /\ card' = TakenBy(q)
             /\ host' = [Reply(host, IF q.cmd = "OP_COND" /\ ~Powers(q) THEN "busy" ELSE "ok")
                          EXCEPT !.xfer = IF Begins(q) THEN Transfer(q)
                                          ELSE IF q.cmd = "STOP_TRANS" THEN NoTransfer ELSE @]
    <3>1. PICK x : x = IF Begins(q) THEN Transfer(q)
                       ELSE IF q.cmd = "STOP_TRANS" THEN NoTransfer ELSE host.xfer
      OBVIOUS
    <3>2. PICK resp \in {"ok", "busy"} : resp = IF q.cmd = "OP_COND" /\ ~Powers(q) THEN "busy" ELSE "ok"
      OBVIOUS
    <3>3. PICK h : h = Reply(host, resp)  OBVIOUS
    <3>4. /\ HostOK(h) /\ h.busy = NoCommand /\ h.xfer = host.xfer /\ h.fifo = host.fifo
          /\ h.arg1 = host.arg1 /\ h.blkcnt = host.blkcnt
      BY <1>2, <3>2, <3>3, Replied
    <3>5. host' = [h EXCEPT !.xfer = x]  BY <2>3, <3>1, <3>2, <3>3, <3>4
    <3>6. /\ host'.busy = NoCommand /\ host'.xfer = x /\ host'.fifo = host.fifo
          /\ host'.arg1 = host.arg1 /\ host'.blkcnt = host.blkcnt
      BY <3>4, <3>5 DEF HostOK
    <3>7. host.xfer = NoTransfer  BY <1>1, <1>2, <2>3, AcceptsIdle
    <3>8. host.fifo = Empty /\ host'.fifo = Empty  BY <1>1, <3>6, <3>7 DEF Controller
    <3>9. ~Begins(q) => x = NoTransfer  BY <3>1, <3>7
    <3>10. q.cmd \in Moves /\ ~Begins(q) => Size(q) = 0  BY <1>2, StartSize DEF Begins
    <3>11. CommandEnds  BY <1>2, <2>3, <3>1, <3>6, <3>7, <3>9, <3>10 DEF CommandEnds, Idling
    <3>12. Begins(q) => card'.state = "data"
      <4>1. card'.state = Next_State(q)  BY <2>3 DEF TakenBy
      <4> QED  BY <4>1 DEF Begins, Next_State, Powers, Moves, Multiple
    <3>13. Controller'  BY <1>1, <1>2, <1>3, <3>6, <3>8, <3>9, <3>12 DEF Controller
    <3> QED  BY <2>3, <3>1, <3>6, <3>8, <3>9, <3>11, <3>13
  <2> QED  BY <2>1, <2>2, <2>3 DEF Answer
<1>5. Apart  BY <1>2 DEF Apart
<1>6. OneCall' /\ Known' /\ Plans' /\ Phases' /\ Keeps  BY <1>4, <1>5, Meanwhile
<1>7. Meant'
  <2>1. host'.busy.cmd \notin WriteMoves  BY <1>3, <1>4 DEF CommandEnds, Idling, WriteMoves
  <2> QED  BY <1>1, <1>2, <1>6, <2>1, MeantKept
<1>8. Asked'  BY <1>1, <1>2, <1>3, <1>4, <1>6, AskedKept, WriteBegins
<1> QED  BY <1>4, <1>6, <1>7, <1>8 DEF Promise, Simple

LEMMA FaultPromise ==
  ASSUME Typed, Promise, BadAnswer \/ StillBusy
  PROVE  Promise'
<1> DEFINE q == host.busy
<1>1. Controller /\ Meant /\ Asked  BY DEF Promise, Simple
<1>2. NoCommand.cmd = "none" /\ NoTransfer.dir = "none"  BY HostConstants
<1>3. /\ q # NoCommand /\ UNCHANGED <<disk, kind, driver, caller>> /\ HostOK(host)
      /\ host.resp \in {"ok", "error", "busy"}
      /\ card \in [state : States, app : BOOLEAN, checked : BOOLEAN, limit : Nat]
  <2>1. q # NoCommand /\ UNCHANGED <<disk, kind, driver, caller>>
    BY <1>2 DEF BadAnswer, StillBusy, Fault
  <2> QED  BY <2>1 DEF Typed, TypedHost, HostOK, TypedCard
<1>4. PICK resp \in {"ok", "error", "busy"} : host' = Reply(host, resp)
  BY <1>3 DEF BadAnswer, StillBusy
<1>5. /\ host'.busy = NoCommand /\ host'.xfer = host.xfer /\ host'.fifo = host.fifo
      /\ host'.arg1 = host.arg1 /\ host'.blkcnt = host.blkcnt
  BY <1>3, <1>4, Replied
<1>6. /\ irq \subseteq irq' /\ irq' \subseteq irq \cup {"CMD_DONE"} \cup Errors
      /\ Pending' \/ q.cmd \notin Moves
  BY DEF BadAnswer, StillBusy, Errors, Pending, Moves, Multiple
<1>7. CommandEnds  BY <1>3, <1>5, <1>6 DEF CommandEnds, Idling
<1>8. host.xfer # NoTransfer => card'.state = "data"
  <2>1. host.xfer # NoTransfer => card.state = "data" /\ ~Accepts(q)
    BY <1>1, <1>3, AcceptsIdle DEF Controller
  <2>2. card'.state = card.state \/ Accepts(q)  BY <1>3 DEF BadAnswer, StillBusy
  <2> QED  BY <2>1, <2>2
<1>9. Controller'  BY <1>1, <1>2, <1>3, <1>5, <1>8 DEF Controller
<1>10. OneCall' /\ Known' /\ Plans' /\ Phases' /\ Keeps  BY <1>3, <1>7, Meanwhile DEF Apart
<1>11. Meant' /\ Asked'
  <2>1. host'.busy.cmd \notin WriteMoves  BY <1>2, <1>5 DEF WriteMoves
  <2> QED  BY <1>1, <1>3, <1>5, <1>10, <2>1, MeantKept, AskedKept
<1> QED  BY <1>9, <1>10, <1>11 DEF Promise, Simple

LEMMA ReadsBlock ==
  ASSUME Typed, Promise, Apart, UNCHANGED <<disk, card>>, irq' = irq \cup {"READ_RDY"},
         host.xfer.dir \in {"read", "scr"}, host.fifo = Empty, host.xfer.left > 0,
         host' = [Moved(host) EXCEPT !.fifo = IF host.xfer.dir = "scr" THEN Scr ELSE disk[host.xfer.at]]
  PROVE  Promise'
<1>1. Controller /\ Meant /\ Asked /\ HostOK(host) /\ kind' = kind /\ NoTransfer.dir = "none"
  BY HostConstants DEF Promise, Simple, Typed, TypedHost, Apart
<1>2. host.xfer.at \in Nat /\ host.xfer.left \in Nat  BY <1>1 DEF HostOK, Moment
<1>3. host.xfer.dir = "read" => host.xfer.at \in Blocks  BY <1>1, <1>2 DEF HostOK
<1>4. PICK w : w = IF host.xfer.dir = "scr" THEN Scr ELSE disk[host.xfer.at]  OBVIOUS
<1>5. w \in Words /\ (host.xfer.dir = "read" => w = disk[host.xfer.at] /\ w # Empty)
  BY <1>1, <1>3, <1>4, HostConstants DEF Controller, Typed, TypedCard
<1>6. /\ host'.busy = host.busy /\ host'.fifo = w /\ host'.resp = host.resp
      /\ host'.arg1 = host.arg1 /\ host'.blkcnt = host.blkcnt
      /\ host'.xfer = [dir |-> host.xfer.dir, at |-> host.xfer.at + 1, left |-> host.xfer.left - 1,
                       auto |-> host.xfer.auto, asked |-> FALSE]
  BY <1>1, <1>4, <1>5, MovedOn
<1>7. host'.xfer.dir = host.xfer.dir /\ host'.xfer.at = host.xfer.at + 1
      /\ host'.xfer.left = host.xfer.left - 1
  BY <1>6
<1>8. BlockRead  BY <1>5, <1>6, <1>7 DEF BlockRead, Steady
<1>9. Controller'
  <2>1. host.xfer # NoTransfer /\ host'.xfer # NoTransfer  BY <1>1, <1>7
  <2> QED  BY <1>1, <1>6, <2>1 DEF Controller
<1>10. OneCall' /\ Known' /\ Plans' /\ Phases' /\ Keeps  BY <1>8, Meanwhile
<1>11. Meant' /\ Asked'  BY <1>1, <1>6, <1>7, <1>10, MeantKept, AskedKept
<1> QED  BY <1>9, <1>10, <1>11 DEF Promise, Simple

LEMMA AsksForBlock ==
  ASSUME Typed, Promise, Apart, UNCHANGED <<disk, card>>, irq' = irq \cup {"WRITE_RDY"},
         host.xfer.dir = "write", ~host.xfer.asked, host' = [host EXCEPT !.xfer.asked = TRUE]
  PROVE  Promise'
<1>1. Controller /\ Meant /\ Asked /\ HostOK(host) /\ kind' = kind /\ NoTransfer.dir = "none"
  BY HostConstants DEF Promise, Simple, Typed, TypedHost, Apart
<1>2. PICK x : x = host.xfer  OBVIOUS
<1>3. x \in Moment  BY <1>1, <1>2 DEF HostOK
<1>4. host' = [host EXCEPT !.xfer = [x EXCEPT !.asked = TRUE]]  BY <1>2
<1>5. /\ host'.busy = host.busy /\ host'.fifo = host.fifo /\ host'.resp = host.resp
      /\ host'.arg1 = host.arg1 /\ host'.blkcnt = host.blkcnt /\ host'.xfer = [x EXCEPT !.asked = TRUE]
  BY <1>1, <1>4 DEF HostOK
<1>6. host'.xfer.dir = "write" /\ host'.xfer.at = x.at /\ host'.xfer.left = x.left /\ host'.xfer.asked
  BY <1>2, <1>3, <1>5 DEF Moment
<1>7. BlockAsked  BY <1>2, <1>5, <1>6 DEF BlockAsked, Steady
<1>8. Controller'
  <2>1. host.xfer # NoTransfer /\ host'.xfer # NoTransfer  BY <1>1, <1>6
  <2> QED  BY <1>1, <1>5, <2>1 DEF Controller
<1>9. OneCall' /\ Known' /\ Plans' /\ Phases' /\ Keeps  BY <1>7, Meanwhile
<1>10. Meant'  BY <1>1, <1>5, <1>9, MeantKept
<1>11. Asked'
  <2>1. PICK r \in Underway : AskedBy(r)  BY <1>1 DEF Asked
  <2>2. AskedBy(r)'  BY <1>2, <1>5, <1>6, <2>1 DEF AskedBy
  <2>3. r \in Underway'  BY <2>1 DEF Underway, Apart, caller, calls
  <2> QED  BY <2>2, <2>3 DEF Asked
<1> QED  BY <1>8, <1>9, <1>10, <1>11 DEF Promise, Simple

LEMMA StoresBlock ==
  ASSUME Typed, Promise, Apart, host.xfer.dir = "write", host.xfer.asked, host.fifo # Empty,
         disk' = [disk EXCEPT ![host.xfer.at] = host.fifo],
         NEW h, h = [Moved(host) EXCEPT !.fifo = Empty], EndOf(h), irq' = irq \cup DoneFlag(h)
  PROVE  Promise'
<1>1. Controller /\ Meant /\ Asked /\ HostOK(host) /\ kind' = kind /\ NoTransfer.dir = "none"
  BY HostConstants DEF Promise, Simple, Typed, TypedHost, Apart
<1>2. host.xfer.at \in Nat /\ host.xfer.left \in Nat /\ host.xfer.left > 0 /\ host.xfer # NoTransfer
  BY <1>1 DEF HostOK, Moment
<1>3. host.xfer.at \in Blocks /\ disk \in [Blocks -> Words]
  BY <1>1, <1>2 DEF HostOK, Typed, TypedCard
<1>4. /\ h \in [busy : Order, arg1 : Nat, blkcnt : Nat, resp : {"ok", "error", "busy"},
                xfer : Moment, fifo : Words]
      /\ h.busy = host.busy /\ h.fifo = Empty /\ h.resp = host.resp
      /\ h.arg1 = host.arg1 /\ h.blkcnt = host.blkcnt
      /\ h.xfer = [dir |-> host.xfer.dir, at |-> host.xfer.at + 1, left |-> host.xfer.left - 1,
                   auto |-> host.xfer.auto, asked |-> FALSE]
  BY <1>1, <1>2, HostConstants, MovedOn
<1>5. h.xfer.dir = "write" /\ h.xfer.at = host.xfer.at + 1 /\ h.xfer.left = host.xfer.left - 1
  BY <1>4
<1>6. DOMAIN h = DOMAIN host /\ h = [x \in DOMAIN h |-> h[x]]  BY <1>1, <1>4 DEF HostOK
<1>7. \A b \in Blocks : disk'[b] # Empty  BY <1>1, <1>3 DEF Controller
<1>8. h.xfer # NoTransfer  BY <1>1, <1>5
<1>9. /\ Controller' /\ host'.busy = host.busy /\ host'.fifo = Empty
      /\ h.xfer.left = 0 => host'.xfer = NoTransfer
      /\ h.xfer.left # 0 => host'.xfer = h.xfer
      /\ host'.resp = h.resp
  BY <1>1, <1>2, <1>4, <1>6, <1>7, <1>8, Passed
<1>10. host'.arg1 = host.arg1 /\ host'.blkcnt = host.blkcnt  BY <1>4 DEF EndOf, After
<1>11. DoneFlag(h) = IF h.xfer.left = 0 THEN {"DATA_DONE"} ELSE {}  BY <1>4 DEF DoneFlag, Finished
<1>12. BlockStored
  <2>1. CASE host.xfer.left = 1
    <3>1. h.xfer.left = 0  BY <1>5, <2>1
    <3> QED  BY <1>4, <1>9, <1>10, <1>11, <2>1, <3>1 DEF BlockStored, Steady
  <2>2. CASE host.xfer.left # 1
    <3>1. h.xfer.left # 0 /\ host.xfer.left > 1  BY <1>2, <1>5, <2>2
    <3> QED  BY <1>4, <1>5, <1>9, <1>10, <1>11, <3>1 DEF BlockStored, Steady
  <2> QED  BY <2>1, <2>2
<1>13. OneCall' /\ Known' /\ Plans' /\ Phases' /\ Keeps  BY <1>12, Meanwhile
<1>14. Meant'  BY <1>1, <1>9, <1>13, MeantKept
<1>15. Asked'
  <2>1. CASE h.xfer.left = 0  BY <1>1, <1>9, <2>1 DEF Asked
  <2>2. CASE h.xfer.left # 0
    <3>1. PICK r \in Underway : AskedBy(r)  BY <1>1 DEF Asked
    <3>2. r.lba \in Nat /\ r.num \in Nat
      BY <3>1, RequestKinds DEF Underway, Typed, CallTypes, Requests
    <3>3. host'.xfer.at = host.xfer.at + 1 /\ host'.xfer.left = host.xfer.left - 1
      BY <1>5, <1>9, <2>2
    <3>4. r.lba <= host'.xfer.at /\ host'.xfer.at + host'.xfer.left = r.lba + r.num
      BY <1>2, <3>1, <3>2, <3>3 DEF AskedBy
    <3>5. AskedBy(r)'  BY <1>9, <3>1, <3>4 DEF AskedBy
    <3>6. r \in Underway'  BY <3>1 DEF Underway, Apart, caller, calls
    <3> QED  BY <3>5, <3>6 DEF Asked
  <2> QED  BY <2>1, <2>2
<1> QED  BY <1>9, <1>13, <1>14, <1>15 DEF Promise, Simple

LEMMA MovePromise == ASSUME Typed, Promise, MoveData PROVE Promise'
<1>1. Apart /\ Moving  BY DEF MoveData, Apart
<1>2. PICK h : h = [Moved(host) EXCEPT !.fifo = Empty]  OBVIOUS
<1> QED  BY <1>1, <1>2, ReadsBlock, AsksForBlock, StoresBlock DEF MoveData, Moving

LEMMA AbortPromise ==
  ASSUME Typed, Promise, BadData \/ Hang \/ PullOut \/ PutIn \/ Recover
  PROVE  Promise'
<1>1. Controller /\ Meant /\ Asked /\ HostOK(host) /\ NoTransfer.dir = "none"
  BY HostConstants DEF Promise, Simple, Typed, TypedHost
<1>2. UNCHANGED <<disk, kind, driver, caller>>  BY DEF BadData, Hang, PullOut, PutIn, Recover, Fault
<1>3. /\ Steady /\ irq \subseteq irq' /\ irq' \subseteq irq \cup Errors
      /\ \/ host'.xfer = host.xfer /\ host'.fifo = host.fifo /\ irq' = irq /\ ~(BadData \/ PullOut)
         \/ host'.xfer = NoTransfer /\ host'.fifo = Empty /\ (Pending' \/ (host.xfer = NoTransfer /\ irq' = irq))
  <2>1. CASE BadData \/ PullOut
    <3>1. /\ host'.xfer = NoTransfer /\ host'.fifo = Empty /\ host'.busy = host.busy
          /\ host'.arg1 = host.arg1 /\ host'.blkcnt = host.blkcnt /\ host'.resp = host.resp
      BY <1>1, <2>1 DEF BadData, PullOut, Aborted, HostOK
    <3> QED  BY <2>1, <3>1 DEF BadData, PullOut, Steady, Errors, Pending
  <2>2. CASE ~(BadData \/ PullOut)
    <3>1. host' = host /\ irq' = irq  BY <2>2 DEF Hang, PutIn, Recover
    <3> QED  BY <2>2, <3>1 DEF Steady
  <2> QED  BY <2>1, <2>2
<1>4. host.xfer = NoTransfer => host.fifo = Empty  BY <1>1 DEF Controller
<1>5. TransferEnds  BY <1>2, <1>3, <1>4 DEF TransferEnds
<1>6. Controller'
  <2>1. CASE host'.xfer = NoTransfer /\ host'.fifo = Empty  BY <1>1, <1>2, <2>1 DEF Controller
  <2>2. CASE host'.xfer = host.xfer /\ host'.fifo = host.fifo /\ ~(BadData \/ PullOut)
    <3>1. card' = card \/ card.state = "out"  BY <2>2 DEF Hang, PutIn, Recover
    <3> QED  BY <1>1, <1>2, <1>3, <2>2, <3>1 DEF Controller, Steady
  <2> QED  BY <1>3, <2>1, <2>2
<1>7. OneCall' /\ Known' /\ Plans' /\ Phases' /\ Keeps  BY <1>2, <1>5, Meanwhile DEF Apart
<1>8. Meant' /\ Asked'  BY <1>1, <1>2, <1>3, <1>7, MeantKept, AskedKept DEF Steady
<1> QED  BY <1>6, <1>7, <1>8 DEF Promise, Simple

LEMMA PromiseStutter == ASSUME Typed, Promise, UNCHANGED vars PROVE Promise'
<1>1. Apart /\ TransferEnds /\ UNCHANGED <<disk, kind, card, host>>
  BY DEF vars, hardware, Apart, TransferEnds, Steady
<1>2. OneCall' /\ Known' /\ Plans' /\ Phases' /\ Keeps  BY <1>1, Meanwhile
<1>3. Controller' /\ Meant' /\ Asked'  BY <1>1, <1>2, Unmoved
<1> QED  BY <1>2, <1>3 DEF Promise, Simple

LEMMA PromiseInit == Init => Promise
<1> SUFFICES ASSUME Init PROVE Promise
  OBVIOUS
<1>1. /\ call = [c \in Callers |-> IF c = "shell" THEN Mount ELSE Idle]
      /\ todo = [c \in Callers |-> IF c = "shell" THEN Attempt ELSE <<>>]
      /\ host = ResetHost /\ ~driver.ready /\ driver.type = "UNKNOWN"
      /\ disk = [b \in Blocks |-> Content(b, 0)]
  BY DEF Init
<1>2. OneCall  BY <1>1 DEF OneCall
<1>3. Known  BY <1>1 DEF Known
<1>4. host.busy = NoCommand /\ host.xfer = NoTransfer /\ host.fifo = Empty  BY <1>1 DEF ResetHost
<1>5. Controller
  <2>1. Blocks \subseteq Nat  BY CardAssumption, Zenon
  <2>2. ASSUME NEW b \in Blocks PROVE disk[b] # Empty
    <3>1. b \in Nat /\ b # -1  BY <2>1
    <3> QED  BY <1>1, <3>1 DEF Content, Empty
  <2>3. NoCommand.cmd \notin {"GO_IDLE_STATE", "STOP_TRANS"}  BY HostConstants
  <2> QED  BY <1>4, <2>2, <2>3 DEF Controller
<1>6. Meant /\ Asked  BY <1>4, HostConstants DEF Meant, Asked, WriteMoves
<1>7. PICK a, p : a = Step("attempt") /\ p = Attempt  OBVIOUS
<1>8. a \in MountSteps /\ a.do = "attempt" /\ a.cmd = "none"  BY <1>7, MountPlain
<1>9. p \in Seq(AllSteps) /\ p # <<>> /\ p[1] = a /\ Linked(MountLinks, p)
  BY <1>7, ResetRuns DEF Runs
<1>10. ASSUME NEW c \in Callers, NEW r \in Requests, call[c] = r
       PROVE  r = Mount /\ todo[c] = p
  BY <1>1, <1>7, <1>10, RequestKinds
<1>11. Follows(Mount, p) /\ \A c \in Callers : Phase(c, Mount, a)
  BY <1>8, <1>9, MountKind, MountPhases DEF Follows, MountPhase
<1>12. Plans  BY <1>10, <1>11 DEF Plans
<1>13. Phases  BY <1>9, <1>10, <1>11 DEF Phases, This
<1> QED  BY <1>2, <1>3, <1>5, <1>6, <1>12, <1>13 DEF Promise, Simple

LEMMA PromiseNext == ASSUME Careless = {}, Typed, Promise, [Next]_vars PROVE Promise'
<1>1. CASE \E c \in Callers : Driver(c) \/ \E r \in Requests : Call(c, r)
  BY <1>1, DriverPromise, CallPromise
<1>2. CASE BadAnswer \/ StillBusy \/ BadData \/ Hang \/ PullOut \/ PutIn \/ Recover
  BY <1>2, FaultPromise, AbortPromise
<1> QED  BY <1>1, <1>2, AnswerPromise, MovePromise, PromiseStutter DEF Next

LEMMA PromiseAlways == ASSUME Careless = {} PROVE Spec => [](Typed /\ Promise)
<1>1. Init => Typed /\ Promise  BY TypedInit, PromiseInit
<1>2. (Typed /\ Promise) /\ [Next]_vars => (Typed /\ Promise)'  BY TypedNext, PromiseNext
<1> QED  BY <1>1, <1>2, PTL DEF Spec

-----------------------------------------------------------------------------
(* The drivers implement the device of blocks.                             *)

LEMMA CallEnds ==
  ASSUME Typed, NEW c \in Callers, call[c] # Idle, NEW res \in {"ok", "failed"}, End(c, res),
         disk' = disk, buffer' = buffer,
         res = "ok" => /\ call[c].kind = "read" => D!Fetched(c)
                       /\ call[c].kind = "write" => D!Stored(c)
  PROVE  D!Return(c)
<1>1. {r \in Writes : r = call[c] /\ r.num > 0}
      = {r \in Requests : r = call[c] /\ r.kind = "write" /\ r.num > 0}
  BY RequestKinds DEF Requests
<1>2. /\ call' = [call EXCEPT ![c] = Idle]
      /\ result' = [result EXCEPT ![c] = res]
      /\ late' = IF res = "ok" THEN {}
                 ELSE late \cup {r \in Requests : r = call[c] /\ r.kind = "write" /\ r.num > 0}
  BY <1>1 DEF End
<1>3. res = "ok" /\ call[c].kind = "read" => D!Fetched(c)  OBVIOUS
<1>4. res = "ok" /\ call[c].kind = "write" => D!Stored(c)  OBVIOUS
<1> QED  BY <1>2, <1>3, <1>4 DEF D!Return

Same == UNCHANGED <<disk, call, result, buffer, late>>

LEMMA CallFails ==
  ASSUME Typed, NEW c \in Callers, call[c] # Idle, FailCall(c), disk' = disk, buffer' = buffer
  PROVE  D!Return(c) \/ Same
<1>1. CASE End(c, "failed")  BY <1>1, CallEnds
<1>2. CASE UNCHANGED <<call, result, late>>  BY <1>2 DEF Same
<1> QED  BY <1>1, <1>2 DEF FailCall

\* Only sd_readblock fills a buffer, and only the last step ends a call well.
LEMMA DriverDoes ==
  ASSUME Typed, NEW c \in Callers, Driver(c), ~Return(c)
  PROVE  /\ call[c] # Idle /\ disk' = disk
         /\ \/ UNCHANGED buffer /\ (UNCHANGED calls \/ FailCall(c))
            \/ /\ At(c, "ready") /\ ViaSd(c) /\ UNCHANGED calls
               /\ \E w \in Words : buffer' = [buffer EXCEPT ![c] = Append(@, w)]
<1>1. CASE Prepare(c) \/ Await(c)  BY <1>1, Prepares, Answers DEF Prepare, Await, At
<1>2. CASE WaitData(c) \/ SetCount(c) \/ Issue(c)
  BY <1>2 DEF WaitData, SetCount, Issue, Goes, Fails, At
<1>3. CASE WaitDone(c) \/ Look(c)  BY <1>3 DEF WaitDone, Look, Goes, At
<1>4. CASE StartAttempt(c) \/ Reset(c) \/ SetClock(c) \/ Remember(c)
  BY <1>4 DEF StartAttempt, Reset, SetClock, Remember, Goes, At
<1>5. CASE ReadScr(c)  BY <1>5 DEF ReadScr, At
<1>6. CASE Ready(c)
  <2>1. At(c, "ready") /\ call[c] # Idle /\ disk' = disk  BY <1>6 DEF Ready, At
  <2>2. CASE Fails(c) /\ UNCHANGED buffer  BY <2>1, <2>2 DEF Fails
  <2>3. CASE Copied(c) /\ Goes(c)
    <3>1. Got \in Words  BY HostConstants DEF Got, Typed, TypedHost, HostOK
    <3> QED  BY <2>1, <2>3, <3>1 DEF Copied, Goes
  <2> QED  BY <1>6, <2>2, <2>3 DEF Ready
<1> QED  BY <1>1, <1>2, <1>3, <1>4, <1>5, <1>6 DEF Driver

LEMMA DriverImplements ==
  ASSUME Typed, Promise, NEW c \in Callers, Driver(c), ~Return(c)
  PROVE  D!Fetch(c) \/ D!Return(c) \/ Same
<1>1. call[c] # Idle /\ disk' = disk  BY DriverDoes
<1>2. CASE UNCHANGED buffer /\ FailCall(c)  BY <1>1, <1>2, CallFails
<1>3. CASE UNCHANGED buffer /\ UNCHANGED calls  BY <1>1, <1>3 DEF calls, Same
<1>4. CASE /\ At(c, "ready") /\ ViaSd(c) /\ UNCHANGED calls
           /\ \E w \in Words : buffer' = [buffer EXCEPT ![c] = Append(@, w)]
  <2>1. At(c, "ready") /\ "ready" # "return" /\ ViaSd(c)  BY <1>4
  <2>2. call[c] \in Reads \cup Writes \cup {Mount}  BY <1>1 DEF Typed, CallTypes, Requests
  <2>3. call[c] \notin Writes /\ call[c] # Mount  BY <2>1, WritesAt, MountAt
  <2>4. call[c].kind = "read"  BY <2>2, <2>3, ReadCommands
  <2>5. \A d \in Callers \ {c} : buffer'[d] = buffer[d]  BY <1>4 DEF Typed, TypedRest
  <2> QED  BY <1>1, <1>4, <2>4, <2>5 DEF calls, D!Fetch
<1> QED  BY <1>2, <1>3, <1>4, DriverDoes

\* A read that ends well has all its blocks, and a write has stored its.
LEMMA ReturnsWell ==
  ASSUME Typed, Promise, NEW c \in Callers, At(c, "return")
  PROVE  /\ call[c].kind = "read" => GotFirst(c, call[c], Amount(call[c]))
         /\ call[c].kind = "write" => StoredFirst(call[c], call[c].num)
<1>1. PICK r \in Requests : call[c] = r  BY Doing DEF At, Typed, CallTypes
<1>2. Phase(c, r, This(c)) /\ Last(This(c))  BY <1>1, Doing DEF Typed, Promise, Phases, Last
<1> QED  BY <1>1, <1>2 DEF Phase, ReadPhase, WritePhase

LEMMA ReturnImplements ==
  ASSUME Typed, Promise, NEW c \in Callers, Return(c)
  PROVE  D!Return(c)
<1>1. At(c, "return") /\ call[c] # Idle /\ End(c, "ok") /\ UNCHANGED <<disk, buffer>>
  BY DEF Return, At
<1>2. PICK r \in Requests : call[c] = r  BY <1>1 DEF Typed, CallTypes
<1>3. r.lba \in Nat /\ r.num \in Nat  BY RequestKinds
<1>4. r.kind = "read" => D!Fetched(c)
  BY <1>1, <1>2, ReturnsWell DEF GotFirst, Amount, D!Fetched, D!Amount
<1>5. r.kind = "write" => D!Stored(c)
  <2>1. ASSUME r.kind = "write", NEW b \in r.lba .. r.lba + r.num - 1
        PROVE  disk[b] = D!Content(b, r.version)
    <3>1. b \in Nat /\ r.lba <= b /\ b < r.lba + r.num  BY <1>3
    <3> QED  BY <1>1, <1>2, <2>1, <3>1, ReturnsWell DEF StoredFirst, Content, D!Content
  <2> QED  BY <1>2, <2>1 DEF D!Stored
<1> QED  BY <1>1, <1>2, <1>4, <1>5, CallEnds

LEMMA CallImplements ==
  ASSUME Careless = {}, NEW c \in Callers, NEW r \in Requests, Call(c, r)
  PROVE  D!Call(c)
  BY DEF Call, May, D!Call

\* Every block that the card stores is one that a call under way, or one that
\* failed, asked for.
LEMMA MoveImplements ==
  ASSUME Typed, Promise, MoveData
  PROVE  D!Store \/ Same
<1>1. UNCHANGED <<call, result, late, buffer>>  BY DEF MoveData, caller, calls
<1>2. CASE disk' = disk  BY <1>1, <1>2 DEF Same
<1>3. CASE /\ host.xfer.dir = "write" /\ host.fifo # Empty
           /\ disk' = [disk EXCEPT ![host.xfer.at] = host.fifo]
  <2>1. PICK r \in Underway : AskedBy(r)  BY <1>3 DEF Promise, Simple, Asked
  <2>2. /\ r.kind = "write" /\ r.lba <= host.xfer.at
        /\ host.xfer.at + host.xfer.left = r.lba + r.num
        /\ host.fifo = D!Content(host.xfer.at, r.version)
    BY <1>3, <2>1 DEF AskedBy, Content, D!Content
  <2>3. r.lba \in Nat /\ r.num \in Nat  BY RequestKinds DEF Underway, Typed, CallTypes, Requests
  <2>4. host.xfer.at \in Nat /\ host.xfer.left \in Nat /\ host.xfer.left > 0
    BY <1>3 DEF Typed, TypedHost, HostOK, Moment
  <2>5. host.xfer.at \in r.lba .. r.lba + r.num - 1  BY <2>2, <2>3, <2>4
  <2>6. r \in D!UnderWay  BY DEF Underway, D!UnderWay
  <2> QED  BY <1>1, <1>3, <2>2, <2>5, <2>6 DEF D!Store
<1> QED  BY <1>2, <1>3 DEF MoveData

LEMMA NextImplements ==
  ASSUME Careless = {}, Typed, Promise, [Next]_vars PROVE [D!Next]_(D!vars)
<1>1. CASE \E c \in Callers : Driver(c)
  BY <1>1, DriverImplements, ReturnImplements DEF D!Next, D!vars, Same
<1>2. CASE \E c \in Callers : \E r \in Requests : Call(c, r)  BY <1>2, CallImplements DEF D!Next
<1>3. CASE MoveData  BY <1>3, MoveImplements DEF D!Next, D!vars, Same
<1>4. CASE \/ Answer \/ BadAnswer \/ StillBusy \/ BadData \/ Hang \/ PullOut \/ PutIn \/ Recover
           \/ UNCHANGED vars
  BY <1>4 DEF Answer, BadAnswer, StillBusy, BadData, Hang, PullOut, PutIn, Recover, Fault, vars,
              caller, calls, D!vars
<1> QED  BY <1>1, <1>2, <1>3, <1>4 DEF Next

\* Callers that do only what the drivers support have a device of blocks: a read
\* that succeeds got its blocks, a write that succeeds stored its, and a block is
\* changed only by a write of it, although both drivers share one controller, a
\* command or a transfer may outlive its call, and anything may fail.
THEOREM DeviceHolds == ASSUME Careless = {} PROVE Spec => Device
<1>1. Init => D!Init  BY DEF Init, D!Init
<1>2. Typed /\ Promise /\ [Next]_vars => [D!Next]_(D!vars)  BY NextImplements
<1> QED  BY <1>1, <1>2, PromiseAlways, PTL DEF Spec, Device, D!Spec

-----------------------------------------------------------------------------
(* What each call is to do leads along the stages.                         *)

LEMMA StageTypes ==
  /\ \A at \in Ats : /\ Stage(at) \in Stages /\ Stage(at).at = at /\ Stage(at).k = 0
  /\ \A k \in Nat : /\ Rest(k) \in Stages /\ Rest(k).at = "rest" /\ Rest(k).k = k /\ Rest(k).auto
                    /\ Rest(k) = Passing("rest", k, TRUE)
  /\ \A at \in Ats, k \in Nat, auto \in BOOLEAN :
       /\ Passing(at, k, auto) \in Stages /\ Passing(at, k, auto).at = at
       /\ Passing(at, k, auto).k = k /\ Passing(at, k, auto).auto = auto
  /\ Rest(0) = Stage("rest")
<1>1. \A at \in Ats : Stage(at) \in Stages /\ Stage(at).at = at /\ Stage(at).k = 0
  BY DEF Stage, Stages
<1>2. \A at \in Ats, k \in Nat, auto \in BOOLEAN :
        /\ Passing(at, k, auto) \in Stages /\ Passing(at, k, auto).at = at
        /\ Passing(at, k, auto).k = k /\ Passing(at, k, auto).auto = auto
  BY DEF Stages, Passing
<1>3. "rest" \in Ats  BY DEF Ats
<1>4. Rest(0) = Stage("rest")  BY DEF Rest, Passing, Stage
<1> QED  BY <1>1, <1>2, <1>3, <1>4 DEF Rest

LEMMA CarryOne ==
  ASSUME NEW r, NEW l \in Stages, NEW t \in Stages, NEW s \in AllSteps, Does(r, l, s, t)
  PROVE  Carries(r, l, <<s>>, t)
<1> DEFINE f == [i \in 1..2 |-> IF i = 1 THEN l ELSE t]
<1>1. <<s>> \in Seq(AllSteps) /\ Len(<<s>>) = 1 /\ <<s>>[1] = s  OBVIOUS
<1>2. f \in [1..2 -> Stages] /\ f[1] = l /\ f[2] = t  OBVIOUS
<1> HIDE DEF f
<1>3. Guides(r, f, <<s>>)  BY <1>1, <1>2 DEF Guides
<1> QED  BY <1>1, <1>2, <1>3 DEF Carries

LEMMA CarryNothing == ASSUME NEW r, NEW l \in Stages PROVE Carries(r, l, <<>>, l)
<1> DEFINE f == [i \in 1..1 |-> l]
<1>1. <<>> \in Seq(AllSteps) /\ Len(<<>>) = 0  OBVIOUS
<1>2. f \in [1..1 -> Stages] /\ f[1] = l  OBVIOUS
<1> HIDE DEF f
<1>3. Guides(r, f, <<>>)  BY <1>1, <1>2 DEF Guides
<1> QED  BY <1>1, <1>2, <1>3 DEF Carries

LEMMA CarryOn ==
  ASSUME NEW r, NEW l, NEW m, NEW t, NEW p, NEW q, Carries(r, l, p, m), Carries(r, m, q, t)
  PROVE  Carries(r, l, p \o q, t)
<1>1. PICK f : Guides(r, f, p) /\ f[1] = l /\ f[Len(p) + 1] = m  BY DEF Carries
<1>2. PICK g : Guides(r, g, q) /\ g[1] = m /\ g[Len(q) + 1] = t  BY DEF Carries
<1> DEFINE x == p \o q
           h == [i \in 1..Len(x) + 1 |-> IF i <= Len(p) THEN f[i] ELSE g[i - Len(p)]]
<1>3. p \in Seq(AllSteps) /\ q \in Seq(AllSteps) /\ Len(p) \in Nat /\ Len(q) \in Nat  BY DEF Carries
<1>4. /\ x \in Seq(AllSteps) /\ Len(x) = Len(p) + Len(q)
      /\ \A i \in 1..Len(x) : x[i] = IF i <= Len(p) THEN p[i] ELSE q[i - Len(p)]
  BY <1>3
<1>5. f \in [1..Len(p) + 1 -> Stages] /\ g \in [1..Len(q) + 1 -> Stages]  BY <1>1, <1>2 DEF Guides
<1> HIDE DEF x
<1>6. h \in [1..Len(x) + 1 -> Stages]
  <2>1. ASSUME NEW i \in 1..Len(x) + 1 PROVE (IF i <= Len(p) THEN f[i] ELSE g[i - Len(p)]) \in Stages
    <3>1. CASE i <= Len(p)
      <4>1. i \in 1..Len(p) + 1  BY <1>3, <3>1
      <4> QED  BY <1>5, <3>1, <4>1
    <3>2. CASE ~(i <= Len(p))
      <4>1. i - Len(p) \in 1..Len(q) + 1  BY <1>3, <1>4, <3>2
      <4> QED  BY <1>5, <3>2, <4>1
    <3> QED  BY <3>1, <3>2
  <2> QED  BY <2>1
<1>7. \A i \in 1..Len(x) + 1 : h[i] = IF i <= Len(p) THEN f[i] ELSE g[i - Len(p)]  OBVIOUS
<1> HIDE DEF h
<1>8. ASSUME NEW i \in 1..Len(x) PROVE Does(r, h[i], x[i], h[i + 1])
  <2>1. i \in Nat /\ i \in 1..Len(x) + 1 /\ i + 1 \in 1..Len(x) + 1  BY <1>3, <1>4
  <2>2. CASE i < Len(p)
    <3>1. i \in 1..Len(p) /\ i <= Len(p) /\ i + 1 <= Len(p)  BY <1>3, <2>1, <2>2
    <3>2. h[i] = f[i] /\ h[i + 1] = f[i + 1]  BY <1>7, <2>1, <3>1
    <3>3. x[i] = p[i]  BY <1>4, <3>1
    <3> QED  BY <1>1, <3>1, <3>2, <3>3 DEF Guides
  <2>3. CASE i = Len(p)
    <3>1. (i + 1) - Len(p) = 1 /\ ~(i + 1 <= Len(p)) /\ i \in 1..Len(p)  BY <1>3, <2>1, <2>3
    <3>2. h[i] = f[i] /\ h[i + 1] = g[1] /\ x[i] = p[i]  BY <1>4, <1>7, <2>1, <3>1
    <3>3. h[i + 1] = f[i + 1]  BY <1>1, <1>2, <2>3, <3>2
    <3> QED  BY <1>1, <3>1, <3>2, <3>3 DEF Guides
  <2>4. CASE i > Len(p)
    <3>1. /\ i - Len(p) \in 1..Len(q) /\ (i + 1) - Len(p) = (i - Len(p)) + 1
          /\ ~(i <= Len(p)) /\ ~(i + 1 <= Len(p))
      BY <1>3, <1>4, <2>1, <2>4
    <3>2. h[i] = g[i - Len(p)] /\ h[i + 1] = g[(i - Len(p)) + 1] /\ x[i] = q[i - Len(p)]
      BY <1>4, <1>7, <2>1, <3>1
    <3> QED  BY <1>2, <3>1, <3>2 DEF Guides
  <2> QED  BY <1>3, <2>1, <2>2, <2>3, <2>4
<1>9. h[1] = l
  <2>1. 1 \in 1..Len(x) + 1  BY <1>3, <1>4
  <2>2. CASE Len(p) = 0
    <3>1. ~(1 <= Len(p)) /\ 1 - Len(p) = 1 /\ Len(p) + 1 = 1  BY <2>2
    <3> QED  BY <1>1, <1>2, <1>7, <2>1, <3>1
  <2>3. CASE Len(p) # 0
    <3>1. 1 <= Len(p)  BY <1>3, <2>3
    <3> QED  BY <1>1, <1>7, <2>1, <3>1
  <2> QED  BY <2>2, <2>3
<1>10. h[Len(x) + 1] = t
  <2>1. Len(x) + 1 \in 1..Len(x) + 1 /\ ~(Len(x) + 1 <= Len(p)) /\ (Len(x) + 1) - Len(p) = Len(q) + 1
    BY <1>3, <1>4
  <2> QED  BY <1>2, <1>7, <2>1
<1>11. Carries(r, l, x, t)  BY <1>4, <1>6, <1>8, <1>9, <1>10 DEF Carries, Guides
<1> QED  BY <1>11 DEF x

LEMMA CarryBoth ==
  ASSUME NEW r, NEW l \in Stages, NEW m \in Stages, NEW t \in Stages, NEW a \in AllSteps, NEW b \in AllSteps,
         Does(r, l, a, m), Does(r, m, b, t)
  PROVE  Carries(r, l, <<a, b>>, t)
<1>1. <<a, b>> = <<a>> \o <<b>>  BY Two
<1> QED  BY <1>1, CarryOne, CarryOn

LEMMA Three ==
  ASSUME NEW S, NEW x \in S, NEW y \in S, NEW z \in S, NEW p \in Seq(S), Len(p) = 3,
         p[1] = x, p[2] = y, p[3] = z
  PROVE  p = (<<x>> \o <<y>>) \o <<z>>
<1> DEFINE t == (<<x>> \o <<y>>) \o <<z>>
<1>1. <<x>> \in Seq(S) /\ <<y>> \in Seq(S) /\ <<z>> \in Seq(S)  OBVIOUS
<1>2. t \in Seq(S) /\ Len(t) = 3 /\ t[1] = x /\ t[2] = y /\ t[3] = z  BY <1>1
<1> HIDE DEF t
<1>3. p = <<x, y, z>> /\ t = <<x, y, z>>  BY <1>2
<1> QED  BY <1>3 DEF t

LEMMA CommandSteps ==
  ASSUME NEW cmd \in Commands, NEW arg \in Nat
  PROVE  LET a == Wait("prepare", cmd, arg)
             b == Wait("issue", cmd, arg)
             d == Wait("await", cmd, arg)
         IN /\ Command(cmd, arg) = (<<a>> \o <<b>>) \o <<d>>
            /\ SdCmd(cmd, arg) = ((<<Sd(a)>> \o <<Sd(b)>>) \o <<Sd(d)>>) \o <<CheckOf(cmd)>>
<1> DEFINE a == Wait("prepare", cmd, arg)
           b == Wait("issue", cmd, arg)
           d == Wait("await", cmd, arg)
           sd == [i \in 1..3 |-> Sd(Command(cmd, arg)[i])]
<1>1. /\ Command(cmd, arg) \in Seq(AllSteps) /\ Len(Command(cmd, arg)) = 3
      /\ Command(cmd, arg)[1] = a /\ Command(cmd, arg)[2] = b /\ Command(cmd, arg)[3] = d
  <2>1. Command(cmd, arg) = [i \in 1..3 |-> Wait(<<"prepare", "issue", "await">>[i], cmd, arg)]
    BY DEF Command, Wait
  <2>2. \A i \in 1..3 : <<"prepare", "issue", "await">>[i] \in Waits  BY DEF Waits
  <2>3. \A i \in 1..3 : Command(cmd, arg)[i] \in AllSteps  BY <2>1, <2>2, StepTypes
  <2> QED  BY <2>1, <2>3
<1>2. /\ a \in AllSteps /\ b \in AllSteps /\ d \in AllSteps
      /\ Sd(a) \in AllSteps /\ Sd(b) \in AllSteps /\ Sd(d) \in AllSteps
  BY StepTypes DEF Waits
<1>3. sd \in Seq(AllSteps) /\ Len(sd) = 3 /\ sd[1] = Sd(a) /\ sd[2] = Sd(b) /\ sd[3] = Sd(d)
  <2>1. \A i \in 1..3 : sd[i] \in AllSteps  BY <1>1, <1>2
  <2> QED  BY <1>1, <2>1
<1>4. SdCmd(cmd, arg) = sd \o <<CheckOf(cmd)>>  BY DEF SdCmd, CheckOf
<1> HIDE DEF a, b, d, sd
<1>5. Command(cmd, arg) = (<<a>> \o <<b>>) \o <<d>>  BY <1>1, <1>2, Three
<1>6. sd = (<<Sd(a)>> \o <<Sd(b)>>) \o <<Sd(d)>>  BY <1>2, <1>3, Three
<1> QED  BY <1>4, <1>5, <1>6 DEF a, b, d

LEMMA SameOrders ==
  ASSUME NEW r, NEW l, NEW t, NEW s, NEW w, s.cmd = w.cmd, s.arg = w.arg, Orders(r, l, s, t)
  PROVE  Orders(r, l, w, t)
  BY DEF Orders

LEMMA CarryCommand ==
  ASSUME NEW r, NEW l \in Stages, NEW t \in Stages, NEW cmd \in Commands, NEW arg \in Nat,
         Orders(r, l, Wait("await", cmd, arg), t)
  PROVE  /\ Carries(r, l, Command(cmd, arg), t)
         /\ t.at \in {"stop", "rest", "read"} => Carries(r, l, SdCmd(cmd, arg), t)
<1> DEFINE a == Wait("prepare", cmd, arg)
           b == Wait("issue", cmd, arg)
           d == Wait("await", cmd, arg)
<1>1. /\ a.do = "prepare" /\ b.do = "issue" /\ d.do = "await"
      /\ Sd(a).do = "prepare" /\ Sd(b).do = "issue" /\ Sd(d).do = "await"
      /\ \A x \in {a, b, d, Sd(a), Sd(b), Sd(d)} : x.cmd = cmd /\ x.arg = arg
      /\ CheckOf(cmd).do = "check"
  BY StepFields
<1>2. /\ a \in AllSteps /\ b \in AllSteps /\ d \in AllSteps
      /\ Sd(a) \in AllSteps /\ Sd(b) \in AllSteps /\ Sd(d) \in AllSteps /\ CheckOf(cmd) \in AllSteps
  BY StepTypes DEF Waits
<1>3. /\ Command(cmd, arg) = (<<a>> \o <<b>>) \o <<d>>
      /\ SdCmd(cmd, arg) = ((<<Sd(a)>> \o <<Sd(b)>>) \o <<Sd(d)>>) \o <<CheckOf(cmd)>>
  BY CommandSteps
<1> HIDE DEF a, b, d
<1>4. \A x \in {a, b, d, Sd(a), Sd(b), Sd(d)} : Orders(r, l, x, t)  BY <1>1, SameOrders DEF d
<1>5. Does(r, l, a, l) /\ Does(r, l, b, l) /\ Does(r, l, Sd(a), l) /\ Does(r, l, Sd(b), l)
  BY <1>1, <1>4 DEF Does
<1>6. Does(r, l, d, t) /\ Does(r, l, Sd(d), t)  BY <1>1, <1>4 DEF Does
<1>7. Carries(r, l, Command(cmd, arg), t)
  <2>1. Carries(r, l, <<a>>, l) /\ Carries(r, l, <<b>>, l) /\ Carries(r, l, <<d>>, t)
    BY <1>2, <1>5, <1>6, CarryOne
  <2>2. Carries(r, l, <<a>> \o <<b>>, l)  BY <2>1, CarryOn
  <2> QED  BY <1>3, <2>1, <2>2, CarryOn
<1>8. ASSUME t.at \in {"stop", "rest", "read"} PROVE Carries(r, l, SdCmd(cmd, arg), t)
  <2>1. Does(r, t, CheckOf(cmd), t)  BY <1>1, <1>8 DEF Does, Lasting
  <2>2. /\ Carries(r, l, <<Sd(a)>>, l) /\ Carries(r, l, <<Sd(b)>>, l) /\ Carries(r, l, <<Sd(d)>>, t)
        /\ Carries(r, t, <<CheckOf(cmd)>>, t)
    BY <1>2, <1>5, <1>6, <2>1, CarryOne
  <2>3. Carries(r, l, <<Sd(a)>> \o <<Sd(b)>>, l)  BY <2>2, CarryOn
  <2>4. Carries(r, l, (<<Sd(a)>> \o <<Sd(b)>>) \o <<Sd(d)>>, t)  BY <2>2, <2>3, CarryOn
  <2> QED  BY <1>3, <2>2, <2>4, CarryOn
<1> QED  BY <1>7, <1>8

LEMMA CarryRoad ==
  ASSUME NEW r, NEW from \in Ats, NEW to \in Ats, NEW cmd \in Commands, NEW arg \in Nat,
         <<from, cmd, to>> \in Roads, cmd = "OP_COND" /\ kind.hc => arg = 1
  PROVE  /\ Carries(r, Stage(from), Command(cmd, arg), Stage(to))
         /\ to \in {"stop", "rest", "read"} => Carries(r, Stage(from), SdCmd(cmd, arg), Stage(to))
<1> DEFINE d == Wait("await", cmd, arg)
           road == <<from, cmd, to>>
<1>1. d.cmd = cmd /\ d.arg = arg  BY StepFields
<1>2. road \in Roads /\ road[1] = from /\ road[2] = cmd /\ road[3] = to  OBVIOUS
<1>3. Stage(from) \in Stages /\ Stage(to) \in Stages /\ Stage(to).at = to  BY StageTypes
<1> HIDE DEF d, road
<1>4. Orders(r, Stage(from), d, Stage(to))  BY <1>1, <1>2 DEF Orders
<1> QED  BY <1>3, <1>4, CarryCommand DEF d

LEMMA CarryStep ==
  ASSUME NEW r, NEW l \in Stages, NEW s \in AllSteps, <<s.do, l.at>> \in Lasting,
         s.do \in {"data", "type", "finish", "return"} => l.k = 0
  PROVE  Does(r, l, s, l) /\ Carries(r, l, <<s>>, l)
<1>1. Does(r, l, s, l)  BY DEF Does
<1> QED  BY <1>1, CarryOne

LEMMA CarryChange ==
  ASSUME NEW r, NEW from \in Ats, NEW to \in Ats, NEW s \in AllSteps, <<s.do, from, to>> \in Changes
  PROVE  Does(r, Stage(from), s, Stage(to)) /\ Carries(r, Stage(from), <<s>>, Stage(to))
<1> DEFINE m == <<s.do, from, to>>
<1>1. m \in Changes /\ m[1] = s.do /\ m[2] = from /\ m[3] = to  OBVIOUS
<1>2. Stage(from) \in Stages /\ Stage(to) \in Stages  BY StageTypes
<1> HIDE DEF m
<1>3. Does(r, Stage(from), s, Stage(to))  BY <1>1 DEF Does
<1> QED  BY <1>2, <1>3, CarryOne

\* Steps and where they may stand.
LEMMA SetUpSteps ==
  ASSUME NEW do \in {"attempt", "reset", "clock", "clear", "data", "scr", "type1", "type2", "finish", "return", "type", "done", "check"}
  PROVE  Step(do) \in AllSteps /\ Step(do).do = do /\ Sd(Step(do)) \in AllSteps /\ Sd(Step(do)).do = do
<1>1. do \in Dos \ Waits /\ 0 \in Nat  BY DEF Dos, Waits, Notes, Looks
<1>2. Step(do) \in AllSteps /\ Sd(Step(do)) \in AllSteps  BY <1>1, StepTypes
<1>3. /\ Step(do) = [do |-> do, via |-> "SDCard", cmd |-> "none", arg |-> 0]
      /\ Sd(Step(do)) = [do |-> do, via |-> "sd", cmd |-> "none", arg |-> 0]
  BY StepFields
<1> QED  BY <1>2, <1>3

LEMMA AttemptCarries ==
  ASSUME NEW r PROVE Carries(r, Stage("any"), Attempt, Stage("open"))
<1> DEFINE x == Step("reset")
           y == Step("clock")
           z == Step("clear")
           w == Step("attempt")
           set == <<x, y, z>>
<1>1. /\ x \in AllSteps /\ x.do = "reset" /\ y \in AllSteps /\ y.do = "clock" /\ z \in AllSteps /\ z.do = "clear"
      /\ w \in AllSteps /\ w.do = "attempt"
  BY SetUpSteps
<1>2. /\ \A at \in {"any", "reset", "clear", "idle", "open"} : at \in Ats
      /\ "GO_IDLE_STATE" \in Commands /\ "SEND_IF_COND" \in Commands /\ 0 \in Nat
  BY DEF Ats, Commands
<1>3. Attempt = (<<w>> \o (set \o Command("GO_IDLE_STATE", 0))) \o Command("SEND_IF_COND", 0)
  BY DEF Attempt, ResetCard
<1>4. set = (<<x>> \o <<y>>) \o <<z>>
  <2> HIDE DEF x, y, z
  <2>1. set \in Seq(AllSteps) /\ Len(set) = 3 /\ set[1] = x /\ set[2] = y /\ set[3] = z  BY <1>1
  <2> HIDE DEF set
  <2> QED  BY <1>1, <2>1, Three
<1> HIDE DEF x, y, z, w, set
<1>5. Carries(r, Stage("any"), <<w>>, Stage("any")) /\ Carries(r, Stage("reset"), <<y>>, Stage("reset"))
  BY <1>1, <1>2, StageTypes, CarryStep DEF Lasting
<1>6. Carries(r, Stage("any"), <<x>>, Stage("reset")) /\ Carries(r, Stage("reset"), <<z>>, Stage("clear"))
  BY <1>1, <1>2, CarryChange DEF Changes
<1>7. /\ Carries(r, Stage("clear"), Command("GO_IDLE_STATE", 0), Stage("idle"))
      /\ Carries(r, Stage("idle"), Command("SEND_IF_COND", 0), Stage("open"))
  BY <1>2, CarryRoad DEF Roads
<1>8. Carries(r, Stage("any"), <<x>> \o <<y>>, Stage("reset"))  BY <1>5, <1>6, CarryOn
<1>9. Carries(r, Stage("any"), set, Stage("clear"))  BY <1>4, <1>6, <1>8, CarryOn
<1>10. Carries(r, Stage("any"), set \o Command("GO_IDLE_STATE", 0), Stage("idle"))
  BY <1>7, <1>9, CarryOn
<1>11. Carries(r, Stage("any"), <<w>> \o (set \o Command("GO_IDLE_STATE", 0)), Stage("idle"))
  BY <1>5, <1>10, CarryOn
<1> QED  BY <1>3, <1>7, <1>11, CarryOn

LEMMA CarryApp ==
  ASSUME NEW r, NEW from \in Ats, NEW via \in Ats, NEW to \in Ats, NEW cmd \in Commands, NEW arg \in Nat,
         <<from, "APP_CMD", via>> \in Roads, <<via, cmd, to>> \in Roads, cmd = "OP_COND" /\ kind.hc => arg = 1
  PROVE  Carries(r, Stage(from), App(cmd, arg), Stage(to))
<1>1. "APP_CMD" \in Commands /\ 0 \in Nat  BY DEF Commands
<1>2. Carries(r, Stage(from), Command("APP_CMD", 0), Stage(via))  BY <1>1, CarryRoad
<1>3. Carries(r, Stage(via), Command(cmd, arg), Stage(to))  BY CarryRoad
<1> QED  BY <1>2, <1>3, CarryOn DEF App

LEMMA OpCondCarries ==
  ASSUME NEW r, NEW hcs \in {"HC", "SC"}, kind.hc => hcs = "HC", NEW n \in Nat
  PROVE  Carries(r, Stage("open"), OpCond(hcs, n), Stage("ready"))
<1> DEFINE x == [With("opcond", n) EXCEPT !.cmd = hcs]
           arg == IF hcs = "HC" THEN 1 ELSE 0
<1>1. x \in AllSteps /\ x.do = "opcond"
  <2>1. With("opcond", n) = [do |-> "opcond", via |-> "SDCard", cmd |-> "none", arg |-> n]
    BY StepFields
  <2>2. x = [do |-> "opcond", via |-> "SDCard", cmd |-> hcs, arg |-> n]  BY <2>1
  <2> QED  BY <2>2 DEF AllSteps, Dos, Looks, Waits
<1>2. OpCond(hcs, n) = App("OP_COND", arg) \o <<x>>  BY DEF OpCond
<1>3. /\ "open" \in Ats /\ "app" \in Ats /\ "ready" \in Ats /\ "OP_COND" \in Commands /\ arg \in Nat
      /\ kind.hc => arg = 1
  BY DEF Ats, Commands
<1> HIDE DEF x, arg
<1>4. Carries(r, Stage("open"), App("OP_COND", arg), Stage("ready"))  BY <1>3, CarryApp DEF Roads
<1>5. Carries(r, Stage("ready"), <<x>>, Stage("ready"))
  BY <1>1, <1>3, StageTypes, CarryStep DEF Lasting
<1> QED  BY <1>2, <1>4, <1>5, CarryOn

LEMMA IdentifyCarries == ASSUME NEW r PROVE Carries(r, Stage("known"), Identify, Rest(0))
<1> DEFINE k == Step("clock")
           t == Step("data")
           w == With("count", 1)
           z == Step("scr")
           c1 == Command("ALL_SEND_CID", 0)
           c2 == c1 \o Command("SEND_REL_ADDR", 0)
           c3 == c2 \o Command("SEND_CSD", 0)
           c4 == (c3 \o <<k>>) \o Command("CARD_SELECT", 0)
           tw == <<t, w>>
           c5 == (c4 \o tw) \o App("SEND_SCR", 0)
           a == Stage("known")
<1>1. /\ \A at \in {"known", "ident", "stby", "tran", "tran_app", "scr", "rest"} : at \in Ats
      /\ \A q \in {"ALL_SEND_CID", "SEND_REL_ADDR", "SEND_CSD", "CARD_SELECT", "SEND_SCR"} : q \in Commands
      /\ 0 \in Nat /\ 1 \in Nat
  BY DEF Ats, Commands
<1>2. /\ k \in AllSteps /\ k.do = "clock" /\ t \in AllSteps /\ t.do = "data" /\ z \in AllSteps /\ z.do = "scr"
  BY SetUpSteps
<1>3. w \in AllSteps /\ w.do = "count"
  <2>1. w = [do |-> "count", via |-> "SDCard", cmd |-> "none", arg |-> 1]  BY StepFields
  <2> QED  BY <2>1, PlainSteps
<1>4. Identify = c5 \o <<z>>  BY DEF Identify
<1>5. Carries(r, a, c1, Stage("ident"))  BY <1>1, CarryRoad DEF Roads
<1> HIDE DEF k, t, w, z, c1, a
<1>6. Carries(r, a, c2, Stage("stby"))
  <2>1. Carries(r, Stage("ident"), Command("SEND_REL_ADDR", 0), Stage("stby"))
    BY <1>1, CarryRoad DEF Roads
  <2> QED  BY <1>5, <2>1, CarryOn
<1> HIDE DEF c2
<1>7. Carries(r, a, c3, Stage("stby"))
  <2>1. Carries(r, Stage("stby"), Command("SEND_CSD", 0), Stage("stby"))
    BY <1>1, CarryRoad DEF Roads
  <2> QED  BY <1>6, <2>1, CarryOn
<1> HIDE DEF c3
<1>8. Carries(r, Stage("stby"), <<k>>, Stage("stby"))
  BY <1>1, <1>2, StageTypes, CarryStep DEF Lasting
<1>9. Carries(r, a, c3 \o <<k>>, Stage("stby"))  BY <1>7, <1>8, CarryOn
<1>10. Carries(r, a, c4, Stage("tran"))
  <2>1. Carries(r, Stage("stby"), Command("CARD_SELECT", 0), Stage("tran"))
    BY <1>1, CarryRoad DEF Roads
  <2> QED  BY <1>9, <2>1, CarryOn
<1> HIDE DEF c4
<1>11. Carries(r, Stage("tran"), tw, Stage("tran"))
  <2>1. Stage("tran") \in Stages /\ Stage("tran").at = "tran" /\ Stage("tran").k = 0
    BY <1>1, StageTypes
  <2>2. Does(r, Stage("tran"), t, Stage("tran")) /\ Does(r, Stage("tran"), w, Stage("tran"))
    BY <1>2, <1>3, <2>1, CarryStep DEF Lasting
  <2> QED  BY <1>2, <1>3, <2>1, <2>2, CarryBoth
<1> HIDE DEF tw
<1>12. Carries(r, a, c4 \o tw, Stage("tran"))  BY <1>10, <1>11, CarryOn
<1>13. Carries(r, a, c5, Stage("scr"))
  <2>1. Carries(r, Stage("tran"), App("SEND_SCR", 0), Stage("scr"))  BY <1>1, CarryApp DEF Roads
  <2> QED  BY <1>12, <2>1, CarryOn
<1> HIDE DEF c5
<1>14. Carries(r, Stage("scr"), <<z>>, Stage("rest"))  BY <1>1, <1>2, CarryChange DEF Changes
<1>15. Carries(r, a, Identify, Stage("rest"))  BY <1>4, <1>13, <1>14, CarryOn
<1> QED  BY <1>15, StageTypes DEF a

LEMMA NewCardCarries == ASSUME NEW r PROVE Carries(r, Stage("open"), NewCard, Rest(0))
<1> DEFINE y == Step("type2")
           o == OpCond("HC", Retries)
<1>1. y \in AllSteps /\ y.do = "type2"  BY SetUpSteps
<1>2. Carries(r, Stage("open"), o, Stage("ready"))  BY Bounds, OpCondCarries
<1>3. NewCard = (o \o <<y>>) \o Identify  BY DEF NewCard
<1>4. "ready" \in Ats /\ "known" \in Ats  BY DEF Ats
<1> HIDE DEF y, o
<1>5. Carries(r, Stage("ready"), <<y>>, Stage("known"))  BY <1>1, <1>4, CarryChange DEF Changes
<1>6. Carries(r, Stage("open"), o \o <<y>>, Stage("known"))  BY <1>2, <1>5, CarryOn
<1> QED  BY <1>3, <1>6, IdentifyCarries, CarryOn

LEMMA OldCardCarries ==
  ASSUME NEW r, host.busy = NoCommand, ~kind.hc PROVE Carries(r, Stage("open"), OldCard, Rest(0))
<1> DEFINE y == Step("type1")
           o == OpCond("SC", Retries)
           c == IF host.busy # NoCommand THEN ResetCard ELSE <<>>
<1>1. y \in AllSteps /\ y.do = "type1"  BY SetUpSteps
<1>2. Carries(r, Stage("open"), o, Stage("ready"))  BY Bounds, OpCondCarries
<1>3. OldCard = ((c \o o) \o <<y>>) \o Identify  BY DEF OldCard
<1>4. "ready" \in Ats /\ "known" \in Ats  BY DEF Ats
<1> HIDE DEF y, o
<1>5. c \o o = o
  <2>1. o \in Seq(AllSteps)  BY <1>2 DEF Carries
  <2>2. <<>> \o o = o  BY <2>1
  <2> QED  BY <2>2
<1> HIDE DEF c
<1>6. Carries(r, Stage("ready"), <<y>>, Stage("known"))  BY <1>1, <1>4, CarryChange DEF Changes
<1>7. Carries(r, Stage("open"), o \o <<y>>, Stage("known"))  BY <1>2, <1>6, CarryOn
<1> QED  BY <1>3, <1>5, <1>7, IdentifyCarries, CarryOn

LEMMA PreparedCarries == ASSUME NEW r PROVE Carries(r, Rest(0), Prepared, Rest(0))
<1> DEFINE f == Step("finish")
           z == Step("return")
           wide == IF kind.width = 4 THEN App("SET_BUS_WIDTH", 2) ELSE <<>>
           b == Command("SET_BLOCKLEN", Unit)
           fz == <<f, z>>
           l == Rest(0)
<1>1. /\ "rest" \in Ats /\ "rest_app" \in Ats /\ "SET_BUS_WIDTH" \in Commands /\ "SET_BLOCKLEN" \in Commands
      /\ 2 \in Nat /\ Unit \in Nat
  BY Bounds DEF Ats, Commands
<1>2. f \in AllSteps /\ f.do = "finish" /\ z \in AllSteps /\ z.do = "return"  BY SetUpSteps
<1>3. l \in Stages /\ l.at = "rest" /\ l.k = 0 /\ l = Stage("rest")  BY StageTypes
<1>4. Prepared = (wide \o b) \o fz  BY DEF Prepared
<1>5. Carries(r, Stage("rest"), b, Stage("rest"))  BY <1>1, CarryRoad DEF Roads
<1>6. Carries(r, Stage("rest"), wide, Stage("rest"))
  <2>1. Carries(r, Stage("rest"), App("SET_BUS_WIDTH", 2), Stage("rest"))
    BY <1>1, CarryApp DEF Roads
  <2>2. Carries(r, Stage("rest"), <<>>, Stage("rest"))  BY <1>3, CarryNothing
  <2> QED  BY <2>1, <2>2
<1> HIDE DEF f, z, wide, b, l
<1>7. Does(r, l, f, l) /\ Does(r, l, z, l)  BY <1>2, <1>3, CarryStep DEF Lasting
<1>8. Carries(r, l, fz, l)  BY <1>2, <1>3, <1>7, CarryBoth
<1> HIDE DEF fz
<1>9. Carries(r, l, wide \o b, l)  BY <1>3, <1>5, <1>6, CarryOn
<1>10. Carries(r, l, Prepared, l)  BY <1>4, <1>8, <1>9, CarryOn
<1> QED  BY <1>10 DEF l

\* The blocks of a transfer.
LEMMA CarryList ==
  ASSUME NEW r, NEW n \in Nat, n > 0, NEW at \in Ats, NEW auto \in BOOLEAN, NEW e \in Stages,
         NEW list \in Seq(AllSteps), Len(list) = n,
         \A i \in 1..n : Does(r, Passing(at, i - 1, auto), list[i], IF i < n THEN Passing(at, i, auto) ELSE e)
  PROVE  Carries(r, Passing(at, 0, auto), list, e)
<1> DEFINE f == [i \in 1..n + 1 |-> IF i <= n THEN Passing(at, i - 1, auto) ELSE e]
<1>1. f \in [1..n + 1 -> Stages] /\ f[1] = Passing(at, 0, auto) /\ f[n + 1] = e
  <2>1. ASSUME NEW i \in 1..n + 1, i <= n PROVE Passing(at, i - 1, auto) \in Stages
    <3>1. i - 1 \in Nat  OBVIOUS
    <3> QED  BY <3>1, StageTypes
  <2>2. 1 <= n /\ 1 - 1 = 0 /\ ~(n + 1 <= n) /\ 1 \in 1..n + 1 /\ n + 1 \in 1..n + 1  OBVIOUS
  <2> QED  BY <2>1, <2>2
<1>2. ASSUME NEW i \in 1..n PROVE Does(r, f[i], list[i], f[i + 1])
  <2>1. i \in 1..n + 1 /\ i + 1 \in 1..n + 1 /\ i <= n /\ (i + 1) - 1 = i /\ (i + 1 <= n <=> i < n)
    OBVIOUS
  <2>2. f[i] = Passing(at, i - 1, auto)  BY <2>1
  <2>3. f[i + 1] = IF i < n THEN Passing(at, i, auto) ELSE e  BY <2>1
  <2> QED  BY <2>2, <2>3
<1> HIDE DEF f
<1>3. Guides(r, f, list)  BY <1>1, <1>2 DEF Guides
<1> QED  BY <1>1, <1>3 DEF Carries

LEMMA BlockSteps ==
  ASSUME NEW n \in Nat, n > 0
  PROVE  LET got == [k \in 1..n |-> Copies(k - 1)]
             put == [k \in 1..n |-> With("ready", k - 1)]
         IN /\ got \in Seq(AllSteps) /\ Len(got) = n
            /\ \A i \in 1..n : got[i].do = "ready" /\ got[i].via = "sd"
            /\ put \in Seq(AllSteps) /\ Len(put) = n
            /\ \A i \in 1..n : put[i].do = "ready" /\ put[i].via = "SDCard"
<1> DEFINE got == [k \in 1..n |-> Copies(k - 1)]
           put == [k \in 1..n |-> With("ready", k - 1)]
<1>1. ASSUME NEW k \in Nat
      PROVE  /\ With("ready", k) \in AllSteps /\ Copies(k) \in AllSteps
             /\ Copies(k).do = "ready" /\ Copies(k).via = "sd"
             /\ With("ready", k).do = "ready" /\ With("ready", k).via = "SDCard"
  <2>1. /\ With("ready", k) = [do |-> "ready", via |-> "SDCard", cmd |-> "none", arg |-> k]
        /\ Copies(k) = [do |-> "ready", via |-> "sd", cmd |-> "none", arg |-> k]
    BY StepFields DEF Copies
  <2>2. With("ready", k) \in AllSteps /\ Copies(k) \in AllSteps  BY StepTypes DEF Dos, Waits, Copies
  <2> QED  BY <2>1, <2>2
<1>2. ASSUME NEW i \in 1..n
      PROVE  /\ got[i] \in AllSteps /\ got[i].do = "ready" /\ got[i].via = "sd"
             /\ put[i] \in AllSteps /\ put[i].do = "ready" /\ put[i].via = "SDCard"
  <2>1. i - 1 \in Nat /\ got[i] = Copies(i - 1) /\ put[i] = With("ready", i - 1)  OBVIOUS
  <2> HIDE DEF got, put
  <2> QED  BY <1>1, <2>1
<1>3. got \in Seq(AllSteps) /\ Len(got) = n /\ put \in Seq(AllSteps) /\ Len(put) = n
  <2>1. \A k \in 1..n : Copies(k - 1) \in AllSteps /\ With("ready", k - 1) \in AllSteps  BY <1>2
  <2> QED  BY <2>1
<1> HIDE DEF got, put
<1>4. \A i \in 1..n : /\ got[i].do = "ready" /\ got[i].via = "sd"
                      /\ put[i].do = "ready" /\ put[i].via = "SDCard"
  BY <1>2
<1> QED  BY <1>3, <1>4 DEF got, put

LEMMA CountStep ==
  ASSUME NEW r, NEW k \in Nat, NEW n \in Nat
  PROVE  /\ With("count", n) \in AllSteps /\ Does(r, Rest(k), With("count", n), Rest(k))
         /\ Carries(r, Rest(k), <<With("count", n)>>, Rest(k))
<1>1. With("count", n) \in AllSteps /\ With("count", n).do = "count"
  <2>1. With("count", n) = [do |-> "count", via |-> "SDCard", cmd |-> "none", arg |-> n]
    BY StepFields
  <2> QED  BY <2>1, PlainSteps
<1>2. Rest(k) \in Stages /\ Rest(k).at = "rest"  BY StageTypes
<1>3. Does(r, Rest(k), With("count", n), Rest(k))  BY <1>1, <1>2 DEF Does
<1> QED  BY <1>1, <1>2, <1>3, CarryOne

LEMMA CountCarries ==
  ASSUME NEW r, NEW n \in Nat, NEW counted \in BOOLEAN, counted => Counts
  PROVE  LET k == IF counted THEN n ELSE 0
         IN /\ k \in Nat /\ Rest(k) \in Stages
            /\ Carries(r, Rest(0), (IF counted THEN Command("SET_BLOCKCNT", n) ELSE <<>>), Rest(k))
            /\ Carries(r, Rest(0), (IF counted THEN SdCmd("SET_BLOCKCNT", n) ELSE <<>>), Rest(k))
<1> DEFINE d == Wait("await", "SET_BLOCKCNT", n)
<1>1. d.cmd = "SET_BLOCKCNT" /\ d.arg = n  BY StepFields
<1>2. Rest(0) \in Stages /\ Rest(n) \in Stages /\ Rest(n).at = "rest"  BY StageTypes
<1>3. Carries(r, Rest(0), <<>>, Rest(0))  BY <1>2, CarryNothing
<1> HIDE DEF d
<1>4. ASSUME counted
      PROVE /\ Carries(r, Rest(0), Command("SET_BLOCKCNT", n), Rest(n))
            /\ Carries(r, Rest(0), SdCmd("SET_BLOCKCNT", n), Rest(n))
  <2>1. Orders(r, Rest(0), d, Rest(n))  BY <1>1, <1>4 DEF Orders
  <2>2. "SET_BLOCKCNT" \in Commands  BY DEF Commands
  <2> QED  BY <1>2, <2>1, <2>2, CarryCommand DEF d
<1> QED  BY <1>2, <1>3, <1>4

LEMMA StopCarries ==
  ASSUME NEW r, NEW auto \in BOOLEAN, NEW l, l.auto = auto
  PROVE  /\ Leave(l) \in Stages /\ Leave(l).at \in {"rest", "stop"}
         /\ Carries(r, Leave(l), (IF ~auto THEN Command("STOP_TRANS", 0) ELSE <<>>), Rest(0))
         /\ Carries(r, Leave(l), (IF ~auto THEN SdCmd("STOP_TRANS", 0) ELSE <<>>), Rest(0))
<1>1. "STOP_TRANS" \in Commands /\ 0 \in Nat /\ "stop" \in Ats /\ "rest" \in Ats
  BY DEF Commands, Ats
<1>2. /\ Rest(0) \in Stages /\ Rest(0).at = "rest" /\ Stage("stop") \in Stages /\ Stage("stop").at = "stop"
      /\ Rest(0) = Stage("rest")
  BY <1>1, StageTypes
<1>3. Carries(r, Rest(0), <<>>, Rest(0))  BY <1>2, CarryNothing
<1>4. /\ Carries(r, Stage("stop"), Command("STOP_TRANS", 0), Rest(0))
      /\ Carries(r, Stage("stop"), SdCmd("STOP_TRANS", 0), Rest(0))
  BY <1>1, <1>2, CarryRoad DEF Roads
<1> QED  BY <1>2, <1>3, <1>4 DEF Leave

LEMMA ReadCarries ==
  ASSUME NEW r \in Reads, driver.ccs, Supports, driver.count \in BOOLEAN
  PROVE  Carries(r, Rest(0), ReadBlocks(r.lba, r.num), Rest(0))
<1> DEFINE n == Amount(r)
           counted == n > 1 /\ driver.count
           cmd == ReadCommand(r)
           list == [k \in 1..n |-> Copies(k - 1)]
           sbc == IF counted THEN SdCmd("SET_BLOCKCNT", n) ELSE <<>>
           auto == n = 1 \/ counted
           stop == IF ~auto THEN SdCmd("STOP_TRANS", 0) ELSE <<>>
           x == Sd(Step("data"))
           w == With("count", n)
           p1 == sbc \o <<w>>
           p2 == p1 \o SdCmd(cmd, r.lba)
           p3 == p2 \o list
           p4 == p3 \o stop
           y == Step("check")
           z == Step("return")
           ends == <<y, z>>
           k == IF counted THEN n ELSE 0
           l == Passing("read", 0, auto)
           e == Leave(l)
           a == Rest(0)
<1>1. /\ n \in Nat /\ n > 0 /\ r.lba \in Nat /\ cmd \in Commands /\ 0 \in Nat /\ r.kind = "read"
  BY ReadFacts, RequestKinds DEF Requests
<1>2. ReadBlocks(r.lba, r.num) = (<<x>> \o p4) \o ends
  <2>1. (n > 1 /\ ~driver.count) = ~auto  BY <1>1
  <2> QED  BY <2>1 DEF ReadBlocks, Amount, Copies, ReadCommand
<1>3. x \in AllSteps /\ x.do = "data" /\ y \in AllSteps /\ y.do = "check" /\ z \in AllSteps /\ z.do = "return"
  BY SetUpSteps
<1>4. /\ a \in Stages /\ a.at = "rest" /\ a.k = 0 /\ "read" \in Ats /\ auto \in BOOLEAN
      /\ l \in Stages /\ l.at = "read" /\ l.k = 0 /\ l.auto = auto
  <2>1. "read" \in Ats /\ 0 \in Nat  BY DEF Ats
  <2>2. PICK b \in BOOLEAN : b = auto  OBVIOUS
  <2>3. /\ Passing("read", 0, b) \in Stages /\ Passing("read", 0, b).at = "read"
        /\ Passing("read", 0, b).k = 0 /\ Passing("read", 0, b).auto = b
    BY <2>1, StageTypes
  <2>4. a \in Stages /\ a.at = "rest" /\ a.k = 0  BY <2>1, StageTypes
  <2> QED  BY <2>1, <2>2, <2>3, <2>4
<1>5. /\ k \in Nat /\ Rest(k) \in Stages /\ Carries(r, a, sbc, Rest(k))
  <2>1. counted \in BOOLEAN /\ (counted => Counts)  BY DEF Supports
  <2> QED  BY <1>1, <2>1, CountCarries
<1>6. e \in Stages /\ e.at \in {"rest", "stop"} /\ Carries(r, e, stop, a)  BY <1>4, StopCarries
<1>7. Orders(r, Rest(k), Wait("await", cmd, r.lba), l)
  <2>1. Wait("await", cmd, r.lba).cmd = cmd  BY StepFields
  <2>2. Rest(k).k = k
    <3> HIDE DEF k
    <3> QED  BY <1>5, StageTypes
  <2>4. k = n <=> counted
    <3> HIDE DEF n
    <3> QED  BY <1>1
  <2>3. auto = (n = 1 \/ k = n)  BY <2>4
  <2> HIDE DEF k
  <2> QED  BY <1>1, <2>1, <2>2, <2>3 DEF Orders
<1>8. list \in Seq(AllSteps) /\ Len(list) = n /\ \A i \in 1..n : list[i].do = "ready" /\ list[i].via = "sd"
  BY <1>1, BlockSteps
<1> HIDE DEF cmd, list, sbc, stop, x, w, y, z, e, a, k
<1>9. Carries(r, a, <<x>>, a) /\ Carries(r, Rest(k), <<w>>, Rest(k))
  <2>1. Carries(r, a, <<x>>, a)  BY <1>3, <1>4, CarryStep DEF Lasting
  <2> QED  BY <1>1, <1>5, <2>1, CountStep DEF w
<1>10. Carries(r, Rest(k), SdCmd(cmd, r.lba), l)  BY <1>1, <1>4, <1>5, <1>7, CarryCommand
<1>11. Carries(r, l, list, e)
  <2>1. ASSUME NEW i \in 1..n
        PROVE  Does(r, Passing("read", i - 1, auto), list[i], IF i < n THEN Passing("read", i, auto) ELSE e)
    <3> DEFINE b == Passing("read", i - 1, auto)
    <3>1. i - 1 \in Nat /\ i - 1 < n /\ (i - 1) + 1 = i  BY <1>1
    <3>2. b.k = i - 1 /\ b.auto = auto
      <4> HIDE DEF auto, n
      <4> QED  BY <1>4, <3>1, StageTypes
    <3>3. e = Leave(b)  BY <1>4, <3>2 DEF e, Leave
    <3>4. b = Passing("read", b.k, b.auto)  BY <3>2
    <3> HIDE DEF b, n, auto
    <3>5. Turn(r, b, list[i], IF i < n THEN Passing("read", i, auto) ELSE e)
      BY <1>1, <1>8, <3>1, <3>2, <3>3, <3>4 DEF Turn, n
    <3> QED  BY <3>5 DEF Does, b
  <2> HIDE DEF n, auto
  <2> QED  BY <1>1, <1>4, <1>6, <1>8, <2>1, CarryList
<1>12. Carries(r, a, ends, a)
  <2>1. Does(r, a, y, a) /\ Does(r, a, z, a)  BY <1>3, <1>4, CarryStep DEF Lasting
  <2> QED  BY <1>3, <1>4, <2>1, CarryBoth
<1> HIDE DEF n, auto, l, ends
<1>13. Carries(r, a, p1, Rest(k))  BY <1>5, <1>9, CarryOn
<1> HIDE DEF p1
<1>14. Carries(r, a, p2, l)  BY <1>10, <1>13, CarryOn
<1> HIDE DEF p2
<1>15. Carries(r, a, p3, e)  BY <1>11, <1>14, CarryOn
<1> HIDE DEF p3
<1>16. Carries(r, a, p4, a)  BY <1>6, <1>15, CarryOn
<1> HIDE DEF p4
<1>17. Carries(r, a, <<x>> \o p4, a)  BY <1>9, <1>16, CarryOn
<1>18. Carries(r, a, ReadBlocks(r.lba, r.num), a)  BY <1>2, <1>12, <1>17, CarryOn
<1> QED  BY <1>18 DEF a

LEMMA WriteCarries ==
  ASSUME NEW r \in Writes, r.num > 0, Supports, TypedDriver
  PROVE  Carries(r, Rest(0), WriteBlocks(r.lba, r.num), Rest(0))
<1> DEFINE n == r.num
           b == Shift(r.lba)
           counted == n > 1 /\ driver.support = "count"
           cmd == WriteCommand(r)
           list == [k \in 1..n |-> With("ready", k - 1)]
           sbc == IF counted THEN Command("SET_BLOCKCNT", n) ELSE <<>>
           auto == n = 1 \/ counted
           stop == IF ~auto THEN Command("STOP_TRANS", 0) ELSE <<>>
           v == Step("type")
           x == Step("data")
           w == With("count", n)
           begins == <<v, x>>
           p1 == (begins \o sbc) \o <<w>>
           p2 == p1 \o Command(cmd, b)
           p3 == p2 \o list
           y == Step("done")
           z == Step("return")
           p4 == p3 \o <<y>>
           p5 == p4 \o stop
           k == IF counted THEN n ELSE 0
           l == Passing("write", 0, auto)
           m == Passing("write", n, auto)
           e == Leave(m)
           a == Rest(0)
<1>1. /\ n \in Nat /\ n > 0 /\ b \in Nat /\ cmd \in Commands /\ 0 \in Nat /\ r.kind = "write"
  <2>1. n \in Nat /\ r.kind = "write"  BY RequestKinds DEF Requests
  <2>2. b \in Nat  BY WriteRuns DEF TypedDriver
  <2>3. cmd \in Commands  BY DEF WriteCommand, Commands
  <2> QED  BY <2>1, <2>2, <2>3
<1>2. WriteBlocks(r.lba, r.num) = p5 \o <<z>>
  <2>1. (n > 1 /\ driver.support # "count") = ~auto  BY <1>1
  <2> QED  BY <2>1 DEF WriteBlocks, WriteCommand
<1>3. /\ x \in AllSteps /\ x.do = "data" /\ y \in AllSteps /\ y.do = "done" /\ z \in AllSteps /\ z.do = "return"
      /\ v \in AllSteps /\ v.do = "type"
  BY SetUpSteps
<1>4. /\ a \in Stages /\ a.at = "rest" /\ a.k = 0 /\ "write" \in Ats /\ auto \in BOOLEAN
      /\ l \in Stages /\ l.at = "write" /\ l.k = 0 /\ l.auto = auto
      /\ m \in Stages /\ m.at = "write" /\ m.k = n /\ m.auto = auto
  <2>1. "write" \in Ats /\ 0 \in Nat /\ auto \in BOOLEAN  BY DEF Ats
  <2>2. n \in Nat  BY <1>1
  <2> HIDE DEF n, auto
  <2>3. a \in Stages /\ a.at = "rest" /\ a.k = 0  BY <2>1, StageTypes
  <2>4. l \in Stages /\ l.at = "write" /\ l.k = 0 /\ l.auto = auto  BY <2>1, StageTypes
  <2>5. m \in Stages /\ m.at = "write" /\ m.k = n /\ m.auto = auto  BY <2>1, <2>2, StageTypes
  <2> QED  BY <2>1, <2>3, <2>4, <2>5
<1>5. /\ k \in Nat /\ Rest(k) \in Stages /\ Carries(r, a, sbc, Rest(k))
  <2>1. counted \in BOOLEAN /\ (counted => Counts)  BY DEF Supports
  <2> QED  BY <1>1, <2>1, CountCarries
<1>6. e \in Stages /\ e.at \in {"rest", "stop"} /\ Carries(r, e, stop, a)  BY <1>4, StopCarries
<1>7. Orders(r, Rest(k), Wait("await", cmd, b), l)
  <2>1. Wait("await", cmd, b).cmd = cmd  BY StepFields
  <2>2. Rest(k).k = k
    <3> HIDE DEF k
    <3> QED  BY <1>5, StageTypes
  <2>4. k = n <=> counted
    <3> HIDE DEF n
    <3> QED  BY <1>1
  <2>3. auto = (n = 1 \/ k = n)  BY <2>4
  <2> HIDE DEF k
  <2> QED  BY <1>1, <2>1, <2>2, <2>3 DEF Orders
<1>8. list \in Seq(AllSteps) /\ Len(list) = n /\ \A i \in 1..n : list[i].do = "ready" /\ list[i].via = "SDCard"
  <2> HIDE DEF n
  <2> QED  BY <1>1, BlockSteps
<1> HIDE DEF cmd, list, sbc, stop, x, w, y, z, e, a, k, v, b
<1>9. Carries(r, a, begins, a) /\ Carries(r, Rest(k), <<w>>, Rest(k)) /\ Carries(r, a, <<z>>, a)
  <2>1. Does(r, a, v, a) /\ Does(r, a, x, a) /\ Carries(r, a, <<z>>, a)
    BY <1>3, <1>4, CarryStep DEF Lasting
  <2>2. Carries(r, Rest(k), <<w>>, Rest(k))
    <3> HIDE DEF n
    <3> QED  BY <1>1, <1>5, CountStep DEF w
  <2> QED  BY <1>3, <1>4, <2>1, <2>2, CarryBoth
<1>10. Carries(r, Rest(k), Command(cmd, b), l)  BY <1>1, <1>4, <1>5, <1>7, CarryCommand
<1>11. Carries(r, l, list, m)
  <2>1. ASSUME NEW i \in 1..n
        PROVE  Does(r, Passing("write", i - 1, auto), list[i], IF i < n THEN Passing("write", i, auto) ELSE m)
    <3> DEFINE q == Passing("write", i - 1, auto)
    <3>1. i - 1 \in Nat /\ i - 1 < n /\ (i - 1) + 1 = i /\ (i < n \/ i = n)
      <4> HIDE DEF n
      <4> QED  BY <1>1
    <3>2. q.k = i - 1 /\ q.auto = auto
      <4> HIDE DEF auto, n
      <4> QED  BY <1>4, <3>1, StageTypes
    <3>3. q = Passing("write", q.k, q.auto)  BY <3>2
    <3>4. (IF i < n THEN Passing("write", i, auto) ELSE m) = Passing("write", q.k + 1, q.auto)
      BY <3>1, <3>2
    <3> HIDE DEF q, auto
    <3>5. Turn(r, q, list[i], Passing("write", q.k + 1, q.auto))
      BY <1>1, <1>8, <3>1, <3>2, <3>3 DEF Turn
    <3> QED  BY <3>4, <3>5 DEF Does, q
  <2> HIDE DEF n, auto, m
  <2> QED  BY <1>1, <1>4, <1>8, <2>1, CarryList
<1>12. Carries(r, m, <<y>>, e)
  <2>1. m = Passing("write", r.num, m.auto)  BY <1>4
  <2>2. Turn(r, m, y, e)  BY <1>1, <1>3, <2>1 DEF Turn, e
  <2>3. Does(r, m, y, e)  BY <2>2 DEF Does
  <2> QED  BY <1>3, <1>4, <1>6, <2>3, CarryOne
<1> HIDE DEF n, auto, l, m, begins
<1>13. Carries(r, a, p1, Rest(k))
  <2>1. Carries(r, a, begins \o sbc, Rest(k))  BY <1>5, <1>9, CarryOn
  <2> QED  BY <1>9, <2>1, CarryOn
<1> HIDE DEF p1
<1>14. Carries(r, a, p2, l)  BY <1>10, <1>13, CarryOn
<1> HIDE DEF p2
<1>15. Carries(r, a, p3, m)  BY <1>11, <1>14, CarryOn
<1> HIDE DEF p3
<1>16. Carries(r, a, p4, e)  BY <1>12, <1>15, CarryOn
<1> HIDE DEF p4
<1>17. Carries(r, a, p5, a)  BY <1>6, <1>16, CarryOn
<1> HIDE DEF p5
<1>18. Carries(r, a, WriteBlocks(r.lba, r.num), a)  BY <1>2, <1>9, <1>17, CarryOn
<1> QED  BY <1>18 DEF a

-----------------------------------------------------------------------------
(* A call that keeps to its path.                                          *)

LEMMA GuidesKept ==
  ASSUME kind' = kind, NEW r, NEW f, NEW p, Guides(r, f, p) PROVE Guides(r, f, p)'
<1>1. Counts' <=> Counts  BY DEF Counts
<1>2. ASSUME NEW l, NEW s, NEW t PROVE Orders(r, l, s, t)' <=> Orders(r, l, s, t)
  BY <1>1 DEF Orders
<1>3. ASSUME NEW l, NEW s, NEW t PROVE Does(r, l, s, t)' <=> Does(r, l, s, t)
  BY <1>2 DEF Does, Turn
<1> QED  BY <1>3 DEF Guides

LEMMA Tails ==
  ASSUME NEW r, NEW f, NEW p \in Seq(AllSteps), Len(p) >= 2, Guides(r, f, p)
  PROVE  \E g : Guides(r, g, Tail(p)) /\ g[1] = f[2] /\ g[2] = f[3]
<1> DEFINE q == Tail(p)
           g == [i \in 1..Len(p) |-> f[i + 1]]
<1>1. Len(p) \in Nat /\ q \in Seq(AllSteps) /\ Len(q) = Len(p) - 1 /\ \A i \in 1..Len(q) : q[i] = p[i + 1]
  OBVIOUS
<1>2. f \in [1..Len(p) + 1 -> Stages] /\ \A i \in 1..Len(p) : Does(r, f[i], p[i], f[i + 1])
  BY DEF Guides
<1> HIDE DEF q
<1>3. g \in [1..Len(q) + 1 -> Stages]
  <2>1. Len(q) + 1 = Len(p) /\ \A i \in 1..Len(p) : i + 1 \in 1..Len(p) + 1  BY <1>1
  <2> QED  BY <2>1, <1>2
<1>4. \A i \in 1..Len(p) : g[i] = f[i + 1]  OBVIOUS
<1> HIDE DEF g
<1>5. ASSUME NEW i \in 1..Len(q) PROVE Does(r, g[i], q[i], g[i + 1])
  <2>1. i \in 1..Len(p) /\ i + 1 \in 1..Len(p) /\ q[i] = p[i + 1]  BY <1>1
  <2>2. g[i] = f[i + 1] /\ g[i + 1] = f[(i + 1) + 1]  BY <2>1, <1>4
  <2> QED  BY <2>1, <2>2, <1>2
<1>6. Guides(r, g, q)  BY <1>3, <1>5 DEF Guides
<1>7. g[1] = f[2] /\ g[2] = f[3]
  <2>1. 1 \in 1..Len(p) /\ 2 \in 1..Len(p) /\ 1 + 1 = 2 /\ 2 + 1 = 3  BY <1>1
  <2> QED  BY <2>1, <1>4
<1> QED  BY <1>6, <1>7 DEF q

\* Where a call stands.
LEMMA Pursue ==
  ASSUME Typed, Promise, Thrives, NEW c \in Callers, NEW do, At(c, do)
  PROVE  /\ OneCall /\ Alive
         /\ This(c).do = do /\ This(c) \in AllSteps /\ This(c) = todo[c][1] /\ Planned(todo[c])
         /\ \E r \in Requests : \E l, t \in Stages : \E f : Stands(c, r, f, l, t)
<1>1. call[c] # Idle /\ Planned(todo[c]) /\ This(c) \in AllSteps /\ This(c).do = do
  BY Doing DEF Typed
<1>2. Len(todo[c]) \in Nat /\ Len(todo[c]) >= 1 /\ This(c) = todo[c][1]  BY <1>1, PlanHead DEF This
<1>3. call[c] \in Requests  BY <1>1 DEF Typed, CallTypes
<1>4. PICK f : Guides(call[c], f, todo[c]) /\ Where(call[c], f[1], todo[c][1], f[2])
  BY <1>3 DEF Thrives, AllOnTrack, OnTrack
<1>5. /\ 1 \in 1..Len(todo[c]) /\ 1 \in 1..Len(todo[c]) + 1 /\ 2 \in 1..Len(todo[c]) + 1 /\ 1 + 1 = 2
      /\ f \in [1..Len(todo[c]) + 1 -> Stages]
  BY <1>2, <1>4 DEF Guides
<1>6. Does(call[c], f[1], todo[c][1], f[2])  BY <1>4, <1>5 DEF Guides
<1>7. f[1] \in Stages /\ f[2] \in Stages  BY <1>5
<1>8. Stands(c, call[c], f, f[1], f[2])  BY <1>2, <1>4, <1>6 DEF Stands
<1>9. \E l, t \in Stages : \E g : Stands(c, call[c], g, l, t)  BY <1>7, <1>8
<1> QED  BY <1>1, <1>2, <1>3, <1>9 DEF Promise, Simple, Thrives

\* The other call is not under way.
LEMMA Alone ==
  ASSUME Typed, OneCall, NEW c \in Callers, NEW r \in Requests, call[c] = r, call' = call,
         NEW p, Go(c, p), OnTrack(r, p)', Alive'
  PROVE  Thrives'
<1>1. r # Idle  BY RequestKinds
<1>2. todo'[c] = p  BY DEF Typed, TypedPlans, Go
<1>3. ~NoCalls'  BY <1>1 DEF NoCalls
<1>4. ASSUME NEW d \in Callers, NEW x \in Requests, call'[d] = x PROVE OnTrack(x, todo[d])'
  <2>1. x # Idle  BY RequestKinds
  <2>2. d = c  BY <2>1, <1>1, <1>4 DEF OneCall
  <2>3. x = r  BY <2>2, <1>4
  <2>4. OnTrack(r, todo[c])'  BY <1>2 DEF OnTrack, Guides, Where
  <2> QED  BY <2>2, <2>3, <2>4
<1> QED  BY <1>3, <1>4 DEF Thrives, AllOnTrack

\* A new list of steps.
LEMMA Launch ==
  ASSUME NEW r, NEW l, NEW p, NEW e, Carries(r, l, p, e), p # <<>>, p[1].do \notin {"issue", "await"},
         kind' = kind, Memory(l)', Medium(r, l)'
  PROVE  OnTrack(r, p)'
<1>1. PICK f : Guides(r, f, p) /\ f[1] = l  BY DEF Carries
<1>2. Guides(r, f, p)'  BY <1>1, GuidesKept
<1>3. Where(r, f[1], p[1], f[2])'  BY <1>1 DEF Where
<1> QED  BY <1>2, <1>3 DEF OnTrack

\* The step is done, and the next one follows.
LEMMA Along ==
  ASSUME Typed, OneCall, NEW c \in Callers, NEW do, At(c, do), ~Ends(This(c)),
         NEW r \in Requests, NEW f, NEW l, NEW t, Stands(c, r, f, l, t), Goes(c), kind' = kind, Alive',
         \A s \in AllSteps : \A u : <<This(c), s>> \in Links /\ Does(r, t, s, u) => Where(r, t, s, u)'
  PROVE  Thrives' /\ result' = result
<1>1. PICK p : p = todo[c]  OBVIOUS
<1>2. Planned(p) /\ This(c) = Head(p)  BY <1>1, Doing DEF Typed, This
<1>3. /\ p \in Seq(AllSteps) /\ Len(p) \in Nat /\ Len(p) >= 2 /\ Head(p) = p[1] /\ <<p[1], p[2]>> \in Links
      /\ p[2] \in AllSteps /\ Head(Tail(p)) = p[2]
  BY <1>2, PlanHead, PlanTail
<1>4. PICK g : Guides(r, g, Tail(p)) /\ g[1] = f[2] /\ g[2] = f[3]  BY <1>1, <1>3, Tails DEF Stands
<1>5. Tail(p)[1] = p[2]  BY <1>3
<1>6. Does(r, t, p[2], g[2])
  <2>1. 2 \in 1..Len(p) /\ 2 + 1 = 3  BY <1>3
  <2> QED  BY <2>1, <1>1, <1>4 DEF Stands, Guides
<1>7. Where(r, t, p[2], g[2])'  BY <1>2, <1>3, <1>6
<1>8. Where(r, g[1], Tail(p)[1], g[2])'  BY <1>4, <1>5, <1>7 DEF Stands
<1>9. OnTrack(r, Tail(p))'  BY <1>4, <1>8, GuidesKept DEF OnTrack
<1>10. call' = call /\ result' = result /\ Go(c, Tail(p)) /\ call[c] = r
  BY <1>1 DEF Goes, Proceed, calls, Stands
<1> QED  BY <1>9, <1>10, Alone

\* Steps after which the call is at rest at the stage.
LEMMA Behind ==
  ASSUME Typed, OneCall, NEW c \in Callers, NEW do, At(c, do), ~Ends(This(c)), do \notin {"prepare", "issue"},
         NEW r \in Requests, NEW f, NEW l, NEW t, Stands(c, r, f, l, t), Goes(c), kind' = kind, Alive',
         Memory(t)', Medium(r, t)'
  PROVE  Thrives' /\ result' = result
<1>1. This(c).do = do /\ This(c) \in AllSteps  BY Doing DEF Typed
<1>2. ASSUME NEW s \in AllSteps, NEW u, <<This(c), s>> \in Links, Does(r, t, s, u)
      PROVE  Where(r, t, s, u)'
  <2>1. s.do \notin {"issue", "await"}  BY <1>1, <1>2, LinksIs
  <2> QED  BY <2>1 DEF Where
<1> QED  BY <1>2, Along

-----------------------------------------------------------------------------
(* The steps of a call that keeps to its path.                             *)

LEMMA DoesAt ==
  ASSUME NEW r, NEW l, NEW s, NEW t, Does(r, l, s, t)
  PROVE  /\ s.do \in {"prepare", "issue"} => t = l /\ \E u \in Stages : Orders(r, l, s, u)
         /\ s.do = "await" => Orders(r, l, s, t)
         /\ s.do = "attempt" => t = l /\ l.at = "any"
         /\ s.do = "clock" => t = l /\ l.at \in {"reset", "stby"}
         /\ s.do = "opcond" => t = l /\ l.at = "ready"
         /\ s.do = "data" => t = l /\ l.at \in {"tran", "rest"}
         /\ s.do = "count" => t = l /\ l.at \in {"tran", "rest"}
         /\ s.do = "type" => t = l /\ l.at = "rest"
         /\ s.do \in {"finish", "return"} => t = l /\ l.at = "rest" /\ l.k = 0
         /\ s.do = "check" => t = l /\ l.at \in {"stop", "rest", "read"}
         /\ s.do = "reset" => l = Stage("any") /\ t = Stage("reset")
         /\ s.do = "clear" => l = Stage("reset") /\ t = Stage("clear")
         /\ s.do \in {"type1", "type2"} => l = Stage("ready") /\ t = Stage("known")
         /\ s.do = "scr" => l = Stage("scr") /\ t = Stage("rest")
         /\ s.do \in {"ready", "done"} => Turn(r, l, s, t)
<1>1. \/ s.do \in {"prepare", "issue"} /\ t = l /\ \E u \in Stages : Orders(r, l, s, u)
      \/ s.do = "await" /\ Orders(r, l, s, t)
      \/ t = l /\ <<s.do, l.at>> \in Lasting /\ (s.do \in {"data", "type", "finish", "return"} => l.k = 0)
      \/ s.do = "count" /\ t = l /\ l.at = "rest"
      \/ \E m \in Changes : s.do = m[1] /\ l = Stage(m[2]) /\ t = Stage(m[3])
      \/ s.do \in {"ready", "done"} /\ Turn(r, l, s, t)
  BY DEF Does, Turn
<1>2. CASE t = l /\ <<s.do, l.at>> \in Lasting /\ (s.do \in {"data", "type", "finish", "return"} => l.k = 0)
  <2>1. \/ s.do = "attempt" /\ l.at = "any"
        \/ s.do = "clock" /\ l.at \in {"reset", "stby"}
        \/ s.do = "opcond" /\ l.at = "ready"
        \/ s.do \in {"data", "count"} /\ l.at \in {"tran", "rest"}
        \/ s.do \in {"type", "finish", "return"} /\ l.at = "rest"
        \/ s.do = "check" /\ l.at \in {"stop", "rest", "read"}
    BY <1>2 DEF Lasting
  <2> QED  BY <1>2, <2>1
<1>3. CASE \E m \in Changes : s.do = m[1] /\ l = Stage(m[2]) /\ t = Stage(m[3])
  <2>1. \/ s.do = "reset" /\ l = Stage("any") /\ t = Stage("reset")
        \/ s.do = "clear" /\ l = Stage("reset") /\ t = Stage("clear")
        \/ s.do \in {"type1", "type2"} /\ l = Stage("ready") /\ t = Stage("known")
        \/ s.do = "scr" /\ l = Stage("scr") /\ t = Stage("rest")
    BY <1>3 DEF Changes
  <2> QED  BY <2>1
<1>4. CASE s.do \in {"prepare", "issue"} /\ t = l /\ \E u \in Stages : Orders(r, l, s, u)  BY <1>4
<1>5. CASE s.do \in {"ready", "done"} /\ Turn(r, l, s, t)  BY <1>5
<1>6. CASE s.do = "await" /\ Orders(r, l, s, t)  BY <1>6
<1>7. CASE s.do = "count" /\ t = l /\ l.at = "rest"  BY <1>7
<1> QED  BY <1>1, <1>2, <1>3, <1>4, <1>5, <1>6, <1>7

\* Where nothing moves between the card and the controller.
LEMMA CalmMedium ==
  ASSUME NEW r, NEW l, l.at \in Calm
  PROVE  /\ Medium(r, l) <=> CardIn(l) /\ host.xfer = NoTransfer /\ Idling /\ ~Pending
         /\ Medium(r, l)' <=> (CardIn(l) /\ host.xfer = NoTransfer /\ Idling /\ ~Pending)'
<1>1. l.at \notin {"any", "scr", "read", "write"}  BY DEF Calm
<1>2. Port(r, l) <=> host.xfer = NoTransfer  BY <1>1 DEF Port
<1>3. Port(r, l)' <=> (host.xfer = NoTransfer)'  BY <1>1 DEF Port
<1> QED  BY <1>1, <1>2, <1>3 DEF Medium

LEMMA RoadEnds ==
  ASSUME NEW road \in Roads PROVE road[1] \in RoadFrom /\ road[2] \in RoadBy /\ road[3] \in RoadTo
<1>1. road[1] \in RoadFrom  BY DEF Roads, RoadFrom
<1>2. road[2] \in RoadBy  BY DEF Roads, RoadBy
<1>3. road[3] \in RoadTo  BY DEF Roads, RoadTo
<1> QED  BY <1>1, <1>2, <1>3

LEMMA OrdersFrom ==
  ASSUME NEW r, NEW l \in Stages, NEW s \in AllSteps, NEW t, Orders(r, l, s, t)
  PROVE  /\ l.at \in Calm \ {"reset", "ready"} /\ t \in Stages /\ t.at \notin {"any", "reset", "clear", "known"}
         /\ s.cmd \in Commands
<1>1. l.k \in Nat /\ s.arg \in Nat  BY DEF Stages, AllSteps
<1>2. CASE \E road \in Roads : /\ l = Stage(road[1]) /\ s.cmd = road[2] /\ t = Stage(road[3])
                               /\ s.cmd = "OP_COND" /\ kind.hc => s.arg = 1
  <2>1. PICK road \in Roads : l = Stage(road[1]) /\ s.cmd = road[2] /\ t = Stage(road[3])  BY <1>2
  <2>3. road[1] \in RoadFrom /\ road[2] \in RoadBy /\ road[3] \in RoadTo  BY RoadEnds
  <2>4. RoadFrom \subseteq Calm \ {"reset", "ready"} /\ RoadFrom \subseteq Ats
    BY DEF RoadFrom, Calm, Ats
  <2>5. RoadBy \subseteq Commands  BY DEF RoadBy, Commands
  <2>6. RoadTo \subseteq Ats \ {"any", "reset", "clear", "known"}  BY DEF RoadTo, Ats
  <2> QED  BY <2>1, <2>3, <2>4, <2>5, <2>6, StageTypes
<1>3. "rest" \in Calm \ {"reset", "ready"} /\ "rest" \in Ats  BY DEF Calm, Ats
<1>4. CASE s.cmd = "SET_BLOCKCNT" /\ l = Rest(0) /\ t = Rest(s.arg) /\ Counts
  BY <1>1, <1>3, <1>4, StageTypes DEF Commands
<1>5. CASE /\ r.kind = "read" /\ s.cmd = ReadCommand(r) /\ l = Rest(l.k)
           /\ t = Passing("read", 0, Amount(r) = 1 \/ l.k = Amount(r))
  <2>1. PICK auto \in BOOLEAN : t = Passing("read", 0, auto)  BY <1>5
  <2>3. "read" \in Ats /\ 0 \in Nat  BY DEF Ats
  <2>2. ReadCommand(r) \in Commands  BY DEF ReadCommand, Commands
  <2>4. t \in Stages /\ t.at = "read"  BY <2>1, <2>3, StageTypes
  <2>5. l.at = "rest"
    <3>1. l = Rest(l.k)  BY <1>5
    <3>2. Rest(l.k).at = "rest"  BY <1>1, StageTypes
    <3> QED  BY <3>1, <3>2
  <2> QED  BY <1>3, <1>5, <2>2, <2>4, <2>5
<1>6. CASE /\ r.kind = "write" /\ r.num > 0 /\ s.cmd = WriteCommand(r) /\ l = Rest(l.k)
           /\ t = Passing("write", 0, r.num = 1 \/ l.k = r.num)
  <2>1. PICK auto \in BOOLEAN : t = Passing("write", 0, auto)  BY <1>6
  <2>3. "write" \in Ats /\ 0 \in Nat  BY DEF Ats
  <2>2. WriteCommand(r) \in Commands  BY DEF WriteCommand, Commands
  <2>4. t \in Stages /\ t.at = "write"  BY <2>1, <2>3, StageTypes
  <2>5. l.at = "rest"
    <3>1. l = Rest(l.k)  BY <1>6
    <3>2. Rest(l.k).at = "rest"  BY <1>1, StageTypes
    <3> QED  BY <3>1, <3>2
  <2> QED  BY <1>3, <1>6, <2>2, <2>4, <2>5
<1> QED  BY <1>2, <1>4, <1>5, <1>6 DEF Orders

LEMMA CardInKept ==
  ASSUME card' = card, kind' = kind, NEW l PROVE CardIn(l)' <=> CardIn(l)
BY DEF CardIn

LEMMA MemoryKept ==
  ASSUME kind' = kind, NEW l, Memory(l),
         \/ driver' = driver
         \/ /\ driver'.rca = driver.rca /\ driver'.ocr = driver.ocr /\ driver'.type = driver.type
            /\ driver'.support = driver.support /\ driver'.count = driver.count
            /\ driver.sd_err \/ ~driver'.sd_err
  PROVE  Memory(l)'
BY DEF Memory, Supports, Counts

\* A medium that is left alone.
LEMMA MediumKept ==
  ASSUME card' = card, kind' = kind, irq' = irq, NEW r, NEW l,
         host'.busy = host.busy, host'.xfer = host.xfer, host'.fifo = host.fifo, Medium(r, l)
  PROVE  Medium(r, l)'
<1>1. Port(r, l)' <=> Port(r, l)  BY DEF Port
<1>2. CardIn(l)'  BY CardInKept DEF Medium
<1> QED  BY <1>1, <1>2 DEF Medium, Idling, Pending

LEMMA AlongPrepare ==
  ASSUME Typed, Promise, Thrives, NEW c \in Callers, Prepare(c) PROVE Thrives' /\ result' = result
<1>1. At(c, "prepare") /\ UNCHANGED <<kind, card, hung>>  BY DEF Prepare
<1>2. OneCall /\ Alive  BY <1>1, Pursue
<1>3. This(c).do = "prepare" /\ This(c) \in AllSteps  BY <1>1, Pursue
<1>4. PICK r \in Requests, l \in Stages, t \in Stages : \E f : Stands(c, r, f, l, t)  BY <1>1, Pursue
<1>5. PICK f : Stands(c, r, f, l, t)  BY <1>4
<1>6. t = l /\ \E u \in Stages : Orders(r, l, This(c), u)  BY <1>3, <1>5, DoesAt DEF Stands
<1>7. l.at \in Calm /\ Memory(l) /\ Medium(r, l)  BY <1>3, <1>5, <1>6, OrdersFrom DEF Stands, Where
<1>8. CardIn(l) /\ host.xfer = NoTransfer /\ Idling /\ ~Pending  BY <1>7, CalmMedium
<1>9. /\ irq' = {} /\ host' = [host EXCEPT !.arg1 = This(c).arg] /\ Goes(c)
      /\ driver' = [driver EXCEPT !.sd_err = IF ViaSd(c) THEN FALSE ELSE @]
  BY <1>8 DEF Prepare, Idling
<1>10. /\ host'.arg1 = This(c).arg /\ host'.xfer = host.xfer /\ host'.busy = host.busy
  BY <1>9 DEF Typed, TypedHost, HostOK
<1>11. Memory(l)'
  <2>1. /\ driver'.rca = driver.rca /\ driver'.ocr = driver.ocr /\ driver'.type = driver.type
        /\ driver'.support = driver.support /\ driver'.count = driver.count
        /\ driver.sd_err \/ ~driver'.sd_err
    BY <1>9 DEF Typed, TypedDriver
  <2> QED  BY <2>1, <1>1, <1>7, MemoryKept
<1>12. Medium(r, l)'
  <2>1. CardIn(l)'  BY <1>1, <1>8, CardInKept
  <2>2. (host.xfer = NoTransfer /\ Idling /\ ~Pending)'  BY <1>8, <1>9, <1>10 DEF Idling, Pending
  <2> QED  BY <2>1, <2>2, <1>7, CalmMedium
<1>13. ASSUME NEW s \in AllSteps, NEW u, <<This(c), s>> \in Links, Does(r, t, s, u)
       PROVE  Where(r, t, s, u)'
  <2>1. s.do = "issue" /\ s = [This(c) EXCEPT !.do = s.do]  BY <1>3, <1>13, LinksIs
  <2>2. s.arg = This(c).arg  BY <2>1 DEF AllSteps
  <2> QED  BY <2>1, <2>2, <1>6, <1>9, <1>10, <1>11, <1>12 DEF Where
<1>14. Alive' /\ ~Ends(This(c))  BY <1>1, <1>2, <1>3 DEF Alive, Ends
<1> QED  BY <1>1, <1>2, <1>5, <1>9, <1>13, <1>14, Along

LEMMA AlongIssue ==
  ASSUME Typed, Promise, Thrives, NEW c \in Callers, Issue(c) PROVE Thrives' /\ result' = result
<1>1. At(c, "issue") /\ UNCHANGED <<kind, card, hung, irq, driver>> /\ Goes(c)  BY DEF Issue
<1>2. OneCall /\ Alive  BY <1>1, Pursue
<1>3. This(c).do = "issue" /\ This(c) \in AllSteps  BY <1>1, Pursue
<1>4. PICK r \in Requests, l \in Stages, t \in Stages : \E f : Stands(c, r, f, l, t)  BY <1>1, Pursue
<1>5. PICK f : Stands(c, r, f, l, t)  BY <1>4
<1>6. t = l /\ \E u \in Stages : Orders(r, l, This(c), u)  BY <1>3, <1>5, DoesAt DEF Stands
<1>7. l.at \in Calm /\ Memory(l) /\ Medium(r, l) /\ irq = {} /\ host.arg1 = This(c).arg
  BY <1>3, <1>5, <1>6, OrdersFrom DEF Stands, Where
<1>8. CardIn(l) /\ host.xfer = NoTransfer  BY <1>7, CalmMedium
<1>9. host'.busy.cmd = This(c).cmd /\ host'.busy.arg = This(c).arg /\ host'.xfer = host.xfer
  BY <1>7 DEF Issue, Typed, TypedHost, HostOK
<1>10. Memory(l)' /\ CardIn(l)'  BY <1>1, <1>7, <1>8, CardInKept, MemoryKept
<1>11. ASSUME NEW s \in AllSteps, NEW u, <<This(c), s>> \in Links, Does(r, t, s, u)
       PROVE  Where(r, t, s, u)'
  <2>1. s.do = "await" /\ s = [This(c) EXCEPT !.do = s.do]  BY <1>3, <1>11, LinksIs
  <2>2. s.arg = This(c).arg /\ s.cmd = This(c).cmd  BY <2>1 DEF AllSteps
  <2> QED  BY <2>1, <2>2, <1>1, <1>6, <1>7, <1>8, <1>9, <1>10 DEF Where
<1>12. Alive' /\ ~Ends(This(c))  BY <1>1, <1>2, <1>3 DEF Alive, Ends
<1> QED  BY <1>1, <1>2, <1>5, <1>11, <1>12, Along

\* Steps that wait for nothing here.
LEMMA AlongData ==
  ASSUME Typed, Promise, Thrives, NEW c \in Callers, WaitData(c) \/ SetCount(c)
  PROVE  Thrives' /\ result' = result
<1>1. PICK do \in {"data", "count"} : At(c, do) /\ (do = "data" => WaitData(c)) /\ (do = "count" => SetCount(c))
  BY DEF WaitData, SetCount
<1>2. OneCall /\ Alive  BY <1>1, Pursue
<1>3. This(c).do = do /\ This(c) \in AllSteps  BY <1>1, Pursue
<1>4. PICK r \in Requests, l \in Stages, t \in Stages : \E f : Stands(c, r, f, l, t)  BY <1>1, Pursue
<1>5. PICK f : Stands(c, r, f, l, t)  BY <1>4
<1>6. t = l /\ l.at \in {"tran", "rest"}  BY <1>1, <1>3, <1>5, DoesAt DEF Stands
<1>7. l.at \in Calm /\ Memory(l) /\ Medium(r, l)
  BY <1>1, <1>3, <1>5, <1>6 DEF Stands, Where, Calm, Ats
<1>8. host.xfer = NoTransfer /\ ~Pending  BY <1>7, CalmMedium
<1>9. Goes(c) /\ UNCHANGED <<kind, card, hung, irq, driver>>
  BY <1>1, <1>8 DEF WaitData, SetCount, hardware
<1>10. host'.busy = host.busy /\ host'.xfer = host.xfer /\ host'.fifo = host.fifo
  BY <1>1 DEF WaitData, SetCount, hardware, Typed, TypedHost, HostOK
<1>11. Memory(l)' /\ Medium(r, l)'  BY <1>7, <1>9, <1>10, MemoryKept, MediumKept
<1>12. Alive' /\ ~Ends(This(c))  BY <1>1, <1>2, <1>3, <1>9 DEF Alive, Ends
<1> QED  BY <1>1, <1>2, <1>5, <1>6, <1>9, <1>11, <1>12, Behind

\* After the last block.
LEMMA LeftWell ==
  ASSUME NEW r, NEW l \in Stages, l.at \in {"read", "write"}, NEW t, t = Leave(l), kind' = kind,
         driver' = driver, Memory(l), (host.xfer = NoTransfer)', Idling', (~Pending)', card'.limit = 0,
         card'.state = IF l.auto THEN "tran" ELSE "data"
  PROVE  Memory(t)' /\ Medium(r, t)'
<1>1. l.auto \in BOOLEAN /\ 0 \in Nat /\ "stop" \in Ats  BY DEF Stages, Ats
<1>2. /\ l.auto => t.at = "rest" /\ t.k = 0
      /\ ~l.auto => t.at = "stop"
  BY <1>1, StageTypes DEF Leave
<1>3. t.at \in Calm  BY <1>1, <1>2 DEF Calm, Ats
<1>4. Memory(t)'  BY <1>1, <1>2 DEF Memory, Supports, Counts
<1>5. CardIn(t)'  BY <1>1, <1>2 DEF CardIn
<1> QED  BY <1>3, <1>4, <1>5, CalmMedium

LEMMA AlongReady ==
  ASSUME Typed, Promise, Thrives, NEW c \in Callers, Ready(c) PROVE Thrives' /\ result' = result
<1>1. At(c, "ready") /\ UNCHANGED <<kind, hung>>  BY DEF Ready
<1>2. OneCall /\ Alive /\ This(c).do = "ready" /\ This(c) \in AllSteps  BY <1>1, Pursue
<1>3. PICK r \in Requests, l \in Stages, t \in Stages : \E f : Stands(c, r, f, l, t)  BY <1>1, Pursue
<1>4. PICK f : Stands(c, r, f, l, t)  BY <1>3
<1>5. Turn(r, l, This(c), t) /\ Memory(l) /\ Medium(r, l) /\ call[c] = r
  BY <1>2, <1>4, DoesAt DEF Stands, Where
<1>6. /\ r.lba \in Nat /\ r.num \in Nat /\ l.k \in Nat /\ l.auto \in BOOLEAN /\ This(c).arg \in Nat
      /\ Amount(r) \in Nat
  BY <1>2, RequestKinds DEF Stages, AllSteps, Amount
<1>7. /\ host \in [busy : Order, arg1 : Nat, blkcnt : Nat, resp : {"ok", "error", "busy"},
                   xfer : Moment, fifo : Words]
      /\ card \in [state : States, app : BOOLEAN, checked : BOOLEAN, limit : Nat]
  BY DEF Typed, TypedHost, HostOK, TypedCard
<1>8. host.xfer # NoTransfer => card.state = "data"  BY DEF Promise, Simple, Controller
<1>9. ~Ends(This(c))  BY <1>2 DEF Ends
<1>10. CASE This(c).via = "sd"
  <2>1. r.kind = "read" /\ l = Passing("read", l.k, l.auto) /\ l.k < Amount(r)
        /\ t = IF l.k + 1 < Amount(r) THEN Passing("read", l.k + 1, l.auto) ELSE Leave(l)
    BY <1>2, <1>5, <1>10 DEF Turn
  <2>2. l.at = "read"  BY <2>1, <1>6, StageTypes DEF Ats
  <2>3. /\ host.xfer.dir = "read" /\ host.xfer.auto = l.auto /\ Idling /\ ~Pending /\ card.limit = 0
        /\ \/ host.fifo = Empty /\ host.xfer.left = Amount(r) - l.k /\ "READ_RDY" \notin irq
           \/ host.fifo # Empty /\ host.xfer.left = Amount(r) - l.k - 1 /\ "READ_RDY" \in irq
    BY <2>2, <1>5 DEF Medium, Port, CardIn
  <2>4. "READ_RDY" \in irq
    <3>1. Woken("READ_RDY")  BY <1>10 DEF Ready, ViaSd
    <3> QED  BY <3>1, <2>3, <1>2 DEF Woken, TimeUp, Idling, Moving, Alive
  <2>5. Waited("READ_RDY") = "SD_OK" /\ host.fifo # Empty /\ host.xfer.left = Amount(r) - l.k - 1
    BY <2>3, <2>4 DEF Waited, Pending, Errors
  <2>6. Copied(c) /\ Goes(c) /\ driver' = driver  BY <1>10, <2>5 DEF Ready, ViaSd
  <2>7. PICK h : h = [host EXCEPT !.fifo = Empty]  OBVIOUS
  <2>8. EndOf(h) /\ irq' = (irq \ {"READ_RDY"}) \cup DoneFlag(h)
    BY <1>10, <2>3, <2>5, <2>6, <2>7 DEF Copied, ViaSd
  <2>9. h.busy = host.busy /\ h.xfer = host.xfer /\ h.fifo = Empty  BY <2>7, <1>7
  <2>10. (~Pending)' /\ "READ_RDY" \notin irq'  BY <2>3, <2>8 DEF Pending, Errors, DoneFlag
  <2>12. CASE l.k + 1 < Amount(r)
    <3>1. ~Finished(h)  BY <2>5, <2>9, <2>12, <1>6 DEF Finished
    <3>2. host' = h /\ card' = card  BY <3>1, <2>8, <1>7 DEF EndOf, After
    <3>3. t = Passing("read", l.k + 1, l.auto)  BY <2>1, <2>12
    <3>4. t.at = "read" /\ t.k = l.k + 1 /\ t.auto = l.auto  BY <3>3, <1>6, StageTypes DEF Ats
    <3>5. Memory(t)'  BY <1>1, <1>5, <2>2, <2>6, <3>4 DEF Memory, Supports, Counts
    <3>6. CardIn(t)'  BY <3>2, <3>4, <2>3 DEF CardIn
    <3>7. Port(r, t)'  BY <3>2, <3>4, <2>3, <2>5, <2>9, <2>10, <1>6 DEF Port
    <3>8. Medium(r, t)'  BY <3>2, <3>6, <3>7, <2>3, <2>9, <2>10 DEF Medium, Idling
    <3>9. Alive'  BY <1>1, <1>2, <3>2 DEF Alive
    <3> QED  BY <3>5, <3>8, <3>9, <1>1, <1>2, <1>4, <1>9, <2>6, Behind
  <2>13. CASE ~(l.k + 1 < Amount(r))
    <3>1. Finished(h)  BY <2>1, <2>5, <2>9, <2>13, <1>6 DEF Finished
    <3>2. host' = [h EXCEPT !.xfer = NoTransfer]
          /\ card' = [card EXCEPT !.state = IF h.xfer.auto /\ @ = "data" THEN "tran" ELSE @]
      BY <3>1, <2>8 DEF EndOf, After
    <3>3. t = Leave(l)  BY <2>1, <2>13
    <3>4. /\ host'.xfer = NoTransfer /\ host'.busy = host.busy /\ card'.limit = 0
          /\ card'.state = IF l.auto THEN "tran" ELSE "data"
      <4>1. host'.xfer = NoTransfer /\ host'.busy = host.busy  BY <3>2, <1>7, <2>7, <2>9
      <4>2. card.state = "data" /\ h.xfer.auto = l.auto  BY <1>8, <2>3, <2>9, HostConstants
      <4>3. card'.limit = 0 /\ card'.state = IF l.auto THEN "tran" ELSE "data"
        BY <3>2, <1>6, <1>7, <2>3, <4>2
      <4> QED  BY <4>1, <4>3
    <3>5. Memory(t)' /\ Medium(r, t)'
      <4>1. l.at \in {"read", "write"} /\ kind' = kind  BY <2>2, <1>1
      <4>2. Idling'  BY <3>4, <2>3 DEF Idling
      <4> QED  BY <3>3, <3>4, <4>1, <4>2, <1>5, <2>6, <2>10, LeftWell
    <3>6. Alive'  BY <1>1, <1>2, <3>4 DEF Alive
    <3> QED  BY <3>5, <3>6, <1>1, <1>2, <1>4, <1>9, <2>6, Behind
  <2> QED  BY <2>12, <2>13
<1>11. CASE This(c).via # "sd"
  <2>1. r.kind = "write" /\ l = Passing("write", l.k, l.auto) /\ l.k < r.num /\ t = Passing("write", l.k + 1, l.auto)
    BY <1>2, <1>5, <1>11 DEF Turn
  <2>2. l.at = "write" /\ t.at = "write" /\ t.k = l.k + 1 /\ t.auto = l.auto
    BY <2>1, <1>6, StageTypes DEF Ats
  <2>3. /\ host.xfer.dir = "write" /\ host.xfer.auto = l.auto /\ Idling /\ ~Pending /\ card.limit = 0
        /\ "DATA_DONE" \notin irq
        /\ \/ host.fifo = Empty /\ host.xfer.left = r.num - l.k /\ (host.xfer.asked <=> "WRITE_RDY" \in irq)
           \/ host.fifo # Empty /\ host.xfer.left = r.num - l.k + 1 /\ host.xfer.asked /\ "WRITE_RDY" \notin irq
    BY <2>1, <2>2, <1>5, <1>6 DEF Medium, Port, CardIn
  <2>4. "WRITE_RDY" \in irq
    <3>1. Woken("WRITE_RDY")  BY <1>11 DEF Ready, ViaSd
    <3> QED  BY <3>1, <2>3, <1>2 DEF Woken, TimeUp, Idling, Moving, Alive
  <2>5. Waited("WRITE_RDY") = "SD_OK" /\ host.fifo = Empty /\ host.xfer.left = r.num - l.k /\ host.xfer.asked
    BY <2>3, <2>4 DEF Waited, Pending, Errors
  <2>6. Copied(c) /\ Goes(c) /\ driver' = driver  BY <1>11, <2>5 DEF Ready, ViaSd
  <2>7. /\ host' = [host EXCEPT !.fifo = Content(r.lba + This(c).arg, r.version)]
        /\ irq' = irq \ {"WRITE_RDY"} /\ card' = card
    BY <1>11, <1>5, <2>3, <2>6 DEF Copied, ViaSd
  <2>8. Content(r.lba + This(c).arg, r.version) # Empty  BY <1>6 DEF Content, Empty
  <2>9. host'.xfer = host.xfer /\ host'.busy = host.busy /\ host'.fifo # Empty  BY <2>7, <2>8, <1>7
  <2>10. Memory(t)'  BY <1>1, <1>5, <2>2, <2>6 DEF Memory, Supports, Counts
  <2>11. CardIn(t)'  BY <2>2, <2>3, <2>7 DEF CardIn
  <2>12. Port(r, t)'  BY <2>2, <2>3, <2>5, <2>7, <2>9, <1>6 DEF Port
  <2>13. Medium(r, t)'  BY <2>3, <2>7, <2>9, <2>11, <2>12 DEF Medium, Idling, Pending
  <2>14. Alive'  BY <1>1, <1>2, <2>7 DEF Alive
  <2> QED  BY <2>6, <2>10, <2>13, <2>14, <1>1, <1>2, <1>4, <1>9, Behind
<1> QED  BY <1>10, <1>11

LEMMA AlongDone ==
  ASSUME Typed, Promise, Thrives, NEW c \in Callers, WaitDone(c) PROVE Thrives' /\ result' = result
<1>1. At(c, "done") /\ UNCHANGED <<kind, card, hung, host, driver>>  BY DEF WaitDone
<1>2. OneCall /\ Alive /\ This(c).do = "done" /\ This(c) \in AllSteps  BY <1>1, Pursue
<1>3. PICK r \in Requests, l \in Stages, t \in Stages : \E f : Stands(c, r, f, l, t)  BY <1>1, Pursue
<1>4. PICK f : Stands(c, r, f, l, t)  BY <1>3
<1>5. Turn(r, l, This(c), t) /\ Memory(l) /\ Medium(r, l)  BY <1>2, <1>4, DoesAt DEF Stands, Where
<1>6. r.num \in Nat /\ l.auto \in BOOLEAN  BY RequestKinds DEF Stages
<1>7. l = Passing("write", r.num, l.auto) /\ t = Leave(l)  BY <1>2, <1>5 DEF Turn
<1>8. l.at = "write" /\ l.k = r.num  BY <1>6, <1>7, StageTypes DEF Ats
<1>9. Idling /\ ~Pending /\ card.limit = 0  BY <1>5, <1>8 DEF Medium, CardIn
<1>10. host.xfer = NoTransfer /\ "DATA_DONE" \in irq /\ card.state = IF l.auto THEN "tran" ELSE "data"
  <2>1. \/ /\ host.xfer.dir = "write" /\ "DATA_DONE" \notin irq
           /\ \/ host.fifo = Empty /\ host.xfer.left = r.num - l.k
              \/ host.fifo # Empty
        \/ host.xfer = NoTransfer /\ "DATA_DONE" \in irq /\ card.state = IF l.auto THEN "tran" ELSE "data"
    BY <1>5, <1>8 DEF Medium, Port
  <2>2. host.xfer.dir = "write" => host.xfer.left > 0  BY DEF Typed, TypedHost, HostOK
  <2>3. CASE host.xfer.dir = "write" /\ "DATA_DONE" \notin irq /\ host.fifo # Empty
    <3>1. Woken("DATA_DONE")  BY DEF WaitDone
    <3> QED  BY <3>1, <2>3, <1>2, <1>9 DEF Woken, TimeUp, Moving, Idling, Alive
  <2> QED  BY <2>1, <2>2, <2>3, <1>6, <1>8
<1>11. Waited("DATA_DONE") = "SD_OK"  BY <1>9, <1>10 DEF Waited, Pending, Errors
<1>12. Goes(c) /\ irq' = irq \ {"DATA_DONE"}  BY <1>11 DEF WaitDone, Cleared
<1>13. (host.xfer = NoTransfer)' /\ Idling' /\ (~Pending)' /\ card'.limit = 0
       /\ card'.state = IF l.auto THEN "tran" ELSE "data"
  BY <1>1, <1>9, <1>10, <1>12 DEF Idling, Pending
<1>14. Memory(t)' /\ Medium(r, t)'  BY <1>1, <1>5, <1>7, <1>8, <1>13, LeftWell
<1>15. Alive' /\ ~Ends(This(c))  BY <1>1, <1>2 DEF Alive, Ends
<1> QED  BY <1>1, <1>2, <1>4, <1>12, <1>14, <1>15, Behind

LEMMA AlongLook ==
  ASSUME Typed, Promise, Thrives, Working, NEW c \in Callers, Look(c) PROVE Thrives' /\ result' = result
<1>1. PICK do \in {"check", "type", "opcond"} :
        /\ At(c, do)
        /\ IF Holds(c, do) THEN Goes(c)
           ELSE IF do = "opcond" /\ ~driver.ocr /\ This(c).arg > 0
             THEN /\ Go(c, OpCond(This(c).cmd, This(c).arg - 1) \o Tail(todo[c]))
                  /\ UNCHANGED calls
             ELSE FailCall(c)
  BY DEF Look
<1>2. OneCall /\ Alive /\ This(c).do = do /\ This(c) \in AllSteps  BY <1>1, Pursue
<1>3. PICK r \in Requests, l \in Stages, t \in Stages : \E f : Stands(c, r, f, l, t)  BY <1>1, Pursue
<1>4. PICK f : Stands(c, r, f, l, t)  BY <1>3
<1>5. /\ t = l /\ Memory(l) /\ Medium(r, l)
      /\ do = "check" => l.at \in {"stop", "rest", "read"}
      /\ do = "type" => l.at = "rest"
      /\ do = "opcond" => l.at = "ready"
  BY <1>2, <1>4, DoesAt DEF Stands, Where
<1>6. Holds(c, do)  BY <1>5 DEF Holds, Memory, Working
<1>7. Goes(c) /\ UNCHANGED <<kind, card, hung, irq, host, driver>>  BY <1>1, <1>6 DEF Look, hardware
<1>8. Memory(l)' /\ Medium(r, l)'  BY <1>5, <1>7, MemoryKept, MediumKept
<1>9. Alive' /\ ~Ends(This(c))  BY <1>1, <1>2, <1>7 DEF Alive, Ends
<1> QED  BY <1>1, <1>2, <1>4, <1>5, <1>7, <1>8, <1>9, Behind

LEMMA AlongReset ==
  ASSUME Typed, Promise, Thrives, NEW c \in Callers, Reset(c) PROVE Thrives' /\ result' = result
<1>1. At(c, "reset") /\ UNCHANGED <<kind, card, hung, driver>>  BY DEF Reset
<1>2. OneCall /\ Alive /\ This(c).do = "reset" /\ This(c) \in AllSteps  BY <1>1, Pursue
<1>3. PICK r \in Requests, l \in Stages, t \in Stages : \E f : Stands(c, r, f, l, t)  BY <1>1, Pursue
<1>4. PICK f : Stands(c, r, f, l, t)  BY <1>3
<1>5. t = Stage("reset")  BY <1>2, <1>4, DoesAt DEF Stands
<1>6. t.at = "reset" /\ t.at \in Calm  BY <1>5, StageTypes DEF Ats, Calm
<1>7. host' = ResetHost /\ irq' = {} /\ Goes(c)  BY <1>2 DEF Reset, Alive
<1>8. host'.busy = NoCommand /\ host'.xfer = NoTransfer  BY <1>7 DEF ResetHost
<1>9. Memory(t)' /\ CardIn(t)'  BY <1>6 DEF Memory, CardIn
<1>10. Medium(r, t)'  BY <1>6, <1>7, <1>8, <1>9, CalmMedium DEF Idling, Pending
<1>11. Alive' /\ ~Ends(This(c))  BY <1>1, <1>2 DEF Alive, Ends
<1> QED  BY <1>1, <1>2, <1>4, <1>7, <1>9, <1>10, <1>11, Behind

LEMMA AlongClock ==
  ASSUME Typed, Promise, Thrives, NEW c \in Callers, SetClock(c) PROVE Thrives' /\ result' = result
<1>1. At(c, "clock") /\ UNCHANGED <<kind, card, hung, irq, host, driver>>  BY DEF SetClock, hardware
<1>2. OneCall /\ Alive /\ This(c).do = "clock" /\ This(c) \in AllSteps  BY <1>1, Pursue
<1>3. PICK r \in Requests, l \in Stages, t \in Stages : \E f : Stands(c, r, f, l, t)  BY <1>1, Pursue
<1>4. PICK f : Stands(c, r, f, l, t)  BY <1>3
<1>5. t = l /\ Memory(l) /\ Medium(r, l) /\ l.at \in {"reset", "stby"}
  BY <1>2, <1>4, DoesAt DEF Stands, Where
<1>6. Idling /\ host.xfer = NoTransfer  BY <1>5, CalmMedium DEF Calm, Ats
<1>7. Goes(c)  BY <1>2, <1>6 DEF SetClock, Idling, Alive
<1>8. Memory(l)' /\ Medium(r, l)'  BY <1>1, <1>5, MemoryKept, MediumKept
<1>9. Alive' /\ ~Ends(This(c))  BY <1>1, <1>2 DEF Alive, Ends
<1> QED  BY <1>1, <1>2, <1>4, <1>5, <1>7, <1>8, <1>9, Behind

LEMMA AlongRemember ==
  ASSUME Typed, Promise, Thrives, NEW c \in Callers, Remember(c) PROVE Thrives' /\ result' = result
<1>1. PICK do \in {"clear", "type2", "type1", "finish"} : At(c, do) /\ driver' = Note(do, driver)
  BY DEF Remember
<1>2. Goes(c) /\ UNCHANGED <<kind, card, hung, irq, host>>  BY DEF Remember, hardware
<1>3. OneCall /\ Alive /\ This(c).do = do /\ This(c) \in AllSteps  BY <1>1, Pursue
<1>4. PICK r \in Requests, l \in Stages, t \in Stages : \E f : Stands(c, r, f, l, t)  BY <1>1, Pursue
<1>5. PICK f : Stands(c, r, f, l, t)  BY <1>4
<1>6. /\ do = "clear" => l = Stage("reset") /\ t = Stage("clear")
      /\ do \in {"type1", "type2"} => l = Stage("ready") /\ t = Stage("known")
      /\ do = "finish" => t = l /\ l.at = "rest"
      /\ Memory(l) /\ Medium(r, l)
  BY <1>1, <1>3, <1>5, DoesAt DEF Stands, Where
<1>7. Memory(t)'
  <2>1. CASE do = "clear"
    <3>1. t.at = "clear"  BY <1>6, <2>1, StageTypes DEF Ats
    <3>2. ~driver'.sd_err /\ ~driver'.rca  BY <1>1, <2>1 DEF Note, ClearDriver, Typed, TypedDriver
    <3> QED  BY <3>1, <3>2 DEF Memory
  <2>2. CASE do \in {"type1", "type2"}
    <3>1. t.at = "known" /\ l.at = "ready"  BY <1>6, <2>2, StageTypes DEF Ats
    <3>2. driver'.type # "UNKNOWN" /\ driver'.sd_err = driver.sd_err
      BY <1>1, <2>2 DEF Note, Typed, TypedDriver
    <3> QED  BY <3>1, <3>2, <1>6 DEF Memory
  <2>3. CASE do = "finish"
    <3>1. /\ driver'.rca = driver.rca /\ driver'.ocr = driver.ocr /\ driver'.type = driver.type
          /\ driver'.support = driver.support /\ driver'.count = driver.count
          /\ driver'.sd_err = driver.sd_err
      BY <1>1, <2>3 DEF Note, Typed, TypedDriver
    <3>2. driver.sd_err \/ ~driver'.sd_err  BY <3>1
    <3> QED  BY <3>1, <3>2, <2>3, <1>2, <1>6, MemoryKept
  <2> QED  BY <2>1, <2>2, <2>3
<1>8. Medium(r, t)'
  <2>1. Medium(r, l)'  BY <1>2, <1>6, MediumKept
  <2>2. CASE do = "finish"  BY <2>1, <2>2, <1>6
  <2>3. CASE do # "finish"
    <3>1. l.at \in {"reset", "ready"} /\ t.at \in {"clear", "known"} /\ (l.at = "ready" <=> t.at = "known")
      BY <1>6, <2>3, StageTypes DEF Ats
    <3>2. l.at \in Calm /\ t.at \in Calm  BY <3>1 DEF Calm, Ats
    <3>3. CardIn(t)'  BY <2>1, <3>1, <3>2, CalmMedium DEF CardIn
    <3> QED  BY <2>1, <3>2, <3>3, CalmMedium
  <2> QED  BY <2>2, <2>3
<1>9. Alive' /\ ~Ends(This(c))  BY <1>2, <1>3 DEF Alive, Ends
<1> QED  BY <1>1, <1>2, <1>3, <1>5, <1>7, <1>8, <1>9, Behind

\* A new plan of mount.
LEMMA Relaunch ==
  ASSUME Typed, OneCall, NEW c \in Callers, NEW r \in Requests, call[c] = r, UNCHANGED calls,
         NEW p, MountRuns(p), NEW l, NEW e, Carries(r, l, p, e), Go(c, p), kind' = kind, Alive',
         Memory(l)', Medium(r, l)'
  PROVE  Thrives' /\ result' = result
<1>1. p # <<>> /\ p[1].do \notin {"issue", "await"}  BY DEF MountRuns, Runs
<1>2. OnTrack(r, p)'  BY <1>1, Launch
<1>3. call' = call /\ result' = result  BY DEF calls
<1> QED  BY <1>2, <1>3, Alone

LEMMA AlongScr ==
  ASSUME Typed, Promise, Thrives, NEW c \in Callers, ReadScr(c) PROVE Thrives' /\ result' = result
<1>1. At(c, "scr") /\ UNCHANGED <<kind, hung>>  BY DEF ReadScr
<1>2. OneCall /\ Alive /\ This(c).do = "scr" /\ This(c) \in AllSteps  BY <1>1, Pursue
<1>3. PICK r \in Requests, l \in Stages, t \in Stages : \E f : Stands(c, r, f, l, t)  BY <1>1, Pursue
<1>4. PICK f : Stands(c, r, f, l, t)  BY <1>3
<1>5. l = Stage("scr") /\ Memory(l) /\ Medium(r, l) /\ call[c] = r
  BY <1>2, <1>4, DoesAt DEF Stands, Where
<1>6. l.at = "scr" /\ l.k = 0  BY <1>5, StageTypes DEF Ats
<1>7. /\ host \in [busy : Order, arg1 : Nat, blkcnt : Nat, resp : {"ok", "error", "busy"},
                   xfer : Moment, fifo : Words]
      /\ card \in [state : States, app : BOOLEAN, checked : BOOLEAN, limit : Nat]
      /\ driver \in [type : {"UNKNOWN", "TYPE_1", "TYPE_2_SC", "TYPE_2_HC"}, rca : BOOLEAN, ocr : BOOLEAN,
                     support : {"none", "count", "both"}, ccs : BOOLEAN, count : BOOLEAN,
                     sd_err : BOOLEAN, ready : BOOLEAN]
  BY DEF Typed, TypedHost, HostOK, TypedCard, TypedDriver
<1>8. /\ Idling /\ ~Pending /\ card.state = "data" /\ card.limit = 0
      /\ host.xfer.dir = "scr" /\ host.xfer.auto
      /\ \/ host.fifo = Empty /\ host.xfer.left = 1 /\ "READ_RDY" \notin irq
         \/ host.fifo = Scr /\ host.xfer.left = 0 /\ "READ_RDY" \in irq
  BY <1>5, <1>6 DEF Medium, CardIn, Port
<1>9. "READ_RDY" \in irq /\ host.fifo = Scr /\ host.xfer.left = 0
  <2>1. Woken("READ_RDY")  BY DEF ReadScr
  <2> QED  BY <2>1, <1>2, <1>8 DEF Woken, TimeUp, Moving, Idling, Alive
<1>10. Waited("READ_RDY") = "SD_OK"  BY <1>8, <1>9 DEF Waited, Pending, Errors
<1>11. PICK h : h = [host EXCEPT !.fifo = Empty]  OBVIOUS
<1>12. /\ driver' = [driver EXCEPT !.support = kind.support, !.count = kind.support \in {"count", "both"}]
       /\ EndOf(h) /\ irq' = (irq \ {"READ_RDY"}) \cup DoneFlag(h)
       /\ Go(c, Prepared) /\ UNCHANGED calls
  BY <1>9, <1>10, <1>11 DEF ReadScr
<1>13. h.busy = host.busy /\ h.xfer = host.xfer /\ h.fifo = Empty /\ Finished(h)
  BY <1>7, <1>9, <1>11 DEF Finished
<1>14. host' = [h EXCEPT !.xfer = NoTransfer] /\ card' = [card EXCEPT !.state = "tran"]
  BY <1>7, <1>8, <1>12, <1>13 DEF EndOf, After
<1>15. /\ host'.xfer = NoTransfer /\ host'.busy = host.busy
       /\ card'.state = "tran" /\ card'.limit = 0
  BY <1>7, <1>8, <1>11, <1>14
<1>16. /\ driver'.support = kind.support /\ driver'.count = (kind.support \in {"count", "both"})
       /\ driver'.type = driver.type /\ driver'.rca = driver.rca /\ driver'.sd_err = driver.sd_err
  BY <1>7, <1>12
<1>17. Rest(0) \in Stages /\ Rest(0).at = "rest" /\ Rest(0).k = 0  BY StageTypes
<1>18. Memory(Rest(0))'
  <2>1. driver.type # "UNKNOWN" /\ driver.rca /\ ~driver.sd_err  BY <1>5, <1>6 DEF Memory
  <2>2. Supports'  BY <1>1, <1>16 DEF Supports, Counts
  <2> QED  BY <2>1, <2>2, <1>16, <1>17 DEF Memory
<1>19. Medium(r, Rest(0))'
  <2>1. CardIn(Rest(0))'  BY <1>15, <1>17 DEF CardIn
  <2>2. (host.xfer = NoTransfer /\ Idling /\ ~Pending)'
    BY <1>8, <1>12, <1>15 DEF Idling, Pending, Errors, DoneFlag
  <2> QED  BY <2>1, <2>2, <1>17, CalmMedium DEF Calm, Ats
<1>20. PICK p : p = Prepared  OBVIOUS
<1>21. MountRuns(p) /\ Carries(r, Rest(0), p, Rest(0)) /\ Go(c, p)
  BY <1>12, <1>20, PreparedRuns, PreparedCarries
<1>22. Alive'  BY <1>1, <1>2, <1>15 DEF Alive
<1> QED  BY <1>1, <1>2, <1>5, <1>12, <1>18, <1>19, <1>21, <1>22, Relaunch

\* Mount begins again, wherever the card is.
LEMMA AlongAttempt ==
  ASSUME Typed, Promise, Starting, NEW c \in Callers, StartAttempt(c)
  PROVE  (Working' => Thrives') /\ result' = result
<1>1. At(c, "attempt") /\ Goes(c) /\ disturbed' = (hung \/ card.state = "out") /\ UNCHANGED <<kind, card, hung>>
  BY DEF StartAttempt, hardware
<1>2. /\ call[c] # Idle /\ This(c).do = "attempt" /\ This(c) \in AllSteps /\ call[c] \in Requests
  BY <1>1, Doing DEF Typed, CallTypes
<1>3. call[c] = Mount
  <2>1. ASSUME NEW r \in Reads, call[c] = r PROVE FALSE  BY <1>1, <2>1, ReadsAt DEF ReadTurn
  <2>2. ASSUME NEW r \in Writes, call[c] = r PROVE FALSE  BY <1>1, <2>2, WritesAt DEF WriteTurn
  <2> QED  BY <1>2, <2>1, <2>2 DEF Requests
<1>4. todo[c] = Attempt  BY <1>2, <1>3 DEF Starting
<1>5. Mount \in Requests  BY MountKind
<1>6. PICK f : Guides(Mount, f, todo[c]) /\ f[1] = Stage("any")  BY <1>4, AttemptCarries DEF Carries
<1>7. Does(Mount, f[1], This(c), f[2])
  <2>1. Planned(todo[c])  BY <1>1, Doing DEF Typed
  <2>2. This(c) = todo[c][1] /\ Len(todo[c]) \in Nat /\ Len(todo[c]) >= 1
    BY <2>1, PlanHead DEF This
  <2>3. 1 \in 1..Len(todo[c]) /\ 1 + 1 = 2  BY <2>2
  <2> QED  BY <2>2, <2>3, <1>6 DEF Guides
<1>8. f[2] = Stage("any") /\ f[1].at = "any"  BY <1>2, <1>6, <1>7, DoesAt, StageTypes DEF Ats
<1>9. Where(Mount, f[1], This(c), f[2])  BY <1>2, <1>8 DEF Where, Memory, Medium, CardIn, Port
<1>10. Stands(c, Mount, f, f[1], f[2])  BY <1>3, <1>6, <1>7, <1>9 DEF Stands
<1>11. (Memory(f[2]) /\ Medium(Mount, f[2]))'  BY <1>6, <1>8 DEF Memory, Medium, CardIn, Port
<1>12. ~Ends(This(c)) /\ (Working' => Alive')  BY <1>1, <1>2 DEF Ends, Alive, Working
<1>13. OneCall /\ result' = result  BY <1>1 DEF Promise, Simple, Goes, calls
<1> QED  BY <1>1, <1>5, <1>10, <1>11, <1>12, <1>13, Behind

LEMMA AlongReturn ==
  ASSUME Typed, Promise, Thrives, NEW c \in Callers, Return(c)
  PROVE  Thrives' /\ \A d \in Callers : result'[d] = "failed" => result[d] = "failed"
<1>1. At(c, "return") /\ End(c, "ok") /\ UNCHANGED <<kind, card, hung, irq, host, driver>>
  BY DEF Return, hardware
<1>2. OneCall /\ Alive /\ This(c).do = "return" /\ This(c) \in AllSteps  BY <1>1, Pursue
<1>3. PICK r \in Requests, l \in Stages, t \in Stages : \E f : Stands(c, r, f, l, t)  BY <1>1, Pursue
<1>4. PICK f : Stands(c, r, f, l, t)  BY <1>3
<1>5. l.at = "rest" /\ l.k = 0 /\ Memory(l) /\ Medium(r, l) /\ call[c] = r
  BY <1>2, <1>4, DoesAt DEF Stands, Where
<1>6. Rest(0).at = "rest" /\ Rest(0).k = 0  BY StageTypes
<1>7. r # Idle  BY RequestKinds
<1>8. \A d \in Callers : call'[d] = Idle
  BY <1>1, <1>2, <1>5, <1>7 DEF End, OneCall, Typed, CallTypes
<1>9. Memory(l)' /\ Medium(r, l)'  BY <1>1, <1>5, MemoryKept, MediumKept
<1>10. Rested'
  <2>1. Memory(Rest(0))'  BY <1>5, <1>6, <1>9 DEF Memory
  <2>2. CardIn(Rest(0))' /\ (host.xfer = NoTransfer /\ Idling /\ ~Pending)'
    BY <1>5, <1>6, <1>9, CalmMedium DEF CardIn, Calm, Ats
  <2>3. Medium(Idle, Rest(0))'  BY <2>2, <1>6, CalmMedium DEF Calm, Ats
  <2> QED  BY <2>1, <2>3 DEF Rested
<1>11. Alive'  BY <1>1, <1>2 DEF Alive
<1>12. AllOnTrack'  BY <1>8, RequestKinds DEF AllOnTrack
<1>13. \A d \in Callers : result'[d] = "failed" => result[d] = "failed"
  BY <1>1 DEF End, Typed, CallTypes
<1> QED  BY <1>10, <1>11, <1>12, <1>13 DEF Thrives

-----------------------------------------------------------------------------
(* The commands.                                                           *)

LEMMA RoadCases ==
  ASSUME NEW road \in Roads
  PROVE  LET a == road[1]
             b == road[2]
             d == road[3]
         IN \/ a = "clear" /\ b = "GO_IDLE_STATE" /\ d = "idle"
            \/ a = "idle" /\ b = "SEND_IF_COND" /\ d = "open"
            \/ a = "open" /\ b = "APP_CMD" /\ d = "app"
            \/ a = "app" /\ b = "OP_COND" /\ d = "ready"
            \/ a = "known" /\ b = "ALL_SEND_CID" /\ d = "ident"
            \/ a = "ident" /\ b = "SEND_REL_ADDR" /\ d = "stby"
            \/ a = "stby" /\ b = "SEND_CSD" /\ d = "stby"
            \/ a = "stby" /\ b = "CARD_SELECT" /\ d = "tran"
            \/ a = "tran" /\ b = "APP_CMD" /\ d = "tran_app"
            \/ a = "tran_app" /\ b = "SEND_SCR" /\ d = "scr"
            \/ a = "rest" /\ b = "APP_CMD" /\ d = "rest_app"
            \/ a = "rest_app" /\ b = "SET_BUS_WIDTH" /\ d = "rest"
            \/ a = "rest" /\ b = "SET_BLOCKLEN" /\ d = "rest"
            \/ a = "stop" /\ b = "STOP_TRANS" /\ d = "rest"
BY DEF Roads

LEMMA OrderCases ==
  ASSUME NEW r, NEW l \in Stages, NEW s \in AllSteps, NEW t, Orders(r, l, s, t)
  PROVE  Leg(l, s, t) \/ ToCount(l, s, t) \/ ToRead(r, l, s, t) \/ ToWrite(r, l, s, t)
<1>1. l.k \in Nat /\ s.arg \in Nat /\ 0 \in Nat  BY DEF Stages, AllSteps
<1>2. ASSUME NEW road \in Roads, l = Stage(road[1]), s.cmd = road[2], t = Stage(road[3]),
             s.cmd = "OP_COND" /\ kind.hc => s.arg = 1
      PROVE  Leg(l, s, t)
  <2>1. road[1] \in Ats /\ road[3] \in Ats  BY RoadEnds DEF Ats, RoadFrom, RoadTo
  <2>2. l.at = road[1] /\ l.k = 0 /\ t.at = road[3] /\ t.k = 0  BY <1>2, <2>1, StageTypes
  <2> QED  BY <1>2, <2>2, RoadCases DEF Leg
<1>3. ASSUME s.cmd = "SET_BLOCKCNT", l = Rest(0), t = Rest(s.arg), Counts PROVE ToCount(l, s, t)
  BY <1>1, <1>3, StageTypes DEF ToCount
<1>4. ASSUME r.kind = "read", s.cmd = ReadCommand(r), l = Rest(l.k),
             NEW auto \in BOOLEAN, auto <=> (Amount(r) = 1 \/ l.k = Amount(r)), t = Passing("read", 0, auto)
      PROVE  ToRead(r, l, s, t)
  <2>1. l.at = "rest"
    <3>1. l = Rest(l.k)  BY <1>4
    <3>2. Rest(l.k).at = "rest"  BY <1>1, StageTypes
    <3> QED  BY <3>1, <3>2
  <2>2. t.at = "read" /\ t.k = 0 /\ t.auto = auto  BY <1>1, <1>4, StageTypes DEF Ats
  <2> QED  BY <1>4, <2>1, <2>2 DEF ToRead
<1>5. ASSUME r.kind = "write", r.num > 0, s.cmd = WriteCommand(r), l = Rest(l.k),
             NEW auto \in BOOLEAN, auto <=> (r.num = 1 \/ l.k = r.num), t = Passing("write", 0, auto)
      PROVE  ToWrite(r, l, s, t)
  <2>1. l.at = "rest"
    <3>1. l = Rest(l.k)  BY <1>5
    <3>2. Rest(l.k).at = "rest"  BY <1>1, StageTypes
    <3> QED  BY <3>1, <3>2
  <2>2. t.at = "write" /\ t.k = 0 /\ t.auto = auto  BY <1>1, <1>5, StageTypes DEF Ats
  <2> QED  BY <1>5, <2>1, <2>2 DEF ToWrite
<1>6. CASE \E road \in Roads : /\ l = Stage(road[1]) /\ s.cmd = road[2] /\ t = Stage(road[3])
                               /\ s.cmd = "OP_COND" /\ kind.hc => s.arg = 1
  BY <1>6, <1>2
<1>7. CASE /\ r.kind = "read" /\ s.cmd = ReadCommand(r) /\ l = Rest(l.k)
           /\ t = Passing("read", 0, Amount(r) = 1 \/ l.k = Amount(r))
  <2>1. PICK auto : auto = (Amount(r) = 1 \/ l.k = Amount(r))  OBVIOUS
  <2>2. auto \in BOOLEAN /\ (auto <=> (Amount(r) = 1 \/ l.k = Amount(r))) /\ t = Passing("read", 0, auto)
    BY <2>1, <1>7
  <2> QED  BY <2>2, <1>4, <1>7
<1>8. CASE /\ r.kind = "write" /\ r.num > 0 /\ s.cmd = WriteCommand(r) /\ l = Rest(l.k)
           /\ t = Passing("write", 0, r.num = 1 \/ l.k = r.num)
  <2>1. PICK auto : auto = (r.num = 1 \/ l.k = r.num)  OBVIOUS
  <2>2. auto \in BOOLEAN /\ (auto <=> (r.num = 1 \/ l.k = r.num)) /\ t = Passing("write", 0, auto)
    BY <2>1, <1>8
  <2> QED  BY <2>2, <1>5, <1>8
<1> QED  BY <1>3, <1>6, <1>7, <1>8 DEF Orders

\* What the driver notes of the response is what it needs to know at the next stage.
LEMMA NotedWell ==
  ASSUME NEW r, NEW l \in Stages, NEW s \in AllSteps, NEW t, Orders(r, l, s, t), Memory(l), TypedDriver,
         kind' = kind, host.resp = "ok", driver' = Noted(s.cmd)
  PROVE  Memory(t)'
<1>1. /\ driver'.sd_err = driver.sd_err /\ driver'.type = driver.type
      /\ driver'.count = driver.count /\ driver'.support = driver.support
      /\ driver'.rca = (driver.rca \/ s.cmd = "SEND_REL_ADDR")
      /\ s.cmd = "OP_COND" => driver'.ocr
  BY DEF Noted, TypedDriver
<1>2. Supports' <=> Supports  BY <1>1 DEF Supports, Counts
<1>3. ~driver.sd_err
  <2>1. l.at \notin {"any", "reset"}  BY OrdersFrom DEF Calm
  <2> QED  BY <2>1 DEF Memory
<1>4. CASE Leg(l, s, t)  BY <1>1, <1>2, <1>3, <1>4 DEF Leg, Memory
<1>5. CASE ToCount(l, s, t) \/ ToRead(r, l, s, t) \/ ToWrite(r, l, s, t)
  <2>1. l.at = "rest" /\ t.at \in {"rest", "read", "write"}  BY <1>5 DEF ToCount, ToRead, ToWrite
  <2>2. s.cmd # "SEND_REL_ADDR"  BY <1>5 DEF ToCount, ToRead, ToWrite, ReadCommand, WriteCommand
  <2> QED  BY <2>1, <2>2, <1>1, <1>2, <1>3 DEF Memory
<1> QED  BY <1>4, <1>5, OrderCases

\* Only mount asks for the interface conditions.
LEMMA ByMount ==
  ASSUME Typed, Promise, NEW c \in Callers, At(c, "await"), This(c).cmd = "SEND_IF_COND" PROVE ~ViaSd(c)
<1>1. call[c] # Idle /\ call[c] \in Requests /\ This(c).do = "await"  BY Doing DEF Typed, CallTypes
<1>2. ASSUME NEW r \in Reads, call[c] = r PROVE FALSE
  BY <1>1, <1>2, ReadsAt, ReadCommands DEF ReadTurn
<1>3. ASSUME NEW r \in Writes, call[c] = r PROVE FALSE
  BY <1>1, <1>3, WritesAt, WriteCommands DEF WriteTurn
<1>4. CASE call[c] = Mount  BY <1>4, MountAt
<1> QED  BY <1>1, <1>2, <1>3, <1>4 DEF Requests

LEMMA Opens ==
  ASSUME NEW r, NEW l \in Stages, NEW s \in AllSteps, NEW t, Orders(r, l, s, t), s.cmd = "SEND_IF_COND"
  PROVE  l = Stage("idle") /\ t = Stage("open")
<1>1. ReadCommand(r) # s.cmd /\ WriteCommand(r) # s.cmd  BY DEF ReadCommand, WriteCommand
<1>2. PICK road \in Roads : l = Stage(road[1]) /\ s.cmd = road[2] /\ t = Stage(road[3])
  BY <1>1 DEF Orders
<1>3. road[1] = "idle" /\ road[3] = "open"  BY <1>2, RoadCases
<1> QED  BY <1>2, <1>3

LEMMA AlongAwait ==
  ASSUME Supported, Typed, Promise, Thrives, NEW c \in Callers, Await(c) PROVE Thrives' /\ result' = result
<1>1. At(c, "await") /\ UNCHANGED <<kind, card, hung, host>>  BY DEF Await
<1>2. OneCall /\ Alive /\ This(c).do = "await" /\ This(c) \in AllSteps  BY <1>1, Pursue
<1>3. PICK r \in Requests, l \in Stages, t \in Stages : \E f : Stands(c, r, f, l, t)  BY <1>1, Pursue
<1>4. PICK f : Stands(c, r, f, l, t)  BY <1>3
<1>5. PICK s \in AllSteps : s = This(c)  BY <1>2
<1>6. Orders(r, l, s, t) /\ Memory(l) /\ s.do = "await" /\ call[c] = r
  BY <1>2, <1>4, <1>5, DoesAt DEF Stands, Where
<1>7. t.at # "any" /\ s.cmd \in Commands  BY <1>6, OrdersFrom
<1>8. Alive'  BY <1>1, <1>2 DEF Alive
<1>9. Where(r, l, s, t)  BY <1>4, <1>5 DEF Stands
<1>10. CASE host.busy.cmd = s.cmd /\ host.busy.arg = s.arg /\ irq = {} /\ host.xfer = NoTransfer /\ CardIn(l)
  <2>1. ~Idling /\ ~hung  BY <1>2, <1>7, <1>10 DEF Idling, NoCommand, Commands, Alive
  <2>2. Woken("CMD_DONE")  BY DEF Await
  <2> QED  BY <2>1, <2>2, <1>10 DEF Woken, Pending, TimeUp, Idling
<1>11. CASE Medium(r, t) /\ "CMD_DONE" \in irq /\ host.resp = "ok"
  <2>1. ~Pending  BY <1>7, <1>11 DEF Medium
  <2>2. Waited("CMD_DONE") = "SD_OK"  BY <2>1, <1>11 DEF Waited, Pending, Errors
  <2>3. Answered(c) /\ irq' = irq \ {"CMD_DONE"}  BY <2>2 DEF Await, Cleared
  <2>4. /\ Go(c, IF s.cmd = "SEND_IF_COND" THEN NewCard ELSE Tail(todo[c]))
        /\ driver' = Noted(s.cmd) /\ UNCHANGED calls
    BY <2>3, <1>5, <1>11 DEF Answered
  <2>5. Memory(t)'  BY <2>4, <1>1, <1>6, <1>11, NotedWell DEF Typed
  <2>6. Medium(r, t)'
    <3>1. CardIn(t)'  BY <1>1, <1>11, CardInKept DEF Medium
    <3>2. Port(r, t)'  BY <1>1, <1>11, <2>3 DEF Medium, Port
    <3>3. (Idling /\ ~Pending)'  BY <1>1, <1>7, <1>11, <2>3 DEF Medium, Idling, Pending, Errors
    <3> QED  BY <3>1, <3>2, <3>3 DEF Medium
  <2>7. CASE s.cmd = "SEND_IF_COND"
    <3>1. t = Stage("open")  BY <1>6, <2>7, Opens
    <3>2. PICK p : p = NewCard  OBVIOUS
    <3>3. MountRuns(p) /\ Carries(r, t, p, Rest(0)) /\ Go(c, p)
      BY <3>1, <3>2, <2>4, <2>7, NewCardRuns, NewCardCarries, Bounds
    <3> QED  BY <3>3, <2>4, <2>5, <2>6, <1>1, <1>2, <1>6, <1>8, Relaunch
  <2>8. CASE s.cmd # "SEND_IF_COND"
    <3>1. Goes(c) /\ ~Ends(This(c))  BY <1>2, <1>5, <2>4, <2>8 DEF Goes, Proceed, Ends
    <3> QED  BY <3>1, <2>5, <2>6, <1>1, <1>2, <1>4, <1>8, Behind
  <2> QED  BY <2>7, <2>8
<1>12. CASE /\ s.cmd = "SEND_IF_COND" /\ ~kind.v2 /\ irq = {"TIMEOUT"} /\ Idling
            /\ host.xfer = NoTransfer /\ CardIn(l)
  <2>1. Waited("CMD_DONE") = "SD_TIMEOUT"  BY <1>12 DEF Waited
  <2>2. irq' = {} /\ CommandFails(c, "SD_TIMEOUT", 2)  BY <2>1 DEF Await, Cleared
  <2>3. ~ViaSd(c)  BY <1>1, <1>2, <1>5, <1>6, <1>12, ByMount
  <2>4. Go(c, OldCard) /\ UNCHANGED calls /\ driver' = [driver EXCEPT !.sd_err = @]
    BY <2>2, <2>3, <1>5, <1>12 DEF CommandFails, Tolerated
  <2>5. driver' = driver  BY <2>4 DEF Typed, TypedDriver
  <2>6. t = Stage("open") /\ l = Stage("idle")  BY <1>6, <1>12, Opens
  <2>7. t.at = "open" /\ l.at = "idle"  BY <2>6, StageTypes DEF Ats
  <2>8. ~kind.hc  BY <1>12 DEF Supported, Typed, TypedCard
  <2>9. Memory(t)'  BY <2>5, <2>7, <1>1, <1>6 DEF Memory
  <2>10. CardIn(t)'  BY <2>7, <2>8, <1>1, <1>12 DEF CardIn
  <2>11. Medium(r, t)'  BY <2>2, <2>7, <2>10, <1>1, <1>12, CalmMedium DEF Calm, Ats, Idling, Pending
  <2>12. PICK p : p = OldCard  OBVIOUS
  <2>13. MountRuns(p) /\ Carries(r, t, p, Rest(0)) /\ Go(c, p)
    BY <2>4, <2>6, <2>8, <2>12, <1>12, OldCardRuns, OldCardCarries, Bounds DEF Idling
  <2> QED  BY <2>4, <2>9, <2>11, <2>13, <1>1, <1>2, <1>6, <1>8, Relaunch
<1> QED  BY <1>6, <1>9, <1>10, <1>11, <1>12 DEF Where

-----------------------------------------------------------------------------
(* The controller and the card while a call keeps to its path.             *)

\* A block that moves leaves the stage as it is.
LEMMA MovesWithin ==
  ASSUME Typed, Promise, Alive, MoveData, NEW r \in Requests, NEW l \in Stages, Medium(r, l)
  PROVE  Medium(r, l)'
<1>1. /\ host \in [busy : Order, arg1 : Nat, blkcnt : Nat, resp : {"ok", "error", "busy"},
                   xfer : Moment, fifo : Words]
      /\ card \in [state : States, app : BOOLEAN, checked : BOOLEAN, limit : Nat]
      /\ r.num \in Nat /\ Amount(r) \in Nat /\ l.k \in Nat /\ l.auto \in BOOLEAN
  BY RequestKinds DEF Typed, TypedHost, HostOK, TypedCard, Stages, Amount
<1>2. CASE l.at = "any"  BY <1>2 DEF Medium, CardIn, Port
<1>3. CASE l.at \in Calm
  <2>1. host.xfer = NoTransfer  BY <1>3, CalmMedium
  <2> QED  BY <2>1, HostConstants DEF MoveData, Moving
<1>4. CASE l.at \in {"scr", "read"}
  <2>1. /\ host.xfer.dir \in {"scr", "read"} /\ Idling /\ ~Pending /\ CardIn(l)
        /\ host.fifo = Empty /\ "READ_RDY" \notin irq
        /\ l.at = "scr" => host.xfer.dir = "scr" /\ host.xfer.auto /\ host.xfer.left = 1
        /\ l.at = "read" => host.xfer.dir = "read" /\ host.xfer.auto = l.auto /\ host.xfer.left = Amount(r) - l.k
    BY <1>4 DEF Medium, Port, MoveData, Moving
  <2>2. /\ host.xfer.left > 0
        /\ host' = [Moved(host) EXCEPT !.fifo = IF host.xfer.dir = "scr" THEN Scr ELSE disk[host.xfer.at]]
        /\ irq' = irq \cup {"READ_RDY"} /\ card' = card /\ kind' = kind
    BY <2>1 DEF MoveData
  <2>3. /\ host'.xfer.dir = host.xfer.dir /\ host'.xfer.auto = host.xfer.auto
        /\ host'.xfer.left = host.xfer.left - 1 /\ host'.busy = host.busy
        /\ host'.fifo = IF host.xfer.dir = "scr" THEN Scr ELSE disk[host.xfer.at]
    BY <2>2, <1>1 DEF Moved, Moment
  <2>4. host.xfer.dir = "read" => disk[host.xfer.at] # Empty
    <3>1. host.xfer.at \in Nat /\ host.xfer.left \in Nat  BY <1>1 DEF Moment
    <3>2. host.xfer.dir = "read" => host.xfer.at \in Blocks
      BY <3>1, <2>2 DEF Typed, TypedHost, HostOK
    <3> QED  BY <3>2 DEF Promise, Simple, Controller
  <2>5. (Idling /\ ~Pending)' /\ "READ_RDY" \in irq' /\ CardIn(l)'
    BY <2>1, <2>2, <2>3, CardInKept DEF Idling, Pending, Errors
  <2>6. CASE l.at = "scr"
    <3>1. Port(r, l)'  BY <2>1, <2>3, <2>5, <2>6 DEF Port
    <3> QED  BY <3>1, <2>5 DEF Medium
  <2>7. CASE l.at = "read"
    <3>1. host'.xfer.left = Amount(r) - l.k - 1 /\ host'.fifo # Empty /\ host'.xfer.dir = "read"
          /\ host'.xfer.auto = l.auto
      BY <2>1, <2>3, <2>4, <2>7, <1>1
    <3>2. Port(r, l)'  BY <2>5, <2>7, <3>1 DEF Port
    <3> QED  BY <3>2, <2>5 DEF Medium
  <2> QED  BY <1>4, <2>6, <2>7
<1>5. CASE l.at = "write"
  <2>1. /\ Idling /\ ~Pending /\ card.limit = 0 /\ host.xfer.dir \in {"read", "scr", "write"}
    BY <1>5 DEF Medium, CardIn, MoveData, Moving
  <2>2. /\ host.xfer.dir = "write" /\ host.xfer.auto = l.auto /\ "DATA_DONE" \notin irq
        /\ \/ host.fifo = Empty /\ host.xfer.left = r.num - l.k /\ (host.xfer.asked <=> "WRITE_RDY" \in irq)
           \/ host.fifo # Empty /\ host.xfer.left = r.num - l.k + 1 /\ host.xfer.asked /\ "WRITE_RDY" \notin irq
    BY <1>5, <2>1, HostConstants DEF Medium, Port
  <2>4. CASE ~host.xfer.asked
    <3>1. host' = [host EXCEPT !.xfer.asked = TRUE] /\ irq' = irq \cup {"WRITE_RDY"} /\ card' = card
      BY <2>2, <2>4 DEF MoveData
    <3>2. /\ host'.xfer.dir = "write" /\ host'.xfer.auto = l.auto /\ host'.xfer.left = host.xfer.left
          /\ host'.xfer.asked /\ host'.busy = host.busy /\ host'.fifo = host.fifo
      BY <3>1, <2>2, <1>1 DEF Moment
    <3>3. Port(r, l)'  BY <1>5, <2>2, <2>4, <3>1, <3>2 DEF Port
    <3>4. (Idling /\ ~Pending)' /\ CardIn(l)'
      BY <1>5, <2>1, <3>1, <3>2 DEF Idling, Pending, Errors, CardIn
    <3> QED  BY <3>3, <3>4 DEF Medium
  <2>5. CASE host.xfer.asked
    <3>1. PICK h : h = [Moved(host) EXCEPT !.fifo = Empty]  OBVIOUS
    <3>2. host.fifo # Empty /\ EndOf(h) /\ irq' = irq \cup DoneFlag(h)
      BY <2>2, <2>5, <3>1 DEF MoveData
    <3>3. host.xfer.left = r.num - l.k + 1 /\ "WRITE_RDY" \notin irq  BY <2>2, <3>2
    <3>4. /\ h.busy = host.busy /\ h.fifo = Empty /\ h.xfer.dir = "write" /\ h.xfer.auto = l.auto
          /\ h.xfer.left = r.num - l.k /\ ~h.xfer.asked
      <4>1. h.busy = host.busy /\ h.fifo = Empty  BY <3>1, <1>1 DEF Moved
      <4>2. h.xfer = [host.xfer EXCEPT !.at = @ + 1, !.left = @ - 1, !.asked = FALSE]
        BY <3>1, <1>1 DEF Moved, Moment
      <4>3. h.xfer.dir = "write" /\ h.xfer.auto = l.auto /\ h.xfer.left = host.xfer.left - 1 /\ ~h.xfer.asked
        BY <4>2, <2>2, <1>1 DEF Moment
      <4> QED  BY <4>1, <4>3, <3>3, <1>1
    <3>5. card.state = "data"  BY <2>2, HostConstants DEF Promise, Simple, Controller
    <3>6. (~Pending)'  BY <2>1, <3>2 DEF Pending, Errors, DoneFlag
    <3>7. CASE Finished(h)
      <4>1. host' = [h EXCEPT !.xfer = NoTransfer] /\ "DATA_DONE" \in irq' /\ l.k = r.num
        BY <3>2, <3>4, <3>7, <1>1 DEF EndOf, After, DoneFlag, Finished
      <4>2. host'.xfer = NoTransfer /\ host'.busy = host.busy  BY <4>1, <3>1, <3>4, <1>1 DEF Moved
      <4>3. card' = [card EXCEPT !.state = IF l.auto THEN "tran" ELSE "data"]
        BY <3>2, <3>4, <3>5, <3>7, <1>1 DEF EndOf
      <4>4. card'.limit = 0 /\ card'.state = IF l.auto THEN "tran" ELSE "data"  BY <4>3, <2>1, <1>1
      <4>5. Port(r, l)'  BY <1>5, <4>1, <4>2, <4>4 DEF Port
      <4>6. CardIn(l)' /\ Idling'  BY <1>5, <2>1, <4>2, <4>4 DEF CardIn, Idling
      <4> QED  BY <3>6, <4>5, <4>6 DEF Medium
    <3>8. CASE ~Finished(h)
      <4>1. host' = h /\ irq' = irq  BY <3>2, <3>8 DEF EndOf, After, DoneFlag
      <4>2. card' = card  BY <3>2, <3>8, <1>1 DEF EndOf
      <4>3. Port(r, l)'  BY <1>5, <2>2, <3>3, <3>4, <4>1 DEF Port
      <4>4. CardIn(l)' /\ Idling'  BY <1>5, <2>1, <3>4, <4>1, <4>2 DEF CardIn, Idling
      <4> QED  BY <3>6, <4>3, <4>4 DEF Medium
    <3> QED  BY <3>7, <3>8
  <2> QED  BY <2>4, <2>5 DEF Typed, TypedHost, HostOK, Moment
<1> QED  BY <1>2, <1>3, <1>4, <1>5 DEF Calm, Stages

\* What the card does with each command.
LEMMA TakesIs ==
  /\ Takes["GO_IDLE_STATE"] = {"idle", "ready", "ident", "stby", "tran", "data"}
  /\ Takes["SEND_IF_COND"] = {"idle"} /\ Takes["OP_COND"] = {"idle"} /\ Takes["ALL_SEND_CID"] = {"ready"}
  /\ Takes["SEND_REL_ADDR"] = {"ident"} /\ Takes["SEND_CSD"] = {"stby"} /\ Takes["CARD_SELECT"] = {"stby"}
  /\ Takes["APP_CMD"] = {"idle", "tran"} /\ Takes["SEND_SCR"] = {"tran"} /\ Takes["SET_BUS_WIDTH"] = {"tran"}
  /\ Takes["SET_BLOCKLEN"] = {"tran"} /\ Takes["SET_BLOCKCNT"] = {"tran"} /\ Takes["STOP_TRANS"] = {"data"}
  /\ \A cmd \in Moves : Takes[cmd] = {"tran"}
BY DEF Takes, Moves, Multiple

LEMMA LeadsIs ==
  /\ Leads["GO_IDLE_STATE"] = "idle" /\ Leads["ALL_SEND_CID"] = "ident" /\ Leads["SEND_REL_ADDR"] = "stby"
  /\ Leads["CARD_SELECT"] = "tran" /\ Leads["STOP_TRANS"] = "tran"
  /\ DOMAIN Leads = {"GO_IDLE_STATE", "ALL_SEND_CID", "SEND_REL_ADDR", "CARD_SELECT", "STOP_TRANS"}
BY DEF Leads

LEMMA LegTaken ==
  ASSUME Typed, Alive, NEW l \in Stages, NEW s \in AllSteps, NEW t \in Stages, Leg(l, s, t), Memory(l), CardIn(l),
         NEW q, q.cmd = s.cmd, q.arg = s.arg, s.cmd = "SEND_IF_COND" => kind.v2
  PROVE  /\ Accepts(q) /\ q.cmd \notin Moves /\ Next_State(q) = Arrived(t.at)
         /\ q.cmd = "OP_COND" => Powers(q)
<1>1. q.cmd \notin Moves  BY DEF Leg, Moves, Multiple
<1>2. card.state \in States  BY DEF Typed, TypedCard
<1>3. CASE l.at = "clear" /\ q.cmd = "GO_IDLE_STATE" /\ t.at = "idle"
  BY <1>1, <1>2, <1>3, TakesIs, LeadsIs DEF Accepts, Next_State, Powers, Arrived, AppCommands, Alive, States
<1>4. CASE l.at = "idle" /\ q.cmd = "SEND_IF_COND" /\ t.at = "open"
  BY <1>1, <1>4, TakesIs, LeadsIs DEF Accepts, Next_State, Powers, Arrived, AppCommands, CardIn
<1>5. CASE l.at = "open" /\ q.cmd = "APP_CMD" /\ t.at = "app"
  BY <1>1, <1>5, TakesIs, LeadsIs DEF Accepts, Next_State, Powers, Arrived, AppCommands, CardIn, Memory
<1>6. CASE l.at = "app" /\ q.cmd = "OP_COND" /\ t.at = "ready" /\ (kind.hc => q.arg = 1)
  BY <1>1, <1>6, TakesIs DEF Accepts, Next_State, Powers, Arrived, CardIn
<1>7. CASE l.at = "known" /\ q.cmd = "ALL_SEND_CID" /\ t.at = "ident"
  BY <1>1, <1>7, TakesIs, LeadsIs DEF Accepts, Next_State, Powers, Arrived, AppCommands, CardIn
<1>8. CASE l.at = "ident" /\ q.cmd = "SEND_REL_ADDR" /\ t.at = "stby"
  BY <1>1, <1>8, TakesIs, LeadsIs DEF Accepts, Next_State, Powers, Arrived, AppCommands, CardIn
<1>9. CASE l.at = "stby" /\ q.cmd = "SEND_CSD" /\ t.at = "stby"
  BY <1>1, <1>9, TakesIs, LeadsIs DEF Accepts, Next_State, Powers, Arrived, AppCommands, CardIn
<1>10. CASE l.at = "stby" /\ q.cmd = "CARD_SELECT" /\ t.at = "tran"
  BY <1>1, <1>10, TakesIs, LeadsIs DEF Accepts, Next_State, Powers, Arrived, AppCommands, CardIn
<1>11. CASE l.at = "tran" /\ q.cmd = "APP_CMD" /\ t.at = "tran_app"
  BY <1>1, <1>11, TakesIs, LeadsIs DEF Accepts, Next_State, Powers, Arrived, AppCommands, CardIn, Memory
<1>12. CASE l.at = "tran_app" /\ q.cmd = "SEND_SCR" /\ t.at = "scr"
  BY <1>1, <1>12, TakesIs DEF Accepts, Next_State, Powers, Arrived, CardIn
<1>13. CASE l.at = "rest" /\ q.cmd = "APP_CMD" /\ t.at = "rest_app"
  BY <1>1, <1>13, TakesIs, LeadsIs DEF Accepts, Next_State, Powers, Arrived, AppCommands, CardIn, Memory
<1>14. CASE l.at = "rest_app" /\ q.cmd = "SET_BUS_WIDTH" /\ t.at = "rest"
  BY <1>1, <1>14, TakesIs, LeadsIs DEF Accepts, Next_State, Powers, Arrived, CardIn
<1>15. CASE l.at = "rest" /\ q.cmd = "SET_BLOCKLEN" /\ t.at = "rest"
  BY <1>1, <1>15, TakesIs, LeadsIs DEF Accepts, Next_State, Powers, Arrived, AppCommands, CardIn
<1>16. CASE l.at = "stop" /\ q.cmd = "STOP_TRANS" /\ t.at = "rest"
  BY <1>1, <1>16, TakesIs, LeadsIs DEF Accepts, Next_State, Powers, Arrived, AppCommands, CardIn
<1> QED  BY <1>3, <1>4, <1>5, <1>6, <1>7, <1>8, <1>9, <1>10, <1>11, <1>12, <1>13, <1>14, <1>15, <1>16 DEF Leg

LEMMA TakingDoes ==
  ASSUME Typed, NEW q, Taking(q), irq = {}
  PROVE  /\ "CMD_DONE" \in irq' /\ irq' = {"CMD_DONE"} /\ host'.busy = NoCommand /\ host'.fifo = host.fifo
         /\ host'.resp = IF q.cmd = "OP_COND" /\ ~Powers(q) THEN "busy" ELSE "ok"
         /\ host'.xfer = IF Begins(q) THEN Transfer(q)
                         ELSE IF q.cmd = "STOP_TRANS" THEN NoTransfer ELSE host.xfer
         /\ card'.state = Next_State(q) /\ card'.app = (q.cmd = "APP_CMD")
         /\ card'.checked = (q.cmd # "GO_IDLE_STATE" /\ (card.checked \/ q.cmd = "SEND_IF_COND"))
         /\ card'.limit = IF q.cmd = "SET_BLOCKCNT" THEN q.arg ELSE 0
<1>1. irq' = {"CMD_DONE"}  BY DEF Taking
<1>2. /\ card'.state = Next_State(q) /\ card'.app = (q.cmd = "APP_CMD")
      /\ card'.checked = (q.cmd # "GO_IDLE_STATE" /\ (card.checked \/ q.cmd = "SEND_IF_COND"))
      /\ card'.limit = IF q.cmd = "SET_BLOCKCNT" THEN q.arg ELSE 0
  BY DEF Taking, TakenBy
<1>3. PICK resp, xfer : /\ resp = IF q.cmd = "OP_COND" /\ ~Powers(q) THEN "busy" ELSE "ok"
                        /\ xfer = IF Begins(q) THEN Transfer(q)
                                  ELSE IF q.cmd = "STOP_TRANS" THEN NoTransfer ELSE host.xfer
  OBVIOUS
<1>4. host' = [host EXCEPT !.busy = NoCommand, !.resp = resp, !.xfer = xfer]
  BY <1>3 DEF Taking, Reply, Typed, TypedHost, HostOK
<1>5. host'.busy = NoCommand /\ host'.fifo = host.fifo /\ host'.resp = resp /\ host'.xfer = xfer
  BY <1>4 DEF Typed, TypedHost, HostOK
<1> QED  BY <1>1, <1>2, <1>3, <1>5

LEMMA LegAnswered ==
  ASSUME Typed, Promise, Alive, NEW r, NEW l \in Stages, NEW s \in AllSteps, NEW t \in Stages, Leg(l, s, t),
         Memory(l), CardIn(l), kind' = kind, irq = {}, host.xfer = NoTransfer,
         NEW q, q.cmd = s.cmd, q.arg = s.arg, s.cmd = "SEND_IF_COND" => kind.v2, Taking(q)
  PROVE  Medium(r, t)' /\ "CMD_DONE" \in irq' /\ host'.resp = "ok"
<1>1. Next_State(q) = Arrived(t.at) /\ q.cmd \notin Moves /\ (q.cmd = "OP_COND" => Powers(q))
  BY LegTaken
<1>2. /\ "CMD_DONE" \in irq' /\ (~Pending)' /\ Idling' /\ host'.resp = "ok" /\ host'.fifo = Empty
      /\ "READ_RDY" \notin irq'
  BY <1>1, TakingDoes DEF Pending, Errors, Idling, Promise, Simple, Controller
<1>3. CardIn(t)'
  <2>1. /\ card'.state = Arrived(t.at) /\ card'.app = (s.cmd = "APP_CMD")
        /\ card'.checked = (s.cmd # "GO_IDLE_STATE" /\ (card.checked \/ s.cmd = "SEND_IF_COND"))
        /\ card'.limit = IF s.cmd = "SET_BLOCKCNT" THEN s.arg ELSE 0
    BY <1>1, TakingDoes
  <2>2. /\ t.k = 0 /\ s.cmd # "SET_BLOCKCNT" /\ t.at \notin {"stop", "read", "write"}
        /\ t.at \in {"app", "tran_app", "rest_app"} => s.cmd = "APP_CMD"
        /\ t.at = "open" => s.cmd = "SEND_IF_COND"
        /\ t.at = "app" => l.at = "open" /\ s.cmd = "APP_CMD"
    BY DEF Leg
  <2>3. t.at \in {"open", "app"} => (kind.hc => card'.checked)  BY <2>1, <2>2 DEF CardIn
  <2>4. /\ t.at \in {"idle", "open", "app", "ready", "ident", "stby", "tran", "tran_app", "scr", "rest_app", "rest"}
        /\ t.at \in {"idle", "open", "app"} => card'.state = "idle"
        /\ t.at \in {"tran", "tran_app", "rest", "rest_app"} => card'.state = "tran"
        /\ t.at = "scr" => card'.state = "data"
        /\ t.at \in {"ready", "ident", "stby"} => card'.state = t.at
    BY <2>1 DEF Leg, Arrived
  <2>5. card'.limit = t.k /\ (t.at \in {"app", "tran_app", "rest_app"} => card'.app)  BY <2>1, <2>2
  <2> QED  BY <2>2, <2>3, <2>4, <2>5 DEF CardIn
<1>4. CASE t.at = "scr"
  <2>1. q.cmd = "SEND_SCR"  BY <1>4 DEF Leg
  <2>2. Size(q) = 1 /\ Begins(q)  BY <2>1 DEF Size, Begins, Multiple
  <2>3. host'.xfer = Transfer(q)  BY <2>2, TakingDoes
  <2>4. host'.xfer.dir = "scr" /\ host'.xfer.auto /\ host'.xfer.left = 1
    <3>1. Transfer(q).dir = "scr" /\ Transfer(q).left = Size(q)  BY <2>1 DEF Transfer
    <3>2. q.cmd \notin Multiple  BY <2>1 DEF Multiple
    <3>3. Transfer(q).auto  BY <3>2 DEF Transfer
    <3> QED  BY <3>1, <3>3, <2>2, <2>3
  <2>5. Port(r, t)'  BY <1>2, <1>4, <2>4 DEF Port
  <2> QED  BY <1>2, <1>3, <2>5 DEF Medium
<1>5. CASE t.at # "scr"
  <2>1. ~Begins(q)  BY <1>1, <1>5 DEF Begins, Leg
  <2>2. host'.xfer = NoTransfer  BY <2>1, TakingDoes
  <2>3. t.at \in Calm  BY <1>5 DEF Leg, Calm, Ats
  <2> QED  BY <1>2, <1>3, <2>2, <2>3, CalmMedium
<1> QED  BY <1>2, <1>4, <1>5

LEMMA CountAnswered ==
  ASSUME Typed, NEW r, NEW l \in Stages, NEW s \in AllSteps, NEW t \in Stages, ToCount(l, s, t), CardIn(l),
         kind' = kind, irq = {}, host.xfer = NoTransfer, NEW q, q.cmd = s.cmd, q.arg = s.arg
  PROVE  /\ Accepts(q) /\ ~Misplaced(q)
         /\ Taking(q) => Medium(r, t)' /\ "CMD_DONE" \in irq' /\ host'.resp = "ok"
<1>1. q.cmd = "SET_BLOCKCNT" /\ l.at = "rest" /\ t.at = "rest" /\ t.k = q.arg /\ Counts
  BY DEF ToCount
<1>2. card.state = "tran"  BY <1>1 DEF CardIn
<1>3. q.cmd \notin Moves  BY <1>1 DEF Moves, Multiple
<1>4. Accepts(q) /\ ~Misplaced(q)
  BY <1>1, <1>2, <1>3, TakesIs DEF Accepts, Misplaced, AppCommands, Counts
<1>5. ASSUME Taking(q) PROVE Medium(r, t)' /\ "CMD_DONE" \in irq' /\ host'.resp = "ok"
  <2>1. ~Begins(q) /\ ~Powers(q) /\ Next_State(q) = "tran"
    BY <1>1, <1>2, <1>3, LeadsIs DEF Begins, Powers, Next_State
  <2>2. /\ "CMD_DONE" \in irq' /\ (~Pending)' /\ Idling' /\ host'.resp = "ok" /\ host'.xfer = NoTransfer
        /\ card'.state = "tran" /\ card'.limit = q.arg
    BY <1>1, <1>5, <2>1, TakingDoes DEF Pending, Errors, Idling
  <2>3. CardIn(t)'  BY <1>1, <2>2 DEF CardIn
  <2> QED  BY <1>1, <2>2, <2>3, CalmMedium DEF Calm, Ats
<1> QED  BY <1>4, <1>5

\* A transfer of blocks that are in the card begins.
LEMMA MoveTaken ==
  ASSUME Typed, card.state = "tran", NEW q, q.cmd \in Moves, ~Misplaced(q), Size(q) > 0,
         irq = {}, Taking(q), kind' = kind
  PROVE  /\ host'.xfer.dir = IF q.cmd \in {"READ_SINGLE", "READ_MULTI"} THEN "read" ELSE "write"
         /\ host'.xfer.left = Size(q) /\ ~host'.xfer.asked
         /\ host'.xfer.auto = (q.cmd \notin Multiple \/ card.limit = Size(q))
         /\ irq' = {"CMD_DONE"} /\ Idling' /\ (~Pending)' /\ host'.resp = "ok" /\ host'.fifo = host.fifo
         /\ card'.state = "data" /\ card'.limit = 0
<1>1. q.cmd \notin {"OP_COND", "SEND_SCR", "SET_BLOCKCNT"} /\ Begins(q)
  BY DEF Moves, Multiple, Begins
<1>2. Next_State(q) = "data"  BY <1>1 DEF Next_State, Powers
<1>3. host'.xfer = Transfer(q)  BY <1>1, TakingDoes
<1>4. /\ Transfer(q).dir = IF q.cmd \in {"READ_SINGLE", "READ_MULTI"} THEN "read" ELSE "write"
      /\ Transfer(q).left = Size(q) /\ ~Transfer(q).asked
  BY <1>1 DEF Transfer
<1>5. Transfer(q).auto = (q.cmd \notin Multiple \/ card.limit = Size(q))  BY DEF Transfer
<1>6. /\ irq' = {"CMD_DONE"} /\ Idling' /\ (~Pending)' /\ host'.resp = "ok" /\ host'.fifo = host.fifo
      /\ card'.state = "data" /\ card'.limit = 0
  BY <1>1, <1>2, TakingDoes DEF Idling, Pending, Errors
<1> QED  BY <1>3, <1>4, <1>5, <1>6

LEMMA ReadAnswered ==
  ASSUME Supported, Typed, Promise, NEW r \in Reads, NEW l \in Stages, NEW s \in AllSteps, NEW t \in Stages,
         ToRead(r, l, s, t), CardIn(l), kind' = kind, kind.hc, irq = {}, host.xfer = NoTransfer,
         NEW q, q = ReadOrder(r)
  PROVE  /\ Accepts(q) /\ ~Misplaced(q)
         /\ Taking(q) => Medium(r, t)' /\ "CMD_DONE" \in irq' /\ host'.resp = "ok"
<1>1. q.cmd = ReadCommand(r) /\ q.arg = r.lba /\ q.count = Amount(r)  BY DEF ReadOrder
<1>2. r.lba \in Nat /\ Amount(r) \in Nat /\ Amount(r) > 0  BY ReadFacts
<1>3. /\ q.cmd \in {"READ_SINGLE", "READ_MULTI"} /\ (q.cmd = "READ_SINGLE" <=> Amount(r) = 1)
      /\ q.cmd \in Moves /\ (q.cmd \in Multiple <=> Amount(r) # 1)
  BY <1>1 DEF ReadCommand, Moves, Multiple
<1>4. Start(q) = r.lba /\ Size(q) = Amount(r)  BY <1>1, <1>3 DEF Start, Size
<1>5. l.at = "rest" /\ t.at = "read" /\ t.k = 0 /\ (t.auto <=> (Amount(r) = 1 \/ l.k = Amount(r)))
  BY DEF ToRead
<1>6. card.state = "tran" /\ card.limit = l.k  BY <1>5 DEF CardIn
<1>7. ~Misplaced(q)
  <2>1. ASSUME NEW b \in r.lba .. r.lba + Amount(r) - 1 PROVE b \in Blocks
    <3>1. b - r.lba \in 0..Amount(r) - 1 /\ r.lba + (b - r.lba) = b  BY <1>2
    <3>2. r.num \in Nat /\ Amount(r) = IF r.num < 1 THEN 1 ELSE r.num
      BY RequestKinds DEF Amount, Requests
    <3>3. CASE r.num < 1  BY <1>2, <3>1, <3>2, <3>3 DEF Supported
    <3>4. CASE r.num >= 1
      <4>1. b - r.lba \in 0..r.num - 1  BY <3>1, <3>2, <3>4
      <4> QED  BY <3>1, <4>1 DEF Supported
    <3> QED  BY <3>2, <3>3, <3>4
  <2> QED  BY <2>1, <1>4 DEF Misplaced
<1>8. Accepts(q)  BY <1>3, <1>6, TakesIs DEF Accepts, AppCommands
<1>9. ASSUME Taking(q) PROVE Medium(r, t)' /\ "CMD_DONE" \in irq' /\ host'.resp = "ok"
  <2>1. /\ host'.xfer.dir = "read" /\ host'.xfer.left = Amount(r)
        /\ host'.xfer.auto = (q.cmd \notin Multiple \/ card.limit = Size(q))
        /\ irq' = {"CMD_DONE"} /\ Idling' /\ (~Pending)' /\ host'.resp = "ok" /\ host'.fifo = host.fifo
        /\ card'.state = "data" /\ card'.limit = 0
    BY <1>2, <1>3, <1>4, <1>6, <1>7, <1>9, MoveTaken
  <2>3. host'.xfer.auto = t.auto  BY <2>1, <1>3, <1>4, <1>5, <1>6 DEF Stages
  <2>4. host'.fifo = Empty  BY <2>1 DEF Promise, Simple, Controller
  <2>5. Port(r, t)'  BY <2>1, <2>3, <2>4, <1>2, <1>5 DEF Port
  <2>6. CardIn(t)'  BY <2>1, <1>5 DEF CardIn
  <2> QED  BY <2>1, <2>5, <2>6 DEF Medium
<1> QED  BY <1>7, <1>8, <1>9

LEMMA Remainder == ASSUME NEW a \in Nat, NEW u \in Nat, u > 0 PROVE (a * u) % u = 0
  OBVIOUS

LEMMA WriteAnswered ==
  ASSUME Supported, Typed, Promise, NEW r \in Writes, NEW l \in Stages, NEW s \in AllSteps, NEW t \in Stages,
         ToWrite(r, l, s, t), CardIn(l), kind' = kind, driver.type \notin {"TYPE_1", "UNKNOWN"}, irq = {},
         host.xfer = NoTransfer, NEW q, q = WriteOrder(r)
  PROVE  /\ Accepts(q) /\ ~Misplaced(q)
         /\ Taking(q) => Medium(r, t)' /\ "CMD_DONE" \in irq' /\ host'.resp = "ok"
<1>1. q.cmd = WriteCommand(r) /\ q.arg = Shift(r.lba) /\ q.count = r.num  BY DEF WriteOrder
<1>2. r.lba \in Nat /\ r.num \in Nat /\ r.num > 0  BY WriteCommands DEF ToWrite
<1>3. /\ q.cmd \in Moves /\ (q.cmd \in Multiple <=> r.num # 1) /\ q.cmd \in WriteMoves
  BY <1>1 DEF WriteCommand, Moves, Multiple, WriteMoves
<1>4. Start(q) = r.lba /\ Size(q) = r.num  BY OrdersWrite DEF Promise, Simple
<1>5. l.at = "rest" /\ t.at = "write" /\ t.k = 0 /\ (t.auto <=> (r.num = 1 \/ l.k = r.num))
  BY DEF ToWrite
<1>6. card.state = "tran" /\ card.limit = l.k  BY <1>5 DEF CardIn
<1>7. ~kind.hc => q.arg % Unit = 0
  <2>1. ~kind.hc => driver.type = "TYPE_2_SC"  BY DEF Typed, TypedDriver, Promise, Simple, Known
  <2>2. (r.lba * Unit) % Unit = 0  BY <1>2, Bounds, Remainder
  <2> QED  BY <2>1, <2>2, <1>1 DEF Shift
<1>8. ~Misplaced(q)
  <2>1. ASSUME NEW b \in r.lba .. r.lba + r.num - 1 PROVE b \in Blocks
    <3>1. b - r.lba \in 0..r.num - 1 /\ r.lba + (b - r.lba) = b  BY <1>2
    <3> QED  BY <3>1 DEF Supported
  <2> QED  BY <2>1, <1>4, <1>7 DEF Misplaced
<1>9. Accepts(q)  BY <1>3, <1>6, TakesIs DEF Accepts, AppCommands, WriteMoves
<1>10. ASSUME Taking(q) PROVE Medium(r, t)' /\ "CMD_DONE" \in irq' /\ host'.resp = "ok"
  <2>1. /\ host'.xfer.dir = "write" /\ host'.xfer.left = r.num /\ ~host'.xfer.asked
        /\ host'.xfer.auto = (q.cmd \notin Multiple \/ card.limit = Size(q))
        /\ irq' = {"CMD_DONE"} /\ Idling' /\ (~Pending)' /\ host'.resp = "ok" /\ host'.fifo = host.fifo
        /\ card'.state = "data" /\ card'.limit = 0
    BY <1>2, <1>3, <1>4, <1>6, <1>8, <1>10, MoveTaken DEF WriteMoves
  <2>3. host'.xfer.auto = t.auto  BY <2>1, <1>3, <1>4, <1>5, <1>6 DEF Stages
  <2>4. host'.fifo = Empty  BY <2>1 DEF Promise, Simple, Controller
  <2>5. Port(r, t)'  BY <2>1, <2>3, <2>4, <1>2, <1>5 DEF Port
  <2>6. CardIn(t)'  BY <2>1, <1>5 DEF CardIn
  <2> QED  BY <2>1, <2>5, <2>6 DEF Medium
<1> QED  BY <1>8, <1>9, <1>10

-----------------------------------------------------------------------------
(* What the controller and the card do by themselves.                      *)

LEMMA Undergone ==
  ASSUME Typed, Thrives, UNCHANGED <<kind, driver, caller>>, Alive', NoCalls => Rested',
         \A c \in Callers : \A r \in Requests : \A l, t \in Stages : \A s \in AllSteps :
           call[c] = r /\ s = This(c) /\ Does(r, l, s, t) /\ Where(r, l, s, t) => Where(r, l, s, t)'
  PROVE  Thrives'
<1>1. call' = call /\ todo' = todo  BY DEF caller, calls
<1>2. ASSUME NEW c \in Callers, NEW r \in Requests, call'[c] = r PROVE OnTrack(r, todo[c])'
  <2>1. call[c] = r /\ call[c] # Idle  BY <1>1, <1>2, RequestKinds
  <2>2. PICK p : p = todo[c]  OBVIOUS
  <2>3. Planned(p)  BY <2>1, <2>2 DEF Typed, TypedPlans
  <2>4. /\ Len(p) \in Nat /\ Len(p) >= 1 /\ This(c) = p[1] /\ p[1] \in AllSteps
    BY <2>2, <2>3, PlanHead DEF This
  <2>5. PICK f : Guides(r, f, p) /\ Where(r, f[1], p[1], f[2])
    BY <2>1, <2>2 DEF Thrives, AllOnTrack, OnTrack
  <2>6. /\ 1 \in 1..Len(p) /\ 1 \in 1..Len(p) + 1 /\ 2 \in 1..Len(p) + 1 /\ 1 + 1 = 2
        /\ f \in [1..Len(p) + 1 -> Stages]
    BY <2>4, <2>5 DEF Guides
  <2>7. Does(r, f[1], p[1], f[2])  BY <2>5, <2>6 DEF Guides
  <2>8. f[1] \in Stages /\ f[2] \in Stages  BY <2>6
  <2>9. Where(r, f[1], p[1], f[2])'  BY <2>1, <2>4, <2>5, <2>7, <2>8
  <2>10. Guides(r, f, p)'  BY <2>5, GuidesKept
  <2>11. todo'[c] = p  BY <1>1, <2>2
  <2> QED  BY <2>9, <2>10, <2>11 DEF OnTrack, Guides, Where
<1>3. NoCalls' => Rested'  BY <1>1 DEF NoCalls
<1> QED  BY <1>2, <1>3 DEF Thrives, AllOnTrack

\* What a step of a call is about, if it stands there.
LEMMA AwaitOrders ==
  ASSUME NEW r, NEW l \in Stages, NEW t, NEW s \in AllSteps, Does(r, l, s, t)
  PROVE  /\ s.do = "issue" => l.at \in Calm
         /\ s.do = "await" => Orders(r, l, s, t) /\ l.at \in Calm /\ t.at # "any"
<1>1. CASE s.do = "issue"
  <2>1. PICK u \in Stages : Orders(r, l, s, u)  BY <1>1, DoesAt
  <2> QED  BY <1>1, <2>1, OrdersFrom
<1>2. CASE s.do = "await"
  <2>1. Orders(r, l, s, t)  BY <1>2, DoesAt
  <2> QED  BY <1>2, <2>1, OrdersFrom
<1> QED  BY <1>1, <1>2

LEMMA MoveLeaves ==
  ASSUME Typed, MoveData
  PROVE  /\ host'.resp = host.resp /\ irq \subseteq irq' /\ host.xfer # NoTransfer
         /\ card'.state \in {card.state, "tran"}
         /\ UNCHANGED <<kind, hung, driver, caller>>
<1>1. UNCHANGED <<kind, hung, driver, caller>> /\ host.xfer # NoTransfer
  BY HostConstants DEF MoveData, Moving
<1>2. /\ host \in [busy : Order, arg1 : Nat, blkcnt : Nat, resp : {"ok", "error", "busy"},
                   xfer : Moment, fifo : Words]
      /\ card \in [state : States, app : BOOLEAN, checked : BOOLEAN, limit : Nat]
  BY DEF Typed, TypedHost, HostOK, TypedCard
<1>3. CASE /\ host' = [Moved(host) EXCEPT !.fifo = IF host.xfer.dir = "scr" THEN Scr ELSE disk[host.xfer.at]]
           /\ irq' = irq \cup {"READ_RDY"} /\ card' = card
  BY <1>1, <1>2, <1>3 DEF Moved
<1>4. CASE host' = [host EXCEPT !.xfer.asked = TRUE] /\ irq' = irq \cup {"WRITE_RDY"} /\ card' = card
  BY <1>1, <1>2, <1>4
<1>5. ASSUME NEW h, h = [Moved(host) EXCEPT !.fifo = Empty], EndOf(h), irq' = irq \cup DoneFlag(h)
      PROVE  host'.resp = host.resp /\ irq \subseteq irq' /\ card'.state \in {card.state, "tran"}
  <2>1. h.resp = host.resp  BY <1>2, <1>5 DEF Moved
  <2>2. host'.resp = h.resp
    <3>1. CASE Finished(h)
      <4>1. host' = [h EXCEPT !.xfer = NoTransfer]  BY <1>5, <3>1 DEF EndOf, After
      <4> QED  BY <1>2, <1>5, <4>1 DEF Moved
    <3>2. CASE ~Finished(h)  BY <1>5, <3>2 DEF EndOf, After
    <3> QED  BY <3>1, <3>2
  <2>3. card'.state \in {card.state, "tran"}  BY <1>2, <1>5 DEF EndOf
  <2> QED  BY <1>5, <2>1, <2>2, <2>3
<1> QED  BY <1>1, <1>3, <1>4, <1>5 DEF MoveData

LEMMA MoveWell ==
  ASSUME Typed, Promise, Thrives, MoveData PROVE Thrives'
<1>1. /\ host'.resp = host.resp /\ irq \subseteq irq' /\ host.xfer # NoTransfer
      /\ card'.state \in {card.state, "tran"}
      /\ UNCHANGED <<kind, hung, driver, caller>>
  BY MoveLeaves
<1>2. Alive /\ Alive'  BY <1>1 DEF Thrives, Alive
<1>3. ~NoCalls
  <2>1. Rest(0).at = "rest"  BY StageTypes
  <2> QED  BY <1>1, <2>1, CalmMedium DEF Thrives, Rested, Calm, Ats
<1>4. ASSUME NEW c \in Callers, NEW r \in Requests, NEW l \in Stages, NEW t \in Stages, NEW s \in AllSteps,
             Does(r, l, s, t), Where(r, l, s, t)
      PROVE  Where(r, l, s, t)'
  <2>1. Memory(l)'  BY <1>1, <1>4, MemoryKept DEF Where
  <2>2. CASE s.do \notin {"issue", "await"}
    <3>1. Medium(r, l)'  BY <1>2, <1>4, <2>2, MovesWithin DEF Where
    <3> QED  BY <2>1, <2>2, <3>1 DEF Where
  <2>3. CASE s.do = "issue"
    <3>1. l.at \in Calm /\ Medium(r, l)  BY <1>4, <2>3, AwaitOrders DEF Where
    <3> QED  BY <1>1, <3>1, CalmMedium
  <2>4. CASE s.do = "await"
    <3>1. Medium(r, t) /\ "CMD_DONE" \in irq /\ host.resp = "ok"  BY <1>1, <1>4, <2>4 DEF Where
    <3>2. Medium(r, t)'  BY <1>2, <3>1, MovesWithin
    <3> QED  BY <1>1, <2>1, <2>4, <3>1, <3>2 DEF Where
  <2> QED  BY <2>2, <2>3, <2>4
<1> QED  BY <1>1, <1>2, <1>3, <1>4, Undergone

\* The command on its way is the one that the call waits for, and the card takes it.
LEMMA OrderAnswered ==
  ASSUME Supported, Typed, Promise, Alive, Answer, NEW c \in Callers, NEW r \in Requests,
         NEW l \in Stages, NEW t \in Stages, NEW s \in AllSteps, call[c] = r, s = This(c), s.do = "await",
         Orders(r, l, s, t), Memory(l), CardIn(l), irq = {}, host.xfer = NoTransfer,
         host.busy.cmd = s.cmd, host.busy.arg = s.arg, s.cmd = "SEND_IF_COND" => kind.v2
  PROVE  Medium(r, t)' /\ "CMD_DONE" \in irq' /\ host'.resp = "ok"
<1>1. PICK q : q = host.busy  OBVIOUS
<1>2. q # NoCommand /\ q.cmd = s.cmd /\ q.arg = s.arg /\ kind' = kind  BY <1>1 DEF Answer
<1>3. Accepts(q) /\ ~Misplaced(q) => Taking(q)  BY <1>1 DEF Answer, Taking
<1>4. At(c, "await")
  <2>1. call[c] # Idle /\ Head(todo[c]).do = "await"  BY RequestKinds DEF This
  <2>2. c = "shell" => call["daemon"] = Idle  BY <2>1 DEF Promise, Simple, OneCall, Callers
  <2> QED  BY <2>1, <2>2 DEF At
<1>5. CASE Leg(l, s, t)
  <2>1. Accepts(q) /\ q.cmd \notin Moves  BY <1>2, <1>5, LegTaken
  <2>2. Taking(q)  BY <1>3, <2>1 DEF Misplaced
  <2> QED  BY <1>2, <1>5, <2>2, LegAnswered
<1>6. CASE ToCount(l, s, t)
  <2>1. Accepts(q) /\ ~Misplaced(q)  BY <1>2, <1>6, CountAnswered
  <2> QED  BY <1>2, <1>3, <1>6, <2>1, CountAnswered
<1>7. CASE ToRead(r, l, s, t)
  <2>1. r \in Reads /\ s.cmd = ReadCommand(r)  BY <1>7, RequestKinds DEF ToRead
  <2>2. ReadPhase(c, r, s)  BY <1>4, <2>1, ReadsAt
  <2>3. kind.hc /\ q = ReadOrder(r)  BY <1>1, <1>2, <2>1, <2>2 DEF ReadPhase, ReadOn, Idling
  <2>4. Accepts(q) /\ ~Misplaced(q)  BY <1>2, <1>7, <2>1, <2>3, ReadAnswered
  <2> QED  BY <1>2, <1>3, <1>7, <2>1, <2>3, <2>4, ReadAnswered
<1>8. CASE ToWrite(r, l, s, t)
  <2>1. r \in Writes /\ s.cmd = WriteCommand(r)  BY <1>8, RequestKinds DEF ToWrite
  <2>2. WritePhase(r, s)  BY <1>4, <2>1, WritesAt
  <2>3. driver.type \notin {"TYPE_1", "UNKNOWN"} /\ q = WriteOrder(r)
    BY <1>1, <1>2, <2>1, <2>2 DEF WritePhase, WriteOn, Idling
  <2>4. Accepts(q) /\ ~Misplaced(q)  BY <1>2, <1>8, <2>1, <2>3, WriteAnswered
  <2> QED  BY <1>2, <1>3, <1>8, <2>1, <2>3, <2>4, WriteAnswered
<1> QED  BY <1>5, <1>6, <1>7, <1>8, OrderCases

\* An old card does not know SEND_IF_COND.
LEMMA OldAnswered ==
  ASSUME Typed, Answer, NEW r, NEW l \in Stages, NEW t, NEW s \in AllSteps, Orders(r, l, s, t), CardIn(l), irq = {},
         host.xfer = NoTransfer, host.busy.cmd = s.cmd, s.cmd = "SEND_IF_COND", ~kind.v2
  PROVE  irq' = {"TIMEOUT"} /\ Idling' /\ (host.xfer = NoTransfer)' /\ CardIn(l)'
<1>1. l.at = "idle"  BY Opens, StageTypes DEF Ats
<1>2. ~Accepts(host.busy) /\ ~NoResponse(host.busy)  BY DEF Accepts, NoResponse
<1>3. irq' = {"TIMEOUT"} /\ host' = Reply(host, host.resp) /\ card' = [card EXCEPT !.app = FALSE] /\ kind' = kind
  BY <1>2 DEF Answer
<1>4. host'.busy = NoCommand /\ host'.xfer = NoTransfer  BY <1>3 DEF Reply, Typed, TypedHost, HostOK
<1>5. card'.state = card.state  BY <1>3 DEF Typed, TypedCard
<1>6. CardIn(l)'  BY <1>1, <1>5 DEF CardIn
<1> QED  BY <1>3, <1>4, <1>6 DEF Idling

LEMMA AnswerWell ==
  ASSUME Supported, Typed, Promise, Thrives, Answer PROVE Thrives'
<1>1. ~Idling /\ UNCHANGED <<kind, hung, driver, caller>>  BY DEF Answer, Idling
<1>2. Alive  BY DEF Thrives
<1>3. Alive'
  <2>1. CASE card' = card  BY <1>1, <1>2, <2>1 DEF Alive
  <2>2. CASE card' = [card EXCEPT !.app = FALSE]  BY <1>1, <1>2, <2>2 DEF Alive, Typed, TypedCard
  <2>3. ASSUME NEW q, card' = TakenBy(q) PROVE card'.state # "out"
    <3>1. card'.state = Next_State(q)  BY <2>3 DEF TakenBy
    <3>2. \A cmd \in DOMAIN Leads : Leads[cmd] # "out"  BY LeadsIs
    <3> QED  BY <1>2, <3>1, <3>2 DEF Next_State, Alive
  <2> QED  BY <1>1, <1>2, <2>1, <2>2, <2>3 DEF Answer, Alive
<1>4. ~NoCalls
  <2>1. Rest(0).at = "rest"  BY StageTypes
  <2> QED  BY <1>1, <2>1 DEF Thrives, Rested, Medium
<1>5. ASSUME NEW c \in Callers, NEW r \in Requests, NEW l \in Stages, NEW t \in Stages, NEW s \in AllSteps,
             call[c] = r, s = This(c), Does(r, l, s, t), Where(r, l, s, t)
      PROVE  Where(r, l, s, t)'
  <2>1. Memory(l) /\ Memory(l)'  BY <1>1, <1>5, MemoryKept DEF Where
  <2>2. CASE s.do \notin {"issue", "await"}
    <3>1. l.at = "any"  BY <1>1, <1>5, <2>2 DEF Where, Medium
    <3>2. Medium(r, l)'  BY <3>1 DEF Medium, CardIn, Port
    <3> QED  BY <2>1, <2>2, <3>2 DEF Where
  <2>3. CASE s.do = "issue"
    <3>1. l.at \in Calm /\ Medium(r, l)  BY <1>5, <2>3, AwaitOrders DEF Where
    <3> QED  BY <1>1, <3>1, CalmMedium
  <2>4. CASE s.do = "await"
    <3>1. Orders(r, l, s, t) /\ t.at # "any"  BY <1>5, <2>4, AwaitOrders
    <3>2. /\ host.busy.cmd = s.cmd /\ host.busy.arg = s.arg /\ irq = {}
          /\ host.xfer = NoTransfer /\ CardIn(l)
      BY <1>1, <1>5, <2>4, <3>1 DEF Where, Medium
    <3>3. CASE s.cmd = "SEND_IF_COND" /\ ~kind.v2
      <4>1. irq' = {"TIMEOUT"} /\ Idling' /\ (host.xfer = NoTransfer)' /\ CardIn(l)'
        BY <3>1, <3>2, <3>3, OldAnswered
      <4> QED  BY <1>1, <2>1, <2>4, <3>3, <4>1 DEF Where
    <3>4. CASE s.cmd = "SEND_IF_COND" => kind.v2
      <4>1. Medium(r, t)' /\ "CMD_DONE" \in irq' /\ host'.resp = "ok"
        BY <1>2, <1>5, <2>1, <2>4, <3>1, <3>2, <3>4, OrderAnswered
      <4> QED  BY <2>1, <2>4, <4>1 DEF Where
    <3> QED  BY <3>3, <3>4
  <2> QED  BY <2>2, <2>3, <2>4
<1> QED  BY <1>1, <1>3, <1>4, <1>5, Undergone

-----------------------------------------------------------------------------
(* An attempt of mount begins at its first step.                           *)

LEMMA RunsInside ==
  ASSUME NEW c, UNCHANGED calls, NEW p, MountRuns(p), Go(c, p) PROVE Inside(c)
<1>1. PICK a, b \in MountSteps : Runs(MountLinks, a, p, b) /\ a.do \in {"prepare", "reset"}
  BY DEF MountRuns
<1>2. p # <<>> /\ p[1].do # "attempt"  BY <1>1 DEF Runs
<1> QED  BY <1>2 DEF Inside, calls

LEMMA RestInside ==
  ASSUME Typed, Promise, NEW c \in Callers, call[c] = Mount, NEW do, At(c, do), NEW k \in 2..Len(todo[c]),
         UNCHANGED calls, Go(c, SubSeq(todo[c], k, Len(todo[c])))
  PROVE  Inside(c)
<1>1. PICK p : p = todo[c]  OBVIOUS
<1>2. Linked(MountLinks, p) /\ Planned(p)  BY <1>1, MountAt
<1>3. p \in Seq(AllSteps) /\ Len(p) \in Nat /\ k \in 2..Len(p)  BY <1>1, <1>2, PlanHead
<1>4. PICK q : q = SubSeq(p, k, Len(p))  OBVIOUS
<1>5. q # <<>> /\ q[1] = p[k]  BY <1>2, <1>3, <1>4, Dropped
<1>6. k - 1 \in 1..Len(p) - 1 /\ (k - 1) + 1 = k  BY <1>3
<1>7. <<p[k - 1], p[k]>> \in MountLinks
  <2>1. <<p[k - 1], p[(k - 1) + 1]>> \in MountLinks  BY <1>2, <1>6 DEF Linked
  <2> QED  BY <1>6, <2>1
<1>8. p[k].do # "attempt"  BY <1>7 DEF MountLinks
<1>9. Go(c, q) /\ call' = call  BY <1>1, <1>4 DEF calls
<1> QED  BY <1>5, <1>8, <1>9 DEF Inside

LEMMA GoesInside ==
  ASSUME Typed, Promise, NEW c \in Callers, call[c] = Mount, NEW do, At(c, do), do \notin {"await", "scr", "return"},
         Goes(c)
  PROVE  Inside(c)
<1>1. This(c).do = do /\ ~Ends(This(c)) /\ Planned(todo[c])
  <2>1. This(c).do = do /\ Planned(todo[c])  BY MountAt
  <2> QED  BY <2>1 DEF Ends
<1>2. Len(todo[c]) >= 2 /\ Len(todo[c]) \in Nat /\ Tail(todo[c]) = SubSeq(todo[c], 2, Len(todo[c]))
  BY <1>1, PlanHead, PlanTail DEF This
<1>3. 2 \in 2..Len(todo[c])  BY <1>2
<1>4. Go(c, SubSeq(todo[c], 2, Len(todo[c]))) /\ UNCHANGED calls  BY <1>2 DEF Goes, Proceed
<1> QED  BY <1>3, <1>4, RestInside

LEMMA RefusedInside ==
  ASSUME Typed, Promise, NEW c \in Callers, call[c] = Mount, NEW do, At(c, do), NEW res, NEW k,
         \/ do = "prepare" /\ k = 4
         \/ do = "await" /\ k = 2,
         CommandFails(c, res, k)
  PROVE  FailCall(c) \/ Inside(c)
<1>1. ~ViaSd(c) /\ This(c).do = do /\ Planned(todo[c]) /\ This(c) = Head(todo[c])
  BY MountAt DEF This
<1>2. CASE This(c).cmd = "SEND_IF_COND" /\ Go(c, OldCard) /\ UNCHANGED calls
  BY <1>2, OldCardRuns, Bounds, RunsInside
<1>3. CASE This(c).cmd # "SEND_IF_COND" /\ Go(c, SubSeq(todo[c], k, Len(todo[c]))) /\ UNCHANGED calls
  <2>1. Len(todo[c]) \in Nat  BY <1>1, PlanHead
  <2>2. CASE do = "prepare" /\ k = 4
    <3>1. Len(todo[c]) >= 4  BY <1>1, <1>3, <2>2, PlanRest
    <3>2. k \in 2..Len(todo[c])  BY <2>1, <2>2, <3>1
    <3> QED  BY <1>3, <3>2, RestInside
  <2>3. CASE do = "await" /\ k = 2
    <3>1. ~Ends(Head(todo[c]))  BY <1>1, <1>3, <2>3 DEF Ends
    <3>2. Len(todo[c]) >= 2  BY <1>1, <3>1, PlanHead
    <3>3. k \in 2..Len(todo[c])  BY <2>1, <2>3, <3>2
    <3> QED  BY <1>3, <3>3, RestInside
  <2> QED  BY <2>2, <2>3
<1> QED  BY <1>1, <1>2, <1>3 DEF CommandFails

LEMMA MountInside ==
  ASSUME Typed, Promise, NEW c \in Callers, call[c] = Mount, Driver(c)
  PROVE  FailCall(c) \/ End(c, "ok") \/ Inside(c)
<1>1. CASE Prepare(c)
  <2>1. At(c, "prepare") /\ (Goes(c) \/ CommandFails(c, "SD_BUSY", 4))  BY <1>1 DEF Prepare
  <2> QED  BY <2>1, GoesInside, RefusedInside
<1>2. CASE Await(c)
  <2>1. At(c, "await") /\ (Answered(c) \/ \E res : CommandFails(c, res, 2))  BY <1>2 DEF Await
  <2>2. CASE \E res : CommandFails(c, res, 2)  BY <2>1, <2>2, RefusedInside
  <2>3. CASE Answered(c)
    <3>1. CASE CommandFails(c, "R1", 2)  BY <2>1, <3>1, RefusedInside
    <3>2. CASE This(c).cmd = "SEND_IF_COND" /\ Go(c, NewCard) /\ UNCHANGED calls
      BY <3>2, NewCardRuns, Bounds, RunsInside
    <3>3. CASE This(c).cmd # "SEND_IF_COND" /\ Go(c, Tail(todo[c])) /\ UNCHANGED calls
      <4>1. Planned(todo[c]) /\ This(c).do = "await" /\ This(c) = Head(todo[c])
        BY <2>1, MountAt DEF This
      <4>2. ~Ends(Head(todo[c]))  BY <3>3, <4>1 DEF Ends
      <4>3. Len(todo[c]) >= 2 /\ Len(todo[c]) \in Nat /\ Tail(todo[c]) = SubSeq(todo[c], 2, Len(todo[c]))
        BY <4>1, <4>2, PlanHead, PlanTail
      <4>4. 2 \in 2..Len(todo[c])  BY <4>3
      <4> QED  BY <2>1, <3>3, <4>3, <4>4, RestInside
    <3> QED  BY <2>3, <3>1, <3>2, <3>3 DEF Answered
  <2> QED  BY <2>1, <2>2, <2>3
<1>3. CASE Look(c)
  <2>1. PICK do \in {"check", "type", "opcond"} :
          /\ At(c, do)
          /\ IF Holds(c, do) THEN Goes(c)
             ELSE IF do = "opcond" /\ ~driver.ocr /\ This(c).arg > 0
               THEN /\ Go(c, OpCond(This(c).cmd, This(c).arg - 1) \o Tail(todo[c]))
                    /\ UNCHANGED calls
               ELSE FailCall(c)
    BY <1>3 DEF Look
  <2>2. CASE Goes(c)  BY <2>1, <2>2, GoesInside
  <2>3. CASE /\ do = "opcond" /\ This(c).arg > 0 /\ UNCHANGED calls
             /\ Go(c, OpCond(This(c).cmd, This(c).arg - 1) \o Tail(todo[c]))
    <3>1. This(c) \in MountSteps /\ This(c).do = "opcond" /\ Planned(todo[c]) /\ This(c) = Head(todo[c])
      BY <2>1, <2>3, MountAt DEF This
    <3>2. PICK h, k : h = This(c).cmd /\ k = This(c).arg - 1  OBVIOUS
    <3>3. h \in Commands \cup {"none", "HC", "SC"} /\ k \in Nat
      BY <2>3, <3>1, <3>2 DEF MountSteps, AllSteps
    <3>4. PICK a, x : /\ Runs(MountLinks, a, OpCond(h, k), x) /\ a = Wait("prepare", "APP_CMD", 0)
      BY <3>3, OpCondRuns
    <3>5. a.do = "prepare"  BY <3>4, StepFields
    <3>6. PICK o, t : o = OpCond(h, k) /\ t = Tail(todo[c])  OBVIOUS
    <3>7. o \in Seq(AllSteps) /\ o # <<>> /\ o[1] = a  BY <3>4, <3>6 DEF Runs
    <3>8. t \in Seq(AllSteps)  BY <3>1, <3>6 DEF Planned
    <3>9. o \o t # <<>> /\ (o \o t)[1] = a  BY <3>7, <3>8
    <3>10. Go(c, o \o t) /\ call' = call  BY <2>3, <3>2, <3>6 DEF calls
    <3> QED  BY <3>5, <3>9, <3>10 DEF Inside
  <2> QED  BY <2>1, <2>2, <2>3
<1>4. CASE WaitData(c) \/ SetCount(c) \/ Issue(c)
  BY <1>4, GoesInside DEF WaitData, SetCount, Issue, Fails
<1>5. CASE Ready(c)  BY <1>5, GoesInside DEF Ready, Fails
<1>6. CASE WaitDone(c)  BY <1>6, GoesInside DEF WaitDone
<1>7. CASE StartAttempt(c) \/ Reset(c) \/ SetClock(c)
  BY <1>7, GoesInside DEF StartAttempt, Reset, SetClock
<1>8. CASE Remember(c)
  <2>1. PICK do \in {"clear", "type2", "type1", "finish"} : At(c, do)  BY <1>8 DEF Remember
  <2> QED  BY <1>8, <2>1, GoesInside DEF Remember
<1>9. CASE ReadScr(c)
  <2>1. FailCall(c) \/ (Go(c, Prepared) /\ UNCHANGED calls)  BY <1>9 DEF ReadScr
  <2> QED  BY <2>1, PreparedRuns, RunsInside
<1>10. CASE Return(c)  BY <1>10 DEF Return
<1> QED  BY <1>1, <1>2, <1>3, <1>4, <1>5, <1>6, <1>7, <1>8, <1>9, <1>10 DEF Driver

LEMMA StartingKept ==
  ASSUME Typed, Promise, Typed', NEW c \in Callers, Driver(c) PROVE Starting'
<1>1. call[c] # Idle  BY DriverDoes DEF Return, At
<1>2. \A d \in Callers : d # c => call[d] = Idle  BY <1>1 DEF Promise, Simple, OneCall
<1>3. Mount # Idle /\ call \in [Callers -> Requests \cup {Idle}] /\ todo \in [Callers -> Seq(AllSteps)]
  BY MountKind DEF Typed, CallTypes, TypedPlans
<1>4. CASE \E res : End(c, res)
  <2>1. \A d \in Callers : call'[d] = Idle  BY <1>2, <1>3, <1>4 DEF End
  <2> QED  BY <1>3, <2>1 DEF Starting
<1>5. CASE call[c] # Mount
  <2>1. UNCHANGED calls \/ FailCall(c) \/ \E res : End(c, res)  BY DriverDoes DEF Return
  <2>2. FailCall(c) => End(c, "failed")  BY <1>5 DEF FailCall
  <2>3. CASE UNCHANGED calls
    <3>1. \A d \in Callers : call'[d] # Mount  BY <1>2, <1>3, <1>5, <2>3 DEF calls
    <3> QED  BY <3>1 DEF Starting
  <2> QED  BY <1>4, <2>1, <2>2, <2>3
<1>6. CASE call[c] = Mount
  <2>1. CASE Go(c, Attempt) /\ call' = call
    <3>1. todo'[c] = Attempt  BY <1>3, <2>1 DEF Go
    <3> QED  BY <1>2, <1>3, <2>1, <3>1 DEF Starting
  <2>2. CASE Inside(c)
    <3>1. PICK p : call' = call /\ Go(c, p) /\ p # <<>> /\ p[1].do # "attempt"  BY <2>2 DEF Inside
    <3>2. todo'[c] = p  BY <1>3, <3>1 DEF Go
    <3>3. Planned(p)  BY <1>1, <3>1, <3>2 DEF Typed, TypedPlans
    <3>4. Head(p) = p[1]  BY <3>3, PlanHead
    <3>5. This(c)' = p[1]  BY <3>2, <3>4 DEF This
    <3> QED  BY <1>2, <1>3, <3>1, <3>5 DEF Starting
  <2> QED  BY <1>4, <1>6, <2>1, <2>2, MountInside DEF FailCall
<1> QED  BY <1>5, <1>6

-----------------------------------------------------------------------------
(* A call begins at a card that rests.                                     *)

LEMMA CallOnTrack ==
  ASSUME Supported, Typed, Promise, Rested, NEW r \in Requests, r.kind = "read" => driver.ready,
         r.kind = "write" => r.num > 0, UNCHANGED <<hardware, driver>>, NEW p, p = Steps(r)
  PROVE  OnTrack(r, p)'
<1>1. kind' = kind /\ card' = card /\ irq' = irq /\ host' = host  BY DEF hardware
<1>2. Rest(0).at = "rest" /\ Rest(0).at \in Calm /\ Memory(Rest(0)) /\ Medium(Idle, Rest(0))
  BY StageTypes DEF Rested, Calm, Ats
<1>3. Memory(Rest(0))' /\ Supports  BY <1>1, <1>2, MemoryKept DEF Memory
<1>4. Medium(r, Rest(0))'
  <2>1. Medium(r, Rest(0))  BY <1>2, CalmMedium
  <2> QED  BY <1>1, <2>1, MediumKept
<1>5. CASE r \in Reads
  <2>1. r.kind = "read"  BY <1>5, RequestKinds
  <2>2. driver.ccs  BY <2>1 DEF Promise, Simple, Known
  <2>3. PICK a : a = Sd(Step("data"))  OBVIOUS
  <2>4. p = ReadBlocks(r.lba, r.num)  BY <2>1 DEF Steps
  <2>5. p # <<>> /\ p[1] = a  BY <1>5, <2>2, <2>3, <2>4, ReadRuns DEF Runs
  <2>6. a.do = "data"  BY <2>3, StepFields
  <2>7. Carries(r, Rest(0), p, Rest(0))
    BY <1>3, <1>5, <2>2, <2>4, ReadCarries DEF Typed, TypedDriver
  <2>8. p[1].do \notin {"issue", "await"}  BY <2>5, <2>6
  <2> QED  BY <1>1, <1>3, <1>4, <2>5, <2>7, <2>8, Launch
<1>6. CASE r \in Writes
  <2>1. r.kind = "write"  BY <1>6, RequestKinds
  <2>2. PICK a : a = Step("type")  OBVIOUS
  <2>3. p = WriteBlocks(r.lba, r.num)  BY <2>1 DEF Steps
  <2>4. p # <<>> /\ p[1] = a  BY <1>6, <2>2, <2>3, WriteRuns DEF Runs, Typed, TypedDriver
  <2>5. a.do = "type"  BY <2>2, StepFields
  <2>6. Carries(r, Rest(0), p, Rest(0))  BY <1>3, <1>6, <2>1, <2>3, WriteCarries DEF Typed
  <2>7. p[1].do \notin {"issue", "await"}  BY <2>4, <2>5
  <2> QED  BY <1>1, <1>3, <1>4, <2>4, <2>6, <2>7, Launch
<1>7. CASE r = Mount
  <2>1. PICK a : a = Step("attempt")  OBVIOUS
  <2>2. p = Attempt  BY <1>7, MountKind DEF Steps
  <2>3. p # <<>> /\ p[1] = a  BY <2>1, <2>2, ResetRuns DEF Runs
  <2>4. a.do = "attempt"  BY <2>1, StepFields
  <2>5. Carries(r, Stage("any"), p, Stage("open")) /\ Stage("any").at = "any"
    BY <2>2, AttemptCarries, StageTypes DEF Ats
  <2>6. Memory(Stage("any"))' /\ Medium(r, Stage("any"))'  BY <2>5 DEF Memory, Medium, CardIn, Port
  <2>7. p[1].do \notin {"issue", "await"}  BY <2>3, <2>4
  <2> QED  BY <1>1, <2>3, <2>5, <2>6, <2>7, Launch
<1> QED  BY <1>5, <1>6, <1>7 DEF Requests

LEMMA CallWell ==
  ASSUME Supported, Typed, Promise, Healthful, NEW c \in Callers, NEW r \in Requests, Call(c, r)
  PROVE  Healthful' /\ \A d \in Callers : result'[d] = "none"
<1>1. /\ NoCalls /\ (r.kind = "read" => driver.ready)
      /\ call' = [call EXCEPT ![c] = r] /\ todo' = [todo EXCEPT ![c] = Steps(r)]
      /\ result' = [d \in Callers |-> "none"]
      /\ disturbed' = (disturbed \/ (r.kind = "write" /\ r.num = 0))
      /\ UNCHANGED <<hardware, driver>>
  BY DEF Call, May, Supported, NoCalls, Go
<1>2. call \in [Callers -> Requests \cup {Idle}] /\ todo \in [Callers -> Seq(AllSteps)]
  BY DEF Typed, CallTypes, TypedPlans
<1>3. PICK p : p = Steps(r)  OBVIOUS
<1>4. call'[c] = r /\ todo'[c] = p /\ \A d \in Callers : d # c => call'[d] = Idle
  BY <1>1, <1>2, <1>3 DEF NoCalls
<1>5. r # Idle /\ r.num \in Nat /\ Mount # Idle /\ Mount.kind = "mount"  BY RequestKinds, MountKind
<1>6. Starting'
  <2>1. ASSUME NEW d \in Callers, call'[d] = Mount PROVE todo'[d] = Attempt
    <3>1. d = c /\ r = Mount  BY <1>4, <1>5, <2>1
    <3> QED  BY <1>3, <1>4, <1>5, <3>1 DEF Steps
  <2> QED  BY <2>1 DEF Starting
<1>7. ASSUME Working' PROVE Thrives'
  <2>1. Working /\ (r.kind = "write" => r.num > 0)
    <3>1. kind' = kind /\ kind'.volts /\ ~disturbed'  BY <1>1, <1>7 DEF Working, hardware
    <3>2. ~disturbed /\ ~(r.kind = "write" /\ r.num = 0)  BY <1>1, <3>1, Zenon
    <3>3. r.num # 0 => r.num > 0  BY <1>5
    <3> QED  BY <3>1, <3>2, <3>3 DEF Working
  <2>2. Thrives /\ Rested  BY <1>1, <2>1 DEF Healthful, Thrives
  <2>3. OnTrack(r, p)'  BY <1>1, <1>3, <2>1, <2>2, CallOnTrack
  <2>4. ASSUME NEW d \in Callers, NEW x \in Requests, call'[d] = x PROVE OnTrack(x, todo[d])'
    <3>1. x # Idle  BY RequestKinds
    <3>2. d = c /\ x = r  BY <1>4, <2>4, <3>1
    <3>3. OnTrack(r, todo[c])'  BY <1>4, <2>3 DEF OnTrack, Guides, Where
    <3> QED  BY <3>2, <3>3
  <2>5. Alive'  BY <1>1, <2>2 DEF Thrives, Alive, hardware
  <2>6. ~NoCalls'  BY <1>4, <1>5 DEF NoCalls
  <2> QED  BY <2>4, <2>5, <2>6 DEF Thrives, AllOnTrack
<1> QED  BY <1>1, <1>6, <1>7 DEF Healthful

LEMMA DriverWell ==
  ASSUME Supported, Typed, Promise, Healthful, NEW c \in Callers, Driver(c)
  PROVE  /\ Working' => Thrives'
         /\ Working => \A d \in Callers : result'[d] = "failed" => result[d] = "failed"
<1>1. CASE StartAttempt(c)  BY <1>1, AlongAttempt DEF Healthful
<1>2. CASE ~StartAttempt(c)
  <2>1. kind' = kind /\ disturbed' = disturbed
    BY <1>2 DEF Driver, Prepare, Issue, Await, WaitData, SetCount, Ready, WaitDone, Look, Reset, SetClock,
                Remember, ReadScr, Return, hardware
  <2>2. Working' <=> Working  BY <2>1 DEF Working
  <2>3. ASSUME Working PROVE Thrives' /\ \A d \in Callers : result'[d] = "failed" => result[d] = "failed"
    <3>1. Thrives  BY <2>3 DEF Healthful
    <3>2. CASE Return(c)  BY <3>1, <3>2, AlongReturn
    <3>3. CASE Prepare(c) \/ Issue(c) \/ Await(c)
      BY <3>1, <3>3, AlongPrepare, AlongIssue, AlongAwait
    <3>4. CASE WaitData(c) \/ SetCount(c) \/ Ready(c) \/ WaitDone(c)
      BY <3>1, <3>4, AlongData, AlongReady, AlongDone
    <3>5. CASE Look(c) \/ Reset(c) \/ SetClock(c)
      BY <2>3, <3>1, <3>5, AlongLook, AlongReset, AlongClock
    <3>6. CASE Remember(c) \/ ReadScr(c)  BY <3>1, <3>6, AlongRemember, AlongScr
    <3> QED  BY <1>2, <3>2, <3>3, <3>4, <3>5, <3>6 DEF Driver
  <2> QED  BY <2>2, <2>3
<1> QED  BY <1>1, <1>2

LEMMA StartingAgain ==
  ASSUME Starting, UNCHANGED caller PROVE Starting'
<1>1. call' = call /\ todo' = todo  BY DEF caller, calls
<1>2. \A c \in Callers : This(c)' = This(c)  BY <1>1 DEF This
<1> QED  BY <1>1, <1>2 DEF Starting

LEMMA FaultWell ==
  ASSUME Healthful, Fault PROVE Healthful' /\ result' = result
<1>1. ~Working' /\ UNCHANGED caller  BY DEF Fault, Working
<1> QED  BY <1>1, StartingAgain DEF Healthful, caller, calls

LEMMA CuredWell ==
  ASSUME Healthful, PutIn \/ Recover PROVE Healthful' /\ result' = result
<1>1. ~Alive /\ UNCHANGED <<kind, caller, disturbed>>  BY DEF PutIn, Recover, Alive
<1>2. ~Working  BY <1>1 DEF Healthful, Thrives
<1>3. ~Working'  BY <1>1, <1>2 DEF Working
<1> QED  BY <1>1, <1>3, StartingAgain DEF Healthful, caller, calls

LEMMA HealthStutter ==
  ASSUME Typed, Healthful, UNCHANGED vars PROVE Healthful' /\ result' = result
<1>1. /\ UNCHANGED <<kind, driver, caller, disturbed>> /\ card' = card /\ irq' = irq /\ host' = host /\ hung' = hung
  BY DEF vars, hardware
<1>2. Working' <=> Working  BY <1>1 DEF Working
<1>3. Starting' /\ result' = result  BY <1>1, StartingAgain DEF Healthful, caller, calls
<1>4. ASSUME Thrives PROVE Thrives'
  <2>1. \A l : Memory(l) => Memory(l)'  BY <1>1, MemoryKept
  <2>2. \A r, l : Medium(r, l) => Medium(r, l)'  BY <1>1, MediumKept
  <2>3. \A l : CardIn(l) => CardIn(l)'  BY <1>1, CardInKept
  <2>4. \A r, l, s, t : Where(r, l, s, t) => Where(r, l, s, t)'
    BY <1>1, <2>1, <2>2, <2>3 DEF Where, Idling
  <2>5. Alive'  BY <1>1, <1>4 DEF Thrives, Alive
  <2>6. NoCalls => Rested'  BY <1>4, <2>1, <2>2 DEF Thrives, Rested
  <2> QED  BY <1>1, <1>4, <2>4, <2>5, <2>6, Undergone
<1> QED  BY <1>2, <1>3, <1>4 DEF Healthful

LEMMA HealthNext ==
  ASSUME Supported, Typed, Promise, Healthful, [Next]_vars, Typed'
  PROVE  /\ Healthful'
         /\ \A c \in Callers : result[c] = "none" /\ result'[c] = "failed" => disturbed \/ ~kind.volts
<1>1. ASSUME NEW c \in Callers, Driver(c)
      PROVE  Healthful' /\ (Working => \A d \in Callers : result'[d] = "failed" => result[d] = "failed")
  BY <1>1, DriverWell, StartingKept DEF Healthful
<1>2. ASSUME NEW c \in Callers, NEW r \in Requests, Call(c, r)
      PROVE  Healthful' /\ \A d \in Callers : result'[d] = "none"
  BY <1>2, CallWell
<1>3. CASE Answer \/ MoveData
  <2>1. UNCHANGED <<kind, caller, disturbed>>  BY <1>3 DEF Answer, MoveData
  <2>2. Working' <=> Working  BY <2>1 DEF Working
  <2>3. Thrives => Thrives'  BY <1>3, AnswerWell, MoveWell
  <2>4. Starting' /\ result' = result  BY <2>1, StartingAgain DEF Healthful, caller, calls
  <2>5. Healthful'  BY <2>2, <2>3, <2>4 DEF Healthful
  <2> QED  BY <2>4, <2>5
<1>4. CASE BadAnswer \/ StillBusy \/ BadData \/ Hang \/ PullOut
  BY <1>4, FaultWell DEF BadAnswer, StillBusy, BadData, Hang, PullOut
<1>5. CASE PutIn \/ Recover  BY <1>5, CuredWell
<1>6. CASE UNCHANGED vars  BY <1>6, HealthStutter
<1> QED  BY <1>1, <1>2, <1>3, <1>4, <1>5, <1>6 DEF Next, Working

LEMMA HealthInit == Init => Healthful
<1> SUFFICES ASSUME Init PROVE Healthful
  OBVIOUS
<1>1. /\ call = [c \in Callers |-> IF c = "shell" THEN Mount ELSE Idle]
      /\ todo = [c \in Callers |-> IF c = "shell" THEN Attempt ELSE <<>>]
      /\ ~hung /\ card.state = "idle"
  BY DEF Init
<1>2. Mount # Idle /\ Mount \in Requests /\ "shell" \in Callers  BY MountKind DEF Callers
<1>3. Starting  BY <1>1, <1>2 DEF Starting
<1>4. PICK p, a : p = Attempt /\ a = Step("attempt")  OBVIOUS
<1>5. p # <<>> /\ p[1] = a /\ a.do = "attempt"
  <2>1. p # <<>> /\ p[1] = a  BY <1>4, ResetRuns DEF Runs
  <2>2. a.do = "attempt"  BY <1>4, StepFields
  <2> QED  BY <2>1, <2>2
<1>6. PICK f : Guides(Mount, f, p) /\ f[1] = Stage("any")  BY <1>4, AttemptCarries DEF Carries
<1>7. f[1].at = "any"  BY <1>6, StageTypes DEF Ats
<1>8. Where(Mount, f[1], p[1], f[2])  BY <1>5, <1>7 DEF Where, Memory, Medium, CardIn, Port
<1>9. OnTrack(Mount, p)  BY <1>6, <1>8 DEF OnTrack
<1>10. ASSUME NEW c \in Callers, NEW r \in Requests, call[c] = r PROVE OnTrack(r, todo[c])
  <2>1. r # Idle  BY RequestKinds
  <2>2. r = Mount /\ todo[c] = p  BY <1>1, <1>4, <1>10, <2>1
  <2> QED  BY <1>9, <2>2
<1>11. ~NoCalls /\ Alive  BY <1>1, <1>2 DEF NoCalls, Alive
<1> QED  BY <1>3, <1>10, <1>11 DEF Healthful, Thrives, AllOnTrack

\* A call of a card that works succeeds: only what goes wrong after the last attempt
\* of mount to reset the card, a card that is not made for the voltage, or a write of
\* no blocks makes one fail.  What failed calls left in the controller, in the card
\* and in what the drivers know of it is gone with that attempt.
THEOREM CallsSucceed == ASSUME Supported PROVE Spec => Healthy
<1> DEFINE Blameless == \A c \in Callers : result[c] = "none" /\ result'[c] = "failed"
                                           => disturbed \/ ~kind.volts
<1>1. Spec => [](Typed /\ Promise)  BY PromiseAlways DEF Supported
<1>2. Init => Healthful  BY HealthInit
<1>3. Typed /\ Promise /\ Healthful /\ [Next]_vars => Healthful' /\ Blameless
  BY TypedNext, HealthNext
<1>4. Typed /\ Promise /\ Healthful /\ [Next]_vars => [Blameless]_vars  BY <1>3
<1> HIDE DEF Blameless
<1>5. Spec => [][Blameless]_vars  BY <1>1, <1>2, <1>3, <1>4, PTL DEF Spec
<1> QED  BY <1>5 DEF Healthy, Blameless
=============================================================================
