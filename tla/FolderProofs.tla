---------------------------- MODULE FolderProofs ----------------------------
(***************************************************************************)
(* Theorems about Folders, for every card: the tree of pages that the       *)
(* daemon builds is the tree of folders, the shell is at one place of it,    *)
(* and fopen opens what ls shows there.                                    *)
(***************************************************************************)
EXTENDS Folders, WellFoundedInduction, TLAPS

-----------------------------------------------------------------------------
(* The elements of a sequence that are in a set.                           *)

LEMMA LeastOf ==
  ASSUME NEW S \in SUBSET Nat, S # {}
  PROVE  \E x \in S : \A y \in S : x <= y
<1> DEFINE R == {ss \in Nat \X Nat : ss[1] < ss[2]}
<1>1. IsWellFoundedOn(R, Nat)
  BY NatLessThanWellFounded DEF OpToRel
<1>2. PICK x \in S : \A y \in S : ~(<<y, x>> \in R)
  <2> HIDE DEF R
  <2> QED BY <1>1, WFMin
<1>3. ASSUME NEW y \in S PROVE x <= y
  <2>1. x \in Nat /\ y \in Nat
    OBVIOUS
  <2>2. ~(<<y, x>>[1] < <<y, x>>[2])
    BY <1>2, <2>1
  <2> QED BY <2>1, <2>2
<1> QED BY <1>3

\* f[k]: those of the first k elements of s.
Chosen(f, s, S, n) ==
  [k \in 0..n |-> IF k = 0 THEN <<>> ELSE IF s[k] \in S THEN Append(f[k - 1], s[k]) ELSE f[k - 1]]
Choice(f, s, S) == f = Chosen(f, s, S, Len(s))

LEMMA ChoiceExists ==
  ASSUME NEW s, NEW S, Len(s) \in Nat
  PROVE  \E f : Choice(f, s, S)
<1> DEFINE Found(n) == \E f : f = Chosen(f, s, S, n)
           T == {n \in Nat : ~Found(n)}
<1>1. SUFFICES ASSUME Len(s) \in T PROVE FALSE
  BY DEF Choice
<1>2. PICK n \in T : \A k \in T : n <= k
  <2>1. T \in SUBSET Nat
    OBVIOUS
  <2> HIDE DEF T
  <2> QED BY <1>1, <2>1, LeastOf
<1>3. n \in Nat /\ ~Found(n)
  OBVIOUS
<1>4. CASE n = 0
  <2> DEFINE f == [k \in 0..0 |-> <<>>]
  <2>1. f = Chosen(f, s, S, 0)
    BY DEF Chosen
  <2> QED
    BY <1>3, <1>4, <2>1
<1>5. CASE n # 0
  <2>1. n - 1 \in Nat /\ n - 1 \notin T
    BY <1>2, <1>3, <1>5
  <2>2. PICK f : f = Chosen(f, s, S, n - 1)
    BY <2>1
  <2> DEFINE Last == IF s[n] \in S THEN Append(f[n - 1], s[n]) ELSE f[n - 1]
             g == [k \in 0..n |-> IF k < n THEN f[k] ELSE Last]
  <2>3. ASSUME NEW k \in 0..n PROVE g[k] = Chosen(g, s, S, n)[k]
    <3> HIDE DEF Last
    <3>1. CASE k < n
      <4>1. k \in 0..n - 1 /\ g[k] = f[k]
        BY <1>3, <3>1
      <4>2. f[k] = IF k = 0 THEN <<>> ELSE IF s[k] \in S THEN Append(f[k - 1], s[k]) ELSE f[k - 1]
        BY <2>2, <4>1 DEF Chosen
      <4>3. k # 0 => g[k - 1] = f[k - 1]
        BY <1>3, <3>1
      <4> QED
        BY <4>1, <4>2, <4>3 DEF Chosen
    <3>2. CASE k = n
      <4>1. n - 1 \in 0..n /\ g[n - 1] = f[n - 1] /\ n \in 0..n /\ g[n] = Last
        BY <1>3, <1>5
      <4> HIDE DEF g
      <4> QED
        BY <1>3, <1>5, <3>2, <4>1 DEF Chosen, Last
    <3> QED
      BY <1>3, <3>1, <3>2
  <2>4. g = Chosen(g, s, S, n)
    <3>1. DOMAIN g = 0..n /\ g = [k \in 0..n |-> g[k]]
      OBVIOUS
    <3> HIDE DEF g
    <3> QED
      BY <2>3, <3>1 DEF Chosen
  <2> QED
    BY <1>3, <2>4
<1> QED
  BY <1>4, <1>5

LEMMA ChoiceStep ==
  ASSUME NEW s, NEW S, NEW f, Choice(f, s, S), Len(s) \in Nat
  PROVE  /\ f[0] = <<>>
         /\ \A k \in 1..Len(s) : f[k] = IF s[k] \in S THEN Append(f[k - 1], s[k]) ELSE f[k - 1]
<1>1. \A k \in 0..Len(s) :
         f[k] = IF k = 0 THEN <<>> ELSE IF s[k] \in S THEN Append(f[k - 1], s[k]) ELSE f[k - 1]
  BY DEF Choice, Chosen
<1> QED
  BY <1>1

\* Two sequences have the same elements in S as far as they agree.
LEMMA ChoiceAgrees ==
  ASSUME NEW s, NEW t, NEW S, NEW f, NEW g, Choice(f, s, S), Choice(g, t, S),
         Len(s) \in Nat, Len(t) \in Nat, NEW m \in Nat, m <= Len(s), m <= Len(t),
         \A k \in 1..m : s[k] = t[k]
  PROVE  f[m] = g[m]
<1> DEFINE T == {n \in 0..m : f[n] # g[n]}
<1>1. SUFFICES ASSUME m \in T PROVE FALSE
  OBVIOUS
<1>2. PICK n \in T : \A k \in T : n <= k
  <2>1. T \in SUBSET Nat
    OBVIOUS
  <2> HIDE DEF T
  <2> QED BY <1>1, <2>1, LeastOf
<1>3. n \in 0..m /\ f[n] # g[n]
  OBVIOUS
<1>4. n # 0
  BY <1>3, ChoiceStep
<1>5. n - 1 \in 0..m /\ n - 1 \notin T
  BY <1>2, <1>3, <1>4
<1>6. f[n - 1] = g[n - 1]
  BY <1>5
<1>7. n \in 1..Len(s) /\ n \in 1..Len(t) /\ s[n] = t[n]
  BY <1>3, <1>4
<1> QED
  BY <1>3, <1>6, <1>7, ChoiceStep

LEMMA OnlyIs ==
  ASSUME NEW s, NEW S, NEW f, Choice(f, s, S), Len(s) \in Nat
  PROVE  Only(s, S) = f[Len(s)]
<1> DEFINE g == CHOOSE h : Choice(h, s, S)
<1>1. Choice(g, s, S)
  BY DEF Choice
<1>2. Only(s, S) = g[Len(s)]
  BY DEF Only, Choice, Chosen
<1> HIDE DEF g
<1> QED
  BY <1>1, <1>2, ChoiceAgrees

LEMMA OnlyEmpty ==
  ASSUME NEW S
  PROVE  Only(<<>>, S) = <<>>
<1>1. Len(<<>>) = 0
  OBVIOUS
<1>2. PICK f : Choice(f, <<>>, S)
  BY <1>1, ChoiceExists
<1> QED
  BY <1>1, <1>2, OnlyIs, ChoiceStep

LEMMA OnlyAppend ==
  ASSUME NEW E, NEW s \in Seq(E), NEW e \in E, NEW S
  PROVE  Only(Append(s, e), S) = IF e \in S THEN Append(Only(s, S), e) ELSE Only(s, S)
<1> DEFINE t == Append(s, e)
           n == Len(s)
<1>1. /\ t \in Seq(E) /\ n \in Nat /\ Len(t) = n + 1 /\ t[n + 1] = e
      /\ \A k \in 1..n : s[k] = t[k]
  OBVIOUS
<1> HIDE DEF t, n
<1>4. Len(s) = n /\ Len(t) \in Nat
  BY <1>1 DEF n
<1>2. PICK f : Choice(f, s, S)
  BY <1>1, <1>4, ChoiceExists
<1>3. PICK g : Choice(g, t, S)
  BY <1>4, ChoiceExists
<1>5. f[n] = g[n]
  BY <1>1, <1>2, <1>3, <1>4, ChoiceAgrees
<1>6. g[n + 1] = IF e \in S THEN Append(g[n], e) ELSE g[n]
  <2>1. n + 1 \in 1..Len(t) /\ n + 1 - 1 = n
    BY <1>1
  <2> QED
    BY <1>1, <1>3, <2>1, ChoiceStep
<1>7. Only(s, S) = f[n] /\ Only(t, S) = g[n + 1]
  BY <1>1, <1>2, <1>3, <1>4, OnlyIs
<1> QED
  BY <1>5, <1>6, <1>7 DEF t

LEMMA OnlyType ==
  ASSUME NEW E, NEW s \in Seq(E), NEW S
  PROVE  Only(s, S) \in Seq(E \cap S)
<1>0. Len(s) \in Nat
  OBVIOUS
<1>1. PICK f : Choice(f, s, S)
  BY <1>0, ChoiceExists
<1> DEFINE T == {n \in 0..Len(s) : f[n] \notin Seq(E \cap S)}
<1>2. SUFFICES ASSUME Len(s) \in T PROVE FALSE
  BY <1>0, <1>1, OnlyIs
<1>3. PICK n \in T : \A k \in T : n <= k
  <2>1. T \in SUBSET Nat
    OBVIOUS
  <2> HIDE DEF T
  <2> QED BY <1>2, <2>1, LeastOf
<1>4. n \in 0..Len(s) /\ f[n] \notin Seq(E \cap S)
  OBVIOUS
<1>5. n # 0
  <2>1. f[0] = <<>> /\ <<>> \in Seq(E \cap S)
    BY <1>0, <1>1, ChoiceStep
  <2> QED
    BY <1>4, <2>1
<1>6. f[n - 1] \in Seq(E \cap S)
  BY <1>3, <1>4, <1>5
<1>7. n \in 1..Len(s) /\ s[n] \in E
  BY <1>4, <1>5
<1>8. f[n] = IF s[n] \in S THEN Append(f[n - 1], s[n]) ELSE f[n - 1]
  BY <1>0, <1>1, <1>7, ChoiceStep
<1> QED
  BY <1>4, <1>6, <1>7, <1>8

LEMMA OnlyAll ==
  ASSUME NEW S, NEW s \in Seq(S)
  PROVE  Only(s, S) = s
<1>0. Len(s) \in Nat
  OBVIOUS
<1>1. PICK f : Choice(f, s, S)
  BY <1>0, ChoiceExists
<1> DEFINE T == {n \in 0..Len(s) : f[n] # SubSeq(s, 1, n)}
<1>2. s = SubSeq(s, 1, Len(s))
  OBVIOUS
<1>3. SUFFICES ASSUME Len(s) \in T PROVE FALSE
  BY <1>0, <1>1, <1>2, OnlyIs
<1>4. PICK n \in T : \A k \in T : n <= k
  <2>1. T \in SUBSET Nat
    OBVIOUS
  <2> HIDE DEF T
  <2> QED BY <1>3, <2>1, LeastOf
<1>5. n \in 0..Len(s) /\ f[n] # SubSeq(s, 1, n)
  OBVIOUS
<1>6. n # 0
  <2>1. SubSeq(s, 1, 0) = <<>>
    OBVIOUS
  <2> QED
    BY <1>0, <1>1, <1>5, <2>1, ChoiceStep
<1>7. f[n - 1] = SubSeq(s, 1, n - 1)
  BY <1>4, <1>5, <1>6
<1>8. n \in 1..Len(s) /\ s[n] \in S
  BY <1>5, <1>6
<1>9. f[n] = Append(f[n - 1], s[n])
  BY <1>0, <1>1, <1>8, ChoiceStep
<1>10. Append(SubSeq(s, 1, n - 1), s[n]) = SubSeq(s, 1, n)
  BY <1>8
<1> QED
  BY <1>5, <1>7, <1>9, <1>10

LEMMA OnlyFirst ==
  ASSUME NEW E, NEW s \in Seq(E), s # <<>>, NEW S, s[1] \in S
  PROVE  Only(s, S) # <<>> /\ Only(s, S)[1] = s[1]
<1>0. Len(s) \in Nat \ {0}
  OBVIOUS
<1>1. PICK f : Choice(f, s, S)
  BY <1>0, ChoiceExists
<1> DEFINE Begins(t) == t \in Seq(E) /\ Len(t) >= 1 /\ t[1] = s[1]
           T == {n \in 1..Len(s) : ~Begins(f[n])}
<1>2. \A t : Begins(t) => t # <<>> /\ t[1] = s[1]
  OBVIOUS
<1>3. SUFFICES ASSUME Len(s) \in T PROVE FALSE
  <2> HIDE DEF Begins
  <2>1. SUFFICES Begins(f[Len(s)])
    BY <1>0, <1>1, <1>2, OnlyIs
  <2> QED
    BY <1>0
<1>4. PICK n \in T : \A k \in T : n <= k
  <2>1. T \in SUBSET Nat
    OBVIOUS
  <2> HIDE DEF T
  <2> QED BY <1>3, <2>1, LeastOf
<1>5. n \in 1..Len(s) /\ ~Begins(f[n])
  OBVIOUS
<1>6. f[n] = IF s[n] \in S THEN Append(f[n - 1], s[n]) ELSE f[n - 1]
  BY <1>0, <1>1, <1>5, ChoiceStep
<1>7. s[n] \in E
  BY <1>5
<1>8. CASE n = 1
  <2>1. f[0] = <<>>
    BY <1>0, <1>1, ChoiceStep
  <2>2. f[1] = <<s[1]>>
    BY <1>6, <1>8, <2>1
  <2> QED
    BY <1>5, <1>7, <1>8, <2>2
<1>9. CASE n # 1
  <2>1. n - 1 \in 1..Len(s) /\ n - 1 \notin T
    BY <1>0, <1>4, <1>5, <1>9
  <2>2. Begins(f[n - 1])
    BY <2>1
  <2>3. Begins(Append(f[n - 1], s[n]))
    BY <1>7, <2>2
  <2> HIDE DEF Begins
  <2> QED
    BY <1>5, <1>6, <2>2, <2>3
<1> QED
  BY <1>8, <1>9

-----------------------------------------------------------------------------
(* Types.                                                                  *)

Pointed == [name : Names, kind : Kinds, clu : Nat, director : Nat, num_fatdir : Nat]
Calls == [dir : DOMAIN Disk, offset : Nat, page : Nat, mark : Nat]
Links(P) == [path : P, file : Nat \X Nat, open : {"no", "yes", "folder"}, through : 0..Len(Volumes)]
Commands == [do : {"none", "find", "list", "name", "remember", "root"}, name : Names \cup {NoName},
             page : Nat, volume : 0..Len(Volumes)]

TypedCalls ==
  /\ pnum \in 1..Len(Volumes) + 2 /\ reading \in Seq(Calls)
  /\ reading # <<>> => pnum <= Len(Volumes)
  /\ \A i \in DOMAIN reading : /\ reading[i].page \in 1..Len(pages)
                               /\ reading[i].offset <= Len(Disk[reading[i].dir])
TypedName == \E T : tmp_name \in Seq(T)
TypedPages ==
  /\ pages \in Seq(Seq(Pointed)) /\ Len(pages) >= Len(Volumes)
  /\ \A p \in DOMAIN pages : \A k \in DOMAIN pages[p] : pages[p][k].director <= Len(pages)
TypedLinks ==
  /\ \E P : symbolic \in Seq(Links(P))
  /\ \A i \in DOMAIN symbolic : /\ symbolic[i].file[1] \in DOMAIN pages
                                /\ symbolic[i].file[2] \in DOMAIN pages[symbolic[i].file[1]]
TypedPlace ==
  /\ sd_p \in [1..Len(Volumes) -> Names \cup {NoName}]
  /\ cd_rem \in 0..Len(Volumes) /\ current_page \in 0..Len(pages)
  /\ kdirectory \in Seq(Names)
  /\ shell \in Commands /\ shell.page <= Len(pages)
  /\ shell.do \in {"find", "list", "name"} => shell.name \in Names
  /\ shell.do = "find" => cd_rem # Outside
Typed == TypedCalls /\ TypedName /\ TypedPages /\ TypedLinks /\ TypedPlace

LEMMA DiskIs ==
  /\ Len(Volumes) \in Nat /\ DOMAIN Volumes = 1..Len(Volumes)
  /\ \A v \in DOMAIN Volumes : Volumes[v] = NoFolder \/ Volumes[v] \in DOMAIN Disk
  /\ NoFolder \notin DOMAIN Disk
  /\ \A d \in DOMAIN Disk :
       /\ Len(Disk[d]) \in Nat /\ DOMAIN Disk[d] = 1..Len(Disk[d]) /\ Disk[d] \in Seq(Entries)
       /\ \A k \in DOMAIN Disk[d] :
            /\ Disk[d][k] \in [name : Names, kind : Kinds, clu : Nat]
            /\ Disk[d][k].kind = "folder" => Disk[d][k].clu \in DOMAIN Disk
<1>1. ASSUME NEW d \in DOMAIN Disk, NEW k \in DOMAIN Disk[d]
      PROVE  Disk[d][k] \in [name : Names, kind : Kinds, clu : Nat]
  <2>1. Disk[d] \in Seq(Entries)
    BY DiskAssumption
  <2>2. Disk[d][k] \in Entries
    BY <2>1
  <2>3. Disk[d][k].name \in Names
    BY DEF Names
  <2> QED
    BY <2>2, <2>3 DEF Entries
<1>2. \A d \in DOMAIN Disk : Disk[d] \in Seq(Entries) /\ Len(Disk[d]) \in Nat /\ DOMAIN Disk[d] = 1..Len(Disk[d])
  <2> TAKE d \in DOMAIN Disk
  <2>1. Disk[d] \in Seq(Entries)
    BY DiskAssumption
  <2> QED
    BY <2>1
<1>3. Len(Volumes) \in Nat /\ DOMAIN Volumes = 1..Len(Volumes)
      /\ \A v \in DOMAIN Volumes : Volumes[v] \in DOMAIN Disk \cup {NoFolder}
  <2>1. Volumes \in Seq(DOMAIN Disk \cup {NoFolder})
    BY DiskAssumption
  <2> QED
    BY <2>1
<1> QED
  BY <1>1, <1>2, <1>3, DiskAssumption

LEMMA TypedInit == Init => Typed
<1> SUFFICES ASSUME Init PROVE Typed
  OBVIOUS
<1>1. TypedCalls
  BY DiskIs DEF Init, TypedCalls
<1>2. TypedPages
  <2>1. pages = [v \in 1..Len(Volumes) |-> <<>>]
    BY DiskIs DEF Init
  <2>2. pages \in Seq(Seq(Pointed)) /\ Len(pages) = Len(Volumes)
    BY <2>1, DiskIs
  <2> QED
    BY <2>1, <2>2, DiskIs DEF TypedPages
<1>3. TypedLinks
  <2>1. symbolic \in Seq(Links({}))
    BY DEF Init
  <2> QED
    BY <2>1 DEF Init, TypedLinks
<1>4. TypedPlace
  <2>1. Len(pages) \in Nat
    BY <1>2 DEF TypedPages
  <2> QED
    BY <2>1, DiskIs DEF Init, TypedPlace, Idle, Commands, Outside
<1>5. TypedName
  <2>1. tmp_name \in Seq({NoName})
    BY DEF Init
  <2> QED
    BY <2>1 DEF TypedName
<1> QED
  BY <1>1, <1>2, <1>3, <1>4, <1>5 DEF Typed

-----------------------------------------------------------------------------
(* Steps of _search_file.                                                  *)

LEMMA OnByNothing ==
  ASSUME NEW C, NEW r \in Seq(C), r # <<>>, NEW c \in C
  PROVE  /\ <<>> \o <<c>> \o Tail(r) = [r EXCEPT ![1] = c]
         /\ <<>> \o <<c>> \o Tail(r) \in Seq(C)
<1> DEFINE t == <<>> \o <<c>> \o Tail(r)
           u == [r EXCEPT ![1] = c]
<1>1. Tail(r) \in Seq(C) /\ Len(Tail(r)) = Len(r) - 1 /\ Len(r) \in Nat \ {0}
      /\ \A i \in 1..Len(r) - 1 : Tail(r)[i] = r[i + 1]
  OBVIOUS
<1>2. <<>> \o <<c>> = <<c>>
  OBVIOUS
<1>3. t \in Seq(C) /\ Len(t) = Len(r) /\ t[1] = c
  BY <1>1, <1>2
<1>4. \A i \in 2..Len(r) : t[i] = Tail(r)[i - 1]
  BY <1>1, <1>2
<1>5. u \in Seq(C) /\ Len(u) = Len(r)
  BY <1>1
<1>6. \A i \in 1..Len(r) : t[i] = u[i]
  <2> TAKE i \in 1..Len(r)
  <2>1. CASE i = 1
    BY <1>1, <1>3, <2>1
  <2>2. CASE i # 1
    <3>1. t[i] = Tail(r)[i - 1] /\ i - 1 \in 1..Len(r) - 1
      BY <1>1, <1>4, <2>2
    <3> QED
      BY <1>1, <2>2, <3>1
  <2> QED
    BY <2>1, <2>2
<1> HIDE DEF t, u
<1>7. t = u
  BY <1>3, <1>5, <1>6
<1> QED
  BY <1>3, <1>7 DEF t, u

LEMMA OnByCall ==
  ASSUME NEW C, NEW r \in Seq(C), r # <<>>, NEW c \in C, NEW d \in C
  PROVE  LET t == <<d>> \o <<c>> \o Tail(r) IN
           /\ t \in Seq(C) /\ Len(t) = Len(r) + 1 /\ t[1] = d /\ t[2] = c
           /\ \A i \in 3..Len(r) + 1 : t[i] = r[i - 1]
<1> DEFINE t == <<d>> \o <<c>> \o Tail(r)
<1>1. Tail(r) \in Seq(C) /\ Len(Tail(r)) = Len(r) - 1 /\ Len(r) \in Nat \ {0}
      /\ \A i \in 1..Len(r) - 1 : Tail(r)[i] = r[i + 1]
  OBVIOUS
<1>2. <<d>> \o <<c>> \in Seq(C) /\ Len(<<d>> \o <<c>>) = 2
      /\ (<<d>> \o <<c>>)[1] = d /\ (<<d>> \o <<c>>)[2] = c
  OBVIOUS
<1>3. t \in Seq(C) /\ Len(t) = Len(r) + 1 /\ t[1] = d /\ t[2] = c
  BY <1>1, <1>2
<1>4. \A i \in 3..Len(r) + 1 : t[i] = Tail(r)[i - 2]
  BY <1>1, <1>2
<1>5. \A i \in 3..Len(r) + 1 : t[i] = r[i - 1]
  <2> TAKE i \in 3..Len(r) + 1
  <2>1. t[i] = Tail(r)[i - 2] /\ i - 2 \in 1..Len(r) - 1 /\ (i - 2) + 1 = i - 1
    BY <1>1, <1>4
  <2> HIDE DEF t
  <2> QED
    BY <1>1, <2>1
<1> QED
  BY <1>3, <1>5

LEMMA Reading ==
  ASSUME Typed, More
  PROVE  /\ Top = reading[1] /\ Top \in Calls /\ Top.dir \in DOMAIN Disk
         /\ Top.offset \in Nat /\ Top.offset + 1 \in 1..Len(Disk[Top.dir])
         /\ Record \in [name : Names, kind : Kinds, clu : Nat]
         /\ Record.kind = "folder" => Record.clu \in DOMAIN Disk
         /\ [Top EXCEPT !.offset = @ + 1] \in Calls
         /\ Top.page \in DOMAIN pages /\ pages[Top.page] \in Seq(Pointed)
<1>1. reading \in Seq(Calls) /\ reading # <<>>
  BY DEF Typed, TypedCalls, More
<1>2. Top = reading[1] /\ Top \in Calls /\ 1 \in DOMAIN reading
  BY <1>1 DEF Top
<1>3. Top.dir \in DOMAIN Disk /\ Top.offset \in Nat /\ Top.page \in 1..Len(pages)
      /\ [Top EXCEPT !.offset = @ + 1] \in Calls
  <2>1. \A c \in Calls : c.dir \in DOMAIN Disk /\ c.offset \in Nat
                          /\ [c EXCEPT !.offset = @ + 1] \in Calls
    BY DEF Calls
  <2>2. reading[1].page \in 1..Len(pages)
    BY <1>2 DEF Typed, TypedCalls
  <2> HIDE DEF Calls
  <2> QED
    BY <1>2, <2>1, <2>2
<1>4. Top.offset + 1 \in 1..Len(Disk[Top.dir])
  BY <1>3, DiskIs DEF More
<1>5. pages \in Seq(Seq(Pointed))
  BY DEF Typed, TypedPages
<1>6. pages[Top.page] \in Seq(Pointed) /\ Top.page \in DOMAIN pages
  BY <1>3, <1>5
<1> QED
  BY <1>2, <1>3, <1>4, <1>6, DiskIs DEF Record

\* Keep: one record is put behind those of a page.
LEMMA Keeping ==
  ASSUME Typed, More, NEW d \in Nat, NEW q, q = [pages EXCEPT ![Top.page] = Keep(d)]
  PROVE  /\ q \in Seq(Seq(Pointed)) /\ Len(q) = Len(pages) /\ DOMAIN q = DOMAIN pages
         /\ \A p \in DOMAIN pages : p # Top.page => q[p] = pages[p]
         /\ DOMAIN q[Top.page] = 1..Len(pages[Top.page]) + 1
         /\ DOMAIN pages[Top.page] = 1..Len(pages[Top.page]) /\ Len(pages[Top.page]) \in Nat
         /\ \A k \in 1..Len(pages[Top.page]) : q[Top.page][k] = pages[Top.page][k]
         /\ q[Top.page][Len(pages[Top.page]) + 1] =
              [name |-> Record.name, kind |-> Record.kind, clu |-> Record.clu,
               director |-> d, num_fatdir |-> Top.offset]
<1> DEFINE e == [name |-> Record.name, kind |-> Record.kind, clu |-> Record.clu,
                 director |-> d, num_fatdir |-> Top.offset]
           s == pages[Top.page]
<1>1. e \in Pointed
  <2> DEFINE R == Record
             o == Top.offset
  <2>1. R.name \in Names /\ R.kind \in Kinds /\ R.clu \in Nat /\ o \in Nat
    BY Reading
  <2> HIDE DEF R, o
  <2>2. [name |-> R.name, kind |-> R.kind, clu |-> R.clu, director |-> d, num_fatdir |-> o] \in Pointed
    BY <2>1 DEF Pointed
  <2> QED
    BY <2>2 DEF R, o
<1>2. s \in Seq(Pointed) /\ Top.page \in DOMAIN pages
  BY Reading
<1>3. pages \in Seq(Seq(Pointed))
  BY DEF Typed, TypedPages
<1>4. Keep(d) = Append(s, e)
  BY DEF Keep
<1> HIDE DEF e, s
<1>5. /\ Append(s, e) \in Seq(Pointed) /\ DOMAIN Append(s, e) = 1..Len(s) + 1
      /\ \A k \in 1..Len(s) : Append(s, e)[k] = s[k]
      /\ Append(s, e)[Len(s) + 1] = e /\ DOMAIN s = 1..Len(s) /\ Len(s) \in Nat
  BY <1>1, <1>2
<1> DEFINE t == Append(s, e)
<1> HIDE DEF t
<1>6. /\ [pages EXCEPT ![Top.page] = t] \in Seq(Seq(Pointed))
      /\ Len([pages EXCEPT ![Top.page] = t]) = Len(pages)
  BY <1>2, <1>3, <1>5 DEF t
<1>7. q[Top.page] = t /\ DOMAIN q = DOMAIN pages /\ \A p \in DOMAIN pages : p # Top.page => q[p] = pages[p]
  BY <1>2, <1>4 DEF t
<1> QED
  BY <1>4, <1>5, <1>6, <1>7 DEF t, e, s

\* Pages and their records are only added.
Extends == /\ DOMAIN pages \subseteq DOMAIN pages'
           /\ \A p \in DOMAIN pages : DOMAIN pages[p] \subseteq DOMAIN pages'[p]

LEMMA NameGrows ==
  ASSUME TypedName, NEW n
  PROVE  Append(tmp_name, n) \in Seq(UNION {{tmp_name[i] : i \in DOMAIN tmp_name}, {n}})
<1>1. PICK T : tmp_name \in Seq(T)
  BY DEF TypedName
<1>2. tmp_name \in Seq({tmp_name[i] : i \in DOMAIN tmp_name})
  BY <1>1
<1> DEFINE U == UNION {{tmp_name[i] : i \in DOMAIN tmp_name}, {n}}
<1>3. {tmp_name[i] : i \in DOMAIN tmp_name} \subseteq U /\ n \in U
  OBVIOUS
<1> HIDE DEF U
<1>4. tmp_name \in Seq(U)
  BY <1>2, <1>3
<1>5. Append(tmp_name, n) \in Seq(U)
  BY <1>3, <1>4
<1> QED
  BY <1>5 DEF U

LEMMA LinksStay ==
  ASSUME TypedLinks, Extends, symbolic' = symbolic
  PROVE  TypedLinks'
BY DEF TypedLinks, Extends

LEMMA LinksGrow ==
  ASSUME TypedLinks, Extends, NEW path, NEW p \in Nat, NEW k \in Nat, NEW open \in {"no", "folder"},
         symbolic' = Append(symbolic, [path |-> path, file |-> <<p, k>>, open |-> open, through |-> Outside]),
         p \in DOMAIN pages', k \in DOMAIN pages'[p]
  PROVE  TypedLinks'
<1>1. PICK P : symbolic \in Seq(Links(P))
  BY DEF TypedLinks
<1> DEFINE Q == P \cup {path}
           e == [path |-> path, file |-> <<p, k>>, open |-> open, through |-> Outside]
<1>2. symbolic \in Seq(Links(Q))
  <2>1. Links(P) \subseteq Links(Q)
    BY DEF Links
  <2> HIDE DEF Q
  <2> QED
    BY <1>1, <2>1
<1>3. e \in Links(Q) /\ e.file[1] = p /\ e.file[2] = k
  BY DiskIs DEF Links, Outside
<1> HIDE DEF Q, e
<1>4. symbolic' = Append(symbolic, e)
  BY DEF e
<1>5. /\ symbolic' \in Seq(Links(Q)) /\ DOMAIN symbolic' = 1..Len(symbolic) + 1
      /\ symbolic'[Len(symbolic) + 1] = e /\ Len(symbolic) \in Nat
      /\ \A i \in 1..Len(symbolic) : i \in DOMAIN symbolic /\ symbolic'[i] = symbolic[i]
  BY <1>2, <1>3, <1>4
<1>6. ASSUME NEW i \in DOMAIN symbolic'
      PROVE  /\ symbolic'[i].file[1] \in DOMAIN pages'
             /\ symbolic'[i].file[2] \in DOMAIN pages'[symbolic'[i].file[1]]
  <2>1. CASE i = Len(symbolic) + 1
    BY <1>3, <1>5, <2>1
  <2>2. CASE i \in 1..Len(symbolic)
    <3>1. symbolic'[i] = symbolic[i] /\ i \in DOMAIN symbolic
      BY <1>5, <2>2
    <3> QED
      BY <3>1 DEF TypedLinks, Extends
  <2> QED
    BY <1>5, <2>1, <2>2
<1> QED
  BY <1>5, <1>6 DEF TypedLinks

LEMMA PlaceStays ==
  ASSUME TypedPlace, TypedPages, TypedPages', Len(pages') >= Len(pages), UNCHANGED <<kdirectory, cd_rem, current_page, shell>>,
         sd_p' \in [1..Len(Volumes) -> Names \cup {NoName}]
  PROVE  TypedPlace'
<1>1. Len(pages) \in Nat /\ Len(pages') \in Nat
  BY DEF TypedPages
<1>2. shell.page \in Nat
  BY DEF TypedPlace, Commands
<1>3. shell.page <= Len(pages') /\ current_page \in 0..Len(pages')
  BY <1>1, <1>2 DEF TypedPlace
<1> QED
  BY <1>3 DEF TypedPlace

\* The call at the top goes on by a record.
LEMMA CallsGoOn ==
  ASSUME Typed, More, OnBy(<<>>), pnum' = pnum, Len(pages') = Len(pages)
  PROVE  TypedCalls'
<1> DEFINE c == [Top EXCEPT !.offset = @ + 1]
<1>1. reading \in Seq(Calls) /\ reading # <<>>
  BY DEF Typed, TypedCalls, More
<1>2. c \in Calls /\ c.page = Top.page /\ c.dir = Top.dir /\ c.offset = Top.offset + 1
  BY Reading DEF Calls
<1>3. /\ Top = reading[1] /\ Top.page \in DOMAIN pages /\ Top.dir \in DOMAIN Disk
      /\ Top.offset + 1 \in 1..Len(Disk[Top.dir])
  BY Reading
<1>4. reading' = <<>> \o <<c>> \o Tail(reading)
  BY DEF OnBy
<1> HIDE DEF c
<1>5. reading' = [reading EXCEPT ![1] = c] /\ reading' \in Seq(Calls)
  BY <1>1, <1>2, <1>4, OnByNothing
<1>6. DOMAIN pages = 1..Len(pages)
  BY DEF Typed, TypedPages
<1>7. ASSUME NEW i \in DOMAIN reading'
      PROVE reading'[i].page \in 1..Len(pages') /\ reading'[i].offset <= Len(Disk[reading'[i].dir])
  <2>1. i \in DOMAIN reading /\ reading'[i] = IF i = 1 THEN c ELSE reading[i]
    BY <1>1, <1>5
  <2> QED
    BY <1>2, <1>3, <1>6, <2>1 DEF Typed, TypedCalls
<1>8. pnum \in 1..Len(Volumes) + 2 /\ pnum <= Len(Volumes)
  BY <1>1 DEF Typed, TypedCalls
<1> QED
  BY <1>5, <1>7, <1>8 DEF TypedCalls

\* A record is kept in the page of the call at the top, without a new page.
LEMMA PageGrows ==
  ASSUME Typed, More, NEW d \in Nat, d <= Len(pages), pages' = [pages EXCEPT ![Top.page] = Keep(d)]
  PROVE  /\ TypedPages' /\ Extends /\ Len(pages') = Len(pages)
         /\ Len(pages[Top.page]) + 1 \in DOMAIN pages'[Top.page]
         /\ Top.page \in DOMAIN pages' /\ Top.page \in Nat /\ Len(pages[Top.page]) + 1 \in Nat
<1>1. /\ pages' \in Seq(Seq(Pointed)) /\ Len(pages') = Len(pages) /\ DOMAIN pages' = DOMAIN pages
      /\ \A p \in DOMAIN pages : p # Top.page => pages'[p] = pages[p]
      /\ DOMAIN pages'[Top.page] = 1..Len(pages[Top.page]) + 1
      /\ DOMAIN pages[Top.page] = 1..Len(pages[Top.page]) /\ Len(pages[Top.page]) \in Nat
      /\ \A k \in 1..Len(pages[Top.page]) : pages'[Top.page][k] = pages[Top.page][k]
      /\ pages'[Top.page][Len(pages[Top.page]) + 1].director = d
  <2> DEFINE e == [name |-> Record.name, kind |-> Record.kind, clu |-> Record.clu,
                   director |-> d, num_fatdir |-> Top.offset]
  <2>1. e.director = d
    OBVIOUS
  <2> HIDE DEF e
  <2> QED
    BY <2>1, Keeping, ZenonT(60) DEF e
<1>2. Top.page \in DOMAIN pages /\ Len(pages) \in Nat /\ DOMAIN pages = 1..Len(pages)
  BY Reading DEF Typed, TypedPages
<1>3. Extends
  BY <1>1, <1>2 DEF Extends
<1>4. ASSUME NEW p \in DOMAIN pages', NEW k \in DOMAIN pages'[p]
      PROVE pages'[p][k].director <= Len(pages')
  <2>1. CASE p = Top.page /\ k = Len(pages[Top.page]) + 1
    BY <1>1, <1>2, <2>1
  <2>2. CASE ~(p = Top.page /\ k = Len(pages[Top.page]) + 1)
    <3>1. p \in DOMAIN pages /\ k \in DOMAIN pages[p] /\ pages'[p][k] = pages[p][k]
      <4>1. CASE p = Top.page
        <5>1. k \in 1..Len(pages[Top.page]) + 1 /\ k # Len(pages[Top.page]) + 1
          BY <1>1, <2>2, <4>1
        <5> QED
          BY <1>1, <1>2, <4>1, <5>1
      <4>2. CASE p # Top.page
        BY <1>1, <4>2
      <4> QED
        BY <4>1, <4>2
    <3> QED
      BY <1>1, <3>1 DEF Typed, TypedPages
  <2> QED
    BY <2>1, <2>2
<1>5. TypedPages'
  BY <1>1, <1>4 DEF Typed, TypedPages
<1> QED
  BY <1>1, <1>2, <1>3, <1>5

LEMMA TypedStart == ASSUME Typed, StartVolume PROVE Typed'
<1>1. TypedCalls'
  <2>1. pnum \in 1..Len(Volumes) /\ Len(Volumes) \in Nat
    BY DiskIs DEF StartVolume
  <2>2. CASE Volumes[pnum] = NoFolder
    <3>1. pnum' = pnum + 1 /\ reading' = <<>>
      BY <2>2 DEF StartVolume
    <3>2. pnum' \in 1..Len(Volumes) + 2 /\ reading' \in Seq(Calls) /\ DOMAIN reading' = {}
      BY <2>1, <3>1
    <3> QED
      BY <3>1, <3>2 DEF TypedCalls
  <2>3. CASE Volumes[pnum] # NoFolder
    <3> DEFINE c == [dir |-> Volumes[pnum], offset |-> 0, page |-> pnum, mark |-> 0]
    <3>1. pnum' = pnum /\ reading' = <<c>> /\ pages' = pages
      BY <2>3 DEF StartVolume, tree
    <3>2. Volumes[pnum] \in DOMAIN Disk /\ Len(Disk[Volumes[pnum]]) \in Nat
      BY <2>1, <2>3, DiskIs
    <3>3. c \in Calls /\ c.page = pnum /\ c.offset = 0 /\ c.dir = Volumes[pnum]
      BY <2>1, <3>2 DEF Calls
    <3> HIDE DEF c
    <3>4. reading' \in Seq(Calls) /\ DOMAIN reading' = {1} /\ reading'[1] = c
      BY <3>1, <3>3
    <3>5. pnum \in 1..Len(pages)
      BY <2>1 DEF Typed, TypedPages
    <3> QED
      BY <2>1, <3>1, <3>2, <3>3, <3>4, <3>5 DEF TypedCalls
  <2> QED
    BY <2>2, <2>3
<1>2. TypedPages' /\ TypedLinks' /\ TypedPlace'
  BY DEF StartVolume, place, Typed, TypedPages, TypedLinks, TypedPlace, Commands
<1> QED
  BY <1>1, <1>2 DEF Typed, TypedName, StartVolume

LEMMA TypedSkip == ASSUME Typed, SkipRecord PROVE Typed'
<1>1. TypedCalls'
  BY CallsGoOn DEF SkipRecord
<1>2. TypedPages' /\ TypedLinks' /\ TypedPlace'
  BY DEF SkipRecord, place, Typed, TypedPages, TypedLinks, TypedPlace, Commands
<1> QED
  BY <1>1, <1>2 DEF Typed, TypedName, SkipRecord

LEMMA TypedLabelOrFile == ASSUME Typed, ReadLabel \/ ReadFile PROVE Typed'
<1>1. /\ More /\ OnBy(<<>>) /\ pages' = [pages EXCEPT ![Top.page] = Keep(0)]
      /\ UNCHANGED <<pnum, sd_p, place>>
  BY DEF ReadLabel, ReadFile
<1>2. 0 \in Nat /\ 0 <= Len(pages) /\ Len(pages) \in Nat
  BY DEF Typed, TypedPages
<1>3. /\ TypedPages' /\ Extends /\ Len(pages') = Len(pages)
      /\ Len(pages[Top.page]) + 1 \in DOMAIN pages'[Top.page]
      /\ Top.page \in DOMAIN pages' /\ Top.page \in Nat /\ Len(pages[Top.page]) + 1 \in Nat
  BY <1>1, <1>2, PageGrows, Zenon
<1>4. TypedCalls'
  BY <1>1, <1>3, CallsGoOn
<1>5. TypedLinks'
  <2>1. CASE symbolic' = symbolic
    BY <1>3, <2>1, LinksStay DEF Typed
  <2>2. CASE symbolic' # symbolic
    <3>1. PICK path : Link(path, "no") \/ Link(path, "folder")
      BY <2>2 DEF ReadLabel, ReadFile
    <3> QED
      BY <1>3, <3>1, LinksGrow DEF Typed, Link
  <2> QED
    BY <2>1, <2>2
<1>6. TypedPlace'
  BY <1>1, <1>2, <1>3, PlaceStays DEF Typed, TypedPlace, place
<1>7. TypedName'
  <2>1. <<Record.name>> \in Seq({Record.name})
    OBVIOUS
  <2>2. tmp_name' = tmp_name \/ tmp_name' = <<Record.name>>
    BY DEF ReadLabel, ReadFile
  <2> QED
    BY <2>1, <2>2 DEF Typed, TypedName
<1> QED
  BY <1>3, <1>4, <1>5, <1>6, <1>7 DEF Typed

\* A folder: its record, its page and its call.
LEMMA FolderGrows ==
  ASSUME Typed, ReadFolder
  PROVE  LET n == Len(pages)
             m == Len(pages[Top.page])
         IN /\ n \in Nat /\ m \in Nat
            /\ pages' \in Seq(Seq(Pointed)) /\ Len(pages') = n + 1 /\ DOMAIN pages' = 1..n + 1
            /\ DOMAIN pages = 1..n /\ Top.page \in 1..n /\ pages'[n + 1] = <<>>
            /\ \A p \in 1..n : p # Top.page => pages'[p] = pages[p]
            /\ DOMAIN pages'[Top.page] = 1..m + 1 /\ DOMAIN pages[Top.page] = 1..m
            /\ \A k \in 1..m : pages'[Top.page][k] = pages[Top.page][k]
            /\ pages'[Top.page][m + 1] = [name |-> Record.name, kind |-> Record.kind, clu |-> Record.clu,
                                          director |-> n + 1, num_fatdir |-> Top.offset]
<1> DEFINE n == Len(pages)
           q == [pages EXCEPT ![Top.page] = Keep(n + 1)]
<1>1. pages \in Seq(Seq(Pointed)) /\ n \in Nat /\ n + 1 \in Nat /\ DOMAIN pages = 1..n
  BY DEF Typed, TypedPages
<1>2. /\ q \in Seq(Seq(Pointed)) /\ Len(q) = n /\ DOMAIN q = DOMAIN pages
      /\ \A p \in DOMAIN pages : p # Top.page => q[p] = pages[p]
      /\ DOMAIN q[Top.page] = 1..Len(pages[Top.page]) + 1
      /\ DOMAIN pages[Top.page] = 1..Len(pages[Top.page]) /\ Len(pages[Top.page]) \in Nat
      /\ \A k \in 1..Len(pages[Top.page]) : q[Top.page][k] = pages[Top.page][k]
      /\ q[Top.page][Len(pages[Top.page]) + 1] =
           [name |-> Record.name, kind |-> Record.kind, clu |-> Record.clu,
            director |-> n + 1, num_fatdir |-> Top.offset]
  <2> HIDE DEF n
  <2>1. More
    BY DEF ReadFolder
  <2> QED
    BY <1>1, <2>1, Keeping DEF n
<1>3. Top.page \in 1..n
  BY <1>1, Reading DEF ReadFolder
<1>4. pages' = Append(q, <<>>)
  BY DEF ReadFolder, NewPage
<1> HIDE DEF n, q
<1>5. <<>> \in Seq(Pointed)
  OBVIOUS
<1>6. /\ pages' \in Seq(Seq(Pointed)) /\ Len(pages') = n + 1 /\ DOMAIN pages' = 1..n + 1
      /\ pages'[n + 1] = <<>> /\ \A p \in 1..n : pages'[p] = q[p]
  BY <1>1, <1>2, <1>4, <1>5
<1> QED
  BY <1>1, <1>2, <1>3, <1>6 DEF n

LEMMA TypedFolder == ASSUME Typed, ReadFolder PROVE Typed'
<1> DEFINE n == Len(pages)
           m == Len(pages[Top.page])
           c == [Top EXCEPT !.offset = @ + 1]
           d == [dir |-> Record.clu, offset |-> 0, page |-> n + 1, mark |-> Len(tmp_name)]
           e == [name |-> Record.name, kind |-> Record.kind, clu |-> Record.clu,
                 director |-> n + 1, num_fatdir |-> Top.offset]
<1>1. /\ n \in Nat /\ m \in Nat
      /\ pages' \in Seq(Seq(Pointed)) /\ Len(pages') = n + 1 /\ DOMAIN pages' = 1..n + 1
      /\ DOMAIN pages = 1..n /\ Top.page \in 1..n /\ pages'[n + 1] = <<>>
      /\ \A p \in 1..n : p # Top.page => pages'[p] = pages[p]
      /\ DOMAIN pages'[Top.page] = 1..m + 1 /\ DOMAIN pages[Top.page] = 1..m
      /\ \A k \in 1..m : pages'[Top.page][k] = pages[Top.page][k]
      /\ pages'[Top.page][m + 1] = e
  BY FolderGrows
<1>2. e.director = n + 1
  OBVIOUS
<1>3. Extends
  <2> HIDE DEF n, m, e
  <2>1. DOMAIN pages \subseteq DOMAIN pages'
    BY <1>1
  <2>2. ASSUME NEW p \in DOMAIN pages PROVE DOMAIN pages[p] \subseteq DOMAIN pages'[p]
    <3>1. CASE p = Top.page
      BY <1>1, <3>1
    <3>2. CASE p # Top.page
      BY <1>1, <3>2
    <3> QED
      BY <3>1, <3>2
  <2> QED
    BY <2>1, <2>2 DEF Extends
<1>4. TypedPages'
  <2> HIDE DEF n, m, e
  <2>1. ASSUME NEW p \in DOMAIN pages', NEW k \in DOMAIN pages'[p]
        PROVE  pages'[p][k].director <= Len(pages')
    <3>1. CASE p = n + 1
      BY <1>1, <3>1
    <3>2. CASE p # n + 1 /\ ~(p = Top.page /\ k = m + 1)
      <4>1. p \in 1..n /\ k \in DOMAIN pages[p] /\ pages'[p][k] = pages[p][k]
        <5>1. p \in 1..n
          BY <1>1, <3>2
        <5>2. CASE p = Top.page
          <6>1. k \in 1..m
            BY SMTT(30), <1>1, <3>2, <5>2
          <6> QED
            BY <1>1, <5>1, <5>2, <6>1
        <5> QED
          BY <1>1, <5>1, <5>2
      <4>2. pages[p][k].director <= n /\ pages[p] \in Seq(Pointed)
        BY <1>1, <4>1, SMTT(30) DEF Typed, TypedPages, n
      <4>3. pages[p][k] \in Pointed
        BY <4>1, <4>2
      <4>4. pages[p][k].director \in Nat
        BY <4>3 DEF Pointed
      <4> QED
        BY SMTT(30), <1>1, <4>1, <4>2, <4>4
    <3>3. CASE p = Top.page /\ k = m + 1
      BY <1>1, <1>2, <3>3
    <3> QED
      BY <3>1, <3>2, <3>3
  <2>2. n >= Len(Volumes)
    BY DEF Typed, TypedPages, n
  <2> QED
    BY <1>1, <2>1, <2>2, DiskIs DEF TypedPages
<1>5. TypedLinks'
  <2>1. PICK path : Link(path, "folder")
    BY DEF ReadFolder
  <2>2. Top.page \in Nat /\ m + 1 \in Nat /\ Top.page \in DOMAIN pages' /\ m + 1 \in DOMAIN pages'[Top.page]
    BY <1>1
  <2> QED
    BY <1>3, <2>1, <2>2, LinksGrow DEF Typed, Link
<1>6. TypedCalls'
  <2>1. reading \in Seq(Calls) /\ reading # <<>>
    BY DEF Typed, TypedCalls, ReadFolder, More
  <2>2. More /\ Record.kind = "folder"
    BY DEF ReadFolder
  <2>3. c \in Calls /\ c.page = Top.page /\ c.dir = Top.dir /\ c.offset = Top.offset + 1
    BY <2>2, Reading DEF Calls
  <2>4. /\ Top = reading[1] /\ Record.clu \in DOMAIN Disk /\ Top.dir \in DOMAIN Disk
        /\ Top.offset + 1 \in 1..Len(Disk[Top.dir])
    BY <2>2, Reading
  <2>5. Len(tmp_name) \in Nat
    <3>1. PICK T : tmp_name \in Seq(T)
      BY DEF Typed, TypedName
    <3> QED
      BY <3>1
  <2>6. d \in Calls /\ d.page = n + 1 /\ d.offset = 0 /\ d.dir \in DOMAIN Disk
    BY <1>1, <2>4, <2>5 DEF Calls
  <2>7. reading' = <<d>> \o <<c>> \o Tail(reading) /\ pnum' = pnum
    BY DEF ReadFolder, OnBy
  <2> HIDE DEF c, d, e, m, n
  <2>8. /\ reading' \in Seq(Calls) /\ Len(reading') = Len(reading) + 1
        /\ reading'[1] = d /\ reading'[2] = c
        /\ \A i \in 3..Len(reading) + 1 : reading'[i] = reading[i - 1]
    BY <2>1, <2>3, <2>6, <2>7, OnByCall
  <2>9. ASSUME NEW i \in DOMAIN reading'
        PROVE reading'[i].page \in 1..Len(pages') /\ reading'[i].offset <= Len(Disk[reading'[i].dir])
    <3>1. Len(reading) \in Nat \ {0} /\ DOMAIN reading = 1..Len(reading)
      BY <2>1
    <3>2. CASE i = 1
      <4>1. n + 1 \in 1..Len(pages') /\ 0 <= Len(Disk[d.dir])
        BY <1>1, <2>6, DiskIs
      <4> QED
        BY <2>6, <2>8, <3>2, <4>1
    <3>3. CASE i = 2
      <4>1. Top.page \in 1..Len(pages') /\ Top.offset + 1 <= Len(Disk[Top.dir])
        BY <1>1, <2>4, DiskIs
      <4> QED
        BY <2>3, <2>8, <3>3, <4>1
    <3>4. CASE i > 2
      <4>1. i - 1 \in DOMAIN reading /\ reading'[i] = reading[i - 1]
        BY <2>8, <3>1, <3>4
      <4>2. reading[i - 1].page \in 1..n /\ reading[i - 1].offset <= Len(Disk[reading[i - 1].dir])
        BY <4>1 DEF Typed, TypedCalls, n
      <4> QED
        BY <1>1, <4>1, <4>2
    <3> QED
      BY <2>8, <3>1, <3>2, <3>3, <3>4
  <2>10. pnum \in 1..Len(Volumes) + 2 /\ pnum <= Len(Volumes)
    BY <2>1 DEF Typed, TypedCalls
  <2> QED
    BY <2>7, <2>8, <2>9, <2>10 DEF TypedCalls
<1>7. TypedPlace'
  <2>1. Len(pages') >= Len(pages)
    BY <1>1
  <2> QED
    BY <1>4, <2>1, PlaceStays DEF Typed, TypedPlace, place, ReadFolder
<1>8. TypedName'
  BY NameGrows DEF Typed, TypedName, ReadFolder
<1> QED
  BY <1>4, <1>5, <1>6, <1>7, <1>8 DEF Typed

LEMMA TypedLeave == ASSUME Typed, LeaveFolder PROVE Typed'
<1>1. reading \in Seq(Calls) /\ Len(reading) > 1 /\ reading # <<>>
  BY DEF Typed, TypedCalls, LeaveFolder
<1>2. /\ Tail(reading) \in Seq(Calls) /\ DOMAIN Tail(reading) = 1..Len(reading) - 1
      /\ \A i \in 1..Len(reading) - 1 : i + 1 \in DOMAIN reading /\ Tail(reading)[i] = reading[i + 1]
  BY <1>1
<1>3. TypedCalls'
  <2>1. reading' = Tail(reading) /\ pnum' = pnum /\ pages' = pages
    BY DEF LeaveFolder
  <2>2. ASSUME NEW i \in DOMAIN reading'
        PROVE reading'[i].page \in 1..Len(pages') /\ reading'[i].offset <= Len(Disk[reading'[i].dir])
    <3>1. i + 1 \in DOMAIN reading /\ reading'[i] = reading[i + 1]
      BY <1>2, <2>1
    <3> QED
      BY <2>1, <3>1 DEF Typed, TypedCalls
  <2> QED
    BY <1>1, <1>2, <2>1, <2>2 DEF Typed, TypedCalls
<1>4. TypedName'
  <2>1. Top \in Calls
    BY <1>1 DEF Top
  <2>2. Top.mark \in Nat
    BY <2>1 DEF Calls
  <2> DEFINE k == Top.mark
  <2>3. tmp_name' = SubSeq(tmp_name, 1, k)
    BY DEF LeaveFolder, BackMark
  <2>4. k \in Nat
    BY <2>2
  <2> HIDE DEF k
  <2>5. SubSeq(tmp_name, 1, k) \in Seq({tmp_name[i] : i \in 1..k})
    BY <2>4
  <2> QED
    BY <2>3, <2>5 DEF TypedName
<1>5. TypedPages' /\ TypedLinks' /\ TypedPlace'
  BY DEF LeaveFolder, place, Typed, TypedPages, TypedLinks, TypedPlace, Commands
<1> QED
  BY <1>3, <1>4, <1>5 DEF Typed

LEMMA TypedEnds == ASSUME Typed, EndVolume \/ EndBuild PROVE Typed'
<1>0. EndVolume => reading # <<>>
  <2>1. EndVolume => Len(reading) = 1
    BY DEF EndVolume
  <2>2. Len(<<>>) = 0
    OBVIOUS
  <2> QED
    BY <2>1, <2>2
<1>1. UNCHANGED <<tmp_name, pages, symbolic, kdirectory, cd_rem, current_page, shell>>
  BY DEF EndVolume, EndBuild
<1>2. TypedName' /\ TypedPages' /\ TypedLinks'
  BY <1>1 DEF Typed, TypedName, TypedPages, TypedLinks
<1>3. TypedCalls'
  <2>1. CASE EndVolume
    <3>1. reading # <<>>
      BY <1>0, <2>1
    <3>2. pnum \in 1..Len(Volumes) /\ Len(Volumes) \in Nat
      BY <3>1, DiskIs DEF Typed, TypedCalls
    <3>3. pnum' = pnum + 1 /\ reading' = <<>>
      BY <2>1 DEF EndVolume
    <3>4. pnum' \in 1..Len(Volumes) + 2 /\ reading' \in Seq(Calls) /\ DOMAIN reading' = {}
      BY <3>2, <3>3
    <3> QED
      BY <3>3, <3>4 DEF TypedCalls
  <2>2. CASE EndBuild
    <3>1. pnum = Len(Volumes) + 1 /\ pnum' = pnum + 1 /\ reading' = reading /\ Len(Volumes) \in Nat
      BY <2>2, DiskIs DEF EndBuild
    <3>2. reading = <<>>
      BY <3>1 DEF Typed, TypedCalls
    <3>3. pnum' \in 1..Len(Volumes) + 2 /\ reading' \in Seq(Calls) /\ DOMAIN reading' = {}
      BY <3>1, <3>2
    <3> QED
      BY <3>1, <3>2, <3>3 DEF TypedCalls
  <2> QED
    BY <2>1, <2>2
<1>4. sd_p' \in [1..Len(Volumes) -> Names \cup {NoName}]
  <2>1. CASE EndVolume
    <3>1. pnum \in DOMAIN pages /\ pages[pnum] \in Seq(Pointed)
      <4>1. pnum \in 1..Len(Volumes) /\ Len(Volumes) <= Len(pages) /\ pages \in Seq(Seq(Pointed))
        BY <1>0, <2>1, DiskIs DEF Typed, TypedCalls, TypedPages
      <4> QED
        BY <4>1, DiskIs
    <3>2. pages[pnum] # <<>> => pages[pnum][1] \in Pointed
      BY <3>1
    <3>3. (IF pages[pnum] = <<>> THEN NoName ELSE pages[pnum][1].name) \in Names \cup {NoName}
      BY <3>2 DEF Pointed
    <3> DEFINE w == IF pages[pnum] = <<>> THEN NoName ELSE pages[pnum][1].name
    <3>4. sd_p' = [sd_p EXCEPT ![pnum] = w] /\ w \in Names \cup {NoName}
      BY <2>1, <3>3 DEF EndVolume
    <3> HIDE DEF w
    <3> QED
      BY <3>4 DEF Typed, TypedPlace
  <2>2. CASE EndBuild
    BY <2>2 DEF EndBuild, Typed, TypedPlace
  <2> QED
    BY <2>1, <2>2
<1>5. TypedPlace'
  <2>1. Len(pages') >= Len(pages)
    BY <1>1 DEF Typed, TypedPages
  <2> QED
    BY <1>1, <1>2, <1>4, <2>1, PlaceStays DEF Typed
<1> QED
  BY <1>2, <1>3, <1>5 DEF Typed

LEMMA TypedShell == ASSUME Typed, Shell PROVE Typed'
<1>1. UNCHANGED <<tree, symbolic>>
  BY DEF Shell, CdVolume, CdFolder, FindFolder, UserDir, NameFolder, RememberVolume, CdRoot, ListRoot
<1>2. TypedCalls' /\ TypedName' /\ TypedPages' /\ TypedLinks'
  BY <1>1 DEF tree, Typed, TypedCalls, TypedName, TypedPages, TypedLinks
<1>3. pages' = pages /\ sd_p' = sd_p
  BY <1>1 DEF tree
<1>4. /\ Len(pages) \in Nat /\ DOMAIN pages = 1..Len(pages) /\ Len(Volumes) <= Len(pages)
      /\ Len(Volumes) \in Nat /\ DOMAIN Volumes = 1..Len(Volumes)
  BY DiskIs DEF Typed, TypedPages
<1>5. TypedPlace
  BY DEF Typed
<1>6. Idle \in Commands /\ Idle.page = 0 /\ Idle.do = "none"
  BY <1>4 DEF Idle, Commands, Outside
<1>7. CASE \E v \in DOMAIN Volumes : CdVolume(v)
  <2>1. PICK v \in DOMAIN Volumes : CdVolume(v)
    BY <1>7
  <2>2. v \in 0..Len(Volumes) /\ v \in 0..Len(pages) /\ v \in Nat /\ v <= Len(pages)
    BY <1>4
  <2>3. sd_p[v] \in Names
    BY <1>4, <1>5, <2>1 DEF TypedPlace, CdVolume
  <2>4. shell' \in Commands /\ shell'.page = v /\ shell'.do = "list" /\ shell'.name \in Names
    BY <2>1, <2>2, <2>3 DEF CdVolume, Commands
  <2> QED
    BY <1>2, <1>3, <1>5, <2>1, <2>2, <2>4 DEF Typed, TypedPlace, CdVolume
<1>8. CASE \E n \in Names : CdFolder(n)
  <2>1. PICK n \in Names : CdFolder(n)
    BY <1>8
  <2>2. shell' \in Commands /\ shell'.page = 0 /\ shell'.do = "find" /\ shell'.name \in Names
    BY <1>6, <2>1 DEF CdFolder, Commands
  <2>3. cd_rem' = cd_rem /\ cd_rem # Outside /\ kdirectory' = kdirectory /\ current_page' = current_page
    BY <2>1, Zenon DEF CdFolder
  <2>4. TypedPlace'
    BY <1>3, <1>4, <1>5, <2>2, <2>3 DEF TypedPlace
  <2> QED
    BY <1>2, <2>4 DEF Typed
<1>9. CASE FindFolder
  <2>1. shell.do = "find" /\ UNCHANGED <<kdirectory, cd_rem>>
    BY <1>9 DEF FindFolder
  <2>2. CASE shell' = Idle /\ current_page' = current_page
    BY <1>2, <1>3, <1>4, <1>5, <1>6, <2>1, <2>2 DEF Typed, TypedPlace
  <2>3. CASE ~(shell' = Idle /\ current_page' = current_page)
    <3>1. PICK k \in First(pages[cd_rem], shell.name) :
            current_page' = pages[cd_rem][k].director
            /\ shell' = [shell EXCEPT !.do = "list", !.page = current_page']
      BY <1>9, <2>3 DEF FindFolder
    <3>2. cd_rem \in DOMAIN pages
      BY <1>4, <1>5, <2>1 DEF TypedPlace, Outside
    <3>3. k \in DOMAIN pages[cd_rem]
      BY DEF First
    <3>4. pages[cd_rem][k] \in Pointed
      BY <3>2, <3>3 DEF Typed, TypedPages
    <3>5. current_page' \in 0..Len(pages) /\ current_page' \in Nat
      BY <1>4, <3>1, <3>2, <3>3, <3>4 DEF Typed, TypedPages, Pointed
    <3>6. shell' \in Commands /\ shell'.page = current_page' /\ shell'.do = "list" /\ shell'.name = shell.name
      BY <1>5, <3>1, <3>5 DEF TypedPlace, Commands
    <3> QED
      BY <1>2, <1>3, <1>4, <1>5, <2>1, <3>5, <3>6 DEF Typed, TypedPlace
  <2> QED
    BY <2>2, <2>3
<1>10. CASE UserDir
  <2>1. shell' = [shell EXCEPT !.do = "name"] /\ UNCHANGED <<kdirectory, cd_rem, current_page>>
        /\ shell.do = "list"
    BY <1>10 DEF UserDir
  <2>2. shell' \in Commands /\ shell'.page = shell.page /\ shell'.do = "name" /\ shell'.name = shell.name
    BY <1>5, <2>1 DEF TypedPlace, Commands
  <2> QED
    BY <1>2, <1>3, <1>5, <2>1, <2>2 DEF Typed, TypedPlace
<1>11. CASE NameFolder
  <2>1. shell.do = "name" /\ kdirectory' = Append(kdirectory, shell.name)
        /\ shell' \in {Idle, [shell EXCEPT !.do = "remember"]} /\ UNCHANGED <<cd_rem, current_page>>
    BY <1>11 DEF NameFolder
  <2>2. kdirectory' \in Seq(Names)
    BY <1>5, <2>1 DEF TypedPlace
  <2>3. shell' \in Commands /\ shell'.page <= Len(pages) /\ shell'.do \in {"none", "remember"}
    <3>1. CASE shell' = Idle
      BY <1>4, <1>6, <3>1
    <3>2. CASE shell' = [shell EXCEPT !.do = "remember"]
      <4>1. shell' \in Commands /\ shell'.page = shell.page /\ shell'.do = "remember"
        BY <1>5, <3>2 DEF TypedPlace, Commands
      <4> QED
        BY <1>5, <4>1 DEF TypedPlace
    <3> QED
      BY <2>1, <3>1, <3>2
  <2> QED
    BY <1>2, <1>3, <1>5, <2>1, <2>2, <2>3 DEF Typed, TypedPlace
<1>12. CASE RememberVolume
  <2>1. cd_rem' = shell.volume /\ shell' = Idle /\ UNCHANGED <<kdirectory, current_page>>
    BY <1>12 DEF RememberVolume
  <2>2. shell.volume \in 0..Len(Volumes)
    BY <1>5 DEF TypedPlace, Commands
  <2> QED
    BY <1>2, <1>3, <1>4, <1>5, <1>6, <2>1, <2>2 DEF Typed, TypedPlace
<1>13. CASE CdRoot
  <2>1. shell' = [Idle EXCEPT !.do = "root"] /\ UNCHANGED <<kdirectory, cd_rem, current_page>>
    BY <1>13 DEF CdRoot
  <2>2. shell' \in Commands /\ shell'.page = 0 /\ shell'.do = "root"
    BY <1>6, <2>1 DEF Commands
  <2> QED
    BY <1>2, <1>3, <1>4, <1>5, <2>1, <2>2 DEF Typed, TypedPlace
<1>14. CASE ListRoot
  <2>1. shell' = Idle /\ kdirectory' = <<>> /\ cd_rem' = 0 /\ current_page' = current_page
    BY <1>14 DEF ListRoot, Cleared, Outside
  <2>2. kdirectory' \in Seq(Names) /\ cd_rem' \in 0..Len(Volumes)
    BY <1>4, <2>1
  <2> QED
    BY <1>2, <1>3, <1>4, <1>5, <1>6, <2>1, <2>2 DEF Typed, TypedPlace
<1> QED
  BY <1>7, <1>8, <1>9, <1>10, <1>11, <1>12, <1>13, <1>14 DEF Shell

\* What the daemon does to the links: it opens, loads or closes the file i.
Linked(i, o, v) == symbolic' = [symbolic EXCEPT ![i].open = o, ![i].through = v]

LEMMA LinkChanges ==
  ASSUME TypedLinks, TypedPlace, NEW i \in DOMAIN symbolic, NEW o \in {"no", "yes"}, NEW v \in {cd_rem, Outside},
         Linked(i, o, v)
  PROVE  /\ DOMAIN symbolic' = DOMAIN symbolic /\ symbolic'[i].open = o /\ symbolic'[i].through = v
         /\ \E P : symbolic' \in Seq(Links(P))
         /\ \A j \in DOMAIN symbolic : /\ symbolic'[j].file = symbolic[j].file
                                       /\ symbolic'[j].path = symbolic[j].path
                                       /\ j # i => symbolic'[j] = symbolic[j]
<1>1. PICK P : symbolic \in Seq(Links(P))
  BY DEF TypedLinks
<1> DEFINE e == [symbolic[i] EXCEPT !.open = o, !.through = v]
           s == [symbolic EXCEPT ![i].open = o, ![i].through = v]
<1>2. symbolic[i] \in Links(P)
  BY <1>1
<1>3. e \in Links(P) /\ e.open = o /\ e.through = v /\ e.file = symbolic[i].file /\ e.path = symbolic[i].path
  <2>1. v \in 0..Len(Volumes)
    BY DiskIs DEF TypedPlace, Outside
  <2> QED
    BY <1>2, <2>1 DEF Links
<1>4. s = [symbolic EXCEPT ![i] = e] /\ symbolic' = s
  BY <1>1 DEF Linked
<1> HIDE DEF e, s
<1>5. s \in Seq(Links(P)) /\ DOMAIN s = DOMAIN symbolic /\ s[i] = e
      /\ \A j \in DOMAIN symbolic : j # i => s[j] = symbolic[j]
  BY <1>1, <1>3, <1>4
<1> QED
  BY <1>3, <1>4, <1>5

LEMMA Reloading ==
  ASSUME TypedLinks, NEW i \in Opened, LoadBuf(i)
  PROVE  Linked(i, "yes", cd_rem)
<1>1. PICK P : symbolic \in Seq(Links(P))
  BY DEF TypedLinks
<1>2. i \in DOMAIN symbolic /\ symbolic[i].open = "yes" /\ symbolic[i] \in Links(P)
  BY <1>1 DEF Opened
<1>3. [symbolic[i] EXCEPT !.through = cd_rem] = [symbolic[i] EXCEPT !.open = "yes", !.through = cd_rem]
  BY <1>2 DEF Links
<1>4. symbolic' = [symbolic EXCEPT ![i].through = cd_rem]
  BY DEF LoadBuf
<1> QED
  BY <1>2, <1>3, <1>4 DEF Linked

LEMMA DaemonLinks ==
  ASSUME TypedLinks, Daemon
  PROVE  /\ UNCHANGED <<tree, kdirectory, cd_rem, current_page, shell>>
         /\ \/ \E n \in Names : \E i \in Lookup(n) \ {0} :
                 i \in DOMAIN symbolic /\ symbolic[i].open = "no" /\ Fopen(n) /\ Linked(i, "yes", cd_rem)
            \/ \E i \in Opened : LoadBuf(i) /\ Linked(i, "yes", cd_rem)
            \/ \E i \in Opened : Fclose(i) /\ Linked(i, "no", Outside)
<1>1. CASE \E n \in Names : Fopen(n)
  <2>1. PICK n \in Names : Fopen(n)
    BY <1>1
  <2>2. PICK i \in Lookup(n) \ {0} : symbolic[i].open = "no" /\ Linked(i, "yes", cd_rem)
    BY <2>1 DEF Fopen, Linked
  <2>3. i \in DOMAIN symbolic
    BY DEF Lookup, FirstOf, Matching
  <2> QED
    BY <2>1, <2>2, <2>3 DEF Fopen, place
<1>2. CASE \E i \in Opened : LoadBuf(i)
  BY <1>2, Reloading DEF LoadBuf, place
<1>3. CASE \E i \in Opened : Fclose(i)
  BY <1>3 DEF Fclose, Linked
<1> QED
  BY <1>1, <1>2, <1>3 DEF Daemon

LEMMA LinkingTypes ==
  ASSUME TypedLinks, TypedPlace, UNCHANGED pages, NEW i \in DOMAIN symbolic, NEW o \in {"no", "yes"},
         NEW v \in {cd_rem, Outside}, Linked(i, o, v)
  PROVE  TypedLinks'
<1>1. /\ DOMAIN symbolic' = DOMAIN symbolic /\ \E P : symbolic' \in Seq(Links(P))
      /\ \A j \in DOMAIN symbolic : symbolic'[j].file = symbolic[j].file
  BY LinkChanges
<1> QED
  BY <1>1 DEF TypedLinks

LEMMA TypedDaemon == ASSUME Typed, Daemon PROVE Typed'
<1>1. UNCHANGED <<tree, kdirectory, cd_rem, current_page, shell>>
  BY DaemonLinks DEF Typed
<1>2. PICK i \in DOMAIN symbolic, o \in {"no", "yes"}, v \in {cd_rem, Outside} : Linked(i, o, v)
  BY DaemonLinks DEF Typed, Opened
<1>3. TypedLinks'
  BY <1>1, <1>2, LinkingTypes DEF tree, Typed
<1>4. TypedCalls' /\ TypedName' /\ TypedPages'
  BY <1>1 DEF tree, Typed, TypedCalls, TypedName, TypedPages
<1>5. TypedPlace'
  BY <1>1 DEF tree, Typed, TypedPlace
<1> QED
  BY <1>3, <1>4, <1>5 DEF Typed

LEMMA TypedNext == ASSUME Typed, [Next]_vars PROVE Typed'
<1>1. CASE UNCHANGED vars
  BY <1>1 DEF vars, tree, place, Typed, TypedCalls, TypedName, TypedPages, TypedLinks, TypedPlace
<1>2. CASE Build
  BY <1>2, TypedStart, TypedSkip, TypedFolder, TypedLabelOrFile, TypedLeave, TypedEnds DEF Build
<1> QED
  BY <1>1, <1>2, TypedShell, TypedDaemon DEF Next

LEMMA TypedIsTyped == ASSUME Typed PROVE FolderTypeOK
<1>1. /\ pages \in Seq(Seq(Pointed)) /\ \A p \in DOMAIN pages : \A k \in DOMAIN pages[p] :
           pages[p][k].director <= Len(pages)
  BY DEF Typed, TypedPages
<1>2. ASSUME NEW p \in DOMAIN pages, NEW k \in DOMAIN pages[p] PROVE pages[p][k].director \in 0..Len(pages)
  <2>1. pages[p][k] \in Pointed /\ Len(pages) \in Nat
    BY <1>1
  <2>2. pages[p][k].director \in Nat
    BY <2>1 DEF Pointed
  <2> QED
    BY <1>1, <2>1, <2>2
<1>3. \A k \in DOMAIN kdirectory : kdirectory[k] \in Names
  BY DEF Typed, TypedPlace
<1> QED
  BY <1>2, <1>3 DEF Typed, TypedCalls, TypedLinks, TypedPlace, FolderTypeOK

LEMMA AlwaysTyped == Spec => []Typed
BY TypedInit, TypedNext, PTL DEF Spec

\* Of whatever is on the card, pages point to pages, paths to records and the shell to
\* a partition, whatever the shell and programs do (_search_file, cd, fopen).
THEOREM FolderTypesHold == Spec => []FolderTypeOK
BY AlwaysTyped, TypedIsTyped, PTL

-----------------------------------------------------------------------------
(* The tree of pages.                                                      *)

ReadTo(p, d, n) == Listing(p) = Only(SubSeq(Disk[d], 1, n), Visible)
CallsRead == \A i \in DOMAIN reading : ReadTo(reading[i].page, reading[i].dir, reading[i].offset)
CallsNest ==
  /\ reading # <<>> => reading[Len(reading)].page = pnum /\ reading[Len(reading)].dir = Volumes[pnum]
  /\ \A i \in 1..Len(reading) - 1 : reading[i].page > Len(Volumes)
  /\ \A i \in DOMAIN reading : \A j \in DOMAIN reading : reading[i].page = reading[j].page => i = j
Leads(q, d) ==
  /\ q \in Len(Volumes) + 1..Len(pages)
  /\ \A i \in DOMAIN reading : reading[i].page = q => reading[i].dir = d
  /\ (\E i \in DOMAIN reading : reading[i].page = q) \/ Listing(q) = Shown(d)
FoldersLead ==
  \A p \in DOMAIN pages : \A k \in DOMAIN pages[p] :
     pages[p][k].kind = "folder" => Leads(pages[p][k].director, pages[p][k].clu)
Known(v) == v < pnum /\ Volumes[v] # NoFolder
VolumesRead ==
  \A v \in DOMAIN Volumes :
    /\ Known(v) => Listing(v) = Shown(Volumes[v])
    /\ ~Known(v) /\ ~(v = pnum /\ reading # <<>>) => pages[v] = <<>>
    /\ sd_p[v] = IF Known(v) THEN Disk[Volumes[v]][1].name ELSE NoName
Tree == CallsRead /\ CallsNest /\ FoldersLead /\ VolumesRead

CallsMarked ==
  \A i \in DOMAIN reading : /\ reading[i].mark = Len(reading) - i
                            /\ i < Len(reading) => reading[i].dir \notin Roots
NameBegins ==
  \/ reading = <<>> \/ (Len(reading) = 1 /\ reading[1].offset = 0)
  \/ Len(tmp_name) = Len(reading) /\ tmp_name[1] # NoName
PathsBegin == \A i \in DOMAIN symbolic : symbolic[i].path # <<>> /\ symbolic[i].path[1] # NoName
NamesOfPaths == CallsMarked /\ NameBegins /\ PathsBegin

EntriesOf(s) == [k \in DOMAIN s |-> [name |-> s[k].name, kind |-> s[k].kind, clu |-> s[k].clu]]

LEMMA ListingIs ==
  /\ \A p : Listing(p) = EntriesOf(pages[p])
  /\ \A p : Listing(p)' = EntriesOf(pages'[p])
BY DEF Listing, EntriesOf

LEMMA ListingType ==
  ASSUME NEW s \in Seq(Pointed)
  PROVE  EntriesOf(s) \in Seq(Entries) /\ DOMAIN EntriesOf(s) = DOMAIN s /\ Len(EntriesOf(s)) = Len(s)
<1>1. ASSUME NEW k \in DOMAIN s
      PROVE  [name |-> s[k].name, kind |-> s[k].kind, clu |-> s[k].clu] \in Entries
  <2>1. s[k] \in Pointed
    OBVIOUS
  <2> QED
    BY <2>1 DEF Pointed, Entries
<1>2. DOMAIN s = 1..Len(s) /\ Len(s) \in Nat
  OBVIOUS
<1> QED
  BY <1>1, <1>2 DEF EntriesOf

LEMMA ListingGrows ==
  ASSUME NEW s \in Seq(Pointed), NEW t \in Seq(Pointed), NEW r \in Entries,
         DOMAIN t = 1..Len(s) + 1, \A k \in 1..Len(s) : t[k] = s[k],
         t[Len(s) + 1].name = r.name, t[Len(s) + 1].kind = r.kind, t[Len(s) + 1].clu = r.clu
  PROVE  EntriesOf(t) = Append(EntriesOf(s), r)
<1> DEFINE a == EntriesOf(t)
           b == Append(EntriesOf(s), r)
<1>1. Len(s) \in Nat /\ DOMAIN s = 1..Len(s) /\ Len(t) = Len(s) + 1 /\ DOMAIN t = 1..Len(t)
  OBVIOUS
<1>2. /\ a \in Seq(Entries) /\ Len(a) = Len(s) + 1
      /\ EntriesOf(s) \in Seq(Entries) /\ Len(EntriesOf(s)) = Len(s)
  BY <1>1, ListingType
<1>3. /\ b \in Seq(Entries) /\ Len(b) = Len(s) + 1 /\ b[Len(s) + 1] = r
      /\ \A k \in 1..Len(s) : b[k] = EntriesOf(s)[k]
  BY <1>1, <1>2
<1>4. \A k \in 1..Len(s) : a[k] = EntriesOf(s)[k]
  BY <1>1 DEF EntriesOf
<1>5. r = [name |-> r.name, kind |-> r.kind, clu |-> r.clu]
  BY DEF Entries
<1>6. a[Len(s) + 1] = r
  BY <1>1, <1>5 DEF EntriesOf
<1> HIDE DEF a, b
<1>7. \A k \in 1..Len(s) + 1 : a[k] = b[k]
  BY <1>1, <1>3, <1>4, <1>6
<1>8. a = b
  BY <1>1, <1>2, <1>3, <1>7
<1> QED
  BY <1>8 DEF a, b

LEMMA ReadOn ==
  ASSUME NEW d \in DOMAIN Disk, NEW n \in Nat, n + 1 \in 1..Len(Disk[d])
  PROVE  Only(SubSeq(Disk[d], 1, n + 1), Visible)
           = IF Disk[d][n + 1].kind = "skipped" THEN Only(SubSeq(Disk[d], 1, n), Visible)
             ELSE Append(Only(SubSeq(Disk[d], 1, n), Visible), Disk[d][n + 1])
<1> DEFINE s == Disk[d]
<1>1. s \in Seq(Entries) /\ n + 1 \in 1..Len(s)
  BY DiskIs
<1> HIDE DEF s
<1>2. s[n + 1] \in Entries /\ (s[n + 1] \in Visible <=> s[n + 1].kind # "skipped")
  BY <1>1 DEF Visible
<1>3. SubSeq(s, 1, n + 1) = Append(SubSeq(s, 1, n), s[n + 1]) /\ SubSeq(s, 1, n) \in Seq(Entries)
  BY <1>1
<1>4. Only(SubSeq(s, 1, n + 1), Visible) = IF s[n + 1] \in Visible THEN Append(Only(SubSeq(s, 1, n), Visible), s[n + 1])
                                           ELSE Only(SubSeq(s, 1, n), Visible)
  <2> DEFINE a == SubSeq(s, 1, n)
             e == s[n + 1]
  <2>1. a \in Seq(Entries) /\ e \in Entries /\ SubSeq(s, 1, n + 1) = Append(a, e)
    BY <1>2, <1>3
  <2> HIDE DEF a, e
  <2>2. Only(Append(a, e), Visible) = IF e \in Visible THEN Append(Only(a, Visible), e) ELSE Only(a, Visible)
    BY <2>1, OnlyAppend
  <2> QED
    BY <2>1, <2>2 DEF a, e
<1> QED
  BY <1>2, <1>4 DEF s

LEMMA ReadAll ==
  ASSUME NEW p, NEW d \in DOMAIN Disk, NEW n \in Nat, n = Len(Disk[d]), ReadTo(p, d, n)
  PROVE  Listing(p) = Shown(d)
<1>1. SubSeq(Disk[d], 1, n) = Disk[d]
  BY DiskIs
<1> QED
  BY <1>1 DEF ReadTo, Shown

LEMMA GoesOn ==
  ASSUME Typed, More, OnBy(<<>>)
  PROVE  /\ DOMAIN reading' = DOMAIN reading /\ Len(reading') = Len(reading) /\ reading' # <<>>
         /\ reading' \in Seq(Calls) /\ Len(reading) \in Nat \ {0} /\ DOMAIN reading = 1..Len(reading)
         /\ \A i \in DOMAIN reading : /\ reading'[i].page = reading[i].page
                                      /\ reading'[i].dir = reading[i].dir
                                      /\ reading'[i].mark = reading[i].mark
                                      /\ i # 1 => reading'[i] = reading[i]
         /\ reading'[1].offset = Top.offset + 1
<1> DEFINE c == [Top EXCEPT !.offset = @ + 1]
<1>1. reading \in Seq(Calls) /\ reading # <<>>
  BY DEF Typed, TypedCalls, More
<1>2. c \in Calls /\ c.page = Top.page /\ c.dir = Top.dir /\ c.mark = Top.mark /\ c.offset = Top.offset + 1
  BY Reading DEF Calls
<1>3. Top = reading[1]
  BY Reading
<1>4. reading' = <<>> \o <<c>> \o Tail(reading)
  BY DEF OnBy
<1> HIDE DEF c
<1>5. reading' = [reading EXCEPT ![1] = c] /\ reading' \in Seq(Calls)
  BY <1>1, <1>2, <1>4, OnByNothing
<1>6. Len(reading) \in Nat \ {0} /\ DOMAIN reading = 1..Len(reading)
  BY <1>1
<1> QED
  BY <1>1, <1>2, <1>3, <1>5, <1>6

LEMMA Enters ==
  ASSUME Typed, ReadFolder
  PROVE  /\ reading' \in Seq(Calls) /\ Len(reading') = Len(reading) + 1 /\ DOMAIN reading' = 1..Len(reading) + 1
         /\ Len(reading) \in Nat \ {0} /\ DOMAIN reading = 1..Len(reading)
         /\ reading'[1].dir = Record.clu /\ reading'[1].offset = 0
         /\ reading'[1].page = Len(pages) + 1 /\ reading'[1].mark = Len(tmp_name)
         /\ \A i \in 2..Len(reading) + 1 : /\ i - 1 \in DOMAIN reading
                                           /\ reading'[i].page = reading[i - 1].page
                                           /\ reading'[i].dir = reading[i - 1].dir
                                           /\ reading'[i].mark = reading[i - 1].mark
                                           /\ i # 2 => reading'[i] = reading[i - 1]
         /\ reading'[2].offset = Top.offset + 1
<1> DEFINE c == [Top EXCEPT !.offset = @ + 1]
           d == [dir |-> Record.clu, offset |-> 0, page |-> Len(pages) + 1, mark |-> Len(tmp_name)]
<1>1. reading \in Seq(Calls) /\ reading # <<>>
  BY DEF Typed, TypedCalls, ReadFolder, More
<1>2. More /\ Record.kind = "folder"
  BY DEF ReadFolder
<1>3. c \in Calls /\ c.page = Top.page /\ c.dir = Top.dir /\ c.mark = Top.mark /\ c.offset = Top.offset + 1
  BY <1>2, Reading DEF Calls
<1>4. Top = reading[1] /\ Record.clu \in DOMAIN Disk
  BY <1>2, Reading
<1>5. Len(tmp_name) \in Nat
  <2>1. PICK T : tmp_name \in Seq(T)
    BY DEF Typed, TypedName
  <2> QED
    BY <2>1
<1>6. Len(pages) + 1 \in Nat
  BY DEF Typed, TypedPages
<1>7. d \in Calls /\ d.page = Len(pages) + 1 /\ d.offset = 0 /\ d.dir = Record.clu /\ d.mark = Len(tmp_name)
  BY <1>4, <1>5, <1>6 DEF Calls
<1>8. reading' = <<d>> \o <<c>> \o Tail(reading)
  BY DEF ReadFolder, OnBy
<1> HIDE DEF c, d
<1>9. /\ reading' \in Seq(Calls) /\ Len(reading') = Len(reading) + 1
      /\ reading'[1] = d /\ reading'[2] = c
      /\ \A i \in 3..Len(reading) + 1 : reading'[i] = reading[i - 1]
  BY <1>1, <1>3, <1>7, <1>8, OnByCall
<1>10. Len(reading) \in Nat \ {0} /\ DOMAIN reading = 1..Len(reading) /\ DOMAIN reading' = 1..Len(reading')
  BY <1>1, <1>9
<1>11. ASSUME NEW i \in 2..Len(reading) + 1
       PROVE /\ i - 1 \in DOMAIN reading
             /\ reading'[i].page = reading[i - 1].page
             /\ reading'[i].dir = reading[i - 1].dir
             /\ reading'[i].mark = reading[i - 1].mark
             /\ i # 2 => reading'[i] = reading[i - 1]
  <2>1. CASE i = 2
    BY <1>3, <1>4, <1>9, <1>10, <2>1
  <2>2. CASE i # 2
    BY <1>9, <1>10, <2>2
  <2> QED
    BY <2>1, <2>2
<1> QED
  BY <1>3, <1>7, <1>9, <1>10, <1>11

\* What a step of _search_file does to the listing of a page.
LEMMA PageLists ==
  ASSUME Typed, ReadLabel \/ ReadFile \/ ReadFolder, NEW P, P = Top.page
  PROVE  /\ Listing(P)' = Append(Listing(P), Record)
         /\ \A p \in DOMAIN pages : p # P => Listing(p)' = Listing(p)
<1> DEFINE m == Len(pages[P])
           R == Record
<1>1. More
  BY DEF ReadLabel, ReadFile, ReadFolder
<1>2. pages[P] \in Seq(Pointed) /\ R \in Entries /\ P \in DOMAIN pages
  BY <1>1, Reading DEF Entries
<1> DEFINE Fits(d) ==
      /\ P \in DOMAIN pages' /\ pages' \in Seq(Seq(Pointed)) /\ DOMAIN pages'[P] = 1..m + 1
      /\ \A k \in 1..m : pages'[P][k] = pages[P][k]
      /\ pages'[P][m + 1] = [name |-> R.name, kind |-> R.kind, clu |-> R.clu,
                             director |-> d, num_fatdir |-> Top.offset]
      /\ \A p \in DOMAIN pages : p # P => pages'[p] = pages[p]
<1>3. \E d \in Nat : Fits(d)
  <2>1. CASE ReadFolder
    <3>1. Len(pages) + 1 \in Nat
      BY DEF Typed, TypedPages
    <3>2. Fits(Len(pages) + 1)
      BY <2>1, FolderGrows
    <3> HIDE DEF Fits
    <3> QED
      BY <3>1, <3>2
  <2>2. CASE ReadLabel \/ ReadFile
    <3>1. pages' = [pages EXCEPT ![Top.page] = Keep(0)] /\ 0 \in Nat
      BY <2>2 DEF ReadLabel, ReadFile
    <3>2. Fits(0)
      BY <1>1, <1>2, <3>1, Keeping, ZenonT(60)
    <3> HIDE DEF Fits
    <3> QED
      BY <3>1, <3>2
  <2> QED
    BY <2>1, <2>2
<1>4. PICK d \in Nat : Fits(d)
  BY <1>3
<1>5. /\ pages'[P][m + 1].name = R.name /\ pages'[P][m + 1].kind = R.kind /\ pages'[P][m + 1].clu = R.clu
      /\ pages'[P] \in Seq(Pointed)
  BY <1>4
<1> HIDE DEF R
<1>6. EntriesOf(pages'[P]) = Append(EntriesOf(pages[P]), R)
  BY <1>2, <1>4, <1>5, ListingGrows, ZenonT(60)
<1> QED
  BY <1>4, <1>6, ListingIs DEF R

Reads == SkipRecord \/ ReadLabel \/ ReadFile \/ ReadFolder

LEMMA NewRecords ==
  ASSUME Typed, Reads, NEW p \in DOMAIN pages', NEW k \in DOMAIN pages'[p]
  PROVE  \/ p \in DOMAIN pages /\ k \in DOMAIN pages[p] /\ pages'[p][k] = pages[p][k]
         \/ /\ p = Top.page /\ k = Len(pages[p]) + 1
            /\ pages'[p][k].kind = Record.kind /\ pages'[p][k].clu = Record.clu
            /\ pages'[p][k].name = Record.name
            /\ ReadFolder => pages'[p][k].director = Len(pages) + 1
            /\ ReadFolder \/ ReadLabel \/ ReadFile
<1>1. CASE SkipRecord
  BY <1>1 DEF SkipRecord
<1>2. CASE ReadFolder
  <2> DEFINE n == Len(pages)
             m == Len(pages[Top.page])
             e == [name |-> Record.name, kind |-> Record.kind, clu |-> Record.clu,
                   director |-> n + 1, num_fatdir |-> Top.offset]
  <2>1. /\ n \in Nat /\ m \in Nat
        /\ pages' \in Seq(Seq(Pointed)) /\ Len(pages') = n + 1 /\ DOMAIN pages' = 1..n + 1
        /\ DOMAIN pages = 1..n /\ Top.page \in 1..n /\ pages'[n + 1] = <<>>
        /\ \A q \in 1..n : q # Top.page => pages'[q] = pages[q]
        /\ DOMAIN pages'[Top.page] = 1..m + 1 /\ DOMAIN pages[Top.page] = 1..m
        /\ \A j \in 1..m : pages'[Top.page][j] = pages[Top.page][j]
        /\ pages'[Top.page][m + 1] = e
    BY <1>2, FolderGrows
  <2>2. /\ e.director = n + 1 /\ e.name = Record.name /\ e.kind = Record.kind /\ e.clu = Record.clu
    OBVIOUS
  <2> HIDE DEF e, n, m
  <2>3. CASE p = n + 1
    BY <2>1, <2>3
  <2>4. CASE p \in 1..n /\ p # Top.page
    BY <2>1, <2>4
  <2>5. CASE p = Top.page
    <3>1. k \in 1..m \/ k = m + 1
      BY <2>1, <2>5, SMTT(30)
    <3> QED
      BY <1>2, <2>1, <2>2, <2>5, <3>1 DEF n, m
  <2> QED
    BY <2>1, <2>3, <2>4, <2>5
<1>3. CASE ReadLabel \/ ReadFile
  <2> DEFINE m == Len(pages[Top.page])
             e == [name |-> Record.name, kind |-> Record.kind, clu |-> Record.clu,
                   director |-> 0, num_fatdir |-> Top.offset]
  <2>1. More /\ pages' = [pages EXCEPT ![Top.page] = Keep(0)] /\ 0 \in Nat
    BY <1>3 DEF ReadLabel, ReadFile
  <2>2. /\ DOMAIN pages' = DOMAIN pages /\ m \in Nat
        /\ \A q \in DOMAIN pages : q # Top.page => pages'[q] = pages[q]
        /\ DOMAIN pages'[Top.page] = 1..m + 1 /\ DOMAIN pages[Top.page] = 1..m
        /\ \A j \in 1..m : pages'[Top.page][j] = pages[Top.page][j]
        /\ pages'[Top.page][m + 1] = e
    BY <2>1, Keeping
  <2>3. /\ e.name = Record.name /\ e.kind = Record.kind /\ e.clu = Record.clu
    OBVIOUS
  <2>4. ~ReadFolder
    BY <1>3 DEF ReadLabel, ReadFile, ReadFolder
  <2> HIDE DEF e, m
  <2>5. CASE p # Top.page
    BY <2>2, <2>5
  <2>6. CASE p = Top.page
    <3>1. k \in 1..m \/ k = m + 1
      BY <2>2, <2>6
    <3> QED
      BY <1>3, <2>2, <2>3, <2>4, <2>6, <3>1 DEF m
  <2> QED
    BY <2>5, <2>6
<1> QED
  BY <1>1, <1>2, <1>3 DEF Reads

LEMMA TopReads ==
  ASSUME Typed, CallsRead, Reads, NEW P, P = Top.page, NEW d, d = Top.dir, NEW n, n = Top.offset + 1
  PROVE  /\ ReadTo(P, d, n)'
         /\ \A p \in DOMAIN pages : p # P => Listing(p)' = Listing(p)
<1>1. More
  BY DEF Reads, SkipRecord, ReadLabel, ReadFile, ReadFolder
<1>2. /\ Top = reading[1] /\ Top.dir \in DOMAIN Disk
      /\ Top.offset \in Nat /\ Top.offset + 1 \in 1..Len(Disk[Top.dir])
  BY <1>1, Reading
<1> DEFINE m == Top.offset
<1>3. Listing(P) = Only(SubSeq(Disk[d], 1, m), Visible)
  <2>1. 1 \in DOMAIN reading
    BY <1>1 DEF More, Typed, TypedCalls
  <2> QED
    BY <1>2, <2>1 DEF CallsRead, ReadTo
<1>4. Record = Disk[d][m + 1] /\ d \in DOMAIN Disk /\ m \in Nat /\ m + 1 \in 1..Len(Disk[d]) /\ n = m + 1
  BY <1>2 DEF Record
<1> HIDE DEF m
<1>5. Only(SubSeq(Disk[d], 1, m + 1), Visible)
        = IF Record.kind = "skipped" THEN Listing(P) ELSE Append(Listing(P), Record)
  BY <1>3, <1>4, ReadOn
<1>6. CASE SkipRecord
  <2>1. pages' = pages /\ Record.kind = "skipped"
    BY <1>6 DEF SkipRecord
  <2>2. \A p : Listing(p)' = Listing(p)
    BY <2>1, ListingIs
  <2> QED
    BY <1>4, <1>5, <2>1, <2>2 DEF ReadTo
<1>7. CASE ReadLabel \/ ReadFile \/ ReadFolder
  <2>1. Record.kind # "skipped"
    BY <1>7 DEF ReadLabel, ReadFile, ReadFolder
  <2>2. /\ Listing(P)' = Append(Listing(P), Record)
        /\ \A p \in DOMAIN pages : p # P => Listing(p)' = Listing(p)
    BY <1>7, PageLists
  <2> QED
    BY <1>4, <1>5, <2>1, <2>2 DEF ReadTo
<1> QED
  BY <1>6, <1>7 DEF Reads

\* What a record leads to stays what it leads to.
LeadsIn(r, f, q, d) ==
  /\ q \in Len(Volumes) + 1..Len(f)
  /\ \A i \in DOMAIN r : r[i].page = q => r[i].dir = d
  /\ (\E i \in DOMAIN r : r[i].page = q) \/ EntriesOf(f[q]) = Shown(d)

LEMMA FoldersLeadIs ==
  /\ \A q, d : Leads(q, d)' <=> LeadsIn(reading', pages', q, d)
  /\ FoldersLead' <=>
       \A p \in DOMAIN pages' : \A k \in DOMAIN pages'[p] : pages'[p][k].kind = "folder" =>
          LeadsIn(reading', pages', pages'[p][k].director, pages'[p][k].clu)
BY DEF FoldersLead, Leads, LeadsIn, Listing, EntriesOf

LEMMA LeadsOn ==
  ASSUME NEW q, NEW d, Leads(q, d), Len(pages') >= Len(pages), Len(pages') \in Nat, Len(pages) \in Nat,
         \A i \in DOMAIN reading' : reading'[i].page = q =>
            \E j \in DOMAIN reading : reading[j].page = q /\ reading[j].dir = reading'[i].dir,
         \A j \in DOMAIN reading : reading[j].page = q /\ reading[j].dir = d =>
            (\E i \in DOMAIN reading' : reading'[i].page = q) \/ Listing(q)' = Shown(d),
         (\A j \in DOMAIN reading : reading[j].page # q) => Listing(q)' = Listing(q)
  PROVE  Leads(q, d)'
<1>1. q \in Len(Volumes) + 1..Len(pages')
  BY DiskIs DEF Leads
<1>2. \A i \in DOMAIN reading' : reading'[i].page = q => reading'[i].dir = d
  BY DEF Leads
<1>3. (\E i \in DOMAIN reading' : reading'[i].page = q) \/ Listing(q)' = Shown(d)
  <2>1. CASE \E j \in DOMAIN reading : reading[j].page = q
    <3>1. PICK j \in DOMAIN reading : reading[j].page = q
      BY <2>1
    <3>2. reading[j].dir = d
      BY <3>1 DEF Leads
    <3> QED
      BY <3>1, <3>2
  <2>2. CASE \A j \in DOMAIN reading : reading[j].page # q
    <3>1. Listing(q) = Shown(d)
      BY <2>2 DEF Leads
    <3> QED
      BY <2>2, <3>1
  <2> QED
    BY <2>1, <2>2
<1> QED
  BY <1>1, <1>2, <1>3 DEF Leads

\* _search_file: the calls under the one at the top wait, their pages with them.
LEMMA CallsOf ==
  ASSUME Typed, Reads
  PROVE  /\ Len(reading) \in Nat \ {0} /\ DOMAIN reading = 1..Len(reading) /\ Top = reading[1]
         /\ Top.page \in DOMAIN pages /\ Len(pages) \in Nat /\ DOMAIN pages = 1..Len(pages)
         /\ Len(pages') \in Nat /\ Len(pages') >= Len(pages) /\ DOMAIN pages' = 1..Len(pages')
         /\ pnum' = pnum /\ sd_p' = sd_p
         /\ reading' \in Seq(Calls) /\ reading' # <<>> /\ Len(reading') \in Nat
         /\ DOMAIN reading' = 1..Len(reading') /\ Len(reading') >= Len(reading)
         /\ reading'[Len(reading')].page = reading[Len(reading)].page
         /\ reading'[Len(reading')].dir = reading[Len(reading)].dir
<1>1. More
  BY DEF Reads, SkipRecord, ReadLabel, ReadFile, ReadFolder
<1>2. Top = reading[1] /\ Top.page \in DOMAIN pages
  BY <1>1, Reading
<1>3. pages \in Seq(Seq(Pointed))
  BY DEF Typed, TypedPages
<1>4. Typed'
  BY TypedNext DEF Reads, Next, Build
<1>5. pages' \in Seq(Seq(Pointed)) /\ reading' \in Seq(Calls)
  BY <1>4 DEF Typed, TypedPages, TypedCalls
<1>8. /\ Len(pages) \in Nat /\ DOMAIN pages = 1..Len(pages)
      /\ Len(pages') \in Nat /\ DOMAIN pages' = 1..Len(pages')
      /\ Len(reading') \in Nat /\ DOMAIN reading' = 1..Len(reading')
  BY <1>3, <1>5
<1>6. CASE ReadFolder
  <2>1. pnum' = pnum /\ sd_p' = sd_p
    BY <1>6 DEF ReadFolder
  <2>2. Len(pages') = Len(pages) + 1
    BY <1>6, FolderGrows
  <2>3. /\ Len(reading') = Len(reading) + 1 /\ Len(reading) \in Nat \ {0} /\ DOMAIN reading = 1..Len(reading)
        /\ DOMAIN reading' = 1..Len(reading')
        /\ \A i \in 2..Len(reading) + 1 : /\ reading'[i].page = reading[i - 1].page
                                          /\ reading'[i].dir = reading[i - 1].dir
    BY <1>6, Enters
  <2>4. Len(reading') \in 2..Len(reading) + 1 /\ Len(reading') - 1 = Len(reading) /\ Len(reading') # 0
    BY <2>3
  <2>5. reading' # <<>>
    BY <2>4
  <2>6. /\ reading'[Len(reading')].page = reading[Len(reading)].page
        /\ reading'[Len(reading')].dir = reading[Len(reading)].dir
    BY <2>3, <2>4
  <2>7. Len(pages') >= Len(pages) /\ Len(reading') >= Len(reading)
    BY <1>8, <2>2, <2>3
  <2> QED
    BY <1>2, <1>5, <1>8, <2>1, <2>3, <2>5, <2>6, <2>7
<1>7. CASE ~ReadFolder
  <2>1. OnBy(<<>>) /\ pnum' = pnum /\ sd_p' = sd_p
    BY <1>7 DEF Reads, SkipRecord, ReadLabel, ReadFile
  <2>2. /\ DOMAIN reading' = DOMAIN reading /\ Len(reading') = Len(reading) /\ reading' # <<>>
        /\ Len(reading) \in Nat \ {0} /\ DOMAIN reading = 1..Len(reading)
        /\ \A i \in DOMAIN reading : reading'[i].page = reading[i].page /\ reading'[i].dir = reading[i].dir
    BY <1>1, <2>1, GoesOn
  <2>3. Len(pages') = Len(pages)
    <3>1. CASE SkipRecord
      BY <3>1 DEF SkipRecord
    <3>2. CASE ReadLabel \/ ReadFile
      <4>1. pages' = [pages EXCEPT ![Top.page] = Keep(0)] /\ 0 \in Nat
        BY <3>2 DEF ReadLabel, ReadFile
      <4> QED
        BY <1>1, <4>1, Keeping
    <3> QED
      BY <1>7, <3>1, <3>2 DEF Reads
  <2>4. /\ reading'[Len(reading')].page = reading[Len(reading)].page
        /\ reading'[Len(reading')].dir = reading[Len(reading)].dir
    BY <2>2
  <2>5. Len(pages') >= Len(pages) /\ Len(reading') >= Len(reading)
    BY <1>8, <2>2, <2>3
  <2> QED
    BY <1>2, <1>5, <1>8, <2>1, <2>2, <2>4, <2>5
<1> QED
  BY <1>6, <1>7

\* Where a page was read before a step and after it.
LEMMA CallsCome ==
  ASSUME Typed, Reads, NEW i \in DOMAIN reading'
  PROVE  \/ \E j \in DOMAIN reading :
              /\ reading'[i].page = reading[j].page /\ reading'[i].dir = reading[j].dir
              /\ i = j + (Len(reading') - Len(reading))
              /\ IF j = 1 THEN reading'[i].offset = Top.offset + 1 ELSE reading'[i] = reading[j]
         \/ /\ i = 1 /\ ReadFolder /\ Len(reading') = Len(reading) + 1
            /\ reading'[i].page = Len(pages) + 1 /\ reading'[i].dir = Record.clu /\ reading'[i].offset = 0
<1>1. CASE ReadFolder
  <2>1. CASE i = 1
    BY <1>1, <2>1, Enters
  <2>2. CASE i # 1
    <3>1. /\ i \in 2..Len(reading) + 1 /\ i - 1 \in DOMAIN reading /\ (i - 1 = 1 <=> i = 2)
          /\ i = (i - 1) + (Len(reading') - Len(reading))
      BY <1>1, <2>2, Enters
    <3> QED
      BY <1>1, <3>1, Enters
  <2> QED
    BY <2>1, <2>2
<1>2. CASE ~ReadFolder
  <2>1. OnBy(<<>>) /\ More
    BY <1>2 DEF Reads, SkipRecord, ReadLabel, ReadFile
  <2>2. i \in DOMAIN reading /\ i = i + (Len(reading') - Len(reading))
    BY <2>1, GoesOn
  <2> QED
    BY <2>1, <2>2, GoesOn
<1> QED
  BY <1>1, <1>2

LEMMA CallsStay ==
  ASSUME Typed, Reads, NEW j \in DOMAIN reading
  PROVE  \E i \in DOMAIN reading' : reading'[i].page = reading[j].page /\ reading'[i].dir = reading[j].dir
<1>1. CASE ReadFolder
  <2>1. j + 1 \in 2..Len(reading) + 1 /\ j + 1 \in DOMAIN reading' /\ (j + 1) - 1 = j
    BY <1>1, Enters
  <2> QED
    BY <1>1, <2>1, Enters
<1>2. CASE ~ReadFolder
  <2>1. OnBy(<<>>) /\ More
    BY <1>2 DEF Reads, SkipRecord, ReadLabel, ReadFile
  <2> QED
    BY <2>1, GoesOn
<1> QED
  BY <1>1, <1>2

LEMMA CallsReadIs ==
  /\ CallsRead <=> \A i \in DOMAIN reading :
       EntriesOf(pages[reading[i].page]) = Only(SubSeq(Disk[reading[i].dir], 1, reading[i].offset), Visible)
  /\ CallsRead' <=> \A i \in DOMAIN reading' :
       EntriesOf(pages'[reading'[i].page]) = Only(SubSeq(Disk[reading'[i].dir], 1, reading'[i].offset), Visible)
BY DEF CallsRead, ReadTo, Listing, EntriesOf

LEMMA CallsReadOn ==
  ASSUME Typed, CallsRead, CallsNest, Reads
  PROVE  CallsRead'
<1> SUFFICES ASSUME NEW i \in DOMAIN reading'
             PROVE  EntriesOf(pages'[reading'[i].page])
                      = Only(SubSeq(Disk[reading'[i].dir], 1, reading'[i].offset), Visible)
  BY CallsReadIs
<1>1. CASE \E j \in DOMAIN reading :
              /\ reading'[i].page = reading[j].page /\ reading'[i].dir = reading[j].dir
              /\ IF j = 1 THEN reading'[i].offset = Top.offset + 1 ELSE reading'[i] = reading[j]
  <2>1. PICK j \in DOMAIN reading :
              /\ reading'[i].page = reading[j].page /\ reading'[i].dir = reading[j].dir
              /\ IF j = 1 THEN reading'[i].offset = Top.offset + 1 ELSE reading'[i] = reading[j]
    BY <1>1
  <2> DEFINE P == Top.page
             d == Top.dir
             n == Top.offset + 1
  <2>2. EntriesOf(pages'[P]) = Only(SubSeq(Disk[d], 1, n), Visible)
        /\ \A p \in DOMAIN pages : p # P => EntriesOf(pages'[p]) = EntriesOf(pages[p])
    BY TopReads, ListingIs DEF ReadTo
  <2>3. Top = reading[1] /\ 1 \in DOMAIN reading
    BY CallsOf
  <2>4. CASE j = 1
    BY <2>1, <2>2, <2>3, <2>4
  <2>5. CASE j # 1
    <3>1. reading[j].page # P /\ reading[j].page \in DOMAIN pages
      BY <2>3, <2>5, CallsOf DEF CallsNest, Typed, TypedCalls
    <3> HIDE DEF P, d, n
    <3>2. EntriesOf(pages[reading[j].page]) = Only(SubSeq(Disk[reading[j].dir], 1, reading[j].offset), Visible)
      BY CallsReadIs
    <3> QED
      BY <2>1, <2>2, <2>5, <3>1, <3>2
  <2> QED
    BY <2>4, <2>5
<1>2. CASE /\ ReadFolder /\ reading'[i].page = Len(pages) + 1 /\ reading'[i].offset = 0
           /\ reading'[i].dir = Record.clu
  <2>1. pages'[Len(pages) + 1] = <<>>
    BY <1>2, FolderGrows
  <2>2. EntriesOf(<<>>) = <<>>
    BY DEF EntriesOf
  <2>3. SubSeq(Disk[Record.clu], 1, 0) = <<>>
    <3>1. Disk[Record.clu] \in Seq(Entries)
      BY <1>2, Reading, DiskIs DEF ReadFolder
    <3> QED
      BY <3>1
  <2> QED
    BY <1>2, <2>1, <2>2, <2>3, OnlyEmpty
<1> QED
  BY <1>1, <1>2, CallsCome

LEMMA CallsNestOn ==
  ASSUME Typed, CallsNest, Reads
  PROVE  CallsNest'
<1> DEFINE N == Len(reading)
           M == Len(reading')
           n == Len(pages)
<1>1. /\ N \in Nat \ {0} /\ DOMAIN reading = 1..N /\ M \in Nat /\ DOMAIN reading' = 1..M /\ M >= N
      /\ reading # <<>> /\ n \in Nat /\ DOMAIN pages = 1..n
      /\ reading'[M].page = reading[N].page /\ reading'[M].dir = reading[N].dir /\ pnum' = pnum
  <2>1. Len(<<>>) = 0
    OBVIOUS
  <2> QED
    BY <2>1, CallsOf
<1>2. \A j \in DOMAIN reading : reading[j].page \in 1..n
  BY DEF Typed, TypedCalls
<1>3. n >= Len(Volumes) /\ Len(Volumes) \in Nat
  BY DiskIs DEF Typed, TypedPages
<1>4. reading'[M].page = pnum' /\ reading'[M].dir = Volumes[pnum']
  BY <1>1 DEF CallsNest
<1>5. ASSUME NEW i \in DOMAIN reading'
      PROVE \/ \E j \in DOMAIN reading : reading'[i].page = reading[j].page /\ i = j + (M - N)
            \/ i = 1 /\ M = N + 1 /\ reading'[i].page = n + 1
  BY CallsCome
<1> HIDE DEF N, M, n
<1>6. ASSUME NEW i \in 1..M - 1 PROVE reading'[i].page > Len(Volumes)
  <2>1. i \in DOMAIN reading'
    BY <1>1
  <2>2. CASE \E j \in DOMAIN reading : reading'[i].page = reading[j].page /\ i = j + (M - N)
    <3>1. PICK j \in DOMAIN reading : reading'[i].page = reading[j].page /\ i = j + (M - N)
      BY <2>2
    <3>2. j \in 1..N - 1
      BY <1>1, <3>1
    <3> QED
      BY <3>1, <3>2 DEF CallsNest, N
  <2>3. CASE reading'[i].page = n + 1
    BY <1>1, <1>3, <2>3
  <2> QED
    BY <1>5, <2>1, <2>2, <2>3
<1>7. ASSUME NEW i \in DOMAIN reading', NEW k \in DOMAIN reading', reading'[i].page = reading'[k].page
      PROVE  i = k
  <2>1. CASE (\E j \in DOMAIN reading : reading'[i].page = reading[j].page /\ i = j + (M - N))
             /\ (\E j \in DOMAIN reading : reading'[k].page = reading[j].page /\ k = j + (M - N))
    BY <1>7, <2>1 DEF CallsNest
  <2>2. CASE i = 1 /\ k = 1
    BY <2>2
  <2>3. \A j \in DOMAIN reading : reading[j].page # n + 1
    BY <1>1, <1>2
  <2>4. CASE \/ (\E j \in DOMAIN reading : reading'[i].page = reading[j].page) /\ reading'[k].page = n + 1
             \/ (\E j \in DOMAIN reading : reading'[k].page = reading[j].page) /\ reading'[i].page = n + 1
    BY <1>7, <2>3, <2>4
  <2> QED
    BY <1>5, <2>1, <2>2, <2>4
<1> QED
  BY <1>1, <1>4, <1>6, <1>7 DEF CallsNest, M

LEMMA FoldersLeadOn ==
  ASSUME Typed, Tree, Reads
  PROVE  FoldersLead'
<1>1. /\ Top = reading[1] /\ 1 \in DOMAIN reading
      /\ Len(pages) \in Nat /\ DOMAIN pages = 1..Len(pages) /\ Top.page \in DOMAIN pages
      /\ Len(pages') \in Nat /\ Len(pages') >= Len(pages)
  BY CallsOf
<1>2. \A j \in DOMAIN reading : reading[j].page \in 1..Len(pages)
  BY DEF Typed, TypedCalls
<1>3. ASSUME NEW q, NEW d, Leads(q, d) PROVE Leads(q, d)'
  <2>1. q \in 1..Len(pages)
    BY <1>1, <1>3, DiskIs DEF Leads
  <2>2. ASSUME NEW i \in DOMAIN reading', reading'[i].page = q
        PROVE  \E j \in DOMAIN reading : reading[j].page = q /\ reading[j].dir = reading'[i].dir
    <3>1. reading'[i].page # Len(pages) + 1
      BY <1>1, <2>1, <2>2
    <3> QED
      BY <2>2, <3>1, CallsCome
  <2>3. \A j \in DOMAIN reading : reading[j].page = q => \E i \in DOMAIN reading' : reading'[i].page = q
    BY CallsStay
  <2>4. ASSUME \A j \in DOMAIN reading : reading[j].page # q PROVE Listing(q)' = Listing(q)
    <3> DEFINE P == Top.page
    <3>1. \A p \in DOMAIN pages : p # P => EntriesOf(pages'[p]) = EntriesOf(pages[p])
      BY TopReads, ListingIs DEF Tree
    <3>2. q # P /\ q \in DOMAIN pages
      BY <1>1, <2>1, <2>4
    <3> HIDE DEF P
    <3> QED
      BY <3>1, <3>2, ListingIs
  <2> QED
    BY <1>1, <1>3, <2>2, <2>3, <2>4, LeadsOn
<1>4. ASSUME NEW p \in DOMAIN pages', NEW k \in DOMAIN pages'[p], pages'[p][k].kind = "folder",
             NEW q, q = pages'[p][k].director, NEW d, d = pages'[p][k].clu
      PROVE  Leads(q, d)'
  <2>1. CASE p \in DOMAIN pages /\ k \in DOMAIN pages[p] /\ pages'[p][k] = pages[p][k]
    BY <1>3, <1>4, <2>1 DEF Tree, FoldersLead
  <2>2. CASE ReadFolder /\ q = Len(pages) + 1 /\ d = Record.clu
    <3>1. /\ Len(pages') = Len(pages) + 1 /\ Len(pages) >= Len(Volumes) /\ Len(Volumes) \in Nat
      BY <2>2, FolderGrows, DiskIs DEF Typed, TypedPages
    <3>2. 1 \in DOMAIN reading' /\ reading'[1].page = q
      BY <2>2, Enters
    <3>3. ASSUME NEW i \in DOMAIN reading', reading'[i].page = q PROVE reading'[i].dir = d
      <4>1. ~\E j \in DOMAIN reading : reading'[i].page = reading[j].page
        BY <1>1, <1>2, <2>2, <3>3
      <4> QED
        BY <2>2, <4>1, CallsCome
    <3>4. q \in Len(Volumes) + 1..Len(pages')
      BY <1>1, <2>2, <3>1
    <3> QED
      BY <3>2, <3>3, <3>4 DEF Leads
  <2>3. CASE ReadLabel \/ ReadFile
    <3>1. Record.kind # "folder"
      BY <2>3 DEF ReadLabel, ReadFile
    <3> QED
      BY <1>4, <2>1, <3>1, NewRecords
  <2> QED
    BY <1>4, <2>1, <2>2, <2>3, NewRecords
<1>5. ASSUME NEW p \in DOMAIN pages', NEW k \in DOMAIN pages'[p], pages'[p][k].kind = "folder"
      PROVE  LeadsIn(reading', pages', pages'[p][k].director, pages'[p][k].clu)
  BY <1>4, <1>5, FoldersLeadIs
<1> QED
  BY <1>5, FoldersLeadIs

LEMMA VolumesReadIs ==
  VolumesRead' <=>
    \A v \in DOMAIN Volumes :
      /\ v < pnum' /\ Volumes[v] # NoFolder => EntriesOf(pages'[v]) = Shown(Volumes[v])
      /\ ~(v < pnum' /\ Volumes[v] # NoFolder) /\ ~(v = pnum' /\ reading' # <<>>) => pages'[v] = <<>>
      /\ sd_p'[v] = IF v < pnum' /\ Volumes[v] # NoFolder THEN Disk[Volumes[v]][1].name ELSE NoName
BY DEF VolumesRead, Known, Listing, EntriesOf

LEMMA VolumesReadOn ==
  ASSUME Typed, Tree, Reads
  PROVE  VolumesRead'
<1> SUFFICES ASSUME NEW v \in DOMAIN Volumes
    PROVE /\ v < pnum' /\ Volumes[v] # NoFolder => EntriesOf(pages'[v]) = Shown(Volumes[v])
          /\ ~(v < pnum' /\ Volumes[v] # NoFolder) /\ ~(v = pnum' /\ reading' # <<>>) => pages'[v] = <<>>
          /\ sd_p'[v] = IF v < pnum' /\ Volumes[v] # NoFolder THEN Disk[Volumes[v]][1].name ELSE NoName
  BY VolumesReadIs
<1>1. /\ Len(reading) \in Nat \ {0} /\ DOMAIN reading = 1..Len(reading) /\ Top = reading[1]
      /\ Len(pages) \in Nat /\ DOMAIN pages = 1..Len(pages)
      /\ pnum' = pnum /\ sd_p' = sd_p /\ reading' # <<>> /\ reading # <<>>
  <2>1. Len(<<>>) = 0
    OBVIOUS
  <2> QED
    BY <2>1, CallsOf
<1>2. v \in DOMAIN pages /\ v \in 1..Len(Volumes) /\ Len(Volumes) \in Nat /\ pnum \in 1..Len(Volumes)
  BY <1>1, DiskIs DEF Typed, TypedPages, TypedCalls
<1>3. /\ v < pnum /\ Volumes[v] # NoFolder => EntriesOf(pages[v]) = Shown(Volumes[v])
      /\ ~(v < pnum /\ Volumes[v] # NoFolder) /\ v # pnum => pages[v] = <<>>
      /\ sd_p[v] = IF v < pnum /\ Volumes[v] # NoFolder THEN Disk[Volumes[v]][1].name ELSE NoName
  BY DEF Tree, VolumesRead, Known, Listing, EntriesOf
<1>4. CASE v = Top.page
  <2>1. Len(reading) = 1
    <3>1. ASSUME Len(reading) # 1 PROVE FALSE
      <4>1. 1 \in 1..Len(reading) - 1
        BY <1>1, <3>1
      <4>2. Top.page > Len(Volumes)
        BY <1>1, <4>1 DEF Tree, CallsNest
      <4> QED
        BY <1>2, <1>4, <4>2
    <3> QED
      BY <3>1
  <2>2. v = pnum
    BY <1>1, <1>4, <2>1 DEF Tree, CallsNest
  <2> QED
    BY <1>1, <1>2, <1>3, <2>2
<1>5. CASE v # Top.page
  <2>1. pages'[v] = pages[v]
    <3>1. CASE SkipRecord
      BY <3>1 DEF SkipRecord
    <3>2. CASE ReadFolder
      BY <1>1, <1>2, <1>5, <3>2, FolderGrows
    <3>3. CASE ReadLabel \/ ReadFile
      <4>1. pages' = [pages EXCEPT ![Top.page] = Keep(0)]
        BY <3>3 DEF ReadLabel, ReadFile
      <4> QED
        BY <1>2, <1>5, <4>1
    <3> QED
      BY <3>1, <3>2, <3>3 DEF Reads
  <2> QED
    BY <1>1, <1>3, <2>1
<1> QED
  BY <1>4, <1>5

LEMMA TreeReads == ASSUME Typed, Tree, Reads PROVE Tree'
BY CallsReadOn, CallsNestOn, FoldersLeadOn, VolumesReadOn DEF Tree

LEMMA TreeInit == ASSUME Init PROVE Tree
<1>1. reading = <<>> /\ DOMAIN reading = {} /\ pnum = 1 /\ DOMAIN pages = DOMAIN Volumes
  BY DEF Init
<1>2. \A v \in DOMAIN Volumes : pages[v] = <<>> /\ sd_p[v] = NoName /\ ~Known(v)
  BY DiskIs DEF Init, Known
<1>3. CallsRead /\ FoldersLead /\ VolumesRead
  BY <1>1, <1>2 DEF CallsRead, FoldersLead, VolumesRead
<1>4. CallsNest
  <2>1. Len(reading) = 0
    BY <1>1
  <2> QED
    BY <1>1, <2>1 DEF CallsNest
<1> QED
  BY <1>3, <1>4 DEF Tree

\* A call that has read all its records has a page that shows its folder.
LEMMA TopComplete ==
  ASSUME Typed, CallsRead, reading # <<>>, ~More
  PROVE  Listing(Top.page) = Shown(Top.dir) /\ Top = reading[1] /\ 1 \in DOMAIN reading
<1>1. reading \in Seq(Calls)
  BY DEF Typed, TypedCalls
<1>2. Top = reading[1] /\ 1 \in DOMAIN reading /\ Top \in Calls
  BY <1>1 DEF Top
<1>3. Top.dir \in DOMAIN Disk /\ Top.offset \in Nat
  BY <1>2 DEF Calls
<1>4. Top.offset <= Len(Disk[Top.dir]) /\ Len(Disk[Top.dir]) \in Nat
  BY <1>2, <1>3, DiskIs DEF Typed, TypedCalls
<1>5. Top.offset = Len(Disk[Top.dir])
  BY <1>3, <1>4 DEF More
<1>6. ReadTo(Top.page, Top.dir, Top.offset)
  BY <1>2 DEF CallsRead
<1> QED
  BY <1>2, <1>3, <1>5, <1>6, ReadAll

LEMMA TreeLeave == ASSUME Typed, Tree, LeaveFolder PROVE Tree'
<1>1. reading \in Seq(Calls) /\ Len(reading) > 1 /\ reading # <<>> /\ ~More /\ reading' = Tail(reading)
      /\ UNCHANGED <<pnum, pages, sd_p>>
  BY DEF Typed, TypedCalls, LeaveFolder
<1>2. /\ DOMAIN reading' = 1..Len(reading) - 1 /\ Len(reading') = Len(reading) - 1 /\ Len(reading) \in Nat
      /\ DOMAIN reading = 1..Len(reading) /\ reading' # <<>>
      /\ \A i \in 1..Len(reading) - 1 : i + 1 \in DOMAIN reading /\ reading'[i] = reading[i + 1]
  <2> DEFINE t == Tail(reading)
  <2>1. /\ DOMAIN t = 1..Len(reading) - 1 /\ Len(t) = Len(reading) - 1 /\ Len(reading) \in Nat
        /\ DOMAIN reading = 1..Len(reading)
        /\ \A i \in 1..Len(reading) - 1 : i + 1 \in DOMAIN reading /\ t[i] = reading[i + 1]
    BY <1>1
  <2>2. 1 \in DOMAIN t /\ 1 \notin DOMAIN <<>>
    BY <1>1, <2>1
  <2> HIDE DEF t
  <2>3. t # <<>>
    BY <2>2
  <2> QED
    BY <1>1, <2>1, <2>3 DEF t
<1>3. Listing(Top.page) = Shown(Top.dir) /\ Top = reading[1] /\ 1 \in DOMAIN reading
  BY <1>1, TopComplete DEF Tree
<1>4. CallsRead'
  BY <1>1, <1>2, CallsReadIs DEF Tree
<1>5. CallsNest'
  <2>1. reading'[Len(reading')] = reading[Len(reading)]
    BY <1>1, <1>2
  <2>2. \A i \in 1..Len(reading') - 1 : i + 1 \in 1..Len(reading) - 1
    BY <1>1, <1>2
  <2>3. \A i \in DOMAIN reading' : \A j \in DOMAIN reading' : i + 1 = j + 1 => i = j
    BY <1>2
  <2> QED
    BY <1>1, <1>2, <2>1, <2>2, <2>3 DEF Tree, CallsNest
<1>6. FoldersLead'
  <2>1. ASSUME NEW q, NEW d, Leads(q, d) PROVE Leads(q, d)'
    <3>1. ASSUME NEW i \in DOMAIN reading', reading'[i].page = q
          PROVE  \E j \in DOMAIN reading : reading[j].page = q /\ reading[j].dir = reading'[i].dir
      BY <1>2, <3>1
    <3>2. ASSUME NEW j \in DOMAIN reading, reading[j].page = q, reading[j].dir = d
          PROVE  (\E i \in DOMAIN reading' : reading'[i].page = q) \/ Listing(q)' = Shown(d)
      <4>1. CASE j = 1
        BY <1>1, <1>3, <3>2, <4>1, ListingIs
      <4>2. CASE j # 1
        <5>1. j - 1 \in DOMAIN reading' /\ reading'[j - 1] = reading[j]
          BY <1>2, <4>2
        <5> QED
          BY <3>2, <5>1
      <4> QED
        BY <4>1, <4>2
    <3>3. Listing(q)' = Listing(q)
      BY <1>1, ListingIs
    <3>4. Len(pages) \in Nat
      BY DEF Typed, TypedPages
    <3> QED
      BY <1>1, <2>1, <3>1, <3>2, <3>3, <3>4, LeadsOn
  <2>2. ASSUME NEW p \in DOMAIN pages, NEW k \in DOMAIN pages[p], pages[p][k].kind = "folder"
        PROVE  LeadsIn(reading', pages', pages[p][k].director, pages[p][k].clu)
    <3>1. Leads(pages[p][k].director, pages[p][k].clu)
      BY <2>2 DEF Tree, FoldersLead
    <3> DEFINE q == pages[p][k].director
               d == pages[p][k].clu
    <3>2. \A a, b : Leads(a, b) => LeadsIn(reading', pages', a, b)
      BY <2>1, FoldersLeadIs
    <3> QED
      BY <3>1, <3>2
  <2> QED
    BY <1>1, <2>2, FoldersLeadIs
<1>7. VolumesRead'
  BY <1>1, <1>2, VolumesReadIs DEF Tree, VolumesRead, Known, Listing, EntriesOf
<1> QED
  BY <1>4, <1>5, <1>6, <1>7 DEF Tree

LEMMA TreeStart == ASSUME Typed, Tree, StartVolume PROVE Tree'
<1>1. reading = <<>> /\ pnum \in DOMAIN Volumes /\ pages' = pages /\ sd_p' = sd_p
  BY DEF StartVolume
<1>2. Len(pages) \in Nat /\ DOMAIN reading = {} /\ pnum \in 1..Len(Volumes) /\ Len(Volumes) \in Nat
  BY <1>1, DiskIs DEF Typed, TypedPages
<1>3. ASSUME NEW q, NEW d, Leads(q, d), \A i \in DOMAIN reading' : reading'[i].page <= Len(Volumes)
      PROVE  Leads(q, d)'
  <2>1. q \in Len(Volumes) + 1..Len(pages') /\ EntriesOf(pages'[q]) = Shown(d)
    BY <1>1, <1>2, <1>3, ListingIs DEF Leads
  <2>2. \A i \in DOMAIN reading' : reading'[i].page # q
    BY <1>2, <1>3, <2>1
  <2> QED
    BY <2>1, <2>2, ListingIs DEF Leads
<1>4. ASSUME \A i \in DOMAIN reading' : reading'[i].page <= Len(Volumes) PROVE FoldersLead'
  <2>1. \A a, b : Leads(a, b) => LeadsIn(reading', pages', a, b)
    BY <1>3, <1>4, FoldersLeadIs
  <2>2. \A p \in DOMAIN pages : \A k \in DOMAIN pages[p] : pages[p][k].kind = "folder" =>
          LeadsIn(reading', pages', pages[p][k].director, pages[p][k].clu)
    BY <2>1 DEF Tree, FoldersLead
  <2> QED
    BY <1>1, <2>2, FoldersLeadIs
<1>5. pages[pnum] = <<>>
  BY <1>1, <1>2 DEF Tree, VolumesRead, Known
<1>6. \A v \in DOMAIN Volumes :
        /\ v < pnum /\ Volumes[v] # NoFolder => EntriesOf(pages[v]) = Shown(Volumes[v])
        /\ ~(v < pnum /\ Volumes[v] # NoFolder) => pages[v] = <<>>
        /\ sd_p[v] = IF v < pnum /\ Volumes[v] # NoFolder THEN Disk[Volumes[v]][1].name ELSE NoName
  BY <1>1 DEF Tree, VolumesRead, Known, Listing, EntriesOf
<1>7. CASE Volumes[pnum] = NoFolder
  <2>1. pnum' = pnum + 1 /\ reading' = <<>> /\ DOMAIN reading' = {}
    BY <1>1, <1>2, <1>7 DEF StartVolume
  <2>2. CallsRead' /\ FoldersLead'
    BY <1>4, <2>1, CallsReadIs
  <2>3. CallsNest'
    <3>1. Len(reading') = 0
      BY <2>1
    <3> QED
      BY <2>1, <3>1 DEF CallsNest
  <2>4. \A v \in DOMAIN Volumes : v < pnum' /\ Volumes[v] # NoFolder <=> v < pnum /\ Volumes[v] # NoFolder
    BY <1>2, <1>7, <2>1, DiskIs
  <2>5. VolumesRead'
    BY <1>1, <1>6, <2>4, VolumesReadIs
  <2> QED
    BY <2>2, <2>3, <2>5 DEF Tree
<1>8. CASE Volumes[pnum] # NoFolder
  <2> DEFINE c == [dir |-> Volumes[pnum], offset |-> 0, page |-> pnum, mark |-> 0]
  <2>1. pnum' = pnum /\ reading' = <<c>>
    BY <1>8 DEF StartVolume
  <2>2. c.dir = Volumes[pnum] /\ c.offset = 0 /\ c.page = pnum
    OBVIOUS
  <2> HIDE DEF c
  <2>3. DOMAIN reading' = {1} /\ Len(reading') = 1 /\ reading'[1] = c /\ reading' # <<>>
    BY <2>1
  <2>4. CallsRead'
    <3>1. SubSeq(Disk[c.dir], 1, 0) = <<>> /\ EntriesOf(<<>>) = <<>>
      <4>1. Disk[c.dir] \in Seq(Entries)
        BY <1>1, <1>8, <2>2, DiskIs
      <4> QED
        BY <4>1 DEF EntriesOf
    <3> QED
      BY <1>1, <1>5, <2>2, <2>3, <3>1, OnlyEmpty, CallsReadIs, ZenonT(60)
  <2>5. CallsNest'
    BY <2>1, <2>2, <2>3 DEF CallsNest
  <2>6. FoldersLead'
    BY <1>2, <1>4, <2>2, <2>3
  <2>7. VolumesRead'
    BY <1>1, <1>6, <2>1, <2>3, VolumesReadIs
  <2> QED
    BY <2>4, <2>5, <2>6, <2>7 DEF Tree
<1> QED
  BY <1>7, <1>8

\* The name of a partition is that of its label.
LEMMA LabelShown ==
  ASSUME Labelled, NEW d \in Roots \ {NoFolder}
  PROVE  /\ d \in DOMAIN Disk /\ Shown(d) \in Seq(Entries) /\ Shown(d) # <<>> /\ Shown(d)[1] = Disk[d][1]
         /\ Disk[d][1].name # NoName
<1>1. d \in DOMAIN Disk
  BY DiskIs DEF Roots
<1>2. Disk[d] \in Seq(Entries) /\ Disk[d] # <<>> /\ Disk[d][1].kind = "label"
  BY <1>1, DiskIs DEF Labelled
<1>3. 1 \in DOMAIN Disk[d] /\ Disk[d][1] \in Entries
  BY <1>2
<1>4. Disk[d][1] \in Visible
  BY <1>2, <1>3 DEF Visible
<1>5. Disk[d][1].name # NoName
  BY <1>1, <1>2, <1>3 DEF Labelled
<1>6. Only(Disk[d], Visible) \in Seq(Entries)
  <2>1. Entries \cap Visible \subseteq Entries
    OBVIOUS
  <2>2. Only(Disk[d], Visible) \in Seq(Entries \cap Visible)
    BY <1>2, OnlyType
  <2> QED
    BY <2>1, <2>2
<1> QED
  BY <1>1, <1>2, <1>4, <1>5, <1>6, OnlyFirst DEF Shown

LEMMA TreeEndVolume == ASSUME Labelled, Typed, Tree, EndVolume PROVE Tree'
<1>1. /\ Len(reading) = 1 /\ ~More /\ reading' = <<>> /\ pnum' = pnum + 1 /\ pages' = pages
      /\ sd_p' = [sd_p EXCEPT ![pnum] = IF pages[pnum] = <<>> THEN NoName ELSE pages[pnum][1].name]
  BY DEF EndVolume
<1>2. reading # <<>> /\ DOMAIN reading' = {} /\ Len(reading') = 0
  <2>1. Len(<<>>) = 0
    OBVIOUS
  <2> QED
    BY <1>1, <2>1
<1>3. Listing(Top.page) = Shown(Top.dir) /\ Top = reading[1] /\ DOMAIN reading = {1}
  <2>1. DOMAIN reading = 1..1
    BY <1>1 DEF Typed, TypedCalls
  <2> QED
    BY <1>1, <1>2, <2>1, TopComplete DEF Tree
<1>4. Top.page = pnum /\ Top.dir = Volumes[pnum] /\ pnum \in 1..Len(Volumes) /\ Len(Volumes) \in Nat
  BY <1>1, <1>2, <1>3, DiskIs DEF Tree, CallsNest, Typed, TypedCalls
<1>5. EntriesOf(pages[pnum]) = Shown(Volumes[pnum])
  BY <1>3, <1>4, ListingIs
<1>6. Volumes[pnum] # NoFolder
  <2>1. reading[1] \in Calls
    <3>1. reading \in Seq(Calls) /\ 1 \in DOMAIN reading
      BY <1>3 DEF Typed, TypedCalls
    <3> QED
      BY <3>1
  <2>2. reading[1].dir \in DOMAIN Disk
    BY <2>1 DEF Calls
  <2> QED
    BY <1>3, <1>4, <2>2, DiskIs
<1>7. (IF pages[pnum] = <<>> THEN NoName ELSE pages[pnum][1].name) = Disk[Volumes[pnum]][1].name
  <2>1. Volumes[pnum] \in Roots \ {NoFolder}
    BY <1>4, <1>6, DiskIs DEF Roots
  <2>2. Shown(Volumes[pnum]) # <<>> /\ Shown(Volumes[pnum])[1] = Disk[Volumes[pnum]][1]
    BY <2>1, LabelShown
  <2> DEFINE s == pages[pnum]
  <2>3. s \in Seq(Pointed)
    BY <1>4, DiskIs DEF Typed, TypedPages
  <2> HIDE DEF s
  <2>4. s # <<>>
    <3>1. EntriesOf(<<>>) = <<>>
      BY DEF EntriesOf
    <3> QED
      BY <1>5, <2>2, <3>1 DEF s
  <2>5. EntriesOf(s)[1].name = s[1].name
    <3>1. 1 \in DOMAIN s
      BY <2>3, <2>4
    <3> QED
      BY <3>1 DEF EntriesOf
  <2> QED
    BY <1>5, <2>2, <2>4, <2>5 DEF s
<1>8. FoldersLead'
  <2>1. ASSUME NEW q, NEW d, Leads(q, d) PROVE LeadsIn(reading', pages', q, d)
    <3>1. q \in Len(Volumes) + 1..Len(pages) /\ Len(pages) \in Nat
      BY <2>1 DEF Leads, Typed, TypedPages
    <3>2. Listing(q) = Shown(d)
      <4>1. q # pnum
        BY <1>4, <3>1
      <4>2. \A i \in DOMAIN reading : reading[i].page # q
        BY <1>3, <1>4, <4>1
      <4> QED
        BY <2>1, <4>2 DEF Leads
    <3> QED
      BY <1>1, <1>2, <3>1, <3>2, ListingIs DEF LeadsIn
  <2> QED
    BY <1>1, <2>1, FoldersLeadIs DEF Tree, FoldersLead
<1>9. VolumesRead'
  <2>1. \A v \in DOMAIN Volumes :
        /\ v < pnum /\ Volumes[v] # NoFolder => EntriesOf(pages[v]) = Shown(Volumes[v])
        /\ ~(v < pnum /\ Volumes[v] # NoFolder) /\ v # pnum => pages[v] = <<>>
        /\ sd_p[v] = IF v < pnum /\ Volumes[v] # NoFolder THEN Disk[Volumes[v]][1].name ELSE NoName
    BY DEF Tree, VolumesRead, Known, Listing, EntriesOf
  <2>2. pnum \in DOMAIN sd_p
    BY <1>4 DEF Typed, TypedPlace
  <2>3. sd_p'[pnum] = Disk[Volumes[pnum]][1].name /\ \A v \in DOMAIN sd_p : v # pnum => sd_p'[v] = sd_p[v]
    BY <1>1, <1>7, <2>2
  <2> SUFFICES ASSUME NEW v \in DOMAIN Volumes
      PROVE /\ v < pnum' /\ Volumes[v] # NoFolder => EntriesOf(pages'[v]) = Shown(Volumes[v])
            /\ ~(v < pnum' /\ Volumes[v] # NoFolder) /\ ~(v = pnum' /\ reading' # <<>>) => pages'[v] = <<>>
            /\ sd_p'[v] = IF v < pnum' /\ Volumes[v] # NoFolder THEN Disk[Volumes[v]][1].name ELSE NoName
    BY VolumesReadIs
  <2>4. v \in 1..Len(Volumes) /\ v \in DOMAIN sd_p
    BY DiskIs DEF Typed, TypedPlace
  <2>5. v < pnum' <=> v < pnum \/ v = pnum
    BY <1>1, <1>4, <2>4
  <2>6. CASE v = pnum
    BY <1>1, <1>5, <1>6, <2>3, <2>5, <2>6
  <2>7. CASE v # pnum
    BY <1>1, <2>1, <2>3, <2>4, <2>5, <2>7
  <2> QED
    BY <2>6, <2>7
<1> QED
  BY <1>2, <1>8, <1>9 DEF Tree, CallsRead, CallsNest

LEMMA TreeEndBuild == ASSUME Typed, Tree, EndBuild PROVE Tree'
<1>1. pnum = Len(Volumes) + 1 /\ pnum' = pnum + 1 /\ UNCHANGED <<reading, pages, sd_p>> /\ Len(Volumes) \in Nat
  BY DiskIs DEF EndBuild
<1>2. reading = <<>> /\ DOMAIN reading = {} /\ Len(reading) = 0
  <2>1. reading = <<>>
    BY <1>1 DEF Typed, TypedCalls
  <2> QED
    BY <2>1
<1>3. FoldersLead'
  BY <1>1, FoldersLeadIs DEF Tree, FoldersLead, Leads, LeadsIn, Listing, EntriesOf
<1>4. \A v \in DOMAIN Volumes : v < pnum' /\ v < pnum
  BY <1>1, DiskIs
<1>5. VolumesRead'
  BY <1>1, <1>2, <1>4, VolumesReadIs DEF Tree, VolumesRead, Known, Listing, EntriesOf
<1> QED
  BY <1>1, <1>2, <1>3, <1>5 DEF Tree, CallsRead, CallsNest

LEMMA TreeStays == ASSUME Tree, UNCHANGED tree PROVE Tree'
BY DEF tree, Tree, CallsRead, CallsNest, FoldersLead, VolumesRead, ReadTo, Leads, Known, Listing

LEMMA TreeNext == ASSUME Labelled, Typed, Tree, [Next]_vars PROVE Tree'
<1>1. CASE UNCHANGED vars
  BY <1>1, TreeStays DEF vars
<1>2. CASE Build
  BY <1>2, TreeStart, TreeReads, TreeLeave, TreeEndVolume, TreeEndBuild DEF Build, Reads
<1>3. CASE Shell
  <2>1. UNCHANGED tree
    BY <1>3 DEF Shell, CdVolume, CdFolder, FindFolder, UserDir, NameFolder, RememberVolume, CdRoot, ListRoot
  <2> QED
    BY <2>1, TreeStays
<1>4. CASE Daemon
  <2>1. UNCHANGED tree
    BY <1>4, DaemonLinks DEF Typed
  <2> QED
    BY <2>1, TreeStays
<1> QED
  BY <1>1, <1>2, <1>3, <1>4 DEF Next

-----------------------------------------------------------------------------
(* The paths begin with the name of a partition.                           *)

LEMMA PathsStay ==
  ASSUME NamesOfPaths, UNCHANGED <<reading, tmp_name>>, Len(symbolic') = Len(symbolic), DOMAIN symbolic' = DOMAIN symbolic,
         \A i \in DOMAIN symbolic : symbolic'[i].path = symbolic[i].path
  PROVE  NamesOfPaths'
BY DEF NamesOfPaths, CallsMarked, NameBegins, PathsBegin

LEMMA PathsGrow ==
  ASSUME TypedLinks, PathsBegin, NEW path, path # <<>>, path[1] # NoName, NEW open, Link(path, open)
  PROVE  PathsBegin'
<1>1. PICK P : symbolic \in Seq(Links(P))
  BY DEF TypedLinks
<1> DEFINE e == [path |-> path, file |-> <<Top.page, Len(pages[Top.page]) + 1>>,
                 open |-> open, through |-> Outside]
<1>2. e.path = path /\ symbolic' = Append(symbolic, e)
  BY DEF Link
<1> HIDE DEF e
<1>3. /\ Len(symbolic) \in Nat /\ DOMAIN symbolic' = 1..Len(symbolic) + 1 /\ DOMAIN symbolic = 1..Len(symbolic)
      /\ symbolic'[Len(symbolic) + 1] = e
      /\ \A i \in 1..Len(symbolic) : symbolic'[i] = symbolic[i]
  BY <1>1, <1>2
<1> QED
  BY <1>2, <1>3 DEF PathsBegin

LEMMA PathsInit == ASSUME Init PROVE NamesOfPaths
BY DEF Init, NamesOfPaths, CallsMarked, NameBegins, PathsBegin

\* What is read behind the label of a partition has its name.
LEMMA LabelFirst ==
  ASSUME Labelled, Typed, CallsNest, NamesOfPaths, More, Record.kind # "label"
  PROVE  Len(tmp_name) = Len(reading) /\ tmp_name[1] # NoName
<1>1. reading # <<>>
  BY DEF More
<1>2. ASSUME Len(reading) = 1, reading[1].offset = 0 PROVE FALSE
  <2>1. Top.dir = Volumes[pnum] /\ Top = reading[1] /\ Top.dir \in DOMAIN Disk
    BY <1>1, <1>2, Reading DEF CallsNest
  <2>2. pnum \in DOMAIN Volumes
    BY <1>1, DiskIs DEF Typed, TypedCalls
  <2>3. Top.dir \in Roots \ {NoFolder}
    BY <2>1, <2>2, DiskIs DEF Roots
  <2>4. Record.kind = "label"
    BY <1>2, <2>1, <2>3 DEF Labelled, Record
  <2> QED
    BY <2>4
<1> QED
  BY <1>1, <1>2 DEF NamesOfPaths, NameBegins

LEMMA NameAppends ==
  ASSUME TypedName, Len(tmp_name) \in Nat \ {0}, tmp_name[1] # NoName, NEW n
  PROVE  /\ Append(tmp_name, n) # <<>> /\ Append(tmp_name, n)[1] # NoName
         /\ Len(Append(tmp_name, n)) = Len(tmp_name) + 1
<1>1. PICK T : tmp_name \in Seq(T)
  BY DEF TypedName
<1> QED
  BY <1>1

LEMMA PathsNext == ASSUME Labelled, Typed, Tree, NamesOfPaths, [Next]_vars PROVE NamesOfPaths'
<1>1. CASE UNCHANGED vars
  BY <1>1, PathsStay DEF vars, tree
<1>2. CASE Shell
  <2>1. UNCHANGED <<tree, symbolic>>
    BY <1>2 DEF Shell, CdVolume, CdFolder, FindFolder, UserDir, NameFolder, RememberVolume, CdRoot, ListRoot
  <2> QED
    BY <2>1, PathsStay DEF tree
<1>3. CASE Daemon
  <2>1. UNCHANGED tree
    BY <1>3, DaemonLinks DEF Typed
  <2>2. PICK i \in DOMAIN symbolic, o \in {"no", "yes"}, v \in {cd_rem, Outside} : Linked(i, o, v)
    BY <1>3, DaemonLinks DEF Typed, Opened
  <2>3. DOMAIN symbolic' = DOMAIN symbolic /\ \A j \in DOMAIN symbolic : symbolic'[j].path = symbolic[j].path
    BY <2>2, LinkChanges DEF Typed
  <2> QED
    BY <2>1, <2>3 DEF tree, NamesOfPaths, CallsMarked, NameBegins, PathsBegin
<1>4. CASE EndBuild
  BY <1>4, PathsStay DEF EndBuild
<1>5. CASE EndVolume
  <2>1. reading' = <<>> /\ DOMAIN reading' = {} /\ symbolic' = symbolic
    BY <1>5 DEF EndVolume
  <2> QED
    BY <2>1 DEF NamesOfPaths, CallsMarked, NameBegins, PathsBegin
<1>6. CASE StartVolume
  <2>1. CASE Volumes[pnum] = NoFolder
    BY <1>6, <2>1, PathsStay DEF StartVolume
  <2>2. CASE Volumes[pnum] # NoFolder
    <3> DEFINE c == [dir |-> Volumes[pnum], offset |-> 0, page |-> pnum, mark |-> 0]
    <3>1. reading' = <<c>> /\ symbolic' = symbolic /\ c.mark = 0 /\ c.offset = 0
      BY <1>6, <2>2 DEF StartVolume
    <3> HIDE DEF c
    <3>2. DOMAIN reading' = {1} /\ Len(reading') = 1 /\ reading'[1] = c
      BY <3>1
    <3> QED
      BY <3>1, <3>2 DEF NamesOfPaths, CallsMarked, NameBegins, PathsBegin
  <2> QED
    BY <2>1, <2>2
<1>7. CASE SkipRecord \/ ReadFile
  <2>1. More /\ OnBy(<<>>) /\ tmp_name' = tmp_name /\ Record.kind # "label"
    BY <1>7 DEF SkipRecord, ReadFile
  <2>2. Len(tmp_name) = Len(reading) /\ tmp_name[1] # NoName
    BY <2>1, LabelFirst DEF Tree
  <2>3. CallsMarked' /\ NameBegins'
    BY <2>1, <2>2, GoesOn DEF NamesOfPaths, CallsMarked, NameBegins
  <2>4. PathsBegin'
    <3>1. CASE symbolic' = symbolic
      BY <3>1 DEF NamesOfPaths, PathsBegin
    <3>2. CASE symbolic' # symbolic
      <4> DEFINE path == Append(tmp_name, Record.name)
      <4>1. Link(path, "no")
        BY <1>7, <3>2 DEF SkipRecord, ReadFile
      <4>2. path # <<>> /\ path[1] # NoName
        BY <2>1, <2>2, GoesOn, NameAppends DEF Typed
      <4> HIDE DEF path
      <4> QED
        BY <4>1, <4>2, PathsGrow DEF Typed, NamesOfPaths
    <3> QED
      BY <3>1, <3>2
  <2> QED
    BY <2>3, <2>4 DEF NamesOfPaths
<1>8. CASE ReadLabel
  <2>1. /\ More /\ OnBy(<<>>) /\ Record.kind = "label" /\ tmp_name' = <<Record.name>>
        /\ Link(<<Record.name>>, "folder")
    BY <1>8 DEF ReadLabel
  <2>2. Top = reading[1] /\ Top.dir \in Roots /\ Record.name # NoName
    BY <2>1, Reading, DiskIs DEF Labelled, Record
  <2>3. Len(reading) = 1 /\ Len(reading') = 1
    <3>1. Len(reading) \in Nat \ {0} /\ DOMAIN reading = 1..Len(reading) /\ Len(reading') = Len(reading)
      BY <2>1, GoesOn
    <3>2. ~(1 < Len(reading))
      BY <2>2, <3>1 DEF NamesOfPaths, CallsMarked
    <3> QED
      BY <3>1, <3>2
  <2> DEFINE path == <<Record.name>>
  <2>4. path # <<>> /\ path[1] = Record.name /\ Len(path) = 1
    OBVIOUS
  <2> HIDE DEF path
  <2>5. PathsBegin'
    BY <2>1, <2>2, <2>4, PathsGrow DEF Typed, NamesOfPaths, path
  <2>6. CallsMarked' /\ NameBegins'
    BY <2>1, <2>2, <2>3, <2>4, GoesOn DEF NamesOfPaths, CallsMarked, NameBegins, path
  <2> QED
    BY <2>5, <2>6 DEF NamesOfPaths
<1>9. CASE ReadFolder
  <2>1. More /\ Record.kind = "folder" /\ tmp_name' = Append(tmp_name, Record.name) /\ Link(tmp_name', "folder")
    BY <1>9 DEF ReadFolder
  <2>2. Len(tmp_name) = Len(reading) /\ tmp_name[1] # NoName
    BY <2>1, LabelFirst DEF Tree
  <2>3. Len(reading) \in Nat \ {0} /\ DOMAIN reading = 1..Len(reading) /\ Len(reading') = Len(reading) + 1
        /\ DOMAIN reading' = 1..Len(reading) + 1
    BY <1>9, Enters
  <2>4. tmp_name' # <<>> /\ tmp_name'[1] # NoName /\ Len(tmp_name') = Len(reading')
    BY <2>1, <2>2, <2>3, NameAppends DEF Typed
  <2>5. PathsBegin'
    BY <2>1, <2>4, PathsGrow DEF Typed, NamesOfPaths
  <2>6. Record.clu \notin Roots
    BY <2>1, Reading DEF Labelled, Record
  <2>7. ASSUME NEW i \in DOMAIN reading'
        PROVE /\ reading'[i].mark = Len(reading') - i
              /\ i < Len(reading') => reading'[i].dir \notin Roots
    <3>1. CASE i = 1
      BY <1>9, <2>2, <2>3, <2>6, <3>1, Enters
    <3>2. CASE i # 1
      <4>1. /\ i - 1 \in DOMAIN reading /\ reading'[i].mark = reading[i - 1].mark
            /\ reading'[i].dir = reading[i - 1].dir
        BY <1>9, <2>3, <3>2, Enters
      <4>2. /\ reading[i - 1].mark = Len(reading) - (i - 1)
            /\ i - 1 < Len(reading) => reading[i - 1].dir \notin Roots
        BY <4>1 DEF NamesOfPaths, CallsMarked
      <4> QED
        BY <2>3, <4>1, <4>2
    <3> QED
      BY <3>1, <3>2
  <2> QED
    BY <2>4, <2>5, <2>7 DEF NamesOfPaths, CallsMarked, NameBegins
<1>10. CASE LeaveFolder
  <2>1. Len(reading) > 1 /\ reading' = Tail(reading) /\ tmp_name' = SubSeq(tmp_name, 1, Top.mark)
        /\ symbolic' = symbolic
    BY <1>10 DEF LeaveFolder, BackMark
  <2>2. reading \in Seq(Calls) /\ Len(reading) \in Nat /\ reading # <<>>
    BY <2>1 DEF Typed, TypedCalls
  <2>3. /\ DOMAIN reading' = 1..Len(reading) - 1 /\ Len(reading') = Len(reading) - 1
        /\ \A i \in 1..Len(reading) - 1 : i + 1 \in DOMAIN reading /\ reading'[i] = reading[i + 1]
    BY <2>1, <2>2
  <2>4. Len(tmp_name) = Len(reading) /\ tmp_name[1] # NoName
    BY <2>1, <2>2 DEF NamesOfPaths, NameBegins
  <2>5. Top.mark = Len(reading) - 1
    BY <2>1, <2>2 DEF Top, NamesOfPaths, CallsMarked
  <2>6. Len(tmp_name') = Len(reading') /\ tmp_name'[1] # NoName
    <3>1. PICK T : tmp_name \in Seq(T)
      BY DEF Typed, TypedName
    <3> DEFINE n == Len(reading) - 1
    <3>2. n \in Nat /\ n >= 1 /\ n <= Len(tmp_name) /\ tmp_name' = SubSeq(tmp_name, 1, n) /\ n = Len(reading')
      BY <2>1, <2>2, <2>3, <2>4, <2>5
    <3> HIDE DEF n
    <3>3. Len(SubSeq(tmp_name, 1, n)) = n /\ SubSeq(tmp_name, 1, n)[1] = tmp_name[1]
      BY <3>1, <3>2
    <3> QED
      BY <2>4, <3>2, <3>3
  <2>7. ASSUME NEW i \in DOMAIN reading'
        PROVE /\ reading'[i].mark = Len(reading') - i
              /\ i < Len(reading') => reading'[i].dir \notin Roots
    <3>1. i \in Nat /\ i + 1 \in DOMAIN reading /\ reading'[i] = reading[i + 1]
      BY <2>2, <2>3
    <3>2. /\ reading[i + 1].mark = Len(reading) - (i + 1)
          /\ i + 1 < Len(reading) => reading[i + 1].dir \notin Roots
      BY <3>1 DEF NamesOfPaths, CallsMarked
    <3>3. Len(reading) - (i + 1) = Len(reading') - i /\ (i < Len(reading') => i + 1 < Len(reading))
      BY <2>2, <2>3, <3>1
    <3> QED
      BY <3>1, <3>2, <3>3
  <2> QED
    BY <2>1, <2>6, <2>7 DEF NamesOfPaths, CallsMarked, NameBegins, PathsBegin
<1> QED
  BY <1>1, <1>2, <1>3, <1>4, <1>5, <1>6, <1>7, <1>8, <1>9, <1>10 DEF Next, Build

-----------------------------------------------------------------------------
(* The place of the shell, when programs open files only between two cd of  *)
(* partitions, and cd and cd_root are used as the code expects.             *)

AtRoot == kdirectory = <<>> /\ cd_rem = Outside /\ Opened = {}
In(n) == \E k \in First(pages[cd_rem], n) : /\ pages[cd_rem][k].kind = "folder"
                                            /\ current_page = pages[cd_rem][k].director
InVolume == Len(kdirectory) = 1 /\ cd_rem \in RootOf(kdirectory[1])
Inside == /\ cd_rem \in RootOf(kdirectory[1])
          /\ \/ Len(kdirectory) = 1 /\ current_page = cd_rem
             \/ Len(kdirectory) = 2 /\ In(kdirectory[2])
Entering == /\ shell.volume \in DOMAIN Volumes /\ current_page = shell.volume
            /\ shell.name = sd_p[shell.volume] /\ shell.name # NoName
Listed == file_dir \in {<<>>, Listing(current_page)}
Moving == shell.page = current_page /\ (\/ AtRoot /\ Entering
                                        \/ InVolume /\ In(shell.name) /\ shell.volume = Outside)
RootListed == Only(file_dir, Named) = Only(Partitions, Named)
Places ==
  /\ shell # Idle \/ kdirectory # <<>> => Done
  /\ shell.do = "none" => (AtRoot /\ (Done => RootListed)) \/ (Inside /\ Listed)
  /\ shell.do = "find" => Inside /\ InVolume /\ Listed /\ shell.volume = Outside
  /\ shell.do = "list" => Moving
  /\ shell.do = "name" => Moving /\ file_dir = Listing(current_page)
  /\ shell.do = "remember" => /\ Entering /\ cd_rem = Outside /\ Opened = {}
                              /\ kdirectory = <<shell.name>> /\ file_dir = Listing(current_page)
  /\ shell.do = "root" => Opened = {} /\ file_dir = <<>>

LEMMA PlacesInit == ASSUME Init PROVE Places
<1>1. Opened = {}
  BY DEF Init, Opened
<1>2. ~Done
  BY DiskIs DEF Init, Done
<1>3. shell = Idle /\ kdirectory = <<>> /\ AtRoot
  BY <1>1 DEF Init, AtRoot
<1>4. shell.do = "none"
  BY <1>3 DEF Idle
<1>5. /\ shell.do # "find" /\ shell.do # "list" /\ shell.do # "name"
      /\ shell.do # "remember" /\ shell.do # "root"
  BY <1>4
<1> QED
  BY <1>2, <1>3, <1>4, <1>5 DEF Places

\* The path that fopen looks for in the root begins with the empty name.
LEMMA NothingAtRoot ==
  ASSUME PathsBegin, kdirectory = <<>>, NEW n
  PROVE  Lookup(n) \ {0} = {}
<1> DEFINE path == Append(<<NoName>>, n)
           blanks == {k \in DOMAIN path : path[k] \in Short}
           least == CHOOSE k \in blanks : \A j \in blanks : k <= j
<1>1. UpToBlank(path) # <<>> /\ UpToBlank(path)[1] = NoName
  <2>1. path \in Seq({NoName, n}) /\ path[1] = NoName /\ DOMAIN path = {1, 2} /\ Len(path) = 2
    <3>1. <<NoName>> \in Seq({NoName, n}) /\ Len(<<NoName>>) = 1 /\ <<NoName>>[1] = NoName
      OBVIOUS
    <3> QED
      BY <3>1
  <2>2. CASE blanks = {}
    BY <2>1, <2>2 DEF UpToBlank
  <2>3. CASE blanks # {}
    <3>1. \E k \in blanks : \A j \in blanks : k <= j
      BY <2>1, <2>3
    <3>2. least \in {1, 2}
      BY <2>1, <3>1
    <3>3. UpToBlank(path) = SubSeq(path, 1, least)
      <4>1. UpToBlank(path) = IF blanks = {} THEN path ELSE SubSeq(path, 1, least)
        BY DEF UpToBlank
      <4> HIDE DEF path, blanks, least
      <4> QED
        BY <2>3, <4>1
    <3> HIDE DEF path, blanks, least
    <3>4. /\ Len(SubSeq(path, 1, 1)) = 1 /\ SubSeq(path, 1, 1)[1] = path[1]
          /\ Len(SubSeq(path, 1, 2)) = 2 /\ SubSeq(path, 1, 2)[1] = path[1]
      BY <2>1
    <3>5. Len(UpToBlank(path)) \in {1, 2} /\ UpToBlank(path)[1] = NoName
      BY <2>1, <3>2, <3>3, <3>4
    <3> QED
      BY <3>5
  <2> QED
    BY <2>2, <2>3
<1>2. Matching(path) = {}
  <2> HIDE DEF path
  <2> QED
    BY <1>1 DEF Matching, PathsBegin
<1>3. FirstOf(Matching(path)) = {}
  <2> HIDE DEF path
  <2>1. \A S : FirstOf(S) \subseteq S
    BY DEF FirstOf
  <2> QED
    BY <1>2, <2>1
<1>4. Append(IF kdirectory = <<>> THEN <<NoName>> ELSE kdirectory, n) = path
  BY Zenon
<1> QED
  BY <1>3, <1>4 DEF Lookup

LEMMA PartitionsType ==
  ASSUME TypedPlace
  PROVE  Partitions \in Seq(Entries) /\ DOMAIN Partitions = DOMAIN Volumes /\ Len(Partitions) = Len(Volumes)
<1>1. Len(Volumes) \in Nat /\ DOMAIN Volumes = 1..Len(Volumes)
  BY DiskIs
<1>2. ASSUME NEW v \in DOMAIN Volumes PROVE Partition(v) \in Entries
  BY <1>1 DEF TypedPlace, Partition, Entries, Kinds
<1> QED
  BY <1>1, <1>2 DEF Partitions

LEMMA PlacesBuild == ASSUME Typed, Places, Build PROVE Places'
<1>1. Len(Volumes) \in Nat /\ DOMAIN Volumes = 1..Len(Volumes) /\ pnum \in 1..Len(Volumes) + 2
  BY DiskIs DEF Typed, TypedCalls
<1>2. pnum <= Len(Volumes) + 1 /\ (EndBuild \/ pnum' <= Len(Volumes) + 1)
  <2>1. Build => EndBuild \/ reading # <<>> \/ StartVolume
    <3>1. Len(<<>>) = 0
      OBVIOUS
    <3>2. LeaveFolder => Len(reading) > 1
      BY DEF LeaveFolder
    <3>3. EndVolume => Len(reading) = 1
      BY DEF EndVolume
    <3>4. SkipRecord \/ ReadFolder \/ ReadLabel \/ ReadFile => reading # <<>>
      BY DEF SkipRecord, ReadFolder, ReadLabel, ReadFile, More
    <3> QED
      BY <3>1, <3>2, <3>3, <3>4 DEF Build
  <2>2. EndBuild => pnum = Len(Volumes) + 1
    BY DEF EndBuild
  <2>3. StartVolume => pnum <= Len(Volumes)
    BY <1>1 DEF StartVolume
  <2>4. reading # <<>> => pnum <= Len(Volumes)
    BY DEF Typed, TypedCalls
  <2>5. pnum' \in {pnum, pnum + 1}
    BY DEF Build, StartVolume, SkipRecord, ReadFolder, ReadLabel, ReadFile, LeaveFolder, EndVolume, EndBuild
  <2> QED
    BY <1>1, <2>1, <2>2, <2>3, <2>4, <2>5
<1>3. ~Done /\ (Done' => EndBuild)
  <2>1. ~Done
    BY <1>1, <1>2 DEF Done
  <2>2. pnum' <= Len(Volumes) + 1 => ~Done'
    <3>1. pnum' \in {pnum, pnum + 1}
      BY DEF Build, StartVolume, SkipRecord, ReadFolder, ReadLabel, ReadFile, LeaveFolder, EndVolume, EndBuild
    <3> QED
      BY <1>1, <3>1 DEF Done
  <2> QED
    BY <1>2, <2>1, <2>2
<1>4. shell = Idle /\ shell.do = "none" /\ kdirectory = <<>> /\ cd_rem = Outside /\ Opened = {}
  <2>1. shell = Idle /\ kdirectory = <<>>
    BY <1>3 DEF Places
  <2>2. shell.do = "none"
    BY <2>1 DEF Idle
  <2>3. kdirectory = <<>> => ~Inside
    <3>1. Len(<<>>) = 0
      OBVIOUS
    <3> QED
      BY <3>1 DEF Inside
  <2> QED
    BY <2>1, <2>2, <2>3 DEF Places, AtRoot
<1>5. UNCHANGED <<kdirectory, cd_rem, shell>>
  BY DEF Build, StartVolume, SkipRecord, ReadFolder, ReadLabel, ReadFile, LeaveFolder, EndVolume, EndBuild, place
<1>6. Opened' = {}
  <2>1. symbolic' = symbolic \/ \E path : Link(path, "folder") \/ Link(path, "no")
    BY DEF Build, StartVolume, SkipRecord, ReadFolder, ReadLabel, ReadFile, LeaveFolder, EndVolume, EndBuild
  <2>2. ASSUME NEW path, NEW open \in {"folder", "no"}, Link(path, open) PROVE Opened' = {}
    <3> DEFINE e == [path |-> path, file |-> <<Top.page, Len(pages[Top.page]) + 1>>,
                     open |-> open, through |-> Outside]
    <3>1. e.open # "yes" /\ symbolic' = Append(symbolic, e)
      BY <2>2 DEF Link
    <3>2. PICK P : symbolic \in Seq(Links(P))
      BY DEF Typed, TypedLinks
    <3> HIDE DEF e
    <3>3. /\ Len(symbolic) \in Nat /\ DOMAIN symbolic' = 1..Len(symbolic) + 1 /\ DOMAIN symbolic = 1..Len(symbolic)
          /\ symbolic'[Len(symbolic) + 1] = e
          /\ \A i \in 1..Len(symbolic) : symbolic'[i] = symbolic[i]
      BY <3>1, <3>2
    <3> QED
      BY <1>4, <3>1, <3>3 DEF Opened
  <2> QED
    BY <1>4, <2>1, <2>2 DEF Opened
<1>7. Done' => RootListed'
  <2>1. SUFFICES ASSUME EndBuild PROVE RootListed'
    BY <1>3
  <2>2. file_dir' = Only(Partitions, Named) /\ Partitions' = Partitions
    BY <2>1 DEF EndBuild, Partitions, Partition
  <2>3. Partitions \in Seq(Entries)
    BY PartitionsType DEF Typed
  <2>4. Only(Partitions, Named) \in Seq(Named)
    <3>1. Entries \cap Named = Named
      BY DEF Named
    <3> QED
      BY <2>3, <3>1, OnlyType
  <2>5. Only(Only(Partitions, Named), Named) = Only(Partitions, Named)
    BY <2>4, OnlyAll
  <2> QED
    BY <2>2, <2>5 DEF RootListed
<1>8. shell'.do = "none" /\ AtRoot'
  BY <1>4, <1>5, <1>6 DEF AtRoot
<1>9. /\ shell'.do # "find" /\ shell'.do # "list" /\ shell'.do # "name"
      /\ shell'.do # "remember" /\ shell'.do # "root"
  BY <1>8
<1> QED
  BY <1>4, <1>5, <1>7, <1>8, <1>9 DEF Places

LEMMA Whereabouts ==
  ASSUME UNCHANGED <<kdirectory, cd_rem, current_page, pages>>
  PROVE  /\ Inside' = Inside /\ InVolume' = InVolume /\ \A n : In(n)' = In(n)
         /\ Listing(current_page)' = Listing(current_page)
BY DEF Inside, InVolume, In, First, Listing

LEMMA PlacesDaemon == ASSUME Typed, PathsBegin, Places, Careless = {}, Daemon PROVE Places'
<1>1. UNCHANGED <<pnum, pages, sd_p, kdirectory, cd_rem, current_page, shell>>
  BY DaemonLinks DEF Typed, tree
<1>2. Done' = Done /\ Inside' = Inside /\ InVolume' = InVolume /\ \A n : In(n)' = In(n)
      /\ Listing(current_page)' = Listing(current_page)
  BY <1>1, Whereabouts DEF Done
<1>3. file_dir' = file_dir \/ file_dir' = Listing(current_page)
  BY DEF Daemon, Fopen, LoadBuf, Fclose, place
<1>4. kdirectory # <<>> \/ Opened # {}
  <2>1. CASE \E n \in Names : Fopen(n)
    BY <2>1, NothingAtRoot DEF Fopen
  <2>2. CASE \E i \in Opened : LoadBuf(i) \/ Fclose(i)
    BY <2>2
  <2> QED
    BY <2>1, <2>2 DEF Daemon
<1>5. ~ChangingVolume \/ Opened # {}
  BY DEF Daemon, Fopen
<1>6. shell.do \in {"none", "find", "list", "name", "remember", "root"}
  BY DEF Typed, TypedPlace, Commands
<1>7. shell.do # "none" => shell # Idle
  BY DEF Idle
<1>8. shell # Idle \/ kdirectory # <<>> => Done'
  BY <1>2 DEF Places
<1>9. Entering => shell.volume # Outside
  BY DiskIs DEF Entering, Outside
<1>10. CASE shell.do = "none"
  <2>1. Inside /\ Listed
    BY <1>4, <1>10 DEF Places, AtRoot
  <2>2. Inside' /\ Listed'
    BY <1>2, <1>3, <2>1 DEF Listed
  <2> QED
    BY <1>1, <1>8, <1>10, <2>2 DEF Places
<1>11. CASE shell.do = "find"
  <2>1. Inside /\ InVolume /\ Listed /\ shell.volume = Outside
    BY <1>11 DEF Places
  <2>2. Inside' /\ InVolume' /\ Listed'
    BY <1>2, <1>3, <2>1 DEF Listed
  <2> QED
    BY <1>1, <1>8, <1>11, <2>1, <2>2 DEF Places
<1>12. CASE shell.do \in {"list", "name"}
  <2>1. Moving
    BY <1>12 DEF Places
  <2>2. shell.page = current_page /\ InVolume /\ In(shell.name) /\ shell.volume = Outside
    BY <1>4, <2>1 DEF Moving, AtRoot
  <2>3. Moving'
    BY <1>1, <2>2 DEF Moving, InVolume, In, First
  <2> QED
    BY <1>1, <1>2, <1>3, <1>8, <1>12, <2>3 DEF Places
<1>13. CASE shell.do \in {"remember", "root"}
  <2>1. ChangingVolume
    BY <1>9, <1>13 DEF Places, ChangingVolume
  <2>2. Opened = {}
    BY <1>13 DEF Places
  <2> QED
    BY <1>5, <2>1, <2>2
<1> QED
  BY <1>6, <1>10, <1>11, <1>12, <1>13

LEMMA AppendIs ==
  ASSUME NEW E, NEW s \in Seq(E), NEW e
  PROVE  /\ Len(s) \in Nat /\ Len(Append(s, e)) = Len(s) + 1 /\ Append(s, e)[Len(s) + 1] = e
         /\ \A i \in 1..Len(s) : Append(s, e)[i] = s[i]
OBVIOUS

LEMMA AppendToOne ==
  ASSUME NEW E, NEW s \in Seq(E), Len(s) = 1, NEW e
  PROVE  Len(Append(s, e)) = 2 /\ Append(s, e)[1] = s[1] /\ Append(s, e)[2] = e
<1> DEFINE t == Append(s, e)
<1>1. Len(t) = Len(s) + 1 /\ t[Len(s) + 1] = e /\ \A i \in 1..Len(s) : t[i] = s[i]
  BY AppendIs
<1> HIDE DEF t
<1>2. Len(t) = 2 /\ t[1] = s[1] /\ t[2] = e
  BY <1>1
<1> QED
  BY <1>2 DEF t

LEMMA AtCommand ==
  ASSUME Places, Command
  PROVE  /\ (AtRoot /\ RootListed) \/ (Inside /\ Listed)
         /\ shell = Idle /\ shell.do = "none" /\ Idle.volume = Outside /\ Idle.do = "none"
BY DEF Places, Command, Idle

LEMMA PlacesShell == ASSUME Typed, Tree, Places, Careless = {}, Shell PROVE Places'
<1>1. UNCHANGED <<pnum, pages, sd_p, symbolic>>
  BY DEF tree, Shell, CdVolume, CdFolder, FindFolder, UserDir, NameFolder, RememberVolume, CdRoot, ListRoot
<1>2. Done' = Done /\ Opened' = Opened /\ \A p : Listing(p)' = Listing(p)
  BY <1>1, ListingIs DEF Done, Opened
<1>3. Done
  <2>1. shell # Idle => Done
    BY DEF Places
  <2>2. Shell => shell # Idle \/ Command
    <3>1. FindFolder \/ UserDir \/ NameFolder \/ RememberVolume \/ ListRoot => shell.do # "none"
      BY DEF FindFolder, UserDir, NameFolder, RememberVolume, ListRoot
    <3>2. shell = Idle => shell.do = "none"
      BY DEF Idle
    <3> QED
      BY <3>1, <3>2 DEF Shell, CdVolume, CdFolder, CdRoot
  <2> QED
    BY <2>1, <2>2 DEF Command
<1>4. /\ DOMAIN Volumes = 1..Len(Volumes) /\ Len(Volumes) \in Nat /\ kdirectory \in Seq(Names)
      /\ Len(kdirectory) \in Nat /\ \A v \in DOMAIN Volumes : v # Outside
  BY DiskIs DEF Typed, TypedPlace, Outside
<1>5. Inside => kdirectory # <<>> /\ cd_rem \in DOMAIN Volumes /\ cd_rem # Outside
  <2>1. Len(<<>>) = 0
    OBVIOUS
  <2> QED
    BY <1>4, <2>1 DEF Inside, RootOf
<1>6. CASE \E v \in DOMAIN Volumes : CdVolume(v)
  <2>1. PICK v \in DOMAIN Volumes : CdVolume(v)
    BY <1>6
  <2>2. AtRoot
    BY <1>5, <2>1, AtCommand DEF CdVolume
  <2>3. /\ shell'.do = "list" /\ shell'.name = sd_p[v] /\ shell'.page = v /\ shell'.volume = v
        /\ current_page' = v /\ sd_p[v] # NoName
        /\ UNCHANGED <<kdirectory, cd_rem, file_dir>>
    BY <2>1 DEF CdVolume
  <2>4. AtRoot' /\ Entering'
    BY <1>1, <1>2, <2>1, <2>2, <2>3 DEF AtRoot, Entering
  <2>5. Moving'
    BY <2>3, <2>4 DEF Moving
  <2> QED
    BY <1>2, <1>3, <2>3, <2>5 DEF Places
<1>7. CASE \E n \in Names : CdFolder(n)
  <2>1. PICK n \in Names : CdFolder(n)
    BY <1>7
  <2>2. /\ shell'.do = "find" /\ shell'.volume = Outside /\ file_dir' = <<>>
        /\ UNCHANGED <<kdirectory, cd_rem, current_page>>
    BY <2>1, AtCommand DEF CdFolder, Idle
  <2>3. Inside /\ Len(kdirectory) = 1
    BY <2>1, AtCommand DEF CdFolder, AtRoot
  <2>4. InVolume
    BY <2>3 DEF InVolume, Inside
  <2>5. Inside' /\ InVolume'
    BY <1>1, <2>2, <2>3, <2>4, Whereabouts
  <2> QED
    BY <1>2, <1>3, <2>2, <2>5 DEF Places, Listed
<1>8. CASE FindFolder
  <2>1. shell.do = "find" /\ UNCHANGED <<file_dir, kdirectory, cd_rem>> /\ Inside /\ InVolume /\ Listed /\ shell.volume = Outside
    BY <1>8 DEF FindFolder, Places
  <2>2. CASE shell' = Idle /\ UNCHANGED current_page
    <3>1. Inside' /\ Listed'
      BY <1>1, <2>1, <2>2, Whereabouts DEF Listed
    <3>2. shell'.do = "none"
      BY <2>2 DEF Idle
    <3> QED
      BY <1>2, <1>3, <3>1, <3>2 DEF Places
  <2>3. CASE ~(shell' = Idle /\ UNCHANGED current_page)
    <3>1. PICK k \in First(pages[cd_rem], shell.name) :
             /\ pages[cd_rem][k].kind = "folder" /\ current_page' = pages[cd_rem][k].director
             /\ shell' = [shell EXCEPT !.do = "list", !.page = current_page']
      BY <1>8, <2>3 DEF FindFolder
    <3>2. /\ shell'.do = "list" /\ shell'.page = current_page' /\ shell'.name = shell.name
          /\ shell'.volume = Outside
      BY <2>1, <3>1 DEF Typed, TypedPlace, Commands
    <3>3. In(shell.name)'
      BY <1>1, <2>1, <3>1, <3>2 DEF In, First
    <3>4. InVolume'
      BY <2>1 DEF InVolume
    <3> QED
      BY <1>2, <1>3, <3>2, <3>3, <3>4 DEF Places, Moving
  <2> QED
    BY <2>2, <2>3
<1>9. CASE UserDir
  <2>1. /\ UNCHANGED <<kdirectory, cd_rem, current_page>> /\ file_dir' = Listing(shell.page) /\ Moving
        /\ shell'.do = "name" /\ shell'.name = shell.name /\ shell'.page = shell.page /\ shell'.volume = shell.volume
    BY <1>9 DEF UserDir, Places, Typed, TypedPlace, Commands
  <2>2. Moving'
    BY <1>1, <1>2, <2>1 DEF Moving, AtRoot, Entering, InVolume, In, First
  <2>3. file_dir' = Listing(current_page)'
    BY <1>1, <2>1, Whereabouts DEF Moving
  <2> QED
    BY <1>2, <1>3, <2>1, <2>2, <2>3 DEF Places
<1>10. CASE NameFolder
  <2>1. /\ UNCHANGED <<file_dir, cd_rem, current_page>> /\ kdirectory' = Append(kdirectory, shell.name)
        /\ Moving /\ file_dir = Listing(current_page) /\ shell.do = "name"
        /\ shell' = IF shell.volume = Outside THEN Idle ELSE [shell EXCEPT !.do = "remember"]
    BY <1>10 DEF NameFolder, Places
  <2>2. shell.name \in Names
    BY <2>1 DEF Typed, TypedPlace
  <2>3. file_dir' = Listing(current_page)'
    BY <1>1, <1>2, <2>1, ListingIs DEF Listing
  <2>4. CASE AtRoot /\ Entering
    <3>1. kdirectory' = <<shell.name>>
      BY <2>1, <2>4 DEF AtRoot
    <3>2. /\ shell'.do = "remember" /\ shell'.name = shell.name /\ shell'.volume = shell.volume
      BY <1>4, <2>1, <2>4 DEF Entering, Typed, TypedPlace, Commands
    <3>3. Entering' /\ cd_rem' = Outside /\ Opened' = {}
      BY <1>1, <1>2, <2>1, <2>4, <3>2 DEF Entering, AtRoot
    <3> QED
      BY <1>2, <1>3, <2>3, <3>1, <3>2, <3>3 DEF Places
  <2>5. CASE InVolume /\ In(shell.name) /\ shell.volume = Outside
    <3>1. /\ Len(kdirectory') = 2 /\ kdirectory'[1] = kdirectory[1] /\ kdirectory'[2] = shell.name
      <4>1. Len(kdirectory) = 1 /\ kdirectory \in Seq(Names) /\ kdirectory' = Append(kdirectory, shell.name)
        BY <1>4, <2>1, <2>5 DEF InVolume
      <4> QED
        BY <2>2, <4>1, AppendToOne
    <3>2. In(kdirectory[2])'
      BY <1>1, <2>1, <2>5, <3>1 DEF In, First
    <3>3. Inside'
      BY <2>1, <2>5, <3>1, <3>2 DEF Inside, InVolume
    <3>4. shell'.do = "none"
      BY <2>1, <2>5 DEF Idle
    <3> QED
      BY <1>2, <1>3, <2>3, <3>3, <3>4 DEF Places, Listed
  <2> QED
    BY <2>1, <2>4, <2>5 DEF Moving
<1>11. CASE RememberVolume
  <2>1. /\ UNCHANGED <<file_dir, kdirectory, current_page>> /\ cd_rem' = shell.volume /\ shell' = Idle
        /\ Entering /\ kdirectory = <<shell.name>> /\ file_dir = Listing(current_page)
    BY <1>11 DEF RememberVolume, Places
  <2>2. Known(shell.volume) /\ Disk[Volumes[shell.volume]][1].name = shell.name
    BY <2>1 DEF Entering, Tree, VolumesRead
  <2>3. shell.volume \in RootOf(shell.name)
    BY <2>1, <2>2 DEF Entering, RootOf, Known
  <2>4. Len(kdirectory) = 1 /\ kdirectory[1] = shell.name
    BY <2>1
  <2>5. Inside'
    BY <2>1, <2>3, <2>4 DEF Inside, Entering
  <2>6. file_dir' = Listing(current_page)'
    BY <1>1, <2>1, ListingIs DEF Listing
  <2>7. shell'.do = "none"
    BY <2>1 DEF Idle
  <2> QED
    BY <1>2, <1>3, <2>5, <2>6, <2>7 DEF Places, Listed
<1>12. CASE CdRoot
  <2>1. shell'.do = "root" /\ file_dir' = <<>> /\ Opened = {}
    BY <1>12 DEF CdRoot, Idle
  <2> QED
    BY <1>2, <1>3, <2>1 DEF Places
<1>13. CASE ListRoot
  <2>1. /\ file_dir' = Partitions \o SubSeq(file_dir, Len(Volumes) + 1, Len(file_dir))
        /\ kdirectory' = <<>> /\ cd_rem' = Outside /\ shell' = Idle
        /\ Opened = {} /\ file_dir = <<>>
    BY <1>13 DEF ListRoot, Cleared, Places
  <2>2. file_dir' = Partitions
    <3>1. SubSeq(file_dir, Len(Volumes) + 1, Len(file_dir)) = <<>>
      BY <1>4, <2>1
    <3>2. Partitions \in Seq(Entries)
      BY PartitionsType DEF Typed
    <3>3. Partitions \o <<>> = Partitions
      BY <3>2
    <3> QED
      BY <2>1, <3>1, <3>3
  <2>3. Partitions' = Partitions
    BY <1>1 DEF Partitions, Partition
  <2>4. AtRoot' /\ RootListed'
    BY <1>2, <2>1, <2>2, <2>3 DEF AtRoot, RootListed
  <2>5. shell'.do = "none"
    BY <2>1 DEF Idle
  <2> QED
    BY <1>2, <1>3, <2>4, <2>5 DEF Places
<1> QED
  BY <1>6, <1>7, <1>8, <1>9, <1>10, <1>11, <1>12, <1>13 DEF Shell

LEMMA PlacesNext ==
  ASSUME Typed, Tree, PathsBegin, Places, Careless = {}, [Next]_vars
  PROVE  Places'
<1>1. CASE UNCHANGED vars
  BY <1>1 DEF vars, tree, place, Places, AtRoot, Opened, RootListed, Partitions, Partition, Inside, InVolume, In,
              First, Listed, Listing, Moving, Entering, Done
<1> QED
  BY <1>1, PlacesBuild, PlacesShell, PlacesDaemon DEF Next

\* The folders that the first n names of a path lead to.
Reached(f, path) ==
  f = [k \in DOMAIN path |-> IF k = 1 THEN {Volumes[v] : v \in RootOf(path[1])}
                             ELSE UNION {SubFolders(d, path[k]) : d \in f[k - 1]}]

LEMMA FoldersReached ==
  ASSUME NEW path \in Seq(Names), Len(path) \in {1, 2}
  PROVE  /\ Len(path) = 1 => FoldersAt(path) = {Volumes[v] : v \in RootOf(path[1])}
         /\ Len(path) = 2 =>
              FoldersAt(path) = UNION {SubFolders(d, path[2]) : d \in {Volumes[v] : v \in RootOf(path[1])}}
<1> DEFINE roots == {Volumes[v] : v \in RootOf(path[1])}
           next == UNION {SubFolders(d, path[2]) : d \in roots}
           g == [k \in DOMAIN path |-> IF k = 1 THEN roots ELSE next]
           f == CHOOSE h : Reached(h, path)
<1>1. DOMAIN path = 1..Len(path) /\ \A k \in DOMAIN path : k = 1 \/ (k = 2 /\ 1 \in DOMAIN path)
  OBVIOUS
<1>2. Reached(g, path)
  <2> DEFINE r == [k \in DOMAIN path |-> IF k = 1 THEN roots
                                         ELSE UNION {SubFolders(d, path[k]) : d \in g[k - 1]}]
  <2>1. \A k \in DOMAIN path : k # 1 => k = 2 /\ k - 1 = 1 /\ g[1] = roots
    BY <1>1
  <2>2. \A k \in DOMAIN path : k # 1 => UNION {SubFolders(d, path[k]) : d \in g[k - 1]} = next
    <3> TAKE k \in DOMAIN path
    <3> HAVE k # 1
    <3>1. k = 2 /\ g[k - 1] = roots
      BY <2>1
    <3> HIDE DEF g, roots
    <3> QED
      BY <3>1
  <2>3. g = r
    <3> HIDE DEF roots
    <3>1. \A k \in DOMAIN path : g[k] = r[k]
      BY <2>2
    <3> QED
      BY <3>1
  <2> QED
    BY <2>3 DEF Reached
<1>3. Reached(f, path)
  BY <1>2
<1>4. FoldersAt(path) = f[Len(path)]
  BY DEF FoldersAt, Reached
<1> HIDE DEF f
<1>5. 1 \in DOMAIN path /\ Len(path) \in DOMAIN path
  BY <1>1
<1>6. f[1] = roots
  BY <1>3, <1>5 DEF Reached
<1>7. ASSUME Len(path) = 1 PROVE FoldersAt(path) = roots
  BY <1>4, <1>6, <1>7
<1>8. ASSUME Len(path) = 2 PROVE FoldersAt(path) = next
  <2>1. f[2] = UNION {SubFolders(d, path[2]) : d \in f[2 - 1]}
    <3>1. 2 \in DOMAIN path
      BY <1>5, <1>8
    <3> HIDE DEF g, next, roots
    <3>2. \A k \in DOMAIN path : k # 1 => f[k] = UNION {SubFolders(d, path[k]) : d \in f[k - 1]}
      BY <1>3 DEF Reached
    <3> QED
      BY <3>1, <3>2
  <2> HIDE DEF roots
  <2>2. FoldersAt(path) = next
    BY <1>4, <1>6, <1>8, <2>1
  <2> QED
    BY <1>8, <2>2 DEF roots
<1> QED
  BY <1>7, <1>8

\* Where the shell is, in the root folder of a partition or in a folder of it, is one of
\* the folders that its path names.
LEMMA PlacesLocated == ASSUME Typed, Tree, Places PROVE Located
<1>1. SUFFICES ASSUME Command
               PROVE  IF kdirectory = <<>> THEN cd_rem = Outside /\ RootListed
                      ELSE /\ cd_rem \in RootOf(kdirectory[1])
                           /\ \E d \in FoldersAt(kdirectory) :
                                 Listing(current_page) = Shown(d) /\ file_dir \in {<<>>, Shown(d)}
  BY DEF Located, RootListed
<1>2. (AtRoot /\ RootListed) \/ (Inside /\ Listed)
  BY <1>1, AtCommand
<1>3. CASE kdirectory = <<>>
  <2>1. ~Inside
    <3>1. Len(<<>>) = 0
      OBVIOUS
    <3> QED
      BY <1>3, <3>1 DEF Inside
  <2> QED
    BY <1>2, <1>3, <2>1 DEF AtRoot
<1>4. CASE kdirectory # <<>>
  <2>1. Inside /\ Listed
    BY <1>2, <1>4 DEF AtRoot
  <2>2. /\ cd_rem \in DOMAIN Volumes /\ Volumes[cd_rem] # NoFolder /\ cd_rem \in RootOf(kdirectory[1])
    BY <2>1 DEF Inside, RootOf
  <2>3. reading = <<>> /\ Known(cd_rem) /\ Listing(cd_rem) = Shown(Volumes[cd_rem])
    <3>1. pnum > Len(Volumes) + 1 /\ Len(Volumes) \in Nat /\ pnum \in Nat /\ cd_rem \in 1..Len(Volumes)
      BY <1>1, <2>2, DiskIs DEF Command, Done, Typed, TypedCalls
    <3>2. reading = <<>>
      BY <3>1 DEF Typed, TypedCalls
    <3> QED
      BY <2>2, <3>1, <3>2 DEF Known, Tree, VolumesRead
  <2>4. kdirectory \in Seq(Names) /\ Len(kdirectory) \in {1, 2}
    BY <2>1 DEF Typed, TypedPlace, Inside
  <2> DEFINE Fits(d) == d \in FoldersAt(kdirectory) /\ Listing(current_page) = Shown(d)
  <2>5. \E d : Fits(d)
    <3>1. CASE Len(kdirectory) = 1
      <4>1. Volumes[cd_rem] \in FoldersAt(kdirectory)
        BY <2>2, <2>4, <3>1, FoldersReached
      <4>2. current_page = cd_rem
        BY <2>1, <3>1 DEF Inside
      <4>3. Fits(Volumes[cd_rem])
        BY <2>3, <4>1, <4>2
      <4> QED
        BY <4>3
    <3>2. CASE Len(kdirectory) = 2
      <4>1. PICK k \in First(pages[cd_rem], kdirectory[2]) :
               pages[cd_rem][k].kind = "folder" /\ current_page = pages[cd_rem][k].director
        BY <2>1, <3>2 DEF Inside, In
      <4> DEFINE s == pages[cd_rem]
                 t == Shown(Volumes[cd_rem])
      <4>2. cd_rem \in DOMAIN pages /\ s \in Seq(Pointed) /\ DOMAIN s = 1..Len(s) /\ Len(s) \in Nat
        <5>1. pages \in Seq(Seq(Pointed)) /\ Len(Volumes) <= Len(pages) /\ cd_rem \in 1..Len(Volumes) /\ Len(Volumes) \in Nat
          BY <2>2, DiskIs DEF Typed, TypedPages
        <5>2. cd_rem \in DOMAIN pages
          BY <5>1
        <5> QED
          BY <5>1, <5>2
      <4>3. t = EntriesOf(s)
        BY <2>3, ListingIs
      <4>4. DOMAIN t = DOMAIN s /\ \A j \in DOMAIN s : /\ t[j].name = s[j].name /\ t[j].kind = s[j].kind
                                                       /\ t[j].clu = s[j].clu
        BY <4>3 DEF EntriesOf
      <4>5. k \in DOMAIN s /\ s[k].name = kdirectory[2] /\ \A j \in 1..k - 1 : j \in DOMAIN s /\ s[j].name # kdirectory[2]
        BY <4>1, <4>2 DEF First
      <4>6. k \in First(t, kdirectory[2]) /\ t[k].kind = "folder" /\ t[k].clu = s[k].clu
        <5>1. s[k].kind = "folder"
          BY <4>1
        <5> HIDE DEF s, t
        <5> QED
          BY <4>4, <4>5, <5>1 DEF First
      <4>7. s[k].clu \in SubFolders(Volumes[cd_rem], kdirectory[2])
        BY <4>6 DEF SubFolders
      <4>8. s[k].clu \in FoldersAt(kdirectory)
        <5> DEFINE c == s[k].clu
                   roots == {Volumes[v] : v \in RootOf(kdirectory[1])}
        <5>1. c \in SubFolders(Volumes[cd_rem], kdirectory[2]) /\ Volumes[cd_rem] \in roots
          BY <2>2, <4>7
        <5>2. FoldersAt(kdirectory) = UNION {SubFolders(d, kdirectory[2]) : d \in roots}
          BY <2>4, <3>2, FoldersReached, Zenon
        <5> HIDE DEF c, roots
        <5>3. c \in FoldersAt(kdirectory)
          BY <5>1, <5>2
        <5> QED
          BY <5>3 DEF c
      <4>9. Listing(s[k].director) = Shown(s[k].clu)
        <5>1. Leads(s[k].director, s[k].clu)
          BY <4>1, <4>2, <4>5 DEF Tree, FoldersLead
        <5>2. DOMAIN reading = {}
          BY <2>3
        <5> QED
          BY <5>1, <5>2 DEF Leads
      <4>10. Fits(s[k].clu)
        BY <4>1, <4>8, <4>9
      <4> QED
        BY <4>10
    <3> QED
      BY <2>4, <3>1, <3>2
  <2> HIDE DEF Fits
  <2>6. PICK d : Fits(d)
    BY <2>5
  <2> QED
    BY <1>4, <2>1, <2>2, <2>6 DEF Fits, Listed
<1> QED
  BY <1>3, <1>4

\* When cd and cd_root are used as the code expects (from the root or a partition, with
\* no file open, and no file opened while cd changes the partition) and the labels are where
\* build_kernel_directory takes the names of the partitions from, then kdirectory, cd_rem,
\* current_page and file_dir are those of one place between any two commands.
THEOREM ShellIsLocated ==
  ASSUME Careless = {}, Labelled
  PROVE  Spec => []Located
<1>1. Init => Typed /\ Tree /\ NamesOfPaths /\ Places
  BY TypedInit, TreeInit, PathsInit, PlacesInit
<1>2. Typed /\ Tree /\ NamesOfPaths /\ Places /\ [Next]_vars => (Typed /\ Tree /\ NamesOfPaths /\ Places)'
  BY TypedNext, TreeNext, PathsNext, PlacesNext DEF NamesOfPaths
<1>3. Typed /\ Tree /\ Places => Located
  BY PlacesLocated
<1> QED
  BY <1>1, <1>2, <1>3, PTL DEF Spec
-----------------------------------------------------------------------------
(* The first element of a sequence that is in a set.                       *)

FirstIn(t, W) == {k \in DOMAIN t : t[k] \in W /\ \A j \in 1..k - 1 : t[j] \notin W}
FirstsIn(t, W) == {t[k] : k \in FirstIn(t, W)}

LEMMA FirstExists ==
  ASSUME NEW E, NEW t \in Seq(E), NEW W
  PROVE  FirstsIn(t, W) = {} <=> \A k \in DOMAIN t : t[k] \notin W
<1>1. DOMAIN t = 1..Len(t) /\ Len(t) \in Nat
  OBVIOUS
<1>2. ASSUME NEW m \in DOMAIN t, t[m] \in W PROVE FirstsIn(t, W) # {}
  <2> DEFINE S == {k \in DOMAIN t : t[k] \in W}
  <2>1. S \in SUBSET Nat /\ S # {}
    BY <1>1, <1>2
  <2>2. PICK k \in S : \A j \in S : k <= j
    <3> HIDE DEF S
    <3> QED
      BY <2>1, LeastOf
  <2>3. ASSUME NEW j \in 1..k - 1 PROVE t[j] \notin W
    <3>1. j \in DOMAIN t /\ ~(k <= j)
      BY <1>1, <2>2
    <3> QED
      BY <2>2, <3>1
  <2>4. k \in FirstIn(t, W)
    BY <2>2, <2>3 DEF FirstIn
  <2> QED
    BY <2>4 DEF FirstsIn
<1> QED
  BY <1>2 DEF FirstsIn, FirstIn

LEMMA FirstUnique ==
  ASSUME NEW E, NEW t \in Seq(E), NEW W, NEW x \in FirstsIn(t, W), NEW y \in FirstsIn(t, W)
  PROVE  x = y
<1>1. PICK k \in FirstIn(t, W), l \in FirstIn(t, W) : x = t[k] /\ y = t[l]
  BY DEF FirstsIn
<1>2. k \in Nat /\ l \in Nat /\ k >= 1 /\ l >= 1
  BY DEF FirstIn
<1>3. ~(k < l) /\ ~(l < k)
  BY <1>2 DEF FirstIn
<1> QED
  BY <1>1, <1>2, <1>3

LEMMA FirstAppend ==
  ASSUME NEW E, NEW t \in Seq(E), NEW e \in E, NEW W
  PROVE  FirstsIn(Append(t, e), W) = IF FirstsIn(t, W) # {} THEN FirstsIn(t, W) ELSE {e} \cap W
<1> DEFINE u == Append(t, e)
           n == Len(t)
<1>1. /\ u \in Seq(E) /\ n \in Nat /\ DOMAIN u = 1..n + 1 /\ DOMAIN t = 1..n /\ u[n + 1] = e
      /\ \A k \in 1..n : u[k] = t[k]
  OBVIOUS
<1> HIDE DEF u, n
<1>2. \A k \in 1..n : k \in FirstIn(u, W) <=> k \in FirstIn(t, W)
  <2> TAKE k \in 1..n
  <2>1. \A j \in 1..k - 1 : u[j] = t[j]
    BY <1>1
  <2> QED
    BY <1>1, <2>1 DEF FirstIn
<1>3. n + 1 \in FirstIn(u, W) <=> e \in W /\ \A j \in 1..n : t[j] \notin W
  <2>1. n + 1 \in DOMAIN u /\ n + 1 - 1 = n
    BY <1>1
  <2> QED
    BY <1>1, <2>1 DEF FirstIn
<1>4. FirstIn(u, W) \subseteq 1..n + 1 /\ FirstIn(t, W) \subseteq 1..n
  BY <1>1 DEF FirstIn
<1>5. FirstsIn(t, W) = {} <=> \A j \in 1..n : t[j] \notin W
  BY <1>1, FirstExists
<1>6. CASE FirstsIn(t, W) # {}
  <2>1. FirstIn(u, W) = FirstIn(t, W)
    <3>1. n + 1 \notin FirstIn(u, W) /\ n + 1 \notin FirstIn(t, W)
      BY <1>1, <1>3, <1>4, <1>5, <1>6
    <3>2. \A k \in 1..n + 1 : k \in 1..n \/ k = n + 1
      BY <1>1
    <3> QED
      BY <1>2, <1>4, <3>1, <3>2
  <2>2. FirstsIn(u, W) = FirstsIn(t, W)
    BY <1>1, <1>4, <2>1 DEF FirstsIn
  <2> QED
    BY <1>6, <2>2 DEF u
<1>7. CASE FirstsIn(t, W) = {}
  <2>1. FirstIn(t, W) = {}
    BY <1>7 DEF FirstsIn
  <2>2. FirstIn(u, W) = IF e \in W THEN {n + 1} ELSE {}
    BY <1>1, <1>2, <1>3, <1>4, <1>5, <1>7, <2>1
  <2>3. FirstsIn(u, W) = {e} \cap W
    BY <1>1, <2>2 DEF FirstsIn
  <2> QED
    BY <1>7, <2>3 DEF u
<1> QED
  BY <1>6, <1>7

LEMMA FirstOfNone ==
  ASSUME NEW W
  PROVE  FirstsIn(<<>>, W) = {}
BY DEF FirstsIn, FirstIn

\* The first of those that were chosen is the first that would be chosen.
LEMMA FirstChosen ==
  ASSUME NEW E, NEW s \in Seq(E), NEW S, NEW W
  PROVE  FirstsIn(Only(s, S), W) = FirstsIn(s, S \cap W)
<1>0. Len(s) \in Nat
  OBVIOUS
<1>1. PICK f : Choice(f, s, S)
  BY <1>0, ChoiceExists
<1> DEFINE Same(n) == f[n] \in Seq(E) /\ FirstsIn(f[n], W) = FirstsIn(SubSeq(s, 1, n), S \cap W)
           T == {n \in 0..Len(s) : ~Same(n)}
<1>2. s = SubSeq(s, 1, Len(s))
  OBVIOUS
<1>3. SUFFICES ASSUME Len(s) \in T PROVE FALSE
  <2>1. Len(s) \in 0..Len(s)
    BY <1>0
  <2>2. Only(s, S) = f[Len(s)]
    BY <1>0, <1>1, OnlyIs
  <2>3. SUFFICES Same(Len(s))
    BY <1>2, <2>2
  <2> HIDE DEF Same
  <2> QED
    BY <2>1
<1>4. PICK n \in T : \A k \in T : n <= k
  <2>1. T \in SUBSET Nat
    OBVIOUS
  <2> HIDE DEF T
  <2> QED BY <1>3, <2>1, LeastOf
<1>5. n \in 0..Len(s) /\ ~Same(n)
  OBVIOUS
<1>6. n # 0
  <2>1. SubSeq(s, 1, 0) = <<>> /\ <<>> \in Seq(E)
    OBVIOUS
  <2>2. f[0] = <<>>
    BY <1>0, <1>1, ChoiceStep
  <2> QED
    BY <1>5, <2>1, <2>2, FirstOfNone
<1>7. Same(n - 1)
  <2>1. n - 1 \in 0..Len(s) /\ n - 1 \notin T
    <3>1. n \in Nat /\ n - 1 \in 0..Len(s)
      BY <1>0, <1>5, <1>6
    <3> HIDE DEF T
    <3> QED
      BY <1>4, <3>1
  <2> HIDE DEF Same
  <2> QED
    BY <2>1
<1>8. n \in 1..Len(s) /\ s[n] \in E
  BY <1>5, <1>6
<1>9. f[n] = IF s[n] \in S THEN Append(f[n - 1], s[n]) ELSE f[n - 1]
  BY <1>0, <1>1, <1>8, ChoiceStep
<1> DEFINE a == SubSeq(s, 1, n - 1)
           b == f[n - 1]
<1>10. a \in Seq(E) /\ Append(a, s[n]) = SubSeq(s, 1, n)
  BY <1>8
<1>11. FirstsIn(SubSeq(s, 1, n), S \cap W)
         = IF FirstsIn(a, S \cap W) # {} THEN FirstsIn(a, S \cap W) ELSE {s[n]} \cap (S \cap W)
  <2> DEFINE e == s[n]
             V == S \cap W
  <2>0. e \in E /\ a \in Seq(E)
    BY <1>8, <1>10
  <2> HIDE DEF a, e, V
  <2>1. FirstsIn(Append(a, e), V) = IF FirstsIn(a, V) # {} THEN FirstsIn(a, V) ELSE {e} \cap V
    BY <2>0, FirstAppend
  <2> QED
    BY <1>10, <2>1 DEF e, V
<1>12. b \in Seq(E) /\ FirstsIn(b, W) = FirstsIn(a, S \cap W)
  BY <1>7
<1> HIDE DEF a
<1>13. f[n] \in Seq(E)
  BY <1>8, <1>9, <1>12
<1>14. FirstsIn(Append(b, s[n]), W) = IF FirstsIn(b, W) # {} THEN FirstsIn(b, W) ELSE {s[n]} \cap W
  <2> DEFINE e == s[n]
  <2>0. e \in E /\ b \in Seq(E)
    BY <1>8, <1>12
  <2> HIDE DEF b, e
  <2>1. FirstsIn(Append(b, e), W) = IF FirstsIn(b, W) # {} THEN FirstsIn(b, W) ELSE {e} \cap W
    BY <2>0, FirstAppend
  <2> QED
    BY <2>1 DEF e
<1>15. FirstsIn(f[n], W) = FirstsIn(SubSeq(s, 1, n), S \cap W)
  <2>1. CASE s[n] \in S
    <3>1. f[n] = Append(b, s[n]) /\ {s[n]} \cap W = {s[n]} \cap (S \cap W)
      BY <1>9, <2>1
    <3> HIDE DEF b
    <3> QED
      BY <1>11, <1>12, <1>14, <3>1
  <2>2. CASE s[n] \notin S
    <3>1. f[n] = b /\ {s[n]} \cap (S \cap W) = {}
      BY <1>9, <2>2
    <3> HIDE DEF b
    <3> QED
      BY <1>11, <1>12, <3>1
  <2> QED
    BY <2>1, <2>2
<1> QED
  BY <1>5, <1>13, <1>15

-----------------------------------------------------------------------------
(* The entries of symbolic_fs_array.                                       *)

\* Record k of the root folder of partition v is a folder, whose page is q.
Leading(ps, v, k, q) == k \in DOMAIN ps[v] /\ ps[v][k].kind = "folder" /\ ps[v][k].director = q

\* An entry is for a record that is kept, and its path is the path of that record, of
\* which two names and that of the partition count: a longer one is a longer path.
RecordIn(ps, f) == ps[f[1]][f[2]]
KindFits(e, r) == /\ e.open = "folder" \/ r.kind = "file"
                  /\ r.kind = "file" => r.clu # 0
PathFits(e, ps, r) ==
  /\ r.kind = "label" => Len(e.path) = 1
  /\ r.kind # "label" =>
       /\ e.file[1] \in DOMAIN Volumes => e.path = <<LabelOf(e.file[1]), r.name>>
       /\ \A v \in DOMAIN Volumes, k \in Nat :
            Leading(ps, v, k, e.file[1]) => e.path = <<LabelOf(v), ps[v][k].name, r.name>>
       /\ \/ e.file[1] \in DOMAIN Volumes \/ Len(e.path) > 3
          \/ \E v \in DOMAIN Volumes, k \in Nat : Leading(ps, v, k, e.file[1])
EntriesFit ==
  \A i \in DOMAIN symbolic :
    /\ KindFits(symbolic[i], RecordIn(pages, symbolic[i].file))
    /\ PathFits(symbolic[i], pages, RecordIn(pages, symbolic[i].file))

\* The names of the partition and of the folder of it that is being read.
NameFits ==
  /\ reading = <<>> \/ (Len(reading) = 1 /\ reading[1].offset = 0) \/ tmp_name[1] = LabelOf(pnum)
  /\ Len(reading) > 1 =>
       \E k \in Nat : /\ Leading(pages, pnum, k, reading[Len(reading) - 1].page)
                      /\ tmp_name[2] = pages[pnum][k].name
  /\ \A i \in DOMAIN reading, v \in DOMAIN Volumes, k \in Nat :
       Leading(pages, v, k, reading[i].page) =>
         i = Len(reading) - 1 /\ v = pnum /\ tmp_name[2] = pages[v][k].name

\* Every folder, and every file that has a cluster, has an entry; those of a page are in
\* the order of its records.
Findable(r) == r.kind = "folder" \/ (r.kind = "file" /\ r.clu # 0)
Entered ==
  \A p \in DOMAIN pages : \A k \in DOMAIN pages[p] :
    Findable(pages[p][k]) => \E i \in DOMAIN symbolic : symbolic[i].file = <<p, k>>
Increasing ==
  \A i \in DOMAIN symbolic, j \in DOMAIN symbolic :
    i < j /\ symbolic[i].file[1] = symbolic[j].file[1] => symbolic[i].file[2] < symbolic[j].file[2]
Paths == EntriesFit /\ NameFits /\ Entered /\ Increasing

LEMMA AppendToName ==
  ASSUME NEW T, NEW s \in Seq(T), NEW x
  PROVE  /\ Len(s) = 1 => Append(s, x) = <<s[1], x>>
         /\ Len(s) = 2 => Append(s, x) = <<s[1], s[2], x>>
         /\ Len(Append(s, x)) = Len(s) + 1 /\ Len(s) \in Nat
         /\ \A i \in 1..Len(s) : Append(s, x)[i] = s[i]
         /\ Append(s, x)[Len(s) + 1] = x
<1> DEFINE U == T \cup {x}
           t == Append(s, x)
<1>1. s \in Seq(U) /\ x \in U
  OBVIOUS
<1>2. /\ t \in Seq(U) /\ Len(t) = Len(s) + 1 /\ Len(s) \in Nat /\ t[Len(s) + 1] = x
      /\ \A i \in 1..Len(s) : t[i] = s[i]
  BY <1>1
<1>3. s[1] \in U /\ s[2] \in U => <<s[1], s[2], x>> \in Seq(U)
  BY <1>1
<1>4. s[1] \in U => <<s[1], x>> \in Seq(U)
  BY <1>1
<1> HIDE DEF t
<1>5. ASSUME Len(s) = 1 PROVE t = <<s[1], x>>
  BY <1>1, <1>2, <1>4, <1>5
<1>6. ASSUME Len(s) = 2 PROVE t = <<s[1], s[2], x>>
  BY <1>1, <1>2, <1>3, <1>6
<1> QED
  BY <1>2, <1>5, <1>6 DEF t

\* What is read first is the label.
LEMMA PastLabel ==
  ASSUME Labelled, Typed, CallsNest, More, Record.kind # "label"
  PROVE  ~(Len(reading) = 1 /\ reading[1].offset = 0)
<1>1. reading # <<>>
  BY DEF More
<1> SUFFICES ASSUME Len(reading) = 1, reading[1].offset = 0 PROVE FALSE
  OBVIOUS
<1>2. Top.dir = Volumes[pnum] /\ Top = reading[1] /\ Top.dir \in DOMAIN Disk
  BY <1>1, Reading DEF CallsNest
<1>3. pnum \in DOMAIN Volumes
  BY <1>1, DiskIs DEF Typed, TypedCalls
<1>4. Top.dir \in Roots \ {NoFolder}
  BY <1>2, <1>3, DiskIs DEF Roots
<1> QED
  BY <1>2, <1>4 DEF Labelled, Record

LEMMA RecordsStay ==
  ASSUME Typed, Reads
  PROVE  /\ Extends /\ DOMAIN pages = 1..Len(pages) /\ Len(pages) \in Nat /\ DOMAIN Volumes \subseteq DOMAIN pages
         /\ \A p \in DOMAIN pages : /\ DOMAIN pages[p] = 1..Len(pages[p]) /\ Len(pages[p]) \in Nat
                                    /\ \A k \in DOMAIN pages[p] : pages'[p][k] = pages[p][k]
<1>1. pages \in Seq(Seq(Pointed)) /\ Len(pages) \in Nat /\ DOMAIN pages = 1..Len(pages) /\ Len(pages) >= Len(Volumes)
  BY DEF Typed, TypedPages
<1>2. \A p \in DOMAIN pages : DOMAIN pages[p] = 1..Len(pages[p]) /\ Len(pages[p]) \in Nat
  <2> TAKE p \in DOMAIN pages
  <2>1. pages[p] \in Seq(Pointed)
    BY <1>1
  <2> QED
    BY <2>1
<1>3. Extends
  <2>1. CASE SkipRecord
    BY <2>1 DEF SkipRecord, Extends
  <2>2. CASE ReadLabel \/ ReadFile
    <3>1. More /\ pages' = [pages EXCEPT ![Top.page] = Keep(0)]
      BY <2>2 DEF ReadLabel, ReadFile
    <3>2. 0 \in Nat /\ 0 <= Len(pages)
      BY <1>1
    <3> QED
      BY <3>1, <3>2, PageGrows, Zenon
  <2>3. CASE ReadFolder
    <3> DEFINE n == Len(pages)
               m == Len(pages[Top.page])
    <3>1. /\ n \in Nat /\ m \in Nat /\ DOMAIN pages' = 1..n + 1
          /\ DOMAIN pages = 1..n /\ Top.page \in 1..n
          /\ \A p \in 1..n : p # Top.page => pages'[p] = pages[p]
          /\ DOMAIN pages'[Top.page] = 1..m + 1 /\ DOMAIN pages[Top.page] = 1..m
      BY <2>3, FolderGrows
    <3> HIDE DEF n, m
    <3>2. DOMAIN pages \subseteq DOMAIN pages'
      BY <3>1
    <3>3. \A p \in DOMAIN pages : DOMAIN pages[p] \subseteq DOMAIN pages'[p]
      BY <3>1
    <3> QED
      BY <3>2, <3>3 DEF Extends
  <2> QED
    BY <2>1, <2>2, <2>3 DEF Reads
<1>4. ASSUME NEW p \in DOMAIN pages, NEW k \in DOMAIN pages[p] PROVE pages'[p][k] = pages[p][k]
  <2>1. p \in DOMAIN pages' /\ k \in DOMAIN pages'[p] /\ k # Len(pages[p]) + 1
    BY <1>2, <1>3 DEF Extends
  <2> QED
    BY <2>1, NewRecords
<1>5. DOMAIN Volumes \subseteq DOMAIN pages
  BY <1>1, DiskIs
<1> QED
  BY <1>1, <1>2, <1>3, <1>4, <1>5

LEMMA LeadingStays ==
  ASSUME Typed, Reads, NEW v \in DOMAIN Volumes, NEW k \in Nat, NEW q, q \in DOMAIN pages
  PROVE  /\ Leading(pages', v, k, q) <=> Leading(pages, v, k, q)
         /\ Leading(pages, v, k, q) => pages'[v][k].name = pages[v][k].name
<1>1. /\ Extends /\ DOMAIN pages = 1..Len(pages) /\ Len(pages) \in Nat /\ v \in DOMAIN pages
      /\ \A j \in DOMAIN pages[v] : pages'[v][j] = pages[v][j]
  BY RecordsStay
<1>2. v \in DOMAIN pages' /\ DOMAIN pages[v] \subseteq DOMAIN pages'[v]
  BY <1>1 DEF Extends
<1>3. Leading(pages, v, k, q) => Leading(pages', v, k, q) /\ pages'[v][k].name = pages[v][k].name
  BY <1>1, <1>2 DEF Leading
<1>4. ASSUME Leading(pages', v, k, q) PROVE Leading(pages, v, k, q)
  <2>1. k \in DOMAIN pages'[v] /\ pages'[v][k].kind = "folder" /\ pages'[v][k].director = q
    BY <1>4 DEF Leading
  <2>2. CASE k \in DOMAIN pages[v]
    BY <1>1, <2>1, <2>2 DEF Leading
  <2>3. CASE k \notin DOMAIN pages[v]
    <3>1. Record.kind = "folder" /\ (ReadFolder => q = Len(pages) + 1)
          /\ (ReadFolder \/ ReadLabel \/ ReadFile)
      BY <1>2, <2>1, <2>3, NewRecords
    <3>2. ReadFolder
      BY <3>1 DEF ReadLabel, ReadFile
    <3> QED
      BY <1>1, <3>1, <3>2
  <2> QED
    BY <2>2, <2>3
<1> QED
  BY <1>3, <1>4

LEMMA LeadingNew ==
  ASSUME Typed, Reads, NEW v \in DOMAIN Volumes, NEW k \in Nat, Leading(pages', v, k, Len(pages) + 1)
  PROVE  v = Top.page /\ pages'[v][k].name = Record.name
<1>1. /\ Extends /\ DOMAIN pages = 1..Len(pages) /\ Len(pages) \in Nat /\ v \in DOMAIN pages
      /\ \A j \in DOMAIN pages[v] : pages'[v][j] = pages[v][j]
  BY RecordsStay
<1>2. k \in DOMAIN pages'[v] /\ pages'[v][k].director = Len(pages) + 1 /\ v \in DOMAIN pages'
  BY <1>1 DEF Leading, Extends
<1>3. k \notin DOMAIN pages[v]
  <2> SUFFICES ASSUME k \in DOMAIN pages[v] PROVE FALSE
    OBVIOUS
  <2>1. pages[v][k].director <= Len(pages) /\ pages[v][k].director = Len(pages) + 1
    BY <1>1, <1>2 DEF Typed, TypedPages
  <2> QED
    BY <1>1, <2>1
<1> QED
  BY <1>2, <1>3, NewRecords

LEMMA LinkedNew ==
  ASSUME TypedLinks, NEW path, NEW open, Link(path, open)
  PROVE  /\ Len(symbolic) \in Nat /\ DOMAIN symbolic = 1..Len(symbolic) /\ DOMAIN symbolic' = 1..Len(symbolic) + 1
         /\ \A i \in DOMAIN symbolic : symbolic'[i] = symbolic[i]
         /\ LET e == symbolic'[Len(symbolic) + 1]
            IN  /\ e.path = path /\ e.open = open /\ e.file = <<Top.page, Len(pages[Top.page]) + 1>>
                /\ e.file[1] = Top.page /\ e.file[2] = Len(pages[Top.page]) + 1
<1>1. PICK P : symbolic \in Seq(Links(P))
  BY DEF TypedLinks
<1> DEFINE e == [path |-> path, file |-> <<Top.page, Len(pages[Top.page]) + 1>>,
                 open |-> open, through |-> Outside]
<1>2. e.path = path /\ e.open = open /\ e.file = <<Top.page, Len(pages[Top.page]) + 1>>
      /\ symbolic' = Append(symbolic, e)
  BY DEF Link
<1> HIDE DEF e
<1>3. /\ Len(symbolic) \in Nat /\ DOMAIN symbolic' = 1..Len(symbolic) + 1 /\ DOMAIN symbolic = 1..Len(symbolic)
      /\ symbolic'[Len(symbolic) + 1] = e
      /\ \A i \in 1..Len(symbolic) : symbolic'[i] = symbolic[i]
  BY <1>1, <1>2
<1> QED
  BY <1>2, <1>3

\* The record that is read is the last of its page.
LEMMA RecordKept ==
  ASSUME Typed, ReadFolder \/ ReadLabel \/ ReadFile, NEW P, P = Top.page, NEW m, m = Len(pages[P]) + 1
  PROVE  /\ P \in DOMAIN pages /\ m \in DOMAIN pages'[P]
         /\ pages'[P][m].name = Record.name /\ pages'[P][m].kind = Record.kind
         /\ pages'[P][m].clu = Record.clu
         /\ P = reading[1].page /\ reading # <<>>
<1>1. More /\ Reads
  BY DEF Reads, ReadFolder, ReadLabel, ReadFile
<1>2. P \in DOMAIN pages /\ P = reading[1].page /\ reading # <<>>
  BY <1>1, Reading DEF More
<1>3. P \in DOMAIN pages' /\ m \notin DOMAIN pages[P]
  BY <1>1, <1>2, RecordsStay DEF Extends
<1>4. m \in DOMAIN pages'[P]
  <2>1. CASE ReadFolder
    BY <2>1, FolderGrows
  <2>2. CASE ReadLabel \/ ReadFile
    <3>1. pages' = [pages EXCEPT ![Top.page] = Keep(0)]
      BY <2>2 DEF ReadLabel, ReadFile
    <3>2. 0 \in Nat /\ 0 <= Len(pages)
      BY DEF Typed, TypedPages
    <3> QED
      BY <1>1, <3>1, <3>2, PageGrows, Zenon
  <2> QED
    BY <2>1, <2>2
<1> QED
  BY <1>2, <1>3, <1>4, <1>1, NewRecords

\* What _search_file enters in symbolic_fs_array when it reads a record.
LEMMA RecordEntered ==
  ASSUME Reads
  PROVE  \/ /\ symbolic' = symbolic
            /\ SkipRecord \/ (ReadFile /\ Record.clu = 0)
         \/ ReadLabel /\ Record.kind = "label" /\ Link(<<Record.name>>, "folder")
         \/ ReadFolder /\ Record.kind = "folder" /\ Link(Append(tmp_name, Record.name), "folder")
         \/ ReadFile /\ Record.kind = "file" /\ Record.clu # 0 /\ Link(Append(tmp_name, Record.name), "no")
BY DEF Reads, SkipRecord, ReadLabel, ReadFolder, ReadFile

LEMMA OldEntries ==
  ASSUME Typed, EntriesFit, Reads, NEW i \in DOMAIN symbolic
  PROVE  /\ RecordIn(pages', symbolic[i].file) = RecordIn(pages, symbolic[i].file)
         /\ KindFits(symbolic[i], RecordIn(pages', symbolic[i].file))
         /\ PathFits(symbolic[i], pages', RecordIn(pages', symbolic[i].file))
<1> DEFINE f == symbolic[i].file
           r == RecordIn(pages, f)
<1>1. f[1] \in DOMAIN pages /\ f[2] \in DOMAIN pages[f[1]]
  BY DEF Typed, TypedLinks
<1>2. RecordIn(pages', f) = r
  BY <1>1, RecordsStay DEF RecordIn
<1>3. KindFits(symbolic[i], r) /\ PathFits(symbolic[i], pages, r)
  BY DEF EntriesFit
<1>4. \A v \in DOMAIN Volumes, k \in Nat :
        /\ Leading(pages', v, k, f[1]) <=> Leading(pages, v, k, f[1])
        /\ Leading(pages, v, k, f[1]) => pages'[v][k].name = pages[v][k].name
  BY <1>1, LeadingStays
<1> HIDE DEF r
<1>5. PathFits(symbolic[i], pages', r)
  BY <1>3, <1>4 DEF PathFits
<1> QED
  BY <1>2, <1>3, <1>5 DEF r

LEMMA NewPath ==
  ASSUME Labelled, Typed, Tree, NamesOfPaths, NameFits, ReadFolder \/ ReadFile, NEW e,
         e.path = Append(tmp_name, Record.name), e.file[1] = Top.page, NEW r,
         r.kind \in {"folder", "file"}, r.name = Record.name
  PROVE  PathFits(e, pages', r)
<1> DEFINE P == Top.page
           n == Record.name
<1>1. More /\ Record.kind # "label" /\ Reads
  BY DEF ReadFolder, ReadFile, Reads
<1>2. Len(tmp_name) = Len(reading) /\ tmp_name[1] = LabelOf(pnum)
  <2>1. Len(tmp_name) = Len(reading)
    BY <1>1, LabelFirst DEF Tree
  <2>2. reading # <<>> /\ ~(Len(reading) = 1 /\ reading[1].offset = 0)
    BY <1>1, PastLabel DEF Tree, More
  <2> QED
    BY <2>1, <2>2 DEF NameFits
<1>3. P = reading[1].page /\ P \in DOMAIN pages /\ reading \in Seq(Calls) /\ reading # <<>>
  BY <1>1, Reading DEF Typed, TypedCalls, More
<1>4. Len(reading) \in Nat \ {0} /\ DOMAIN reading = 1..Len(reading) /\ 1 \in DOMAIN reading
      /\ pnum \in DOMAIN Volumes
  BY <1>3, DiskIs DEF Typed, TypedCalls
<1>5. PICK T : tmp_name \in Seq(T)
  BY DEF Typed, TypedName
<1>6. /\ Len(reading) = 1 => e.path = <<LabelOf(pnum), n>>
      /\ Len(reading) = 2 => e.path = <<LabelOf(pnum), tmp_name[2], n>>
      /\ Len(e.path) = Len(reading) + 1
  <2>1. e.path = Append(tmp_name, n)
    OBVIOUS
  <2> HIDE DEF n
  <2>2. /\ Len(tmp_name) = 1 => Append(tmp_name, n) = <<tmp_name[1], n>>
        /\ Len(tmp_name) = 2 => Append(tmp_name, n) = <<tmp_name[1], tmp_name[2], n>>
        /\ Len(Append(tmp_name, n)) = Len(tmp_name) + 1
    BY <1>5, AppendToName
  <2> QED
    BY <1>2, <2>1, <2>2
<1>7. P \in DOMAIN Volumes => Len(reading) = 1 /\ P = pnum
  <2>1. 1 \in 1..Len(reading) - 1 => P > Len(Volumes)
    BY <1>3 DEF Tree, CallsNest
  <2>2. reading[Len(reading)].page = pnum
    BY <1>3 DEF Tree, CallsNest
  <2> QED
    BY <1>3, <1>4, <2>1, <2>2, DiskIs
<1>8. P \in DOMAIN Volumes => e.path = <<LabelOf(P), n>>
  BY <1>6, <1>7
<1>9. ASSUME NEW v \in DOMAIN Volumes, NEW k \in Nat, Leading(pages', v, k, P)
      PROVE  e.path = <<LabelOf(v), pages'[v][k].name, n>>
  <2>1. Leading(pages, v, k, P) /\ pages'[v][k].name = pages[v][k].name
    BY <1>1, <1>3, <1>9, LeadingStays
  <2>2. 1 = Len(reading) - 1 /\ v = pnum /\ tmp_name[2] = pages[v][k].name
    BY <1>3, <1>4, <2>1 DEF NameFits
  <2> QED
    BY <1>4, <1>6, <2>1, <2>2
<1>10. \/ P \in DOMAIN Volumes \/ Len(e.path) > 3
       \/ \E v \in DOMAIN Volumes, k \in Nat : Leading(pages', v, k, P)
  <2>1. CASE Len(reading) = 1
    BY <1>3, <1>4, <2>1 DEF Tree, CallsNest
  <2>2. CASE Len(reading) = 2
    <3>1. PICK k \in Nat : Leading(pages, pnum, k, P)
      BY <1>3, <2>2 DEF NameFits
    <3> QED
      BY <1>1, <1>3, <1>4, <3>1, LeadingStays
  <2>3. CASE Len(reading) > 2
    BY <1>4, <1>6, <2>3
  <2> QED
    BY <1>4, <2>1, <2>2, <2>3
<1> QED
  BY <1>8, <1>9, <1>10 DEF PathFits

LEMMA EntriesRead ==
  ASSUME Labelled, Typed, Tree, NamesOfPaths, NameFits, EntriesFit, Reads
  PROVE  EntriesFit'
<1>1. CASE symbolic' = symbolic
  BY <1>1, OldEntries DEF EntriesFit
<1>2. ASSUME NEW path, NEW open, Link(path, open), ReadFolder \/ ReadLabel \/ ReadFile,
             open = "folder" \/ Record.kind = "file", Record.kind = "file" => Record.clu # 0,
             \/ ReadLabel /\ Record.kind = "label" /\ path = <<Record.name>>
             \/ (ReadFolder \/ ReadFile) /\ Record.kind \in {"folder", "file"} /\ path = Append(tmp_name, Record.name)
      PROVE  EntriesFit'
  <2> DEFINE n == Len(symbolic)
             e == symbolic'[n + 1]
             r == pages'[Top.page][Len(pages[Top.page]) + 1]
  <2>1. /\ n \in Nat /\ DOMAIN symbolic = 1..n /\ DOMAIN symbolic' = 1..n + 1
        /\ \A i \in DOMAIN symbolic : symbolic'[i] = symbolic[i]
        /\ e.path = path /\ e.open = open
        /\ e.file[1] = Top.page /\ e.file[2] = Len(pages[Top.page]) + 1
    BY <1>2, LinkedNew DEF Typed
  <2>2. r.name = Record.name /\ r.kind = Record.kind /\ r.clu = Record.clu
    BY <1>2, RecordKept
  <2>3. RecordIn(pages', e.file) = r
    BY <2>1 DEF RecordIn
  <2> HIDE DEF n, e, r
  <2>4. KindFits(e, r)
    BY <1>2, <2>1, <2>2 DEF KindFits
  <2>5. PathFits(e, pages', r)
    <3>1. CASE ReadLabel /\ Record.kind = "label" /\ path = <<Record.name>>
      <4>1. Len(e.path) = 1 /\ r.kind = "label"
        BY <2>1, <2>2, <3>1
      <4> QED
        BY <4>1 DEF PathFits
    <3>2. CASE (ReadFolder \/ ReadFile) /\ Record.kind \in {"folder", "file"} /\ path = Append(tmp_name, Record.name)
      BY <2>1, <2>2, <3>2, NewPath
    <3> QED
      BY <1>2, <3>1, <3>2
  <2>6. ASSUME NEW i \in DOMAIN symbolic'
        PROVE  /\ KindFits(symbolic'[i], RecordIn(pages', symbolic'[i].file))
               /\ PathFits(symbolic'[i], pages', RecordIn(pages', symbolic'[i].file))
    <3>1. CASE i \in DOMAIN symbolic
      BY <2>1, <3>1, OldEntries
    <3>2. CASE i = n + 1
      BY <2>3, <2>4, <2>5, <3>2 DEF e
    <3> QED
      BY <2>1, <3>1, <3>2
  <2> QED
    BY <2>6 DEF EntriesFit
<1> QED
  BY <1>1, <1>2, RecordEntered

LEMMA EnteredRead ==
  ASSUME Typed, Entered, Reads
  PROVE  Entered'
<1>1. ASSUME NEW p \in DOMAIN pages', NEW k \in DOMAIN pages'[p], Findable(pages'[p][k])
      PROVE  \E i \in DOMAIN symbolic' : symbolic'[i].file = <<p, k>>
  <2>1. /\ DOMAIN symbolic \subseteq DOMAIN symbolic'
        /\ \A i \in DOMAIN symbolic : symbolic'[i] = symbolic[i]
    <3>1. CASE symbolic' = symbolic
      BY <3>1
    <3>2. CASE symbolic' # symbolic
      <4>1. PICK path, open : Link(path, open)
        BY <3>2, RecordEntered
      <4> QED
        BY <4>1, LinkedNew DEF Typed
    <3> QED
      BY <3>1, <3>2
  <2>2. CASE p \in DOMAIN pages /\ k \in DOMAIN pages[p] /\ pages'[p][k] = pages[p][k]
    <3>1. PICK i \in DOMAIN symbolic : symbolic[i].file = <<p, k>>
      BY <1>1, <2>2 DEF Entered
    <3> QED
      BY <2>1, <3>1
  <2>3. CASE /\ p = Top.page /\ k = Len(pages[p]) + 1
             /\ pages'[p][k].kind = Record.kind /\ pages'[p][k].clu = Record.clu
             /\ ReadFolder \/ ReadLabel \/ ReadFile
    <3>1. Findable(Record)
      BY <1>1, <2>3 DEF Findable
    <3>2. PICK path, open : Link(path, open)
      BY <2>3, <3>1, RecordEntered DEF Findable, SkipRecord, ReadLabel, ReadFolder, ReadFile
    <3>3. Len(symbolic) + 1 \in DOMAIN symbolic' /\ symbolic'[Len(symbolic) + 1].file = <<p, k>>
      BY <2>3, <3>2, LinkedNew DEF Typed
    <3> QED
      BY <3>3
  <2> QED
    BY <1>1, <2>2, <2>3, NewRecords
<1> QED
  BY <1>1 DEF Entered

LEMMA IncreasingRead ==
  ASSUME Typed, Increasing, Reads
  PROVE  Increasing'
<1>1. CASE symbolic' = symbolic
  BY <1>1 DEF Increasing
<1>2. CASE symbolic' # symbolic
  <2>1. PICK path, open : Link(path, open)
    BY <1>2, RecordEntered
  <2> DEFINE n == Len(symbolic)
  <2>2. /\ n \in Nat /\ DOMAIN symbolic = 1..n /\ DOMAIN symbolic' = 1..n + 1
        /\ \A i \in DOMAIN symbolic : symbolic'[i] = symbolic[i]
        /\ symbolic'[n + 1].file[1] = Top.page /\ symbolic'[n + 1].file[2] = Len(pages[Top.page]) + 1
    BY <2>1, LinkedNew DEF Typed
  <2> HIDE DEF n
  <2>3. ASSUME NEW i \in DOMAIN symbolic, symbolic[i].file[1] = Top.page
        PROVE  symbolic[i].file[2] < Len(pages[Top.page]) + 1
    <3>1. symbolic[i].file[1] \in DOMAIN pages /\ symbolic[i].file[2] \in DOMAIN pages[symbolic[i].file[1]]
      BY DEF Typed, TypedLinks
    <3>2. symbolic[i].file[2] \in 1..Len(pages[Top.page]) /\ Len(pages[Top.page]) \in Nat
      BY <2>3, <3>1, RecordsStay
    <3> QED
      BY <3>2
  <2>4. ASSUME NEW i \in DOMAIN symbolic', NEW j \in DOMAIN symbolic', i < j,
               symbolic'[i].file[1] = symbolic'[j].file[1]
        PROVE  symbolic'[i].file[2] < symbolic'[j].file[2]
    <3>1. i \in DOMAIN symbolic /\ symbolic'[i] = symbolic[i]
      BY <2>2, <2>4
    <3>2. CASE j = n + 1
      BY <2>2, <2>3, <2>4, <3>1, <3>2
    <3>3. CASE j # n + 1
      <4>1. j \in DOMAIN symbolic /\ symbolic'[j] = symbolic[j]
        BY <2>2, <3>3
      <4> QED
        BY <2>4, <3>1, <4>1 DEF Increasing
    <3> QED
      BY <3>2, <3>3
  <2> QED
    BY <2>4 DEF Increasing
<1> QED
  BY <1>1, <1>2

\* What leads to a page that is being read, after a record that is no folder.
LEMMA NamesGoOn ==
  ASSUME Labelled, Typed, Tree, NamesOfPaths, NameFits, SkipRecord \/ ReadLabel \/ ReadFile
  PROVE  NameFits'
<1>1. More /\ OnBy(<<>>) /\ Reads /\ pnum' = pnum
  BY DEF SkipRecord, ReadLabel, ReadFile, Reads
<1>2. /\ DOMAIN reading' = DOMAIN reading /\ Len(reading') = Len(reading) /\ reading' # <<>>
      /\ Len(reading) \in Nat \ {0} /\ DOMAIN reading = 1..Len(reading)
      /\ \A i \in DOMAIN reading : reading'[i].page = reading[i].page
  BY <1>1, GoesOn
<1>3. \A i \in DOMAIN reading : reading[i].page \in DOMAIN pages
  BY <1>1, RecordsStay DEF Typed, TypedCalls
<1>4. pnum \in DOMAIN Volumes
  BY <1>1, DiskIs DEF Typed, TypedCalls, More
<1>5. tmp_name' = tmp_name \/ (ReadLabel /\ Len(reading) = 1)
  <2>1. ASSUME ReadLabel PROVE Len(reading) = 1
    <3>1. Record.kind = "label" /\ Top = reading[1] /\ Top.dir \in Roots
      BY <1>1, <2>1, Reading, DiskIs DEF Labelled, Record, ReadLabel
    <3> QED
      BY <1>2, <3>1 DEF NamesOfPaths, CallsMarked
  <2> QED
    BY <2>1 DEF SkipRecord, ReadLabel, ReadFile
<1>6. tmp_name'[1] = LabelOf(pnum)
  <2>1. CASE ReadLabel
    <3>1. Record.kind = "label" /\ tmp_name' = <<Record.name>> /\ Len(reading) = 1
      BY <1>2, <1>5, <2>1, Reading, DiskIs DEF ReadLabel, Labelled, Record, NamesOfPaths, CallsMarked
    <3>2. Top.dir = Volumes[pnum] /\ Top = reading[1] /\ Top.dir \in DOMAIN Disk
      BY <1>1, <1>2, <3>1, Reading DEF Tree, CallsNest
    <3>3. Top.offset + 1 = 1
      BY <1>1, <3>1, <3>2, Reading, DiskIs DEF Labelled, Record
    <3>4. Record.name = LabelOf(pnum)
      BY <3>2, <3>3 DEF Record, LabelOf
    <3> QED
      BY <3>1, <3>4
  <2>2. CASE ~ReadLabel
    <3>1. tmp_name' = tmp_name /\ Record.kind # "label"
      BY <2>2 DEF SkipRecord, ReadFile
    <3>2. ~(Len(reading) = 1 /\ reading[1].offset = 0) /\ reading # <<>>
      BY <1>1, <3>1, PastLabel DEF Tree, More
    <3> QED
      BY <3>1, <3>2 DEF NameFits
  <2> QED
    BY <2>1, <2>2
<1>7. ASSUME Len(reading') > 1
      PROVE \E k \in Nat : /\ Leading(pages', pnum, k, reading'[Len(reading') - 1].page)
                           /\ tmp_name'[2] = pages'[pnum][k].name
  <2>1. PICK k \in Nat : /\ Leading(pages, pnum, k, reading[Len(reading) - 1].page)
                         /\ tmp_name[2] = pages[pnum][k].name
    BY <1>2, <1>7 DEF NameFits
  <2>2. Len(reading) - 1 \in DOMAIN reading /\ tmp_name' = tmp_name
    BY <1>2, <1>5, <1>7
  <2> QED
    BY <1>1, <1>2, <1>3, <1>4, <2>1, <2>2, LeadingStays
<1>8. ASSUME NEW i \in DOMAIN reading', NEW v \in DOMAIN Volumes, NEW k \in Nat,
             Leading(pages', v, k, reading'[i].page)
      PROVE  i = Len(reading') - 1 /\ v = pnum /\ tmp_name'[2] = pages'[v][k].name
  <2>1. Leading(pages, v, k, reading[i].page) /\ pages'[v][k].name = pages[v][k].name
    BY <1>1, <1>2, <1>3, <1>8, LeadingStays
  <2>2. i = Len(reading) - 1 /\ v = pnum /\ tmp_name[2] = pages[v][k].name
    BY <1>2, <2>1 DEF NameFits
  <2>3. tmp_name' = tmp_name
    BY <1>2, <1>5, <2>2
  <2> QED
    BY <1>2, <2>1, <2>2, <2>3
<1> QED
  BY <1>1, <1>6, <1>7, <1>8 DEF NameFits

LEMMA NamesEnter ==
  ASSUME Labelled, Typed, Tree, NamesOfPaths, NameFits, ReadFolder
  PROVE  NameFits'
<1> DEFINE L == Len(reading)
           n == Record.name
<1>1. More /\ Record.kind = "folder" /\ Reads /\ pnum' = pnum /\ tmp_name' = Append(tmp_name, n)
  BY DEF ReadFolder, Reads
<1>2. /\ L \in Nat \ {0} /\ DOMAIN reading = 1..L /\ Len(reading') = L + 1 /\ DOMAIN reading' = 1..L + 1
      /\ reading'[1].page = Len(pages) + 1
      /\ \A i \in 2..L + 1 : reading'[i].page = reading[i - 1].page
  BY Enters
<1>3. Len(pages) \in Nat /\ \A i \in DOMAIN reading : reading[i].page \in DOMAIN pages
  BY <1>1, RecordsStay DEF Typed, TypedCalls
<1>4. Len(tmp_name) = L /\ tmp_name[1] = LabelOf(pnum)
  <2>1. Len(tmp_name) = L
    BY <1>1, LabelFirst DEF Tree
  <2>2. reading # <<>> /\ ~(Len(reading) = 1 /\ reading[1].offset = 0)
    BY <1>1, PastLabel DEF Tree, More
  <2> QED
    BY <2>1, <2>2 DEF NameFits
<1>5. PICK T : tmp_name \in Seq(T)
  BY DEF Typed, TypedName
<1> HIDE DEF n
<1>6. /\ \A i \in 1..L : tmp_name'[i] = tmp_name[i]
      /\ tmp_name'[L + 1] = n
  BY <1>1, <1>4, <1>5, AppendToName
<1>7. tmp_name'[1] = LabelOf(pnum)
  BY <1>2, <1>4, <1>6
<1>8. /\ Top.page = reading[1].page /\ pnum \in DOMAIN Volumes /\ reading # <<>>
      /\ Top.page \in DOMAIN Volumes => L = 1 /\ Top.page = pnum
  <2>1. Top.page = reading[1].page /\ pnum \in DOMAIN Volumes /\ reading # <<>>
    BY <1>1, Reading, DiskIs DEF Typed, TypedCalls, More
  <2>2. 1 \in 1..L - 1 => reading[1].page > Len(Volumes)
    BY DEF Tree, CallsNest
  <2>3. reading[L].page = pnum
    BY <2>1 DEF Tree, CallsNest
  <2> QED
    BY <1>2, <1>3, <2>1, <2>2, <2>3, DiskIs
<1>9. \E k \in Nat : /\ Leading(pages', pnum, k, reading'[L].page) /\ tmp_name'[2] = pages'[pnum][k].name
  <2>1. CASE L = 1
    <3> DEFINE m == Len(pages[Top.page]) + 1
    <3>1. Top.page = pnum
      BY <1>8, <2>1 DEF Tree, CallsNest
    <3>2. m \in DOMAIN pages'[pnum] /\ pages'[pnum][m].name = n /\ pages'[pnum][m].kind = "folder"
          /\ m \in Nat /\ m \notin DOMAIN pages[pnum] /\ pnum \in DOMAIN pages'
      <4>1. /\ pnum \in DOMAIN pages /\ m \in DOMAIN pages'[pnum]
            /\ pages'[pnum][m].name = n /\ pages'[pnum][m].kind = Record.kind
        BY <3>1, RecordKept DEF n
      <4>2. DOMAIN pages[pnum] = 1..Len(pages[pnum]) /\ Len(pages[pnum]) \in Nat /\ Extends
        BY <1>1, <4>1, RecordsStay
      <4> QED
        BY <1>1, <3>1, <4>1, <4>2 DEF Extends
    <3>3. pages'[pnum][m].director = Len(pages) + 1
      BY <1>1, <3>2, NewRecords
    <3> HIDE DEF m
    <3>4. Leading(pages', pnum, m, reading'[L].page) /\ tmp_name'[2] = pages'[pnum][m].name
      BY <1>2, <1>6, <2>1, <3>2, <3>3 DEF Leading
    <3> QED
      BY <3>2, <3>4
  <2>2. CASE L # 1
    <3>1. PICK k \in Nat : Leading(pages, pnum, k, reading[L - 1].page) /\ tmp_name[2] = pages[pnum][k].name
      BY <1>2, <2>2 DEF NameFits
    <3>2. L - 1 \in DOMAIN reading /\ L \in 2..L + 1 /\ reading'[L].page = reading[L - 1].page
      BY <1>2, <2>2
    <3>3. Leading(pages', pnum, k, reading[L - 1].page) /\ pages'[pnum][k].name = pages[pnum][k].name
      BY <1>1, <1>3, <1>8, <3>1, <3>2, LeadingStays
    <3>4. tmp_name'[2] = tmp_name[2]
      BY <1>2, <1>6, <2>2
    <3> QED
      BY <3>1, <3>2, <3>3, <3>4
  <2> QED
    BY <2>1, <2>2
<1>10. ASSUME NEW i \in DOMAIN reading', NEW v \in DOMAIN Volumes, NEW k \in Nat,
              Leading(pages', v, k, reading'[i].page)
       PROVE  i = L /\ v = pnum /\ tmp_name'[2] = pages'[v][k].name
  <2>1. CASE i = 1
    <3>1. v = Top.page /\ pages'[v][k].name = n
      BY <1>1, <1>2, <1>10, <2>1, LeadingNew DEF n
    <3>2. L = 1 /\ v = pnum
      BY <1>8, <3>1
    <3>3. tmp_name'[2] = n
      BY <1>6, <3>2
    <3> QED
      BY <2>1, <3>1, <3>2, <3>3
  <2>2. CASE i # 1
    <3>1. i - 1 \in DOMAIN reading /\ reading'[i].page = reading[i - 1].page
      BY <1>2, <2>2
    <3>2. Leading(pages, v, k, reading[i - 1].page) /\ pages'[v][k].name = pages[v][k].name
      BY <1>1, <1>3, <1>10, <3>1, LeadingStays
    <3>3. i - 1 = L - 1 /\ v = pnum /\ tmp_name[2] = pages[v][k].name
      BY <3>1, <3>2 DEF NameFits
    <3>4. i = L /\ 2 \in 1..L
      BY <1>2, <2>2, <3>3
    <3> QED
      BY <1>6, <3>2, <3>3, <3>4
  <2> QED
    BY <2>1, <2>2
<1>11. reading' # <<>> /\ L + 1 - 1 = L
  BY <1>2
<1> QED
  BY <1>1, <1>2, <1>7, <1>9, <1>10, <1>11 DEF NameFits

\* What is in symbolic_fs_array stays when nothing is read; programs open and close files.
LEMMA EntriesStay ==
  ASSUME EntriesFit, Entered, Increasing, UNCHANGED pages, DOMAIN symbolic' = DOMAIN symbolic,
         \A i \in DOMAIN symbolic : /\ symbolic'[i].path = symbolic[i].path /\ symbolic'[i].file = symbolic[i].file
                                    /\ symbolic'[i].open = "folder" \/ symbolic[i].open # "folder"
  PROVE  EntriesFit' /\ Entered' /\ Increasing'
<1>0. \A i \in DOMAIN symbolic : symbolic'[i].file = symbolic[i].file
  OBVIOUS
<1>1. Entered' /\ Increasing'
  <2>1. Entered'
    BY <1>0 DEF Entered
  <2>2. Increasing'
    BY <1>0 DEF Increasing
  <2> QED
    BY <2>1, <2>2
<1>2. ASSUME NEW i \in DOMAIN symbolic'
      PROVE  /\ KindFits(symbolic'[i], RecordIn(pages', symbolic'[i].file))
             /\ PathFits(symbolic'[i], pages', RecordIn(pages', symbolic'[i].file))
  <2> DEFINE r == RecordIn(pages, symbolic[i].file)
  <2>1. RecordIn(pages', symbolic'[i].file) = r /\ pages' = pages
    OBVIOUS
  <2>2. KindFits(symbolic[i], r) /\ PathFits(symbolic[i], pages, r)
    BY DEF EntriesFit
  <2>3. /\ symbolic'[i].path = symbolic[i].path /\ symbolic'[i].file = symbolic[i].file
        /\ symbolic'[i].open = "folder" \/ symbolic[i].open # "folder"
    OBVIOUS
  <2> HIDE DEF r
  <2>4. KindFits(symbolic'[i], r)
    BY <2>2, <2>3 DEF KindFits
  <2>5. PathFits(symbolic'[i], pages, r)
    BY <2>2, <2>3 DEF PathFits
  <2> QED
    BY <2>1, <2>4, <2>5
<1> QED
  BY <1>1, <1>2 DEF EntriesFit

LEMMA NamesStart ==
  ASSUME Typed, Tree, NameFits, StartVolume
  PROVE  NameFits'
<1>1. pnum \in DOMAIN Volumes /\ reading = <<>> /\ UNCHANGED <<pages, tmp_name>>
  BY DEF StartVolume
<1>2. CASE Volumes[pnum] = NoFolder
  BY <1>1, <1>2 DEF StartVolume, NameFits
<1>3. CASE Volumes[pnum] # NoFolder
  <2> DEFINE c == [dir |-> Volumes[pnum], offset |-> 0, page |-> pnum, mark |-> 0]
  <2>1. reading' = <<c>> /\ c.page = pnum /\ c.offset = 0
    BY <1>1, <1>3 DEF StartVolume
  <2> HIDE DEF c
  <2>2. DOMAIN reading' = {1} /\ Len(reading') = 1 /\ reading'[1] = c
    BY <2>1
  <2>3. ASSUME NEW v \in DOMAIN Volumes, NEW k \in Nat, Leading(pages, v, k, pnum) PROVE FALSE
    <3>1. v \in DOMAIN pages
      BY DiskIs DEF Typed, TypedPages
    <3>2. pnum \in Len(Volumes) + 1..Len(pages)
      BY <2>3, <3>1 DEF Leading, Tree, FoldersLead, Leads
    <3> QED
      BY <1>1, <3>2, DiskIs
  <2> QED
    BY <1>1, <2>1, <2>2, <2>3 DEF NameFits
<1> QED
  BY <1>2, <1>3

LEMMA NamesLeave ==
  ASSUME Typed, Tree, NamesOfPaths, NameFits, LeaveFolder
  PROVE  NameFits'
<1> DEFINE L == Len(reading)
<1>1. /\ L > 1 /\ reading' = Tail(reading) /\ tmp_name' = SubSeq(tmp_name, 1, Top.mark)
      /\ UNCHANGED <<pages, pnum>>
  BY DEF LeaveFolder, BackMark
<1>2. reading \in Seq(Calls) /\ L \in Nat /\ reading # <<>>
  BY <1>1 DEF Typed, TypedCalls
<1>3. /\ DOMAIN reading' = 1..L - 1 /\ Len(reading') = L - 1
      /\ \A i \in 1..L - 1 : i + 1 \in DOMAIN reading /\ reading'[i] = reading[i + 1]
  BY <1>1, <1>2
<1>4. Len(tmp_name) = L /\ tmp_name[1] = LabelOf(pnum) /\ Top.mark = L - 1
  BY <1>1, <1>2 DEF NamesOfPaths, NameBegins, NameFits, Top, CallsMarked
<1>5. PICK T : tmp_name \in Seq(T)
  BY DEF Typed, TypedName
<1> HIDE DEF L
<1>6. \A i \in 1..L - 1 : tmp_name'[i] = tmp_name[i]
  <2>1. tmp_name' = SubSeq(tmp_name, 1, L - 1) /\ L - 1 \in Nat /\ L - 1 <= Len(tmp_name)
    BY <1>1, <1>2, <1>4
  <2> QED
    BY <1>2, <1>5, <2>1
<1>7. tmp_name'[1] = LabelOf(pnum)
  BY <1>1, <1>2, <1>4, <1>6
<1>8. PICK k \in Nat : /\ Leading(pages, pnum, k, reading[L - 1].page)
                       /\ tmp_name[2] = pages[pnum][k].name
  BY <1>1 DEF NameFits, L
<1>9. ASSUME L - 1 > 1
      PROVE  Leading(pages, pnum, k, reading'[L - 1 - 1].page) /\ tmp_name'[2] = pages[pnum][k].name
  <2>1. reading'[L - 1 - 1] = reading[L - 1 - 1 + 1] /\ L - 1 - 1 + 1 = L - 1
    BY <1>2, <1>3, <1>9
  <2>2. tmp_name'[2] = tmp_name[2]
    BY <1>2, <1>6, <1>9
  <2> QED
    BY <1>8, <2>1, <2>2
<1>10. ASSUME NEW i \in DOMAIN reading', NEW v \in DOMAIN Volumes, NEW j \in Nat,
              Leading(pages, v, j, reading'[i].page)
       PROVE  i = L - 1 - 1 /\ v = pnum /\ tmp_name'[2] = pages[v][j].name
  <2>1. i \in 1..L - 1 /\ i + 1 \in DOMAIN reading /\ Leading(pages, v, j, reading[i + 1].page)
    BY <1>3, <1>10
  <2>2. i + 1 = L - 1 /\ v = pnum /\ tmp_name[2] = pages[v][j].name
    BY <2>1 DEF NameFits, L
  <2>3. i = L - 1 - 1 /\ 2 \in 1..L - 1
    BY <1>2, <2>1, <2>2
  <2>4. tmp_name'[2] = tmp_name[2]
    BY <1>6, <2>3
  <2> QED
    BY <2>2, <2>3, <2>4
<1>11. tmp_name'[1] = LabelOf(pnum')
  BY <1>1, <1>7
<1>12. Len(reading') > 1 =>
         \E j \in Nat : /\ Leading(pages', pnum', j, reading'[Len(reading') - 1].page)
                        /\ tmp_name'[2] = pages'[pnum'][j].name
  <2>1. pages' = pages /\ pnum' = pnum /\ Len(reading') = L - 1
    BY <1>1, <1>3
  <2> QED
    BY <1>9, <2>1
<1>13. \A i \in DOMAIN reading', v \in DOMAIN Volumes, j \in Nat :
         Leading(pages', v, j, reading'[i].page) =>
           i = Len(reading') - 1 /\ v = pnum' /\ tmp_name'[2] = pages'[v][j].name
  <2>1. pages' = pages /\ pnum' = pnum /\ Len(reading') = L - 1
    BY <1>1, <1>3
  <2> QED
    BY <1>10, <2>1
<1> QED
  BY <1>11, <1>12, <1>13 DEF NameFits

LEMMA PathsBeginEmpty == ASSUME Init PROVE Paths
<1>1. reading = <<>> /\ DOMAIN reading = {} /\ Len(reading) = 0 /\ DOMAIN symbolic = {}
  BY DEF Init
<1>2. \A p \in DOMAIN pages : DOMAIN pages[p] = {}
  BY DEF Init
<1> QED
  BY <1>1, <1>2 DEF Paths, EntriesFit, NameFits, Entered, Increasing

LEMMA PathsGoOn ==
  ASSUME Labelled, Typed, Tree, NamesOfPaths, Paths, [Next]_vars
  PROVE  Paths'
<1> USE DEF Paths
<1>1. CASE Reads
  BY <1>1, EntriesRead, EnteredRead, IncreasingRead, NamesGoOn, NamesEnter DEF Reads
<1>2. CASE Daemon
  <2>1. UNCHANGED tree
    BY <1>2, DaemonLinks DEF Typed
  <2>2. PICK i \in DOMAIN symbolic, o \in {"no", "yes"}, v \in {cd_rem, Outside} :
           Linked(i, o, v) /\ symbolic[i].open \in {"no", "yes"}
    BY <1>2, DaemonLinks DEF Typed, Opened
  <2>3. /\ DOMAIN symbolic' = DOMAIN symbolic
        /\ \A j \in DOMAIN symbolic : /\ symbolic'[j].path = symbolic[j].path
                                      /\ symbolic'[j].file = symbolic[j].file
                                      /\ j # i => symbolic'[j] = symbolic[j]
    BY <2>2, LinkChanges DEF Typed
  <2>4. \A j \in DOMAIN symbolic : symbolic'[j].open = "folder" \/ symbolic[j].open # "folder"
    BY <2>2, <2>3
  <2>5. EntriesFit' /\ Entered' /\ Increasing'
    BY <2>1, <2>3, <2>4, EntriesStay DEF tree
  <2>6. NameFits'
    BY <2>1 DEF tree, NameFits
  <2> QED
    BY <2>5, <2>6
<1>3. CASE StartVolume \/ LeaveFolder
  <2>1. UNCHANGED <<pages, symbolic>>
    BY <1>3 DEF StartVolume, LeaveFolder
  <2> QED
    BY <1>3, <2>1, EntriesStay, NamesStart, NamesLeave
<1>4. CASE EndVolume
  <2>1. UNCHANGED <<pages, symbolic>> /\ reading' = <<>>
    BY <1>4 DEF EndVolume
  <2>2. DOMAIN reading' = {} /\ Len(reading') = 0
    BY <2>1
  <2> QED
    BY <2>1, <2>2, EntriesStay DEF NameFits
<1>5. CASE EndBuild
  <2>1. UNCHANGED <<pages, symbolic, reading, tmp_name>> /\ reading = <<>>
    BY <1>5, DiskIs DEF EndBuild, Typed, TypedCalls
  <2>2. DOMAIN reading' = {} /\ Len(reading') = 0
    BY <2>1
  <2> QED
    BY <2>1, <2>2, EntriesStay DEF NameFits
<1>6. CASE Shell \/ UNCHANGED vars
  <2>1. UNCHANGED <<tree, symbolic>>
    BY <1>6 DEF Shell, CdVolume, CdFolder, FindFolder, UserDir, NameFolder, RememberVolume, CdRoot, ListRoot, vars
  <2>2. NameFits'
    BY <2>1 DEF tree, NameFits
  <2> QED
    BY <2>1, <2>2, EntriesStay DEF tree
<1> QED
  BY <1>1, <1>2, <1>3, <1>4, <1>5, <1>6 DEF Next, Build, Reads

-----------------------------------------------------------------------------
(* Open files are of the partition that the shell is in.                   *)

Throughs ==
  \A i \in Opened : /\ kdirectory # <<>> /\ symbolic[i].path[1] = kdirectory[1]
                    /\ symbolic[i].through \in RootOf(symbolic[i].path[1])

LEMMA ReadThrough ==
  ASSUME Typed, Places, Opened # {} \/ (kdirectory # <<>> /\ ~ChangingVolume)
  PROVE  kdirectory # <<>> /\ cd_rem \in RootOf(kdirectory[1])
<1>1. kdirectory \in Seq(Names) /\ shell.do \in {"none", "find", "list", "name", "remember", "root"}
  BY DEF Typed, TypedPlace, Commands
<1>2. ~AtRoot
  BY DEF AtRoot
<1>3. Entering => shell.volume # Outside
  BY DiskIs DEF Entering, Outside
<1>4. Inside \/ InVolume
  <2>1. CASE shell.do \in {"none", "find"}
    BY <1>2, <2>1 DEF Places
  <2>2. CASE shell.do \in {"list", "name"}
    BY <1>2, <2>2 DEF Places, Moving
  <2>3. CASE shell.do \in {"remember", "root"}
    BY <1>3, <2>3 DEF Places, ChangingVolume
  <2> QED
    BY <1>1, <2>1, <2>2, <2>3
<1>5. Len(kdirectory) \in {1, 2} /\ cd_rem \in RootOf(kdirectory[1])
  BY <1>4 DEF Inside, InVolume
<1>6. kdirectory # <<>>
  BY <1>1, <1>5
<1> QED
  BY <1>5, <1>6

\* strcmp compares up to the first short name.
LEMMA BlankAt ==
  ASSUME NEW T, NEW path \in Seq(T)
  PROVE  /\ (\A k \in DOMAIN path : path[k] \notin Short) => UpToBlank(path) = path
         /\ \A m \in DOMAIN path : path[m] \in Short /\ (\A j \in 1..m - 1 : path[j] \notin Short) =>
              UpToBlank(path) = SubSeq(path, 1, m)
         /\ path # <<>> => UpToBlank(path)[1] = path[1]
<1> DEFINE blanks == {k \in DOMAIN path : path[k] \in Short}
           least == CHOOSE k \in blanks : \A j \in blanks : k <= j
<1>1. DOMAIN path = 1..Len(path) /\ Len(path) \in Nat
  OBVIOUS
<1>2. UpToBlank(path) = IF blanks = {} THEN path ELSE SubSeq(path, 1, least)
  BY DEF UpToBlank
<1>3. blanks # {} => least \in blanks /\ \A j \in blanks : least <= j
  <2>1. blanks \in SUBSET Nat
    BY <1>1
  <2>2. blanks # {} => \E k \in blanks : \A j \in blanks : k <= j
    <3> HIDE DEF blanks
    <3> QED
      BY <2>1, LeastOf
  <2> HIDE DEF blanks
  <2> QED
    BY <2>2
<1> HIDE DEF least
<1>4. ASSUME \A k \in DOMAIN path : path[k] \notin Short PROVE UpToBlank(path) = path
  BY <1>2, <1>4
<1>5. ASSUME NEW m \in DOMAIN path, path[m] \in Short, \A j \in 1..m - 1 : path[j] \notin Short
      PROVE  UpToBlank(path) = SubSeq(path, 1, m)
  <2>1. m \in blanks /\ least \in blanks /\ least <= m
    BY <1>3, <1>5
  <2>2. ~(least < m)
    BY <1>1, <1>5, <2>1
  <2>3. least = m
    BY <1>1, <2>1, <2>2
  <2> QED
    BY <1>2, <2>1, <2>3
<1>6. ASSUME path # <<>> PROVE UpToBlank(path)[1] = path[1]
  <2>1. CASE blanks = {}
    BY <1>2, <2>1
  <2>2. CASE blanks # {}
    <3>1. least \in 1..Len(path) /\ UpToBlank(path) = SubSeq(path, 1, least)
      BY <1>1, <1>2, <1>3, <2>2
    <3> HIDE DEF blanks
    <3>2. SubSeq(path, 1, least)[1] = path[1]
      BY <1>1, <3>1
    <3> QED
      BY <3>1, <3>2
  <2> QED
    BY <2>1, <2>2
<1> QED
  BY <1>4, <1>5, <1>6

LEMMA FoundPath ==
  ASSUME Typed, kdirectory # <<>>, NEW n
  PROVE  /\ Lookup(n) \ {0} \subseteq FirstOf(Matching(Append(kdirectory, n)))
         /\ n \in Short /\ FirstOf(Matching(Append(kdirectory, n))) # {} =>
              Lookup(n) = FirstOf(Matching(Append(kdirectory, n)))
         /\ FirstOf(Matching(Append(kdirectory, n))) \subseteq DOMAIN symbolic
         /\ \A i \in Lookup(n) \ {0} : symbolic[i].path[1] = kdirectory[1]
<1> DEFINE path == Append(kdirectory, n)
           found == FirstOf(Matching(path))
<1>1. Lookup(n) = IF found = {} \/ n \notin Short THEN found \cup {0} ELSE found
  BY DEF Lookup
<1>2. found \subseteq DOMAIN symbolic /\ \A i \in found : symbolic[i].path = UpToBlank(path)
  <2> HIDE DEF path
  <2> QED
    BY DEF FirstOf, Matching
<1>3. UpToBlank(path)[1] = kdirectory[1]
  <2>1. kdirectory \in Seq(Names)
    BY DEF Typed, TypedPlace
  <2>2. path \in Seq(Names \cup {n}) /\ path # <<>> /\ path[1] = kdirectory[1]
    BY <2>1
  <2> HIDE DEF path
  <2> QED
    BY <2>2, BlankAt
<1> HIDE DEF found
<1> QED
  BY <1>1, <1>2, <1>3 DEF found

LEMMA ThroughsInit == ASSUME Init PROVE Throughs
BY DEF Init, Throughs, Opened

LEMMA ThroughsBuild == ASSUME Typed, Places, Throughs, Build PROVE Throughs'
<1>1. ~Done
  <2>1. pnum <= Len(Volumes) + 1
    BY DiskIs DEF Build, StartVolume, SkipRecord, ReadFolder, ReadLabel, ReadFile, More, LeaveFolder, EndVolume,
                  EndBuild, Typed, TypedCalls
  <2> QED
    BY <2>1, DiskIs DEF Done, Typed, TypedCalls
<1>2. Opened = {}
  BY <1>1 DEF Throughs, Places
<1>3. Opened' = {}
  <2>1. CASE symbolic' = symbolic
    BY <1>2, <2>1 DEF Opened
  <2>2. CASE symbolic' # symbolic
    <3>1. PICK path, open : open \in {"no", "folder"} /\ Link(path, open)
      BY <2>2 DEF Build, StartVolume, SkipRecord, ReadFolder, ReadLabel, ReadFile, LeaveFolder, EndVolume, EndBuild
    <3>2. /\ Len(symbolic) \in Nat /\ DOMAIN symbolic = 1..Len(symbolic) /\ DOMAIN symbolic' = 1..Len(symbolic) + 1
          /\ \A i \in DOMAIN symbolic : symbolic'[i] = symbolic[i]
          /\ symbolic'[Len(symbolic) + 1].open = open
      BY <3>1, LinkedNew DEF Typed
    <3>3. ASSUME NEW j \in DOMAIN symbolic' PROVE symbolic'[j].open # "yes"
      <4>1. CASE j \in DOMAIN symbolic
        BY <1>2, <3>2, <4>1 DEF Opened
      <4>2. CASE j = Len(symbolic) + 1
        BY <3>1, <3>2, <4>2
      <4> QED
        BY <3>2, <4>1, <4>2
    <3> QED
      BY <3>3 DEF Opened
  <2> QED
    BY <2>1, <2>2
<1> QED
  BY <1>3 DEF Throughs

LEMMA ThroughsShell == ASSUME Typed, Places, Throughs, Shell PROVE Throughs'
<1>1. symbolic' = symbolic /\ Opened' = Opened
  BY DEF Shell, CdVolume, CdFolder, FindFolder, UserDir, NameFolder, RememberVolume, CdRoot, ListRoot, Opened
<1>2. CASE Opened = {}
  BY <1>1, <1>2 DEF Throughs
<1>3. CASE Opened # {}
  <2>1. kdirectory # <<>> /\ kdirectory \in Seq(Names)
    BY <1>3 DEF Throughs, Typed, TypedPlace
  <2>2. ~ListRoot
    BY <1>3 DEF ListRoot, Places
  <2>3. kdirectory' = kdirectory \/ kdirectory' = Append(kdirectory, shell.name)
    BY <2>2 DEF Shell, CdVolume, CdFolder, FindFolder, UserDir, NameFolder, RememberVolume, CdRoot
  <2>4. Append(kdirectory, shell.name)[1] = kdirectory[1] /\ Append(kdirectory, shell.name) # <<>>
    BY <2>1
  <2>5. kdirectory' # <<>> /\ kdirectory'[1] = kdirectory[1]
    BY <2>1, <2>3, <2>4
  <2> QED
    BY <1>1, <2>5 DEF Throughs
<1> QED
  BY <1>2, <1>3

LEMMA ThroughsDaemon == ASSUME Typed, PathsBegin, Places, Careless = {}, Throughs, Daemon PROVE Throughs'
<1>1. kdirectory' = kdirectory
  BY DaemonLinks DEF Typed
<1>2. ASSUME NEW i \in DOMAIN symbolic, NEW o \in {"no", "yes"}, NEW v \in {cd_rem, Outside}, Linked(i, o, v),
             o = "yes" => /\ kdirectory # <<>> /\ symbolic[i].path[1] = kdirectory[1]
                          /\ v \in RootOf(kdirectory[1])
      PROVE  Throughs'
  <2>1. /\ DOMAIN symbolic' = DOMAIN symbolic /\ symbolic'[i].open = o /\ symbolic'[i].through = v
        /\ \A j \in DOMAIN symbolic : symbolic'[j].path = symbolic[j].path /\ (j # i => symbolic'[j] = symbolic[j])
    BY <1>2, LinkChanges DEF Typed
  <2>2. ASSUME NEW j \in Opened'
        PROVE  /\ kdirectory' # <<>> /\ symbolic'[j].path[1] = kdirectory'[1]
               /\ symbolic'[j].through \in RootOf(symbolic'[j].path[1])
    <3>1. j \in DOMAIN symbolic /\ symbolic'[j].open = "yes"
      BY <2>1 DEF Opened
    <3>2. CASE j = i
      BY <1>1, <1>2, <2>1, <3>1, <3>2
    <3>3. CASE j # i
      <4>1. j \in Opened /\ symbolic'[j] = symbolic[j]
        BY <2>1, <3>1, <3>3 DEF Opened
      <4> QED
        BY <1>1, <4>1 DEF Throughs
    <3> QED
      BY <3>2, <3>3
  <2> QED
    BY <2>2 DEF Throughs
<1>3. CASE \E n \in Names : \E i \in Lookup(n) \ {0} :
             i \in DOMAIN symbolic /\ symbolic[i].open = "no" /\ Fopen(n) /\ Linked(i, "yes", cd_rem)
  <2>0. PICK n \in Names : \E i \in Lookup(n) \ {0} :
             i \in DOMAIN symbolic /\ symbolic[i].open = "no" /\ Fopen(n) /\ Linked(i, "yes", cd_rem)
    BY <1>3
  <2>1. PICK i \in Lookup(n) \ {0} :
             i \in DOMAIN symbolic /\ symbolic[i].open = "no" /\ Fopen(n) /\ Linked(i, "yes", cd_rem)
    BY <2>0
  <2>2. kdirectory # <<>>
    BY <2>1, NothingAtRoot
  <2>3. ~ChangingVolume
    BY <2>1 DEF Fopen
  <2>4. cd_rem \in RootOf(kdirectory[1]) /\ symbolic[i].path[1] = kdirectory[1]
    BY <2>1, <2>2, <2>3, ReadThrough, FoundPath
  <2> QED
    BY <1>2, <2>1, <2>2, <2>4
<1>4. CASE \E i \in Opened : LoadBuf(i) /\ Linked(i, "yes", cd_rem)
  <2>1. PICK i \in Opened : Linked(i, "yes", cd_rem)
    BY <1>4
  <2>2. i \in DOMAIN symbolic /\ kdirectory # <<>> /\ symbolic[i].path[1] = kdirectory[1]
    BY DEF Opened, Throughs
  <2>3. cd_rem \in RootOf(kdirectory[1])
    BY <2>1, ReadThrough
  <2> QED
    BY <1>2, <2>1, <2>2, <2>3
<1>5. CASE \E i \in Opened : Fclose(i) /\ Linked(i, "no", Outside)
  <2>1. PICK i \in Opened : Linked(i, "no", Outside)
    BY <1>5
  <2>2. i \in DOMAIN symbolic
    BY DEF Opened
  <2> QED
    BY <1>2, <2>1, <2>2
<1> QED
  BY <1>3, <1>4, <1>5, DaemonLinks DEF Typed

LEMMA ThroughsNext ==
  ASSUME Typed, PathsBegin, Places, Careless = {}, Throughs, [Next]_vars
  PROVE  Throughs'
<1>1. CASE UNCHANGED vars
  BY <1>1 DEF vars, place, Throughs, Opened
<1> QED
  BY <1>1, ThroughsBuild, ThroughsShell, ThroughsDaemon DEF Next

-----------------------------------------------------------------------------
(* What fopen finds.                                                       *)

LEMMA ShownFrom ==
  ASSUME NEW d \in DOMAIN Disk
  PROVE  /\ Shown(d) \in Seq(Entries)
         /\ \A k \in DOMAIN Shown(d) : \E j \in DOMAIN Disk[d] : Shown(d)[k] = Disk[d][j] /\ Disk[d][j].kind # "skipped"
<1> DEFINE s == Disk[d]
           E == {s[j] : j \in DOMAIN s}
<1>1. s \in Seq(Entries)
  BY DiskIs
<1>2. s \in Seq(E) /\ E \subseteq Entries
  BY <1>1
<1>3. Shown(d) = Only(s, Visible)
  BY DEF Shown
<1>4. Shown(d) \in Seq(E \cap Visible)
  <2> HIDE DEF E, s
  <2> QED
    BY <1>2, <1>3, OnlyType
<1>5. E \cap Visible \subseteq Entries
  BY <1>2
<1>6. ASSUME NEW k \in DOMAIN Shown(d) PROVE \E j \in DOMAIN s : Shown(d)[k] = s[j] /\ s[j].kind # "skipped"
  <2>1. Shown(d)[k] \in E \cap Visible
    <3> HIDE DEF E
    <3> QED
      BY <1>4
  <2> QED
    BY <2>1 DEF Visible
<1> HIDE DEF E
<1> QED
  BY <1>4, <1>5, <1>6

Clustered(n) == {r \in Entries : r.clu # 0 /\ r.name = n}

LEMMA StoredFirst ==
  ASSUME NEW d \in DOMAIN Disk, NEW n
  PROVE  {Stored(d)[k] : k \in First(Stored(d), n)} = FirstsIn(Shown(d), Clustered(n))
<1> DEFINE S == {r \in Entries : r.clu # 0}
           W == {r \in Entries : r.name = n}
           s == Shown(d)
           t == Stored(d)
<1>1. s \in Seq(Entries)
  BY ShownFrom
<1>2. t = Only(s, S)
  BY DEF Stored
<1>3. S \cap W = Clustered(n)
  BY DEF Clustered
<1> HIDE DEF s, t
<1>4. t \in Seq(Entries)
  <2>1. Entries \cap S \subseteq Entries
    OBVIOUS
  <2> HIDE DEF S
  <2>2. t \in Seq(Entries \cap S)
    BY <1>1, <1>2, OnlyType
  <2> QED
    BY <2>1, <2>2
<1>5. FirstsIn(t, W) = FirstsIn(s, S \cap W)
  <2> HIDE DEF S, W
  <2> QED
    BY <1>1, <1>2, FirstChosen
<1>6. First(t, n) = FirstIn(t, W)
  <2>1. DOMAIN t = 1..Len(t) /\ Len(t) \in Nat /\ \A k \in DOMAIN t : t[k] \in W <=> t[k].name = n
    BY <1>4
  <2>2. \A k \in DOMAIN t : \A j \in 1..k - 1 : j \in DOMAIN t
    BY <2>1
  <2> HIDE DEF W
  <2> QED
    BY <2>1, <2>2 DEF First, FirstIn
<1>7. {t[k] : k \in First(t, n)} = FirstsIn(t, W)
  BY <1>6 DEF FirstsIn
<1> QED
  BY <1>3, <1>5, <1>7 DEF s, t

\* The entries of the records of a page that have a name.
EntriesAt(p, n) == {i \in DOMAIN symbolic : /\ symbolic[i].file[1] = p
                                            /\ RecordIn(pages, symbolic[i].file).name = n
                                            /\ RecordIn(pages, symbolic[i].file).kind # "label"}

LEMMA FirstEntry ==
  ASSUME Distinct, Typed, Paths, NEW p \in DOMAIN pages, NEW d \in DOMAIN Disk, Listing(p) = Shown(d), NEW n
  PROVE  {RecordOf(i) : i \in FirstOf(EntriesAt(p, n))} = {Stored(d)[k] : k \in First(Stored(d), n)}
<1> DEFINE s == Shown(d)
           W == Clustered(n)
           M == EntriesAt(p, n)
<1>1. /\ pages \in Seq(Seq(Pointed)) /\ pages[p] \in Seq(Pointed)
      /\ DOMAIN pages[p] = 1..Len(pages[p]) /\ Len(pages[p]) \in Nat
  <2>1. pages \in Seq(Seq(Pointed))
    BY DEF Typed, TypedPages
  <2>2. pages[p] \in Seq(Pointed)
    BY <2>1
  <2> QED
    BY <2>1, <2>2
<1>2. s \in Seq(Entries) /\ s = EntriesOf(pages[p])
  BY ShownFrom, ListingIs
<1>3. DOMAIN s = DOMAIN pages[p] /\ \A k \in DOMAIN s : /\ s[k].name = pages[p][k].name
                                                        /\ s[k].kind = pages[p][k].kind
                                                        /\ s[k].clu = pages[p][k].clu
  BY <1>2 DEF EntriesOf
<1>4. ASSUME NEW k \in DOMAIN s
      PROVE  /\ s[k] \in Entries /\ s[k].kind # "skipped"
             /\ s[k].kind = "label" => s[k].clu = 0
             /\ s[k].kind = "folder" => s[k].clu # 0
  <2>1. PICK j \in DOMAIN Disk[d] : s[k] = Disk[d][j] /\ Disk[d][j].kind # "skipped"
    BY ShownFrom
  <2>2. s[k] \in Entries
    BY <1>2
  <2> QED
    BY <2>1, <2>2 DEF Distinct
<1> HIDE DEF s, M
<1>5. \A i \in M : /\ i \in DOMAIN symbolic /\ i \in Nat /\ symbolic[i].file[1] = p
                   /\ symbolic[i].file[2] \in DOMAIN s
                   /\ RecordOf(i) = s[symbolic[i].file[2]]
                   /\ RecordOf(i) \in W
  <2> TAKE i \in M
  <2> DEFINE k == symbolic[i].file[2]
             r == RecordIn(pages, symbolic[i].file)
  <2>1. i \in DOMAIN symbolic /\ symbolic[i].file[1] = p /\ r.name = n /\ r.kind # "label"
    BY DEF M, EntriesAt
  <2>2. i \in Nat
    BY <2>1 DEF Typed, TypedLinks
  <2>3. k \in DOMAIN s /\ r = pages[p][k]
    BY <1>3, <2>1 DEF Typed, TypedLinks, RecordIn
  <2>4. RecordOf(i) = s[k]
    BY <1>2, <2>1, ListingIs DEF RecordOf, s
  <2>5. r.kind = "file" => r.clu # 0
    BY <2>1 DEF Paths, EntriesFit, KindFits
  <2> HIDE DEF k, r
  <2>6. s[k] \in Entries /\ s[k].name = n /\ s[k].kind \in {"folder", "file"} /\ s[k].clu # 0
    BY <1>3, <1>4, <2>1, <2>3, <2>5 DEF Entries, Kinds
  <2>7. s[k] \in W
    BY <2>6 DEF Clustered
  <2> QED
    BY <2>1, <2>2, <2>3, <2>4, <2>7 DEF k
<1>6. \A k \in DOMAIN s : s[k] \in W => \E i \in M : symbolic[i].file = <<p, k>> /\ symbolic[i].file[2] = k
  <2> TAKE k \in DOMAIN s
  <2> HAVE s[k] \in W
  <2>1. s[k] \in Entries /\ s[k].clu # 0 /\ s[k].name = n
    BY DEF Clustered
  <2>2. Findable(pages[p][k]) /\ pages[p][k].kind # "label"
    BY <1>3, <1>4, <2>1 DEF Findable, Entries, Kinds
  <2>3. PICK i \in DOMAIN symbolic : symbolic[i].file = <<p, k>>
    BY <1>3, <2>2 DEF Paths, Entered
  <2>4. symbolic[i].file[1] = p /\ symbolic[i].file[2] = k /\ RecordIn(pages, symbolic[i].file) = pages[p][k]
    BY <2>3 DEF RecordIn
  <2>5. i \in M
    BY <1>3, <2>1, <2>2, <2>4 DEF M, EntriesAt
  <2> QED
    BY <2>3, <2>4, <2>5
<1>7. ASSUME NEW i \in FirstOf(M) PROVE RecordOf(i) \in FirstsIn(s, W)
  <2> DEFINE k == symbolic[i].file[2]
  <2>1. i \in M /\ \A j \in M : i <= j
    BY DEF FirstOf
  <2>2. k \in DOMAIN s /\ RecordOf(i) = s[k] /\ s[k] \in W /\ i \in DOMAIN symbolic /\ symbolic[i].file[1] = p /\ i \in Nat
    BY <1>5, <2>1
  <2> HIDE DEF k, W
  <2>3. k \in Nat /\ \A j \in 1..k - 1 : j \in DOMAIN s /\ j \in Nat
    BY <1>1, <1>3, <2>2
  <2>4. ASSUME NEW j \in 1..k - 1, s[j] \in W PROVE FALSE
    <3>1. j \in DOMAIN s
      BY <2>3
    <3>2. PICK l \in M : symbolic[l].file[2] = j
      BY <1>6, <2>4, <3>1
    <3>3. l \in DOMAIN symbolic /\ l \in Nat /\ symbolic[l].file[1] = p /\ i <= l
      BY <1>5, <2>1
    <3>4. j # k /\ ~(k < j)
      BY <2>3
    <3>5. i < l
      BY <2>2, <3>2, <3>3, <3>4 DEF k
    <3>6. k < j
      BY <2>2, <3>2, <3>3, <3>5 DEF Paths, Increasing, k
    <3> QED
      BY <3>4, <3>6
  <2>5. k \in FirstIn(s, W)
    BY <2>2, <2>4 DEF FirstIn
  <2> QED
    BY <2>2, <2>5 DEF FirstsIn
<1>8. ASSUME NEW x \in FirstsIn(s, W) PROVE \E i \in FirstOf(M) : x = RecordOf(i)
  <2>1. PICK k \in DOMAIN s : s[k] \in W
    BY DEF FirstsIn, FirstIn
  <2>2. M # {} /\ M \in SUBSET Nat
    BY <1>5, <1>6, <2>1
  <2>3. PICK i \in M : \A j \in M : i <= j
    BY <2>2, LeastOf
  <2>4. i \in FirstOf(M)
    BY <2>3 DEF FirstOf
  <2>5. RecordOf(i) \in FirstsIn(s, W)
    BY <1>7, <2>4
  <2> HIDE DEF W
  <2>6. x = RecordOf(i)
    BY <1>2, <2>5, FirstUnique
  <2> QED
    BY <2>4, <2>6
<1>9. {RecordOf(i) : i \in FirstOf(M)} = FirstsIn(s, W)
  <2> HIDE DEF W
  <2> QED
    BY <1>7, <1>8
<1> QED
  BY <1>9, StoredFirst DEF s, M

\* Once the card has been read, the entries with a path are those of one page.
LEMMA MatchVolume ==
  ASSUME Distinct, Typed, Tree, Paths, reading = <<>>, NEW v \in DOMAIN Volumes, Volumes[v] # NoFolder, NEW n
  PROVE  {i \in DOMAIN symbolic : symbolic[i].path = <<LabelOf(v), n>>} = EntriesAt(v, n)
<1> SUFFICES ASSUME NEW i \in DOMAIN symbolic
             PROVE  symbolic[i].path = <<LabelOf(v), n>>
                    <=> /\ symbolic[i].file[1] = v /\ RecordIn(pages, symbolic[i].file).name = n
                        /\ RecordIn(pages, symbolic[i].file).kind # "label"
  BY DEF EntriesAt
<1> DEFINE e == symbolic[i]
           r == RecordIn(pages, e.file)
<1>1. PathFits(e, pages, r)
  BY DEF Paths, EntriesFit
<1>2. ASSUME e.path = <<LabelOf(v), n>> PROVE e.file[1] = v /\ r.name = n /\ r.kind # "label"
  <2>1. Len(e.path) = 2
    BY <1>2
  <2> HIDE DEF r, e
  <2>2. r.kind # "label"
    BY <1>1, <2>1 DEF PathFits
  <2>3. e.file[1] \in DOMAIN Volumes
    <3>1. ASSUME NEW a, NEW b, NEW c, e.path = <<a, b, c>> PROVE FALSE
      <4>1. Len(<<a, b, c>>) = 3
        OBVIOUS
      <4> QED
        BY <2>1, <3>1, <4>1
    <3>2. ~(Len(e.path) > 3)
      BY <2>1
    <3> QED
      BY <1>1, <2>2, <3>1, <3>2 DEF PathFits
  <2> DEFINE w == e.file[1]
  <2>4. e.path = <<LabelOf(w), r.name>>
    BY <1>1, <2>2, <2>3 DEF PathFits
  <2>5. LabelOf(w) = LabelOf(v) /\ r.name = n
    BY <1>2, <2>4
  <2>6. Volumes[w] # NoFolder
    <3>1. e.file[2] \in DOMAIN pages[w]
      BY DEF Typed, TypedLinks, e
    <3>2. pages[w] # <<>>
      BY <3>1
    <3> QED
      BY <2>3, <3>2 DEF Tree, VolumesRead, Known
  <2>7. w = v
    BY <2>3, <2>5, <2>6 DEF Distinct
  <2> QED
    BY <2>2, <2>5, <2>7
<1>3. ASSUME e.file[1] = v, r.name = n, r.kind # "label" PROVE e.path = <<LabelOf(v), n>>
  <2> HIDE DEF r, e
  <2> QED
    BY <1>1, <1>3 DEF PathFits
<1> QED
  BY <1>2, <1>3

LEMMA OneFolder ==
  ASSUME Distinct, Typed, NEW v \in DOMAIN Volumes, Volumes[v] # NoFolder, Listing(v) = Shown(Volumes[v]),
         NEW j \in DOMAIN pages[v], NEW k \in DOMAIN pages[v],
         pages[v][j].kind = "folder", pages[v][k].kind = "folder", pages[v][j].name = pages[v][k].name
  PROVE  j = k
<1> DEFINE d == Volumes[v]
           s == Shown(d)
<1>1. s = EntriesOf(pages[v])
  BY ListingIs
<1>2. DOMAIN s = DOMAIN pages[v] /\ \A l \in DOMAIN s : s[l].name = pages[v][l].name /\ s[l].kind = pages[v][l].kind
  BY <1>1 DEF EntriesOf
<1>3. d \in Roots \ {NoFolder}
  BY DEF Roots
<1>4. j \in DOMAIN s /\ k \in DOMAIN s /\ s[j].kind = "folder" /\ s[k].kind = "folder" /\ s[j].name = s[k].name
  BY <1>2
<1> HIDE DEF d
<1> QED
  BY <1>3, <1>4 DEF Distinct

LEMMA MatchFolder ==
  ASSUME Distinct, Typed, Tree, Paths, reading = <<>>, NEW v \in DOMAIN Volumes, Volumes[v] # NoFolder,
         Listing(v) = Shown(Volumes[v]), NEW k \in Nat, NEW q, Leading(pages, v, k, q), NEW n
  PROVE  {i \in DOMAIN symbolic : symbolic[i].path = <<LabelOf(v), pages[v][k].name, n>>} = EntriesAt(q, n)
<1> DEFINE b == pages[v][k].name
<1> SUFFICES ASSUME NEW i \in DOMAIN symbolic
             PROVE  symbolic[i].path = <<LabelOf(v), b, n>>
                    <=> /\ symbolic[i].file[1] = q /\ RecordIn(pages, symbolic[i].file).name = n
                        /\ RecordIn(pages, symbolic[i].file).kind # "label"
  BY DEF EntriesAt
<1> DEFINE e == symbolic[i]
           r == RecordIn(pages, e.file)
<1>1. PathFits(e, pages, r)
  BY DEF Paths, EntriesFit
<1>2. ASSUME e.path = <<LabelOf(v), b, n>> PROVE e.file[1] = q /\ r.name = n /\ r.kind # "label"
  <2>1. Len(e.path) = 3
    BY <1>2
  <2> HIDE DEF r, e, b
  <2>2. r.kind # "label"
    BY <1>1, <2>1 DEF PathFits
  <2>3. e.file[1] \notin DOMAIN Volumes
    <3>1. ASSUME NEW a, NEW c, e.path = <<a, c>> PROVE FALSE
      <4>1. Len(<<a, c>>) = 2
        OBVIOUS
      <4> QED
        BY <2>1, <3>1, <4>1
    <3> QED
      BY <1>1, <2>2, <3>1 DEF PathFits
  <2>4. PICK w \in DOMAIN Volumes : \E j \in Nat : Leading(pages, w, j, e.file[1])
    BY <1>1, <2>1, <2>2, <2>3 DEF PathFits
  <2>5. PICK j \in Nat : Leading(pages, w, j, e.file[1])
    BY <2>4
  <2>6. e.path = <<LabelOf(w), pages[w][j].name, r.name>>
    BY <1>1, <2>2, <2>5 DEF PathFits
  <2>7. LabelOf(w) = LabelOf(v) /\ pages[w][j].name = b /\ r.name = n
    BY <1>2, <2>6
  <2>8. Volumes[w] # NoFolder
    <3>1. pages[w] # <<>>
      BY <2>5 DEF Leading
    <3> QED
      BY <3>1 DEF Tree, VolumesRead, Known
  <2>9. w = v
    BY <2>7, <2>8 DEF Distinct
  <2>10. j = k
    BY <2>5, <2>7, <2>9, OneFolder DEF Leading, b
  <2> QED
    BY <2>2, <2>5, <2>7, <2>9, <2>10 DEF Leading
<1>3. ASSUME e.file[1] = q, r.name = n, r.kind # "label" PROVE e.path = <<LabelOf(v), b, n>>
  <2> HIDE DEF r, e
  <2> QED
    BY <1>1, <1>3 DEF PathFits
<1> QED
  BY <1>2, <1>3

LEMMA FirstIsOne ==
  ASSUME NEW S \in SUBSET Nat
  PROVE  /\ \A i \in FirstOf(S), j \in FirstOf(S) : i = j
         /\ S # {} => FirstOf(S) # {}
<1>1. ASSUME NEW i \in FirstOf(S), NEW j \in FirstOf(S) PROVE i = j
  <2>1. i \in Nat /\ j \in Nat /\ i <= j /\ j <= i
    BY DEF FirstOf
  <2> QED
    BY <2>1
<1>2. ASSUME S # {} PROVE FirstOf(S) # {}
  <2>1. PICK i \in S : \A j \in S : i <= j
    BY <1>2, LeastOf
  <2> QED
    BY <2>1 DEF FirstOf
<1> QED
  BY <1>1, <1>2

\* What is found under the name of a folder is not a file.
LEMMA FolderFirst ==
  ASSUME Typed, Paths, NEW v \in DOMAIN pages, NEW n, NEW k \in First(pages[v], n), pages[v][k].kind = "folder"
  PROVE  \A i \in FirstOf(EntriesAt(v, n)) : symbolic[i].open = "folder"
<1>1. pages[v] \in Seq(Pointed) /\ DOMAIN pages[v] = 1..Len(pages[v]) /\ Len(pages[v]) \in Nat
  <2>1. pages \in Seq(Seq(Pointed))
    BY DEF Typed, TypedPages
  <2>2. pages[v] \in Seq(Pointed)
    BY <2>1
  <2> QED
    BY <2>2
<1>2. k \in DOMAIN pages[v] /\ k \in Nat /\ pages[v][k].name = n /\ \A j \in 1..k - 1 : pages[v][j].name # n
  BY <1>1 DEF First
<1>3. PICK l \in DOMAIN symbolic : symbolic[l].file = <<v, k>>
  BY <1>2 DEF Paths, Entered, Findable
<1>4. symbolic[l].file[1] = v /\ symbolic[l].file[2] = k /\ RecordIn(pages, symbolic[l].file) = pages[v][k]
  BY <1>3 DEF RecordIn
<1>5. l \in EntriesAt(v, n)
  BY <1>2, <1>4 DEF EntriesAt
<1> TAKE i \in FirstOf(EntriesAt(v, n))
<1>6. /\ i \in DOMAIN symbolic /\ symbolic[i].file[1] = v /\ RecordIn(pages, symbolic[i].file).name = n
      /\ i <= l /\ i \in Nat /\ l \in Nat
  <2>1. i \in EntriesAt(v, n) /\ i <= l
    BY <1>5 DEF FirstOf
  <2>2. DOMAIN symbolic \subseteq Nat
    BY DEF Typed, TypedLinks
  <2> QED
    BY <2>1, <2>2 DEF EntriesAt
<1>7. CASE i = l
  BY <1>4, <1>7 DEF Paths, EntriesFit, KindFits
<1>8. CASE i # l
  <2>1. i < l
    BY <1>6, <1>8
  <2>2. symbolic[i].file[2] < k
    BY <1>4, <1>6, <2>1 DEF Paths, Increasing
  <2>3. symbolic[i].file[2] \in DOMAIN pages[v]
    BY <1>6 DEF Typed, TypedLinks
  <2>4. symbolic[i].file[2] \in 1..k - 1
    BY <1>1, <1>2, <2>2, <2>3
  <2>5. pages[v][symbolic[i].file[2]].name = n
    BY <1>6 DEF RecordIn
  <2> QED
    BY <1>2, <2>4, <2>5
<1> QED
  BY <1>7, <1>8

\* The page of the place, and its folder.
PageIs(p, d) == /\ p \in DOMAIN pages /\ d \in DOMAIN Disk /\ Listing(p) = Shown(d)
                /\ FoldersAt(kdirectory) = {d}

LEMMA VolumePage ==
  ASSUME Distinct, Typed, Tree, Done, Inside
  PROVE  /\ kdirectory \in Seq(Names) /\ Len(kdirectory) \in {1, 2} /\ reading = <<>>
         /\ cd_rem \in DOMAIN Volumes /\ Volumes[cd_rem] # NoFolder /\ kdirectory[1] = LabelOf(cd_rem)
         /\ {Volumes[v] : v \in RootOf(kdirectory[1])} = {Volumes[cd_rem]}
         /\ cd_rem \in DOMAIN pages /\ Volumes[cd_rem] \in DOMAIN Disk
         /\ Listing(cd_rem) = Shown(Volumes[cd_rem])
<1>1. cd_rem \in DOMAIN Volumes /\ Volumes[cd_rem] # NoFolder /\ kdirectory[1] = LabelOf(cd_rem)
  BY DEF Inside, RootOf, LabelOf
<1>2. \A v \in RootOf(kdirectory[1]) : v = cd_rem
  BY <1>1 DEF RootOf, LabelOf, Distinct
<1>3. {Volumes[v] : v \in RootOf(kdirectory[1])} = {Volumes[cd_rem]}
  BY <1>2 DEF Inside
<1>4. pnum > Len(Volumes) + 1 /\ Len(Volumes) \in Nat /\ pnum \in Nat /\ cd_rem \in 1..Len(Volumes)
  BY <1>1, DiskIs DEF Done, Typed, TypedCalls
<1>5. reading = <<>>
  BY <1>4 DEF Typed, TypedCalls
<1>6. Listing(cd_rem) = Shown(Volumes[cd_rem])
  BY <1>1, <1>4, <1>5 DEF Known, Tree, VolumesRead
<1>7. cd_rem \in DOMAIN pages
  <2>1. pages \in Seq(Seq(Pointed)) /\ Len(Volumes) <= Len(pages)
    BY DEF Typed, TypedPages
  <2> QED
    BY <1>4, <2>1
<1>8. Volumes[cd_rem] \in DOMAIN Disk
  BY <1>1, DiskIs
<1>9. kdirectory \in Seq(Names) /\ Len(kdirectory) \in {1, 2}
  BY DEF Typed, TypedPlace, Inside
<1> QED
  BY <1>1, <1>3, <1>5, <1>6, <1>7, <1>8, <1>9

LEMMA FolderPage ==
  ASSUME Distinct, Typed, Tree, Done, Inside, Len(kdirectory) = 2
  PROVE  \E k \in First(pages[cd_rem], kdirectory[2]) :
           /\ k \in Nat /\ Leading(pages, cd_rem, k, current_page) /\ pages[cd_rem][k].name = kdirectory[2]
           /\ PageIs(current_page, pages[cd_rem][k].clu)
<1> DEFINE v == cd_rem
           d == Volumes[v]
           b == kdirectory[2]
           s == pages[v]
           t == Shown(d)
<1>1. /\ v \in DOMAIN Volumes /\ v \in DOMAIN pages /\ d \in DOMAIN Disk /\ Listing(v) = t /\ reading = <<>>
      /\ {Volumes[w] : w \in RootOf(kdirectory[1])} = {d} /\ kdirectory \in Seq(Names)
  BY VolumePage
<1>2. PICK k \in First(s, b) : s[k].kind = "folder" /\ current_page = s[k].director
  BY DEF Inside, In
<1>3. s \in Seq(Pointed) /\ DOMAIN s = 1..Len(s) /\ Len(s) \in Nat
  <2>1. pages \in Seq(Seq(Pointed))
    BY DEF Typed, TypedPages
  <2> QED
    BY <1>1, <2>1
<1>4. t = EntriesOf(s)
  BY <1>1, ListingIs
<1>5. DOMAIN t = DOMAIN s /\ \A j \in DOMAIN s : t[j].name = s[j].name /\ t[j].kind = s[j].kind /\ t[j].clu = s[j].clu
  BY <1>4 DEF EntriesOf
<1>6. /\ k \in DOMAIN s /\ k \in Nat /\ s[k].name = b
      /\ \A j \in 1..k - 1 : j \in DOMAIN s /\ s[j].name # b
  BY <1>2, <1>3 DEF First
<1>7. Leading(pages, v, k, current_page)
  BY <1>2, <1>6 DEF Leading
<1>8. Listing(current_page) = Shown(s[k].clu) /\ current_page \in DOMAIN pages
  <2>1. Leads(s[k].director, s[k].clu)
    BY <1>1, <1>2, <1>6 DEF Tree, FoldersLead
  <2>2. DOMAIN reading = {}
    BY <1>1
  <2>3. s[k].director \in DOMAIN pages
    BY <1>1, <1>2, <1>6 DEF Tree, FoldersLead, Leads
  <2> QED
    BY <1>2, <2>1, <2>2, <2>3 DEF Leads
<1>9. s[k].clu \in DOMAIN Disk
  <2>1. PICK j \in DOMAIN Disk[d] : t[k] = Disk[d][j]
    BY <1>1, <1>5, <1>6, ShownFrom
  <2>2. Disk[d][j].kind = "folder" /\ Disk[d][j].clu = s[k].clu
    BY <1>2, <1>5, <1>6, <2>1
  <2> QED
    BY <1>1, <2>2, DiskIs
<1>10. SubFolders(d, b) = {s[k].clu}
  <2>1. k \in First(t, b) /\ t[k].kind = "folder" /\ t[k].clu = s[k].clu
    <3> HIDE DEF s, t
    <3> QED
      BY <1>2, <1>5, <1>6 DEF First
  <2>2. ASSUME NEW j \in First(t, b) PROVE j = k
    <3>1. j \in 1..Len(s) /\ t[j].name = b /\ \A l \in 1..j - 1 : t[l].name # b
      BY <1>3, <1>5, <2>2 DEF First
    <3>2. ~(j < k) /\ ~(k < j)
      BY <1>5, <1>6, <3>1
    <3> QED
      BY <1>6, <3>1, <3>2
  <2> QED
    BY <2>1, <2>2 DEF SubFolders
<1>11. FoldersAt(kdirectory) = {s[k].clu}
  <2>1. FoldersAt(kdirectory) = UNION {SubFolders(f, b) : f \in {Volumes[w] : w \in RootOf(kdirectory[1])}}
    BY <1>1, FoldersReached, Zenon
  <2>2. FoldersAt(kdirectory) = UNION {SubFolders(f, b) : f \in {d}}
    BY <1>1, <2>1, Zenon
  <2>3. UNION {SubFolders(f, b) : f \in {d}} = SubFolders(d, b)
    OBVIOUS
  <2> QED
    BY <1>10, <2>2, <2>3
<1>12. PageIs(current_page, s[k].clu)
  BY <1>8, <1>9, <1>11 DEF PageIs
<1> QED
  BY <1>6, <1>7, <1>12

LEMMA FirstTwo ==
  ASSUME NEW T, NEW s \in Seq(T), Len(s) >= 2
  PROVE  SubSeq(s, 1, 2) = <<s[1], s[2]>>
<1> DEFINE t == SubSeq(s, 1, 2)
<1>1. t \in Seq(T) /\ Len(t) = 2 /\ t[1] = s[1] /\ t[2] = s[2]
  OBVIOUS
<1>2. <<s[1], s[2]>> \in Seq(T)
  OBVIOUS
<1> HIDE DEF t
<1>3. t = <<s[1], s[2]>>
  BY <1>1, <1>2
<1> QED
  BY <1>3 DEF t

\* The path that fopen looks for leads to the entries of one page, or, when the name of the
\* folder is short, to that of the folder.
LEMMA PlaceMatches ==
  ASSUME Distinct, Typed, Tree, Paths, Done, Inside, NEW n \in Names
  PROVE  \/ \E p, d : PageIs(p, d) /\ Matching(Append(kdirectory, n)) = EntriesAt(p, n)
         \/ /\ \E k \in 2..Len(kdirectory) : kdirectory[k] \in Short
            /\ \A i \in FirstOf(Matching(Append(kdirectory, n))) : symbolic[i].open = "folder"
<1> DEFINE v == cd_rem
           path == Append(kdirectory, n)
<1>1. /\ kdirectory \in Seq(Names) /\ Len(kdirectory) \in {1, 2} /\ reading = <<>>
      /\ v \in DOMAIN Volumes /\ Volumes[v] # NoFolder /\ kdirectory[1] = LabelOf(v)
      /\ v \in DOMAIN pages /\ Volumes[v] \in DOMAIN Disk /\ Listing(v) = Shown(Volumes[v])
      /\ {Volumes[w] : w \in RootOf(kdirectory[1])} = {Volumes[v]}
  BY VolumePage
<1>2. LabelOf(v) \notin Short
  BY <1>1 DEF Distinct
<1>3. /\ path \in Seq(Names) /\ Len(path) = Len(kdirectory) + 1 /\ DOMAIN path = 1..Len(path)
      /\ \A j \in 1..Len(kdirectory) : path[j] = kdirectory[j]
  BY <1>1
<1>4. /\ Len(kdirectory) = 1 => path = <<LabelOf(v), n>>
      /\ Len(kdirectory) = 2 => path = <<LabelOf(v), kdirectory[2], n>>
  BY <1>1, AppendToName
<1> HIDE DEF path
<1>5. ASSUME \A j \in 2..Len(kdirectory) : kdirectory[j] \notin Short PROVE UpToBlank(path) = path
  <2> DEFINE m == Len(path)
  <2>1. \A j \in 1..m - 1 : path[j] \notin Short
    BY <1>1, <1>2, <1>3, <1>5
  <2>2. m \in DOMAIN path /\ SubSeq(path, 1, m) = path
    BY <1>1, <1>3
  <2>3. CASE path[m] \in Short
    BY <1>3, <2>1, <2>2, <2>3, BlankAt
  <2>4. CASE path[m] \notin Short
    <3>1. \A j \in DOMAIN path : path[j] \notin Short
      BY <1>1, <1>3, <2>1, <2>4
    <3> QED
      BY <1>3, <3>1, BlankAt
  <2> QED
    BY <2>3, <2>4
<1>6. CASE Len(kdirectory) = 1
  <2>1. UpToBlank(path) = <<LabelOf(v), n>>
    BY <1>4, <1>5, <1>6
  <2>2. Matching(path) = EntriesAt(v, n)
    BY <1>1, <2>1, MatchVolume DEF Matching
  <2>3. FoldersAt(kdirectory) = {Volumes[v]}
    BY <1>1, <1>6, FoldersReached
  <2>4. PageIs(v, Volumes[v])
    BY <1>1, <2>3 DEF PageIs
  <2> QED
    BY <2>2, <2>4 DEF path
<1>7. CASE Len(kdirectory) = 2
  <2>1. PICK k \in First(pages[v], kdirectory[2]) :
           /\ k \in Nat /\ Leading(pages, v, k, current_page) /\ pages[v][k].name = kdirectory[2]
           /\ PageIs(current_page, pages[v][k].clu)
    BY <1>7, FolderPage
  <2>2. CASE kdirectory[2] \in Short
    <3>1. 2 \in DOMAIN path /\ path[2] \in Short /\ \A j \in 1..2 - 1 : path[j] \notin Short
      BY <1>1, <1>2, <1>3, <1>7, <2>2
    <3>2. UpToBlank(path) = SubSeq(path, 1, 2)
      BY <1>3, <3>1, BlankAt
    <3> DEFINE b == kdirectory[2]
    <3>3. SubSeq(path, 1, 2) = <<LabelOf(v), b>>
      <4>1. Len(path) >= 2 /\ path[1] = LabelOf(v) /\ path[2] = b
        BY <1>1, <1>3, <1>7
      <4> QED
        BY <1>3, <4>1, FirstTwo
    <3>4. Matching(path) = EntriesAt(v, kdirectory[2])
      <4> HIDE DEF b
      <4>1. {i \in DOMAIN symbolic : symbolic[i].path = <<LabelOf(v), b>>} = EntriesAt(v, b)
        BY <1>1, MatchVolume
      <4>2. Matching(path) = EntriesAt(v, b)
        BY <3>2, <3>3, <4>1 DEF Matching
      <4> QED
        BY <4>2 DEF b
    <3>5. \A i \in FirstOf(Matching(path)) : symbolic[i].open = "folder"
      BY <1>1, <2>1, <3>4, FolderFirst DEF Leading
    <3>6. 2 \in 2..Len(kdirectory)
      BY <1>7
    <3> QED
      BY <2>2, <3>5, <3>6 DEF path
  <2>3. CASE kdirectory[2] \notin Short
    <3>1. UpToBlank(path) = <<LabelOf(v), pages[v][k].name, n>>
      <4>1. \A j \in 2..Len(kdirectory) : kdirectory[j] \notin Short
        BY <1>7, <2>3
      <4> QED
        BY <1>4, <1>5, <1>7, <2>1, <4>1
    <3>2. Matching(path) = EntriesAt(current_page, n)
      BY <1>1, <2>1, <3>1, MatchFolder DEF Matching
    <3> QED
      BY <2>1, <3>2 DEF path
  <2> QED
    BY <2>2, <2>3
<1> QED
  BY <1>1, <1>6, <1>7

LEMMA HereIs ==
  ASSUME Distinct, Typed, Paths, NEW p, NEW d, PageIs(p, d), NEW n
  PROVE  Here(n) = {RecordOf(i) : i \in FirstOf(EntriesAt(p, n))}
<1>1. p \in DOMAIN pages /\ d \in DOMAIN Disk /\ Listing(p) = Shown(d) /\ FoldersAt(kdirectory) = {d}
  BY DEF PageIs
<1>2. Here(n) = UNION {{Stored(f)[k] : k \in First(Stored(f), n)} : f \in {d}}
  BY <1>1, Zenon DEF Here
<1>3. UNION {{Stored(f)[k] : k \in First(Stored(f), n)} : f \in {d}} = {Stored(d)[k] : k \in First(Stored(d), n)}
  OBVIOUS
<1> QED
  BY <1>1, <1>2, <1>3, FirstEntry

LEMMA PathsOpen == ASSUME Distinct, Typed, Tree, Places, Paths, Throughs PROVE OpensListed
<1> SUFFICES ASSUME Command
             PROVE  /\ \A i \in Opened : symbolic[i].through \in VolumeOf(i)
                    /\ kdirectory # <<>> => \A n \in Names :
                         /\ \A i \in Lookup(n) \ {0} : symbolic[i].open # "folder" => RecordOf(i) \in Here(n)
                         /\ (\A k \in 2..Len(kdirectory) : kdirectory[k] \notin Short) =>
                              \A r \in Here(n) : r.kind = "file" /\ n \in Short =>
                                 \A i \in Lookup(n) : i # 0 /\ RecordOf(i) = r
  BY DEF OpensListed
<1>1. \A i \in Opened : symbolic[i].through \in VolumeOf(i)
  BY DEF Throughs, VolumeOf
<1>2. ASSUME kdirectory # <<>>, NEW n \in Names
      PROVE  /\ \A i \in Lookup(n) \ {0} : symbolic[i].open # "folder" => RecordOf(i) \in Here(n)
             /\ (\A k \in 2..Len(kdirectory) : kdirectory[k] \notin Short) =>
                  \A r \in Here(n) : r.kind = "file" /\ n \in Short =>
                     \A i \in Lookup(n) : i # 0 /\ RecordOf(i) = r
  <2>1. Inside /\ Done
    BY <1>2, AtCommand DEF AtRoot, Command
  <2> DEFINE M == Matching(Append(kdirectory, n))
  <2>2. /\ Lookup(n) \ {0} \subseteq FirstOf(M)
        /\ n \in Short /\ FirstOf(M) # {} => Lookup(n) = FirstOf(M)
        /\ FirstOf(M) \subseteq DOMAIN symbolic
    BY <1>2, FoundPath
  <2>3. DOMAIN symbolic = 1..Len(symbolic) /\ Len(symbolic) \in Nat /\ M \in SUBSET Nat
    BY DEF Typed, TypedLinks, Matching
  <2>4. \/ \E p, d : PageIs(p, d) /\ M = EntriesAt(p, n)
        \/ /\ \E k \in 2..Len(kdirectory) : kdirectory[k] \in Short
           /\ \A i \in FirstOf(M) : symbolic[i].open = "folder"
    BY <2>1, PlaceMatches
  <2> HIDE DEF M
  <2>5. ASSUME NEW p, NEW d, PageIs(p, d), M = EntriesAt(p, n)
        PROVE  /\ \A i \in Lookup(n) \ {0} : RecordOf(i) \in Here(n)
               /\ n \in Short => \A r \in Here(n) : \A i \in Lookup(n) : i # 0 /\ RecordOf(i) = r
    <3>1. Here(n) = {RecordOf(i) : i \in FirstOf(M)}
      BY <2>5, HereIs
    <3>2. \A i \in FirstOf(M), j \in FirstOf(M) : i = j
      BY <2>3, FirstIsOne
    <3>3. ASSUME NEW i \in Lookup(n) \ {0} PROVE RecordOf(i) \in Here(n)
      BY <2>2, <3>1
    <3>4. ASSUME n \in Short, NEW r \in Here(n), NEW i \in Lookup(n) PROVE i # 0 /\ RecordOf(i) = r
      <4>1. PICK j \in FirstOf(M) : r = RecordOf(j)
        BY <3>1
      <4>2. i \in FirstOf(M)
        BY <2>2, <3>4, <4>1
      <4>3. i \in DOMAIN symbolic /\ i = j
        BY <2>2, <3>2, <4>2
      <4> QED
        BY <2>3, <4>1, <4>3
    <3> QED
      BY <3>3, <3>4
  <2> QED
    BY <2>2, <2>4, <2>5
<1> QED
  BY <1>1, <1>2

\* fopen opens the file that ls shows: under a name it finds, in the place of the shell, the
\* first entry of symbolic_fs_array that has a cluster, and no other file; and an open file
\* is read through the partition it is of.  The programs do not change the place while a
\* file is open, partitions have labels of eight characters that differ, and so do the names
\* of the folders that ls shows in the root folder of a partition.
THEOREM FopenFindsListed ==
  ASSUME Careless = {}, Labelled, Distinct
  PROVE  Spec => []OpensListed
<1> DEFINE PInv == Typed /\ Tree /\ NamesOfPaths /\ Places /\ Paths /\ Throughs
<1>1. Init => PInv
  BY TypedInit, TreeInit, PathsInit, PlacesInit, PathsBeginEmpty, ThroughsInit
<1>2. PInv /\ [Next]_vars => PInv'
  BY TypedNext, TreeNext, PathsNext, PlacesNext, PathsGoOn, ThroughsNext DEF NamesOfPaths
<1>3. PInv => OpensListed
  BY PathsOpen
<1> QED
  BY <1>1, <1>2, <1>3, PTL DEF Spec
=============================================================================
