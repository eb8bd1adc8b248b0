---------------------------- MODULE SpaceProofs ----------------------------
(***************************************************************************)
(* Theorems about AddressSpace, for any number of pages and of levels of    *)
(* tables: what tasks see, and that it is theirs.                          *)
(***************************************************************************)
EXTENDS AddressSpace, FiniteSetTheorems, WellFoundedInduction, TLAPS

-----------------------------------------------------------------------------
(* Translation.                                                            *)

LEMMA LeastOf ==
  ASSUME NEW S \in SUBSET Nat, S # {}
  PROVE  \E x \in S : \A y \in S : x <= y
<1> DEFINE R == {ss \in Nat \X Nat : ss[1] < ss[2]}
<1>1. IsWellFoundedOn(R, Nat)
  BY NatLessThanWellFounded DEF OpToRel
<1>2. PICK x \in S : \A y \in S : ~(<<y, x>> \in R)
  <2> HIDE DEF R
  <2> QED BY <1>1, WFMin
<1>3. ASSUME NEW y \in S PROVE x <= y
  <2>1. x \in Nat /\ y \in Nat
    OBVIOUS
  <2>2. ~(<<y, x>>[1] < <<y, x>>[2])
    BY <1>2, <2>1
  <2> QED BY <2>1, <2>2
<1> QED BY <1>3

LEMMA Constants ==
  /\ Words \in Nat \ {0} /\ Levels \in Nat \ {0} /\ Size \in Nat \ {0}
  /\ MaxUserPages \in Nat \ {0}
  /\ IsFiniteSet(Pages) /\ Cardinality(Pages) \in Nat /\ Pages = 1..Cardinality(Pages)
  /\ 0 \notin Pages /\ Pages \subseteq Nat
BY SpaceAssumption, FS_CardinalityType

\* f holds the tables and the page of an address: with the entries m, from a root.
Vas == [1..Levels -> Index]
Follow(m, f, root, va, n) ==
  [l \in 0..n |-> IF l = 0 THEN root ELSE IF f[l - 1] \in Pages THEN m[f[l - 1]][va[l]] ELSE 0]
Walk(m, f, root, va) == f = Follow(m, f, root, va, Levels)

LEMMA WalkExists ==
  ASSUME NEW m, NEW root, NEW va
  PROVE  \E f : Walk(m, f, root, va)
<1> DEFINE Found(n) == \E f : f = Follow(m, f, root, va, n)
           S == {n \in Nat : ~Found(n)}
<1>1. SUFFICES ASSUME Levels \in S PROVE FALSE
  BY Constants DEF Walk
<1>2. PICK n \in S : \A k \in S : n <= k
  <2>1. S \in SUBSET Nat
    OBVIOUS
  <2> HIDE DEF S
  <2> QED BY <1>1, <2>1, LeastOf
<1>3. n \in Nat /\ ~Found(n)
  OBVIOUS
<1>4. CASE n = 0
  <2> DEFINE f == [l \in 0..0 |-> root]
  <2>1. f = Follow(m, f, root, va, 0)
    BY DEF Follow
  <2> QED
    BY <1>3, <1>4, <2>1
<1>5. CASE n # 0
  <2>1. n - 1 \in Nat /\ n - 1 \notin S
    BY <1>2, <1>3, <1>5
  <2>2. PICK f : f = Follow(m, f, root, va, n - 1)
    BY <2>1
  <2> DEFINE g == [l \in 0..n |-> IF l < n THEN f[l]
                                  ELSE IF f[n - 1] \in Pages THEN m[f[n - 1]][va[n]] ELSE 0]
  <2>3. ASSUME NEW l \in 0..n PROVE g[l] = Follow(m, g, root, va, n)[l]
    <3>1. CASE l < n
      <4>1. l \in 0..n - 1 /\ g[l] = f[l]
        BY <1>3, <3>1
      <4>2. f[l] = IF l = 0 THEN root ELSE IF f[l - 1] \in Pages THEN m[f[l - 1]][va[l]] ELSE 0
        BY <2>2, <4>1 DEF Follow
      <4>3. l # 0 => g[l - 1] = f[l - 1]
        BY <1>3, <3>1
      <4> QED
        BY <4>1, <4>2, <4>3 DEF Follow
    <3>2. CASE l = n
      <4>1. n - 1 \in 0..n /\ g[n - 1] = f[n - 1]
        BY <1>3, <1>5
      <4> HIDE DEF g
      <4>2. g[n] = IF f[n - 1] \in Pages THEN m[f[n - 1]][va[n]] ELSE 0
        BY <1>3 DEF g
      <4> QED
        BY <1>3, <1>5, <3>2, <4>1, <4>2 DEF Follow
    <3> QED
      BY <1>3, <3>1, <3>2
  <2>4. g = Follow(m, g, root, va, n)
    <3> HIDE DEF g
    <3>1. DOMAIN g = 0..n /\ g = [l \in 0..n |-> g[l]]
      BY DEF g
    <3> QED
      BY <2>3, <3>1 DEF Follow
  <2> QED
    BY <1>3, <2>4
<1> QED
  BY <1>4, <1>5

LEMMA WalkType ==
  ASSUME NEW m, NEW root, NEW va, NEW f, Walk(m, f, root, va)
  PROVE  /\ f = [l \in 0..Levels |-> f[l]]
         /\ f[0] = root
         /\ \A l \in 0..Levels - 1 : f[l + 1] = IF f[l] \in Pages THEN m[f[l]][va[l + 1]] ELSE 0
<1>1. f = Follow(m, f, root, va, Levels)
  BY DEF Walk
<1>2. Levels \in Nat \ {0}
  BY Constants
<1>3. \A l \in 0..Levels :
         f[l] = IF l = 0 THEN root ELSE IF f[l - 1] \in Pages THEN m[f[l - 1]][va[l]] ELSE 0
  BY <1>1 DEF Follow
<1>4. f = [l \in 0..Levels |-> f[l]]
  BY <1>1 DEF Follow
<1>5. ASSUME NEW l \in 0..Levels - 1
      PROVE  f[l + 1] = IF f[l] \in Pages THEN m[f[l]][va[l + 1]] ELSE 0
  <2>1. l + 1 \in 0..Levels /\ l + 1 # 0 /\ (l + 1) - 1 = l
    BY <1>2
  <2> QED
    BY <1>3, <2>1
<1>6. f[0] = root
  <2>1. 0 \in 0..Levels
    BY <1>2
  <2> QED
    BY <1>3, <2>1
<1> QED
  BY <1>4, <1>5, <1>6

LEMMA IsWalk ==
  ASSUME NEW m, NEW root, NEW va, NEW f,
         f = [l \in 0..Levels |-> f[l]], f[0] = root,
         \A l \in 0..Levels - 1 : f[l + 1] = IF f[l] \in Pages THEN m[f[l]][va[l + 1]] ELSE 0
  PROVE  Walk(m, f, root, va)
<1>1. Levels \in Nat \ {0}
  BY Constants
<1>2. ASSUME NEW l \in 0..Levels PROVE f[l] = Follow(m, f, root, va, Levels)[l]
  <2>1. CASE l = 0
    BY <2>1 DEF Follow
  <2>2. CASE l # 0
    <3>1. l - 1 \in 0..Levels - 1 /\ (l - 1) + 1 = l
      BY <1>1, <2>2
    <3>2. f[l] = IF f[l - 1] \in Pages THEN m[f[l - 1]][va[l]] ELSE 0
      BY <3>1
    <3> QED
      BY <2>2, <3>2 DEF Follow
  <2> QED
    BY <2>1, <2>2
<1> QED
  BY <1>2 DEF Walk, Follow

\* Two walks go together as long as they find the same entries.
LEMMA WalkTogether ==
  ASSUME NEW m, NEW o, NEW root, NEW va, NEW wa, NEW f, NEW g,
         Walk(m, f, root, va), Walk(o, g, root, wa), NEW n \in 0..Levels,
         \A l \in 0..n - 1 : f[l] \in Pages => m[f[l]][va[l + 1]] = o[f[l]][wa[l + 1]]
  PROVE  \A l \in 0..n : f[l] = g[l]
<1> DEFINE S == {l \in 0..n : f[l] # g[l]}
<1>1. SUFFICES ASSUME S # {} PROVE FALSE
  OBVIOUS
<1>2. Levels \in Nat /\ n \in Nat
  BY Constants
<1>3. PICK k \in S : \A j \in S : k <= j
  <2>1. S \in SUBSET Nat
    BY <1>2
  <2> HIDE DEF S
  <2> QED BY <1>1, <2>1, LeastOf
<1>4. k \in 0..n /\ f[k] # g[k]
  OBVIOUS
<1>5. k # 0
  BY <1>4, WalkType
<1>6. k - 1 \in 0..n - 1 /\ k - 1 \in 0..Levels - 1 /\ (k - 1) + 1 = k /\ k - 1 \notin S
      /\ k - 1 \in 0..n
  BY <1>2, <1>3, <1>4, <1>5
<1>7. f[k - 1] = g[k - 1]
  BY <1>6
<1>8. /\ f[k] = IF f[k - 1] \in Pages THEN m[f[k - 1]][va[k]] ELSE 0
      /\ g[k] = IF g[k - 1] \in Pages THEN o[g[k - 1]][wa[k]] ELSE 0
  BY <1>6, WalkType
<1> QED
  BY <1>4, <1>6, <1>7, <1>8

\* What tasks find at their addresses.
T(t, va) == Translate(mm[t].pgd, va)
Walks == \A t \in Tasks, va \in Vas : Walk(mem, T(t, va), mm[t].pgd, va)

LEMMA TranslateWalks == Walks
<1> SUFFICES ASSUME NEW t \in Tasks, NEW va \in Vas PROVE Walk(mem, T(t, va), mm[t].pgd, va)
  BY DEF Walks
<1>1. PICK f : Walk(mem, f, mm[t].pgd, va)
  BY WalkExists
<1> QED
  BY <1>1 DEF T, Translate, Walk, Follow

LEMMA TranslateWalksNext == Walks'
BY TranslateWalks, PTL

-----------------------------------------------------------------------------
(* The invariant: no two ways of translation come to one page.             *)

Typed ==
  /\ mem \in [Pages -> [Index -> 0..Junk]]
  /\ free \subseteq Pages
  /\ mm \in [Tasks -> [pgd : Pages \cup {0}, user_pages : Seq(Pages \X Addresses),
                       kernel_pages : Seq(Pages)]]
  /\ \A t \in Tasks : Len(mm[t].user_pages) <= MaxUserPages
  /\ space \in [Tasks -> Tasks]
  /\ state \in [Tasks -> {"none", "created", "runs", "ended"}]
  /\ job \in [Tasks -> {NoJob} \cup (Tasks \X (1..MaxUserPages + 1))]

Along(va, wa, l) == \A j \in 1..l : va[j] = wa[j]
Separate ==
  \A t, s \in Tasks, va, wa \in Vas, l, k \in 0..Levels :
    T(t, va)[l] # 0 /\ T(t, va)[l] = T(s, wa)[k] => t = s /\ l = k /\ Along(va, wa, l)
Used ==
  \A t \in Tasks, va \in Vas, l \in 0..Levels : T(t, va)[l] \in (Pages \ free) \cup {0}

TablesListed ==
  \A t \in Tasks :
    LET tables == mm[t].kernel_pages
    IN  /\ \A n \in DOMAIN tables : \E va \in Vas, l \in 0..Levels - 1 : tables[n] = T(t, va)[l]
        /\ \A va \in Vas, l \in 0..Levels - 1 :
             T(t, va)[l] # 0 => \E n \in DOMAIN tables : tables[n] = T(t, va)[l]
        /\ \A n, k \in DOMAIN tables : tables[n] = tables[k] => n = k
PagesListed ==
  \A t \in Tasks :
    LET pages == mm[t].user_pages
    IN  /\ \A n \in DOMAIN pages : \E va \in Vas : va = pages[n][2] /\ T(t, va)[Levels] # 0
        /\ \A va \in Vas :
             T(t, va)[Levels] # 0 => \E n \in DOMAIN pages : pages[n] = <<T(t, va)[Levels], va>>
\* What is on the lists of pages is there once, in use, and no table.
Kept ==
  \A t \in Tasks : \A n \in DOMAIN mm[t].user_pages :
    /\ mm[t].user_pages[n][1] \notin free
    /\ \A s \in Tasks, va \in Vas, l \in 0..Levels - 1 : mm[t].user_pages[n][1] # T(s, va)[l]
    /\ \A s \in Tasks : \A k \in DOMAIN mm[s].user_pages :
         mm[t].user_pages[n][1] = mm[s].user_pages[k][1] => t = s /\ n = k

Trees == Separate /\ Used /\ TablesListed /\ PagesListed /\ Kept
SInv == Typed /\ Trees

-----------------------------------------------------------------------------
(* Facts about translations.                                               *)

Unfolded ==
  \A t \in Tasks, va \in Vas :
    /\ T(t, va) = [l \in 0..Levels |-> T(t, va)[l]]
    /\ T(t, va)[0] = mm[t].pgd
    /\ \A l \in 0..Levels - 1 :
         T(t, va)[l + 1] = IF T(t, va)[l] \in Pages THEN mem[T(t, va)[l]][va[l + 1]] ELSE 0

LEMMA Unfolds == Unfolded
<1> SUFFICES ASSUME NEW t \in Tasks, NEW va \in Vas
             PROVE  /\ T(t, va) = [l \in 0..Levels |-> T(t, va)[l]]
                    /\ T(t, va)[0] = mm[t].pgd
                    /\ \A l \in 0..Levels - 1 :
                         T(t, va)[l + 1] = IF T(t, va)[l] \in Pages
                                             THEN mem[T(t, va)[l]][va[l + 1]] ELSE 0
  BY DEF Unfolded
<1>1. Walk(mem, T(t, va), mm[t].pgd, va)
  BY TranslateWalks DEF Walks
<1> QED
  BY ONLY <1>1, WalkType

LEMMA UnfoldsNext == Unfolded'
BY Unfolds, PTL

\* Addresses that agree at some levels share the tables there.
Prefixed ==
  \A t \in Tasks, va, wa \in Vas, n \in 0..Levels :
    Along(va, wa, n) => \A l \in 0..n : T(t, va)[l] = T(t, wa)[l]

LEMMA Prefix == Prefixed
<1> SUFFICES ASSUME NEW t \in Tasks, NEW va \in Vas, NEW wa \in Vas, NEW n \in 0..Levels,
                    Along(va, wa, n)
             PROVE  \A l \in 0..n : T(t, va)[l] = T(t, wa)[l]
  BY DEF Prefixed
<1>1. Walk(mem, T(t, va), mm[t].pgd, va) /\ Walk(mem, T(t, wa), mm[t].pgd, wa)
  BY TranslateWalks DEF Walks
<1>2. \A l \in 0..n - 1 : va[l + 1] = wa[l + 1]
  BY Constants DEF Along
<1> QED
  BY ONLY <1>1, <1>2, WalkTogether, n \in 0..Levels

\* Without a first table there is nothing.
NoTree ==
  \A t \in Tasks, va \in Vas : mm[t].pgd = 0 => \A l \in 0..Levels : T(t, va)[l] = 0

LEMMA NoFirstTable == NoTree
<1> SUFFICES ASSUME NEW t \in Tasks, NEW va \in Vas, mm[t].pgd = 0
             PROVE  \A l \in 0..Levels : T(t, va)[l] = 0
  BY DEF NoTree
<1> DEFINE f == [l \in 0..Levels |-> 0]
<1>1. Levels \in Nat /\ 0 \notin Pages
  BY Constants
<1>2. f[0] = 0 /\ \A l \in 0..Levels - 1 : f[l] = 0 /\ f[l + 1] = 0
  BY <1>1
<1>3. Walk(mem, f, 0, va)
  <2>1. f = [l \in 0..Levels |-> f[l]]
    OBVIOUS
  <2> HIDE DEF f
  <2> QED
    BY <1>1, <1>2, <2>1, IsWalk
<1>4. Walk(mem, T(t, va), 0, va)
  BY TranslateWalks DEF Walks
<1>5. \A l \in 0..Levels - 1 : f[l] \notin Pages
  BY <1>1, <1>2
<1>6. Levels \in 0..Levels
  BY <1>1
<1>7. \A l \in 0..Levels : f[l] = T(t, va)[l]
  <2> HIDE DEF f
  <2> QED BY ONLY <1>3, <1>4, <1>5, <1>6, WalkTogether
<1> QED
  BY <1>7

LEMMA NoFirstTableNext == NoTree'
BY NoFirstTable, PTL

\* A task keeps its translations while its tables are not written.
LEMMA TreeKept ==
  ASSUME NEW t \in Tasks, mm'[t].pgd = mm[t].pgd,
         \A va \in Vas, l \in 0..Levels - 1 :
           T(t, va)[l] \in Pages => mem'[T(t, va)[l]] = mem[T(t, va)[l]]
  PROVE  \A va \in Vas : T(t, va)' = T(t, va)
<1> SUFFICES ASSUME NEW va \in Vas PROVE T(t, va)' = T(t, va)
  OBVIOUS
<1>1. Walk(mem, T(t, va), mm[t].pgd, va) /\ Walk(mem', T(t, va)', mm[t].pgd, va)
  BY TranslateWalks, TranslateWalksNext DEF Walks
<1>2. Levels \in 0..Levels
  BY Constants
<1>3. \A l \in 0..Levels - 1 :
        T(t, va)[l] \in Pages => mem[T(t, va)[l]][va[l + 1]] = mem'[T(t, va)[l]][va[l + 1]]
  OBVIOUS
<1>4. \A l \in 0..Levels : T(t, va)[l] = T(t, va)'[l]
  BY ONLY <1>1, <1>2, <1>3, WalkTogether
<1>5. T(t, va) = [l \in 0..Levels |-> T(t, va)[l]] /\ T(t, va)' = [l \in 0..Levels |-> T(t, va)'[l]]
  BY Unfolds, UnfoldsNext DEF Unfolded
<1> QED
  BY <1>4, <1>5

\* Nothing is found behind an entry that is 0.
LEMMA Downward ==
  ASSUME NEW t \in Tasks, NEW va \in Vas, NEW l \in 0..Levels - 1, T(t, va)[l + 1] # 0
  PROVE  T(t, va)[l] \in Pages
BY Unfolds DEF Unfolded

-----------------------------------------------------------------------------
(* The pages that are taken for a new address.                             *)

\* There is a page before which there are any number of free ones.
LEMMA NthExists ==
  ASSUME NEW F \in SUBSET Pages, NEW n \in 1..Cardinality(F)
  PROVE  \E p \in F : Cardinality({q \in F : q <= p}) = n
<1> DEFINE Upto(k) == {q \in F : q <= k}
           C(k) == Cardinality(Upto(k))
           S == {k \in Nat : C(k) >= n}
           N == Cardinality(Pages)
<1>1. IsFiniteSet(F) /\ N \in Nat /\ F \subseteq 1..N /\ Cardinality(F) \in Nat /\ n \in Nat \ {0}
  <2>1. IsFiniteSet(Pages) /\ N \in Nat /\ Pages = 1..N
    BY Constants
  <2>2. IsFiniteSet(F)
    BY <2>1, FS_Subset
  <2>3. Cardinality(F) \in Nat
    BY <2>2, FS_CardinalityType
  <2> QED
    BY <2>1, <2>2, <2>3
<1>2. ASSUME NEW k \in Nat PROVE IsFiniteSet(Upto(k)) /\ C(k) \in Nat
  <2>1. Upto(k) \in SUBSET F
    OBVIOUS
  <2> QED
    BY <1>1, <2>1, FS_Subset, FS_CardinalityType
<1>3. Upto(N) = F /\ Upto(0) = {}
  <2>1. \A q \in F : q <= N /\ ~(q <= 0)
    BY <1>1
  <2> HIDE DEF N
  <2> QED
    BY ONLY <2>1
<1>4. ASSUME NEW k \in Nat \ {0}
      PROVE  Upto(k) = IF k \in F THEN Upto(k - 1) \cup {k} ELSE Upto(k - 1)
  <2>1. \A q \in F : q \in Nat
    BY <1>1
  <2>2. \A q \in F : q <= k <=> (q <= k - 1 \/ q = k)
    BY ONLY <1>4, <2>1
  <2>3. k <= k
    BY ONLY <1>4
  <2> QED
    BY ONLY <2>2, <2>3
<1>5. ASSUME NEW k \in Nat \ {0}
      PROVE  C(k) = IF k \in F THEN C(k - 1) + 1 ELSE C(k - 1)
  <2>1. k - 1 \in Nat /\ k \notin Upto(k - 1)
    OBVIOUS
  <2> HIDE DEF Upto
  <2> QED
    BY <1>2, <1>4, <2>1, FS_AddElement
<1>6. C(0) = 0 /\ C(N) >= n
  BY <1>1, <1>3, FS_EmptySet
<1> HIDE DEF C
<1>7. PICK k \in S : \A j \in S : k <= j
  <2>1. S \in SUBSET Nat /\ S # {}
    BY <1>1, <1>6
  <2> HIDE DEF S
  <2> QED BY <2>1, LeastOf
<1>8. k \in Nat /\ C(k) >= n
  BY <1>7
<1>9. k \in Nat \ {0} /\ k - 1 \in Nat
  BY <1>1, <1>6, <1>8
<1>10. k - 1 \notin S
  BY <1>7, <1>9
<1>11. ~(C(k - 1) >= n) /\ C(k) \in Nat /\ C(k - 1) \in Nat
  BY <1>2, <1>9, <1>10
<1>12. k \in F /\ C(k) = n
  BY <1>1, <1>5, <1>8, <1>9, <1>11
<1> QED
  BY <1>12 DEF C

LEMMA NthIs ==
  ASSUME free \subseteq Pages, NEW n \in 1..Cardinality(free)
  PROVE  Nth(n) \in free /\ Cardinality({q \in free : q <= Nth(n)}) = n
<1>1. \E p \in free : Cardinality({q \in free : q <= p}) = n
  BY NthExists
<1> QED
  BY <1>1 DEF Nth

\* The tables that are missing are the last ones.
LEMMA MissingIs ==
  ASSUME NEW t \in Tasks, NEW va \in Vas
  PROVE  \E a \in 0..Levels : /\ Missing(t, va) = a..Levels - 1
                              /\ Cardinality(Missing(t, va)) = Levels - a
                              /\ \A l \in 0..Levels - 1 : l < a <=> T(t, va)[l] # 0
<1> DEFINE M == {l \in 0..Levels - 1 : T(t, va)[l] = 0}
<1>1. Missing(t, va) = M
  BY DEF Missing, T
<1>2. Levels \in Nat \ {0} /\ 0 \notin Pages
  BY Constants
<1>3. ASSUME NEW l \in 0..Levels - 1, l + 1 \in 0..Levels - 1, T(t, va)[l] = 0
      PROVE  T(t, va)[l + 1] = 0
  BY <1>2, <1>3, Unfolds DEF Unfolded
<1>4. CASE M = {}
  <2>1. Levels..Levels - 1 = {} /\ Levels \in 0..Levels /\ Levels - Levels = 0
    BY <1>2
  <2>2. \A l \in 0..Levels - 1 : l < Levels /\ T(t, va)[l] # 0
    BY <1>2, <1>4
  <2>3. Cardinality(M) = 0
    BY <1>4, FS_EmptySet
  <2> QED
    BY <1>1, <1>4, <2>1, <2>2, <2>3
<1>5. CASE M # {}
  <2>1. PICK a \in M : \A j \in M : a <= j
    <3>1. M \in SUBSET Nat
      BY <1>2
    <3> HIDE DEF M
    <3> QED BY <1>5, <3>1, LeastOf
  <2>2. a \in 0..Levels - 1 /\ T(t, va)[a] = 0
    OBVIOUS
  <2> DEFINE S == {l \in a..Levels - 1 : T(t, va)[l] # 0}
  <2>3. S = {}
    <3> SUFFICES ASSUME S # {} PROVE FALSE
      OBVIOUS
    <3>1. PICK k \in S : \A j \in S : k <= j
      <4>1. S \in SUBSET Nat
        BY <1>2, <2>2
      <4> HIDE DEF S
      <4> QED BY <4>1, LeastOf
    <3>2. k \in a..Levels - 1 /\ T(t, va)[k] # 0
      OBVIOUS
    <3>3. k # a
      BY <2>2, <3>2
    <3>4. k - 1 \in a..Levels - 1 /\ k - 1 \notin S /\ (k - 1) + 1 = k /\ k - 1 \in 0..Levels - 1
          /\ k \in 0..Levels - 1
      BY <1>2, <2>2, <3>1, <3>2, <3>3
    <3>5. T(t, va)[k - 1] = 0
      BY <3>4
    <3> QED
      BY <1>3, <3>2, <3>4, <3>5
  <2>4. M = a..Levels - 1
    BY <1>2, <2>1, <2>2, <2>3
  <2>5. Cardinality(a..Levels - 1) = Levels - a
    BY <1>2, <2>2, FS_Interval
  <2>6. a \in 0..Levels /\ \A l \in 0..Levels - 1 : l < a <=> l \notin M
    BY <1>2, <2>2, <2>4
  <2> QED
    BY <1>1, <2>4, <2>5, <2>6
<1> QED
  BY <1>4, <1>5

\* The way to the page of an address: through tables that are there up to
\* a level, then through pages that were free.
IsWay(w, t, va, a) ==
  /\ a \in 0..Levels
  /\ \A l \in 0..Levels : IF l < a THEN w[l] = T(t, va)[l] /\ w[l] \in Pages \ free
                          ELSE w[l] \in free /\ w[l] \in Pages
  /\ \A l \in a..Levels - 1 : T(t, va)[l] = 0
  /\ \A l, k \in 0..Levels : w[l] = w[k] => l = k

LEMMA WayIs ==
  ASSUME SInv, NEW t \in Tasks, NEW va \in Vas, CanMap(t, va)
  PROVE  \E a \in 0..Levels : /\ IsWay(Way(t, va), t, va, a)
                              /\ Missing(t, va) = a..Levels - 1
                              /\ Cardinality(Missing(t, va)) = Levels - a
                              /\ Way(t, va)[Levels] = Leaf
<1>1. PICK a \in 0..Levels :
        /\ Missing(t, va) = a..Levels - 1 /\ Cardinality(Missing(t, va)) = Levels - a
        /\ \A l \in 0..Levels - 1 : l < a <=> T(t, va)[l] # 0
  BY MissingIs
<1>2. Levels \in Nat \ {0} /\ free \subseteq Pages /\ Cardinality(free) \in Nat
  BY Constants, FS_Subset, FS_CardinalityType DEF SInv, Typed
<1>3. \A n \in 1..Levels - a + 1 : n \in 1..Cardinality(free)
  BY <1>1, <1>2 DEF CanMap
<1> DEFINE w == Way(t, va)
<1>4. w[Levels] = Leaf /\ Leaf = Nth(1)
  BY <1>2 DEF Way, Leaf
<1>5. ASSUME NEW l \in 0..Levels, l < a
      PROVE  w[l] = T(t, va)[l] /\ w[l] \in Pages \ free
  <2>1. l # Levels /\ l \in 0..Levels - 1 /\ l \notin Missing(t, va)
    BY <1>1, <1>2, <1>5
  <2>2. w[l] = T(t, va)[l]
    BY <2>1 DEF Way, T
  <2>3. T(t, va)[l] # 0 /\ T(t, va)[l] \in (Pages \ free) \cup {0}
    BY <1>1, <1>5, <2>1 DEF SInv, Trees, Used
  <2> QED
    BY <2>2, <2>3
<1>6. ASSUME NEW l \in 0..Levels, l >= a
      PROVE  \E n \in 1..Levels - a + 1 : w[l] = Nth(n) /\ n = (IF l = Levels THEN 1 ELSE 2 + (l - a))
  <2>1. CASE l = Levels
    BY <1>2, <1>4, <2>1
  <2>2. CASE l # Levels
    <3>1. l \in Missing(t, va)
      BY <1>1, <1>2, <1>6, <2>2
    <3>2. {k \in Missing(t, va) : k < l} = a..l - 1
      BY <1>1, <1>2, <1>6, <2>2
    <3>3. Cardinality(a..l - 1) = l - a
      <4>1. CASE l = a
        <5>1. a..l - 1 = {} /\ l - a = 0
          BY <4>1
        <5> QED BY <5>1, FS_EmptySet
      <4>2. CASE l > a
        BY <1>2, <4>2, FS_Interval
      <4> QED
        BY <1>2, <1>6, <4>1, <4>2
    <3>4. w[l] = Nth(2 + (l - a))
      BY <2>2, <3>1, <3>2, <3>3 DEF Way
    <3>5. 2 + (l - a) \in 1..Levels - a + 1
      BY <1>2, <1>6, <2>2
    <3> QED
      BY <2>2, <3>4, <3>5
  <2> QED
    BY <2>1, <2>2
<1>7. ASSUME NEW l \in 0..Levels, l >= a PROVE w[l] \in free /\ w[l] \in Pages
  BY <1>2, <1>3, <1>6, <1>7, NthIs
<1>8. ASSUME NEW l \in 0..Levels, NEW k \in 0..Levels, w[l] = w[k] PROVE l = k
  <2>1. CASE l < a /\ k < a
    <3>1. l = k
      <4>1. T(t, va)[l] = T(t, va)[k] /\ T(t, va)[l] # 0
        BY <1>5, <1>8, <2>1, Constants
      <4> QED BY <4>1 DEF SInv, Trees, Separate
    <3> QED BY <3>1
  <2>2. CASE l >= a /\ k >= a
    <3>1. PICK n \in 1..Levels - a + 1 : w[l] = Nth(n) /\ n = (IF l = Levels THEN 1 ELSE 2 + (l - a))
      BY <1>6, <2>2
    <3>2. PICK m \in 1..Levels - a + 1 : w[k] = Nth(m) /\ m = (IF k = Levels THEN 1 ELSE 2 + (k - a))
      BY <1>6, <2>2
    <3>3. n = m
      BY <1>2, <1>3, <1>8, <3>1, <3>2, NthIs
    <3> QED
      BY <1>2, <2>2, <3>1, <3>2, <3>3
  <2>3. CASE (l < a /\ k >= a) \/ (l >= a /\ k < a)
    BY <1>5, <1>7, <1>8, <2>3
  <2> QED
    BY <1>2, <2>1, <2>2, <2>3
<1>9. \A l \in a..Levels - 1 : T(t, va)[l] = 0
  BY <1>1, <1>2
<1>10. ASSUME NEW l \in 0..Levels
       PROVE  IF l < a THEN w[l] = T(t, va)[l] /\ w[l] \in Pages \ free
              ELSE w[l] \in free /\ w[l] \in Pages
  <2>1. l < a \/ l >= a
    BY <1>2
  <2> QED
    BY <1>5, <1>7, <2>1
<1>11. IsWay(w, t, va, a)
  BY <1>8, <1>9, <1>10 DEF IsWay
<1> QED
  BY <1>1, <1>4, <1>11

-----------------------------------------------------------------------------
(* Mapping a page.                                                         *)

NewEntries(w, va, a) ==
  /\ \A l \in 0..Levels - 1, i \in Index :
       mem'[w[l]][i] = IF i = va[l + 1] THEN w[l + 1] ELSE IF l < a THEN mem[w[l]][i] ELSE 0
  /\ \A p \in Pages : (\A l \in 0..Levels : p # w[l]) => mem'[p] = mem[p]
NewLists(t, w, va, a) ==
  /\ mm' = [mm EXCEPT ![t].pgd = w[0],
                      ![t].user_pages = Append(@, <<w[Levels], va>>),
                      ![t].kernel_pages = @ \o [n \in 1..Levels - a |-> w[a + n - 1]]]
  /\ free' = free \ {w[l] : l \in a..Levels}
Maps(t, w, va, a) ==
  IsWay(w, t, va, a) /\ NewEntries(w, va, a) /\ NewLists(t, w, va, a)

\* The page and its new tables were in no other place.
LEMMA OffTheWay ==
  ASSUME SInv, NEW t \in Tasks, NEW va \in Vas, NEW a, NEW w, IsWay(w, t, va, a),
         NEW s \in Tasks, NEW wa \in Vas, NEW l \in 0..Levels, T(s, wa)[l] \in Pages,
         ~(s = t /\ Along(va, wa, l))
  PROVE  \A k \in 0..Levels : T(s, wa)[l] # w[k]
<1> SUFFICES ASSUME NEW k \in 0..Levels, T(s, wa)[l] = w[k] PROVE FALSE
  OBVIOUS
<1>1. T(s, wa)[l] # 0 /\ T(s, wa)[l] \notin free
  BY Constants DEF SInv, Trees, Used
<1>2. w[k] = T(t, va)[k]
  BY <1>1 DEF IsWay
<1>3. s = t /\ l = k /\ Along(wa, va, l)
  BY <1>1, <1>2 DEF SInv, Trees, Separate
<1> QED
  BY <1>3 DEF Along

LEMMA MappedOthers ==
  ASSUME SInv, NEW t \in Tasks, NEW va \in Vas, NEW a, NEW w, Maps(t, w, va, a),
         NEW s \in Tasks, s # t
  PROVE  mm'[s] = mm[s] /\ \A wa \in Vas : T(s, wa)' = T(s, wa)
<1>1. mm'[s] = mm[s]
  BY DEF Maps, NewLists, SInv, Typed
<1>2. Levels \in Nat
  BY Constants
<1>3. ASSUME NEW wa \in Vas, NEW l \in 0..Levels - 1, T(s, wa)[l] \in Pages
      PROVE  mem'[T(s, wa)[l]] = mem[T(s, wa)[l]]
  <2>1. l \in 0..Levels
    BY <1>2
  <2>2. \A k \in 0..Levels : T(s, wa)[l] # w[k]
    BY <1>3, <2>1, OffTheWay DEF Maps
  <2> QED
    BY <1>3, <2>2 DEF Maps, NewEntries
<1> QED
  BY <1>1, <1>3, TreeKept

\* The task finds the new page at the address, and elsewhere what it found.
LEMMA MappedOwn ==
  ASSUME SInv, NEW t \in Tasks, NEW va \in Vas, NEW a, NEW w, Maps(t, w, va, a),
         NEW wa \in Vas
  PROVE  T(t, wa)' = [l \in 0..Levels |-> IF Along(va, wa, l) THEN w[l] ELSE T(t, wa)[l]]
<1> DEFINE e == [l \in 0..Levels |-> IF Along(va, wa, l) THEN w[l] ELSE T(t, wa)[l]]
<1>1. Levels \in Nat \ {0} /\ a \in 0..Levels /\ IsWay(w, t, va, a) /\ NewEntries(w, va, a)
  BY Constants DEF Maps, IsWay
<1>2. mm'[t].pgd = w[0]
  BY DEF Maps, NewLists, SInv, Typed
<1>3. \A l \in 0..Levels : w[l] \in Pages
  BY <1>1 DEF IsWay
<1>4. e[0] = w[0]
  <2>1. Along(va, wa, 0) /\ 0 \in 0..Levels
    BY <1>1 DEF Along
  <2> QED
    BY <2>1
<1>5. ASSUME NEW l \in 0..Levels - 1
      PROVE  e[l + 1] = IF e[l] \in Pages THEN mem'[e[l]][wa[l + 1]] ELSE 0
  <2>1. l \in 0..Levels /\ l + 1 \in 0..Levels /\ l + 1 \in 1..Levels
    BY <1>1
  <2>2. va[l + 1] \in Index /\ wa[l + 1] \in Index
    BY <2>1 DEF Vas
  <2>3. Along(va, wa, l + 1) <=> Along(va, wa, l) /\ va[l + 1] = wa[l + 1]
    BY <1>1 DEF Along
  <2>4. T(t, wa)[l + 1] = IF T(t, wa)[l] \in Pages THEN mem[T(t, wa)[l]][wa[l + 1]] ELSE 0
    BY Unfolds DEF Unfolded
  <2>5. CASE Along(va, wa, l + 1)
    <3>1. e[l] = w[l] /\ e[l + 1] = w[l + 1]
      BY <2>1, <2>3, <2>5
    <3>2. mem'[w[l]][va[l + 1]] = w[l + 1] /\ wa[l + 1] = va[l + 1]
      BY <1>1, <2>2, <2>3, <2>5 DEF NewEntries
    <3> QED
      BY <1>3, <2>1, <3>1, <3>2
  <2>6. CASE Along(va, wa, l) /\ ~Along(va, wa, l + 1)
    <3>1. e[l] = w[l] /\ e[l + 1] = T(t, wa)[l + 1]
      BY <2>1, <2>6
    <3>2. mem'[w[l]][wa[l + 1]] = IF l < a THEN mem[w[l]][wa[l + 1]] ELSE 0
      BY <1>1, <2>2, <2>3, <2>6 DEF NewEntries
    <3>3. T(t, wa)[l] = T(t, va)[l]
      <4>1. l \in 0..l
        BY <2>1
      <4> QED
        BY <2>1, <2>6, <4>1, Prefix DEF Prefixed
    <3>4. CASE l < a
      <4>1. w[l] = T(t, va)[l] /\ w[l] \in Pages
        BY <1>1, <2>1, <3>4 DEF IsWay
      <4> QED
        BY <2>4, <3>1, <3>2, <3>3, <3>4, <4>1
    <3>5. CASE ~(l < a)
      <4>1. T(t, va)[l] = 0
        <5>1. l \in a..Levels - 1
          BY <1>1, <3>5
        <5> QED
          BY <1>1, <5>1 DEF IsWay
      <4>2. T(t, wa)[l + 1] = 0
        BY <2>4, <3>3, <4>1, Constants
      <4> QED
        BY <1>3, <2>1, <3>1, <3>2, <3>5, <4>2
    <3> QED
      BY <3>4, <3>5
  <2>7. CASE ~Along(va, wa, l)
    <3>1. e[l] = T(t, wa)[l] /\ e[l + 1] = T(t, wa)[l + 1]
      BY <2>1, <2>3, <2>7
    <3>2. T(t, wa)[l] \in Pages => mem'[T(t, wa)[l]] = mem[T(t, wa)[l]]
      <4> SUFFICES ASSUME T(t, wa)[l] \in Pages PROVE mem'[T(t, wa)[l]] = mem[T(t, wa)[l]]
        OBVIOUS
      <4>1. \A k \in 0..Levels : T(t, wa)[l] # w[k]
        BY <1>1, <2>1, <2>7, OffTheWay
      <4> QED
        BY <1>1, <4>1 DEF NewEntries
    <3> QED
      BY <2>4, <3>1, <3>2
  <2> QED
    BY <2>3, <2>5, <2>6, <2>7
<1>6. Walk(mem', e, w[0], wa)
  <2>1. e = [l \in 0..Levels |-> e[l]]
    OBVIOUS
  <2> HIDE DEF e
  <2> QED
    BY ONLY <1>4, <1>5, <2>1, IsWalk
<1>7. Walk(mem', T(t, wa)', w[0], wa)
  BY <1>2, TranslateWalksNext DEF Walks
<1>8. \A l \in 0..Levels : e[l] = T(t, wa)'[l]
  <2>1. Levels \in 0..Levels
    BY <1>1
  <2> HIDE DEF e
  <2> QED BY ONLY <1>6, <1>7, <2>1, WalkTogether
<1>9. T(t, wa)' = [l \in 0..Levels |-> T(t, wa)'[l]]
  BY UnfoldsNext DEF Unfolded
<1> QED
  BY <1>8, <1>9

\* What the lists have more.
LEMMA ListsAre ==
  ASSUME SInv, NEW t \in Tasks, NEW va \in Addresses, NEW a, NEW w, Maps(t, w, va, a)
  PROVE  LET old == mm[t]
             new == mm'[t]
         IN  /\ DOMAIN old.kernel_pages = 1..Len(old.kernel_pages)
             /\ DOMAIN new.kernel_pages = 1..Len(old.kernel_pages) + (Levels - a)
             /\ Len(old.kernel_pages) \in Nat
             /\ \A n \in 1..Len(old.kernel_pages) : new.kernel_pages[n] = old.kernel_pages[n]
             /\ \A n \in 1..Levels - a : new.kernel_pages[Len(old.kernel_pages) + n] = w[a + n - 1]
             /\ DOMAIN old.user_pages = 1..Len(old.user_pages)
             /\ DOMAIN new.user_pages = 1..Len(old.user_pages) + 1
             /\ Len(new.user_pages) = Len(old.user_pages) + 1
             /\ Len(old.user_pages) \in Nat
             /\ \A n \in 1..Len(old.user_pages) : new.user_pages[n] = old.user_pages[n]
             /\ new.user_pages[Len(old.user_pages) + 1] = <<w[Levels], va>>
             /\ new.pgd = w[0]
             /\ new \in [pgd : Pages \cup {0}, user_pages : Seq(Pages \X Addresses),
                         kernel_pages : Seq(Pages)]
<1> DEFINE k == mm[t].kernel_pages
           u == mm[t].user_pages
           m == Levels - a
           more == [n \in 1..m |-> w[a + n - 1]]
<1>1. Levels \in Nat \ {0} /\ a \in 0..Levels /\ m \in Nat
  BY Constants DEF Maps, IsWay
<1>2. mm[t] \in [pgd : Pages \cup {0}, user_pages : Seq(Pages \X Addresses), kernel_pages : Seq(Pages)]
  BY DEF SInv, Typed
<1>3. k \in Seq(Pages) /\ u \in Seq(Pages \X Addresses)
  BY <1>2
<1>4. \A l \in 0..Levels : w[l] \in Pages
  BY DEF Maps, IsWay
<1>5. more \in Seq(Pages) /\ Len(more) = m
  <2>1. \A n \in 1..m : a + n - 1 \in 0..Levels
    BY <1>1
  <2>2. more \in [1..m -> Pages]
    BY <1>4, <2>1
  <2> QED
    BY <1>1, <2>2
<1>6. mm'[t] = [mm[t] EXCEPT !.pgd = w[0], !.user_pages = Append(u, <<w[Levels], va>>),
                             !.kernel_pages = k \o more]
  BY DEF Maps, NewLists, SInv, Typed
<1>7. mm'[t].pgd = w[0] /\ mm'[t].user_pages = Append(u, <<w[Levels], va>>)
      /\ mm'[t].kernel_pages = k \o more
  BY <1>2, <1>6
<1>8. w[0] \in Pages /\ <<w[Levels], va>> \in Pages \X Addresses
  BY <1>1, <1>4
<1> HIDE DEF k, u
<1>9. /\ k \o more \in Seq(Pages) /\ Len(k \o more) = Len(k) + m
      /\ \A n \in 1..Len(k) : (k \o more)[n] = k[n]
      /\ \A n \in 1..m : (k \o more)[Len(k) + n] = more[n]
  <2> HIDE DEF more, m
  <2> QED
    BY <1>1, <1>3, <1>5
<1>10. \A n \in 1..m : (k \o more)[Len(k) + n] = w[a + n - 1]
  BY <1>9
<1>11. DOMAIN (k \o more) = 1..Len(k) + m /\ DOMAIN k = 1..Len(k) /\ Len(k) \in Nat
  <2> HIDE DEF more, m
  <2> QED
    BY <1>3, <1>9
<1>12. /\ Append(u, <<w[Levels], va>>) \in Seq(Pages \X Addresses)
       /\ Len(Append(u, <<w[Levels], va>>)) = Len(u) + 1
       /\ DOMAIN Append(u, <<w[Levels], va>>) = 1..Len(u) + 1
       /\ DOMAIN u = 1..Len(u) /\ Len(u) \in Nat
       /\ \A n \in 1..Len(u) : Append(u, <<w[Levels], va>>)[n] = u[n]
       /\ Append(u, <<w[Levels], va>>)[Len(u) + 1] = <<w[Levels], va>>
  BY <1>3, <1>8
<1>13. mm'[t] \in [pgd : Pages \cup {0}, user_pages : Seq(Pages \X Addresses),
                   kernel_pages : Seq(Pages)]
  BY <1>2, <1>6, <1>8, <1>9, <1>12 DEF k, u
<1> QED
  BY <1>7, <1>9, <1>10, <1>11, <1>12, <1>13 DEF k, u

\* Every place a task finds is on the way, or is the one it found before.
LEMMA NewOrOld ==
  ASSUME SInv, NEW t \in Tasks, NEW va \in Vas, NEW a, NEW w, Maps(t, w, va, a),
         NEW s \in Tasks, NEW wa \in Vas, NEW l \in 0..Levels
  PROVE  /\ T(s, wa)'[l] = IF s = t /\ Along(va, wa, l) THEN w[l] ELSE T(s, wa)[l]
         /\ ~(s = t /\ Along(va, wa, l)) /\ T(s, wa)[l] # 0
              => T(s, wa)[l] \in Pages \ free /\ \A k \in 0..Levels : T(s, wa)[l] # w[k]
         /\ l < Levels /\ T(s, wa)[l] # 0 => T(s, wa)'[l] = T(s, wa)[l]
<1>1. T(s, wa)'[l] = IF s = t /\ Along(va, wa, l) THEN w[l] ELSE T(s, wa)[l]
  <2>1. CASE s = t
    <3>1. T(t, wa)' = [k \in 0..Levels |-> IF Along(va, wa, k) THEN w[k] ELSE T(t, wa)[k]]
      BY MappedOwn
    <3> QED
      BY <2>1, <3>1
  <2>2. CASE s # t
    BY <2>2, MappedOthers
  <2> QED
    BY <2>1, <2>2
<1>2. T(s, wa)[l] # 0 => T(s, wa)[l] \in Pages \ free
  BY DEF SInv, Trees, Used
<1>3. ~(s = t /\ Along(va, wa, l)) /\ T(s, wa)[l] # 0 => \A k \in 0..Levels : T(s, wa)[l] # w[k]
  BY <1>2, OffTheWay DEF Maps
<1>4. ASSUME l < Levels, T(s, wa)[l] # 0 PROVE T(s, wa)'[l] = T(s, wa)[l]
  <2>1. CASE s = t /\ Along(va, wa, l)
    <3>1. T(s, wa)[l] = T(t, va)[l]
      <4>1. l \in 0..l
        BY Constants
      <4> QED
        BY <2>1, <4>1, Prefix DEF Prefixed
    <3>2. Levels \in Nat /\ a \in 0..Levels
      BY Constants DEF Maps, IsWay
    <3>3. l < a
      <4>1. ~(l \in a..Levels - 1)
        BY <1>4, <3>1 DEF Maps, IsWay
      <4> QED
        BY <1>4, <3>2, <4>1
    <3> QED
      BY <1>1, <2>1, <3>1, <3>3 DEF Maps, IsWay
  <2> QED
    BY <1>1, <2>1
<1> QED
  BY <1>1, <1>2, <1>3, <1>4

LEMMA MapSeparate ==
  ASSUME SInv, NEW t \in Tasks, NEW va \in Vas, NEW a, NEW w, Maps(t, w, va, a)
  PROVE  Separate' /\ Used'
<1>1. ASSUME NEW r \in Tasks, NEW s \in Tasks, NEW ra \in Vas, NEW sa \in Vas,
             NEW l \in 0..Levels, NEW k \in 0..Levels,
             T(r, ra)'[l] # 0, T(r, ra)'[l] = T(s, sa)'[k]
      PROVE  r = s /\ l = k /\ Along(ra, sa, l)
  <2>1. /\ T(r, ra)'[l] = IF r = t /\ Along(va, ra, l) THEN w[l] ELSE T(r, ra)[l]
        /\ ~(r = t /\ Along(va, ra, l)) /\ T(r, ra)[l] # 0 => \A j \in 0..Levels : T(r, ra)[l] # w[j]
    BY NewOrOld
  <2>2. /\ T(s, sa)'[k] = IF s = t /\ Along(va, sa, k) THEN w[k] ELSE T(s, sa)[k]
        /\ ~(s = t /\ Along(va, sa, k)) /\ T(s, sa)[k] # 0 => \A j \in 0..Levels : T(s, sa)[k] # w[j]
    BY NewOrOld
  <2>3. CASE (r = t /\ Along(va, ra, l)) /\ (s = t /\ Along(va, sa, k))
    <3>1. l = k
      BY <1>1, <2>1, <2>2, <2>3 DEF Maps, IsWay
    <3> QED
      BY <2>3, <3>1 DEF Along
  <2>4. CASE ~(r = t /\ Along(va, ra, l)) /\ ~(s = t /\ Along(va, sa, k))
    <3>1. T(r, ra)[l] # 0 /\ T(r, ra)[l] = T(s, sa)[k]
      BY <1>1, <2>1, <2>2, <2>4
    <3> QED
      BY <3>1 DEF SInv, Trees, Separate
  <2> QED
    BY <1>1, <2>1, <2>2, <2>3, <2>4
<1>2. ASSUME NEW s \in Tasks, NEW wa \in Vas, NEW l \in 0..Levels
      PROVE  T(s, wa)'[l] \in (Pages \ free') \cup {0}
  <2>1. free' = free \ {w[j] : j \in a..Levels} /\ Levels \in Nat /\ a \in 0..Levels
    BY Constants DEF Maps, NewLists, IsWay
  <2>2. w[l] \in Pages \ free'
    <3>1. l < a \/ l \in a..Levels
      BY <2>1
    <3> QED
      BY <2>1, <3>1 DEF Maps, IsWay
  <2>3. T(s, wa)[l] \in (Pages \ free) \cup {0}
    BY DEF SInv, Trees, Used
  <2> QED
    BY <2>1, <2>2, <2>3, NewOrOld
<1> QED
  BY <1>1, <1>2 DEF Separate, Used

LEMMA MapTables ==
  ASSUME SInv, NEW t \in Tasks, NEW va \in Addresses, NEW a, NEW w, Maps(t, w, va, a)
  PROVE  TablesListed'
<1>1. va \in Vas /\ Levels \in Nat \ {0} /\ a \in 0..Levels /\ IsWay(w, t, va, a)
  BY SpaceAssumption DEF Vas, Maps, IsWay
<1> DEFINE old == mm[t].kernel_pages
           new == mm'[t].kernel_pages
           L == Len(old)
<1>2. /\ DOMAIN old = 1..L /\ DOMAIN new = 1..L + (Levels - a) /\ L \in Nat
      /\ \A n \in 1..L : new[n] = old[n]
      /\ \A n \in 1..Levels - a : new[L + n] = w[a + n - 1]
  <2>1. DOMAIN old = 1..L /\ L \in Nat
    BY ListsAre
  <2>2. DOMAIN new = 1..L + (Levels - a)
    BY ListsAre
  <2>3. \A n \in 1..L : new[n] = old[n]
    BY ListsAre
  <2>4. \A n \in 1..Levels - a : new[L + n] = w[a + n - 1]
    BY ListsAre
  <2> QED
    BY <2>1, <2>2, <2>3, <2>4
<1>3. ASSUME NEW n \in DOMAIN new
      PROVE  (n \in 1..L /\ new[n] = old[n])
             \/ \E l \in a..Levels - 1 : n = L + (l - a) + 1 /\ new[n] = w[l]
  <2>1. CASE n \in 1..L
    BY <1>2, <2>1
  <2>2. CASE n \notin 1..L
    <3>1. n - L \in 1..Levels - a /\ n = L + (n - L)
      BY <1>1, <1>2, <2>2, SMTT(30)
    <3>2. a + (n - L) - 1 \in a..Levels - 1 /\ n = L + ((a + (n - L) - 1) - a) + 1
      <4>1. Levels \in Nat /\ a \in Nat /\ L \in Nat
        BY <1>1, <1>2
      <4> HIDE DEF L
      <4> QED
        BY ONLY <3>1, <4>1
    <3> QED
      BY <1>2, <3>1, <3>2
  <2> QED
    BY <2>1, <2>2
<1>4. /\ \A n \in DOMAIN old : \E wa \in Vas, l \in 0..Levels - 1 : old[n] = T(t, wa)[l]
      /\ \A wa \in Vas, l \in 0..Levels - 1 :
           T(t, wa)[l] # 0 => \E n \in DOMAIN old : old[n] = T(t, wa)[l]
      /\ \A n, k \in DOMAIN old : old[n] = old[k] => n = k
  BY DEF SInv, Trees, TablesListed
<1>5. \A n \in DOMAIN old : old[n] # 0 /\ old[n] \notin free
  <2> SUFFICES ASSUME NEW n \in DOMAIN old PROVE old[n] # 0 /\ old[n] \notin free
    OBVIOUS
  <2>1. PICK wa \in Vas, l \in 0..Levels - 1 : old[n] = T(t, wa)[l]
    BY <1>4
  <2>2. l \in 0..Levels
    BY <1>1
  <2>3. old[n] \in (Pages \ free) \cup {0}
    BY <2>1, <2>2 DEF SInv, Trees, Used
  <2>4. old[n] \in Pages
    BY <1>2 DEF SInv, Typed
  <2> QED
    BY <2>3, <2>4, Constants
<1>6. \A l \in a..Levels - 1 : w[l] \in free /\ l \in 0..Levels - 1
  BY <1>1 DEF IsWay
<1>7. ASSUME NEW n \in DOMAIN new
      PROVE  \E wa \in Vas, l \in 0..Levels - 1 : new[n] = T(t, wa)'[l]
  <2>1. CASE n \in 1..L /\ new[n] = old[n]
    <3>1. PICK wa \in Vas, l \in 0..Levels - 1 : old[n] = T(t, wa)[l]
      BY <1>2, <1>4, <2>1
    <3>2. T(t, wa)[l] # 0 /\ l \in 0..Levels /\ l < Levels
      BY <1>1, <1>2, <1>5, <2>1, <3>1
    <3>3. T(t, wa)'[l] = T(t, wa)[l]
      BY <1>1, <3>2, NewOrOld
    <3> QED
      BY <2>1, <3>1, <3>3
  <2>2. CASE \E l \in a..Levels - 1 : n = L + (l - a) + 1 /\ new[n] = w[l]
    <3>1. PICK l \in a..Levels - 1 : new[n] = w[l]
      BY <2>2
    <3>2. l \in 0..Levels /\ l \in 0..Levels - 1 /\ Along(va, va, l)
      BY <1>1 DEF Along
    <3>3. T(t, va)'[l] = w[l]
      BY <1>1, <3>2, NewOrOld
    <3> QED
      BY <1>1, <3>1, <3>2, <3>3
  <2> QED
    BY <1>3, <2>1, <2>2
<1>8. ASSUME NEW wa \in Vas, NEW l \in 0..Levels - 1, T(t, wa)'[l] # 0
      PROVE  \E n \in DOMAIN new : new[n] = T(t, wa)'[l]
  <2>1. l \in 0..Levels /\ l < Levels
    BY <1>1
  <2>2. CASE T(t, wa)[l] # 0
    <3>1. T(t, wa)'[l] = T(t, wa)[l]
      BY <1>1, <2>1, <2>2, NewOrOld
    <3>2. PICK n \in DOMAIN old : old[n] = T(t, wa)[l]
      BY <1>4, <2>2
    <3>3. n \in DOMAIN new /\ new[n] = old[n]
      BY <1>1, <1>2
    <3> QED
      BY <3>1, <3>2, <3>3
  <2>3. CASE T(t, wa)[l] = 0
    <3>1. Along(va, wa, l) /\ T(t, wa)'[l] = w[l]
      BY <1>1, <1>8, <2>1, <2>3, NewOrOld
    <3>2. T(t, va)[l] = 0
      <4>1. l \in 0..l
        BY <2>1
      <4> QED
        BY <1>1, <2>1, <2>3, <3>1, <4>1, Prefix DEF Prefixed
    <3>3. l \in a..Levels - 1
      <4>1. ~(l < a)
        BY <1>1, <2>1, <3>2, Constants DEF IsWay
      <4> QED
        BY <1>1, <4>1
    <3>4. L + (l - a + 1) \in DOMAIN new /\ l - a + 1 \in 1..Levels - a /\ a + (l - a + 1) - 1 = l
      BY <1>1, <1>2, <3>3, SMTT(30)
    <3>5. new[L + (l - a + 1)] = w[l]
      BY <1>2, <3>4
    <3> QED
      BY <3>1, <3>4, <3>5
  <2> QED
    BY <2>2, <2>3
<1>9. ASSUME NEW n \in DOMAIN new, NEW k \in DOMAIN new, new[n] = new[k]
      PROVE  n = k
  <2>1. CASE n \in 1..L /\ new[n] = old[n]
    <3>1. new[n] \notin free
      BY <1>2, <1>5, <2>1
    <3>2. k \in 1..L /\ new[k] = old[k]
      BY <1>3, <1>6, <1>9, <3>1
    <3> QED
      BY <1>2, <1>4, <1>9, <2>1, <3>2
  <2>2. CASE \E l \in a..Levels - 1 : n = L + (l - a) + 1 /\ new[n] = w[l]
    <3>1. PICK l \in a..Levels - 1 : n = L + (l - a) + 1 /\ new[n] = w[l]
      BY <2>2
    <3>2. new[k] \in free
      BY <1>6, <1>9, <3>1
    <3>3. PICK j \in a..Levels - 1 : k = L + (j - a) + 1 /\ new[k] = w[j]
      BY <1>2, <1>3, <1>5, <3>2
    <3>4. l \in 0..Levels /\ j \in 0..Levels
      BY <1>1
    <3>5. l = j
      BY <1>1, <1>9, <3>1, <3>3, <3>4 DEF IsWay
    <3> QED
      BY <3>1, <3>3, <3>5
  <2> QED
    BY <1>3, <2>1, <2>2
<1>10. ASSUME NEW s \in Tasks, s # t
       PROVE  mm'[s] = mm[s] /\ \A wa \in Vas : T(s, wa)' = T(s, wa)
  BY <1>1, <1>10, MappedOthers
<1> HIDE DEF old, new
<1>11. ASSUME NEW s \in Tasks
       PROVE  LET tables == mm'[s].kernel_pages
              IN  /\ \A n \in DOMAIN tables : \E wa \in Vas, l \in 0..Levels - 1 :
                       tables[n] = T(s, wa)'[l]
                  /\ \A wa \in Vas, l \in 0..Levels - 1 :
                       T(s, wa)'[l] # 0 => \E n \in DOMAIN tables : tables[n] = T(s, wa)'[l]
                  /\ \A n, k \in DOMAIN tables : tables[n] = tables[k] => n = k
  <2>1. CASE s = t
    BY <1>7, <1>8, <1>9, <2>1 DEF new
  <2>2. CASE s # t
    BY <1>10, <2>2 DEF SInv, Trees, TablesListed
  <2> QED
    BY <2>1, <2>2
<1> QED
  BY <1>11 DEF TablesListed

LEMMA MapPages ==
  ASSUME SInv, NEW t \in Tasks, NEW va \in Addresses, NEW a, NEW w, Maps(t, w, va, a)
  PROVE  PagesListed' /\ Kept'
<1>1. va \in Vas /\ Levels \in Nat \ {0} /\ a \in 0..Levels /\ IsWay(w, t, va, a)
  BY SpaceAssumption DEF Vas, Maps, IsWay
<1> DEFINE L == Len(mm[t].user_pages)
           Old(s, n) == ~(s = t /\ n = L + 1)
<1>2. /\ DOMAIN mm[t].user_pages = 1..L /\ DOMAIN mm'[t].user_pages = 1..L + 1 /\ L \in Nat
      /\ \A n \in 1..L : mm'[t].user_pages[n] = mm[t].user_pages[n]
      /\ mm'[t].user_pages[L + 1] = <<w[Levels], va>>
  BY ListsAre
<1>3. ASSUME NEW s \in Tasks, s # t
      PROVE  mm'[s] = mm[s] /\ \A wa \in Vas : T(s, wa)' = T(s, wa)
  BY <1>1, <1>3, MappedOthers
<1>4. ASSUME NEW s \in Tasks, NEW n \in DOMAIN mm'[s].user_pages
      PROVE  IF Old(s, n) THEN n \in DOMAIN mm[s].user_pages
                               /\ mm'[s].user_pages[n] = mm[s].user_pages[n]
             ELSE mm'[s].user_pages[n] = <<w[Levels], va>>
  <2>1. CASE s = t
    BY <1>2, <2>1, SMTT(30)
  <2>2. CASE s # t
    BY <1>3, <2>2
  <2> QED
    BY <2>1, <2>2
<1>5. ASSUME NEW s \in Tasks, NEW n \in DOMAIN mm[s].user_pages
      PROVE  n \in DOMAIN mm'[s].user_pages /\ mm'[s].user_pages[n] = mm[s].user_pages[n]
             /\ mm[s].user_pages[n][2] \in Vas
  <2>1. mm[s].user_pages \in Seq(Pages \X Addresses)
    BY DEF SInv, Typed
  <2>2. mm[s].user_pages[n][2] \in Vas
    BY <2>1, SpaceAssumption DEF Vas
  <2>3. CASE s = t
    <3>1. n \in 1..L /\ L \in Nat
      BY <1>2, <2>3
    <3>2. n \in 1..L + 1
      <4> HIDE DEF L
      <4> QED BY ONLY <3>1
    <3> QED
      BY <1>2, <2>2, <2>3, <3>1, <3>2
  <2>4. CASE s # t
    BY <1>3, <2>2, <2>4
  <2> QED
    BY <2>3, <2>4
<1>6. w[Levels] \in free /\ w[Levels] # 0 /\ Levels \in 0..Levels
  <2>1. Levels \in 0..Levels /\ ~(Levels < a)
    BY <1>1
  <2> QED
    BY <1>1, <2>1, Constants DEF IsWay
<1>7. ASSUME NEW s \in Tasks, NEW n \in DOMAIN mm'[s].user_pages
      PROVE  \E wa \in Vas : wa = mm'[s].user_pages[n][2] /\ T(s, wa)'[Levels] # 0
  <2>1. CASE Old(s, n)
    <3>1. PICK wa \in Vas : wa = mm[s].user_pages[n][2] /\ T(s, wa)[Levels] # 0
      BY <1>4, <2>1 DEF SInv, Trees, PagesListed
    <3>2. wa = mm'[s].user_pages[n][2]
      BY <1>4, <2>1, <3>1
    <3>3. T(s, wa)'[Levels] # 0
      BY <1>1, <1>6, <3>1, NewOrOld
    <3> QED
      BY <3>2, <3>3
  <2>2. CASE ~Old(s, n)
    <3>1. s = t /\ mm'[s].user_pages[n][2] = va
      BY <1>4, <2>2
    <3>2. Along(va, va, Levels)
      BY DEF Along
    <3>3. T(t, va)'[Levels] = w[Levels]
      BY <1>1, <1>6, <3>2, NewOrOld
    <3> QED
      BY <1>1, <1>6, <3>1, <3>3
  <2> QED
    BY <2>1, <2>2
<1>8. ASSUME NEW s \in Tasks, NEW wa \in Vas, T(s, wa)'[Levels] # 0
      PROVE  \E n \in DOMAIN mm'[s].user_pages :
               mm'[s].user_pages[n] = <<T(s, wa)'[Levels], wa>>
  <2>1. CASE s = t /\ Along(va, wa, Levels)
    <3>1. wa = va
      BY <1>1, <2>1 DEF Along, Vas
    <3>2. T(t, va)'[Levels] = w[Levels]
      BY <1>1, <1>6, <2>1, <3>1, NewOrOld
    <3>3. L + 1 \in DOMAIN mm'[t].user_pages
      BY <1>2
    <3> QED
      BY <1>2, <2>1, <3>1, <3>2, <3>3
  <2>2. CASE ~(s = t /\ Along(va, wa, Levels))
    <3>1. T(s, wa)'[Levels] = T(s, wa)[Levels]
      BY <1>1, <1>6, <2>2, NewOrOld
    <3>2. PICK n \in DOMAIN mm[s].user_pages : mm[s].user_pages[n] = <<T(s, wa)[Levels], wa>>
      BY <1>8, <3>1 DEF SInv, Trees, PagesListed
    <3> QED
      BY <1>5, <3>1, <3>2
  <2> QED
    BY <2>1, <2>2
<1>9. PagesListed'
  BY <1>7, <1>8 DEF PagesListed
<1>10. free' \subseteq free /\ w[Levels] \notin free'
  <2>1. Levels \in a..Levels
    BY <1>1
  <2> QED
    BY <2>1 DEF Maps, NewLists
<1>11. ASSUME NEW s \in Tasks, NEW n \in DOMAIN mm'[s].user_pages
       PROVE  /\ Old(s, n) => mm'[s].user_pages[n][1] \notin free
              /\ ~Old(s, n) => mm'[s].user_pages[n][1] = w[Levels]
              /\ mm'[s].user_pages[n][1] \notin free'
  BY <1>4, <1>10 DEF SInv, Trees, Kept
<1>12. ASSUME NEW s \in Tasks, NEW n \in DOMAIN mm'[s].user_pages,
              NEW r \in Tasks, NEW wa \in Vas, NEW l \in 0..Levels - 1
       PROVE  mm'[s].user_pages[n][1] # T(r, wa)'[l]
  <2>1. l \in 0..Levels /\ l < Levels /\ l # Levels
    BY <1>1
  <2>2. T(r, wa)[l] \in (Pages \ free) \cup {0}
    BY <2>1 DEF SInv, Trees, Used
  <2>3. T(r, wa)'[l] = T(r, wa)[l] \/ (T(r, wa)'[l] = w[l])
    BY <1>1, <2>1, NewOrOld
  <2>4. CASE T(r, wa)[l] # 0
    <3>1. T(r, wa)'[l] = T(r, wa)[l]
      BY <1>1, <2>1, <2>4, NewOrOld
    <3>2. CASE Old(s, n)
      BY <1>4, <3>1, <3>2 DEF SInv, Trees, Kept
    <3>3. CASE ~Old(s, n)
      BY <1>6, <1>11, <2>2, <2>4, <3>1, <3>3
    <3> QED
      BY <3>2, <3>3
  <2>5. CASE T(r, wa)[l] = 0 /\ T(r, wa)'[l] = w[l] /\ r = t /\ Along(va, wa, l)
    <3>1. T(t, va)[l] = 0
      <4>1. l \in 0..l
        BY <2>1
      <4> QED
        BY <1>1, <2>1, <2>5, <4>1, Prefix DEF Prefixed
    <3>2. w[l] \in free
      BY <1>1, <2>1, <3>1, Constants DEF IsWay
    <3>3. w[l] # w[Levels]
      BY <1>1, <1>6, <2>1 DEF IsWay
    <3> QED
      BY <1>11, <2>5, <3>2, <3>3
  <2>6. CASE T(r, wa)'[l] = 0
    <3>1. mm'[s].user_pages[n][1] # 0
      <4>1. CASE Old(s, n)
        <5>1. mm[s].user_pages \in Seq(Pages \X Addresses)
          BY DEF SInv, Typed
        <5> QED
          BY <1>4, <4>1, <5>1, Constants
      <4> QED
        BY <1>6, <1>11, <4>1
    <3> QED
      BY <2>6, <3>1
  <2> QED
    BY <1>1, <2>1, <2>4, <2>5, <2>6, NewOrOld
<1>13. ASSUME NEW s \in Tasks, NEW n \in DOMAIN mm'[s].user_pages,
              NEW r \in Tasks, NEW k \in DOMAIN mm'[r].user_pages,
              mm'[s].user_pages[n][1] = mm'[r].user_pages[k][1]
       PROVE  s = r /\ n = k
  <2>1. CASE Old(s, n)
    <3>1. Old(r, k)
      BY <1>6, <1>11, <1>13, <2>1
    <3> HIDE DEF Old
    <3>2. /\ n \in DOMAIN mm[s].user_pages /\ k \in DOMAIN mm[r].user_pages
          /\ mm[s].user_pages[n][1] = mm[r].user_pages[k][1]
      BY <1>4, <1>13, <2>1, <3>1
    <3> QED
      BY <3>2 DEF SInv, Trees, Kept
  <2>2. CASE ~Old(s, n)
    <3>1. ~Old(r, k)
      BY <1>6, <1>11, <1>13, <2>2
    <3> QED
      BY <2>2, <3>1
  <2> QED
    BY <2>1, <2>2
<1>14. Kept'
  BY <1>11, <1>12, <1>13 DEF Kept
<1> QED
  BY <1>9, <1>14

\* Mapping a page, with what is put into it, keeps the trees.
LEMMA MapTrees ==
  ASSUME SInv, NEW t \in Tasks, NEW va \in Addresses, NEW a, NEW w, Maps(t, w, va, a)
  PROVE  Trees'
<1>1. va \in Vas
  BY SpaceAssumption DEF Vas
<1> QED
  BY <1>1, MapSeparate, MapTables, MapPages DEF Trees

-----------------------------------------------------------------------------
(* Steps.                                                                  *)

\* Programs fit into a page.  move_to_user_mode would copy the rest of a longer
\* one into the pages behind, whatever they are.
OnePage == Size <= Words

Contents == [Pages -> [Index -> 0..Junk]]

LEMMA ContentTypes ==
  /\ Pages \subseteq 0..Junk /\ 0 \in 0..Junk /\ Code \in 0..Junk /\ Written \in 0..Junk
  /\ Junk \in 0..Junk
<1> DEFINE N == Cardinality(Pages)
<1>1. N \in Nat /\ Pages = 1..N
  BY Constants
<1> HIDE DEF N
<1>2. Code = N + 1 /\ Written = N + 2 /\ Junk = N + 3
  BY <1>1 DEF Code, Written, Junk, N
<1> QED
  BY <1>1, <1>2

LEMMA MappedType ==
  ASSUME SInv, NEW t \in Tasks, NEW va \in Vas, CanMap(t, va)
  PROVE  Mapped(t, va) \in Contents
<1> DEFINE w == Way(t, va)
<1>1. \A l \in 0..Levels : w[l] \in Pages
  BY WayIs DEF IsWay
<1>2. Levels \in Nat
  BY Constants
<1> HIDE DEF w
<1>3. ASSUME NEW p \in Pages, NEW i \in Index PROVE Mapped(t, va)[p][i] \in 0..Junk
  <2>1. CASE \E l \in 1..Levels : p = w[l - 1] /\ i = va[l]
    <3>1. PICK k \in 1..Levels : k = CHOOSE l \in 1..Levels : p = w[l - 1] /\ i = va[l]
      BY <2>1
    <3>2. Mapped(t, va)[p][i] = w[k]
      BY <2>1, <3>1 DEF Mapped, w
    <3>3. k \in 0..Levels
      BY <1>2
    <3> QED
      BY <1>1, <3>2, <3>3, ContentTypes
  <2>2. CASE ~ \E l \in 1..Levels : p = w[l - 1] /\ i = va[l]
    <3>1. Mapped(t, va)[p][i] = 0 \/ Mapped(t, va)[p][i] = mem[p][i]
      BY <2>2 DEF Mapped, w
    <3>2. mem[p][i] \in 0..Junk
      BY DEF SInv, Typed
    <3> QED
      BY <3>1, <3>2, ContentTypes
  <2> QED
    BY <2>1, <2>2
<1> QED
  BY <1>3 DEF Mapped, Contents

\* map_page does what was described above.
LEMMA MapPage ==
  ASSUME SInv, NEW t \in Tasks, NEW va \in Addresses, CanMap(t, va), map_page(t, va),
         \A p \in Pages : p # Leaf => mem'[p] = Mapped(t, va)[p]
  PROVE  \E w, a : Maps(t, w, va, a) /\ w[Levels] = Leaf
<1> DEFINE w == Way(t, va)
<1>1. va \in Vas /\ Levels \in Nat \ {0}
  BY SpaceAssumption DEF Vas
<1>2. PICK a \in 0..Levels :
        /\ IsWay(w, t, va, a) /\ Missing(t, va) = a..Levels - 1
        /\ Cardinality(Missing(t, va)) = Levels - a /\ w[Levels] = Leaf
  BY <1>1, WayIs
<1>3. \A l \in 0..Levels : w[l] \in Pages
  BY <1>2 DEF IsWay
<1>4. \A l, k \in 0..Levels : w[l] = w[k] => l = k
  BY <1>2 DEF IsWay
<1> DEFINE New == {Leaf} \cup {w[l] : l \in Missing(t, va)}
<1>5. New = {w[l] : l \in a..Levels}
  <2>1. a..Levels = (a..Levels - 1) \cup {Levels}
    BY <1>1
  <2> QED
    BY <1>2, <2>1
<1>6. ASSUME NEW p \in Pages, NEW i \in Index
      PROVE  Mapped(t, va)[p][i] =
               IF \E l \in 1..Levels : p = w[l - 1] /\ i = va[l]
                 THEN w[CHOOSE l \in 1..Levels : p = w[l - 1] /\ i = va[l]]
                 ELSE IF p \in New THEN 0 ELSE mem[p][i]
  BY DEF Mapped
<1> HIDE DEF w, New
<1>7. ASSUME NEW l \in 0..Levels - 1, NEW i \in Index
      PROVE  mem'[w[l]][i] = IF i = va[l + 1] THEN w[l + 1] ELSE IF l < a THEN mem[w[l]][i] ELSE 0
  <2>1. l \in 0..Levels /\ Levels \in 0..Levels /\ l # Levels /\ l + 1 \in 1..Levels /\ (l + 1) - 1 = l
    BY <1>1
  <2>2. w[l] \in Pages /\ w[l] # Leaf
    BY <1>2, <1>3, <1>4, <2>1
  <2>3. mem'[w[l]][i] = Mapped(t, va)[w[l]][i]
    BY <2>2
  <2>4. \A k \in 1..Levels : w[l] = w[k - 1] <=> k = l + 1
    <3> SUFFICES ASSUME NEW k \in 1..Levels PROVE w[l] = w[k - 1] <=> k = l + 1
      OBVIOUS
    <3>1. k - 1 \in 0..Levels /\ (l = k - 1 <=> k = l + 1)
      BY <1>1, <2>1
    <3> QED
      BY <1>4, <2>1, <3>1
  <2>5. CASE i = va[l + 1]
    <3>1. \E k \in 1..Levels : w[l] = w[k - 1] /\ i = va[k]
      BY <2>1, <2>4, <2>5
    <3>2. (CHOOSE k \in 1..Levels : w[l] = w[k - 1] /\ i = va[k]) = l + 1
      BY <2>1, <2>4, <3>1
    <3> QED
      BY <1>6, <2>2, <2>3, <2>5, <3>1, <3>2
  <2>6. CASE i # va[l + 1]
    <3>1. ~ \E k \in 1..Levels : w[l] = w[k - 1] /\ i = va[k]
      BY <2>4, <2>6
    <3>2. w[l] \in New <=> l \in a..Levels
      <4>1. \A k \in a..Levels : k \in 0..Levels
        BY <1>1, <1>2
      <4> QED
        BY <1>4, <1>5, <2>1, <4>1
    <3>3. l \in a..Levels <=> ~(l < a)
      BY <1>1, <1>2, <2>1
    <3> QED
      BY <1>6, <2>2, <2>3, <2>6, <3>1, <3>2, <3>3
  <2> QED
    BY <2>5, <2>6
<1>8. ASSUME NEW p \in Pages, \A l \in 0..Levels : p # w[l]
      PROVE  mem'[p] = mem[p]
  <2>1. p # Leaf /\ p \notin New
    <3>1. Levels \in 0..Levels /\ \A l \in a..Levels : l \in 0..Levels
      BY <1>1, <1>2
    <3> QED
      BY <1>2, <1>5, <1>8, <3>1
  <2>2. ~ \E l \in 1..Levels : p = w[l - 1]
    <3>1. \A l \in 1..Levels : l - 1 \in 0..Levels
      BY <1>1
    <3> QED
      BY <1>8, <3>1
  <2>3. mem'[p] = Mapped(t, va)[p] /\ DOMAIN Mapped(t, va)[p] = Index
        /\ Mapped(t, va)[p] = [i \in Index |-> Mapped(t, va)[p][i]]
    BY <2>1 DEF Mapped
  <2>4. mem[p] = [i \in Index |-> mem[p][i]]
    BY DEF SInv, Typed
  <2> QED
    BY <1>6, <2>1, <2>2, <2>3, <2>4
<1>9. NewEntries(w, va, a)
  BY <1>7, <1>8 DEF NewEntries
<1>10. NewLists(t, w, va, a)
  <2>1. Levels - (Levels - a) = a
    BY <1>1, <1>2
  <2>2. free' = free \ New
    BY DEF map_page, New, w
  <2>3. mm' = [mm EXCEPT ![t].pgd = w[0],
                         ![t].user_pages = Append(@, <<Leaf, va>>),
                         ![t].kernel_pages = @ \o [n \in 1..Levels - a |-> w[a + n - 1]]]
    BY <1>2, <2>1 DEF map_page, w
  <2> QED
    BY <1>2, <1>5, <2>2, <2>3 DEF NewLists
<1> QED
  BY <1>2, <1>9, <1>10 DEF Maps

LEMMA SameTrees ==
  ASSUME SInv, mm' = mm, free' = free, \A t \in Tasks, va \in Vas : T(t, va)' = T(t, va)
  PROVE  Trees'
<1>1. Separate'
  BY DEF SInv, Trees, Separate
<1>2. Used'
  BY DEF SInv, Trees, Used
<1>3. TablesListed'
  BY DEF SInv, Trees, TablesListed
<1>4. PagesListed'
  BY ZenonT(60) DEF SInv, Trees, PagesListed
<1>5. Kept'
  BY DEF SInv, Trees, Kept
<1> QED
  BY <1>1, <1>2, <1>3, <1>4, <1>5 DEF Trees

LEMMA Unmapped ==
  ASSUME SInv, mm' = mm, free' = free, mem' = mem
  PROVE  Trees'
<1>1. ASSUME NEW t \in Tasks PROVE \A va \in Vas : T(t, va)' = T(t, va)
  BY TreeKept
<1> QED
  BY <1>1, SameTrees

\* The types of the lists after a page is mapped.
LEMMA MapTyped ==
  ASSUME SInv, NEW t \in Tasks, NEW va \in Addresses, NEW a, NEW w, Maps(t, w, va, a),
         Len(mm[t].user_pages) < MaxUserPages
  PROVE  /\ free' \subseteq Pages
         /\ mm' \in [Tasks -> [pgd : Pages \cup {0}, user_pages : Seq(Pages \X Addresses),
                               kernel_pages : Seq(Pages)]]
         /\ \A s \in Tasks : Len(mm'[s].user_pages) <= MaxUserPages
<1>1. /\ mm'[t] \in [pgd : Pages \cup {0}, user_pages : Seq(Pages \X Addresses), kernel_pages : Seq(Pages)]
      /\ Len(mm'[t].user_pages) = Len(mm[t].user_pages) + 1
      /\ Len(mm[t].user_pages) \in Nat
  BY ListsAre
<1>2. va \in Vas
  BY SpaceAssumption DEF Vas
<1>3. \A s \in Tasks \ {t} : mm'[s] = mm[s]
  BY <1>2, MappedOthers
<1>4. mm' = [s \in Tasks |-> mm'[s]]
  BY DEF Maps, NewLists, SInv, Typed
<1>5. /\ mm \in [Tasks -> [pgd : Pages \cup {0}, user_pages : Seq(Pages \X Addresses),
                           kernel_pages : Seq(Pages)]]
      /\ \A s \in Tasks : Len(mm[s].user_pages) <= MaxUserPages /\ free \subseteq Pages
  BY DEF SInv, Typed
<1>6. Len(mm[t].user_pages) + 1 <= MaxUserPages
  BY <1>1, Constants
<1>7. free' \subseteq Pages
  BY <1>5 DEF Maps, NewLists
<1>8. ASSUME NEW s \in Tasks
      PROVE  /\ mm'[s] \in [pgd : Pages \cup {0}, user_pages : Seq(Pages \X Addresses),
                            kernel_pages : Seq(Pages)]
             /\ Len(mm'[s].user_pages) <= MaxUserPages
  <2>1. CASE s = t
    BY <1>1, <1>6, <2>1
  <2>2. CASE s # t
    BY <1>3, <1>5, <2>2
  <2> QED
    BY <2>1, <2>2
<1> QED
  BY <1>4, <1>7, <1>8

\* A page that is mapped, whatever is put into it.
LEMMA MapInv ==
  ASSUME SInv, NEW t \in Tasks, NEW va \in Addresses, CanMap(t, va), map_page(t, va),
         mem' \in Contents, \A p \in Pages : p # Leaf => mem'[p] = Mapped(t, va)[p],
         space' \in [Tasks -> Tasks],
         state' \in [Tasks -> {"none", "created", "runs", "ended"}],
         job' \in [Tasks -> {NoJob} \cup (Tasks \X (1..MaxUserPages + 1))]
  PROVE  SInv'
<1>1. PICK w, a : Maps(t, w, va, a)
  BY MapPage
<1>2. Trees'
  BY <1>1, MapTrees
<1>3. Len(mm[t].user_pages) < MaxUserPages
  BY DEF CanMap
<1>4. /\ free' \subseteq Pages
      /\ mm' \in [Tasks -> [pgd : Pages \cup {0}, user_pages : Seq(Pages \X Addresses),
                            kernel_pages : Seq(Pages)]]
      /\ \A s \in Tasks : Len(mm'[s].user_pages) <= MaxUserPages
  BY <1>1, <1>3, MapTyped
<1> QED
  BY <1>2, <1>4 DEF SInv, Typed, Contents

\* What is loaded is in the new page.
LEMMA LoadedPage ==
  ASSUME SInv, OnePage, NEW t \in Tasks, CanMap(t, Bottom), NEW m,
         m = [p \in Pages |-> [i \in Index |->
                IF (p - Leaf) * Words + i \in 0..Size - 1 THEN Code ELSE Mapped(t, Bottom)[p][i]]]
  PROVE  /\ m \in Contents
         /\ \A p \in Pages : p # Leaf => m[p] = Mapped(t, Bottom)[p]
         /\ Leaf \in Pages /\ \A i \in Index :
              m[Leaf][i] = IF i < Size THEN Code ELSE Mapped(t, Bottom)[Leaf][i]
<1>1. Bottom \in Vas
  BY SpaceAssumption DEF Vas
<1>2. Mapped(t, Bottom) \in Contents
  BY <1>1, MappedType
<1>3. m \in Contents
  BY <1>2, ContentTypes DEF Contents
<1>4. Leaf \in Pages
  <2>1. PICK a \in 0..Levels : IsWay(Way(t, Bottom), t, Bottom, a) /\ Way(t, Bottom)[Levels] = Leaf
    BY <1>1, WayIs
  <2> QED
    BY <2>1, Constants DEF IsWay
<1>5. Pages \subseteq Nat /\ Words \in Nat \ {0} /\ Size \in Nat \ {0} /\ Size <= Words
  BY Constants DEF OnePage
<1>6. ASSUME NEW p \in Pages, NEW i \in Index
      PROVE  (p - Leaf) * Words + i \in 0..Size - 1 <=> p = Leaf /\ i < Size
  <2>1. i \in Nat /\ i < Words
    BY <1>5 DEF Index
  <2>2. PICK d \in Int : d = p - Leaf
    BY <1>4, <1>5
  <2>3. CASE d = 0
    <3>1. d * Words = 0
      BY <1>5, <2>3
    <3> QED
      BY <1>4, <1>5, <2>1, <2>2, <2>3, <3>1
  <2>4. CASE d >= 1
    <3>1. d * Words >= Words /\ d * Words \in Int
      BY <1>5, <2>4
    <3>2. ~(d * Words + i \in 0..Size - 1)
      BY <1>5, <2>1, <3>1
    <3> QED
      BY <1>4, <1>5, <2>2, <2>4, <3>2
  <2>5. CASE d <= -1
    <3>1. d * Words <= -Words /\ d * Words \in Int
      BY <1>5, <2>5
    <3>2. ~(d * Words + i \in 0..Size - 1)
      BY <1>5, <2>1, <3>1
    <3> QED
      BY <1>4, <1>5, <2>2, <2>5, <3>2
  <2> QED
    BY <2>2, <2>3, <2>4, <2>5
<1>7. ASSUME NEW p \in Pages, p # Leaf PROVE m[p] = Mapped(t, Bottom)[p]
  <2>1. Mapped(t, Bottom)[p] = [i \in Index |-> Mapped(t, Bottom)[p][i]]
    BY <1>2 DEF Contents
  <2>2. \A i \in Index : m[p][i] = Mapped(t, Bottom)[p][i]
    BY <1>6, <1>7
  <2>3. m[p] = [i \in Index |-> m[p][i]]
    BY <1>3 DEF Contents
  <2> QED
    BY <2>1, <2>2, <2>3
<1>8. \A i \in Index : m[Leaf][i] = IF i < Size THEN Code ELSE Mapped(t, Bottom)[Leaf][i]
  BY <1>4, <1>6
<1> QED
  BY <1>3, <1>4, <1>7, <1>8

LEMMA SLoad ==
  ASSUME SInv, OnePage, NEW t \in Tasks, Load(t)
  PROVE  SInv'
<1>1. /\ space' \in [Tasks -> Tasks]
      /\ state' \in [Tasks -> {"none", "created", "runs", "ended"}]
      /\ job' \in [Tasks -> {NoJob} \cup (Tasks \X (1..MaxUserPages + 1))]
  BY DEF Load, move_to_user_mode, SInv, Typed
<1>2. CASE free = {}
  <2>1. mem' = mem /\ mm' = mm /\ free' = free
    BY <1>2 DEF Load, move_to_user_mode
  <2> QED
    BY <1>1, <2>1, Unmapped DEF SInv, Typed
<1>3. CASE free # {}
  <2>1. /\ CanMap(t, Bottom) /\ map_page(t, Bottom)
        /\ mem' = [p \in Pages |-> [i \in Index |->
                     IF (p - Leaf) * Words + i \in 0..Size - 1
                       THEN Code ELSE Mapped(t, Bottom)[p][i]]]
    BY <1>3 DEF Load, move_to_user_mode
  <2>2. mem' \in Contents /\ \A p \in Pages : p # Leaf => mem'[p] = Mapped(t, Bottom)[p]
    BY <2>1, LoadedPage
  <2>3. Bottom \in Addresses
    BY SpaceAssumption
  <2> QED
    BY <1>1, <2>1, <2>2, <2>3, MapInv
<1> QED
  BY <1>2, <1>3

\* What a program writes to is no table.
LEMMA WriteKeeps ==
  ASSUME SInv, NEW t \in Tasks, NEW va \in Addresses, Write(t, va)
  PROVE  /\ \A s \in Tasks, wa \in Vas : T(s, wa)' = T(s, wa)
         /\ va \in Vas /\ \E s \in Tasks :
              /\ s = space[t] /\ T(s, va)[Levels] \in Pages
              /\ mem' = [mem EXCEPT ![T(s, va)[Levels]] = [i \in Index |-> Written]]
<1>1. PICK s \in Tasks : s = space[t]
  BY DEF SInv, Typed
<1>2. Page(Active(t), va) = T(s, va)[Levels]
  BY <1>1 DEF Page, Active, T
<1>3. va \in Vas /\ Levels \in Nat \ {0} /\ Levels \in 0..Levels
  BY SpaceAssumption DEF Vas
<1>4. T(s, va)[Levels] # 0 /\ T(s, va)[Levels] \in (Pages \ free) \cup {0}
  BY <1>2, <1>3 DEF Write, SInv, Trees, Used
<1>5. mem' = [mem EXCEPT ![T(s, va)[Levels]] = [i \in Index |-> Written]] /\ mm' = mm
  BY <1>2 DEF Write
<1>6. ASSUME NEW r \in Tasks PROVE \A wa \in Vas : T(r, wa)' = T(r, wa)
  <2>1. ASSUME NEW wa \in Vas, NEW l \in 0..Levels - 1, T(r, wa)[l] \in Pages
        PROVE  mem'[T(r, wa)[l]] = mem[T(r, wa)[l]]
    <3>1. l \in 0..Levels /\ l # Levels
      BY <1>3
    <3>2. T(r, wa)[l] # T(s, va)[Levels]
      BY <1>3, <1>4, <3>1 DEF SInv, Trees, Separate
    <3> QED
      BY <1>5, <2>1, <3>2 DEF SInv, Typed
  <2> QED
    BY <1>5, <2>1, TreeKept
<1> QED
  BY <1>1, <1>3, <1>4, <1>5, <1>6

LEMMA SWrite ==
  ASSUME SInv, NEW t \in Tasks, NEW va \in Addresses, Write(t, va)
  PROVE  SInv'
<1>1. free' = free /\ mm' = mm /\ space' = space /\ state' = state /\ job' = job
  BY DEF Write
<1>2. mem' \in [Pages -> [Index -> 0..Junk]]
  <2>1. PICK p \in Pages : mem' = [mem EXCEPT ![p] = [i \in Index |-> Written]]
    BY WriteKeeps
  <2>2. [i \in Index |-> Written] \in [Index -> 0..Junk]
    BY ContentTypes
  <2> QED
    BY <2>1, <2>2 DEF SInv, Typed
<1>3. Trees'
  BY <1>1, WriteKeeps, SameTrees
<1> QED
  BY <1>1, <1>2, <1>3 DEF SInv, Typed

LEMMA SFault ==
  ASSUME SInv, NEW t \in Tasks, NEW va \in Addresses, do_mem_abort(t, va)
  PROVE  SInv'
<1>1. /\ space' \in [Tasks -> Tasks]
      /\ state' \in [Tasks -> {"none", "created", "runs", "ended"}]
      /\ job' \in [Tasks -> {NoJob} \cup (Tasks \X (1..MaxUserPages + 1))]
  BY DEF do_mem_abort, SInv, Typed
<1>2. CASE free = {}
  <2>1. mem' = mem /\ mm' = mm /\ free' = free
    BY <1>2 DEF do_mem_abort
  <2> QED
    BY <1>1, <2>1, Unmapped DEF SInv, Typed
<1>3. CASE free # {}
  <2>1. CanMap(t, va) /\ map_page(t, va) /\ mem' = Mapped(t, va)
    BY <1>3 DEF do_mem_abort
  <2>2. va \in Vas
    BY SpaceAssumption DEF Vas
  <2>3. mem' \in Contents
    BY <2>1, <2>2, MappedType
  <2> QED
    BY <1>1, <2>1, <2>3, MapInv
<1> QED
  BY <1>2, <1>3

LEMMA SCreate ==
  ASSUME SInv, NEW t \in Tasks,
         (\E c \in Tasks, shared \in BOOLEAN : Create(t, c, shared)) \/ Copied(t) \/ Exit(t)
  PROVE  SInv'
<1>1. mem' = mem /\ mm' = mm /\ free' = free
  BY DEF Create, Copied, Exit
<1>2. 1 \in 1..MaxUserPages + 1
  BY Constants
<1>3. /\ space' \in [Tasks -> Tasks]
      /\ state' \in [Tasks -> {"none", "created", "runs", "ended"}]
      /\ job' \in [Tasks -> {NoJob} \cup (Tasks \X (1..MaxUserPages + 1))]
  <2>1. CASE \E c \in Tasks, shared \in BOOLEAN : Create(t, c, shared)
    BY <1>2, <2>1 DEF Create, SInv, Typed
  <2>2. CASE Copied(t)
    BY <2>2 DEF Copied, SInv, Typed
  <2>3. CASE Exit(t)
    BY <2>3 DEF Exit, SInv, Typed
  <2> QED
    BY <2>1, <2>2, <2>3
<1> QED
  BY <1>1, <1>3, Unmapped DEF SInv, Typed

\* Which page is copied to whom.
LEMMA Copying ==
  ASSUME SInv, NEW t \in Tasks, copy_virt_memory(t)
  PROVE  \E c \in Tasks, va \in Addresses, s \in Tasks :
           /\ c = job[t][1] /\ va = mm[t].user_pages[job[t][2]][2] /\ s = space[t]
           /\ job[t][2] \in 1..Len(mm[t].user_pages)
           /\ CanMap(c, va) /\ map_page(c, va)
           /\ Page(Active(t), va) = T(s, va)[Levels]
           /\ mem' \in Contents /\ \A p \in Pages : p # Leaf => mem'[p] = Mapped(c, va)[p]
           /\ IF T(s, va)[Levels] = 0 THEN mem' = Mapped(c, va)
              ELSE mem'[Leaf] = mem[T(s, va)[Levels]]
<1>1. job[t] \in Tasks \X (1..MaxUserPages + 1) /\ job[t][2] <= Len(mm[t].user_pages)
  BY DEF copy_virt_memory, Copies, Left, SInv, Typed
<1>2. mm[t].user_pages \in Seq(Pages \X Addresses) /\ Len(mm[t].user_pages) \in Nat
  BY DEF SInv, Typed
<1>3. PICK c \in Tasks, va \in Addresses, s \in Tasks :
        /\ c = job[t][1] /\ va = mm[t].user_pages[job[t][2]][2] /\ s = space[t]
        /\ job[t][2] \in 1..Len(mm[t].user_pages)
  <2>1. job[t][2] \in 1..Len(mm[t].user_pages)
    BY <1>1, <1>2, Constants
  <2>2. mm[t].user_pages[job[t][2]] \in Pages \X Addresses
    BY <1>2, <2>1
  <2>3. space[t] \in Tasks
    BY DEF SInv, Typed
  <2> QED
    BY <1>1, <2>1, <2>2, <2>3
<1>4. /\ CanMap(c, va) /\ map_page(c, va)
      /\ IF Page(Active(t), va) = 0 THEN mem' = Mapped(c, va)
         ELSE mem' = [Mapped(c, va) EXCEPT ![Leaf] = mem[Page(Active(t), va)]]
  BY <1>3 DEF copy_virt_memory
<1>5. Page(Active(t), va) = T(s, va)[Levels]
  BY <1>3 DEF Page, Active, T
<1>6. va \in Vas /\ Levels \in 0..Levels
  BY SpaceAssumption DEF Vas
<1>7. Mapped(c, va) \in Contents
  BY <1>4, <1>6, MappedType
<1>8. Leaf \in Pages
  <2>1. PICK a \in 0..Levels : IsWay(Way(c, va), c, va, a) /\ Way(c, va)[Levels] = Leaf
    BY <1>4, <1>6, WayIs
  <2> QED
    BY <1>6, <2>1 DEF IsWay
<1>9. T(s, va)[Levels] \in (Pages \ free) \cup {0}
  BY <1>6 DEF SInv, Trees, Used
<1>10. CASE T(s, va)[Levels] = 0
  BY <1>3, <1>4, <1>5, <1>7, <1>10
<1>11. CASE T(s, va)[Levels] # 0
  <2>1. mem' = [Mapped(c, va) EXCEPT ![Leaf] = mem[T(s, va)[Levels]]]
    BY <1>4, <1>5, <1>11
  <2>2. mem[T(s, va)[Levels]] \in [Index -> 0..Junk]
    BY <1>9, <1>11 DEF SInv, Typed
  <2>3. mem' \in Contents /\ mem'[Leaf] = mem[T(s, va)[Levels]]
        /\ \A p \in Pages : p # Leaf => mem'[p] = Mapped(c, va)[p]
    BY <1>7, <1>8, <2>1, <2>2 DEF Contents
  <2> QED
    BY <1>3, <1>4, <1>5, <1>11, <2>3, ZenonT(60)
<1> QED
  BY <1>10, <1>11

LEMMA SCopy ==
  ASSUME SInv, NEW t \in Tasks, copy_virt_memory(t)
  PROVE  SInv'
<1>1. PICK c \in Tasks, va \in Addresses :
        /\ job[t][2] \in 1..Len(mm[t].user_pages)
        /\ CanMap(c, va) /\ map_page(c, va)
        /\ mem' \in Contents /\ \A p \in Pages : p # Leaf => mem'[p] = Mapped(c, va)[p]
  BY Copying
<1>2. job[t] \in Tasks \X (1..MaxUserPages + 1)
  BY DEF copy_virt_memory, Copies, SInv, Typed
<1>3. job[t][2] + 1 \in 1..MaxUserPages + 1
  <2>1. Len(mm[t].user_pages) <= MaxUserPages /\ Len(mm[t].user_pages) \in Nat
    BY DEF SInv, Typed
  <2> QED
    BY <1>1, <2>1, Constants
<1>4. /\ space' \in [Tasks -> Tasks]
      /\ state' \in [Tasks -> {"none", "created", "runs", "ended"}]
  BY DEF copy_virt_memory, SInv, Typed
<1>5. job' \in [Tasks -> {NoJob} \cup (Tasks \X (1..MaxUserPages + 1))]
  <2>1. job' = [job EXCEPT ![t] = [job[t] EXCEPT ![2] = job[t][2] + 1]]
    BY DEF copy_virt_memory
  <2>2. [job[t] EXCEPT ![2] = job[t][2] + 1] \in Tasks \X (1..MaxUserPages + 1)
    BY <1>2, <1>3
  <2> QED
    BY <2>1, <2>2 DEF SInv, Typed
<1> QED
  BY <1>1, <1>4, <1>5, MapInv

LEMMA SReap ==
  ASSUME SInv, NEW t \in Tasks, Reap(t)
  PROVE  SInv' /\ \A s \in Tasks, va \in Vas :
                    T(s, va)' = IF s \in Reaped(t) THEN [l \in 0..Levels |-> 0] ELSE T(s, va)
<1>1. mem' = mem /\ free' = free /\ mm' = [s \in Tasks |-> IF s \in Reaped(t) THEN Empty ELSE mm[s]]
  BY DEF Reap
<1>2. ASSUME NEW s \in Tasks, s \in Reaped(t), NEW va \in Vas
      PROVE  T(s, va)' = [l \in 0..Levels |-> 0]
  <2>1. mm'[s].pgd = 0
    BY <1>1, <1>2 DEF Empty
  <2>2. \A l \in 0..Levels : T(s, va)'[l] = 0
    BY <2>1, NoFirstTableNext DEF NoTree
  <2> QED
    BY <2>2, UnfoldsNext DEF Unfolded
<1>3. ASSUME NEW s \in Tasks, s \notin Reaped(t) PROVE \A va \in Vas : T(s, va)' = T(s, va)
  BY <1>1, <1>3, TreeKept
<1>4. ASSUME NEW s \in Tasks, NEW va \in Vas, NEW l \in 0..Levels
      PROVE  /\ T(s, va)'[l] \in {0, T(s, va)[l]}
             /\ s \notin Reaped(t) => T(s, va)'[l] = T(s, va)[l]
             /\ s \in Reaped(t) => T(s, va)'[l] = 0
  BY <1>2, <1>3
<1>5. Separate'
  BY <1>4 DEF SInv, Trees, Separate
<1>6. Used'
  BY <1>1, <1>4 DEF SInv, Trees, Used
<1>7. \A s \in Tasks : IF s \in Reaped(t) THEN mm'[s].user_pages = <<>> /\ mm'[s].kernel_pages = <<>>
                       ELSE mm'[s] = mm[s]
  BY <1>1 DEF Empty
<1>8. Levels \in 0..Levels /\ \A l \in 0..Levels - 1 : l \in 0..Levels
  BY Constants
<1>9. TablesListed'
  <2> SUFFICES ASSUME NEW s \in Tasks
      PROVE  LET tables == mm'[s].kernel_pages
             IN  /\ \A n \in DOMAIN tables : \E va \in Vas, l \in 0..Levels - 1 :
                      tables[n] = T(s, va)'[l]
                 /\ \A va \in Vas, l \in 0..Levels - 1 :
                      T(s, va)'[l] # 0 => \E n \in DOMAIN tables : tables[n] = T(s, va)'[l]
                 /\ \A n, k \in DOMAIN tables : tables[n] = tables[k] => n = k
    BY DEF TablesListed
  <2>1. CASE s \in Reaped(t)
    <3>1. DOMAIN mm'[s].kernel_pages = {}
      BY <1>7, <2>1
    <3> QED
      BY <1>4, <1>8, <2>1, <3>1
  <2>2. CASE s \notin Reaped(t)
    <3>1. mm'[s] = mm[s] /\ \A va \in Vas : T(s, va)' = T(s, va)
      BY <1>3, <1>7, <2>2
    <3> QED
      BY <3>1 DEF SInv, Trees, TablesListed
  <2> QED
    BY <2>1, <2>2
<1>10. PagesListed'
  <2> SUFFICES ASSUME NEW s \in Tasks
      PROVE  LET pages == mm'[s].user_pages
             IN  /\ \A n \in DOMAIN pages : \E va \in Vas : va = pages[n][2] /\ T(s, va)'[Levels] # 0
                 /\ \A va \in Vas : T(s, va)'[Levels] # 0 =>
                      \E n \in DOMAIN pages : pages[n] = <<T(s, va)'[Levels], va>>
    BY DEF PagesListed
  <2>1. CASE s \in Reaped(t)
    <3>1. DOMAIN mm'[s].user_pages = {}
      BY <1>7, <2>1
    <3> QED
      BY <1>4, <1>8, <2>1, <3>1
  <2>2. CASE s \notin Reaped(t)
    <3>1. mm'[s] = mm[s] /\ \A va \in Vas : T(s, va)' = T(s, va)
      BY <1>3, <1>7, <2>2
    <3>2. /\ \A n \in DOMAIN mm[s].user_pages :
               \E va \in Vas : va = mm[s].user_pages[n][2] /\ T(s, va)[Levels] # 0
          /\ \A va \in Vas : T(s, va)[Levels] # 0 =>
               \E n \in DOMAIN mm[s].user_pages : mm[s].user_pages[n] = <<T(s, va)[Levels], va>>
      BY DEF SInv, Trees, PagesListed
    <3> QED
      BY <3>1, <3>2
  <2> QED
    BY <2>1, <2>2
<1>11. ASSUME NEW s \in Tasks, NEW n \in DOMAIN mm'[s].user_pages
       PROVE  n \in DOMAIN mm[s].user_pages /\ mm'[s].user_pages[n] = mm[s].user_pages[n]
              /\ mm[s].user_pages[n][1] # 0
  <2>1. s \notin Reaped(t)
    <3>1. s \in Reaped(t) => DOMAIN mm'[s].user_pages = {}
      BY <1>7
    <3> QED
      BY <3>1
  <2>2. mm'[s] = mm[s]
    BY <1>7, <2>1
  <2>3. mm[s].user_pages \in Seq(Pages \X Addresses)
    BY DEF SInv, Typed
  <2> QED
    BY <2>2, <2>3, Constants
<1>12. Kept'
  BY <1>1, <1>4, <1>8, <1>11 DEF SInv, Trees, Kept
<1>13. Typed'
  <2>1. /\ space' \in [Tasks -> Tasks]
        /\ state' \in [Tasks -> {"none", "created", "runs", "ended"}]
        /\ job' \in [Tasks -> {NoJob} \cup (Tasks \X (1..MaxUserPages + 1))]
    BY DEF Reap, SInv, Typed
  <2>2. Empty \in [pgd : Pages \cup {0}, user_pages : Seq(Pages \X Addresses), kernel_pages : Seq(Pages)]
        /\ Len(Empty.user_pages) <= MaxUserPages
    BY Constants DEF Empty
  <2>3. /\ mm' \in [Tasks -> [pgd : Pages \cup {0}, user_pages : Seq(Pages \X Addresses),
                              kernel_pages : Seq(Pages)]]
        /\ \A s \in Tasks : Len(mm'[s].user_pages) <= MaxUserPages
    BY <1>1, <2>2 DEF SInv, Typed
  <2> QED
    BY <1>1, <2>1, <2>3 DEF SInv, Typed
<1>14. Trees'
  BY <1>5, <1>6, <1>9, <1>10, <1>12 DEF Trees
<1>15. ASSUME NEW s \in Tasks, NEW va \in Vas
       PROVE  T(s, va)' = IF s \in Reaped(t) THEN [l \in 0..Levels |-> 0] ELSE T(s, va)
  BY <1>2, <1>3
<1> QED
  BY <1>13, <1>14, <1>15 DEF SInv

LEMMA SInit ==
  ASSUME Init
  PROVE  SInv
<1>1. Empty \in [pgd : Pages \cup {0}, user_pages : Seq(Pages \X Addresses), kernel_pages : Seq(Pages)]
      /\ Len(Empty.user_pages) <= MaxUserPages
  BY Constants DEF Empty
<1>2. [i \in Index |-> Junk] \in [Index -> 0..Junk]
  BY ContentTypes
<1>3. Typed
  BY <1>1, <1>2 DEF Init, Typed
<1>4. \A t \in Tasks : mm[t].pgd = 0 /\ mm[t].user_pages = <<>> /\ mm[t].kernel_pages = <<>>
  BY DEF Init, Empty
<1>5. \A t \in Tasks, va \in Vas, l \in 0..Levels : T(t, va)[l] = 0
  BY <1>4, NoFirstTable DEF NoTree
<1>6. \A l \in 0..Levels - 1 : l \in 0..Levels
  BY Constants
<1>7. Levels \in 0..Levels /\ DOMAIN <<>> = {}
  BY Constants
<1>8. Separate /\ Used
  BY <1>5 DEF Separate, Used
<1>9. TablesListed
  BY <1>4, <1>5, <1>6, <1>7 DEF TablesListed
<1>10. PagesListed
  BY <1>4, <1>5, <1>7 DEF PagesListed
<1>11. Kept
  BY <1>4, <1>7 DEF Kept
<1> QED
  BY <1>3, <1>8, <1>9, <1>10, <1>11 DEF SInv, Trees

LEMMA SStep ==
  ASSUME SInv, OnePage, [Next]_vars
  PROVE  SInv'
<1>1. ASSUME NEW t \in Tasks, Load(t) \/ copy_virt_memory(t) \/ Reap(t) PROVE SInv'
  BY <1>1, SLoad, SCopy, SReap
<1>2. ASSUME NEW t \in Tasks,
             Copied(t) \/ Exit(t) \/ \E c \in Tasks, shared \in BOOLEAN : Create(t, c, shared)
      PROVE  SInv'
  BY <1>2, SCreate
<1>3. ASSUME NEW t \in Tasks, NEW va \in Addresses, Write(t, va) \/ do_mem_abort(t, va)
      PROVE  SInv'
  BY <1>3, SWrite, SFault
<1>4. CASE UNCHANGED vars
  <2>1. mem' = mem /\ mm' = mm /\ free' = free /\ space' = space /\ state' = state /\ job' = job
    BY <1>4 DEF vars
  <2> QED
    BY <2>1, Unmapped DEF SInv, Typed
<1> QED
  BY <1>1, <1>2, <1>3, <1>4 DEF Next

\* Types of address spaces; in particular no entry is made by a table at address 0.
THEOREM SpaceTypesHold ==
  ASSUME OnePage
  PROVE  Spec => []SpaceTypeOK
<1>1. Init => SInv
  BY SInit
<1>2. SInv /\ [Next]_vars => SInv'
  BY SStep
<1>3. SInv => SpaceTypeOK
  <2> SUFFICES ASSUME SInv PROVE SpaceTypeOK
    OBVIOUS
  <2>1. ASSUME NEW t \in Tasks
        PROVE  /\ mm[t].pgd \in Pages \cup {0}
               /\ Len(mm[t].user_pages) <= MaxUserPages
               /\ \A n \in DOMAIN mm[t].user_pages : mm[t].user_pages[n] \in Pages \X Addresses
               /\ \A n \in DOMAIN mm[t].kernel_pages : mm[t].kernel_pages[n] \in Pages
    <3>1. /\ mm[t] \in [pgd : Pages \cup {0}, user_pages : Seq(Pages \X Addresses),
                        kernel_pages : Seq(Pages)]
          /\ Len(mm[t].user_pages) <= MaxUserPages
      BY DEF SInv, Typed
    <3>2. mm[t].user_pages \in Seq(Pages \X Addresses) /\ mm[t].kernel_pages \in Seq(Pages)
      BY <3>1
    <3> QED
      BY <3>1, <3>2
  <2> QED
    BY <2>1 DEF SInv, Typed, SpaceTypeOK
<1> QED
  BY <1>1, <1>2, <1>3, PTL DEF Spec

\* Every entry of a table, and every first table, is on the way to some address.
LEMMA EntryIs ==
  ASSUME SInv, NEW e \in Entries
  PROVE  \E t \in Tasks, va \in Vas, l \in 0..Levels :
           /\ e[2] = T(t, va)[l]
           /\ l = 0 => e = <<t, T(t, va)[l]>>
           /\ l # 0 => l - 1 \in 0..Levels /\ e = <<<<T(t, va)[l - 1], va[l]>>, T(t, va)[l]>>
<1>1. Levels \in Nat \ {0} /\ Bottom \in Vas
  BY SpaceAssumption DEF Vas
<1>2. CASE \E t \in Tasks : e = <<t, mm[t].pgd>>
  <2>1. PICK t \in Tasks : e = <<t, mm[t].pgd>>
    BY <1>2
  <2>2. T(t, Bottom)[0] = mm[t].pgd /\ 0 \in 0..Levels
    BY <1>1, Unfolds DEF Unfolded
  <2> QED
    BY <1>1, <2>1, <2>2
<1>3. CASE \E x \in Tables \X Index : e = <<x, mem[x[1]][x[2]]>>
  <2>1. PICK q \in Tables, i \in Index : e = <<<<q, i>>, mem[q][i]>>
    BY <1>3
  <2>2. PICK t \in Tasks : q \in Reachable(t)
    BY DEF Tables
  <2>3. PICK wa \in Vas, k \in 0..Levels - 1 : q = T(t, wa)[k] /\ q # 0
    BY <2>2 DEF Reachable, T, Vas
  <2> DEFINE va == [wa EXCEPT ![k + 1] = i]
  <2>4. k \in 0..Levels /\ k + 1 \in 0..Levels /\ k + 1 \in 1..Levels /\ (k + 1) - 1 = k /\ k + 1 # 0
        /\ k \in 0..k
    BY <1>1
  <2>5. va \in Vas /\ va[k + 1] = i /\ Along(wa, va, k)
    BY <1>1, <2>4 DEF Vas, Along
  <2> HIDE DEF va
  <2>6. T(t, va)[k] = q
    BY <2>3, <2>4, <2>5, Prefix DEF Prefixed
  <2>7. q \in Pages
    BY <2>3, <2>4 DEF SInv, Trees, Used
  <2>8. T(t, va)[k + 1] = mem[q][i]
    BY <2>5, <2>6, <2>7, Unfolds DEF Unfolded
  <2> QED
    BY <2>1, <2>4, <2>5, <2>6, <2>8
<1> QED
  BY <1>2, <1>3 DEF Entries

LEMMA AllListed ==
  ASSUME SInv
  PROVE  Listed
<1> SUFFICES ASSUME NEW t \in Tasks
             PROVE  LET tables == mm[t].kernel_pages
                        pages == mm[t].user_pages
                    IN  /\ {tables[n] : n \in DOMAIN tables} = Reachable(t)
                        /\ Cardinality(Reachable(t)) = Len(tables)
                        /\ {pages[n][2] : n \in DOMAIN pages} = Addressed(t)
                        /\ \A va \in Addressed(t) :
                             \E n \in DOMAIN pages : pages[n] = <<Page(mm[t].pgd, va), va>>
  BY DEF Listed
<1> DEFINE tables == mm[t].kernel_pages
           pages == mm[t].user_pages
<1>1. tables \in Seq(Pages) /\ DOMAIN tables = 1..Len(tables) /\ Len(tables) \in Nat
  BY DEF SInv, Typed
<1>2. Reachable(t) = {T(t, va)[l] : va \in Vas, l \in 0..Levels - 1} \ {0}
  BY DEF Reachable, T, Vas
<1>3. Addressed(t) = {va \in Vas : T(t, va)[Levels] # 0}
  BY DEF Addressed, Page, T, Vas
<1>4. /\ \A n \in DOMAIN tables : \E va \in Vas, l \in 0..Levels - 1 : tables[n] = T(t, va)[l]
      /\ \A va \in Vas, l \in 0..Levels - 1 :
           T(t, va)[l] # 0 => \E n \in DOMAIN tables : tables[n] = T(t, va)[l]
      /\ \A n, k \in DOMAIN tables : tables[n] = tables[k] => n = k
  BY DEF SInv, Trees, TablesListed
<1>5. /\ \A n \in DOMAIN pages : \E va \in Vas : va = pages[n][2] /\ T(t, va)[Levels] # 0
      /\ \A va \in Vas :
           T(t, va)[Levels] # 0 => \E n \in DOMAIN pages : pages[n] = <<T(t, va)[Levels], va>>
  BY DEF SInv, Trees, PagesListed
<1> HIDE DEF tables, pages
<1>6. \A n \in DOMAIN tables : tables[n] # 0
  BY <1>1, Constants
<1>7. {tables[n] : n \in DOMAIN tables} = Reachable(t)
  <2>1. ASSUME NEW n \in DOMAIN tables PROVE tables[n] \in Reachable(t)
    BY <1>2, <1>4, <1>6
  <2>2. ASSUME NEW p \in Reachable(t) PROVE \E n \in DOMAIN tables : tables[n] = p
    BY <1>2, <1>4
  <2> QED
    BY <2>1, <2>2
<1>8. Cardinality(Reachable(t)) = Len(tables)
  <2> DEFINE L == Len(tables)
             f == [n \in 1..L |-> tables[n]]
  <2>1. f \in Bijection(1..L, Reachable(t))
    BY <1>1, <1>4, <1>7 DEF Bijection, Injection, Surjection, IsInjective
  <2>2. ExistsBijection(1..L, Reachable(t))
    BY <2>1 DEF ExistsBijection
  <2>3. IsFiniteSet(1..L) /\ Cardinality(1..L) = L
    <3> HIDE DEF L
    <3>1. L \in Nat
      BY <1>1 DEF L
    <3> QED
      BY <3>1, FS_Interval
  <2> QED
    BY <2>2, <2>3, FS_Bijection
<1>9. {pages[n][2] : n \in DOMAIN pages} = Addressed(t)
  <2>1. ASSUME NEW n \in DOMAIN pages PROVE pages[n][2] \in Addressed(t)
    BY <1>3, <1>5
  <2>2. ASSUME NEW va \in Addressed(t) PROVE \E n \in DOMAIN pages : pages[n][2] = va
    BY <1>3, <1>5
  <2> QED
    BY <2>1, <2>2
<1>10. \A va \in Addressed(t) : \E n \in DOMAIN pages : pages[n] = <<Page(mm[t].pgd, va), va>>
  BY <1>3, <1>5 DEF Page, T
<1> QED
  BY <1>7, <1>8, <1>9, <1>10 DEF tables, pages

LEMMA AllListedOnce ==
  ASSUME SInv
  PROVE  ListedOnce
<1> DEFINE listed == {e \in Tasks \X (1..MaxUserPages) : e[2] <= Len(mm[e[1]].user_pages)}
           Of(e) == mm[e[1]].user_pages[e[2]][1]
<1>1. ASSUME NEW e \in listed
      PROVE  /\ e[1] \in Tasks /\ e = <<e[1], e[2]>> /\ e[2] \in DOMAIN mm[e[1]].user_pages
             /\ Of(e) \in Pages
  <2>1. e[1] \in Tasks /\ e[2] \in 1..MaxUserPages /\ e[2] <= Len(mm[e[1]].user_pages)
    OBVIOUS
  <2>2. mm[e[1]].user_pages \in Seq(Pages \X Addresses) /\ Len(mm[e[1]].user_pages) \in Nat
    BY <2>1 DEF SInv, Typed
  <2>3. e[2] \in 1..Len(mm[e[1]].user_pages)
    BY <2>1, <2>2
  <2>4. mm[e[1]].user_pages[e[2]] \in Pages \X Addresses
    BY <2>2, <2>3
  <2> QED
    BY <2>1, <2>2, <2>3, <2>4
<1>2. ASSUME NEW e \in listed PROVE Of(e) \notin free \cup Tables
  <2>1. Of(e) \notin free
    BY <1>1 DEF SInv, Trees, Kept
  <2>2. \A s \in Tasks, va \in Vas, l \in 0..Levels - 1 : Of(e) # T(s, va)[l]
    BY <1>1 DEF SInv, Trees, Kept
  <2>3. Of(e) \notin Tables
    BY <2>2 DEF Tables, Reachable, T, Vas
  <2> QED
    BY <2>1, <2>3
<1>3. ASSUME NEW e \in listed, NEW f \in listed, Of(e) = Of(f) PROVE e = f
  <2>1. e[1] = f[1] /\ e[2] = f[2]
    BY <1>1, <1>3 DEF SInv, Trees, Kept
  <2> QED
    BY <1>1, <2>1
<1> QED
  BY <1>2, <1>3 DEF ListedOnce

\* The tables of all tasks are trees that share nothing, whatever maps pages in
\* whatever order: loads, faults, and copies that end half way; and the lists of
\* every task are those of its tree.
THEOREM PagesHaveOnePlace ==
  ASSUME OnePage
  PROVE  Spec => []OnePlace
<1>1. Init => SInv
  BY SInit
<1>2. SInv /\ [Next]_vars => SInv'
  BY SStep
<1>3. SInv => OnePlace
  <2> SUFFICES ASSUME SInv PROVE OnePlace
    OBVIOUS
  <2>1. Tables \subseteq Pages
    <3> SUFFICES ASSUME NEW t \in Tasks, NEW p \in Reachable(t) PROVE p \in Pages
      BY DEF Tables
    <3>1. PICK va \in Vas, l \in 0..Levels - 1 : p = T(t, va)[l] /\ p # 0
      BY DEF Reachable, T, Vas
    <3>2. l \in 0..Levels
      BY Constants
    <3> QED
      BY <3>1, <3>2 DEF SInv, Trees, Used
  <2>2. ASSUME NEW e \in Entries, e[2] # 0 PROVE e[2] \in Pages \ free
    BY <2>2, EntryIs DEF SInv, Trees, Used
  <2>3. ASSUME NEW e \in Entries, NEW f \in Entries, e[2] # 0, e[2] = f[2] PROVE e = f
    <3>1. PICK t \in Tasks, va \in Vas, l \in 0..Levels :
            /\ e[2] = T(t, va)[l]
            /\ l = 0 => e = <<t, T(t, va)[l]>>
            /\ l # 0 => l - 1 \in 0..Levels /\ e = <<<<T(t, va)[l - 1], va[l]>>, T(t, va)[l]>>
      BY EntryIs
    <3>2. PICK s \in Tasks, wa \in Vas, k \in 0..Levels :
            /\ f[2] = T(s, wa)[k]
            /\ k = 0 => f = <<s, T(s, wa)[k]>>
            /\ k # 0 => k - 1 \in 0..Levels /\ f = <<<<T(s, wa)[k - 1], wa[k]>>, T(s, wa)[k]>>
      BY EntryIs
    <3>3. t = s /\ l = k /\ Along(va, wa, l)
      <4>1. T(t, va)[l] # 0 /\ T(t, va)[l] = T(s, wa)[k]
        BY <2>3, <3>1, <3>2
      <4> QED
        BY <4>1 DEF SInv, Trees, Separate
    <3>4. CASE l = 0
      BY <2>3, <3>1, <3>2, <3>3, <3>4
    <3>5. CASE l # 0
      <4>1. l - 1 \in 0..l /\ l \in 1..l
        BY <3>5, Constants
      <4>2. T(t, va)[l - 1] = T(t, wa)[l - 1]
        BY <3>3, <4>1, Prefix DEF Prefixed
      <4>3. va[l] = wa[l]
        BY <3>3, <4>1 DEF Along
      <4> QED
        BY <2>3, <3>1, <3>2, <3>3, <3>5, <4>2, <4>3
    <3> QED
      BY <3>4, <3>5
  <2> QED
    BY <2>1, <2>2, <2>3, AllListed, AllListedOnce DEF OnePlace
<1> QED
  BY <1>1, <1>2, <1>3, PTL DEF Spec

-----------------------------------------------------------------------------
(* Who a task is: what the steps of other tasks leave true of it, and what *)
(* the abstract memories need.                                             *)

\* The task_struct that is not used is cleared, and no copy is left to be made.
Cleared == \A t \in Tasks : state[t] = "none" => mm[t] = Empty /\ space[t] = t
Idle == \A t \in Tasks : state[t] \in {"none", "created"} => job[t] = NoJob
\* Threads use the mm of a main thread that is there; one that has not begun is
\* being made by it.
Mains ==
  \A s, t \in Tasks : space[s] = t /\ s # t =>
    /\ space[t] = t /\ state[t] \in {"runs", "ended"}
    /\ state[s] = "created" => Copies(t) /\ job[t][1] = s
\* A task that is being made has not begun, and one task makes it.
Copiers ==
  \A t \in Tasks : Copies(t) =>
    /\ state[job[t][1]] = "created"
    /\ \A r \in Tasks : Copies(r) /\ job[r][1] = job[t][1] => r = t
Families == Cleared /\ Idle /\ Mains /\ Copiers

LEMMA FInit ==
  ASSUME Init
  PROVE  Families
BY DEF Init, Families, Cleared, Idle, Mains, Copiers, Copies

LEMMA FLoad ==
  ASSUME SInv, Families, NEW t \in Tasks, Load(t)
  PROVE  Families' /\ space' = space
<1>1. space' = space /\ job' = job /\ state[t] = "none" /\ space[t] = t
  BY DEF Load, Families, Cleared, SInv, Typed
<1>2. state' \in [Tasks -> {"none", "created", "runs", "ended"}]
      /\ state'[t] \in {"runs", "ended"} /\ \A s \in Tasks \ {t} : state'[s] = state[s]
  BY DEF Load, move_to_user_mode, SInv, Typed
<1>3. ASSUME NEW s \in Tasks, s # t PROVE mm'[s] = mm[s]
  BY <1>3 DEF Load, move_to_user_mode, map_page, SInv, Typed
<1>4. job[t] = NoJob
  BY <1>1 DEF Families, Idle
<1>5. \A s \in Tasks : Copies(s)' <=> Copies(s)
  BY <1>1, <1>2, <1>4 DEF Copies
<1>6. Cleared'
  BY <1>1, <1>2, <1>3 DEF Families, Cleared
<1>7. Idle'
  BY <1>1, <1>2 DEF Families, Idle
<1>8. Mains'
  BY <1>1, <1>2, <1>5 DEF Families, Mains
<1>9. Copiers'
  <2>1. ASSUME NEW s \in Tasks, Copies(s)
        PROVE  job[s][1] \in Tasks /\ state[job[s][1]] = "created"
    BY <2>1 DEF Families, Copiers, Copies, SInv, Typed
  <2> QED
    BY <1>1, <1>2, <1>5, <2>1 DEF Families, Copiers
<1> QED
  BY <1>1, <1>6, <1>7, <1>8, <1>9 DEF Families

\* A task that runs, on its own behalf, ends or goes on.
LEMMA FUser ==
  ASSUME SInv, Families, NEW t \in Tasks, state[t] = "runs", job[t] = NoJob,
         space' = space, job' = job,
         state' = state \/ state' = [state EXCEPT ![t] = "ended"],
         \A s \in Tasks \ {t} : mm'[s] = mm[s]
  PROVE  Families'
<1>1. state'[t] \in {"runs", "ended"} /\ \A s \in Tasks \ {t} : state'[s] = state[s]
  BY DEF SInv, Typed
<1>2. \A s \in Tasks : Copies(s)' <=> Copies(s)
  BY <1>1 DEF Copies
<1>3. Cleared' /\ Idle'
  BY <1>1 DEF Families, Cleared, Idle
<1>4. Mains'
  BY <1>1, <1>2 DEF Families, Mains
<1>5. Copiers'
  BY <1>1, <1>2, SInv DEF Families, Copiers, Copies, SInv, Typed
<1> QED
  BY <1>3, <1>4, <1>5 DEF Families

LEMMA FCreate ==
  ASSUME SInv, Families, NEW t \in Tasks, NEW c \in Tasks, NEW shared \in BOOLEAN,
         Create(t, c, shared)
  PROVE  Families'
<1>1. /\ state[t] = "runs" /\ job[t] = NoJob /\ state[c] = "none" /\ c # t
      /\ space[c] = c /\ mm[c] = Empty /\ job[c] = NoJob
  BY DEF Create, InUser, Families, Cleared, Idle
<1>2. /\ state'[c] = "created" /\ \A s \in Tasks \ {c} : state'[s] = state[s]
      /\ job'[t] = <<c, 1>> /\ \A s \in Tasks \ {t} : job'[s] = job[s]
      /\ space'[c] = (IF shared THEN t ELSE c) /\ \A s \in Tasks \ {c} : space'[s] = space[s]
      /\ mm' = mm /\ (shared => space[t] = t)
  BY DEF Create, SInv, Typed
<1>3. <<c, 1>> # NoJob /\ <<c, 1>>[1] = c
  BY DEF NoJob
<1>4. ASSUME NEW s \in Tasks
      PROVE  Copies(s)' <=> Copies(s) \/ s = t
  BY <1>1, <1>2, <1>3 DEF Copies
<1>5. Cleared' /\ Idle'
  BY <1>1, <1>2 DEF Families, Cleared, Idle
<1>6. \A s \in Tasks : space[s] = c => s = c
  BY <1>1 DEF Families, Mains
<1>7. ASSUME NEW s \in Tasks, NEW r \in Tasks, space'[s] = r, s # r
      PROVE  /\ space'[r] = r /\ state'[r] \in {"runs", "ended"}
             /\ state'[s] = "created" => Copies(r)' /\ job'[r][1] = s
  <2>1. CASE s = c
    BY <1>1, <1>2, <1>3, <1>4, <1>7, <2>1
  <2>2. CASE s # c
    <3>1. space[s] = r /\ r # c
      BY <1>2, <1>6, <1>7, <2>2
    <3>2. /\ space[r] = r /\ state[r] \in {"runs", "ended"}
          /\ state[s] = "created" => Copies(r) /\ job[r][1] = s
      BY <1>7, <3>1 DEF Families, Mains
    <3>3. r = t => state[s] # "created"
      BY <1>1, <3>2 DEF Copies
    <3> QED
      BY <1>2, <1>4, <2>2, <3>1, <3>2, <3>3
  <2> QED
    BY <2>1, <2>2
<1>8. Mains'
  BY <1>7 DEF Mains
<1>9. ASSUME NEW s \in Tasks, Copies(s), s # t
      PROVE  job'[s] = job[s] /\ state[job[s][1]] = "created" /\ job[s][1] # c
  BY <1>1, <1>2, <1>9 DEF Families, Copiers
<1>10. ASSUME NEW s \in Tasks, Copies(s), s # t
       PROVE  job[s][1] \in Tasks
  BY <1>10 DEF SInv, Typed, Copies
<1>11. Copiers'
  <2>1. ASSUME NEW s \in Tasks, Copies(s)'
        PROVE  state'[job'[s][1]] = "created"
    BY <1>2, <1>3, <1>4, <1>9, <1>10, <2>1
  <2>2. ASSUME NEW s \in Tasks, NEW r \in Tasks, Copies(s)', Copies(r)', job'[r][1] = job'[s][1]
        PROVE  r = s
    <3>1. ~Copies(t)
      BY <1>1 DEF Copies
    <3> QED
      BY <1>2, <1>3, <1>4, <1>9, <2>2, <3>1 DEF Families, Copiers
  <2> QED
    BY <2>1, <2>2 DEF Copiers
<1> QED
  BY <1>5, <1>8, <1>11 DEF Families

LEMMA FCopied ==
  ASSUME SInv, Families, NEW t \in Tasks, Copied(t)
  PROVE  Families' /\ \E c \in Tasks : c = job[t][1] /\ state[c] = "created"
<1>1. PICK c \in Tasks : c = job[t][1] /\ state[c] = "created"
  BY DEF Copied, Copies, SInv, Typed, Families, Copiers
<1>2. /\ Copies(t) /\ state[t] = "runs" /\ c # t
      /\ state'[c] = "runs" /\ \A s \in Tasks \ {c} : state'[s] = state[s]
      /\ job'[t] = NoJob /\ \A s \in Tasks \ {t} : job'[s] = job[s]
      /\ space' = space /\ mm' = mm /\ job[c] = NoJob
  BY <1>1 DEF Copied, Copies, SInv, Typed, Families, Idle
<1>3. ASSUME NEW s \in Tasks PROVE Copies(s)' <=> Copies(s) /\ s # t
  BY <1>2 DEF Copies
<1>4. Cleared' /\ Idle'
  BY <1>1, <1>2 DEF Families, Cleared, Idle
<1>5. Mains'
  <2> SUFFICES ASSUME NEW s \in Tasks, NEW r \in Tasks, space[s] = r, s # r
      PROVE  /\ space[r] = r /\ state'[r] \in {"runs", "ended"}
             /\ state'[s] = "created" => Copies(r)' /\ job'[r][1] = s
    BY <1>2 DEF Mains
  <2>1. /\ space[r] = r /\ state[r] \in {"runs", "ended"}
        /\ state[s] = "created" => Copies(r) /\ job[r][1] = s
    BY DEF Families, Mains
  <2>2. CASE s = c
    BY <1>2, <2>1, <2>2
  <2>3. CASE s # c
    <3>1. state'[s] = "created" => r # t
      BY <1>1, <1>2, <2>1, <2>3
    <3> QED
      BY <1>2, <1>3, <2>1, <2>3, <3>1
  <2> QED
    BY <2>2, <2>3
<1>6. Copiers'
  <2>1. ASSUME NEW s \in Tasks, Copies(s)'
        PROVE  job'[s] = job[s] /\ Copies(s) /\ job[s][1] # c /\ state[job[s][1]] = "created"
               /\ job[s][1] \in Tasks
    <3>1. Copies(s) /\ s # t /\ job'[s] = job[s]
      BY <1>2, <1>3, <2>1
    <3>2. job[s][1] # c
      BY <1>1, <1>2, <3>1 DEF Families, Copiers
    <3> QED
      BY <3>1, <3>2 DEF Families, Copiers, Copies, SInv, Typed
  <2> QED
    BY <1>2, <2>1 DEF Families, Copiers
<1> QED
  BY <1>1, <1>4, <1>5, <1>6 DEF Families

\* What is on the list of pages of a task is mapped.
LEMMA OnList ==
  ASSUME SInv, NEW t \in Tasks, NEW n \in 1..Len(mm[t].user_pages)
  PROVE  mm[t].user_pages[n][2] \in Vas /\ T(t, mm[t].user_pages[n][2])[Levels] # 0
<1>1. PICK pages : pages = mm[t].user_pages
  OBVIOUS
<1>2. n \in DOMAIN pages
  BY <1>1 DEF SInv, Typed
<1>3. PagesListed
  BY DEF SInv, Trees
<1>4. \E va \in Vas : va = pages[n][2] /\ T(t, va)[Levels] # 0
  BY <1>1, <1>2, <1>3 DEF PagesListed
<1> QED
  BY <1>1, <1>4

\* The list of a main thread names pages that it has: its copies do not end half
\* way, and what they make begins.
LEMMA FCopy ==
  ASSUME SInv, Families, NEW t \in Tasks, copy_virt_memory(t)
  PROVE  Families' /\ \E c \in Tasks : c = job[t][1] /\ state[c] = "created" /\ c # t
<1>1. PICK c \in Tasks, va \in Addresses, s \in Tasks :
        /\ c = job[t][1] /\ va = mm[t].user_pages[job[t][2]][2] /\ s = space[t]
        /\ job[t][2] \in 1..Len(mm[t].user_pages)
        /\ map_page(c, va)
        /\ Page(Active(t), va) = T(s, va)[Levels]
  BY Copying
<1>2. /\ Copies(t) /\ state[t] = "runs" /\ job[t] # NoJob /\ state[c] = "created" /\ c # t
      /\ job[t] \in Tasks \X (1..MaxUserPages + 1)
  BY <1>1 DEF copy_virt_memory, Copies, SInv, Typed, Families, Copiers
<1>3. /\ space' = space /\ \A r \in Tasks \ {c} : mm'[r] = mm[r]
      /\ job'[t] = <<c, job[t][2] + 1>> /\ \A r \in Tasks \ {t} : job'[r] = job[r]
      /\ \A r \in Tasks \ {t} : state'[r] = state[r]
      /\ state'[t] \in {"runs", "ended"}
  <2>1. space' = space /\ \A r \in Tasks \ {c} : mm'[r] = mm[r]
    BY <1>1 DEF copy_virt_memory, map_page, SInv, Typed
  <2>2. job' = [job EXCEPT ![t] = [job[t] EXCEPT ![2] = job[t][2] + 1]]
    BY DEF copy_virt_memory
  <2>3. [job[t] EXCEPT ![2] = job[t][2] + 1] = <<c, job[t][2] + 1>>
    <3>1. PICK d \in Tasks, n \in 1..MaxUserPages + 1 : job[t] = <<d, n>>
      BY <1>2
    <3>2. c = d
      BY <1>1, <3>1
    <3>3. [<<c, n>> EXCEPT ![2] = n + 1] = <<c, n + 1>>
      OBVIOUS
    <3> QED
      BY <3>1, <3>2, <3>3
  <2>4. (\A r \in Tasks \ {t} : state'[r] = state[r]) /\ state'[t] \in {"runs", "ended"}
    BY <1>2 DEF copy_virt_memory, SInv, Typed
  <2> QED
    BY <2>1, <2>2, <2>3, <2>4 DEF SInv, Typed
<1>4. space[t] = t => state'[t] = "runs"
  <2> SUFFICES ASSUME space[t] = t PROVE state'[t] = "runs"
    OBVIOUS
  <2>1. T(t, va)[Levels] # 0
    BY <1>1, OnList
  <2> QED
    BY <1>1, <1>2, <2>1 DEF copy_virt_memory
<1>5. <<c, job[t][2] + 1>> # NoJob /\ <<c, job[t][2] + 1>>[1] = c
  BY DEF NoJob
<1>6. \A r \in Tasks : Copies(r)' => Copies(r) /\ job'[r][1] = job[r][1]
  BY <1>1, <1>2, <1>3, <1>5 DEF Copies
<1>7. \A r \in Tasks : Copies(r) /\ (r = t => space[t] = t) => Copies(r)' /\ job'[r][1] = job[r][1]
  BY <1>1, <1>2, <1>3, <1>4, <1>5 DEF Copies
<1>8. Cleared' /\ Idle'
  BY <1>1, <1>2, <1>3, <1>4, ZenonT(60) DEF Families, Cleared, Idle
<1>9. Mains'
  <2> SUFFICES ASSUME NEW x \in Tasks, NEW r \in Tasks, space[x] = r, x # r
      PROVE  /\ space[r] = r /\ state'[r] \in {"runs", "ended"}
             /\ state'[x] = "created" => Copies(r)' /\ job'[r][1] = x
    BY <1>3 DEF Mains
  <2>1. /\ space[r] = r /\ state[r] \in {"runs", "ended"}
        /\ state[x] = "created" => Copies(r) /\ job[r][1] = x
    BY DEF Families, Mains
  <2>2. state'[x] = "created" => state[x] = "created"
    BY <1>3
  <2> QED
    BY <1>3, <1>7, <2>1, <2>2
<1>10. Copiers'
  <2>1. ASSUME NEW r \in Tasks, Copies(r)' PROVE state'[job'[r][1]] = "created"
    <3>1. state[job[r][1]] = "created" /\ job[r][1] \in Tasks /\ job'[r][1] = job[r][1]
      BY <1>6, <2>1 DEF Families, Copiers, Copies, SInv, Typed
    <3> QED
      BY <1>2, <1>3, <3>1
  <2> QED
    BY <1>6, <2>1 DEF Families, Copiers
<1> QED
  BY <1>1, <1>2, <1>8, <1>9, <1>10 DEF Families

\* Threads go with their main thread; none of them is being made.
LEMMA FReap ==
  ASSUME SInv, Families, NEW t \in Tasks, Reap(t)
  PROVE  /\ Families'
         /\ Reaped(t) = {s \in Tasks : space[s] = t} \cup {t}
         /\ \A s \in Reaped(t) : state[s] # "created"
<1>1. /\ state[t] = "ended"
      /\ \A s \in Tasks : s \in Reaped(t) =>
           mm'[s] = Empty /\ space'[s] = s /\ state'[s] = "none" /\ job'[s] = NoJob
      /\ \A s \in Tasks : s \notin Reaped(t) =>
           mm'[s] = mm[s] /\ space'[s] = space[s] /\ state'[s] = state[s] /\ job'[s] = job[s]
  BY DEF Reap
<1>2. ASSUME NEW s \in Tasks, space[s] = t, s # t PROVE state[s] \in {"runs", "ended"}
  <2>1. state[s] # "none"
    BY <1>2 DEF Families, Cleared
  <2>2. state[s] # "created"
    BY <1>1, <1>2 DEF Families, Mains, Copies
  <2> QED
    BY <2>1, <2>2 DEF SInv, Typed
<1>3. Reaped(t) = {s \in Tasks : space[s] = t} \cup {t}
  BY <1>2 DEF Reaped
<1>4. \A s \in Reaped(t) : s \in Tasks /\ state[s] \in {"runs", "ended"}
  BY <1>1 DEF Reaped
<1>5. Cleared' /\ Idle'
  BY <1>1 DEF Families, Cleared, Idle
<1>6. \A s \in Tasks : Copies(s)' <=> Copies(s) /\ s \notin Reaped(t)
  BY <1>1 DEF Copies
<1>7. Mains'
  <2> SUFFICES ASSUME NEW s \in Tasks, NEW r \in Tasks, space'[s] = r, s # r
      PROVE  /\ space'[r] = r /\ state'[r] \in {"runs", "ended"}
             /\ state'[s] = "created" => Copies(r)' /\ job'[r][1] = s
    BY DEF Mains
  <2>1. s \notin Reaped(t) /\ space[s] = r
    BY <1>1
  <2>2. /\ space[r] = r /\ state[r] \in {"runs", "ended"}
        /\ state[s] = "created" => Copies(r) /\ job[r][1] = s
    BY <2>1 DEF Families, Mains
  <2>3. r \notin Reaped(t)
    BY <1>3, <2>1, <2>2
  <2> QED
    BY <1>1, <1>6, <2>1, <2>2, <2>3
<1>8. Copiers'
  <2>1. ASSUME NEW r \in Tasks, Copies(r)'
        PROVE  Copies(r) /\ job'[r] = job[r] /\ state'[job[r][1]] = "created"
    <3>1. Copies(r) /\ job'[r] = job[r]
      BY <1>1, <1>6, <2>1
    <3>2. job[r][1] \in Tasks /\ state[job[r][1]] = "created"
      BY <3>1 DEF Families, Copiers, Copies, SInv, Typed
    <3> QED
      BY <1>1, <1>4, <3>1, <3>2
  <2> QED
    BY <2>1 DEF Families, Copiers
<1> QED
  BY <1>3, <1>4, <1>5, <1>7, <1>8 DEF Families

-----------------------------------------------------------------------------
(* Memories.                                                               *)

MemoryOf(t) == [va \in Addressed(t) |-> mem[Page(mm[t].pgd, va)]]
MemoriesAre ==
  \A t \in Tasks :
    /\ MemoryOf(t) = [va \in {va \in Vas : T(t, va)[Levels] # 0} |-> mem[T(t, va)[Levels]]]
    /\ DOMAIN MemoryOf(t) = {va \in Vas : T(t, va)[Levels] # 0}
    /\ \A va \in Vas : T(t, va)[Levels] # 0 => MemoryOf(t)[va] = mem[T(t, va)[Levels]]

LEMMA MemoryIs == MemoriesAre
BY DEF MemoriesAre, MemoryOf, Addressed, Page, T, Vas

LEMMA MemoryIsNext == MemoriesAre'
BY MemoryIs, PTL

\* A task keeps what it has while its tables and pages are not written.
LEMMA MemoryKept ==
  ASSUME NEW t \in Tasks, \A va \in Vas : T(t, va)' = T(t, va),
         \A va \in Vas : T(t, va)[Levels] # 0 => mem'[T(t, va)[Levels]] = mem[T(t, va)[Levels]]
  PROVE  MemoryOf(t)' = MemoryOf(t)
<1> DEFINE D == {va \in Vas : T(t, va)[Levels] # 0}
<1>1. {va \in Vas : T(t, va)'[Levels] # 0} = D
  OBVIOUS
<1>2. MemoryOf(t) = [va \in D |-> mem[T(t, va)[Levels]]]
  BY MemoryIs DEF MemoriesAre
<1>3. MemoryOf(t)' = [va \in D |-> mem'[T(t, va)'[Levels]]]
  BY <1>1, MemoryIsNext DEF MemoriesAre
<1> QED
  BY <1>2, <1>3

\* A page that is mapped is added to the memory of its task, and to no other.
LEMMA MappedMemory ==
  ASSUME SInv, NEW t \in Tasks, NEW va \in Addresses, NEW a, NEW w, Maps(t, w, va, a)
  PROVE  /\ MemoryOf(t)' = A!With(MemoryOf(t), va, mem'[w[Levels]])
         /\ \A s \in Tasks \ {t} : MemoryOf(s)' = MemoryOf(s)
         /\ va \in DOMAIN MemoryOf(t)'
<1>1. va \in Vas /\ Levels \in Nat \ {0} /\ Levels \in 0..Levels
  BY SpaceAssumption DEF Vas
<1>2. w[Levels] # 0
  BY <1>1, Constants DEF Maps, IsWay
<1>3. ASSUME NEW s \in Tasks, NEW wa \in Vas
      PROVE  /\ T(s, wa)'[Levels] = IF s = t /\ wa = va THEN w[Levels] ELSE T(s, wa)[Levels]
             /\ ~(s = t /\ wa = va) /\ T(s, wa)[Levels] # 0
                  => mem'[T(s, wa)[Levels]] = mem[T(s, wa)[Levels]]
  <2>1. Along(va, wa, Levels) <=> wa = va
    BY <1>1 DEF Along, Vas
  <2>2. /\ T(s, wa)'[Levels] = IF s = t /\ wa = va THEN w[Levels] ELSE T(s, wa)[Levels]
        /\ ~(s = t /\ wa = va) /\ T(s, wa)[Levels] # 0 =>
             T(s, wa)[Levels] \in Pages /\ \A k \in 0..Levels : T(s, wa)[Levels] # w[k]
    BY <1>1, <2>1, NewOrOld
  <2> QED
    BY <2>2 DEF Maps, NewEntries
<1>4. ASSUME NEW s \in Tasks, s # t PROVE MemoryOf(s)' = MemoryOf(s)
  <2>1. \A wa \in Vas : T(s, wa)' = T(s, wa)
    BY <1>1, <1>4, MappedOthers
  <2> QED
    BY <1>3, <1>4, <2>1, MemoryKept
<1> DEFINE D == {wa \in Vas : T(t, wa)[Levels] # 0}
           E == {wa \in Vas : T(t, wa)'[Levels] # 0}
<1>5. E = D \cup {va}
  BY <1>1, <1>2, <1>3
<1>6. DOMAIN MemoryOf(t) = D /\ \A wa \in D : MemoryOf(t)[wa] = mem[T(t, wa)[Levels]]
  BY MemoryIs DEF MemoriesAre
<1>7. MemoryOf(t)' = [wa \in E |-> mem'[T(t, wa)'[Levels]]]
  BY MemoryIsNext DEF MemoriesAre
<1>8. \A wa \in E : mem'[T(t, wa)'[Levels]] = IF wa = va THEN mem'[w[Levels]] ELSE MemoryOf(t)[wa]
  BY <1>3, <1>6
<1>9. MemoryOf(t)' = [wa \in D \cup {va} |-> IF wa = va THEN mem'[w[Levels]] ELSE MemoryOf(t)[wa]]
  <2> HIDE DEF D, E, MemoryOf
  <2> QED BY <1>5, <1>7, <1>8
<1> QED
  BY <1>4, <1>6, <1>9 DEF A!With

Created == {t \in Tasks : state[t] = "created"}

LEMMA NewPage ==
  ASSUME SInv, NEW t \in Tasks, NEW va \in Vas, CanMap(t, va)
  PROVE  Leaf \in Pages /\ Mapped(t, va)[Leaf] = [i \in Index |-> 0]
<1> DEFINE w == Way(t, va)
<1>1. Levels \in Nat \ {0} /\ Levels \in 0..Levels
  BY Constants
<1>2. PICK a \in 0..Levels : IsWay(w, t, va, a) /\ w[Levels] = Leaf
  BY WayIs
<1>3. ASSUME NEW l \in 1..Levels PROVE Leaf # w[l - 1]
  <2>1. l - 1 \in 0..Levels /\ l - 1 # Levels
    BY <1>1
  <2> QED
    BY <1>1, <1>2, <2>1 DEF IsWay
<1>4. Leaf \in Pages
  BY <1>1, <1>2 DEF IsWay
<1> QED
  BY <1>3, <1>4 DEF Mapped

\* What a task without tables has.
LEMMA ClearedMemory ==
  ASSUME NEW t \in Tasks, mm[t] = Empty
  PROVE  MemoryOf(t) = A!None
<1>1. mm[t].pgd = 0
  BY DEF Empty
<1>2. \A va \in Vas : T(t, va)[Levels] = 0
  BY <1>1, NoFirstTable, Constants DEF NoTree
<1>3. {va \in Vas : T(t, va)[Levels] # 0} = {}
  BY <1>2
<1>4. MemoryOf(t) = [va \in {} |-> mem[T(t, va)[Levels]]]
  BY <1>3, MemoryIs DEF MemoriesAre
<1> QED
  BY <1>4 DEF A!None

LEMMA ClearedMemoryNext ==
  ASSUME NEW t \in Tasks, mm'[t] = Empty
  PROVE  MemoryOf(t)' = A!None
<1>1. mm'[t].pgd = 0
  BY DEF Empty
<1>2. \A va \in Vas : T(t, va)'[Levels] = 0
  BY <1>1, NoFirstTableNext, Constants DEF NoTree
<1>3. {va \in Vas : T(t, va)'[Levels] # 0} = {}
  BY <1>2
<1>4. MemoryOf(t)' = [va \in {} |-> mem'[T(t, va)'[Levels]]]
  BY <1>3, MemoryIsNext DEF MemoriesAre
<1> QED
  BY <1>4 DEF A!None

LEMMA SameMemories ==
  ASSUME mem' = mem, mm' = mm
  PROVE  \A t \in Tasks : MemoryOf(t)' = MemoryOf(t)
BY TreeKept, MemoryKept

LEMMA RInit ==
  ASSUME Init
  PROVE  A!Init
<1>1. \A t \in Tasks : mm[t] = Empty
  BY DEF Init
<1>2. [t \in Tasks |-> MemoryOf(t)] = [t \in Tasks |-> A!None]
  BY <1>1, ClearedMemory
<1>3. {t \in Tasks : state[t] = "created"} = {} /\ space = [t \in Tasks |-> t]
  BY DEF Init
<1> QED
  BY <1>2, <1>3 DEF A!Init, MemoryOf

LEMMA RLoad ==
  ASSUME SInv, Families, OnePage, NEW t \in Tasks, Load(t)
  PROVE  A!Load(t) \/ UNCHANGED A!vars
<1>1. /\ state[t] = "none" /\ mm[t] = Empty /\ space[t] = t /\ space' = space
  BY FLoad DEF Load, Families, Cleared
<1>2. Created' = Created
  BY <1>1 DEF Load, move_to_user_mode, Created, SInv, Typed
<1>3. MemoryOf(t) = A!None
  BY <1>1, ClearedMemory
<1>4. CASE free = {}
  <2>1. \A s \in Tasks : MemoryOf(s)' = MemoryOf(s)
    BY <1>4, SameMemories DEF Load, move_to_user_mode
  <2> QED
    BY <1>1, <1>2, <2>1 DEF A!vars, MemoryOf, Created
<1>5. CASE free # {}
  <2>1. /\ CanMap(t, Bottom) /\ map_page(t, Bottom)
        /\ mem' = [p \in Pages |-> [i \in Index |->
                     IF (p - Leaf) * Words + i \in 0..Size - 1
                       THEN Code ELSE Mapped(t, Bottom)[p][i]]]
    BY <1>5 DEF Load, move_to_user_mode
  <2>2. /\ mem' \in Contents /\ \A p \in Pages : p # Leaf => mem'[p] = Mapped(t, Bottom)[p]
        /\ \A i \in Index : mem'[Leaf][i] = IF i < Size THEN Code ELSE Mapped(t, Bottom)[Leaf][i]
    BY <2>1, LoadedPage
  <2>3. Bottom \in Addresses /\ Bottom \in Vas
    BY SpaceAssumption DEF Vas
  <2>4. PICK w, a : Maps(t, w, Bottom, a) /\ w[Levels] = Leaf
    BY <2>1, <2>2, <2>3, MapPage
  <2>5. mem'[Leaf] = A!Program
    <3>1. Leaf \in Pages /\ Mapped(t, Bottom)[Leaf] = [i \in Index |-> 0]
      BY <2>1, <2>3, NewPage
    <3>2. mem'[Leaf] = [i \in Index |-> mem'[Leaf][i]]
      BY <2>2, <3>1 DEF Contents
    <3> QED
      BY <2>2, <3>1, <3>2 DEF A!Program
  <2>6. /\ MemoryOf(t)' = A!With(A!None, Bottom, A!Program)
        /\ \A s \in Tasks \ {t} : MemoryOf(s)' = MemoryOf(s)
    BY <1>3, <2>3, <2>4, <2>5, MappedMemory
  <2>7. [s \in Tasks |-> MemoryOf(s)'] =
          [[s \in Tasks |-> MemoryOf(s)] EXCEPT ![t] = A!With(A!None, Bottom, A!Program)]
    BY <2>6
  <2> QED
    BY <1>1, <1>2, <1>3, <2>7 DEF A!Load, MemoryOf, Created
<1> QED
  BY <1>4, <1>5

\* A program writes to its own page, and to no other.
LEMMA RWrite ==
  ASSUME SInv, NEW t \in Tasks, NEW va \in Addresses, Write(t, va)
  PROVE  A!Write(t)
<1> DEFINE page == [i \in Index |-> Written]
<1>1. PICK s \in Tasks : /\ s = space[t] /\ T(s, va)[Levels] \in Pages
                         /\ mem' = [mem EXCEPT ![T(s, va)[Levels]] = page]
  BY WriteKeeps
<1>2. va \in Vas /\ \A r \in Tasks, wa \in Vas : T(r, wa)' = T(r, wa)
  BY WriteKeeps
<1>3. Levels \in Nat \ {0} /\ Levels \in 0..Levels /\ T(s, va)[Levels] # 0
  BY <1>1, Constants
<1>4. ASSUME NEW r \in Tasks, NEW wa \in Vas, T(r, wa)[Levels] # 0
      PROVE  mem'[T(r, wa)[Levels]] = IF r = s /\ wa = va THEN page ELSE mem[T(r, wa)[Levels]]
  <2>1. CASE r = s /\ wa = va
    BY <1>1, <2>1 DEF SInv, Typed
  <2>2. CASE ~(r = s /\ wa = va)
    <3>1. T(r, wa)[Levels] # T(s, va)[Levels]
      <4>1. ~(r = s /\ Along(wa, va, Levels))
        BY <1>2, <1>3, <2>2 DEF Along, Vas
      <4> QED
        BY <1>2, <1>3, <1>4, <4>1 DEF SInv, Trees, Separate
    <3>2. T(r, wa)[Levels] \in Pages
      BY <1>3, <1>4 DEF SInv, Trees, Used
    <3> QED
      BY <1>1, <2>2, <3>1, <3>2 DEF SInv, Typed
  <2> QED
    BY <2>1, <2>2
<1>5. ASSUME NEW r \in Tasks, r # s PROVE MemoryOf(r)' = MemoryOf(r)
  BY <1>2, <1>4, <1>5, MemoryKept
<1> DEFINE D == {wa \in Vas : T(s, wa)[Levels] # 0}
<1>6. /\ DOMAIN MemoryOf(s) = D /\ MemoryOf(s) = [wa \in D |-> mem[T(s, wa)[Levels]]]
      /\ MemoryOf(s)' = [wa \in D |-> mem'[T(s, wa)[Levels]]]
  <2>1. {wa \in Vas : T(s, wa)'[Levels] # 0} = D
    BY <1>2
  <2>2. MemoryOf(s)' = [wa \in D |-> mem'[T(s, wa)'[Levels]]]
    BY <2>1, MemoryIsNext DEF MemoriesAre
  <2>3. DOMAIN MemoryOf(s) = D /\ MemoryOf(s) = [wa \in D |-> mem[T(s, wa)[Levels]]]
    BY MemoryIs DEF MemoriesAre
  <2> QED
    BY <1>2, <2>2, <2>3
<1>7. va \in DOMAIN MemoryOf(s) /\ MemoryOf(s)' = [MemoryOf(s) EXCEPT ![va] = page]
  BY <1>2, <1>3, <1>4, <1>6
<1>8. [r \in Tasks |-> MemoryOf(r)'] = [[r \in Tasks |-> MemoryOf(r)] EXCEPT ![s][va] = page]
  BY <1>5, <1>7
<1>9. state[t] = "runs" /\ Created' = Created /\ space' = space
  BY DEF Write, InUser, Created
<1>10. A!Write(t) <=>
         /\ t \notin Created
         /\ \E wa \in DOMAIN [r \in Tasks |-> MemoryOf(r)][space[t]] :
              [r \in Tasks |-> MemoryOf(r)'] = [[r \in Tasks |-> MemoryOf(r)] EXCEPT ![space[t]][wa] = page]
         /\ space' = space /\ Created' = Created
  BY DEF A!Write, MemoryOf, Created
<1>11. t \notin Created
  BY <1>9 DEF Created
<1> QED
  BY <1>1, <1>7, <1>8, <1>9, <1>10, <1>11

\* A fault gives the task, whosever memory it uses, a page of zeros.
LEMMA RFault ==
  ASSUME SInv, NEW t \in Tasks, NEW va \in Addresses, do_mem_abort(t, va)
  PROVE  UNCHANGED A!vars
         \/ \E wa \in UNION {DOMAIN MemoryOf(s)' : s \in Tasks} : A!Fault(t, wa)
<1>1. /\ state[t] = "runs" /\ space' = space
      /\ Page(Active(t), va) = 0
  BY DEF do_mem_abort, InUser
<1>2. PICK s \in Tasks : s = space[t] /\ Page(Active(t), va) = T(s, va)[Levels]
  BY DEF Page, Active, T, SInv, Typed
<1>3. Created' = Created
  BY <1>1 DEF do_mem_abort, Created, SInv, Typed
<1>4. CASE free = {}
  <2>1. \A r \in Tasks : MemoryOf(r)' = MemoryOf(r)
    BY <1>4, SameMemories DEF do_mem_abort
  <2> QED
    BY <1>1, <1>3, <2>1 DEF A!vars, MemoryOf, Created
<1>5. CASE free # {}
  <2>1. CanMap(t, va) /\ map_page(t, va) /\ mem' = Mapped(t, va)
    BY <1>5 DEF do_mem_abort
  <2>2. PICK w, a : Maps(t, w, va, a) /\ w[Levels] = Leaf
    BY <2>1, MapPage
  <2>3. mem'[Leaf] = [i \in Index |-> 0]
    BY <2>1, NewPage, SpaceAssumption DEF Vas
  <2>4. /\ MemoryOf(t)' = A!With(MemoryOf(t), va, [i \in Index |-> 0])
        /\ \A r \in Tasks \ {t} : MemoryOf(r)' = MemoryOf(r)
        /\ va \in DOMAIN MemoryOf(t)'
    BY <2>2, <2>3, MappedMemory
  <2>5. va \notin DOMAIN MemoryOf(s)
    BY <1>1, <1>2, MemoryIs DEF MemoriesAre
  <2>6. t \notin Created
    BY <1>1 DEF Created
  <2>7. [r \in Tasks |-> MemoryOf(r)'] =
          [[r \in Tasks |-> MemoryOf(r)] EXCEPT ![t] = A!With(@, va, [i \in Index |-> 0])]
    BY <2>4
  <2>8. A!Fault(t, va) <=>
          /\ t \notin Created /\ va \notin DOMAIN [r \in Tasks |-> MemoryOf(r)][space[t]]
          /\ [r \in Tasks |-> MemoryOf(r)'] =
               [[r \in Tasks |-> MemoryOf(r)] EXCEPT ![t] = A!With(@, va, [i \in Index |-> 0])]
          /\ space' = space /\ Created' = Created
    BY DEF A!Fault, MemoryOf, Created
  <2>9. A!Fault(t, va)
    BY <1>1, <1>2, <1>3, <2>5, <2>6, <2>7, <2>8
  <2> QED
    BY <2>4, <2>9
<1> QED
  BY <1>4, <1>5

LEMMA RCreate ==
  ASSUME SInv, Families, NEW t \in Tasks, NEW c \in Tasks, NEW shared \in BOOLEAN,
         Create(t, c, shared)
  PROVE  \E s \in Tasks : A!Create(s, c)
<1>1. state[c] = "none" /\ mm[c] = Empty /\ space[c] = c
  BY DEF Create, Families, Cleared
<1>2. MemoryOf(c) = A!None
  BY <1>1, ClearedMemory
<1>3. \A r \in Tasks : MemoryOf(r)' = MemoryOf(r)
  BY SameMemories DEF Create
<1>4. Created' = Created \cup {c}
  BY DEF Create, Created, SInv, Typed
<1>5. PICK s \in Tasks : space' = [space EXCEPT ![c] = s]
  BY DEF Create
<1>6. A!Create(s, c)
  BY <1>1, <1>2, <1>3, <1>4, <1>5 DEF A!Create, MemoryOf, Created
<1> QED
  BY <1>6

LEMMA RCopied ==
  ASSUME SInv, Families, NEW t \in Tasks, Copied(t)
  PROVE  \E c \in Tasks : A!Begin(c)
<1>1. PICK c \in Tasks : c = job[t][1] /\ state[c] = "created"
  BY FCopied
<1>2. \A r \in Tasks : MemoryOf(r)' = MemoryOf(r)
  BY SameMemories DEF Copied
<1>3. c \in Created /\ Created' = Created \ {c} /\ space' = space
  BY <1>1 DEF Copied, Created, SInv, Typed
<1>4. A!Begin(c)
  BY <1>2, <1>3 DEF A!Begin, MemoryOf, Created
<1> QED
  BY <1>4

\* A copy of a page is what the creator has there, at that moment.
LEMMA RCopy ==
  ASSUME SInv, Families, NEW t \in Tasks, copy_virt_memory(t)
  PROVE  \E c \in Tasks, va \in DOMAIN MemoryOf(t) : A!Copy(t, c, va)
<1>1. PICK c \in Tasks, va \in Addresses, s \in Tasks :
        /\ c = job[t][1] /\ va = mm[t].user_pages[job[t][2]][2] /\ s = space[t]
        /\ job[t][2] \in 1..Len(mm[t].user_pages)
        /\ CanMap(c, va) /\ map_page(c, va)
        /\ \A p \in Pages : p # Leaf => mem'[p] = Mapped(c, va)[p]
        /\ IF T(s, va)[Levels] = 0 THEN mem' = Mapped(c, va)
           ELSE mem'[Leaf] = mem[T(s, va)[Levels]]
  BY Copying
<1>2. state[c] = "created"
  <2>1. PICK d \in Tasks : d = job[t][1] /\ state[d] = "created"
    BY FCopy
  <2> QED
    BY <1>1, <2>1
<1>3. va \in Vas
  BY SpaceAssumption DEF Vas
<1>4. va \in DOMAIN MemoryOf(t)
  <2>2. T(t, va)[Levels] # 0
    BY <1>1, OnList
  <2> QED
    BY <1>3, <2>2, MemoryIs DEF MemoriesAre
<1>5. PICK w, a : Maps(c, w, va, a) /\ w[Levels] = Leaf
  BY <1>1, MapPage
<1>6. mem'[Leaf] = IF va \in DOMAIN MemoryOf(s) THEN MemoryOf(s)[va] ELSE [i \in Index |-> 0]
  <2>1. va \in DOMAIN MemoryOf(s) <=> T(s, va)[Levels] # 0
    BY <1>3, MemoryIs, ZenonT(60) DEF MemoriesAre
  <2>2. T(s, va)[Levels] # 0 => MemoryOf(s)[va] = mem[T(s, va)[Levels]]
    BY <1>3, MemoryIs DEF MemoriesAre
  <2>3. Mapped(c, va)[Leaf] = [i \in Index |-> 0]
    BY <1>1, <1>3, NewPage
  <2> QED
    BY <1>1, <2>1, <2>2, <2>3
<1>7. /\ MemoryOf(c)' = A!With(MemoryOf(c), va, mem'[Leaf])
      /\ \A r \in Tasks \ {c} : MemoryOf(r)' = MemoryOf(r)
  BY <1>5, MappedMemory
<1> DEFINE M == [r \in Tasks |-> MemoryOf(r)]
           page == IF va \in DOMAIN M[space[t]] THEN M[space[t]][va] ELSE [i \in Index |-> 0]
<1>8. page = mem'[Leaf]
  BY <1>1, <1>6
<1>9. [r \in Tasks |-> MemoryOf(r)'] = [M EXCEPT ![c] = A!With(@, va, page)]
  BY <1>7, <1>8
<1>10. c \in Created /\ Created' = Created /\ space' = space
  BY <1>2 DEF copy_virt_memory, Copies, Created, SInv, Typed
<1>11. A!Copy(t, c, va) <=>
         /\ c \in Created
         /\ [r \in Tasks |-> MemoryOf(r)'] = [M EXCEPT ![c] = A!With(@, va, page)]
         /\ space' = space /\ Created' = Created
  BY DEF A!Copy, MemoryOf, Created
<1>12. A!Copy(t, c, va)
  BY <1>9, <1>10, <1>11
<1> QED
  BY <1>4, <1>12

\* A process ends with its threads, and nothing of other tasks changes.
LEMMA RReap ==
  ASSUME SInv, Families, NEW t \in Tasks, Reap(t)
  PROVE  A!End({s \in Tasks : space[s] = t} \cup {t})
<1>1. /\ Reaped(t) = {s \in Tasks : space[s] = t} \cup {t}
      /\ \A s \in Reaped(t) : state[s] # "created"
  BY FReap
<1>2. /\ space' = [s \in Tasks |-> IF s \in Reaped(t) THEN s ELSE space[s]]
      /\ \A s \in Reaped(t) : s \in Tasks => mm'[s] = Empty
      /\ \A s \in Tasks \ Reaped(t) : mm'[s] = mm[s]
      /\ mem' = mem
  BY DEF Reap
<1>3. ASSUME NEW s \in Tasks
      PROVE  MemoryOf(s)' = IF s \in Reaped(t) THEN A!None ELSE MemoryOf(s)
  <2>1. CASE s \in Reaped(t)
    BY <1>2, <2>1, ClearedMemoryNext
  <2>2. CASE s \notin Reaped(t)
    <3>1. \A va \in Vas : T(s, va)' = T(s, va)
      BY <1>2, <2>2, TreeKept
    <3> QED
      BY <1>2, <2>2, <3>1, MemoryKept
  <2> QED
    BY <2>1, <2>2
<1>4. Created' = Created /\ Reaped(t) \cap Created = {}
  <2>1. \A s \in Tasks : state'[s] = IF s \in Reaped(t) THEN "none" ELSE state[s]
    BY DEF Reap
  <2> QED
    BY <1>1, <2>1 DEF Created
<1>5. A!End(Reaped(t)) <=>
        /\ [s \in Tasks |-> MemoryOf(s)'] =
             [s \in Tasks |-> IF s \in Reaped(t) THEN A!None ELSE [r \in Tasks |-> MemoryOf(r)][s]]
        /\ space' = [s \in Tasks |-> IF s \in Reaped(t) THEN s ELSE space[s]]
        /\ Reaped(t) \cap Created = {} /\ Created' = Created
  BY DEF A!End, MemoryOf, Created
<1>6. A!End(Reaped(t))
  BY <1>2, <1>3, <1>4, <1>5
<1> QED
  BY <1>1, <1>6

LEMMA FStep ==
  ASSUME SInv, Families, [Next]_vars
  PROVE  Families'
<1>1. ASSUME NEW t \in Tasks, Load(t) \/ Copied(t) \/ copy_virt_memory(t) \/ Reap(t)
      PROVE  Families'
  BY <1>1, FLoad, FCopied, FCopy, FReap
<1>2. ASSUME NEW t \in Tasks, Exit(t) PROVE Families'
  BY <1>2, FUser DEF Exit, InUser
<1>3. ASSUME NEW t \in Tasks, NEW va \in Addresses, Write(t, va) PROVE Families'
  BY <1>3, FUser DEF Write, InUser
<1>4. ASSUME NEW t \in Tasks, NEW va \in Addresses, do_mem_abort(t, va) PROVE Families'
  <2>1. \A s \in Tasks \ {t} : mm'[s] = mm[s]
    BY <1>4 DEF do_mem_abort, map_page, SInv, Typed
  <2>2. /\ state[t] = "runs" /\ job[t] = NoJob /\ space' = space /\ job' = job
        /\ state' = state \/ state' = [state EXCEPT ![t] = "ended"]
    BY <1>4 DEF do_mem_abort, InUser
  <2> QED
    BY <2>1, <2>2, FUser
<1>5. ASSUME NEW t \in Tasks, NEW c \in Tasks, NEW shared \in BOOLEAN, Create(t, c, shared)
      PROVE  Families'
  BY <1>5, FCreate
<1>6. CASE UNCHANGED vars
  BY <1>6 DEF vars, Families, Cleared, Idle, Mains, Copiers, Copies
<1> QED
  BY <1>1, <1>2, <1>3, <1>4, <1>5, <1>6 DEF Next

LEMMA RStep ==
  ASSUME SInv, Families, OnePage, [Next]_vars
  PROVE  [A!Next]_A!vars
<1>1. ASSUME NEW t \in Tasks, Load(t) PROVE [A!Next]_A!vars
  BY <1>1, RLoad DEF A!Next
<1>2. ASSUME NEW t \in Tasks, Copied(t) PROVE [A!Next]_A!vars
  BY <1>2, RCopied DEF A!Next
<1>3. ASSUME NEW t \in Tasks, copy_virt_memory(t) PROVE [A!Next]_A!vars
  <2>1. PICK c \in Tasks, va \in DOMAIN MemoryOf(t) : A!Copy(t, c, va)
    BY <1>3, RCopy
  <2> QED
    BY <2>1 DEF A!Next, MemoryOf
<1>4. ASSUME NEW t \in Tasks, Reap(t) PROVE [A!Next]_A!vars
  BY <1>4, RReap DEF A!Next
<1>5. ASSUME NEW t \in Tasks, NEW va \in Addresses, Write(t, va) PROVE [A!Next]_A!vars
  BY <1>5, RWrite DEF A!Next
<1>6. ASSUME NEW t \in Tasks, NEW va \in Addresses, do_mem_abort(t, va) PROVE [A!Next]_A!vars
  <2>1. CASE UNCHANGED A!vars
    BY <2>1
  <2>2. CASE \E wa \in UNION {DOMAIN MemoryOf(s)' : s \in Tasks} : A!Fault(t, wa)
    BY <2>2 DEF A!Next, MemoryOf
  <2> QED
    BY <1>6, <2>1, <2>2, RFault
<1>7. ASSUME NEW t \in Tasks, NEW c \in Tasks, NEW shared \in BOOLEAN, Create(t, c, shared)
      PROVE  [A!Next]_A!vars
  BY <1>7, RCreate DEF A!Next
<1>8. ASSUME mem' = mem, mm' = mm, space' = space, Created' = Created PROVE UNCHANGED A!vars
  BY <1>8, SameMemories DEF A!vars, MemoryOf, Created
<1>9. ASSUME NEW t \in Tasks, Exit(t) PROVE [A!Next]_A!vars
  <2>1. mem' = mem /\ mm' = mm /\ space' = space /\ Created' = Created
    BY <1>9 DEF Exit, InUser, Created, SInv, Typed
  <2> QED
    BY <1>8, <2>1
<1>10. CASE UNCHANGED vars
  BY <1>8, <1>10 DEF vars, Created
<1> QED
  BY <1>1, <1>2, <1>3, <1>4, <1>5, <1>6, <1>7, <1>9, <1>10 DEF Next

\* What programs see are separate memories, shared by the threads of a process
\* alone: each step of the code on tables, lists and pages, those of a copy that
\* is half made among them, is one step of one task's memory, or none.
THEOREM TasksHaveMemories ==
  ASSUME OnePage
  PROVE  Spec => Memories
<1>1. Init => SInv /\ Families /\ A!Init
  BY SInit, FInit, RInit
<1>2. SInv /\ Families /\ [Next]_vars => (SInv /\ Families)' /\ [A!Next]_A!vars
  BY SStep, FStep, RStep
<1> QED
  BY <1>1, <1>2, PTL DEF Spec, Memories
=============================================================================
