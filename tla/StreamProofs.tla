---------------------------- MODULE StreamProofs ----------------------------
(***************************************************************************)
(* Theorems about FileStream, for any sizes of blocks, clusters and files. *)
(***************************************************************************)
EXTENDS FileStream, FiniteSetTheorems, WellFoundedInduction, TLAPS

-----------------------------------------------------------------------------
(* Arithmetic of clusters.                                                 *)

LEMMA BufPositive == Buf \in Nat \ {0}
BY BufAssumption

\* A position is a cluster and a place in it.
LEMMA Division ==
  ASSUME NEW b \in Nat \ {0}, NEW p \in Nat
  PROVE  \E q \in Nat, r \in 0..b - 1 : q = p \div b /\ r = p % b /\ p = q * b + r
<1>1. PICK q \in Nat : q = p \div b
  OBVIOUS
<1>2. PICK r \in 0..b - 1 : r = p % b
  OBVIOUS
<1>3. p - b * (p \div b) = p % b
  OBVIOUS
<1>4. PICK n \in Nat : n = b * q
  OBVIOUS
<1>5. n = q * b
  BY <1>4
<1>6. p = n + r
  BY <1>1, <1>2, <1>3, <1>4
<1> QED
  BY <1>1, <1>2, <1>5, <1>6

LEMMA Split ==
  ASSUME NEW p \in Nat
  PROVE  /\ p \div Buf \in Nat /\ p % Buf \in 0..Buf - 1
         /\ p = (p \div Buf) * Buf + (p % Buf)
<1>1. PICK q \in Nat, r \in 0..Buf - 1 : q = p \div Buf /\ r = p % Buf /\ p = q * Buf + r
  BY ONLY Division, BufPositive, p \in Nat
<1> QED
  BY ONLY <1>1

LEMMA SplitOnce ==
  ASSUME NEW c \in Nat, NEW k \in 0..Buf - 1
  PROVE  (c * Buf + k) \div Buf = c /\ ((c * Buf) + k) % Buf = k
BY BufPositive, SMT

LEMMA Monotone ==
  ASSUME NEW c \in Int, NEW d \in Int, c <= d
  PROVE  c * Buf <= d * Buf
BY BufPositive, SMT

LEMMA Product ==
  ASSUME NEW c \in Int
  PROVE  c * Buf \in Int /\ (c + 1) * Buf = c * Buf + Buf /\ (c - 1) * Buf = c * Buf - Buf
         /\ Buf * c = c * Buf
BY BufPositive, SMT

-----------------------------------------------------------------------------
(* The chain of the file.                                                  *)

\* The FAT holds the chain s.
InFat(s) ==
  /\ first = s[1]
  /\ fat = [c \in Numbers |->
              IF \E i \in 1..Clusters - 1 : s[i] = c
                THEN s[1 + CHOOSE i \in 1..Clusters - 1 : s[i] = c] ELSE EndMark]

\* And what is found along it.
Along(s) == [i \in 0..Cardinality(Numbers) |-> IF i < Clusters THEN s[i + 1] ELSE EndMark]

\* One step further in the FAT, from every place of the list f.
Follow(f) == [i \in 0..Cardinality(Numbers) |->
                IF i = 0 THEN first ELSE IF InChain(f[i - 1]) THEN fat[f[i - 1]] ELSE EndMark]

LEMMA NumbersFinite == IsFiniteSet(Numbers) /\ Cardinality(Numbers) \in Nat
<1>1. Numbers \subseteq 2..EndMark - 1 /\ EndMark - 1 \in Int
  BY BufAssumption, ChainAssumption
<1>2. IsFiniteSet(2..EndMark - 1)
  BY <1>1, FS_Interval
<1>3. IsFiniteSet(Numbers)
  BY <1>1, <1>2, FS_Subset
<1> QED
  BY <1>3, FS_CardinalityType

LEMMA ClustersOf ==
  ASSUME NEW s \in Chains
  PROVE  /\ Clusters \in Nat \ {0}
         /\ s \in [1..Clusters -> Numbers]
         /\ \A i \in 1..Clusters : s[i] \in Numbers /\ InChain(s[i])
         /\ \A i, j \in 1..Clusters : s[i] = s[j] => i = j
         /\ Clusters <= Cardinality(Numbers)
<1>1. Clusters \in Nat \ {0} /\ Len(s) = Clusters /\ s \in Seq(Numbers)
  BY BufAssumption, ChainAssumption
<1>2. s \in [1..Clusters -> Numbers]
  BY <1>1
<1>3. \A i \in 1..Clusters : s[i] \in Numbers /\ InChain(s[i])
  <2> SUFFICES ASSUME NEW i \in 1..Clusters PROVE s[i] \in Numbers /\ InChain(s[i])
    OBVIOUS
  <2>1. s[i] \in Numbers
    BY <1>2
  <2>2. s[i] \in 2..EndMark - 1 /\ EndMark \in Nat
    BY <2>1, BufAssumption, ChainAssumption
  <2> QED
    BY <2>1, <2>2 DEF InChain
<1>4. \A i, j \in 1..Clusters : s[i] = s[j] => i = j
  BY ChainAssumption
<1>5. s \in Injection(1..Clusters, Numbers)
  BY <1>2, <1>4 DEF Injection, IsInjective
<1>6. Cardinality(1..Clusters) <= Cardinality(Numbers)
  BY <1>5, NumbersFinite, FS_Injection
<1>7. Cardinality(1..Clusters) = Clusters
  BY <1>1, FS_Interval
<1> QED
  BY <1>1, <1>2, <1>3, <1>4, <1>6, <1>7

\* A recursive definition on 0..n is met by one function: what two of them first
\* differ in follows from places where they agree.
LEMMA LeastOf ==
  ASSUME NEW S \in SUBSET Nat, S # {}
  PROVE  \E x \in S : \A y \in S : x <= y
<1> DEFINE R == {ss \in Nat \X Nat : ss[1] < ss[2]}
<1>1. IsWellFoundedOn(R, Nat)
  BY NatLessThanWellFounded DEF OpToRel
<1>2. PICK x \in S : \A y \in S : ~(<<y, x>> \in R)
  <2> HIDE DEF R
  <2> QED BY <1>1, WFMin
<1>3. ASSUME NEW y \in S PROVE x <= y
  <2>1. x \in Nat /\ y \in Nat
    OBVIOUS
  <2>2. ~(<<y, x>>[1] < <<y, x>>[2])
    BY <1>2, <2>1
  <2> QED BY <2>1, <2>2
<1> QED BY <1>3

LEMMA FollowOnce ==
  ASSUME NEW f, NEW g, f = Follow(f), g = Follow(g)
  PROVE  f = g
<1> DEFINE N == Cardinality(Numbers)
           S == {i \in 0..N : f[i] # g[i]}
<1>1. DOMAIN f = 0..N /\ DOMAIN g = 0..N /\ f = [i \in 0..N |-> f[i]] /\ g = [i \in 0..N |-> g[i]]
  BY DEF Follow
<1>2. SUFFICES S = {}
  BY <1>1
<1>3. SUFFICES ASSUME S # {} PROVE FALSE
  OBVIOUS
<1>4. PICK i \in S : \A j \in S : i <= j
  <2>1. S \in SUBSET Nat
    BY NumbersFinite
  <2> HIDE DEF S
  <2> QED BY <1>3, <2>1, LeastOf
<1>5. i \in 0..N /\ N \in Nat
  BY NumbersFinite
<1>6. i # 0
  <2>1. (Follow(f))[0] = first /\ (Follow(g))[0] = first
    BY NumbersFinite DEF Follow
  <2> QED
    BY <2>1
<1>7. i - 1 \in 0..N /\ i - 1 \notin S
  BY <1>4, <1>5, <1>6
<1>8. f[i - 1] = g[i - 1]
  BY <1>7
<1>9. /\ (Follow(f))[i] = IF InChain(f[i - 1]) THEN fat[f[i - 1]] ELSE EndMark
      /\ (Follow(g))[i] = IF InChain(g[i - 1]) THEN fat[g[i - 1]] ELSE EndMark
  BY <1>5, <1>6 DEF Follow
<1> QED
  BY <1>8, <1>9

LEMMA AlongFollows ==
  ASSUME NEW s \in Chains, InFat(s)
  PROVE  Along(s) = Follow(Along(s))
<1> DEFINE N == Cardinality(Numbers)
<1>1. N \in Nat /\ Clusters \in Nat \ {0} /\ Clusters <= N
  BY NumbersFinite, ClustersOf
<1>2. SUFFICES ASSUME NEW i \in 0..N PROVE Along(s)[i] = (Follow(Along(s)))[i]
  <2> HIDE DEF N
  <2> QED BY DEF Along, Follow, N
<1>3. CASE i = 0
  BY <1>1, <1>3, ClustersOf DEF Along, Follow, InFat
<1>4. CASE i \in 1..Clusters - 1
  <2>1. Along(s)[i - 1] = s[i] /\ InChain(s[i]) /\ s[i] \in Numbers
    BY <1>1, <1>4, ClustersOf DEF Along
  <2>2. (CHOOSE j \in 1..Clusters - 1 : s[j] = s[i]) = i
    BY <1>1, <1>4, ClustersOf
  <2>3. fat[s[i]] = s[1 + i]
    BY <2>1, <2>2, <1>4 DEF InFat
  <2> QED
    BY <1>1, <1>4, <2>1, <2>3 DEF Along, Follow
<1>5. CASE i = Clusters
  <2>1. Along(s)[i - 1] = s[i] /\ InChain(s[i]) /\ s[i] \in Numbers
    <3>1. i \in 1..Clusters /\ i - 1 \in 0..N /\ i - 1 < Clusters /\ (i - 1) + 1 = i
      BY <1>1, <1>5
    <3> QED BY <3>1, ClustersOf DEF Along
  <2>2. ~ \E j \in 1..Clusters - 1 : s[j] = s[i]
    BY <1>1, <1>5, ClustersOf
  <2>3. fat[s[i]] = EndMark
    BY <2>1, <2>2 DEF InFat
  <2> QED
    BY <1>1, <1>5, <2>1, <2>3 DEF Along, Follow
<1>6. CASE i > Clusters
  <2>1. Along(s)[i - 1] = EndMark /\ ~InChain(EndMark)
    BY <1>1, <1>6, ChainAssumption DEF Along, InChain
  <2> QED
    BY <1>1, <1>6, <2>1 DEF Along, Follow
<1> QED
  BY <1>1, <1>3, <1>4, <1>5, <1>6

\* The chain that is followed is the one in the FAT.
LEMMA ChainFollowed ==
  ASSUME NEW s \in Chains, InFat(s)
  PROVE  Chain = Along(s)
<1>1. Along(s) = Follow(Along(s))
  BY AlongFollows
<1>2. Chain = Follow(Chain)
  BY <1>1 DEF Chain, Follow
<1> QED
  BY <1>1, <1>2, FollowOnce

\* The list of clusters that goes with the chain.
ListOf(s) == [i \in 0..Cardinality(Numbers) |-> IF i < Clusters THEN s[i + 1] ELSE 0]
ChainInFat == \A s \in Chains : InFat(s) => Chain = Along(s) /\ List = ListOf(s)

LEMMA ChainIsInFat == ChainInFat
<1> SUFFICES ASSUME NEW s \in Chains, InFat(s) PROVE Chain = Along(s) /\ List = ListOf(s)
  BY DEF ChainInFat
<1>1. Chain = Along(s)
  BY ChainFollowed
<1>2. /\ Cardinality(Numbers) \in Nat /\ Clusters \in Nat \ {0}
      /\ \A i \in 1..Clusters : InChain(s[i])
  BY NumbersFinite, ClustersOf
<1>3. ~InChain(EndMark)
  BY ChainAssumption DEF InChain
<1>4. DOMAIN Chain = 0..Cardinality(Numbers)
  BY <1>1 DEF Along
<1>5. ASSUME NEW i \in 0..Cardinality(Numbers) PROVE List[i] = ListOf(s)[i]
  <2>1. CASE i < Clusters
    <3>1. i + 1 \in 1..Clusters /\ Chain[i] = s[i + 1]
      BY <1>1, <1>2, <2>1 DEF Along
    <3> QED
      BY <1>2, <1>4, <2>1, <3>1 DEF List, ListOf
  <2>2. CASE ~(i < Clusters)
    <3>1. Chain[i] = EndMark
      BY <1>1, <1>2, <2>2 DEF Along
    <3> QED
      BY <1>3, <1>4, <2>2, <3>1 DEF List, ListOf
  <2> QED
    BY <2>1, <2>2
<1> QED
  BY <1>1, <1>4, <1>5 DEF List, ListOf

LEMMA ChainIsInFatNext == ChainInFat'
BY ChainIsInFat, PTL

\* The FAT and the place of the record stay, and with them the chain.
Volume == entry \in Entries /\ \E s \in Chains : InFat(s)

LEMMA SameVolume ==
  ASSUME Volume, UNCHANGED volume
  PROVE  Volume' /\ Chain' = Chain /\ List' = List /\ Mine' = Mine
<1>1. PICK s \in Chains : InFat(s)
  BY DEF Volume
<1>2. InFat(s)'
  BY <1>1 DEF InFat, volume
<1>3. Chain = Along(s) /\ List = ListOf(s) /\ Chain' = Along(s) /\ List' = ListOf(s)
  BY <1>1, <1>2, ChainIsInFat, ChainIsInFatNext DEF ChainInFat
<1>4. Mine' = Mine
  BY DEF Mine, volume
<1> QED
  BY <1>1, <1>2, <1>3, <1>4 DEF Volume, volume

\* The clusters on the list are the file's own; behind them it has a 0.
LEMMA ListHoldsMine ==
  ASSUME Volume
  PROVE  /\ Mine \subseteq Numbers /\ 0 \notin Mine /\ 0 \notin Numbers
         /\ Clusters \in Nat \ {0} /\ first \in Numbers
         /\ \A i \in 0..Clusters - 1 : List[i] \in Mine /\ Chain[i] = List[i]
         /\ List[Clusters] = 0
         /\ List[0] = first
<1>1. PICK s \in Chains : InFat(s)
  BY DEF Volume
<1>2. Chain = Along(s) /\ List = ListOf(s)
  BY <1>1, ChainIsInFat DEF ChainInFat
<1>3. /\ Cardinality(Numbers) \in Nat /\ Clusters \in Nat \ {0} /\ Clusters <= Cardinality(Numbers)
      /\ DOMAIN s = 1..Clusters /\ s[1] = first /\ first \in Numbers
  BY <1>1, NumbersFinite, ClustersOf DEF InFat
<1>4. Mine \subseteq Numbers
  <2> SUFFICES ASSUME NEW c \in Chains, NEW i \in DOMAIN c PROVE c[i] \in Numbers
    BY DEF Mine
  <2> QED
    BY ClustersOf
<1>5. 0 \notin Numbers
  BY BufAssumption, ChainAssumption
<1>6. ASSUME NEW i \in 0..Clusters - 1 PROVE List[i] \in Mine /\ Chain[i] = List[i]
  <2>1. Chain[i] = s[i + 1] /\ List[i] = s[i + 1] /\ i + 1 \in DOMAIN s
    BY <1>2, <1>3 DEF Along, ListOf
  <2> QED
    BY <1>3, <2>1 DEF Mine
<1>7. List[Clusters] = 0 /\ List[0] = first
  BY <1>2, <1>3 DEF ListOf
<1> QED
  BY <1>3, <1>4, <1>5, <1>6, <1>7

-----------------------------------------------------------------------------
(* Nothing is written but the file.                                        *)

\* What programs respect, and where the record of the file is.
Careful == Careless = {} /\ Offsets \subseteq 0..Buf * Clusters
InFirstCluster == Entries \subseteq 0..phy_block - 1

CallsOf == [kind : {"none", "read", "write", "close", "flush", "hang"},
            rec : Records \cup {<<0, 0>>}, next : Nat, cur : Int, ret : Int]
Lengths == 0..Buf * Clusters

Numeric ==
  /\ size \in Lengths /\ fsize \in Lengths
  /\ ptr \in Int /\ cnt \in Nat /\ op \in CallsOf

Stored ==
  /\ DOMAIN disk = Numbers \cup {0}
  /\ DOMAIN dir = 0..DirClusters * phy_block - 1
  /\ \A b \in DOMAIN dir : dir[b] \in [block : Int, size : Lengths]

\* The buffer of an open stream holds a cluster of the file, or nothing of what
\* is behind it: the position is then at the start, and saving saves no block.
Placed ==
  /\ fopened \in BOOLEAN
  /\ fopened => director = List
  /\ op # Ready => fopened /\ op.kind # "none"
  /\ fopened /\ op.kind \in {"none", "close", "flush"} /\ ptr >= 0
       => cnt < Clusters \/ (cnt = Clusters /\ ptr = 0)
  /\ op.kind \in {"read", "write"} => (cnt = op.next /\ ptr = 0) \/ cnt + 1 = op.next
  /\ op.kind = "write" => op.next < Clusters
  /\ op.kind \in {"close", "flush"} => op.next = 0

Kept == Volume /\ Numeric /\ Stored /\ Placed /\ OwnBlocks

\* Only a read that ended with the file leaves the pointer before the buffer.
Away ==
  /\ cut \in BOOLEAN
  /\ fopened /\ ptr < 0 => cut /\ ftell = fsize
  /\ op.kind \in {"read", "write"} => op.cur <= Amount(op.rec)

BInv == Kept /\ Away

LEMMA PhyBlock == phy_block \in Nat \ {0} /\ phy_block * Sector = Buf
<1>1. Sector \in Nat \ {0} /\ Buf \in Nat \ {0} /\ Buf % Sector = 0
  BY BufAssumption
<1>2. PICK q \in Nat : q = Buf \div Sector /\ Buf = q * Sector + 0
  BY ONLY <1>1, Division
<1>3. phy_block = q
  BY <1>1, <1>2 DEF phy_block, Blocks
<1>4. q * Sector = Buf /\ q # 0
  BY <1>1, <1>2
<1> QED
  BY <1>2, <1>3, <1>4

LEMMA LengthType == Buf * Clusters \in Nat /\ 0 \in Lengths /\ Buf * Clusters = Clusters * Buf
<1>1. \A a, b \in Nat : a * b \in Nat /\ a * b = b * a
  OBVIOUS
<1> QED
  BY <1>1, BufPositive, ChainAssumption DEF Lengths

LEMMA BInit ==
  ASSUME Init
  PROVE  BInv
<1>1. PICK s \in Chains :
        /\ first = s[1]
        /\ fat = [c \in Numbers |->
                    IF \E i \in 1..Clusters - 1 : s[i] = c
                      THEN s[1 + CHOOSE i \in 1..Clusters - 1 : s[i] = c] ELSE EndMark]
  BY DEF Init
<1>2. Volume
  BY <1>1 DEF Init, Volume, InFat
<1>3. Numeric
  BY LengthType, RecordAssumption DEF Init, Numeric, CallsOf, Ready, Lengths
<1>4. Stored
  BY LengthType, RecordAssumption DEF Init, Stored, DirBlock, Lengths
<1>5. Placed
  BY ListHoldsMine, <1>2 DEF Init, Placed, Ready
<1>6. OwnBlocks
  BY DEF Init, OwnBlocks, DirBlock
<1>7. Away
  BY DEF Init, Away, Ready
<1> QED
  BY <1>2, <1>3, <1>4, <1>5, <1>6, <1>7 DEF BInv, Kept

\* Positions of programs that stay in the file.
LEMMA AmountType ==
  ASSUME NEW r \in Records
  PROVE  r[1] \in Nat \ {0} /\ r[2] \in Nat \ {0} /\ Amount(r) \in Nat \ {0}
<1>1. r[1] \in Nat \ {0} /\ r[2] \in Nat \ {0}
  BY RecordAssumption
<1>2. \A a, b \in Nat \ {0} : a * b \in Nat \ {0}
  OBVIOUS
<1> QED
  BY <1>1, <1>2 DEF Amount

\* Of a position in the file, only its end is behind the last cluster.
LEMMA AtTheEnd ==
  ASSUME NEW c \in Nat, NEW k \in Nat, k + c * Buf <= Buf * Clusters
  PROVE  c < Clusters \/ (c = Clusters /\ k = 0)
<1>1. Clusters \in Nat /\ Buf \in Nat \ {0}
  BY ChainAssumption, BufPositive
<1>2. Buf * Clusters = Clusters * Buf
  BY LengthType
<1>3. CASE c > Clusters
  <2>1. (Clusters + 1) * Buf <= c * Buf
    BY <1>1, <1>3, Monotone
  <2>2. (Clusters + 1) * Buf = Clusters * Buf + Buf /\ Clusters * Buf \in Int /\ c * Buf \in Int
    BY <1>1, Product
  <2> QED
    BY <1>1, <1>2, <2>1, <2>2
<1>4. CASE c = Clusters
  <2>1. c * Buf \in Int
    BY Product
  <2> QED
    BY <1>1, <1>2, <1>4, <2>1
<1> QED
  BY <1>1, <1>3, <1>4

\* What programs do is in the code's range: the parts that most actions share.
LEMMA BCalls ==
  ASSUME Careful, Volume, Numeric, Placed, UNCHANGED <<volume, size, fopened, director, cnt, fsize>>,
         NEW r \in Records, InUse, Over(Amount(r)), ftell <= Buf * Clusters,
         NEW k \in {"read", "write"}, Start(k, r), k = "write" => cnt + 1 < Clusters
  PROVE  Numeric' /\ Placed'
<1>1. Amount(r) \in Nat /\ First(r) = Buf - ptr /\ r[1] \in Nat \ {0} /\ First(r) \in Nat
  BY AmountType, BufPositive DEF First, InUse
<1>2. op' = [kind |-> k, rec |-> r, next |-> cnt + 1, cur |-> First(r), ret |-> First(r) \div r[1]]
  BY DEF Start
<1>3. First(r) \div r[1] \in Int
  BY <1>1
<1>4. op' \in CallsOf /\ op'.kind = k /\ op'.next = cnt + 1
  BY <1>1, <1>2, <1>3 DEF CallsOf, Numeric
<1>5. Numeric'
  BY <1>4, BufPositive DEF Numeric, Start
<1>6. List' = List /\ fopened
  BY SameVolume DEF InUse
<1> QED
  BY <1>4, <1>5, <1>6 DEF Placed, Numeric

LEMMA Using ==
  ASSUME BInv, InUse
  PROVE  /\ Volume /\ Numeric /\ Placed /\ op = Ready /\ fopened /\ Buf \in Nat \ {0}
         /\ ptr \in Int /\ ptr <= Buf /\ cnt \in Nat /\ cnt * Buf \in Nat /\ ftell \in Nat
         /\ Buf * Clusters \in Nat /\ fsize \in Nat /\ fsize <= Buf * Clusters
         /\ (~cut => ptr \in Nat) /\ (ptr < 0 => ftell = fsize /\ ptr + Sector > 0)
<1>1. Numeric /\ Volume /\ Placed /\ op = Ready /\ fopened /\ ptr \in 1 - Sector..Buf
  BY DEF BInv, Kept, InUse
<1>1a. Sector \in Nat
  BY BufAssumption
<1>1b. ptr < 0 => cut /\ ftell = fsize
  BY <1>1 DEF BInv, Away
<1>2. cnt \in Nat /\ Buf \in Nat \ {0} /\ Buf * Clusters \in Nat
  BY <1>1, BufPositive, LengthType DEF Numeric
<1>3. fsize \in Nat /\ fsize <= Buf * Clusters
  BY <1>1, <1>2 DEF Numeric, Lengths
<1>4. \A a, b \in Nat : a * b \in Nat
  OBVIOUS
<1>5. cnt * Buf \in Nat
  BY <1>2, <1>4
<1>6. ftell \in Nat
  <2>1. CASE ptr < 0
    BY <1>1b, <1>3, <2>1
  <2>2. CASE ~(ptr < 0)
    BY <1>1, <1>1a, <1>2, <1>5, <2>2 DEF ftell
  <2> QED
    BY <2>1, <2>2
<1>7. ptr \in Int /\ ptr <= Buf /\ (ptr >= 0 => ptr \in Nat) /\ ptr + Sector > 0
  BY <1>1, <1>1a, <1>2
<1>8. ~cut => ptr \in Nat
  BY <1>1b, <1>7
<1> QED
  BY <1>1, <1>1b, <1>2, <1>3, <1>5, <1>6, <1>7, <1>8

LEMMA BOpen ==
  ASSUME BInv, fopen
  PROVE  Kept'
<1>1. Volume' /\ List' = List /\ Mine' = Mine
  BY SameVolume DEF BInv, Kept, fopen
<1>2. Numeric' /\ Stored' /\ OwnBlocks'
  BY <1>1 DEF BInv, Kept, fopen, Numeric, Stored, OwnBlocks, card
<1>3. Placed'
  BY <1>1, ListHoldsMine DEF BInv, Kept, fopen, Placed, Ready
<1> QED
  BY <1>1, <1>2, <1>3 DEF BInv, Kept

LEMMA BRead ==
  ASSUME BInv, Careful, NEW r \in Records, fread(r)
  PROVE  Kept'
<1>1. Volume' /\ List' = List /\ Mine' = Mine
  BY SameVolume DEF BInv, Kept, fread
<1>2. Stored' /\ OwnBlocks'
  BY <1>1 DEF BInv, Kept, fread, Stored, OwnBlocks, card
<1>2a. /\ Volume /\ Numeric /\ Placed /\ op = Ready /\ fopened /\ Buf \in Nat \ {0}
      /\ ptr \in Nat /\ ptr <= Buf /\ cnt \in Nat /\ cnt * Buf \in Nat /\ ftell \in Nat
      /\ Buf * Clusters \in Nat /\ fsize \in Nat /\ fsize <= Buf * Clusters /\ InUse
  BY Using DEF fread
<1>3. ftell <= fsize
  BY <1>2a DEF Careful, fread, Allows
<1>4. CASE Over(Amount(r))
  <2>1. Start("read", r) /\ UNCHANGED <<volume, size, fopened, director, cnt, fsize>>
    BY <1>4 DEF fread
  <2>2. ftell <= Buf * Clusters
    BY <1>2a, <1>3 DEF Lengths
  <2> QED
    BY <1>1, <1>2, <1>2a, <1>3, <1>4, <2>1, <2>2, BCalls DEF BInv, Kept
<1>5. CASE ~Over(Amount(r))
  <2>1. ReadHere(r) /\ UNCHANGED <<op, fopened, director, cnt, fsize, size>>
    BY <1>5 DEF fread
  <2>2. Amount(r) \in Nat /\ cnt * Buf \in Int
    BY AmountType, Product, <1>2a
  <2>3. ptr' \in Int
    BY <1>2a, <1>3, <2>1, <2>2 DEF ReadHere, ToEnd, Lengths
  <2>4. Numeric'
    BY <1>2a, <1>3, <2>1, <2>3 DEF Numeric
  <2>5. ASSUME cnt = Clusters PROVE ptr' = 0
    <3>1. ptr = 0 /\ ftell = cnt * Buf /\ cnt * Buf = Buf * Clusters
      BY <1>2a, <1>3, <2>2, <2>5, LengthType DEF Placed, InUse, Ready, ftell
    <3>2. fsize = cnt * Buf /\ EndOfFile
      BY <1>2a, <1>3, <2>2, <3>1 DEF Lengths, EndOfFile
    <3> QED
      BY <1>2a, <1>3, <2>1, <2>2, <3>2 DEF ReadHere, ToEnd
  <2>6. op = Ready /\ fopened
    BY <1>2a, <1>3 DEF InUse
  <2>7. Placed'
    BY <1>1, <1>2a, <1>3, <2>1, <2>5, <2>6 DEF Placed, Ready, InUse
  <2> QED
    BY <1>1, <1>2, <2>4, <2>7 DEF BInv, Kept
<1> QED
  BY <1>4, <1>5

LEMMA BWrite ==
  ASSUME BInv, Careful, NEW r \in Records, fwrite(r)
  PROVE  Kept'
<1>1. Volume' /\ List' = List /\ Mine' = Mine
  BY SameVolume DEF BInv, Kept, fwrite
<1>2. Stored' /\ OwnBlocks'
  BY <1>1 DEF BInv, Kept, fwrite, Stored, OwnBlocks, card
<1>2a. /\ Volume /\ Numeric /\ Placed /\ op = Ready /\ fopened /\ Buf \in Nat \ {0}
      /\ ptr \in Nat /\ ptr <= Buf /\ cnt \in Nat /\ cnt * Buf \in Nat /\ ftell \in Nat
      /\ Buf * Clusters \in Nat /\ fsize \in Nat /\ fsize <= Buf * Clusters /\ InUse
  BY Using DEF fwrite
<1>3. Amount(r) \in Nat \ {0}
  BY AmountType
<1>4. ptr + cnt * Buf + Amount(r) <= Buf * Clusters
  BY <1>2a, <1>3 DEF Careful, fwrite, Allows, ftell
<1>5. CASE Over(Amount(r))
  <2>1. Start("write", r) /\ UNCHANGED <<volume, size, fopened, director, cnt, fsize>>
    BY <1>5 DEF fwrite
  <2>2. (cnt + 1) * Buf = cnt * Buf + Buf
    BY Product, <1>2a
  <2>3. PICK k \in Nat : k = ptr + Amount(r) - Buf /\ k # 0
    BY <1>2a, <1>3, <1>5, BufPositive DEF Over
  <2>4. k + (cnt + 1) * Buf <= Buf * Clusters
    <3>1. PICK m \in Nat : m = cnt * Buf /\ (cnt + 1) * Buf = m + Buf
      BY <1>2a, <2>2
    <3>2. PICK a \in Nat : a = Amount(r)
      BY <1>3
    <3>3. ptr + m + a <= Buf * Clusters /\ k = ptr + a - Buf
      BY <1>4, <2>3, <3>1, <3>2
    <3>4. k + (m + Buf) <= Buf * Clusters
      BY ONLY <1>2a, <3>3
    <3> QED
      BY <3>1, <3>4
  <2>5. cnt + 1 < Clusters
    <3>1. cnt + 1 \in Nat
      BY <1>2a
    <3> QED
      BY ONLY <2>3, <2>4, <3>1, AtTheEnd
  <2>6. ftell <= Buf * Clusters
    BY <1>2a, <1>3, <1>4 DEF ftell
  <2> QED
    BY <1>1, <1>2, <1>2a, <1>3, <1>5, <2>1, <2>5, <2>6, BCalls DEF BInv, Kept
<1>6. CASE ~Over(Amount(r))
  <2>1. ptr' = ptr + Amount(r) /\ UNCHANGED <<op, fopened, director, cnt, fsize, size>>
    BY <1>6 DEF fwrite
  <2>2. Numeric'
    BY <1>2a, <1>3, <2>1 DEF Numeric
  <2>3. cnt < Clusters
    <3>1. PICK k \in Nat : k = ptr + Amount(r) /\ k # 0
      BY <1>2a, <1>3
    <3>2. k + cnt * Buf <= Buf * Clusters
      BY <1>2a, <1>3, <1>4, <3>1
    <3> QED
      BY <1>2a, <1>3, <3>1, <3>2, AtTheEnd
  <2>4. op = Ready /\ fopened
    BY <1>2a, <1>3 DEF InUse
  <2>5. Placed'
    BY <1>1, <1>2a, <1>3, <2>1, <2>3, <2>4 DEF Placed, Ready
  <2> QED
    BY <1>1, <1>2, <2>2, <2>5 DEF BInv, Kept
<1> QED
  BY <1>5, <1>6

LEMMA BSeek ==
  ASSUME BInv, Careful, NEW o \in Offsets, NEW w, fseek(o, w)
  PROVE  Kept'
<1>1. Volume' /\ List' = List /\ Mine' = Mine
  BY SameVolume DEF BInv, Kept, fseek
<1>2. Stored' /\ OwnBlocks'
  BY <1>1 DEF BInv, Kept, fseek, Stored, OwnBlocks, card
<1>3. Numeric /\ Placed /\ op = Ready /\ fopened /\ cnt \in Nat
  BY Using DEF fseek, Numeric
<1>4. o \div Buf = cnt /\ w = "SEEK_SET" /\ ptr' = o % Buf
  BY DEF Careful, fseek, Allows, Same
<1>5. o \in Nat /\ o <= Buf * Clusters
  BY LengthType DEF Careful
<1>6. o % Buf \in 0..Buf - 1 /\ o = (o \div Buf) * Buf + (o % Buf)
  BY <1>5, Split
<1>7. cnt < Clusters \/ (cnt = Clusters /\ ptr' = 0)
  <2>1. PICK k \in Nat : k = ptr' /\ o = cnt * Buf + k
    BY <1>4, <1>6, BufPositive
  <2>2. cnt * Buf \in Int
    BY <1>3, Product
  <2>3. k + cnt * Buf <= Buf * Clusters
    BY <1>5, <2>1, <2>2
  <2> QED
    BY <1>3, <2>1, <2>3, AtTheEnd
<1>8. Numeric'
  <2>1. ptr' \in Int
    BY <1>4, <1>6, BufPositive
  <2> QED
    BY <1>3, <2>1 DEF fseek, Numeric
<1>9. Placed'
  BY <1>1, <1>3, <1>7 DEF fseek, Placed, Ready
<1> QED
  BY <1>1, <1>2, <1>8, <1>9 DEF BInv, Kept

\* At the start of the buffer, and less than a block before it, there is nothing
\* to write.
LEMMA NoBlocks ==
  ASSUME NEW n \in Int, n <= 0, n + Sector > 0
  PROVE  Blocks(n) = 0
<1>1. Sector \in Nat \ {0}
  BY BufAssumption
<1>2. CASE n = 0
  <2>1. 0 % Sector = 0 /\ 0 \div Sector = 0
    BY <1>1
  <2> QED
    BY <1>2, <2>1 DEF Blocks
<1>3. CASE n < 0
  <2>1. n \div Sector = -1
    BY <1>1, <1>3
  <2>2. n % Sector # 0
    BY <1>1, <1>3
  <2> QED
    BY <2>1, <2>2 DEF Blocks
<1> QED
  BY <1>2, <1>3

\* What the daemon writes for fclose and fflush.
LEMMA BWriteBack ==
  ASSUME BInv, NEW k \in {"close", "flush"}, NEW n \in Lengths, WriteBack(k, n, 0)
  PROVE  Kept'
<1>1. Volume' /\ List' = List /\ Mine' = Mine
  BY SameVolume DEF BInv, Kept, WriteBack
<1>2. /\ Volume /\ Numeric /\ Placed /\ op = Ready /\ fopened /\ Buf \in Nat \ {0}
      /\ ptr \in Int /\ ptr <= Buf /\ cnt \in Nat /\ (ptr < 0 => ptr + Sector > 0)
  BY Using DEF WriteBack
<1>3. Stored /\ OwnBlocks
  BY DEF BInv, Kept
<1>4. op' = [Ready EXCEPT !.kind = k, !.next = 0] /\ UNCHANGED <<fopened, director, ptr, cnt, fsize>>
  BY DEF WriteBack, stream
<1>5. op'.kind = k /\ op'.next = 0 /\ op' \in CallsOf
  BY <1>2, <1>4 DEF Ready, CallsOf, Numeric
<1>6. Numeric'
  BY <1>2, <1>4, <1>5 DEF Numeric, WriteBack
<1>7. director = List
  BY <1>2 DEF Placed
<1>8. DOMAIN disk' = Numbers \cup {0} /\ disk' = [disk EXCEPT ![List[cnt]] = Saved]
  BY <1>3, <1>7 DEF WriteBack, Stored
<1>9. Stored'
  BY <1>3, <1>8 DEF WriteBack, Stored
<1>10. Placed'
  BY <1>1, <1>2, <1>4, <1>5 DEF Placed, Ready
<1>11. OwnBlocks'
  <2> SUFFICES ASSUME NEW c \in DOMAIN disk \ Mine PROVE disk'[c] = Cluster(c)
    BY <1>1, <1>3, <1>8 DEF OwnBlocks, Stored, WriteBack
  <2>1. disk[c] = Cluster(c)
    BY <1>3 DEF OwnBlocks
  <2>2. CASE cnt < Clusters
    BY <1>2, <1>3, <1>8, <2>1, <2>2, ListHoldsMine DEF Stored
  <2>3. CASE ptr <= 0
    <3>1. Sector * Blocks(ptr) = 0
      <4>1. Blocks(ptr) = 0
        BY <1>2, <2>3, NoBlocks, BufAssumption
      <4> QED
        BY <4>1, BufAssumption
    <3>2. Saved = [i \in 0..Buf - 1 |-> disk[List[cnt]][i]]
      BY <1>7, <3>1 DEF Saved
    <3>3. CASE c = List[cnt]
      BY <1>3, <1>8, <2>1, <3>2, <3>3 DEF Stored, Cluster
    <3>4. CASE c # List[cnt]
      BY <1>3, <1>8, <2>1, <3>4 DEF Stored
    <3> QED
      BY <3>3, <3>4
  <2> QED
    BY <1>2, <2>2, <2>3 DEF Placed, Ready
<1> QED
  BY <1>1, <1>6, <1>9, <1>10, <1>11 DEF BInv, Kept

LEMMA BClose ==
  ASSUME BInv, InFirstCluster, fclose
  PROVE  Kept'
<1>1. InUse
  BY DEF fclose, WriteBack
<1>2. /\ Placed /\ Volume /\ op = Ready /\ fopened /\ Buf \in Nat \ {0}
      /\ ptr \in Int /\ ptr <= Buf /\ cnt \in Nat /\ cnt * Buf \in Nat /\ Buf * Clusters \in Nat
      /\ ftell \in Nat /\ fsize \in Nat /\ fsize <= Buf * Clusters /\ (ptr < 0 => ftell = fsize)
  BY <1>1, Using
<1>3. ftell \in Lengths
  <2>1. ptr >= 0 => cnt < Clusters \/ (cnt = Clusters /\ ptr = 0)
    BY <1>2 DEF Placed, Ready
  <2>2. Clusters \in Nat /\ Buf * Clusters = Clusters * Buf
    BY LengthType, ChainAssumption
  <2>3. CASE cnt < Clusters
    <3>1. (cnt + 1) * Buf <= Clusters * Buf /\ (cnt + 1) * Buf = cnt * Buf + Buf
      BY <1>2, <2>2, <2>3, Monotone, Product
    <3> QED
      BY <1>2, <2>2, <3>1 DEF ftell, Lengths
  <2>4. CASE cnt = Clusters /\ ptr = 0
    BY <1>2, <2>2, <2>4 DEF ftell, Lengths
  <2>5. CASE ptr < 0
    BY <1>2, <2>5 DEF Lengths
  <2> QED
    BY <1>2, <2>1, <2>3, <2>4, <2>5
<1>4. entry \div phy_block = 0
  <2>1. entry \in 0..phy_block - 1
    BY <1>2 DEF InFirstCluster, Volume
  <2> QED
    BY <2>1, PhyBlock
<1> QED
  BY <1>3, <1>4, BWriteBack DEF fclose

LEMMA BFlush ==
  ASSUME BInv, Careful, fflush
  PROVE  Kept'
<1>1. InUse /\ ptr >= 0
  BY DEF fflush, WriteBack
<1>2. /\ Buf \in Nat \ {0} /\ ptr \in Nat /\ ptr <= Buf
      /\ Buf * Clusters \in Nat /\ fopened /\ op = Ready /\ cnt \in Nat
  BY <1>1, Using
<1>3. ptr # Buf
  BY DEF Careful, fflush, Allows
<1>4. ptr < Buf
  BY <1>2, <1>3
<1>5. ptr \div Buf = 0
  BY <1>2, <1>4
<1>6. ptr \in Lengths
  <2>1. 1 * Buf <= Clusters * Buf /\ Buf * Clusters = Clusters * Buf /\ 1 * Buf = Buf
    BY <1>2, ChainAssumption, Monotone, LengthType
  <2> QED
    BY <1>2, <1>4, <2>1 DEF Lengths
<1> QED
  BY <1>5, <1>6, BWriteBack DEF fflush

LEMMA BLoad ==
  ASSUME BInv, LoadBuffer
  PROVE  Kept'
<1>1. Volume' /\ List' = List /\ Mine' = Mine
  BY SameVolume DEF BInv, Kept, LoadBuffer
<1>2. Stored' /\ OwnBlocks'
  BY <1>1 DEF BInv, Kept, LoadBuffer, Stored, OwnBlocks, card
<1>3. Numeric /\ Placed
  BY DEF BInv, Kept
<1>4. Numeric' /\ cnt' = op.next /\ ptr' = 0 /\ op' = op
  BY <1>3 DEF LoadBuffer, Numeric, Placed
<1>5. Placed'
  BY <1>1, <1>3, <1>4 DEF LoadBuffer, Placed
<1> QED
  BY <1>1, <1>2, <1>4, <1>5 DEF BInv, Kept

\* A call that waits is one of fread or fwrite, and its cluster is loaded.
LEMMA Waiting ==
  ASSUME BInv, NEW k \in {"read", "write"}, Waits(k)
  PROVE  /\ op.rec \in Records \cup {<<0, 0>>} /\ op.cur \in Int /\ op.ret \in Int
         /\ Amount(op.rec) \in Nat /\ Rest \in Int
         /\ cnt \in Nat /\ fsize \in Nat /\ fsize <= Buf * Clusters /\ Buf * Clusters \in Nat
         /\ cnt * Buf \in Nat /\ ptr = 0 /\ fopened /\ op.kind = k
<1>1. Numeric /\ Placed /\ op.kind = k /\ cnt = op.next
  BY DEF BInv, Kept, Waits
<1>2. op.rec \in Records \cup {<<0, 0>>} /\ op.cur \in Int /\ op.ret \in Int
  BY <1>1 DEF Numeric, CallsOf
<1>3. Amount(op.rec) \in Nat
  <2>1. CASE op.rec \in Records
    BY <2>1, AmountType
  <2>2. CASE op.rec = <<0, 0>>
    BY <2>2 DEF Amount
  <2> QED
    BY <1>2, <2>1, <2>2
<1>4. cnt \in Nat /\ fsize \in Nat /\ fsize <= Buf * Clusters /\ Buf * Clusters \in Nat
  BY <1>1, LengthType DEF Numeric, Lengths
<1>5. \A a, b \in Nat : a * b \in Nat
  OBVIOUS
<1>6. ptr = 0 /\ fopened
  BY <1>1, <1>4 DEF Placed, Ready
<1>7. cnt * Buf \in Nat
  BY <1>4, <1>5, BufPositive
<1>8. Rest \in Int
  BY <1>2, <1>3 DEF Rest
<1> QED
  BY <1>1, <1>2, <1>3, <1>4, <1>6, <1>7, <1>8

LEMMA BFinishRead ==
  ASSUME BInv, FinishRead
  PROVE  Kept'
<1>1. Volume' /\ List' = List /\ Mine' = Mine
  BY SameVolume DEF BInv, Kept, FinishRead
<1>2. Stored' /\ OwnBlocks'
  BY <1>1 DEF BInv, Kept, FinishRead, Stored, OwnBlocks, card
<1>3. Numeric /\ Placed
  BY DEF BInv, Kept
<1>4. /\ Rest \in Int /\ cnt \in Nat /\ fsize \in Nat /\ fsize <= Buf * Clusters
      /\ Buf * Clusters \in Nat /\ cnt * Buf \in Nat /\ ptr = 0 /\ fopened
  BY Waiting DEF FinishRead
<1>5. ptr' \in Int /\ (ptr' >= 0 => cnt < Clusters \/ (cnt = Clusters /\ ptr' = 0))
  <2>1. CASE EndOfFile
    <3>1. ptr' = fsize - cnt * Buf /\ cnt * Buf >= fsize
      BY <1>4, <2>1 DEF FinishRead, EndOfFile, ftell, ToEnd
    <3>2. ASSUME ptr' >= 0 PROVE cnt < Clusters \/ (cnt = Clusters /\ ptr' = 0)
      <4>1. ptr' = 0 /\ 0 + cnt * Buf <= Buf * Clusters
        BY <1>4, <3>1, <3>2
      <4> QED
        BY <1>4, <4>1, AtTheEnd
    <3> QED
      BY <1>4, <3>1, <3>2
  <2>2. CASE ~EndOfFile
    <3>1. ptr' = Rest /\ cnt * Buf < fsize
      BY <1>4, <2>2 DEF FinishRead, EndOfFile, ftell
    <3>2. cnt < Clusters
      <4>1. 0 + cnt * Buf <= Buf * Clusters /\ cnt * Buf # Buf * Clusters
        BY <1>4, <3>1
      <4>2. cnt < Clusters \/ cnt = Clusters
        BY <1>4, <4>1, AtTheEnd
      <4> QED
        BY <4>1, <4>2, LengthType
    <3> QED
      BY <1>4, <3>1, <3>2
  <2> QED
    BY <2>1, <2>2
<1>6. Numeric'
  BY <1>3, <1>5 DEF FinishRead, Numeric, CallsOf, Ready
<1>7. Placed'
  BY <1>1, <1>3, <1>4, <1>5 DEF FinishRead, Placed, Ready
<1> QED
  BY <1>1, <1>2, <1>6, <1>7 DEF BInv, Kept

LEMMA BFinishWrite ==
  ASSUME BInv, FinishWrite
  PROVE  Kept'
<1>1. Volume' /\ List' = List /\ Mine' = Mine
  BY SameVolume DEF BInv, Kept, FinishWrite
<1>2. Stored' /\ OwnBlocks'
  BY <1>1 DEF BInv, Kept, FinishWrite, Stored, OwnBlocks, card
<1>3. Numeric /\ Placed
  BY DEF BInv, Kept
<1>4. Rest \in Int /\ ptr = 0 /\ fopened /\ op.kind = "write" /\ cnt = op.next
  BY Waiting DEF FinishWrite, Waits
<1>5. ptr' = Rest /\ cnt < Clusters /\ op' = Ready
  BY <1>3, <1>4 DEF FinishWrite, Placed
<1>6. Numeric'
  BY <1>3, <1>4, <1>5 DEF FinishWrite, Numeric, CallsOf, Ready
<1>7. Placed'
  BY <1>1, <1>3, <1>4, <1>5 DEF FinishWrite, Placed, Ready
<1> QED
  BY <1>1, <1>2, <1>6, <1>7 DEF BInv, Kept

LEMMA BWriteDir ==
  ASSUME BInv, WriteDir
  PROVE  Kept'
<1>1. Volume' /\ List' = List /\ Mine' = Mine
  BY SameVolume DEF BInv, Kept, WriteDir
<1>2. Numeric /\ Placed /\ Stored /\ OwnBlocks
  BY DEF BInv, Kept
<1>3. op.next = 0 /\ DirClusters \in Nat \ {0} /\ 0 * phy_block = 0
  BY <1>2, BufAssumption, PhyBlock DEF WriteDir, Placed
<1>4. dir' = [dir EXCEPT ![0] = DirBlock(0, size)] /\ UNCHANGED disk
  BY <1>3 DEF WriteDir
<1>5. DirBlock(0, size) \in [block : Int, size : Lengths] /\ DirBlock(0, size).block = 0
  BY <1>2, LengthType DEF DirBlock, Numeric, Lengths
<1>6. Stored' /\ OwnBlocks'
  BY <1>1, <1>2, <1>4, <1>5 DEF Stored, OwnBlocks
<1>7. Numeric' /\ Placed'
  <2>1. op' = Ready /\ fopened' = FALSE /\ UNCHANGED <<size, ptr, cnt, fsize>>
    BY DEF WriteDir, Freed, stream
  <2>2. Ready \in CallsOf /\ Ready.kind = "none"
    BY DEF CallsOf, Ready
  <2>3. Numeric'
    BY <1>2, <2>1, <2>2 DEF Numeric
  <2> QED
    BY <2>1, <2>2, <2>3 DEF Placed
<1> QED
  BY <1>1, <1>6, <1>7 DEF BInv, Kept

LEMMA BRestart ==
  ASSUME BInv, InFirstCluster, Restart
  PROVE  Kept'
<1>1. Volume' /\ List' = List /\ Mine' = Mine
  BY SameVolume DEF BInv, Kept, Restart
<1>2. Numeric /\ Placed /\ Stored /\ OwnBlocks /\ Volume
  BY DEF BInv, Kept
<1>3. Stored' /\ OwnBlocks'
  BY <1>1, <1>2 DEF Restart, Stored, OwnBlocks, card
<1>4. entry \in DOMAIN dir
  <2>1. entry \in 0..phy_block - 1 /\ DirClusters \in Nat \ {0} /\ phy_block \in Nat \ {0}
    BY <1>2, PhyBlock, BufAssumption DEF InFirstCluster, Volume
  <2>2. \A a, b \in Nat \ {0} : b <= a * b /\ a * b \in Nat
    OBVIOUS
  <2>3. phy_block <= DirClusters * phy_block /\ DirClusters * phy_block \in Nat
    BY <2>1, <2>2
  <2> QED
    BY <1>2, <2>1, <2>3 DEF Stored
<1>5. dir[entry].size \in Lengths
  BY <1>2, <1>4 DEF Stored
<1>6. Numeric' /\ Placed'
  <2>1. op' = Ready /\ fopened' = FALSE /\ size' = dir[entry].size
        /\ ptr' = 0 /\ cnt' = 0 /\ fsize' = 0
    BY DEF Restart, Freed
  <2>2. Ready \in CallsOf /\ Ready.kind = "none"
    BY DEF CallsOf, Ready
  <2>3. Numeric'
    BY <1>5, <2>1, <2>2, LengthType DEF Numeric
  <2> QED
    BY <2>1, <2>2, <2>3 DEF Placed
<1> QED
  BY <1>1, <1>3, <1>6 DEF BInv, Kept

\* Where the pointer is.
LEMMA AwayStep ==
  ASSUME BInv, Careful, Next
  PROVE  Away'
<1>1. Away /\ Numeric
  BY DEF BInv, Kept
<1>2. CASE fopen
  <2>1. cut' \in BOOLEAN
    BY <1>2 DEF fopen
  <2>2. op' = Ready /\ ~(ptr' < 0)
    BY <1>2 DEF fopen
  <2>3. op'.kind = "none"
    BY <2>2 DEF Ready
  <2> QED
    BY <2>1, <2>2, <2>3 DEF Away
<1>3. ASSUME NEW r \in Records, fread(r) \/ fwrite(r) PROVE Away'
  <2>1. /\ op = Ready /\ ptr \in Nat /\ ptr <= Buf /\ Buf \in Nat \ {0} /\ cnt * Buf \in Nat
        /\ Amount(r) \in Nat \ {0} /\ fsize \in Nat /\ ftell \in Nat
    BY <1>3, AmountType, Using DEF fread, fwrite
  <2>2. cut' = cut
    BY <1>3 DEF fread, fwrite
  <2>3. CASE Over(Amount(r))
    <3>1. PICK k \in {"read", "write"} : Start(k, r)
      BY <1>3, <2>3 DEF fread, fwrite
    <3>2. First(r) = Buf - ptr /\ First(r) <= Amount(r)
      BY <2>1, <2>3 DEF First, Over
    <3>3. op'.cur = First(r) /\ op'.rec = r /\ ptr' = Buf
      BY <3>1 DEF Start
    <3> QED
      BY <1>1, <2>1, <2>2, <3>2, <3>3 DEF Away, Amount
  <2>4. CASE ~Over(Amount(r))
    <3>1. ptr' \in Nat /\ op' = op
      <4>1. CASE fread(r) /\ EndOfFile
        <5>1. ftell = fsize
          BY <2>1, <4>1 DEF Careful, fread, Allows, EndOfFile
        <5>2. ptr' = fsize - cnt * Buf /\ op' = op
          BY <2>4, <4>1 DEF fread, ReadHere, ToEnd
        <5> QED
          BY <2>1, <5>1, <5>2 DEF ftell
      <4>2. CASE ~(fread(r) /\ EndOfFile)
        <5>1. ptr' = ptr + Amount(r) /\ op' = op
          BY <1>3, <2>4, <4>2 DEF fread, fwrite, ReadHere
        <5> QED
          BY <2>1, <5>1
      <4> QED
        BY <4>1, <4>2
    <3>2. op'.kind = "none" /\ cut' \in BOOLEAN /\ ~(ptr' < 0)
      BY <1>1, <2>1, <2>2, <3>1 DEF Away, Ready
    <3> QED
      BY <3>2 DEF Away
  <2> QED
    BY <2>3, <2>4
<1>4. CASE Astray
  <2>1. UNCHANGED <<ptr, cut, cnt, fsize, fopened>> /\ op'.kind = "hang"
    BY <1>4 DEF Astray, stream, Ready
  <2>2. ftell' = ftell
    BY <2>1 DEF ftell
  <2>3. cut' \in BOOLEAN /\ (fopened' /\ ptr' < 0 => cut' /\ ftell' = fsize')
    BY <1>1, <2>1, <2>2 DEF Away
  <2> QED
    BY <2>1, <2>3 DEF Away
<1>5. CASE LoadBuffer
  <2>1. cut' \in BOOLEAN
    BY <1>5 DEF LoadBuffer
  <2>2. op' = op /\ ~(ptr' < 0)
    BY <1>5 DEF LoadBuffer
  <2> QED
    BY <1>1, <2>1, <2>2 DEF Away
<1>6. CASE FinishRead
  <2>1. /\ Rest \in Int /\ cnt * Buf \in Nat /\ fsize \in Nat /\ ptr = 0 /\ op.cur <= Amount(op.rec)
        /\ op.cur \in Int /\ Amount(op.rec) \in Nat
    BY <1>1, <1>6, Waiting DEF FinishRead, Waits, Away
  <2>2. op' = Ready /\ cnt' = cnt /\ fsize' = fsize
    BY <1>6 DEF FinishRead
  <2>3. CASE EndOfFile
    <3>1. ptr' = fsize - cnt * Buf /\ cut' = TRUE
      BY <1>6, <2>3 DEF FinishRead, ToEnd
    <3>2. ftell' = fsize
      BY <2>1, <2>2, <3>1 DEF ftell
    <3> QED
      BY <2>2, <3>1, <3>2 DEF Away, Ready
  <2>4. CASE ~EndOfFile
    <3>1. ptr' = ptr + Rest /\ cut' = cut
      BY <1>6, <2>4 DEF FinishRead
    <3>2. ptr' >= 0
      BY <2>1, <3>1 DEF Rest
    <3> QED
      BY <1>1, <2>1, <2>2, <3>1, <3>2 DEF Away, Ready, Numeric
  <2> QED
    BY <2>3, <2>4
<1>7. CASE FinishWrite
  <2>1. /\ Rest \in Int /\ ptr = 0 /\ op.cur <= Amount(op.rec) /\ op.cur \in Int
        /\ Amount(op.rec) \in Nat
    BY <1>1, <1>7, Waiting DEF FinishWrite, Waits, Away
  <2>2. op' = Ready /\ cut' = cut /\ ptr' = ptr + Rest
    BY <1>7 DEF FinishWrite
  <2>3. ptr' >= 0
    BY <2>1, <2>2 DEF Rest
  <2> QED
    BY <1>1, <2>1, <2>2, <2>3 DEF Away, Ready
<1>8. ASSUME NEW o \in Offsets, NEW w, fseek(o, w) PROVE Away'
  <2>1. o \div Buf = cnt /\ w = "SEEK_SET" /\ ptr' = o % Buf
    BY <1>8 DEF Careful, fseek, Allows, Same
  <2>2. o % Buf \in 0..Buf - 1 /\ Buf \in Nat
    BY Split, BufPositive, LengthType DEF Careful
  <2>3. cut' \in BOOLEAN /\ op' = Ready
    BY <1>8 DEF fseek, InUse
  <2> QED
    BY <2>1, <2>2, <2>3 DEF Away, Ready
<1>9. CASE fclose \/ fflush
  <2>1. UNCHANGED <<ptr, cut, cnt, fsize, fopened>> /\ op'.kind \in {"close", "flush"}
    BY <1>9 DEF fclose, fflush, WriteBack, stream, Ready
  <2> QED
    BY <1>1, <2>1 DEF Away, ftell
<1>10. CASE WriteDir \/ Restart
  <2>1. fopened' = FALSE /\ op' = Ready
    BY <1>10 DEF WriteDir, Restart, Freed
  <2>2. cut' \in BOOLEAN
    BY <1>1, <1>10 DEF WriteDir, Restart, stream, Away
  <2> QED
    BY <2>1, <2>2 DEF Away, Ready
<1> QED
  BY <1>2, <1>3, <1>4, <1>5, <1>6, <1>7, <1>8, <1>9, <1>10 DEF Next

LEMMA BAstray ==
  ASSUME BInv, Astray
  PROVE  Kept'
<1>1. Volume' /\ List' = List /\ Mine' = Mine
  BY SameVolume DEF BInv, Kept, Astray
<1>2. op' = [Ready EXCEPT !.kind = "hang"] /\ fopened /\ UNCHANGED stream
  BY DEF Astray, InUse
<1>3. op'.kind = "hang" /\ op' \in CallsOf
  BY <1>2 DEF Ready, CallsOf
<1> QED
  BY <1>1, <1>2, <1>3 DEF BInv, Kept, Astray, Numeric, Stored, Placed, OwnBlocks, card, stream

LEMMA BStep ==
  ASSUME BInv, Careful, InFirstCluster, [Next]_vars
  PROVE  BInv'
<1>1. ASSUME fopen PROVE Kept'
  BY <1>1, BOpen
<1>2. ASSUME NEW r \in Records, fread(r) \/ fwrite(r) PROVE Kept'
  BY <1>2, BRead, BWrite
<1>3. ASSUME LoadBuffer \/ FinishRead \/ FinishWrite \/ Astray PROVE Kept'
  BY <1>3, BLoad, BFinishRead, BFinishWrite, BAstray
<1>4. ASSUME NEW o \in Offsets, NEW w, fseek(o, w) PROVE Kept'
  BY <1>4, BSeek
<1>5. ASSUME fclose \/ fflush \/ WriteDir PROVE Kept'
  BY <1>5, BClose, BFlush, BWriteDir
<1>6. ASSUME Restart PROVE Kept'
  BY <1>6, BRestart
<1>7. CASE UNCHANGED vars
  <2>1. UNCHANGED volume /\ UNCHANGED card
        /\ UNCHANGED <<size, fopened, director, base, ptr, cut, cnt, fsize, op>>
    BY <1>7 DEF vars, stream
  <2>2. Volume' /\ List' = List /\ Mine' = Mine
    BY <2>1, SameVolume DEF BInv, Kept
  <2>3. Kept'
    BY <2>1, <2>2 DEF BInv, Kept, Numeric, Stored, Placed, OwnBlocks, card
  <2>4. Away'
    BY <2>1 DEF BInv, Away, ftell
  <2> QED
    BY <2>3, <2>4 DEF BInv
<1>8. Next => Kept'
  BY <1>1, <1>2, <1>3, <1>4, <1>5, <1>6 DEF Next
<1>9. CASE Next
  BY <1>8, <1>9, AwayStep DEF BInv
<1> QED
  BY <1>7, <1>9

\* Whatever careful programs transfer, aligned or not, only the clusters of their
\* file and the first block of its directory are written (fs_deamon.c, fat_32.c),
\* also when they close after a read that left the pointer without its upper half,
\* or less than a block before the buffer (fread.c:83).
THEOREM OnlyOwnBlocks ==
  ASSUME Careful, InFirstCluster
  PROVE  Spec => []OwnBlocks
<1>1. Init => BInv
  BY BInit
<1>2. BInv /\ [Next]_vars => BInv'
  BY BStep
<1>3. BInv => OwnBlocks
  BY DEF BInv, Kept
<1> QED
  BY <1>1, <1>2, <1>3, PTL DEF Spec

-----------------------------------------------------------------------------
(* The stream is a file.                                                   *)

\* Records of one length, which divides a cluster, from positions between them
\* (as testcode/rw_file reads and writes), and a directory whose first block has
\* the record of the file.
Aligned == /\ \A r \in Records : Amount(r) = Largest
           /\ Buf % Largest = 0 /\ \A o \in Offsets : o % Largest = 0
FirstRecord == Entries \subseteq {0}

Pointer ==
  /\ ptr \in 0..Buf /\ ptr % Largest = 0 /\ cnt \in 0..Clusters
  /\ written \in 0..Buf /\ ret \in 0..Largest
  /\ user = [k \in 1..Largest |-> user[k]]
  /\ base = [k \in 0..Buf - 1 |-> base[k]]
  /\ \A c \in Numbers \cup {0} : disk[c] = [k \in 0..Buf - 1 |-> disk[c][k]]

\* Behind what was written, the buffer holds what the card holds.
Loads(from) == \A k \in from..Buf - 1 : base[k] = disk[director[cnt]][k]
Fresh == fopened => written <= ptr /\ Loads(written)

\* A record that did not fit begins where the cluster ends.
Crossing ==
  op.kind \in {"read", "write"} =>
    /\ op.rec \in Records /\ op.cur = 0 /\ op.ret = 0 /\ written = 0
    /\ op.next <= Clusters /\ (cnt + 1 = op.next => ptr = Buf)
    /\ op.kind = "read" => op.next * Buf <= fsize

Closing == op.kind \in {"close", "flush"} => size = ftell /\ Loads(0)
Recorded == dir[entry].size = (IF fopened THEN fsize ELSE size)

AInv == BInv /\ Pointer /\ Fresh /\ Crossing /\ Closing /\ Recorded

\* Multiples of the length of a record.
LEMMA Multiples ==
  ASSUME NEW b \in Nat \ {0}, NEW x \in Nat, NEW y \in Nat, x % b = 0, y % b = 0
  PROVE  /\ (x + y) % b = 0
         /\ x < y => x + b <= y
         /\ x <= y => (y - x) % b = 0
<1>1. PICK q \in Nat : x = q * b + 0
  BY ONLY Division, b \in Nat \ {0}, x \in Nat, x % b = 0
<1>2. PICK s \in Nat : y = s * b + 0
  BY ONLY Division, b \in Nat \ {0}, y \in Nat, y % b = 0
<1>3. x = q * b /\ y = s * b
  BY <1>1, <1>2
<1>4. \A k \in Nat : (k * b) % b = 0
  <2> TAKE k \in Nat
  <2>1. 0 \in 0..b - 1
    OBVIOUS
  <2>2. (k * b + 0) % b = 0
    BY <2>1
  <2> QED
    BY <2>2
<1>5. (q + s) * b = q * b + s * b
  OBVIOUS
<1>6. (x + y) % b = 0
  <2>1. q + s \in Nat /\ x + y = (q + s) * b
    BY <1>3, <1>5
  <2> QED
    BY <1>4, <2>1
<1>7. ASSUME x < y PROVE x + b <= y
  <2>1. q < s
    BY <1>3, <1>7
  <2>2. (q + 1) * b <= s * b /\ (q + 1) * b = q * b + b
    BY <2>1
  <2> QED
    BY <1>3, <2>2
<1>8. ASSUME x <= y PROVE (y - x) % b = 0
  <2>1. q <= s
    BY <1>3, <1>8
  <2>2. s - q \in Nat /\ (s - q) * b = s * b - q * b
    BY <2>1
  <2>3. y - x = (s - q) * b
    BY <1>3, <2>2
  <2> QED
    BY <1>4, <2>2, <2>3
<1> QED
  BY <1>6, <1>7, <1>8

LEMMA MultipleTimes ==
  ASSUME NEW b \in Nat \ {0}, NEW x \in Nat, x % b = 0, NEW c \in Nat
  PROVE  (c * x) % b = 0
<1>1. PICK q \in Nat : x = q * b + 0
  BY ONLY Division, b \in Nat \ {0}, x \in Nat, x % b = 0
<1>2. PICK d \in Nat : c * x = d * b
  BY <1>1
<1>3. 0 \in 0..b - 1
  OBVIOUS
<1>4. (d * b + 0) % b = 0 /\ d * b + 0 = d * b
  BY <1>3
<1> QED
  BY <1>2, <1>4

LEMMA RecordLength ==
  ASSUME Aligned
  PROVE  Largest \in Nat \ {0} /\ Largest <= Buf /\ \A r \in Records : r[2] \in 0..Largest
<1>1. PICK r \in Records : TRUE
  BY RecordAssumption
<1>2. Largest \in Nat \ {0}
  BY <1>1, AmountType DEF Aligned
<1>3. Largest <= Buf
  <2>1. 0 % Largest = 0
    BY <1>2
  <2>2. Buf \in Nat /\ 0 < Buf /\ Buf % Largest = 0
    BY BufPositive DEF Aligned
  <2>3. 0 + Largest <= Buf
    BY ONLY <1>2, <2>1, <2>2, Multiples, 0 \in Nat
  <2> QED
    BY <1>2, <2>3
<1>4. ASSUME NEW s \in Records PROVE s[2] \in 0..Largest
  <2>1. \A a, b \in Nat \ {0} : b <= a * b
    OBVIOUS
  <2>2. s[1] \in Nat \ {0} /\ s[2] \in Nat \ {0} /\ s[1] * s[2] = Largest
    BY AmountType DEF Aligned, Amount
  <2> QED
    BY <1>2, <2>1, <2>2
<1> QED
  BY <1>2, <1>3, <1>4

LEMMA AInit ==
  ASSUME Aligned, FirstRecord, Init
  PROVE  AInv
<1>1. BInv
  BY BInit
<1>2. Largest \in Nat \ {0} /\ Buf \in Nat \ {0} /\ Clusters \in Nat \ {0}
  BY RecordLength, BufPositive, ChainAssumption
<1>3. 0 % Largest = 0
  BY <1>2
<1>4. Pointer
  <2>1. ptr \in 0..Buf /\ ptr % Largest = 0 /\ cnt \in 0..Clusters
        /\ written \in 0..Buf /\ ret \in 0..Largest
    BY <1>2, <1>3 DEF Init
  <2>2. user = [k \in 1..Largest |-> user[k]]
    BY DEF Init, Zeros
  <2>3. base = [k \in 0..Buf - 1 |-> base[k]]
    BY DEF Init, Cluster
  <2>4. \A c \in Numbers \cup {0} : disk[c] = [k \in 0..Buf - 1 |-> disk[c][k]]
    BY DEF Init, Cluster
  <2> QED
    BY <2>1, <2>2, <2>3, <2>4 DEF Pointer
<1>5. entry = 0 /\ 0 \in 0..DirClusters * phy_block - 1
  <2>1. DirClusters \in Nat \ {0} /\ phy_block \in Nat \ {0}
    BY PhyBlock, BufAssumption
  <2>2. \A a, b \in Nat \ {0} : a * b \in Nat \ {0}
    OBVIOUS
  <2>3. DirClusters * phy_block \in Nat \ {0}
    BY <2>1, <2>2
  <2> QED
    BY <2>3 DEF Init, FirstRecord
<1>6. Recorded
  BY <1>5 DEF Init, Recorded, DirBlock
<1> QED
  BY <1>1, <1>4, <1>6 DEF AInv, Init, Fresh, Crossing, Closing, Ready

\* Where a program that uses the stream may be, and what fits there.
LEMMA InPlace ==
  ASSUME AInv, Aligned, InUse, NEW r \in Records
  PROVE  /\ Largest \in Nat \ {0} /\ Largest <= Buf /\ Amount(r) = Largest
         /\ r[1] \in Nat \ {0} /\ r[2] \in 0..Largest
         /\ IF Over(Amount(r)) THEN ptr = Buf /\ First(r) = 0
            ELSE ptr + Largest \in 0..Buf /\ (ptr + Largest) % Largest = 0 /\ First(r) = Largest
<1>1. Largest \in Nat \ {0} /\ Largest <= Buf /\ r[2] \in 0..Largest
  BY RecordLength
<1>2. Amount(r) = Largest /\ r[1] \in Nat \ {0} /\ Buf \in Nat \ {0} /\ Buf % Largest = 0
  BY AmountType, BufPositive DEF Aligned
<1>3. ptr \in Nat /\ ptr <= Buf /\ ptr % Largest = 0
  BY <1>2 DEF AInv, Pointer
<1>4. CASE Over(Amount(r))
  <2>1. ptr + Largest > Buf
    BY <1>2, <1>4 DEF Over
  <2>2. ptr < Buf => ptr + Largest <= Buf
    BY ONLY <1>1, <1>2, <1>3, Multiples
  <2>3. ptr = Buf
    BY <1>1, <1>2, <1>3, <2>1, <2>2
  <2> QED
    BY <1>1, <1>2, <1>4, <2>3 DEF First
<1>5. CASE ~Over(Amount(r))
  <2>1. ptr + Largest \in 0..Buf
    BY <1>1, <1>2, <1>3, <1>5 DEF Over
  <2>2. Largest % Largest = 0
    BY <1>1
  <2>3. (ptr + Largest) % Largest = 0
    BY ONLY <1>1, <1>3, <2>2, Multiples
  <2> QED
    BY <1>1, <1>2, <1>5, <2>1, <2>3 DEF First
<1> QED
  BY <1>4, <1>5

LEMMA DivZero ==
  ASSUME NEW a \in Nat \ {0}, NEW n, n = 0
  PROVE  Div(n, a) = 0 /\ 0 \div a = 0
BY DEF Div

\* What is found of the cluster where the buffer is.
LEMMA Places ==
  ASSUME Volume, NEW p \in 0..Buf * Clusters - 1
  PROVE  /\ p \div Buf \in 0..Clusters - 1 /\ p % Buf \in 0..Buf - 1
         /\ p = (p \div Buf) * Buf + (p % Buf)
         /\ Chain[p \div Buf] = List[p \div Buf] /\ List[p \div Buf] \in Numbers
<1>1. Clusters \in Nat \ {0} /\ Buf \in Nat \ {0} /\ Buf * Clusters \in Nat
      /\ Buf * Clusters = Clusters * Buf
  BY LengthType, BufPositive, ChainAssumption
<1>2. PICK c \in Nat, k \in 0..Buf - 1 : c = p \div Buf /\ k = p % Buf /\ p = c * Buf + k
  BY ONLY <1>1, p \in 0..Buf * Clusters - 1, Division
<1>3. c < Clusters
  <2>1. CASE c >= Clusters
    <3>1. Clusters * Buf <= c * Buf /\ c * Buf \in Int
      BY <1>1, <2>1, Monotone, Product
    <3> QED
      BY <1>1, <1>2, <3>1
  <2> QED
    BY <1>1, <2>1
<1>4. Chain[c] = List[c] /\ List[c] \in Numbers
  BY <1>1, <1>3, ListHoldsMine
<1>5. c \in 0..Clusters - 1
  BY <1>1, <1>3
<1> QED
  BY ONLY <1>2, <1>4, <1>5

LEMMA ListOnce ==
  ASSUME Volume, NEW i \in 0..Clusters - 1, NEW j \in 0..Clusters - 1, List[i] = List[j]
  PROVE  i = j
<1>1. PICK s \in Chains : InFat(s)
  BY DEF Volume
<1>2. List = ListOf(s)
  BY <1>1, ChainIsInFat DEF ChainInFat
<1>3. Cardinality(Numbers) \in Nat /\ Clusters \in Nat \ {0} /\ Clusters <= Cardinality(Numbers)
  BY NumbersFinite, ClustersOf
<1>4. List[i] = s[i + 1] /\ List[j] = s[j + 1]
  BY <1>2, <1>3 DEF ListOf
<1>5. i + 1 \in 1..Clusters /\ j + 1 \in 1..Clusters
  BY <1>3
<1>6. i + 1 = j + 1
  BY <1>4, <1>5, ClustersOf
<1> QED
  BY <1>3, <1>6

\* What the invariant says of an open stream.
LEMMA Opened ==
  ASSUME AInv, fopened
  PROVE  /\ Volume /\ director = List /\ cnt \in Nat /\ cnt \in 0..Clusters /\ Clusters \in Nat \ {0}
         /\ List[cnt] \in Numbers \cup {0} /\ (cnt < Clusters => List[cnt] \in Numbers)
         /\ DOMAIN disk = Numbers \cup {0} /\ Buf \in Nat \ {0}
         /\ written <= ptr /\ Loads(written) /\ cnt * Buf \in Nat
<1>1. /\ Volume /\ director = List /\ cnt \in 0..Clusters /\ Clusters \in Nat \ {0}
      /\ DOMAIN disk = Numbers \cup {0} /\ Buf \in Nat \ {0} /\ written <= ptr /\ Loads(written)
  BY BufPositive, ChainAssumption DEF AInv, BInv, Kept, Placed, Stored, Pointer, Fresh
<1>2. cnt \in Nat /\ (cnt < Clusters \/ cnt = Clusters)
  BY <1>1
<1>3. List[cnt] \in Numbers \cup {0} /\ (cnt < Clusters => List[cnt] \in Numbers)
  BY <1>1, <1>2, ListHoldsMine
<1>4. \A a, b \in Nat : a * b \in Nat
  OBVIOUS
<1> QED
  BY <1>1, <1>2, <1>3, <1>4

LEMMA AOpen ==
  ASSUME AInv, Aligned, fopen
  PROVE  Pointer' /\ Fresh' /\ Crossing' /\ Closing' /\ Recorded'
<1>1. /\ Volume /\ List' = List /\ first \in Numbers /\ List[0] = first
      /\ Clusters \in Nat \ {0} /\ Buf \in Nat \ {0} /\ Largest \in Nat \ {0}
  BY SameVolume, ListHoldsMine, BufPositive, ChainAssumption, RecordLength DEF AInv, BInv, Kept, fopen
<1>2. Pointer /\ Recorded /\ op = Ready /\ ~fopened
  BY DEF AInv, fopen
<1>3. /\ fopened' /\ director' = List /\ base' = disk[first] /\ ptr' = 0 /\ cnt' = 0
      /\ fsize' = size /\ written' = 0
      /\ UNCHANGED <<entry, disk, dir, size, user, ret, op>>
  BY DEF fopen, volume, card
<1>4. Pointer'
  <2>1. ptr' \in 0..Buf /\ ptr' % Largest = 0 /\ cnt' \in 0..Clusters /\ written' \in 0..Buf
        /\ ret' \in 0..Largest
    BY <1>1, <1>2, <1>3 DEF Pointer
  <2>2. user' = [k \in 1..Largest |-> user'[k]]
    BY <1>2, <1>3 DEF Pointer
  <2>3. base' = [k \in 0..Buf - 1 |-> base'[k]]
    BY <1>1, <1>2, <1>3 DEF Pointer
  <2>4. \A c \in Numbers \cup {0} : disk'[c] = [k \in 0..Buf - 1 |-> disk'[c][k]]
    BY <1>2, <1>3 DEF Pointer
  <2> QED
    BY <2>1, <2>2, <2>3, <2>4 DEF Pointer
<1>5. Fresh'
  BY <1>1, <1>3 DEF Fresh, Loads
<1> QED
  BY <1>2, <1>3, <1>4, <1>5 DEF Crossing, Closing, Recorded, Ready

LEMMA ARead ==
  ASSUME AInv, Careful, Aligned, NEW r \in Records, fread(r)
  PROVE  Pointer' /\ Fresh' /\ Crossing' /\ Closing' /\ Recorded'
<1>1. /\ Largest \in Nat \ {0} /\ Largest <= Buf /\ Amount(r) = Largest
      /\ r[1] \in Nat \ {0} /\ r[2] \in 0..Largest
      /\ IF Over(Amount(r)) THEN ptr = Buf /\ First(r) = 0
         ELSE ptr + Largest \in 0..Buf /\ (ptr + Largest) % Largest = 0 /\ First(r) = Largest
  BY InPlace DEF fread
<1>2. /\ op = Ready /\ fopened /\ Buf \in Nat \ {0} /\ ptr \in Nat /\ ptr <= Buf /\ cnt \in Nat
      /\ cnt * Buf \in Nat /\ ftell \in Nat /\ fsize \in Nat /\ fsize <= Buf * Clusters
  BY Using DEF AInv, fread
<1>3. Pointer /\ Fresh /\ Recorded
  BY DEF AInv
<1>4. UNCHANGED <<volume, disk, dir, size, fopened, director, base, cnt, fsize, written>>
  BY DEF fread, card
<1>5. ftell <= fsize /\ (Over(Amount(r)) => written = 0)
  BY <1>2, <1>3, <1>4 DEF Careful, fread, Allows, Pointer
<1>6. CASE Over(Amount(r))
  <2>1. /\ op' = [kind |-> "read", rec |-> r, next |-> cnt + 1, cur |-> 0, ret |-> 0 \div r[1]]
        /\ ptr' = Buf /\ ret' = ret /\ user' = Patch(user, 0, Bytes(ptr, 0))
    BY <1>1, <1>6 DEF fread, Start
  <2>2. user' = user /\ ptr' = ptr
    <3>1. user' = [k \in 1..Largest |-> user[k]]
      BY <2>1, <1>3 DEF Patch, Bytes, Pointer
    <3> QED
      BY <1>1, <1>3, <1>6, <2>1, <3>1 DEF Pointer
  <2>3. cnt < Clusters
    <3>1. Buf + cnt * Buf <= Buf * Clusters
      BY <1>1, <1>2, <1>5, <1>6, LengthType DEF ftell
    <3> QED
      BY <1>2, <3>1, AtTheEnd
  <2>4. (cnt + 1) * Buf <= fsize
    <3>1. (cnt + 1) * Buf = cnt * Buf + Buf
      BY <1>2, Product
    <3>2. Buf + cnt * Buf <= fsize
      BY <1>1, <1>5, <1>6 DEF ftell
    <3> QED
      BY <1>2, <3>1, <3>2
  <2>5. Crossing'
    BY <1>1, <1>2, <1>4, <1>5, <1>6, <2>1, <2>3, <2>4, DivZero, ChainAssumption DEF Crossing
  <2>6. Pointer' /\ Fresh' /\ Recorded'
    BY <1>3, <1>4, <2>1, <2>2 DEF Pointer, Fresh, Loads, Recorded, volume
  <2> QED
    BY <2>1, <2>5, <2>6 DEF Closing
<1>7. CASE ~Over(Amount(r))
  <2>1. ReadHere(r) /\ op' = op
    BY <1>7 DEF fread
  <2>2. ptr' \in 0..Buf /\ ptr' % Largest = 0 /\ ptr <= ptr' /\ ret' \in 0..Largest
        /\ user' = [k \in 1..Largest |-> user'[k]]
    <3>1. CASE EndOfFile
      <4>1. fsize = ptr + cnt * Buf
        BY <1>2, <1>5, <3>1 DEF EndOfFile, ftell
      <4>2. ToEnd - ptr = 0 /\ ToEnd = ptr
        BY <1>2, <4>1 DEF ToEnd
      <4>3. ptr' = ptr /\ ret' = 0 /\ user' = user
        BY <1>1, <2>1, <3>1, <4>2, DivZero DEF ReadHere
      <4> QED
        BY <1>1, <1>2, <1>3, <4>3 DEF Pointer
    <3>2. CASE ~EndOfFile
      <4>1. ptr' = ptr + Largest /\ ret' = r[2] /\ user' = Patch(user, 0, Bytes(ptr, Largest))
        BY <1>1, <2>1, <3>2 DEF ReadHere
      <4>2. user' = [k \in 1..Largest |-> user'[k]]
        BY <1>3, <4>1 DEF Patch, Pointer
      <4> QED
        BY <1>1, <1>2, <1>7, <4>1, <4>2
    <3> QED
      BY <3>1, <3>2
  <2>3. Pointer'
    BY <1>3, <1>4, <2>2 DEF Pointer
  <2>4. Fresh' /\ Recorded'
    <3>1. written \in Int /\ ptr' \in Int /\ written <= ptr
      BY <1>2, <1>3, <2>2 DEF Fresh, Pointer
    <3>2. written' <= ptr'
      BY <1>2, <1>4, <2>2, <3>1
    <3> QED
      BY <1>2, <1>3, <1>4, <3>2 DEF Fresh, Loads, Recorded, volume
  <2> QED
    BY <1>2, <2>1, <2>3, <2>4 DEF Closing, Crossing, Ready
<1> QED
  BY <1>6, <1>7

LEMMA DataOf ==
  ASSUME NEW r \in Records, NEW n \in Nat, n = Amount(r)
  PROVE  /\ SubSeq(Data(r), 1, n) = [k \in 1..n |-> NewByte(k)]
         /\ SubSeq(Data(r), 1, 0) = << >>
         /\ Data(r) = [k \in 1..n |-> NewByte(k)]
BY DEF Data

LEMMA AWrite ==
  ASSUME AInv, Careful, Aligned, NEW r \in Records, fwrite(r)
  PROVE  Pointer' /\ Fresh' /\ Crossing' /\ Closing' /\ Recorded'
<1>1. /\ Largest \in Nat \ {0} /\ Largest <= Buf /\ Amount(r) = Largest
      /\ r[1] \in Nat \ {0} /\ r[2] \in 0..Largest
      /\ IF Over(Amount(r)) THEN ptr = Buf /\ First(r) = 0
         ELSE ptr + Largest \in 0..Buf /\ (ptr + Largest) % Largest = 0 /\ First(r) = Largest
  BY InPlace DEF fwrite
<1>2. /\ op = Ready /\ fopened /\ Buf \in Nat \ {0} /\ ptr \in Nat /\ ptr <= Buf /\ cnt \in Nat
      /\ cnt * Buf \in Nat /\ ftell \in Nat
  BY Using DEF AInv, fwrite
<1>3. Pointer /\ Fresh /\ Recorded /\ written \in 0..Buf
  BY DEF AInv, Pointer
<1>4. UNCHANGED <<volume, disk, dir, size, fopened, director, cnt, fsize, user>>
  BY DEF fwrite, card
<1>5. Over(Amount(r)) => written = 0
  BY <1>3 DEF Careful, fwrite, Allows
<1>6. base' = [k \in 0..Buf - 1 |-> base'[k]]
  BY <1>3 DEF fwrite, Patch, Pointer
<1>7. CASE Over(Amount(r))
  <2>1. /\ op' = [kind |-> "write", rec |-> r, next |-> cnt + 1, cur |-> 0, ret |-> 0 \div r[1]]
        /\ ptr' = Buf /\ ret' = ret /\ written' = written
        /\ base' = Patch(base, ptr - 1, SubSeq(Data(r), 1, 0))
    <3>1. First(r) = 0 /\ Start("write", r)
      BY <1>1, <1>7 DEF fwrite
    <3>2. written' = IF First(r) > 0 /\ written < ptr + First(r) THEN ptr + First(r) ELSE written
      BY DEF fwrite
    <3>3. ~(First(r) > 0)
      BY <3>1
    <3> QED
      BY <3>1, <3>2, <3>3 DEF fwrite, Start
  <2>2. base' = base
    <3>1. DOMAIN SubSeq(Data(r), 1, 0) = {}
      BY <1>1, DataOf
    <3>2. base' = [k \in 0..Buf - 1 |-> base[k]]
      BY <1>3, <2>1, <3>1 DEF Patch, Pointer
    <3> QED
      BY <1>3, <3>2 DEF Pointer
  <2>3. Pointer' /\ Fresh' /\ Recorded'
    BY <1>1, <1>3, <1>4, <1>7, <2>1, <2>2, ZenonT(60) DEF Pointer, Fresh, Loads, Recorded, volume
  <2>4. cnt + 1 <= Clusters
    <3>1. ptr + cnt * Buf + Largest <= Buf * Clusters
      <4>1. ftell + Largest <= Buf * Clusters
        BY <1>1, <1>2, LengthType DEF Careful, fwrite, Allows
      <4> QED
        BY <4>1 DEF ftell
    <3>2. Buf + cnt * Buf <= Buf * Clusters
      BY <1>1, <1>2, <1>7, <3>1, LengthType
    <3>3. cnt < Clusters
      BY <1>2, <3>2, AtTheEnd
    <3> QED
      BY <1>2, <3>3, ChainAssumption
  <2>5. Crossing'
    BY <1>1, <1>2, <1>4, <1>5, <1>7, <2>1, <2>4, DivZero DEF Crossing
  <2> QED
    BY <2>1, <2>3, <2>5 DEF Closing
<1>8. CASE ~Over(Amount(r))
  <2>1. /\ ptr' = ptr + Largest /\ ret' = r[2] /\ op' = op
        /\ base' = Patch(base, ptr - 1, SubSeq(Data(r), 1, Largest))
        /\ written' = IF First(r) > 0 /\ written < ptr + First(r) THEN ptr + First(r) ELSE written
    BY <1>1, <1>8 DEF fwrite
  <2>2. written' = ptr'
    <3>1. written <= ptr /\ First(r) = Largest
      BY <1>1, <1>2, <1>3, <1>8 DEF Fresh
    <3>2. written < ptr + Largest /\ Largest > 0
      BY <1>1, <1>2, <1>3, <3>1
    <3> QED
      BY <2>1, <3>1, <3>2
  <2>3. Pointer'
    BY <1>1, <1>3, <1>4, <1>6, <1>8, <2>1, <2>2, ZenonT(60) DEF Pointer
  <2>4. ASSUME NEW k \in 0..Buf - 1, k >= ptr' PROVE base'[k] = base[k]
    <3>1. DOMAIN SubSeq(Data(r), 1, Largest) = 1..Largest
      BY <1>1, DataOf
    <3>2. k - (ptr - 1) \notin 1..Largest
      BY <1>1, <1>2, <2>1, <2>4
    <3> QED
      BY <1>3, <2>1, <3>1, <3>2 DEF Patch, Pointer
  <2>5. Fresh'
    <3> SUFFICES ASSUME NEW k \in written'..Buf - 1 PROVE base'[k] = disk'[director'[cnt']][k]
      BY <1>1, <1>2, <2>1, <2>2 DEF Fresh, Loads
    <3>1. k \in 0..Buf - 1 /\ k >= ptr' /\ k \in written..Buf - 1
      BY <1>1, <1>2, <1>3, <2>1, <2>2 DEF Fresh
    <3> QED
      BY <1>2, <1>3, <1>4, <2>4, <3>1 DEF Fresh, Loads
  <2> QED
    BY <1>2, <1>3, <1>4, <2>1, <2>3, <2>5 DEF Closing, Crossing, Ready, Recorded, volume
<1> QED
  BY <1>7, <1>8

LEMMA ALoad ==
  ASSUME AInv, Aligned, LoadBuffer
  PROVE  Pointer' /\ Fresh' /\ Crossing' /\ Closing' /\ Recorded'
<1>1. op # Ready /\ op.kind \in {"read", "write"} /\ cnt # op.next
  BY DEF LoadBuffer, Ready
<1>2. fopened /\ cnt + 1 = op.next /\ op.next <= Clusters
  BY <1>1 DEF AInv, BInv, Kept, Placed, Crossing
<1>3. /\ Volume /\ director = List /\ cnt \in Nat /\ Clusters \in Nat \ {0}
      /\ DOMAIN disk = Numbers \cup {0} /\ Buf \in Nat \ {0} /\ Largest \in Nat \ {0}
  BY <1>2, Opened, RecordLength
<1>4. Pointer /\ Recorded /\ Crossing
  BY DEF AInv
<1>5. /\ base' = disk[director[cnt + 1]] /\ ptr' = 0 /\ cnt' = cnt + 1 /\ written' = 0
      /\ UNCHANGED <<entry, disk, dir, size, fopened, director, fsize, user, ret, op>>
  BY DEF LoadBuffer, Loaded, card, volume
<1>6. director[cnt + 1] \in Numbers \cup {0}
  <2>1. cnt + 1 \in 0..Clusters - 1 \/ cnt + 1 = Clusters
    BY <1>2, <1>3
  <2> QED
    BY <1>3, <2>1, ListHoldsMine
<1>7. base' = [k \in 0..Buf - 1 |-> base'[k]]
  BY <1>4, <1>5, <1>6 DEF Pointer
<1>8. ptr' \in 0..Buf /\ ptr' % Largest = 0 /\ cnt' \in 0..Clusters /\ written' \in 0..Buf
  BY <1>2, <1>3, <1>5
<1>9. Pointer'
  BY <1>4, <1>5, <1>7, <1>8 DEF Pointer
<1>10. Fresh'
  BY <1>5 DEF Fresh, Loads
<1>11. Crossing'
  BY <1>2, <1>3, <1>4, <1>5 DEF Crossing
<1> QED
  BY <1>1, <1>4, <1>5, <1>9, <1>10, <1>11 DEF Closing, Recorded

\* A call that waits has a whole record to do, from the start of the cluster.
LEMMA WaitingWhole ==
  ASSUME AInv, Aligned, NEW k \in {"read", "write"}, Waits(k)
  PROVE  /\ op.rec \in Records /\ Rest = Largest /\ Amount(op.rec) = Largest /\ ptr = 0
         /\ op.rec[1] \in Nat \ {0} /\ op.rec[2] \in 0..Largest /\ op.cur = 0 /\ op.ret = 0
         /\ Rest \div op.rec[1] = op.rec[2] /\ written = 0 /\ fopened /\ op.kind = k
         /\ Largest \in Nat \ {0} /\ Largest <= Buf /\ Largest \in 0..Buf
         /\ Largest % Largest = 0 /\ cnt \in 0..Clusters /\ cnt * Buf \in Nat
         /\ k = "read" => cnt * Buf <= fsize
<1>1. /\ op.kind = k /\ cnt = op.next /\ op.rec \in Records /\ op.cur = 0 /\ op.ret = 0
      /\ written = 0 /\ (k = "read" => cnt * Buf <= fsize)
  BY DEF AInv, Waits, Crossing
<1>2. /\ Largest \in Nat \ {0} /\ Largest <= Buf /\ Largest \in 0..Buf
      /\ Largest % Largest = 0 /\ op.rec[2] \in 0..Largest
  BY <1>1, RecordLength, BufPositive
<1>3. op.rec[1] \in Nat \ {0} /\ op.rec[2] \in Nat /\ op.rec[1] * op.rec[2] = Largest
  BY <1>1, AmountType DEF Aligned, Amount
<1>4. Rest = Largest /\ Amount(op.rec) = Largest
  BY <1>1, <1>2 DEF Rest, Aligned
<1>5. ptr = 0 /\ fopened /\ cnt * Buf \in Nat /\ cnt \in 0..Clusters
  BY Waiting DEF AInv, Pointer
<1>6. \A a \in Nat \ {0}, b \in Nat : (a * b) \div a = b
  OBVIOUS
<1> QED
  BY <1>1, <1>2, <1>3, <1>4, <1>5, <1>6

LEMMA AFinishRead ==
  ASSUME AInv, Aligned, FinishRead
  PROVE  Pointer' /\ Fresh' /\ Crossing' /\ Closing' /\ Recorded'
<1>1. /\ op.rec \in Records /\ Rest = Largest /\ ptr = 0
      /\ op.rec[1] \in Nat \ {0} /\ op.rec[2] \in 0..Largest /\ op.ret = 0
      /\ Rest \div op.rec[1] = op.rec[2] /\ written = 0 /\ fopened
      /\ Largest \in Nat \ {0} /\ Largest <= Buf /\ Largest \in 0..Buf
      /\ Largest % Largest = 0 /\ cnt * Buf \in Nat /\ cnt * Buf <= fsize
  BY WaitingWhole DEF FinishRead
<1>2. Pointer /\ Fresh /\ Recorded /\ fsize \in Nat
  BY Waiting DEF AInv, FinishRead
<1>3. /\ op' = Ready
      /\ UNCHANGED <<volume, disk, dir, size, fopened, director, base, cnt, fsize, written>>
  BY DEF FinishRead, card
<1>4. ptr' \in 0..Buf /\ ptr' % Largest = 0 /\ ret' \in 0..Largest
      /\ user' = [k \in 1..Largest |-> user'[k]]
  <2>1. CASE EndOfFile
    <3>1. fsize = cnt * Buf
      BY <1>1, <1>2, <2>1 DEF EndOfFile, ftell
    <3>2. ToEnd = 0 /\ op.ret + (ToEnd - ptr) = 0
      BY <1>1, <3>1 DEF ToEnd
    <3>3. ptr' = 0 /\ ret' = 0 /\ user' = user
      BY <1>1, <2>1, <3>2, DivZero DEF FinishRead
    <3> QED
      BY <1>1, <1>2, <3>3 DEF Pointer
  <2>2. CASE ~EndOfFile
    <3>1. /\ ptr' = Largest /\ ret' = op.rec[2]
          /\ user' = Patch(user, 0, Bytes(ptr, Rest))
      BY <1>1, <2>2 DEF FinishRead
    <3>2. user' = [k \in 1..Largest |-> user'[k]]
      BY <1>2, <3>1 DEF Patch, Pointer
    <3> QED
      BY <1>1, <3>1, <3>2
  <2> QED
    BY <2>1, <2>2
<1>5. Pointer'
  BY <1>2, <1>3, <1>4 DEF Pointer
<1>6. Fresh'
  BY <1>1, <1>2, <1>3, <1>4 DEF Fresh, Loads
<1> QED
  BY <1>2, <1>3, <1>5, <1>6 DEF Crossing, Closing, Recorded, Ready, volume

LEMMA AFinishWrite ==
  ASSUME AInv, Aligned, FinishWrite
  PROVE  Pointer' /\ Fresh' /\ Crossing' /\ Closing' /\ Recorded'
<1>1. /\ op.rec \in Records /\ Rest = Largest /\ Amount(op.rec) = Largest /\ ptr = 0
      /\ op.rec[1] \in Nat \ {0} /\ op.rec[2] \in 0..Largest /\ op.cur = 0
      /\ Rest \div op.rec[1] = op.rec[2] /\ written = 0 /\ fopened
      /\ Largest \in Nat \ {0} /\ Largest <= Buf /\ Largest \in 0..Buf
      /\ Largest % Largest = 0
  BY WaitingWhole DEF FinishWrite
<1>2. Pointer /\ Fresh /\ Recorded /\ Buf \in Nat
  BY BufPositive DEF AInv
<1>3. /\ op' = Ready /\ ptr' = Largest /\ written' = Largest /\ ret' = op.rec[2]
      /\ base' = Patch(base, -1, SubSeq(Data(op.rec), 1, Largest))
      /\ UNCHANGED <<volume, disk, dir, size, fopened, director, cnt, fsize, user>>
  <2>1. ptr + Rest = Largest /\ ptr - 1 = -1 /\ Rest + op.cur = Rest
    BY <1>1
  <2> QED
    BY <1>1, <2>1 DEF FinishWrite, card
<1>4. base' = [k \in 0..Buf - 1 |-> base'[k]]
  BY <1>2, <1>3 DEF Patch, Pointer
<1>5. Pointer'
  BY <1>1, <1>2, <1>3, <1>4 DEF Pointer
<1>6. ASSUME NEW k \in Largest..Buf - 1 PROVE base'[k] = base[k]
  <2>1. DOMAIN SubSeq(Data(op.rec), 1, Largest) = 1..Largest
    BY <1>1, DataOf
  <2>2. k - (-1) \notin 1..Largest /\ k \in 0..Buf - 1
    BY <1>1, <1>2
  <2> QED
    BY <1>2, <1>3, <2>1, <2>2 DEF Patch, Pointer
<1>7. Fresh'
  <2>1. \A k \in Largest..Buf - 1 : base[k] = disk[director[cnt]][k]
    BY <1>1, <1>2 DEF Fresh, Loads
  <2> QED
    BY <1>1, <1>3, <1>6, <2>1 DEF Fresh, Loads
<1> QED
  BY <1>2, <1>3, <1>5, <1>7 DEF Crossing, Closing, Recorded, Ready, volume

LEMMA ASeek ==
  ASSUME AInv, Careful, Aligned, NEW o \in Offsets, NEW w, fseek(o, w)
  PROVE  /\ Pointer' /\ Fresh' /\ Crossing' /\ Closing' /\ Recorded'
         /\ ret' = 0 /\ o = cnt * Buf + ptr' /\ o \in 0..Buf * Clusters
<1>1. o \div Buf = cnt /\ w = "SEEK_SET" /\ ptr' = o % Buf /\ o >= cnt * Buf + written /\ ret' = 0
  <2>1. o \div Buf = cnt /\ w = "SEEK_SET" /\ ~(o < cnt * Buf + written)
    BY DEF Careful, fseek, Allows, Same
  <2>2. o \in Nat /\ cnt * Buf \in Nat /\ written \in Nat
    <3>1. BInv /\ InUse /\ Pointer
      BY DEF AInv, fseek
    <3>2. cnt * Buf \in Nat /\ written \in Nat
      BY <3>1, Using, BufPositive DEF Pointer
    <3> QED
      BY <3>2, RecordAssumption
  <2>3. o >= cnt * Buf + written
    BY ONLY <2>1, <2>2
  <2>4. ptr' = o % Buf /\ ret' = 0
    BY <2>1 DEF fseek, Same
  <2> QED
    BY <2>1, <2>3, <2>4
<1>2. /\ op = Ready /\ fopened /\ Buf \in Nat \ {0} /\ cnt \in Nat /\ cnt * Buf \in Nat
      /\ Buf * Clusters \in Nat
  BY Using DEF AInv, fseek
<1>3. o \in Nat /\ o \in 0..Buf * Clusters /\ o % Largest = 0 /\ Buf % Largest = 0
  BY <1>2 DEF Careful, Aligned
<1>4. o % Buf \in 0..Buf - 1 /\ o = (o \div Buf) * Buf + (o % Buf)
  BY <1>3, Split
<1>5. o = cnt * Buf + ptr' /\ ptr' \in 0..Buf - 1
  BY <1>1, <1>4
<1>6. Largest \in Nat \ {0}
  BY RecordLength
<1>7. ptr' % Largest = 0
  <2>1. (cnt * Buf) % Largest = 0
    BY <1>2, <1>3, <1>6, MultipleTimes
  <2>2. cnt * Buf <= o /\ o - cnt * Buf = ptr'
    <3>1. PICK m \in Nat, k \in Nat : m = cnt * Buf /\ k = ptr'
      BY <1>2, <1>5
    <3>2. o = m + k
      BY <1>5, <3>1
    <3> QED
      BY <3>1, <3>2
  <2>3. (o - cnt * Buf) % Largest = 0
    BY ONLY <1>2, <1>3, <1>6, <2>1, <2>2, Multiples
  <2> QED
    BY <2>2, <2>3
<1>8. Pointer /\ Fresh /\ Recorded /\ written \in 0..Buf
  BY DEF AInv, Pointer
<1>9. UNCHANGED <<volume, disk, dir, size, fopened, director, base, cnt, fsize, user, op, written>>
  BY DEF fseek, card
<1>10. Pointer'
  <2>1. ptr' \in 0..Buf
    BY <1>2, <1>5
  <2>2. ret' \in 0..Largest
    BY <1>1, <1>6
  <2> QED
    BY <1>7, <1>8, <1>9, <2>1, <2>2 DEF Pointer
<1>11. written <= ptr'
  <2>1. PICK m \in Nat : m = cnt * Buf
    BY <1>2
  <2>2. m + ptr' >= m + written
    <3>1. o >= cnt * Buf + written
      BY <1>1
    <3>2. o >= m + written /\ o = m + ptr'
      BY ONLY <1>5, <2>1, <3>1
    <3> QED
      BY <3>2
  <2>3. ptr' \in Int /\ written \in Int
    BY <1>2, <1>5, <1>8
  <2> QED
    BY ONLY <2>1, <2>2, <2>3
<1> QED
  BY <1>1, <1>2, <1>3, <1>5, <1>8, <1>9, <1>10, <1>11
  DEF Fresh, Loads, Crossing, Closing, Recorded, Ready, volume

\* What is saved is what the buffer holds: up to the position it is written, and
\* behind it nothing has changed.
LEMMA SavedIsBase ==
  ASSUME AInv, fopened
  PROVE  Saved = base
<1>1. /\ written <= ptr /\ Loads(written) /\ director = List /\ Buf \in Nat \ {0}
      /\ List[cnt] \in Numbers \cup {0}
  BY Opened
<1>2. Pointer /\ ptr \in Nat /\ written \in Nat
  <2>1. Pointer
    BY DEF AInv
  <2>2. ptr \in 0..Buf /\ written \in 0..Buf
    BY <2>1 DEF Pointer
  <2> QED
    BY <2>1, <2>2
<1>3. ptr <= Sector * Blocks(ptr) /\ Sector * Blocks(ptr) \in Nat
  <2>1. Sector \in Nat \ {0}
    BY BufAssumption
  <2>2. PICK q \in Nat, s \in 0..Sector - 1 :
          q = ptr \div Sector /\ s = ptr % Sector /\ ptr = q * Sector + s
    BY ONLY <1>2, <2>1, Division
  <2>3. Sector * (q + 1) = q * Sector + Sector /\ Sector * q = q * Sector /\ q * Sector \in Nat
    BY <2>1
  <2>4. CASE s # 0
    BY <2>1, <2>2, <2>3, <2>4 DEF Blocks
  <2>5. CASE s = 0
    BY <2>1, <2>2, <2>3, <2>5 DEF Blocks
  <2> QED
    BY <2>4, <2>5
<1>4. ASSUME NEW k \in 0..Buf - 1 PROVE Saved[k] = base[k]
  <2>1. CASE k < Sector * Blocks(ptr)
    BY <2>1 DEF Saved
  <2>2. CASE ~(k < Sector * Blocks(ptr))
    <3>1. k \in written..Buf - 1
      BY <1>1, <1>2, <1>3, <2>2
    <3> QED
      BY <1>1, <2>2, <3>1 DEF Saved, Loads
  <2> QED
    BY <2>1, <2>2
<1> QED
  BY <1>2, <1>4 DEF Saved, Pointer

LEMMA AWriteBack ==
  ASSUME AInv, Aligned, NEW k \in {"close", "flush"}, WriteBack(k, ftell, 0)
  PROVE  Pointer' /\ Fresh' /\ Crossing' /\ Closing' /\ Recorded'
<1>1. /\ Volume /\ director = List /\ fopened /\ DOMAIN disk = Numbers \cup {0}
      /\ List[cnt] \in Numbers \cup {0} /\ Saved = base
  BY Opened, SavedIsBase DEF WriteBack, InUse
<1>2. Pointer /\ Fresh /\ Recorded /\ Buf \in Nat \ {0}
  BY BufPositive DEF AInv
<1>3. /\ size' = ftell /\ disk' = [disk EXCEPT ![List[cnt]] = base]
      /\ op' = [Ready EXCEPT !.kind = k, !.next = 0]
      /\ UNCHANGED <<entry, dir, fopened, director, base, ptr, cnt, fsize, user, ret, written>>
  BY <1>1 DEF WriteBack, volume, stream
<1>4. disk'[List[cnt]] = base
  BY <1>1, <1>3
<1>5. \A c \in Numbers \cup {0} : disk'[c] = [i \in 0..Buf - 1 |-> disk'[c][i]]
  BY <1>1, <1>2, <1>3 DEF Pointer
<1>6. Pointer'
  BY <1>2, <1>3, <1>5 DEF Pointer
<1>7. Fresh' /\ Loads(0)'
  BY <1>1, <1>2, <1>3, <1>4 DEF Fresh, Loads
<1>8. op'.kind = k
  BY <1>3 DEF Ready
<1>9. Closing'
  BY <1>3, <1>7 DEF Closing, ftell
<1>10. Crossing' /\ Recorded'
  BY <1>1, <1>2, <1>3, <1>8 DEF Crossing, Recorded
<1> QED
  BY <1>6, <1>7, <1>9, <1>10

LEMMA AsWriteBack ==
  ASSUME AInv, Careful, FirstRecord, fclose \/ fflush
  PROVE  \E k \in {"close", "flush"} : WriteBack(k, ftell, 0)
<1>1. CASE fclose
  <2>1. entry = 0 /\ phy_block \in Nat \ {0}
    BY PhyBlock DEF FirstRecord, AInv, BInv, Kept, Volume
  <2>2. entry \div phy_block = 0
    BY <2>1
  <2> QED
    BY <1>1, <2>2 DEF fclose
<1>2. CASE fflush
  <2>1. InUse /\ BInv /\ ptr >= 0
    BY <1>2 DEF fflush, WriteBack, AInv
  <2>2. Buf \in Nat \ {0} /\ ptr \in Nat /\ ptr <= Buf /\ cnt \in Nat
    BY <2>1, Using
  <2>3. ~(cnt > 0) /\ ptr # Buf
    BY <1>2 DEF Careful, fflush, Allows
  <2>4. ptr < Buf
    BY <2>2, <2>3
  <2>5. cnt = 0
    BY <2>2, <2>3
  <2>6. ptr \div Buf = 0 /\ ptr = ftell
    <3>1. 0 * Buf = 0
      BY <2>2
    <3> QED
      BY <2>2, <2>4, <2>5, <3>1 DEF ftell
  <2> QED
    BY <1>2, <2>6 DEF fflush
<1> QED
  BY <1>1, <1>2

LEMMA AWriteDir ==
  ASSUME AInv, Aligned, FirstRecord, WriteDir
  PROVE  Pointer' /\ Fresh' /\ Crossing' /\ Closing' /\ Recorded'
<1>1. /\ fopened /\ op.next = 0 /\ DirClusters \in Nat \ {0} /\ 0 * phy_block = 0
      /\ entry = 0 /\ 0 \in DOMAIN dir
  <2>1. /\ op # Ready /\ op.next = 0 /\ fopened /\ DirClusters \in Nat \ {0}
        /\ phy_block \in Nat \ {0} /\ entry = 0
    BY BufAssumption, PhyBlock DEF AInv, BInv, Kept, Placed, WriteDir, Ready, Volume, FirstRecord
  <2>2. \A a, b \in Nat \ {0} : a * b \in Nat \ {0}
    OBVIOUS
  <2>3. DirClusters * phy_block \in Nat \ {0}
    BY <2>1, <2>2
  <2> QED
    BY <2>1, <2>3 DEF AInv, BInv, Kept, Stored
<1>2. /\ dir' = [dir EXCEPT ![0] = DirBlock(0, size)] /\ entry' = 0 /\ ~fopened' /\ op' = Ready
      /\ written' = 0 /\ base' = Cluster(0) /\ ret' = 0
      /\ UNCHANGED <<disk, size, ptr, cnt, user>>
  BY <1>1 DEF WriteDir, Freed, volume, stream
<1>3. Recorded'
  BY <1>1, <1>2 DEF Recorded, DirBlock
<1>4. base' = [k \in 0..Buf - 1 |-> base'[k]] /\ written' \in 0..Buf /\ ret' \in 0..Largest
  BY <1>2, BufPositive, RecordLength DEF Cluster
<1>5. Pointer'
  BY <1>2, <1>4 DEF AInv, Pointer
<1> QED
  BY <1>2, <1>3, <1>5 DEF Fresh, Crossing, Closing, Ready

LEMMA ARestart ==
  ASSUME AInv, Aligned, Restart
  PROVE  Pointer' /\ Fresh' /\ Crossing' /\ Closing' /\ Recorded'
<1>1. /\ size' = dir[entry].size /\ ~fopened' /\ op' = Ready /\ ptr' = 0 /\ cnt' = 0
      /\ user' = Zeros /\ ret' = 0 /\ written' = 0 /\ base' = Cluster(0)
      /\ UNCHANGED <<entry, disk, dir>>
  BY DEF Restart, Freed, volume, card
<1>2. Largest \in Nat \ {0} /\ Buf \in Nat \ {0} /\ Clusters \in Nat \ {0}
  BY RecordLength, BufPositive, ChainAssumption
<1>3. /\ ptr' \in 0..Buf /\ ptr' % Largest = 0 /\ cnt' \in 0..Clusters
      /\ written' \in 0..Buf /\ ret' \in 0..Largest
  BY <1>1, <1>2
<1>4. base' = [k \in 0..Buf - 1 |-> base'[k]] /\ user' = [k \in 1..Largest |-> user'[k]]
  BY <1>1 DEF Cluster, Zeros
<1>5. Pointer'
  BY <1>1, <1>3, <1>4 DEF AInv, Pointer
<1> QED
  BY <1>1, <1>5 DEF Fresh, Crossing, Closing, Recorded, Ready

\* The next state of every action, whose parts are kept.
LEMMA AStep ==
  ASSUME AInv, Careful, Aligned, FirstRecord, [Next]_vars
  PROVE  AInv'
<1>1. BInv'
  <2>1. InFirstCluster
    BY PhyBlock DEF FirstRecord, InFirstCluster
  <2> QED
    BY <2>1, BStep DEF AInv
<1>2. CASE fopen
  BY <1>1, <1>2, AOpen DEF AInv
<1>3. ASSUME NEW r \in Records, fread(r) \/ fwrite(r) PROVE AInv'
  BY <1>1, <1>3, ARead, AWrite DEF AInv
<1>4. CASE LoadBuffer \/ FinishRead \/ FinishWrite
  BY <1>1, <1>4, ALoad, AFinishRead, AFinishWrite DEF AInv
<1>5. ASSUME NEW o \in Offsets, NEW w, fseek(o, w) PROVE AInv'
  BY <1>1, <1>5, ASeek DEF AInv
<1>6. CASE fclose \/ fflush
  BY <1>1, <1>6, AsWriteBack, AWriteBack DEF AInv
<1>7. CASE WriteDir \/ Restart
  BY <1>1, <1>7, AWriteDir, ARestart DEF AInv
<1>9. CASE Astray
  <2>1. /\ UNCHANGED <<entry, disk, dir, size, fopened, director, base, ptr, cnt, fsize,
                       user, ret, written>>
        /\ op'.kind = "hang"
    BY <1>9 DEF Astray, volume, card, stream, Ready
  <2> QED
    BY <1>1, <2>1 DEF AInv, Pointer, Fresh, Loads, Crossing, Closing, Recorded
<1>8. CASE UNCHANGED vars
  <2>1. UNCHANGED <<entry, disk, dir, size, fopened, director, base, ptr, cnt, fsize,
                    user, ret, op, written>>
    BY <1>8 DEF vars, volume, card, stream
  <2> QED
    BY <1>1, <2>1 DEF AInv, Pointer, Fresh, Loads, Crossing, Closing, Recorded, ftell
<1> QED
  BY <1>2, <1>3, <1>4, <1>5, <1>6, <1>7, <1>8, <1>9 DEF Next

LEMMA ATypes ==
  ASSUME AInv
  PROVE  StreamTypeOK
<1>1. Volume /\ Numeric /\ Stored /\ Placed /\ Pointer
  BY DEF AInv, BInv, Kept
<1>2. first \in Numbers /\ \A c \in Numbers : fat[c] \in Numbers \cup {EndMark}
  <2>1. PICK s \in Chains : InFat(s)
    BY <1>1 DEF Volume
  <2>2. ASSUME NEW c \in Numbers PROVE fat[c] \in Numbers \cup {EndMark}
    <3>1. CASE \E i \in 1..Clusters - 1 : s[i] = c
      <4>1. PICK i \in 1..Clusters - 1 : fat[c] = s[1 + i]
        BY <2>1, <3>1 DEF InFat
      <4>2. 1 + i \in 1..Clusters
        BY ChainAssumption
      <4> QED
        BY <4>1, <4>2, ClustersOf
    <3>2. CASE ~ \E i \in 1..Clusters - 1 : s[i] = c
      BY <2>1, <3>2 DEF InFat
    <3> QED
      BY <3>1, <3>2
  <2> QED
    BY <1>1, <2>2, ListHoldsMine
<1>3. \A c \in Numbers : DOMAIN disk[c] = 0..Buf - 1
  BY <1>1 DEF Pointer
<1>4. \A b \in DOMAIN dir : dir[b].size \in 0..Buf * Clusters
  BY <1>1 DEF Stored, Lengths
<1>5. DOMAIN base = 0..Buf - 1 /\ DOMAIN user = 1..Largest
  BY <1>1 DEF Pointer
<1>6. cut \in BOOLEAN
  BY DEF AInv, BInv, Away
<1> QED
  BY <1>1, <1>2, <1>3, <1>4, <1>5, <1>6 DEF StreamTypeOK, Numeric, Placed, Pointer, Lengths

\* Types of a stream whose records are aligned; in particular the lower half of the
\* pointer, which is what ftell, fclose and the tests for the end of the file use,
\* never leaves the buffer.
THEOREM StreamTypesHold ==
  ASSUME Careful, Aligned, FirstRecord
  PROVE  Spec => []StreamTypeOK
<1>1. Init => AInv
  BY AInit
<1>2. AInv /\ [Next]_vars => AInv'
  BY AStep
<1>3. AInv => StreamTypeOK
  BY ATypes
<1> QED
  BY <1>1, <1>2, <1>3, PTL DEF Spec

-----------------------------------------------------------------------------
(* Step by step.                                                           *)

Held == [p \in 0..Buf * Clusters - 1 |->
           IF fopened /\ p \div Buf = cnt THEN base[p % Buf] ELSE OnCard(p)]
OnDisk == [p \in 0..Buf * Clusters - 1 |-> OnCard(p)]
SizeNow == IF fopened THEN fsize ELSE size
abstract == <<Held, OnDisk, SizeNow, fopened, ftell, user, ret>>

LEMMA Stutters ==
  ASSUME UNCHANGED abstract
  PROVE  UNCHANGED B!vars
BY DEF abstract, Held, OnDisk, SizeNow, B!vars

LEMMA Opens ==
  ASSUME ~fopened, fopened', ftell' = 0, UNCHANGED <<Held, OnDisk, SizeNow, user, ret>>
  PROVE  B!Next(Data)
BY DEF Held, OnDisk, SizeNow, B!Open, B!Next

LEMMA ReadsAtEnd ==
  ASSUME fopened, ftell = SizeNow, ret' = 0,
         UNCHANGED <<Held, OnDisk, SizeNow, fopened, ftell, user>>
  PROVE  B!Next(Data)
BY DEF Held, OnDisk, SizeNow, B!ReadAtEnd, B!Next

LEMMA Reads ==
  ASSUME NEW r \in Records, fopened, ftell < SizeNow, ftell' = ftell + Amount(r), ret' = r[2],
         \A k \in DOMAIN user : user'[k] = IF k <= Amount(r) THEN Held[ftell + k - 1] ELSE user[k],
         UNCHANGED <<Held, OnDisk, SizeNow, fopened>>
  PROVE  B!Next(Data)
<1>1. B!Read(r)
  BY DEF Held, OnDisk, SizeNow, Amount, B!Amount, B!Read
<1> QED
  BY <1>1 DEF B!Next

LEMMA Writes ==
  ASSUME NEW r \in Records, fopened, ftell' = ftell + Amount(r), ret' = r[2],
         Held' = [p \in 0..Buf * Clusters - 1 |->
                    IF p \in ftell..ftell' - 1 THEN Data(r)[p - ftell + 1] ELSE Held[p]],
         UNCHANGED <<OnDisk, SizeNow, fopened, user>>
  PROVE  B!Next(Data)
<1>1. B!Write(r, Data(r))
  BY DEF Held, OnDisk, SizeNow, Amount, B!Amount, B!Places, B!Write
<1> QED
  BY <1>1 DEF B!Next

LEMMA Seeks ==
  ASSUME fopened, ftell' \in 0..Buf * Clusters, ret' = 0,
         UNCHANGED <<Held, OnDisk, SizeNow, fopened, user>>
  PROVE  B!Next(Data)
<1>1. B!Seek(ftell')
  BY DEF Held, OnDisk, SizeNow, B!Seek
<1> QED
  BY <1>1 DEF B!Next

LEMMA Saves ==
  ASSUME fopened, OnDisk' = Held, UNCHANGED <<Held, SizeNow, fopened, ftell, user, ret>>
  PROVE  B!Next(Data)
BY DEF Held, OnDisk, SizeNow, B!Save, B!Next

LEMMA Closes ==
  ASSUME fopened, OnDisk = Held, ~fopened', SizeNow' = ftell, ret' = 0,
         UNCHANGED <<Held, OnDisk, ftell, user>>
  PROVE  B!Next(Data)
BY DEF Held, OnDisk, SizeNow, B!Close, B!Next

LEMMA LosesPower ==
  ASSUME ~fopened', Held' = OnDisk, UNCHANGED <<OnDisk, SizeNow>>
  PROVE  B!Next(Data)
BY DEF Held, OnDisk, SizeNow, B!PowerFails, B!Next

LEMMA SameOnDisk ==
  ASSUME Volume, UNCHANGED volume, UNCHANGED disk
  PROVE  OnDisk' = OnDisk /\ (\A p : OnCard(p)' = OnCard(p))
BY SameVolume DEF OnDisk, OnCard

LEMMA SameHeld ==
  ASSUME Volume, UNCHANGED volume, UNCHANGED <<disk, fopened, base, cnt>>
  PROVE  Held' = Held
BY SameOnDisk DEF Held

\* A place in the buffer is a place in the file.
LEMMA HeldAt ==
  ASSUME fopened, NEW c \in 0..Clusters - 1, c = cnt, NEW k \in 0..Buf - 1
  PROVE  /\ c * Buf + k \in 0..Buf * Clusters - 1 /\ Held[c * Buf + k] = base[k]
         /\ (c * Buf + k) \div Buf = c /\ (c * Buf + k) % Buf = k
<1>1. /\ Buf \in Nat \ {0} /\ Clusters \in Nat \ {0} /\ Buf * Clusters \in Nat
      /\ Buf * Clusters = Clusters * Buf
  BY BufPositive, ChainAssumption, LengthType
<1>2. (c * Buf + k) \div Buf = c /\ (c * Buf + k) % Buf = k
  BY ONLY <1>1, SplitOnce, c \in 0..Clusters - 1, k \in 0..Buf - 1
<1>3. c * Buf + k \in 0..Buf * Clusters - 1
  <2>1. (c + 1) * Buf <= Clusters * Buf /\ (c + 1) * Buf = c * Buf + Buf
    BY <1>1, Monotone, Product
  <2>2. \A a, b \in Nat : a * b \in Nat
    OBVIOUS
  <2>3. PICK m \in Nat : m = c * Buf
    BY <1>1, <2>2
  <2>4. m + Buf <= Buf * Clusters
    BY <1>1, <2>1, <2>3
  <2> QED
    BY <1>1, <2>3, <2>4
<1> QED
  BY <1>2, <1>3 DEF Held

LEMMA ROpen ==
  ASSUME AInv, fopen
  PROVE  B!Next(Data)
<1>1. Volume /\ UNCHANGED volume /\ UNCHANGED <<disk, user, ret>>
  BY DEF AInv, BInv, Kept, fopen, card
<1>2. ~fopened /\ fopened' /\ base' = disk[first] /\ cnt' = 0 /\ ptr' = 0 /\ fsize' = size
  BY DEF fopen
<1>3. ftell' = 0
  BY <1>2, BufPositive DEF ftell
<1>4. OnDisk' = OnDisk /\ (\A p : OnCard(p)' = OnCard(p))
  BY <1>1, SameOnDisk
<1>5. Held' = Held
  <2>1. ASSUME NEW p \in 0..Buf * Clusters - 1, p \div Buf = 0 PROVE base'[p % Buf] = OnCard(p)
    <3>1. Chain[0] = first
      BY <1>1, ListHoldsMine
    <3> QED
      BY <1>2, <2>1, <3>1 DEF OnCard
  <2> QED
    BY <1>2, <1>4, <2>1 DEF Held
<1> QED
  BY <1>1, <1>2, <1>3, <1>4, <1>5, Opens DEF SizeNow

\* Reading a whole record at a place of the buffer.
LEMMA RReadRecord ==
  ASSUME AInv, Aligned, fopened, NEW r \in Records, cnt < Clusters, ptr + Largest <= Buf,
         ftell < fsize, ptr' = ptr + Largest, ret' = r[2],
         user' = Patch(user, 0, Bytes(ptr, Largest)),
         UNCHANGED <<volume, disk, size, fopened, base, cnt, fsize>>
  PROVE  B!Next(Data)
<1>1. /\ Volume /\ cnt \in Nat /\ cnt \in 0..Clusters - 1 /\ cnt * Buf \in Nat /\ Buf \in Nat \ {0}
  BY Opened
<1>2. Largest \in Nat \ {0} /\ Amount(r) = Largest /\ ptr \in Nat
      /\ user = [k \in 1..Largest |-> user[k]]
  BY <1>1, RecordLength DEF AInv, Pointer, Aligned
<1>3. OnDisk' = OnDisk /\ Held' = Held
  BY <1>1, SameOnDisk, SameHeld
<1>4. ftell' = ftell + Amount(r)
  BY <1>1, <1>2 DEF ftell
<1>5. ASSUME NEW k \in DOMAIN user
      PROVE  user'[k] = IF k <= Amount(r) THEN Held[ftell + k - 1] ELSE user[k]
  <2>1. k \in 1..Largest
    BY <1>2
  <2>2. ptr + k - 1 \in 0..Buf - 1
    BY <1>1, <1>2, <2>1
  <2>3. Held[cnt * Buf + (ptr + k - 1)] = base[ptr + k - 1]
    BY <1>1, <2>2, HeldAt
  <2>4. ftell + k - 1 = cnt * Buf + (ptr + k - 1)
    BY <1>1, <1>2, <2>1 DEF ftell
  <2>5. user'[k] = Bytes(ptr, Largest)[k]
    BY <1>2, <2>1 DEF Patch, Bytes
  <2> QED
    BY <1>2, <2>1, <2>3, <2>4, <2>5 DEF Bytes
<1> QED
  BY <1>3, <1>4, <1>5, Reads DEF SizeNow

LEMMA RRead ==
  ASSUME AInv, Careful, Aligned, NEW r \in Records, fread(r)
  PROVE  B!Next(Data) \/ UNCHANGED B!vars
<1>1. /\ Largest \in Nat \ {0} /\ Largest <= Buf /\ Amount(r) = Largest
      /\ r[1] \in Nat \ {0} /\ r[2] \in 0..Largest
      /\ IF Over(Amount(r)) THEN ptr = Buf /\ First(r) = 0
         ELSE ptr + Largest \in 0..Buf /\ (ptr + Largest) % Largest = 0 /\ First(r) = Largest
  BY InPlace DEF fread
<1>2. /\ op = Ready /\ fopened /\ Buf \in Nat \ {0} /\ ptr \in Nat /\ ptr <= Buf /\ cnt \in Nat
      /\ cnt * Buf \in Nat /\ ftell \in Nat /\ fsize \in Nat /\ fsize <= Buf * Clusters
      /\ Buf * Clusters \in Nat /\ Volume
  BY Using DEF AInv, fread
<1>3. UNCHANGED <<volume, disk, size, fopened, base, cnt, fsize>>
  BY DEF fread, card
<1>4. ftell <= fsize
  BY <1>2 DEF Careful, fread, Allows
<1>5. OnDisk' = OnDisk /\ Held' = Held /\ SizeNow' = SizeNow /\ SizeNow = fsize
  BY <1>2, <1>3, SameOnDisk, SameHeld DEF SizeNow
<1>6. CASE Over(Amount(r))
  <2>1. ptr' = ptr /\ ret' = ret /\ user' = Patch(user, 0, Bytes(ptr, 0))
    BY <1>1, <1>6 DEF fread, Start
  <2>2. user' = user
    <3>1. user = [k \in 1..Largest |-> user[k]]
      BY DEF AInv, Pointer
    <3> QED
      BY <2>1, <3>1 DEF Patch, Bytes
  <2> QED
    BY <1>3, <1>5, <2>1, <2>2, Stutters DEF abstract, ftell
<1>7. CASE ~Over(Amount(r)) /\ EndOfFile
  <2>1. ftell = fsize
    BY <1>2, <1>4, <1>7 DEF EndOfFile
  <2>2. ToEnd = ptr /\ ToEnd - ptr = 0
    BY <1>2, <2>1 DEF ToEnd, ftell
  <2>3. ret' = 0 /\ ptr' = ptr /\ user' = user
    BY <1>1, <1>7, <2>2, DivZero DEF fread, ReadHere
  <2> QED
    BY <1>2, <1>3, <1>5, <2>1, <2>3, ReadsAtEnd DEF ftell
<1>8. CASE ~Over(Amount(r)) /\ ~EndOfFile
  <2>1. ftell < fsize
    BY <1>2, <1>8 DEF EndOfFile
  <2>2. ret' = r[2] /\ ptr' = ptr + Largest /\ user' = Patch(user, 0, Bytes(ptr, Largest))
    BY <1>1, <1>8 DEF fread, ReadHere
  <2>3. cnt < Clusters
    <3>1. ptr + cnt * Buf <= Buf * Clusters /\ ptr + cnt * Buf # Buf * Clusters
      BY <1>2, <2>1 DEF ftell
    <3>2. cnt < Clusters \/ (cnt = Clusters /\ ptr = 0)
      BY <1>2, <3>1, AtTheEnd
    <3> QED
      BY <1>2, <3>1, <3>2, LengthType
  <2>4. ptr + Largest <= Buf
    BY <1>1, <1>2, <1>8
  <2> QED
    BY <1>2, <1>3, <2>1, <2>2, <2>3, <2>4, RReadRecord
<1> QED
  BY <1>6, <1>7, <1>8

LEMMA Inside ==
  ASSUME NEW m \in Nat, NEW t \in Nat, NEW L \in Nat, NEW b \in Nat, NEW f, NEW g,
         f = m + t, g = f + L, t + L <= b, NEW p \in f..g - 1
  PROVE  p - m \in 0..b - 1 /\ p = m + (p - m)
OBVIOUS

\* Writing a whole record at a place of the buffer.
LEMMA RWriteRecord ==
  ASSUME AInv, Aligned, fopened, NEW r \in Records, cnt < Clusters, ptr + Largest <= Buf,
         ptr' = ptr + Largest, ret' = r[2],
         base' = Patch(base, ptr - 1, SubSeq(Data(r), 1, Largest)),
         UNCHANGED <<volume, disk, size, fopened, cnt, fsize, user>>
  PROVE  B!Next(Data)
<1>1. /\ Volume /\ cnt \in Nat /\ cnt \in 0..Clusters - 1 /\ cnt * Buf \in Nat /\ Buf \in Nat \ {0}
  BY Opened
<1>2. Largest \in Nat \ {0} /\ Amount(r) = Largest /\ ptr \in Nat
      /\ base = [k \in 0..Buf - 1 |-> base[k]]
  BY <1>1, RecordLength DEF AInv, Pointer, Aligned
<1>3. OnDisk' = OnDisk /\ (\A p : OnCard(p)' = OnCard(p))
  BY <1>1, SameOnDisk
<1>4. ftell' = ftell + Largest /\ ftell = cnt * Buf + ptr /\ ftell \in Nat
  BY <1>1, <1>2 DEF ftell
<1>5. SubSeq(Data(r), 1, Largest) = [k \in 1..Largest |-> NewByte(k)]
      /\ Data(r) = [k \in 1..Largest |-> NewByte(k)]
  BY <1>2, DataOf
<1>6. ASSUME NEW p \in 0..Buf * Clusters - 1
      PROVE  Held'[p] = IF p \in ftell..ftell' - 1 THEN Data(r)[p - ftell + 1] ELSE Held[p]
  <2>1. p \div Buf \in Nat /\ p % Buf \in 0..Buf - 1 /\ p = (p \div Buf) * Buf + (p % Buf)
    BY <1>1, Places
  <2>2. CASE p \div Buf = cnt
    <3>1. PICK k \in 0..Buf - 1 : k = p % Buf /\ p = cnt * Buf + k
      BY <2>1, <2>2
    <3>2. Held'[p] = base'[k] /\ Held[p] = base[k]
      BY <1>1, <2>2, <3>1 DEF Held
    <3>3. p - ftell + 1 = k - (ptr - 1) /\ (p \in ftell..ftell' - 1 <=> k - (ptr - 1) \in 1..Largest)
      <4>1. PICK m \in Nat, t \in Nat, L \in Nat :
              m = cnt * Buf /\ t = ptr /\ L = Largest /\ ftell = m + t /\ ftell' = m + t + L
        BY <1>1, <1>2, <1>4
      <4>2. p = m + k /\ k \in Nat
        BY <1>1, <3>1, <4>1
      <4>3. (m + k) - (m + t) + 1 = k - (t - 1)
            /\ (m + k \in m + t..m + t + L - 1 <=> k - (t - 1) \in 1..L)
        BY ONLY <4>2
      <4> QED
        BY <4>1, <4>2, <4>3
    <3>4. base'[k] = IF k - (ptr - 1) \in 1..Largest THEN NewByte(k - (ptr - 1)) ELSE base[k]
      BY <1>2, <1>5 DEF Patch
    <3> QED
      BY <1>5, <3>2, <3>3, <3>4
  <2>3. CASE p \div Buf # cnt
    <3>1. p \notin ftell..ftell' - 1
      <4> SUFFICES ASSUME p \in ftell..ftell' - 1 PROVE FALSE
        OBVIOUS
      <4>1. PICK k \in 0..Buf - 1 : p = cnt * Buf + k
        <5>1. PICK m \in Nat, f \in Nat, g \in Nat :
                m = cnt * Buf /\ f = ftell /\ g = ftell' /\ f = m + ptr /\ g = f + Largest
          BY <1>1, <1>2, <1>4, SMTT(30)
        <5>2. p \in f..g - 1
          BY <5>1
        <5>3. p - m \in 0..Buf - 1 /\ p = m + (p - m)
          BY ONLY <1>1, <1>2, <5>1, <5>2, ptr + Largest <= Buf, Inside, SMTT(30)
        <5> QED
          BY <5>1, <5>3
      <4>2. p \div Buf = cnt
        BY ONLY <1>1, <4>1, SplitOnce
      <4> QED
        BY <2>3, <4>2
    <3>2. Held'[p] = OnCard(p) /\ Held[p] = OnCard(p)
      BY <1>3, <2>3 DEF Held
    <3> QED
      BY <3>1, <3>2
  <2> QED
    BY <2>2, <2>3
<1>7. Held' = [p \in 0..Buf * Clusters - 1 |->
                 IF p \in ftell..ftell' - 1 THEN Data(r)[p - ftell + 1] ELSE Held[p]]
  BY <1>6 DEF Held
<1> QED
  BY <1>2, <1>3, <1>4, <1>7, Writes DEF SizeNow

LEMMA RWrite ==
  ASSUME AInv, Careful, Aligned, NEW r \in Records, fwrite(r)
  PROVE  B!Next(Data) \/ UNCHANGED B!vars
<1>1. /\ Largest \in Nat \ {0} /\ Largest <= Buf /\ Amount(r) = Largest
      /\ IF Over(Amount(r)) THEN ptr = Buf /\ First(r) = 0
         ELSE ptr + Largest \in 0..Buf /\ (ptr + Largest) % Largest = 0 /\ First(r) = Largest
  BY InPlace DEF fwrite
<1>2. /\ op = Ready /\ fopened /\ Buf \in Nat \ {0} /\ ptr \in Nat /\ ptr <= Buf /\ cnt \in Nat
      /\ cnt * Buf \in Nat /\ ftell \in Nat /\ Buf * Clusters \in Nat /\ Volume
  BY Using DEF AInv, fwrite
<1>3. UNCHANGED <<volume, disk, size, fopened, cnt, fsize, user>>
  BY DEF fwrite, card
<1>4. CASE Over(Amount(r))
  <2>1. ptr' = ptr /\ ret' = ret /\ base' = Patch(base, ptr - 1, SubSeq(Data(r), 1, 0))
    BY <1>1, <1>4 DEF fwrite, Start
  <2>2. base' = base
    <3>1. DOMAIN SubSeq(Data(r), 1, 0) = {}
      BY <1>1, DataOf
    <3>2. base = [k \in 0..Buf - 1 |-> base[k]]
      BY DEF AInv, Pointer
    <3> QED
      BY <2>1, <3>1, <3>2 DEF Patch
  <2>3. OnDisk' = OnDisk /\ Held' = Held
    BY <1>2, <1>3, <2>2, SameOnDisk, SameHeld
  <2> QED
    BY <1>3, <2>1, <2>3, Stutters DEF abstract, ftell, SizeNow
<1>5. CASE ~Over(Amount(r))
  <2>1. /\ ret' = r[2] /\ ptr' = ptr + Largest
        /\ base' = Patch(base, ptr - 1, SubSeq(Data(r), 1, Largest))
    BY <1>1, <1>5 DEF fwrite
  <2>2. cnt < Clusters
    <3>1. ftell + Largest <= Buf * Clusters
      BY <1>1, <1>2, LengthType DEF Careful, fwrite, Allows
    <3>2. ptr + Largest + cnt * Buf <= Buf * Clusters /\ ptr + Largest \in Nat /\ ptr + Largest # 0
      BY <1>1, <1>2, <3>1 DEF ftell
    <3> QED
      BY <1>2, <3>2, AtTheEnd
  <2>3. ptr + Largest <= Buf
    BY <1>1, <1>2, <1>5
  <2> QED
    BY <1>2, <1>3, <2>1, <2>2, <2>3, RWriteRecord
<1> QED
  BY <1>4, <1>5

LEMMA RLoad ==
  ASSUME AInv, LoadBuffer
  PROVE  UNCHANGED B!vars
<1>1. op # Ready /\ op.kind \in {"read", "write"} /\ cnt # op.next
  BY DEF LoadBuffer, Ready
<1>2. fopened /\ cnt + 1 = op.next /\ op.next <= Clusters /\ written = 0 /\ ptr = Buf
  BY <1>1 DEF AInv, BInv, Kept, Placed, Crossing
<1>3. /\ Volume /\ director = List /\ cnt \in Nat /\ Clusters \in Nat \ {0} /\ Buf \in Nat \ {0}
      /\ Loads(0) /\ cnt * Buf \in Nat
  BY <1>2, Opened
<1>4. /\ base' = disk[List[cnt + 1]] /\ ptr' = 0 /\ cnt' = cnt + 1
      /\ UNCHANGED volume /\ UNCHANGED <<disk, size, fopened, fsize, user, ret>>
  BY <1>3 DEF LoadBuffer, Loaded, card
<1>5. OnDisk' = OnDisk /\ (\A p : OnCard(p)' = OnCard(p))
  BY <1>3, <1>4, SameOnDisk
<1>6. ASSUME NEW p \in 0..Buf * Clusters - 1
      PROVE  /\ p \div Buf = cnt => base[p % Buf] = OnCard(p)
             /\ p \div Buf = cnt + 1 => base'[p % Buf] = OnCard(p)
  <2>1. p % Buf \in 0..Buf - 1 /\ Chain[p \div Buf] = List[p \div Buf]
    BY <1>3, Places
  <2> QED
    BY <1>3, <1>4, <2>1 DEF OnCard, Loads
<1>7. Held' = Held
  BY <1>2, <1>4, <1>5, <1>6 DEF Held
<1>8. ftell' = ftell
  <2>1. (cnt + 1) * Buf = cnt * Buf + Buf
    BY <1>3, Product
  <2> QED
    BY <1>2, <1>3, <1>4, <2>1 DEF ftell
<1> QED
  BY <1>4, <1>5, <1>7, <1>8, Stutters DEF abstract, SizeNow

LEMMA RFinishRead ==
  ASSUME AInv, Aligned, FinishRead
  PROVE  B!Next(Data)
<1>1. /\ op.rec \in Records /\ Rest = Largest /\ ptr = 0
      /\ op.rec[1] \in Nat \ {0} /\ op.ret = 0 /\ Rest \div op.rec[1] = op.rec[2] /\ fopened
      /\ Largest \in Nat \ {0} /\ Largest <= Buf
      /\ cnt \in 0..Clusters /\ cnt * Buf \in Nat /\ cnt * Buf <= fsize
  BY WaitingWhole DEF FinishRead
<1>2. Volume /\ fsize \in Nat /\ fsize <= Buf * Clusters /\ Buf * Clusters \in Nat /\ cnt \in Nat
  BY Waiting DEF AInv, BInv, Kept, FinishRead
<1>3. UNCHANGED <<volume, disk, size, fopened, base, cnt, fsize>>
  BY DEF FinishRead, card
<1>4. ftell = cnt * Buf
  BY <1>1 DEF ftell
<1>5. CASE EndOfFile
  <2>1. fsize = cnt * Buf
    BY <1>1, <1>2, <1>4, <1>5 DEF EndOfFile
  <2>2. ToEnd = 0 /\ op.ret + (ToEnd - ptr) = 0
    BY <1>1, <2>1 DEF ToEnd
  <2>3. ptr' = ptr /\ ret' = 0 /\ user' = user
    BY <1>1, <1>5, <2>2, DivZero DEF FinishRead
  <2>4. OnDisk' = OnDisk /\ Held' = Held
    BY <1>2, <1>3, SameOnDisk, SameHeld
  <2> QED
    BY <1>1, <1>3, <1>4, <2>1, <2>3, <2>4, ReadsAtEnd DEF SizeNow, ftell
<1>6. CASE ~EndOfFile
  <2>1. cnt * Buf < fsize
    BY <1>1, <1>2, <1>4, <1>6 DEF EndOfFile
  <2>2. cnt < Clusters
    <3>1. 0 + cnt * Buf <= Buf * Clusters /\ cnt * Buf # Buf * Clusters
      BY <1>1, <1>2, <2>1
    <3>2. cnt < Clusters \/ cnt = Clusters
      BY <1>2, <3>1, AtTheEnd
    <3> QED
      BY <3>1, <3>2, LengthType
  <2>3. /\ ptr' = ptr + Largest /\ ret' = op.rec[2]
        /\ user' = Patch(user, 0, Bytes(ptr, Largest))
    BY <1>1, <1>6 DEF FinishRead
  <2>4. ptr + Largest <= Buf /\ ftell < fsize
    BY <1>1, <1>4, <2>1
  <2> QED
    BY <1>1, <1>3, <2>2, <2>3, <2>4, RReadRecord
<1> QED
  BY <1>5, <1>6

LEMMA RFinishWrite ==
  ASSUME AInv, Aligned, FinishWrite
  PROVE  B!Next(Data)
<1>1. /\ op.rec \in Records /\ Rest = Largest /\ ptr = 0 /\ op.cur = 0
      /\ Rest \div op.rec[1] = op.rec[2] /\ fopened
      /\ Largest \in Nat \ {0} /\ Largest <= Buf /\ op.kind = "write" /\ cnt = op.next
  BY WaitingWhole DEF FinishWrite, Waits
<1>2. cnt < Clusters
  BY <1>1 DEF AInv, BInv, Kept, Placed
<1>3. /\ ptr' = ptr + Largest /\ ret' = op.rec[2]
      /\ base' = Patch(base, ptr - 1, SubSeq(Data(op.rec), 1, Largest))
      /\ UNCHANGED <<volume, disk, size, fopened, cnt, fsize, user>>
  <2>1. Rest + op.cur = Rest
    BY <1>1
  <2> QED
    BY <1>1, <2>1 DEF FinishWrite, card
<1>4. ptr + Largest <= Buf
  BY <1>1
<1> QED
  BY <1>1, <1>2, <1>3, <1>4, RWriteRecord

LEMMA RSeek ==
  ASSUME AInv, Careful, Aligned, NEW o \in Offsets, NEW w, fseek(o, w)
  PROVE  B!Next(Data)
<1>1. ret' = 0 /\ o = cnt * Buf + ptr' /\ o \in 0..Buf * Clusters
  BY ASeek
<1>2. /\ fopened /\ Volume /\ cnt * Buf \in Nat /\ cnt' = cnt
      /\ UNCHANGED volume /\ UNCHANGED <<disk, size, fopened, base, cnt, fsize, user>>
  BY Using DEF AInv, BInv, Kept, fseek, InUse, card
<1>3. ftell' = o
  <2>1. ptr' \in Int
    BY ASeek DEF Pointer
  <2> QED
    BY <1>1, <1>2, <2>1 DEF ftell
<1>4. OnDisk' = OnDisk /\ Held' = Held
  BY <1>2, SameOnDisk, SameHeld
<1> QED
  BY <1>1, <1>2, <1>3, <1>4, Seeks DEF SizeNow

\* Closing and flushing first save what the stream holds.
LEMMA RSave ==
  ASSUME AInv, Careful, FirstRecord, fclose \/ fflush
  PROVE  B!Next(Data)
<1>1. PICK k \in {"close", "flush"} : WriteBack(k, ftell, 0)
  BY AsWriteBack
<1>2. /\ Volume /\ director = List /\ fopened /\ DOMAIN disk = Numbers \cup {0}
      /\ cnt \in 0..Clusters /\ Clusters \in Nat \ {0} /\ Saved = base
  BY <1>1, Opened, SavedIsBase DEF WriteBack, InUse
<1>3. /\ disk' = [disk EXCEPT ![List[cnt]] = base] /\ UNCHANGED volume
      /\ UNCHANGED <<fopened, base, ptr, cnt, fsize, user, ret>>
  BY <1>1, <1>2 DEF WriteBack, stream
<1>4. Chain' = Chain
  BY <1>2, <1>3, SameVolume
<1>5. ASSUME NEW p \in 0..Buf * Clusters - 1
      PROVE  OnCard(p)' = IF p \div Buf = cnt THEN base[p % Buf] ELSE OnCard(p)
  <2>1. PICK c \in 0..Clusters - 1 : c = p \div Buf /\ Chain[c] = List[c] /\ List[c] \in Numbers
    BY <1>2, Places
  <2>2. OnCard(p)' = disk'[List[c]][p % Buf] /\ OnCard(p) = disk[List[c]][p % Buf]
    BY <1>4, <2>1 DEF OnCard
  <2>3. CASE c = cnt
    BY <1>2, <1>3, <2>1, <2>2, <2>3
  <2>4. CASE c # cnt
    <3>1. List[c] # List[cnt]
      <4>1. CASE cnt = Clusters
        BY <1>2, <2>1, <4>1, ListHoldsMine
      <4>2. CASE cnt # Clusters
        <5>1. cnt \in 0..Clusters - 1
          BY <1>2, <4>2
        <5> QED
          BY <1>2, <2>4, <5>1, ListOnce
      <4> QED
        BY <4>1, <4>2
    <3> QED
      BY <1>2, <1>3, <2>1, <2>2, <2>4, <3>1
  <2> QED
    BY <2>3, <2>4
<1>6. OnDisk' = Held /\ Held' = Held
  BY <1>2, <1>3, <1>5 DEF OnDisk, Held
<1> QED
  BY <1>2, <1>3, <1>6, Saves DEF SizeNow, ftell

\* Then the daemon writes the directory, with the position for the size.
LEMMA RWriteDir ==
  ASSUME AInv, FirstRecord, WriteDir
  PROVE  B!Next(Data)
<1>1. /\ fopened /\ op.kind \in {"close", "flush"} /\ op.next = 0 /\ DirClusters \in Nat \ {0}
      /\ Volume /\ director = List
  BY BufAssumption DEF AInv, BInv, Kept, Placed, WriteDir, Ready
<1>2. /\ ~fopened' /\ ret' = 0 /\ UNCHANGED volume
      /\ UNCHANGED <<disk, size, ptr, cnt, user>>
  BY <1>1 DEF WriteDir, Freed, stream
<1>3. size = ftell /\ Loads(0)
  BY <1>1 DEF AInv, Closing
<1>4. OnDisk' = OnDisk /\ (\A p : OnCard(p)' = OnCard(p))
  BY <1>1, <1>2, SameOnDisk
<1>5. OnDisk = Held
  <2>1. ASSUME NEW p \in 0..Buf * Clusters - 1, p \div Buf = cnt
        PROVE  base[p % Buf] = OnCard(p)
    <3>1. p % Buf \in 0..Buf - 1 /\ Chain[p \div Buf] = List[p \div Buf]
      BY <1>1, Places
    <3> QED
      BY <1>1, <1>3, <2>1, <3>1 DEF Loads, OnCard
  <2> QED
    BY <1>1, <2>1 DEF OnDisk, Held
<1>6. Held' = OnDisk'
  BY <1>2 DEF Held, OnDisk
<1>7. SizeNow' = ftell /\ ftell' = ftell
  BY <1>2, <1>3 DEF SizeNow, ftell
<1> QED
  BY <1>1, <1>2, <1>4, <1>5, <1>6, <1>7, Closes

LEMMA RRestart ==
  ASSUME AInv, Restart
  PROVE  B!Next(Data)
<1>1. Volume /\ Recorded
  BY DEF AInv, BInv, Kept
<1>2. ~fopened' /\ size' = dir[entry].size /\ UNCHANGED volume /\ UNCHANGED disk
  BY DEF Restart, Freed, card
<1>3. OnDisk' = OnDisk /\ Held' = OnDisk'
  BY <1>1, <1>2, SameOnDisk DEF Held, OnDisk
<1>4. SizeNow' = SizeNow
  BY <1>1, <1>2 DEF SizeNow, Recorded
<1> QED
  BY <1>2, <1>3, <1>4, LosesPower

LEMMA RStep ==
  ASSUME AInv, Careful, Aligned, FirstRecord, [Next]_vars
  PROVE  B!Next(Data) \/ UNCHANGED B!vars
<1>1. CASE fopen
  BY <1>1, ROpen
<1>2. ASSUME NEW r \in Records, fread(r) \/ fwrite(r) PROVE B!Next(Data) \/ UNCHANGED B!vars
  BY <1>2, RRead, RWrite
<1>3. CASE LoadBuffer \/ FinishRead \/ FinishWrite
  BY <1>3, RLoad, RFinishRead, RFinishWrite
<1>4. ASSUME NEW o \in Offsets, NEW w, fseek(o, w) PROVE B!Next(Data)
  BY <1>4, RSeek
<1>5. CASE fclose \/ fflush
  BY <1>5, RSave
<1>6. CASE WriteDir \/ Restart
  BY <1>6, RWriteDir, RRestart
<1>7. CASE UNCHANGED vars \/ Astray
  <2>1. UNCHANGED volume /\ UNCHANGED <<disk, size, fopened, base, ptr, cnt, fsize, user, ret>>
    BY <1>7 DEF vars, Astray, card, stream
  <2>2. OnDisk' = OnDisk /\ Held' = Held
    BY <2>1, SameOnDisk, SameHeld DEF AInv, BInv, Kept
  <2> QED
    BY <2>1, <2>2, Stutters DEF abstract, SizeNow, ftell
<1> QED
  BY <1>1, <1>2, <1>3, <1>4, <1>5, <1>6, <1>7 DEF Next

LEMMA RInit ==
  ASSUME Init
  PROVE  B!Init
<1>1. ~fopened /\ ptr = 0 /\ cnt = 0 /\ ret = 0
  BY DEF Init
<1>2. Held = OnDisk
  BY <1>1 DEF Held, OnDisk
<1>3. ftell = 0
  BY <1>1, BufPositive DEF ftell
<1> QED
  BY <1>1, <1>2, <1>3 DEF Held, OnDisk, B!Init

\* To careful programs with aligned records, a stream is the bytes of its file
\* and a position: fread and fwrite move along it over the ends of the buffer,
\* fclose saves all of it, and a power failure leaves what was saved.
THEOREM StreamIsFile ==
  ASSUME Careful, Aligned, FirstRecord
  PROVE  Spec => Stream
<1>1. Init => AInv /\ B!Init
  BY AInit, RInit
<1>2. AInv /\ [Next]_vars => AInv'
  BY AStep
<1>3. AInv /\ [Next]_vars => [B!Next(Data)]_B!vars
  BY RStep
<1> QED
  BY <1>1, <1>2, <1>3, PTL DEF Spec, Stream
=============================================================================
