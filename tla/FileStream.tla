----------------------------- MODULE FileStream -----------------------------
(***************************************************************************)
(* One file stream (fopen.c, fread.c, fwrite.c, fseek.c, ftell.c, fclose.c, *)
(* fflush.c), the letters that fs_daemon answers for it, and what is on the *)
(* card: the FAT, the clusters, and the directory with the record of the   *)
(* file.  A program uses the stream; it waits whenever the daemon works    *)
(* for it, so the two take turns.  The power may fail at any time.         *)
(***************************************************************************)
EXTENDS Integers, Sequences, FiniteSets

CONSTANTS
  Buf,          \* bytes in a cluster and in the buffer
  Sector,       \* bytes in a block, which divides Buf
  Numbers,      \* the clusters of the card
  EndMark,      \* 0xFFF8
  Chains,       \* the sequences of clusters that the file may have, all of one length
  DirClusters,  \* clusters of the directory
  Entries,      \* the blocks of the directory in which the record may be
  Sizes,        \* sizes the file may have at first
  Records,      \* <<size, nobj>> that programs transfer
  Offsets,      \* offsets that programs seek to
  Careless      \* what programs do that the stream does not support

Kinds == {"append cluster", "cross unsaved", "read behind the end",
          "seek elsewhere", "write back unsaved", "flush whole clusters"}
Clusters == Len(CHOOSE s \in Chains : TRUE)
ASSUME BufAssumption == /\ Buf \in Nat \ {0} /\ Sector \in Nat \ {0} /\ Buf % Sector = 0
                        /\ Numbers \subseteq 2..EndMark - 1
                        /\ \A s \in Chains : Len(s) = Clusters /\ s \in Seq(Numbers)
                        /\ DirClusters \in Nat \ {0} /\ Careless \subseteq Kinds

\* A file has a cluster at least, and its chain comes to no cluster twice.
ASSUME ChainAssumption == /\ EndMark \in Nat /\ Clusters \in Nat \ {0}
                          /\ \A s \in Chains : \A i, j \in 1..Clusters : s[i] = s[j] => i = j

\* Programs transfer something; a file is no longer than its chain.
ASSUME RecordAssumption == /\ Records # {} /\ Records \subseteq (Nat \ {0}) \X (Nat \ {0})
                           /\ Sizes \subseteq 0..Buf * Clusters /\ Offsets \subseteq Nat

VARIABLES
  fat, first,   \* the FAT, and the first cluster of the file
  entry,        \* the block of the directory with the record (num_fatdir)
  disk,         \* disk[c]: cluster c, disk[0]: the start of the card
  dir,          \* dir[b]: what is on the card as block b of the directory
  size,         \* the size in dir_record
  fopened,      \* symbolic_fs_array[..].open
  director,     \* the clusters of the open file
  base,         \* the buffer
  ptr,          \* how far the pointer is from the buffer, in its lower 32 bits
  cut,          \* the pointer has lost its upper 32 bits
  cnt, fsize,
  user, ret,    \* the program's array and the last result
  op,           \* the call that waits for the daemon
  written       \* the end of what the program wrote into the buffer

volume == <<fat, first, entry>>
stream == <<ptr, cut, cnt, fsize>>
card == <<disk, dir>>
vars == <<volume, card, size, fopened, director, base, stream, user, ret, op, written>>

Ready == [kind |-> "none", rec |-> <<0, 0>>, next |-> 0, cur |-> 0, ret |-> 0]
Amount(r) == r[1] * r[2]
Largest == CHOOSE n \in {Amount(r) : r \in Records} : \A r \in Records : Amount(r) <= n
Cluster(c) == [k \in 0..Buf - 1 |-> (c * Buf + k) + 1]
Zeros == [k \in 1..Largest |-> 0]
NewByte(k) == Buf * EndMark + k              \* what programs write
Data(r) == [k \in 1..Amount(r) |-> NewByte(k)]

\* The FAT is followed up to an entry that is no cluster number.  The list of
\* what was found is a zeroed page, so that it goes on with 0, the first block.
InChain_Last(c) == c > 2 /\ c < EndMark      \* mutant: cluster 2 is none
InChain(c) == c > 1 /\ c < EndMark
Chain[i \in 0..Cardinality(Numbers)] ==
  IF i = 0 THEN first ELSE IF InChain(Chain[i - 1]) THEN fat[Chain[i - 1]] ELSE EndMark
List == [i \in DOMAIN Chain |-> IF InChain(Chain[i]) THEN Chain[i] ELSE 0]

\* C division rounds towards zero.
Div(a, b) == IF a >= 0 THEN a \div b ELSE -((-a) \div b)
Blocks(n) == IF n % Sector # 0 THEN (n \div Sector) + 1 ELSE n \div Sector
phy_block == Blocks(Buf)

ftell == ptr + cnt * Buf

\* Block b of the directory in memory.
DirBlock(b, n) == [block |-> b, size |-> IF b = entry THEN n ELSE 0]

Init ==
  /\ \E s \in Chains :
        /\ first = s[1]
        /\ fat = [c \in Numbers |->
                    IF \E i \in 1..Clusters - 1 : s[i] = c
                      THEN s[1 + CHOOSE i \in 1..Clusters - 1 : s[i] = c] ELSE EndMark]
  /\ entry \in Entries /\ size \in Sizes
  /\ disk = [c \in Numbers \cup {0} |-> Cluster(c)]
  /\ dir = [b \in 0..DirClusters * phy_block - 1 |-> DirBlock(b, size)]
  /\ fopened = FALSE /\ director = <<>>
  /\ base = Cluster(0) /\ ptr = 0 /\ cut = FALSE /\ cnt = 0 /\ fsize = 0
  /\ user = Zeros /\ ret = 0 /\ op = Ready /\ written = 0

\* A second fopen returns NULL and leaves the stream alone.
fopen ==
  /\ op = Ready /\ ~fopened /\ InChain(first)
  /\ fopened' = TRUE
  /\ director' = List
  /\ base' = disk[first]
  /\ ptr' = 0 /\ cut' = FALSE /\ cnt' = 0 /\ fsize' = size
  /\ written' = 0
  /\ UNCHANGED <<volume, card, size, user, ret, op>>

-----------------------------------------------------------------------------
(* Transfers.                                                              *)

Bytes(from, n) == [k \in 1..n |-> base[from + k - 1]]
Patch(s, from, data) == [k \in DOMAIN s |-> IF k - from \in DOMAIN data THEN data[k - from] ELSE s[k]]

Over(n) == ptr + n > Buf

\* The program may use the stream.  A read at the end of a file leaves the pointer
\* before the buffer if the file ends in the cluster before; pointers that are
\* further away, or behind the buffer, are not followed.
InUse == op = Ready /\ fopened /\ ptr \in 1 - Sector..Buf

\* What a program that knows the limits of the stream does not do.
Allows(kind, situation) == situation => kind \in Careless

EndOfFile == ftell >= fsize
ToEnd_Whole == fsize             \* mutant: the clusters before are forgotten
ToEnd == fsize - cnt * Buf

\* fread within the buffer.
ReadHere(r) ==
  IF EndOfFile
    THEN /\ ret' = Div(ToEnd - ptr, r[1])
         /\ ptr' = ToEnd
         /\ UNCHANGED user
    ELSE /\ user' = Patch(user, 0, Bytes(ptr, Amount(r)))
         /\ ptr' = ptr + Amount(r)
         /\ ret' = r[2]

\* Across its end the first part is copied, the rest waits.
First(r) == IF Over(Amount(r)) THEN Buf - ptr ELSE Amount(r)
Start(kind, r) == /\ op' = [kind |-> kind, rec |-> r, next |-> cnt + 1,
                            cur |-> First(r), ret |-> First(r) \div r[1]]
                  /\ ptr' = Buf
                  /\ UNCHANGED ret

fread(r) ==
  /\ InUse /\ ~cut
  /\ Allows("read behind the end", ftell > fsize)
  /\ Allows("cross unsaved", Over(Amount(r)) /\ written > 0)
  /\ IF Over(Amount(r))
       THEN user' = Patch(user, 0, Bytes(ptr, First(r))) /\ Start("read", r)
       ELSE ReadHere(r) /\ UNCHANGED op
  /\ UNCHANGED <<volume, card, size, fopened, director, base, cut, cnt, fsize, written>>

fwrite(r) ==
  /\ InUse /\ ~cut
  /\ Allows("cross unsaved", Over(Amount(r)) /\ written > 0)
  /\ Allows("append cluster", ftell + Amount(r) > Buf * Clusters)
  /\ base' = Patch(base, ptr - 1, SubSeq(Data(r), 1, First(r)))
  /\ written' = IF First(r) > 0 /\ written < ptr + First(r) THEN ptr + First(r) ELSE written
  /\ IF Over(Amount(r))
       THEN Start("write", r)
       ELSE ptr' = ptr + Amount(r) /\ ret' = r[2] /\ UNCHANGED op
  /\ UNCHANGED <<volume, card, size, fopened, director, cut, cnt, fsize, user>>

\* The end of the buffer is far above a pointer without its upper half, so that
\* both take the way across it and first copy what is left of the buffer, at
\* least a byte, from or to an address of the program where it has no page.  The
\* kernel's own abort ends in err_hang (entry.S).
Astray ==
  /\ InUse /\ cut
  /\ op' = [Ready EXCEPT !.kind = "hang"]
  /\ UNCHANGED <<volume, card, size, fopened, director, base, stream, user, ret, written>>

\* fs_daemon loads the next cluster over the buffer.
Loaded_Same == cnt               \* mutant: the same cluster is loaded again
Loaded == cnt + 1
LoadBuffer ==
  /\ op.kind \in {"read", "write"} /\ cnt # op.next
  /\ base' = disk[director[Loaded]]
  /\ ptr' = 0 /\ cut' = FALSE /\ cnt' = cnt + 1
  /\ written' = 0
  /\ UNCHANGED <<volume, card, size, fopened, director, fsize, user, ret, op>>

Waits(kind) == op # Ready /\ op.kind = kind /\ cnt = op.next
Rest == Amount(op.rec) - op.cur

\* The rest goes to the start of the program's array, wherever the first part
\* went; at the end of the file the pointer goes through an int (fread.c:83).
FinishRead ==
  /\ Waits("read")
  /\ IF EndOfFile
       THEN /\ ret' = Div(op.ret + (ToEnd - ptr), op.rec[1])
            /\ ptr' = ToEnd /\ cut' = TRUE
            /\ UNCHANGED user
       ELSE /\ user' = Patch(user, 0, Bytes(ptr, Rest))
            /\ ptr' = ptr + Rest
            /\ ret' = Rest \div op.rec[1]
            /\ UNCHANGED cut
  /\ op' = Ready
  /\ UNCHANGED <<volume, card, size, fopened, director, base, cnt, fsize, written>>

\* And the rest is taken from its start.
FinishWrite ==
  /\ Waits("write")
  /\ base' = Patch(base, ptr - 1, SubSeq(Data(op.rec), 1, Rest))
  /\ ptr' = ptr + Rest /\ written' = ptr + Rest
  /\ ret' = (Rest + op.cur) \div op.rec[1]
  /\ op' = Ready
  /\ UNCHANGED <<volume, card, size, fopened, director, cut, cnt, fsize, user>>

-----------------------------------------------------------------------------
Same(offset) == offset \div Buf = cnt

fseek(offset, whence) ==
  /\ InUse
  /\ Allows("seek elsewhere", ~Same(offset) \/ whence # "SEEK_SET")
  /\ Allows("write back unsaved", offset < cnt * Buf + written)
  /\ ret' = IF Same(offset) /\ whence \notin {"SEEK_SET", "SEEK_CUR", "SEEK_END"} THEN 1 ELSE 0
  /\ ptr' = IF ~Same(offset) THEN ptr
            ELSE CASE whence = "SEEK_SET" -> offset % Buf
                   [] whence = "SEEK_CUR" -> ptr + (offset % Buf)
                   [] whence = "SEEK_END" -> Buf + offset
                   [] OTHER -> ptr
  /\ cut' = (cut /\ ~(Same(offset) /\ whence \in {"SEEK_SET", "SEEK_END"}))
  /\ UNCHANGED <<volume, card, size, fopened, director, base, cnt, fsize, user, op, written>>

\* fclose and fflush keep the lower halves of the size and of the number of blocks,
\* which are right for a pointer without its upper half: no block if it is before
\* the buffer.  The daemon writes the blocks up to the position to the current cluster ...
Saved == [k \in 0..Buf - 1 |-> IF k < Sector * Blocks(ptr) THEN base[k]
                               ELSE disk[director[cnt]][k]]
WriteBack(kind, n, block) ==
  /\ InUse
  /\ size' = n
  /\ disk' = [disk EXCEPT ![director[cnt]] = Saved]
  /\ op' = [Ready EXCEPT !.kind = kind, !.next = block]
  /\ UNCHANGED <<volume, dir, fopened, director, base, stream, user, ret, written>>

fclose == WriteBack("close", ftell, entry \div phy_block)

\* fflush does what fclose does, but forgets the clusters before, and takes the
\* size of the file for the place of its record.  What it makes of a position
\* before the buffer, a size of almost 2^32 bytes, is not followed.
fflush ==
  /\ ptr >= 0
  /\ Allows("flush whole clusters", cnt > 0 \/ ptr = Buf)
  /\ WriteBack("flush", ptr, ptr \div Buf)

\* The buffer is given back, so that its content no longer matters.
Freed == fopened' = FALSE /\ director' = <<>> /\ base' = Cluster(0) /\ written' = 0

\* ... then the first block of the directory to the start of a cluster of it.
WriteDir ==
  /\ op.kind \in {"close", "flush"}
  /\ IF op.next < DirClusters
       THEN dir' = [dir EXCEPT ![op.next * phy_block] = DirBlock(0, size)] /\ UNCHANGED disk
       ELSE disk' = [disk EXCEPT ![0] = [k \in 0..Buf - 1 |-> IF k < Sector THEN 0 ELSE @[k]]]
            /\ UNCHANGED dir
  /\ Freed
  /\ ret' = 0 /\ op' = Ready
  /\ UNCHANGED <<volume, size, stream, user>>

\* The power fails; the directory is read again from the card.
Restart ==
  /\ dir[entry].block = entry
  /\ size' = dir[entry].size
  /\ Freed /\ op' = Ready
  /\ ptr' = 0 /\ cut' = FALSE /\ cnt' = 0 /\ fsize' = 0
  /\ user' = Zeros /\ ret' = 0
  /\ UNCHANGED <<volume, card>>

Next ==
  \/ fopen
  \/ \E r \in Records : fread(r) \/ fwrite(r)
  \/ Astray
  \/ LoadBuffer \/ FinishRead \/ FinishWrite
  \/ \E o \in Offsets, w \in {"SEEK_SET", "SEEK_CUR", "SEEK_END", "other"} : fseek(o, w)
  \/ fclose \/ fflush \/ WriteDir
  \/ Restart

Spec == Init /\ [][Next]_vars

-----------------------------------------------------------------------------
(* Properties.                                                             *)

\* The type invariant; careful programs with aligned records keep the pointer in
\* the buffer, or its lower half when a read at the end has cut it.
StreamTypeOK ==
  /\ first \in Numbers /\ \A c \in Numbers : fat[c] \in Numbers \cup {EndMark}
  /\ \A c \in Numbers : DOMAIN disk[c] = 0..Buf - 1
  /\ \A b \in DOMAIN dir : dir[b].size \in 0..Buf * Clusters
  /\ size \in 0..Buf * Clusters /\ fsize \in 0..Buf * Clusters
  /\ fopened \in BOOLEAN /\ (fopened => director = List)
  /\ DOMAIN base = 0..Buf - 1
  /\ ptr \in 0..Buf /\ cut \in BOOLEAN /\ cnt \in 0..Clusters /\ written \in 0..Buf
  /\ DOMAIN user = 1..Largest /\ ret \in 0..Largest

\* Nothing on the card is written but the clusters of the file and, in place,
\* the block of the directory with its record: not the first block (behind the
\* chain "assigned new page", fs_deamon.c:104), not another file, not another
\* block of the directory.
Mine == UNION {{s[i] : i \in DOMAIN s} : s \in {c \in Chains : c[1] = first}}
OwnBlocks == /\ \A c \in DOMAIN disk \ Mine : disk[c] = Cluster(c)
             /\ \A b \in DOMAIN dir : dir[b].block = b

\* The stream implements a sequence of bytes with a position, over buffer ends,
\* cluster by cluster, over closing and opening again; when the power fails, the
\* file is what was closed last, or saved of it.
OnCard(p) == disk[Chain[p \div Buf]][p % Buf]
B == INSTANCE ByteStream WITH
       Length <- Buf * Clusters,
       bytes <- [p \in 0..Buf * Clusters - 1 |->
                  IF fopened /\ p \div Buf = cnt THEN base[p % Buf] ELSE OnCard(p)],
       saved <- [p \in 0..Buf * Clusters - 1 |-> OnCard(p)],
       size <- IF fopened THEN fsize ELSE size,
       open <- fopened, pos <- ftell, got <- user
Stream == B!Init /\ [][B!Next(Data)]_B!vars
=============================================================================
