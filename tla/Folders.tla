------------------------------- MODULE Folders -------------------------------
(***************************************************************************)
(* Names of files: fs_daemon reads all folders of the card into pages and   *)
(* enters the path of every file into symbolic_fs_array; cd moves the       *)
(* shell from place to place (kdirectory, cd_rem, current_page) and fills    *)
(* file_dir, which ls shows and run searches; fopen searches the paths.     *)
(* The daemon opens, loads and closes files between any two steps of a cd.  *)
(* A folder is named by its records; a name is known by its first eight      *)
(* characters, which is all that the code compares.                        *)
(***************************************************************************)
EXTENDS Integers, Sequences, FiniteSets

CONSTANTS
  Disk,      \* Disk[d]: the records [name, kind, clu] of folder d
  Volumes,   \* the root folder of each partition, NoFolder if its type is not known
  NoFolder,
  Short,     \* the names with less than eight characters
  NoName,    \* the empty name
  Careless   \* what programs and the shell do that the code does not support

Kinds == {"folder", "file", "label", "skipped"}
Names == UNION {{Disk[d][k].name : k \in DOMAIN Disk[d]} : d \in DOMAIN Disk}
Entries == [name : Names \cup {NoName}, kind : Kinds, clu : Nat]

ASSUME DiskAssumption ==
  /\ \A d \in DOMAIN Disk :
        /\ Disk[d] \in Seq(Entries)
        /\ \A k \in DOMAIN Disk[d] : Disk[d][k].kind = "folder" => Disk[d][k].clu \in DOMAIN Disk
  /\ NoFolder \notin DOMAIN Disk /\ Volumes \in Seq(DOMAIN Disk \cup {NoFolder})
  /\ Careless \subseteq {"cd in folder", "leave open", "open during cd"}

VARIABLES
  pnum,          \* the partition that build_kernel_directory is at
  reading,       \* the calls of _search_file: [dir, offset, page, mark]
  tmp_name,      \* the path of the folder being read
  pages,         \* pages[p]: struct file records
  symbolic,      \* symbolic_fs_array: [path, file, open, through]
  sd_p,          \* the names of the partitions
  file_dir,      \* what ls shows
  kdirectory,    \* the path of the place, without "root/"
  cd_rem,        \* its partition, 0 for the root
  current_page,
  shell          \* the cd command that is under way

tree == <<pnum, reading, tmp_name, pages, sd_p>>
place == <<file_dir, kdirectory, cd_rem, current_page, shell>>
vars == <<tree, symbolic, place>>

Outside == 0                         \* cd_rem of the root; no page
Idle == [do |-> "none", name |-> NoName, page |-> 0, volume |-> Outside]
Done == pnum > Len(Volumes) + 1
Listing(p) == [k \in DOMAIN pages[p] |->
                 [name |-> pages[p][k].name, kind |-> pages[p][k].kind, clu |-> pages[p][k].clu]]
\* The elements of s that are in S, in their order.
Only(s, S) ==
  LET only[k \in 0..Len(s)] ==
        IF k = 0 THEN <<>>
        ELSE IF s[k] \in S THEN Append(only[k - 1], s[k]) ELSE only[k - 1]
  IN only[Len(s)]
Named == {f \in Entries : f.name # NoName}
First(s, n) == {k \in DOMAIN s : s[k].name = n /\ \A j \in 1..k - 1 : s[j].name # n}

\* fat_getpartition gives every partition a page for its root folder.
Init ==
  /\ pnum = 1 /\ reading = <<>> /\ tmp_name = <<NoName>>
  /\ pages = [v \in DOMAIN Volumes |-> <<>>] /\ symbolic = <<>>
  /\ sd_p = [v \in DOMAIN Volumes |-> NoName]
  /\ file_dir = <<>> /\ kdirectory = <<>> /\ cd_rem = Outside /\ current_page = 0
  /\ shell = Idle

-----------------------------------------------------------------------------
(* build_kernel_directory, _search_file.                                   *)

StartVolume ==
  /\ reading = <<>> /\ pnum \in DOMAIN Volumes
  /\ IF Volumes[pnum] = NoFolder
       THEN pnum' = pnum + 1 /\ UNCHANGED reading
       ELSE /\ reading' = <<[dir |-> Volumes[pnum], offset |-> 0, page |-> pnum, mark |-> 0]>>
            /\ UNCHANGED pnum
  /\ UNCHANGED <<tmp_name, pages, sd_p, symbolic, place>>

Top == Head(reading)
More == reading # <<>> /\ Top.offset < Len(Disk[Top.dir])
Record == Disk[Top.dir][Top.offset + 1]
OnBy(calls) == reading' = calls \o <<[Top EXCEPT !.offset = @ + 1]>> \o Tail(reading)
Keep(director) == Append(pages[Top.page],
                         [name |-> Record.name, kind |-> Record.kind, clu |-> Record.clu,
                          director |-> director, num_fatdir |-> Top.offset])
Link(path, open) == symbolic' = Append(symbolic,
                      [path |-> path, file |-> <<Top.page, Len(pages[Top.page]) + 1>>,
                       open |-> open, through |-> Outside])

\* Deleted records, parts of long names, "." and "..".
SkipRecord ==
  /\ More /\ Record.kind = "skipped" /\ OnBy(<<>>)
  /\ UNCHANGED <<pnum, tmp_name, pages, sd_p, symbolic, place>>

\* A folder gets a page and is read before the next record.
NewPage_None(p) == p                           \* mutant: no page is allocated
NewPage(p) == Append(p, <<>>)
ReadFolder ==
  /\ More /\ Record.kind = "folder"
  /\ pages' = NewPage([pages EXCEPT ![Top.page] = Keep(Len(pages) + 1)])
  /\ tmp_name' = Append(tmp_name, Record.name)
  /\ Link(Append(tmp_name, Record.name), "folder")
  /\ OnBy(<<[dir |-> Record.clu, offset |-> 0, page |-> Len(pages) + 1, mark |-> Len(tmp_name)]>>)
  /\ UNCHANGED <<pnum, sd_p, place>>

ReadLabel ==
  /\ More /\ Record.kind = "label" /\ OnBy(<<>>)
  /\ pages' = [pages EXCEPT ![Top.page] = Keep(0)]
  /\ tmp_name' = <<Record.name>>
  /\ Link(<<Record.name>>, "folder")
  /\ UNCHANGED <<pnum, sd_p, place>>

\* A file without a cluster is listed but cannot be found by its path.
ReadFile ==
  /\ More /\ Record.kind = "file" /\ OnBy(<<>>)
  /\ pages' = [pages EXCEPT ![Top.page] = Keep(0)]
  /\ IF Record.clu = 0 THEN UNCHANGED symbolic
                       ELSE Link(Append(tmp_name, Record.name), "no")
  /\ UNCHANGED <<pnum, tmp_name, sd_p, place>>

BackMark_Lost(name, mark) == name                \* mutant: the name of a folder that was left stays
BackMark(name, mark) == SubSeq(name, 1, mark)
LeaveFolder ==
  /\ Len(reading) > 1 /\ ~More
  /\ reading' = Tail(reading) /\ tmp_name' = BackMark(tmp_name, Top.mark)
  /\ UNCHANGED <<pnum, pages, sd_p, symbolic, place>>

\* The first record should be the label.
EndVolume ==
  /\ Len(reading) = 1 /\ ~More
  /\ reading' = <<>> /\ pnum' = pnum + 1
  /\ sd_p' = [sd_p EXCEPT ![pnum] = IF pages[pnum] = <<>> THEN NoName ELSE pages[pnum][1].name]
  /\ file_dir' = IF pnum = 1 THEN Listing(1) ELSE file_dir
  /\ UNCHANGED <<tmp_name, pages, symbolic, kdirectory, cd_rem, current_page, shell>>

\* The partitions are listed, without gaps here, but not in cd_root.
Partition(v) == [name |-> sd_p[v], kind |-> "label", clu |-> 0]
Partitions == [v \in DOMAIN Volumes |-> Partition(v)]
EndBuild ==
  /\ pnum = Len(Volumes) + 1 /\ pnum' = pnum + 1
  /\ file_dir' = Only(Partitions, Named)
  /\ UNCHANGED <<reading, tmp_name, pages, sd_p, symbolic, kdirectory, cd_rem, current_page, shell>>

-----------------------------------------------------------------------------
(* cd and cd_root, which the daemon may interrupt.                         *)

Opened == {i \in DOMAIN symbolic : symbolic[i].open = "yes"}
Command == Done /\ shell = Idle

CdVolume(v) ==
  /\ Command /\ cd_rem = Outside
  /\ sd_p[v] # NoName /\ \A w \in 1..v - 1 : sd_p[w] # sd_p[v]
  /\ current_page' = v
  /\ shell' = [do |-> "list", name |-> sd_p[v], page |-> v, volume |-> v]
  /\ UNCHANGED <<tree, symbolic, file_dir, kdirectory, cd_rem>>

CdFolder(n) ==
  /\ Command /\ cd_rem # Outside
  /\ Len(kdirectory) = 1 \/ "cd in folder" \in Careless
  /\ file_dir' = <<>> /\ shell' = [Idle EXCEPT !.do = "find", !.name = n]
  /\ UNCHANGED <<tree, symbolic, kdirectory, cd_rem, current_page>>

\* find_folder always begins in the root folder of the partition.
FindFolder ==
  /\ shell.do = "find"
  /\ LET found == {k \in First(pages[cd_rem], shell.name) : pages[cd_rem][k].kind = "folder"} IN
       \/ found = {} /\ shell' = Idle /\ UNCHANGED current_page
       \/ \E k \in found : /\ current_page' = pages[cd_rem][k].director
                           /\ shell' = [shell EXCEPT !.do = "list", !.page = current_page']
  /\ UNCHANGED <<tree, symbolic, file_dir, kdirectory, cd_rem>>

UserDir ==
  /\ shell.do = "list"
  /\ file_dir' = Listing(shell.page) /\ shell' = [shell EXCEPT !.do = "name"]
  /\ UNCHANGED <<tree, symbolic, kdirectory, cd_rem, current_page>>

NameFolder ==
  /\ shell.do = "name" /\ kdirectory' = Append(kdirectory, shell.name)
  /\ shell' = IF shell.volume = Outside THEN Idle ELSE [shell EXCEPT !.do = "remember"]
  /\ UNCHANGED <<tree, symbolic, file_dir, cd_rem, current_page>>

RememberVolume ==
  /\ shell.do = "remember" /\ cd_rem' = shell.volume /\ shell' = Idle
  /\ UNCHANGED <<tree, symbolic, file_dir, kdirectory, current_page>>

CdRoot ==
  /\ Command /\ (Opened = {} \/ "leave open" \in Careless)
  /\ file_dir' = <<>> /\ shell' = [Idle EXCEPT !.do = "root"]
  /\ UNCHANGED <<tree, symbolic, kdirectory, cd_rem, current_page>>

Cleared_Kept(path) == path                    \* mutant: kdirectory is not cleared
Cleared(path) == <<>>
ListRoot ==
  /\ shell.do = "root" /\ shell' = Idle
  /\ file_dir' = Partitions \o SubSeq(file_dir, Len(Volumes) + 1, Len(file_dir))
  /\ kdirectory' = Cleared(kdirectory) /\ cd_rem' = Outside
  /\ UNCHANGED <<tree, symbolic, current_page>>

-----------------------------------------------------------------------------
(* Files.                                                                  *)

\* strcmp ends at the first blank of the path that is looked for: behind the first
\* short name nothing is compared any more.
UpToBlank(path) == LET blanks == {k \in DOMAIN path : path[k] \in Short}
                   IN IF blanks = {} THEN path
                      ELSE SubSeq(path, 1, CHOOSE k \in blanks : \A j \in blanks : k <= j)
Matching(path) == {i \in DOMAIN symbolic : symbolic[i].path = UpToBlank(path)}
FirstOf(S) == {i \in S : \A j \in S : i <= j}
\* The character behind a long name is not initialized, and may make it differ from all.
Lookup(n) == LET path == Append(IF kdirectory = <<>> THEN <<NoName>> ELSE kdirectory, n)
                 found == FirstOf(Matching(path))
             IN IF found = {} \/ n \notin Short THEN found \cup {0} ELSE found

ChangingVolume == \/ shell.do \in {"name", "remember"} /\ shell.volume # Outside
                  \/ shell.do = "root"

Fopen(n) ==
  /\ Done /\ (~ChangingVolume \/ "open during cd" \in Careless)
  /\ \E i \in Lookup(n) \ {0} :
        /\ symbolic[i].open = "no"
        /\ symbolic' = [symbolic EXCEPT ![i].open = "yes", ![i].through = cd_rem]
  /\ UNCHANGED <<tree, place>>

\* The next cluster is loaded through the partition of the shell.
LoadBuf(i) ==
  /\ i \in Opened /\ symbolic' = [symbolic EXCEPT ![i].through = cd_rem]
  /\ UNCHANGED <<tree, place>>

Fclose(i) ==
  /\ i \in Opened
  /\ file_dir' = Listing(current_page)
  /\ symbolic' = [symbolic EXCEPT ![i].open = "no", ![i].through = Outside]
  /\ UNCHANGED <<tree, kdirectory, cd_rem, current_page, shell>>

Build == StartVolume \/ SkipRecord \/ ReadFolder \/ ReadLabel \/ ReadFile
         \/ LeaveFolder \/ EndVolume \/ EndBuild
Shell == \/ \E v \in DOMAIN Volumes : CdVolume(v)
         \/ \E n \in Names : CdFolder(n)
         \/ FindFolder \/ UserDir \/ NameFolder \/ RememberVolume \/ CdRoot \/ ListRoot
Daemon == (\E n \in Names : Fopen(n)) \/ \E i \in Opened : LoadBuf(i) \/ Fclose(i)
Next == Build \/ Shell \/ Daemon
Spec == Init /\ [][Next]_vars

-----------------------------------------------------------------------------
(* Properties.                                                             *)

FolderTypeOK ==
  /\ pnum \in 1..Len(Volumes) + 2
  /\ \A p \in DOMAIN pages : \A k \in DOMAIN pages[p] : pages[p][k].director \in 0..Len(pages)
  /\ \A i \in DOMAIN symbolic : /\ symbolic[i].file[1] \in DOMAIN pages
                                /\ symbolic[i].file[2] \in DOMAIN pages[symbolic[i].file[1]]
  /\ cd_rem \in 0..Len(Volumes) /\ current_page \in 0..Len(pages)
  /\ \A k \in DOMAIN kdirectory : kdirectory[k] \in Names

\* The records of a folder of the card, and the folders (one, if the names differ) that
\* a path leads to.
Visible == {r \in Entries : r.kind # "skipped"}
Shown(d) == Only(Disk[d], Visible)
RootOf(label) == {v \in DOMAIN Volumes : Volumes[v] # NoFolder
                                         /\ Disk[Volumes[v]][1].name = label}
SubFolders(d, n) == {Shown(d)[k].clu : k \in {j \in First(Shown(d), n) : Shown(d)[j].kind = "folder"}}
FoldersAt(path) ==
  LET at[k \in DOMAIN path] == IF k = 1 THEN {Volumes[v] : v \in RootOf(path[1])}
                               ELSE UNION {SubFolders(d, path[k]) : d \in at[k - 1]}
  IN at[Len(path)]

\* Between two commands the listing, the path, the partition and the page are those
\* of one place; after a cd that failed nothing is listed.
Located ==
  Command =>
    IF kdirectory = <<>>
      THEN /\ cd_rem = Outside
           /\ Only(file_dir, Named) = Only(Partitions, Named)
      ELSE /\ cd_rem \in RootOf(kdirectory[1])
           /\ \E d \in FoldersAt(kdirectory) :
                 Listing(current_page) = Shown(d) /\ file_dir \in {<<>>, Shown(d)}

\* Of what ls shows in this place under a name, fopen finds the first that has a
\* cluster, unless the name has eight characters or a short folder is on the way; it
\* never finds another, and an open file is read through its own partition.
Stored(d) == Only(Shown(d), {r \in Entries : r.clu # 0})
Here(n) == UNION {{Stored(d)[k] : k \in First(Stored(d), n)} : d \in FoldersAt(kdirectory)}
RecordOf(i) == LET f == symbolic[i].file IN Listing(f[1])[f[2]]
VolumeOf(i) == RootOf(symbolic[i].path[1])
OpensListed ==
  Command =>
    /\ \A i \in Opened : symbolic[i].through \in VolumeOf(i)
    /\ kdirectory # <<>> => \A n \in Names :
         /\ \A i \in Lookup(n) \ {0} : symbolic[i].open # "folder" => RecordOf(i) \in Here(n)
         /\ (\A k \in 2..Len(kdirectory) : kdirectory[k] \notin Short) =>
              \A r \in Here(n) : r.kind = "file" /\ n \in Short =>
                 \A i \in Lookup(n) : i # 0 /\ RecordOf(i) = r

-----------------------------------------------------------------------------
(* What the theorems assume of a card.                                     *)

\* Every partition begins with its label, there are no other labels, and no folder is
\* the root of a partition.
Roots == {Volumes[v] : v \in DOMAIN Volumes}
Labelled ==
  /\ \A d \in Roots \ {NoFolder} : Disk[d] # <<>> /\ Disk[d][1].kind = "label"
  /\ \A d \in DOMAIN Disk : \A k \in DOMAIN Disk[d] :
       /\ Disk[d][k].kind = "label" => d \in Roots /\ k = 1 /\ Disk[d][k].name # NoName
       /\ Disk[d][k].kind = "folder" => Disk[d][k].clu \notin Roots

\* What fopen needs of a card: no two partitions have the same label, and labels have
\* eight characters; ls shows no two folders of one name in the root folder of a
\* partition; labels have no cluster, folders have one.
LabelOf(v) == Disk[Volumes[v]][1].name
Distinct ==
  /\ \A v \in DOMAIN Volumes, w \in DOMAIN Volumes :
       Volumes[v] # NoFolder /\ Volumes[w] # NoFolder /\ LabelOf(v) = LabelOf(w) => v = w
  /\ \A v \in DOMAIN Volumes : Volumes[v] # NoFolder => LabelOf(v) \notin Short
  /\ \A d \in Roots \ {NoFolder} : \A j \in DOMAIN Shown(d), k \in DOMAIN Shown(d) :
       /\ Shown(d)[j].kind = "folder" /\ Shown(d)[k].kind = "folder"
       /\ Shown(d)[j].name = Shown(d)[k].name
       => j = k
  /\ \A d \in DOMAIN Disk : \A k \in DOMAIN Disk[d] :
       /\ Disk[d][k].kind = "label" => Disk[d][k].clu = 0
       /\ Disk[d][k].kind = "folder" => Disk[d][k].clu # 0
=============================================================================
