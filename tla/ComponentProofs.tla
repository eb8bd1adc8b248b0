--------------------------- MODULE ComponentProofs ---------------------------
(***************************************************************************)
(* Proofs about Components, for every set of object files and every size of *)
(* the two tables.                                                         *)
(***************************************************************************)
EXTENDS Components, TLAPS, FiniteSetTheorems, SequenceTheorems, WellFoundedInduction

LEMMA LeastIn ==
  ASSUME NEW S \in SUBSET Nat, S # {}
  PROVE  Least(S) \in S /\ \A y \in S : Least(S) <= y
<1> DEFINE R == {ss \in Nat \X Nat : ss[1] < ss[2]}
<1>1. IsWellFoundedOn(R, Nat)
  BY NatLessThanWellFounded DEF OpToRel
<1>2. PICK x \in S : \A y \in S : ~(<<y, x>> \in R)
  <2> HIDE DEF R
  <2> QED BY <1>1, WFMin
<1>3. ASSUME NEW y \in S PROVE x <= y
  <2>1. x \in Nat /\ y \in Nat
    OBVIOUS
  <2>2. ~(<<y, x>>[1] < <<y, x>>[2])
    BY <1>2, <2>1
  <2> QED BY <2>1, <2>2
<1> QED BY <1>3 DEF Least

LEMMA GreatestIn ==
  ASSUME NEW n \in Nat, NEW S \in SUBSET (1..n), S # {}
  PROVE  Greatest(S) \in S
<1> DEFINE T == {n - x : x \in S}
<1>1. T \in SUBSET Nat /\ T # {}
  <2>1. \A x \in S : n - x \in Nat
    OBVIOUS
  <2> QED BY <2>1
<1>2. Least(T) \in T /\ \A u \in T : Least(T) <= u
  <2> HIDE DEF T
  <2> QED BY <1>1, LeastIn
<1>3. PICK x \in S : Least(T) = n - x
  BY <1>2
<1>4. ASSUME NEW y \in S PROVE x >= y
  <2>1. n - y \in T
    OBVIOUS
  <2>2. n - x <= n - y
    BY <1>2, <1>3, <2>1
  <2>3. x \in 1..n /\ y \in 1..n
    OBVIOUS
  <2> QED BY ONLY <2>2, <2>3, n \in Nat
<1> QED BY <1>4 DEF Greatest

-----------------------------------------------------------------------------
(* Types.                                                                  *)

FileTypes ==
  /\ filename \in [1..Slots -> Files \cup {Nothing}]
  /\ sym \in [1..Slots -> 0..SchedSym] /\ current_file \in 0..Slots

SymbolTypes ==
  /\ ksym_name \in [1..Syms -> Names \cup {Nothing}] /\ marked \in [1..Syms -> BOOLEAN]
  /\ opera \in [1..Syms -> Seq([op : Ops, page : Pages])]
  /\ rm \in [1..Syms -> Pages \cup {Null}] /\ file \in [1..Syms -> 0..Slots]
  /\ left \in [1..Syms -> SUBSET Nat]

PageTypes ==
  /\ sched_type \in Pages \cup {Null}
  /\ code \in [Pages -> Files \cup {Nothing}]
  /\ links \in [Pages -> SUBSET [name : Names, op : OpNames, page : Pages]]

PinTypes == hardware \in [1..Slots -> Seq(Pins)] /\ app_count \in [Pins -> 0..1]

\* A registered component has an entry in cfile.
HasEntry == \A s \in Marked : file[s] # 0

TInv == FileTypes /\ SymbolTypes /\ PageTypes /\ PinTypes /\ JobOK /\ HasEntry

LEMMA TInvIsTypeOK == TInv => TypeOK
BY DEF TInv, FileTypes, SymbolTypes, PageTypes, PinTypes, TypeOK

LEMMA TInvInit == Init => TInv
BY BoundAssumption, NamesAssumption, SMT
DEF Init, TInv, FileTypes, SymbolTypes, PageTypes, PinTypes, JobOK, HasEntry, Marked, Idle,
    SchedSym

LEMMA Untouched ==
  /\ UNCHANGED <<table, current_file>> => (FileTypes => FileTypes')
  /\ UNCHANGED symbols => (SymbolTypes => SymbolTypes') /\ (HasEntry => HasEntry')
  /\ UNCHANGED <<sched_type, memory>> => (PageTypes => PageTypes')
  /\ UNCHANGED devices => (PinTypes => PinTypes')
  /\ UNCHANGED <<job, code, current_file>> => (JobOK => JobOK')
BY DEF table, symbols, memory, devices, FileTypes, SymbolTypes, HasEntry, Marked, PageTypes,
       PinTypes, JobOK

LEMMA JobEnds == job' = Idle => JobOK'
BY BoundAssumption DEF Idle, JobOK

LEMMA JobStarts ==
  ASSUME NEW f \in Files, NEW s \in 0..Syms, current_file' # 0,
         job' = [stage |-> "load", file |-> f, swap |-> s, page |-> Null]
  PROVE  JobOK'
BY DEF JobOK

\* A job that goes on changes its stage or its page only.
LEMMA JobGoesOn ==
  ASSUME JobOK, job.stage # "idle", UNCHANGED current_file,
         NEW st \in {"load", "relocate", "init", "exit", "exit without init"},
         NEW pg \in Pages, job' = [job EXCEPT !.stage = st, !.page = pg],
         code'[pg] = job.file, st \in {"exit", "exit without init"} => job.swap # 0
  PROVE  JobOK'
BY NamesAssumption DEF JobOK

LEMMA JobHas ==
  ASSUME JobOK, job.stage # "idle"
  PROVE  /\ job.file \in Files /\ job.swap \in 0..Syms /\ current_file # 0
         /\ job.stage # "load" => job.page \in Pages /\ code[job.page] = job.file
BY DEF JobOK

LEMMA FirstFree ==
  ASSUME FreeFiles # {} PROVE Least(FreeFiles) \in FreeFiles /\ Least(FreeFiles) \in 1..Slots
<1>1. FreeFiles \in SUBSET Nat /\ FreeFiles \subseteq 1..Slots
  BY BoundAssumption DEF FreeFiles
<1> QED BY <1>1, LeastIn

LEMMA FirstUnused ==
  ASSUME NotUsed # {} PROVE Least(NotUsed) \in NotUsed /\ Least(NotUsed) \in 1..Syms
<1>1. NotUsed \in SUBSET Nat /\ NotUsed \subseteq 1..Syms
  BY BoundAssumption DEF NotUsed
<1> QED BY <1>1, LeastIn

LEMMA NamedSymbols ==
  ASSUME NEW n, Named(n) # {}
  PROVE  /\ Least(Named(n)) \in Named(n) /\ Greatest(Named(n)) \in Named(n)
         /\ Named(n) \subseteq Marked /\ Marked \subseteq 1..Syms
<1>1. /\ Named(n) \in SUBSET (1..Syms) /\ Named(n) \in SUBSET Nat
      /\ Named(n) \subseteq Marked /\ Marked \subseteq 1..Syms
  BY BoundAssumption DEF Named, Marked
<1> QED BY <1>1, LeastIn, GreatestIn, BoundAssumption

LEMMA AboutFile ==
  ASSUME NEW f \in Files
  PROVE  /\ About[f].name \in Names \cup {Null} /\ About[f].pin \in Pins \cup {Null}
         /\ About[f].kind \in Kinds /\ About[f].ops \in Seq(Ops)
         /\ About[f].needs \subseteq Names \X OpNames
BY AboutAssumption

LEMMA CallsType ==
  ASSUME NEW ops \in Seq(Ops), NEW p \in Pages
  PROVE  Calls(ops, p) \in Seq([op : Ops, page : Pages])
<1> DEFINE e(k) == [op |-> ops[k], page |-> p]
<1>1. Len(ops) \in Nat /\ \A k \in 1..Len(ops) : e(k) \in [op : Ops, page : Pages]
  BY LenProperties, ElementOfSeq
<1> HIDE DEF e
<1>2. [k \in 1..Len(ops) |-> e(k)] \in Seq([op : Ops, page : Pages])
  BY <1>1, IsASeq
<1> QED BY <1>2 DEF Calls, e

LEMMA RedirectedType ==
  ASSUME NEW old \in Seq([op : Ops, page : Pages]), NEW p \in Pages, NEW k
  PROVE  LET new == [i \in 1..Len(old) |-> [old[i] EXCEPT !.page = IF i <= k THEN p ELSE @]]
         IN  /\ new \in Seq([op : Ops, page : Pages]) /\ Len(new) = Len(old)
             /\ \A i \in 1..Len(old) :
                  new[i].op = old[i].op /\ new[i].page = IF i <= k THEN p ELSE old[i].page
<1> DEFINE E == [op : Ops, page : Pages]
           e(i) == [old[i] EXCEPT !.page = IF i <= k THEN p ELSE @]
<1>1. Len(old) \in Nat /\ \A i \in 1..Len(old) : old[i] \in E
  BY LenProperties, ElementOfSeq
<1>2. \A i \in 1..Len(old) : /\ e(i) \in E /\ e(i).op = old[i].op
                             /\ e(i).page = IF i <= k THEN p ELSE old[i].page
  BY <1>1
<1> HIDE DEF E, e
<1>3. [i \in 1..Len(old) |-> e(i)] \in Seq(E)
  BY <1>1, <1>2, IsASeq
<1>4. Len([i \in 1..Len(old) |-> e(i)]) = Len(old)
  BY <1>1
<1> QED BY <1>2, <1>3, <1>4 DEF E, e

LEMMA OperationTypes ==
  ASSUME SymbolTypes, NEW s \in 1..Syms, NEW e \in Table(s)
  PROVE  e.op \in Ops /\ e.page \in Pages
<1>1. PICK k \in 1..Len(opera[s]) : e = opera[s][k]
  BY DEF Table
<1>2. opera[s] \in Seq([op : Ops, page : Pages])
  BY DEF SymbolTypes
<1>3. e \in [op : Ops, page : Pages]
  BY <1>1, <1>2, ElementOfSeq
<1> QED BY <1>3

LEMMA LiveOperations ==
  ASSUME NEW s, NEW e \in Live(s) PROVE e \in Table(s)
BY DEF Live, Table

LEMMA LoadingTypes ==
  ASSUME TInv,
         \/ \E f \in Files : Insert(f)
         \/ \E f \in SwapFiles, n \in Names : StartSwap(f, n)
         \/ NotElf \/ \E p \in Pages : Load(p)
         \/ Relocate
  PROVE  TInv'
<1> USE DEF TInv
<1>1. ASSUME NEW f \in Files, Insert(f) PROVE TInv'
  <2>1. Least(FreeFiles) \in 1..Slots /\ Slots \in Nat
    BY <1>1, FirstFree, BoundAssumption DEF Insert
  <2>2. filename' = [filename EXCEPT ![current_file'] = f] /\ current_file' \in 1..Slots
        /\ UNCHANGED sym
    BY <1>1, <2>1 DEF Insert
  <2>3. FileTypes'
    BY <2>1, <2>2 DEF FileTypes
  <2>4. JobOK'
    <3>1. job' = [stage |-> "load", file |-> f, swap |-> 0, page |-> Null]
      BY <1>1 DEF Insert, Idle
    <3>2. 0 \in 0..Syms /\ current_file' # 0
      BY <2>1, <2>2, BoundAssumption
    <3> QED BY <3>1, <3>2, JobStarts
  <2> QED BY <1>1, <2>3, <2>4, Untouched DEF Insert, memory
<1>2. ASSUME NEW f \in SwapFiles, NEW n \in Names, StartSwap(f, n) PROVE TInv'
  <2>1. Greatest(Named(n)) \in Marked /\ Greatest(Named(n)) \in 1..Syms /\ f \in Files
    BY <1>2, NamedSymbols, SwapAssumption DEF StartSwap
  <2>2. file[Greatest(Named(n))] \in 0..Slots /\ file[Greatest(Named(n))] # 0
    BY <2>1 DEF SymbolTypes, HasEntry
  <2>3. FileTypes'
    BY <1>2, <2>2 DEF StartSwap, table, FileTypes
  <2>4. JobOK'
    <3>1. job' = [stage |-> "load", file |-> f, swap |-> Greatest(Named(n)), page |-> Null]
      BY <1>2 DEF StartSwap, Idle
    <3>2. Greatest(Named(n)) \in 0..Syms
      BY <2>1, BoundAssumption
    <3> QED BY <1>2, <2>1, <2>2, <3>1, <3>2, JobStarts DEF StartSwap
  <2> QED BY <1>2, <2>3, <2>4, Untouched DEF StartSwap
<1>3. CASE NotElf
  BY <1>3, JobEnds, Untouched DEF NotElf
<1>4. ASSUME NEW p \in Pages, Load(p) PROVE TInv'
  <2>1. job.file \in Files /\ job.stage = "load"
    BY <1>4, JobHas DEF Load
  <2>2. PageTypes' /\ code'[p] = job.file
    BY <1>4, <2>1 DEF Load, PageTypes
  <2>3. JobOK'
    BY <1>4, <2>1, <2>2, JobGoesOn DEF Load
  <2> QED BY <1>4, <2>2, <2>3, Untouched DEF Load
<1>5. CASE Relocate
  <2>1. job.file \in Files /\ job.page \in Pages /\ code[job.page] = job.file
    BY <1>5, JobHas DEF Relocate
  <2>2. Resolved(job.file) \subseteq [name : Names, op : OpNames, page : Pages]
    <3>1. About[job.file].needs \subseteq Names \X OpNames
      BY <2>1, AboutFile
    <3>2. \A n, o : \A s \in Searched \cap Named(n) : s \in 1..Syms
      BY DEF Searched
    <3>3. ASSUME NEW n \in Names, NEW o \in OpNames, NEW l \in Found(n, o)
          PROVE  l \in [name : Names, op : OpNames, page : Pages]
      <4>1. PICK s \in Searched \cap Named(n) : \E e \in Table(s) :
                   l = [name |-> n, op |-> o, page |-> e.page]
        BY DEF Found
      <4> QED BY <3>2, <4>1, OperationTypes
    <3> QED BY <3>1, <3>3 DEF Resolved
  <2>3. PageTypes'
    BY <1>5, <2>1, <2>2 DEF Relocate, PageTypes
  <2>4. JobOK'
    <3>1. \A st : [job EXCEPT !.stage = st] = [job EXCEPT !.stage = st, !.page = job.page]
      BY DEF JobOK
    <3> QED BY <1>5, <2>1, <3>1, JobEnds, JobGoesOn DEF Relocate
  <2> QED BY <1>5, <2>3, <2>4, Untouched DEF Relocate
<1> QED BY <1>1, <1>2, <1>3, <1>4, <1>5

LEMMA RegisteringTypes ==
  ASSUME TInv, RegisterDriver \/ RefuseDriver \/ RegisterScheduler \/ SwapIn \/ RefuseSwap
  PROVE  TInv'
<1> USE DEF TInv
<1>1. /\ job.file \in Files /\ job.page \in Pages /\ code[job.page] = job.file
      /\ job.swap \in 0..Syms /\ current_file # 0 /\ job.stage = "init"
  BY JobHas DEF RegisterDriver, RefuseDriver, RegisterScheduler, SwapIn, RefuseSwap, Initialising
<1>2. \A s \in 0..SchedSym : sym' = [sym EXCEPT ![current_file] = s]
                             /\ UNCHANGED <<filename, current_file>> => FileTypes'
  BY DEF FileTypes
<1>3. CASE RegisterDriver
  <2>1. Least(NotUsed) \in 1..Syms /\ Least(NotUsed) \in 0..SchedSym
    BY <1>3, FirstUnused, BoundAssumption DEF RegisterDriver, MayRegister, SchedSym
  <2>2. New.name \in Names /\ New.ops \in Seq(Ops)
    BY <1>1, <1>3, AboutFile DEF RegisterDriver, MayRegister, New
  <2>3. Calls(New.ops, job.page) \in Seq([op : Ops, page : Pages])
    BY <1>1, <2>2, CallsType
  <2>4. SymbolTypes'
    BY <1>1, <1>3, <2>1, <2>2, <2>3 DEF RegisterDriver, SymbolTypes, FileTypes
  <2>5. HasEntry'
    BY <1>1, <1>3, <2>1 DEF RegisterDriver, HasEntry, Marked, SymbolTypes
  <2>6. FileTypes'
    BY <1>2, <1>3, <2>1 DEF RegisterDriver
  <2> QED BY <1>3, <2>4, <2>5, <2>6, JobEnds, Untouched DEF RegisterDriver
<1>4. 0 \in 0..SchedSym /\ SchedSym \in 0..SchedSym
  BY BoundAssumption DEF SchedSym
<1>5. CASE RefuseDriver
  BY <1>2, <1>4, <1>5, JobEnds, Untouched DEF RefuseDriver
<1>6. CASE RegisterScheduler
  <2>1. PageTypes'
    BY <1>1, <1>6 DEF RegisterScheduler, PageTypes, memory
  <2> QED BY <1>2, <1>4, <1>6, <2>1, JobEnds, Untouched DEF RegisterScheduler
<1>7. CASE SwapIn
  <2>1. job.swap \in 1..Syms
    BY <1>1, <1>7, BoundAssumption DEF SwapIn
  <2>2. opera[job.swap] \in Seq([op : Ops, page : Pages])
    BY <2>1 DEF SymbolTypes
  <2>3. PICK k \in 0..Compared : /\ opera' = [opera EXCEPT ![job.swap] = Redirected(k)]
                                 /\ Accepted(k) \/ Refused(k)
    BY <1>7 DEF SwapIn
  <2>6. Redirected(k) \in Seq([op : Ops, page : Pages])
    BY <1>1, <2>2, RedirectedType DEF Redirected, Old
  <2>7. left' \in [1..Syms -> SUBSET Nat]
    <3>1. Len(Old) \in Nat /\ k \in Nat /\ left \in [1..Syms -> SUBSET Nat]
      BY <2>2, LenProperties DEF Old, Compared, SymbolTypes
    <3>2. \A X : {i \in (k + 1)..Len(Old) : i \in X \/ Old[i].page = rm[job.swap]} \in SUBSET Nat
      BY <3>1
    <3>3. left[job.swap] \ (1..k) \in SUBSET Nat
      BY <2>1, <3>1
    <3>4. PICK S \in SUBSET Nat : left' = [left EXCEPT ![job.swap] = S]
      BY <2>3, <3>2, <3>3 DEF Accepted, Refused
    <3> QED BY <3>1, <3>4
  <2>4. SymbolTypes' /\ HasEntry'
    BY <1>7, <2>3, <2>6, <2>7 DEF SwapIn, SymbolTypes, HasEntry, Marked
  <2>5. JobOK'
    <3>1. [job EXCEPT !.stage = "exit"] = [job EXCEPT !.stage = "exit", !.page = job.page]
      BY DEF JobOK
    <3>2. job' = Idle \/ job' = [job EXCEPT !.stage = "exit"]
      BY <2>3 DEF Accepted, Refused
    <3> QED BY <1>1, <1>7, <2>1, <3>1, <3>2, JobEnds, JobGoesOn DEF SwapIn, memory
  <2> QED BY <1>7, <2>4, <2>5, Untouched DEF SwapIn
<1>8. CASE RefuseSwap
  BY <1>8, JobEnds, Untouched DEF RefuseSwap, memory
<1> QED BY <1>3, <1>5, <1>6, <1>7, <1>8

LEMMA UnregisteredType ==
  ASSUME SymbolTypes, NEW n
  PROVE  /\ Unregistered(n) \in [1..Syms -> BOOLEAN]
         /\ \A s \in 1..Syms : Unregistered(n)[s] => marked[s]
<1>1. marked \in [1..Syms -> BOOLEAN]
  BY DEF SymbolTypes
<1>2. \A x : /\ [marked EXCEPT ![x] = FALSE] \in [1..Syms -> BOOLEAN]
             /\ \A s \in 1..Syms : [marked EXCEPT ![x] = FALSE][s] => marked[s]
  BY <1>1
<1> QED BY <1>1, <1>2 DEF Unregistered

LEMMA RemovingTypes ==
  ASSUME TInv, ExitOld \/ \E n \in Names : Remove(n)
  PROVE  TInv'
<1> USE DEF TInv
<1>1. CASE ExitOld
  <2>1. job.file \in Files /\ job.page \in Pages
    BY <1>1, JobHas DEF ExitOld
  <2>2. FileTypes'
    BY <1>1, <2>1 DEF ExitOld, FileTypes
  <2>3. marked' \in [1..Syms -> BOOLEAN] /\ \A s \in 1..Syms : marked'[s] => marked[s]
    BY <1>1, UnregisteredType DEF ExitOld, SymbolTypes
  <2>4. SymbolTypes' /\ HasEntry'
    BY <1>1, <2>1, <2>3 DEF ExitOld, SymbolTypes, HasEntry, Marked
  <2>5. PageTypes'
    BY <1>1 DEF ExitOld, PageTypes
  <2> QED BY <1>1, <2>2, <2>4, <2>5, JobEnds, Untouched DEF ExitOld
<1>2. ASSUME NEW n \in Names, Remove(n) PROVE TInv'
  <2>1. FileTypes'
    BY <1>2 DEF Remove, FileTypes
  <2>2. marked' \in [1..Syms -> BOOLEAN] /\ \A s \in 1..Syms : marked'[s] => marked[s]
    BY <1>2, UnregisteredType DEF Remove
  <2>3. SymbolTypes' /\ HasEntry'
    BY <1>2, <2>2 DEF Remove, SymbolTypes, HasEntry, Marked
  <2>4. PageTypes'
    BY <1>2 DEF Remove, PageTypes
  <2>5. job' = Idle
    BY <1>2 DEF Remove
  <2> QED BY <1>2, <2>1, <2>3, <2>4, <2>5, JobEnds, Untouched DEF Remove
<1> QED BY <1>1, <1>2

LEMMA ClaimTypes ==
  ASSUME PinTypes, NEW a \in Pins, Claim(a) PROVE PinTypes'
<1>1. CASE app_count[a] # 0
  BY <1>1 DEF Claim, PinTypes, devices
<1>2. CASE app_count[a] = 0
  <2>1. \A s \in Seq(Pins) : Append(s, a) \in Seq(Pins)
    OBVIOUS
  <2>2. hardware' \in [1..Slots -> Seq(Pins)]
    BY <1>2, <2>1 DEF Claim, PinTypes
  <2>3. app_count' \in [Pins -> 0..1]
    BY <1>2 DEF Claim, PinTypes
  <2> QED BY <2>2, <2>3 DEF PinTypes
<1> QED BY <1>1, <1>2

\* Who asks for a pin gets one that a file names.
LEMMA Claims ==
  ASSUME TInv, (\E n \in Names, o \in OpNames : Exec(n, o)) \/ \E a \in Pins : Request(a)
  PROVE  \E a \in Pins : Claim(a)
<1>1. ASSUME NEW n \in Names, NEW o \in OpNames, Exec(n, o) PROVE \E a \in Pins : Claim(a)
  <2>1. PICK s \in Named(n) : \E e \in Live(s) :
               /\ code[e.page] # Nothing /\ About[code[e.page]].pin # Null
               /\ Claim(About[code[e.page]].pin)
    BY <1>1 DEF Exec
  <2>2. PICK e \in Live(s) : /\ code[e.page] # Nothing /\ About[code[e.page]].pin # Null
                             /\ Claim(About[code[e.page]].pin)
    BY <2>1
  <2>3. s \in 1..Syms
    BY DEF Named, Marked
  <2>4. e.page \in Pages
    BY <2>3, LiveOperations, OperationTypes DEF TInv
  <2>5. code[e.page] \in Files
    BY <2>2, <2>4 DEF TInv, PageTypes
  <2>6. About[code[e.page]].pin \in Pins
    BY <2>2, <2>5, AboutFile
  <2> QED BY <2>2, <2>6
<1> QED BY <1>1 DEF Request

LEMMA AskingTypes ==
  ASSUME TInv, (\E n \in Names, o \in OpNames : Exec(n, o)) \/ \E a \in Pins : Request(a)
  PROVE  TInv'
<1>1. PinTypes'
  BY Claims, ClaimTypes DEF TInv
<1>2. UNCHANGED <<table, symbols, sched_type, memory, current_file, job>>
  BY DEF Exec, Request
<1> QED BY <1>1, <1>2, Untouched DEF TInv, memory

LEMMA TInvStep == TInv /\ [Next]_vars => TInv'
<1> SUFFICES ASSUME TInv, [Next]_vars PROVE TInv'
  OBVIOUS
<1>1. CASE UNCHANGED vars
  BY <1>1, Untouched DEF vars, memory, TInv
<1> QED BY <1>1, LoadingTypes, RegisteringTypes, RemovingTypes, AskingTypes DEF Next

\* The tables of the component manager keep their types and ranges, whatever is
\* inserted, swapped, removed, executed or asked for; a job's page holds the job's
\* file from its loading to its end, and a pin is claimed at most once.
THEOREM ComponentTypesHold == Spec => []TypeOK
BY TInvIsTypeOK, TInvInit, TInvStep, PTL DEF Spec

-----------------------------------------------------------------------------
(* The tables.                                                             *)

\* What users must not ask for: a scheduler file as the replacement of a driver,
\* and a replacement that cannot be linked for a component that was itself
\* swapped in (it registers no name, so nothing unregisters it).
SafeSwap ==
  /\ job.swap # 0 => About[job.file].kind = "DRV_COM"
  /\ job.stage = "exit without init" => ExitName(job.swap) # Null

NamesDiffer ==
  \A s, t \in 1..Syms : ksym_name[s] = ksym_name[t] /\ ksym_name[s] # Nothing => s = t

\* The pages of a symbol: its exit_compt's, and those of its operations.
PagesOf(s) == {rm[s]} \cup {e.page : e \in Live(s)}

Registered(s) ==
  /\ file[s] # 0 /\ rm[s] # Null
  /\ sym[file[s]] = s
  /\ filename[file[s]] = code[rm[s]] /\ code[rm[s]] # Nothing
  /\ ksym_name[s] \in Names
  /\ About[code[rm[s]]].name \in {Null, ksym_name[s]}

Linked(p) ==
  \A need \in About[code[p]].needs : \E l \in links[p] : l.name = need[1] /\ l.op = need[2]

Offers(p, e) ==
  /\ code[p] # Nothing
  /\ \E k \in DOMAIN About[code[p]].ops : About[code[p]].ops[k].name = e.op.name

Loaded(s) == 1 \notin left[s] /\ \A e \in Live(s) : Offers(e.page, e) /\ Linked(e.page)

TablesLinked == \A s \in Marked : Registered(s)

OperationsLoaded == \A s \in Marked : Loaded(s)

PagesApart == \A s, t \in Marked : s # t => PagesOf(s) \cap PagesOf(t) = {}

\* What the letter being handled has in hand.
JobInv ==
  /\ job.stage # "idle" /\ job.swap = 0 =>
       /\ filename[current_file] = job.file
       /\ \A s \in Marked : file[s] # current_file
  /\ job.stage # "idle" /\ job.swap # 0 =>
       job.swap \in Marked /\ current_file = file[job.swap]
  /\ job.stage \in {"relocate", "init", "exit without init"} =>
       \A s \in Marked : job.page \notin PagesOf(s)
  /\ job.stage \in {"init", "exit"} => Linked(job.page)
  /\ job.stage = "exit" =>
       /\ \A s \in Marked \ {job.swap} : job.page \notin PagesOf(s)
       /\ job.page # rm[job.swap]
       /\ \A e \in Live(job.swap) : e.page # rm[job.swap]
       /\ About[job.file].name = Null
  /\ job.stage = "idle" => job.swap = 0

\* The inductive invariant.
CInv == /\ TInv /\ NamesDiffer /\ TablesLinked /\ OperationsLoaded /\ PagesApart
        /\ JobInv

LEMMA CInvInit == Init => CInv
<1> SUFFICES ASSUME Init PROVE CInv
  OBVIOUS
<1>1. TInv
  BY TInvInit
<1>2. Marked = {}
  BY DEF Init, Marked
<1>3. NamesDiffer
  BY DEF Init, NamesDiffer
<1>4. JobInv
  BY DEF Init, JobInv, Idle
<1> QED BY <1>1, <1>2, <1>3, <1>4
        DEF CInv, TablesLinked, OperationsLoaded, PagesApart

\* What is said of a symbol depends on its own entries and pages only.
LEMMA SamePages ==
  ASSUME NEW s, opera'[s] = opera[s], rm'[s] = rm[s], left'[s] = left[s]
  PROVE  Live(s)' = Live(s) /\ PagesOf(s)' = PagesOf(s)
<1>1. Live(s)' = Live(s)
  BY DEF Live
<1> QED BY <1>1 DEF PagesOf

LEMMA StaysLoaded ==
  ASSUME NEW s, opera'[s] = opera[s], rm'[s] = rm[s], left'[s] = left[s], Loaded(s),
         \A p \in PagesOf(s) : code'[p] = code[p] /\ links'[p] = links[p]
  PROVE  Loaded(s)'
<1> SUFFICES ASSUME NEW e \in Live(s)' PROVE Offers(e.page, e)' /\ Linked(e.page)'
  BY DEF Loaded
<1>1. e \in Live(s) /\ Offers(e.page, e) /\ Linked(e.page)
  BY SamePages DEF Loaded
<1>2. code'[e.page] = code[e.page] /\ links'[e.page] = links[e.page]
  BY <1>1 DEF PagesOf
<1> QED BY <1>1, <1>2 DEF Offers, Linked

LEMMA StaysRegistered ==
  ASSUME NEW s, rm'[s] = rm[s], Registered(s), code'[rm[s]] = code[rm[s]],
         file'[s] = file[s], ksym_name'[s] = ksym_name[s],
         sym'[file[s]] = sym[file[s]], filename'[file[s]] = filename[file[s]]
  PROVE  Registered(s)'
BY DEF Registered

\* The pages of a registered component hold files, so a free page is not one.
LEMMA PagesHoldFiles ==
  ASSUME NEW s, Registered(s), Loaded(s), NEW p \in PagesOf(s)
  PROVE  code[p] # Nothing
BY DEF PagesOf, Registered, Loaded, Offers

\* The symbol table is left alone, and so are the pages and the entries in cfile
\* of every registered component.
LEMMA SymbolsUntouched ==
  ASSUME CInv, UNCHANGED symbols,
         \A s \in Marked :
           /\ \A p \in PagesOf(s) : code'[p] = code[p] /\ links'[p] = links[p]
           /\ sym'[file[s]] = sym[file[s]] /\ filename'[file[s]] = filename[file[s]]
  PROVE  /\ NamesDiffer' /\ TablesLinked' /\ OperationsLoaded' /\ PagesApart'
         /\ Marked' = Marked /\ \A s : PagesOf(s)' = PagesOf(s) /\ Live(s)' = Live(s)
<1>1. UNCHANGED <<ksym_name, marked, opera, rm, file, left>>
  BY DEF symbols
<1>2. Marked' = Marked
  BY <1>1 DEF Marked
<1>3. \A s : PagesOf(s)' = PagesOf(s) /\ Live(s)' = Live(s)
  BY <1>1, SamePages
<1>4. ASSUME NEW s \in Marked PROVE Loaded(s)' /\ Registered(s)'
  <2>1. Loaded(s) /\ Registered(s) /\ rm[s] \in PagesOf(s)
    BY DEF CInv, TablesLinked, OperationsLoaded, PagesOf
  <2> QED BY <1>1, <2>1, StaysLoaded, StaysRegistered
<1>5. NamesDiffer'
  BY <1>1 DEF CInv, NamesDiffer
<1> QED BY <1>2, <1>3, <1>4, <1>5 DEF CInv, TablesLinked, OperationsLoaded, PagesApart

LEMMA MarkedTypes ==
  ASSUME CInv, NEW s \in Marked
  PROVE  /\ s \in 1..Syms /\ file[s] \in 1..Slots /\ rm[s] \in Pages /\ code[rm[s]] \in Files
         /\ rm[s] \in PagesOf(s) /\ sym[file[s]] = s /\ filename[file[s]] # Nothing
         /\ ksym_name[s] \in Names /\ Registered(s) /\ Loaded(s)
<1>1. s \in 1..Syms /\ Registered(s) /\ Loaded(s) /\ TInv
  BY DEF CInv, TablesLinked, OperationsLoaded, Marked
<1>2. file[s] \in 0..Slots /\ rm[s] \in Pages \cup {Null}
  BY <1>1 DEF TInv, SymbolTypes
<1>3. file[s] \in 1..Slots /\ rm[s] \in Pages
  BY <1>1, <1>2, BoundAssumption DEF Registered
<1> QED BY <1>1, <1>3 DEF Registered, TInv, PageTypes, PagesOf

LEMMA InsertStep ==
  ASSUME CInv, TInv', NEW f \in Files, Insert(f) PROVE CInv'
<1>1. /\ Least(FreeFiles) \in FreeFiles /\ Least(FreeFiles) \in 1..Slots
      /\ current_file' = Least(FreeFiles)
      /\ filename' = [filename EXCEPT ![Least(FreeFiles)] = f]
      /\ UNCHANGED <<sym, symbols, memory>>
      /\ job' = [stage |-> "load", file |-> f, swap |-> 0, page |-> Null]
  BY FirstFree DEF Insert, Idle
<1>2. \A s \in Marked : file[s] # current_file'
  BY <1>1, MarkedTypes DEF FreeFiles
<1>3. filename'[current_file'] = f /\ \A c \in 1..Slots : c # current_file' => filename'[c] = filename[c]
  BY <1>1 DEF CInv, TInv, FileTypes
<1>4. \A s \in Marked : /\ \A p \in PagesOf(s) : code'[p] = code[p] /\ links'[p] = links[p]
                        /\ sym'[file[s]] = sym[file[s]]
                        /\ filename'[file[s]] = filename[file[s]]
  BY <1>1, <1>2, <1>3, MarkedTypes DEF memory
<1>5. /\ NamesDiffer' /\ TablesLinked' /\ OperationsLoaded' /\ PagesApart'
      /\ Marked' = Marked
  BY <1>1, <1>4, SymbolsUntouched
<1>6. JobInv'
  BY <1>1, <1>2, <1>3, <1>5 DEF JobInv, symbols
<1> QED BY <1>5, <1>6 DEF CInv

LEMMA StartSwapStep ==
  ASSUME CInv, TInv', NEW f \in SwapFiles, NEW n \in Names, StartSwap(f, n) PROVE CInv'
<1>1. /\ Greatest(Named(n)) \in Marked /\ current_file' = file[Greatest(Named(n))]
      /\ UNCHANGED <<filename, sym, symbols, memory>>
      /\ job' = [stage |-> "load", file |-> f, swap |-> Greatest(Named(n)), page |-> Null]
  BY NamedSymbols DEF StartSwap, Idle, table
<1>2. Greatest(Named(n)) # 0
  BY <1>1, MarkedTypes, BoundAssumption
<1>3. /\ NamesDiffer' /\ TablesLinked' /\ OperationsLoaded' /\ PagesApart'
      /\ Marked' = Marked
  BY <1>1, SymbolsUntouched DEF memory
<1>4. JobInv'
  BY <1>1, <1>2, <1>3 DEF JobInv, symbols
<1> QED BY <1>3, <1>4 DEF CInv

LEMMA NotElfStep ==
  ASSUME CInv, TInv', NotElf PROVE CInv'
<1>1. UNCHANGED <<filename, sym, symbols, code, links>> /\ job' = Idle
  BY DEF NotElf, table, memory
<1>2. NamesDiffer' /\ TablesLinked' /\ OperationsLoaded' /\ PagesApart'
  BY <1>1, SymbolsUntouched
<1>3. JobInv'
  BY <1>1 DEF JobInv, Idle
<1> QED BY <1>2, <1>3 DEF CInv

LEMMA LoadStep ==
  ASSUME CInv, TInv', NEW p \in Pages, Load(p) PROVE CInv'
<1>1. /\ job.stage = "load" /\ code[p] = Nothing
      /\ \A q \in Pages \ {p} : code'[q] = code[q] /\ links'[q] = links[q]
      /\ UNCHANGED <<filename, sym, symbols, current_file>>
      /\ job' = [job EXCEPT !.stage = "relocate", !.page = p]
  BY DEF Load, table, CInv, TInv, PageTypes
<1>2. \A s \in Marked : p \notin PagesOf(s) /\ PagesOf(s) \subseteq Pages
  <2>1. \A s \in Marked : p \notin PagesOf(s)
    BY <1>1, MarkedTypes, PagesHoldFiles
  <2>2. \A s \in Marked : \A e \in Live(s) : e.page \in Pages
    BY MarkedTypes, LiveOperations, OperationTypes DEF CInv, TInv
  <2> QED BY <2>1, <2>2, MarkedTypes DEF PagesOf
<1>3. /\ NamesDiffer' /\ TablesLinked' /\ OperationsLoaded' /\ PagesApart'
      /\ Marked' = Marked /\ \A s : PagesOf(s)' = PagesOf(s)
  BY <1>1, <1>2, SymbolsUntouched
<1>4. job'.stage = "relocate" /\ job'.page = p /\ job'.file = job.file /\ job'.swap = job.swap
  BY <1>1 DEF CInv, TInv, JobOK
<1>5. JobInv'
  BY <1>1, <1>2, <1>3, <1>4 DEF JobInv, symbols, CInv
<1> QED BY <1>3, <1>5 DEF CInv

LEMMA RelocateStep ==
  ASSUME CInv, TInv', Relocate PROVE CInv'
<1>1. /\ job.stage = "relocate" /\ job.page \in Pages /\ code[job.page] = job.file
      /\ links' = [links EXCEPT ![job.page] = Resolved(job.file)]
      /\ UNCHANGED <<filename, sym, symbols, current_file, code>>
  BY JobHas DEF Relocate, table, CInv, TInv
<1>2. \A s \in Marked : job.page \notin PagesOf(s)
  BY <1>1 DEF CInv, JobInv
<1>3. links'[job.page] = Resolved(job.file) /\ \A q : q # job.page => links'[q] = links[q]
  BY <1>1 DEF CInv, TInv, PageTypes
<1>4. /\ NamesDiffer' /\ TablesLinked' /\ OperationsLoaded' /\ PagesApart'
      /\ Marked' = Marked /\ \A s : PagesOf(s)' = PagesOf(s)
  BY <1>1, <1>2, <1>3, SymbolsUntouched
<1>5. JobInv'
  <2>1. CASE AllFound(job.file)
    <3>1. /\ job'.stage = "init" /\ job'.page = job.page /\ job'.file = job.file
          /\ job'.swap = job.swap
      BY <2>1 DEF Relocate, CInv, TInv, JobOK
    <3>2. Linked(job.page)'
      <4>1. \A need \in About[job.file].needs : \E l \in Resolved(job.file) :
               l.name = need[1] /\ l.op = need[2]
        BY <2>1 DEF AllFound, Resolved, Found
      <4> QED BY <1>1, <1>3, <3>1, <4>1 DEF Linked
    <3> QED BY <1>1, <1>2, <1>4, <3>1, <3>2 DEF JobInv, symbols, CInv
  <2>2. CASE ~AllFound(job.file) /\ job.swap = 0
    BY <2>2 DEF Relocate, JobInv, Idle
  <2>3. CASE ~AllFound(job.file) /\ job.swap # 0
    <3>1. /\ job'.stage = "exit without init" /\ job'.page = job.page /\ job'.file = job.file
          /\ job'.swap = job.swap
      BY <2>3 DEF Relocate, CInv, TInv, JobOK
    <3> QED BY <1>1, <1>2, <1>4, <3>1 DEF JobInv, symbols, CInv
  <2> QED BY <2>1, <2>2, <2>3
<1> QED BY <1>4, <1>5 DEF CInv

LEMMA InitialisingHas ==
  ASSUME CInv, Initialising
  PROVE  /\ job.file \in Files /\ job.page \in Pages /\ code[job.page] = job.file
         /\ job.file # Nothing /\ Linked(job.page) /\ current_file \in 1..Slots
         /\ \A s \in Marked : job.page \notin PagesOf(s)
         /\ job.swap = 0 => /\ filename[current_file] = job.file
                            /\ \A s \in Marked : file[s] # current_file
         /\ job.swap # 0 => job.swap \in Marked /\ current_file = file[job.swap]
<1>1. job.stage = "init" /\ JobInv /\ TInv
  BY DEF CInv, Initialising
<1>2. /\ job.file \in Files /\ job.page \in Pages /\ code[job.page] = job.file
      /\ current_file # 0
  BY <1>1, JobHas DEF TInv
<1>3. current_file \in 1..Slots
  BY <1>1, <1>2, BoundAssumption DEF TInv, FileTypes
<1> QED BY <1>1, <1>2, <1>3, NamesAssumption DEF JobInv

\* The operations of a driver called in its own page are offered there.
LEMMA CallsOffered ==
  ASSUME CInv, NEW f \in Files, NEW p, code[p] = f, Linked(p), NEW e,
         NEW k \in 1..Len(Calls(About[f].ops, p)), e = Calls(About[f].ops, p)[k]
  PROVE  e.page = p /\ Offers(p, e)
<1>1. About[f].ops \in Seq(Ops) /\ Len(About[f].ops) \in Nat /\ DOMAIN About[f].ops = 1..Len(About[f].ops)
  BY AboutFile, LenProperties
<1>2. k \in 1..Len(About[f].ops) /\ e = [op |-> About[f].ops[k], page |-> p]
  BY <1>1 DEF Calls
<1>3. code[p] # Nothing
  BY NamesAssumption
<1> QED BY <1>1, <1>2, <1>3 DEF Offers

\* A symbol that starts to show, with entries and a page of its own.
LEMMA AddedSymbol ==
  ASSUME CInv, SymbolTypes', NEW n \in 1..Syms, ~marked[n], marked' = [marked EXCEPT ![n] = TRUE],
         UNCHANGED <<filename, code, links>>,
         \A s \in 1..Syms \ {n} : /\ ksym_name'[s] = ksym_name[s] /\ opera'[s] = opera[s]
                                  /\ rm'[s] = rm[s] /\ file'[s] = file[s] /\ left'[s] = left[s],
         \A s \in Marked : sym'[file[s]] = sym[file[s]],
         \A s \in 1..Syms : ksym_name[s] # ksym_name'[n],
         Registered(n)', Loaded(n)',
         \A s \in Marked : PagesOf(s) \cap PagesOf(n)' = {}
  PROVE  NamesDiffer' /\ TablesLinked' /\ OperationsLoaded' /\ PagesApart'
<1>1. Marked' = Marked \cup {n} /\ n \notin Marked /\ Marked \subseteq 1..Syms
  BY DEF Marked, CInv, TInv, SymbolTypes
<1>2. ASSUME NEW s \in Marked PROVE Registered(s)' /\ Loaded(s)' /\ PagesOf(s)' = PagesOf(s)
  <2>1. s \in 1..Syms \ {n} /\ Registered(s) /\ Loaded(s)
    BY <1>1, MarkedTypes
  <2> QED BY <2>1, StaysLoaded, StaysRegistered, SamePages
<1>3. NamesDiffer'
  BY DEF NamesDiffer, CInv
<1>4. TablesLinked' /\ OperationsLoaded'
  BY <1>1, <1>2 DEF TablesLinked, OperationsLoaded
<1>5. PagesApart'
  <2>1. ASSUME NEW s \in Marked', NEW t \in Marked', s # t
        PROVE  PagesOf(s)' \cap PagesOf(t)' = {}
    <3>1. CASE s \in Marked /\ t \in Marked
      BY <1>2, <2>1, <3>1 DEF PagesApart, CInv
    <3>2. CASE s = n /\ t \in Marked
      BY <1>2, <3>2
    <3>3. CASE s \in Marked /\ t = n
      BY <1>2, <3>3
    <3> QED BY <1>1, <2>1, <3>1, <3>2, <3>3
  <2> QED BY <2>1 DEF PagesApart
<1> QED BY <1>3, <1>4, <1>5

LEMMA RegisterHas ==
  ASSUME CInv, RegisterDriver
  PROVE  \E n \in 1..Syms, f \in Files, p \in Pages, c \in 1..Slots :
           /\ ~marked[n] /\ marked' = [marked EXCEPT ![n] = TRUE]
           /\ f = job.file /\ p = job.page /\ c = current_file /\ code[p] = f /\ f # Nothing
           /\ Linked(p) /\ filename[c] = f
           /\ \A s \in Marked : p \notin PagesOf(s) /\ file[s] # c
           /\ About[f].name \in Names /\ About[f].name # Nothing
           /\ \A s \in 1..Syms : ksym_name[s] # About[f].name
           /\ ksym_name'[n] = About[f].name /\ opera'[n] = Calls(About[f].ops, p)
           /\ rm'[n] = p /\ file'[n] = c /\ sym'[c] = n /\ left'[n] = {}
           /\ \A s \in 1..Syms \ {n} : /\ ksym_name'[s] = ksym_name[s] /\ opera'[s] = opera[s]
                                       /\ rm'[s] = rm[s] /\ file'[s] = file[s] /\ left'[s] = left[s]
           /\ \A s \in Marked : sym'[file[s]] = sym[file[s]]
<1>1. /\ Initialising /\ job.swap = 0 /\ MayRegister /\ job' = Idle
      /\ UNCHANGED <<filename, code, links, current_file>>
  BY DEF RegisterDriver, memory
<1>2. PICK n \in 1..Syms : n = Least(NotUsed) /\ ~marked[n]
  BY <1>1, FirstUnused DEF MayRegister, NotUsed
<1>3. PICK f \in Files, p \in Pages, c \in 1..Slots :
        /\ f = job.file /\ p = job.page /\ c = current_file /\ code[p] = f /\ f # Nothing
        /\ Linked(p) /\ filename[c] = f
        /\ \A s \in Marked : p \notin PagesOf(s) /\ file[s] # c
  BY <1>1, InitialisingHas
<1>4. /\ About[f].name \in Names /\ About[f].name # Nothing
      /\ \A s \in 1..Syms : ksym_name[s] # About[f].name
  BY <1>1, <1>3, AboutFile, NamesAssumption DEF MayRegister, New, Known
<1>5. /\ ksym_name' = [ksym_name EXCEPT ![n] = About[f].name]
      /\ marked' = [marked EXCEPT ![n] = TRUE]
      /\ opera' = [opera EXCEPT ![n] = Calls(About[f].ops, p)]
      /\ rm' = [rm EXCEPT ![n] = p] /\ file' = [file EXCEPT ![n] = c]
      /\ sym' = [sym EXCEPT ![c] = n] /\ left' = [left EXCEPT ![n] = {}]
  BY <1>2, <1>3 DEF RegisterDriver, New
<1>6. SymbolTypes /\ FileTypes
  BY DEF CInv, TInv
<1>7. /\ ksym_name'[n] = About[f].name /\ opera'[n] = Calls(About[f].ops, p) /\ rm'[n] = p
      /\ file'[n] = c /\ sym'[c] = n /\ left'[n] = {}
      /\ \A s \in 1..Syms \ {n} : /\ ksym_name'[s] = ksym_name[s] /\ opera'[s] = opera[s]
                                  /\ rm'[s] = rm[s] /\ file'[s] = file[s] /\ left'[s] = left[s]
      /\ \A s \in Marked : sym'[file[s]] = sym[file[s]]
  <2>1. \A s \in Marked : file[s] \in 1..Slots
    BY MarkedTypes
  <2> QED BY <1>3, <1>5, <1>6, <2>1 DEF SymbolTypes, FileTypes
<1>8. marked' = [marked EXCEPT ![n] = TRUE]
  BY <1>5
<1> QED BY ONLY <1>2, <1>3, <1>4, <1>7, <1>8

LEMMA RegisterDriverStep ==
  ASSUME CInv, TInv', RegisterDriver PROVE CInv'
<1>1. job' = Idle /\ UNCHANGED <<filename, code, links, current_file>>
  BY DEF RegisterDriver, memory
<1>2. PICK n \in 1..Syms, f \in Files, p \in Pages, c \in 1..Slots :
           /\ ~marked[n] /\ marked' = [marked EXCEPT ![n] = TRUE]
           /\ f = job.file /\ p = job.page /\ c = current_file /\ code[p] = f /\ f # Nothing
           /\ Linked(p) /\ filename[c] = f
           /\ \A s \in Marked : p \notin PagesOf(s) /\ file[s] # c
           /\ About[f].name \in Names /\ About[f].name # Nothing
           /\ \A s \in 1..Syms : ksym_name[s] # About[f].name
           /\ ksym_name'[n] = About[f].name /\ opera'[n] = Calls(About[f].ops, p)
           /\ rm'[n] = p /\ file'[n] = c /\ sym'[c] = n /\ left'[n] = {}
           /\ \A s \in 1..Syms \ {n} : /\ ksym_name'[s] = ksym_name[s] /\ opera'[s] = opera[s]
                                       /\ rm'[s] = rm[s] /\ file'[s] = file[s] /\ left'[s] = left[s]
           /\ \A s \in Marked : sym'[file[s]] = sym[file[s]]
  BY RegisterHas
<1>3. Registered(n)'
  BY <1>1, <1>2, NamesAssumption, BoundAssumption DEF Registered
<1>4. \A e \in Live(n)' : e.page = p /\ Offers(p, e)
  <2>1. ASSUME NEW e \in Live(n)' PROVE e.page = p /\ Offers(p, e)
    <3>1. PICK k \in 1..Len(opera'[n]) : e = opera'[n][k]
      BY DEF Live
    <3> QED BY <1>2, <3>1, CallsOffered
  <2> QED BY <2>1
<1>5. Loaded(n)'
  BY <1>1, <1>2, <1>4 DEF Loaded, Offers, Linked
<1>6. PagesOf(n)' = {p}
  BY <1>2, <1>4 DEF PagesOf
<1>7. NamesDiffer' /\ TablesLinked' /\ OperationsLoaded' /\ PagesApart'
  <2>1. \A s \in Marked : PagesOf(s) \cap PagesOf(n)' = {}
    BY <1>2, <1>6
  <2>2. \A s \in 1..Syms : ksym_name[s] # ksym_name'[n]
    BY <1>2
  <2>3. ~marked[n] /\ marked' = [marked EXCEPT ![n] = TRUE] /\ UNCHANGED <<filename, code, links>>
    BY <1>1, <1>2
  <2> QED BY ONLY CInv, TInv', <1>2, <1>3, <1>5, <2>1, <2>2, <2>3, AddedSymbol DEF TInv
<1>8. JobInv'
  BY <1>1 DEF JobInv, Idle
<1> QED BY <1>7, <1>8 DEF CInv

\* No symbol is taken: a driver is refused, or the scheduler is replaced.
LEMMA NoSymbolStep ==
  ASSUME CInv, TInv', RefuseDriver \/ RegisterScheduler PROVE CInv'
<1>1. /\ Initialising /\ job.swap = 0 /\ job' = Idle
      /\ UNCHANGED <<filename, symbols, code, links>>
      /\ \E i \in {0, SchedSym} : sym' = [sym EXCEPT ![current_file] = i]
  BY DEF RefuseDriver, RegisterScheduler, memory
<1>2. \A s \in Marked : file[s] # current_file
  BY <1>1, InitialisingHas
<1>3. \A s \in Marked : sym'[file[s]] = sym[file[s]]
  BY <1>1, <1>2, MarkedTypes DEF CInv, TInv, FileTypes
<1>4. NamesDiffer' /\ TablesLinked' /\ OperationsLoaded' /\ PagesApart'
  BY <1>1, <1>3, SymbolsUntouched
<1>5. JobInv'
  BY <1>1 DEF JobInv, Idle
<1> QED BY <1>4, <1>5 DEF CInv

LEMMA OthersStay ==
  ASSUME CInv, NEW t,
         \A s \in Marked \ {t} :
           /\ ksym_name'[s] = ksym_name[s] /\ opera'[s] = opera[s]
           /\ rm'[s] = rm[s] /\ file'[s] = file[s] /\ left'[s] = left[s]
           /\ sym'[file[s]] = sym[file[s]] /\ filename'[file[s]] = filename[file[s]]
           /\ \A p \in PagesOf(s) : code'[p] = code[p] /\ links'[p] = links[p]
  PROVE  \A s \in Marked \ {t} : Registered(s)' /\ Loaded(s)' /\ PagesOf(s)' = PagesOf(s)
<1> SUFFICES ASSUME NEW s \in Marked \ {t}
             PROVE  Registered(s)' /\ Loaded(s)' /\ PagesOf(s)' = PagesOf(s)
  OBVIOUS
<1>1. Registered(s) /\ Loaded(s) /\ rm[s] \in PagesOf(s)
  BY MarkedTypes
<1> QED BY <1>1, StaysLoaded, StaysRegistered, SamePages

\* One symbol changes, and stays registered and loaded.
LEMMA ChangedSymbol ==
  ASSUME CInv, NEW t \in Marked, Marked' = Marked, UNCHANGED ksym_name,
         \A s \in Marked \ {t} : Registered(s)' /\ Loaded(s)' /\ PagesOf(s)' = PagesOf(s),
         Registered(t)', Loaded(t)',
         \A s \in Marked \ {t} : PagesOf(s) \cap PagesOf(t)' = {}
  PROVE  NamesDiffer' /\ TablesLinked' /\ OperationsLoaded' /\ PagesApart'
<1>1. NamesDiffer'
  BY DEF NamesDiffer, CInv
<1>2. TablesLinked' /\ OperationsLoaded'
  BY DEF TablesLinked, OperationsLoaded
<1>3. ASSUME NEW s \in Marked', NEW u \in Marked', s # u
      PROVE  PagesOf(s)' \cap PagesOf(u)' = {}
  <2>1. CASE s # t /\ u # t
    BY <1>3, <2>1 DEF PagesApart, CInv
  <2>2. CASE s = t \/ u = t
    BY <1>3, <2>2
  <2> QED BY <2>1, <2>2
<1> QED BY <1>1, <1>2, <1>3 DEF PagesApart

LEMMA OtherPlaces ==
  ASSUME CInv, NEW t \in Marked, NEW s \in Marked \ {t}
  PROVE  /\ s \in 1..Syms \ {t} /\ file[s] \in 1..Slots /\ file[s] # file[t]
         /\ PagesOf(s) \subseteq Pages /\ rm[t] \notin PagesOf(s)
<1>1. s \in 1..Syms \ {t} /\ file[s] \in 1..Slots /\ file[s] # file[t]
  BY MarkedTypes
<1>2. rm[t] \in PagesOf(t) /\ rm[s] \in Pages
  BY MarkedTypes
<1>3. \A e \in Live(s) : e.page \in Pages
  BY <1>1, LiveOperations, OperationTypes DEF CInv, TInv
<1> QED BY <1>1, <1>2, <1>3 DEF PagesApart, CInv, PagesOf

LEMMA OnlyOneKnown ==
  ASSUME CInv, NEW t \in Marked PROVE Known(ksym_name[t]) = {t}
<1>1. t \in 1..Syms /\ ksym_name[t] # Nothing
  BY MarkedTypes, NamesAssumption
<1> QED BY <1>1 DEF Known, NamesDiffer, CInv

LEMMA UnregisteredOne ==
  ASSUME NEW n, NEW t \in 1..Syms, Known(n) = {t}
  PROVE  Unregistered(n) = [marked EXCEPT ![t] = FALSE]
<1>1. t \in Nat
  BY BoundAssumption
<1>2. Least({t}) = t
  BY <1>1 DEF Least
<1> QED BY <1>2 DEF Unregistered

LEMMA IdleJob == job' = Idle => JobInv'
BY DEF JobInv, Idle

\* One symbol is no longer shown; its page and its entry in cfile may change.
Drops(t) ==
  /\ Marked' = Marked \ {t} /\ UNCHANGED <<opera, file, left, sym, links>>
  /\ \A s \in 1..Syms \ {t} : ksym_name'[s] = ksym_name[s] /\ rm'[s] = rm[s]
  /\ ksym_name'[t] \in {ksym_name[t], Nothing}
  /\ \A c \in 1..Slots : c # file[t] => filename'[c] = filename[c]
  /\ \A q \in Pages : q # rm[t] => code'[q] = code[q]

LEMMA DroppedSymbol ==
  ASSUME CInv, NEW t \in Marked, Drops(t)
  PROVE  NamesDiffer' /\ TablesLinked' /\ OperationsLoaded' /\ PagesApart'
<1>1. ASSUME NEW s \in Marked \ {t}
      PROVE  /\ ksym_name'[s] = ksym_name[s] /\ opera'[s] = opera[s]
             /\ rm'[s] = rm[s] /\ file'[s] = file[s] /\ left'[s] = left[s]
             /\ sym'[file[s]] = sym[file[s]] /\ filename'[file[s]] = filename[file[s]]
             /\ \A p \in PagesOf(s) : code'[p] = code[p] /\ links'[p] = links[p]
  BY OtherPlaces DEF Drops
<1>2. \A s \in Marked \ {t} : Registered(s)' /\ Loaded(s)' /\ PagesOf(s)' = PagesOf(s)
  BY <1>1, OthersStay
<1>3. NamesDiffer'
  BY MarkedTypes DEF NamesDiffer, CInv, Drops
<1> QED BY <1>2, <1>3 DEF TablesLinked, OperationsLoaded, PagesApart, CInv, Drops

\* What a swap that compares does to the table of the old component: the first k
\* operations lead to the new page, and what is left behind comes after them.
Swapped(t, f, p, k) ==
  /\ t = job.swap /\ f = job.file /\ p = job.page /\ code[p] = f /\ f # Nothing
  /\ Linked(p) /\ current_file = file[t] /\ \A s \in Marked : p \notin PagesOf(s)
  /\ About[f].name = Null /\ Len(About[f].ops) = Len(opera[t]) /\ k <= Len(opera[t])
  /\ \A i \in 1..k : About[f].ops[i].name = opera[t][i].op.name
  /\ Len(opera'[t]) = Len(opera[t])
  /\ \A i \in 1..Len(opera[t]) :
       /\ opera'[t][i].op = opera[t][i].op
       /\ opera'[t][i].page = IF i <= k THEN p ELSE opera[t][i].page
  /\ \A i \in 1..Len(opera[t]) : i > k => opera'[t][i] = opera[t][i]
  /\ \A s \in 1..Syms \ {t} : opera'[s] = opera[s] /\ left'[s] = left[s]
  /\ 1 \notin left'[t]
  /\ \A i \in 1..Len(opera[t]) : i > k /\ i \notin left'[t] => i \notin left[t]
  /\ \/ job' = Idle
     \/ /\ job' = [job EXCEPT !.stage = "exit"]
        /\ \A i \in 1..Len(opera[t]) : i > k /\ i \notin left'[t] => opera[t][i].page # rm[t]

LEMMA SwapInHas ==
  ASSUME CInv, SafeSwap, SwapIn
  PROVE  \E t \in Marked, f \in Files, p \in Pages, k \in Nat : Swapped(t, f, p, k)
<1>1. Initialising /\ job.swap # 0
  BY DEF SwapIn
<1>2. PICK t \in Marked, f \in Files, p \in Pages :
        /\ t = job.swap /\ f = job.file /\ p = job.page /\ code[p] = f /\ f # Nothing
        /\ Linked(p) /\ current_file = file[t] /\ \A s \in Marked : p \notin PagesOf(s)
  BY <1>1, InitialisingHas
<1>3. About[f].kind = "DRV_COM" /\ New = About[f] /\ Old = opera[t]
  BY <1>1, <1>2 DEF SafeSwap, New, Old
<1>4. /\ t \in 1..Syms /\ 1 \notin left[t] /\ opera \in [1..Syms -> Seq([op : Ops, page : Pages])]
      /\ left \in [1..Syms -> SUBSET Nat]
  BY MarkedTypes DEF Loaded, CInv, TInv, SymbolTypes
<1>5. opera[t] \in Seq([op : Ops, page : Pages]) /\ Len(opera[t]) \in Nat
  BY <1>4, LenProperties
<1>6. About[f].name = Null /\ Len(About[f].ops) = Len(opera[t]) /\ Compared = Len(opera[t])
  BY <1>3 DEF SwapIn, Compared
<1>7. PICK k \in 0..Compared : /\ SameOperations(k)
                               /\ opera' = [opera EXCEPT ![job.swap] = Redirected(k)]
                               /\ Accepted(k) \/ Refused(k)
  BY DEF SwapIn
<1>8. k \in Nat /\ k <= Len(opera[t]) /\ \A i \in 1..k : About[f].ops[i].name = opera[t][i].op.name
  BY <1>3, <1>5, <1>6, <1>7 DEF SameOperations
<1>9. Redirected(k) = [i \in 1..Len(opera[t]) |->
                         [opera[t][i] EXCEPT !.page = IF i <= k THEN p ELSE @]]
  BY <1>2, <1>3 DEF Redirected
<1>10. /\ opera'[t] = Redirected(k) /\ \A s \in 1..Syms \ {t} : opera'[s] = opera[s]
  BY <1>2, <1>4, <1>7
<1>11. /\ Len(opera'[t]) = Len(opera[t])
       /\ \A i \in 1..Len(opera[t]) : /\ opera'[t][i].op = opera[t][i].op
                                       /\ opera'[t][i].page = IF i <= k THEN p ELSE opera[t][i].page
  BY <1>5, <1>9, <1>10, RedirectedType
<1>12. ASSUME NEW i \in 1..Len(opera[t]), i > k PROVE opera'[t][i] = opera[t][i]
  <2>1. opera[t][i] \in [op : Ops, page : Pages]
    BY <1>5, ElementOfSeq
  <2>2. opera'[t][i] = [opera[t][i] EXCEPT !.page = opera[t][i].page]
    BY <1>8, <1>9, <1>10, <1>12
  <2> QED BY <2>1, <2>2
<1> DEFINE L == {i \in (k + 1)..Len(opera[t]) : i \in left[t] \/ opera[t][i].page = rm[t]}
<1>13. CASE Accepted(k)
  <2>1. left' = [left EXCEPT ![t] = L] /\ job' = [job EXCEPT !.stage = "exit"]
        /\ (Len(opera[t]) > 0 => k > 0)
    BY <1>2, <1>3, <1>6, <1>13 DEF Accepted
  <2>2. left'[t] = L /\ \A s \in 1..Syms \ {t} : left'[s] = left[s]
    BY <1>4, <2>1
  <2>3. 1 \notin L
    BY <1>5, <1>8, <2>1
  <2>4. \A i \in 1..Len(opera[t]) : i > k /\ i \notin L =>
          i \notin left[t] /\ opera[t][i].page # rm[t]
    BY <1>5, <1>8
  <2> HIDE DEF L
  <2>5. /\ 1 \notin left'[t]
        /\ \A i \in 1..Len(opera[t]) : i > k /\ i \notin left'[t] => i \notin left[t]
        /\ \A i \in 1..Len(opera[t]) : i > k /\ i \notin left'[t] => opera[t][i].page # rm[t]
    BY <2>2, <2>3, <2>4
  <2>6. Swapped(t, f, p, k)
    BY ONLY <1>2, <1>6, <1>8, <1>10, <1>11, <1>12, <2>1, <2>2, <2>5 DEF Swapped
  <2> QED BY <1>8, <2>6
<1>14. CASE Refused(k)
  <2>1. left' = [left EXCEPT ![t] = left[t] \ (1..k)] /\ job' = Idle
    BY <1>2, <1>14 DEF Refused
  <2>2. left'[t] = left[t] \ (1..k) /\ \A s \in 1..Syms \ {t} : left'[s] = left[s]
    BY <1>4, <2>1
  <2>3. /\ 1 \notin left'[t]
        /\ \A i \in 1..Len(opera[t]) : i > k /\ i \notin left'[t] => i \notin left[t]
    BY <1>4, <1>5, <1>8, <2>2
  <2>4. Swapped(t, f, p, k)
    BY ONLY <1>2, <1>6, <1>8, <1>10, <1>11, <1>12, <2>1, <2>2, <2>3 DEF Swapped
  <2> QED BY <1>8, <2>4
<1> QED BY <1>7, <1>13, <1>14

LEMMA SwapInStep ==
  ASSUME CInv, TInv', SafeSwap, SwapIn PROVE CInv'
<1>1. UNCHANGED <<filename, sym, ksym_name, marked, rm, file, code, links, current_file>>
  BY DEF SwapIn, table, memory
<1>2. PICK t \in Marked, f \in Files, p \in Pages, k \in Nat : Swapped(t, f, p, k)
  BY SwapInHas
<1> USE DEF Swapped
<1>3. Marked' = Marked /\ t \in 1..Syms /\ Registered(t) /\ Loaded(t)
  BY <1>1, MarkedTypes DEF Marked
<1>4. opera[t] \in Seq([op : Ops, page : Pages]) /\ Len(opera[t]) \in Nat
  BY <1>3, LenProperties DEF CInv, TInv, SymbolTypes
<1>5. ASSUME NEW e \in Live(t)'
      PROVE  \/ e.page = p /\ Offers(p, e)
             \/ e \in Live(t) /\ (job' # Idle => e.page # rm[t])
  <2>1. PICK i \in 1..Len(opera[t]) : e = opera'[t][i] /\ i \notin left'[t]
    BY <1>2 DEF Live
  <2>2. CASE i <= k
    <3>1. e.page = p /\ About[f].ops[i].name = e.op.name
      BY <1>2, <2>1, <2>2
    <3>2. i \in DOMAIN About[f].ops
      <4>1. About[f].ops \in Seq(Ops)
        BY AboutFile
      <4> QED BY <1>2, <2>1, <4>1, LenProperties
    <3> QED BY <1>2, <3>1, <3>2 DEF Offers
  <2>3. CASE i > k
    <3>1. e = opera[t][i] /\ i \notin left[t]
      BY <1>2, <2>1, <2>3
    <3>2. e \in Live(t)
      BY <2>1, <3>1 DEF Live
    <3>3. job' # Idle => e.page # rm[t]
      BY <1>2, <2>1, <2>3, <3>1
    <3> QED BY <3>2, <3>3
  <2> QED BY <1>2, <1>4, <2>1, <2>2, <2>3
<1>6. PagesOf(t)' \subseteq PagesOf(t) \cup {p}
  BY <1>1, <1>5 DEF PagesOf
<1>7. Loaded(t)'
  <2>1. ASSUME NEW e \in Live(t)' PROVE Offers(e.page, e) /\ Linked(e.page)
    BY <1>2, <1>3, <1>5 DEF Loaded
  <2> QED BY <1>1, <1>2, <2>1 DEF Loaded, Offers, Linked
<1>8. Registered(t)'
  BY <1>1, <1>3 DEF Registered
<1>9. \A s \in Marked \ {t} : Registered(s)' /\ Loaded(s)' /\ PagesOf(s)' = PagesOf(s)
  <2>1. \A s \in Marked \ {t} : opera'[s] = opera[s] /\ left'[s] = left[s]
    BY <1>2, MarkedTypes
  <2> QED BY <1>1, <2>1, OthersStay
<1>10. \A s \in Marked \ {t} : PagesOf(s) \cap PagesOf(t)' = {}
  BY <1>2, <1>6 DEF PagesApart, CInv
<1>11. NamesDiffer' /\ TablesLinked' /\ OperationsLoaded' /\ PagesApart'
  BY ONLY CInv, <1>1, <1>3, <1>7, <1>8, <1>9, <1>10, ChangedSymbol
<1>12. JobInv'
  <2>1. CASE job' = Idle
    BY <2>1, IdleJob
  <2>2. CASE job' # Idle
    <3>1. /\ job'.stage = "exit" /\ job'.page = p /\ job'.swap = t /\ job'.file = f
      BY <1>2, <2>2 DEF CInv, TInv, JobOK
    <3>2. p # rm[t]
      BY <1>2 DEF PagesOf
    <3>3. \A e \in Live(t)' : e.page # rm[t]
      BY <1>5, <2>2, <3>2
    <3>4. Linked(p)'
      BY <1>1, <1>2 DEF Linked
    <3>5. \A s \in Marked \ {t} : p \notin PagesOf(s)'
      BY <1>2, <1>9
    <3> QED BY <1>1, <1>2, <1>3, <3>1, <3>2, <3>3, <3>4, <3>5 DEF JobInv
  <2> QED BY <2>1, <2>2
<1> QED BY <1>11, <1>12 DEF CInv

\* A swap that compares nothing ends there.
LEMMA RefuseSwapStep ==
  ASSUME CInv, TInv', RefuseSwap PROVE CInv'
<1>1. UNCHANGED <<filename, sym, symbols, code, links>> /\ job' = Idle
  BY DEF RefuseSwap, table, memory
<1>2. NamesDiffer' /\ TablesLinked' /\ OperationsLoaded' /\ PagesApart'
  BY <1>1, SymbolsUntouched
<1> QED BY <1>1, <1>2, IdleJob DEF CInv

\* exit_compt of the old component, after the new one was accepted or could not
\* be linked.
LEMMA ExitOldHas ==
  ASSUME CInv, ExitOld
  PROVE  /\ job.stage \in {"exit", "exit without init"} /\ job' = Idle
         /\ UNCHANGED <<sym, ksym_name, opera, file, left, links>>
         /\ \E t \in Marked, f \in Files, p \in Pages :
              /\ t = job.swap /\ f = job.file /\ p = job.page /\ code[p] = f /\ f # Nothing
              /\ rm'[t] = p /\ \A s \in 1..Syms \ {t} : rm'[s] = rm[s]
              /\ filename'[file[t]] = f
              /\ \A c \in 1..Slots : c # file[t] => filename'[c] = filename[c]
              /\ code'[rm[t]] = Nothing /\ \A q \in Pages : q # rm[t] => code'[q] = code[q]
<1>1. /\ job.stage \in {"exit", "exit without init"} /\ job' = Idle
      /\ UNCHANGED <<sym, ksym_name, opera, file, left, links>>
  BY DEF ExitOld
<1>2. JobOK /\ JobInv /\ TInv
  BY DEF CInv, TInv
<1>3. PICK t \in Marked, f \in Files, p \in Pages :
        /\ t = job.swap /\ f = job.file /\ p = job.page /\ code[p] = f /\ f # Nothing
        /\ current_file = file[t]
  <2>1. job.swap # 0 /\ job.swap \in Marked /\ current_file = file[job.swap]
    BY <1>1, <1>2 DEF JobOK, JobInv
  <2> QED BY <1>1, <1>2, <2>1, JobHas, NamesAssumption
<1>4. /\ t \in 1..Syms /\ file[t] \in 1..Slots /\ rm[t] \in Pages /\ sym[current_file] = t
      /\ Registered(t) /\ Loaded(t)
  BY <1>3, MarkedTypes
<1>5. SymbolTypes /\ FileTypes /\ PageTypes
  BY <1>2 DEF TInv
<1>6. /\ rm'[t] = p /\ \A s \in 1..Syms \ {t} : rm'[s] = rm[s]
      /\ filename'[file[t]] = f /\ \A c \in 1..Slots : c # file[t] => filename'[c] = filename[c]
      /\ code'[rm[t]] = Nothing /\ \A q \in Pages : q # rm[t] => code'[q] = code[q]
  BY <1>1, <1>3, <1>4, <1>5 DEF ExitOld, SymbolTypes, FileTypes, PageTypes
<1> QED BY <1>1, <1>3, <1>6

\* A replacement that could not be linked takes the old component with it.
LEMMA ExitDrops ==
  ASSUME CInv, SafeSwap, ExitOld, job.stage = "exit without init"
  PROVE  \E t \in Marked : Drops(t)
<1>1. PICK t \in Marked : /\ t = job.swap /\ \A s \in 1..Syms \ {t} : rm'[s] = rm[s]
                          /\ \A c \in 1..Slots : c # file[t] => filename'[c] = filename[c]
                          /\ \A q \in Pages : q # rm[t] => code'[q] = code[q]
  BY ExitOldHas
<1>2. t \in 1..Syms /\ Registered(t) /\ SymbolTypes
  BY MarkedTypes DEF CInv, TInv
<1>3. ExitName(t) = ksym_name[t]
  BY <1>1, <1>2 DEF SafeSwap, Registered, ExitName
<1>4. Known(ExitName(t)) = {t}
  BY <1>2, <1>3, OnlyOneKnown
<1>5. Unregistered(ExitName(t)) = [marked EXCEPT ![t] = FALSE]
  BY <1>2, <1>4, UnregisteredOne
<1>6. marked' = [marked EXCEPT ![t] = FALSE]
  BY <1>1, <1>5 DEF ExitOld
<1>7. Marked' = Marked \ {t}
  BY <1>2, <1>6 DEF Marked, SymbolTypes
<1> QED BY <1>1, <1>7, ExitOldHas DEF Drops

LEMMA ExitOldStep ==
  ASSUME CInv, TInv', SafeSwap, ExitOld PROVE CInv'
<1>1. /\ job.stage \in {"exit", "exit without init"} /\ job' = Idle
      /\ UNCHANGED <<sym, ksym_name, opera, file, left, links>>
  BY ExitOldHas
<1>2. JobInv
  BY DEF CInv
<1>3. PICK t \in Marked, f \in Files, p \in Pages :
        /\ t = job.swap /\ f = job.file /\ p = job.page /\ code[p] = f /\ f # Nothing
        /\ rm'[t] = p /\ \A s \in 1..Syms \ {t} : rm'[s] = rm[s]
        /\ filename'[file[t]] = f /\ \A c \in 1..Slots : c # file[t] => filename'[c] = filename[c]
        /\ code'[rm[t]] = Nothing /\ \A q \in Pages : q # rm[t] => code'[q] = code[q]
  BY ExitOldHas
<1>4. Registered(t) /\ Loaded(t)
  BY MarkedTypes
<1>5. CASE job.stage = "exit"
  <2>1. /\ \A s \in Marked \ {t} : p \notin PagesOf(s)
        /\ p # rm[t] /\ \A e \in Live(t) : e.page # rm[t]
        /\ About[f].name = Null /\ Linked(p)
    BY <1>2, <1>3, <1>5 DEF JobInv
  <2>2. marked' = marked /\ Marked' = Marked
    BY <1>5 DEF ExitOld, Marked
  <2>3. Live(t)' = Live(t)
    BY <1>1 DEF Live
  <2>4. PagesOf(t)' \subseteq PagesOf(t) \cup {p}
    BY <1>3, <2>3 DEF PagesOf
  <2>5. code'[p] = f
    BY <1>3, <2>1
  <2>6. Registered(t)'
    BY <1>1, <1>3, <1>4, <2>1, <2>5, NamesAssumption DEF Registered
  <2>7. Loaded(t)'
    <3>1. ASSUME NEW e \in Live(t)' PROVE Offers(e.page, e)' /\ Linked(e.page)'
      <4>1. e.page # rm[t] /\ Offers(e.page, e) /\ Linked(e.page)
        BY <1>4, <2>1, <2>3 DEF Loaded
      <4>2. e.page \in Pages
        BY <2>3, MarkedTypes, LiveOperations, OperationTypes DEF CInv, TInv
      <4>3. code'[e.page] = code[e.page] /\ links' = links
        BY <1>1, <1>3, <4>1, <4>2
      <4> QED BY <4>1, <4>3 DEF Offers, Linked
    <3> QED BY <1>1, <1>4, <3>1 DEF Loaded
  <2>8. \A s \in Marked \ {t} : Registered(s)' /\ Loaded(s)' /\ PagesOf(s)' = PagesOf(s)
    <3>1. ASSUME NEW s \in Marked \ {t}
          PROVE  /\ ksym_name'[s] = ksym_name[s] /\ opera'[s] = opera[s]
                 /\ rm'[s] = rm[s] /\ file'[s] = file[s] /\ left'[s] = left[s]
                 /\ sym'[file[s]] = sym[file[s]] /\ filename'[file[s]] = filename[file[s]]
                 /\ \A q \in PagesOf(s) : code'[q] = code[q] /\ links'[q] = links[q]
      <4>1. /\ s \in 1..Syms \ {t} /\ file[s] \in 1..Slots /\ file[s] # file[t]
            /\ PagesOf(s) \subseteq Pages /\ rm[t] \notin PagesOf(s)
        BY OtherPlaces
      <4> QED BY ONLY <1>1, <1>3, <4>1
    <3> QED BY <3>1, OthersStay
  <2>9. \A s \in Marked \ {t} : PagesOf(s) \cap PagesOf(t)' = {}
    BY <2>1, <2>4 DEF PagesApart, CInv
  <2> QED BY ONLY CInv, TInv', <1>1, <2>2, <2>6, <2>7, <2>8, <2>9, ChangedSymbol, IdleJob DEF CInv
<1>6. CASE job.stage = "exit without init"
  <2>1. NamesDiffer' /\ TablesLinked' /\ OperationsLoaded' /\ PagesApart'
    BY <1>6, ExitDrops, DroppedSymbol
  <2> QED BY ONLY TInv', <1>1, <2>1, IdleJob DEF CInv
<1> QED BY <1>1, <1>5, <1>6

\* A component is removed, or keeps its name and everything else.
LEMMA RemoveDrops ==
  ASSUME CInv, NEW n \in Names, Remove(n)
  PROVE  /\ job' = Idle
         /\ \/ UNCHANGED <<filename, symbols, sym, code, links>>
            \/ \E t \in Marked : Drops(t)
<1>1. job' = Idle /\ UNCHANGED <<sym, opera, rm, file, left, links>>
  BY DEF Remove
<1>2. PICK t \in Marked : t = Least(Named(n)) /\ ksym_name[t] = n
  <2>1. Named(n) # {}
    BY DEF Remove
  <2> QED BY <2>1, NamedSymbols DEF Named
<1>3. t \in 1..Syms /\ rm[t] \in Pages /\ file[t] \in 1..Slots /\ Registered(t)
  BY MarkedTypes
<1>4. SymbolTypes /\ FileTypes /\ PageTypes
  BY DEF CInv, TInv
<1>5. marked' = Unregistered(ExitName(t))
  BY <1>2 DEF Remove
<1>6. CASE ExitName(t) = Null
  <2>1. Known(Null) = {}
    BY <1>4, NamesAssumption DEF Known, SymbolTypes, Null, Nothing
  <2>2. marked' = marked /\ marked'[t]
    BY <1>5, <1>6, <2>1 DEF Unregistered, Marked
  <2> QED BY <1>1, <1>2, <2>2 DEF Remove, symbols
<1>7. CASE ExitName(t) # Null
  <2>1. ExitName(t) = ksym_name[t]
    BY <1>3, <1>7 DEF Registered, ExitName
  <2>2. Known(ExitName(t)) = {t}
    BY <1>3, <2>1, OnlyOneKnown
  <2>3. marked' = [marked EXCEPT ![t] = FALSE]
    BY <1>3, <1>5, <2>2, UnregisteredOne
  <2>4. Marked' = Marked \ {t} /\ ~marked'[t]
    BY <1>3, <1>4, <2>3 DEF Marked, SymbolTypes
  <2>5. /\ filename' = [filename EXCEPT ![file[t]] = Nothing]
        /\ code' = [code EXCEPT ![rm[t]] = Nothing]
        /\ ksym_name' = [ksym_name EXCEPT ![t] = Nothing]
    BY <1>2, <2>4 DEF Remove
  <2>6. /\ \A s \in 1..Syms \ {t} : ksym_name'[s] = ksym_name[s] /\ rm'[s] = rm[s]
        /\ ksym_name'[t] \in {ksym_name[t], Nothing}
        /\ \A c \in 1..Slots : c # file[t] => filename'[c] = filename[c]
        /\ \A q \in Pages : q # rm[t] => code'[q] = code[q]
    BY <1>1, <1>3, <1>4, <2>5 DEF SymbolTypes, FileTypes, PageTypes
  <2> QED BY <1>1, <2>4, <2>6 DEF Drops
<1> QED BY <1>6, <1>7

LEMMA RemoveStep ==
  ASSUME CInv, TInv', NEW n \in Names, Remove(n) PROVE CInv'
<1>1. NamesDiffer' /\ TablesLinked' /\ OperationsLoaded' /\ PagesApart'
  BY RemoveDrops, SymbolsUntouched, DroppedSymbol
<1> QED BY ONLY TInv', <1>1, RemoveDrops, IdleJob, CInv, n \in Names, Remove(n) DEF CInv

\* Asking for a pin touches neither the symbols nor the letter.
LEMMA NothingLinkedStep ==
  ASSUME CInv, TInv', UNCHANGED <<table, symbols, memory, current_file, job>> PROVE CInv'
<1>1. UNCHANGED <<filename, sym, symbols, code, links, current_file, job>>
  BY DEF table, memory
<1>2. /\ NamesDiffer' /\ TablesLinked' /\ OperationsLoaded' /\ PagesApart'
      /\ Marked' = Marked /\ \A s : PagesOf(s)' = PagesOf(s) /\ Live(s)' = Live(s)
  BY <1>1, SymbolsUntouched
<1>3. Linked(job.page)' <=> Linked(job.page)
  BY <1>1 DEF Linked
<1>4. UNCHANGED <<rm, file>>
  BY <1>1 DEF symbols
<1>5. JobInv'
  BY <1>1, <1>2, <1>3, <1>4 DEF JobInv, CInv
<1> QED BY <1>2, <1>5 DEF CInv

LEMMA CInvStep == CInv /\ SafeSwap /\ [Next]_vars => CInv'
<1> SUFFICES ASSUME CInv, SafeSwap, [Next]_vars PROVE CInv'
  OBVIOUS
<1>1. TInv'
  BY TInvStep DEF CInv
<1>2. CASE UNCHANGED vars
  BY <1>1, <1>2, NothingLinkedStep DEF vars
<1>3. ASSUME NEW f \in Files, Insert(f) PROVE CInv'
  BY <1>1, <1>3, InsertStep
<1>4. ASSUME NEW f \in SwapFiles, NEW n \in Names, StartSwap(f, n) PROVE CInv'
  BY <1>1, <1>4, StartSwapStep
<1>5. ASSUME NEW p \in Pages, Load(p) PROVE CInv'
  BY <1>1, <1>5, LoadStep
<1>6. ASSUME NotElf \/ Relocate \/ RegisterDriver \/ RefuseDriver \/ RegisterScheduler
             \/ SwapIn \/ RefuseSwap \/ ExitOld
      PROVE  CInv'
  BY <1>1, <1>6, NotElfStep, RelocateStep, RegisterDriverStep, NoSymbolStep, SwapInStep,
     RefuseSwapStep, ExitOldStep
<1>7. ASSUME NEW n \in Names, Remove(n) PROVE CInv'
  BY <1>1, <1>7, RemoveStep
<1>8. ASSUME (\E n \in Names, o \in OpNames : Exec(n, o)) \/ \E a \in Pins : Request(a)
      PROVE  CInv'
  BY <1>1, <1>8, NothingLinkedStep DEF Exec, Request
<1> QED BY <1>2, <1>3, <1>4, <1>5, <1>6, <1>7, <1>8 DEF Next

LEMMA CInvHolds == Spec /\ []SafeSwap => []CInv
BY CInvInit, CInvStep, PTL DEF Spec

LEMMA CInvIsLoaded == CInv => SymbolsLoaded
<1> SUFFICES ASSUME CInv, NEW s \in Marked
             PROVE  /\ 1 \notin left[s]
                    /\ \A e \in Live(s) : Offers(e.page, e) /\ Linked(e.page)
                    /\ \A t \in Marked \ {s} :
                         {e.page : e \in Live(s)} \cap {e.page : e \in Live(t)} = {}
  BY DEF SymbolsLoaded, Offers, Linked
<1>1. Loaded(s)
  BY MarkedTypes
<1>2. ASSUME NEW t \in Marked \ {s}
      PROVE  {e.page : e \in Live(s)} \cap {e.page : e \in Live(t)} = {}
  BY DEF CInv, PagesApart, PagesOf
<1> QED BY <1>1, <1>2 DEF Loaded

\* What users can call is loaded, offers the operation they call it for, is
\* nobody else's, and was linked with all it calls, through any sequence of
\* insertions, swaps and removals that stays with SafeSwap, but for the later
\* operations that a swap accepted early left in the page it frees.
THEOREM SymbolsStayLoaded == Spec /\ []SafeSwap => []SymbolsLoaded
BY CInvHolds, CInvIsLoaded, PTL

-----------------------------------------------------------------------------
(* The pins.                                                               *)

\* Who can ask for a pin while nothing is handled finds a current component.
HasCurrent == Marked # {} => current_file # 0

HeldOnce ==
  \A c, d \in 1..Slots : \A k \in 1..Len(hardware[c]), l \in 1..Len(hardware[d]) :
    hardware[c][k] = hardware[d][l] => c = d /\ k = l

Held(a) == \E c \in 1..Slots : \E k \in 1..Len(hardware[c]) : hardware[c][k] = a

Counted == \A a \in Pins : app_count[a] = 1 <=> Held(a)

LEMMA ClaimPinned ==
  ASSUME PinTypes, HeldOnce, Counted, NEW a \in Pins, current_file \in 1..Slots, Claim(a)
  PROVE  HeldOnce' /\ Counted'
<1>1. CASE app_count[a] # 0
  BY <1>1 DEF Claim, devices, HeldOnce, Counted, Held
<1>2. CASE app_count[a] = 0
  <2>1. PICK c \in 1..Slots : c = current_file
    OBVIOUS
  <2>2. \A d \in 1..Slots : hardware[d] \in Seq(Pins) /\ Len(hardware[d]) \in Nat
    BY LenProperties DEF PinTypes
  <2>3. /\ hardware'[c] = Append(hardware[c], a)
        /\ \A d \in 1..Slots : d # c => hardware'[d] = hardware[d]
        /\ app_count'[a] = 1 /\ \A b \in Pins : b # a => app_count'[b] = app_count[b]
    <3>1. /\ hardware' = [hardware EXCEPT ![c] = Append(hardware[c], a)]
          /\ app_count' = [app_count EXCEPT ![a] = 1]
      BY <1>2, <2>1 DEF Claim
    <3>2. DOMAIN hardware = 1..Slots /\ DOMAIN app_count = Pins
      BY DEF PinTypes
    <3> QED BY ONLY <3>1, <3>2, c \in 1..Slots, a \in Pins
  <2>4. /\ Len(hardware'[c]) = Len(hardware[c]) + 1
        /\ hardware'[c][Len(hardware[c]) + 1] = a
        /\ \A k \in 1..Len(hardware[c]) : hardware'[c][k] = hardware[c][k]
    BY <2>2, <2>3, AppendProperties
  <2>5. ~Held(a)
    BY <1>2 DEF Counted
  <2>6. \A d \in 1..Slots : \A k \in 1..Len(hardware'[d]) :
          \/ k \in 1..Len(hardware[d]) /\ hardware'[d][k] = hardware[d][k]
          \/ d = c /\ k = Len(hardware[c]) + 1 /\ hardware'[d][k] = a
    <3>1. ASSUME NEW d \in 1..Slots, NEW k \in 1..Len(hardware'[d]), d # c
          PROVE  k \in 1..Len(hardware[d]) /\ hardware'[d][k] = hardware[d][k]
      BY <2>3, <3>1
    <3>2. ASSUME NEW k \in 1..Len(hardware'[c])
          PROVE  \/ k \in 1..Len(hardware[c]) /\ hardware'[c][k] = hardware[c][k]
                 \/ k = Len(hardware[c]) + 1 /\ hardware'[c][k] = a
      <4>1. k \in 1..Len(hardware[c]) \/ k = Len(hardware[c]) + 1
        BY <2>2, <2>4
      <4> QED BY <2>4, <4>1
    <3> QED BY <3>1, <3>2
  <2>7. HeldOnce'
    <3>1. ASSUME NEW d \in 1..Slots, NEW e \in 1..Slots,
                 NEW k \in 1..Len(hardware'[d]), NEW l \in 1..Len(hardware'[e]),
                 hardware'[d][k] = hardware'[e][l]
          PROVE  d = e /\ k = l
      <4>1. CASE k \in 1..Len(hardware[d]) /\ l \in 1..Len(hardware[e])
                 /\ hardware'[d][k] = hardware[d][k] /\ hardware'[e][l] = hardware[e][l]
        <5>1. hardware[d][k] = hardware[e][l]
          BY <3>1, <4>1
        <5> QED BY ONLY HeldOnce, <4>1, <5>1, d \in 1..Slots, e \in 1..Slots DEF HeldOnce
      <4>2. \A i \in 1..Slots : \A m \in 1..Len(hardware[i]) : hardware[i][m] # a
        BY <2>5 DEF Held
      <4> QED BY <2>6, <3>1, <4>1, <4>2, SMTT(30)
    <3> QED BY <3>1 DEF HeldOnce
  <2>8. ASSUME NEW b \in Pins PROVE app_count'[b] = 1 <=> Held(b)'
    <3>1. CASE b = a
      <4>1. Len(hardware'[c]) \in Nat /\ Len(hardware[c]) + 1 \in 1..Len(hardware'[c])
        BY <2>2, <2>4
      <4> QED BY <2>3, <2>4, <3>1, <4>1 DEF Held
    <3>2. CASE b # a
      <4>1. Held(b) => Held(b)'
        <5>1. ASSUME NEW d \in 1..Slots, NEW k \in 1..Len(hardware[d]), hardware[d][k] = b
              PROVE  k \in 1..Len(hardware'[d]) /\ hardware'[d][k] = b
          BY <2>2, <2>3, <2>4, <5>1, SMTT(30)
        <5> QED BY <5>1 DEF Held
      <4>2. Held(b)' => Held(b)
        BY <2>6, <3>2 DEF Held
      <4> QED BY <2>3, <3>2, <4>1, <4>2 DEF Counted
    <3> QED BY <3>1, <3>2
  <2> QED BY <2>7, <2>8 DEF Counted
<1> QED BY <1>1, <1>2 DEF PinTypes

PInv == TInv /\ HasCurrent /\ HeldOnce /\ Counted

LEMMA PInvInit == Init => PInv
<1> SUFFICES ASSUME Init PROVE PInv
  OBVIOUS
<1>1. TInv
  BY TInvInit
<1>2. HasCurrent
  BY DEF Init, HasCurrent, Marked
<1>3. \A c \in 1..Slots : hardware[c] = << >> /\ Len(hardware[c]) = 0
  BY DEF Init
<1>4. HeldOnce /\ Counted
  BY <1>3 DEF HeldOnce, Counted, Held, Init
<1> QED BY <1>1, <1>2, <1>4 DEF PInv

\* Only registering adds a symbol, and only for a job.
LEMMA HasCurrentStep ==
  ASSUME TInv, HasCurrent, [Next]_vars PROVE HasCurrent'
<1>1. ASSUME UNCHANGED <<current_file, marked>> PROVE HasCurrent'
  BY <1>1 DEF HasCurrent, Marked
<1>2. CASE UNCHANGED vars
  BY <1>1, <1>2 DEF vars, symbols
<1>3. ASSUME NEW f \in Files, Insert(f) PROVE HasCurrent'
  <2>1. current_file' \in 1..Slots
    BY <1>3, FirstFree DEF Insert
  <2> QED BY <2>1 DEF HasCurrent
<1>4. ASSUME NEW f \in SwapFiles, NEW n \in Names, StartSwap(f, n) PROVE HasCurrent'
  <2>1. Greatest(Named(n)) \in Marked /\ current_file' = file[Greatest(Named(n))]
    BY <1>4, NamedSymbols DEF StartSwap
  <2> QED BY <2>1 DEF HasCurrent, TInv, HasEntry
<1>5. ASSUME NotElf \/ (\E p \in Pages : Load(p)) \/ Relocate \/ RefuseDriver
             \/ RegisterScheduler \/ SwapIn \/ RefuseSwap
             \/ (\E n \in Names, o \in OpNames : Exec(n, o)) \/ (\E a \in Pins : Request(a))
      PROVE  HasCurrent'
  BY <1>1, <1>5 DEF NotElf, Load, Relocate, RefuseDriver, RegisterScheduler, SwapIn,
                    RefuseSwap, Exec, Request, symbols
<1>6. CASE RegisterDriver
  BY <1>6, JobHas DEF RegisterDriver, Initialising, TInv, HasCurrent
<1>7. ASSUME ExitOld \/ \E n \in Names : Remove(n) PROVE HasCurrent'
  <2>1. \A s \in 1..Syms : marked'[s] => marked[s]
    <3>1. \A n : \A s \in 1..Syms : Unregistered(n)[s] => marked[s]
      BY UnregisteredType DEF TInv
    <3>2. marked' = marked \/ \E n : marked' = Unregistered(n)
      BY <1>7 DEF ExitOld, Remove
    <3> QED BY <3>1, <3>2
  <2>2. UNCHANGED current_file
    BY <1>7 DEF ExitOld, Remove
  <2> QED BY <2>1, <2>2 DEF HasCurrent, Marked
<1> QED BY <1>2, <1>3, <1>4, <1>5, <1>6, <1>7 DEF Next

LEMMA PInvStep == PInv /\ [Next]_vars => PInv'
<1> SUFFICES ASSUME PInv, [Next]_vars PROVE PInv'
  OBVIOUS
<1>1. TInv' /\ HasCurrent' /\ TInv
  BY TInvStep, HasCurrentStep DEF PInv
<1>2. CASE (\E n \in Names, o \in OpNames : Exec(n, o)) \/ \E a \in Pins : Request(a)
  <2>1. PICK a \in Pins : Claim(a)
    BY <1>1, <1>2, Claims
  <2>2. current_file # 0
    BY <1>2 DEF Exec, Request, Named, PInv, HasCurrent
  <2>3. current_file \in 1..Slots
    BY <1>1, <2>2, BoundAssumption DEF TInv, FileTypes
  <2> QED BY <1>1, <2>1, <2>3, ClaimPinned DEF PInv, TInv
<1>3. CASE UNCHANGED devices
  BY <1>1, <1>3 DEF devices, PInv, HeldOnce, Counted, Held
<1>4. UNCHANGED vars => UNCHANGED devices
  BY DEF vars
<1>5. ASSUME \/ \E f \in Files : Insert(f)
             \/ \E f \in SwapFiles, n \in Names : StartSwap(f, n)
             \/ NotElf \/ (\E p \in Pages : Load(p)) \/ Relocate
             \/ RegisterDriver \/ RefuseDriver \/ RegisterScheduler
             \/ SwapIn \/ RefuseSwap \/ ExitOld \/ \E n \in Names : Remove(n)
      PROVE  UNCHANGED devices
  BY <1>5 DEF Insert, StartSwap, NotElf, Load, Relocate, RegisterDriver, RefuseDriver,
              RegisterScheduler, SwapIn, RefuseSwap, ExitOld, Remove
<1> QED BY <1>2, <1>3, <1>4, <1>5 DEF Next

LEMMA PInvHolds == Spec => []PInv
BY PInvInit, PInvStep, PTL DEF Spec

\* A component's list of pins is no longer than there are pins.
LEMMA ListOfPins ==
  ASSUME IsFiniteSet(Pins), PinTypes, HeldOnce, NEW c \in 1..Slots
  PROVE  Len(hardware[c]) <= Cardinality(Pins)
<1>1. hardware[c] \in Seq(Pins) /\ Len(hardware[c]) \in Nat
  BY LenProperties DEF PinTypes
<1>2. \A k \in 1..Len(hardware[c]) : hardware[c][k] \in Pins
  BY <1>1, ElementOfSeq
<1> DEFINE I == [k \in 1..Len(hardware[c]) |-> hardware[c][k]]
<1>3. I \in Injection(1..Len(hardware[c]), Pins)
  BY <1>2 DEF HeldOnce, Injection, IsInjective
<1> HIDE DEF I
<1>4. Cardinality(1..Len(hardware[c])) <= Cardinality(Pins)
  BY <1>3, FS_Injection
<1>5. Cardinality(1..Len(hardware[c])) = Len(hardware[c])
  BY <1>1, FS_Interval
<1> QED BY <1>4, <1>5

LEMMA PinsCounted ==
  ASSUME IsFiniteSet(Pins), PInv, NEW a \in Pins
  PROVE  Cardinality(Holders(a)) = app_count[a]
<1>1. PinTypes /\ HeldOnce /\ Counted
  BY DEF PInv, TInv
<1>2. \A c \in 1..Slots : Len(hardware[c]) \in Nat
  BY <1>1, LenProperties DEF PinTypes
<1>3. CASE app_count[a] = 1
  <2>1. PICK c \in 1..Slots : \E k \in 1..Len(hardware[c]) : hardware[c][k] = a
    BY <1>1, <1>3 DEF Counted, Held
  <2>2. PICK k \in 1..Len(hardware[c]) : hardware[c][k] = a
    BY <2>1
  <2>3. k \in 1..Cardinality(Pins)
    <3>1. Cardinality(Pins) \in Nat /\ Len(hardware[c]) <= Cardinality(Pins)
      BY <1>1, ListOfPins, FS_CardinalityType
    <3> QED BY <1>2, <3>1
  <2>4. Holders(a) = {<<c, k>>}
    <3>1. <<c, k>> \in Holders(a)
      BY <1>2, <2>2, <2>3 DEF Holders
    <3>2. ASSUME NEW h \in Holders(a) PROVE h = <<c, k>>
      <4>1. h[1] \in 1..Slots /\ h[2] \in 1..Len(hardware[h[1]]) /\ hardware[h[1]][h[2]] = a
            /\ h = <<h[1], h[2]>>
        BY <1>2 DEF Holders
      <4>2. h[1] = c /\ h[2] = k
        BY <1>1, <2>2, <4>1 DEF HeldOnce
      <4> QED BY <4>1, <4>2
    <3> QED BY <3>1, <3>2
  <2> QED BY <1>3, <2>4, FS_Singleton
<1>4. CASE app_count[a] # 1
  <2>1. ~Held(a) /\ app_count[a] = 0
    BY <1>1, <1>4 DEF Counted, PinTypes
  <2>2. Holders(a) = {}
    <3>1. ASSUME NEW h \in Holders(a) PROVE FALSE
      <4>1. h[1] \in 1..Slots /\ h[2] \in 1..Len(hardware[h[1]]) /\ hardware[h[1]][h[2]] = a
        BY <1>2 DEF Holders
      <4> QED BY <2>1, <4>1 DEF Held
    <3> QED BY <3>1
  <2> QED BY <2>1, <2>2, FS_EmptySet
<1> QED BY <1>3, <1>4

LEMMA InvsAgree ==
  ASSUME IsFiniteSet(Pins), CInv, PInv PROVE TablesAgree
<1>1. \A s \in Marked : /\ file[s] # 0 /\ rm[s] # Null
                        /\ sym[file[s]] = s
                        /\ filename[file[s]] = code[rm[s]]
                        /\ code[rm[s]] # Nothing
  BY MarkedTypes DEF Registered
<1> QED BY <1>1, PinsCounted DEF TablesAgree

\* The component table and the symbol table lead to each other, and a pin that
\* hardware_table counts is in one list, once: what swap_compt, rm_compt_file and
\* hardware_request rely on when they go from one table to another.
THEOREM TablesStayLinked == ASSUME IsFiniteSet(Pins) PROVE Spec /\ []SafeSwap => []TablesAgree
<1>1. CInv /\ PInv => TablesAgree
  BY InvsAgree
<1> QED BY <1>1, CInvHolds, PInvHolds, PTL

-----------------------------------------------------------------------------
(* The registry of names.                                                  *)

\* Drivers have operations.
DriversOffer ==
  \A f \in Files : About[f].elf /\ About[f].kind = "DRV_COM" => Len(About[f].ops) >= 1

\* The file that serves a symbol's operations.
Serves(s) == code[opera[s][1].page]

ElfLoaded == \A p \in Pages : code[p] # Nothing => About[code[p]].elf

\* What serves a symbol has as many operations, and the same first one.
Shape ==
  \A s \in Marked : /\ Len(opera[s]) >= 1 /\ Len(About[Serves(s)].ops) = Len(opera[s])
                    /\ About[Serves(s)].ops[1].name = opera[s][1].op.name

RegInv == ElfLoaded /\ Shape

LEMMA RegInvInit == Init => RegInv
BY DEF Init, RegInv, ElfLoaded, Shape, Marked

LEMMA FirstOperation ==
  ASSUME CInv, Shape, NEW s \in Marked
  PROVE  /\ opera[s][1] \in Live(s) /\ opera[s][1].page \in PagesOf(s)
         /\ opera[s][1].page \in Pages /\ Serves(s) \in Files
         /\ Offers(opera[s][1].page, opera[s][1])
<1>1. /\ s \in 1..Syms /\ opera[s] \in Seq([op : Ops, page : Pages]) /\ Loaded(s)
      /\ SymbolTypes /\ PageTypes
  BY MarkedTypes DEF CInv, TInv, SymbolTypes
<1>2. opera[s][1] \in Live(s)
  <2>1. 1 \in 1..Len(opera[s])
    BY <1>1, LenProperties DEF Shape
  <2> QED BY <1>1, <2>1 DEF Live, Loaded
<1>3. opera[s][1].page \in Pages
  BY <1>1, <1>2, LiveOperations, OperationTypes
<1>4. Offers(opera[s][1].page, opera[s][1])
  BY <1>1, <1>2 DEF Loaded
<1> QED BY <1>1, <1>2, <1>3, <1>4 DEF PagesOf, Serves, Offers, PageTypes

ServedByName ==
  /\ \A s \in Marked : Server(ksym_name[s]) = Serves(s)
  /\ \A n \in Names : (\A s \in Marked : ksym_name[s] # n) => Server(n) = Nothing

LEMMA Answers == CInv => ServedByName
<1> SUFFICES ASSUME CInv PROVE ServedByName
  OBVIOUS
<1>1. ASSUME NEW s \in Marked PROVE Server(ksym_name[s]) = Serves(s)
  <2>1. s \in 1..Syms /\ ksym_name[s] # Nothing
    BY MarkedTypes, NamesAssumption
  <2>2. Named(ksym_name[s]) = {s}
    BY <2>1 DEF Named, NamesDiffer, CInv, Marked
  <2>3. Least({s}) = s
    BY <2>1, BoundAssumption DEF Least
  <2> QED BY <2>2, <2>3 DEF Server, Serves
<1>2. ASSUME NEW n \in Names, \A s \in Marked : ksym_name[s] # n PROVE Server(n) = Nothing
  BY <1>2 DEF Server, Named
<1> QED BY <1>1, <1>2 DEF ServedByName

AnswersAre == CInv => ServedByName
LEMMA AnswersNamed == AnswersAre
BY Answers DEF AnswersAre
LEMMA AnswersNext == AnswersAre'
BY AnswersNamed, PTL

\* Which symbols show, their names and what serves them are left alone.
LEMMA QuietStep ==
  ASSUME CInv, CInv', Shape, Marked' = Marked,
         \A s \in Marked : /\ ksym_name'[s] = ksym_name[s]
                           /\ Serves(s)' = Serves(s) /\ Len(opera'[s]) = Len(opera[s])
                           /\ opera'[s][1].op = opera[s][1].op
  PROVE  Shape' /\ \A n \in Names : Server(n)' = Server(n)
<1>1. ServedByName /\ ServedByName'
  BY Answers, AnswersNext DEF AnswersAre
<1>2. ASSUME NEW n \in Names PROVE Server(n)' = Server(n)
  <2>1. CASE \E s \in Marked : ksym_name[s] = n
    BY <1>1, <2>1 DEF ServedByName
  <2>2. CASE \A s \in Marked : ksym_name[s] # n
    BY <1>1, <2>2 DEF ServedByName
  <2> QED BY <2>1, <2>2
<1>3. Shape'
  BY DEF Shape
<1> QED BY <1>2, <1>3

LEMMA DropServer ==
  ASSUME CInv, CInv', Shape, NEW t \in Marked, Drops(t)
  PROVE  /\ Shape'
         /\ \E n \in Names : /\ Server(n) # Nothing /\ Server(n)' = Nothing
                             /\ \A m \in Names \ {n} : Server(m)' = Server(m)
<1>1. ServedByName /\ ServedByName' /\ Marked' = Marked \ {t}
  BY Answers, AnswersNext DEF AnswersAre, Drops
<1>2. \A s \in Marked \ {t} : ksym_name'[s] = ksym_name[s] /\ opera'[s] = opera[s]
                              /\ Serves(s)' = Serves(s)
  BY OtherPlaces, FirstOperation DEF Drops, Serves
<1>3. PICK n \in Names : n = ksym_name[t]
  BY MarkedTypes
<1>4. \A s \in Marked \ {t} : ksym_name[s] # n
  BY <1>3, MarkedTypes, NamesAssumption DEF CInv, NamesDiffer
<1>5. Server(n) # Nothing
  BY <1>1, <1>3, FirstOperation, NamesAssumption DEF ServedByName
<1>6. Server(n)' = Nothing
  BY <1>1, <1>2, <1>4 DEF ServedByName
<1>7. ASSUME NEW m \in Names \ {n} PROVE Server(m)' = Server(m)
  <2>1. CASE \E s \in Marked \ {t} : ksym_name[s] = m
    BY <1>1, <1>2, <2>1 DEF ServedByName
  <2>2. CASE \A s \in Marked \ {t} : ksym_name[s] # m
    BY <1>1, <1>2, <1>3, <2>2 DEF ServedByName
  <2> QED BY <2>1, <2>2
<1>8. Shape'
  BY <1>1, <1>2 DEF Shape
<1> QED BY <1>5, <1>6, <1>7, <1>8

LEMMA LoadedStep == CInv /\ ElfLoaded /\ [Next]_vars => ElfLoaded'
<1> SUFFICES ASSUME CInv, ElfLoaded, [Next]_vars PROVE ElfLoaded'
  OBVIOUS
<1>1. PageTypes
  BY DEF CInv, TInv
<1>2. ASSUME UNCHANGED code PROVE ElfLoaded'
  BY <1>2 DEF ElfLoaded
<1>3. ASSUME \E p : code' = [code EXCEPT ![p] = Nothing] PROVE ElfLoaded'
  BY <1>1, <1>3 DEF ElfLoaded, PageTypes
<1>4. ASSUME NEW p \in Pages, Load(p) PROVE ElfLoaded'
  BY <1>1, <1>4 DEF Load, ElfLoaded, PageTypes
<1>5. ASSUME ExitOld \/ \E n \in Names : Remove(n) PROVE ElfLoaded'
  <2>1. UNCHANGED code \/ \E p : code' = [code EXCEPT ![p] = Nothing]
    BY <1>5 DEF ExitOld, Remove
  <2> QED BY <1>2, <1>3, <2>1
<1>6. ASSUME \/ \E f \in Files : Insert(f)
             \/ \E f \in SwapFiles, n \in Names : StartSwap(f, n)
             \/ NotElf \/ Relocate \/ RegisterDriver \/ RefuseDriver \/ RegisterScheduler
             \/ SwapIn \/ RefuseSwap \/ UNCHANGED vars
             \/ (\E n \in Names, o \in OpNames : Exec(n, o)) \/ \E a \in Pins : Request(a)
      PROVE  ElfLoaded'
  <2>1. UNCHANGED code
    BY <1>6 DEF Insert, StartSwap, NotElf, Relocate, RegisterDriver, RefuseDriver,
                RegisterScheduler, SwapIn, RefuseSwap, Exec, Request, memory, vars
  <2> QED BY <1>2, <2>1
<1> QED BY <1>4, <1>5, <1>6 DEF Next

\* Steps of the manager that the registry does not see.
LEMMA UnseenSteps ==
  ASSUME CInv, CInv', Shape, UNCHANGED <<ksym_name, marked, opera>>,
         UNCHANGED code \/ (\E p \in Pages : Load(p)) \/ (ExitOld /\ job.stage = "exit")
  PROVE  Shape' /\ \A n \in Names : Server(n)' = Server(n)
<1>1. Marked' = Marked
  BY DEF Marked
<1>2. ASSUME NEW s \in Marked PROVE code'[opera[s][1].page] = code[opera[s][1].page]
  <2>1. /\ opera[s][1] \in Live(s) /\ opera[s][1].page \in PagesOf(s)
        /\ opera[s][1].page \in Pages /\ Serves(s) \in Files
    BY FirstOperation
  <2>2. ASSUME NEW p \in Pages, Load(p)
        PROVE code'[opera[s][1].page] = code[opera[s][1].page]
    <3>1. DOMAIN code = Pages
      BY DEF CInv, TInv, PageTypes
    <3>2. p # opera[s][1].page
      BY <2>1, <2>2, NamesAssumption DEF Load, Serves
    <3> QED BY <2>1, <2>2, <3>1, <3>2 DEF Load
  <2>3. CASE ExitOld /\ job.stage = "exit"
    <3>1. PICK t \in Marked : /\ t = job.swap
                              /\ \A q \in Pages : q # rm[t] => code'[q] = code[q]
      BY <2>3, ExitOldHas
    <3>2. opera[s][1].page # rm[t]
      <4>1. CASE s = t
        BY <2>1, <2>3, <3>1, <4>1 DEF CInv, JobInv
      <4>2. CASE s # t
        BY <2>1, <4>2, OtherPlaces
      <4> QED BY <4>1, <4>2
    <3> QED BY <2>1, <3>1, <3>2
  <2> QED BY <2>2, <2>3
<1>3. \A s \in Marked : /\ ksym_name'[s] = ksym_name[s]
                        /\ Serves(s)' = Serves(s) /\ Len(opera'[s]) = Len(opera[s])
                        /\ opera'[s][1].op = opera[s][1].op
  BY <1>2 DEF Serves
<1> QED BY <1>1, <1>3, QuietStep

LEMMA RegisterServes ==
  ASSUME DriversOffer, CInv, CInv', ElfLoaded, Shape, RegisterDriver
  PROVE  /\ Shape'
         /\ \E n \in Names, f \in Files :
              /\ Server(n) = Nothing /\ About[f].name = n /\ Server(n)' = f
              /\ \A m \in Names \ {n} : Server(m)' = Server(m)
<1>1. PICK i \in 1..Syms, f \in Files, p \in Pages, c \in 1..Slots :
        /\ ~marked[i] /\ marked' = [marked EXCEPT ![i] = TRUE]
        /\ f = job.file /\ code[p] = f /\ f # Nothing
        /\ About[f].name \in Names
        /\ \A s \in 1..Syms : ksym_name[s] # About[f].name
        /\ ksym_name'[i] = About[f].name /\ opera'[i] = Calls(About[f].ops, p)
        /\ \A s \in 1..Syms \ {i} : ksym_name'[s] = ksym_name[s] /\ opera'[s] = opera[s]
  BY RegisterHas
<1>2. UNCHANGED code /\ About[f].kind = "DRV_COM"
  BY <1>1 DEF RegisterDriver, New, memory
<1>3. ServedByName /\ ServedByName'
  BY Answers, AnswersNext DEF AnswersAre
<1>4. Marked' = Marked \cup {i} /\ i \notin Marked /\ Marked \subseteq 1..Syms
  BY <1>1 DEF Marked, CInv, TInv, SymbolTypes
<1>5. About[f].elf /\ Len(About[f].ops) >= 1 /\ About[f].ops \in Seq(Ops)
  BY <1>1, <1>2, AboutFile DEF DriversOffer, ElfLoaded
<1>6. /\ Len(About[f].ops) \in Nat /\ Len(opera'[i]) = Len(About[f].ops)
      /\ opera'[i][1].page = p /\ opera'[i][1].op = About[f].ops[1]
  <2>1. Len(About[f].ops) \in Nat /\ 1 \in 1..Len(About[f].ops)
    BY <1>5, LenProperties
  <2> QED BY <1>1, <2>1 DEF Calls
<1>7. Serves(i)' = f
  BY <1>1, <1>2, <1>6 DEF Serves
<1>8. \A s \in Marked : /\ ksym_name'[s] = ksym_name[s] /\ opera'[s] = opera[s]
                        /\ Serves(s)' = Serves(s)
  BY <1>1, <1>2, <1>4 DEF Serves
<1>9. PICK n \in Names : n = About[f].name
  BY <1>1
<1>10. Server(n) = Nothing
  BY <1>1, <1>3, <1>4, <1>9 DEF ServedByName
<1>11. Server(n)' = f
  BY <1>1, <1>3, <1>4, <1>7, <1>9 DEF ServedByName
<1>12. ASSUME NEW m \in Names \ {n} PROVE Server(m)' = Server(m)
  <2>1. CASE \E s \in Marked : ksym_name[s] = m
    BY <1>3, <1>4, <1>8, <2>1 DEF ServedByName
  <2>2. CASE \A s \in Marked : ksym_name[s] # m
    BY <1>1, <1>3, <1>4, <1>8, <1>9, <2>2 DEF ServedByName
  <2> QED BY <2>1, <2>2
<1>13. Shape'
  BY <1>4, <1>5, <1>6, <1>7, <1>8 DEF Shape
<1> QED BY <1>9, <1>10, <1>11, <1>12, <1>13

\* A swap that redirects the first operation gives the name another server.
LEMMA SwapServes ==
  ASSUME SafeSwap, CInv, CInv', RegInv, SwapIn
  PROVE  /\ Shape'
         /\ \/ \A n \in Names : Server(n)' = Server(n)
            \/ \E n \in Names, f \in Files :
                 /\ Server(n) \in Files /\ About[f].name = Null /\ Server(n)' = f
                 /\ Len(About[f].ops) = Len(About[Server(n)].ops) /\ Len(About[f].ops) >= 1
                 /\ Len(About[f].ops) \in Nat
                 /\ About[f].ops[1].name = About[Server(n)].ops[1].name
                 /\ \A m \in Names \ {n} : Server(m)' = Server(m)
<1>1. UNCHANGED <<ksym_name, marked, code>>
  BY DEF SwapIn, memory
<1>0. PICK t \in Marked, f \in Files, p \in Pages, k \in Nat : Swapped(t, f, p, k)
  BY SwapInHas
<1>2. /\ code[p] = f /\ k <= Len(opera[t])
      /\ About[f].name = Null /\ Len(About[f].ops) = Len(opera[t])
      /\ \A i \in 1..k : About[f].ops[i].name = opera[t][i].op.name
      /\ Len(opera'[t]) = Len(opera[t])
      /\ \A i \in 1..Len(opera[t]) :
           /\ opera'[t][i].op = opera[t][i].op
           /\ opera'[t][i].page = IF i <= k THEN p ELSE opera[t][i].page
      /\ \A s \in 1..Syms \ {t} : opera'[s] = opera[s]
  BY <1>0 DEF Swapped
<1>3. /\ t \in 1..Syms /\ Shape /\ Len(opera[t]) \in Nat /\ Len(opera[t]) >= 1
      /\ 1 \in 1..Len(opera[t])
  <2>1. t \in 1..Syms /\ Shape /\ Len(opera[t]) >= 1
    BY MarkedTypes DEF RegInv, Shape
  <2>2. opera[t] \in Seq([op : Ops, page : Pages])
    BY <2>1 DEF CInv, TInv, SymbolTypes
  <2> QED BY <2>1, <2>2, LenProperties
<1>4. opera'[t][1].op = opera[t][1].op
      /\ opera'[t][1].page = IF 1 <= k THEN p ELSE opera[t][1].page
  BY <1>2, <1>3
<1>5. ServedByName /\ ServedByName' /\ Marked' = Marked
  BY <1>1, Answers, AnswersNext DEF AnswersAre, Marked
<1>6. \A s \in Marked \ {t} : /\ ksym_name'[s] = ksym_name[s] /\ opera'[s] = opera[s]
                              /\ Serves(s)' = Serves(s)
  <2>1. \A s \in Marked \ {t} : opera'[s] = opera[s]
    BY <1>2, MarkedTypes
  <2> QED BY <1>1, <2>1 DEF Serves
<1>7. CASE ~(1 <= k)
  <2>1. Serves(t)' = Serves(t) /\ ksym_name'[t] = ksym_name[t]
    BY <1>1, <1>4, <1>7 DEF Serves
  <2>2. \A s \in Marked : /\ ksym_name'[s] = ksym_name[s]
                           /\ Serves(s)' = Serves(s) /\ Len(opera'[s]) = Len(opera[s])
                           /\ opera'[s][1].op = opera[s][1].op
    BY <1>2, <1>4, <1>6, <2>1
  <2> QED BY <1>3, <1>5, <2>2, QuietStep
<1>8. CASE 1 <= k
  <2>1. Serves(t)' = f
    BY <1>1, <1>2, <1>4, <1>8 DEF Serves
  <2>2. About[f].ops[1].name = opera[t][1].op.name
    <3>1. 1 \in 1..k
      BY <1>8
    <3> QED BY <1>2, <3>1
  <2>3. /\ Serves(t) \in Files /\ Len(About[Serves(t)].ops) = Len(opera[t])
        /\ About[Serves(t)].ops[1].name = opera[t][1].op.name
    BY <1>3, FirstOperation DEF Shape
  <2>4. PICK n \in Names : n = ksym_name[t] /\ n = ksym_name'[t]
    BY <1>1, MarkedTypes
  <2>5. Server(n) = Serves(t) /\ Server(n)' = f
    BY <1>5, <2>1, <2>4 DEF ServedByName
  <2>6. ASSUME NEW m \in Names \ {n} PROVE Server(m)' = Server(m)
    <3>1. CASE \E s \in Marked \ {t} : ksym_name[s] = m
      BY <1>5, <1>6, <3>1 DEF ServedByName
    <3>2. CASE \A s \in Marked \ {t} : ksym_name[s] # m
      BY <1>5, <1>6, <2>4, <3>2 DEF ServedByName
    <3> QED BY <3>1, <3>2
  <2>7. Shape'
    <3>1. /\ Len(opera'[t]) >= 1 /\ Len(About[Serves(t)'].ops) = Len(opera'[t])
          /\ About[Serves(t)'].ops[1].name = opera'[t][1].op.name
      BY <1>2, <1>3, <1>4, <2>1, <2>2
    <3>2. \A s \in Marked \ {t} :
             /\ Len(opera'[s]) >= 1 /\ Len(About[Serves(s)'].ops) = Len(opera'[s])
             /\ About[Serves(s)'].ops[1].name = opera'[s][1].op.name
      BY <1>3, <1>6 DEF Shape
    <3> QED BY ONLY <1>5, <3>1, <3>2 DEF Shape
  <2>8. /\ Len(About[f].ops) = Len(About[Server(n)].ops) /\ Len(About[f].ops) >= 1
        /\ Len(About[f].ops) \in Nat
        /\ About[f].ops[1].name = About[Server(n)].ops[1].name /\ Server(n) \in Files
    BY <1>2, <1>3, <2>2, <2>3, <2>5
  <2> QED BY <1>2, <2>5, <2>6, <2>7, <2>8
<1> QED BY <1>7, <1>8

LEMMA RegistryInit == Init => Reg!Init
<1> SUFFICES ASSUME Init PROVE \A n \in Names : Server(n) = Nothing
  BY DEF Reg!Init
<1>1. Marked = {}
  BY DEF Init, Marked
<1> QED BY <1>1 DEF Server, Named

\* Every step is one of the registry's, or one it does not see.
LEMMA RegistryStep ==
  ASSUME DriversOffer, SafeSwap, CInv, CInv', RegInv, [Next]_vars
  PROVE  Shape' /\ [Reg!Next]_[n \in Names |-> Server(n)]
<1> DEFINE serves == [n \in Names |-> Server(n)]
<1>1. Shape /\ ElfLoaded
  BY DEF RegInv
<1>2. ASSUME \A n \in Names : Server(n)' = Server(n) PROVE [Reg!Next]_serves
  BY <1>2
<1>3. ASSUME NEW n \in Names, \A m \in Names \ {n} : Server(m)' = Server(m)
      PROVE  \A x : Server(n)' = x => serves' = [serves EXCEPT ![n] = x]
  BY <1>3
<1>4. ASSUME UNCHANGED <<ksym_name, marked, opera>>,
             UNCHANGED code \/ (\E p \in Pages : Load(p)) \/ (ExitOld /\ job.stage = "exit")
      PROVE  Shape' /\ [Reg!Next]_serves
  BY <1>1, <1>2, <1>4, UnseenSteps
<1>5. ASSUME NEW t \in Marked, Drops(t) PROVE Shape' /\ [Reg!Next]_serves
  <2>1. /\ Shape'
        /\ \E n \in Names : /\ Server(n) # Nothing /\ Server(n)' = Nothing
                            /\ \A m \in Names \ {n} : Server(m)' = Server(m)
    BY <1>1, <1>5, DropServer
  <2>2. PICK n \in Names : /\ Server(n) # Nothing /\ Server(n)' = Nothing
                           /\ \A m \in Names \ {n} : Server(m)' = Server(m)
    BY <2>1
  <2>3. serves' = [serves EXCEPT ![n] = Nothing]
    BY <1>3, <2>2
  <2>4. Reg!Remove(n)
    BY <2>2, <2>3 DEF Reg!Remove
  <2> QED BY <2>1, <2>4 DEF Reg!Next
<1>6. CASE RegisterDriver
  <2>1. /\ Shape'
        /\ \E n \in Names, f \in Files :
             /\ Server(n) = Nothing /\ About[f].name = n /\ Server(n)' = f
             /\ \A m \in Names \ {n} : Server(m)' = Server(m)
    BY <1>1, <1>6, RegisterServes
  <2>2. PICK n \in Names, f \in Files :
             /\ Server(n) = Nothing /\ About[f].name = n /\ Server(n)' = f
             /\ \A m \in Names \ {n} : Server(m)' = Server(m)
    BY <2>1
  <2>3. serves' = [serves EXCEPT ![n] = f]
    BY <1>3, <2>2
  <2>4. Reg!Insert(n, f)
    BY <2>2, <2>3 DEF Reg!Insert
  <2> QED BY <2>1, <2>4 DEF Reg!Next
<1>7. CASE SwapIn
  <2>1. CASE \A n \in Names : Server(n)' = Server(n)
    BY <1>2, <1>7, <2>1, SwapServes
  <2>2. CASE ~\A n \in Names : Server(n)' = Server(n)
    <3>1. PICK n \in Names, f \in Files :
            /\ Server(n) \in Files /\ About[f].name = Null /\ Server(n)' = f
            /\ Len(About[f].ops) = Len(About[Server(n)].ops) /\ Len(About[f].ops) >= 1
            /\ Len(About[f].ops) \in Nat
            /\ About[f].ops[1].name = About[Server(n)].ops[1].name
            /\ \A m \in Names \ {n} : Server(m)' = Server(m)
      BY <1>7, <2>2, SwapServes
    <3>2. serves' = [serves EXCEPT ![n] = f]
      BY <1>3, <3>1
    <3>3. About[f].ops # <<>> /\ About[Server(n)].ops # <<>>
      BY <3>1
    <3>4. Reg!Swap(n, f)
      BY <3>1, <3>2, <3>3, NamesAssumption DEF Reg!Swap
    <3> QED BY <1>7, <3>4, SwapServes DEF Reg!Next
  <2> QED BY <2>1, <2>2
<1>8. CASE UNCHANGED vars
  BY <1>4, <1>8 DEF vars, symbols, memory
<1>9. ASSUME \/ \E f \in Files : Insert(f)
             \/ \E f \in SwapFiles, n \in Names : StartSwap(f, n)
             \/ NotElf \/ Relocate \/ RefuseDriver \/ RegisterScheduler \/ RefuseSwap
             \/ (\E n \in Names, o \in OpNames : Exec(n, o)) \/ \E a \in Pins : Request(a)
      PROVE  Shape' /\ [Reg!Next]_serves
  <2>1. UNCHANGED <<ksym_name, marked, opera, code>>
    BY <1>9 DEF Insert, StartSwap, NotElf, Relocate, RefuseDriver, RegisterScheduler,
                RefuseSwap, Exec, Request, symbols, memory
  <2> QED BY <1>4, <2>1
<1>10. CASE \E p \in Pages : Load(p)
  <2>1. UNCHANGED <<ksym_name, marked, opera>>
    BY <1>10 DEF Load, symbols
  <2> QED BY <1>4, <1>10, <2>1
<1>12. CASE ExitOld
  <2>1. CASE job.stage = "exit"
    <3>1. UNCHANGED <<ksym_name, marked, opera>>
      BY <1>12, <2>1 DEF ExitOld
    <3> QED BY <1>4, <1>12, <2>1, <3>1
  <2>2. CASE job.stage = "exit without init"
    BY <1>5, <1>12, <2>2, ExitDrops
  <2> QED BY <1>12, <2>1, <2>2 DEF ExitOld
<1>13. ASSUME NEW n \in Names, Remove(n) PROVE Shape' /\ [Reg!Next]_serves
  <2>1. CASE UNCHANGED <<filename, symbols, sym, code, links>>
    BY <1>4, <2>1 DEF symbols
  <2> QED BY <1>5, <1>13, <2>1, RemoveDrops
<1> QED BY <1>6, <1>7, <1>8, <1>9, <1>10, <1>12, <1>13 DEF Next

\* The component manager implements the registry of names: what answers to a name
\* changes only by inserting a file that registers it, by swapping in one with as
\* many operations and the same first one, or by removing it, and at one step,
\* although relocation, init and exit of the components are separate steps.
THEOREM ManagerIsRegistry == ASSUME DriversOffer PROVE Spec /\ []SafeSwap => Registry
<1>1. CInv /\ CInv' /\ RegInv /\ SafeSwap /\ [Next]_vars
        => RegInv' /\ [Reg!Next]_[n \in Names |-> Server(n)]
  BY RegistryStep, LoadedStep DEF RegInv
<1> QED BY <1>1, RegistryInit, RegInvInit, CInvInit, CInvStep, PTL DEF Spec, Registry, Reg!Spec
=============================================================================
