----------------------------- MODULE Components -----------------------------
(***************************************************************************)
(* The component manager (compt.c, execom.c, lscom.c): the component table *)
(* cfile, the part of the kernel symbol table ksym that holds components,  *)
(* the pages their code is loaded into, the links that relocation writes   *)
(* into that code, and the pins recorded for each component.               *)
(*                                                                         *)
(* The daemon handles one letter at a time and no tick takes the processor *)
(* from it, but it may wait for memory: what it does between two           *)
(* allocations is one step.  An object file is described by what the       *)
(* manager reads in it: the name init_compt registers (NULL in one made    *)
(* for swapping), its operations, those it calls, and the pin it asks for. *)
(***************************************************************************)
EXTENDS Naturals, Sequences, FiniteSets

CONSTANTS
  Files,      \* object files
  SwapFiles,  \* those that swap letters name
  About,      \* About[f]: [elf, kind, name, ops, needs, pin]
  Names,      \* names of components
  OpNames,    \* names of operations
  Paras,      \* parameter lists of operations, as far as a swap compares them
  Pins,
  Pages,      \* bound: pages that code can be loaded into
  Slots,      \* cfile entries that are used (32 in the code)
  Syms        \* ksym entries for components (82 in the code)

Null == "NULL"
Nothing == "nothing"
Ops == [name : OpNames, para : Paras]
Kinds == {"DRV_COM", "SCH_COM"}

ASSUME AboutAssumption ==
  About \in [Files -> [elf : BOOLEAN, kind : Kinds, name : Names \cup {Null},
                       ops : Seq(Ops), needs : SUBSET (Names \X OpNames),
                       pin : Pins \cup {Null}]]
ASSUME SwapAssumption == SwapFiles \subseteq Files
ASSUME BoundAssumption == Slots \in Nat \ {0} /\ Syms \in Nat \ {0}
ASSUME NamesAssumption == /\ Null \notin Names \cup Pages \cup Pins
                          /\ Nothing \notin Names \cup Files

VARIABLES
  filename, sym, hardware,    \* cfile: file, index of its symbol, its pins
  ksym_name, marked,          \* ksym: the name, and whether it shows: its first
                              \* byte is cleared before the rest of it
  opera, rm, file,            \* ksym: operation table, exit_compt, cfile entry
  left,                       \* history: the operations in the table that an
                              \* accepted swap left in the page it frees
  sched_type,                 \* the page of the scheduler component
  code, links,                \* the file a page holds, the operations it calls
  current_file,
  job,                        \* the letter being handled
  app_count                   \* hardware_table

table == <<filename, sym>>
symbols == <<ksym_name, marked, opera, rm, file, left>>
memory == <<code, links>>
devices == <<hardware, app_count>>
vars == <<table, symbols, sched_type, memory, current_file, job, devices>>

Idle == [stage |-> "idle", file |-> Nothing, swap |-> 0, page |-> Null]
SchedSym == Syms + 1
Least(S) == CHOOSE x \in S : \A y \in S : x <= y
Greatest(S) == CHOOSE x \in S : \A y \in S : x >= y

Marked == {s \in 1..Syms : marked[s]}
Named(n) == {s \in Marked : ksym_name[s] = n}       \* compares the whole name
Known(n) == {s \in 1..Syms : ksym_name[s] = n}      \* skips "kservice_"
NotUsed == {s \in 1..Syms : ~marked[s]}
FreeFiles_All == 1..Slots     \* mutant: a taken entry is reused
FreeFiles == {c \in 1..Slots : filename[c] = Nothing}

\* An operation table: the page each operation is called in.
Calls(ops, p) == [k \in 1..Len(ops) |-> [op |-> ops[k], page |-> p]]
Table(s) == {opera[s][k] : k \in 1..Len(opera[s])}
Live(s) == {opera[s][k] : k \in (1..Len(opera[s])) \ left[s]}

Init ==
  /\ filename = [c \in 1..Slots |-> Nothing]
  /\ sym = [c \in 1..Slots |-> 0] /\ hardware = [c \in 1..Slots |-> <<>>]
  /\ ksym_name = [s \in 1..Syms |-> Nothing] /\ marked = [s \in 1..Syms |-> FALSE]
  /\ opera = [s \in 1..Syms |-> <<>>]
  /\ rm = [s \in 1..Syms |-> Null] /\ file = [s \in 1..Syms |-> 0]
  /\ left = [s \in 1..Syms |-> {}]
  /\ sched_type = Null
  /\ code = [p \in Pages |-> Nothing] /\ links = [p \in Pages |-> {}]
  /\ current_file = 0
  /\ job = Idle
  /\ app_count = [a \in Pins |-> 0]

-----------------------------------------------------------------------------
(* Loading, for compt_file and swap_compt.                                 *)

\* compt_file takes the first free entry; with none left it only says so.
Insert(f) ==
  /\ job = Idle
  /\ FreeFiles # {}
  /\ filename' = [filename EXCEPT ![Least(FreeFiles)] = f]
  /\ current_file' = Least(FreeFiles)
  /\ job' = [Idle EXCEPT !.stage = "load", !.file = f]
  /\ UNCHANGED <<sym, symbols, sched_type, memory, devices>>

\* swap_compt looks for the old component first; the last one found counts.
StartSwap(f, n) ==
  /\ job = Idle
  /\ Named(n) # {}
  /\ job' = [Idle EXCEPT !.stage = "load", !.file = f, !.swap = Greatest(Named(n))]
  /\ current_file' = file[Greatest(Named(n))]
  /\ UNCHANGED <<table, symbols, sched_type, memory, devices>>

NotElf ==
  /\ job.stage = "load" /\ ~About[job.file].elf
  /\ job' = Idle
  /\ UNCHANGED <<table, symbols, sched_type, memory, current_file, devices>>

\* The page is copied, and linked later; links of its previous user are gone.
Load(p) ==
  /\ job.stage = "load" /\ About[job.file].elf
  /\ code[p] = Nothing
  /\ code' = [code EXCEPT ![p] = job.file]
  /\ links' = [links EXCEPT ![p] = {}]
  /\ job' = [job EXCEPT !.stage = "relocate", !.page = p]
  /\ UNCHANGED <<table, symbols, sched_type, current_file, devices>>

-----------------------------------------------------------------------------
(* Relocation searches the symbols up to the first unused one, as the list *)
(* that lscom prints.                                                      *)

Searched == {s \in 1..Syms : \A t \in 1..s : marked[t]}

Found(n, o) == {[name |-> n, op |-> o, page |-> e.page] :
                  e \in {e \in UNION {Table(s) : s \in Searched \cap Named(n)} : e.op.name = o}}

Resolved(f) == UNION {Found(need[1], need[2]) : need \in About[f].needs}
AllFound(f) == \A need \in About[f].needs : Found(need[1], need[2]) # {}

\* A component that cannot be linked is not initialised; an insertion ends
\* there, a swap goes on to remove the old component.
Relocate ==
  /\ job.stage = "relocate"
  /\ links' = [links EXCEPT ![job.page] = Resolved(job.file)]
  /\ job' = IF AllFound(job.file) THEN [job EXCEPT !.stage = "init"]
            ELSE IF job.swap = 0  THEN Idle
                                  ELSE [job EXCEPT !.stage = "exit without init"]
  /\ UNCHANGED <<table, symbols, sched_type, code, current_file, devices>>

-----------------------------------------------------------------------------
(* init_compt of the new component calls reg_compt.                        *)

Initialising == job.stage = "init"
New == About[job.file]

\* A driver needs a name nobody has, and an unused symbol.
MayRegister == New.name # Null /\ Known(New.name) = {} /\ NotUsed # {}

RegisterDriver ==
  LET s == Least(NotUsed)
  IN /\ Initialising /\ job.swap = 0 /\ New.kind = "DRV_COM"
     /\ MayRegister
     /\ ksym_name' = [ksym_name EXCEPT ![s] = New.name]
     /\ marked' = [marked EXCEPT ![s] = TRUE]
     /\ opera' = [opera EXCEPT ![s] = Calls(New.ops, job.page)]
     /\ rm' = [rm EXCEPT ![s] = job.page]
     /\ file' = [file EXCEPT ![s] = current_file]
     /\ left' = [left EXCEPT ![s] = {}]
     /\ sym' = [sym EXCEPT ![current_file] = s]
     /\ job' = Idle
     /\ UNCHANGED <<filename, sched_type, memory, current_file, devices>>

\* A refused driver keeps its entry in cfile and its page.
RefuseDriver ==
  /\ Initialising /\ job.swap = 0 /\ New.kind = "DRV_COM"
  /\ ~MayRegister
  /\ sym' = [sym EXCEPT ![current_file] = 0]
  /\ job' = Idle
  /\ UNCHANGED <<filename, symbols, sched_type, memory, current_file, devices>>

\* A scheduler takes the place of the one before.
RegisterScheduler ==
  /\ Initialising /\ job.swap = 0 /\ New.kind = "SCH_COM"
  /\ sched_type' = job.page
  /\ sym' = [sym EXCEPT ![current_file] = SchedSym]
  /\ job' = Idle
  /\ UNCHANGED <<filename, symbols, memory, current_file, devices>>

\* A swap goes through the operations: it compares a name, redirects that
\* operation, and compares its parameters.  The pointers then move by the size
\* of the first parameter, and the loop's bound is read again where they point:
\* with a second operation the loop may end early (accepted), meet a difference
\* that is none (refused), or come to the next operation, as the sizes and the
\* names of the two files have it.
Old == opera[job.swap]
SameOperations_AnyName(k) ==  \* mutant: names of operations are not compared
  \A i \in 1..(k - 1) : New.ops[i].para = Old[i].op.para
SameOperations(k) ==          \* the loop redirects operation k
  \A i \in 1..k : /\ New.ops[i].name = Old[i].op.name
                  /\ i < k => New.ops[i].para = Old[i].op.para
Redirected_Not(k) == Old      \* mutant: the old address stays
Redirected(k) ==
  [i \in 1..Len(Old) |-> [Old[i] EXCEPT !.page = IF i <= k THEN job.page ELSE @]]

\* A scheduler is neither compared nor redirected.
Compared == IF New.kind = "SCH_COM" THEN 0 ELSE Len(Old)

\* All of one operation, or a part of several that starts with the first.
Accepted(k) == /\ Compared > 0 => k > 0 /\ New.ops[k].para = Old[k].op.para
               /\ job' = [job EXCEPT !.stage = "exit"]
               /\ left' = [left EXCEPT ![job.swap] =
                             {i \in (k + 1)..Len(Old) : i \in @ \/ Old[i].page = rm[job.swap]}]

\* The first name differs, or the comparison fails after k operations.
Refused(k) == /\ Compared > 0
              /\ k = 0 => ~SameOperations(1)
              /\ k = 1 /\ Len(Old) = 1 => New.ops[1].para # Old[1].op.para
              /\ job' = Idle
              /\ left' = [left EXCEPT ![job.swap] = @ \ (1..k)]

SwapIn ==
  /\ Initialising /\ job.swap # 0
  /\ New.kind = "DRV_COM" => New.name = Null /\ Len(New.ops) = Len(Old)
  /\ \E k \in 0..Compared : /\ SameOperations(k)
                            /\ opera' = [opera EXCEPT ![job.swap] = Redirected(k)]
                            /\ Accepted(k) \/ Refused(k)
  /\ UNCHANGED <<table, ksym_name, marked, rm, file, sched_type, memory, current_file, devices>>

\* A driver that registers a name, or has another number of operations.
RefuseSwap ==
  /\ Initialising /\ job.swap # 0 /\ New.kind = "DRV_COM"
  /\ New.name # Null \/ Len(New.ops) # Len(Old)
  /\ job' = Idle
  /\ UNCHANGED <<table, symbols, sched_type, memory, current_file, devices>>

-----------------------------------------------------------------------------
(* exit_compt of the old component calls unreg_compt with the name that    *)
(* the file registers.                                                     *)

Unregistered(n) == IF Known(n) = {} THEN marked ELSE [marked EXCEPT ![Least(Known(n))] = FALSE]
ExitName(s) == About[code[rm[s]]].name

\* During a swap unreg_compt keeps the symbol; after a failed relocation
\* check_config is not set and it does not.
ExitOld ==
  LET s == job.swap
  IN /\ job.stage \in {"exit", "exit without init"}
     /\ marked' = IF job.stage = "exit" THEN marked ELSE Unregistered(ExitName(s))
     /\ filename' = [filename EXCEPT ![file[s]] = job.file]
     /\ code' = [code EXCEPT ![rm[s]] = Nothing]
     /\ rm' = [rm EXCEPT ![sym[current_file]] = job.page]
     /\ job' = Idle
     /\ UNCHANGED <<sym, ksym_name, opera, file, left, sched_type, links, current_file, devices>>

\* A component that did not unregister itself is not removed.
Remove(n) ==
  LET s == Least(Named(n))
  IN /\ job = Idle
     /\ Named(n) # {}
     /\ marked' = Unregistered(ExitName(s))
     /\ IF marked'[s]
          THEN UNCHANGED <<filename, ksym_name, code>>
          ELSE /\ filename' = [filename EXCEPT ![file[s]] = Nothing]
               /\ code' = [code EXCEPT ![rm[s]] = Nothing]
               /\ ksym_name' = [ksym_name EXCEPT ![s] = Nothing]
     /\ UNCHANGED <<sym, opera, rm, file, left, sched_type, links, current_file, job, devices>>

-----------------------------------------------------------------------------
(* Pins.  hardware_request records a pin that nobody has for current_file, *)
(* whoever asks; app_count is never decremented.                           *)

Claim_Again(a) ==             \* mutant: app_count is not looked at
  /\ hardware' = [hardware EXCEPT ![current_file] = IF Len(@) < 2 THEN Append(@, a) ELSE @]
  /\ app_count' = [app_count EXCEPT ![a] = @ + 1]

Claim(a) ==
  IF app_count[a] # 0 THEN UNCHANGED devices
  ELSE /\ hardware' = [hardware EXCEPT ![current_file] = Append(@, a)]
       /\ app_count' = [app_count EXCEPT ![a] = @ + 1]

\* exe_com looks at all symbols and calls the operation, which asks for its pin
\* (what runs in a page that was freed is not followed).
Exec(n, o) ==
  /\ job = Idle
  /\ \E s \in Named(n) : \E e \in Live(s) :
        /\ e.op.name = o
        /\ code[e.page] # Nothing
        /\ About[code[e.page]].pin # Null
        /\ Claim(About[code[e.page]].pin)
  /\ UNCHANGED <<table, symbols, sched_type, memory, current_file, job>>

\* The code of a component asks for a pin, also while the daemon waits for memory
\* (entry 36 of sys_call_table is beyond __NR_syscalls: applications cannot).
Request(a) ==
  /\ job.stage \in {"idle", "load", "relocate", "init"}
  /\ current_file # 0
  /\ Claim(a)
  /\ UNCHANGED <<table, symbols, sched_type, memory, current_file, job>>

Next ==
  \/ \E f \in Files : Insert(f)
  \/ \E f \in SwapFiles, n \in Names : StartSwap(f, n)
  \/ NotElf \/ \E p \in Pages : Load(p)
  \/ Relocate
  \/ RegisterDriver \/ RefuseDriver \/ RegisterScheduler
  \/ SwapIn \/ RefuseSwap \/ ExitOld
  \/ \E n \in Names : Remove(n)
  \/ \E n \in Names, o \in OpNames : Exec(n, o)
  \/ \E a \in Pins : Request(a)

Spec == Init /\ [][Next]_vars

-----------------------------------------------------------------------------
(* Properties.                                                             *)

JobOK ==
  /\ job \in [stage : {"idle", "load", "relocate", "init", "exit", "exit without init"},
             file : Files \cup {Nothing}, swap : 0..Syms, page : Pages \cup {Null}]
  /\ job.stage # "idle" => job.file \in Files /\ current_file # 0
  /\ job.stage \notin {"idle", "load"} => job.page # Null /\ code[job.page] = job.file
  /\ job.stage \in {"exit", "exit without init"} => job.swap # 0

\* The type invariant; a pin is claimed at most once (hardware_request).
TypeOK ==
  /\ filename \in [1..Slots -> Files \cup {Nothing}]
  /\ sym \in [1..Slots -> 0..SchedSym] /\ hardware \in [1..Slots -> Seq(Pins)]
  /\ ksym_name \in [1..Syms -> Names \cup {Nothing}] /\ marked \in [1..Syms -> BOOLEAN]
  /\ opera \in [1..Syms -> Seq([op : Ops, page : Pages])]
  /\ rm \in [1..Syms -> Pages \cup {Null}] /\ file \in [1..Syms -> 0..Slots]
  /\ left \in [1..Syms -> SUBSET Nat]
  /\ sched_type \in Pages \cup {Null}
  /\ code \in [Pages -> Files \cup {Nothing}]
  /\ links \in [Pages -> SUBSET [name : Names, op : OpNames, page : Pages]]
  /\ current_file \in 0..Slots
  /\ JobOK
  /\ app_count \in [Pins -> 0..1]

Holders(a) == {h \in (1..Slots) \X (1..Cardinality(Pins)) :
                 h[2] <= Len(hardware[h[1]]) /\ hardware[h[1]][h[2]] = a}

\* The component table and the symbol table point at each other: a symbol's
\* entry in cfile leads back to the symbol and names the file whose exit_compt
\* the symbol would call.  swap_compt and rm_compt_file go from one to the other
\* in both directions.  A pin is in one component's list, once, exactly if
\* hardware_table counts a user: else a removal would reset another's pin.
TablesAgree ==
  /\ \A s \in Marked : /\ file[s] # 0 /\ rm[s] # Null
                       /\ sym[file[s]] = s
                       /\ filename[file[s]] = code[rm[s]]
                       /\ code[rm[s]] # Nothing
  /\ \A a \in Pins : Cardinality(Holders(a)) = app_count[a]

\* What the symbol table lets users call is loaded, offers that operation,
\* belongs to no other symbol, and was linked with every operation it calls
\* (relocate returns before init_compt registers it), whatever was removed or
\* swapped meanwhile; but for what an accepted swap of a driver with several
\* operations left behind (compt.c:262), and that is never the first.
SymbolsLoaded ==
  \A s \in Marked :
    /\ 1 \notin left[s]
    /\ \A e \in Live(s) :
         /\ code[e.page] # Nothing
         /\ \E k \in DOMAIN About[code[e.page]].ops : About[code[e.page]].ops[k].name = e.op.name
         /\ \A need \in About[code[e.page]].needs :
              \E l \in links[e.page] : l.name = need[1] /\ l.op = need[2]
    /\ \A t \in Marked \ {s} : {e.page : e \in Live(s)} \cap {e.page : e \in Live(t)} = {}

\* The component manager implements the registry of names: what answers to a
\* name, which its first operation shows, changes by inserting, removing or
\* swapping that component only; a swap that is refused after it redirected the
\* operation has taken effect.  Of a replacement the manager sees to the number of
\* operations and the name of the first.
Server(n) == LET s == Least(Named(n))
             IN IF Named(n) = {} THEN Nothing ELSE code[opera[s][1].page]
Reg == INSTANCE ComponentRegistry WITH
         NameOf <- [f \in Files |-> About[f].name],
         Offers <- [f \in Files |-> IF About[f].ops = <<>> THEN <<>>
                                    ELSE <<Len(About[f].ops), About[f].ops[1].name>>],
         serves <- [n \in Names |-> Server(n)]
Registry == Reg!Spec
=============================================================================
