---------------------------- MODULE AddressSpace ----------------------------
(***************************************************************************)
(* Address spaces (mm.c): the page tables of programs, what is loaded into *)
(* them, faults, and the copies that fork and thread_create make, page by  *)
(* page, while other tasks go on.  Pages are handed out as PageAllocator   *)
(* says, from the lowest number.                                           *)
(***************************************************************************)
EXTENDS Integers, Sequences, FiniteSets

CONSTANTS
  Tasks,        \* the task_structs there may be
  Pages,        \* pages that are managed, 1..n; 0 is none
  Words,        \* words of a page
  Levels,       \* levels of page tables, 4 in the code
  Addresses,    \* pages of user memory that programs use, by their index at each level
  Size,         \* words of a program
  MaxUserPages  \* MAX_PROCESS_PAGES, which the code does not check

Index == 0..Words - 1
Bottom == [l \in 1..Levels |-> 0]      \* address 0
ASSUME SpaceAssumption ==
  /\ IsFiniteSet(Pages) /\ Pages = 1..Cardinality(Pages)
  /\ Words \in Nat \ {0} /\ Levels \in Nat \ {0}
  /\ Addresses \subseteq [1..Levels -> Index] /\ Bottom \in Addresses
  /\ Size \in Nat \ {0} /\ MaxUserPages \in Nat \ {0}

VARIABLES
  mem,          \* the words of a page: entries of a table, or data
  free,         \* mem_map
  mm,           \* task->mm
  space,        \* pcb->mm: whose mm it is
  state,        \* of a task
  job           \* the copy a task makes: for whom, and which page is next

vars == <<mem, free, mm, space, state, job>>

\* What a page can hold besides entries and 0: a program, what a program wrote, anything else.
Code == Cardinality(Pages) + 1
Written == Code + 1
Junk == Code + 2

Empty == [pgd |-> 0, user_pages |-> <<>>, kernel_pages |-> <<>>]
NoJob == <<>>

\* The translation of an address: [l] is the table of level l + 1, the last one the page.
Translate(root, va) ==
  LET at[l \in 0..Levels] ==
        IF l = 0 THEN root ELSE IF at[l - 1] \in Pages THEN mem[at[l - 1]][va[l]] ELSE 0
  IN at
Page(root, va) == Translate(root, va)[Levels]

\* set_pgd(next->mm->pgd)
Active_Own(t) == mm[t].pgd             \* mutant: a thread gets tables of its own
Active(t) == mm[space[t]].pgd

Init ==
  /\ mem = [p \in Pages |-> [i \in Index |-> Junk]]
  /\ free = Pages
  /\ mm = [t \in Tasks |-> Empty]
  /\ space = [t \in Tasks |-> t]
  /\ state = [t \in Tasks |-> "none"]
  /\ job = [t \in Tasks |-> NoJob]

-----------------------------------------------------------------------------
(* map_page.                                                               *)

\* The pages that get_free_page returns one after the other.
Nth_Before(n) == (CHOOSE p \in free : Cardinality({q \in free : q <= p}) = n) - 1   \* mutant: counted from 0
Nth(n) == CHOOSE p \in free : Cardinality({q \in free : q <= p}) = n
Leaf == Nth(1)

\* The tables that an address still needs, and the way to its page when they are there.
Missing(t, va) == {l \in 0..Levels - 1 : Translate(mm[t].pgd, va)[l] = 0}
Way(t, va) ==
  [l \in 0..Levels |->
     IF l = Levels THEN Leaf
     ELSE IF l \in Missing(t, va) THEN Nth(2 + Cardinality({k \in Missing(t, va) : k < l}))
     ELSE Translate(mm[t].pgd, va)[l]]

\* Not followed: tables at address 0 when pages run out, and lists that overflow.
CanMap(t, va) == /\ Cardinality(free) > Cardinality(Missing(t, va))
                 /\ Len(mm[t].user_pages) < MaxUserPages

\* Memory with the page mapped: new pages are zeroed, then entries are made.
Mapped_Dirty(t, va) ==                \* mutant: they are not
  LET way == Way(t, va)
  IN  [p \in Pages |-> [i \in Index |->
         IF \E l \in 1..Levels : p = way[l - 1] /\ i = va[l]
           THEN way[CHOOSE l \in 1..Levels : p = way[l - 1] /\ i = va[l]]
           ELSE mem[p][i]]]
Mapped(t, va) ==
  LET way == Way(t, va)
      new == {Leaf} \cup {way[l] : l \in Missing(t, va)}
  IN  [p \in Pages |-> [i \in Index |->
         IF \E l \in 1..Levels : p = way[l - 1] /\ i = va[l]
           THEN way[CHOOSE l \in 1..Levels : p = way[l - 1] /\ i = va[l]]
           ELSE IF p \in new THEN 0 ELSE mem[p][i]]]

map_page(t, va) ==
  LET way == Way(t, va)
      first == Levels - Cardinality(Missing(t, va))
  IN  /\ mm' = [mm EXCEPT ![t].pgd = way[0],
                          ![t].user_pages = Append(@, <<Leaf, va>>),
                          ![t].kernel_pages = @ \o [n \in 1..Cardinality(Missing(t, va)) |-> way[first + n - 1]]]
      /\ free' = free \ ({Leaf} \cup {way[l] : l \in Missing(t, va)})

-----------------------------------------------------------------------------
\* move_to_user_mode copies the whole program behind the start of one page.
\* Without a page it returns -1, which no caller notices (`< 0` of an unsigned long).
move_to_user_mode(t) ==
  IF free = {}
    THEN state' = [state EXCEPT ![t] = "ended"] /\ UNCHANGED <<mem, free, mm>>
    ELSE /\ CanMap(t, Bottom) /\ map_page(t, Bottom)
         /\ mem' = [p \in Pages |-> [i \in Index |->
                      IF (p - Leaf) * Words + i \in 0..Size - 1
                        THEN Code ELSE Mapped(t, Bottom)[p][i]]]
         /\ state' = [state EXCEPT ![t] = "runs"]

\* A program is started: copy_process with APP_THREAD, which runs mod_process.
Load(t) ==
  /\ state[t] = "none"
  /\ space' = [space EXCEPT ![t] = t]
  /\ move_to_user_mode(t)
  /\ UNCHANGED job

\* The task executes user code.
InUser(t) == state[t] = "runs" /\ job[t] = NoJob /\ Active(t) # 0

\* A program writes to a page it has ...
Write(t, va) ==
  /\ InUser(t) /\ Page(Active(t), va) # 0
  /\ mem' = [mem EXCEPT ![Page(Active(t), va)] = [i \in Index |-> Written]]
  /\ UNCHANGED <<free, mm, space, state, job>>

\* ... and do_mem_abort maps a page where it has none: in the mm of the task.
do_mem_abort(t, va) ==
  /\ InUser(t) /\ Page(Active(t), va) = 0
  /\ IF free = {}
       THEN state' = [state EXCEPT ![t] = "ended"] /\ UNCHANGED <<mem, free, mm>>
       ELSE /\ CanMap(t, va) /\ map_page(t, va)
            /\ mem' = Mapped(t, va)
            /\ UNCHANGED state
  /\ UNCHANGED <<space, job>>

\* copy_process with FORK_THREAD, or _thread_create: the creator's mm goes to the thread.
Create(t, c, shared) ==
  /\ InUser(t) /\ state[c] = "none"
  /\ shared => space[t] = t
  /\ state' = [state EXCEPT ![c] = "created"]
  /\ space' = [space EXCEPT ![c] = IF shared THEN t ELSE c]
  /\ job' = [job EXCEPT ![t] = <<c, 1>>]
  /\ UNCHANGED <<mem, free, mm>>

Copies(t) == state[t] = "runs" /\ job[t] # NoJob
Left(t) == job[t][2] <= Len(mm[t].user_pages)

\* The copy ends, with all pages or when none is free: the result is not looked at.
Copied(t) ==
  /\ Copies(t) /\ (Left(t) => free = {})
  /\ state' = [state EXCEPT ![job[t][1]] = "runs"]
  /\ job' = [job EXCEPT ![t] = NoJob]
  /\ UNCHANGED <<mem, free, mm, space>>

\* The next page of the task's list is copied.  It is read at its address; if
\* nothing is there (a page that a thread was given), the task ends in the kernel.
copy_virt_memory(t) ==
  LET c == job[t][1]
      va == mm[t].user_pages[job[t][2]][2]
  IN  /\ Copies(t) /\ Left(t) /\ free # {}
      /\ CanMap(c, va) /\ map_page(c, va)
      /\ IF Page(Active(t), va) = 0
           THEN mem' = Mapped(c, va) /\ state' = [state EXCEPT ![t] = "ended"]
           ELSE /\ mem' = [Mapped(c, va) EXCEPT ![Leaf] = mem[Page(Active(t), va)]]
                /\ UNCHANGED state
      /\ job' = [job EXCEPT ![t][2] = @ + 1]
      /\ UNCHANGED space

-----------------------------------------------------------------------------
Exit(t) ==
  /\ InUser(t)
  /\ state' = [state EXCEPT ![t] = "ended"]
  /\ UNCHANGED <<mem, free, mm, space, job>>

\* pm_daemon frees the task_struct, and those of the threads of a main thread.
\* Pages and tables are not given back ("free used memory" is followed by nothing).
Reaped(t) == {t} \cup {s \in Tasks : space[s] = t /\ state[s] \in {"runs", "ended"}}
Reap(t) ==
  /\ state[t] = "ended"
  /\ mm' = [s \in Tasks |-> IF s \in Reaped(t) THEN Empty ELSE mm[s]]
  /\ space' = [s \in Tasks |-> IF s \in Reaped(t) THEN s ELSE space[s]]
  /\ state' = [s \in Tasks |-> IF s \in Reaped(t) THEN "none" ELSE state[s]]
  /\ job' = [s \in Tasks |-> IF s \in Reaped(t) THEN NoJob ELSE job[s]]
  /\ UNCHANGED <<mem, free>>

Next ==
  \E t \in Tasks :
    \/ Load(t) \/ Copied(t) \/ copy_virt_memory(t) \/ Exit(t) \/ Reap(t)
    \/ \E va \in Addresses : Write(t, va) \/ do_mem_abort(t, va)
    \/ \E c \in Tasks, shared \in BOOLEAN : Create(t, c, shared)

Spec == Init /\ [][Next]_vars

-----------------------------------------------------------------------------
(* Properties.                                                             *)

Reachable(t) == {Translate(mm[t].pgd, va)[l] : va \in [1..Levels -> Index], l \in 0..Levels - 1} \ {0}

\* The type invariant.
SpaceTypeOK ==
  /\ \A p \in Pages : mem[p] \in [Index -> 0..Junk]
  /\ free \subseteq Pages
  /\ \A t \in Tasks :
        /\ mm[t].pgd \in Pages \cup {0}
        /\ Len(mm[t].user_pages) <= MaxUserPages
        /\ \A n \in DOMAIN mm[t].user_pages : mm[t].user_pages[n] \in Pages \X Addresses
        /\ \A n \in DOMAIN mm[t].kernel_pages : mm[t].kernel_pages[n] \in Pages
        /\ space[t] \in Tasks /\ job[t] \in {NoJob} \cup (Tasks \X (1..MaxUserPages + 1))
        /\ state[t] \in {"none", "created", "runs", "ended"}

Tables == UNION {Reachable(t) : t \in Tasks}
Addressed(t) == {va \in [1..Levels -> Index] : Page(mm[t].pgd, va) # 0}

\* A task lists every table it has, once, and every page that is mapped: what a
\* copy needs, and what giving them back would need (pm_deamon.c:76).
Listed ==
  \A t \in Tasks :
    LET tables == mm[t].kernel_pages
        pages == mm[t].user_pages
    IN  /\ {tables[n] : n \in DOMAIN tables} = Reachable(t)
        /\ Cardinality(Reachable(t)) = Len(tables)
        /\ {pages[n][2] : n \in DOMAIN pages} = Addressed(t)
        /\ \A va \in Addressed(t) : \E n \in DOMAIN pages : pages[n] = <<Page(mm[t].pgd, va), va>>

\* No list would give a page back that is a table, free or listed elsewhere: not
\* even one that a second fault at its address has replaced (mm.c:97).
ListedOnce ==
  LET listed == {e \in Tasks \X (1..MaxUserPages) : e[2] <= Len(mm[e[1]].user_pages)}
      Of(e) == mm[e[1]].user_pages[e[2]][1]
  IN  /\ \A e \in listed : Of(e) \notin free \cup Tables
      /\ \A e, f \in listed : Of(e) = Of(f) => e = f

\* The tables of all tasks are trees that share nothing: every table and every
\* page is entered in one place, is not free, and is in the lists of its task.
Entries == {<<e, mem[e[1]][e[2]]>> : e \in Tables \X Index} \cup {<<t, mm[t].pgd>> : t \in Tasks}
OnePlace ==
  /\ Tables \subseteq Pages
  /\ LET used == {e \in Entries : e[2] # 0}
     IN  /\ \A e \in used : e[2] \in Pages \ free
         /\ \A e, f \in used : e[2] = f[2] => e = f
  /\ Listed /\ ListedOnce

\* What programs see are separate memories, shared by the threads of a process
\* alone: tables, lists and pages implement them.
A == INSTANCE AddressMap WITH
       memory <- [t \in Tasks |->
                   [va \in Addressed(t) |-> mem[Page(mm[t].pgd, va)]]],
       owner <- space,
       copied <- {t \in Tasks : state[t] = "created"}
Memories == A!Init /\ [][A!Next]_A!vars
=============================================================================
