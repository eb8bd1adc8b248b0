---------------------------- MODULE PageAllocator ----------------------------
(***************************************************************************)
(* get_free_page and free_page of mm.c: a first-fit search of mem_map, one *)
(* entry at a time, under mm_lock (Mutex), and frees that take no lock.    *)
(* A task is preempted anywhere; the daemons, which are not, behave like a *)
(* task that happens not to be.                                            *)
(*                                                                         *)
(* The search for a run of n pages reads up to n - 1 entries behind        *)
(* mem_map: in the linked image these are zero words that nothing else     *)
(* writes, so they look like free pages.                                   *)
(***************************************************************************)
EXTENDS Mutex

CONSTANTS
  Pages,    \* PAGING_PAGES (257024 in the code)
  MaxCount  \* bound: pages asked for at once

ASSUME PagesAssumption == Pages \in Nat \ {0} /\ MaxCount \in Nat \ {0}

Counts == 1..MaxCount

\* mem_map with the entries behind it.
Entries == 0..Pages + MaxCount - 1

\* A struct mm_info is <<start, size>>, with start as a page number.
NoPages == <<0, 0>>
PagesOf(m) == m[1]..m[1] + m[2] - 1

VARIABLES
  mem_map,
  count, i, j,      \* what a task asks for, and the loop variables
  work,             \* "search", "mark" or "done"
  held,             \* the runs in use, as mm_info
  freeing           \* what a task has yet to clear in free_page, as mm_info

search == <<count, i, j, work>>
pageVars == <<mutexVars, mem_map, search, held, freeing>>

Run(t) == <<i[t], count[t]>>

PageInit ==
  /\ MutexInit
  /\ mem_map = [p \in Entries |-> 0]
  /\ count = [t \in Tasks |-> 1]
  /\ i = [t \in Tasks |-> 0] /\ j = [t \in Tasks |-> 0]
  /\ work = [t \in Tasks |-> "done"]
  /\ held = {} /\ freeing = [t \in Tasks |-> NoPages]

Freeing(t) == freeing[t] # NoPages

Uninterrupted(t) == reserved \in {Nobody, t} /\ UNCHANGED mutexVars

-----------------------------------------------------------------------------
(* get_free_page                                                           *)

Request(t, n) ==
  /\ ~Freeing(t)
  /\ Want(t)
  /\ count' = [count EXCEPT ![t] = n]
  /\ i' = [i EXCEPT ![t] = 0] /\ j' = [j EXCEPT ![t] = 0]
  /\ work' = [work EXCEPT ![t] = "search"]
  /\ UNCHANGED <<mem_map, held, freeing>>

UseLock(t) ==
  /\ Locking(t) \/ Unlocking(t)
  /\ UNCHANGED <<mem_map, search, held, freeing>>

Inside(t, w) == Uninterrupted(t) /\ mpc[t] = "in" /\ work[t] = w

IsLast_Early(t) == j[t] + 1 >= count[t] - 1
IsLast(t) == j[t] + 1 = count[t]

InRange_Inclusive(t) == i[t] <= Pages
InRange(t) == i[t] < Pages

NextStart_Same(t) == i[t]
NextStart(t) == i[t] + 1

\* if (mem_map[i+j] != 0), and what follows.
CheckEntry(t) ==
  /\ Inside(t, "search") /\ InRange(t)
  /\ \/ /\ mem_map[i[t] + j[t]] # 0
        /\ i' = [i EXCEPT ![t] = NextStart(t)] /\ j' = [j EXCEPT ![t] = 0]
        /\ UNCHANGED work
     \/ /\ mem_map[i[t] + j[t]] = 0 /\ ~IsLast(t)
        /\ j' = [j EXCEPT ![t] = @ + 1]
        /\ UNCHANGED <<i, work>>
     \/ /\ mem_map[i[t] + j[t]] = 0 /\ IsLast(t)
        /\ j' = [j EXCEPT ![t] = 0]
        /\ work' = [work EXCEPT ![t] = "mark"]
        /\ UNCHANGED i
  /\ UNCHANGED <<mem_map, count, held, freeing>>

\* mem_map[i+k] = 1; after the last one the pages are zeroed and returned.
MarkEntry(t) ==
  /\ Inside(t, "mark")
  /\ mem_map' = [mem_map EXCEPT ![i[t] + j[t]] = 1]
  /\ \/ /\ j[t] + 1 < count[t]
        /\ j' = [j EXCEPT ![t] = @ + 1]
        /\ UNCHANGED <<work, held>>
     \/ /\ j[t] + 1 = count[t]
        /\ work' = [work EXCEPT ![t] = "done"]
        /\ held' = held \cup {Run(t)}
        /\ UNCHANGED j
  /\ UNCHANGED <<count, i, freeing>>

\* No run was found: return 0.
GiveUp(t) ==
  /\ Inside(t, "search") /\ ~InRange(t)
  /\ work' = [work EXCEPT ![t] = "done"]
  /\ UNCHANGED <<mem_map, count, i, j, held, freeing>>

Finish(t) ==
  /\ work[t] = "done" /\ Leave(t)
  /\ UNCHANGED <<mem_map, search, held, freeing>>

-----------------------------------------------------------------------------
(* free_page, called by whoever owns the run, or by pm_daemon for a task   *)
(* that exited.                                                            *)

StartFree(t, m) ==
  /\ Uninterrupted(t) /\ mpc[t] = "out" /\ ~Freeing(t)
  /\ m \in held
  /\ held' = held \ {m}
  /\ freeing' = [freeing EXCEPT ![t] = m]
  /\ UNCHANGED <<mem_map, search>>

Cleared_Next(t) == freeing[t][1] + 1
Cleared(t) == freeing[t][1]

\* mem_map[a+i] = 0
FreeEntry(t) ==
  /\ Uninterrupted(t) /\ Freeing(t)
  /\ mem_map' = [mem_map EXCEPT ![Cleared(t)] = 0]
  /\ freeing' = [freeing EXCEPT ![t] = IF @[2] = 1 THEN NoPages ELSE <<@[1] + 1, @[2] - 1>>]
  /\ UNCHANGED <<search, held>>

-----------------------------------------------------------------------------
Allocating(t) == UseLock(t) \/ CheckEntry(t) \/ MarkEntry(t) \/ GiveUp(t) \/ Finish(t)

PageNext ==
  \/ Exception /\ UNCHANGED <<mem_map, search, held, freeing>>
  \/ \E t \in Tasks :
       \/ \E n \in Counts : Request(t, n)
       \/ Allocating(t)
       \/ \E m \in held : StartFree(t, m)
       \/ FreeEntry(t)

PageSpec == PageInit /\ [][PageNext]_pageVars

\* Whoever entered get_free_page keeps getting the CPU.
PageFairSpec == PageSpec /\ \A t \in Tasks : WF_pageVars(Allocating(t))

-----------------------------------------------------------------------------
(* Properties.                                                             *)

\* Every variable stays within its type.
PageTypeOK ==
  /\ MutexTypeOK
  /\ mem_map \in [Entries -> {0, 1}]
  /\ count \in [Tasks -> Counts]
  /\ i \in [Tasks -> 0..Pages] /\ j \in [Tasks -> Nat]
  /\ work \in [Tasks -> {"search", "mark", "done"}]
  /\ held \subseteq Nat \X Counts
  /\ freeing \in [Tasks -> Nat \X Nat]
  /\ UNION {PagesOf(m) : m \in held} \subseteq Entries

Marking == {t \in Tasks : work[t] = "mark"}

\* No page belongs to two allocations, however callers, frees without the lock
\* and failing exclusive stores interleave.
NoDoubleAllocation ==
  LET runs == held \cup {Run(t) : t \in Marking}
  IN /\ \A t, u \in Marking : t = u
     /\ \A t \in Marking : Run(t) \notin held
     /\ \A m, n \in runs : m # n => PagesOf(m) \cap PagesOf(n) = {}

\* Apart from runs being marked or cleared, mem_map shows exactly what is in use:
\* a page in use is never shown free, and a free one never stays marked.
MapMatches ==
  \A p \in Entries :
    mem_map[p] = 1 <=> \/ \E m \in held : p \in PagesOf(m)
                       \/ \E t \in Marking : p \in i[t]..i[t] + j[t] - 1
                       \/ \E t \in Tasks : p \in PagesOf(freeing[t])

\* Every page is accounted for, once: in what is handed out and in mem_map.
Accounted == NoDoubleAllocation /\ MapMatches

Pooled == UNION {PagesOf(Run(t)) : t \in Marking}

PP == INSTANCE PagePool WITH
        Frames <- Entries,
        free <- {p \in Entries : mem_map[p] = 0} \ Pooled,
        taken <- held \cup {Run(t) : t \in Marking}

\* The search and the marking, entry by entry, take effect at once, when the last
\* entry of the run was found free: nothing that was freed or allocated since
\* the search began makes that wrong.
Pool == PP!Spec

\* A search under the lock comes to its end, and the lock is given back.
AllocationReturns == \A t \in Tasks : mpc[t] = "in" ~> mpc[t] \in {"out", "lost"}
=============================================================================
