----------------------------- MODULE PageProofs -----------------------------
(***************************************************************************)
(* Proofs about Mutex and PageAllocator, for every number of pages, every   *)
(* size of request, every set of tasks and any number of exceptions.       *)
(***************************************************************************)
EXTENDS PageAllocator, TLAPS

-----------------------------------------------------------------------------
(* The mutex.                                                              *)

\* A task that holds the mutex or that was lost while it gave it back.
Busy(t) == Holding(t) \/ mpc[t] = "lost"

UniqueBusy == \A t, u \in Tasks : Busy(t) /\ Busy(u) => t = u

\* An exclusive store of try_lock that may still succeed was preceded by a load
\* that saw 0, and nothing happened since.
Reservation ==
  \A t \in Tasks : mpc[t] = "store" /\ reserved = t => lock = 0

\* The inductive invariant.
MInv == MutexTypeOK /\ UniqueBusy /\ LockWord /\ Reservation

LEMMA MInvInit == MutexInit => MInv
BY MutexAssumption
DEF MutexInit, MInv, MutexTypeOK, UniqueBusy, Busy, Holding, LockWord, Reservation, Nobody

LEMMA MInvStep == MInv /\ [MutexNext]_mutexVars => MInv'
<1> SUFFICES ASSUME MInv, [MutexNext]_mutexVars PROVE MInv'
  OBVIOUS
<1> USE MutexAssumption
    DEF MInv, MutexTypeOK, UniqueBusy, Busy, Holding, LockWord, Reservation
<1>1. ASSUME NEW t \in Tasks, LoadLock(t) PROVE MInv'
  BY <1>1 DEF LoadLock, At, mutex, Nobody
<1>2. ASSUME NEW t \in Tasks, StoreLock(t) PROVE MInv'
  <2>1. CASE reserved = t
    BY <1>2, <2>1 DEF StoreLock, At, StoreSucceeds, Nobody
  <2>2. CASE reserved # t
    BY <1>2, <2>2 DEF StoreLock, At, StoreSucceeds, Nobody
  <2> QED BY <2>1, <2>2
<1>3. ASSUME NEW t \in Tasks, TryAgain(t) PROVE MInv'
  BY <1>3 DEF TryAgain, At, mutex, monitor
<1>4. ASSUME NEW t \in Tasks, SetOwner(t) PROVE MInv'
  BY <1>4 DEF SetOwner, At, monitor
<1>5. ASSUME NEW t \in Tasks, LoadUnlock(t) PROVE MInv'
  BY <1>5 DEF LoadUnlock, At, mutex, Nobody
<1>6. ASSUME NEW t \in Tasks, StoreUnlock(t) PROVE MInv'
  <2>1. CASE reserved = t
    BY <1>6, <2>1 DEF StoreUnlock, At, Released, Nobody
  <2>2. CASE reserved # t
    BY <1>6, <2>2 DEF StoreUnlock, At, Released, Nobody
  <2> QED BY <2>1, <2>2
<1>7. ASSUME NEW t \in Tasks, Want(t) PROVE MInv'
  BY <1>7 DEF Want, At, mutex, monitor
<1>8. ASSUME NEW t \in Tasks, Leave(t) PROVE MInv'
  BY <1>8 DEF Leave, At, mutex, monitor
<1>9. CASE Exception
  BY <1>9 DEF Exception, mutex, Nobody
<1>10. CASE UNCHANGED mutexVars
  BY <1>10 DEF mutexVars
<1> QED
  BY <1>1, <1>2, <1>3, <1>4, <1>5, <1>6, <1>7, <1>8, <1>9, <1>10
  DEF MutexNext, Locking, Unlocking

THEOREM MInvHolds == MutexSpec => []MInv
BY MInvInit, MInvStep, PTL DEF MutexSpec

\* Whatever exceptions do to the exclusive stores of utils.S, try_lock lets at most
\* one task into the critical section.
THEOREM MutexExcludes == MutexSpec => []MutualExclusion
<1>1. MInv => MutualExclusion
  BY DEF MInv, UniqueBusy, Busy, MutualExclusion
<1> QED BY <1>1, MInvHolds, PTL

\* The lock word and __owner tell who holds the mutex.
THEOREM LockWordRight == MutexSpec => []LockWord
<1>1. MInv => LockWord
  BY DEF MInv
<1> QED BY <1>1, MInvHolds, PTL

\* Both, for any number of tasks and exceptions: what the run checks.
THEOREM MutexIsRight == MutexSpec => []MutexRight
BY MutexExcludes, LockWordRight, PTL DEF MutexRight

-----------------------------------------------------------------------------
(* The allocator.                                                          *)

\* No page in common.
Apart(m, n) ==
  m[2] = 0 \/ n[2] = 0 \/ m[1] + m[2] <= n[1] \/ n[1] + n[2] <= m[1]

PageTypes ==
  /\ mem_map \in [Entries -> {0, 1}]
  /\ count \in [Tasks -> Counts]
  /\ i \in [Tasks -> 0..Pages] /\ j \in [Tasks -> Nat]
  /\ work \in [Tasks -> {"search", "mark", "done"}]
  /\ held \subseteq Nat \X Counts
  /\ freeing \in [Tasks -> Nat \X Nat]

\* The loops of get_free_page run under the lock and within their bounds.
WorkInside ==
  \A t \in Tasks :
    /\ work[t] # "done" => j[t] < count[t]
    /\ work[t] = "mark" => mpc[t] = "in" /\ i[t] < Pages
    /\ work[t] = "search" =>
         \/ mpc[t] = "in"
         \/ /\ mpc[t] \in {"try", "store", "failed", "owner"}
            /\ j[t] = 0

Within ==
  /\ \A m \in held : m[1] + m[2] <= Pages + MaxCount
  /\ \A t \in Tasks : freeing[t][1] + freeing[t][2] <= Pages + MaxCount
  /\ \A t \in Tasks : freeing[t] # NoPages => freeing[t][2] # 0

\* What t has found free so far, or is about to return.
Claim(t) ==
  IF work[t] = "mark" THEN Run(t)
  ELSE IF work[t] = "search" THEN <<i[t], j[t]>> ELSE NoPages

HeldApart == \A m, n \in held : m # n => Apart(m, n)

PendingApart ==
  /\ \A m \in held, t \in Tasks : Apart(m, freeing[t])
  /\ \A t, u \in Tasks : t # u => Apart(freeing[t], freeing[u])

ClaimApart ==
  /\ \A m \in held, t \in Tasks : Apart(m, Claim(t))
  /\ \A t, u \in Tasks : Apart(freeing[u], Claim(t))

\* The inductive invariant.
PInv == /\ MInv /\ PageTypes /\ WorkInside /\ Within
        /\ HeldApart /\ PendingApart /\ ClaimApart /\ MapMatches

LEMMA PInvInit == PageInit => PInv
<1> SUFFICES ASSUME PageInit PROVE PInv
  OBVIOUS
<1> USE PagesAssumption DEF PageInit
<1>1. MInv
  BY MInvInit
<1>2. PageTypes
  BY DEF PageTypes, Counts, NoPages
<1>3. WorkInside /\ Within
  BY DEF WorkInside, Within, NoPages
<1>4. HeldApart /\ PendingApart /\ ClaimApart
  BY DEF HeldApart, PendingApart, ClaimApart, Apart, Claim, NoPages
<1>5. MapMatches
  BY DEF MapMatches, Marking, PagesOf, NoPages, Entries
<1> QED BY <1>1, <1>2, <1>3, <1>4, <1>5 DEF PInv

LEMMA PageStepIsMutexStep == [PageNext]_pageVars => [MutexNext]_mutexVars
BY DEF PageNext, pageVars, MutexNext, Request, Allocating, UseLock, CheckEntry, MarkEntry,
       GiveUp, Finish, StartFree, FreeEntry, Inside, Uninterrupted

\* A run that grows by a page outside m stays apart from m.
LEMMA ApartGrows ==
  ASSUME NEW m \in Nat \X Nat, NEW a \in Nat, NEW k \in Nat,
         Apart(m, <<a, k>>), a + k \notin PagesOf(m)
  PROVE  Apart(m, <<a, k + 1>>)
BY DEF Apart, PagesOf

LEMMA LastOfRun ==
  ASSUME NEW a \in Nat, NEW b \in Nat, NEW p \in Nat
  PROVE  p \in a..a + b <=> p \in a..a + b - 1 \/ p = a + b
OBVIOUS

\* Only the mutex changes, or nothing.
LEMMA PInvMutexOnly ==
  ASSUME PInv, MInv', UNCHANGED <<mem_map, search, held, freeing>>, WorkInside'
  PROVE  PInv'
BY DEF PInv, PageTypes, Within, HeldApart, PendingApart, ClaimApart, Apart,
       Claim, Run, MapMatches, Marking, PagesOf, search

\* The lock, and what the holder of it knows about the others.
LEMMA OnlyOneInside ==
  ASSUME PInv, NEW t \in Tasks, mpc[t] = "in", NEW u \in Tasks, u # t
  PROVE  work[u] # "mark" /\ Claim(u)[2] = 0
<1>1. mpc[u] # "in"
  BY DEF PInv, MInv, UniqueBusy, Busy, Holding
<1> QED BY <1>1 DEF PInv, PageTypes, WorkInside, Claim, NoPages

LEMMA RequestStep ==
  ASSUME PInv, MInv', NEW t \in Tasks, NEW n \in Counts, Request(t, n)
  PROVE  PInv'
<1> USE PagesAssumption DEF PInv, PageTypes, Counts
<1>1. mpc[t] = "out" /\ work[t] = "done"
  BY DEF Request, Want, At, WorkInside
<1>2. PageTypes'
  BY DEF Request
<1>3. WorkInside'
  <2>1. \A u \in Tasks : u # t => mpc'[u] = mpc[u]
    BY DEF Request, Want, At, MInv, MutexTypeOK
  <2>2. mpc'[t] = "try"
    BY DEF Request, Want, At, MInv, MutexTypeOK
  <2>3. work'[t] = "search"
    BY DEF Request
  <2> QED BY <1>1, <2>1, <2>2 DEF WorkInside, Request
<1>4. Within' /\ HeldApart' /\ PendingApart'
  BY DEF Within, HeldApart, PendingApart, Request
<1>5. ClaimApart'
  <2>1. (Claim(t)')[2] = 0
    BY DEF Claim, Request
  <2>2. \A u \in Tasks : u # t => Claim(u)' = Claim(u)
    BY DEF Claim, Request, Run
  <2>3. held' = held /\ freeing' = freeing
    BY DEF Request
  <2> QED BY <2>1, <2>2, <2>3 DEF ClaimApart, Apart
<1>6. MapMatches'
  BY <1>1 DEF MapMatches, Marking, Request
<1> QED BY <1>2, <1>3, <1>4, <1>5, <1>6

LEMMA CheckEntryStep ==
  ASSUME PInv, MInv', NEW t \in Tasks, CheckEntry(t)
  PROVE  PInv'
<1> USE PagesAssumption DEF PInv, PageTypes, Counts
<1>1. mpc[t] = "in" /\ work[t] = "search" /\ UNCHANGED mutexVars /\ i[t] < Pages
  BY DEF CheckEntry, Inside, Uninterrupted, InRange
<1>2. j[t] < count[t] /\ i[t] + j[t] \in Entries
  BY <1>1 DEF WorkInside, Entries
<1>3. PageTypes'
  BY <1>1, <1>2, SMTT(30) DEF CheckEntry, NextStart, IsLast
<1>4. WorkInside'
  BY <1>1, <1>2, SMTT(30) DEF WorkInside, CheckEntry, NextStart, IsLast, mutexVars
<1>5. Within' /\ HeldApart' /\ PendingApart'
  BY DEF Within, HeldApart, PendingApart, CheckEntry
<1>6. ClaimApart'
  <2>1. \A u \in Tasks : u # t => Claim(u)' = Claim(u)
    BY DEF Claim, CheckEntry, Run
  <2>2. CASE mem_map[i[t] + j[t]] # 0
    <3>1. (Claim(t)')[2] = 0
      BY <1>1, <2>2 DEF Claim, CheckEntry
    <3> QED BY <2>1, <3>1, SMTT(30) DEF ClaimApart, Apart, CheckEntry
  <2>3. CASE mem_map[i[t] + j[t]] = 0
    <3>1. Claim(t) = <<i[t], j[t]>> /\ Claim(t)' = <<i[t], j[t] + 1>>
      BY <1>1, <1>2, <2>3 DEF Claim, CheckEntry, IsLast, Run
    <3>2. \A m \in held : i[t] + j[t] \notin PagesOf(m)
      BY <1>2, <2>3 DEF MapMatches
    <3>3. \A u \in Tasks : i[t] + j[t] \notin PagesOf(freeing[u])
      BY <1>2, <2>3 DEF MapMatches
    <3>4. ASSUME NEW m \in held PROVE Apart(m, Claim(t)')
      <4>1. m \in Nat \X Nat /\ Apart(m, <<i[t], j[t]>>)
        BY <3>1 DEF ClaimApart
      <4> QED BY <3>1, <3>2, <4>1, ApartGrows
    <3>5. \A u \in Tasks : Apart(freeing[u], Claim(t)')
      BY <3>1, <3>3, ApartGrows DEF ClaimApart
    <3> QED BY <2>1, <3>4, <3>5, SMTT(30) DEF ClaimApart, CheckEntry
  <2> QED BY <2>2, <2>3
<1>7. MapMatches'
  <2>1. mem_map' = mem_map /\ held' = held /\ freeing' = freeing
    BY DEF CheckEntry
  <2>2. \A u \in Marking : u # t /\ u \in Marking' /\ i'[u] = i[u] /\ j'[u] = j[u]
    BY <1>1 DEF Marking, CheckEntry
  <2>3. \A u \in Marking' : u # t => u \in Marking
    BY DEF Marking, CheckEntry
  <2>4. t \in Marking' => j'[t] = 0
    BY <1>1, <1>2 DEF Marking, CheckEntry
  <2>5. \A p \in Entries :
          (\E u \in Marking' : p \in i'[u]..i'[u] + j'[u] - 1)
            <=> (\E u \in Marking : p \in i[u]..i[u] + j[u] - 1)
    BY <2>2, <2>3, <2>4, <1>3
  <2> QED BY <2>1, <2>5 DEF MapMatches, PagesOf
<1> QED BY <1>3, <1>4, <1>5, <1>6, <1>7

LEMMA MarkEntryStep ==
  ASSUME PInv, MInv', NEW t \in Tasks, MarkEntry(t)
  PROVE  PInv'
<1> USE PagesAssumption DEF PInv, PageTypes, Counts
<1>1. mpc[t] = "in" /\ work[t] = "mark" /\ UNCHANGED mutexVars /\ i[t] < Pages
  BY DEF MarkEntry, Inside, Uninterrupted, WorkInside
<1>2. j[t] < count[t] /\ i[t] + j[t] \in Entries
  BY <1>1 DEF WorkInside, Entries
<1>3. \A u \in Tasks : u # t => work[u] # "mark" /\ Claim(u)[2] = 0
  BY <1>1, OnlyOneInside
<1>4. Claim(t) = <<i[t], count[t]>>
  BY <1>1 DEF Claim, Run
<1>5. \A u \in Tasks : u # t => Claim(u)' = Claim(u)
  BY DEF Claim, MarkEntry, Run
<1>6. PageTypes'
  BY <1>1, <1>2 DEF MarkEntry, Run
<1>7. WorkInside'
  BY <1>1, <1>2 DEF WorkInside, MarkEntry, mutexVars
<1>8. CASE j[t] + 1 < count[t]
  <2>1. Claim(t)' = Claim(t) /\ held' = held /\ freeing' = freeing
    BY <1>1, <1>8 DEF MarkEntry, Claim, Run
  <2>2. Within' /\ HeldApart' /\ PendingApart' /\ ClaimApart'
    BY <2>1, <1>5 DEF Within, HeldApart, PendingApart, ClaimApart
  <2>3. Marking = {t} /\ Marking' = {t}
    BY <1>1, <1>3, <1>8 DEF Marking, MarkEntry
  <2>4. /\ i' = i /\ j'[t] = j[t] + 1
        /\ \A p \in Entries : mem_map'[p] = IF p = i[t] + j[t] THEN 1 ELSE mem_map[p]
    BY <1>2, <1>8 DEF MarkEntry
  <2>5. MapMatches'
    <3>1. i[t] \in Nat /\ j[t] \in Nat /\ Entries \subseteq Nat
      BY DEF Entries
    <3>2. \A p \in Entries :
            p \in i'[t]..i'[t] + j'[t] - 1 <=> p \in i[t]..i[t] + j[t] - 1 \/ p = i[t] + j[t]
      <4>1. i'[t]..i'[t] + j'[t] - 1 = i[t]..i[t] + j[t]
        BY <2>4, <3>1
      <4> QED BY <4>1, <3>1, LastOfRun
    <3>3. \A p \in Entries :
            mem_map[p] = 1 <=> \/ \E n \in held : p \in PagesOf(n)
                               \/ p \in i[t]..i[t] + j[t] - 1
                               \/ \E u \in Tasks : p \in PagesOf(freeing[u])
      BY <2>3 DEF MapMatches
    <3>4. \A p \in Entries :
            mem_map'[p] = 1 <=> \/ \E n \in held : p \in PagesOf(n)
                                \/ p \in i'[t]..i'[t] + j'[t] - 1
                                \/ \E u \in Tasks : p \in PagesOf(freeing[u])
      BY <3>2, <3>3, <2>4
    <3> QED BY <3>4, <2>1, <2>3 DEF MapMatches, PagesOf
  <2> QED BY <1>6, <1>7, <2>2, <2>5
<1>9. CASE j[t] + 1 = count[t]
  <2> DEFINE m == Run(t)
  <2>1. /\ m = <<i[t], count[t]>> /\ (Claim(t)')[2] = 0
        /\ held' = held \cup {m} /\ freeing' = freeing
    BY <1>1, <1>9 DEF MarkEntry, Claim, Run, NoPages
  <2>2. /\ \A n \in held : Apart(n, m)
        /\ \A u \in Tasks : Apart(freeing[u], m)
    BY <1>4, <2>1 DEF ClaimApart
  <2>3. Within'
    BY <2>1, <1>1 DEF Within
  <2>4. HeldApart' /\ PendingApart'
    BY <2>1, <2>2 DEF HeldApart, PendingApart, Apart
  <2>5. ClaimApart'
    BY <2>1, <1>5, <1>3 DEF ClaimApart, Apart
  <2>6. Marking = {t} /\ Marking' = {}
    BY <1>1, <1>3, <1>9 DEF Marking, MarkEntry
  <2>7. \A p \in Entries : mem_map'[p] = IF p = i[t] + j[t] THEN 1 ELSE mem_map[p]
    BY <1>2, <1>9 DEF MarkEntry
  <2>8. \A p \in Entries :
          p \in PagesOf(m) <=> p \in i[t]..i[t] + j[t] - 1 \/ p = i[t] + j[t]
    <3>1. i[t] \in Nat /\ j[t] \in Nat
      OBVIOUS
    <3>2. PagesOf(m) = i[t]..i[t] + j[t]
      BY <2>1, <1>9, <3>1 DEF PagesOf
    <3>3. Entries \subseteq Nat
      BY DEF Entries
    <3> QED BY <3>1, <3>2, <3>3, LastOfRun
  <2>9. MapMatches'
    <3>1. \A p \in Entries :
            (\E n \in held' : p \in PagesOf(n))
              <=> (\E n \in held : p \in PagesOf(n)) \/ p \in PagesOf(m)
      BY <2>1
    <3>2. \A p \in Entries :
            mem_map[p] = 1 <=> \/ \E n \in held : p \in PagesOf(n)
                               \/ p \in i[t]..i[t] + j[t] - 1
                               \/ \E u \in Tasks : p \in PagesOf(freeing[u])
      BY <2>6 DEF MapMatches
    <3>3. \A p \in Entries :
            mem_map'[p] = 1 <=> \/ \E n \in held' : p \in PagesOf(n)
                                \/ \E u \in Tasks : p \in PagesOf(freeing[u])
      BY <3>1, <3>2, <2>7, <2>8
    <3> QED BY <3>3, <2>1, <2>6 DEF MapMatches, PagesOf
  <2> QED BY <1>6, <1>7, <2>3, <2>4, <2>5, <2>9
<1> QED BY <1>8, <1>9 DEF MarkEntry

LEMMA GiveUpStep ==
  ASSUME PInv, MInv', NEW t \in Tasks, GiveUp(t)
  PROVE  PInv'
<1> USE DEF PInv, PageTypes
<1>1. work[t] = "search" /\ UNCHANGED mutexVars
  BY DEF GiveUp, Inside, Uninterrupted
<1>2. PageTypes' /\ WorkInside'
  BY <1>1 DEF GiveUp, WorkInside, mutexVars
<1>3. Within' /\ HeldApart' /\ PendingApart'
  BY DEF Within, HeldApart, PendingApart, GiveUp
<1>4. (Claim(t)')[2] = 0
  BY DEF Claim, GiveUp, NoPages
<1>5. \A u \in Tasks : u # t => Claim(u)' = Claim(u)
  BY DEF Claim, Run, GiveUp
<1>6. held' = held /\ freeing' = freeing
  BY DEF GiveUp
<1>7. ClaimApart'
  <2>1. ASSUME NEW m, NEW u \in Tasks, Apart(m, Claim(u)) PROVE Apart(m, Claim(u)')
    BY <1>4, <1>5, <2>1 DEF Apart
  <2> QED
    BY <1>6, <2>1 DEF ClaimApart
<1>8. MapMatches'
  BY <1>1 DEF MapMatches, Marking, GiveUp
<1> QED BY <1>2, <1>3, <1>7, <1>8

LEMMA StartFreeStep ==
  ASSUME PInv, MInv', NEW t \in Tasks, NEW m \in held, StartFree(t, m)
  PROVE  PInv'
<1> USE PagesAssumption DEF PInv, PageTypes, Counts
<1>1. UNCHANGED <<mutexVars, mem_map, search>> /\ freeing[t] = NoPages
  BY DEF StartFree, Uninterrupted, Freeing
<1>2. held' = held \ {m} /\ freeing' = [freeing EXCEPT ![t] = m] /\ m[2] # 0
  BY DEF StartFree
<1>3. PageTypes' /\ WorkInside' /\ Within'
  BY <1>1, <1>2 DEF WorkInside, Within, search, mutexVars, NoPages
<1>4. HeldApart' /\ PendingApart'
  BY <1>2 DEF HeldApart, PendingApart, Apart
<1>5. ClaimApart'
  <2>1. \A u \in Tasks : Claim(u)' = Claim(u)
    BY <1>1 DEF Claim, Run, search
  <2> QED BY <1>2, <2>1 DEF ClaimApart
<1>6. MapMatches'
  <2>1. Marking' = Marking /\ i' = i /\ j' = j /\ mem_map' = mem_map
    BY <1>1 DEF Marking, search
  <2>2. \A p \in Entries : p \notin PagesOf(freeing[t])
    BY <1>1 DEF PagesOf, NoPages, Entries
  <2>3. freeing'[t] = m /\ \A u \in Tasks : u # t => freeing'[u] = freeing[u]
    BY <1>2
  <2>4. \A p \in Entries :
          (\E u \in Tasks : p \in PagesOf(freeing'[u]))
            <=> p \in PagesOf(m) \/ \E u \in Tasks : p \in PagesOf(freeing[u])
    BY <2>2, <2>3
  <2>5. \A p \in Entries :
          (\E n \in held : p \in PagesOf(n))
            <=> p \in PagesOf(m) \/ \E n \in held' : p \in PagesOf(n)
    BY <1>2
  <2> QED BY <2>1, <2>4, <2>5 DEF MapMatches, PagesOf
<1> QED BY <1>3, <1>4, <1>5, <1>6

LEMMA FreeEntryStep ==
  ASSUME PInv, MInv', NEW t \in Tasks, FreeEntry(t)
  PROVE  PInv'
<1> USE PagesAssumption DEF PInv, PageTypes
<1>1. /\ UNCHANGED <<mutexVars, search, held>> /\ freeing[t] # NoPages
      /\ mem_map' = [mem_map EXCEPT ![freeing[t][1]] = 0]
  BY DEF FreeEntry, Uninterrupted, Freeing, Cleared
<1>2. PICK a \in Nat, n \in Nat \ {0} : freeing[t] = <<a, n>>
  <2>1. freeing[t] \in Nat \X Nat /\ freeing[t][2] # 0
    BY <1>1 DEF Within
  <2> QED BY <2>1
<1>3. a \in Entries
  BY <1>2 DEF Within, Entries
<1>4. freeing' = [freeing EXCEPT ![t] = IF n = 1 THEN NoPages ELSE <<a + 1, n - 1>>]
  BY <1>2 DEF FreeEntry
<1>5. \A u \in Tasks : u # t => freeing'[u] = freeing[u]
  BY <1>4
<1>6. freeing'[t] = IF n = 1 THEN NoPages ELSE <<a + 1, n - 1>>
  BY <1>4
<1>7. PageTypes'
  <2>1. freeing'[t] \in Nat \X Nat
    BY <1>6 DEF NoPages
  <2>2. freeing' \in [Tasks -> Nat \X Nat]
    BY <1>4, <1>6, <2>1
  <2> QED BY <1>1, <2>2 DEF search
<1>8. WorkInside'
  BY <1>1 DEF WorkInside, search, mutexVars
<1>9. Within'
  <2>1. a + n <= Pages + MaxCount
    BY <1>2 DEF Within
  <2>2. /\ freeing'[t][1] + freeing'[t][2] <= Pages + MaxCount
        /\ freeing'[t] # NoPages => freeing'[t][2] # 0
    BY <1>6, <2>1 DEF NoPages
  <2> QED BY <1>1, <1>5, <2>2 DEF Within
<1>10. ASSUME NEW x \in Nat \X Nat, Apart(x, freeing[t])
       PROVE  Apart(x, freeing'[t]) /\ a \notin PagesOf(x)
  BY <1>2, <1>6, <1>10 DEF Apart, NoPages, PagesOf
<1>11. ASSUME NEW x \in Nat \X Nat, Apart(freeing[t], x)
       PROVE  Apart(freeing'[t], x) /\ a \notin PagesOf(x)
  BY <1>2, <1>6, <1>11 DEF Apart, NoPages, PagesOf
<1>12. /\ \A m \in held : m \in Nat \X Nat
       /\ \A u \in Tasks : Claim(u) \in Nat \X Nat /\ Claim(u)' = Claim(u)
  BY <1>1 DEF Claim, Run, search, Counts, NoPages
<1>13. HeldApart' /\ PendingApart'
  BY <1>1, <1>5, <1>10, <1>11, <1>12 DEF HeldApart, PendingApart
<1>14. ClaimApart'
  BY <1>1, <1>5, <1>11, <1>12 DEF ClaimApart
<1>15. MapMatches'
  <2>1. \A p \in Entries : mem_map'[p] = IF p = a THEN 0 ELSE mem_map[p]
    BY <1>1, <1>2, <1>3
  <2>2. \A m \in held : a \notin PagesOf(m)
    BY <1>10, <1>12 DEF PendingApart
  <2>3. \A u \in Tasks : u # t => a \notin PagesOf(freeing[u])
    BY <1>10 DEF PendingApart
  <2>4. \A u \in Marking : a \notin i[u]..i[u] + j[u] - 1
    <3>1. ASSUME NEW u \in Marking PROVE a \notin PagesOf(Run(u)) /\ j[u] < count[u]
      BY <1>11, <1>12, <3>1 DEF ClaimApart, Claim, Marking, WorkInside
    <3> QED BY <3>1 DEF Run, PagesOf, Marking, Counts
  <2>5. \A p \in Entries : p \in PagesOf(freeing[t]) <=> p = a \/ p \in PagesOf(freeing'[t])
    BY <1>2, <1>6 DEF PagesOf, NoPages, Entries
  <2>6. a \notin PagesOf(freeing'[t])
    BY <1>6 DEF PagesOf, NoPages
  <2>7. \A p \in Entries :
          (\E u \in Tasks : p \in PagesOf(freeing[u]))
            <=> p = a \/ \E u \in Tasks : p \in PagesOf(freeing'[u])
    BY <2>5, <1>5
  <2>8. ~ \E u \in Tasks : a \in PagesOf(freeing'[u])
    BY <2>6, <2>3, <1>5
  <2>9. Marking' = Marking /\ i' = i /\ j' = j /\ held' = held
    BY <1>1 DEF Marking, search
  <2> QED BY <1>3, <2>1, <2>2, <2>4, <2>7, <2>8, <2>9 DEF MapMatches, PagesOf
<1> QED BY <1>7, <1>8, <1>9, <1>13, <1>14, <1>15

LEMMA UseLockStep ==
  ASSUME PInv, MInv', NEW t \in Tasks, UseLock(t)
  PROVE  PInv'
<1>1. UNCHANGED <<mem_map, search, held, freeing>>
  BY DEF UseLock
<1>2. mpc[t] # "in" /\ \A u \in Tasks : u # t => mpc'[u] = mpc[u]
  BY DEF UseLock, Locking, Unlocking, LoadLock, StoreLock, TryAgain, SetOwner, LoadUnlock,
         StoreUnlock, At, PInv, MInv, MutexTypeOK
<1>3. mpc[t] \in {"try", "store", "failed", "owner"} =>
        mpc'[t] \in {"try", "store", "failed", "owner", "in"}
  BY DEF UseLock, Locking, Unlocking, LoadLock, StoreLock, TryAgain, SetOwner, LoadUnlock,
         StoreUnlock, At, PInv, MInv, MutexTypeOK
<1>4. WorkInside'
  BY <1>1, <1>2, <1>3 DEF PInv, WorkInside, search
<1> QED BY <1>1, <1>4, PInvMutexOnly

LEMMA FinishStep ==
  ASSUME PInv, MInv', NEW t \in Tasks, Finish(t)
  PROVE  PInv'
<1>1. UNCHANGED <<mem_map, search, held, freeing>> /\ work[t] = "done"
  BY DEF Finish
<1>2. \A u \in Tasks : u # t => mpc'[u] = mpc[u]
  BY DEF Finish, Leave, At, PInv, MInv, MutexTypeOK
<1>3. WorkInside'
  BY <1>1, <1>2 DEF PInv, WorkInside, search
<1> QED BY <1>1, <1>3, PInvMutexOnly

LEMMA PInvStep == PInv /\ [PageNext]_pageVars => PInv'
<1> SUFFICES ASSUME PInv, [PageNext]_pageVars PROVE PInv'
  OBVIOUS
<1>1. MInv'
  BY PageStepIsMutexStep, MInvStep DEF PInv
<1>2. CASE \E t \in Tasks, n \in Counts : Request(t, n)
  BY <1>1, <1>2, RequestStep
<1>3. CASE \E t \in Tasks : Allocating(t)
  BY <1>1, <1>3, UseLockStep, CheckEntryStep, MarkEntryStep, GiveUpStep, FinishStep
  DEF Allocating
<1>4. CASE \E t \in Tasks : (\E m \in held : StartFree(t, m)) \/ FreeEntry(t)
  BY <1>1, <1>4, StartFreeStep, FreeEntryStep
<1>5. CASE \/ Exception /\ UNCHANGED <<mem_map, search, held, freeing>>
           \/ UNCHANGED pageVars
  <2>1. UNCHANGED <<mem_map, search, held, freeing>> /\ mpc' = mpc
    BY <1>5 DEF Exception, pageVars, mutexVars
  <2>2. WorkInside'
    BY <2>1 DEF PInv, WorkInside, search
  <2> QED BY <1>1, <2>1, <2>2, PInvMutexOnly
<1> QED BY <1>2, <1>3, <1>4, <1>5 DEF PageNext

THEOREM PInvHolds == PageSpec => []PInv
BY PInvInit, PInvStep, PTL DEF PageSpec

LEMMA PInvNoDouble == PInv => NoDoubleAllocation
<1> SUFFICES ASSUME PInv PROVE NoDoubleAllocation
  OBVIOUS
<1> USE DEF PInv, PageTypes
<1>1. \A t, u \in Marking : t = u
  <2>1. \A t \in Marking : t \in Tasks /\ mpc[t] = "in"
    BY DEF Marking, WorkInside
  <2> QED BY <2>1, OnlyOneInside DEF Marking
<1>2. \A t \in Marking : Run(t) \in Nat \X Counts /\ Claim(t) = Run(t)
  BY DEF Marking, Claim, Run
<1>3. \A m \in held, t \in Marking : Apart(m, Run(t))
  BY <1>2 DEF ClaimApart, Marking
<1>4. \A m \in Nat \X Counts : ~Apart(m, m)
  BY PagesAssumption DEF Apart, Counts
<1>5. \A t \in Marking : Run(t) \notin held
  BY <1>2, <1>3, <1>4
<1>6. \A m, n \in Nat \X Counts : Apart(m, n) \/ Apart(n, m) => PagesOf(m) \cap PagesOf(n) = {}
  BY PagesAssumption DEF Apart, PagesOf, Counts
<1>7. \A m, n \in held \cup {Run(t) : t \in Marking} :
        m # n => Apart(m, n) \/ Apart(n, m)
  BY <1>1, <1>3 DEF HeldApart
<1>8. held \cup {Run(t) : t \in Marking} \subseteq Nat \X Counts
  BY <1>2
<1> QED BY <1>1, <1>5, <1>6, <1>7, <1>8 DEF NoDoubleAllocation

\* Every variable of the allocator stays in its type: an index never leaves
\* mem_map, even in a request that runs past its last entry (mm.c).
THEOREM PageTypesHold == PageSpec => []PageTypeOK
<1>1. PInv => PageTypeOK
  <2> SUFFICES ASSUME PInv PROVE PageTypeOK
    OBVIOUS
  <2>1. \A m \in held : PagesOf(m) \subseteq Entries
    BY PagesAssumption DEF PInv, PageTypes, Within, PagesOf, Entries, Counts
  <2>2. QED
    BY <2>1 DEF PInv, MInv, PageTypes, PageTypeOK
<1>2. QED
  BY <1>1, PInvHolds, PTL

\* No page is handed out twice, for every number of pages, every size of request
\* and every interleaving of get_free_page with itself and with free_page.
THEOREM PagesHandedOutOnce == PageSpec => []NoDoubleAllocation
BY PInvHolds, PInvNoDouble, PTL

\* mem_map shows exactly what is in use.
THEOREM MapIsRight == PageSpec => []MapMatches
<1>1. PInv => MapMatches
  BY DEF PInv
<1> QED BY <1>1, PInvHolds, PTL

\* Both: what the run checks.
THEOREM PagesAccounted == PageSpec => []Accounted
BY PagesHandedOutOnce, MapIsRight, PTL DEF Accounted

-----------------------------------------------------------------------------
(* The allocator implements PagePool.                                      *)

Free == {p \in Entries : mem_map[p] = 0} \ Pooled
Taken == held \cup {Run(t) : t \in Marking}

LEMMA PoolInit == PageInit => PP!Init
BY DEF PageInit, PP!Init, Pooled, Marking

\* Steps that hide from the pool.
LEMMA PoolSame ==
  ASSUME mem_map' = mem_map, held' = held, Marking' = Marking,
         \A t \in Marking : Run(t)' = Run(t)
  PROVE  Free' = Free /\ Taken' = Taken
BY DEF Free, Taken, Pooled

LEMMA PoolTakes ==
  ASSUME PInv, PInv', NEW t \in Tasks, CheckEntry(t)
  PROVE  (\E r \in Entries \X Counts : PP!Take(r)) \/ (Free' = Free /\ Taken' = Taken)
<1> USE PagesAssumption DEF PInv, PageTypes
<1>1. /\ mpc[t] = "in" /\ work[t] = "search" /\ i[t] < Pages
      /\ mem_map' = mem_map /\ held' = held
  BY DEF CheckEntry, Inside, InRange
<1>2. \A u \in Tasks : work[u] # "mark"
  BY <1>1, OnlyOneInside
<1>3. Marking = {} /\ Free = {p \in Entries : mem_map[p] = 0} /\ Taken = held
  BY <1>2 DEF Marking, Free, Taken, Pooled
<1>4. CASE work' = work
  BY <1>1, <1>3, <1>4, PoolSame DEF Marking
<1>5. CASE mem_map[i[t] + j[t]] = 0 /\ IsLast(t)
  <2> DEFINE r == <<i[t], count[t]>>
  <2>1. work' = [work EXCEPT ![t] = "mark"] /\ i' = i /\ count' = count /\ j[t] + 1 = count[t]
    BY <1>5 DEF CheckEntry, IsLast
  <2>2. Marking' = {t} /\ Run(t)' = r
    BY <1>2, <2>1 DEF Marking, Run
  <2>3. Taken' = Taken \cup {r} /\ Free' = Free \ PagesOf(r)
    <3>1. {Run(u) : u \in Marking}' = {r} /\ Pooled' = PagesOf(r)
      BY <2>2 DEF Pooled, PagesOf
    <3>2. Taken' = held' \cup {r} /\ Free' = {p \in Entries : mem_map'[p] = 0} \ PagesOf(r)
      BY <3>1 DEF Taken, Free
    <3> QED BY <3>2, <1>1, <1>3
  <2>4. r \in Entries \X Counts
    BY <1>1 DEF Entries
  <2>5. PagesOf(r) \subseteq Entries
    <3>1. i[t] \in Nat /\ i[t] < Pages /\ count[t] \in 1..MaxCount /\ Pages \in Nat /\ MaxCount \in Nat
      BY <1>1 DEF Counts
    <3>2. i[t]..i[t] + count[t] - 1 \subseteq 0..Pages + MaxCount - 1
      BY <3>1
    <3> QED
      BY <3>2 DEF Entries, PagesOf
  <2>6. Claim(t)' = r
    BY <2>1, <2>2 DEF Claim
  <2>7. /\ \A m \in held : Apart(m, r)
        /\ \A u \in Tasks : Apart(freeing[u], r)
    <3>1. held' = held /\ freeing' = freeing /\ ClaimApart'
      BY DEF CheckEntry
    <3> QED BY <3>1, <2>6, ZenonT(60) DEF ClaimApart
  <2>8. \A m \in Nat \X Nat : Apart(m, r) => \A p \in PagesOf(r) : p \notin PagesOf(m)
    BY DEF Apart, PagesOf, Counts
  <2>9. \A m \in held : \A p \in PagesOf(r) : p \notin PagesOf(m)
    <3>1. \A m \in held : m \in Nat \X Nat
      BY DEF Counts
    <3> QED BY <3>1, <2>7, <2>8
  <2>10. \A u \in Tasks : \A p \in PagesOf(r) : p \notin PagesOf(freeing[u])
    BY <2>7, <2>8
  <2>11. \A p \in PagesOf(r) : mem_map[p] # 1
    BY <2>5, <2>9, <2>10, <1>3 DEF MapMatches
  <2>12. PagesOf(r) \subseteq Free
    BY <2>5, <2>11, <1>3
  <2>13. PP!Take(r)
    <3>1. PP!PagesOf(r) = PagesOf(r)
      BY DEF PP!PagesOf, PagesOf
    <3> QED BY <2>3, <2>12, <3>1 DEF PP!Take, Free, Taken
  <2>14. \E x \in Entries \X Counts : PP!Take(x)
    BY <2>4, <2>13 DEF PP!Take
  <2> QED BY <2>14
<1> QED BY <1>4, <1>5 DEF CheckEntry

LEMMA PoolMarks ==
  ASSUME PInv, NEW t \in Tasks, MarkEntry(t)
  PROVE  Free' = Free /\ Taken' = Taken
<1> USE PagesAssumption DEF PInv, PageTypes
<1>1. mpc[t] = "in" /\ work[t] = "mark" /\ i[t] < Pages /\ j[t] < count[t]
  BY DEF MarkEntry, Inside, WorkInside
<1>2. Marking = {t}
  BY <1>1, OnlyOneInside DEF Marking
<1>3. i[t] \in Nat /\ j[t] \in Nat /\ count[t] \in Nat /\ i[t] + j[t] \in Entries
  BY <1>1 DEF Entries, Counts
<1>4. \A p \in Entries : mem_map'[p] = IF p = i[t] + j[t] THEN 1 ELSE mem_map[p]
  BY <1>3 DEF MarkEntry
<1>5. i[t] + j[t] \in PagesOf(Run(t)) /\ Run(t)' = Run(t)
  BY <1>1, <1>3 DEF PagesOf, Run, MarkEntry
<1>6. Free = {p \in Entries : mem_map[p] = 0} \ PagesOf(Run(t)) /\ Taken = held \cup {Run(t)}
  BY <1>2 DEF Free, Taken, Pooled
<1>7. CASE j[t] + 1 < count[t]
  <2>1. Marking' = {t} /\ held' = held
    BY <1>1, <1>2, <1>7 DEF Marking, MarkEntry
  <2>2. Free' = {p \in Entries : mem_map'[p] = 0} \ PagesOf(Run(t)) /\ Taken' = Taken
    BY <2>1, <1>5, <1>6 DEF Free, Taken, Pooled
  <2> QED BY <2>2, <1>4, <1>5, <1>6
<1>8. CASE j[t] + 1 = count[t]
  <2>1. Marking' = {} /\ held' = held \cup {Run(t)}
    BY <1>1, <1>2, <1>8 DEF Marking, MarkEntry
  <2>2. Free' = {p \in Entries : mem_map'[p] = 0} /\ Taken' = Taken
    BY <2>1, <1>6 DEF Free, Taken, Pooled
  <2>3. \A p \in Entries : p \in i[t]..i[t] + j[t] - 1 => mem_map[p] = 1
    BY <1>2 DEF MapMatches
  <2>4. PagesOf(Run(t)) = i[t]..i[t] + j[t]
    BY <1>3, <1>8 DEF PagesOf, Run
  <2>5. \A p \in PagesOf(Run(t)) : p \in i[t]..i[t] + j[t] - 1 \/ p = i[t] + j[t]
    <3>1. PagesOf(Run(t)) \subseteq Nat
      BY <1>3, <2>4
    <3> QED BY <1>3, <2>4, <3>1, LastOfRun
  <2>6. \A p \in Entries : p \in PagesOf(Run(t)) => mem_map'[p] # 0
    BY <2>3, <2>5, <1>4
  <2>7. \A p \in Entries : p \notin PagesOf(Run(t)) => mem_map'[p] = mem_map[p]
    BY <1>4, <1>5
  <2> QED BY <2>2, <2>6, <2>7, <1>6
<1> QED BY <1>7, <1>8 DEF MarkEntry

LEMMA PoolGivesUp ==
  ASSUME PInv, NEW t \in Tasks, NEW m \in held, StartFree(t, m)
  PROVE  PP!GiveUp(m)
<1>1. m \notin {Run(u) : u \in Marking}
  BY PInvNoDouble DEF NoDoubleAllocation
<1>2. Marking' = Marking /\ mem_map' = mem_map /\ held' = held \ {m}
      /\ \A u \in Tasks : Run(u)' = Run(u)
  BY DEF StartFree, Marking, Run, search
<1>3. Taken' = Taken \ {m} /\ Free' = Free
  BY <1>1, <1>2 DEF Taken, Free, Pooled, Marking
<1> QED BY <1>3 DEF PP!GiveUp, Taken, Free

LEMMA PoolReleases ==
  ASSUME PInv, NEW t \in Tasks, FreeEntry(t)
  PROVE  \E p \in Entries : PP!Release(p)
<1> USE PagesAssumption DEF PInv, PageTypes
<1>1. /\ UNCHANGED <<search, held>> /\ freeing[t] # NoPages
      /\ mem_map' = [mem_map EXCEPT ![freeing[t][1]] = 0]
  BY DEF FreeEntry, Freeing, Cleared
<1>2. PICK a \in Nat, n \in Nat \ {0} : freeing[t] = <<a, n>>
  <2>1. freeing[t] \in Nat \X Nat /\ freeing[t][2] # 0
    BY <1>1 DEF Within
  <2> QED BY <2>1
<1>3. a \in Entries /\ a \in PagesOf(freeing[t])
  BY <1>2 DEF Within, Entries, PagesOf
<1>4. mem_map[a] = 1
  BY <1>3 DEF MapMatches
<1>5. \A x \in Nat \X Nat :
        Apart(x, freeing[t]) \/ Apart(freeing[t], x) => a \notin PagesOf(x)
  BY <1>2 DEF Apart, PagesOf
<1>6. \A m \in held : a \notin PagesOf(m)
  BY <1>5 DEF PendingApart, Counts
<1>7. \A u \in Marking : a \notin PagesOf(Run(u))
  <2>1. \A u \in Marking : u \in Tasks /\ Run(u) = Claim(u) /\ Run(u) \in Nat \X Nat
    BY DEF Claim, Marking, Run, Counts
  <2> QED BY <1>5, <2>1 DEF ClaimApart
<1>8. Marking' = Marking /\ \A u \in Marking : Run(u)' = Run(u)
  BY <1>1 DEF Marking, Run, search
<1>9. Taken' = Taken /\ Pooled' = Pooled
  BY <1>1, <1>8 DEF Taken, Pooled
<1>10. a \notin Pooled /\ a \notin UNION {PagesOf(r) : r \in Taken}
  BY <1>6, <1>7 DEF Pooled, Taken
<1>11. \A p \in Entries : mem_map'[p] = IF p = a THEN 0 ELSE mem_map[p]
  BY <1>1, <1>2, <1>3
<1>12. Free' = Free \cup {a} /\ a \notin Free
  <2>1. Free' = {p \in Entries : mem_map'[p] = 0} \ Pooled
    BY <1>9 DEF Free
  <2>2. \A p \in Entries : mem_map'[p] = 0 <=> p = a \/ mem_map[p] = 0
    BY <1>11
  <2>3. {p \in Entries : mem_map'[p] = 0} = {p \in Entries : mem_map[p] = 0} \cup {a}
    BY <2>2, <1>3
  <2> QED BY <2>1, <2>3, <1>4, <1>10 DEF Free
<1>13. PP!Release(a)
  BY <1>3, <1>9, <1>10, <1>12 DEF PP!Release, PP!PagesOf, PagesOf, Free, Taken
<1> QED BY <1>3, <1>13

LEMMA PoolStep ==
  PInv /\ PInv' /\ [PageNext]_pageVars => [PP!Next]_<<Free, Taken>>
<1> SUFFICES ASSUME PInv, PInv', [PageNext]_pageVars PROVE [PP!Next]_<<Free, Taken>>
  OBVIOUS
<1>1. CASE \E t \in Tasks : CheckEntry(t)
  BY <1>1, PoolTakes DEF PP!Next
<1>2. CASE \E t \in Tasks : MarkEntry(t)
  BY <1>2, PoolMarks
<1>3. CASE \E t \in Tasks : \E m \in held : StartFree(t, m)
  <2>1. PICK m \in held : PP!GiveUp(m)
    BY <1>3, PoolGivesUp
  <2> QED BY <2>1 DEF PP!Next
<1>4. CASE \E t \in Tasks : FreeEntry(t)
  BY <1>4, PoolReleases DEF PP!Next
<1>5. ASSUME NEW t \in Tasks, \E n \in Counts : Request(t, n)
      PROVE  Free' = Free /\ Taken' = Taken
  <2>1. mem_map' = mem_map /\ held' = held /\ work[t] # "mark"
    BY <1>5 DEF Request, Want, At, PInv, WorkInside
  <2>2. Marking' = Marking /\ \A u \in Marking : Run(u)' = Run(u)
    BY <1>5, <2>1 DEF Request, Marking, Run, PInv, PageTypes
  <2> QED BY <2>1, <2>2, PoolSame
<1>6. ASSUME NEW t \in Tasks, GiveUp(t) PROVE Free' = Free /\ Taken' = Taken
  <2>1. mem_map' = mem_map /\ held' = held /\ work[t] = "search"
    BY <1>6 DEF GiveUp, Inside
  <2>2. Marking' = Marking /\ \A u \in Marking : Run(u)' = Run(u)
    BY <1>6, <2>1 DEF GiveUp, Marking, Run, PInv, PageTypes
  <2> QED BY <2>1, <2>2, PoolSame
<1>7. ASSUME UNCHANGED <<mem_map, search, held>> PROVE Free' = Free /\ Taken' = Taken
  BY <1>7, PoolSame DEF search, Marking, Run
<1>8. CASE \E t \in Tasks : UseLock(t) \/ Finish(t)
  BY <1>8, <1>7 DEF UseLock, Finish
<1>9. CASE \/ Exception /\ UNCHANGED <<mem_map, search, held, freeing>>
           \/ UNCHANGED pageVars
  BY <1>9, <1>7 DEF pageVars
<1> QED
  BY <1>1, <1>2, <1>3, <1>4, <1>5, <1>6, <1>8, <1>9 DEF PageNext, Allocating

\* get_free_page and free_page, entry by entry, implement a pool whose runs are
\* taken in one step.
THEOREM AllocatorIsPool == PageSpec => Pool
<1>1. PInv /\ PInv' /\ [PageNext]_pageVars
        => [PP!Next]_<<{p \in Entries : mem_map[p] = 0} \ Pooled,
                       held \cup {Run(t) : t \in Marking}>>
  BY PoolStep DEF Free, Taken
<1> QED BY <1>1, PoolInit, PInvHolds, PTL DEF PageSpec, Pool, PP!Spec
=============================================================================
