----------------------------- MODULE AddressMap -----------------------------
(***************************************************************************)
(* What address spaces promise: every task has a memory, threads use that  *)
(* of their process, and only writes of its own tasks and faults change it *)
(* while it is used.                                                       *)
(***************************************************************************)
EXTENDS Naturals

CONSTANTS Tasks, Index, Size, Code, Written, Bottom

VARIABLES memory,   \* what a task has at an address
          owner,    \* whose memory a task uses
          copied    \* the tasks whose memory is being copied to them

vars == <<memory, owner, copied>>

None == [va \in {} |-> 0]
With(m, va, page) == [a \in DOMAIN m \cup {va} |-> IF a = va THEN page ELSE m[a]]
Program == [i \in Index |-> IF i < Size THEN Code ELSE 0]

Init == memory = [t \in Tasks |-> None] /\ owner = [t \in Tasks |-> t] /\ copied = {}

Load(t) ==
  /\ memory[t] = None /\ owner[t] = t
  /\ memory' = [memory EXCEPT ![t] = With(None, Bottom, Program)]
  /\ UNCHANGED <<owner, copied>>

Write(t) ==
  /\ t \notin copied
  /\ \E va \in DOMAIN memory[owner[t]] :
        memory' = [memory EXCEPT ![owner[t]][va] = [i \in Index |-> Written]]
  /\ UNCHANGED <<owner, copied>>

\* A page of zeros where a task had nothing.
Fault(t, va) ==
  /\ t \notin copied /\ va \notin DOMAIN memory[owner[t]]
  /\ memory' = [memory EXCEPT ![t] = With(@, va, [i \in Index |-> 0])]
  /\ UNCHANGED <<owner, copied>>

\* A new task is created, its memory is empty ...
Create(t, c) ==
  /\ memory[c] = None /\ owner[c] = c
  /\ owner' = [owner EXCEPT ![c] = t] /\ copied' = copied \cup {c}
  /\ UNCHANGED memory

\* ... and gets pages of the task that created it, each as it is when it is
\* copied (again, if a thread that was given the page lists it twice) ...
Copy(t, c, va) ==
  /\ c \in copied
  /\ memory' = [memory EXCEPT ![c] =
                 With(@, va, IF va \in DOMAIN memory[owner[t]] THEN memory[owner[t]][va]
                             ELSE [i \in Index |-> 0])]
  /\ UNCHANGED <<owner, copied>>

\* ... until it begins.
Begin(c) == c \in copied /\ copied' = copied \ {c} /\ UNCHANGED <<memory, owner>>

\* Tasks end: one, or a process with its threads.
End(s) ==
  /\ memory' = [t \in Tasks |-> IF t \in s THEN None ELSE memory[t]]
  /\ owner' = [t \in Tasks |-> IF t \in s THEN t ELSE owner[t]]
  /\ s \cap copied = {} /\ UNCHANGED copied

Next ==
  \/ \E t \in Tasks :
       \/ Load(t) \/ Write(t) \/ Begin(t)
       \/ \E c \in Tasks : Create(t, c) \/ \E va \in DOMAIN memory[t] : Copy(t, c, va)
  \/ \E t \in Tasks : \E va \in UNION {DOMAIN memory'[s] : s \in Tasks} : Fault(t, va)
  \/ \E t \in Tasks : End({t}) \/ End({s \in Tasks : owner[s] = t} \cup {t})
=============================================================================
