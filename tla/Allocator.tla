------------------------------ MODULE Allocator ------------------------------
(***************************************************************************)
(* The buffer allocator of packets (src/src/common/allocator.rs): tasks    *)
(* cut pieces off a shared buffer, by compare-and-exchange on its start    *)
(* while they share a read lock, and under the write lock when the rest is *)
(* too short, where the buffer may be replaced.  A piece is written        *)
(* through get_mut_unchecked, so nothing but disjointness protects it.     *)
(*                                                                         *)
(* AllocInit, AllocNext, ... are not just Init and Next so that a module   *)
(* can extend this one and FlowControl.                                    *)
(***************************************************************************)
EXTENDS Integers, FiniteSets

CONSTANTS
    Task,
    Sizes,          \* the sizes asked for
    BUFFER_SIZE

ASSUME AllocatorAssumption ==
    /\ BUFFER_SIZE \in Nat
    /\ Sizes \subseteq 1 .. BUFFER_SIZE

VARIABLES
    buffer,     \* the buffer in BUFFER: 0 while it is None, then 1, 2, 1, ...
    start,      \* Bytes.start of that buffer
    pc,         \* task -> where it is in alloc
    size,       \* task -> the size it asks for
    seen,       \* task -> the start it has loaded in split
    handed,     \* history: the bytes of this buffer that are in some piece
    twice       \* history: the bytes that were in two pieces of a buffer

allocVars == <<buffer, start, pc, size, seen, handed, twice>>

AllocTypeOK ==
    /\ buffer \in {0, 1, 2}
    /\ start \in 0 .. BUFFER_SIZE
    /\ pc \in [Task -> {"idle", "read", "cas", "write"}]
    /\ size \in [Task -> 0 .. BUFFER_SIZE]
    /\ seen \in [Task -> 0 .. BUFFER_SIZE]
    /\ handed \subseteq 0 .. BUFFER_SIZE - 1
    /\ twice \subseteq 0 .. BUFFER_SIZE - 1

AllocInit ==
    /\ buffer = 0
    /\ start = 0
    /\ pc = [t \in Task |-> "idle"]
    /\ size = [t \in Task |-> 0]
    /\ seen = [t \in Task |-> 0]
    /\ handed = {}
    /\ twice = {}

Goto(t, l) == pc' = [pc EXCEPT ![t] = l]

(* The task gets the bytes lo .. hi - 1; taken are those in a piece so far. *)
HandOut(t, lo, hi, taken) ==
    /\ handed' = taken \cup (lo .. hi - 1)
    /\ twice' = twice \cup (taken \cap (lo .. hi - 1))
    /\ size' = [size EXCEPT ![t] = 0]
    /\ seen' = [seen EXCEPT ![t] = 0]
    /\ Goto(t, "idle")

Fits(from, n) == from + n <= BUFFER_SIZE

(* alloc(n): the assertion holds for every n of Sizes. *)
Alloc(t, n) ==
    /\ pc[t] = "idle"
    /\ size' = [size EXCEPT ![t] = n]
    /\ Goto(t, "read")
    /\ UNCHANGED <<buffer, start, seen, handed, twice>>

(* Mutant: the length of the rest is not looked at. *)
LoadUnchecked(t) ==
    /\ pc[t] = "read"
    /\ seen' = [seen EXCEPT ![t] = start]
    /\ Goto(t, IF buffer # 0 THEN "cas" ELSE "write")
    /\ UNCHANGED <<buffer, start, size, handed, twice>>

(* The read lock is taken and split loads the start.  The lock is kept     *)
(* unless there is no buffer or the rest is too short.                     *)
Load(t) ==
    /\ pc[t] = "read"
    /\ seen' = [seen EXCEPT ![t] = start]
    /\ Goto(t, IF buffer # 0 /\ Fits(start, size[t]) THEN "cas" ELSE "write")
    /\ UNCHANGED <<buffer, start, size, handed, twice>>

(* Mutant: the start is stored without comparing. *)
ExchangeBlindly(t) ==
    /\ pc[t] = "cas"
    /\ start' = seen[t] + size[t]
    /\ HandOut(t, seen[t], start', handed)
    /\ UNCHANGED buffer

(* compare_exchange_weak succeeds only if the start is the loaded one. *)
Exchange(t) ==
    /\ pc[t] = "cas"
    /\ start = seen[t]
    /\ start' = seen[t] + size[t]
    /\ HandOut(t, seen[t], start', handed)
    /\ UNCHANGED buffer

(* Mutant: the start is not loaded again after a failure. *)
ExchangeFailsStale(t) ==
    /\ pc[t] = "cas"
    /\ UNCHANGED allocVars

(* It fails if the start has moved, and may fail if it has not; the start  *)
(* it has found is tried next, if enough is left.                          *)
ExchangeFails(t) ==
    /\ pc[t] = "cas"
    /\ seen' = [seen EXCEPT ![t] = start]
    /\ Goto(t, IF Fits(start, size[t]) THEN "cas" ELSE "write")
    /\ UNCHANGED <<buffer, start, size, handed, twice>>

(* Under the write lock no task is inside the read lock.  Another task may *)
(* have put a new buffer there in the meantime: split_mut tries it first.  *)
Write(t) ==
    /\ pc[t] = "write"
    /\ \A u \in Task : pc[u] # "cas"
    /\ \/ /\ buffer # 0 /\ Fits(start, size[t])
          /\ start' = start + size[t]
          /\ HandOut(t, start, start', handed)
          /\ UNCHANGED buffer
       \/ /\ ~(buffer # 0 /\ Fits(start, size[t]))
          /\ buffer' = IF buffer = 1 THEN 2 ELSE 1
          /\ start' = size[t]
          /\ HandOut(t, 0, start', {})

Step(t) == Load(t) \/ Exchange(t) \/ ExchangeFails(t) \/ Write(t)

AllocNext == \E t \in Task : Step(t) \/ \E n \in Sizes : Alloc(t, n)

AllocSpec == AllocInit /\ [][AllocNext]_allocVars

(* A thread inside alloc runs on; a weak exchange that is tried again and  *)
(* again on an unmoved start succeeds; the write lock is granted in the    *)
(* end.                                                                    *)
AllocFairness ==
    \A t \in Task :
        /\ WF_allocVars(Load(t)) /\ SF_allocVars(Exchange(t)) /\ WF_allocVars(ExchangeFails(t))
        /\ SF_allocVars(Write(t))

AllocFairSpec == AllocSpec /\ AllocFairness

----------------------------------------------------------------------------
(* No byte is ever part of two pieces, whatever exchanges overlap.         *)
NoOverlap == twice = {}

(* The start of the present buffer separates what has been handed out from *)
(* what is free: nothing beyond it is used, and nothing before is wasted.  *)
StartIsFrontier == handed = 0 .. start - 1

(* Every call returns: a task can be overtaken only as often as the buffer *)
(* it looks at has bytes left, because its read lock keeps the buffer.     *)
AllocReturns == \A t \in Task : pc[t] # "idle" ~> pc[t] = "idle"
=============================================================================
