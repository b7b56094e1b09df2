---------------------------- MODULE LockFreeArray ----------------------------
(***************************************************************************)
(* basic/lock_free_array.h: producers claim an index with a CAS on         *)
(* write_index, store their element and then publish in claiming order     *)
(* through max_num_read_index, which no consumer looks at: one that finds  *)
(* write_index ahead of read_index reads the slot, stored or not, and      *)
(* claims it with a CAS on read_index.  One step per shared access.        *)
(* index() masks with N - 1, and the static_assert of the class admits     *)
(* only an N that is NOT a power of two, so that indices less than N apart *)
(* share slots.                                                            *)
(***************************************************************************)
EXTENDS Integers

CONSTANTS
    N,              \* slots
    Producers, Consumers,
    MaxIndex        \* bound: how far write_index and read_index go

\* x & y: the number that has the bits of both.
Bit(x, b) == (x \div 2^b) % 2
And(x, y) == CHOOSE m \in 0..y : \A b \in 0..y : Bit(m, b) = Bit(x, b) * Bit(y, b)

index(count) == And(count, N - 1)

\* The static_assert; and a mask of N - 1 leaves no more than N - 1.
NAssumption ==
    /\ N \in Nat \ {0} /\ And(N, N - 1) # 0 /\ MaxIndex \in Nat
    /\ \A i \in 0..MaxIndex : index(i) \in 0..N - 1

VARIABLES
    write_index, read_index, max_num_read_index, queue_,
    push,       \* producer -> [pc, w]: its step, its current_write_index
    pop,        \* consumer -> [pc, r, data, early]: its step, its current_read_index,
                \* what it read, and whether it read before the store
    clobbered,  \* history: a store has hit an element that nobody had popped
    overlap     \* history: a consumer has entered try_pop with another inside

vars == <<write_index, read_index, max_num_read_index, queue_, push, pop, clobbered, overlap>>

None == 0 - 1           \* what an unwritten slot holds; element i is index i
empty == read_index = write_index

PushIdle == [pc |-> "idle", w |-> 0]
PopIdle == [pc |-> "idle", r |-> 0, data |-> None, early |-> FALSE]
Inside(c) == pop[c].pc \in {"read", "claim"}

Init ==
    /\ write_index = 0 /\ read_index = 0 /\ max_num_read_index = 0
    /\ queue_ = [s \in 0..N - 1 |-> None]
    /\ push = [p \in Producers |-> PushIdle]
    /\ pop = [c \in Consumers |-> PopIdle]
    /\ clobbered = FALSE /\ overlap = FALSE

\* write_index, then read_index, are read; a full array is refused.  Both
\* reads are one step: a write_index that moves in between fails the CAS.
PushLoad(p) ==
    /\ push[p].pc = "idle" /\ write_index < MaxIndex
    /\ index(write_index + 1) # index(read_index)
    /\ push' = [push EXCEPT ![p] = [pc |-> "claim", w |-> write_index]]
    /\ UNCHANGED <<write_index, read_index, max_num_read_index, queue_, pop, clobbered, overlap>>

PushClaim(p) ==
    /\ push[p].pc = "claim"
    /\ IF write_index = push[p].w
       THEN /\ write_index' = write_index + 1
            /\ push' = [push EXCEPT ![p].pc = "store"]
       ELSE /\ push' = [push EXCEPT ![p] = PushIdle]
            /\ UNCHANGED write_index
    /\ UNCHANGED <<read_index, max_num_read_index, queue_, pop, clobbered, overlap>>

PushStore(p) ==
    LET w == push[p].w IN
    /\ push[p].pc = "store"
    /\ queue_' = [queue_ EXCEPT ![index(w)] = w]
    /\ clobbered' = (clobbered \/ queue_[index(w)] \in read_index..write_index - 1)
    /\ push' = [push EXCEPT ![p].pc = "publish"]
    /\ UNCHANGED <<write_index, read_index, max_num_read_index, pop, overlap>>

\* The loop of lines 65-68 spins until every earlier index is published.
PushPublishNext(p) ==
    /\ push[p].pc = "publish" /\ max_num_read_index = push[p].w + 1
    /\ max_num_read_index' = push[p].w + 1
    /\ push' = [push EXCEPT ![p] = PushIdle]
    /\ UNCHANGED <<write_index, read_index, queue_, pop, clobbered, overlap>>
PushPublish(p) ==
    /\ push[p].pc = "publish" /\ max_num_read_index = push[p].w
    /\ max_num_read_index' = push[p].w + 1
    /\ push' = [push EXCEPT ![p] = PushIdle]
    /\ UNCHANGED <<write_index, read_index, queue_, pop, clobbered, overlap>>

\* empty() of try_pop; pop() calls try_pop again until it succeeds.
PopTestNothing(c) ==
    /\ pop[c].pc = "idle" /\ read_index < MaxIndex
    /\ pop' = [pop EXCEPT ![c].pc = "read"]
    /\ overlap' = (overlap \/ \E d \in Consumers : Inside(d))
    /\ UNCHANGED <<write_index, read_index, max_num_read_index, queue_, push, clobbered>>
PopTest(c) ==
    /\ pop[c].pc = "idle" /\ ~empty /\ read_index < MaxIndex
    /\ pop' = [pop EXCEPT ![c].pc = "read"]
    /\ overlap' = (overlap \/ \E d \in Consumers : Inside(d))
    /\ UNCHANGED <<write_index, read_index, max_num_read_index, queue_, push, clobbered>>

\* read_index and then the slot are read, in one step: a read_index that
\* moves in between fails the CAS.  The slot may belong to a producer that has
\* claimed it and not stored yet, or to none (another consumer has taken the
\* last index).
PopRead(c) ==
    LET r == read_index IN
    /\ pop[c].pc = "read"
    /\ pop' = [pop EXCEPT ![c] =
          [pc |-> "claim", r |-> r, data |-> queue_[index(r)],
           early |-> r >= write_index \/ \E p \in Producers : push[p].pc = "store" /\ push[p].w = r]]
    /\ UNCHANGED <<write_index, read_index, max_num_read_index, queue_, push, clobbered, overlap>>

\* Mutant of PopClaim: read_index is advanced without the comparison.
PopClaimAny(c) ==
    /\ pop[c].pc = "claim"
    /\ read_index' = read_index + 1
    /\ pop' = [pop EXCEPT ![c].pc = "got"]
    /\ UNCHANGED <<write_index, max_num_read_index, queue_, push, clobbered, overlap>>
PopClaim(c) ==
    /\ pop[c].pc = "claim"
    /\ IF read_index = pop[c].r
       THEN read_index' = read_index + 1 /\ pop' = [pop EXCEPT ![c].pc = "got"]
       ELSE UNCHANGED read_index /\ pop' = [pop EXCEPT ![c] = PopIdle]
    /\ UNCHANGED <<write_index, max_num_read_index, queue_, push, clobbered, overlap>>

\* The caller has taken what try_pop returned true for.
PopReturn(c) ==
    /\ pop[c].pc = "got"
    /\ pop' = [pop EXCEPT ![c] = PopIdle]
    /\ UNCHANGED <<write_index, read_index, max_num_read_index, queue_, push, clobbered, overlap>>

PushStep(p) == PushLoad(p) \/ PushClaim(p) \/ PushStore(p) \/ PushPublish(p)
PopStep(c) == PopTest(c) \/ PopRead(c) \/ PopClaim(c) \/ PopReturn(c)

Next == (\E p \in Producers : PushStep(p)) \/ (\E c \in Consumers : PopStep(c))

\* A thread inside push goes on running.
Fairness ==
    \A p \in Producers : WF_vars(PushClaim(p) \/ PushStore(p) \/ PushPublish(p))

Spec == Init /\ [][Next]_vars /\ Fairness

-----------------------------------------------------------------------------
(* Properties. *)

\* What try_pop returns for an index is the element that was pushed there,
\* but in two cases: the consumer read the slot before the producer that had
\* claimed it stored (empty looks at write_index, line 122, and nobody at
\* max_num_read_index), or a push has overwritten an element that nobody had
\* popped (the mask of index() makes different indices share a slot).
TakenStored ==
    \A c \in Consumers :
        pop[c].pc = "got" => pop[c].data = pop[c].r \/ pop[c].early \/ clobbered

\* No two consumers take the same index.
TakenOnce ==
    \A c, d \in Consumers :
        pop[c].pc = "got" /\ pop[d].pc = "got" /\ pop[c].r = pop[d].r => c = d

\* read_index never passes write_index (empty is an equality, line 122: past
\* it the array would not be empty again) unless consumers have overlapped.
ReadNotPastWrite == read_index <= write_index \/ overlap

\* A producer that has claimed an index returns from push, whatever the other
\* producers do: nobody waits for ever in the loop of line 65.
PushReturns ==
    \A p \in Producers : push[p].pc = "store" ~> push[p].pc = "idle"
=============================================================================
