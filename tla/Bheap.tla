-------------------------------- MODULE Bheap --------------------------------
(***************************************************************************)
(* basic/bheap.h: a binary heap of contexts.  insert hands the context out *)
(* and the caller erases through context->idx, so every swap also swaps    *)
(* the idx fields.  The vector is a sequence; idx counts from 0.           *)
(*                                                                         *)
(* A turn of a sifting loop is a step.  The heap has one caller, so no     *)
(* call starts before the sifting of the last one is over.                 *)
(***************************************************************************)
EXTENDS Integers, Sequences, FiniteSets

CONSTANTS
    Vals,       \* the elements, numbers
    MaxSize,    \* bound: contexts in the heap
    MaxContexts \* bound: contexts ever made

ValsAssumption == Vals \subseteq Int

VARIABLES
    heap_,      \* sequence of [id, val, idx]
    made,       \* how many contexts were made; their ids are 1..made
    live,       \* ids inserted and not erased, as their callers see it
    erased,     \* whether erase or pop ever ran
    up,         \* whether sift_up or sift_down was called last
    frames      \* idx of each sifting loop under way, the innermost call first

vars == <<heap_, made, live, erased, up, frames>>

Init ==
    /\ heap_ = <<>> /\ made = 0 /\ live = {} /\ erased = FALSE
    /\ up = TRUE /\ frames = <<>>

comp_(a, b) == a.val < b.val

SwapPointersOnly(h, i, j) == [h EXCEPT ![i] = h[j], ![j] = h[i]]
\* std::swap of two pointers and of their idx fields; i and j count from 1.
Swap(h, i, j) ==
    [h EXCEPT ![i] = [h[j] EXCEPT !.idx = h[i].idx],
              ![j] = [h[i] EXCEPT !.idx = h[j].idx]]

\* The place of the larger of two elements, the second of which may be missing.
LargerOf(h, i, k) == IF k <= Len(h) /\ comp_(h[i], h[k]) THEN k ELSE i
LargestOf(h, i) == LargerOf(h, LargerOf(h, i, 2 * i), 2 * i + 1)

\* A turn of the loop of sift_up.
sift_up ==
    LET i == Head(frames)
        parent == i \div 2
    IN
    /\ frames # <<>> /\ up
    /\ IF i > 1 /\ comp_(heap_[parent], heap_[i])
       THEN heap_' = Swap(heap_, parent, i) /\ frames' = <<parent>>
       ELSE frames' = <<>> /\ UNCHANGED heap_
    /\ UNCHANGED <<made, live, erased, up>>

\* A turn of the loop of sift_down, which after a swap calls sift_down for the
\* child and then goes on with the child itself.
sift_down ==
    LET i == Head(frames)
        largest == LargestOf(heap_, i)
    IN
    /\ frames # <<>> /\ ~up
    /\ IF largest = i
       THEN frames' = Tail(frames) /\ UNCHANGED heap_
       ELSE heap_' = Swap(heap_, largest, i) /\ frames' = <<largest, largest>> \o Tail(frames)
    /\ UNCHANGED <<made, live, erased, up>>

Context(v) == [id |-> made + 1, val |-> v, idx |-> Len(heap_)]
InsertNoSift ==
    /\ frames = <<>> /\ Len(heap_) < MaxSize /\ made < MaxContexts
    /\ \E v \in Vals : heap_' = Append(heap_, Context(v))
    /\ made' = made + 1 /\ live' = live \cup {made + 1}
    /\ UNCHANGED <<erased, up, frames>>
insert ==
    /\ frames = <<>> /\ Len(heap_) < MaxSize /\ made < MaxContexts
    /\ \E v \in Vals : heap_' = Append(heap_, Context(v))
    /\ made' = made + 1 /\ live' = live \cup {made + 1}
    /\ up' = TRUE /\ frames' = <<Len(heap_) + 1>> /\ UNCHANGED erased

EraseLast(i) ==
    /\ heap_' = SubSeq(heap_, 1, Len(heap_) - 1)
    /\ up' = TRUE /\ frames' = <<>> /\ erased' = TRUE /\ UNCHANGED made
\* The last context takes the place of the erased one and is sifted towards
\* the side the comparison with the new last context says (lines 54-60).
EraseAt(i) ==
    LET rest == SubSeq(Swap(heap_, i, Len(heap_)), 1, Len(heap_) - 1)
        inside == i <= Len(rest)
    IN
    /\ heap_' = rest
    /\ up' = (inside /\ comp_(rest[i], rest[Len(rest)]))
    /\ frames' = IF inside THEN <<i>> ELSE <<>>
    /\ erased' = TRUE /\ UNCHANGED made

\* The caller erases a context it inserted, through the idx of the context; an
\* idx outside the heap throws.
erase ==
    /\ frames = <<>>
    /\ \E c \in 1..Len(heap_) :
        /\ heap_[c].idx < Len(heap_)
        /\ EraseAt(heap_[c].idx + 1)
        /\ live' = live \ {heap_[c].id}

\* Also what the destructor does until the heap is empty.
pop ==
    /\ frames = <<>> /\ heap_ # <<>>
    /\ EraseAt(1)
    /\ live' = live \ {heap_[1].id}

Next == insert \/ erase \/ pop \/ sift_up \/ sift_down

Spec == Init /\ [][Next]_vars

-----------------------------------------------------------------------------
(* Properties. *)

\* context->idx is where the context is, after any number of swaps of sifting
\* and erasing: an erase through it (test_bheap.cpp:35) meets its own context.
IdxTracksPosition == \A i \in 1..Len(heap_) : heap_[i].idx = i - 1

\* Sifting loses and duplicates nothing: the contexts in the vector are those
\* the callers inserted and did not erase.
ContextsKept ==
    /\ {heap_[i].id : i \in 1..Len(heap_)} = live
    /\ Len(heap_) = Cardinality(live)

TopIsLargest == \A i \in 1..Len(heap_) : ~comp_(heap_[1], heap_[i])

\* As long as nothing was erased, sift_up leaves the largest element on top.
TopUntilErase == erased \/ frames # <<>> \/ TopIsLargest
=============================================================================
