---------------------------- MODULE DynamicBuffer ----------------------------
(***************************************************************************)
(* basic/dynamic_buffer.h: buffers on the heap that grow by expand_size_.  *)
(* A block stands for one new char[]; its bytes are left out, its size is  *)
(* kept beside capacity_, which is what the object believes.               *)
(***************************************************************************)
EXTENDS Naturals, Functions

CONSTANTS
    Objects,
    Blocks,         \* what the heap can hand out; a deleted one comes again
    MaxSize,        \* bound: the size asked for
    Expand,         \* the values given to set_expand_size
    NULL

BlocksAssumption == NULL \notin Blocks /\ MaxSize \in Nat /\ Expand \subseteq Nat

VARIABLES
    capacity_, size_, head_, data_, expand_size_,
    heap,           \* the blocks that are allocated, with their sizes
    assigned,       \* has an assignment overwritten a pointer?
    spins           \* the objects whose reserve never ends

sizes == <<capacity_, size_, head_, data_>>
vars == <<sizes, expand_size_, heap, assigned, spins>>

None == [b \in {} |-> 0]

Init ==
    /\ capacity_ = [x \in Objects |-> 0] /\ size_ = [x \in Objects |-> 0]
    /\ head_ = [x \in Objects |-> 0] /\ data_ = [x \in Objects |-> NULL]
    /\ expand_size_ \in [Objects -> Expand \ {0}]       \* 256 in the code
    /\ heap = None /\ assigned = FALSE /\ spins = {}

With(h, b, cap) == [c \in DOMAIN h \cup {b} |-> IF c = b THEN cap ELSE h[c]]
Without(h, b) == Restrict(h, DOMAIN h \ {b})
Fresh == Blocks \ DOMAIN heap

\* reserve: the first capacity_ + k * expand_size_ that is large enough.
Grown(x, n) == CHOOSE c \in n .. n + expand_size_[x] - 1 :
    (c - capacity_[x]) % expand_size_[x] = 0

reserve(x, n) ==
    IF n <= capacity_[x]
    THEN UNCHANGED <<capacity_, data_, heap, spins>>
    ELSE IF expand_size_[x] = 0
    THEN spins' = spins \cup {x} /\ UNCHANGED <<capacity_, data_, heap>>
    ELSE \E b \in Fresh :
         /\ heap' = Without(With(heap, b, Grown(x, n)), data_[x])
         /\ data_' = [data_ EXCEPT ![x] = b]
         /\ capacity_' = [capacity_ EXCEPT ![x] = Grown(x, n)]
         /\ UNCHANGED spins

\* append of n bytes, and resize to n: both reserve and then set size_.
AppendReservesLen(x, n) ==
    /\ size_[x] + n <= MaxSize
    /\ reserve(x, n)
    /\ size_' = IF x \in spins' THEN size_ ELSE [size_ EXCEPT ![x] = @ + n]
    /\ UNCHANGED <<head_, expand_size_, assigned>>
append(x, n) ==
    /\ size_[x] + n <= MaxSize
    /\ reserve(x, size_[x] + n)
    /\ size_' = IF x \in spins' THEN size_ ELSE [size_ EXCEPT ![x] = @ + n]
    /\ UNCHANGED <<head_, expand_size_, assigned>>

resize(x, n) ==
    /\ reserve(x, n)
    /\ size_' = IF x \in spins' THEN size_ ELSE [size_ EXCEPT ![x] = n]
    /\ UNCHANGED <<head_, expand_size_, assigned>>

\* clear, and the destructor, after which the object is made anew.
ClearNoDelete(x, reset_capacity) ==
    /\ size_' = [size_ EXCEPT ![x] = 0] /\ head_' = [head_ EXCEPT ![x] = 0]
    /\ IF reset_capacity /\ data_[x] # NULL
       THEN /\ capacity_' = [capacity_ EXCEPT ![x] = 0]
            /\ data_' = [data_ EXCEPT ![x] = NULL]
       ELSE UNCHANGED <<capacity_, data_>>
    /\ UNCHANGED <<heap, expand_size_, assigned, spins>>
clear(x, reset_capacity) ==
    /\ size_' = [size_ EXCEPT ![x] = 0] /\ head_' = [head_ EXCEPT ![x] = 0]
    /\ IF reset_capacity /\ data_[x] # NULL
       THEN /\ capacity_' = [capacity_ EXCEPT ![x] = 0]
            /\ data_' = [data_ EXCEPT ![x] = NULL]
            /\ heap' = Without(heap, data_[x])
       ELSE UNCHANGED <<capacity_, data_, heap>>
    /\ UNCHANGED <<expand_size_, assigned, spins>>

\* x takes over the members of rhs, with b as its block.
Take(x, rhs, b) ==
    /\ capacity_' = [capacity_ EXCEPT ![x] = capacity_[rhs]]
    /\ size_' = [size_ EXCEPT ![x] = size_[rhs]]
    /\ head_' = [head_ EXCEPT ![x] = head_[rhs]]
    /\ data_' = [data_ EXCEPT ![x] = b]
    /\ heap' = With(heap, b, capacity_[rhs])

\* The copy constructor, into an object that owns nothing; new char[0] is a
\* block too.
Copy(x, rhs) ==
    /\ x # rhs /\ data_[x] = NULL
    /\ \E b \in Fresh : Take(x, rhs, b)
    /\ UNCHANGED <<expand_size_, assigned, spins>>

\* operator=, which forgets the block it had.
Assign(x, rhs) ==
    /\ \E b \in Fresh : Take(x, rhs, b)
    /\ assigned' = (assigned \/ data_[x] # NULL)
    /\ UNCHANGED <<expand_size_, spins>>

\* The move constructor; head_ and expand_size_ of the source stay.
MoveKeeps(x, rhs) ==
    /\ x # rhs /\ data_[x] = NULL
    /\ capacity_' = [capacity_ EXCEPT ![x] = capacity_[rhs], ![rhs] = 0]
    /\ size_' = [size_ EXCEPT ![x] = size_[rhs], ![rhs] = 0]
    /\ head_' = [head_ EXCEPT ![x] = head_[rhs]]
    /\ data_' = [data_ EXCEPT ![x] = data_[rhs]]
    /\ UNCHANGED <<expand_size_, heap, assigned, spins>>
Move(x, rhs) ==
    /\ x # rhs /\ data_[x] = NULL
    /\ capacity_' = [capacity_ EXCEPT ![x] = capacity_[rhs], ![rhs] = 0]
    /\ size_' = [size_ EXCEPT ![x] = size_[rhs], ![rhs] = 0]
    /\ head_' = [head_ EXCEPT ![x] = head_[rhs]]
    /\ data_' = [data_ EXCEPT ![x] = data_[rhs], ![rhs] = NULL]
    /\ UNCHANGED <<expand_size_, heap, assigned, spins>>

set_expand_size(x, n) ==
    /\ expand_size_' = [expand_size_ EXCEPT ![x] = n]
    /\ UNCHANGED <<sizes, heap, assigned, spins>>

set_head_size(x, n) ==
    /\ head_' = [head_ EXCEPT ![x] = n]
    /\ UNCHANGED <<capacity_, size_, data_, expand_size_, heap, assigned, spins>>

Next == \E x \in Objects :
    /\ spins = {}
    /\ \/ \E n \in 0 .. MaxSize : append(x, n) \/ resize(x, n)
       \/ \E r \in BOOLEAN : clear(x, r)
       \/ \E rhs \in Objects : Copy(x, rhs) \/ Assign(x, rhs) \/ Move(x, rhs)
       \/ \E n \in Expand : set_expand_size(x, n)
       \/ \E n \in 0 .. 1 : set_head_size(x, n)

Spec == Init /\ [][Next]_vars

\* No two objects own the same block and none owns one that was deleted, or
\* the destructors delete it twice (lines 26 to 38 and 113 to 121).
OwnedOnce == \A x, y \in Objects : data_[x] # NULL =>
    /\ data_[x] \in DOMAIN heap
    /\ x # y => data_[x] # data_[y]

\* What an object stores fits its block, which has the capacity_ it believes
\* in, also after it took over another one's members (lines 23 to 37).
FitsBlock == \A x \in Objects :
    /\ size_[x] <= capacity_[x]
    /\ IF data_[x] = NULL THEN capacity_[x] = 0 ELSE heap[data_[x]] = capacity_[x]

\* A block that nobody owns was lost by an assignment (line 35), nothing else.
LeakOnlyByAssign == ~assigned => DOMAIN heap \subseteq {data_[x] : x \in Objects}
=============================================================================
