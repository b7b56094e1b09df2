------------------------------- MODULE FBuffer -------------------------------
(***************************************************************************)
(* basic/fbuffer.h (and fixed_buffer.h, the same class without the wrapped *)
(* reads): a linear buffer of N bytes that is appended to at tail_, read   *)
(* at head_ and compacted by shrink_to_fit.                                *)
(***************************************************************************)
EXTENDS Naturals, Sequences

CONSTANTS N, Buffers, MaxByte       \* bytes are 1 .. MaxByte

NAssumption == N \in Nat \ {0} /\ MaxByte \in Nat

Index == 0 .. N - 1
Junk == 0                           \* a byte nobody has written

VARIABLES
    data_, head_, tail_,
    unread,     \* what was appended and not skipped
    moved       \* did a shrink_to_fit find head_ past 0?

vars == <<data_, head_, tail_, unread, moved>>

Init ==
    /\ data_ = [b \in Buffers |-> [i \in Index |-> Junk]]
    /\ head_ = [b \in Buffers |-> 0] /\ tail_ = [b \in Buffers |-> 0]
    /\ unread = [b \in Buffers |-> <<>>] /\ moved = [b \in Buffers |-> FALSE]

length(b) == IF tail_[b] >= head_[b] THEN tail_[b] - head_[b]
                                     ELSE (N + 1) - head_[b] + tail_[b]
At(b, i) == data_[b][(head_[b] + i) % N]        \* operator[]
Contents(b) == [i \in 1 .. length(b) |-> At(b, i - 1)]

\* append: all the bytes or none.
AppendOver(b, s) ==
    /\ IF N - head_[b] < Len(s)
       THEN UNCHANGED <<data_, tail_, unread>>
       ELSE /\ data_' = [data_ EXCEPT ![b] = [i \in Index |->
                    IF i \in tail_[b] .. tail_[b] + Len(s) - 1 THEN s[i - tail_[b] + 1] ELSE @[i]]]
            /\ tail_' = [tail_ EXCEPT ![b] = @ + Len(s)]
            /\ unread' = [unread EXCEPT ![b] = @ \o s]
    /\ UNCHANGED <<head_, moved>>
append(b, s) ==
    /\ IF N - tail_[b] < Len(s)
       THEN UNCHANGED <<data_, tail_, unread>>
       ELSE /\ data_' = [data_ EXCEPT ![b] = [i \in Index |->
                    IF i \in tail_[b] .. tail_[b] + Len(s) - 1 THEN s[i - tail_[b] + 1] ELSE @[i]]]
            /\ tail_' = [tail_ EXCEPT ![b] = @ + Len(s)]
            /\ unread' = [unread EXCEPT ![b] = @ \o s]
    /\ UNCHANGED <<head_, moved>>

peak(b, off) ==
    /\ IF head_[b] + off > tail_[b]
       THEN UNCHANGED <<head_, unread>>
       ELSE /\ head_' = [head_ EXCEPT ![b] = @ + off]
            /\ unread' = [unread EXCEPT ![b] = SubSeq(@, off + 1, Len(@))]
    /\ UNCHANGED <<data_, tail_, moved>>

\* memmove from data(), which is the start of the array and not of the data.
shrink_to_fit(b) ==
    /\ tail_' = [tail_ EXCEPT ![b] = @ - head_[b]]
    /\ head_' = [head_ EXCEPT ![b] = 0]
    /\ moved' = [moved EXCEPT ![b] = @ \/ (head_[b] > 0 /\ length(b) > 0)]
    /\ UNCHANGED <<data_, unread>>

Copy(b, rhs) ==
    /\ b # rhs
    /\ data_' = [data_ EXCEPT ![b] = data_[rhs]]
    /\ head_' = [head_ EXCEPT ![b] = head_[rhs]]
    /\ tail_' = [tail_ EXCEPT ![b] = tail_[rhs]]
    /\ unread' = [unread EXCEPT ![b] = unread[rhs]]
    /\ moved' = [moved EXCEPT ![b] = moved[rhs]]

\* One append gives equal bytes, which tells it from its neighbours.
Next == \E b \in Buffers :
    \/ \E c \in 1 .. MaxByte, n \in 0 .. N + 1 : append(b, [i \in 1 .. n |-> c])
    \/ \E off \in 0 .. N + 1 : peak(b, off)
    \/ shrink_to_fit(b)
    \/ \E rhs \in Buffers : Copy(b, rhs)

Spec == Init /\ [][Next]_vars

\* Until data was compacted the buffer holds exactly what was appended and not
\* skipped, in order: the room is measured from tail_ (line 87), so nothing is
\* written past the array and operator[] never wraps into other data.
HoldsUnread == \A b \in Buffers : ~moved[b] =>
    tail_[b] <= N /\ Contents(b) = unread[b]
=============================================================================
