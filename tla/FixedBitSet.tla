----------------------------- MODULE FixedBitSet -----------------------------
(***************************************************************************)
(* basic/fixed_bit_set.h: N bits in bytes of ByteBits bits (8 in the       *)
(* code), and the two searches, which walk first inside one byte and then  *)
(* over whole bytes.  A state is a bit set reached by set and clear; the   *)
(* searches are operators on it, checked for every offset.                 *)
(***************************************************************************)
EXTENDS Integers, FiniteSetsExt

CONSTANTS
    Ns,         \* the sizes the template is instantiated with
    ByteBits

SizeAssumption == Ns \subseteq Nat \ {0} /\ ByteBits \in Nat \ {0}

VARIABLES
    N,          \* the size of this instance, never changed
    bits_       \* the positions that are 1

npos == -1
Byte(b) == b * ByteBits..(b + 1) * ByteBits - 1
cap_ == (N + ByteBits - 1) \div ByteBits
FirstOf(S) == IF S = {} THEN npos ELSE Min(S)
LastOf(S) == IF S = {} THEN npos ELSE Max(S)

Init == N \in Ns /\ bits_ = {}

test(index) == index < N /\ index \in bits_

set ==
    /\ \E index \in 0..N : bits_' = IF index < N THEN bits_ \cup {index} ELSE bits_
    /\ UNCHANGED N

clear ==
    /\ \E index \in 0..N : bits_' = IF index < N THEN bits_ \ {index} ELSE bits_
    /\ UNCHANGED N

Next == set \/ clear
Spec == Init /\ [][Next]_<<N, bits_>>

\* The rest of the byte of offset; if the set ends there, the answer is npos.
\* Otherwise all bytes from the byte of offset on, each from its first bit.
FindFirstNextByte(offset) ==
    LET rest == {p \in Byte(offset \div ByteBits) : p >= offset} IN
    IF \E p \in rest : test(p) THEN FirstOf(rest \cap bits_)
    ELSE FirstOf({p \in bits_ : p > (offset \div ByteBits + 1) * ByteBits})
find_first_set(offset) ==
    LET rest == {p \in Byte(offset \div ByteBits) : p >= offset} IN
    IF offset >= N THEN npos
    ELSE IF \E p \in rest : test(p) THEN FirstOf(rest \cap bits_)
    ELSE IF \E p \in rest : p >= N THEN npos
    ELSE FirstOf({p \in bits_ : p >= offset - (offset % ByteBits)})

\* Searches down from N - offset.  If the byte there is not 0, the counter of
\* line 88 runs down over all lower bits and, being unsigned, starts again
\* from the top of its range.  If it is 0, the bytes below are searched.  The
\* byte at cap_ lies outside the array: whether it is 0 is not determined.
FindLastByteOnly(offset) ==
    LET limit == N - offset IN
    {LastOf({p \in bits_ \cap Byte(limit \div ByteBits) : p < limit})}
find_last_set(offset) ==
    LET limit == N - offset
        byte  == limit \div ByteBits
        below == {p \in bits_ : p < limit}
        seen  == IF byte >= cap_ THEN BOOLEAN ELSE {bits_ \cap Byte(byte) # {}}
    IN  IF offset >= N THEN {npos}
        ELSE {IF nonzero THEN IF below # {} THEN Max(below) ELSE LastOf(bits_)
              ELSE LastOf({p \in bits_ : p < byte * ByteBits}) : nonzero \in seen}

-----------------------------------------------------------------------------
(* Properties. *)

From(offset) == {p \in bits_ : p >= offset}

\* find_first_set is right wherever the byte of the offset has no bit set
\* before the offset: for an aligned offset in particular.
FirstSetFound ==
    \A offset \in 0..N :
        {p \in bits_ : p >= offset - (offset % ByteBits)} = From(offset)
            => find_first_set(offset) = FirstOf(From(offset))

\* find_last_set returns the last bit below N - offset whenever there is one,
\* on whichever of its two paths, also when it looks at the byte past the end.
LastSetFound ==
    \A offset \in 0..N - 1 :
        LET below == {p \in bits_ : p < N - offset} IN
        below # {} => find_last_set(offset) = {Max(below)}
=============================================================================
