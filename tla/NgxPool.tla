------------------------------- MODULE NgxPool -------------------------------
(***************************************************************************)
(* core/ngx_pool.cpp: a list of blocks, each a bump allocator with a count *)
(* of the pieces handed out, and a list of large pieces with a malloc of   *)
(* their own.  A block gets its memory back only when its count is 0.      *)
(* Addresses are offsets from the start of a block; sizes keep their       *)
(* alignment.  The callers free what they were given, once.                *)
(***************************************************************************)
EXTENDS Integers, Sequences, FiniteSets

CONSTANTS
    HeadCap,    \* PAGE_SIZE less the headers of the pool and its first block
    Cap,        \* PAGE_SIZE less the header of a block
    Alignment,  \* NGX_ALIGNMENT
    FailLimit,  \* 4 in ngx_allocate_block
    Size,       \* the sizes that are asked for
    MaxBlock,   \* bound: number of blocks
    MaxPiece    \* bound: pieces handed out at one time

ASSUME CapAssumption ==
    /\ HeadCap \in Nat /\ Cap \in Nat /\ HeadCap <= Cap
    /\ Alignment \in Nat \ {0}
    /\ HeadCap % Alignment = 0 /\ Cap % Alignment = 0
ASSUME SizeAssumption == Size \subseteq Nat \ {0} /\ FailLimit \in Nat
ASSUME BoundAssumption == MaxBlock \in Nat \ {0} /\ MaxPiece \in Nat

VARIABLES
    blocks,     \* the list from pool->head: last (less start), ref, faild
    curr,       \* pool->curr, as an index of blocks
    large,      \* the sizes of the large pieces, from pool->large
    pieces      \* the small pieces the callers hold

vars == <<blocks, curr, large, pieces>>

CapOf(b) == IF b = 1 THEN HeadCap ELSE Cap
ngx_align(n) == ((n + Alignment - 1) \div Alignment) * Alignment

ngx_create_pool ==
    /\ blocks = <<[last |-> 0, ref |-> 0, faild |-> 0]>>
    /\ curr = 1
    /\ large = <<>>
    /\ pieces = {}

IsLarge(size) == size > Cap

\* Has block b room for size bytes?
Fits(b, size) == CapOf(b) - ngx_align(blocks[b].last) >= size

Room(size) == {b \in curr .. Len(blocks) : Fits(b, size)}

\* Mutant of PallocSmall: ref is not counted.
PallocNoRef(size) ==
    /\ ~IsLarge(size)
    /\ \E b \in Room(size) :
        /\ \A d \in Room(size) : b <= d
        /\ blocks' = [blocks EXCEPT ![b].last = ngx_align(@) + size]
        /\ pieces' = pieces \cup {[block |-> b, off |-> ngx_align(blocks[b].last), size |-> size]}
    /\ UNCHANGED <<curr, large>>

\* Mutant of PallocSmall: the search starts at head.
PallocFromHead(size) ==
    LET room == {b \in DOMAIN blocks : Fits(b, size)} IN
    /\ ~IsLarge(size)
    /\ \E b \in room :
        /\ \A d \in room : b <= d
        /\ blocks' = [blocks EXCEPT ![b].last = ngx_align(@) + size, ![b].ref = @ + 1]
        /\ pieces' = pieces \cup {[block |-> b, off |-> ngx_align(blocks[b].last), size |-> size]}
    /\ UNCHANGED <<curr, large>>

\* ngx_palloc from the first block, counted from curr, that has room.
PallocSmall(size) ==
    /\ ~IsLarge(size)
    /\ \E b \in Room(size) :
        /\ \A d \in Room(size) : b <= d
        /\ blocks' = [blocks EXCEPT ![b].last = ngx_align(@) + size, ![b].ref = @ + 1]
        /\ pieces' = pieces \cup {[block |-> b, off |-> ngx_align(blocks[b].last), size |-> size]}
    /\ UNCHANGED <<curr, large>>

\* The blocks ngx_allocate_block gives up on: their faild, read before it is
\* counted up, is above the limit.
GivenUp == {b \in curr .. Len(blocks) - 1 : blocks[b].faild > FailLimit}

\* Mutant of ngx_allocate_block: curr follows the last failure, found or not.
AllocateBlockSkips(size) ==
    /\ ~IsLarge(size)
    /\ Room(size) = {}
    /\ blocks' = Append(blocks, [last |-> size, ref |-> 1, faild |-> 0])
    /\ curr' = Len(blocks) + 2
    /\ pieces' = pieces \cup {[block |-> Len(blocks) + 1, off |-> 0, size |-> size]}
    /\ UNCHANGED large

\* No block has room: a new one goes to the end of the list, every block it
\* passes from curr on counts a failure, and curr moves behind the last one
\* that is given up.
ngx_allocate_block(size) ==
    LET n == Len(blocks) IN
    /\ ~IsLarge(size)
    /\ Room(size) = {}
    /\ blocks' = Append([b \in 1 .. n |->
                            IF b \in curr .. n - 1 THEN [blocks[b] EXCEPT !.faild = @ + 1] ELSE blocks[b]],
                        [last |-> size, ref |-> 1, faild |-> 0])
    /\ curr' = IF GivenUp = {} THEN curr ELSE 1 + CHOOSE b \in GivenUp : \A d \in GivenUp : d <= b
    /\ pieces' = pieces \cup {[block |-> n + 1, off |-> 0, size |-> size]}
    /\ UNCHANGED large

ngx_allocate_large(size) ==
    /\ IsLarge(size)
    /\ large' = Append(large, size)
    /\ UNCHANGED <<blocks, curr, pieces>>

\* Mutant of FreeSmall: a block starts over while pieces of it are held.
FreeSmallEarly(p) ==
    /\ blocks' = [blocks EXCEPT ![p.block].ref = @ - 1, ![p.block].last = p.off]
    /\ pieces' = pieces \ {p}
    /\ UNCHANGED <<curr, large>>

\* ngx_free of a piece of a block: the last one resets the block.
FreeSmall(p) ==
    /\ blocks' = [blocks EXCEPT ![p.block].ref = @ - 1,
                                ![p.block].last = IF blocks[p.block].ref = 1 THEN 0 ELSE @]
    /\ pieces' = pieces \ {p}
    /\ UNCHANGED <<curr, large>>

\* ngx_free of a large piece unlinks it.
FreeLarge(i) ==
    /\ large' = SubSeq(large, 1, i - 1) \o SubSeq(large, i + 1, Len(large))
    /\ UNCHANGED <<blocks, curr, pieces>>

Init == ngx_create_pool

ngx_palloc(size) ==
    /\ Cardinality(pieces) + Len(large) < MaxPiece
    /\ \/ PallocSmall(size)
       \/ Len(blocks) < MaxBlock /\ ngx_allocate_block(size)
       \/ ngx_allocate_large(size)

ngx_free ==
    \/ \E p \in pieces : FreeSmall(p)
    \/ \E i \in DOMAIN large : FreeLarge(i)

Next == (\E size \in Size : ngx_palloc(size)) \/ ngx_free

Spec == Init /\ [][Next]_vars
-----------------------------------------------------------------------------
TypeOK ==
    /\ blocks \in Seq([last : Nat, ref : Int, faild : Nat])
    /\ Len(blocks) <= MaxBlock
    /\ curr \in 1 .. Len(blocks)
    /\ large \in Seq(Size)
    /\ pieces \subseteq [block : 1 .. Len(blocks), off : Nat, size : Size]

\* Two pieces that callers hold never share a byte, and none reaches past the
\* end of its block or over the part the block can still hand out.
PiecesDisjoint ==
    \A p \in pieces :
        /\ p.off % Alignment = 0
        /\ p.off + p.size <= blocks[p.block].last
        /\ blocks[p.block].last <= CapOf(p.block)
        /\ \A r \in pieces \ {p} :
            p.block = r.block => p.off + p.size <= r.off \/ r.off + r.size <= p.off

\* The pieces of P that lie in block b.
PiecesOf(P, b) == {p \in P : p.block = b}

\* The count of a block is the number of its pieces that are held, so that
\* the block is reset exactly when the last of them is freed.
RefCountsPieces ==
    \A b \in DOMAIN blocks :
        /\ blocks[b].ref = Cardinality(PiecesOf(pieces, b))
        /\ blocks[b].ref = 0 => blocks[b].last = 0

\* Together: what ngx_palloc hands out is the caller's alone, and a block starts
\* over only when nobody holds a piece of it.
PoolSafe == TypeOK /\ PiecesDisjoint /\ RefCountsPieces

\* A block that curr has passed is not allocated from again, even when all of
\* it has been given back: until the pool is destroyed that memory is idle.
PassedBlocksIdle ==
    [][\A b \in 1 .. curr - 1 : blocks'[b].last <= blocks[b].last /\ curr' >= curr]_vars
=============================================================================
