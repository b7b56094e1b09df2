---------------------------- MODULE NgxPoolProofs ----------------------------
(***************************************************************************)
(* For every page size, alignment, set of sizes and limit of failures:     *)
(* what ngx_palloc hands out is the caller's alone, the count of a block   *)
(* is the number of its pieces that are held, and a block that curr passed *)
(* is not allocated from again.                                            *)
(***************************************************************************)
EXTENDS NgxPool, FiniteSetTheorems, SequenceTheorems, WellFoundedInduction, TLAPS

USE CapAssumption, SizeAssumption, BoundAssumption

\* What a block keeps.
Block == [last : Nat, ref : Int, faild : Nat]

\* The inductive invariant: only finitely many pieces are held.
PoolInv == PoolSafe /\ IsFiniteSet(pieces)
-----------------------------------------------------------------------------
(* Lemmas *)

\* The aligned cursor is aligned and not below the cursor.
LEMMA AlignUp ==
    ASSUME NEW n \in Nat
    PROVE  ngx_align(n) \in Nat /\ ngx_align(n) >= n /\ ngx_align(n) % Alignment = 0
  <1> DEFINE q == (n + Alignment - 1) \div Alignment
  <1>1. q \in Nat
    OBVIOUS
  <1>2. q * Alignment \in Nat /\ q * Alignment >= n
    OBVIOUS
  <1>3. ngx_align(n) = q * Alignment
    BY DEF ngx_align
  <1> HIDE DEF q
  <1>4. (q * Alignment) % Alignment = 0
    BY <1>1
  <1>5. QED
    BY <1>2, <1>3, <1>4

\* A nonempty bounded set of numbers has a greatest element.
LEMMA GreatestExists ==
    ASSUME NEW n \in Nat, NEW S \in SUBSET (0 .. n), S # {}
    PROVE  \E b \in S : \A d \in S : d <= b
  <1> DEFINE T == {n - x : x \in S}
             R == OpToRel(<, Nat)
  <1>1. T \subseteq Nat /\ T # {}
    <2>1. \A x \in S : n - x \in Nat
      OBVIOUS
    <2>2. QED
      BY <2>1
  <1>2. IsWellFoundedOn(R, Nat)
    BY NatLessThanWellFounded
  <1>3. \A x, y \in Nat : y < x => <<y, x>> \in R
    BY DEF OpToRel
  <1> HIDE DEF R
  <1>4. PICK t \in T : \A y \in T : ~(<<y, t>> \in R)
    <2> HIDE DEF T
    <2> QED
      BY <1>1, <1>2, WFMin
  <1>5. PICK b \in S : t = n - b
    BY <1>4
  <1>6. ASSUME NEW d \in S PROVE d <= b
    <2>1. n - d \in T /\ n - d \in Nat /\ t \in Nat
      BY <1>1
    <2>2. ~(n - d < t)
      BY <1>3, <1>4, <2>1
    <2>3. QED
      BY <1>5, <2>1, <2>2
  <1>7. QED
    BY <1>6

\* Handing out a piece that was not held adds one to the count of its block.
LEMMA AddPiece ==
    ASSUME NEW P, IsFiniteSet(P), NEW q, q \notin P
    PROVE  /\ IsFiniteSet(P \cup {q})
           /\ Cardinality(PiecesOf(P \cup {q}, q.block)) = Cardinality(PiecesOf(P, q.block)) + 1
           /\ \A b : b # q.block => PiecesOf(P \cup {q}, b) = PiecesOf(P, b)
  <1>1. PiecesOf(P \cup {q}, q.block) = PiecesOf(P, q.block) \cup {q} /\ q \notin PiecesOf(P, q.block)
    BY DEF PiecesOf
  <1>2. IsFiniteSet(PiecesOf(P, q.block))
    BY FS_Subset DEF PiecesOf
  <1>3. QED
    BY <1>1, <1>2, FS_AddElement DEF PiecesOf

\* Giving a held piece back takes one from the count of its block.
LEMMA RemovePiece ==
    ASSUME NEW P, IsFiniteSet(P), NEW q \in P
    PROVE  /\ IsFiniteSet(P \ {q})
           /\ Cardinality(PiecesOf(P \ {q}, q.block)) = Cardinality(PiecesOf(P, q.block)) - 1
           /\ Cardinality(PiecesOf(P, q.block)) \in Nat \ {0}
           /\ Cardinality(PiecesOf(P, q.block)) = 1 => PiecesOf(P, q.block) = {q}
           /\ \A b : b # q.block => PiecesOf(P \ {q}, b) = PiecesOf(P, b)
  <1>1. PiecesOf(P \ {q}, q.block) = PiecesOf(P, q.block) \ {q} /\ q \in PiecesOf(P, q.block)
    BY DEF PiecesOf
  <1>2. IsFiniteSet(PiecesOf(P, q.block))
    BY FS_Subset DEF PiecesOf
  <1>3. Cardinality(PiecesOf(P, q.block)) \in Nat \ {0}
    BY <1>1, <1>2, FS_CardinalityType, FS_EmptySet
  <1>4. Cardinality(PiecesOf(P, q.block)) = 1 => PiecesOf(P, q.block) = {q}
    BY <1>1, <1>2, FS_Singleton
  <1>5. IsFiniteSet(P \ {q}) /\ Cardinality(PiecesOf(P, q.block) \ {q}) = Cardinality(PiecesOf(P, q.block)) - 1
    BY <1>1, <1>2, FS_RemoveElement
  <1>6. QED
    BY <1>1, <1>3, <1>4, <1>5 DEF PiecesOf
-----------------------------------------------------------------------------
(* The steps *)

\* A piece q of block b, above every piece handed out from b before.
LEMMA HandOut ==
    ASSUME PoolInv, NEW q \in [block : Nat \ {0}, off : Nat, size : Size],
           q.off % Alignment = 0,
           blocks' \in Seq(Block), Len(blocks') <= MaxBlock, Len(blocks) <= Len(blocks'),
           q.block \in 1 .. Len(blocks'), 
           q.block \in 1 .. Len(blocks) => q.off >= blocks[q.block].last,
           q.off + q.size = blocks'[q.block].last, blocks'[q.block].last <= CapOf(q.block),
           blocks'[q.block].ref = Cardinality(PiecesOf(pieces, q.block)) + 1,
           \A d \in 1 .. Len(blocks') : d # q.block =>
                d \in 1 .. Len(blocks) /\ blocks'[d].last = blocks[d].last /\ blocks'[d].ref = blocks[d].ref,
           curr' \in 1 .. Len(blocks'), large' = large,
           pieces' = pieces \cup {q}
    PROVE  PoolInv'
  <1>0. TypeOK /\ PiecesDisjoint /\ RefCountsPieces /\ IsFiniteSet(pieces)
    BY DEF PoolInv, PoolSafe
  <1>1. /\ blocks \in Seq(Block) /\ Len(blocks) \in Nat /\ Len(blocks') \in Nat
        /\ \A d \in 1 .. Len(blocks) : blocks[d].last \in Nat /\ blocks[d].ref \in Int
        /\ \A p \in pieces : p \in [block : 1 .. Len(blocks), off : Nat, size : Size]
    <2>1. blocks \in Seq(Block) /\ pieces \subseteq [block : 1 .. Len(blocks), off : Nat, size : Size]
      BY <1>0 DEF TypeOK, Block
    <2>2. \A d \in 1 .. Len(blocks) : blocks[d] \in Block
      BY <2>1
    <2>3. \A d \in 1 .. Len(blocks) : blocks[d].last \in Nat /\ blocks[d].ref \in Int
      BY <2>2 DEF Block
    <2>4. QED
      BY <2>1, <2>3
  <1>2. \A p \in pieces : /\ p.block \in 1 .. Len(blocks) /\ p.block \in 1 .. Len(blocks')
                          /\ p.off \in Nat /\ p.size \in Nat \ {0}
                          /\ p.off + p.size <= blocks[p.block].last
                          /\ (p.block = q.block => p.off + p.size <= q.off)
    <2> SUFFICES ASSUME NEW p \in pieces
                 PROVE  /\ p.block \in 1 .. Len(blocks) /\ p.block \in 1 .. Len(blocks')
                        /\ p.off \in Nat /\ p.size \in Nat \ {0}
                        /\ p.off + p.size <= blocks[p.block].last
                        /\ (p.block = q.block => p.off + p.size <= q.off)
      OBVIOUS
    <2>1. p.block \in 1 .. Len(blocks) /\ p.off \in Nat /\ p.size \in Nat \ {0}
      BY <1>1
    <2>2. p.off + p.size <= blocks[p.block].last /\ blocks[p.block].last \in Nat
      BY <1>0, <1>1, <2>1 DEF PiecesDisjoint
    <2>3. QED
      BY <1>1, <2>1, <2>2
  <1>3. q.block \in Nat /\ q.off \in Nat /\ q.size \in Nat \ {0} /\ q.size \in Size
    OBVIOUS
  <1>4. q \notin pieces
    BY <1>2, <1>3
  <1>5. /\ IsFiniteSet(pieces')
        /\ Cardinality(PiecesOf(pieces', q.block)) = Cardinality(PiecesOf(pieces, q.block)) + 1
        /\ \A b : b # q.block => PiecesOf(pieces', b) = PiecesOf(pieces, b)
    BY <1>0, <1>4, AddPiece
  <1>6. TypeOK'
    <2>1. \A p \in pieces' : p \in [block : 1 .. Len(blocks'), off : Nat, size : Size]
      <3>1. q \in [block : 1 .. Len(blocks'), off : Nat, size : Size]
        OBVIOUS
      <3>2. \A p \in pieces : p \in [block : 1 .. Len(blocks'), off : Nat, size : Size]
        BY <1>1, <1>2
      <3>3. QED
        BY <3>1, <3>2
    <2>2. large' \in Seq(Size)
      BY <1>0 DEF TypeOK
    <2>3. QED
      BY <2>1, <2>2 DEF TypeOK, Block
  <1>7. PiecesDisjoint'
    <2>1. /\ blocks'[q.block].last \in Nat
          /\ \A p \in pieces : p.block # q.block => blocks'[p.block].last = blocks[p.block].last
      BY <1>1, <1>2, <1>3, SMTT(30)
    <2>2. ASSUME NEW p \in pieces
          PROVE  /\ p.off % Alignment = 0
                 /\ p.off + p.size <= blocks'[p.block].last
                 /\ blocks'[p.block].last <= CapOf(p.block)
      <3>1. p.off % Alignment = 0 /\ blocks[p.block].last <= CapOf(p.block)
        BY <1>0 DEF PiecesDisjoint
      <3>2. CASE p.block = q.block
        <4>1. p.off + p.size <= q.off /\ p.off \in Nat /\ p.size \in Nat
          BY <1>2, <3>2
        <4>2. QED
          BY <1>3, <2>1, <3>1, <3>2, <4>1
      <3>3. CASE p.block # q.block
        BY <1>2, <2>1, <3>1, <3>3
      <3>4. QED
        BY <3>2, <3>3
    <2>3. /\ q.off + q.size <= blocks'[q.block].last
          /\ blocks'[q.block].last <= CapOf(q.block)
      BY <1>3
    <2>4. ASSUME NEW p \in pieces', NEW r \in pieces' \ {p}, p.block = r.block
          PROVE  p.off + p.size <= r.off \/ r.off + r.size <= p.off
      <3>1. CASE p \in pieces /\ r \in pieces
        BY <1>0, <2>4, <3>1 DEF PiecesDisjoint
      <3>2. CASE p = q /\ r \in pieces
        BY <1>2, <2>4, <3>2
      <3>3. CASE r = q /\ p \in pieces
        BY <1>2, <2>4, <3>3
      <3>4. QED
        BY <3>1, <3>2, <3>3
    <2>5. \A p \in pieces' : /\ p.off % Alignment = 0
                             /\ p.off + p.size <= blocks'[p.block].last
                             /\ blocks'[p.block].last <= CapOf(p.block)
      BY <2>2, <2>3
    <2>6. \A p \in pieces' : \A r \in pieces' \ {p} :
             p.block = r.block => p.off + p.size <= r.off \/ r.off + r.size <= p.off
      BY <2>4
    <2>7. QED
      BY <2>5, <2>6 DEF PiecesDisjoint, CapOf
  <1>8. RefCountsPieces'
    <2> SUFFICES ASSUME NEW b \in 1 .. Len(blocks')
                 PROVE  /\ blocks'[b].ref = Cardinality(PiecesOf(pieces', b))
                        /\ blocks'[b].ref = 0 => blocks'[b].last = 0
      <3>1. DOMAIN blocks' = 1 .. Len(blocks')
        OBVIOUS
      <3>2. QED
        BY <3>1 DEF RefCountsPieces
    <2>1. CASE b = q.block
      <3>1. Cardinality(PiecesOf(pieces, q.block)) \in Nat
        BY <1>0, FS_Subset, FS_CardinalityType DEF PiecesOf
      <3>2. QED
        BY <1>5, <2>1, <3>1
    <2>2. CASE b # q.block
      <3>1. b \in 1 .. Len(blocks) /\ blocks'[b].last = blocks[b].last /\ blocks'[b].ref = blocks[b].ref
        BY <2>2
      <3>2. blocks[b].ref = Cardinality(PiecesOf(pieces, b)) /\ (blocks[b].ref = 0 => blocks[b].last = 0)
        BY <1>0, <1>1, <3>1 DEF RefCountsPieces
      <3>3. QED
        BY <1>5, <2>2, <3>1, <3>2
    <2>3. QED
      BY <2>1, <2>2
  <1>9. QED
    BY <1>5, <1>6, <1>7, <1>8 DEF PoolInv, PoolSafe

\* The types that every step starts from.
LEMMA PoolTypes ==
    ASSUME PoolInv
    PROVE  /\ blocks \in Seq(Block) /\ Len(blocks) \in Nat /\ DOMAIN blocks = 1 .. Len(blocks)
           /\ Len(blocks) <= MaxBlock /\ curr \in 1 .. Len(blocks) /\ large \in Seq(Size)
           /\ \A d \in 1 .. Len(blocks) : /\ blocks[d] \in Block /\ blocks[d].last \in Nat
                                          /\ blocks[d].ref \in Int /\ blocks[d].faild \in Nat
           /\ \A p \in pieces : p.block \in 1 .. Len(blocks) /\ p.off \in Nat /\ p.size \in Size
           /\ \A b \in 1 .. Len(blocks) : blocks[b].ref = Cardinality(PiecesOf(pieces, b))
  <1>1. TypeOK /\ RefCountsPieces
    BY DEF PoolInv, PoolSafe
  <1>2. /\ blocks \in Seq(Block) /\ Len(blocks) <= MaxBlock /\ curr \in 1 .. Len(blocks) /\ large \in Seq(Size)
        /\ pieces \subseteq [block : 1 .. Len(blocks), off : Nat, size : Size]
    BY <1>1 DEF TypeOK, Block
  <1>3. Len(blocks) \in Nat /\ DOMAIN blocks = 1 .. Len(blocks) /\ \A d \in 1 .. Len(blocks) : blocks[d] \in Block
    BY <1>2
  <1>4. \A d \in 1 .. Len(blocks) : blocks[d].last \in Nat /\ blocks[d].ref \in Int /\ blocks[d].faild \in Nat
    BY <1>3 DEF Block
  <1>5. \A p \in pieces : p.block \in 1 .. Len(blocks) /\ p.off \in Nat /\ p.size \in Size
    BY <1>2
  <1>6. QED
    BY <1>1, <1>2, <1>3, <1>4, <1>5 DEF RefCountsPieces

\* ngx_palloc from a block that has room.
LEMMA PallocSmallKeeps ==
    ASSUME PoolInv, NEW size \in Size, PallocSmall(size)
    PROVE  PoolInv'
  <1>1. PICK b \in Room(size) :
            /\ blocks' = [blocks EXCEPT ![b].last = ngx_align(@) + size, ![b].ref = @ + 1]
            /\ pieces' = pieces \cup {[block |-> b, off |-> ngx_align(blocks[b].last), size |-> size]}
    BY DEF PallocSmall
  <1>2. curr' = curr /\ large' = large
    BY DEF PallocSmall
  <1>3. b \in 1 .. Len(blocks) /\ blocks[b].last \in Nat /\ Len(blocks) \in Nat /\ Fits(b, size)
    <2>1. curr \in 1 .. Len(blocks) /\ Len(blocks) \in Nat
      BY PoolTypes
    <2>2. b \in curr .. Len(blocks) /\ Fits(b, size)
      BY DEF Room
    <2>3. b \in 1 .. Len(blocks)
      BY <2>1, <2>2
    <2>4. QED
      BY <2>1, <2>2, <2>3, PoolTypes
  <1> DEFINE off == ngx_align(blocks[b].last)
             q == [block |-> b, off |-> off, size |-> size]
  <1>4. off \in Nat /\ off >= blocks[b].last /\ off % Alignment = 0 /\ CapOf(b) - off >= size
    BY <1>3, AlignUp DEF Fits
  <1> HIDE DEF off
  <1>5. pieces' = pieces \cup {q}
    BY <1>1 DEF off
  <1>6. blocks' = [blocks EXCEPT ![b] = [blocks[b] EXCEPT !.last = off + size, !.ref = blocks[b].ref + 1]]
    BY <1>1, <1>3, PoolTypes DEF off, Block
  <1>7. [blocks[b] EXCEPT !.last = off + size, !.ref = blocks[b].ref + 1] \in Block
    <2>1. blocks[b] \in Block
      BY <1>3, PoolTypes
    <2>2. off + size \in Nat /\ blocks[b].ref + 1 \in Int
      <3>1. blocks[b].ref \in Int
        BY <1>3, PoolTypes
      <3>2. QED
        BY <1>4, <3>1
    <2>3. QED
      BY <2>1, <2>2 DEF Block
  <1>8. /\ blocks' \in Seq(Block) /\ Len(blocks') = Len(blocks)
        /\ \A d \in 1 .. Len(blocks) : d # b => blocks'[d] = blocks[d]
        /\ blocks'[b] = [blocks[b] EXCEPT !.last = off + size, !.ref = blocks[b].ref + 1]
    BY <1>3, <1>6, <1>7, PoolTypes
  <1>9. blocks'[b].last = off + size /\ blocks'[b].ref = Cardinality(PiecesOf(pieces, b)) + 1
    BY <1>3, <1>8, PoolTypes DEF Block
  <1>10. off + size <= CapOf(b)
    BY <1>4 DEF CapOf
  <1>11. q \in [block : Nat \ {0}, off : Nat, size : Size] /\ q.block = b /\ q.off = off /\ q.size = size
    BY <1>3, <1>4
  <1> HIDE DEF q
  <1>12. curr' \in 1 .. Len(blocks') /\ Len(blocks') <= MaxBlock /\ Len(blocks) <= Len(blocks')
    BY <1>2, <1>3, <1>8, PoolTypes
  <1>13. \A d \in 1 .. Len(blocks') : d # q.block =>
            d \in 1 .. Len(blocks) /\ blocks'[d].last = blocks[d].last /\ blocks'[d].ref = blocks[d].ref
    BY <1>8, <1>11
  <1>14. /\ q.off % Alignment = 0
         /\ q.block \in 1 .. Len(blocks')
         /\ (q.block \in 1 .. Len(blocks) => q.off >= blocks[q.block].last)
         /\ q.off + q.size = blocks'[q.block].last /\ blocks'[q.block].last <= CapOf(q.block)
         /\ blocks'[q.block].ref = Cardinality(PiecesOf(pieces, q.block)) + 1
    BY <1>3, <1>4, <1>8, <1>9, <1>10, <1>11
  <1>15. QED
    BY <1>2, <1>5, <1>8, <1>11, <1>12, <1>13, <1>14, HandOut

\* What the search for a new block does to the list and to curr: the old
\* blocks keep their cursors, and curr does not move back.
LEMMA AllocateBlockList ==
    ASSUME PoolInv, NEW size \in Size, ngx_allocate_block(size)
    PROVE  /\ blocks' \in Seq(Block) /\ Len(blocks') = Len(blocks) + 1
           /\ \A b \in 1 .. Len(blocks) : blocks'[b].last = blocks[b].last /\ blocks'[b].ref = blocks[b].ref
           /\ blocks'[Len(blocks) + 1].last = size /\ blocks'[Len(blocks) + 1].ref = 1
           /\ curr' \in curr .. Len(blocks) + 1
  <1> DEFINE n == Len(blocks)
             old == [b \in 1 .. n |->
                       IF b \in curr .. n - 1 THEN [blocks[b] EXCEPT !.faild = @ + 1] ELSE blocks[b]]
             new == [last |-> size, ref |-> 1, faild |-> 0]
  <1>1. /\ blocks' = Append(old, new)
        /\ curr' = IF GivenUp = {} THEN curr ELSE 1 + CHOOSE b \in GivenUp : \A d \in GivenUp : d <= b
    BY DEF ngx_allocate_block
  <1>2. /\ blocks \in Seq(Block) /\ n \in Nat /\ curr \in 1 .. n
        /\ \A d \in 1 .. n : blocks[d] \in Block
    BY PoolTypes
  <1>3. ASSUME NEW b \in 1 .. n
        PROVE  old[b] \in Block /\ old[b].last = blocks[b].last /\ old[b].ref = blocks[b].ref
    <2>1. blocks[b] \in Block
      BY <1>2
    <2>2. CASE b \in curr .. n - 1
      <3>1. old[b] = [blocks[b] EXCEPT !.faild = blocks[b].faild + 1]
        BY <2>1, <2>2 DEF Block
      <3>2. blocks[b].faild + 1 \in Nat
        BY <2>1 DEF Block
      <3> HIDE DEF old
      <3>3. QED
        BY <2>1, <3>1, <3>2 DEF Block
    <2>3. CASE b \notin curr .. n - 1
      BY <2>1, <2>3
    <2>4. QED
      BY <2>2, <2>3
  <1>4. old \in Seq(Block) /\ Len(old) = n
    BY <1>2, <1>3, SMTT(30)
  <1>5. new \in Block /\ new.last = size /\ new.ref = 1
    BY DEF Block
  <1> HIDE DEF old, new
  <1>6. /\ blocks' \in Seq(Block) /\ Len(blocks') = n + 1
        /\ \A b \in 1 .. n : blocks'[b] = old[b]
        /\ blocks'[n + 1] = new
    BY <1>1, <1>2, <1>4, <1>5
  <1>7. curr' \in curr .. n + 1
    <2>1. CASE GivenUp = {}
      <3>1. curr' = curr
        BY <1>1, <2>1
      <3>2. QED
        BY <1>2, <3>1
    <2>2. CASE GivenUp # {}
      <3>1. \A b \in GivenUp : b \in curr .. n - 1
        BY DEF GivenUp
      <3>2. GivenUp \in SUBSET (0 .. n)
        BY <1>2, <3>1
      <3>3. \E b \in GivenUp : \A d \in GivenUp : d <= b
        BY <1>2, <2>2, <3>2, GreatestExists
      <3>4. PICK b \in GivenUp : curr' = 1 + b
        BY <1>1, <2>2, <3>3
      <3>5. QED
        BY <1>2, <3>1, <3>4
    <2>3. QED
      BY <2>1, <2>2
  <1>8. QED
    BY <1>3, <1>5, <1>6, <1>7

\* ngx_palloc with a new block at the end of the list.
LEMMA AllocateBlockKeeps ==
    ASSUME PoolInv, NEW size \in Size, Len(blocks) < MaxBlock, ngx_allocate_block(size)
    PROVE  PoolInv'
  <1> DEFINE n == Len(blocks)
             q == [block |-> n + 1, off |-> 0, size |-> size]
  <1>1. pieces' = pieces \cup {q} /\ large' = large /\ ~IsLarge(size)
    BY DEF ngx_allocate_block
  <1>2. n \in Nat /\ curr \in 1 .. n
    BY PoolTypes
  <1>3. /\ blocks' \in Seq(Block) /\ Len(blocks') = n + 1
        /\ \A b \in 1 .. n : blocks'[b].last = blocks[b].last /\ blocks'[b].ref = blocks[b].ref
        /\ blocks'[n + 1].last = size /\ blocks'[n + 1].ref = 1
        /\ curr' \in curr .. n + 1
    BY AllocateBlockList
  <1>8. PiecesOf(pieces, n + 1) = {}
    <2>1. \A p \in pieces : p.block \in 1 .. n
      BY PoolTypes
    <2>2. QED
      BY <1>2, <2>1 DEF PiecesOf
  <1>9. size \in Nat /\ size <= Cap /\ CapOf(n + 1) = Cap
    BY <1>1, <1>2 DEF IsLarge, CapOf
  <1>10. q \in [block : Nat \ {0}, off : Nat, size : Size] /\ q.block = n + 1 /\ q.off = 0 /\ q.size = size
    BY <1>2
  <1> HIDE DEF q, n
  <1>11. \A d \in 1 .. Len(blocks') : d # q.block =>
            d \in 1 .. n /\ blocks'[d].last = blocks[d].last /\ blocks'[d].ref = blocks[d].ref
    <2> SUFFICES ASSUME NEW d \in 1 .. Len(blocks'), d # q.block
                 PROVE  d \in 1 .. n /\ blocks'[d].last = blocks[d].last /\ blocks'[d].ref = blocks[d].ref
      OBVIOUS
    <2>1. d \in 1 .. n
      BY <1>2, <1>3, <1>10
    <2>2. QED
      BY <1>3, <2>1
  <1>12. /\ q.off % Alignment = 0
         /\ q.block \in 1 .. Len(blocks')
         /\ q.block \notin 1 .. n
         /\ q.off + q.size = blocks'[q.block].last /\ blocks'[q.block].last <= CapOf(q.block)
    <2>1. q.block = n + 1 /\ blocks'[q.block].last = size /\ Len(blocks') = n + 1
      BY <1>3, <1>10
    <2>2. QED
      BY <1>2, <1>9, <1>10, <2>1
  <1>13. blocks'[q.block].ref = Cardinality(PiecesOf(pieces, q.block)) + 1
    <2>1. q.block = n + 1 /\ blocks'[q.block].ref = 1
      BY <1>3, <1>10
    <2>2. Cardinality(PiecesOf(pieces, q.block)) = 0
      BY <1>8, <2>1, FS_EmptySet
    <2>3. QED
      BY <2>1, <2>2
  <1>14. Len(blocks') <= MaxBlock /\ n <= Len(blocks') /\ curr' \in 1 .. Len(blocks')
    BY <1>2, <1>3 DEF n
  <1>15. QED
    BY <1>1, <1>3, <1>10, <1>11, <1>12, <1>13, <1>14, HandOut DEF n

\* ngx_free of a piece of a block.
LEMMA FreeSmallKeeps ==
    ASSUME PoolInv, NEW q \in pieces, FreeSmall(q)
    PROVE  PoolInv'
  <1> DEFINE b == q.block
             rest == IF blocks[b].ref = 1 THEN 0 ELSE blocks[b].last
             rec == [blocks[b] EXCEPT !.ref = blocks[b].ref - 1, !.last = rest]
  <1>0. TypeOK /\ PiecesDisjoint /\ RefCountsPieces /\ IsFiniteSet(pieces)
    BY DEF PoolInv, PoolSafe
  <1>1. /\ blocks \in Seq(Block) /\ Len(blocks) \in Nat /\ b \in 1 .. Len(blocks)
        /\ blocks[b] \in Block /\ blocks[b].last \in Nat /\ blocks[b].ref \in Int
        /\ blocks[b].ref = Cardinality(PiecesOf(pieces, b))
    BY PoolTypes
  <1>2. blocks' = [blocks EXCEPT ![b] = rec] /\ pieces' = pieces \ {q} /\ curr' = curr /\ large' = large
    <2>1. blocks' = [blocks EXCEPT ![b].ref = @ - 1, ![b].last = IF blocks[b].ref = 1 THEN 0 ELSE @]
      BY DEF FreeSmall
    <2>2. blocks' = [blocks EXCEPT ![b].ref = blocks[b].ref - 1, ![b].last = rest]
      BY <1>1, <2>1 DEF Block
    <2> HIDE DEF rest
    <2>3. blocks' = [blocks EXCEPT ![b] = rec]
      BY <1>1, <2>2 DEF Block
    <2>4. QED
      BY <2>3 DEF FreeSmall
  <1>3. rec \in Block /\ rec.ref = blocks[b].ref - 1 /\ rec.last = rest
    <2>1. blocks[b].ref - 1 \in Int /\ rest \in Nat
      BY <1>1
    <2> HIDE DEF rest
    <2>2. QED
      BY <1>1, <2>1 DEF Block
  <1> HIDE DEF rec
  <1>4. /\ blocks' \in Seq(Block) /\ Len(blocks') = Len(blocks) /\ DOMAIN blocks' = 1 .. Len(blocks)
        /\ \A d \in 1 .. Len(blocks) : d # b => blocks'[d] = blocks[d]
        /\ blocks'[b] = rec
    BY <1>1, <1>2, <1>3
  <1>5. /\ IsFiniteSet(pieces')
        /\ Cardinality(PiecesOf(pieces', b)) = Cardinality(PiecesOf(pieces, b)) - 1
        /\ Cardinality(PiecesOf(pieces, b)) \in Nat \ {0}
        /\ Cardinality(PiecesOf(pieces, b)) = 1 => PiecesOf(pieces, b) = {q}
        /\ \A d : d # b => PiecesOf(pieces', d) = PiecesOf(pieces, d)
    BY <1>0, <1>2, RemovePiece, ZenonT(40)
  <1>6. \A p \in pieces' : /\ p \in pieces /\ p.block \in 1 .. Len(blocks)
                           /\ blocks'[p.block].last = blocks[p.block].last
    <2> SUFFICES ASSUME NEW p \in pieces'
                 PROVE  /\ p \in pieces /\ p.block \in 1 .. Len(blocks)
                        /\ blocks'[p.block].last = blocks[p.block].last
      OBVIOUS
    <2>1. p \in pieces /\ p # q /\ p.block \in 1 .. Len(blocks)
      BY <1>2, PoolTypes
    <2>2. CASE p.block = b
      <3>1. PiecesOf(pieces, b) # {q}
        BY <2>1, <2>2 DEF PiecesOf
      <3>2. blocks[b].ref # 1
        BY <1>1, <1>5, <3>1
      <3>3. QED
        BY <1>3, <1>4, <2>1, <2>2, <3>2
    <2>3. CASE p.block # b
      BY <1>4, <2>1, <2>3
    <2>4. QED
      BY <2>2, <2>3
  <1>7. TypeOK'
    <2>1. pieces' \subseteq [block : 1 .. Len(blocks'), off : Nat, size : Size]
      BY <1>0, <1>2, <1>4 DEF TypeOK
    <2>2. QED
      BY <1>0, <1>2, <1>4, <2>1 DEF TypeOK, Block
  <1>8. PiecesDisjoint'
    <2>1. ASSUME NEW p \in pieces'
          PROVE  /\ p.off % Alignment = 0
                 /\ p.off + p.size <= blocks'[p.block].last
                 /\ blocks'[p.block].last <= CapOf(p.block)
      BY <1>0, <1>6 DEF PiecesDisjoint
    <2>2. ASSUME NEW p \in pieces', NEW r \in pieces' \ {p}, p.block = r.block
          PROVE  p.off + p.size <= r.off \/ r.off + r.size <= p.off
      BY <1>0, <1>6, <2>2 DEF PiecesDisjoint
    <2>3. QED
      BY <2>1, <2>2 DEF PiecesDisjoint, CapOf
  <1>9. RefCountsPieces'
    <2> SUFFICES ASSUME NEW d \in 1 .. Len(blocks)
                 PROVE  /\ blocks'[d].ref = Cardinality(PiecesOf(pieces', d))
                        /\ blocks'[d].ref = 0 => blocks'[d].last = 0
      BY <1>4 DEF RefCountsPieces
    <2>1. CASE d = b
      BY <1>1, <1>3, <1>4, <1>5, <2>1
    <2>2. CASE d # b
      <3>1. blocks[d].ref = Cardinality(PiecesOf(pieces, d)) /\ (blocks[d].ref = 0 => blocks[d].last = 0)
        BY <1>0, PoolTypes DEF RefCountsPieces
      <3>2. QED
        BY <1>4, <1>5, <2>2, <3>1
    <2>3. QED
      BY <2>1, <2>2
  <1>10. QED
    BY <1>5, <1>7, <1>8, <1>9 DEF PoolInv, PoolSafe
-----------------------------------------------------------------------------
\* A step on the list of large pieces leaves the blocks alone.
LEMMA LargeKeeps ==
    ASSUME PoolInv, UNCHANGED <<blocks, curr, pieces>>, large' \in Seq(Size)
    PROVE  PoolInv'
  <1>1. TypeOK'
    BY DEF PoolInv, PoolSafe, TypeOK
  <1>2. PiecesDisjoint' /\ RefCountsPieces' /\ IsFiniteSet(pieces')
    BY DEF PoolInv, PoolSafe, PiecesDisjoint, RefCountsPieces, CapOf
  <1>3. QED
    BY <1>1, <1>2 DEF PoolInv, PoolSafe

\* Every call keeps the invariant.
LEMMA NextKeeps == PoolInv /\ [Next]_vars => PoolInv'
  <1> SUFFICES ASSUME PoolInv, [Next]_vars PROVE PoolInv'
    OBVIOUS
  <1>1. large \in Seq(Size)
    BY PoolTypes
  <1>2. ASSUME NEW size \in Size, ngx_allocate_large(size) PROVE PoolInv'
    BY <1>1, <1>2, LargeKeeps DEF ngx_allocate_large
  <1>3. ASSUME NEW i \in DOMAIN large, FreeLarge(i) PROVE PoolInv'
    <2>1. i \in 1 .. Len(large) /\ Len(large) \in Nat
      BY <1>1
    <2>2. SubSeq(large, 1, i - 1) \in Seq(Size) /\ SubSeq(large, i + 1, Len(large)) \in Seq(Size)
      BY <1>1, <2>1
    <2>3. large' \in Seq(Size)
      BY <1>3, <2>2, ConcatProperties DEF FreeLarge
    <2>4. QED
      BY <1>3, <2>3, LargeKeeps DEF FreeLarge
  <1>4. CASE UNCHANGED vars
    BY <1>1, <1>4, LargeKeeps DEF vars
  <1>5. QED
    BY <1>2, <1>3, <1>4, PallocSmallKeeps, AllocateBlockKeeps, FreeSmallKeeps DEF Next, ngx_palloc, ngx_free

\* A new pool: one empty block.
LEMMA InitPoolInv == Init => PoolInv
  <1> SUFFICES ASSUME Init PROVE PoolInv
    OBVIOUS
  <1>1. blocks = <<[last |-> 0, ref |-> 0, faild |-> 0]>> /\ curr = 1 /\ large = <<>> /\ pieces = {}
    BY DEF Init, ngx_create_pool
  <1>2. Len(blocks) = 1 /\ DOMAIN blocks = {1} /\ blocks[1] = [last |-> 0, ref |-> 0, faild |-> 0]
    BY <1>1
  <1>3. TypeOK
    BY <1>1, <1>2 DEF TypeOK
  <1>4. \A b : PiecesOf(pieces, b) = {}
    BY <1>1 DEF PiecesOf
  <1>5. RefCountsPieces
    BY <1>2, <1>4, FS_EmptySet DEF RefCountsPieces
  <1>6. PiecesDisjoint /\ IsFiniteSet(pieces)
    BY <1>1, FS_EmptySet DEF PiecesDisjoint
  <1>7. QED
    BY <1>3, <1>5, <1>6 DEF PoolInv, PoolSafe

\* The inductive invariant holds in every reachable state.
LEMMA PoolInductive == Spec => []PoolInv
  BY InitPoolInv, NextKeeps, PTL DEF Spec

\* No two callers of ngx_palloc ever hold a common byte, no piece leaves its
\* block, and ngx_free resets a block exactly when its last piece comes back.
THEOREM PoolCorrect == Spec => []PoolSafe
  <1>1. PoolInv => PoolSafe
    BY DEF PoolInv
  <1>2. QED
    BY <1>1, PoolInductive, PTL

\* The blocks that curr has passed are never allocated from again.
THEOREM PassedBlocksCorrect == Spec => PassedBlocksIdle
  <1>1. ASSUME PoolInv, [Next]_vars, NEW b \in 1 .. curr - 1
        PROVE  blocks'[b].last <= blocks[b].last /\ curr' >= curr
    <2>1. /\ curr \in 1 .. Len(blocks) /\ Len(blocks) \in Nat /\ blocks \in Seq(Block)
          /\ b \in 1 .. Len(blocks) /\ blocks[b] \in Block /\ blocks[b].last \in Nat
      <3>1. curr \in 1 .. Len(blocks) /\ Len(blocks) \in Nat /\ blocks \in Seq(Block)
        BY <1>1, PoolTypes
      <3>2. b \in 1 .. Len(blocks)
        BY <3>1
      <3>3. QED
        BY <1>1, <3>1, <3>2, PoolTypes
    <2>2. ASSUME NEW size \in Size, PallocSmall(size)
          PROVE  blocks'[b].last <= blocks[b].last /\ curr' >= curr
      <3>1. PICK c \in Room(size) :
                blocks' = [blocks EXCEPT ![c].last = ngx_align(@) + size, ![c].ref = @ + 1]
        BY <2>2 DEF PallocSmall
      <3>2. c # b
        BY <2>1 DEF Room
      <3>3. blocks'[b] = blocks[b] /\ curr' = curr
        BY <2>1, <2>2, <3>1, <3>2, SMTT(30) DEF PallocSmall
      <3>4. QED
        BY <2>1, <3>3
    <2>3. ASSUME NEW size \in Size, ngx_allocate_block(size)
          PROVE  blocks'[b].last <= blocks[b].last /\ curr' >= curr
      <3>1. blocks'[b].last = blocks[b].last /\ curr' \in curr .. Len(blocks) + 1
        BY <1>1, <2>1, <2>3, AllocateBlockList
      <3>2. QED
        BY <2>1, <3>1
    <2>4. ASSUME NEW p \in pieces, FreeSmall(p)
          PROVE  blocks'[b].last <= blocks[b].last /\ curr' >= curr
      <3>1. /\ blocks' = [blocks EXCEPT ![p.block].ref = @ - 1,
                                        ![p.block].last = IF blocks[p.block].ref = 1 THEN 0 ELSE @]
            /\ curr' = curr
        BY <2>4 DEF FreeSmall
      <3>2. blocks'[b].last = blocks[b].last \/ blocks'[b].last = 0
        <4>1. CASE p.block = b
          <5>1. blocks' = [blocks EXCEPT ![b].ref = @ - 1, ![b].last = IF blocks[b].ref = 1 THEN 0 ELSE @]
            BY <3>1, <4>1
          <5>2. CASE blocks[b].ref = 1
            <6>1. blocks' = [blocks EXCEPT ![b].ref = @ - 1, ![b].last = 0]
              BY <5>1, <5>2
            <6>2. QED
              BY <2>1, <6>1 DEF Block
          <5>3. CASE blocks[b].ref # 1
            <6>1. blocks' = [blocks EXCEPT ![b].ref = @ - 1, ![b].last = @]
              BY <5>1, <5>3
            <6>2. QED
              BY <2>1, <6>1 DEF Block
          <5>4. QED
            BY <5>2, <5>3
        <4>2. CASE p.block # b
          BY <2>1, <3>1, <4>2
        <4>3. QED
          BY <4>1, <4>2
      <3>3. QED
        BY <2>1, <3>1, <3>2
    <2>5. CASE UNCHANGED <<blocks, curr>>
      BY <2>1, <2>5
    <2>6. QED
      BY <1>1, <2>2, <2>3, <2>4, <2>5
         DEF Next, ngx_palloc, ngx_free, ngx_allocate_large, FreeLarge, vars
  <1>2. PoolInv /\ [Next]_vars
          => [\A b \in 1 .. curr - 1 : blocks'[b].last <= blocks[b].last /\ curr' >= curr]_vars
    BY <1>1
  <1>3. QED
    BY <1>2, PoolInductive, PTL DEF Spec, PassedBlocksIdle
=============================================================================
