----------------------------- MODULE ValuesProofs -----------------------------
(***************************************************************************)
(* What holds of the sequential data structures of basic/ for every size,  *)
(* every number of objects and every series of calls.                      *)
(***************************************************************************)
EXTENDS Values, FiniteSetTheorems, SequenceTheorems, WellFoundedInduction, TLAPS

-----------------------------------------------------------------------------
(* Division with remainder *)

\* What is left over is less than the divisor.
LEMMA DivMod ==
    ASSUME NEW n \in Nat, NEW m \in Nat \ {0}
    PROVE  n = m * (n \div m) + (n % m) /\ n \div m \in Nat /\ n % m \in 0 .. m - 1
  BY SMTT(30)

\* Only the remainder counts.
LEMMA ModIs ==
    ASSUME NEW m \in Nat \ {0}, NEW q \in Nat, NEW r \in 0 .. m - 1
    PROVE  (m * q + r) % m = r
  BY SMTT(30)

\* The remainder counts up and starts anew at 0.
LEMMA ModNext ==
    ASSUME NEW n \in Nat, NEW m \in Nat \ {0}
    PROVE  (n + 1) % m = 0 \/ (n + 1) % m = (n % m) + 1
  <1> DEFINE q == n \div m
             r == n % m
  <1>1. n = m * q + r /\ q \in Nat /\ r \in 0 .. m - 1
    BY DivMod
  <1> HIDE DEF q, r
  <1>2. CASE r + 1 = m
    <2>1. n + 1 = m * (q + 1) + 0
      BY <1>1, <1>2, SMTT(30)
    <2>2. q + 1 \in Nat /\ 0 \in 0 .. m - 1
      BY <1>1
    <2>3. QED
      BY <2>1, <2>2, ModIs
  <1>3. CASE r + 1 # m
    <2>1. n + 1 = m * q + (r + 1) /\ r + 1 \in 0 .. m - 1
      BY <1>1, <1>3, SMTT(30)
    <2>2. (n + 1) % m = r + 1
      BY <1>1, <2>1, ModIs
    <2>3. QED
      BY <2>2 DEF r
  <1>4. QED
    BY <1>2, <1>3

\* One of m numbers in a row is a multiple of m away from another number.
LEMMA MultipleFound ==
    ASSUME NEW a \in Nat, NEW n \in Nat, NEW m \in Nat \ {0}, a <= n
    PROVE  \E c \in n .. n + m - 1 : (c - a) % m = 0
  <1> DEFINE q == (n - a) \div m
             r == (n - a) % m
  <1>1. n - a \in Nat
    OBVIOUS
  <1>2. n - a = m * q + r /\ q \in Nat /\ r \in 0 .. m - 1 /\ n - a \in Nat
    BY <1>1, DivMod
  <1> HIDE DEF q, r
  <1>3. CASE r = 0
    <2>1. (n - a) % m = 0 /\ n \in n .. n + m - 1
      BY <1>2, <1>3, ModIs
    <2>2. QED
      BY <2>1
  <1>4. CASE r # 0
    <2>1. (n + m - r) - a = m * (q + 1) + 0 /\ n + m - r \in n .. n + m - 1
      BY <1>2, <1>4, SMTT(30)
    <2>2. q + 1 \in Nat /\ 0 \in 0 .. m - 1
      BY <1>2
    <2>3. ((n + m - r) - a) % m = 0
      BY <2>1, <2>2, ModIs
    <2>4. QED
      BY <2>1, <2>3
  <1>5. QED
    BY <1>3, <1>4

-----------------------------------------------------------------------------
(* RepeatFilter *)

\* The calls held back in a row are no more than the calls since the current
\* threshold last let one through; before bar1_ none is held back.
FilterInv ==
    /\ bar1_ \in Nat /\ bar2_ \in Nat /\ threshold1_ \in Nat /\ threshold2_ \in Nat
    /\ counter_ \in Nat /\ gap \in Nat
    /\ counter_ < bar1_ => gap = 0
    /\ counter_ >= bar1_ /\ counter_ < bar2_ /\ threshold1_ > 0 => gap <= (counter_ - bar1_) % threshold1_
    /\ counter_ >= bar1_ /\ counter_ >= bar2_ /\ threshold2_ > 0 => gap <= (counter_ - bar2_) % threshold2_

\* A call keeps that, also at the two bars.
LEMMA RepeatKeeps ==
    ASSUME FilterInv, Filter!repeat
    PROVE  FilterInv'
  <1>1. /\ bar1_ \in Nat /\ bar2_ \in Nat /\ threshold1_ \in Nat /\ threshold2_ \in Nat
        /\ counter_ \in Nat /\ gap \in Nat
    BY DEF FilterInv
  <1>2. /\ bar1_' = bar1_ /\ bar2_' = bar2_ /\ threshold1_' = threshold1_ /\ threshold2_' = threshold2_
        /\ counter_' = counter_ + 1
    BY DEF Filter!repeat, Filter!params
  <1> DEFINE next == counter_ + 1
             g == IF Filter!Repeats(next) THEN 0 ELSE gap + 1
  <1>3. g \in Nat /\ next \in Nat
    BY <1>1
  <1>4. next = counter_ + 1 /\ g = IF Filter!Repeats(next) THEN 0 ELSE gap + 1
    OBVIOUS
  <1> HIDE DEF next, g
  <1>5. next < bar1_ => g = 0
    BY <1>4 DEF Filter!Repeats
  <1>6. ASSUME next >= bar1_, next < bar2_, threshold1_ > 0
        PROVE  g <= (next - bar1_) % threshold1_
    <2>1. next - bar1_ \in Nat
      BY <1>1, <1>3, <1>6
    <2>2. (next - bar1_) % threshold1_ \in Nat
      BY <1>1, <1>6, <2>1, DivMod
    <2>3. CASE (next - bar1_) % threshold1_ = 0
      BY <1>1, <1>4, <1>6, <2>3 DEF Filter!Repeats
    <2>4. CASE (next - bar1_) % threshold1_ # 0
      <3>1. CASE counter_ < bar1_
        BY <1>1, <1>4, <1>3, <2>2, <2>4, <3>1 DEF FilterInv
      <3>2. CASE counter_ >= bar1_
        <4> DEFINE n == counter_ - bar1_
        <4>1. n \in Nat /\ next - bar1_ = n + 1
          BY <1>1, <1>4, <3>2
        <4>2. gap <= n % threshold1_ /\ n % threshold1_ \in Nat
          BY <1>1, <1>4, <1>6, <3>2, <4>1, DivMod DEF FilterInv
        <4> HIDE DEF n
        <4>3. (n + 1) % threshold1_ = (n % threshold1_) + 1
          <5>1. threshold1_ \in Nat \ {0}
            BY <1>1, <1>6
          <5>2. (n + 1) % threshold1_ = 0 \/ (n + 1) % threshold1_ = (n % threshold1_) + 1
            BY <4>1, <5>1, ModNext
          <5>3. QED
            BY <2>4, <4>1, <5>2
        <4>4. g <= gap + 1
          BY <1>1, <1>4
        <4>5. (next - bar1_) % threshold1_ = (n % threshold1_) + 1
          BY <4>1, <4>3
        <4>6. QED
          BY <1>1, <1>3, <4>2, <4>4, <4>5
      <3>3. QED
        BY <1>1, <3>1, <3>2
    <2>5. QED
      BY <2>3, <2>4
  <1>7. ASSUME next >= bar1_, next >= bar2_, threshold2_ > 0
        PROVE  g <= (next - bar2_) % threshold2_
    <2>1. next - bar2_ \in Nat
      BY <1>1, <1>3, <1>7
    <2>2. (next - bar2_) % threshold2_ \in Nat
      BY <1>1, <1>7, <2>1, DivMod
    <2>3. CASE (next - bar2_) % threshold2_ = 0
      BY <1>1, <1>4, <1>7, <2>3 DEF Filter!Repeats
    <2>4. CASE (next - bar2_) % threshold2_ # 0
      <3>1. CASE counter_ < bar1_
        BY <1>1, <1>4, <1>3, <2>2, <2>4, <3>1 DEF FilterInv
      <3>2. CASE counter_ >= bar1_
        <4>1. counter_ >= bar2_
          <5>1. counter_ < bar2_ => next - bar2_ = 0
            BY <1>1, <1>4, <1>7
          <5>2. 0 % threshold2_ = 0
            BY <1>1, <1>7
          <5>3. QED
            BY <1>1, <2>4, <5>1, <5>2
        <4> DEFINE n == counter_ - bar2_
        <4>2. n \in Nat /\ next - bar2_ = n + 1
          BY <1>1, <1>4, <4>1
        <4>3. gap <= n % threshold2_ /\ n % threshold2_ \in Nat
          BY <1>1, <1>4, <1>7, <3>2, <4>1, <4>2, DivMod DEF FilterInv
        <4> HIDE DEF n
        <4>4. (n + 1) % threshold2_ = (n % threshold2_) + 1
          <5>1. threshold2_ \in Nat \ {0}
            BY <1>1, <1>7
          <5>2. (n + 1) % threshold2_ = 0 \/ (n + 1) % threshold2_ = (n % threshold2_) + 1
            BY <4>2, <5>1, ModNext
          <5>3. QED
            BY <2>4, <4>2, <5>2
        <4>5. g <= gap + 1
          BY <1>1, <1>4
        <4>6. (next - bar2_) % threshold2_ = (n % threshold2_) + 1
          BY <4>2, <4>4
        <4>7. QED
          BY <1>1, <1>3, <4>3, <4>5, <4>6
      <3>3. QED
        BY <1>1, <3>1, <3>2
    <2>5. QED
      BY <2>3, <2>4
  <1>8. CASE next >= bar1_ /\ Filter!Threshold(next) = 0
    <2>1. gap' = gap
      BY <1>4, <1>8 DEF Filter!repeat
    <2>2. QED
      BY <1>1, <1>2, <1>3, <1>4, <1>8, <2>1 DEF FilterInv, Filter!Threshold
  <1>9. CASE ~(next >= bar1_ /\ Filter!Threshold(next) = 0)
    <2>1. gap' = g
      BY <1>4, <1>9 DEF Filter!repeat
    <2>2. QED
      BY <1>4, <1>1, <1>2, <1>3, <1>5, <1>6, <1>7, <2>1 DEF FilterInv
  <1>10. QED
    BY <1>8, <1>9

\* repeat_filter_limit.h: the series is never silent for as long as the
\* threshold of where it is, for all bars and thresholds; one of zero traps the
\* first call that divides by it.
THEOREM GapCorrect == ValuesSpec => []GapBounded
  <1>1. ValuesInit => FilterInv
    <2> SUFFICES ASSUME ValuesInit PROVE FilterInv
      OBVIOUS
    <2>1. /\ bar1_ \in 0 .. MaxParam /\ bar2_ \in 0 .. MaxParam
          /\ threshold1_ \in 0 .. MaxParam /\ threshold2_ \in 0 .. MaxParam
          /\ counter_ = 0 /\ gap = 0 /\ MaxParam \in Nat
      BY FilterAssumption DEF ValuesInit, Filter!Init, Filter!BoundsAssumption
    <2>2. /\ bar1_ \in Nat /\ bar2_ \in Nat
          /\ threshold1_ \in Nat /\ threshold2_ \in Nat
      BY <2>1
    <2>3. counter_ >= bar1_ /\ counter_ < bar2_ /\ threshold1_ > 0 => gap <= (counter_ - bar1_) % threshold1_
      BY <2>1, <2>2, DivMod
    <2>4. counter_ >= bar1_ /\ counter_ >= bar2_ /\ threshold2_ > 0 => gap <= (counter_ - bar2_) % threshold2_
      BY <2>1, <2>2, DivMod
    <2>5. QED
      BY <2>1, <2>2, <2>3, <2>4 DEF FilterInv
  <1>2. FilterInv /\ [ValuesNext]_valuesVars => FilterInv'
    <2> SUFFICES ASSUME FilterInv, [ValuesNext]_valuesVars PROVE FilterInv'
      OBVIOUS
    <2>1. CASE Filter!repeat
      BY <2>1, RepeatKeeps
    <2>2. CASE UNCHANGED filterVars
      BY <2>2 DEF filterVars, FilterInv
    <2>3. QED
      BY <2>1, <2>2 DEF ValuesNext, valuesVars, Filter!Next
  <1>3. FilterInv => GapBounded
    <2> SUFFICES ASSUME FilterInv PROVE Filter!GapBounded
      BY DEF GapBounded
    <2>1. counter_ >= bar1_ => (counter_ - bar1_ \in Nat /\ (counter_ >= bar2_ => counter_ - bar2_ \in Nat))
      BY DEF FilterInv
    <2>2. /\ counter_ >= bar1_ /\ threshold1_ > 0 => (counter_ - bar1_) % threshold1_ \in 0 .. threshold1_ - 1
          /\ counter_ >= bar1_ /\ counter_ >= bar2_ /\ threshold2_ > 0 => (counter_ - bar2_) % threshold2_ \in 0 .. threshold2_ - 1
      BY <2>1, DivMod DEF FilterInv
    <2>3. QED
      BY <2>2 DEF FilterInv, Filter!GapBounded, Filter!Threshold
  <1>4. QED
    BY <1>1, <1>2, <1>3, PTL DEF ValuesSpec

-----------------------------------------------------------------------------
(* ConfigTree *)

\* Put changes one key and makes the node an object.
LEMMA PutMap ==
    ASSUME NEW n, NEW key, NEW c
    PROVE  /\ Tree!is_object(Tree!Put(n, key, c))
           /\ DOMAIN Tree!Put(n, key, c).map = DOMAIN Tree!AsObject(n) \cup {key}
           /\ Tree!Put(n, key, c).map[key] = c
           /\ \A k \in DOMAIN Tree!AsObject(n) \ {key} : Tree!Put(n, key, c).map[k] = Tree!AsObject(n)[k]
  BY DEF Tree!Put, Tree!Object, Tree!is_object

\* Setting an element makes the node an array.
LEMMA IndexArray ==
    ASSUME NEW n, NEW i, NEW c
    PROVE  Tree!is_array(Tree!PutIndex(n, i, c))
  BY DEF Tree!PutIndex, Tree!Array, Tree!is_array

\* What a call makes of the node it is made on: a value, an array, or the object
\* it was with one key set or looked at.
LEMMA CallNode ==
    ASSUME NEW p \in Tree!Paths, Tree!Call(p)
    PROVE  \E c : /\ root' = Tree!Update(p, c)
                  /\ \/ ~Tree!is_object(c)
                     \/ \E j, v : /\ c = Tree!Put(Tree!Node(p), j, v)
                                  /\ ~Tree!is_object(v) \/ v = Tree!Child(Tree!Node(p), j)
  <1>1. \A v \in NodeValues : ~Tree!is_object(v)
    BY TreeAssumption DEF Tree!ValuesAssumption, Tree!is_object
  <1>2. \A n, i, v : ~Tree!is_object(Tree!PutIndex(n, i, v))
    BY IndexArray DEF Tree!is_array, Tree!is_object
  <1>3. CASE Tree!setValue(p)
    BY <1>1, <1>3 DEF Tree!setValue
  <1>4. CASE Tree!set(p)
    BY <1>1, <1>4 DEF Tree!set
  <1>5. CASE Tree!Touch(p)
    BY <1>5 DEF Tree!Touch
  <1>6. CASE Tree!TouchIndex(p)
    BY <1>2, <1>6 DEF Tree!TouchIndex
  <1>7. CASE Tree!setIndex(p)
    BY <1>2, <1>7 DEF Tree!setIndex
  <1>8. CASE Tree!append(p)
    <2>1. PICK v \in NodeValues : root' = Tree!Update(p,
            Tree!PutIndex(Tree!Node(p), Len(Tree!AsArray(Tree!Node(p))) + 1, v))
      BY <1>8 DEF Tree!append
    <2>2. QED
      BY <1>2, <2>1
  <1>9. QED
    BY <1>3, <1>4, <1>5, <1>6, <1>7, <1>8 DEF Tree!Call

\* config_parser.h: whatever the tree, a call of the API on any node takes away
\* or changes the value of a key only by replacing a node on the way to it.
THEOREM KeysCorrect == ValuesSpec => KeysKept
  <1>1. ASSUME NEW s \in Sections, NEW k \in Keys, Tree!Present(root, s, k),
               NEW p \in Tree!Paths, Tree!Call(p)
        PROVE  \/ Tree!HasKey(root', s, k) /\ root'.map[s].map[k] = root.map[s].map[k]
               \/ Tree!Replaced(p, s, k)
    <2>1. /\ Tree!is_object(root) /\ s \in DOMAIN root.map
          /\ Tree!is_object(root.map[s]) /\ k \in DOMAIN root.map[s].map
      BY <1>1 DEF Tree!Present, Tree!HasKey
    <2>2. PICK c : /\ root' = Tree!Update(p, c)
                   /\ \/ ~Tree!is_object(c)
                      \/ \E j, v : /\ c = Tree!Put(Tree!Node(p), j, v)
                                   /\ ~Tree!is_object(v) \/ v = Tree!Child(Tree!Node(p), j)
      BY <1>1, CallNode
    <2>3. Tree!AsObject(root) = root.map /\ Tree!Child(root, s) = root.map[s]
          /\ Tree!AsObject(root.map[s]) = root.map[s].map
      BY <2>1 DEF Tree!AsObject, Tree!Child
    <2>4. CASE p = <<>>
      <3>1. root' = c /\ Tree!Node(p) = root
        BY <2>2, <2>4 DEF Tree!Update, Tree!Node
      <3>2. CASE ~Tree!is_object(c)
        BY <2>4, <3>1, <3>2 DEF Tree!Replaced
      <3>3. ASSUME NEW j, NEW v, c = Tree!Put(root, j, v), j # s
            PROVE  Tree!HasKey(root', s, k) /\ root'.map[s].map[k] = root.map[s].map[k]
        BY <2>1, <2>3, <3>1, <3>3, PutMap DEF Tree!HasKey
      <3>4. ASSUME NEW v, c = Tree!Put(root, s, v), v = root.map[s]
            PROVE  Tree!HasKey(root', s, k) /\ root'.map[s].map[k] = root.map[s].map[k]
        BY <2>1, <2>3, <3>1, <3>4, PutMap DEF Tree!HasKey
      <3>5. ASSUME NEW v, c = Tree!Put(root, s, v), ~Tree!is_object(v)
            PROVE  Tree!Replaced(p, s, k)
        <4>1. Tree!OnlyAt(s, root.map, root'.map) /\ root'.map[s] = v
          BY <2>1, <2>3, <3>1, <3>5, PutMap DEF Tree!OnlyAt
        <4>2. QED
          BY <2>4, <3>5, <4>1 DEF Tree!Replaced
      <3>6. QED
        BY <2>2, <2>3, <3>1, <3>2, <3>3, <3>4, <3>5
    <2>5. ASSUME NEW t \in Sections, p = <<t>>
          PROVE  \/ Tree!HasKey(root', s, k) /\ root'.map[s].map[k] = root.map[s].map[k]
                 \/ Tree!Replaced(p, s, k)
      <3>1. root' = Tree!Put(root, t, c) /\ Tree!Node(p) = Tree!Child(root, t)
        BY <2>2, <2>5 DEF Tree!Update, Tree!Node
      <3>2. CASE t # s
        BY <2>1, <2>3, <3>1, <3>2, PutMap DEF Tree!HasKey
      <3>3. CASE t = s
        <4>1. Tree!is_object(root') /\ Tree!OnlyAt(s, root.map, root'.map) /\ root'.map[s] = c
          BY <2>1, <2>3, <3>1, <3>3, PutMap DEF Tree!OnlyAt
        <4>2. CASE ~Tree!is_object(c)
          BY <2>5, <3>3, <4>1, <4>2 DEF Tree!Replaced
        <4>3. ASSUME NEW j, NEW v, c = Tree!Put(root.map[s], j, v), j # k
              PROVE  Tree!HasKey(root', s, k) /\ root'.map[s].map[k] = root.map[s].map[k]
          BY <2>1, <2>3, <4>1, <4>3, PutMap DEF Tree!HasKey, Tree!OnlyAt
        <4>4. ASSUME NEW v, c = Tree!Put(root.map[s], k, v)
              PROVE  Tree!Replaced(p, s, k)
          <5>1. Tree!OnlyAt(k, root.map[s].map, root'.map[s].map)
            BY <2>1, <2>3, <4>1, <4>4, PutMap DEF Tree!OnlyAt
          <5>2. QED
            BY <2>5, <3>3, <4>1, <5>1 DEF Tree!Replaced
        <4>5. QED
          BY <2>2, <2>3, <3>1, <3>3, <4>2, <4>3, <4>4
      <3>4. QED
        BY <3>2, <3>3
    <2>6. ASSUME NEW t \in Sections, NEW j \in Keys, p = <<t, j>>
          PROVE  \/ Tree!HasKey(root', s, k) /\ root'.map[s].map[k] = root.map[s].map[k]
                 \/ Tree!Replaced(p, s, k)
      <3> DEFINE d == Tree!Put(Tree!Child(root, t), j, c)
      <3>1. root' = Tree!Put(root, t, d)
        BY <2>2, <2>6 DEF Tree!Update
      <3>2. CASE t # s
        <4> HIDE DEF d
        <4>1. QED
          BY <2>1, <2>3, <3>1, <3>2, PutMap DEF Tree!HasKey
      <3>3. CASE t = s
        <4>1. d = Tree!Put(root.map[s], j, c)
          BY <2>3, <3>3
        <4> HIDE DEF d
        <4>2. Tree!is_object(root') /\ Tree!OnlyAt(s, root.map, root'.map) /\ root'.map[s] = d
          BY <2>1, <2>3, <3>1, <3>3, PutMap DEF Tree!OnlyAt
        <4>3. CASE j # k
          BY <2>1, <2>3, <4>1, <4>2, <4>3, PutMap DEF Tree!HasKey, Tree!OnlyAt
        <4>4. CASE j = k
          <5>1. Tree!is_object(d) /\ Tree!OnlyAt(k, root.map[s].map, d.map)
            BY <2>1, <2>3, <4>1, <4>4, PutMap DEF Tree!OnlyAt
          <5>2. QED
            BY <2>6, <3>3, <4>2, <4>4, <5>1 DEF Tree!Replaced
        <4>5. QED
          BY <4>3, <4>4
      <3>4. QED
        BY <3>2, <3>3
    <2>7. QED
      BY <2>4, <2>5, <2>6 DEF Tree!Paths
  <1>2. Tree!KeepsKeys
    BY <1>1 DEF Tree!KeepsKeys
  <1>3. [ValuesNext]_valuesVars => [unit = "tree" => Tree!KeepsKeys]_treeVars
    BY <1>2
  <1>4. QED
    BY <1>3, PTL DEF ValuesSpec, KeysKept

-----------------------------------------------------------------------------
(* FixedBitSet *)

\* A set of numbers that is not empty has a least element ...
LEMMA LeastExists ==
    ASSUME NEW S \in SUBSET Nat, S # {}
    PROVE  Bits!Min(S) \in S /\ \A y \in S : Bits!Min(S) <= y
  <1> DEFINE R == {ss \in Nat \X Nat : ss[1] < ss[2]}
  <1>1. IsWellFoundedOn(R, Nat)
    BY NatLessThanWellFounded, Zenon DEF OpToRel
  <1> HIDE DEF R
  <1>2. PICK x \in S : \A y \in S : ~(<<y, x>> \in R)
    BY <1>1, WFMin
  <1>3. ASSUME NEW y \in S PROVE x <= y
    <2>1. x \in Nat /\ y \in Nat /\ <<y, x>> \notin R
      BY <1>2
    <2>2. y < x => <<y, x>> \in R
      BY <2>1 DEF R
    <2>3. QED
      BY <2>1, <2>2
  <1>4. QED
    BY <1>3 DEF Bits!Min

\* ... and one that is bounded a greatest.
LEMMA GreatestExists ==
    ASSUME NEW b \in Nat, NEW S \in SUBSET (0 .. b), S # {}
    PROVE  Bits!Max(S) \in S /\ \A y \in S : Bits!Max(S) >= y
  <1> DEFINE T == {b - y : y \in S}
  <1>1. T \in SUBSET Nat /\ T # {}
    <2>1. \A y \in S : b - y \in Nat
      OBVIOUS
    <2>2. QED
      BY <2>1
  <1>2. Bits!Min(T) \in T /\ \A y \in T : Bits!Min(T) <= y
    BY <1>1, LeastExists
  <1>3. PICK x \in S : Bits!Min(T) = b - x
    BY <1>2
  <1>4. \A y \in S : b - y \in T
    OBVIOUS
  <1>5. ASSUME NEW y \in S PROVE x >= y
    <2>1. b - y \in T
      BY <1>4
    <2> HIDE DEF T
    <2>2. b - x <= b - y
      BY <1>2, <1>3, <2>1
    <2>3. x \in Int /\ y \in Int
      OBVIOUS
    <2>4. QED
      BY <2>2, <2>3
  <1>6. QED
    BY <1>5 DEF Bits!Max

\* A bit lies in the byte that division says, and bytes do not overlap.
LEMMA ByteOf ==
    ASSUME NEW p \in Nat, Bits!SizeAssumption
    PROVE  /\ (p \div ByteBits) * ByteBits \in Nat /\ p \div ByteBits \in Nat /\ p % ByteBits \in Nat
           /\ (p \div ByteBits) * ByteBits <= p /\ p < (p \div ByteBits) * ByteBits + ByteBits
           /\ (p \div ByteBits) * ByteBits = p - (p % ByteBits)
           /\ Bits!Byte(p \div ByteBits) = (p - (p % ByteBits)) .. (p - (p % ByteBits)) + ByteBits - 1
  <1> DEFINE q == p \div ByteBits
             r == p % ByteBits
  <1>1. ByteBits \in Nat \ {0}
    BY DEF Bits!SizeAssumption
  <1>2. p = ByteBits * q + r /\ q \in Nat /\ r \in 0 .. ByteBits - 1
    BY <1>1, DivMod
  <1>3. Bits!Byte(q) = q * ByteBits .. (q + 1) * ByteBits - 1
    BY DEF Bits!Byte
  <1> HIDE DEF q, r
  <1>4. q * ByteBits = p - r /\ (q + 1) * ByteBits = (p - r) + ByteBits /\ q * ByteBits \in Nat
    BY <1>1, <1>2, SMTT(30)
  <1>5. QED
    BY <1>1, <1>2, <1>3, <1>4 DEF q, r

BitsInv == N \in Nat \ {0} /\ bits_ \subseteq 0 .. N - 1

\* find_first_set, on each of its ways out.
LEMMA FirstFound ==
    ASSUME BitsInv, NEW offset \in 0 .. N,
           {p \in bits_ : p >= offset - (offset % ByteBits)} = Bits!From(offset)
    PROVE  Bits!find_first_set(offset) = Bits!FirstOf(Bits!From(offset))
  <1> DEFINE rest == {p \in Bits!Byte(offset \div ByteBits) : p >= offset}
             start == offset - (offset % ByteBits)
  <1>1. /\ N \in Nat \ {0} /\ ByteBits \in Nat \ {0} /\ offset \in Nat
        /\ \A p \in bits_ : p \in Nat /\ p < N
    BY BitsAssumption DEF BitsInv, Bits!SizeAssumption
  <1>2. /\ start \in Nat /\ start <= offset /\ offset < start + ByteBits
        /\ Bits!Byte(offset \div ByteBits) = start .. start + ByteBits - 1
    BY <1>1, ByteOf, BitsAssumption
  <1>3. rest = offset .. start + ByteBits - 1
    <2> HIDE DEF start
    <2>1. QED
      BY <1>1, <1>2
  <1>4. Bits!find_first_set(offset) =
          IF offset >= N THEN Bits!npos
          ELSE IF \E p \in rest : Bits!test(p) THEN Bits!FirstOf(rest \cap bits_)
          ELSE IF \E p \in rest : p >= N THEN Bits!npos
          ELSE Bits!FirstOf(Bits!From(offset))
    BY DEF Bits!find_first_set
  <1>5. \A p : p \in Bits!From(offset) <=> p \in bits_ /\ p >= offset
    BY DEF Bits!From
  <1> HIDE DEF rest, start
  <1>6. CASE offset >= N
    <2>1. Bits!From(offset) = {}
      BY <1>1, <1>5, <1>6
    <2>2. QED
      BY <1>4, <1>6, <2>1 DEF Bits!FirstOf
  <1>7. CASE offset < N /\ \E p \in rest : Bits!test(p)
    <2> DEFINE A == rest \cap bits_
               B == Bits!From(offset)
    <2>1. A # {} /\ A \in SUBSET Nat /\ B \in SUBSET Nat /\ A \subseteq B
      <3>1. A # {}
        BY <1>7 DEF Bits!test
      <3>2. \A p \in rest : p >= offset
        BY <1>1, <1>2, <1>3
      <3>3. QED
        BY <1>1, <1>5, <3>1, <3>2
    <2>2. B # {}
      BY <2>1
    <2>3. \A p \in B : p \in A \/ \A q \in A : q < p
      BY <1>1, <1>2, <1>3, <1>5
    <2> HIDE DEF A, B
    <2>4. /\ Bits!Min(A) \in A /\ \A y \in A : Bits!Min(A) <= y
          /\ Bits!Min(B) \in B /\ \A y \in B : Bits!Min(B) <= y
      BY <2>1, <2>2, LeastExists
    <2>5. Bits!Min(A) \in Nat /\ Bits!Min(B) \in Nat /\ Bits!Min(B) <= Bits!Min(A)
      BY <2>1, <2>4
    <2>6. Bits!Min(A) <= Bits!Min(B)
      BY <2>3, <2>4, <2>5
    <2>7. Bits!Min(A) = Bits!Min(B)
      BY <2>5, <2>6
    <2>8. Bits!find_first_set(offset) = Bits!Min(A)
      BY <1>1, <1>4, <1>7, <2>1 DEF Bits!FirstOf, A
    <2>9. QED
      BY <2>2, <2>7, <2>8 DEF Bits!FirstOf, B
  <1>8. CASE offset < N /\ ~(\E p \in rest : Bits!test(p)) /\ \E p \in rest : p >= N
    <2>1. PICK p \in rest : p >= N
      BY <1>8
    <2>2. \A b \in Bits!From(offset) : b \in rest
      BY <1>1, <1>2, <1>3, <1>5, <2>1
    <2>3. \A b \in Bits!From(offset) : Bits!test(b)
      BY <1>1, <1>5 DEF Bits!test
    <2>4. Bits!From(offset) = {}
      BY <1>8, <2>2, <2>3
    <2>5. QED
      BY <1>1, <1>4, <1>8, <2>4 DEF Bits!FirstOf
  <1>9. CASE offset < N /\ ~(\E p \in rest : Bits!test(p)) /\ ~(\E p \in rest : p >= N)
    BY <1>1, <1>4, <1>9
  <1>10. QED
    BY <1>1, <1>6, <1>7, <1>8, <1>9

\* find_last_set, whatever it reads from the byte past the end.
LEMMA LastFound ==
    ASSUME BitsInv, NEW offset \in 0 .. N - 1, {p \in bits_ : p < N - offset} # {}
    PROVE  Bits!find_last_set(offset) = {Bits!Max({p \in bits_ : p < N - offset})}
  <1> DEFINE limit == N - offset
             byte == limit \div ByteBits
             below == {p \in bits_ : p < limit}
             seen == IF byte >= Bits!cap_ THEN BOOLEAN ELSE {bits_ \cap Bits!Byte(byte) # {}}
             start == byte * ByteBits
             low == {p \in bits_ : p < start}
  <1>1. /\ N \in Nat \ {0} /\ ByteBits \in Nat \ {0} /\ offset \in Nat /\ offset < N
        /\ limit \in Nat /\ limit <= N
        /\ \A p \in bits_ : p \in Nat /\ p < N
    BY BitsAssumption DEF BitsInv, Bits!SizeAssumption
  <1>2. /\ byte \in Nat /\ start \in Nat /\ start <= limit /\ limit < start + ByteBits
        /\ Bits!Byte(byte) = start .. start + ByteBits - 1
    <2> HIDE DEF limit
    <2>1. QED
      BY <1>1, ByteOf, BitsAssumption
  <1>3. Bits!find_last_set(offset) =
          {IF nonzero THEN IF below # {} THEN Bits!Max(below) ELSE Bits!LastOf(bits_)
           ELSE Bits!LastOf(low) : nonzero \in seen}
    <2> DEFINE answers == {IF nonzero THEN IF below # {} THEN Bits!Max(below) ELSE Bits!LastOf(bits_)
                           ELSE Bits!LastOf(low) : nonzero \in seen}
    <2>1. Bits!find_last_set(offset) = IF offset >= N THEN {Bits!npos} ELSE answers
      BY Zenon DEF Bits!find_last_set
    <2>2. ~(offset >= N)
      BY <1>1
    <2> HIDE DEF answers
    <2>3. Bits!find_last_set(offset) = answers
      BY <2>1, <2>2
    <2>4. QED
      BY <2>3 DEF answers
  <1>4. below # {}
    OBVIOUS
  <1>5. seen # {} /\ seen \subseteq BOOLEAN
    OBVIOUS
  <1>6. ASSUME FALSE \in seen PROVE low = below
    <2>1. CASE byte >= Bits!cap_
      <3>1. Bits!cap_ \in Nat /\ Bits!cap_ * ByteBits >= N
        <4> DEFINE n == N + ByteBits - 1
        <4>1. n \in Nat /\ Bits!cap_ = n \div ByteBits
          BY <1>1 DEF Bits!cap_
        <4> HIDE DEF n
        <4>2. n = ByteBits * (n \div ByteBits) + (n % ByteBits) /\ n \div ByteBits \in Nat
              /\ n % ByteBits \in 0 .. ByteBits - 1
          BY <1>1, <4>1, DivMod
        <4>3. ByteBits * (n \div ByteBits) = (n \div ByteBits) * ByteBits
          BY <1>1, <4>2
        <4>4. QED
          BY <1>1, <4>1, <4>2, <4>3 DEF n
      <3>2. start >= N
        <4>1. ASSUME NEW x \in Nat, NEW y \in Nat, x >= y PROVE x * ByteBits >= y * ByteBits
          BY <1>1, <4>1, SMTT(30)
        <4>2. start >= Bits!cap_ * ByteBits
          BY <1>2, <2>1, <3>1, <4>1
        <4>3. QED
          BY <1>1, <1>2, <3>1, <4>2
      <3>3. QED
        BY <1>1, <1>2, <3>2
    <2>2. CASE ~(byte >= Bits!cap_)
      <3>1. bits_ \cap Bits!Byte(byte) = {}
        BY <1>6, <2>2
      <3>2. \A p \in bits_ : ~(p >= start /\ p < start + ByteBits)
        BY <1>1, <1>2, <3>1
      <3>3. QED
        BY <1>1, <1>2, <3>2
    <2>3. QED
      BY <2>1, <2>2
  <1>7. low # {} => Bits!LastOf(low) = Bits!Max(low)
    BY DEF Bits!LastOf
  <1> HIDE DEF limit, byte, below, seen, low, start
  <1>8. \A nonzero \in seen :
            (IF nonzero THEN IF below # {} THEN Bits!Max(below) ELSE Bits!LastOf(bits_)
             ELSE Bits!LastOf(low)) = Bits!Max(below)
    BY <1>4, <1>5, <1>6, <1>7
  <1>9. Bits!find_last_set(offset) = {Bits!Max(below)}
    BY <1>3, <1>5, <1>8
  <1>10. QED
    BY <1>9 DEF below, limit

\* fixed_bit_set.h: the two searches find what they look for, for every size,
\* every width of a byte and every bit set.
THEOREM ScansCorrect == ValuesSpec => []ScansFind
  <1>1. ValuesInit => BitsInv
    BY BitsAssumption DEF ValuesInit, Bits!Init, Bits!SizeAssumption, BitsInv
  <1>2. BitsInv /\ [ValuesNext]_valuesVars => BitsInv'
    <2> SUFFICES ASSUME BitsInv, [ValuesNext]_valuesVars PROVE BitsInv'
      OBVIOUS
    <2>1. CASE Bits!set
      <3>1. PICK index \in 0 .. N : bits_' = IF index < N THEN bits_ \cup {index} ELSE bits_
        BY <2>1 DEF Bits!set
      <3>2. QED
        BY <2>1, <3>1 DEF Bits!set, BitsInv
    <2>2. CASE Bits!clear
      BY <2>2 DEF Bits!clear, BitsInv
    <2>3. CASE UNCHANGED bitsVars
      BY <2>3 DEF bitsVars, BitsInv
    <2>4. QED
      BY <2>1, <2>2, <2>3 DEF ValuesNext, valuesVars, Bits!Next
  <1>3. BitsInv => ScansFind
    BY FirstFound, LastFound DEF ScansFind, Bits!FirstSetFound, Bits!LastSetFound
  <1>4. QED
    BY <1>1, <1>2, <1>3, PTL DEF ValuesSpec

-----------------------------------------------------------------------------
(* DynamicBuffer *)

DynamicTypes ==
    /\ capacity_ \in [Objects -> Nat] /\ size_ \in [Objects -> Nat]
    /\ data_ \in [Objects -> Blocks \cup {NULL}] /\ expand_size_ \in [Objects -> Nat]
    /\ DOMAIN heap \subseteq Blocks /\ assigned \in BOOLEAN

\* The three properties together with the types are inductive.
DynamicInv ==
    /\ DynamicTypes
    /\ Dynamic!OwnedOnce /\ Dynamic!FitsBlock /\ Dynamic!LeakOnlyByAssign

\* reserve grows to at least what is asked for.
LEMMA GrownFits ==
    ASSUME DynamicInv, NEW x \in Objects, NEW n \in Nat, n > capacity_[x], expand_size_[x] # 0
    PROVE  Dynamic!Grown(x, n) \in Nat /\ Dynamic!Grown(x, n) >= n
  <1> DEFINE e == expand_size_[x]
             cap == capacity_[x]
             g == Dynamic!Grown(x, n)
  <1>1. e \in Nat \ {0} /\ cap \in Nat /\ cap <= n
    BY DEF DynamicInv, DynamicTypes
  <1>2. g = CHOOSE c \in n .. n + e - 1 : (c - cap) % e = 0
    BY DEF Dynamic!Grown
  <1> HIDE DEF e, cap, g
  <1>3. \E c \in n .. n + e - 1 : (c - cap) % e = 0
    BY <1>1, MultipleFound
  <1>4. g \in n .. n + e - 1
    BY <1>2, <1>3
  <1>5. g \in Nat /\ g >= n
    BY <1>1, <1>4
  <1>6. QED
    BY <1>5 DEF g

\* reserve keeps the ownership of blocks, and afterwards n fits if it returns.
LEMMA ReserveKeeps ==
    ASSUME DynamicInv, NEW x \in Objects, NEW n \in Nat, Dynamic!reserve(x, n),
           UNCHANGED <<expand_size_, assigned>>, size_' \in [Objects -> Nat],
           \A y \in Objects \ {x} : size_'[y] = size_[y],
           size_'[x] = size_[x] \/ (x \notin spins' /\ size_'[x] = n)
    PROVE  DynamicInv'
  <1>1. DynamicTypes /\ NULL \notin Blocks
    BY DynamicAssumption DEF DynamicInv, Dynamic!BlocksAssumption
  <1>2. CASE n <= capacity_[x]
    <2>1. UNCHANGED <<capacity_, data_, heap>>
      BY <1>2 DEF Dynamic!reserve
    <2>2. \A y \in Objects : size_'[y] <= capacity_[y]
      BY <1>1, <1>2 DEF DynamicInv, Dynamic!FitsBlock, DynamicTypes
    <2>3. QED
      BY <1>1, <2>1, <2>2 DEF DynamicInv, DynamicTypes, Dynamic!OwnedOnce, Dynamic!FitsBlock,
         Dynamic!LeakOnlyByAssign
  <1>3. CASE n > capacity_[x] /\ expand_size_[x] = 0
    <2>1. UNCHANGED <<capacity_, data_, heap>> /\ x \in spins'
      BY <1>1, <1>3 DEF Dynamic!reserve, DynamicTypes
    <2>2. \A y \in Objects : size_'[y] <= capacity_[y]
      BY <1>1, <2>1 DEF DynamicInv, Dynamic!FitsBlock, DynamicTypes
    <2>3. QED
      BY <1>1, <2>1, <2>2 DEF DynamicInv, DynamicTypes, Dynamic!OwnedOnce, Dynamic!FitsBlock,
         Dynamic!LeakOnlyByAssign
  <1>4. CASE n > capacity_[x] /\ expand_size_[x] # 0
    <2> DEFINE g == Dynamic!Grown(x, n)
    <2>1. g \in Nat /\ g >= n
      BY <1>4, GrownFits
    <2> HIDE DEF g
    <2>2. PICK b \in Dynamic!Fresh :
            /\ heap' = Dynamic!Without(Dynamic!With(heap, b, g), data_[x])
            /\ data_' = [data_ EXCEPT ![x] = b] /\ capacity_' = [capacity_ EXCEPT ![x] = g]
      BY <1>1, <1>4 DEF Dynamic!reserve, g, DynamicTypes
    <2>3. b \in Blocks /\ b \notin DOMAIN heap
      BY DEF Dynamic!Fresh
    <2>4. data_[x] # b /\ (data_[x] # NULL => data_[x] \in DOMAIN heap)
      BY <1>1, <2>3 DEF DynamicInv, Dynamic!OwnedOnce
    <2>5. /\ DOMAIN heap' = (DOMAIN heap \cup {b}) \ {data_[x]} /\ heap'[b] = g
          /\ \A d \in DOMAIN heap \ {data_[x]} : heap'[d] = heap[d]
      <3> DEFINE h == Dynamic!With(heap, b, g)
      <3>1. DOMAIN h = DOMAIN heap \cup {b} /\ h[b] = g /\ \A d \in DOMAIN heap \ {b} : h[d] = heap[d]
        BY DEF Dynamic!With
      <3>2. heap' = Dynamic!Without(h, data_[x])
        BY <2>2
      <3> HIDE DEF h
      <3>3. DOMAIN heap' = DOMAIN h \ {data_[x]} /\ \A d \in DOMAIN h \ {data_[x]} : heap'[d] = h[d]
        BY <3>2 DEF Dynamic!Without, Dynamic!Restrict
      <3>4. QED
        BY <2>3, <2>4, <3>1, <3>3
    <2>6. /\ data_'[x] = b /\ capacity_'[x] = g
          /\ \A y \in Objects \ {x} : data_'[y] = data_[y] /\ capacity_'[y] = capacity_[y]
      BY <1>1, <2>2 DEF DynamicTypes
    <2>7. DynamicTypes'
      BY <1>1, <2>1, <2>2, <2>3, <2>5 DEF DynamicTypes
    <2>8. size_'[x] <= g
      BY <1>1, <1>4, <2>1 DEF DynamicInv, Dynamic!FitsBlock, DynamicTypes
    <2>9. Dynamic!OwnedOnce'
      BY <2>3, <2>4, <2>5, <2>6 DEF DynamicInv, Dynamic!OwnedOnce
    <2>10. Dynamic!FitsBlock'
      BY <1>1, <2>3, <2>4, <2>5, <2>6, <2>8 DEF DynamicInv, Dynamic!FitsBlock, Dynamic!OwnedOnce
    <2>11. Dynamic!LeakOnlyByAssign'
      BY <2>5, <2>6 DEF DynamicInv, Dynamic!LeakOnlyByAssign
    <2>12. QED
      BY <2>7, <2>9, <2>10, <2>11 DEF DynamicInv
  <1>5. QED
    BY <1>1, <1>2, <1>3, <1>4 DEF DynamicTypes

\* clear, with and without the block.
LEMMA ClearKeeps ==
    ASSUME DynamicInv, NEW x \in Objects, NEW r \in BOOLEAN, Dynamic!clear(x, r)
    PROVE  DynamicInv'
  <1>1. DynamicTypes /\ NULL \notin Blocks
    BY DynamicAssumption DEF DynamicInv, Dynamic!BlocksAssumption
  <1>2. size_' = [size_ EXCEPT ![x] = 0] /\ UNCHANGED <<expand_size_, assigned>>
    BY DEF Dynamic!clear
  <1>3. size_'[x] = 0 /\ (\A y \in Objects \ {x} : size_'[y] = size_[y]) /\ size_' \in [Objects -> Nat]
    BY <1>1, <1>2 DEF DynamicTypes
  <1>4. CASE ~(r /\ data_[x] # NULL)
    <2>1. UNCHANGED <<capacity_, data_, heap>>
      BY <1>4 DEF Dynamic!clear
    <2>2. \A y \in Objects : size_'[y] <= capacity_[y]
      BY <1>1, <1>3 DEF DynamicInv, Dynamic!FitsBlock, DynamicTypes
    <2>3. QED
      BY <1>1, <1>2, <1>3, <2>1, <2>2 DEF DynamicInv, DynamicTypes, Dynamic!OwnedOnce, Dynamic!FitsBlock,
         Dynamic!LeakOnlyByAssign
  <1>5. CASE r /\ data_[x] # NULL
    <2>1. /\ capacity_' = [capacity_ EXCEPT ![x] = 0] /\ data_' = [data_ EXCEPT ![x] = NULL]
          /\ heap' = Dynamic!Without(heap, data_[x])
      BY <1>5 DEF Dynamic!clear
    <2>2. /\ DOMAIN heap' = DOMAIN heap \ {data_[x]}
          /\ \A d \in DOMAIN heap \ {data_[x]} : heap'[d] = heap[d]
      BY <2>1 DEF Dynamic!Without, Dynamic!Restrict
    <2>3. /\ data_'[x] = NULL /\ capacity_'[x] = 0
          /\ \A y \in Objects \ {x} : data_'[y] = data_[y] /\ capacity_'[y] = capacity_[y]
      BY <1>1, <2>1 DEF DynamicTypes
    <2>4. DynamicTypes'
      BY <1>1, <1>2, <1>3, <2>1, <2>2 DEF DynamicTypes
    <2>5. Dynamic!OwnedOnce'
      BY <1>5, <2>2, <2>3 DEF DynamicInv, Dynamic!OwnedOnce
    <2>6. Dynamic!FitsBlock'
      BY <1>1, <1>3, <1>5, <2>2, <2>3 DEF DynamicInv, Dynamic!FitsBlock, Dynamic!OwnedOnce
    <2>7. Dynamic!LeakOnlyByAssign'
      BY <1>2, <2>2, <2>3 DEF DynamicInv, Dynamic!LeakOnlyByAssign
    <2>8. QED
      BY <2>4, <2>5, <2>6, <2>7 DEF DynamicInv
  <1>6. QED
    BY <1>4, <1>5

\* The copy constructor and operator=: only the latter may lose a block.
LEMMA TakeoverKeeps ==
    ASSUME DynamicInv, NEW x \in Objects, NEW rhs \in Objects,
           Dynamic!Copy(x, rhs) \/ Dynamic!Assign(x, rhs)
    PROVE  DynamicInv'
  <1>1. DynamicTypes /\ NULL \notin Blocks
    BY DynamicAssumption DEF DynamicInv, Dynamic!BlocksAssumption
  <1>2. PICK b \in Dynamic!Fresh : Dynamic!Take(x, rhs, b)
    BY DEF Dynamic!Copy, Dynamic!Assign
  <1>3. /\ UNCHANGED expand_size_ /\ assigned' \in BOOLEAN
        /\ ~assigned' => ~assigned /\ data_[x] = NULL
    BY <1>1 DEF Dynamic!Copy, Dynamic!Assign, DynamicTypes
  <1>4. b \in Blocks /\ b \notin DOMAIN heap
    BY DEF Dynamic!Fresh
  <1>5. /\ capacity_' = [capacity_ EXCEPT ![x] = capacity_[rhs]] /\ size_' = [size_ EXCEPT ![x] = size_[rhs]]
        /\ data_' = [data_ EXCEPT ![x] = b] /\ heap' = Dynamic!With(heap, b, capacity_[rhs])
    BY <1>2 DEF Dynamic!Take
  <1>6. /\ DOMAIN heap' = DOMAIN heap \cup {b} /\ heap'[b] = capacity_[rhs]
        /\ \A d \in DOMAIN heap : heap'[d] = heap[d]
    BY <1>4, <1>5 DEF Dynamic!With
  <1>7. /\ data_'[x] = b /\ capacity_'[x] = capacity_[rhs] /\ size_'[x] = size_[rhs]
        /\ \A y \in Objects \ {x} :
             data_'[y] = data_[y] /\ capacity_'[y] = capacity_[y] /\ size_'[y] = size_[y]
    BY <1>1, <1>5 DEF DynamicTypes
  <1>8. DynamicTypes'
    BY <1>1, <1>3, <1>4, <1>5, <1>6 DEF DynamicTypes
  <1>9. Dynamic!OwnedOnce'
    BY <1>4, <1>6, <1>7 DEF DynamicInv, Dynamic!OwnedOnce
  <1>10. Dynamic!FitsBlock'
    BY <1>1, <1>4, <1>6, <1>7 DEF DynamicInv, Dynamic!FitsBlock, Dynamic!OwnedOnce
  <1>11. Dynamic!LeakOnlyByAssign'
    <2> SUFFICES ASSUME ~assigned', NEW d \in DOMAIN heap' PROVE \E y \in Objects : d = data_'[y]
      BY DEF Dynamic!LeakOnlyByAssign
    <2>1. CASE d = b
      BY <1>7, <2>1
    <2>2. CASE d \in DOMAIN heap
      <3>1. PICK y \in Objects : d = data_[y]
        BY <1>3, <2>2 DEF DynamicInv, Dynamic!LeakOnlyByAssign
      <3>2. y # x
        BY <1>1, <1>3, <2>2, <3>1 DEF DynamicTypes
      <3>3. QED
        BY <1>7, <3>1, <3>2
    <2>3. QED
      BY <1>6, <2>1, <2>2
  <1>12. QED
    BY <1>8, <1>9, <1>10, <1>11 DEF DynamicInv

\* The move constructor leaves its source without a block.
LEMMA MoveKeepsBlocks ==
    ASSUME DynamicInv, NEW x \in Objects, NEW rhs \in Objects, Dynamic!Move(x, rhs)
    PROVE  DynamicInv'
  <1>1. DynamicTypes /\ NULL \notin Blocks /\ x # rhs /\ data_[x] = NULL
    BY DynamicAssumption DEF DynamicInv, Dynamic!BlocksAssumption, Dynamic!Move
  <1>2. /\ capacity_' = [capacity_ EXCEPT ![x] = capacity_[rhs], ![rhs] = 0]
        /\ size_' = [size_ EXCEPT ![x] = size_[rhs], ![rhs] = 0]
        /\ data_' = [data_ EXCEPT ![x] = data_[rhs], ![rhs] = NULL]
        /\ UNCHANGED <<expand_size_, heap, assigned>>
    BY DEF Dynamic!Move
  <1>3. heap' = heap
    BY <1>2
  <1>4. /\ data_'[x] = data_[rhs] /\ capacity_'[x] = capacity_[rhs] /\ size_'[x] = size_[rhs]
        /\ data_'[rhs] = NULL /\ capacity_'[rhs] = 0 /\ size_'[rhs] = 0
        /\ \A y \in Objects \ {x, rhs} :
             data_'[y] = data_[y] /\ capacity_'[y] = capacity_[y] /\ size_'[y] = size_[y]
    BY <1>1, <1>2 DEF DynamicTypes
  <1>5. DynamicTypes'
    BY <1>1, <1>2 DEF DynamicTypes
  <1>6. Dynamic!OwnedOnce'
    BY <1>3, <1>1, <1>4 DEF DynamicInv, Dynamic!OwnedOnce
  <1>7. Dynamic!FitsBlock'
    BY <1>3, <1>1, <1>4 DEF DynamicInv, Dynamic!FitsBlock
  <1>8. Dynamic!LeakOnlyByAssign'
    <2> SUFFICES ASSUME ~assigned, NEW d \in DOMAIN heap PROVE \E y \in Objects : d = data_'[y]
      BY <1>2 DEF Dynamic!LeakOnlyByAssign
    <2>1. PICK y \in Objects : d = data_[y]
      BY DEF DynamicInv, Dynamic!LeakOnlyByAssign
    <2>2. d # NULL
      BY <1>1 DEF DynamicTypes
    <2>3. QED
      BY <1>1, <1>4, <2>1, <2>2
  <1>9. QED
    BY <1>5, <1>6, <1>7, <1>8 DEF DynamicInv

\* Every step of dynamic_buffer.h.
LEMMA DynamicKeeps ==
    ASSUME DynamicInv, Dynamic!Next
    PROVE  DynamicInv'
  <1>1. DynamicTypes /\ MaxSize \in Nat /\ Expand \subseteq Nat
    BY DynamicAssumption DEF DynamicInv, Dynamic!BlocksAssumption
  <1>2. PICK x \in Objects :
          /\ spins = {}
          /\ \/ \E n \in 0 .. MaxSize : Dynamic!append(x, n) \/ Dynamic!resize(x, n)
             \/ \E r \in BOOLEAN : Dynamic!clear(x, r)
             \/ \E rhs \in Objects : Dynamic!Copy(x, rhs) \/ Dynamic!Assign(x, rhs) \/ Dynamic!Move(x, rhs)
             \/ \E n \in Expand : Dynamic!set_expand_size(x, n)
             \/ \E n \in 0 .. 1 : Dynamic!set_head_size(x, n)
    BY DEF Dynamic!Next
  <1>3. ASSUME NEW n \in 0 .. MaxSize, Dynamic!append(x, n) PROVE DynamicInv'
    <2> DEFINE m == size_[x] + n
    <2>1. m \in Nat /\ n \in Nat /\ size_[x] \in Nat
      BY <1>1 DEF DynamicTypes
    <2>2. /\ Dynamic!reserve(x, m) /\ UNCHANGED <<expand_size_, assigned>>
          /\ size_' = IF x \in spins' THEN size_ ELSE [size_ EXCEPT ![x] = m]
      BY <1>3 DEF Dynamic!append
    <2> HIDE DEF m
    <2>3. /\ size_' \in [Objects -> Nat] /\ \A y \in Objects \ {x} : size_'[y] = size_[y]
          /\ size_'[x] = size_[x] \/ (x \notin spins' /\ size_'[x] = m)
      BY <1>1, <2>1, <2>2 DEF DynamicTypes
    <2>4. QED
      BY <2>1, <2>2, <2>3, ReserveKeeps
  <1>4. ASSUME NEW n \in 0 .. MaxSize, Dynamic!resize(x, n) PROVE DynamicInv'
    <2>1. /\ Dynamic!reserve(x, n) /\ UNCHANGED <<expand_size_, assigned>> /\ n \in Nat
          /\ size_' = IF x \in spins' THEN size_ ELSE [size_ EXCEPT ![x] = n]
      BY <1>4 DEF Dynamic!resize
    <2>2. /\ size_' \in [Objects -> Nat] /\ \A y \in Objects \ {x} : size_'[y] = size_[y]
          /\ size_'[x] = size_[x] \/ (x \notin spins' /\ size_'[x] = n)
      BY <1>1, <2>1 DEF DynamicTypes
    <2>3. QED
      BY <2>1, <2>2, ReserveKeeps
  <1>5. ASSUME NEW n \in Expand, Dynamic!set_expand_size(x, n) PROVE DynamicInv'
    <2>1. UNCHANGED <<capacity_, size_, data_, heap, assigned>> /\ expand_size_' = [expand_size_ EXCEPT ![x] = n]
      BY <1>5 DEF Dynamic!set_expand_size, Dynamic!sizes
    <2>2. expand_size_' \in [Objects -> Nat]
      BY <1>1, <2>1 DEF DynamicTypes
    <2>3. QED
      BY <2>1, <2>2 DEF DynamicInv, DynamicTypes, Dynamic!OwnedOnce, Dynamic!FitsBlock, Dynamic!LeakOnlyByAssign
  <1>6. ASSUME NEW n \in 0 .. 1, Dynamic!set_head_size(x, n) PROVE DynamicInv'
    <2>1. UNCHANGED <<capacity_, size_, data_, heap, assigned, expand_size_>>
      BY <1>6 DEF Dynamic!set_head_size
    <2>2. QED
      BY <2>1 DEF DynamicInv, DynamicTypes, Dynamic!OwnedOnce, Dynamic!FitsBlock, Dynamic!LeakOnlyByAssign
  <1>7. QED
    BY <1>2, <1>3, <1>4, <1>5, <1>6, ClearKeeps, TakeoverKeeps, MoveKeepsBlocks

-----------------------------------------------------------------------------
(* FBuffer *)

Cell == 0 .. BufferSize - 1

\* One buffer: head and tail lie in the array, as far apart as there are bytes
\* to read, and until data was compacted those bytes are the ones appended.
Holds(d, h, t, u, m) ==
    /\ d \in [Cell -> Nat] /\ h \in Nat /\ t \in Nat /\ u \in Seq(Nat) /\ m \in BOOLEAN
    /\ h <= t /\ t <= BufferSize /\ Len(u) = t - h
    /\ ~m => \A i \in 1 .. Len(u) : u[i] = d[h + i - 1]

FixedInv ==
    /\ DOMAIN fdata = Buffers /\ DOMAIN fhead = Buffers /\ DOMAIN tail_ = Buffers
    /\ DOMAIN unread = Buffers /\ DOMAIN moved = Buffers
    /\ fdata = [b \in Buffers |-> fdata[b]] /\ fhead = [b \in Buffers |-> fhead[b]]
    /\ tail_ = [b \in Buffers |-> tail_[b]] /\ unread = [b \in Buffers |-> unread[b]]
    /\ moved = [b \in Buffers |-> moved[b]]
    /\ \A b \in Buffers : Holds(fdata[b], fhead[b], tail_[b], unread[b], moved[b])

\* What append writes behind the tail.
Written(d, t, s) == [i \in Cell |-> IF i \in t .. t + Len(s) - 1 THEN s[i - t + 1] ELSE d[i]]

\* All the bytes or none.
LEMMA AppendHolds ==
    ASSUME NEW d, NEW h, NEW t, NEW u, NEW m, Holds(d, h, t, u, m),
           NEW s \in Seq(Nat), Len(s) <= BufferSize - t, BufferSize \in Nat
    PROVE  Holds(Written(d, t, s), h, t + Len(s), u \o s, m)
  <1> DEFINE e == Written(d, t, s)
             v == u \o s
             n == Len(s)
  <1>1. /\ d \in [Cell -> Nat] /\ h \in Nat /\ t \in Nat /\ u \in Seq(Nat) /\ m \in BOOLEAN
        /\ h <= t /\ t <= BufferSize /\ Len(u) = t - h /\ n \in Nat /\ t + n <= BufferSize
    BY DEF Holds
  <1>2. /\ v \in Seq(Nat) /\ Len(v) = (t - h) + n
        /\ \A i \in 1 .. t - h : v[i] = u[i]
        /\ \A i \in 1 .. n : v[(t - h) + i] = s[i]
    <2>1. v \in Seq(Nat) /\ Len(v) = Len(u) + n
      BY <1>1
    <2>2. \A i \in 1 .. Len(u) + n : v[i] = IF i <= Len(u) THEN u[i] ELSE s[i - Len(u)]
      BY <1>1, SMTT(30)
    <2> HIDE DEF v, n
    <2>3. ASSUME NEW i \in 1 .. n PROVE v[(t - h) + i] = s[i]
      <3>1. /\ (t - h) + i \in 1 .. Len(u) + n /\ ~((t - h) + i <= Len(u))
            /\ ((t - h) + i) - Len(u) = i
        BY <1>1
      <3>2. QED
        BY <2>2, <3>1
    <2>4. ASSUME NEW i \in 1 .. t - h PROVE v[i] = u[i]
      BY <1>1, <2>2
    <2>5. QED
      BY <1>1, <2>1, <2>3, <2>4
  <1>3. \A i \in 1 .. n : s[i] \in Nat
    OBVIOUS
  <1>4. e \in [Cell -> Nat]
    <2>1. ASSUME NEW i \in Cell
          PROVE  (IF i \in t .. t + Len(s) - 1 THEN s[i - t + 1] ELSE d[i]) \in Nat
      <3>1. i \in Nat /\ d[i] \in Nat
        BY <1>1 DEF Cell
      <3>2. i \in t .. t + Len(s) - 1 => i - t + 1 \in 1 .. n
        BY <1>1, <3>1
      <3>3. QED
        BY <1>3, <3>1, <3>2
    <2>2. QED
      BY <2>1 DEF Written
  <1>5. /\ \A i \in Cell : i < t => e[i] = d[i]
        /\ \A i \in Cell : i >= t /\ i < t + n => e[i] = s[i - t + 1]
    BY <1>1 DEF Written, Cell
  <1> HIDE DEF e, v, n
  <1>6. ASSUME ~m, NEW i \in 1 .. Len(v) PROVE v[i] = e[h + i - 1]
    <2>1. i \in Nat /\ i >= 1 /\ i <= (t - h) + n /\ h + i - 1 \in Cell
      BY <1>1, <1>2 DEF Cell
    <2>2. CASE i <= t - h
      <3>1. v[i] = u[i] /\ u[i] = d[h + i - 1]
        BY <1>1, <1>2, <1>6, <2>1, <2>2, SMTT(30) DEF Holds
      <3>2. h + i - 1 < t
        BY <1>1, <2>1, <2>2
      <3>3. QED
        BY <1>5, <2>1, <3>1, <3>2
    <2>3. CASE i > t - h
      <3> DEFINE k == i - (t - h)
      <3>1. k \in 1 .. n /\ i = (t - h) + k /\ h + i - 1 >= t /\ h + i - 1 < t + n /\ (h + i - 1) - t + 1 = k
        BY <1>1, <2>1, <2>3
      <3> HIDE DEF k
      <3>2. v[i] = s[k]
        BY <1>2, <3>1
      <3>3. e[h + i - 1] = s[(h + i - 1) - t + 1]
        BY <1>5, <2>1, <3>1
      <3>4. QED
        BY <3>1, <3>2, <3>3
    <2>4. QED
      BY <1>1, <2>1, <2>2, <2>3
  <1>7. Holds(e, h, t + n, v, m)
    BY <1>1, <1>2, <1>4, <1>6 DEF Holds
  <1>8. QED
    BY <1>7 DEF e, v, n

\* peak skips bytes.
LEMMA PeakHolds ==
    ASSUME NEW d, NEW h, NEW t, NEW u, NEW m, Holds(d, h, t, u, m),
           NEW off \in Nat, h + off <= t
    PROVE  Holds(d, h + off, t, SubSeq(u, off + 1, Len(u)), m)
  <1> DEFINE v == SubSeq(u, off + 1, Len(u))
  <1>1. /\ d \in [Cell -> Nat] /\ h \in Nat /\ t \in Nat /\ u \in Seq(Nat) /\ m \in BOOLEAN
        /\ h <= t /\ t <= BufferSize /\ Len(u) = t - h /\ off <= Len(u)
    BY DEF Holds
  <1>2. v \in Seq(Nat) /\ Len(v) = Len(u) - off /\ \A i \in 1 .. Len(u) - off : v[i] = u[off + i]
    BY <1>1
  <1> HIDE DEF v
  <1>3. ASSUME ~m, NEW i \in 1 .. Len(v) PROVE v[i] = d[(h + off) + i - 1]
    <2>1. i \in Nat /\ i >= 1 /\ i <= Len(u) - off /\ Len(u) \in Nat
      BY <1>1, <1>2
    <2>2. off + i \in 1 .. Len(u) /\ h + (off + i) - 1 = (h + off) + i - 1
      BY <1>1, <2>1
    <2>3. u[off + i] = d[h + (off + i) - 1]
      BY <1>3, <2>2 DEF Holds
    <2>4. v[i] = u[off + i]
      BY <1>2
    <2>5. QED
      BY <2>2, <2>3, <2>4
  <1>4. Holds(d, h + off, t, v, m)
    BY <1>1, <1>2, <1>3 DEF Holds
  <1>5. QED
    BY <1>4 DEF v

\* shrink_to_fit: data() is the start of the array, so that nothing moves.
LEMMA ShrinkHolds ==
    ASSUME NEW d, NEW h, NEW t, NEW u, NEW m, Holds(d, h, t, u, m)
    PROVE  Holds(d, 0, t - h, u, m \/ (h > 0 /\ t - h > 0))
  <1>1. /\ d \in [Cell -> Nat] /\ h \in Nat /\ t \in Nat /\ u \in Seq(Nat) /\ m \in BOOLEAN
        /\ h <= t /\ t <= BufferSize /\ Len(u) = t - h
        /\ ~m => \A i \in 1 .. Len(u) : u[i] = d[h + i - 1]
    BY DEF Holds
  <1>2. CASE h = 0
    <2>1. t - h = t /\ (m \/ (h > 0 /\ t - h > 0)) = m
      BY <1>1, <1>2
    <2>2. QED
      BY <1>2, <2>1
  <1>3. CASE h # 0
    <2>1. t - h \in Nat /\ t - h <= t /\ Len(u) = (t - h) - 0 /\ h > 0
      BY <1>1, <1>3
    <2>2. ~(m \/ (h > 0 /\ t - h > 0)) => Len(u) = 0
      BY <1>1, <2>1
    <2> DEFINE w == m \/ (h > 0 /\ t - h > 0)
               k == t - h
    <2>3. w \in BOOLEAN /\ k \in Nat /\ 0 \in Nat /\ 0 <= k /\ k <= BufferSize /\ Len(u) = k - 0
      <3>1. w \in BOOLEAN
        OBVIOUS
      <3>2. k <= BufferSize
        BY <1>1, <2>1, FixedAssumption DEF Fixed!NAssumption
      <3>3. QED
        BY <2>1, <3>1, <3>2
    <2>4. ~w => 1 .. Len(u) = {}
      BY <2>2
    <2> HIDE DEF w, k
    <2>5. Holds(d, 0, k, u, w)
      BY <1>1, <2>3, <2>4 DEF Holds
    <2>6. QED
      BY <2>5 DEF w, k
  <1>4. QED
    BY <1>2, <1>3

\* Until data was compacted, reading gives what was appended.
LEMMA HoldsReads ==
    ASSUME FixedInv, NEW b \in Buffers, ~moved[b]
    PROVE  tail_[b] <= BufferSize /\ Fixed!Contents(b) = unread[b]
  <1> DEFINE d == fdata[b]
             h == fhead[b]
             t == tail_[b]
             u == unread[b]
  <1>1. /\ h \in Nat /\ t \in Nat /\ u \in Seq(Nat) /\ BufferSize \in Nat \ {0}
        /\ h <= t /\ t <= BufferSize /\ Len(u) = t - h
        /\ \A i \in 1 .. Len(u) : u[i] = d[h + i - 1]
    BY FixedAssumption DEF FixedInv, Holds, Fixed!NAssumption
  <1>2. Fixed!length(b) = t - h
    BY <1>1 DEF Fixed!length
  <1>3. Fixed!Contents(b) = [i \in 1 .. t - h |-> d[(h + (i - 1)) % BufferSize]]
    BY <1>2 DEF Fixed!Contents, Fixed!At
  <1>4. u = [i \in 1 .. t - h |-> u[i]]
    BY <1>1
  <1> HIDE DEF d, h, t, u
  <1>5. ASSUME NEW i \in 1 .. t - h PROVE d[(h + (i - 1)) % BufferSize] = u[i]
    <2>1. h + (i - 1) = h + i - 1 /\ h + (i - 1) \in 0 .. BufferSize - 1
      BY <1>1
    <2>2. ASSUME NEW x \in 0 .. BufferSize - 1 PROVE x % BufferSize = x
      <3>1. BufferSize * 0 + x = x /\ 0 \in Nat /\ BufferSize \in Nat \ {0}
        BY <1>1
      <3>2. QED
        BY <3>1, ModIs
    <2>3. (h + (i - 1)) % BufferSize = h + i - 1
      BY <2>1, <2>2
    <2>4. QED
      BY <1>1, <2>3
  <1>6. QED
    BY <1>1, <1>3, <1>4, <1>5 DEF t, u

\* Every step of fbuffer.h, one buffer at a time.
LEMMA FixedKeeps ==
    ASSUME FixedInv, Fixed!Next
    PROVE  FixedInv'
  <1>1. BufferSize \in Nat \ {0} /\ MaxByte \in Nat
    BY FixedAssumption DEF Fixed!NAssumption
  <1>2. PICK b \in Buffers :
          \/ \E c \in 1 .. MaxByte, n \in 0 .. BufferSize + 1 : Fixed!append(b, [i \in 1 .. n |-> c])
          \/ \E off \in 0 .. BufferSize + 1 : Fixed!peak(b, off)
          \/ Fixed!shrink_to_fit(b)
          \/ \E rhs \in Buffers : Fixed!Copy(b, rhs)
    BY DEF Fixed!Next
  <1> DEFINE d == fdata[b]
             h == fhead[b]
             t == tail_[b]
             u == unread[b]
             m == moved[b]
  <1>3. Holds(d, h, t, u, m)
    BY DEF FixedInv
  <1>4. h \in Nat /\ t \in Nat /\ h <= t
    BY <1>3 DEF Holds
  <1>5. ASSUME NEW d2, NEW h2, NEW t2, NEW u2, NEW m2, Holds(d2, h2, t2, u2, m2),
               fdata' = [fdata EXCEPT ![b] = d2], fhead' = [fhead EXCEPT ![b] = h2],
               tail_' = [tail_ EXCEPT ![b] = t2], unread' = [unread EXCEPT ![b] = u2],
               moved' = [moved EXCEPT ![b] = m2]
        PROVE  FixedInv'
    <2>1. /\ fdata'[b] = d2 /\ fhead'[b] = h2 /\ tail_'[b] = t2 /\ unread'[b] = u2 /\ moved'[b] = m2
          /\ \A c \in Buffers \ {b} : /\ fdata'[c] = fdata[c] /\ fhead'[c] = fhead[c] /\ tail_'[c] = tail_[c]
                                      /\ unread'[c] = unread[c] /\ moved'[c] = moved[c]
      BY <1>5 DEF FixedInv
    <2>2. /\ DOMAIN fdata' = Buffers /\ DOMAIN fhead' = Buffers /\ DOMAIN tail_' = Buffers
          /\ DOMAIN unread' = Buffers /\ DOMAIN moved' = Buffers
          /\ fdata' = [c \in Buffers |-> fdata'[c]] /\ fhead' = [c \in Buffers |-> fhead'[c]]
          /\ tail_' = [c \in Buffers |-> tail_'[c]] /\ unread' = [c \in Buffers |-> unread'[c]]
          /\ moved' = [c \in Buffers |-> moved'[c]]
      BY <1>5 DEF FixedInv
    <2>3. \A c \in Buffers : Holds(fdata'[c], fhead'[c], tail_'[c], unread'[c], moved'[c])
      BY <1>5, <2>1 DEF FixedInv
    <2>4. QED
      BY <2>2, <2>3 DEF FixedInv
  <1>6. /\ fdata = [fdata EXCEPT ![b] = d] /\ fhead = [fhead EXCEPT ![b] = h]
        /\ tail_ = [tail_ EXCEPT ![b] = t] /\ unread = [unread EXCEPT ![b] = u]
        /\ moved = [moved EXCEPT ![b] = m]
    BY DEF FixedInv
  <1>7. ASSUME NEW c \in 1 .. MaxByte, NEW n \in 0 .. BufferSize + 1, Fixed!append(b, [i \in 1 .. n |-> c])
        PROVE  FixedInv'
    <2> DEFINE s == [i \in 1 .. n |-> c]
    <2>1. s \in Seq(Nat) /\ n \in Nat
      BY <1>1
    <2>2. fhead' = fhead /\ moved' = moved
      BY <1>7 DEF Fixed!append
    <2>3. CASE BufferSize - t < Len(s)
      <3>1. fdata' = fdata /\ tail_' = tail_ /\ unread' = unread
        BY <1>7, <2>3 DEF Fixed!append
      <3>2. QED
        BY <2>2, <3>1 DEF FixedInv
    <2>4. CASE ~(BufferSize - t < Len(s))
      <3>1. /\ fdata' = [fdata EXCEPT ![b] = Written(d, t, s)]
            /\ tail_' = [tail_ EXCEPT ![b] = t + Len(s)]
            /\ unread' = [unread EXCEPT ![b] = u \o s]
        BY <1>7, <2>4 DEF Fixed!append, Written, Cell, Fixed!Index
      <3> HIDE DEF s
      <3>2. Len(s) <= BufferSize - t
        BY <1>1, <1>4, <2>1, <2>4
      <3> HIDE DEF d, h, t, u, m
      <3>3. Holds(Written(d, t, s), h, t + Len(s), u \o s, m)
        BY <1>1, <1>3, <2>1, <3>2, AppendHolds
      <3>4. QED
        BY <1>5, <1>6, <2>2, <3>1, <3>3
    <2>5. QED
      BY <2>3, <2>4
  <1>8. ASSUME NEW off \in 0 .. BufferSize + 1, Fixed!peak(b, off)
        PROVE  FixedInv'
    <2>1. fdata' = fdata /\ tail_' = tail_ /\ moved' = moved
      BY <1>8 DEF Fixed!peak
    <2>2. CASE h + off > t
      <3>1. fhead' = fhead /\ unread' = unread
        BY <1>8, <2>2 DEF Fixed!peak
      <3>2. QED
        BY <2>1, <3>1 DEF FixedInv
    <2>3. CASE ~(h + off > t)
      <3>1. /\ fhead' = [fhead EXCEPT ![b] = h + off]
            /\ unread' = [unread EXCEPT ![b] = SubSeq(u, off + 1, Len(u))]
        BY <1>8, <2>3 DEF Fixed!peak
      <3>2. off \in Nat /\ h + off <= t
        BY <1>1, <1>4, <2>3
      <3> HIDE DEF d, h, t, u, m
      <3>3. Holds(d, h + off, t, SubSeq(u, off + 1, Len(u)), m)
        BY <1>3, <3>2, PeakHolds
      <3>4. QED
        BY <1>5, <1>6, <2>1, <3>1, <3>3
    <2>4. QED
      BY <2>2, <2>3
  <1>9. ASSUME Fixed!shrink_to_fit(b) PROVE FixedInv'
    <2>1. Fixed!length(b) = t - h
      BY <1>4 DEF Fixed!length
    <2>2. /\ tail_' = [tail_ EXCEPT ![b] = t - h] /\ fhead' = [fhead EXCEPT ![b] = 0]
          /\ moved' = [moved EXCEPT ![b] = m \/ (h > 0 /\ t - h > 0)]
          /\ fdata' = fdata /\ unread' = unread
      BY <1>9, <2>1 DEF Fixed!shrink_to_fit
    <2> HIDE DEF d, h, t, u, m
    <2>3. Holds(d, 0, t - h, u, m \/ (h > 0 /\ t - h > 0))
      BY <1>3, ShrinkHolds
    <2>4. QED
      BY <1>5, <1>6, <2>2, <2>3
  <1>10. ASSUME NEW rhs \in Buffers, Fixed!Copy(b, rhs) PROVE FixedInv'
    <2>1. Holds(fdata[rhs], fhead[rhs], tail_[rhs], unread[rhs], moved[rhs])
      BY DEF FixedInv
    <2>2. QED
      BY <1>5, <1>10, <2>1 DEF Fixed!Copy
  <1>11. QED
    BY <1>2, <1>7, <1>8, <1>9, <1>10

-----------------------------------------------------------------------------
(* Fstring *)

Place == 0 .. StringSize - 1

\* The last byte ends a string, and unless it is raw, zeros follow the first
\* zero.
Ended(d, r) ==
    /\ d \in [Place -> Characters] /\ d[StringSize - 1] = 0
    /\ ~r => \A i, j \in Place : i < j /\ d[i] = 0 => d[j] = 0

StringInv ==
    /\ str \in [Strings -> [Place -> Characters]] /\ raw \in [Strings -> BOOLEAN]
    /\ \A x \in Strings : Ended(str[x], raw[x])

\* length finds the first terminator.
LEMMA LengthIs ==
    ASSUME NEW d, NEW r, Ended(d, r)
    PROVE  /\ String!length(d) \in Nat /\ String!length(d) \in Place /\ d[String!length(d)] = 0
           /\ \A i \in Place : i < String!length(d) => d[i] # 0
  <1> DEFINE S == {i \in Place : d[i] = 0} \cup {StringSize}
             n == String!length(d)
  <1>1. StringSize \in Nat \ {0} /\ StringSize - 1 \in S /\ S \in SUBSET Nat /\ S # {}
        /\ StringSize - 1 < StringSize
    BY StringAssumption DEF String!NAssumption, Place, Ended
  <1>2. n = Bits!Min(S)
    BY DEF String!length, String!Min, Bits!Min, Place, String!Index
  <1> HIDE DEF n
  <1>3. n \in S /\ \A y \in S : n <= y
    <2> HIDE DEF S
    <2>1. QED
      BY <1>1, <1>2, LeastExists
  <1>4. n # StringSize
    BY <1>1, <1>3
  <1>5. n \in Place /\ d[n] = 0 /\ n \in Nat
    BY <1>1, <1>3, <1>4
  <1>6. ASSUME NEW i \in Place, i < n PROVE d[i] # 0
    <2>1. d[i] = 0 => i \in S
      OBVIOUS
    <2>2. i \in Nat
      BY <1>1 DEF Place
    <2>3. QED
      BY <1>3, <1>5, <1>6, <2>1, <2>2
  <1>7. QED
    BY <1>5, <1>6 DEF n

\* What is passed to the constructors: characters that are not the terminator.
LEMMA CStringIs ==
    ASSUME NEW s \in String!CStrings
    PROVE  s \in Seq(Characters) /\ Len(s) \in Nat /\ \A k \in 1 .. Len(s) : s[k] # 0 /\ s[k] \in Characters
  <1>1. PICK n \in 0 .. StringSize + 1 : s \in [1 .. n -> Characters \ {0}]
    BY DEF String!CStrings
  <1>2. n \in Nat
    BY StringAssumption DEF String!NAssumption
  <1>3. s \in Seq(Characters) /\ Len(s) = n
    BY <1>1, <1>2
  <1>4. QED
    BY <1>1, <1>2, <1>3

\* strncpy fills with zeros.
LEMMA StrncpyEnds ==
    ASSUME NEW s \in Seq(Characters), \A k \in 1 .. Len(s) : s[k] # 0
    PROVE  Ended(String!Strncpy(s), FALSE)
  <1> DEFINE e == String!Strncpy(s)
  <1>1. StringSize \in Nat \ {0} /\ 0 \in Characters /\ Len(s) \in Nat /\ \A k \in 1 .. Len(s) : s[k] \in Characters
    BY StringAssumption DEF String!NAssumption
  <1>2. e = [i \in Place |-> IF i < Len(s) /\ i < StringSize - 1 THEN s[i + 1] ELSE 0]
    BY DEF String!Strncpy, String!Index, Place
  <1> HIDE DEF e
  <1>3. \A i \in Place : i \in Nat /\ (i < Len(s) => i + 1 \in 1 .. Len(s))
    BY <1>1 DEF Place
  <1>4. e \in [Place -> Characters]
    BY <1>1, <1>2, <1>3
  <1>5. \A i \in Place : e[i] = 0 => ~(i < Len(s) /\ i < StringSize - 1)
    BY <1>2, <1>3
  <1>6. \A i \in Place : ~(i < Len(s) /\ i < StringSize - 1) => e[i] = 0
    BY <1>2
  <1>7. StringSize - 1 \in Place
    BY <1>1 DEF Place
  <1>8. e[StringSize - 1] = 0
    BY <1>1, <1>6, <1>7
  <1>9. \A i, j \in Place : i < j /\ e[i] = 0 => e[j] = 0
    BY <1>1, <1>3, <1>5, <1>6
  <1>10. Ended(e, FALSE)
    BY <1>4, <1>8, <1>9 DEF Ended
  <1>11. QED
    BY <1>10 DEF e

\* memcpy writes the last terminator itself.
LEMMA MemcpyEnds ==
    ASSUME NEW s \in Seq(Characters), NEW after \in [Place -> Characters]
    PROVE  Ended(String!Memcpy(s, after), TRUE)
  <1> DEFINE e == String!Memcpy(s, after)
  <1>1. StringSize \in Nat \ {0} /\ 0 \in Characters /\ Len(s) \in Nat /\ \A k \in 1 .. Len(s) : s[k] \in Characters
    BY StringAssumption DEF String!NAssumption
  <1>2. e = [i \in Place |-> IF i = StringSize - 1 THEN 0 ELSE IF i < Len(s) THEN s[i + 1] ELSE after[i]]
    BY DEF String!Memcpy, String!Index, Place
  <1> HIDE DEF e
  <1>3. \A i \in Place : i \in Nat /\ (i < Len(s) => i + 1 \in 1 .. Len(s))
    BY <1>1 DEF Place
  <1>4. e \in [Place -> Characters]
    BY <1>1, <1>2, <1>3
  <1>5. StringSize - 1 \in Place
    BY <1>1 DEF Place
  <1>6. Ended(e, TRUE)
    BY <1>2, <1>4, <1>5 DEF Ended
  <1>7. QED
    BY <1>6 DEF e

\* append leaves the string ended: its bytes and a terminator fit, or nothing
\* is written; zeros follow the first unless a terminator was among its bytes.
LEMMA AppendedEnds ==
    ASSUME NEW d, NEW r \in BOOLEAN, Ended(d, r), NEW s \in Seq(Characters)
    PROVE  LET e == String!Appended(d, s) IN Ended(e, r \/ (e # d /\ String!Embedded(s)))
  <1> DEFINE len == String!length(d)
             n == Len(s)
             e == [i \in Place |-> IF i \in len .. len + n - 1 THEN s[i - len + 1]
                                   ELSE IF i = len + n THEN 0 ELSE d[i]]
  <1>1. /\ StringSize \in Nat \ {0} /\ 0 \in Characters /\ n \in Nat /\ \A k \in 1 .. n : s[k] \in Characters
        /\ d \in [Place -> Characters] /\ d[StringSize - 1] = 0
        /\ ~r => \A i, j \in Place : i < j /\ d[i] = 0 => d[j] = 0
    BY StringAssumption DEF String!NAssumption, Ended
  <1>2. len \in Nat /\ len \in Place /\ d[len] = 0 /\ \A i \in Place : i < len => d[i] # 0
    BY LengthIs
  <1>3. String!Appended(d, s) = IF s = <<>> \/ n >= StringSize - len THEN d ELSE e
    BY DEF String!Appended, String!Index, Place
  <1> HIDE DEF len, n
  <1>4. CASE s = <<>> \/ n >= StringSize - len
    <2>1. String!Appended(d, s) = d
      BY <1>3, <1>4
    <2>2. QED
      BY <2>1
  <1>5. CASE ~(s = <<>> \/ n >= StringSize - len)
    <2>1. len + n <= StringSize - 1 /\ len + n \in Nat
      BY <1>1, <1>2, <1>5
    <2>2. \A i \in Place : /\ i \in Nat /\ i <= StringSize - 1
                           /\ (i >= len /\ i < len + n) => i - len + 1 \in 1 .. n
                           /\ i \in len .. len + n - 1 <=> (i >= len /\ i < len + n)
      BY <1>1, <1>2 DEF Place
    <2>3. /\ \A i \in Place : i < len => e[i] = d[i]
          /\ \A i \in Place : i >= len /\ i < len + n => e[i] = s[i - len + 1]
          /\ \A i \in Place : i = len + n => e[i] = 0
          /\ \A i \in Place : i > len + n => e[i] = d[i]
      BY <1>1, <1>2, <2>1, <2>2
    <2>4. e \in [Place -> Characters]
      BY <1>1, <2>2
    <2> HIDE DEF e
    <2>5. StringSize - 1 \in Place
      BY <1>1 DEF Place
    <2>6. e[StringSize - 1] = 0
      <3>1. CASE StringSize - 1 = len + n
        BY <2>3, <2>5, <3>1
      <3>2. CASE StringSize - 1 > len + n
        BY <1>1, <2>3, <2>5, <3>2
      <3>3. QED
        BY <1>1, <2>1, <3>1, <3>2
    <2>7. ASSUME ~(r \/ String!Embedded(s)), NEW i \in Place, NEW j \in Place, i < j, e[i] = 0 PROVE e[j] = 0
      <3>1. i >= len
        BY <1>1, <1>2, <2>2, <2>3, <2>7
      <3>2. CASE j < len + n
        <4>1. /\ i - len + 1 \in 1 .. n /\ j - len + 1 \in 1 .. n /\ i - len + 1 < j - len + 1
              /\ e[i] = s[i - len + 1] /\ e[j] = s[j - len + 1]
          BY <1>1, <1>2, <2>1, <2>2, <2>3, <2>7, <3>1, <3>2
        <4>2. QED
          BY <2>7, <4>1 DEF String!Embedded, n
      <3>3. CASE j = len + n
        BY <2>3, <3>3
      <3>4. CASE j > len + n
        <4>1. e[j] = d[j] /\ len < j
          BY <1>1, <1>2, <2>1, <2>2, <2>3, <3>4
        <4>2. QED
          BY <1>1, <1>2, <2>7, <4>1
      <3>5. QED
        BY <2>1, <2>2, <3>2, <3>3, <3>4
    <2>8. Ended(e, r \/ String!Embedded(s))
      BY <2>4, <2>6, <2>7 DEF Ended
    <2>9. String!Appended(d, s) = e
      BY <1>3, <1>5
    <2>10. QED
      BY <2>8, <2>9
  <1>6. QED
    BY <1>4, <1>5

\* Every step of fstring.h.
LEMMA StringKeeps ==
    ASSUME StringInv, String!Next
    PROVE  StringInv'
  <1>1. StringSize \in Nat \ {0} /\ 0 \in Characters
    BY StringAssumption DEF String!NAssumption
  <1>2. ASSUME NEW x \in Strings, NEW d, NEW r \in BOOLEAN, NEW q \in BOOLEAN, Ended(d, r), r => q,
               String!Store(x, d, q)
        PROVE  StringInv'
    <2>1. str' = [str EXCEPT ![x] = d] /\ raw' = [raw EXCEPT ![x] = q] /\ d \in [Place -> Characters]
      BY <1>2 DEF String!Store, Ended
    <2>2. str' \in [Strings -> [Place -> Characters]] /\ raw' \in [Strings -> BOOLEAN]
      BY <2>1 DEF StringInv
    <2>3. str'[x] = d /\ raw'[x] = q /\ \A y \in Strings \ {x} : str'[y] = str[y] /\ raw'[y] = raw[y]
      BY <2>1 DEF StringInv
    <2>4. Ended(d, q)
      BY <1>2 DEF Ended
    <2>5. QED
      BY <2>2, <2>3, <2>4 DEF StringInv
  <1>3. PICK x \in Strings :
          \/ String!Construct(x) \/ String!ConstructView(x) \/ String!Assign(x)
          \/ String!ConstructFill(x) \/ String!append(x)
          \/ \E y \in Strings : String!Copy(x, y) \/ String!Move(x, y)
    BY DEF String!Next
  <1>4. CASE String!Construct(x)
    <2>1. PICK s \in String!CStrings : String!Store(x, String!Strncpy(s), FALSE)
      BY <1>4 DEF String!Construct
    <2>2. Ended(String!Strncpy(s), FALSE)
      BY CStringIs, StrncpyEnds
    <2>3. QED
      BY <1>2, <2>1, <2>2
  <1>5. CASE String!ConstructView(x)
    <2>1. PICK s \in String!CStrings, after \in [Place -> Characters] : String!Store(x, String!Memcpy(s, after), TRUE)
      BY <1>5 DEF String!ConstructView, String!Index, Place
    <2>2. Ended(String!Memcpy(s, after), TRUE)
      BY CStringIs, MemcpyEnds
    <2>3. QED
      BY <1>2, <2>1, <2>2
  <1>6. CASE String!Assign(x)
    <2>1. PICK s \in String!CStrings, after \in [Place -> Characters] :
            String!Store(x, String!Memcpy(Append(s, 0), after), TRUE)
      BY <1>6 DEF String!Assign, String!Index, Place
    <2>2. Append(s, 0) \in Seq(Characters)
      BY <1>1, CStringIs
    <2>3. Ended(String!Memcpy(Append(s, 0), after), TRUE)
      BY <2>2, MemcpyEnds
    <2>4. QED
      BY <1>2, <2>1, <2>3
  <1>7. CASE String!ConstructFill(x)
    <2>1. PICK c \in Characters \ {0}, n \in 0 .. StringSize + 1 :
            String!Store(x, [i \in Place |-> IF i < n /\ i < StringSize - 1 THEN c ELSE 0], FALSE)
      BY <1>7 DEF String!ConstructFill, String!Index, Place
    <2> DEFINE e == [i \in Place |-> IF i < n /\ i < StringSize - 1 THEN c ELSE 0]
    <2>2. n \in Nat /\ StringSize - 1 \in Place /\ \A i \in Place : i \in Nat
      BY <1>1 DEF Place
    <2>3. /\ e \in [Place -> Characters] /\ \A i \in Place : e[i] = 0 <=> ~(i < n /\ i < StringSize - 1)
      BY <1>1
    <2> HIDE DEF e
    <2>4. e[StringSize - 1] = 0 /\ \A i, j \in Place : i < j /\ e[i] = 0 => e[j] = 0
      BY <1>1, <2>2, <2>3
    <2>5. Ended(e, FALSE)
      BY <2>3, <2>4 DEF Ended
    <2>6. String!Store(x, e, FALSE)
      BY <2>1 DEF e
    <2>7. QED
      BY <1>2, <2>5, <2>6
  <1>8. CASE String!append(x)
    <2>1. PICK s \in String!Bytes :
            String!Store(x, String!Appended(str[x], s),
                         raw[x] \/ (String!Appended(str[x], s) # str[x] /\ String!Embedded(s)))
      BY <1>8 DEF String!append
    <2>2. s \in Seq(Characters)
      <3>1. PICK n \in 0 .. StringSize + 1 : s \in [1 .. n -> Characters]
        BY DEF String!Bytes
      <3>2. QED
        BY <1>1, <3>1
    <2>3. raw[x] \in BOOLEAN /\ Ended(str[x], raw[x])
      BY DEF StringInv
    <2> DEFINE q == raw[x] \/ (String!Appended(str[x], s) # str[x] /\ String!Embedded(s))
    <2>4. Ended(String!Appended(str[x], s), q)
      BY <2>2, <2>3, AppendedEnds
    <2>5. q \in BOOLEAN
      BY <2>3
    <2>6. String!Store(x, String!Appended(str[x], s), q)
      BY <2>1
    <2> HIDE DEF q
    <2>7. QED
      BY <1>2, <2>4, <2>5, <2>6
  <1>9. ASSUME NEW y \in Strings, String!Copy(x, y) PROVE StringInv'
    <2>1. raw[y] \in BOOLEAN /\ Ended(str[y], raw[y]) /\ String!Store(x, str[y], raw[y])
      BY <1>9 DEF StringInv, String!Copy
    <2>2. QED
      BY <1>2, <2>1
  <1>10. ASSUME NEW y \in Strings, String!Move(x, y) PROVE StringInv'
    <2> DEFINE z == [i \in Place |-> 0]
    <2>1. str' = [str EXCEPT ![x] = str[y], ![y] = z] /\ raw' = [raw EXCEPT ![x] = raw[y], ![y] = FALSE]
      BY <1>10 DEF String!Move, String!Zeros, String!Index, Place
    <2>2. Ended(z, FALSE)
      BY <1>1 DEF Ended, Place
    <2>3. z \in [Place -> Characters]
      BY <1>1
    <2> HIDE DEF z
    <2>4. str' \in [Strings -> [Place -> Characters]] /\ raw' \in [Strings -> BOOLEAN]
      BY <2>1, <2>3 DEF StringInv
    <2>5. /\ str'[y] = z /\ raw'[y] = FALSE /\ (x # y => str'[x] = str[y] /\ raw'[x] = raw[y])
          /\ \A w \in Strings \ {x, y} : str'[w] = str[w] /\ raw'[w] = raw[w]
      BY <2>1 DEF StringInv
    <2>6. QED
      BY <2>2, <2>4, <2>5 DEF StringInv
  <1>11. QED
    BY <1>3, <1>4, <1>5, <1>6, <1>7, <1>8, <1>9, <1>10

\* A string that no memcpy has filled is what strncpy makes of its text.
LEMMA TextRebuilds ==
    ASSUME NEW d, Ended(d, FALSE)
    PROVE  String!Strncpy(String!Text(d)) = d
  <1> DEFINE n == String!length(d)
             t == String!Text(d)
  <1>1. /\ StringSize \in Nat \ {0} /\ d \in [Place -> Characters]
        /\ \A i, j \in Place : i < j /\ d[i] = 0 => d[j] = 0
    BY StringAssumption DEF String!NAssumption, Ended
  <1>2. n \in Nat /\ n \in Place /\ d[n] = 0 /\ \A i \in Place : i < n => d[i] # 0
    BY LengthIs
  <1>3. t = [i \in 1 .. n |-> d[i - 1]]
    BY DEF String!Text
  <1> HIDE DEF n, t
  <1>4. \A i \in 1 .. n : i - 1 \in Place
    BY <1>1, <1>2 DEF Place
  <1>5. t \in Seq(Characters) /\ Len(t) = n
    BY <1>1, <1>2, <1>3, <1>4
  <1>6. String!Strncpy(t) = [i \in Place |-> IF i < n /\ i < StringSize - 1 THEN t[i + 1] ELSE 0]
    BY <1>5 DEF String!Strncpy, String!Index, Place
  <1>7. ASSUME NEW i \in Place PROVE (IF i < n /\ i < StringSize - 1 THEN t[i + 1] ELSE 0) = d[i]
    <2>1. i \in Nat /\ n <= StringSize - 1
      BY <1>1, <1>2 DEF Place
    <2>2. CASE i < n
      <3>1. i + 1 \in 1 .. n /\ (i + 1) - 1 = i /\ i < StringSize - 1
        BY <1>1, <1>2, <2>1, <2>2
      <3>2. t[i + 1] = d[(i + 1) - 1]
        BY <1>3, <3>1
      <3>3. QED
        BY <2>2, <3>1, <3>2
    <2>3. CASE ~(i < n)
      <3>1. i = n \/ n < i
        BY <1>2, <2>1, <2>3
      <3>2. d[i] = 0
        BY <1>1, <1>2, <3>1
      <3>3. QED
        BY <2>3, <3>2
    <2>4. QED
      BY <2>2, <2>3
  <1>8. String!Strncpy(t) = d
    BY <1>1, <1>6, <1>7
  <1>9. QED
    BY <1>8 DEF t

\* For every size of the arrays, every number of objects and every series of
\* calls: fixed strings are terminated and, unless memcpy filled them or an
\* append had a terminator among its bytes, compare by their texts (fstring.h);
\* a buffer holds what was appended and not skipped, unless it was shrunk after
\* a skip (fbuffer.h); blocks have one owner and are lost only by an assignment
\* (dynamic_buffer.h).
THEOREM BuffersCorrect == ValuesSpec => []BuffersSafe
  <1> DEFINE Inv == StringInv /\ FixedInv /\ DynamicInv
  <1>1. ValuesInit => Inv
    <2> SUFFICES ASSUME ValuesInit PROVE Inv
      OBVIOUS
    <2>1. StringInv
      <3> DEFINE z == [i \in Place |-> 0]
      <3>1. str = [x \in Strings |-> z] /\ raw = [x \in Strings |-> FALSE]
        BY DEF ValuesInit, String!Init, String!Zeros, String!Index, Place
      <3>2. StringSize \in Nat \ {0} /\ 0 \in Characters
        BY StringAssumption DEF String!NAssumption
      <3>3. Ended(z, FALSE) /\ z \in [Place -> Characters]
        BY <3>2 DEF Ended, Place
      <3> HIDE DEF z
      <3>4. QED
        BY <3>1, <3>3 DEF StringInv
    <2>2. FixedInv
      <3> DEFINE j == [i \in Cell |-> 0]
      <3>1. /\ fdata = [b \in Buffers |-> j] /\ fhead = [b \in Buffers |-> 0] /\ tail_ = [b \in Buffers |-> 0]
            /\ unread = [b \in Buffers |-> <<>>] /\ moved = [b \in Buffers |-> FALSE]
        BY DEF ValuesInit, Fixed!Init, Fixed!Junk, Fixed!Index, Cell
      <3>2. j \in [Cell -> Nat] /\ BufferSize \in Nat
        BY FixedAssumption DEF Fixed!NAssumption
      <3> HIDE DEF j
      <3>3. <<>> \in Seq(Nat) /\ Len(<<>>) = 0
        OBVIOUS
      <3>4. Holds(j, 0, 0, <<>>, FALSE)
        BY <3>2, <3>3 DEF Holds
      <3>5. QED
        BY <3>1, <3>4 DEF FixedInv
    <2>3. DynamicInv
      <3>1. /\ capacity_ = [x \in Objects |-> 0] /\ size_ = [x \in Objects |-> 0]
            /\ data_ = [x \in Objects |-> NULL] /\ expand_size_ \in [Objects -> Expand \ {0}]
            /\ DOMAIN heap = {} /\ assigned = FALSE
        BY DEF ValuesInit, Dynamic!Init, Dynamic!None
      <3>2. Expand \subseteq Nat
        BY DynamicAssumption DEF Dynamic!BlocksAssumption
      <3>3. DynamicTypes
        BY <3>1, <3>2 DEF DynamicTypes
      <3>4. QED
        BY <3>1, <3>3 DEF DynamicInv, Dynamic!OwnedOnce, Dynamic!FitsBlock, Dynamic!LeakOnlyByAssign
    <2>4. QED
      BY <2>1, <2>2, <2>3
  <1>2. Inv /\ [ValuesNext]_valuesVars => Inv'
    <2> SUFFICES ASSUME Inv, [ValuesNext]_valuesVars PROVE Inv'
      OBVIOUS
    <2>1. UNCHANGED stringVars => StringInv'
      BY DEF stringVars, StringInv
    <2>2. UNCHANGED fbufferVars => FixedInv'
      BY DEF fbufferVars, FixedInv
    <2>3. UNCHANGED dynamicVars => DynamicInv'
      BY DEF dynamicVars, DynamicInv, DynamicTypes, Dynamic!OwnedOnce, Dynamic!FitsBlock, Dynamic!LeakOnlyByAssign
    <2>4. CASE UNCHANGED valuesVars
      BY <2>1, <2>2, <2>3, <2>4 DEF valuesVars
    <2>5. CASE ValuesNext
      <3>1. String!Next \/ UNCHANGED stringVars
        BY <2>5 DEF ValuesNext
      <3>2. Fixed!Next \/ UNCHANGED fbufferVars
        BY <2>5 DEF ValuesNext
      <3>3. Dynamic!Next \/ UNCHANGED dynamicVars
        BY <2>5 DEF ValuesNext
      <3>4. QED
        BY <2>1, <2>2, <2>3, <3>1, <3>2, <3>3, StringKeeps, FixedKeeps, DynamicKeeps
    <2>6. QED
      BY <2>4, <2>5
  <1>3. Inv => BuffersSafe
    <2> SUFFICES ASSUME Inv PROVE BuffersSafe
      OBVIOUS
    <2>1. String!Terminated
      <3> SUFFICES ASSUME NEW x \in Strings PROVE String!length(str[x]) < StringSize
        BY DEF String!Terminated
      <3>1. String!length(str[x]) \in Place
        BY LengthIs DEF StringInv
      <3>2. QED
        BY <3>1, StringAssumption DEF Place, String!NAssumption
    <2>2. String!ComparesTexts
      <3> SUFFICES ASSUME NEW x \in Strings, NEW y \in Strings, ~raw[x], ~raw[y]
                   PROVE  /\ String!Equal(str[x], str[y]) <=> String!Text(str[x]) = String!Text(str[y])
                          /\ String!Less(str[x], str[y]) <=> String!LessText(str[x], String!Text(str[y]))
        BY DEF String!ComparesTexts
      <3>1. Ended(str[x], FALSE) /\ Ended(str[y], FALSE)
        BY DEF StringInv, Ended
      <3>2. String!Strncpy(String!Text(str[x])) = str[x] /\ String!Strncpy(String!Text(str[y])) = str[y]
        BY <3>1, TextRebuilds
      <3>3. QED
        BY <3>2 DEF String!Equal, String!LessText
    <2>3. Fixed!HoldsUnread
      BY HoldsReads DEF Fixed!HoldsUnread
    <2>4. QED
      BY <2>1, <2>2, <2>3 DEF BuffersSafe, DynamicInv
  <1>4. QED
    BY <1>1, <1>2, <1>3, PTL DEF ValuesSpec
-----------------------------------------------------------------------------
(* Bheap *)

Contexts == [id : Nat, val : HeapVals, idx : Nat]

HeapTypes ==
    /\ heap_ \in Seq(Contexts) /\ made \in Nat /\ live \subseteq 1 .. made
    /\ erased \in BOOLEAN /\ up \in BOOLEAN
    /\ frames \in Seq(1 .. Len(heap_))

\* The contexts of the vector are different and are those of the callers.
HeapIds(h) ==
    /\ \A i \in 1 .. Len(h) : h[i].id \in live
    /\ \A n \in live : \E i \in 1 .. Len(h) : h[i].id = n
    /\ \A i, j \in 1 .. Len(h) : h[i].id = h[j].id => i = j
    /\ IsFiniteSet(live) /\ Cardinality(live) = Len(h)

HeapIdx(h) == \A i \in 1 .. Len(h) : h[i].idx = i - 1

\* No element is above its parent, except perhaps the one at o that is being
\* sifted up; its children are not above its parent either.
Ordered(v, n, o) ==
    /\ \A i \in 2 .. n : i # o => v[i] <= v[i \div 2]
    /\ o > 1 => \A k \in 2 .. n : k \div 2 = o => v[k] <= v[o \div 2]

ValsOf(h) == [k \in 1 .. Len(h) |-> h[k].val]

Sifted == IF frames = <<>> THEN 0 ELSE Head(frames)

HeapInv ==
    /\ HeapTypes
    /\ HeapIds(heap_)
    /\ HeapIdx(heap_)
    /\ ~erased => Ordered(ValsOf(heap_), Len(heap_), Sifted) /\ (frames # <<>> => up)

\* Where the parent of a place is.
LEMMA ParentOf ==
    ASSUME NEW k \in Nat, k > 1
    PROVE  k \div 2 \in Nat /\ k \div 2 >= 1 /\ k \div 2 < k
  BY SMTT(30)

\* A swap exchanges two contexts but not the places they say they are at.
LEMMA SwapIs ==
    ASSUME NEW h \in Seq(Contexts), NEW i \in 1 .. Len(h), NEW j \in 1 .. Len(h)
    PROVE  LET s == Heap!Swap(h, i, j) IN
           /\ s \in Seq(Contexts) /\ Len(s) = Len(h)
           /\ s[i].val = h[j].val /\ s[i].id = h[j].id
           /\ s[j].val = h[i].val /\ s[j].id = h[i].id
           /\ \A k \in 1 .. Len(h) : s[k].idx = h[k].idx
           /\ \A k \in 1 .. Len(h) : k # i /\ k # j => s[k] = h[k]
  <1> DEFINE a == [h[j] EXCEPT !.idx = h[i].idx]
             b == [h[i] EXCEPT !.idx = h[j].idx]
             t == [h EXCEPT ![i] = a]
             s == [t EXCEPT ![j] = b]
  <1>1. h[i] \in Contexts /\ h[j] \in Contexts
    BY ElementOfSeq
  <1>2. /\ a \in Contexts /\ a.val = h[j].val /\ a.id = h[j].id /\ a.idx = h[i].idx
        /\ b \in Contexts /\ b.val = h[i].val /\ b.id = h[i].id /\ b.idx = h[j].idx
    BY <1>1 DEF Contexts
  <1>3. i = j => a = b
    OBVIOUS
  <1>4. Heap!Swap(h, i, j) = s
    BY DEF Heap!Swap
  <1> HIDE DEF a, b
  <1>5. /\ t \in Seq(Contexts) /\ Len(t) = Len(h)
        /\ \A k \in 1 .. Len(h) : t[k] = IF k = i THEN a ELSE h[k]
    BY <1>2, ExceptSeq
  <1> HIDE DEF t
  <1>6. /\ s \in Seq(Contexts) /\ Len(s) = Len(h)
        /\ \A k \in 1 .. Len(h) : s[k] = IF k = j THEN b ELSE t[k]
    BY <1>2, <1>5, ExceptSeq
  <1> HIDE DEF s
  <1>7. s[j] = b /\ s[i] = a
    BY <1>3, <1>5, <1>6
  <1>8. \A k \in 1 .. Len(h) : k # i /\ k # j => s[k] = h[k]
    BY <1>5, <1>6
  <1>9. \A k \in 1 .. Len(h) : s[k].idx = h[k].idx
    BY <1>2, <1>7, <1>8
  <1>10. QED
    BY <1>2, <1>4, <1>6, <1>7, <1>8, <1>9

\* A swap moves contexts about.
LEMMA SwapKeeps ==
    ASSUME NEW h \in Seq(Contexts), NEW i \in 1 .. Len(h), NEW j \in 1 .. Len(h), HeapIds(h), HeapIdx(h)
    PROVE  HeapIds(Heap!Swap(h, i, j)) /\ HeapIdx(Heap!Swap(h, i, j))
  <1> DEFINE s == Heap!Swap(h, i, j)
             f(k) == IF k = i THEN j ELSE IF k = j THEN i ELSE k
  <1>1. /\ Len(s) = Len(h) /\ s[i].id = h[j].id /\ s[j].id = h[i].id
        /\ \A k \in 1 .. Len(h) : s[k].idx = h[k].idx
        /\ \A k \in 1 .. Len(h) : k # i /\ k # j => s[k] = h[k]
    BY SwapIs
  <1> HIDE DEF s
  <1>2. \A k \in 1 .. Len(h) : f(k) \in 1 .. Len(h) /\ s[k].id = h[f(k)].id /\ f(f(k)) = k
    BY <1>1
  <1> HIDE DEF f
  <1>3. \A k \in 1 .. Len(h) : s[k].id \in live
    BY <1>2 DEF HeapIds
  <1>4. ASSUME NEW n \in live PROVE \E k \in 1 .. Len(h) : s[k].id = n
    <2>1. PICK k \in 1 .. Len(h) : h[k].id = n
      BY DEF HeapIds
    <2>2. f(k) \in 1 .. Len(h) /\ s[f(k)].id = h[k].id
      BY <1>2
    <2>3. QED
      BY <2>1, <2>2
  <1>5. ASSUME NEW k \in 1 .. Len(h), NEW l \in 1 .. Len(h), s[k].id = s[l].id PROVE k = l
    <2>1. f(k) = f(l)
      BY <1>2, <1>5 DEF HeapIds
    <2>2. QED
      BY <1>2, <2>1
  <1>6. HeapIds(s)
    BY <1>1, <1>3, <1>4, <1>5 DEF HeapIds
  <1>7. HeapIdx(s)
    BY <1>1 DEF HeapIdx
  <1>8. QED
    BY <1>6, <1>7 DEF s

\* The largest of three places is one of the vector.
LEMMA LargestIs ==
    ASSUME NEW h \in Seq(Contexts), NEW i \in 1 .. Len(h)
    PROVE  Heap!LargestOf(h, i) \in 1 .. Len(h)
  <1>1. Len(h) \in Nat
    BY LenProperties
  <1> DEFINE m == Heap!LargerOf(h, i, 2 * i)
  <1>2. m \in 1 .. Len(h)
    BY <1>1 DEF Heap!LargerOf
  <1> HIDE DEF m
  <1>3. Heap!LargerOf(h, m, 2 * i + 1) \in 1 .. Len(h)
    BY <1>1, <1>2 DEF Heap!LargerOf
  <1>4. QED
    BY <1>3 DEF Heap!LargestOf, m

\* The elements are numbers.
LEMMA ValsType ==
    ASSUME NEW h \in Seq(Contexts)
    PROVE  Len(h) \in Nat /\ ValsOf(h) \in [1 .. Len(h) -> Int]
  <1>1. Len(h) \in Nat
    BY LenProperties
  <1>2. ASSUME NEW k \in 1 .. Len(h) PROVE h[k].val \in Int
    <2>1. h[k] \in Contexts
      BY ElementOfSeq
    <2>2. h[k].val \in HeapVals
      BY <2>1 DEF Contexts
    <2>3. QED
      BY <2>2, HeapAssumption DEF Heap!ValsAssumption
  <1>3. QED
    BY <1>1, <1>2 DEF ValsOf

\* A turn of sift_up restores the order at one place and disturbs it at most at
\* the parent.
LEMMA SiftUpOrders ==
    ASSUME NEW n \in Nat, NEW v \in [1 .. n -> Int], NEW i \in 1 .. n, i > 1, Ordered(v, n, i),
           v[i \div 2] < v[i], NEW w \in [1 .. n -> Int], w[i] = v[i \div 2], w[i \div 2] = v[i],
           \A k \in 1 .. n : k # i /\ k # i \div 2 => w[k] = v[k]
    PROVE  Ordered(w, n, i \div 2)
  <1> DEFINE p == i \div 2
  <1>1. p \in 1 .. n /\ p < i /\ i \in Nat /\ p \in Nat
    BY ParentOf
  <1>2. w[i] = v[p] /\ w[p] = v[i] /\ v[p] < v[i] /\ \A k \in 1 .. n : k # i /\ k # p => w[k] = v[k]
    OBVIOUS
  <1>3. /\ \A k \in 2 .. n : k # i => v[k] <= v[k \div 2]
        /\ \A k \in 2 .. n : k \div 2 = i => v[k] <= v[p]
    BY DEF Ordered
  <1>4. \A k \in 2 .. n : k \div 2 \in 1 .. n /\ k \div 2 < k /\ (k = i => k \div 2 = p)
    BY ParentOf
  <1> HIDE DEF p
  <1>5. ASSUME NEW k \in 2 .. n, k # p PROVE w[k] <= w[k \div 2]
    <2> DEFINE q == k \div 2
    <2>1. q \in 1 .. n /\ q < k /\ (k = i => q = p) /\ k \in 1 .. n
          /\ (k # i => v[k] <= v[q]) /\ (q = i => v[k] <= v[p])
      BY <1>3, <1>4
    <2> HIDE DEF q
    <2>2. w[k] <= w[q]
      <3>1. CASE k = i
        BY <2>1, <1>1, <1>2, <3>1
      <3>2. CASE k # i
        <4>1. w[k] = v[k] /\ v[k] \in Int /\ v[k] <= v[q] /\ v[p] \in Int /\ v[i] \in Int /\ v[q] \in Int
          BY <2>1, <1>1, <1>2, <1>5, <3>2
        <4>2. CASE q = i
          BY <4>1, <4>2, <2>1, <1>2
        <4>3. CASE q = p
          BY <4>1, <4>3, <1>2
        <4>4. CASE q # i /\ q # p
          BY <4>1, <4>4, <2>1, <1>2
        <4>5. QED
          BY <4>2, <4>3, <4>4
      <3>3. QED
        BY <3>1, <3>2
    <2>3. QED
      BY <2>2 DEF q
  <1>6. ASSUME p > 1, NEW k \in 2 .. n, k \div 2 = p PROVE w[k] <= w[p \div 2]
    <2> DEFINE g == p \div 2
    <2>1. p \in 2 .. n
      BY <1>1, <1>6
    <2>2. g \in 1 .. n /\ g < p /\ v[p] <= v[g]
      BY <1>1, <1>3, <1>4, <2>1
    <2>3. k \in 1 .. n /\ k # p /\ (k # i => v[k] <= v[p])
      <3>1. k \in 1 .. n
        OBVIOUS
      <3>2. p < k
        BY <1>4, <1>6
      <3>3. k # i => v[k] <= v[k \div 2]
        BY <1>3
      <3>4. QED
        BY <1>1, <1>6, <3>1, <3>2, <3>3
    <2> HIDE DEF g
    <2>4. w[k] <= w[g]
      BY <2>2, <2>3, <1>1, <1>2
    <2>5. QED
      BY <2>4 DEF g
  <1>7. Ordered(w, n, p)
    BY <1>5, <1>6 DEF Ordered
  <1>8. QED
    BY <1>7 DEF p

\* In a vector that is in order the first element is the largest.
LEMMA OrderedTop ==
    ASSUME NEW n \in Nat, NEW v \in [1 .. n -> Int], Ordered(v, n, 0), NEW x \in 1 .. n
    PROVE  v[x] <= v[1]
  <1>1. 1 \in 1 .. n
    OBVIOUS
  <1> SUFFICES ASSUME ~(v[x] <= v[1]) PROVE FALSE
    OBVIOUS
  <1> DEFINE S == {k \in 1 .. n : ~(v[k] <= v[1])}
  <1>2. S \in SUBSET Nat /\ S # {}
    <2>1. x \in S
      OBVIOUS
    <2>2. QED
      BY <2>1
  <1>3. PICK m \in S : \A y \in S : m <= y
    <2> HIDE DEF S
    <2>1. QED
      BY <1>2, LeastExists
  <1>4. m \in 1 .. n /\ m # 1 /\ ~(v[m] <= v[1])
    BY <1>1, <1>3
  <1>5. m \in 2 .. n /\ m \in Nat /\ m > 1
    BY <1>4
  <1>6. m \div 2 \in 1 .. n /\ m \div 2 < m /\ m \div 2 \in Nat
    BY <1>5, ParentOf
  <1>7. v[m] <= v[m \div 2]
    BY <1>5 DEF Ordered
  <1>8. m \div 2 \notin S
    <2> HIDE DEF S
    <2>1. QED
      BY <1>3, <1>5, <1>6
  <1>9. v[m \div 2] <= v[1]
    BY <1>6, <1>8
  <1>10. QED
    BY <1>1, <1>4, <1>6, <1>7, <1>9

\* insert puts a context at the end, which is then the one that is sifted.
LEMMA HeapInsert == HeapInv /\ Heap!insert => HeapInv'
  <1> SUFFICES ASSUME HeapInv, Heap!insert PROVE HeapInv'
    OBVIOUS
  <1> DEFINE n == Len(heap_)
  <1>1. PICK x \in HeapVals : heap_' = Append(heap_, Heap!Context(x))
    BY DEF Heap!insert
  <1> DEFINE c == Heap!Context(x)
  <1>2. /\ made' = made + 1 /\ live' = live \cup {made + 1} /\ up' = TRUE /\ frames' = <<n + 1>>
        /\ erased' = erased /\ frames = <<>>
    BY DEF Heap!insert
  <1>3. n \in Nat /\ heap_ \in Seq(Contexts) /\ made \in Nat /\ live \subseteq 1 .. made
    BY LenProperties DEF HeapInv, HeapTypes
  <1>4. c \in Contexts /\ c.id = made + 1 /\ c.idx = n
    BY <1>3 DEF Contexts, Heap!Context
  <1> HIDE DEF c
  <1>5. /\ heap_' \in Seq(Contexts) /\ Len(heap_') = n + 1 /\ heap_'[n + 1] = c
        /\ \A k \in 1 .. n : heap_'[k] = heap_[k]
    BY <1>1, <1>3, <1>4, AppendProperties DEF c
  <1> HIDE DEF n
  <1>6. HeapTypes'
    <2>1. live' \subseteq 1 .. made' /\ made' \in Nat
      BY <1>2, <1>3
    <2>2. frames' \in Seq(1 .. Len(heap_'))
      BY <1>2, <1>3, <1>5
    <2>3. erased' \in BOOLEAN /\ up' \in BOOLEAN
      BY <1>2 DEF HeapInv, HeapTypes
    <2>4. QED
      BY <2>1, <2>2, <2>3, <1>5 DEF HeapTypes
  <1>7. HeapIds(heap_)'
    <2>1. /\ \A k \in 1 .. n : heap_[k].id \in live
          /\ \A y \in live : \E k \in 1 .. n : heap_[k].id = y
          /\ \A k, l \in 1 .. n : heap_[k].id = heap_[l].id => k = l
          /\ IsFiniteSet(live) /\ Cardinality(live) = n
      BY DEF HeapInv, HeapIds, n
    <2>2. made + 1 \notin live
      BY <1>3
    <2>3. IsFiniteSet(live') /\ Cardinality(live') = n + 1
      BY <1>2, <2>1, <2>2, FS_AddElement
    <2>4. \A k \in 1 .. n + 1 : k \in 1 .. n \/ k = n + 1
      BY <1>3
    <2>5. \A k \in 1 .. n + 1 : heap_'[k].id \in live'
      BY <1>2, <1>4, <1>5, <2>1, <2>4
    <2>6. \A y \in live' : \E k \in 1 .. n + 1 : heap_'[k].id = y
      <3> SUFFICES ASSUME NEW y \in live' PROVE \E k \in 1 .. n + 1 : heap_'[k].id = y
        OBVIOUS
      <3>1. CASE y = made + 1
        BY <3>1, <1>3, <1>4, <1>5
      <3>2. CASE y \in live
        BY <3>2, <2>1, <1>3, <1>5
      <3>3. QED
        BY <3>1, <3>2, <1>2
    <2>7. \A k, l \in 1 .. n + 1 : heap_'[k].id = heap_'[l].id => k = l
      BY <1>4, <1>5, <2>1, <2>2, <2>4
    <2>8. QED
      BY <1>5, <2>3, <2>5, <2>6, <2>7 DEF HeapIds
  <1>8. HeapIdx(heap_)'
    <2>1. \A k \in 1 .. n : heap_[k].idx = k - 1
      BY DEF HeapInv, HeapIdx, n
    <2>2. \A k \in 1 .. n + 1 : k \in 1 .. n \/ k = n + 1
      BY <1>3
    <2>3. n = (n + 1) - 1
      BY <1>3
    <2>4. \A k \in 1 .. n + 1 : heap_'[k].idx = k - 1
      BY <2>1, <2>2, <2>3, <1>4, <1>5
    <2>5. QED
      BY <1>5, <2>4 DEF HeapIdx
  <1>9. ASSUME ~erased' PROVE Ordered(ValsOf(heap_), Len(heap_), Sifted)'
    <2>1. Ordered(ValsOf(heap_), n, 0)
      BY <1>2, <1>9 DEF HeapInv, Sifted, n
    <2>2. \A k \in 2 .. n : heap_[k].val <= heap_[k \div 2].val
      <3> SUFFICES ASSUME NEW k \in 2 .. n PROVE heap_[k].val <= heap_[k \div 2].val
        OBVIOUS
      <3>1. k \in 1 .. n /\ k \div 2 \in 1 .. n /\ k # 0
        BY <1>3, ParentOf
      <3>2. ValsOf(heap_)[k] <= ValsOf(heap_)[k \div 2]
        BY <2>1, <3>1 DEF Ordered
      <3>3. QED
        BY <3>1, <3>2 DEF ValsOf, n
    <2>3. Sifted' = n + 1
      BY <1>2 DEF Sifted
    <2>4. ASSUME NEW k \in 2 .. n + 1, k # n + 1 PROVE ValsOf(heap_)'[k] <= ValsOf(heap_)'[k \div 2]
      <3>1. k \in 2 .. n /\ k \in 1 .. n /\ k \div 2 \in 1 .. n
        BY <1>3, <2>4, ParentOf
      <3>2. ValsOf(heap_)'[k] = heap_[k].val /\ ValsOf(heap_)'[k \div 2] = heap_[k \div 2].val
        BY <3>1, <1>3, <1>5 DEF ValsOf
      <3>3. QED
        BY <2>2, <3>1, <3>2
    <2>5. ASSUME NEW k \in 2 .. n + 1 PROVE k \div 2 # n + 1
      BY <1>3, ParentOf
    <2>6. QED
      BY <2>3, <2>4, <2>5, <1>5 DEF Ordered
  <1>10. QED
    BY <1>2, <1>6, <1>7, <1>8, <1>9 DEF HeapInv

\* What a turn of sifting that swaps two contexts keeps.
LEMMA HeapSwap ==
    ASSUME HeapInv, NEW i \in 1 .. Len(heap_), NEW j \in 1 .. Len(heap_),
           heap_' = Heap!Swap(heap_, i, j), UNCHANGED <<made, live, erased, up>>,
           frames' \in Seq(1 .. Len(heap_))
    PROVE  HeapTypes' /\ HeapIds(heap_)' /\ HeapIdx(heap_)'
  <1>1. heap_ \in Seq(Contexts) /\ HeapIds(heap_) /\ HeapIdx(heap_)
    BY DEF HeapInv, HeapTypes
  <1>2. heap_' \in Seq(Contexts) /\ Len(heap_') = Len(heap_)
    BY <1>1, SwapIs
  <1>3. HeapTypes'
    BY <1>2 DEF HeapInv, HeapTypes
  <1> DEFINE s == Heap!Swap(heap_, i, j)
  <1>4. HeapIds(s) /\ HeapIdx(s)
    BY <1>1, SwapKeeps
  <1>5. heap_' = s
    OBVIOUS
  <1> HIDE DEF s
  <1>6. HeapIds(heap_)' /\ HeapIdx(heap_)'
    BY <1>4, <1>5 DEF HeapIds, HeapIdx
  <1>7. QED
    BY <1>3, <1>6

LEMMA HeapSiftUp == HeapInv /\ Heap!sift_up => HeapInv'
  <1> SUFFICES ASSUME HeapInv, Heap!sift_up PROVE HeapInv'
    OBVIOUS
  <1> DEFINE i == Head(frames)
             p == i \div 2
             n == Len(heap_)
  <1>1. heap_ \in Seq(Contexts) /\ n \in Nat /\ frames \in Seq(1 .. n) /\ frames # <<>> /\ up
    BY LenProperties DEF HeapInv, HeapTypes, Heap!sift_up
  <1>2. i \in 1 .. n /\ i \in Nat
    BY <1>1, HeadTailProperties
  <1>3. UNCHANGED <<made, live, erased, up>>
    BY DEF Heap!sift_up
  <1>4. ~erased => Ordered(ValsOf(heap_), n, i)
    BY <1>1 DEF HeapInv, Sifted
  <1>5. CASE i > 1 /\ Heap!comp_(heap_[p], heap_[i])
    <2>1. heap_' = Heap!Swap(heap_, p, i) /\ frames' = <<p>>
      BY <1>5 DEF Heap!sift_up
    <2>2. p \in 1 .. n
      BY <1>2, <1>5, ParentOf
    <2>3. frames' \in Seq(1 .. n)
      BY <2>1, <2>2
    <2>4. HeapTypes' /\ HeapIds(heap_)' /\ HeapIdx(heap_)'
      BY <1>2, <1>3, <2>1, <2>2, <2>3, HeapSwap
    <2>5. /\ heap_' \in Seq(Contexts) /\ Len(heap_') = n
          /\ heap_'[p].val = heap_[i].val /\ heap_'[i].val = heap_[p].val
          /\ \A k \in 1 .. n : k # p /\ k # i => heap_'[k] = heap_[k]
      <3> DEFINE s == Heap!Swap(heap_, p, i)
      <3>1. /\ s \in Seq(Contexts) /\ Len(s) = n
            /\ s[p].val = heap_[i].val /\ s[i].val = heap_[p].val
            /\ \A k \in 1 .. n : k # p /\ k # i => s[k] = heap_[k]
        <4> HIDE DEF p, i, n
        <4>1. p \in 1 .. Len(heap_) /\ i \in 1 .. Len(heap_) /\ n = Len(heap_) /\ heap_ \in Seq(Contexts)
          BY <1>1, <1>2, <2>2 DEF n
        <4>2. /\ s \in Seq(Contexts) /\ Len(s) = Len(heap_)
              /\ s[p].val = heap_[i].val /\ s[i].val = heap_[p].val
              /\ \A k \in 1 .. Len(heap_) : k # p /\ k # i => s[k] = heap_[k]
          BY <4>1, SwapIs, ZenonT(40)
        <4>3. QED
          BY <4>1, <4>2, Zenon
      <3>2. QED
        BY <2>1, <3>1, Zenon
    <2>6. ASSUME ~erased PROVE Ordered(ValsOf(heap_), Len(heap_), Sifted)'
      <3> DEFINE v == ValsOf(heap_)
                 w == [k \in 1 .. n |-> heap_'[k].val]
      <3>1. v \in [1 .. n -> Int]
        BY <1>1, ValsType
      <3>2. w \in [1 .. n -> Int]
        <4>1. ASSUME NEW k \in 1 .. n PROVE heap_'[k].val \in Int
          <5>1. heap_'[k] \in Contexts
            BY <2>5, ElementOfSeq
          <5>2. QED
            BY <5>1, HeapAssumption DEF Contexts, Heap!ValsAssumption
        <4>2. QED
          BY <4>1
      <3>3. v[p] < v[i] /\ w[i] = v[p] /\ w[p] = v[i]
        BY <1>2, <1>5, <2>2, <2>5 DEF ValsOf, Heap!comp_
      <3>4. \A k \in 1 .. n : k # i /\ k # p => w[k] = v[k]
        BY <2>5 DEF ValsOf
      <3>5. Ordered(v, n, i)
        BY <1>4, <2>6
      <3> HIDE DEF v, w, n
      <3>6. Ordered(w, n, p)
        BY <1>1, <1>2, <1>5, <3>1, <3>2, <3>3, <3>4, <3>5, SiftUpOrders
      <3>7. Sifted' = p
        BY <2>1 DEF Sifted
      <3>8. ValsOf(heap_)' = w
        BY <2>5 DEF ValsOf, w
      <3>9. QED
        BY <2>5, <3>6, <3>7, <3>8 DEF Ordered
    <2>7. QED
      BY <1>1, <1>3, <2>4, <2>6 DEF HeapInv
  <1>6. CASE ~(i > 1 /\ Heap!comp_(heap_[p], heap_[i]))
    <2>1. heap_' = heap_ /\ frames' = <<>>
      BY <1>6 DEF Heap!sift_up
    <2>2. HeapTypes' /\ HeapIds(heap_)' /\ HeapIdx(heap_)'
      <3>1. HeapTypes'
        BY <1>3, <2>1 DEF HeapInv, HeapTypes
      <3>2. HeapIds(heap_)' /\ HeapIdx(heap_)'
        BY <1>3, <2>1 DEF HeapInv, HeapIds, HeapIdx
      <3>3. QED
        BY <3>1, <3>2
    <2>3. ASSUME ~erased PROVE Ordered(ValsOf(heap_), n, 0)
      <3> DEFINE v == ValsOf(heap_)
      <3>1. v \in [1 .. n -> Int]
        BY <1>1, ValsType
      <3>2. i > 1 => v[i] <= v[p]
        <4>1. ASSUME i > 1 PROVE v[i] <= v[p]
          <5>1. p \in 1 .. n
            BY <1>2, <4>1, ParentOf
          <5>2. ~(heap_[p].val < heap_[i].val)
            BY <1>6, <4>1 DEF Heap!comp_
          <5>3. v[p] = heap_[p].val /\ v[i] = heap_[i].val /\ v[p] \in Int /\ v[i] \in Int
            BY <1>2, <3>1, <5>1 DEF ValsOf
          <5>4. QED
            BY <5>2, <5>3
        <4>2. QED
          BY <4>1
      <3>3. \A k \in 2 .. n : k # i => v[k] <= v[k \div 2]
        BY <1>4, <2>3 DEF Ordered
      <3> HIDE DEF v, n
      <3>4. \A k \in 2 .. n : v[k] <= v[k \div 2]
        BY <1>1, <3>2, <3>3
      <3>5. QED
        BY <3>4 DEF Ordered, v
    <2>4. Sifted' = 0
      BY <2>1 DEF Sifted
    <2>5. QED
      BY <1>3, <2>1, <2>2, <2>3, <2>4 DEF HeapInv, Ordered
  <1>7. QED
    BY <1>5, <1>6

\* sift_down runs only after an erase, when no order is claimed.
LEMMA HeapSiftDown == HeapInv /\ Heap!sift_down => HeapInv'
  <1> SUFFICES ASSUME HeapInv, Heap!sift_down PROVE HeapInv'
    OBVIOUS
  <1> DEFINE i == Head(frames)
             m == Heap!LargestOf(heap_, i)
             n == Len(heap_)
  <1>1. heap_ \in Seq(Contexts) /\ frames \in Seq(1 .. n) /\ frames # <<>> /\ ~up
    BY DEF HeapInv, HeapTypes, Heap!sift_down
  <1>2. i \in 1 .. n /\ Tail(frames) \in Seq(1 .. n)
    BY <1>1, HeadTailProperties
  <1>3. m \in 1 .. n
    BY <1>1, <1>2, LargestIs
  <1>4. UNCHANGED <<made, live, erased, up>> /\ erased
    BY <1>1 DEF HeapInv, HeapTypes, Heap!sift_down
  <1>5. CASE m = i
    <2>1. heap_' = heap_ /\ frames' = Tail(frames)
      BY <1>5 DEF Heap!sift_down
    <2>2. QED
      BY <1>2, <1>4, <2>1 DEF HeapInv, HeapTypes, HeapIds, HeapIdx
  <1>6. CASE m # i
    <2>1. heap_' = Heap!Swap(heap_, m, i) /\ frames' = <<m, m>> \o Tail(frames)
      BY <1>6 DEF Heap!sift_down
    <2> HIDE DEF m
    <2>2. <<m, m>> \in Seq(1 .. n)
      BY <1>3
    <2>3. frames' \in Seq(1 .. n)
      BY <1>2, <2>1, <2>2, ConcatProperties
    <2>4. HeapTypes' /\ HeapIds(heap_)' /\ HeapIdx(heap_)'
      BY <1>2, <1>3, <1>4, <2>1, <2>3, HeapSwap
    <2>5. QED
      BY <1>4, <2>4 DEF HeapInv
  <1>7. QED
    BY <1>5, <1>6

\* An erase removes one context and leaves the others where they say they are.
LEMMA HeapErase ==
    ASSUME HeapInv, NEW i \in 1 .. Len(heap_), Heap!EraseAt(i), live' = live \ {heap_[i].id}
    PROVE  HeapInv'
  <1> DEFINE n == Len(heap_)
             s == Heap!Swap(heap_, i, n)
             rest == SubSeq(s, 1, n - 1)
  <1>1. heap_ \in Seq(Contexts) /\ n \in Nat /\ n \in 1 .. n /\ HeapIds(heap_) /\ HeapIdx(heap_)
    BY LenProperties DEF HeapInv, HeapTypes
  <1>2. /\ heap_' = rest /\ up' = (i <= Len(rest) /\ Heap!comp_(rest[i], rest[Len(rest)]))
        /\ frames' = (IF i <= Len(rest) THEN <<i>> ELSE <<>>) /\ erased' = TRUE /\ made' = made
    BY DEF Heap!EraseAt
  <1>3. /\ s \in Seq(Contexts) /\ Len(s) = n /\ s[n].id = heap_[i].id
    BY <1>1, SwapIs
  <1>4. HeapIds(s) /\ HeapIdx(s)
    BY <1>1, SwapKeeps
  <1> HIDE DEF s
  <1>5. /\ rest \in Seq(Contexts) /\ Len(rest) = n - 1
        /\ \A k \in 1 .. n - 1 : rest[k] = s[k]
    BY <1>1, <1>3, SubSeqProperties
  <1> HIDE DEF n, rest
  <1>6. HeapTypes'
    <2>1. live' \subseteq 1 .. made' /\ made' \in Nat
      BY <1>2 DEF HeapInv, HeapTypes
    <2>2. frames' \in Seq(1 .. Len(heap_'))
      <3>1. CASE i <= Len(rest)
        <4>1. i \in 1 .. Len(rest)
          BY <1>1, <1>5, <3>1 DEF n
        <4>2. QED
          BY <1>2, <3>1, <4>1
      <3>2. CASE ~(i <= Len(rest))
        BY <1>2, <3>2
      <3>3. QED
        BY <3>1, <3>2
    <2>3. erased' \in BOOLEAN /\ up' \in BOOLEAN
      BY <1>2 DEF Heap!comp_
    <2>4. QED
      BY <1>2, <1>5, <2>1, <2>2, <2>3 DEF HeapTypes
  <1>7. HeapIds(heap_)'
    <2>1. /\ \A k \in 1 .. n : s[k].id \in live
          /\ \A y \in live : \E k \in 1 .. n : s[k].id = y
          /\ \A k, l \in 1 .. n : s[k].id = s[l].id => k = l
          /\ IsFiniteSet(live) /\ Cardinality(live) = n
      BY <1>3, <1>4 DEF HeapIds
    <2>2. live' = live \ {s[n].id} /\ s[n].id \in live
      BY <1>1, <1>3, <2>1
    <2>3. IsFiniteSet(live') /\ Cardinality(live') = n - 1
      <3>1. /\ IsFiniteSet(live \ {s[n].id})
            /\ Cardinality(live \ {s[n].id}) = Cardinality(live) - 1
        BY <2>1, <2>2, FS_RemoveElement
      <3>2. QED
        BY <2>1, <2>2, <3>1
    <2>4. \A k \in 1 .. n : k \in 1 .. n - 1 \/ k = n
      BY <1>1
    <2>5. \A k \in 1 .. n - 1 : k \in 1 .. n /\ k # n
      BY <1>1
    <2>6. \A k \in 1 .. n - 1 : rest[k].id \in live'
      BY <1>1, <1>5, <2>1, <2>2, <2>5
    <2>7. \A y \in live' : \E k \in 1 .. n - 1 : rest[k].id = y
      BY <1>5, <2>1, <2>2, <2>4
    <2>8. \A k, l \in 1 .. n - 1 : rest[k].id = rest[l].id => k = l
      BY <1>5, <2>1, <2>5
    <2>9. QED
      BY <1>2, <1>5, <2>3, <2>6, <2>7, <2>8 DEF HeapIds
  <1>8. HeapIdx(heap_)'
    <2>1. \A k \in 1 .. n : s[k].idx = k - 1
      BY <1>3, <1>4 DEF HeapIdx
    <2>2. \A k \in 1 .. n - 1 : k \in 1 .. n
      BY <1>1
    <2>3. \A k \in 1 .. n - 1 : rest[k].idx = k - 1
      BY <1>5, <2>1, <2>2
    <2>4. QED
      BY <1>2, <1>5, <2>3 DEF HeapIdx
  <1>9. QED
    BY <1>2, <1>6, <1>7, <1>8 DEF HeapInv

\* bheap.h: in every state of the heap, for any elements and any size, the idx
\* of a context is where the context is (so that the erase of a caller meets
\* its own context), the vector holds the contexts inserted and not erased,
\* each once, and until the first erase the largest is on top once sift_up is
\* done.
THEOREM HeapCorrect == ValuesSpec => []HeapSafe
  <1>1. ValuesInit => HeapInv
    <2> SUFFICES ASSUME ValuesInit PROVE HeapInv
      OBVIOUS
    <2>1. heap_ = <<>> /\ made = 0 /\ live = {} /\ erased = FALSE /\ up = TRUE /\ frames = <<>>
      BY DEF ValuesInit, Heap!Init
    <2>2. heap_ \in Seq(Contexts) /\ Len(heap_) = 0 /\ frames \in Seq(1 .. Len(heap_))
      BY <2>1
    <2>3. HeapTypes
      BY <2>1, <2>2 DEF HeapTypes
    <2>4. HeapIds(heap_)
      BY <2>1, <2>2, FS_EmptySet DEF HeapIds
    <2>5. HeapIdx(heap_) /\ Ordered(ValsOf(heap_), Len(heap_), Sifted)
      BY <2>1, <2>2 DEF HeapIdx, Ordered, Sifted
    <2>6. QED
      BY <2>1, <2>3, <2>4, <2>5 DEF HeapInv
  <1>2. HeapInv /\ [ValuesNext]_valuesVars => HeapInv'
    <2> SUFFICES ASSUME HeapInv, [ValuesNext]_valuesVars PROVE HeapInv'
      OBVIOUS
    <2>1. CASE UNCHANGED heapVars
      BY <2>1 DEF heapVars, HeapInv, HeapTypes, HeapIds, HeapIdx, Ordered, ValsOf, Sifted
    <2>2. CASE Heap!insert
      BY <2>2, HeapInsert
    <2>3. CASE Heap!erase
      <3>1. PICK c \in 1 .. Len(heap_) : Heap!EraseAt(heap_[c].idx + 1) /\ live' = live \ {heap_[c].id}
        BY <2>3 DEF Heap!erase
      <3>2. heap_[c].idx + 1 = c
        BY DEF HeapInv, HeapIdx
      <3>3. QED
        BY <3>1, <3>2, HeapErase
    <2>4. CASE Heap!pop
      <3>1. Heap!EraseAt(1) /\ live' = live \ {heap_[1].id} /\ heap_ # <<>>
        BY <2>4 DEF Heap!pop
      <3>2. heap_ \in Seq(Contexts)
        BY DEF HeapInv, HeapTypes
      <3>3. 1 \in 1 .. Len(heap_)
        BY <3>1, <3>2, EmptySeq, LenProperties
      <3>4. QED
        BY <3>1, <3>3, HeapErase
    <2>5. CASE Heap!sift_up
      BY <2>5, HeapSiftUp
    <2>6. CASE Heap!sift_down
      BY <2>6, HeapSiftDown
    <2>7. Heap!Next \/ UNCHANGED heapVars
      BY DEF ValuesNext, valuesVars
    <2>8. QED
      BY <2>1, <2>2, <2>3, <2>4, <2>5, <2>6, <2>7 DEF Heap!Next
  <1>3. HeapInv => HeapSafe
    <2> SUFFICES ASSUME HeapInv PROVE HeapSafe
      OBVIOUS
    <2>1. Heap!IdxTracksPosition
      BY DEF HeapInv, HeapIdx, Heap!IdxTracksPosition
    <2>2. Heap!ContextsKept
      <3>1. HeapIds(heap_)
        BY DEF HeapInv
      <3> DEFINE S == {heap_[k].id : k \in 1 .. Len(heap_)}
      <3>2. S = live
        <4>1. \A k \in 1 .. Len(heap_) : heap_[k].id \in live
          BY <3>1 DEF HeapIds
        <4>2. S \subseteq live
          BY <4>1
        <4>3. \A y \in live : \E k \in 1 .. Len(heap_) : heap_[k].id = y
          BY <3>1 DEF HeapIds
        <4>4. live \subseteq S
          BY <4>3
        <4>5. QED
          BY <4>2, <4>4
      <3> HIDE DEF S
      <3>3. Len(heap_) = Cardinality(live)
        BY <3>1 DEF HeapIds
      <3>4. Cardinality(live) = Heap!Cardinality(live)
        BY DEF Cardinality, Heap!Cardinality
      <3>5. QED
        BY <3>2, <3>3, <3>4 DEF S, Heap!ContextsKept
    <2>3. Heap!TopUntilErase
      <3> SUFFICES ASSUME ~erased, frames = <<>>, NEW k \in 1 .. Len(heap_)
                   PROVE  ~Heap!comp_(heap_[1], heap_[k])
        BY DEF Heap!TopUntilErase, Heap!TopIsLargest
      <3> DEFINE v == ValsOf(heap_)
                 n == Len(heap_)
      <3>1. Ordered(v, n, 0) /\ heap_ \in Seq(Contexts)
        BY DEF HeapInv, HeapTypes, Sifted
      <3>2. n \in Nat /\ v \in [1 .. n -> Int]
        BY <3>1, ValsType
      <3>3. 1 \in 1 .. n /\ v[k] = heap_[k].val /\ v[1] = heap_[1].val
        BY <3>2 DEF ValsOf
      <3> HIDE DEF v
      <3>4. v[k] <= v[1]
        BY <3>1, <3>2, OrderedTop
      <3>5. QED
        BY <3>2, <3>3, <3>4 DEF Heap!comp_
    <2>4. QED
      BY <2>1, <2>2, <2>3 DEF HeapSafe
  <1>4. QED
    BY <1>1, <1>2, <1>3, PTL DEF ValuesSpec
=============================================================================
