---------------------------- MODULE QueuesProofs -----------------------------
(***************************************************************************)
(* For every number of slots, every range of index_t that the static       *)
(* asserts allow and every set of elements: the ring is never overfull,    *)
(* pointers into it and answers of writeAvailable stay good, insert and at *)
(* judge it rightly if index_t is not narrower than int, and until they    *)
(* misjudge it (or producerClear meets a consumer at work) it implements   *)
(* BoundedFifo.  What the lock-free array hands out, for any number of     *)
(* producers and consumers, and that the staging buffer keeps its records  *)
(* apart, for every size too.                                              *)
(***************************************************************************)
EXTENDS Queues, SequenceTheorems, TLAPS

Index == 0 .. IndexRange - 1

\* How far a call in progress is ahead of the index it will store.
Written == Ring!Minus(prod.head, rhead)
Taken == Ring!Minus(cons.tail, tail)

\* The i-th element from tail on.
ElementAt(d, t, i) == d[Ring!Slot(t + i - 1)]

RingTypes ==
    /\ rhead \in Index /\ tail \in Index
    /\ data_buff \in [Ring!Slots -> Values]
    /\ prod \in [pc : {"idle", "write", "store", "load"}, head : Index, items : Seq(Values),
                 todo : Nat, loop : BOOLEAN]
    /\ cons \in [pc : {"idle", "read", "store", "load"}, tail : Index, left : Nat, todo : Nat,
                 loop : BOOLEAN, got : Seq(Values)]
    /\ buff \in Seq(Values) /\ room \in 0 .. buffer_size

\* Every pointer the consumer holds is into the elements of the ring.
ViewInside ==
    \A v \in view : \E i \in 1 .. Ring!readAvailable :
        v = <<Ring!Slot(tail + i - 1), data_buff[Ring!Slot(tail + i - 1)]>>

\* What the producer writes and has yet to write fits, whatever the consumer
\* has taken out since tail was loaded.
ProducerFits ==
    /\ prod.pc = "write" => /\ prod.todo \in 1 .. Len(prod.items)
                            /\ Ring!readAvailable + Written + prod.todo <= buffer_size
    /\ prod.pc = "store" => Ring!readAvailable + Written <= buffer_size
    /\ prod.pc = "load" => prod.head = rhead /\ prod.items # <<>>

\* The consumer has copied the oldest elements.
CopiedOldest ==
    /\ Len(cons.got) = Taken
    /\ \A i \in 1 .. Taken : cons.got[i] = ElementAt(data_buff, tail, i)

\* What the consumer reads and has yet to read is there.
ConsumerFinds ==
    /\ cons.pc = "read" => /\ cons.todo \in 1 .. cons.left
                           /\ Taken + cons.todo <= Ring!readAvailable
                           /\ CopiedOldest
    /\ cons.pc = "store" => Taken <= Ring!readAvailable /\ (cons.got = <<>> \/ CopiedOldest)
    /\ cons.pc = "load" => cons.tail = tail /\ cons.left # 0

\* The inductive invariant, until something is misjudged or producerClear
\* meets a consumer at work.
RingInv ==
    /\ RingTypes
    /\ Ring!NeverOverfull
    /\ ViewInside
    /\ Ring!RoomHolds
    /\ ProducerFits
    /\ ConsumerFinds

Calm == ~raced /\ ~misjudged

\* The invariant of all states.
RingAlways == RingSafe /\ (Calm => RingInv)
-----------------------------------------------------------------------------
(* Arithmetic modulo the number of slots and the range of index_t *)

\* Division with remainder.
LEMMA DivMod ==
    ASSUME NEW n \in Nat, NEW m \in Nat \ {0}
    PROVE  n = m * (n \div m) + (n % m) /\ n \div m \in Nat /\ n % m \in 0 .. m - 1
  BY SMTT(30)

\* A multiple of the modulus does not count.
LEMMA ModAdd ==
    ASSUME NEW n \in Nat, NEW m \in Nat \ {0}, NEW k \in Nat
    PROVE  (n + k * m) % m = n % m
  <1> DEFINE q == n \div m
             r == n % m
  <1>1. n = m * q + r /\ q \in Nat /\ r \in 0 .. m - 1
    BY DivMod
  <1> HIDE DEF q, r
  <1>2. n + k * m = (q + k) * m + r
    BY <1>1, SMTT(30)
  <1>3. ((q + k) * m + r) % m = r
    BY <1>1, SMTT(30)
  <1>4. QED
    BY <1>2, <1>3 DEF r

\* Nor does any number that the modulus divides.
LEMMA ModTurn ==
    ASSUME NEW n \in Nat, NEW m \in Nat \ {0}, NEW R \in Nat, R % m = 0
    PROVE  (n + R) % m = n % m
  <1> DEFINE k == R \div m
  <1>1. R = m * k + (R % m) /\ k \in Nat
    BY DivMod
  <1> HIDE DEF k
  <1>2. R = k * m
    BY <1>1
  <1>3. QED
    BY <1>1, <1>2, ModAdd

\* Numbers less than the modulus apart have different remainders.
LEMMA ModApart ==
    ASSUME NEW x \in Nat, NEW y \in Nat, NEW m \in Nat \ {0}, x < y, y - x < m
    PROVE  x % m # y % m
  <1> SUFFICES ASSUME x % m = y % m PROVE FALSE
    OBVIOUS
  <1> DEFINE q == x \div m
             p == y \div m
             r == x % m
  <1>1. x = m * q + r /\ q \in Nat /\ r \in 0 .. m - 1
    BY DivMod
  <1>2. y = m * p + r /\ p \in Nat
    BY DivMod
  <1> HIDE DEF q, r, p
  <1>3. p - q \in Int /\ y - x = m * (p - q)
    BY <1>1, <1>2, SMTT(30)
  <1>4. p - q <= 0 => m * (p - q) <= 0
    BY <1>3, SMTT(30)
  <1>5. p - q >= 1 => m * (p - q) >= m
    BY <1>3, SMTT(30)
  <1>6. QED
    BY <1>3, <1>4, <1>5

\* Minus, without the modulus.
LEMMA IndexMinus ==
    ASSUME Ring!SizeAssumption, NEW a \in Index, NEW b \in Index
    PROVE  Ring!Minus(a, b) \in Index /\ Ring!Minus(a, b) = IF b <= a THEN a - b ELSE a - b + IndexRange
  <1>1. CASE b <= a
    BY <1>1 DEF Ring!SizeAssumption, Ring!Minus, Index
  <1>2. CASE b > a
    <2>1. PICK x \in Nat : x = b - a
      BY <1>2 DEF Index, Ring!SizeAssumption
    <2>2. x \in 1 .. IndexRange - 1 /\ IndexRange \in Nat \ {0}
      BY <1>2, <2>1 DEF Index, Ring!SizeAssumption
    <2>3. (-x) % IndexRange = IndexRange - x
      BY <2>2
    <2>4. a - b = -x
      BY <2>1 DEF Index, Ring!SizeAssumption
    <2>5. QED
      BY <1>2, <2>1, <2>2, <2>3, <2>4 DEF Ring!Minus, Index
  <1>3. QED
    BY <1>1, <1>2 DEF Index, Ring!SizeAssumption

\* The step of an index, without the modulus.
LEMMA IndexPlus ==
    ASSUME Ring!SizeAssumption, NEW a \in Index, NEW n \in Index
    PROVE  /\ (a + n) % IndexRange \in Index
           /\ (a + n) % IndexRange = IF a + n < IndexRange THEN a + n ELSE a + n - IndexRange
  <1>1. PICK x \in Nat : x = a + n
    BY DEF Index, Ring!SizeAssumption
  <1>2. IndexRange \in Nat \ {0} /\ x < 2 * IndexRange
    BY <1>1 DEF Index, Ring!SizeAssumption
  <1>3. x % IndexRange = IF x < IndexRange THEN x ELSE x - IndexRange
    BY <1>2, SMTT(30)
  <1>4. QED
    BY <1>1, <1>2, <1>3 DEF Index

\* The types of the parameters.
LEMMA SizeTypes ==
    ASSUME Ring!SizeAssumption
    PROVE  /\ IndexRange \in Nat \ {0} /\ buffer_size \in Nat \ {0} /\ buffer_size < IndexRange
           /\ 0 \in Index /\ Index \subseteq Nat /\ MaxCount \in Nat
           /\ \A a \in Index : a < IndexRange
  BY DEF Ring!SizeAssumption, Index

\* An index that is stepped on is that much farther from any other.
LEMMA MinusStepped ==
    ASSUME Ring!SizeAssumption, NEW a \in Index, NEW t \in Index, NEW n \in Index, Ring!Minus(a, t) + n < IndexRange
    PROVE  Ring!Minus((a + n) % IndexRange, t) = Ring!Minus(a, t) + n
  <1> DEFINE c == (a + n) % IndexRange
  <1>1. c \in Index /\ c = IF a + n < IndexRange THEN a + n ELSE a + n - IndexRange
    BY IndexPlus
  <1>2. Ring!Minus(a, t) = IF t <= a THEN a - t ELSE a - t + IndexRange
    BY IndexMinus
  <1> HIDE DEF c
  <1>3. Ring!Minus(c, t) = IF t <= c THEN c - t ELSE c - t + IndexRange
    BY <1>1, IndexMinus
  <1>4. QED
    BY <1>1, <1>2, <1>3, SizeTypes DEF c

\* Distances along the ring add up.
LEMMA MinusSplit ==
    ASSUME Ring!SizeAssumption, NEW a \in Index, NEW b \in Index, NEW c \in Index
    PROVE  /\ Ring!Minus(a, a) = 0
           /\ Ring!Minus(b, c) <= Ring!Minus(a, c) => Ring!Minus(a, b) = Ring!Minus(a, c) - Ring!Minus(b, c)
           /\ Ring!Minus(a, b) + Ring!Minus(b, c) < IndexRange => Ring!Minus(a, c) = Ring!Minus(a, b) + Ring!Minus(b, c)
  <1>1. /\ Ring!Minus(a, a) = 0
        /\ Ring!Minus(b, c) = IF c <= b THEN b - c ELSE b - c + IndexRange
        /\ Ring!Minus(a, c) = IF c <= a THEN a - c ELSE a - c + IndexRange
        /\ Ring!Minus(a, b) = IF b <= a THEN a - b ELSE a - b + IndexRange
    BY IndexMinus, SizeTypes
  <1>2. QED
    BY <1>1, SizeTypes

\* Every index has a slot.
LEMMA SlotType ==
    ASSUME Ring!SizeAssumption, NEW i \in Nat
    PROVE  Ring!Slot(i) \in Ring!Slots
  <1>1. i % buffer_size \in 0 .. buffer_size - 1
    BY SizeTypes, DivMod
  <1>2. QED
    BY <1>1 DEF Ring!Slot, Ring!Slots

\* Indices a turn of index_t apart have the same slot.
LEMMA SlotTurn ==
    ASSUME Ring!SizeAssumption, NEW i \in Nat
    PROVE  Ring!Slot(i + IndexRange) = Ring!Slot(i)
  <1>1. IndexRange \in Nat /\ buffer_size \in Nat \ {0} /\ IndexRange % buffer_size = 0
    BY SizeTypes DEF Ring!SizeAssumption
  <1>2. (i + IndexRange) % buffer_size = i % buffer_size
    BY <1>1, ModTurn
  <1>3. QED
    BY <1>2 DEF Ring!Slot

\* Indices less than the buffer apart have different slots.
LEMMA SlotApart ==
    ASSUME Ring!SizeAssumption, NEW i \in Nat, NEW j \in Nat, i < j, j - i < buffer_size
    PROVE  Ring!Slot(i) # Ring!Slot(j)
  BY SizeTypes, ModApart DEF Ring!Slot

\* Counting from another index of the ring leads to the same slot.
LEMMA SlotFrom ==
    ASSUME Ring!SizeAssumption, NEW a \in Index, NEW t \in Index, NEW i \in Nat
    PROVE  Ring!Slot(a + i) = Ring!Slot(t + Ring!Minus(a, t) + i)
  <1>1. Ring!Minus(a, t) = IF t <= a THEN a - t ELSE a - t + IndexRange
    BY IndexMinus
  <1>2. a \in Nat /\ t \in Nat /\ IndexRange \in Nat
    BY SizeTypes
  <1>3. CASE t <= a
    <2>1. t + Ring!Minus(a, t) + i = a + i
      BY <1>1, <1>2, <1>3
    <2>2. QED
      BY <2>1
  <1>4. CASE ~(t <= a)
    <2>1. t + Ring!Minus(a, t) + i = (a + i) + IndexRange /\ a + i \in Nat
      BY <1>1, <1>2, <1>4
    <2>2. QED
      BY <2>1, SlotTurn
  <1>5. QED
    BY <1>3, <1>4
-----------------------------------------------------------------------------
(* The calls in progress *)

\* The types that every step starts from.
LEMMA RingFacts ==
    ASSUME Ring!SizeAssumption, RingInv
    PROVE  /\ rhead \in Index /\ tail \in Index /\ prod.head \in Index /\ cons.tail \in Index
           /\ Ring!readAvailable = Ring!Minus(rhead, tail)
           /\ Ring!readAvailable \in Nat /\ Written \in Nat /\ Taken \in Nat
           /\ Ring!readAvailable <= buffer_size
           /\ Ring!writeAvailable = buffer_size - Ring!readAvailable
           /\ room \in 0 .. Ring!writeAvailable
           /\ prod.items \in Seq(Values) /\ prod.todo \in Nat /\ cons.got \in Seq(Values)
           /\ cons.left \in Nat /\ cons.todo \in Nat
           /\ data_buff \in [Ring!Slots -> Values] /\ buff \in Seq(Values)
  <1>1. /\ rhead \in Index /\ tail \in Index /\ prod.head \in Index /\ cons.tail \in Index
        /\ prod.items \in Seq(Values) /\ prod.todo \in Nat /\ cons.got \in Seq(Values)
        /\ cons.left \in Nat /\ cons.todo \in Nat /\ room \in Nat
        /\ data_buff \in [Ring!Slots -> Values] /\ buff \in Seq(Values)
    BY SizeTypes DEF RingInv, RingTypes
  <1>2. Ring!readAvailable \in Nat /\ Written \in Nat /\ Taken \in Nat
    BY <1>1, IndexMinus, SizeTypes DEF Ring!readAvailable, Written, Taken
  <1>3. Ring!readAvailable <= buffer_size /\ room <= Ring!writeAvailable
    BY DEF RingInv, Ring!NeverOverfull, Ring!RoomHolds
  <1>4. Ring!writeAvailable = buffer_size - Ring!readAvailable
    <2>1. PICK x \in Nat : x = buffer_size - Ring!readAvailable
      BY <1>2, <1>3, SizeTypes
    <2>2. x % IndexRange = x
      BY <1>2, <2>1, SizeTypes
    <2>3. QED
      BY <2>1, <2>2 DEF Ring!writeAvailable, Ring!readAvailable
  <1>5. QED
    BY <1>1, <1>2, <1>3, <1>4, SizeTypes DEF Ring!readAvailable

\* LoadTail takes on no more than there is room for.
LEMMA LoadTailFits ==
    ASSUME Ring!SizeAssumption, RingInv, NEW items \in Seq(Values), NEW n \in 1 .. Len(items), NEW loop \in BOOLEAN
    PROVE  LET p == Ring!LoadTail(rhead, items, n, loop) IN
           /\ p \in [pc : {"idle", "write", "store", "load"}, head : Index, items : Seq(Values),
                     todo : Nat, loop : BOOLEAN]
           /\ p.pc \in {"idle", "write"}
           /\ p.pc = "write" => /\ p.todo \in 1 .. Len(p.items)
                                /\ p.head = rhead /\ Ring!readAvailable + p.todo <= buffer_size
  <1> DEFINE p == Ring!LoadTail(rhead, items, n, loop)
             available == (buffer_size - Ring!Minus(rhead, tail)) % IndexRange
  <1>1. available = buffer_size - Ring!readAvailable /\ available \in Nat
    <2>1. available = Ring!writeAvailable
      BY DEF Ring!writeAvailable
    <2>2. Ring!writeAvailable = buffer_size - Ring!readAvailable /\ Ring!readAvailable \in Nat /\ Ring!readAvailable <= buffer_size
      BY RingFacts
    <2> HIDE DEF available
    <2>3. QED
      BY <2>1, <2>2, SizeTypes
  <1>2. p = IF available = 0 THEN Ring!PIdle
            ELSE [pc |-> "write", head |-> rhead, items |-> items, todo |-> Ring!AtMost(n, available), loop |-> loop]
    BY DEF Ring!LoadTail
  <1> HIDE DEF available, p
  <1>3. Len(items) \in Nat /\ n \in Nat
    OBVIOUS
  <1>4. CASE available = 0
    <2>1. p = Ring!PIdle /\ <<>> \in Seq(Values)
      BY <1>2, <1>4
    <2>2. QED
      BY <2>1, SizeTypes DEF Ring!PIdle, p
  <1>5. CASE available # 0
    <2>1. p = [pc |-> "write", head |-> rhead, items |-> items, todo |-> Ring!AtMost(n, available), loop |-> loop]
      BY <1>2, <1>5
    <2>2. Ring!AtMost(n, available) \in 1 .. Len(items) /\ Ring!AtMost(n, available) <= available
      BY <1>1, <1>3, <1>5 DEF Ring!AtMost
    <2>3. Ring!readAvailable + Ring!AtMost(n, available) <= buffer_size
      BY <1>1, <2>2, RingFacts, SizeTypes, SMTT(30)
    <2>4. rhead \in Index
      BY RingFacts
    <2>5. QED
      BY <2>1, <2>2, <2>3, <2>4 DEF p
  <1>6. QED
    BY <1>4, <1>5

\* LoadHead takes on no more than there is to read.
LEMMA LoadHeadFinds ==
    ASSUME Ring!SizeAssumption, RingInv, NEW count \in Nat, NEW n \in 1 .. count, NEW loop \in BOOLEAN
    PROVE  LET c == Ring!LoadHead(tail, count, n, loop) IN
           /\ c \in [pc : {"idle", "read", "store", "load"}, tail : Index, left : Nat, todo : Nat,
                     loop : BOOLEAN, got : Seq(Values)]
           /\ c.pc \in {"idle", "read"}
           /\ c.pc = "read" => /\ c.todo \in 1 .. c.left /\ c.todo <= Ring!readAvailable
                               /\ c.tail = tail /\ c.got = <<>>
  <1> DEFINE c == Ring!LoadHead(tail, count, n, loop)
  <1>1. Ring!readAvailable \in Nat /\ tail \in Index /\ <<>> \in Seq(Values)
    BY RingFacts
  <1>2. c = IF Ring!readAvailable = 0 THEN Ring!CIdle
            ELSE [pc |-> "read", tail |-> tail, left |-> count, todo |-> Ring!AtMost(n, Ring!readAvailable),
                  loop |-> loop, got |-> <<>>]
    BY DEF Ring!LoadHead, Ring!readAvailable
  <1> HIDE DEF c
  <1>3. CASE Ring!readAvailable = 0
    BY <1>1, <1>2, <1>3, SizeTypes DEF Ring!CIdle, c
  <1>4. CASE Ring!readAvailable # 0
    <2>1. c = [pc |-> "read", tail |-> tail, left |-> count, todo |-> Ring!AtMost(n, Ring!readAvailable),
               loop |-> loop, got |-> <<>>]
      BY <1>2, <1>4
    <2>2. Ring!AtMost(n, Ring!readAvailable) \in 1 .. count /\ Ring!AtMost(n, Ring!readAvailable) <= Ring!readAvailable
      BY <1>1, <1>4 DEF Ring!AtMost
    <2>3. QED
      BY <1>1, <2>1, <2>2 DEF c
  <1>5. QED
    BY <1>3, <1>4
-----------------------------------------------------------------------------
(* The steps of the producer *)

\* A call begins, or goes on after a callback: tail is loaded.
LEMMA StartWriteKeeps ==
    ASSUME Ring!SizeAssumption, RingInv,
           NEW items \in Seq(Values), NEW n \in 1 .. Len(items), NEW loop \in BOOLEAN,
           prod' = Ring!LoadTail(rhead, items, n, loop),
           UNCHANGED <<rhead, tail, data_buff, cons, buff, view, room>>
    PROVE  RingInv'
  <1>1. /\ prod' \in [pc : {"idle", "write", "store", "load"}, head : Index, items : Seq(Values),
                      todo : Nat, loop : BOOLEAN]
        /\ prod'.pc \in {"idle", "write"}
        /\ prod'.pc = "write" => /\ prod'.todo \in 1 .. Len(prod'.items)
                                 /\ prod'.head = rhead /\ Ring!readAvailable + prod'.todo <= buffer_size
    BY LoadTailFits
  <1>2. Ring!Minus(rhead, rhead) = 0 /\ Ring!readAvailable \in Nat
    BY RingFacts, MinusSplit
  <1>3. ProducerFits'
    <2> SUFFICES ASSUME prod'.pc = "write"
                 PROVE  /\ prod'.todo \in 1 .. Len(prod'.items)
                        /\ Ring!readAvailable' + Written' + prod'.todo <= buffer_size
      BY <1>1 DEF ProducerFits
    <2>1. Ring!readAvailable' = Ring!readAvailable /\ Written' = 0
      BY <1>1, <1>2 DEF Ring!readAvailable, Written
    <2>2. QED
      BY <1>1, <1>2, <2>1
  <1>4. RingTypes'
    BY <1>1 DEF RingInv, RingTypes
  <1>5. Ring!NeverOverfull' /\ ViewInside' /\ Ring!RoomHolds' /\ ConsumerFinds'
    BY DEF RingInv, Ring!NeverOverfull, ViewInside, Ring!RoomHolds, ConsumerFinds, CopiedOldest,
           Ring!readAvailable, Ring!writeAvailable, Taken
  <1>6. QED
    BY <1>3, <1>4, <1>5 DEF RingInv

\* The slot the producer writes is none of those that hold elements.
LEMMA WriteOutside ==
    ASSUME Ring!SizeAssumption, RingInv, Ring!WriteSlot
    PROVE  /\ Ring!Slot(prod.head) \in Ring!Slots
           /\ \A i \in 1 .. Ring!readAvailable :
                  /\ Ring!Slot(tail + i - 1) \in Ring!Slots
                  /\ data_buff'[Ring!Slot(tail + i - 1)] = data_buff[Ring!Slot(tail + i - 1)]
           /\ data_buff' \in [Ring!Slots -> Values]
  <1>1. /\ prod.pc = "write" /\ data_buff' = [data_buff EXCEPT ![Ring!Slot(prod.head)] = Head(prod.items)]
    BY DEF Ring!WriteSlot
  <1>2. /\ prod.todo \in 1 .. Len(prod.items)
        /\ Ring!readAvailable + Written + prod.todo <= buffer_size
    BY <1>1 DEF RingInv, ProducerFits
  <1>3. /\ rhead \in Index /\ tail \in Index /\ prod.head \in Index /\ Ring!readAvailable \in Nat /\ Written \in Nat
        /\ prod.items \in Seq(Values) /\ data_buff \in [Ring!Slots -> Values]
    BY RingFacts
  <1>4. Ring!Minus(prod.head, tail) = Ring!readAvailable + Written
    <2>1. Ring!Minus(prod.head, rhead) + Ring!Minus(rhead, tail) < IndexRange
      BY <1>2, <1>3, SizeTypes DEF Ring!readAvailable, Written
    <2>2. Ring!Minus(prod.head, tail) = Ring!Minus(prod.head, rhead) + Ring!Minus(rhead, tail)
      BY <1>3, <2>1, MinusSplit
    <2>3. QED
      BY <1>3, <2>2 DEF Ring!readAvailable, Written
  <1>5. Ring!Slot(prod.head) = Ring!Slot(tail + Ring!readAvailable + Written)
    <2>1. Ring!Slot(prod.head + 0) = Ring!Slot(tail + Ring!Minus(prod.head, tail) + 0)
      BY <1>3, SlotFrom
    <2>2. prod.head + 0 = prod.head /\ tail + Ring!Minus(prod.head, tail) + 0 = tail + Ring!readAvailable + Written
      BY <1>3, <1>4, SizeTypes
    <2>3. QED
      BY <2>1, <2>2
  <1>6. ASSUME NEW i \in 1 .. Ring!readAvailable
        PROVE  Ring!Slot(tail + i - 1) \in Ring!Slots /\ Ring!Slot(tail + i - 1) # Ring!Slot(prod.head)
    <2> DEFINE x == tail + i - 1
               y == tail + Ring!readAvailable + Written
    <2>1. x \in Nat /\ y \in Nat /\ x < y /\ y - x < buffer_size
      <3>1. tail \in Nat /\ buffer_size \in Nat
        BY <1>3, SizeTypes
      <3>2. Ring!readAvailable + Written < buffer_size
        BY <1>2, <1>3, <3>1
      <3>3. QED
        BY <1>3, <3>1, <3>2
    <2> HIDE DEF x, y
    <2>2. Ring!Slot(x) \in Ring!Slots /\ Ring!Slot(x) # Ring!Slot(y)
      BY <2>1, SlotType, SlotApart
    <2>3. QED
      BY <1>5, <2>2 DEF x, y
  <1>7. Ring!Slot(prod.head) \in Ring!Slots
    BY <1>3, SizeTypes, SlotType
  <1>8. Head(prod.items) \in Values
    BY <1>2, <1>3
  <1>9. QED
    BY <1>1, <1>3, <1>6, <1>7, <1>8

\* One element is written.
LEMMA WriteSlotKeeps ==
    ASSUME Ring!SizeAssumption, RingInv, Ring!WriteSlot
    PROVE  RingInv'
  <1>1. /\ prod.pc = "write"
        /\ prod' = [prod EXCEPT !.items = Tail(@), !.todo = @ - 1,
                                !.head = (@ + 1) % IndexRange,
                                !.pc = IF prod.todo = 1 THEN "store" ELSE "write"]
        /\ UNCHANGED <<rhead, tail, cons, buff, view, room>>
    BY DEF Ring!WriteSlot
  <1>2. /\ prod.todo \in 1 .. Len(prod.items)
        /\ Ring!readAvailable + Written + prod.todo <= buffer_size
    BY <1>1 DEF RingInv, ProducerFits
  <1>3. /\ rhead \in Index /\ tail \in Index /\ prod.head \in Index /\ Ring!readAvailable \in Nat /\ Written \in Nat
        /\ prod.items \in Seq(Values) /\ prod.todo \in Nat
    BY RingFacts
  <1>4. /\ Tail(prod.items) \in Seq(Values) /\ Len(Tail(prod.items)) = Len(prod.items) - 1
        /\ prod.todo - 1 \in Nat /\ (prod.head + 1) % IndexRange \in Index
    <2>1. prod.items # <<>> /\ Len(prod.items) \in Nat
      BY <1>2, <1>3
    <2>2. 1 \in Index
      BY DEF Ring!SizeAssumption, Index
    <2>3. (prod.head + 1) % IndexRange \in Index
      BY <1>3, <2>2, IndexPlus
    <2>4. Tail(prod.items) \in Seq(Values) /\ Len(Tail(prod.items)) = Len(prod.items) - 1
      BY <1>3, <2>1, HeadTailProperties
    <2>5. QED
      BY <1>2, <2>1, <2>3, <2>4
  <1>5. /\ prod' \in [pc : {"idle", "write", "store", "load"}, head : Index, items : Seq(Values),
                      todo : Nat, loop : BOOLEAN]
        /\ prod'.pc = (IF prod.todo = 1 THEN "store" ELSE "write")
        /\ prod'.items = Tail(prod.items) /\ prod'.todo = prod.todo - 1
        /\ prod'.head = (prod.head + 1) % IndexRange
    BY <1>1, <1>4 DEF RingInv, RingTypes
  <1>6. Written' = Written + 1
    <2>1. 1 \in Index /\ Ring!Minus(prod.head, rhead) + 1 < IndexRange
      BY <1>2, <1>3, SizeTypes DEF Ring!SizeAssumption, Index, Written
    <2>2. Ring!Minus((prod.head + 1) % IndexRange, rhead) = Ring!Minus(prod.head, rhead) + 1
      BY <1>3, <2>1, MinusStepped
    <2>3. QED
      BY <1>1, <1>5, <2>2 DEF Written
  <1>7. Ring!readAvailable' = Ring!readAvailable /\ Ring!writeAvailable' = Ring!writeAvailable /\ Taken' = Taken
    BY <1>1 DEF Ring!readAvailable, Ring!writeAvailable, Taken
  <1>8. ProducerFits'
    <2>1. CASE prod.todo = 1
      BY <1>2, <1>3, <1>5, <1>6, <1>7, <2>1 DEF ProducerFits
    <2>2. CASE prod.todo # 1
      <3>1. prod'.todo \in 1 .. Len(prod'.items)
        BY <1>2, <1>3, <1>4, <1>5, <2>2
      <3>2. Ring!readAvailable' + Written' + prod'.todo <= buffer_size
        BY <1>2, <1>3, <1>5, <1>6, <1>7, SizeTypes, SMTT(30)
      <3>3. prod'.pc = "write"
        BY <1>5, <2>2
      <3>4. QED
        BY <3>1, <3>2, <3>3 DEF ProducerFits
    <2>3. QED
      BY <2>1, <2>2
  <1>9. /\ data_buff' \in [Ring!Slots -> Values]
        /\ \A i \in 1 .. Ring!readAvailable : data_buff'[Ring!Slot(tail + i - 1)] = data_buff[Ring!Slot(tail + i - 1)]
    BY WriteOutside
  <1>10. RingTypes'
    BY <1>1, <1>5, <1>9 DEF RingInv, RingTypes
  <1>11. ViewInside'
    <2> SUFFICES ASSUME NEW v \in view
                 PROVE  \E i \in 1 .. Ring!readAvailable : v = <<Ring!Slot(tail + i - 1), data_buff'[Ring!Slot(tail + i - 1)]>>
      BY <1>1, <1>7 DEF ViewInside
    <2>1. PICK i \in 1 .. Ring!readAvailable : v = <<Ring!Slot(tail + i - 1), data_buff[Ring!Slot(tail + i - 1)]>>
      BY DEF RingInv, ViewInside
    <2>2. QED
      BY <1>9, <2>1
  <1>12. CopiedOldest /\ Taken <= Ring!readAvailable => CopiedOldest'
    <2> SUFFICES ASSUME CopiedOldest, Taken <= Ring!readAvailable PROVE CopiedOldest'
      OBVIOUS
    <2>1. Taken \in Nat
      BY RingFacts
    <2>2. ASSUME NEW i \in 1 .. Taken PROVE cons.got[i] = data_buff'[Ring!Slot(tail + i - 1)]
      <3>1. i \in 1 .. Ring!readAvailable
        BY <1>3, <2>1
      <3>2. QED
        BY <1>9, <3>1 DEF CopiedOldest, ElementAt
    <2>3. QED
      BY <1>1, <1>7, <2>2 DEF CopiedOldest, ElementAt
  <1>13. ConsumerFinds'
    <2> SUFFICES ASSUME ConsumerFinds PROVE ConsumerFinds'
      BY <1>1 DEF RingInv
    <2>1. Taken \in Nat /\ cons.todo \in Nat
      BY RingFacts
    <2>2. QED
      BY <1>1, <1>3, <1>7, <1>12, <2>1 DEF ConsumerFinds
  <1>14. Ring!NeverOverfull' /\ Ring!RoomHolds'
    BY <1>1, <1>7 DEF RingInv, Ring!NeverOverfull, Ring!RoomHolds
  <1>15. QED
    BY <1>8, <1>10, <1>11, <1>13, <1>14 DEF RingInv

\* head is stored: the batch is in the ring.
LEMMA StoreHeadFacts ==
    ASSUME Ring!SizeAssumption, RingInv, Ring!StoreHead
    PROVE  /\ Ring!readAvailable' = Ring!readAvailable + Written /\ Ring!readAvailable' <= buffer_size
           /\ Ring!readAvailable' \in Nat
  <1>1. prod.pc = "store" /\ rhead' = prod.head /\ UNCHANGED tail
    BY DEF Ring!StoreHead
  <1>2. Ring!readAvailable + Written <= buffer_size
    BY <1>1 DEF RingInv, ProducerFits
  <1>3. /\ rhead \in Index /\ tail \in Index /\ prod.head \in Index
        /\ Ring!readAvailable \in Nat /\ Written \in Nat
    BY RingFacts
  <1>4. Ring!Minus(prod.head, rhead) + Ring!Minus(rhead, tail) < IndexRange
    BY <1>2, <1>3, SizeTypes DEF Ring!readAvailable, Written
  <1>5. Ring!Minus(prod.head, tail) = Ring!Minus(prod.head, rhead) + Ring!Minus(rhead, tail)
    BY <1>3, <1>4, MinusSplit
  <1>6. Ring!readAvailable' = Ring!Minus(prod.head, tail)
    BY <1>1 DEF Ring!readAvailable
  <1>7. QED
    BY <1>2, <1>3, <1>5, <1>6 DEF Ring!readAvailable, Written

\* writeAvailable subtracts without a wrap when the ring is not overfull.
LEMMA WriteAvailableIs ==
    ASSUME Ring!SizeAssumption, NEW n \in Nat, n <= buffer_size
    PROVE  (buffer_size - n) % IndexRange = buffer_size - n
  <1>1. PICK x \in Nat : x = buffer_size - n
    BY SizeTypes
  <1>2. x < IndexRange /\ IndexRange \in Nat \ {0}
    BY <1>1, SizeTypes
  <1>3. x % IndexRange = x
    BY <1>2
  <1>4. QED
    BY <1>1, <1>3

\* head is stored.
LEMMA StoreHeadKeeps ==
    ASSUME Ring!SizeAssumption, RingInv, Ring!StoreHead
    PROVE  RingInv'
  <1>1. /\ prod.pc = "store" /\ rhead' = prod.head
        /\ prod' = IF prod.loop /\ prod.items # <<>> THEN [prod EXCEPT !.pc = "load"] ELSE Ring!PIdle
        /\ room' = room - Ring!AtMost(room, Ring!Minus(prod.head, rhead))
        /\ UNCHANGED <<tail, data_buff, cons, buff, view>>
    BY DEF Ring!StoreHead
  <1>2. /\ Ring!readAvailable' = Ring!readAvailable + Written /\ Ring!readAvailable' <= buffer_size
        /\ Ring!readAvailable' \in Nat
    BY StoreHeadFacts
  <1>3. /\ rhead \in Index /\ tail \in Index /\ prod.head \in Index /\ Ring!readAvailable \in Nat /\ Written \in Nat
        /\ Ring!writeAvailable = buffer_size - Ring!readAvailable /\ room \in 0 .. Ring!writeAvailable
        /\ Taken \in Nat /\ cons.todo \in Nat /\ Ring!readAvailable <= buffer_size
    BY RingFacts
  <1>4. Ring!writeAvailable' = buffer_size - Ring!readAvailable'
    BY <1>2, WriteAvailableIs DEF Ring!writeAvailable, Ring!readAvailable
  <1>5. room' \in 0 .. buffer_size /\ room' <= Ring!writeAvailable'
    <2>1. room' = room - Ring!AtMost(room, Written)
      BY <1>1 DEF Written
    <2>2. room \in Nat /\ room <= buffer_size - Ring!readAvailable /\ buffer_size \in Nat
      BY <1>3, SizeTypes
    <2>3. QED
      BY <1>2, <1>3, <1>4, <2>1, <2>2 DEF Ring!AtMost
  <1>6. /\ prod' \in [pc : {"idle", "write", "store", "load"}, head : Index, items : Seq(Values),
                      todo : Nat, loop : BOOLEAN]
        /\ ProducerFits'
    <2>1. prod \in [pc : {"idle", "write", "store", "load"}, head : Index, items : Seq(Values),
                    todo : Nat, loop : BOOLEAN]
      BY DEF RingInv, RingTypes
    <2>2. CASE prod.loop /\ prod.items # <<>>
      <3>1. prod' = [prod EXCEPT !.pc = "load"]
        BY <1>1, <2>2
      <3>2. prod'.pc = "load" /\ prod'.head = prod.head /\ prod'.items = prod.items
        BY <2>1, <3>1
      <3>3. QED
        BY <1>1, <2>1, <2>2, <3>1, <3>2 DEF ProducerFits
    <2>3. CASE ~(prod.loop /\ prod.items # <<>>)
      <3>1. prod' = Ring!PIdle /\ <<>> \in Seq(Values)
        BY <1>1, <2>3
      <3>2. QED
        BY <3>1, SizeTypes DEF Ring!PIdle, ProducerFits
    <2>4. QED
      BY <2>2, <2>3
  <1>7. RingTypes'
    BY <1>1, <1>3, <1>5, <1>6 DEF RingInv, RingTypes
  <1>8. ViewInside'
    <2> SUFFICES ASSUME NEW v \in view
                 PROVE  \E i \in 1 .. Ring!readAvailable' : v = <<Ring!Slot(tail + i - 1), data_buff[Ring!Slot(tail + i - 1)]>>
      BY <1>1 DEF ViewInside
    <2>1. PICK i \in 1 .. Ring!readAvailable : v = <<Ring!Slot(tail + i - 1), data_buff[Ring!Slot(tail + i - 1)]>>
      BY DEF RingInv, ViewInside
    <2>2. i \in 1 .. Ring!readAvailable'
      BY <1>2, <1>3
    <2>3. QED
      BY <2>1, <2>2
  <1>9. ConsumerFinds'
    <2> SUFFICES ASSUME ConsumerFinds PROVE ConsumerFinds'
      BY <1>1 DEF RingInv
    <2>1. Taken' = Taken /\ (CopiedOldest => CopiedOldest')
      BY <1>1 DEF Taken, CopiedOldest, ElementAt
    <2>2. Ring!readAvailable <= Ring!readAvailable'
      BY <1>2, <1>3
    <2>3. QED
      BY <1>1, <1>2, <1>3, <2>1, <2>2 DEF ConsumerFinds
  <1>10. QED
    BY <1>2, <1>5, <1>6, <1>7, <1>8, <1>9 DEF RingInv, Ring!NeverOverfull, Ring!RoomHolds

\* The producer asks how much it may write.
LEMMA AskRoomKeeps ==
    ASSUME Ring!SizeAssumption, RingInv, Ring!AskRoom
    PROVE  RingInv'
  <1>1. room' = Ring!writeAvailable /\ UNCHANGED <<rhead, tail, data_buff, prod, cons, buff, view>>
    BY DEF Ring!AskRoom
  <1>2. Ring!readAvailable \in Nat /\ Ring!readAvailable <= buffer_size /\ Ring!writeAvailable = buffer_size - Ring!readAvailable
    BY RingFacts
  <1>3. room' \in 0 .. buffer_size
    BY <1>1, <1>2, SizeTypes
  <1>4. Ring!writeAvailable' = Ring!writeAvailable
    BY <1>1 DEF Ring!writeAvailable
  <1>5. Ring!RoomHolds'
    BY <1>1, <1>2, <1>3, <1>4, SizeTypes DEF Ring!RoomHolds
  <1>6. QED
    BY <1>1, <1>3, <1>5
       DEF RingInv, RingTypes, Ring!NeverOverfull, ViewInside, ProducerFits, ConsumerFinds, CopiedOldest,
           Ring!readAvailable, Written, Taken

\* The producer empties the ring.
LEMMA ProducerClearKeeps ==
    ASSUME Ring!SizeAssumption, RingInv, Ring!producerClear
    PROVE  /\ Ring!readAvailable' = 0
           /\ Ring!NeverOverfull' /\ Ring!RoomHolds'
           /\ ~raced' => RingInv'
  <1>1. /\ prod.pc = "idle" /\ raced' = (cons.pc # "idle" \/ view # {}) /\ tail' = rhead
        /\ buff' = <<>> /\ UNCHANGED <<rhead, data_buff, prod, cons, view, room>>
    BY DEF Ring!producerClear
  <1>2. rhead \in Index /\ room \in Nat /\ room <= buffer_size
    BY RingFacts DEF RingInv, RingTypes
  <1>3. Ring!readAvailable' = 0
    BY <1>1, <1>2, MinusSplit DEF Ring!readAvailable
  <1>4. Ring!writeAvailable' = buffer_size
    <2>1. (buffer_size - 0) % IndexRange = buffer_size - 0
      BY WriteAvailableIs, SizeTypes
    <2>2. Ring!writeAvailable' = (buffer_size - 0) % IndexRange
      BY <1>3 DEF Ring!writeAvailable, Ring!readAvailable
    <2>3. QED
      BY <2>1, <2>2, SizeTypes
  <1>5. <<>> \in Seq(Values)
    OBVIOUS
  <1>6. RingTypes'
    BY <1>1, <1>2, <1>5 DEF RingInv, RingTypes
  <1>7. ProducerFits'
    BY <1>1 DEF ProducerFits
  <1>8. ~raced' => ConsumerFinds' /\ ViewInside'
    BY <1>1 DEF ConsumerFinds, ViewInside
  <1>9. QED
    BY <1>1, <1>2, <1>3, <1>4, <1>6, <1>7, <1>8, SizeTypes DEF RingInv, Ring!NeverOverfull, Ring!RoomHolds
-----------------------------------------------------------------------------
(* The steps of the consumer *)

\* A call begins, or goes on after a callback: head is loaded.
LEMMA StartReadKeeps ==
    ASSUME Ring!SizeAssumption, RingInv, NEW count \in Nat, NEW n \in 1 .. count, NEW loop \in BOOLEAN,
           cons' = Ring!LoadHead(tail, count, n, loop),
           UNCHANGED <<rhead, tail, data_buff, prod, buff, view, room>>
    PROVE  RingInv'
  <1>1. /\ cons' \in [pc : {"idle", "read", "store", "load"}, tail : Index, left : Nat, todo : Nat,
                      loop : BOOLEAN, got : Seq(Values)]
        /\ cons'.pc \in {"idle", "read"}
        /\ cons'.pc = "read" => /\ cons'.todo \in 1 .. cons'.left /\ cons'.todo <= Ring!readAvailable
                                /\ cons'.tail = tail /\ cons'.got = <<>>
    BY LoadHeadFinds
  <1>2. Ring!Minus(tail, tail) = 0 /\ Ring!readAvailable \in Nat
    BY RingFacts, MinusSplit
  <1>3. ConsumerFinds'
    <2> SUFFICES ASSUME cons'.pc = "read"
                 PROVE  /\ cons'.todo \in 1 .. cons'.left
                        /\ Taken' + cons'.todo <= Ring!readAvailable' /\ CopiedOldest'
      BY <1>1 DEF ConsumerFinds
    <2>1. Ring!readAvailable' = Ring!readAvailable /\ Taken' = 0
      BY <1>1, <1>2 DEF Ring!readAvailable, Taken
    <2>2. CopiedOldest'
      BY <1>1, <2>1 DEF CopiedOldest
    <2>3. QED
      BY <1>1, <1>2, <2>1, <2>2
  <1>4. QED
    BY <1>1, <1>3
       DEF RingInv, RingTypes, Ring!NeverOverfull, ViewInside, Ring!RoomHolds, ProducerFits,
           Ring!readAvailable, Ring!writeAvailable, Written

\* One element is copied.
LEMMA ReadSlotKeeps ==
    ASSUME Ring!SizeAssumption, RingInv, Ring!ReadSlot
    PROVE  RingInv'
  <1> DEFINE e == data_buff[Ring!Slot(cons.tail)]
  <1>1. /\ cons.pc = "read"
        /\ cons' = [cons EXCEPT !.got = Append(@, e), !.tail = (@ + 1) % IndexRange,
                                !.left = @ - 1, !.todo = @ - 1,
                                !.pc = IF cons.todo = 1 THEN "store" ELSE "read"]
        /\ UNCHANGED <<rhead, tail, data_buff, prod, buff, view, room>>
    BY DEF Ring!ReadSlot
  <1>2. cons.todo \in 1 .. cons.left /\ Taken + cons.todo <= Ring!readAvailable /\ CopiedOldest
    BY <1>1 DEF RingInv, ConsumerFinds
  <1>3. /\ rhead \in Index /\ tail \in Index /\ cons.tail \in Index /\ Ring!readAvailable \in Nat /\ Taken \in Nat
        /\ cons.got \in Seq(Values) /\ cons.todo \in Nat /\ cons.left \in Nat
        /\ data_buff \in [Ring!Slots -> Values] /\ Ring!readAvailable <= buffer_size
    BY RingFacts
  <1>4. e \in Values
    BY <1>3, SlotType, SizeTypes
  <1>5. e = ElementAt(data_buff, tail, Taken + 1)
    <2>1. Ring!Slot(cons.tail + 0) = Ring!Slot(tail + Ring!Minus(cons.tail, tail) + 0)
      BY <1>3, SlotFrom
    <2>2. cons.tail + 0 = cons.tail /\ tail + Taken + 0 = tail + (Taken + 1) - 1
      BY <1>3, SizeTypes
    <2>3. QED
      BY <2>1, <2>2 DEF ElementAt, Taken
  <1> HIDE DEF e
  <1>6. 1 \in Index /\ (cons.tail + 1) % IndexRange \in Index
    <2>1. 1 \in Index
      BY DEF Ring!SizeAssumption, Index
    <2>2. QED
      BY <1>3, <2>1, IndexPlus
  <1>7. /\ Append(cons.got, e) \in Seq(Values) /\ Len(Append(cons.got, e)) = Len(cons.got) + 1
        /\ Append(cons.got, e)[Len(cons.got) + 1] = e
        /\ \A i \in 1 .. Len(cons.got) : Append(cons.got, e)[i] = cons.got[i]
    BY <1>3, <1>4
  <1>8. /\ cons' \in [pc : {"idle", "read", "store", "load"}, tail : Index, left : Nat, todo : Nat,
                      loop : BOOLEAN, got : Seq(Values)]
        /\ cons'.pc = (IF cons.todo = 1 THEN "store" ELSE "read")
        /\ cons'.got = Append(cons.got, e) /\ cons'.todo = cons.todo - 1 /\ cons'.left = cons.left - 1
        /\ cons'.tail = (cons.tail + 1) % IndexRange
    <2>1. cons.todo - 1 \in Nat /\ cons.left - 1 \in Nat
      BY <1>2, <1>3
    <2>2. QED
      BY <1>1, <1>6, <1>7, <2>1 DEF RingInv, RingTypes
  <1>9. Taken' = Taken + 1
    <2>1. Ring!Minus(cons.tail, tail) + 1 < IndexRange
      BY <1>2, <1>3, SizeTypes DEF Taken
    <2>2. Ring!Minus((cons.tail + 1) % IndexRange, tail) = Ring!Minus(cons.tail, tail) + 1
      BY <1>3, <1>6, <2>1, MinusStepped
    <2>3. QED
      BY <1>1, <1>8, <2>2 DEF Taken
  <1>10. Ring!readAvailable' = Ring!readAvailable
    BY <1>1 DEF Ring!readAvailable
  <1>11. CopiedOldest'
    <2>1. Len(cons.got) = Taken /\ \A i \in 1 .. Taken : cons.got[i] = ElementAt(data_buff, tail, i)
      BY <1>2 DEF CopiedOldest
    <2>2. ASSUME NEW i \in 1 .. Taken + 1
          PROVE  cons'.got[i] = ElementAt(data_buff, tail, i)
      <3>1. CASE i = Taken + 1
        BY <1>5, <1>7, <1>8, <2>1, <3>1
      <3>2. CASE i # Taken + 1
        <4>1. i \in 1 .. Taken
          BY <1>3, <3>2
        <4>2. QED
          BY <1>7, <1>8, <2>1, <4>1
      <3>3. QED
        BY <3>1, <3>2
    <2>3. Len(cons'.got) = Taken + 1
      BY <1>7, <1>8, <2>1
    <2>4. QED
      BY <1>1, <1>9, <2>2, <2>3 DEF CopiedOldest
  <1>12. ConsumerFinds'
    <2>1. CASE cons.todo = 1
      BY <1>2, <1>3, <1>8, <1>9, <1>10, <1>11, <2>1 DEF ConsumerFinds
    <2>2. CASE cons.todo # 1
      <3>1. cons'.todo \in 1 .. cons'.left /\ Taken' + cons'.todo <= Ring!readAvailable'
        BY <1>2, <1>3, <1>8, <1>9, <1>10, <2>2, SMTT(30)
      <3>2. QED
        BY <1>8, <1>11, <2>2, <3>1 DEF ConsumerFinds
    <2>3. QED
      BY <2>1, <2>2
  <1>13. QED
    BY <1>1, <1>8, <1>12
       DEF RingInv, RingTypes, Ring!NeverOverfull, ViewInside, Ring!RoomHolds, ProducerFits,
           Ring!readAvailable, Ring!writeAvailable, Written

\* tail is stored: the elements that were taken are out of the ring.
LEMMA StoreTailKeeps ==
    ASSUME Ring!SizeAssumption, RingInv, Ring!StoreTail
    PROVE  RingInv' /\ Ring!readAvailable' = Ring!readAvailable - Taken /\ Taken <= Ring!readAvailable
  <1>1. /\ cons.pc = "store" /\ tail' = cons.tail /\ buff' = cons.got
        /\ cons' = IF cons.loop /\ cons.left > 0
                   THEN [cons EXCEPT !.pc = "load", !.got = <<>>] ELSE Ring!CIdle
        /\ view' = (IF cons.tail = tail THEN view ELSE {}) /\ UNCHANGED <<rhead, data_buff, prod, room>>
    BY DEF Ring!StoreTail
  <1>2. Taken <= Ring!readAvailable
    BY <1>1 DEF RingInv, ConsumerFinds
  <1>3. /\ rhead \in Index /\ tail \in Index /\ cons.tail \in Index /\ Ring!readAvailable \in Nat /\ Taken \in Nat
        /\ Written \in Nat /\ prod.todo \in Nat /\ Ring!readAvailable <= buffer_size
        /\ Ring!writeAvailable = buffer_size - Ring!readAvailable /\ room \in 0 .. Ring!writeAvailable
        /\ cons.got \in Seq(Values)
    BY RingFacts
  <1>4. Ring!readAvailable' = Ring!readAvailable - Taken
    <2>1. Ring!Minus(rhead, cons.tail) = Ring!Minus(rhead, tail) - Ring!Minus(cons.tail, tail)
      BY <1>2, <1>3, MinusSplit DEF Ring!readAvailable, Taken
    <2>2. QED
      BY <1>1, <2>1 DEF Ring!readAvailable, Taken
  <1>5. Ring!readAvailable' \in Nat /\ Ring!readAvailable' <= buffer_size
    BY <1>2, <1>3, <1>4, SizeTypes
  <1>6. Ring!writeAvailable' = buffer_size - Ring!readAvailable'
    BY <1>5, WriteAvailableIs DEF Ring!writeAvailable, Ring!readAvailable
  <1>7. Ring!RoomHolds'
    <2>1. room <= buffer_size - Ring!readAvailable /\ room \in Nat
      BY <1>3, SizeTypes
    <2>2. QED
      BY <1>1, <1>3, <1>4, <1>6, <2>1, SizeTypes DEF Ring!RoomHolds
  <1>8. /\ cons' \in [pc : {"idle", "read", "store", "load"}, tail : Index, left : Nat, todo : Nat,
                      loop : BOOLEAN, got : Seq(Values)]
        /\ ConsumerFinds'
    <2>1. /\ cons \in [pc : {"idle", "read", "store", "load"}, tail : Index, left : Nat, todo : Nat,
                       loop : BOOLEAN, got : Seq(Values)]
          /\ <<>> \in Seq(Values)
      BY DEF RingInv, RingTypes
    <2>2. CASE cons.loop /\ cons.left > 0
      <3>1. cons' = [cons EXCEPT !.pc = "load", !.got = <<>>]
        BY <1>1, <2>2
      <3>2. cons'.pc = "load" /\ cons'.tail = cons.tail /\ cons'.left = cons.left
        BY <2>1, <3>1
      <3>3. ConsumerFinds'
        BY <1>1, <1>3, <2>1, <2>2, <3>2 DEF ConsumerFinds
      <3>4. QED
        BY <2>1, <3>1, <3>3
    <2>3. CASE ~(cons.loop /\ cons.left > 0)
      <3>1. cons' = Ring!CIdle
        BY <1>1, <2>3
      <3>2. QED
        BY <2>1, <3>1, SizeTypes DEF Ring!CIdle, ConsumerFinds
    <2>4. QED
      BY <2>2, <2>3
  <1>9. ProducerFits'
    <2>1. Written' = Written
      BY <1>1 DEF Written
    <2>2. Ring!readAvailable' <= Ring!readAvailable
      BY <1>3, <1>4
    <2>3. ASSUME prod.pc = "write" PROVE Ring!readAvailable' + Written' + prod.todo <= buffer_size
      <3>1. Ring!readAvailable + Written + prod.todo <= buffer_size
        BY <2>3 DEF RingInv, ProducerFits
      <3>2. buffer_size \in Nat
        BY SizeTypes
      <3>3. QED
        BY <1>3, <1>5, <2>1, <2>2, <3>1, <3>2
    <2>4. prod.pc = "store" => Ring!readAvailable' + Written' <= buffer_size
      BY <1>3, <1>5, <2>1, <2>2, SizeTypes DEF RingInv, ProducerFits
    <2>5. QED
      BY <1>1, <2>3, <2>4 DEF RingInv, ProducerFits
  <1>10. RingTypes'
    BY <1>1, <1>3, <1>8 DEF RingInv, RingTypes
  <1>11. ViewInside'
    <2>1. CASE cons.tail = tail
      BY <1>1, <2>1 DEF RingInv, ViewInside, Ring!readAvailable
    <2>2. CASE cons.tail # tail
      BY <1>1, <2>2 DEF ViewInside
    <2>3. QED
      BY <2>1, <2>2
  <1>12. QED
    BY <1>2, <1>4, <1>5, <1>7, <1>8, <1>9, <1>10, <1>11 DEF RingInv, Ring!NeverOverfull

\* Elements are about to be dropped.
LEMMA StartDropKeeps ==
    ASSUME Ring!SizeAssumption, RingInv, NEW n \in Nat, n <= Ring!readAvailable, Ring!StartDrop(n)
    PROVE  RingInv'
  <1>1. /\ cons' = [Ring!CIdle EXCEPT !.pc = "store", !.tail = (tail + n) % IndexRange]
        /\ UNCHANGED <<rhead, tail, data_buff, prod, buff, view, room>>
    BY DEF Ring!StartDrop
  <1>2. /\ tail \in Index /\ Ring!readAvailable \in Nat /\ Ring!readAvailable <= buffer_size
        /\ <<>> \in Seq(Values)
    BY RingFacts
  <1>3. n \in Index /\ Ring!Minus(tail, tail) = 0
    <2>1. n < IndexRange
      BY <1>2, SizeTypes
    <2>2. QED
      BY <1>2, <2>1, SizeTypes, MinusSplit DEF Index
  <1>4. (tail + n) % IndexRange \in Index /\ Ring!Minus((tail + n) % IndexRange, tail) = n
    <2>1. Ring!Minus(tail, tail) + n < IndexRange
      BY <1>3, SizeTypes
    <2>2. Ring!Minus((tail + n) % IndexRange, tail) = Ring!Minus(tail, tail) + n
      BY <1>2, <1>3, <2>1, MinusStepped
    <2>3. QED
      BY <1>2, <1>3, <2>2, IndexPlus
  <1>5. /\ cons' \in [pc : {"idle", "read", "store", "load"}, tail : Index, left : Nat, todo : Nat,
                      loop : BOOLEAN, got : Seq(Values)]
        /\ cons'.pc = "store" /\ cons'.tail = (tail + n) % IndexRange /\ cons'.got = <<>>
    BY <1>1, <1>2, <1>4 DEF Ring!CIdle
  <1>6. Taken' = n /\ Ring!readAvailable' = Ring!readAvailable
    BY <1>1, <1>4, <1>5 DEF Taken, Ring!readAvailable
  <1>7. ConsumerFinds'
    BY <1>5, <1>6 DEF ConsumerFinds
  <1>8. QED
    BY <1>1, <1>5, <1>7
       DEF RingInv, RingTypes, Ring!NeverOverfull, ViewInside, Ring!RoomHolds, ProducerFits,
           Ring!readAvailable, Ring!writeAvailable, Written

\* A pointer into the ring is handed out.
LEMMA LookKeeps ==
    ASSUME Ring!SizeAssumption, RingInv, NEW index \in Nat, index < Ring!readAvailable, Ring!Look(index)
    PROVE  RingInv'
  <1> DEFINE s == Ring!Slot(tail + index)
  <1>1. /\ view' = view \cup {<<s, data_buff[s]>>}
        /\ UNCHANGED <<rhead, tail, data_buff, prod, cons, buff, room>>
    BY DEF Ring!Look
  <1>2. tail \in Nat /\ Ring!readAvailable \in Nat
    BY RingFacts, SizeTypes
  <1>3. index + 1 \in 1 .. Ring!readAvailable /\ tail + (index + 1) - 1 = tail + index
    BY <1>1, <1>2
  <1>4. ViewInside'
    <2> SUFFICES ASSUME NEW v \in view'
                 PROVE  \E i \in 1 .. Ring!readAvailable : v = <<Ring!Slot(tail + i - 1), data_buff[Ring!Slot(tail + i - 1)]>>
      BY <1>1 DEF ViewInside, Ring!readAvailable
    <2>1. CASE v \in view
      BY <2>1 DEF RingInv, ViewInside
    <2>2. CASE v = <<s, data_buff[s]>>
      BY <1>3, <2>2
    <2>3. QED
      BY <1>1, <2>1, <2>2
  <1>5. QED
    BY <1>1, <1>4
       DEF RingInv, RingTypes, Ring!NeverOverfull, Ring!RoomHolds, ProducerFits, ConsumerFinds, CopiedOldest,
           Ring!readAvailable, Ring!writeAvailable, Written, Taken
-----------------------------------------------------------------------------
(* The ring is safe *)

\* What a caller passes is a sequence of elements.
LEMMA ItemsType ==
    ASSUME NEW n \in Nat, NEW items \in [1 .. n -> Values]
    PROVE  items \in Seq(Values) /\ Len(items) = n
  OBVIOUS

\* The ring starts empty.
LEMMA InitRing ==
    ASSUME Ring!SizeAssumption, Ring!Init
    PROVE  RingInv /\ Ring!readAvailable = 0
  <1>1. /\ rhead = 0 /\ tail = 0 /\ data_buff \in [Ring!Slots -> Values] /\ prod = Ring!PIdle /\ cons = Ring!CIdle
        /\ buff = <<>> /\ view = {} /\ room = 0
    BY DEF Ring!Init
  <1>2. <<>> \in Seq(Values) /\ 0 \in Index /\ 0 \in 0 .. buffer_size
    BY SizeTypes
  <1>3. Ring!readAvailable = 0
    BY <1>1, <1>2, MinusSplit DEF Ring!readAvailable
  <1>4. Ring!writeAvailable = buffer_size
    <2>1. (buffer_size - 0) % IndexRange = buffer_size - 0
      BY WriteAvailableIs, SizeTypes
    <2>2. Ring!writeAvailable = (buffer_size - 0) % IndexRange
      BY <1>3 DEF Ring!writeAvailable, Ring!readAvailable
    <2>3. QED
      BY <2>1, <2>2, SizeTypes
  <1>5. RingTypes
    BY <1>1, <1>2 DEF RingTypes, Ring!PIdle, Ring!CIdle
  <1>6. ProducerFits /\ ConsumerFinds
    BY <1>1 DEF ProducerFits, ConsumerFinds, Ring!PIdle, Ring!CIdle
  <1>7. QED
    BY <1>1, <1>3, <1>4, <1>5, <1>6, SizeTypes DEF RingInv, Ring!NeverOverfull, ViewInside, Ring!RoomHolds

\* A difference of buffer_size is a full ring, whatever the width; and unless
\* the index_t is narrow and head has wrapped, a full ring has that difference.
LEMMA DifferenceIs ==
    ASSUME Ring!SizeAssumption, RingInv
    PROVE  /\ Ring!Difference \in Int
           /\ Ring!Difference >= 0 => Ring!Difference = Ring!readAvailable
           /\ Ring!Difference < 0 => narrow /\ rhead < tail
  <1>1. rhead \in Index /\ tail \in Index /\ Ring!readAvailable \in Nat
        /\ Ring!readAvailable = Ring!Minus(rhead, tail)
    BY RingFacts
  <1>2. rhead \in Nat /\ tail \in Nat /\ rhead < IndexRange /\ tail < IndexRange /\ IndexRange \in Nat
    BY <1>1, SizeTypes DEF Index
  <1>3. rhead - tail >= 0 => Ring!Minus(rhead, tail) = rhead - tail
    <2> SUFFICES ASSUME rhead - tail >= 0 PROVE Ring!Minus(rhead, tail) = rhead - tail
      OBVIOUS
    <2>1. PICK x \in Nat : x = rhead - tail
      BY <1>2
    <2>2. x < IndexRange
      BY <1>2, <2>1
    <2>3. x % IndexRange = x
      BY <1>2, <2>2
    <2>4. QED
      BY <2>1, <2>3 DEF Ring!Minus
  <1>4. CASE narrow
    BY <1>1, <1>2, <1>3, <1>4 DEF Ring!Difference
  <1>5. CASE ~narrow
    BY <1>1, <1>5 DEF Ring!Difference
  <1>6. QED
    BY <1>4, <1>5

\* An insert that is not mistaken sees whether the ring is full.
LEMMA DifferenceFull ==
    ASSUME Ring!SizeAssumption, RingInv,
           ~misjudged', Ring!insert
    PROVE  Ring!Difference = buffer_size <=> Ring!readAvailable = buffer_size
  <1>1. misjudged' <=> Ring!Difference # buffer_size /\ Ring!readAvailable = buffer_size
    BY DEF Ring!insert
  <1>2. Ring!Difference = buffer_size => Ring!readAvailable = buffer_size
    BY DifferenceIs, SizeTypes
  <1>3. QED
    BY <1>1, <1>2

\* insert takes one slot, as LoadTail would.
LEMMA LoadTailOne ==
    ASSUME Ring!SizeAssumption, RingInv, NEW v \in Values
    PROVE  Ring!LoadTail(rhead, <<v>>, 1, FALSE)
             = IF Ring!readAvailable = buffer_size THEN Ring!PIdle
               ELSE [pc |-> "write", head |-> rhead, items |-> <<v>>, todo |-> 1, loop |-> FALSE]
  <1> DEFINE available == (buffer_size - Ring!Minus(rhead, tail)) % IndexRange
  <1>1. available = buffer_size - Ring!readAvailable
    BY RingFacts DEF Ring!writeAvailable
  <1>2. Ring!LoadTail(rhead, <<v>>, 1, FALSE)
          = IF available = 0 THEN Ring!PIdle
            ELSE [pc |-> "write", head |-> rhead, items |-> <<v>>, todo |-> Ring!AtMost(1, available), loop |-> FALSE]
    BY DEF Ring!LoadTail
  <1> HIDE DEF available
  <1>3. available \in Nat /\ (available = 0 <=> Ring!readAvailable = buffer_size)
    <2>1. Ring!readAvailable \in Nat /\ Ring!readAvailable <= buffer_size
      BY RingFacts
    <2>2. buffer_size \in Nat
      BY SizeTypes
    <2>3. QED
      BY <1>1, <2>1, <2>2
  <1>4. available # 0 => Ring!AtMost(1, available) = 1
    BY <1>3 DEF Ring!AtMost
  <1>5. QED
    BY <1>2, <1>3, <1>4

\* A pointer into the elements of the ring points to its element.
LEMMA InsideStable ==
    ASSUME RingInv PROVE Ring!ViewStable
  <1> SUFFICES ASSUME NEW v \in view PROVE data_buff[v[1]] = v[2]
    BY DEF Ring!ViewStable
  <1>1. PICK i \in 1 .. Ring!readAvailable : v = <<Ring!Slot(tail + i - 1), data_buff[Ring!Slot(tail + i - 1)]>>
    BY DEF RingInv, ViewInside
  <1>2. QED
    BY <1>1

\* Every step keeps the invariant.
LEMMA StepKeeps ==
    ASSUME Ring!SizeAssumption, RingInv, Ring!Step, ~raced', ~misjudged'
    PROVE  RingInv'
  <1>1. ASSUME NEW items, NEW n, NEW loop \in BOOLEAN, items \in Seq(Values), n \in 1 .. Len(items),
               Ring!StartWrite(items, n, loop)
        PROVE  RingInv'
    BY <1>1, StartWriteKeeps DEF Ring!StartWrite
  <1>2. ASSUME NEW count \in Nat, NEW n \in 1 .. count, NEW loop \in BOOLEAN, Ring!StartRead(count, n, loop)
        PROVE  RingInv'
    BY <1>2, StartReadKeeps DEF Ring!StartRead
  <1>3. CASE Ring!insert
    <2>1. PICK v \in Values :
             prod' = IF Ring!Difference = buffer_size THEN Ring!PIdle
                     ELSE [pc |-> "write", head |-> rhead, items |-> <<v>>, todo |-> 1, loop |-> FALSE]
      BY <1>3 DEF Ring!insert
    <2>2. Ring!Difference = buffer_size <=> Ring!readAvailable = buffer_size
      BY <1>3, DifferenceFull
    <2>3. prod' = Ring!LoadTail(rhead, <<v>>, 1, FALSE)
      BY <2>1, <2>2, LoadTailOne
    <2>4. <<v>> \in Seq(Values) /\ 1 \in 1 .. Len(<<v>>)
      OBVIOUS
    <2>5. UNCHANGED <<rhead, tail, data_buff, cons, buff, view, room>>
      BY <1>3 DEF Ring!insert
    <2>6. QED
      BY <2>3, <2>4, <2>5, StartWriteKeeps
  <1>4. CASE Ring!writeBuff
    <2>1. PICK n \in 1 .. MaxCount : \E items \in [1 .. n -> Values] : Ring!StartWrite(items, n, FALSE)
      BY <1>4 DEF Ring!writeBuff
    <2>2. PICK items \in [1 .. n -> Values] : Ring!StartWrite(items, n, FALSE)
      BY <2>1
    <2>3. n \in Nat /\ n \in 1 .. n
      BY SizeTypes
    <2>4. items \in Seq(Values) /\ Len(items) = n
      BY <2>3, ItemsType
    <2>5. QED
      BY <1>1, <2>2, <2>3, <2>4
  <1>5. CASE Ring!writeBuffCallback
    <2>1. PICK n \in 1 .. MaxCount : \E items \in [1 .. n -> Values] : \E c \in 0 .. MaxCount :
              Ring!StartWrite(items, IF c \in 1 .. n - 1 THEN c ELSE n, TRUE)
      BY <1>5 DEF Ring!writeBuffCallback
    <2>2. PICK items \in [1 .. n -> Values], c \in 0 .. MaxCount :
              Ring!StartWrite(items, IF c \in 1 .. n - 1 THEN c ELSE n, TRUE)
      BY <2>1
    <2>3. n \in Nat /\ (IF c \in 1 .. n - 1 THEN c ELSE n) \in 1 .. n
      BY SizeTypes
    <2>4. items \in Seq(Values) /\ Len(items) = n
      BY <2>3, ItemsType
    <2>5. QED
      BY <1>1, <2>2, <2>3, <2>4
  <1>6. CASE Ring!WriteAgain
    <2>1. /\ prod.pc = "load" /\ prod' = Ring!LoadTail(prod.head, prod.items, Len(prod.items), TRUE)
          /\ UNCHANGED <<rhead, tail, data_buff, cons, buff, view, room>>
      BY <1>6 DEF Ring!WriteAgain
    <2>2. prod.head = rhead /\ prod.items # <<>>
      BY <2>1 DEF RingInv, ProducerFits
    <2>3. prod.items \in Seq(Values) /\ Len(prod.items) \in 1 .. Len(prod.items)
      BY <2>2, RingFacts
    <2>4. QED
      BY <2>1, <2>2, <2>3, StartWriteKeeps
  <1>7. CASE Ring!removeElement
    <2>1. /\ cons' = Ring!LoadHead(tail, 1, 1, FALSE)
          /\ UNCHANGED <<rhead, tail, data_buff, prod, buff, view, room>>
      BY <1>7 DEF Ring!removeElement, Ring!StartRead
    <2>2. 1 \in 1 .. 1
      OBVIOUS
    <2>3. QED
      BY <2>1, <2>2, StartReadKeeps
  <1>8. CASE Ring!readBuff
    <2>1. PICK n \in 0 .. MaxCount :
             IF n = 0 \/ Ring!readAvailable = 0 THEN Ring!StartDrop(0) ELSE Ring!StartRead(n, n, FALSE)
      BY <1>8 DEF Ring!readBuff
    <2>2. n \in Nat /\ (n # 0 => n \in 1 .. n) /\ Ring!readAvailable \in Nat
      BY SizeTypes, RingFacts
    <2>3. CASE n = 0 \/ Ring!readAvailable = 0
      <3>1. Ring!StartDrop(0)
        BY <2>1, <2>3
      <3>2. 0 \in Nat /\ 0 <= Ring!readAvailable
        BY <2>2
      <3>3. QED
        BY <3>1, <3>2, StartDropKeeps
    <2>4. CASE ~(n = 0 \/ Ring!readAvailable = 0)
      BY <1>2, <2>1, <2>2, <2>4
    <2>5. QED
      BY <2>3, <2>4
  <1>9. CASE Ring!readBuffCallback
    <2>1. PICK n \in 1 .. MaxCount, c \in 0 .. MaxCount :
              Ring!StartRead(n, IF c \in 1 .. n - 1 THEN c ELSE n, TRUE)
      BY <1>9 DEF Ring!readBuffCallback
    <2>2. n \in Nat /\ (IF c \in 1 .. n - 1 THEN c ELSE n) \in 1 .. n
      BY SizeTypes
    <2>3. QED
      BY <1>2, <2>1, <2>2
  <1>10. CASE Ring!ReadAgain
    <2>1. /\ cons.pc = "load" /\ cons' = Ring!LoadHead(cons.tail, cons.left, cons.left, TRUE)
          /\ UNCHANGED <<rhead, tail, data_buff, prod, buff, view, room>>
      BY <1>10 DEF Ring!ReadAgain
    <2>2. cons.tail = tail /\ cons.left # 0
      BY <2>1 DEF RingInv, ConsumerFinds
    <2>3. cons.left \in Nat /\ cons.left \in 1 .. cons.left
      BY <2>2, RingFacts
    <2>4. QED
      BY <2>1, <2>2, <2>3, StartReadKeeps
  <1>11. CASE Ring!remove \/ Ring!removeCount \/ Ring!consumerClear
    <2>1. Ring!readAvailable \in Nat
      BY RingFacts
    <2>2. PICK n \in Nat : n <= Ring!readAvailable /\ Ring!StartDrop(n)
      <3>1. CASE Ring!remove
        BY <2>1, <3>1 DEF Ring!remove
      <3>2. CASE Ring!removeCount
        <4>1. PICK cnt \in 0 .. MaxCount : Ring!StartDrop(Ring!AtMost(cnt, Ring!readAvailable))
          BY <3>2 DEF Ring!removeCount
        <4>2. Ring!AtMost(cnt, Ring!readAvailable) \in Nat /\ Ring!AtMost(cnt, Ring!readAvailable) <= Ring!readAvailable
          BY <2>1, SizeTypes DEF Ring!AtMost
        <4>3. QED
          BY <4>1, <4>2
      <3>3. CASE Ring!consumerClear
        BY <2>1, <3>3 DEF Ring!consumerClear
      <3>4. QED
        BY <1>11, <3>1, <3>2, <3>3
    <2>3. QED
      BY <2>2, StartDropKeeps
  <1>12. CASE Ring!peek \/ Ring!at
    <2>1. PICK index \in Nat : Ring!Look(index)
      BY <1>12, SizeTypes DEF Ring!peek, Ring!at
    <2>2. index < Ring!readAvailable
      <3>1. misjudged' <=> Ring!readAvailable <= index
        BY <2>1 DEF Ring!Look
      <3>2. QED
        BY <3>1, RingFacts
    <2>3. QED
      BY <2>1, <2>2, LookKeeps
  <1>13. QED
    BY <1>3, <1>4, <1>5, <1>6, <1>7, <1>8, <1>9, <1>10, <1>11, <1>12, WriteSlotKeeps, StoreHeadKeeps,
       AskRoomKeeps, ProducerClearKeeps, ReadSlotKeeps, StoreTailKeeps DEF Ring!Step

\* What the specification does to the ring are its steps, or nothing.
LEMMA RingSteps ==
    /\ QueuesInit => Ring!Init
    /\ [QueuesNext]_<<unit, vars, ringVars, arrayVars, stagingVars>> => [Ring!Next]_Ring!vars
  BY DEF QueuesInit, QueuesNext, ringVars, Ring!vars, Ring!flags

\* The calm states are safe.
LEMMA CalmSafe ==
    ASSUME Ring!SizeAssumption, RingInv, ~misjudged PROVE RingSafe
  BY InsideStable DEF RingInv, RingSafe, Ring!RingSafe, Ring!OnlyNarrowMisjudges

\* The step into a state that is not calm is safe too.
LEMMA LastStepSafe ==
    ASSUME Ring!SizeAssumption, RingInv, Calm, Ring!Step, ~Calm'
    PROVE  RingSafe'
  <1>1. Ring!ViewStable /\ Ring!NeverOverfull /\ Ring!RoomHolds
    BY InsideStable DEF RingInv
  <1>2. CASE Ring!producerClear
    <2>1. Ring!NeverOverfull' /\ Ring!RoomHolds'
      BY <1>2, ProducerClearKeeps
    <2>2. Ring!ViewStable' /\ ~misjudged'
      BY <1>1, <1>2 DEF Ring!producerClear, Ring!ViewStable, Calm
    <2>3. QED
      BY <2>1, <2>2 DEF RingSafe, Ring!RingSafe, Ring!OnlyNarrowMisjudges
  <1>3. CASE Ring!insert
    <2>1. /\ UNCHANGED <<rhead, tail, data_buff, view, room, narrow>>
          /\ misjudged' <=> Ring!Difference # buffer_size /\ Ring!readAvailable = buffer_size
      BY <1>3 DEF Ring!insert
    <2>2. misjudged' => narrow' /\ rhead' < tail'
      <3>1. Ring!Difference # buffer_size /\ Ring!readAvailable = buffer_size => Ring!Difference < 0
        BY DifferenceIs
      <3>2. Ring!Difference < 0 => narrow /\ rhead < tail
        BY DifferenceIs
      <3>3. QED
        BY <2>1, <3>1, <3>2
    <2>3. QED
      BY <1>1, <2>1, <2>2 DEF RingSafe, Ring!RingSafe, Ring!OnlyNarrowMisjudges, Ring!ViewStable,
         Ring!NeverOverfull, Ring!RoomHolds, Ring!readAvailable, Ring!writeAvailable
  <1>4. CASE Ring!peek \/ Ring!at
    <2>1. PICK index \in Nat : /\ Ring!Look(index)
                               /\ Ring!Difference < 0 \/ Ring!Difference > index \/ Ring!readAvailable > index
      BY <1>4, SizeTypes DEF Ring!peek, Ring!at
    <2>2. /\ UNCHANGED <<rhead, tail, data_buff, room, narrow>>
          /\ misjudged' <=> Ring!readAvailable <= index
          /\ LET p == Ring!Slot(tail + index) IN view' = view \cup {<<p, data_buff[p]>>}
      BY <2>1 DEF Ring!Look
    <2>3. misjudged' => narrow' /\ rhead' < tail'
      <3>1. Ring!readAvailable <= index => Ring!Difference < 0
        BY <2>1, DifferenceIs, RingFacts
      <3>2. Ring!Difference < 0 => narrow /\ rhead < tail
        BY DifferenceIs
      <3>3. QED
        BY <2>2, <3>1, <3>2
    <2>4. Ring!ViewStable'
      BY <1>1, <2>2 DEF Ring!ViewStable
    <2>5. QED
      BY <1>1, <2>2, <2>3, <2>4 DEF RingSafe, Ring!RingSafe, Ring!OnlyNarrowMisjudges,
         Ring!NeverOverfull, Ring!RoomHolds, Ring!readAvailable, Ring!writeAvailable
  <1>5. CASE UNCHANGED Ring!flags
    BY <1>5 DEF Calm, Ring!flags
  <1>6. QED
    BY <1>2, <1>3, <1>4, <1>5 DEF Ring!Step, Ring!writeBuff, Ring!writeBuffCallback, Ring!StartWrite,
       Ring!WriteSlot, Ring!StoreHead, Ring!WriteAgain, Ring!AskRoom, Ring!removeElement, Ring!readBuff,
       Ring!readBuffCallback, Ring!StartRead, Ring!ReadSlot, Ring!StoreTail, Ring!ReadAgain, Ring!remove,
       Ring!removeCount, Ring!consumerClear, Ring!StartDrop

\* The invariant is one of the specification.
LEMMA RingInvariant == QueuesSpec => []RingAlways
  <1> USE RingAssumption
  <1>1. Ring!Init => RingAlways
    BY InitRing, CalmSafe DEF Ring!Init, RingAlways
  <1>2. RingAlways /\ [Ring!Next]_Ring!vars => RingAlways'
    <2> SUFFICES ASSUME RingAlways, [Ring!Next]_Ring!vars PROVE RingAlways'
      OBVIOUS
    <2>1. CASE Ring!Next
      <3>1. Ring!Step /\ Calm /\ RingInv
        BY <2>1 DEF Ring!Next, RingAlways, Calm
      <3>2. CASE Calm'
        <4>1. RingInv'
          BY <3>1, <3>2, StepKeeps DEF Calm
        <4>2. Ring!ViewStable'
          <5>1. ASSUME NEW v \in view' PROVE data_buff'[v[1]] = v[2]
            <6>1. PICK i \in 1 .. Ring!readAvailable' :
                     v = <<Ring!Slot(tail' + i - 1), data_buff'[Ring!Slot(tail' + i - 1)]>>
              BY <4>1, <5>1 DEF RingInv, ViewInside, Ring!Slot
            <6>2. QED
              BY <6>1
          <5>2. QED
            BY <5>1 DEF Ring!ViewStable
        <4>3. QED
          BY <3>2, <4>1, <4>2 DEF RingAlways, RingInv, RingSafe, Ring!RingSafe, Ring!OnlyNarrowMisjudges, Calm
      <3>3. CASE ~Calm'
        BY <3>1, <3>3, LastStepSafe DEF RingAlways
      <3>4. QED
        BY <3>2, <3>3
    <2>2. CASE UNCHANGED Ring!vars
      BY <2>2
         DEF Ring!vars, Ring!flags, RingAlways, RingSafe, Ring!RingSafe, Ring!OnlyNarrowMisjudges, Ring!ViewStable, Calm,
             RingInv, RingTypes, Ring!NeverOverfull, ViewInside, Ring!RoomHolds, ProducerFits, ConsumerFinds,
             CopiedOldest, Ring!readAvailable, Ring!writeAvailable, Written, Taken
    <2>3. QED
      BY <2>1, <2>2
  <1>3. QED
    BY <1>1, <1>2, RingSteps, PTL DEF QueuesSpec

\* Whatever the number of slots, the range of index_t and the interleaving of
\* the two threads: at most buffer_size elements lie between tail and head, a
\* pointer into the ring keeps its element until the consumer moves on, what
\* writeAvailable answered stays true, and insert and at judge the ring rightly
\* unless index_t is narrower than int and head has wrapped before tail.
THEOREM RingCorrect == QueuesSpec => []RingSafe
  <1>1. RingAlways => RingSafe
    BY DEF RingAlways
  <1>2. QED
    BY <1>1, RingInvariant, PTL
-----------------------------------------------------------------------------
(* The ring implements BoundedFifo *)

\* Every slot holds an element.
LEMMA ElementType ==
    ASSUME Ring!SizeAssumption, NEW d \in [Ring!Slots -> Values], NEW t \in Index, NEW i \in Nat \ {0}
    PROVE  ElementAt(d, t, i) \in Values
  <1>1. t + i - 1 \in Nat
    BY SizeTypes
  <1>2. QED
    BY <1>1, SlotType DEF ElementAt

\* The elements inside, before a step.
LEMMA InsideType ==
    ASSUME Ring!SizeAssumption, RingInv
    PROVE  /\ Ring!Inside \in Seq(Values) /\ Len(Ring!Inside) = Ring!readAvailable
           /\ \A i \in 1 .. Ring!readAvailable : Ring!Inside[i] = ElementAt(data_buff, tail, i)
  <1>1. tail \in Index /\ Ring!readAvailable \in Nat /\ data_buff \in [Ring!Slots -> Values]
    BY RingFacts
  <1>2. Ring!Inside = [i \in 1 .. Ring!readAvailable |-> ElementAt(data_buff, tail, i)]
    BY DEF Ring!Inside, ElementAt
  <1>3. \A i \in 1 .. Ring!readAvailable : ElementAt(data_buff, tail, i) \in Values
    BY <1>1, ElementType
  <1>4. QED
    BY <1>1, <1>2, <1>3

\* The elements inside, after a step.
LEMMA InsideAfter ==
    ASSUME Ring!SizeAssumption, RingInv'
    PROVE  /\ Ring!Inside' \in Seq(Values) /\ Len(Ring!Inside') = Ring!readAvailable'
           /\ \A i \in 1 .. Ring!readAvailable' : Ring!Inside'[i] = ElementAt(data_buff', tail', i)
  <1>1. tail' \in Index /\ rhead' \in Index /\ data_buff' \in [Ring!Slots -> Values]
    BY DEF RingInv, RingTypes
  <1>2. Ring!readAvailable' = Ring!Minus(rhead', tail')
    BY DEF Ring!readAvailable, Ring!Minus
  <1>3. Ring!readAvailable' \in Nat
    BY <1>1, <1>2, IndexMinus, SizeTypes
  <1>4. Ring!Inside' = [i \in 1 .. Ring!readAvailable' |-> ElementAt(data_buff', tail', i)]
    BY DEF Ring!Inside, ElementAt
  <1>5. \A i \in 1 .. Ring!readAvailable' : ElementAt(data_buff', tail', i) \in Values
    BY <1>1, <1>3, ElementType
  <1>6. QED
    BY <1>3, <1>4, <1>5

\* What the ring holds depends on the indices and the slots between them.
LEMMA InsideStays ==
    ASSUME UNCHANGED <<rhead, tail, data_buff>>
    PROVE  Ring!Inside' = Ring!Inside
  BY DEF Ring!Inside, Ring!readAvailable

\* A write outside the elements does not change what the ring holds.
LEMMA WriteSlotStutters ==
    ASSUME Ring!SizeAssumption, RingInv, Ring!WriteSlot
    PROVE  Ring!Inside' = Ring!Inside
  <1>1. UNCHANGED <<rhead, tail>> /\ Ring!readAvailable' = Ring!readAvailable
    BY DEF Ring!WriteSlot, Ring!readAvailable
  <1>2. \A i \in 1 .. Ring!readAvailable : data_buff'[Ring!Slot(tail + i - 1)] = data_buff[Ring!Slot(tail + i - 1)]
    BY WriteOutside
  <1>3. QED
    BY <1>1, <1>2 DEF Ring!Inside

\* The store of head puts the batch behind the elements inside.
LEMMA StoreHeadPuts ==
    ASSUME Ring!SizeAssumption, RingInv, RingInv', Ring!StoreHead
    PROVE  [Ring!Fifo!Next]_Ring!Fifo!vars
  <1> DEFINE s == [i \in 1 .. Written |-> ElementAt(data_buff, tail, Ring!readAvailable + i)]
  <1>1. UNCHANGED <<tail, data_buff, buff>>
    BY DEF Ring!StoreHead
  <1>2. Ring!readAvailable' = Ring!readAvailable + Written /\ Ring!readAvailable' <= buffer_size
    BY StoreHeadFacts
  <1>3. /\ tail \in Nat /\ Ring!readAvailable \in Nat /\ Written \in Nat /\ buffer_size \in Nat
        /\ data_buff \in [Ring!Slots -> Values]
    BY RingFacts, SizeTypes
  <1>4. ASSUME NEW i \in 1 .. Written
        PROVE  ElementAt(data_buff, tail, Ring!readAvailable + i) \in Values
    <2>1. tail + (Ring!readAvailable + i) - 1 \in Nat
      BY <1>3
    <2>2. QED
      BY <1>3, <2>1, SlotType DEF ElementAt
  <1>5. /\ s \in [1 .. Written -> Values] /\ s \in Seq(Values) /\ Len(s) = Written
        /\ \A i \in 1 .. Written : s[i] = ElementAt(data_buff, tail, Ring!readAvailable + i)
    BY <1>3, <1>4
  <1> HIDE DEF s
  <1>6. /\ Ring!Inside \in Seq(Values) /\ Len(Ring!Inside) = Ring!readAvailable
        /\ \A i \in 1 .. Ring!readAvailable : Ring!Inside[i] = ElementAt(data_buff, tail, i)
    BY InsideType
  <1>7. /\ Ring!Inside' \in Seq(Values) /\ Len(Ring!Inside') = Ring!readAvailable + Written
        /\ \A i \in 1 .. Ring!readAvailable + Written : Ring!Inside'[i] = ElementAt(data_buff, tail, i)
    <2>1. /\ Ring!Inside' \in Seq(Values) /\ Len(Ring!Inside') = Ring!readAvailable'
          /\ \A i \in 1 .. Ring!readAvailable' : Ring!Inside'[i] = ElementAt(data_buff', tail', i)
      BY InsideAfter
    <2>2. QED
      BY <1>1, <1>2, <2>1
  <1>8. Ring!Inside' = Ring!Inside \o s
    <2>1. /\ Ring!Inside \o s \in Seq(Values) /\ Len(Ring!Inside \o s) = Ring!readAvailable + Written
          /\ \A i \in 1 .. Ring!readAvailable + Written :
                 (Ring!Inside \o s)[i] = IF i <= Ring!readAvailable THEN Ring!Inside[i] ELSE s[i - Ring!readAvailable]
      BY <1>5, <1>6, ConcatProperties
    <2>2. ASSUME NEW i \in 1 .. Ring!readAvailable + Written
          PROVE  Ring!Inside'[i] = (Ring!Inside \o s)[i]
      <3>1. CASE i <= Ring!readAvailable
        BY <1>3, <1>6, <1>7, <2>1, <3>1
      <3>2. CASE ~(i <= Ring!readAvailable)
        <4>1. i - Ring!readAvailable \in 1 .. Written /\ Ring!readAvailable + (i - Ring!readAvailable) = i
          BY <1>3, <3>2
        <4>2. QED
          BY <1>5, <1>7, <2>1, <3>2, <4>1
      <3>3. QED
        BY <3>1, <3>2
    <2>3. QED
      BY <1>7, <2>1, <2>2, SeqEqual
  <1>9. CASE Written = 0
    <2>1. s = <<>>
      BY <1>5, <1>9
    <2>2. Ring!Inside' = Ring!Inside
      BY <1>6, <1>8, <2>1
    <2>3. QED
      BY <1>1, <2>2 DEF Ring!Fifo!vars
  <1>10. CASE Written # 0
    <2>1. Written \in 1 .. (buffer_size - Len(Ring!Inside))
      BY <1>2, <1>3, <1>6, <1>10
    <2>2. Ring!Fifo!Put
      BY <1>1, <1>5, <1>8, <2>1 DEF Ring!Fifo!Put
    <2>3. QED
      BY <2>2 DEF Ring!Fifo!Next
  <1>11. QED
    BY <1>9, <1>10

\* The store of tail takes the oldest elements out, and delivers exactly
\* these unless they are dropped.
LEMMA StoreTailTakes ==
    ASSUME Ring!SizeAssumption, RingInv, RingInv', Ring!StoreTail
    PROVE  Ring!Fifo!Take
  <1>1. cons.pc = "store" /\ tail' = cons.tail /\ buff' = cons.got /\ UNCHANGED data_buff
    BY DEF Ring!StoreTail
  <1>2. Ring!readAvailable' = Ring!readAvailable - Taken /\ Taken <= Ring!readAvailable
    BY StoreTailKeeps
  <1>3. cons.got = <<>> \/ CopiedOldest
    BY <1>1 DEF RingInv, ConsumerFinds
  <1>4. /\ tail \in Index /\ cons.tail \in Index /\ tail \in Nat /\ cons.tail \in Nat
        /\ Ring!readAvailable \in Nat /\ Taken \in Nat /\ cons.got \in Seq(Values)
    BY RingFacts, SizeTypes
  <1>5. /\ Ring!Inside \in Seq(Values) /\ Len(Ring!Inside) = Ring!readAvailable
        /\ \A i \in 1 .. Ring!readAvailable : Ring!Inside[i] = ElementAt(data_buff, tail, i)
    BY InsideType
  <1>6. Ring!Inside' = SubSeq(Ring!Inside, Taken + 1, Len(Ring!Inside))
    <2> DEFINE rest == SubSeq(Ring!Inside, Taken + 1, Ring!readAvailable)
    <2>1. /\ Ring!Inside' \in Seq(Values) /\ Len(Ring!Inside') = Ring!readAvailable - Taken
          /\ \A i \in 1 .. Ring!readAvailable - Taken : Ring!Inside'[i] = ElementAt(data_buff, cons.tail, i)
      <3>1. /\ Ring!Inside' \in Seq(Values) /\ Len(Ring!Inside') = Ring!readAvailable'
            /\ \A i \in 1 .. Ring!readAvailable' : Ring!Inside'[i] = ElementAt(data_buff', tail', i)
        BY InsideAfter
      <3>2. QED
        BY <1>1, <1>2, <3>1
    <2>2. /\ rest \in Seq(Values) /\ Len(rest) = Ring!readAvailable - Taken
          /\ \A i \in 1 .. Ring!readAvailable - Taken : rest[i] = Ring!Inside[Taken + i]
      <3>1. /\ Len(rest) = Ring!readAvailable - Taken
            /\ \A i \in 1 .. Ring!readAvailable - Taken : rest[i] = Ring!Inside[Taken + 1 + i - 1]
            /\ rest \in Seq(Values)
        BY <1>2, <1>4, <1>5
      <3>2. \A i \in 1 .. Ring!readAvailable - Taken : Taken + 1 + i - 1 = Taken + i
        BY <1>4
      <3> HIDE DEF rest
      <3>3. QED
        BY <3>1, <3>2
    <2> HIDE DEF rest
    <2>3. ASSUME NEW i \in 1 .. Ring!readAvailable - Taken
          PROVE  Ring!Inside'[i] = rest[i]
      <3>1. Taken + i \in 1 .. Ring!readAvailable /\ i - 1 \in Nat
        BY <1>2, <1>4
      <3>2. Ring!Slot(cons.tail + (i - 1)) = Ring!Slot(tail + Ring!Minus(cons.tail, tail) + (i - 1))
        BY <1>4, <3>1, SlotFrom
      <3>3. cons.tail + (i - 1) = cons.tail + i - 1 /\ tail + Taken + (i - 1) = tail + (Taken + i) - 1
        BY <1>4
      <3>4. ElementAt(data_buff, cons.tail, i) = ElementAt(data_buff, tail, Taken + i)
        BY <3>2, <3>3 DEF ElementAt, Taken
      <3>5. QED
        BY <1>5, <2>1, <2>2, <3>1, <3>4
    <2>4. Ring!Inside' = rest
      BY <2>1, <2>2, <2>3, SeqEqual
    <2>5. QED
      BY <1>5, <2>4 DEF rest
  <1>7. cons.got \in {SubSeq(Ring!Inside, 1, Taken), <<>>}
    <2> SUFFICES ASSUME CopiedOldest PROVE cons.got = SubSeq(Ring!Inside, 1, Taken)
      BY <1>3
    <2> DEFINE first == SubSeq(Ring!Inside, 1, Taken)
    <2>1. /\ first \in Seq(Values) /\ Len(first) = Taken
          /\ \A i \in 1 .. Taken : first[i] = Ring!Inside[i]
      BY <1>2, <1>4, <1>5
    <2>2. /\ Len(cons.got) = Taken
          /\ \A i \in 1 .. Taken : cons.got[i] = ElementAt(data_buff, tail, i)
      BY DEF CopiedOldest
    <2> HIDE DEF first
    <2>3. \A i \in 1 .. Taken : i \in 1 .. Ring!readAvailable
      BY <1>2, <1>4
    <2>4. \A i \in 1 .. Taken : cons.got[i] = first[i]
      BY <1>5, <2>1, <2>2, <2>3
    <2>5. cons.got = first
      BY <1>4, <2>1, <2>2, <2>4, SeqEqual
    <2>6. QED
      BY <2>5 DEF first
  <1>8. Taken \in 0 .. Len(Ring!Inside)
    BY <1>2, <1>4, <1>5
  <1>9. QED
    BY <1>1, <1>6, <1>7, <1>8 DEF Ring!Fifo!Take

\* producerClear drops all the elements.
LEMMA ClearTakes ==
    ASSUME Ring!SizeAssumption, RingInv, Ring!producerClear
    PROVE  Ring!Fifo!Take
  <1>1. Ring!Inside \in Seq(Values) /\ Len(Ring!Inside) = Ring!readAvailable /\ Ring!readAvailable \in Nat
    BY InsideType, RingFacts
  <1>2. Ring!readAvailable' = 0 /\ buff' = <<>>
    BY ProducerClearKeeps DEF Ring!producerClear
  <1>3. Ring!Inside' = <<>>
    BY <1>2 DEF Ring!Inside
  <1>4. SubSeq(Ring!Inside, Len(Ring!Inside) + 1, Len(Ring!Inside)) = <<>>
    BY <1>1
  <1>5. Len(Ring!Inside) \in 0 .. Len(Ring!Inside)
    BY <1>1
  <1>6. QED
    BY <1>2, <1>3, <1>4, <1>5 DEF Ring!Fifo!Take

\* The ring implements a bounded FIFO: whatever the number of slots, the range
\* of index_t and the interleaving of the two threads, batches appear whole,
\* leave in order, and what the consumer receives is what left, up to the
\* step (if there is one) at which insert or at with a narrow index_t misjudge
\* the ring or producerClear meets a consumer at work.
THEOREM RingRefines == QueuesSpec => ImplementsFifo
  <1> USE RingAssumption
  <1>1. Ring!Init => Ring!Fifo!Init
    <2> SUFFICES ASSUME Ring!Init PROVE Ring!Fifo!Init
      OBVIOUS
    <2>1. RingInv /\ Ring!readAvailable = 0
      BY InitRing
    <2>2. Ring!Inside \in Seq(Values) /\ Len(Ring!Inside) = 0
      BY <2>1, InsideType
    <2>3. Ring!Inside = <<>>
      BY <2>2
    <2>4. QED
      BY <2>3 DEF Ring!Init, Ring!Fifo!Init
  <1>2. RingAlways /\ RingAlways' /\ [Ring!Next]_Ring!vars => [Ring!Fifo!Next]_Ring!Fifo!vars
    <2> SUFFICES ASSUME RingAlways, RingAlways', [Ring!Next]_Ring!vars
                 PROVE  [Ring!Fifo!Next]_Ring!Fifo!vars
      OBVIOUS
    <2>1. ASSUME UNCHANGED <<rhead, tail, data_buff, buff>>
          PROVE  [Ring!Fifo!Next]_Ring!Fifo!vars
      BY <2>1, InsideStays DEF Ring!Fifo!vars
    <2>2. CASE UNCHANGED Ring!vars
      BY <2>1, <2>2 DEF Ring!vars
    <2>3. CASE Ring!Next
      <3>1. Ring!Step /\ Calm /\ RingInv
        BY <2>3 DEF Ring!Next, RingAlways, Calm
      <3>2. CASE Ring!WriteSlot
        BY <3>1, <3>2, WriteSlotStutters DEF Ring!WriteSlot, Ring!Fifo!vars
      <3>3. CASE Ring!StoreHead
        <4>1. Calm'
          BY <3>1, <3>3 DEF Ring!StoreHead, Ring!flags, Calm
        <4>2. QED
          BY <3>1, <3>3, <4>1, StoreHeadPuts DEF RingAlways
      <3>4. CASE Ring!StoreTail
        <4>1. Calm'
          BY <3>1, <3>4 DEF Ring!StoreTail, Ring!flags, Calm
        <4>2. QED
          BY <3>1, <3>4, <4>1, StoreTailTakes DEF RingAlways, Ring!Fifo!Next
      <3>5. CASE Ring!producerClear
        BY <3>1, <3>5, ClearTakes DEF Ring!Fifo!Next
      <3>6. CASE Ring!insert \/ Ring!writeBuff \/ Ring!writeBuffCallback \/ Ring!WriteAgain \/ Ring!AskRoom
        BY <2>1, <3>6 DEF Ring!insert, Ring!writeBuff, Ring!writeBuffCallback, Ring!WriteAgain, Ring!AskRoom, Ring!StartWrite
      <3>7. CASE Ring!removeElement \/ Ring!readBuff \/ Ring!readBuffCallback \/ Ring!ReadSlot \/ Ring!ReadAgain
        BY <2>1, <3>7 DEF Ring!removeElement, Ring!readBuff, Ring!readBuffCallback, Ring!ReadSlot, Ring!ReadAgain, Ring!StartRead, Ring!StartDrop
      <3>8. CASE Ring!remove \/ Ring!removeCount \/ Ring!consumerClear \/ Ring!peek \/ Ring!at
        BY <2>1, <3>8 DEF Ring!remove, Ring!removeCount, Ring!consumerClear, Ring!peek, Ring!at, Ring!StartDrop, Ring!Look
      <3>9. QED
        BY <3>1, <3>2, <3>3, <3>4, <3>5, <3>6, <3>7, <3>8 DEF Ring!Step
    <2>4. QED
      BY <2>2, <2>3
  <1>3. QED
    BY <1>1, <1>2, RingSteps, RingInvariant, PTL DEF QueuesSpec, ImplementsFifo, Ring!ImplementsFifo, Ring!Fifo!Spec
-----------------------------------------------------------------------------
(* LockFreeArray *)

\* A producer has claimed index i and not stored yet.
Storing(i) == \E p \in Producers : push[p].pc = "store" /\ push[p].w = i

ArrayTypes ==
    /\ write_index \in Nat /\ read_index \in Nat
    /\ DOMAIN queue_ = 0 .. ArraySize - 1
    /\ push \in [Producers -> [pc : {"idle", "claim", "store", "publish"}, w : Nat]]
    /\ DOMAIN pop = Consumers
    /\ \A c \in Consumers : DOMAIN pop[c] = {"pc", "r", "data", "early"} /\ pop[c].r \in Nat

\* The index a producer works on is one the mask was tried for.
IndexBounded == \A p \in Producers : push[p].pc \in {"claim", "store"} => push[p].w <= MaxIndex

\* Until a store hits an element that nobody popped, every index between the
\* two counters is being stored or is in its slot.
StoredOrStoring ==
    ~clobbered => \A i \in read_index .. write_index - 1 : Storing(i) \/ queue_[Array!index(i)] = i

Right(c) == pop[c].data = pop[c].r \/ pop[c].early \/ clobbered

\* What a consumer has read, and what it has taken.
TakenInv ==
    /\ \A c \in Consumers :
          /\ pop[c].pc = "claim" => pop[c].r <= read_index /\ (pop[c].r = read_index => Right(c))
          /\ pop[c].pc = "got" => pop[c].r < read_index /\ Right(c)
    /\ Array!TakenOnce

\* A consumer alone in try_pop has found something there.
AloneInv ==
    ~overlap =>
        /\ read_index <= write_index
        /\ \A c \in Consumers : Array!Inside(c) => /\ read_index < write_index
                                                   /\ \A d \in Consumers : Array!Inside(d) => d = c

ArrayInv == ArrayTypes /\ IndexBounded /\ StoredOrStoring /\ TakenInv /\ AloneInv

\* A step that leaves the consumers' side and the flags alone.
LEMMA PushLeavesPop ==
    ASSUME ArrayInv, write_index' \in Nat, write_index' >= write_index,
           clobbered => clobbered', UNCHANGED <<read_index, pop, overlap>>
    PROVE  TakenInv' /\ AloneInv'
  <1>1. TakenInv'
    BY DEF ArrayInv, TakenInv, Right, Array!TakenOnce
  <1>2. AloneInv'
    BY DEF ArrayInv, ArrayTypes, AloneInv, Array!Inside
  <1>3. QED
    BY <1>1, <1>2

\* The steps of a producer.
LEMMA PushKeeps ==
    ASSUME ArrayInv, NEW p \in Producers, Array!PushStep(p)
    PROVE  ArrayInv'
  <1>1. ArrayTypes /\ IndexBounded /\ StoredOrStoring /\ push[p].w \in Nat
    BY DEF ArrayInv, ArrayTypes
  <1>2. CASE Array!PushLoad(p)
    <2>1. /\ push[p].pc = "idle" /\ write_index < MaxIndex
          /\ push' = [push EXCEPT ![p] = [pc |-> "claim", w |-> write_index]]
          /\ UNCHANGED <<write_index, read_index, queue_, pop, clobbered, overlap>>
      BY <1>2 DEF Array!PushLoad
    <2>2. ArrayTypes'
      BY <1>1, <2>1 DEF ArrayTypes
    <2>3. push'[p].pc = "claim" /\ push'[p].w = write_index /\ \A x \in Producers : x # p => push'[x] = push[x]
      BY <1>1, <2>1 DEF ArrayTypes
    <2>4. IndexBounded'
      BY <1>1, <2>1, <2>3, ArrayAssumption DEF IndexBounded, ArrayTypes, Array!NAssumption
    <2>5. \A i : Storing(i) => Storing(i)'
      BY <2>1, <2>3 DEF Storing
    <2>6. StoredOrStoring'
      BY <1>1, <2>1, <2>5 DEF StoredOrStoring
    <2>7. QED
      BY <1>1, <2>1, <2>2, <2>4, <2>6, PushLeavesPop DEF ArrayInv, ArrayTypes
  <1>3. CASE Array!PushClaim(p)
    <2>1. push[p].pc = "claim" /\ UNCHANGED <<read_index, queue_, pop, clobbered, overlap>>
      BY <1>3 DEF Array!PushClaim
    <2>2. CASE write_index = push[p].w
      <3>1. write_index' = write_index + 1 /\ push' = [push EXCEPT ![p].pc = "store"]
        BY <1>3, <2>2 DEF Array!PushClaim
      <3>2. ArrayTypes'
        BY <1>1, <2>1, <3>1 DEF ArrayTypes
      <3>3. push'[p].pc = "store" /\ push'[p].w = write_index /\ \A x \in Producers : x # p => push'[x] = push[x]
        BY <1>1, <2>2, <3>1 DEF ArrayTypes
      <3>4. IndexBounded'
        BY <1>1, <2>1, <2>2, <3>3 DEF IndexBounded
      <3>5. \A i : Storing(i) => Storing(i)'
        BY <2>1, <3>3 DEF Storing
      <3>6. StoredOrStoring'
        <4> SUFFICES ASSUME ~clobbered, NEW i \in read_index .. write_index
                     PROVE  Storing(i)' \/ queue_[Array!index(i)] = i
          BY <1>1, <2>1, <3>1 DEF StoredOrStoring, ArrayTypes
        <4>1. CASE i = write_index
          BY <3>3, <4>1 DEF Storing
        <4>2. CASE i # write_index
          <5>1. i \in read_index .. write_index - 1
            BY <1>1, <4>2 DEF ArrayTypes
          <5>2. QED
            BY <1>1, <3>5, <5>1 DEF StoredOrStoring
        <4>3. QED
          BY <4>1, <4>2
      <3>7. QED
        BY <1>1, <2>1, <3>1, <3>2, <3>4, <3>6, PushLeavesPop DEF ArrayInv, ArrayTypes
    <2>3. CASE write_index # push[p].w
      <3>1. write_index' = write_index /\ push' = [push EXCEPT ![p] = [pc |-> "idle", w |-> 0]]
        BY <1>3, <2>3 DEF Array!PushClaim, Array!PushIdle
      <3>2. ArrayTypes'
        BY <1>1, <2>1, <3>1 DEF ArrayTypes
      <3>3. push'[p].pc = "idle" /\ \A x \in Producers : x # p => push'[x] = push[x]
        BY <1>1, <3>1 DEF ArrayTypes
      <3>4. IndexBounded'
        BY <1>1, <3>3 DEF IndexBounded
      <3>5. \A i : Storing(i) => Storing(i)'
        BY <2>1, <3>3 DEF Storing
      <3>6. StoredOrStoring'
        BY <1>1, <2>1, <3>1, <3>5 DEF StoredOrStoring
      <3>7. QED
        BY <1>1, <2>1, <3>1, <3>2, <3>4, <3>6, PushLeavesPop DEF ArrayInv, ArrayTypes
    <2>4. QED
      BY <2>2, <2>3
  <1>4. CASE Array!PushStore(p)
    <2> DEFINE w == push[p].w
    <2>1. /\ push[p].pc = "store"
          /\ queue_' = [queue_ EXCEPT ![Array!index(w)] = w]
          /\ clobbered' <=> clobbered \/ queue_[Array!index(w)] \in read_index .. write_index - 1
          /\ push' = [push EXCEPT ![p].pc = "publish"]
          /\ UNCHANGED <<write_index, read_index, pop, overlap>>
      BY <1>4 DEF Array!PushStore
    <2>2. ArrayTypes'
      BY <1>1, <2>1 DEF ArrayTypes
    <2>3. push'[p].pc = "publish" /\ \A x \in Producers : x # p => push'[x] = push[x]
      BY <1>1, <2>1 DEF ArrayTypes
    <2>4. IndexBounded'
      BY <1>1, <2>3 DEF IndexBounded
    <2>5. Array!index(w) \in DOMAIN queue_
      <3>1. w \in 0 .. MaxIndex
        BY <1>1, <2>1, ArrayAssumption DEF IndexBounded, Array!NAssumption
      <3>2. QED
        BY <1>1, <3>1, ArrayAssumption DEF ArrayTypes, Array!NAssumption
    <2>6. StoredOrStoring'
      <3> SUFFICES ASSUME ~clobbered', NEW i \in read_index .. write_index - 1
                   PROVE  Storing(i)' \/ queue_'[Array!index(i)] = i
        BY <2>1 DEF StoredOrStoring
      <3>1. ~clobbered /\ queue_[Array!index(w)] \notin read_index .. write_index - 1
        BY <2>1
      <3>2. CASE i = w
        BY <2>1, <2>5, <3>2
      <3>3. CASE i # w /\ Storing(i)
        BY <2>3, <3>3 DEF Storing
      <3>4. CASE i # w /\ ~Storing(i)
        <4>1. queue_[Array!index(i)] = i
          BY <1>1, <3>1, <3>4 DEF StoredOrStoring
        <4>2. Array!index(i) # Array!index(w)
          BY <3>1, <4>1
        <4>3. QED
          BY <2>1, <4>1, <4>2
      <3>5. QED
        BY <3>2, <3>3, <3>4
    <2>7. TakenInv' /\ AloneInv'
      <3>1. (clobbered => clobbered') /\ write_index' \in Nat /\ write_index' >= write_index
        BY <1>1, <2>1 DEF ArrayTypes
      <3>2. QED
        BY <2>1, <3>1, PushLeavesPop
    <2>8. QED
      BY <2>2, <2>4, <2>6, <2>7 DEF ArrayInv
  <1>5. CASE Array!PushPublish(p)
    <2>1. /\ push[p].pc = "publish" /\ push' = [push EXCEPT ![p] = [pc |-> "idle", w |-> 0]]
          /\ UNCHANGED <<write_index, read_index, queue_, pop, clobbered, overlap>>
      BY <1>5 DEF Array!PushPublish, Array!PushIdle
    <2>2. ArrayTypes'
      BY <1>1, <2>1 DEF ArrayTypes
    <2>3. push'[p].pc = "idle" /\ \A x \in Producers : x # p => push'[x] = push[x]
      BY <1>1, <2>1 DEF ArrayTypes
    <2>4. IndexBounded'
      BY <1>1, <2>3 DEF IndexBounded
    <2>5. \A i : Storing(i) => Storing(i)'
      BY <2>1, <2>3 DEF Storing
    <2>6. StoredOrStoring'
      BY <1>1, <2>1, <2>5 DEF StoredOrStoring
    <2>7. QED
      BY <1>1, <2>1, <2>2, <2>4, <2>6, PushLeavesPop DEF ArrayInv, ArrayTypes
  <1>6. QED
    BY <1>2, <1>3, <1>4, <1>5 DEF Array!PushStep

\* A consumer leaves try_pop.
LEMMA BackToIdle ==
    ASSUME ArrayInv, NEW c \in Consumers, pop' = [pop EXCEPT ![c] = Array!PopIdle],
           UNCHANGED <<write_index, read_index, queue_, push, clobbered, overlap>>
    PROVE  ArrayTypes' /\ TakenInv' /\ AloneInv' /\ read_index' \in Nat /\ read_index' >= read_index
  <1>1. ArrayTypes /\ TakenInv /\ AloneInv
    BY DEF ArrayInv
  <1>2. /\ pop'[c].pc = "idle" /\ pop'[c].r = 0 /\ DOMAIN pop' = Consumers
        /\ DOMAIN pop'[c] = {"pc", "r", "data", "early"}
        /\ \A d \in Consumers : d # c => pop'[d] = pop[d]
    BY <1>1 DEF ArrayTypes, Array!PopIdle
  <1>3. ArrayTypes' /\ read_index' \in Nat /\ read_index' >= read_index
    BY <1>1, <1>2 DEF ArrayTypes
  <1>4. TakenInv'
    BY <1>1, <1>2 DEF TakenInv, Right, Array!TakenOnce
  <1>5. AloneInv'
    BY <1>1, <1>2 DEF AloneInv, Array!Inside
  <1>6. QED
    BY <1>3, <1>4, <1>5

\* The steps of a consumer.
LEMMA PopKeeps ==
    ASSUME ArrayInv, NEW c \in Consumers, Array!PopStep(c)
    PROVE  ArrayInv'
  <1>1. ArrayTypes /\ StoredOrStoring /\ TakenInv /\ AloneInv
    BY DEF ArrayInv
  <1>2. UNCHANGED <<write_index, queue_, push, clobbered>>
    BY DEF Array!PopStep, Array!PopTest, Array!PopRead, Array!PopClaim, Array!PopReturn
  <1>3. /\ IndexBounded' /\ (read_index' \in Nat /\ read_index' >= read_index => StoredOrStoring')
    <2>1. IndexBounded'
      BY <1>2 DEF ArrayInv, IndexBounded
    <2>2. ASSUME read_index' \in Nat, read_index' >= read_index PROVE StoredOrStoring'
      <3> SUFFICES ASSUME ~clobbered, NEW i \in read_index' .. write_index - 1
                   PROVE  Storing(i)' \/ queue_[Array!index(i)] = i
        BY <1>2 DEF StoredOrStoring
      <3>1. i \in read_index .. write_index - 1
        BY <1>1, <2>2 DEF ArrayTypes
      <3>2. Storing(i) => Storing(i)'
        BY <1>2 DEF Storing
      <3>3. QED
        BY <1>1, <3>1, <3>2 DEF StoredOrStoring
    <2>3. QED
      BY <2>1, <2>2
  <1>4. CASE Array!PopTest(c)
    <2>1. /\ pop[c].pc = "idle" /\ read_index # write_index
          /\ pop' = [pop EXCEPT ![c].pc = "read"]
          /\ overlap' = (overlap \/ \E d \in Consumers : Array!Inside(d))
          /\ UNCHANGED read_index
      BY <1>4 DEF Array!PopTest, Array!empty
    <2>2. /\ pop'[c].pc = "read" /\ pop'[c].r = pop[c].r /\ DOMAIN pop' = Consumers
          /\ DOMAIN pop'[c] = {"pc", "r", "data", "early"}
          /\ \A d \in Consumers : d # c => pop'[d] = pop[d]
      BY <1>1, <2>1 DEF ArrayTypes
    <2>3. ArrayTypes'
      BY <1>1, <1>2, <2>1, <2>2 DEF ArrayTypes
    <2>4. TakenInv'
      BY <1>1, <1>2, <2>1, <2>2 DEF TakenInv, Right, Array!TakenOnce
    <2>5. AloneInv'
      <3> SUFFICES ASSUME ~overlap'
                   PROVE  /\ read_index < write_index
                          /\ \A d \in Consumers : Array!Inside(d)' => d = c
        BY <1>1, <1>2, <2>1 DEF AloneInv, ArrayTypes
      <3>1. ~overlap /\ \A d \in Consumers : ~Array!Inside(d)
        BY <2>1
      <3>2. read_index < write_index
        BY <1>1, <2>1, <3>1 DEF AloneInv, ArrayTypes
      <3>3. ASSUME NEW d \in Consumers, Array!Inside(d)' PROVE d = c
        BY <2>2, <3>1, <3>3 DEF Array!Inside
      <3>4. QED
        BY <3>2, <3>3
    <2>6. QED
      BY <1>1, <1>3, <2>1, <2>3, <2>4, <2>5 DEF ArrayInv, ArrayTypes
  <1>5. CASE Array!PopRead(c)
    <2>1. /\ pop[c].pc = "read"
          /\ pop' = [pop EXCEPT ![c] =
                [pc |-> "claim", r |-> read_index, data |-> queue_[Array!index(read_index)],
                 early |-> read_index >= write_index
                             \/ \E p \in Producers : push[p].pc = "store" /\ push[p].w = read_index]]
          /\ UNCHANGED <<read_index, overlap>>
      BY <1>5 DEF Array!PopRead
    <2>2. /\ pop'[c].pc = "claim" /\ pop'[c].r = read_index /\ DOMAIN pop' = Consumers
          /\ pop'[c].data = queue_[Array!index(read_index)]
          /\ pop'[c].early <=> read_index >= write_index \/ Storing(read_index)
          /\ DOMAIN pop'[c] = {"pc", "r", "data", "early"}
          /\ \A d \in Consumers : d # c => pop'[d] = pop[d]
      BY <1>1, <2>1 DEF ArrayTypes, Storing
    <2>3. ArrayTypes'
      BY <1>1, <1>2, <2>1, <2>2 DEF ArrayTypes
    <2>4. Right(c)'
      <3> SUFFICES ASSUME ~clobbered, read_index < write_index, ~Storing(read_index)
                   PROVE  queue_[Array!index(read_index)] = read_index
        BY <1>1, <1>2, <2>2 DEF Right, ArrayTypes
      <3>1. read_index \in read_index .. write_index - 1
        BY <1>1 DEF ArrayTypes
      <3>2. QED
        BY <1>1, <3>1 DEF StoredOrStoring
    <2>5. TakenInv'
      <3>1. \A d \in Consumers : d # c => (Right(d)' <=> Right(d))
        BY <1>2, <2>2 DEF Right
      <3>2. QED
        BY <1>1, <2>1, <2>2, <2>4, <3>1 DEF TakenInv, ArrayTypes, Array!TakenOnce
    <2>6. AloneInv'
      <3>1. \A d \in Consumers : Array!Inside(d)' <=> Array!Inside(d)
        BY <2>1, <2>2 DEF Array!Inside
      <3>2. QED
        BY <1>1, <1>2, <2>1, <3>1 DEF AloneInv
    <2>7. QED
      BY <1>1, <1>3, <2>1, <2>3, <2>5, <2>6 DEF ArrayInv, ArrayTypes
  <1>6. CASE Array!PopClaim(c)
    <2>1. pop[c].pc = "claim" /\ UNCHANGED overlap
      BY <1>6 DEF Array!PopClaim
    <2>2. CASE read_index = pop[c].r
      <3>1. read_index' = read_index + 1 /\ pop' = [pop EXCEPT ![c].pc = "got"]
        BY <1>6, <2>2 DEF Array!PopClaim
      <3>2. /\ pop'[c].pc = "got" /\ pop'[c].r = pop[c].r /\ pop'[c].data = pop[c].data
            /\ pop'[c].early = pop[c].early /\ DOMAIN pop' = Consumers
            /\ DOMAIN pop'[c] = {"pc", "r", "data", "early"}
            /\ \A d \in Consumers : d # c => pop'[d] = pop[d]
        BY <1>1, <3>1 DEF ArrayTypes
      <3>3. ArrayTypes'
        BY <1>1, <1>2, <3>1, <3>2 DEF ArrayTypes
      <3>4. \A d \in Consumers : Right(d)' <=> Right(d)
        BY <1>2, <3>2 DEF Right
      <3>5. TakenInv'
        <4>1. Right(c) /\ pop[c].r \in Nat /\ read_index \in Nat
          BY <1>1, <2>1, <2>2 DEF TakenInv, ArrayTypes
        <4>2. ASSUME NEW d \in Consumers, pop'[d].pc = "claim"
              PROVE  pop'[d].r <= read_index' /\ pop'[d].r # read_index'
          BY <1>1, <3>1, <3>2, <4>1, <4>2 DEF TakenInv, ArrayTypes
        <4>3. ASSUME NEW d \in Consumers, pop'[d].pc = "got"
              PROVE  pop'[d].r < read_index' /\ Right(d)'
          BY <1>1, <2>2, <3>1, <3>2, <3>4, <4>1, <4>3 DEF TakenInv, ArrayTypes
        <4>4. Array!TakenOnce'
          <5> SUFFICES ASSUME NEW d \in Consumers, NEW e \in Consumers, d # e,
                              pop'[d].pc = "got", pop'[e].pc = "got", pop'[d].r = pop'[e].r
                       PROVE  FALSE
            BY DEF Array!TakenOnce
          <5>1. ASSUME NEW x \in Consumers, x # c, pop[x].pc = "got" PROVE pop[x].r # pop[c].r
            BY <1>1, <2>2, <5>1 DEF TakenInv, ArrayTypes
          <5>2. CASE d = c \/ e = c
            BY <3>2, <5>1, <5>2
          <5>3. CASE d # c /\ e # c
            BY <1>1, <3>2, <5>3 DEF TakenInv, Array!TakenOnce
          <5>4. QED
            BY <5>2, <5>3
        <4>5. QED
          BY <4>2, <4>3, <4>4 DEF TakenInv
      <3>6. AloneInv'
        <4> SUFFICES ASSUME ~overlap
                     PROVE  read_index + 1 <= write_index /\ \A d \in Consumers : ~Array!Inside(d)'
          BY <1>2, <2>1, <3>1 DEF AloneInv
        <4>1. Array!Inside(c)
          BY <2>1 DEF Array!Inside
        <4>2. read_index < write_index /\ \A d \in Consumers : Array!Inside(d) => d = c
          BY <1>1, <4>1 DEF AloneInv
        <4>3. ASSUME NEW d \in Consumers PROVE ~Array!Inside(d)'
          BY <3>2, <4>2 DEF Array!Inside
        <4>4. QED
          BY <1>1, <4>2, <4>3 DEF ArrayTypes
      <3>7. QED
        BY <1>1, <1>3, <3>1, <3>3, <3>5, <3>6 DEF ArrayInv, ArrayTypes
    <2>3. CASE read_index # pop[c].r
      <3>1. UNCHANGED read_index /\ pop' = [pop EXCEPT ![c] = Array!PopIdle]
        BY <1>6, <2>3 DEF Array!PopClaim
      <3>2. QED
        BY <1>1, <1>2, <1>3, <2>1, <3>1, BackToIdle DEF ArrayInv
    <2>4. QED
      BY <2>2, <2>3
  <1>7. CASE Array!PopReturn(c)
    <2>1. UNCHANGED <<read_index, overlap>> /\ pop' = [pop EXCEPT ![c] = Array!PopIdle]
      BY <1>7 DEF Array!PopReturn
    <2>2. QED
      BY <1>1, <1>2, <1>3, <2>1, BackToIdle DEF ArrayInv
  <1>8. QED
    BY <1>4, <1>5, <1>6, <1>7 DEF Array!PopStep

\* Whatever the number of slots, of producers and of consumers: try_pop
\* returns what was pushed at its index unless it read the slot before the
\* store or a push hit an element that nobody had popped, no two consumers
\* take the same index, and read_index passes write_index only after two
\* consumers were inside try_pop together (lock_free_array.h).
THEOREM ArrayCorrect == QueuesSpec => []ArraySafe
  <1>1. QueuesInit => ArrayInv
    <2> SUFFICES ASSUME QueuesInit PROVE ArrayInv
      OBVIOUS
    <2>1. /\ write_index = 0 /\ read_index = 0 /\ queue_ = [x \in 0 .. ArraySize - 1 |-> Array!None]
          /\ push = [p \in Producers |-> [pc |-> "idle", w |-> 0]]
          /\ pop = [c \in Consumers |-> [pc |-> "idle", r |-> 0, data |-> Array!None, early |-> FALSE]]
      BY DEF QueuesInit, Array!Init, Array!PushIdle, Array!PopIdle
    <2>2. QED
      BY <2>1 DEF ArrayInv, ArrayTypes, IndexBounded, StoredOrStoring, TakenInv, Array!TakenOnce, AloneInv, Array!Inside
  <1>2. ArrayInv /\ [QueuesNext]_<<unit, vars, ringVars, arrayVars, stagingVars>> => ArrayInv'
    <2> SUFFICES ASSUME ArrayInv, [QueuesNext]_<<unit, vars, ringVars, arrayVars, stagingVars>>
                 PROVE  ArrayInv'
      OBVIOUS
    <2>1. Array!Next \/ UNCHANGED arrayVars
      BY DEF QueuesNext
    <2>2. CASE UNCHANGED arrayVars
      BY <2>2 DEF arrayVars, ArrayInv, ArrayTypes, IndexBounded, StoredOrStoring, Storing, TakenInv, Right,
         Array!TakenOnce, AloneInv, Array!Inside
    <2>3. QED
      BY <2>1, <2>2, PushKeeps, PopKeeps DEF Array!Next
  <1>3. ArrayInv => ArraySafe
    BY DEF ArrayInv, ArraySafe, TakenInv, Right, AloneInv, Array!TakenStored, Array!ReadNotPastWrite
  <1>4. QED
    BY <1>1, <1>2, <1>3, PTL DEF QueuesSpec
-----------------------------------------------------------------------------
(* StagingBuffer *)

\* The records from the i-th to the j-th lie one behind the other and fill the
\* bytes from a up to b.
Chain(s, i, j, a, b) ==
    /\ IF i <= j THEN s[i].pos = a /\ s[j].pos + s[j].len = b ELSE a = b
    /\ \A m \in i .. j : a <= s[m].pos /\ s[m].pos + s[m].len <= b
    /\ \A m, n \in i .. j : m < n => s[m].pos + s[m].len <= s[n].pos
    /\ \A m \in i .. j - 1 : s[m + 1].pos = s[m].pos + s[m].len

Record == [pos : Nat, len : Nat \ {0}]

StagingTypes ==
    /\ producer_pos_ \in Nat /\ consumer_pos_ \in Nat /\ end_of_record_ \in Nat /\ min_free_space_ \in Nat
    /\ call \in [pc : {"idle", "search", "peek", "take"}, size : Nat, blocking : BOOLEAN]
    /\ live \in Seq(Record)
    /\ adrift \in BOOLEAN

\* The producer is ahead of the consumer in the same turn of the ring ...
Linear ==
    /\ consumer_pos_ <= producer_pos_
    /\ producer_pos_ + min_free_space_ <= StagingSize
    /\ Chain(live, 1, Len(live), consumer_pos_, producer_pos_)

\* ... or a turn ahead of it: the first k records lie before end_of_record_.
Wrapped ==
    /\ producer_pos_ < consumer_pos_
    /\ consumer_pos_ <= end_of_record_ /\ end_of_record_ <= StagingSize
    /\ producer_pos_ + min_free_space_ <= consumer_pos_
    /\ \E k \in 0 .. Len(live) : /\ Chain(live, 1, k, consumer_pos_, end_of_record_)
                                 /\ Chain(live, k + 1, Len(live), 0, producer_pos_)

StagingInv ==
    /\ StagingTypes
    /\ call.pc # "idle" => call.size # 0
    /\ call.pc = "take" => call.size < min_free_space_
    /\ ~adrift => Linear \/ Wrapped

\* What a record of a sequence is made of.
LEMMA RecordAt ==
    ASSUME NEW s \in Seq(Record)
    PROVE  \A m \in 1 .. Len(s) : s[m].pos \in Nat /\ s[m].len \in Nat \ {0}
  <1>1. \A m \in 1 .. Len(s) : s[m] \in Record
    OBVIOUS
  <1>2. QED
    BY <1>1 DEF Record

\* The same records at other places of a sequence.
LEMMA ChainMoves ==
    ASSUME NEW s, NEW u, NEW i \in Nat, NEW j \in Nat, NEW d \in 0 .. 1, NEW a \in Nat, NEW b \in Nat,
           Chain(s, i + d, j + d, a, b),
           \A m \in i .. j : u[m] = s[m + d]
    PROVE  Chain(u, i, j, a, b)
  <1>1. \A m \in i .. j : m + d \in i + d .. j + d
    OBVIOUS
  <1>2. \A m \in i .. j - 1 : m + d \in i + d .. (j + d) - 1 /\ m \in i .. j /\ m + 1 \in i .. j /\ (m + 1) + d = (m + d) + 1
    OBVIOUS
  <1>3. (i <= j <=> i + d <= j + d) /\ (i <= j => i \in i .. j /\ j \in i .. j)
    OBVIOUS
  <1>4. IF i <= j THEN u[i].pos = a /\ u[j].pos + u[j].len = b ELSE a = b
    BY <1>3 DEF Chain
  <1>5. \A m \in i .. j : a <= u[m].pos /\ u[m].pos + u[m].len <= b
    BY <1>1 DEF Chain
  <1>6. ASSUME NEW m \in i .. j, NEW n \in i .. j, m < n PROVE u[m].pos + u[m].len <= u[n].pos
    <2>1. m + d < n + d
      BY <1>6
    <2>2. QED
      BY <1>1, <2>1 DEF Chain
  <1>7. ASSUME NEW m \in i .. j - 1 PROVE u[m + 1].pos = u[m].pos + u[m].len
    <2>1. s[(m + d) + 1].pos = s[m + d].pos + s[m + d].len
      BY <1>2 DEF Chain
    <2>2. u[m] = s[m + d] /\ u[m + 1] = s[(m + d) + 1]
      BY <1>2
    <2>3. QED
      BY <2>1, <2>2
  <1>8. QED
    BY <1>4, <1>5, <1>6, <1>7 DEF Chain

\* A record more at the end.
LEMMA ChainGrows ==
    ASSUME NEW s \in Seq(Record), NEW i \in 1 .. Len(s) + 1, NEW a \in Nat, NEW b \in Nat, NEW l \in Nat \ {0},
           Chain(s, i, Len(s), a, b)
    PROVE  Chain(Append(s, [pos |-> b, len |-> l]), i, Len(s) + 1, a, b + l)
  <1> DEFINE r == [pos |-> b, len |-> l]
             u == Append(s, r)
             n == Len(s)
  <1>1. /\ n \in Nat /\ (\A m \in 1 .. n : u[m] = s[m]) /\ u[n + 1] = r /\ r.pos = b /\ r.len = l
        /\ \A m \in 1 .. n : s[m].pos \in Nat /\ s[m].len \in Nat \ {0}
    <2>1. r \in Record /\ r.pos = b /\ r.len = l
      BY DEF Record
    <2> HIDE DEF r
    <2>2. n \in Nat /\ (\A m \in 1 .. n : u[m] = s[m]) /\ u[n + 1] = r
      BY <2>1
    <2>3. \A m \in 1 .. n : s[m].pos \in Nat /\ s[m].len \in Nat \ {0}
      BY RecordAt
    <2>4. QED
      BY <2>1, <2>2, <2>3
  <1>2. \A m \in i .. n + 1 : m = n + 1 \/ m \in i .. n
    BY <1>1
  <1>3. \A m \in i .. n : m \in 1 .. n
    OBVIOUS
  <1>4. a <= b
    <2>1. CASE i <= n
      <3>1. i \in i .. n
        BY <1>1, <2>1
      <3>2. QED
        BY <1>1, <1>3, <3>1 DEF Chain
    <2>2. CASE ~(i <= n)
      BY <2>2 DEF Chain
    <2>3. QED
      BY <2>1, <2>2
  <1> HIDE DEF u, r
  <1>5. i <= n + 1 /\ u[i].pos = a /\ u[n + 1].pos + u[n + 1].len = b + l
    <2>1. CASE i <= n
      <3>1. i \in i .. n
        BY <1>1, <2>1
      <3>2. QED
        BY <1>1, <1>3, <2>1, <3>1 DEF Chain
    <2>2. CASE ~(i <= n)
      BY <1>1, <2>2 DEF Chain
    <2>3. QED
      BY <2>1, <2>2
  <1>6. ASSUME NEW m \in i .. n + 1 PROVE a <= u[m].pos /\ u[m].pos + u[m].len <= b + l
    <2>1. CASE m \in i .. n
      <3>1. a <= s[m].pos /\ s[m].pos + s[m].len <= b
        BY <2>1 DEF Chain
      <3>2. QED
        BY <1>1, <1>3, <2>1, <3>1
    <2>2. CASE m = n + 1
      BY <1>1, <1>4, <2>2
    <2>3. QED
      BY <1>2, <2>1, <2>2
  <1>7. ASSUME NEW m \in i .. n + 1, NEW k \in i .. n + 1, m < k PROVE u[m].pos + u[m].len <= u[k].pos
    <2>1. m \in i .. n
      BY <1>1, <1>7
    <2>2. s[m].pos + s[m].len <= b
      BY <2>1 DEF Chain
    <2>3. CASE k \in i .. n
      BY <1>1, <1>3, <1>7, <2>1, <2>3 DEF Chain
    <2>4. CASE k = n + 1
      BY <1>1, <1>3, <2>1, <2>2, <2>4
    <2>5. QED
      BY <1>2, <2>3, <2>4
  <1>8. ASSUME NEW m \in i .. (n + 1) - 1 PROVE u[m + 1].pos = u[m].pos + u[m].len
    <2>1. m \in i .. n /\ m \in 1 .. n
      BY <1>1
    <2>2. CASE m = n
      <3>1. s[n].pos + s[n].len = b
        BY <2>1, <2>2 DEF Chain
      <3>2. QED
        BY <1>1, <2>1, <2>2, <3>1
    <2>3. CASE m # n
      <3>1. m \in i .. n - 1 /\ m + 1 \in 1 .. n
        BY <1>1, <2>1, <2>3
      <3>2. s[m + 1].pos = s[m].pos + s[m].len
        BY <3>1 DEF Chain
      <3>3. QED
        BY <1>1, <2>1, <3>1, <3>2
    <2>4. QED
      BY <2>2, <2>3
  <1>9. Chain(u, i, n + 1, a, b + l)
    BY <1>5, <1>6, <1>7, <1>8 DEF Chain
  <1>10. QED
    BY <1>9 DEF u, r

\* The first record goes.
LEMMA ChainShrinks ==
    ASSUME NEW s \in Seq(Record), NEW j \in 1 .. Len(s), NEW a \in Nat, NEW b \in Nat, Chain(s, 1, j, a, b)
    PROVE  s[1].pos = a /\ a + s[1].len <= b /\ Chain(Tail(s), 1, j - 1, a + s[1].len, b)
  <1>1. /\ Len(s) \in Nat /\ s # <<>> /\ (\A m \in 1 .. j - 1 : Tail(s)[m] = s[m + 1]) /\ 1 \in 1 .. j
        /\ \A m \in 1 .. Len(s) : s[m].pos \in Nat /\ s[m].len \in Nat \ {0}
    <2>1. Len(s) \in Nat /\ s # <<>> /\ 1 \in 1 .. j
      OBVIOUS
    <2>2. \A m \in 1 .. Len(s) - 1 : Tail(s)[m] = s[m + 1]
      BY <2>1
    <2>3. \A m \in 1 .. j - 1 : m \in 1 .. Len(s) - 1
      BY <2>1
    <2>4. QED
      BY <2>1, <2>2, <2>3, RecordAt
  <1>2. s[1].pos = a /\ s[1].pos + s[1].len <= b /\ s[1].len \in Nat
    BY <1>1 DEF Chain
  <1>3. Chain(s, 2, j, a + s[1].len, b)
    <2>1. IF 2 <= j THEN s[2].pos = a + s[1].len /\ s[j].pos + s[j].len = b ELSE a + s[1].len = b
      <3>1. s[j].pos + s[j].len = b
        BY <1>1 DEF Chain
      <3>2. CASE 2 <= j
        <4>1. 1 \in 1 .. j - 1
          BY <3>2
        <4>2. s[1 + 1].pos = s[1].pos + s[1].len
          BY <4>1 DEF Chain
        <4>3. QED
          BY <1>2, <3>1, <3>2, <4>2
      <3>3. CASE ~(2 <= j)
        <4>1. j = 1
          BY <3>3
        <4>2. QED
          BY <1>2, <3>1, <4>1
      <3>4. QED
        BY <3>2, <3>3
    <2>2. ASSUME NEW m \in 2 .. j PROVE a + s[1].len <= s[m].pos /\ s[m].pos + s[m].len <= b
      <3>1. m \in 1 .. j /\ 1 < m
        OBVIOUS
      <3>2. s[1].pos + s[1].len <= s[m].pos /\ s[m].pos + s[m].len <= b
        BY <1>1, <3>1 DEF Chain
      <3>3. QED
        BY <1>2, <3>2
    <2>3. \A m, n \in 2 .. j : m < n => s[m].pos + s[m].len <= s[n].pos
      BY DEF Chain
    <2>4. \A m \in 2 .. j - 1 : s[m + 1].pos = s[m].pos + s[m].len
      BY DEF Chain
    <2>5. QED
      BY <2>1, <2>2, <2>3, <2>4 DEF Chain
  <1>4. Chain(Tail(s), 1, j - 1, a + s[1].len, b)
    <2> DEFINE u == Tail(s)
               i == j - 1
               c == a + s[1].len
    <2>1. i \in Nat /\ c \in Nat /\ 1 + 1 = 2 /\ i + 1 = j
      BY <1>2
    <2>2. \A m \in 1 .. i : u[m] = s[m + 1]
      BY <1>1
    <2> HIDE DEF u, c, i
    <2>3. Chain(s, 1 + 1, i + 1, c, b)
      BY <1>3, <2>1 DEF c
    <2>4. Chain(u, 1, i, c, b)
      <3>1. 1 \in Nat /\ 1 \in 0 .. 1
        OBVIOUS
      <3>2. QED
        BY <2>1, <2>2, <2>3, <3>1, ChainMoves, SMTT(30)
    <2>5. QED
      BY <2>4 DEF u, c, i
  <1>5. QED
    BY <1>2, <1>4

\* One turn of allocate's loop: the ring may be entered anew at its start.
LEMMA SearchKeeps ==
    ASSUME StagingInv, ~adrift, Staging!SearchTurn
    PROVE  StagingInv'
  <1>1. StagingTypes /\ StagingSize \in Nat /\ (Linear \/ Wrapped) /\ call.pc = "search" /\ call.size # 0
    BY StagingAssumption DEF StagingInv, Staging!NAssumption, Staging!SearchTurn, Staging!Search
  <1>2. /\ producer_pos_ \in Nat /\ consumer_pos_ \in Nat /\ end_of_record_ \in Nat /\ min_free_space_ \in Nat
        /\ call \in [pc : {"idle", "search", "peek", "take"}, size : Nat, blocking : BOOLEAN]
        /\ live \in Seq(Record) /\ Len(live) \in Nat
    BY <1>1 DEF StagingTypes
  <1> DEFINE atEnd == StagingSize - producer_pos_
             wraps == consumer_pos_ <= producer_pos_ /\ atEnd <= call.size /\ consumer_pos_ # 0
             free == IF ~(consumer_pos_ <= producer_pos_) \/ wraps
                     THEN consumer_pos_ - (IF wraps THEN 0 ELSE producer_pos_)
                     ELSE atEnd
  <1>3. /\ min_free_space_' = free /\ UNCHANGED <<consumer_pos_, live, adrift>>
        /\ producer_pos_' = IF wraps THEN 0 ELSE producer_pos_
        /\ end_of_record_' = IF consumer_pos_ <= producer_pos_ /\ atEnd <= call.size
                             THEN producer_pos_ ELSE end_of_record_
    BY DEF Staging!SearchTurn, Staging!Search
  <1>4. /\ call' \in [pc : {"idle", "search", "peek", "take"}, size : Nat, blocking : BOOLEAN]
        /\ call'.pc # "idle" => call'.size = call.size
        /\ call'.pc = "take" => consumer_pos_ <= producer_pos_ /\ atEnd > call.size
    <2>1. call' = CASE consumer_pos_ <= producer_pos_ /\ atEnd > call.size -> [call EXCEPT !.pc = "take"]
                    [] ~call.blocking /\ call.size >= free
                       /\ ~(consumer_pos_ <= producer_pos_ /\ atEnd > call.size) -> Staging!Idle
                    [] OTHER -> [call EXCEPT !.pc = "peek"]
      BY DEF Staging!SearchTurn, Staging!Search
    <2> HIDE DEF atEnd, free
    <2>2. CASE consumer_pos_ <= producer_pos_ /\ atEnd > call.size
      <3>1. call' = [call EXCEPT !.pc = "take"]
        BY <2>1, <2>2
      <3>2. QED
        BY <1>2, <2>2, <3>1
    <2>3. CASE ~(consumer_pos_ <= producer_pos_ /\ atEnd > call.size)
      <3>1. call' = Staging!Idle \/ call' = [call EXCEPT !.pc = "peek"]
        BY <2>1, <2>3
      <3>2. CASE call' = Staging!Idle
        <4>1. /\ call'.pc = "idle"
              /\ call' \in [pc : {"idle", "search", "peek", "take"}, size : Nat, blocking : BOOLEAN]
          BY <3>2 DEF Staging!Idle
        <4>2. QED
          BY <4>1
      <3>3. CASE call' = [call EXCEPT !.pc = "peek"]
        <4>1. /\ call'.pc = "peek" /\ call'.size = call.size
              /\ call' \in [pc : {"idle", "search", "peek", "take"}, size : Nat, blocking : BOOLEAN]
          BY <1>2, <3>3
        <4>2. QED
          BY <4>1
      <3>4. QED
        BY <3>1, <3>2, <3>3
    <2>4. QED
      BY <2>2, <2>3
  <1>5. CASE Linear /\ ~wraps
    <2>1. consumer_pos_ <= producer_pos_ /\ producer_pos_ + min_free_space_ <= StagingSize
          /\ Chain(live, 1, Len(live), consumer_pos_, producer_pos_)
      BY <1>5 DEF Linear
    <2>2. producer_pos_' = producer_pos_ /\ min_free_space_' = StagingSize - producer_pos_
          /\ min_free_space_' \in Nat /\ end_of_record_' \in Nat
      BY <1>1, <1>2, <1>3, <1>5, <2>1
    <2>3. Linear'
      BY <1>1, <1>2, <1>3, <2>1, <2>2 DEF Linear
    <2>4. StagingTypes'
      BY <1>2, <1>3, <1>4, <2>2, <1>1 DEF StagingTypes
    <2>5. QED
      BY <1>1, <1>2, <1>4, <2>2, <2>3, <2>4 DEF StagingInv
  <1>6. CASE Linear /\ wraps
    <2>1. consumer_pos_ <= producer_pos_ /\ producer_pos_ + min_free_space_ <= StagingSize
          /\ Chain(live, 1, Len(live), consumer_pos_, producer_pos_) /\ consumer_pos_ # 0
      BY <1>6 DEF Linear
    <2>2. producer_pos_' = 0 /\ min_free_space_' = consumer_pos_ /\ end_of_record_' = producer_pos_
      BY <1>2, <1>3, <1>6
    <2>3. Chain(live, Len(live) + 1, Len(live), 0, 0)
      BY <1>2 DEF Chain
    <2>4. Wrapped'
      <3>1. Len(live) \in 0 .. Len(live)
        BY <1>2
      <3>2. \E k \in 0 .. Len(live') : /\ Chain(live', 1, k, consumer_pos_', end_of_record_')
                                       /\ Chain(live', k + 1, Len(live'), 0, producer_pos_')
        BY <1>3, <2>1, <2>2, <2>3, <3>1
      <3>3. QED
        BY <1>1, <1>2, <1>3, <2>1, <2>2, <3>2 DEF Wrapped
    <2>5. StagingTypes'
      BY <1>1, <1>2, <1>3, <1>4, <2>2 DEF StagingTypes
    <2>6. call'.pc # "take"
      BY <1>2, <1>4, <1>6, <1>1
    <2>7. QED
      BY <1>1, <1>4, <2>4, <2>5, <2>6 DEF StagingInv
  <1>7. CASE Wrapped
    <2>1. producer_pos_ < consumer_pos_
      BY <1>7 DEF Wrapped
    <2>2. producer_pos_' = producer_pos_ /\ min_free_space_' = consumer_pos_ - producer_pos_
          /\ min_free_space_' \in Nat /\ end_of_record_' = end_of_record_
      BY <1>2, <1>3, <2>1
    <2>3. Wrapped'
      BY <1>2, <1>3, <1>7, <2>2 DEF Wrapped
    <2>4. StagingTypes'
      BY <1>1, <1>2, <1>3, <1>4, <2>2 DEF StagingTypes
    <2>5. QED
      BY <1>1, <1>2, <1>4, <2>1, <2>3, <2>4 DEF StagingInv
  <1>8. QED
    BY <1>1, <1>5, <1>6, <1>7

\* peek rolls consumer_pos_ over when the records before the wrap are gone.
LEMMA PeekKeeps ==
    ASSUME StagingInv, ~adrift, Staging!peek
    PROVE  StagingInv'
  <1>1. StagingTypes /\ StagingSize \in Nat /\ (Linear \/ Wrapped) /\ call.pc = "peek" /\ call.size # 0
    BY StagingAssumption DEF StagingInv, Staging!NAssumption, Staging!peek
  <1>2. /\ producer_pos_ \in Nat /\ consumer_pos_ \in Nat /\ end_of_record_ \in Nat /\ min_free_space_ \in Nat
        /\ call \in [pc : {"idle", "search", "peek", "take"}, size : Nat, blocking : BOOLEAN]
        /\ live \in Seq(Record) /\ Len(live) \in Nat
    BY <1>1 DEF StagingTypes
  <1>3. /\ consumer_pos_' = IF producer_pos_ < consumer_pos_ /\ end_of_record_ = consumer_pos_
                            THEN 0 ELSE consumer_pos_
        /\ UNCHANGED <<producer_pos_, end_of_record_, min_free_space_, live, adrift>>
    BY DEF Staging!peek
  <1>4. /\ call' \in [pc : {"idle", "search", "peek", "take"}, size : Nat, blocking : BOOLEAN]
        /\ call'.size = call.size
        /\ call'.pc = "take" => call.size < min_free_space_
    BY <1>2 DEF Staging!peek
  <1>5. StagingTypes'
    BY <1>1, <1>2, <1>3, <1>4 DEF StagingTypes
  <1>6. Linear' \/ Wrapped'
    <2>1. CASE producer_pos_ < consumer_pos_ /\ end_of_record_ = consumer_pos_
      <3>1. Wrapped
        BY <1>1, <1>2, <2>1 DEF Linear
      <3>2. PICK k \in 0 .. Len(live) : /\ Chain(live, 1, k, consumer_pos_, end_of_record_)
                                        /\ Chain(live, k + 1, Len(live), 0, producer_pos_)
        BY <3>1 DEF Wrapped
      <3>3. k = 0
        <4> SUFFICES ASSUME k # 0 PROVE FALSE
          OBVIOUS
        <4>1. 1 \in 1 .. k /\ 1 \in 1 .. Len(live)
          BY <1>2
        <4>2. consumer_pos_ <= live[1].pos /\ live[1].pos + live[1].len <= end_of_record_
          BY <3>2, <4>1 DEF Chain
        <4>3. live[1].pos \in Nat /\ live[1].len \in Nat \ {0}
          BY <1>2, <4>1, RecordAt
        <4>4. QED
          BY <1>2, <2>1, <4>2, <4>3
      <3>4. Chain(live', 1, Len(live'), 0, producer_pos_')
        BY <1>3, <3>2, <3>3
      <3>5. Linear'
        BY <1>1, <1>2, <1>3, <2>1, <3>1, <3>4 DEF Linear, Wrapped
      <3>6. QED
        BY <3>5
    <2>2. CASE ~(producer_pos_ < consumer_pos_ /\ end_of_record_ = consumer_pos_)
      BY <1>1, <1>3, <2>2 DEF Linear, Wrapped
    <2>3. QED
      BY <2>1, <2>2
  <1>7. QED
    BY <1>1, <1>3, <1>4, <1>5, <1>6 DEF StagingInv

\* A record is handed out at producer_pos_.
LEMMA TakeKeeps ==
    ASSUME StagingInv, ~adrift, Staging!Take
    PROVE  StagingInv'
  <1>1. /\ StagingTypes /\ StagingSize \in Nat /\ (Linear \/ Wrapped) /\ call.size # 0
        /\ call.size < min_free_space_
    BY StagingAssumption DEF StagingInv, Staging!NAssumption, Staging!Take
  <1>2. /\ producer_pos_ \in Nat /\ consumer_pos_ \in Nat /\ end_of_record_ \in Nat /\ min_free_space_ \in Nat
        /\ call.size \in Nat \ {0} /\ live \in Seq(Record) /\ Len(live) \in Nat
    BY <1>1 DEF StagingTypes
  <1> DEFINE r == [pos |-> producer_pos_, len |-> call.size]
  <1>3. /\ live' = Append(live, r) /\ min_free_space_' = min_free_space_ - call.size
        /\ producer_pos_' = producer_pos_ + call.size /\ call' = Staging!Idle
        /\ UNCHANGED <<consumer_pos_, end_of_record_, adrift>>
    BY DEF Staging!Take
  <1>4. r \in Record
    BY <1>2 DEF Record
  <1>5. /\ live' \in Seq(Record) /\ Len(live') = Len(live) + 1
        /\ \A m \in 1 .. Len(live) : live'[m] = live[m]
    <2> HIDE DEF r
    <2>1. QED
      BY <1>2, <1>3, <1>4
  <1>6. StagingTypes'
    BY <1>1, <1>2, <1>3, <1>5 DEF StagingTypes, Staging!Idle
  <1>7. ASSUME NEW i \in 1 .. Len(live) + 1, NEW a \in Nat, Chain(live, i, Len(live), a, producer_pos_)
        PROVE  Chain(live', i, Len(live'), a, producer_pos_')
    BY <1>2, <1>3, <1>5, <1>7, ChainGrows
  <1>8. CASE Linear
    <2>1. Chain(live', 1, Len(live'), consumer_pos_', producer_pos_')
      BY <1>2, <1>3, <1>7, <1>8 DEF Linear
    <2>2. Linear'
      BY <1>1, <1>2, <1>3, <1>8, <2>1 DEF Linear
    <2>3. QED
      BY <1>3, <1>6, <2>2 DEF StagingInv, Staging!Idle
  <1>9. CASE Wrapped
    <2>1. PICK k \in 0 .. Len(live) : /\ Chain(live, 1, k, consumer_pos_, end_of_record_)
                                      /\ Chain(live, k + 1, Len(live), 0, producer_pos_)
      BY <1>9 DEF Wrapped
    <2>2. Chain(live', k + 1, Len(live'), 0, producer_pos_')
      BY <1>2, <1>7, <2>1
    <2>3. Chain(live', 1, k, consumer_pos_', end_of_record_')
      <3>1. 0 \in 0 .. 1 /\ 1 \in Nat /\ k \in Nat /\ 1 + 0 = 1 /\ k + 0 = k
        OBVIOUS
      <3>2. \A m \in 1 .. k : live'[m] = live[m + 0]
        BY <1>2, <1>5
      <3>3. Chain(live, 1 + 0, k + 0, consumer_pos_, end_of_record_)
        BY <2>1, <3>1
      <3>4. Chain(live', 1, k, consumer_pos_, end_of_record_)
        <4>1. consumer_pos_ \in Nat /\ end_of_record_ \in Nat
          BY <1>2
        <4>2. QED
          BY <3>1, <3>2, <3>3, <4>1, ChainMoves, ZenonT(40)
      <3>5. QED
        BY <1>3, <3>4
    <2>4. k \in 0 .. Len(live')
      BY <1>2, <1>5
    <2>5. Wrapped'
      <3>1. /\ producer_pos_ < consumer_pos_ /\ consumer_pos_ <= end_of_record_
            /\ end_of_record_ <= StagingSize /\ producer_pos_ + min_free_space_ <= consumer_pos_
        BY <1>9 DEF Wrapped
      <3>2. /\ producer_pos_' < consumer_pos_' /\ consumer_pos_' <= end_of_record_'
            /\ end_of_record_' <= StagingSize /\ producer_pos_' + min_free_space_' <= consumer_pos_'
        BY <1>1, <1>2, <1>3, <3>1
      <3>3. QED
        BY <2>2, <2>3, <2>4, <3>2 DEF Wrapped
    <2>6. QED
      BY <1>3, <1>6, <2>5 DEF StagingInv, Staging!Idle
  <1>10. QED
    BY <1>1, <1>8, <1>9

\* The oldest record is released.
LEMMA DeallocateKeeps ==
    ASSUME StagingInv, ~adrift, Staging!deallocate
    PROVE  StagingInv'
  <1>1. StagingTypes /\ StagingSize \in Nat /\ (Linear \/ Wrapped)
    BY StagingAssumption DEF StagingInv, Staging!NAssumption
  <1>2. /\ producer_pos_ \in Nat /\ consumer_pos_ \in Nat /\ end_of_record_ \in Nat /\ min_free_space_ \in Nat
        /\ live \in Seq(Record) /\ Len(live) \in Nat
    BY <1>1 DEF StagingTypes
  <1>3. /\ live # <<>> /\ Head(live) = live[1] /\ live' = Tail(live)
        /\ adrift' = (live[1].pos # consumer_pos_) /\ consumer_pos_' = consumer_pos_ + live[1].len
        /\ UNCHANGED <<producer_pos_, end_of_record_, min_free_space_, call>>
    BY <1>2 DEF Staging!deallocate
  <1>4. /\ live' \in Seq(Record) /\ Len(live') = Len(live) - 1 /\ Len(live) # 0
        /\ \A m \in 1 .. Len(live) - 1 : live'[m] = live[m + 1]
    BY <1>2, <1>3
  <1>5. live[1].pos \in Nat /\ live[1].len \in Nat \ {0}
    BY <1>2, <1>4, RecordAt
  <1>6. StagingTypes'
    <2>1. adrift' \in BOOLEAN
      BY <1>3
    <2>2. consumer_pos_' \in Nat
      BY <1>2, <1>3, <1>5
    <2>3. QED
      BY <1>1, <1>3, <1>4, <2>1, <2>2 DEF StagingTypes
  <1>7. ASSUME ~adrift' PROVE Linear' \/ Wrapped'
    <2>1. live[1].pos = consumer_pos_
      BY <1>3, <1>7
    <2>2. CASE Linear
      <3>1. Len(live) \in 1 .. Len(live)
        BY <1>2, <1>4
      <3>2. Chain(live, 1, Len(live), consumer_pos_, producer_pos_)
        BY <2>2 DEF Linear
      <3>3. /\ consumer_pos_ + live[1].len <= producer_pos_
            /\ Chain(Tail(live), 1, Len(live) - 1, consumer_pos_ + live[1].len, producer_pos_)
        BY <1>2, <3>1, <3>2, ChainShrinks
      <3>4. QED
        BY <1>3, <1>4, <2>2, <3>3 DEF Linear
    <2>3. CASE Wrapped
      <3>1. PICK k \in 0 .. Len(live) : /\ Chain(live, 1, k, consumer_pos_, end_of_record_)
                                        /\ Chain(live, k + 1, Len(live), 0, producer_pos_)
        BY <2>3 DEF Wrapped
      <3>2. k # 0
        <4> SUFFICES ASSUME k = 0 PROVE FALSE
          OBVIOUS
        <4>1. live[1].pos = 0
          BY <1>2, <1>4, <3>1 DEF Chain
        <4>2. QED
          BY <1>2, <2>1, <2>3, <4>1 DEF Wrapped
      <3>3. k \in 1 .. Len(live)
        BY <1>2, <3>2
      <3>4. /\ consumer_pos_ + live[1].len <= end_of_record_
            /\ Chain(Tail(live), 1, k - 1, consumer_pos_ + live[1].len, end_of_record_)
        BY <1>2, <3>1, <3>3, ChainShrinks
      <3>5. Chain(live', k, Len(live'), 0, producer_pos_')
        <4> DEFINE n == Len(live) - 1
        <4>1. 1 \in 0 .. 1 /\ k \in Nat /\ n \in Nat /\ 0 \in Nat /\ n + 1 = Len(live)
          BY <1>2, <1>4
        <4>2. \A m \in k .. n : live'[m] = live[m + 1]
          BY <1>4, <3>3
        <4> HIDE DEF n
        <4>3. Chain(live, k + 1, n + 1, 0, producer_pos_)
          BY <3>1, <4>1
        <4>4. Chain(live', k, n, 0, producer_pos_)
          BY <1>2, <4>1, <4>2, <4>3, ChainMoves
        <4>5. QED
          BY <1>3, <1>4, <4>4 DEF n
      <3>6. k - 1 \in 0 .. Len(live') /\ (k - 1) + 1 = k
        BY <1>2, <1>4, <3>3
      <3>7. Wrapped'
        <4>1. \E x \in 0 .. Len(live') : /\ Chain(live', 1, x, consumer_pos_', end_of_record_')
                                         /\ Chain(live', x + 1, Len(live'), 0, producer_pos_')
          BY <1>3, <3>4, <3>5, <3>6
        <4>2. QED
          BY <1>2, <1>3, <1>5, <2>3, <3>4, <4>1, SMTT(30) DEF Wrapped
      <3>8. QED
        BY <3>7
    <2>4. QED
      BY <1>1, <2>2, <2>3
  <1>8. QED
    BY <1>3, <1>6, <1>7 DEF StagingInv

\* Every step of the buffer.
LEMMA StagingKeeps ==
    ASSUME StagingInv, Staging!Next \/ UNCHANGED stagingVars
    PROVE  StagingInv'
  <1>1. CASE UNCHANGED stagingVars
    BY <1>1 DEF stagingVars, StagingInv, StagingTypes, Linear, Wrapped
  <1>2. CASE ~adrift /\ Staging!allocate
    <2>1. PICK size \in Sizes, blocking \in BOOLEAN :
            call' = [pc |-> IF size >= min_free_space_ THEN "search" ELSE "take",
                     size |-> size, blocking |-> blocking]
      BY <1>2 DEF Staging!allocate
    <2>2. size \in Nat \ {0} /\ min_free_space_ \in Nat
      BY StagingAssumption DEF Staging!NAssumption, StagingInv, StagingTypes
    <2>3. UNCHANGED <<producer_pos_, consumer_pos_, end_of_record_, min_free_space_, live, adrift>>
      BY <1>2 DEF Staging!allocate
    <2>4. call' \in [pc : {"idle", "search", "peek", "take"}, size : Nat, blocking : BOOLEAN]
          /\ call'.size # 0 /\ (call'.pc = "take" => call'.size < min_free_space_)
      BY <2>1, <2>2
    <2>5. (Linear \/ Wrapped)' <=> (Linear \/ Wrapped)
      BY <2>3 DEF Linear, Wrapped
    <2>6. StagingTypes'
      BY <2>3, <2>4 DEF StagingInv, StagingTypes
    <2>7. QED
      BY <2>3, <2>4, <2>5, <2>6 DEF StagingInv
  <1>3. QED
    BY <1>1, <1>2, SearchKeeps, PeekKeeps, TakeKeeps, DeallocateKeeps DEF Staging!Next, Staging!InAllocate

\* Whatever the number of bytes and the sizes asked for, however often the ring
\* has wrapped, and as long as every record that is released starts at
\* consumer_pos_: a record lies inside storage_ and no two records in use share
\* a byte (staging_buffer.h, allocate and deallocate).
THEOREM RecordsCorrect == QueuesSpec => []RecordsApart
  <1>1. QueuesInit => StagingInv
    <2> SUFFICES ASSUME QueuesInit PROVE StagingInv
      OBVIOUS
    <2>1. /\ producer_pos_ = 0 /\ consumer_pos_ = 0 /\ end_of_record_ = StagingSize /\ min_free_space_ = StagingSize
          /\ call = [pc |-> "idle", size |-> 0, blocking |-> TRUE] /\ live = <<>> /\ adrift = FALSE
          /\ StagingSize \in Nat
      BY StagingAssumption DEF Staging!NAssumption, QueuesInit, Staging!Init, Staging!Idle
    <2>2. StagingTypes
      <3>1. <<>> \in Seq(Record)
        OBVIOUS
      <3>2. QED
        BY <2>1, <3>1 DEF StagingTypes
    <2>3. Linear
      BY <2>1 DEF Linear, Chain
    <2>4. QED
      BY <2>1, <2>2, <2>3 DEF StagingInv
  <1>2. StagingInv /\ [QueuesNext]_<<unit, vars, ringVars, arrayVars, stagingVars>> => StagingInv'
    BY StagingKeeps DEF QueuesNext
  <1>3. StagingInv => RecordsApart
    <2> SUFFICES ASSUME StagingInv, ~adrift PROVE RecordsApart
      BY DEF RecordsApart, Staging!RecordsApart
    <2>1. /\ producer_pos_ \in Nat /\ consumer_pos_ \in Nat /\ end_of_record_ \in Nat /\ min_free_space_ \in Nat
          /\ live \in Seq(Record) /\ Len(live) \in Nat /\ StagingSize \in Nat /\ (Linear \/ Wrapped)
      BY StagingAssumption DEF Staging!NAssumption, StagingInv, StagingTypes
    <2>2. \A m \in 1 .. Len(live) : live[m].pos \in Nat /\ live[m].len \in Nat \ {0}
      BY <2>1, RecordAt
    <2>3. /\ \A m \in 1 .. Len(live) : live[m].pos + live[m].len <= StagingSize
          /\ \A m, n \in 1 .. Len(live) : m < n =>
                live[m].pos + live[m].len <= live[n].pos \/ live[n].pos + live[n].len <= live[m].pos
      <3>1. CASE Linear
        <4>1. /\ producer_pos_ <= StagingSize
              /\ \A m \in 1 .. Len(live) : live[m].pos + live[m].len <= producer_pos_
              /\ \A m, n \in 1 .. Len(live) : m < n => live[m].pos + live[m].len <= live[n].pos
          BY <2>1, <3>1 DEF Linear, Chain
        <4>2. ASSUME NEW m \in 1 .. Len(live) PROVE live[m].pos + live[m].len <= StagingSize
          <5>1. live[m].pos \in Nat /\ live[m].len \in Nat /\ live[m].pos + live[m].len <= producer_pos_
            BY <2>2, <4>1
          <5>2. QED
            BY <2>1, <4>1, <5>1
        <4>3. QED
          BY <4>1, <4>2
      <3>2. CASE Wrapped
        <4>1. PICK k \in 0 .. Len(live) : /\ Chain(live, 1, k, consumer_pos_, end_of_record_)
                                          /\ Chain(live, k + 1, Len(live), 0, producer_pos_)
          BY <3>2 DEF Wrapped
        <4>2. /\ \A m \in 1 .. k : consumer_pos_ <= live[m].pos /\ live[m].pos + live[m].len <= end_of_record_
              /\ \A m \in k + 1 .. Len(live) : live[m].pos + live[m].len <= producer_pos_
              /\ \A m, n \in 1 .. k : m < n => live[m].pos + live[m].len <= live[n].pos
              /\ \A m, n \in k + 1 .. Len(live) : m < n => live[m].pos + live[m].len <= live[n].pos
          BY <4>1 DEF Chain
        <4>3. \A m \in 1 .. Len(live) : m \in 1 .. k \/ m \in k + 1 .. Len(live)
          BY <2>1
        <4>4. producer_pos_ < consumer_pos_ /\ consumer_pos_ <= end_of_record_ /\ end_of_record_ <= StagingSize
          BY <3>2 DEF Wrapped
        <4>5. ASSUME NEW m \in 1 .. Len(live) PROVE live[m].pos + live[m].len <= StagingSize
          <5>1. live[m].pos \in Nat /\ live[m].len \in Nat
            BY <2>2
          <5>2. \/ live[m].pos + live[m].len <= end_of_record_
                \/ live[m].pos + live[m].len <= producer_pos_
            BY <4>2, <4>3
          <5>3. QED
            BY <2>1, <4>4, <5>1, <5>2
        <4>6. ASSUME NEW m \in 1 .. Len(live), NEW n \in 1 .. Len(live), m < n
              PROVE  live[m].pos + live[m].len <= live[n].pos \/ live[n].pos + live[n].len <= live[m].pos
          <5>1. CASE n \in 1 .. k
            <6>1. m \in 1 .. k
              BY <4>6, <5>1
            <6>2. QED
              BY <4>2, <4>6, <5>1, <6>1
          <5>2. CASE m \in k + 1 .. Len(live)
            <6>1. n \in k + 1 .. Len(live)
              BY <2>1, <4>6, <5>2
            <6>2. QED
              BY <4>2, <4>6, <5>2, <6>1
          <5>3. CASE m \in 1 .. k /\ n \in k + 1 .. Len(live)
            <6>1. consumer_pos_ <= live[m].pos /\ live[n].pos + live[n].len <= producer_pos_
              BY <4>2, <5>3
            <6>2. QED
              BY <2>1, <2>2, <4>4, <6>1
          <5>4. QED
            BY <4>3, <5>1, <5>2, <5>3
        <4>7. QED
          BY <4>5, <4>6
      <3>3. QED
        BY <2>1, <3>1, <3>2
    <2>4. ASSUME NEW m \in 1 .. Len(live) PROVE Staging!Bytes(live[m]) \subseteq 0 .. StagingSize - 1
      <3>1. live[m].pos \in Nat /\ live[m].len \in Nat /\ live[m].pos + live[m].len <= StagingSize
        BY <2>2, <2>3
      <3>2. QED
        BY <2>1, <3>1 DEF Staging!Bytes
    <2>5. ASSUME NEW m \in 1 .. Len(live), NEW n \in 1 .. Len(live), m # n
          PROVE  Staging!Bytes(live[m]) \cap Staging!Bytes(live[n]) = {}
      <3>1. live[m].pos + live[m].len <= live[n].pos \/ live[n].pos + live[n].len <= live[m].pos
        BY <2>1, <2>3, <2>5
      <3>2. live[m].pos \in Nat /\ live[m].len \in Nat /\ live[n].pos \in Nat /\ live[n].len \in Nat
        BY <2>2
      <3>3. ASSUME NEW p \in Nat, NEW a \in Nat, NEW q \in Nat, NEW b \in Nat, p + a <= q \/ q + b <= p
            PROVE  (p .. p + a - 1) \cap (q .. q + b - 1) = {}
        BY <3>3
      <3>4. QED
        BY <3>1, <3>2, <3>3 DEF Staging!Bytes
    <2>6. QED
      BY <2>4, <2>5 DEF RecordsApart, Staging!RecordsApart
  <1>4. QED
    BY <1>1, <1>2, <1>3, PTL DEF QueuesSpec
=============================================================================
