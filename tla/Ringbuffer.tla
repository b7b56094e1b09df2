----------------------------- MODULE Ringbuffer -----------------------------
(***************************************************************************)
(* basic/ringbuffer.hpp: a ring shared by one producer and one consumer.   *)
(* head and tail are free-running unsigned indices of width index_t; a     *)
(* slot is an index modulo buffer_size.  Each thread owns one index, loads *)
(* the other one once per batch, works on the slots one at a time and then *)
(* stores its own index.  These are the steps here; the acquire/release    *)
(* pairs of the class make them sequentially consistent.                   *)
(*                                                                         *)
(* Where the code stores a difference of indices in an index_t it is taken *)
(* modulo the range.  insert and at compare it as it is with a size_t: for *)
(* an index_t narrower than int it was promoted to int and is negative     *)
(* once head has wrapped and tail has not.                                 *)
(***************************************************************************)
EXTENDS Integers, Sequences

CONSTANTS
    buffer_size,    \* number of slots
    IndexRange,     \* number of values of index_t
    Values,         \* elements
    MaxCount        \* bound: the longest batch a caller asks for

\* The static_asserts of the class (a power of 2, at most half the range).
SizeAssumption ==
    /\ IndexRange \in Nat \ {0} /\ buffer_size \in Nat \ {0}
    /\ IndexRange % buffer_size = 0 /\ 2 * buffer_size <= IndexRange
    /\ MaxCount \in Nat

VARIABLES
    head, tail, data_buff,
    prod,       \* the producer's call: pc, its copy of head, items left, batch
    cons,       \* the consumer's call: pc, its copy of tail, count left, batch
    buff,       \* what the last call of the consumer delivered
    view,       \* slots the consumer has a pointer to, with what it saw there
    room,       \* what writeAvailable told the producer, less what it wrote
    narrow,     \* is index_t narrower than int?
    raced,      \* producerClear has met a consumer inside a call or with a pointer
    misjudged   \* insert did not see a full ring, or at an index past the end

flags == <<raced, narrow, misjudged>>
vars == <<head, tail, data_buff, prod, cons, buff, view, room, flags>>

Slots == 0..buffer_size - 1
Minus(a, b) == (a - b) % IndexRange
AtMost(a, b) == IF a < b THEN a ELSE b
Slot(i) == i % buffer_size

\* head - tail as insert and at compare it.
Difference == IF narrow THEN head - tail ELSE Minus(head, tail)

readAvailable == Minus(head, tail)
writeAvailable == (buffer_size - Minus(head, tail)) % IndexRange

PIdle == [pc |-> "idle", head |-> 0, items |-> <<>>, todo |-> 0, loop |-> FALSE]
CIdle == [pc |-> "idle", tail |-> 0, left |-> 0, todo |-> 0, loop |-> FALSE,
          got |-> <<>>]

Init ==
    /\ head = 0 /\ tail = 0
    /\ data_buff \in [Slots -> Values]
    /\ prod = PIdle /\ cons = CIdle
    /\ buff = <<>> /\ view = {} /\ room = 0
    /\ narrow \in BOOLEAN /\ raced = FALSE /\ misjudged = FALSE

-----------------------------------------------------------------------------
(* The producer. *)

\* tail is loaded: at most n of items can go in before head is stored.
LoadTailOffByOne(h, items, n, loop) ==
    LET available == (buffer_size + 1 - Minus(h, tail)) % IndexRange IN
    IF available = 0 THEN PIdle
    ELSE [pc |-> "write", head |-> h, items |-> items,
          todo |-> AtMost(n, available), loop |-> loop]
LoadTail(h, items, n, loop) ==
    LET available == (buffer_size - Minus(h, tail)) % IndexRange IN
    IF available = 0 THEN PIdle
    ELSE [pc |-> "write", head |-> h, items |-> items,
          todo |-> AtMost(n, available), loop |-> loop]

StartWrite(items, n, loop) ==
    /\ prod.pc = "idle"
    /\ prod' = LoadTail(head, items, n, loop)
    /\ UNCHANGED <<head, tail, data_buff, cons, buff, view, room, flags>>

\* insert goes by an equality: what it overwrites in a full ring that it does
\* not see to be full is not described any more.
insert ==
    /\ prod.pc = "idle"
    /\ \E v \in Values :
          prod' = IF Difference = buffer_size THEN PIdle
                  ELSE [pc |-> "write", head |-> head, items |-> <<v>>, todo |-> 1, loop |-> FALSE]
    /\ misjudged' = (Difference # buffer_size /\ readAvailable = buffer_size)
    /\ UNCHANGED <<head, tail, data_buff, cons, buff, view, room, narrow, raced>>

writeBuff ==
    \E n \in 1..MaxCount : \E items \in [1..n -> Values] :
        StartWrite(items, n, FALSE)

\* The batches end where the callback is due: after count_to_callback
\* elements first, then whenever the ring is full.
writeBuffCallback ==
    \E n \in 1..MaxCount : \E items \in [1..n -> Values] :
    \E count_to_callback \in 0..MaxCount :
        StartWrite(items,
            IF count_to_callback \in 1..n - 1 THEN count_to_callback ELSE n, TRUE)

WriteSlot ==
    /\ prod.pc = "write"
    /\ data_buff' = [data_buff EXCEPT ![Slot(prod.head)] = Head(prod.items)]
    /\ prod' = [prod EXCEPT !.items = Tail(@), !.todo = @ - 1,
                            !.head = (@ + 1) % IndexRange,
                            !.pc = IF prod.todo = 1 THEN "store" ELSE "write"]
    /\ UNCHANGED <<head, tail, cons, buff, view, room, flags>>

StoreHead ==
    /\ prod.pc = "store"
    /\ head' = prod.head
    /\ prod' = IF prod.loop /\ prod.items # <<>>
               THEN [prod EXCEPT !.pc = "load"] ELSE PIdle
    /\ room' = room - AtMost(room, Minus(prod.head, head))
    /\ UNCHANGED <<tail, data_buff, cons, buff, view, flags>>

WriteAgain ==
    /\ prod.pc = "load"
    /\ prod' = LoadTail(prod.head, prod.items, Len(prod.items), TRUE)
    /\ UNCHANGED <<head, tail, data_buff, cons, buff, view, room, flags>>

\* isFull and writeAvailable, asked by the producer.
AskRoomStaleTail ==
    /\ prod.pc = "idle"
    /\ room' = buffer_size
    /\ UNCHANGED <<head, tail, data_buff, prod, cons, buff, view, flags>>
AskRoom ==
    /\ prod.pc = "idle"
    /\ room' = writeAvailable
    /\ UNCHANGED <<head, tail, data_buff, prod, cons, buff, view, flags>>

\* A consumer inside a call has an older tail, which it will store, and one
\* that holds a pointer will find it overwritten: what comes after that is
\* not described any more (line 62).
producerClear ==
    /\ prod.pc = "idle"
    /\ raced' = (cons.pc # "idle" \/ view # {})
    /\ tail' = head
    /\ buff' = <<>>
    /\ UNCHANGED <<head, data_buff, prod, cons, view, room, narrow, misjudged>>

-----------------------------------------------------------------------------
(* The consumer. *)

\* head is loaded: at most n of the count elements can be read now.
LoadHead(t, count, n, loop) ==
    LET available == Minus(head, t) IN
    IF available = 0 THEN CIdle
    ELSE [pc |-> "read", tail |-> t, left |-> count,
          todo |-> AtMost(n, available), loop |-> loop, got |-> <<>>]

StartRead(count, n, loop) ==
    /\ cons.pc = "idle"
    /\ cons' = LoadHead(tail, count, n, loop)
    /\ UNCHANGED <<head, tail, data_buff, prod, buff, view, room, flags>>

\* head is loaded and n elements are dropped by the store of tail.
StartDrop(n) ==
    /\ cons.pc = "idle"
    /\ cons' = [CIdle EXCEPT !.pc = "store", !.tail = (tail + n) % IndexRange]
    /\ UNCHANGED <<head, tail, data_buff, prod, buff, view, room, flags>>

removeElement == StartRead(1, 1, FALSE)

\* One that reads nothing stores tail all the same (line 427).
readBuff ==
    \E n \in 0..MaxCount :
        IF n = 0 \/ readAvailable = 0 THEN StartDrop(0) ELSE StartRead(n, n, FALSE)

readBuffCallback ==
    \E n \in 1..MaxCount : \E count_to_callback \in 0..MaxCount :
        StartRead(n,
            IF count_to_callback \in 1..n - 1 THEN count_to_callback ELSE n, TRUE)

ReadSlotSame ==
    /\ cons.pc = "read"
    /\ cons' = [cons EXCEPT !.got = Append(@, data_buff[Slot(tail)]),
                            !.tail = (@ + 1) % IndexRange,
                            !.left = @ - 1, !.todo = @ - 1,
                            !.pc = IF cons.todo = 1 THEN "store" ELSE "read"]
    /\ UNCHANGED <<head, tail, data_buff, prod, buff, view, room, flags>>
ReadSlot ==
    /\ cons.pc = "read"
    /\ cons' = [cons EXCEPT !.got = Append(@, data_buff[Slot(cons.tail)]),
                            !.tail = (@ + 1) % IndexRange,
                            !.left = @ - 1, !.todo = @ - 1,
                            !.pc = IF cons.todo = 1 THEN "store" ELSE "read"]
    /\ UNCHANGED <<head, tail, data_buff, prod, buff, view, room, flags>>

StoreTail ==
    /\ cons.pc = "store"
    /\ tail' = cons.tail
    /\ buff' = cons.got
    /\ cons' = IF cons.loop /\ cons.left > 0
               THEN [cons EXCEPT !.pc = "load", !.got = <<>>] ELSE CIdle
    /\ view' = IF cons.tail = tail THEN view ELSE {}
    /\ UNCHANGED <<head, data_buff, prod, room, flags>>

ReadAgain ==
    /\ cons.pc = "load"
    /\ cons' = LoadHead(cons.tail, cons.left, cons.left, TRUE)
    /\ UNCHANGED <<head, tail, data_buff, prod, buff, view, room, flags>>

remove == readAvailable > 0 /\ StartDrop(1)

removeCount == \E cnt \in 0..MaxCount : StartDrop(AtMost(cnt, readAvailable))

consumerClear == StartDrop(readAvailable)

\* peek, at and operator[] (whose caller knows the index) hand out a pointer
\* into the ring.
Look(index) ==
    /\ cons.pc = "idle"
    /\ LET s == Slot(tail + index) IN view' = view \cup {<<s, data_buff[s]>>}
    /\ misjudged' = (readAvailable <= index)
    /\ UNCHANGED <<head, tail, data_buff, prod, cons, buff, room, narrow, raced>>

peek == readAvailable > 0 /\ Look(0)

\* A negative difference is a huge size_t.
at ==
    \E index \in 1..buffer_size : (Difference < 0 \/ Difference > index) /\ Look(index)

Step ==
    \/ insert \/ writeBuff \/ writeBuffCallback \/ WriteSlot \/ StoreHead
    \/ WriteAgain \/ AskRoom \/ producerClear
    \/ removeElement \/ readBuff \/ readBuffCallback \/ ReadSlot \/ StoreTail
    \/ ReadAgain \/ remove \/ removeCount \/ consumerClear \/ peek \/ at

Next == ~raced /\ ~misjudged /\ Step

Spec == Init /\ [][Next]_vars

-----------------------------------------------------------------------------
(* Properties. *)

\* Never more than buffer_size elements between tail and head, whatever the
\* wrap of index_t: insert compares for equality with buffer_size (line 101)
\* and writeBuff subtracts from it (line 358), so one element too many would
\* make both believe that there is room.
NeverOverfull == readAvailable <= buffer_size

\* A pointer handed out by peek, at or operator[] ("safe to use ... only on
\* consumer side", line 224) keeps its element until the consumer moves tail.
ViewStable == \A v \in view : data_buff[v[1]] = v[2]

\* What writeAvailable returned to the producer stays true while the consumer
\* works: the answer can only become too small (line 94).
RoomHolds == room <= writeAvailable

\* insert and at are only wrong for an index_t narrower than int, and then
\* only while head has wrapped and tail has not (lines 106 and 248).
OnlyNarrowMisjudges == misjudged => narrow /\ head < tail

\* At most buffer_size elements lie between tail and head, a pointer into the
\* ring keeps its element, and an answer of writeAvailable stays true,
\* whatever the other side does meanwhile; and insert and at judge the ring
\* rightly but for a narrow index_t between the two wraps.
RingSafe == NeverOverfull /\ ViewStable /\ RoomHolds /\ OnlyNarrowMisjudges

\* The ring implements a bounded FIFO: batches appear and leave whole and in
\* order, across the wrap of the indices and of the slots.
Inside == [i \in 1..readAvailable |-> data_buff[Slot(tail + i - 1)]]
Fifo == INSTANCE BoundedFifo WITH
    Capacity <- buffer_size, queue <- Inside, out <- buff
ImplementsFifo == Fifo!Spec
=============================================================================
