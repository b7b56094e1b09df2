------------------------------ MODULE NgxQueue -------------------------------
(***************************************************************************)
(* core/ngx_queue.cpp: a ring of nalloc slots with two cursors.  head is   *)
(* the slot of the next get and end the slot of the next push; both run    *)
(* from 0 to nalloc, and a cursor that stands at nalloc is taken back to 0 *)
(* by the operation that uses it next, not by the one that moved it there. *)
(***************************************************************************)
EXTENDS Integers, Sequences

CONSTANTS
    nalloc,     \* number of slots (1024 in tcp_conn)
    Elem,       \* the elements that can be queued (ngx_buf_t pointers)
    NULL        \* a null pointer, as an argument or as a result

ASSUME NallocAssumption == nalloc \in Nat \ {0}
ASSUME NullAssumption == NULL \notin Elem

VARIABLES
    elts,       \* the slots
    head, end,  \* the cursors
    result      \* what the last operation returned

vars == <<elts, head, end, result>>

Slots == 0 .. nalloc - 1

\* The pool hands out memory it does not clear: any content is possible.
ngx_create_queue ==
    /\ elts \in [Slots -> Elem]
    /\ head = 0
    /\ end = 0
    /\ result = NULL

ngx_queue_size ==
    IF end < head THEN end + nalloc - head ELSE end - head

ngx_queue_empty == end = head

\* A cursor at the end of the array is first taken back to its start.
Wrap(cursor) == IF cursor >= nalloc THEN 0 ELSE cursor

\* For mutation: a get that does not take head back from the end.
GetNoWrap ==
    IF ngx_queue_empty
    THEN /\ result' = NULL
         /\ UNCHANGED <<elts, head, end>>
    ELSE /\ result' = elts[Wrap(head)]
         /\ head' = head + 1
         /\ UNCHANGED <<elts, end>>

ngx_queue_get ==
    IF ngx_queue_empty
    THEN /\ result' = NULL
         /\ UNCHANGED <<elts, head, end>>
    ELSE /\ result' = elts[Wrap(head)]
         /\ head' = Wrap(head) + 1
         /\ UNCHANGED <<elts, end>>

\* For mutation: a push that forgets to refuse when the ring is full.
PushUnchecked(v) ==
    IF v = NULL
    THEN /\ result' = FALSE
         /\ UNCHANGED <<elts, head, end>>
    ELSE /\ elts' = [elts EXCEPT ![Wrap(end)] = v]
         /\ end' = Wrap(end) + 1
         /\ result' = TRUE
         /\ UNCHANGED head

ngx_queue_push(v) ==
    IF v = NULL \/ nalloc = ngx_queue_size
    THEN /\ result' = FALSE
         /\ UNCHANGED <<elts, head, end>>
    ELSE /\ elts' = [elts EXCEPT ![Wrap(end)] = v]
         /\ end' = Wrap(end) + 1
         /\ result' = TRUE
         /\ UNCHANGED head

Init == ngx_create_queue

Next ==
    \/ ngx_queue_get
    \/ \E v \in Elem \cup {NULL} : ngx_queue_push(v)

Spec == Init /\ [][Next]_vars

-----------------------------------------------------------------------------
\* Neither cursor of the ring ever leaves the range in which ngx_queue_get
\* and ngx_queue_push address a slot of elts, and end never stands at 0 again
\* once the queue has been used.
IndexInv ==
    /\ elts \in [Slots -> Elem]
    /\ head \in 0 .. nalloc
    /\ end \in 0 .. nalloc
    /\ result \in Elem \cup {NULL} \cup BOOLEAN
    /\ end = 0 => head = 0

\* The slot of the i-th element a sequence of gets would return.
SlotOf(i) ==
    IF head + i - 1 >= nalloc THEN head + i - 1 - nalloc ELSE head + i - 1

Backlog == [i \in 1 .. ngx_queue_size |-> elts[SlotOf(i)]]

Fifo == INSTANCE LossyFifo WITH q <- Backlog, drained <- (head # 0)

\* ngx_queue behaves as LossyFifo: gets return the accepted elements once, in
\* order and never the memory a slot held before it was written, a push is
\* refused only in a full queue nothing was taken from, and elements are lost
\* only by the push that makes the backlog nalloc (end catches up with head).
RefinesLossyFifo == Fifo!Spec
=============================================================================
