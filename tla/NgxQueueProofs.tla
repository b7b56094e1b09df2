--------------------------- MODULE NgxQueueProofs ----------------------------
(***************************************************************************)
(* For every capacity and every set of elements: the cursors of ngx_queue  *)
(* stay in range, and the ring implements LossyFifo.                       *)
(***************************************************************************)
EXTENDS NgxQueue, SequenceTheorems, TLAPS

USE NallocAssumption, NullAssumption

-----------------------------------------------------------------------------
\* A get keeps the cursors in range.
LEMMA GetIndexInv == IndexInv /\ ngx_queue_get => IndexInv'
  BY DEF IndexInv, ngx_queue_get, ngx_queue_empty, Wrap, Slots

\* A push keeps the cursors in range.
LEMMA PushIndexInv ==
    ASSUME IndexInv, NEW v \in Elem \cup {NULL}, ngx_queue_push(v)
    PROVE  IndexInv'
  <1>1. CASE v = NULL \/ nalloc = ngx_queue_size
    BY <1>1 DEF IndexInv, ngx_queue_push
  <1>2. CASE ~(v = NULL \/ nalloc = ngx_queue_size)
    <2>1. v \in Elem /\ Wrap(end) \in Slots
      BY <1>2 DEF IndexInv, Wrap, Slots
    <2>2. QED
      BY <1>2, <2>1 DEF IndexInv, ngx_queue_push, Slots
  <1>3. QED
    BY <1>1, <1>2

\* The slots ngx_queue_get and ngx_queue_push address exist, whatever nalloc.
THEOREM IndexCorrect == Spec => []IndexInv
  <1>1. Init => IndexInv
    BY DEF Init, ngx_create_queue, IndexInv, Slots
  <1>2. IndexInv /\ [Next]_vars => IndexInv'
    <2>1. ASSUME IndexInv, UNCHANGED vars
          PROVE  IndexInv'
      BY <2>1 DEF IndexInv, vars, Slots
    <2>2. QED
      BY <2>1, GetIndexInv, PushIndexInv DEF Next
  <1>3. QED
    BY <1>1, <1>2, PTL DEF Spec

-----------------------------------------------------------------------------
\* The backlog is a sequence of elements, and its length is what
\* ngx_queue_size returns.
LEMMA BacklogType ==
    ASSUME IndexInv
    PROVE  /\ ngx_queue_size \in 0 .. nalloc
           /\ Backlog \in Seq(Elem)
           /\ Len(Backlog) = ngx_queue_size
           /\ \A i \in 1 .. ngx_queue_size : SlotOf(i) \in Slots
  <1>1. ngx_queue_size \in 0 .. nalloc
    BY DEF IndexInv, ngx_queue_size
  <1>2. \A i \in 1 .. ngx_queue_size : SlotOf(i) \in Slots
    BY DEF IndexInv, ngx_queue_size, SlotOf, Slots
  <1>3. \A i \in 1 .. ngx_queue_size : elts[SlotOf(i)] \in Elem
    BY <1>2 DEF IndexInv
  <1>4. QED
    BY <1>1, <1>2, <1>3 DEF Backlog

\* A get of the ring is a get of the abstract queue.
LEMMA GetRefines ==
    ASSUME IndexInv, IndexInv', ngx_queue_get
    PROVE  Fifo!GetNothing \/ Fifo!GetFirst
  <1>1. CASE ngx_queue_empty
    <2>1. Backlog = <<>>
      BY <1>1, BacklogType DEF ngx_queue_empty, ngx_queue_size, IndexInv
    <2>2. UNCHANGED <<Backlog, head # 0>>
      BY <1>1 DEF ngx_queue_get, Backlog, ngx_queue_size, SlotOf
    <2>3. QED
      BY <1>1, <2>1, <2>2 DEF ngx_queue_get, Fifo!GetNothing
  <1>2. CASE ~ngx_queue_empty
    <2>1. /\ result' = elts[Wrap(head)]
          /\ head' = Wrap(head) + 1
          /\ elts' = elts
          /\ end' = end
      BY <1>2 DEF ngx_queue_get
    <2>2. /\ ngx_queue_size \in 1 .. nalloc
          /\ ngx_queue_size' = ngx_queue_size - 1
      BY <1>2, <2>1 DEF ngx_queue_empty, ngx_queue_size, IndexInv, Wrap
    <2>3. /\ SlotOf(1) = Wrap(head)
          /\ \A i \in 1 .. ngx_queue_size - 1 : SlotOf(i)' = SlotOf(i + 1)
      <3>1. SlotOf(1) = Wrap(head)
        BY DEF SlotOf, Wrap, IndexInv
      <3>2. ASSUME NEW i \in 1 .. ngx_queue_size - 1
            PROVE  SlotOf(i)' = SlotOf(i + 1)
        <4>1. i \in Int /\ 1 <= i /\ i < nalloc
          BY <2>2, <3>2
        <4>2. QED
          BY <2>1, <4>1 DEF SlotOf, Wrap, IndexInv
      <3>3. QED
        BY <3>1, <3>2
    <2>4. Backlog # <<>> /\ Head(Backlog) = elts[Wrap(head)]
      BY <2>2, <2>3, BacklogType DEF Backlog
    <2>5. Backlog' = Tail(Backlog)
      <3>1. Backlog' = [i \in 1 .. ngx_queue_size - 1 |-> elts[SlotOf(i + 1)]]
        BY <2>1, <2>2, <2>3 DEF Backlog
      <3>2. \A i \in 1 .. ngx_queue_size - 1 :
               Backlog[i + 1] = elts[SlotOf(i + 1)]
        BY <2>2 DEF Backlog
      <3>3. /\ Tail(Backlog) \in Seq(Elem)
            /\ Len(Tail(Backlog)) = ngx_queue_size - 1
            /\ \A i \in 1 .. ngx_queue_size - 1 :
                  Tail(Backlog)[i] = Backlog[i + 1]
        BY <2>4, BacklogType, HeadTailProperties
      <3>4. \A i \in 1 .. ngx_queue_size - 1 : elts[SlotOf(i + 1)] \in Elem
        BY <2>2, BacklogType DEF IndexInv
      <3>5. /\ Backlog' \in Seq(Elem)
            /\ Len(Backlog') = ngx_queue_size - 1
        BY <3>1, <3>4, <2>2
      <3>6. QED
        BY <3>1, <3>2, <3>3, <3>5, SeqEqual
    <2>6. head' # 0
      BY <2>1 DEF Wrap, IndexInv
    <2>7. QED
      BY <2>1, <2>4, <2>5, <2>6 DEF Fifo!GetFirst
  <1>3. QED
    BY <1>1, <1>2

\* A push of the ring is refused, accepted, or empties the abstract queue.
LEMMA PushRefines ==
    ASSUME IndexInv, IndexInv',
           NEW v \in Elem \cup {NULL}, ngx_queue_push(v)
    PROVE  Fifo!Refuse(v) \/ Fifo!Accept(v) \/ Fifo!Forget(v)
  <1>1. CASE v = NULL \/ nalloc = ngx_queue_size
    <2>1. UNCHANGED <<elts, head, end>> /\ result' = FALSE
      BY <1>1 DEF ngx_queue_push
    <2>2. UNCHANGED <<Backlog, head # 0>>
      BY <2>1 DEF Backlog, ngx_queue_size, SlotOf
    <2>3. v = NULL \/ (head = 0 /\ Len(Backlog) = nalloc)
      BY <1>1, BacklogType DEF IndexInv, ngx_queue_size
    <2>4. QED
      BY <2>1, <2>2, <2>3 DEF Fifo!Refuse
  <1>2. CASE ~(v = NULL \/ nalloc = ngx_queue_size)
    <2>1. /\ elts' = [elts EXCEPT ![Wrap(end)] = v]
          /\ end' = Wrap(end) + 1
          /\ result' = TRUE
          /\ head' = head
          /\ v \in Elem
          /\ v # NULL
      BY <1>2 DEF ngx_queue_push
    <2>2. CASE head # 0 /\ ngx_queue_size + 1 = nalloc
      <3>1. ngx_queue_size' = 0
        BY <2>1, <2>2 DEF IndexInv, ngx_queue_size, Wrap
      <3>2. Backlog' = <<>>
        BY <3>1 DEF Backlog
      <3>3. QED
        BY <2>1, <2>2, <3>2, BacklogType DEF Fifo!Forget
    <2>3. CASE ~(head # 0 /\ ngx_queue_size + 1 = nalloc)
      <3>1. /\ ngx_queue_size \in 0 .. nalloc - 1
            /\ head # 0 => ngx_queue_size + 1 < nalloc
            /\ ngx_queue_size' = ngx_queue_size + 1
        BY <1>2, <2>1, <2>3, BacklogType DEF IndexInv, ngx_queue_size, Wrap
      <3>2. /\ \A i \in 1 .. ngx_queue_size + 1 : SlotOf(i)' = SlotOf(i)
            /\ SlotOf(ngx_queue_size + 1) = Wrap(end)
            /\ \A i \in 1 .. ngx_queue_size : SlotOf(i) # Wrap(end)
            /\ Wrap(end) \in Slots
        <4>1. \A i : SlotOf(i)' = SlotOf(i)
          BY <2>1 DEF SlotOf
        <4>2. Wrap(end) \in Slots
          BY DEF Wrap, IndexInv, Slots
        <4>3. SlotOf(ngx_queue_size + 1) = Wrap(end)
          BY <3>1 DEF SlotOf, Wrap, IndexInv, ngx_queue_size
        <4>4. ASSUME NEW i \in 1 .. ngx_queue_size
              PROVE  SlotOf(i) # Wrap(end)
          <5>1. i \in Int /\ 1 <= i /\ i <= ngx_queue_size
            BY <3>1, <4>4
          <5>2. QED
            BY <3>1, <5>1 DEF SlotOf, Wrap, IndexInv, ngx_queue_size
        <4>5. QED
          BY <4>1, <4>2, <4>3, <4>4
      <3>3. \A i \in 1 .. ngx_queue_size : elts'[SlotOf(i)] = elts[SlotOf(i)]
        BY <2>1, <3>2, BacklogType DEF IndexInv
      <3>4. elts'[SlotOf(ngx_queue_size + 1)] = v
        BY <2>1, <3>2 DEF IndexInv
      <3>5. Backlog' = Append(Backlog, v)
        <4>1. Backlog' = [i \in 1 .. ngx_queue_size + 1 |-> elts'[SlotOf(i)]]
          BY <3>1, <3>2 DEF Backlog
        <4>2. \A i \in 1 .. ngx_queue_size + 1 :
                 elts'[SlotOf(i)] = IF i = ngx_queue_size + 1
                                    THEN v ELSE Backlog[i]
          BY <3>1, <3>3, <3>4 DEF Backlog
        <4>3. /\ Append(Backlog, v) \in Seq(Elem)
              /\ Len(Append(Backlog, v)) = ngx_queue_size + 1
              /\ \A i \in 1 .. ngx_queue_size : Append(Backlog, v)[i] = Backlog[i]
              /\ Append(Backlog, v)[ngx_queue_size + 1] = v
          BY <2>1, BacklogType, AppendProperties
        <4>4. \A i \in 1 .. ngx_queue_size : Backlog[i] \in Elem
          BY BacklogType
        <4>5. /\ Backlog' \in Seq(Elem)
              /\ Len(Backlog') = ngx_queue_size + 1
          BY <2>1, <3>1, <4>1, <4>2, <4>4
        <4>6. \A i \in 1 .. ngx_queue_size + 1 :
                 Backlog'[i] = Append(Backlog, v)[i]
          <5>1. \A i \in 1 .. ngx_queue_size + 1 :
                   i = ngx_queue_size + 1 \/ i \in 1 .. ngx_queue_size
            BY <3>1
          <5>2. QED
            BY <4>1, <4>2, <4>3, <5>1
        <4>7. QED
          BY <4>3, <4>5, <4>6, SeqEqual
      <3>6. QED
        BY <2>1, <3>1, <3>5, BacklogType DEF Fifo!Accept
    <2>4. QED
      BY <2>2, <2>3
  <1>3. QED
    BY <1>1, <1>2

\* ngx_queue implements LossyFifo: whatever the capacity, gets return the
\* accepted elements once and in order, and only the push that makes end
\* catch up with head loses elements.
THEOREM QueueRefines == Spec => RefinesLossyFifo
  <1>1. Init => Fifo!Init
    <2>1. SUFFICES ASSUME Init PROVE Fifo!Init
      OBVIOUS
    <2>2. ngx_queue_size = 0
      BY <2>1 DEF Init, ngx_create_queue, ngx_queue_size
    <2>3. Backlog = <<>>
      BY <2>2 DEF Backlog
    <2>4. QED
      BY <2>1, <2>3 DEF Init, ngx_create_queue, Fifo!Init
  <1>2. IndexInv /\ IndexInv' /\ [Next]_vars => [Fifo!Next]_Fifo!vars
    <2>1. ASSUME UNCHANGED vars
          PROVE  UNCHANGED Fifo!vars
      BY <2>1 DEF vars, Fifo!vars, Backlog, ngx_queue_size, SlotOf
    <2>2. ASSUME IndexInv, IndexInv', Next
          PROVE  Fifo!Next
      BY <2>2, GetRefines, PushRefines DEF Next, Fifo!Next
    <2>3. QED
      BY <2>1, <2>2
  <1>3. QED
    BY <1>1, <1>2, IndexCorrect, PTL DEF Spec, RefinesLossyFifo, Fifo!Spec
=============================================================================
