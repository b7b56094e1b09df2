---------------------------- MODULE StagingBuffer ----------------------------
(***************************************************************************)
(* basic/staging_buffer.h: a producer allocates records in a byte ring and *)
(* a consumer releases them in order.  producer_pos_, consumer_pos_ and    *)
(* end_of_record_ are offsets into storage_; min_free_space_ is the        *)
(* producer's cached lower bound on the room.  peek is private: only       *)
(* allocate calls it, and so the producer rolls consumer_pos_ over.        *)
(***************************************************************************)
EXTENDS Integers, Sequences

CONSTANTS
    N,          \* bytes of storage_
    Sizes       \* sizes the producer asks for

NAssumption == N \in Nat \ {0} /\ Sizes \subseteq 1..N

VARIABLES
    producer_pos_, consumer_pos_, end_of_record_, min_free_space_,
    call,       \* the producer's call of allocate: pc, size, blocking
    live,       \* the records allocated and not yet released, oldest first
    adrift      \* a record was released that did not start at consumer_pos_

vars == <<producer_pos_, consumer_pos_, end_of_record_, min_free_space_, call,
          live, adrift>>

Idle == [pc |-> "idle", size |-> 0, blocking |-> TRUE]

Init ==
    /\ producer_pos_ = 0 /\ consumer_pos_ = 0 /\ end_of_record_ = N
    /\ min_free_space_ = N
    /\ call = Idle /\ live = <<>> /\ adrift = FALSE

allocate ==
    /\ call.pc = "idle"
    /\ \E size \in Sizes, blocking \in BOOLEAN :
        call' = [pc |-> IF size >= min_free_space_ THEN "search" ELSE "take",
                 size |-> size, blocking |-> blocking]
    /\ UNCHANGED <<producer_pos_, consumer_pos_, end_of_record_, min_free_space_, live, adrift>>

\* One turn of the loop up to peek; consumer_pos_ is read once (line 40).
Search(mayWrap) ==
    /\ call.pc = "search"
    /\ LET behind == consumer_pos_ <= producer_pos_
           atEnd  == N - producer_pos_
           wraps  == behind /\ atEnd <= call.size /\ mayWrap
           free   == IF ~behind \/ wraps
                     THEN consumer_pos_ - (IF wraps THEN 0 ELSE producer_pos_)
                     ELSE atEnd
       IN /\ min_free_space_' = free
          /\ producer_pos_' = IF wraps THEN 0 ELSE producer_pos_
          /\ end_of_record_' = IF behind /\ atEnd <= call.size
                               THEN producer_pos_ ELSE end_of_record_
          /\ call' = CASE behind /\ atEnd > call.size -> [call EXCEPT !.pc = "take"]
                       [] ~call.blocking /\ call.size >= free
                          /\ ~(behind /\ atEnd > call.size) -> Idle
                       [] OTHER -> [call EXCEPT !.pc = "peek"]
    /\ UNCHANGED <<consumer_pos_, live, adrift>>
SearchWrapsAtStart == Search(TRUE)
SearchTurn == Search(consumer_pos_ # 0)

peekNoRoll ==
    /\ call.pc = "peek"
    /\ call' = [call EXCEPT
                !.pc = IF call.size >= min_free_space_ THEN "search" ELSE "take"]
    /\ UNCHANGED <<producer_pos_, consumer_pos_, end_of_record_, min_free_space_, live, adrift>>
\* byte_available is unsigned: only a difference of exactly zero rolls over.
peek ==
    /\ call.pc = "peek"
    /\ consumer_pos_' = IF producer_pos_ < consumer_pos_ /\ end_of_record_ = consumer_pos_
                        THEN 0 ELSE consumer_pos_
    /\ call' = [call EXCEPT
                !.pc = IF call.size >= min_free_space_ THEN "search" ELSE "take"]
    /\ UNCHANGED <<producer_pos_, end_of_record_, min_free_space_, live, adrift>>

Take ==
    /\ call.pc = "take"
    /\ live' = Append(live, [pos |-> producer_pos_, len |-> call.size])
    /\ min_free_space_' = min_free_space_ - call.size
    /\ producer_pos_' = producer_pos_ + call.size
    /\ call' = Idle
    /\ UNCHANGED <<consumer_pos_, end_of_record_, adrift>>

\* The size is added to consumer_pos_, wherever the record is: after a wrap the
\* two agree only once a peek inside allocate has rolled consumer_pos_ over.
deallocate ==
    /\ live # <<>>
    /\ adrift' = (Head(live).pos # consumer_pos_)
    /\ consumer_pos_' = consumer_pos_ + Head(live).len
    /\ live' = Tail(live)
    /\ UNCHANGED <<producer_pos_, end_of_record_, min_free_space_, call>>

InAllocate == SearchTurn \/ peek \/ Take

Next == ~adrift /\ (allocate \/ InAllocate \/ deallocate)

\* allocate is a loop that keeps running, and a consumer keeps consuming what
\* is at consumer_pos_.
Fairness == WF_vars(~adrift /\ InAllocate) /\ WF_vars(~adrift /\ deallocate /\ ~adrift')

Spec == Init /\ [][Next]_vars /\ Fairness

-----------------------------------------------------------------------------
(* Properties. *)

Bytes(r) == r.pos..r.pos + r.len - 1

\* "FIFO Bytes Buffer" (line 20): a record lies inside storage_ and no two
\* records that are in use share a byte, however often the ring has wrapped, as
\* long as every record that is released starts at consumer_pos_ (line 88).
RecordsApart == ~adrift =>
    /\ \A i \in 1..Len(live) : Bytes(live[i]) \subseteq 0..N - 1
    /\ \A i, j \in 1..Len(live) : i # j => Bytes(live[i]) \cap Bytes(live[j]) = {}

\* A blocking allocate of less than the whole buffer returns once the consumer
\* has caught up: the wrap of lines 49-56 and the roll-over of line 101 free
\* every byte sooner or later.
AllocateReturns == (call.pc = "search" /\ call.blocking /\ call.size < N)
                        ~> (call.pc = "take" \/ adrift)
=============================================================================
