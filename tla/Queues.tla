------------------------------- MODULE Queues --------------------------------
(***************************************************************************)
(* The four queues of the repository, each on its own: unit says which one *)
(* a behaviour is about, and the others stay as they were made.            *)
(*                                                                         *)
(*   queue    core/ngx_queue.cpp, by NgxQueue                              *)
(*   ring     basic/ringbuffer.hpp, by Ringbuffer                          *)
(*   array    basic/lock_free_array.h, by LockFreeArray                    *)
(*   staging  basic/staging_buffer.h, by StagingBuffer                     *)
(***************************************************************************)
EXTENDS NgxQueue

CONSTANTS
    buffer_size, IndexRange, Values, MaxCount,      \* of Ringbuffer
    ArraySize, Producers, Consumers, MaxIndex,      \* of LockFreeArray
    StagingSize, Sizes                              \* of StagingBuffer

VARIABLES
    unit,
    rhead, tail, data_buff, prod, cons, buff, view, room, narrow, raced, misjudged,
    write_index, read_index, max_num_read_index, queue_, push, pop,
    clobbered, overlap,
    producer_pos_, consumer_pos_, end_of_record_, min_free_space_, call, live,
    adrift

ringVars == <<rhead, tail, data_buff, prod, cons, buff, view, room, narrow, raced, misjudged>>
arrayVars ==
    <<write_index, read_index, max_num_read_index, queue_, push, pop, clobbered, overlap>>
stagingVars ==
    <<producer_pos_, consumer_pos_, end_of_record_, min_free_space_, call, live,
      adrift>>

Ring == INSTANCE Ringbuffer WITH head <- rhead
Array == INSTANCE LockFreeArray WITH N <- ArraySize
Staging == INSTANCE StagingBuffer WITH N <- StagingSize

ASSUME RingAssumption == Ring!SizeAssumption
ASSUME ArrayAssumption == Array!NAssumption
ASSUME StagingAssumption == Staging!NAssumption

QueuesInit ==
    /\ unit \in {"queue", "ring", "array", "staging"}
    /\ Init /\ Ring!Init /\ Array!Init /\ Staging!Init
    /\ unit = "queue" \/ elts = [s \in Slots |-> CHOOSE e \in Elem : TRUE]
    /\ unit = "ring" \/ (data_buff = [s \in Ring!Slots |-> CHOOSE v \in Values : TRUE] /\ ~narrow)

QueuesNext ==
    /\ UNCHANGED unit
    /\ \/ /\ unit = "queue" /\ Next
          /\ UNCHANGED <<ringVars, arrayVars, stagingVars>>
       \/ /\ unit = "ring" /\ Ring!Next
          /\ UNCHANGED <<vars, arrayVars, stagingVars>>
       \/ /\ unit = "array" /\ Array!Next
          /\ UNCHANGED <<vars, ringVars, stagingVars>>
       \/ /\ unit = "staging" /\ Staging!Next
          /\ UNCHANGED <<vars, ringVars, arrayVars>>

QueuesSpec ==
    /\ QueuesInit
    /\ [][QueuesNext]_<<unit, vars, ringVars, arrayVars, stagingVars>>
    /\ Array!Fairness /\ Staging!Fairness

-----------------------------------------------------------------------------
(* The properties of the parts, under names of this module. *)

\* ringbuffer.hpp: at most buffer_size elements lie between tail and head, a
\* pointer into the ring keeps its element, and an answer of writeAvailable
\* stays true, whatever the other side does meanwhile; insert and at misjudge
\* the ring only with a narrow index_t, between the wraps of head and tail.
RingSafe == Ring!RingSafe
\* ringbuffer.hpp: the ring implements BoundedFifo.
ImplementsFifo == Ring!ImplementsFifo
\* lock_free_array.h: try_pop returns what was pushed at its index unless it
\* read too early or a slot was overwritten, no two consumers take the same
\* index, and read_index passes write_index only after consumers overlapped.
ArraySafe == Array!TakenStored /\ Array!TakenOnce /\ Array!ReadNotPastWrite
\* lock_free_array.h: a producer with an index returns from push.
PushReturns == Array!PushReturns
\* staging_buffer.h: records lie inside storage_ and share no byte.
RecordsApart == Staging!RecordsApart
\* staging_buffer.h: a blocking allocate returns.
AllocateReturns == Staging!AllocateReturns
=============================================================================
