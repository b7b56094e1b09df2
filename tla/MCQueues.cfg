\* ngx_queue: three slots, so that it wraps, fills before the first get and overflows.
\* ringbuffer: two slots and four indices, so that both wrap, with an index_t as
\* wide as int and a narrower one.  lock_free_array: six slots, the smallest
\* size that compiles and accepts an element, and indices up to 6, the first
\* that overwrites an element nobody has popped.  staging_buffer: seven bytes
\* and records of all sizes.
CONSTANTS
    nalloc = 3
    Elem = {e1, e2}
    NULL = NULL
    buffer_size = 2
    IndexRange = 4
    Values = {a, b}
    MaxCount = 2
    ArraySize = 6
    Producers = {p1, p2}
    Consumers = {c1, c2}
    MaxIndex = 7
    StagingSize = 7
    Sizes = {1, 2, 3, 4, 6, 7}
SPECIFICATION QueuesSpec
INVARIANTS
    IndexInv
    RingSafe
    ArraySafe
    RecordsApart
PROPERTIES
    RefinesLossyFifo
    ImplementsFifo
    PushReturns
    AllocateReturns
CHECK_DEADLOCK FALSE
